SPECIFICATION Spec
CONSTANTS
  Rows = {r1}
  Callers = {w, a}
  Worker = w
  MaxAttempts = 5
  MaxFaults = 0
  MaxOvertakes = 1
  None = None
  r1 = r1
  w = w
  a = a
PROPERTIES
  OutcomeFinal
CHECK_DEADLOCK FALSE
