SPECIFICATION FairSpec
CONSTANTS
  Rows = {r1}
  Callers = {w, a}
  Worker = w
  MaxAttempts = 2
  MaxFaults = 1
  MaxOvertakes = 2
  None = None
  r1 = r1
  w = w
  a = a
INVARIANTS
  TypeOK
  AnswerBacked
  AttemptBudget
PROPERTIES
  OutcomeKept
  EveryRowSettles
CHECK_DEADLOCK FALSE
