SPECIFICATION Spec
CONSTANTS
  Docs = {d1}
  Workers = {w1, w2}
  Dialect = "postgres"
  MaxFaults = 2
  MaxLedger = 6
  None = None
  d1 = d1
  w1 = w1
  w2 = w2
INVARIANTS
  VerdictRecordedOnce
PROPERTIES
  CancelIsFinal
CONSTRAINT LedgerBound
SYMMETRY Symmetry
CHECK_DEADLOCK FALSE
