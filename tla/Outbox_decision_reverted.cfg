SPECIFICATION Spec
CONSTANTS
  Docs = {d1}
  Workers = {w1, w2}
  Dialect = "postgres"
  MaxFaults = 0
  MaxLedger = 6
  None = None
  d1 = d1
  w1 = w1
  w2 = w2
PROPERTIES
  DecisionFinal
CONSTRAINT LedgerBound
CHECK_DEADLOCK FALSE
