SPECIFICATION FairSpec
CONSTANTS
  Docs = {d1}
  Workers = {w1, w2}
  Dialect = "sqlite"
  MaxFaults = 0
  MaxLedger = 9
  None = None
  d1 = d1
  w1 = w1
  w2 = w2
PROPERTIES
  UncertainResolved
CHECK_DEADLOCK FALSE
