SPECIFICATION FairSpec
CONSTANTS
  Calls = {c1, c2, c3}
  Keys = {k1, k2}
  i1 = i1
  i2 = i2
  e1 = e1
  e2 = e2
  Intents <- MCIntents
  ExternalID <- MCExternalID
  Series = {s1, s2}
  Dialect = "postgres"
  None = None
  c1 = c1
  c2 = c2
  c3 = c3
  k1 = k1
  k2 = k2
  s1 = s1
  s2 = s2
INVARIANTS
  TypeOK
  ContinuousNumbering
  AnswersAgree
PROPERTIES
  ImplementsContract
  EveryCallReturns
CHECK_DEADLOCK FALSE
