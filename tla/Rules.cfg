SPECIFICATION RulesSpec
CONSTANTS
  MaxEdits = 1
  SaftDialect = "postgres"
  Days = {1, 2}
  PlainLines <- MCPlainLines
  OtherLines <- MCOddLines
  MaxTableEntries = 2
  Limits <- MCLimits
  MaxRecords = 2
  MaxDeviations = 2
INVARIANTS
  GuardedRowsPinned
  SaftOnlyNeverElectronic
  EveryRecordAccounted
  TotalsExact
  FailsOnlyForPoison
  OrderIrrelevant
CHECK_DEADLOCK FALSE
