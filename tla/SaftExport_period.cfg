SPECIFICATION RulesSpec
CONSTANTS
  MaxEdits = 0
  SaftDialect = "sqlite"
  Days = {1, 2}
  PlainLines <- MCPlainLines
  OtherLines <- MCOddLines
  MaxTableEntries = 2
  Limits <- MCLimits
  MaxRecords = 2
  MaxDeviations = 2
INVARIANT PeriodsPartition
CHECK_DEADLOCK FALSE
