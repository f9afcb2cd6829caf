SPECIFICATION AdminSpec
CONSTANTS
  p1 = p1
  p2 = p2
  Reqs = {r1, r2}
  Mats = {p1, p2}
  Names = {"n1", "n2"}
  Uploads <- MCUploads
  Patches <- MCPatches
  Nifs = {"n1"}
  EstCodes = {"A"}
  SeriesCodes = {"A"}
  ScopeIds = {"s"}
  Calls = {}
  PolicyGroups = {}
  PolicyTypes = {}
  MaxWrites = 0
  Attempts = {}
  IdemKeys = {}
  MaxClock = 0
  Kids = {"k1"}
  CacheTTL = 1
  MinRefresh = 1
  FetchTimeout = 0
  MaxTime = 0
  Browsers = {}
  MaxSessions = 1
  SessionTTL = 0
  MaxTokens = 1
  CsrfTTL = 0
  MaxIssues = 0
  MaxUiTime = 0
PROPERTY
  OfflineInvalidated
CHECK_DEADLOCK FALSE
