SPECIFICATION AdminSpec
CONSTANTS
  p1 = p1
  p2 = p2
  Reqs = {r1, r2, r3}
  Mats = {p1, p2}
  Names = {"n1", "n2"}
  Uploads <- MCUploads
  Patches <- MCPatches
  Nifs = {"n1"}
  EstCodes = {"A"}
  SeriesCodes = {"A", "B"}
  ScopeIds = {"s"}
  Calls = {"c1", "c2"}
  PolicyGroups = {"vendas"}
  PolicyTypes <- MCPolicyTypes
  MaxWrites = 5
  Attempts = {"a1", "a2", "a3"}
  IdemKeys = {"k1"}
  MaxClock = 1
  Kids = {"k1", "k2"}
  CacheTTL = 1
  MinRefresh = 2
  FetchTimeout = 1
  MaxTime = 4
  Browsers = {"b1", "b2"}
  MaxSessions = 2
  SessionTTL = 1
  MaxTokens = 2
  CsrfTTL = 1
  MaxIssues = 3
  MaxUiTime = 2
SYMMETRY MCSymmetry
INVARIANTS
  ActiveIsReady
  OneActivePerType
  KeyAppliedOnce
  WithdrawnKeyEnds
  UnknownIsNew
  CookiesHonoured
  StoresBounded
PROPERTY
  SeriesForward
CHECK_DEADLOCK FALSE
