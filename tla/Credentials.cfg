\* One scope: the locks of SQLite and PostgreSQL are one.
SPECIFICATION Spec
CONSTANTS
  Scopes = {s1}
  Creds = {c1, c2, c3}
  Admins = {a1, a2}
  Requests = {q1}
  Environments = {hml}
  FiscalEnv = hml
  Serial = FALSE
  MaxTime = 1
  None = None
SYMMETRY Symmetry
INVARIANTS TypeOK OneOfEach CommittedIsDelivered EndedNotAccepted
PROPERTIES HandOver RejectionJustified
