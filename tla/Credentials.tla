----------------------------- MODULE Credentials -----------------------------
(***************************************************************************)
(* API credentials of the fiscal scopes: fiscal-admin creates scopes and   *)
(* issues, rotates and revokes credentials, one transaction under the      *)
(* scope's lock each (internal/persistence/credentials.go), while          *)
(* fiscal-api authenticates bearer tokens against the same tables          *)
(* (internal/auth/auth.go).                                                *)
(*                                                                         *)
(* A credential stands for its id and its token.  A transaction's reads    *)
(* happen under the lock and its writes are seen by nobody before COMMIT,  *)
(* so they are one step each; the token leaves the process in between.     *)
(***************************************************************************)
EXTENDS Naturals

CONSTANTS
  Scopes, Creds,
  Admins,         \* fiscal-admin processes
  Requests,       \* authentications
  Environments,
  FiscalEnv,      \* the environment of this fiscal-api
  Serial,         \* TRUE: SQLite's one writer; FALSE: PostgreSQL's advisory locks
  MaxTime,        \* bound on the clock
  None

ASSUME CredentialsAssumption ==
  /\ Serial \in BOOLEAN /\ MaxTime \in Nat
  /\ FiscalEnv \in Environments
  /\ None \notin Scopes \cup Creds \cup Admins \cup Environments \cup Nat

Times == 0..MaxTime + 1
Statuses == {"none", "active", "grace", "revoked"}
Operations ==
  [kind : {"issue", "rotate", "revoke"}, scope : Scopes, cred : Creds, until : Times \cup {None},
   expires : Times \cup {None}, active : Creds \cup {None}, grace : Creds \cup {None}]
Rows == [status : Statuses, until : Times \cup {None}, expires : Times \cup {None},
         env : Environments \cup {None}]

VARIABLES
  scopeEnv,       \* scopeEnv[s]: scopes.environment, or None
  status,         \* status[c]: api_credentials.status, or "none"
  scopeOf,        \* scopeOf[c]: scope_id
  until,          \* until[c]: grace_until
  expires,        \* expires[c]: expires_at
  from,           \* from[c]: rotated_from
  pc, op,         \* pc[a], op[a]: an admin's transaction
  lock,           \* lock[s]: who holds the scope's lock
  delivered,      \* tokens that have left the process through a sink
  clock,
  apc, token, row,\* an authentication: its step, its token, the row it read
  late,           \* late[q]: the token had ended before q began
  outcome         \* outcome[q]: how q ended

table == <<scopeEnv, status, scopeOf, until, expires, from>>
admin == <<pc, op, lock, delivered>>
auth == <<apc, token, row, late, outcome>>
vars == <<table, admin, clock, auth>>

TypeOK ==
  /\ scopeEnv \in [Scopes -> Environments \cup {None}]
  /\ status \in [Creds -> Statuses]
  /\ scopeOf \in [Creds -> Scopes \cup {None}]
  /\ until \in [Creds -> Times \cup {None}]
  /\ expires \in [Creds -> Times \cup {None}]
  /\ from \in [Creds -> Creds \cup {None}]
  /\ pc \in [Admins -> {"idle", "lock", "deliver", "commit"}]
  /\ op \in [Admins -> Operations \cup {None}]
  /\ \A a \in Admins : op[a] \in IF pc[a] = "idle" THEN {None} ELSE Operations
  /\ lock \in [Scopes -> Admins \cup {None}]
  /\ delivered \subseteq Creds
  /\ clock \in 0..MaxTime
  /\ apc \in [Requests -> {"idle", "read", "decide"}]
  /\ token \in [Requests -> Creds \cup {None}]
  /\ row \in [Requests -> Rows \cup {None}]
  /\ \A q \in Requests : apc[q] # "idle" => token[q] \in Creds
  /\ \A q \in Requests : apc[q] = "decide" => row[q] \in Rows
  /\ late \in [Requests -> BOOLEAN]
  /\ outcome \in [Requests -> {"none", "accepted", "rejected"}]

Init ==
  /\ scopeEnv = [s \in Scopes |-> None]
  /\ status = [c \in Creds |-> "none"]
  /\ scopeOf = [c \in Creds |-> None]
  /\ until = [c \in Creds |-> None]
  /\ expires = [c \in Creds |-> None]
  /\ from = [c \in Creds |-> None]
  /\ pc = [a \in Admins |-> "idle"]
  /\ op = [a \in Admins |-> None]
  /\ lock = [s \in Scopes |-> None]
  /\ delivered = {}
  /\ clock = 0
  /\ apc = [q \in Requests |-> "idle"]
  /\ token = [q \in Requests |-> None]
  /\ row = [q \in Requests |-> None]
  /\ late = [q \in Requests |-> FALSE]
  /\ outcome = [q \in Requests |-> "none"]

Tick ==
  /\ clock < MaxTime
  /\ clock' = clock + 1
  /\ UNCHANGED <<table, admin, auth>>

------------------------------------------------------------------------------
(* Operations of fiscal-admin.                                             *)

CreateScope(s, e) ==
  /\ scopeEnv[s] = None
  /\ scopeEnv' = [scopeEnv EXCEPT ![s] = e]
  /\ UNCHANGED <<status, scopeOf, until, expires, from, admin, clock, auth>>

(* newID and generateCredentialToken give an id and a token never seen.    *)
Fresh(c) ==
  /\ status[c] = "none" /\ c \notin delivered
  /\ \A a \in Admins : pc[a] # "idle" => op[a].cred # c

Start(a, o) ==
  /\ pc[a] = "idle"
  /\ op' = [op EXCEPT ![a] = o]
  /\ pc' = [pc EXCEPT ![a] = "lock"]
  /\ UNCHANGED <<table, lock, delivered, clock, auth>>

Operation(kind, s, c, u, e) ==
  [kind |-> kind, scope |-> s, cred |-> c, until |-> u, expires |-> e,
   active |-> None, grace |-> None]

Issue(a, s, c, e) == Fresh(c) /\ Start(a, Operation("issue", s, c, None, e))

(* grace_until is compared with the clock here, before the lock.           *)
Rotate(a, s, c, u, e) ==
  /\ Fresh(c) /\ u > clock
  /\ Start(a, Operation("rotate", s, c, u, e))

Revoke(a, s, c) == status[c] # "none" /\ Start(a, Operation("revoke", s, c, None, None))

LockFree_Mutant(s) == scopeEnv[s] # None
LockFree(s) ==
  /\ lock[s] = None
  /\ Serial => \A t \in Scopes : lock[t] = None

(* findStatusID.                                                           *)
IsHeld(s, c, st) == scopeOf[c] = s /\ status[c] = st
Held(s, st) ==
  IF \E c \in Creds : IsHeld(s, c, st) THEN CHOOSE c \in Creds : IsHeld(s, c, st) ELSE None

(* The early returns inside the transaction: ErrScopeNotFound,             *)
(* ErrCredentialConflict, ErrNoActiveCredential, ErrCredentialNotFound,    *)
(* ErrInvalidCredentialState.                                              *)
Allowed(o) ==
  /\ scopeEnv[o.scope] # None
  /\ o.kind = "issue" => Held(o.scope, "active") = None
  /\ o.kind = "rotate" => Held(o.scope, "active") # None
  /\ o.kind = "revoke" => scopeOf[o.cred] = o.scope /\ status[o.cred] # "revoked"

(* withScopeTx takes the lock; the operation reads what it acts on.        *)
BeginTx(a) ==
  /\ pc[a] = "lock"
  /\ LockFree(op[a].scope) /\ Allowed(op[a])
  /\ lock' = [lock EXCEPT ![op[a].scope] = a]
  /\ op' = [op EXCEPT ![a].active = Held(op[a].scope, "active"),
                      ![a].grace = Held(op[a].scope, "grace")]
  /\ pc' = [pc EXCEPT ![a] = IF op[a].kind = "revoke" THEN "commit" ELSE "deliver"]
  /\ UNCHANGED <<table, delivered, clock, auth>>

EndTx_Mutant(a) ==
  /\ pc' = [pc EXCEPT ![a] = "idle"]
  /\ UNCHANGED op
  /\ lock' = [s \in Scopes |-> IF lock[s] = a THEN None ELSE lock[s]]
EndTx(a) ==
  /\ pc' = [pc EXCEPT ![a] = "idle"]
  /\ op' = [op EXCEPT ![a] = None]
  /\ lock' = [s \in Scopes |-> IF lock[s] = a THEN None ELSE lock[s]]

Refused(a) ==
  /\ pc[a] = "lock"
  /\ LockFree(op[a].scope) /\ ~Allowed(op[a])
  /\ EndTx(a)
  /\ UNCHANGED <<table, delivered, clock, auth>>

(* The sink gets the token before the audit event and COMMIT.              *)
Deliver(a) ==
  /\ pc[a] = "deliver"
  /\ delivered' = delivered \cup {op[a].cred}
  /\ pc' = [pc EXCEPT ![a] = "commit"]
  /\ UNCHANGED <<table, op, lock, clock, auth>>

(* A sink that fails may have written the token (writeAndSyncToken).       *)
DeliverFails_Mutant(a) ==
  /\ pc[a] = "deliver"
  /\ pc' = [pc EXCEPT ![a] = "commit"]
  /\ UNCHANGED <<table, op, lock, delivered, clock, auth>>
DeliverFails(a) ==
  /\ pc[a] = "deliver"
  /\ delivered' \in {delivered, delivered \cup {op[a].cred}}
  /\ EndTx(a)
  /\ UNCHANGED <<table, clock, auth>>

(* A statement or COMMIT fails, or the process dies: ROLLBACK.             *)
Abort(a) ==
  /\ pc[a] \in {"lock", "commit"}
  /\ EndTx(a)
  /\ UNCHANGED <<table, delivered, clock, auth>>

(* insertCredential, markRevoked and the UPDATE that demotes.              *)
Inserted(o) == IF o.kind = "revoke" THEN {} ELSE {o.cred}
Revoked_Mutant(o) ==
  CASE o.kind = "revoke" -> {o.cred} [] o.kind = "rotate" -> {o.grace, o.active} [] OTHER -> {}
Revoked(o) ==
  CASE o.kind = "revoke" -> {o.cred} [] o.kind = "rotate" -> {o.grace} [] OTHER -> {}
Demoted(o) == IF o.kind = "rotate" THEN {c \in {o.active} : status[c] = "active"} ELSE {}

Commit(a) ==
  LET o == op[a] IN
  /\ pc[a] = "commit"
  /\ status' = [c \in Creds |-> IF c \in Inserted(o) THEN "active"
                                ELSE IF c \in Revoked(o) THEN "revoked"
                                ELSE IF c \in Demoted(o) THEN "grace" ELSE status[c]]
  /\ until' = [c \in Creds |-> IF c \in Revoked(o) THEN None
                               ELSE IF c \in Demoted(o) THEN o.until ELSE until[c]]
  /\ scopeOf' = [c \in Creds |-> IF c \in Inserted(o) THEN o.scope ELSE scopeOf[c]]
  /\ expires' = [c \in Creds |-> IF c \in Inserted(o) THEN o.expires ELSE expires[c]]
  /\ from' = [c \in Creds |-> IF c \in Inserted(o) /\ o.kind = "rotate" THEN o.active ELSE from[c]]
  /\ EndTx(a)
  /\ UNCHANGED <<scopeEnv, delivered, clock, auth>>

------------------------------------------------------------------------------
(* Authentication of a request.                                            *)

RowOf(c) == [status |-> status[c], until |-> until[c], expires |-> expires[c],
             env |-> IF scopeOf[c] = None THEN None ELSE scopeEnv[scopeOf[c]]]

(* credentialAcceptable, and ErrCredentialNotFound for a missing row.  The *)
(* status of the scope is not looked at: CreateScope writes 'active' and   *)
(* no statement changes it.                                                *)
Acceptable_Mutant(r, now) ==
  /\ r.env = FiscalEnv
  /\ ~(r.expires # None /\ r.expires <= now)
  /\ r.status \in {"active", "grace"}
Acceptable(r, now) ==
  /\ r.env = FiscalEnv
  /\ ~(r.expires # None /\ r.expires <= now)
  /\ \/ r.status = "active"
     \/ r.status = "grace" /\ r.until # None /\ now < r.until

Usable(c) == Acceptable(RowOf(c), clock)

(* A credential that is never accepted again.                              *)
Ended(c) ==
  \/ status[c] = "revoked"
  \/ status[c] = "grace" /\ until[c] <= clock
  \/ status[c] # "none" /\ expires[c] # None /\ expires[c] <= clock

(* A client presents a token it was given.                                 *)
Present(q, c) ==
  /\ apc[q] = "idle" /\ c \in delivered
  /\ apc' = [apc EXCEPT ![q] = "read"]
  /\ token' = [token EXCEPT ![q] = c]
  /\ late' = [late EXCEPT ![q] = Ended(c)]
  /\ outcome' = [outcome EXCEPT ![q] = "none"]
  /\ UNCHANGED <<table, admin, clock, row>>

(* VerifyCredentialTokenHash.                                              *)
ReadRow(q) ==
  /\ apc[q] = "read"
  /\ row' = [row EXCEPT ![q] = RowOf(token[q])]
  /\ apc' = [apc EXCEPT ![q] = "decide"]
  /\ UNCHANGED <<table, admin, clock, token, late, outcome>>

(* The clock is read after the row.                                        *)
Decide_Mutant(q) ==
  /\ apc[q] = "decide"
  /\ outcome' = [outcome EXCEPT ![q] = IF row[q].status = "active" /\ Acceptable(row[q], clock)
                                       THEN "accepted" ELSE "rejected"]
  /\ apc' = [apc EXCEPT ![q] = "idle"]
  /\ row' = [row EXCEPT ![q] = None]
  /\ UNCHANGED <<table, admin, clock, token, late>>
Decide(q) ==
  /\ apc[q] = "decide"
  /\ outcome' = [outcome EXCEPT ![q] = IF Acceptable(row[q], clock) THEN "accepted" ELSE "rejected"]
  /\ apc' = [apc EXCEPT ![q] = "idle"]
  /\ row' = [row EXCEPT ![q] = None]
  /\ UNCHANGED <<table, admin, clock, token, late>>

Next ==
  \/ Tick
  \/ \E s \in Scopes, e \in Environments : CreateScope(s, e)
  \/ \E a \in Admins :
       \/ \E s \in Scopes, c \in Creds :
            \/ Revoke(a, s, c)
            \/ \E e \in Times \cup {None} :
                 Issue(a, s, c, e) \/ \E u \in Times : Rotate(a, s, c, u, e)
       \/ BeginTx(a) \/ Refused(a) \/ Deliver(a) \/ DeliverFails(a) \/ Abort(a) \/ Commit(a)
  \/ \E q \in Requests : (\E c \in Creds : Present(q, c)) \/ ReadRow(q) \/ Decide(q)

Spec == Init /\ [][Next]_vars

------------------------------------------------------------------------------
(* The lock, and not the unique indexes, keeps one active credential and   *)
(* one in grace per scope: concurrent operations never meet a conflict     *)
(* (withScopeTx, Issue, Rotate).                                           *)
OneOfEach ==
  \A c, d \in Creds :
    status[c] = status[d] /\ status[c] \in {"active", "grace"} /\ scopeOf[c] = scopeOf[d] => c = d

(* A rotation hands over from the credential that is active when it        *)
(* commits: that one, of the same scope, goes into grace in the same step  *)
(* (Rotate).                                                               *)
HandOver ==
  [][\A c \in Creds : from'[c] # from[c] =>
        /\ status[from'[c]] = "active" /\ status'[from'[c]] = "grace"
        /\ scopeOf'[c] = scopeOf[from'[c]]]_vars

(* No credential exists whose token nobody has: whatever fails or dies, a  *)
(* committed credential was delivered (Issue, Rotate, TokenSink).          *)
CommittedIsDelivered == \A c \in Creds : status[c] # "none" => c \in delivered

(* A request that begins after its token was revoked, expired or at the    *)
(* end of its grace is not accepted, although the row and the clock are    *)
(* read at different times (Authenticate).                                 *)
EndedNotAccepted == \A q \in Requests : outcome[q] = "accepted" => ~late[q]

(* A request is rejected only when its token was not committed yet as the  *)
(* row was read, or is not usable now: the row, stale by now, never makes  *)
(* a usable token fail (Authenticate).                                     *)
RejectionJustified ==
  [][\A q \in Requests :
       apc[q] = "decide" /\ apc'[q] = "idle" /\ outcome'[q] = "rejected" =>
         row[q].status = "none" \/ ~Usable(token[q])]_vars
==============================================================================
