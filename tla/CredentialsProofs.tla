-------------------------- MODULE CredentialsProofs --------------------------
(***************************************************************************)
(* Proofs about Credentials for any scopes, credentials, administrators,   *)
(* requests and clock bound, in both dialects.                             *)
(***************************************************************************)
EXTENDS Credentials, TLAPS

InTx == {"deliver", "commit"}

------------------------------------------------------------------------------
(* Types.                                                                  *)

(* The empty tables are well typed.                                        *)
LEMMA CredInit == Init => TypeOK
  BY CredentialsAssumption DEF Init, TypeOK, Statuses, Times

(* A search by status finds a credential of the scope, or nothing.         *)
LEMMA HeldFound ==
  ASSUME NEW s, NEW st
  PROVE  /\ Held(s, st) \in Creds \cup {None}
         /\ Held(s, st) # None => IsHeld(s, Held(s, st), st) /\ Held(s, st) \in Creds
         /\ Held(s, st) = None => \A c \in Creds : ~IsHeld(s, c, st)
<1>1. CASE \E c \in Creds : IsHeld(s, c, st)
  <2>1. PICK c \in Creds : IsHeld(s, c, st)
    BY <1>1
  <2>2. Held(s, st) \in Creds /\ IsHeld(s, Held(s, st), st)
    BY <1>1 DEF Held
  <2>q. QED
    BY <2>2, CredentialsAssumption
<1>2. CASE ~\E c \in Creds : IsHeld(s, c, st)
  BY <1>2 DEF Held
<1>q. QED
  BY <1>1, <1>2

(* An operation's parameters are well typed.                               *)
LEMMA OperationTyped ==
  ASSUME NEW kind \in {"issue", "rotate", "revoke"}, NEW s \in Scopes, NEW c \in Creds,
         NEW u \in Times \cup {None}, NEW e \in Times \cup {None}
  PROVE  Operation(kind, s, c, u, e) \in Operations
  BY DEF Operation, Operations

(* Every step keeps the types.                                             *)
LEMMA CredTypeStep ==
  ASSUME TypeOK, [Next]_vars
  PROVE  TypeOK'
<1> USE CredentialsAssumption DEF table, admin, auth
<1>1. CASE UNCHANGED vars
  BY <1>1 DEF vars, TypeOK
<1>2. CASE Tick \/ \E s \in Scopes, e \in Environments : CreateScope(s, e)
  BY <1>2 DEF Tick, CreateScope, TypeOK
<1>3. ASSUME NEW a \in Admins, NEW o \in Operations, Start(a, o) PROVE TypeOK'
  BY <1>3 DEF Start, TypeOK
<1>4. ASSUME NEW a \in Admins, BeginTx(a) PROVE TypeOK'
  <2>1. op[a] \in Operations
    BY <1>4 DEF BeginTx, TypeOK
  <2>2. /\ Held(op[a].scope, "active") \in Creds \cup {None}
        /\ Held(op[a].scope, "grace") \in Creds \cup {None}
    BY HeldFound
  <2>3. op'[a] \in Operations /\ op' \in [Admins -> Operations \cup {None}]
    <3>1. PICK x \in Creds \cup {None}, y \in Creds \cup {None} :
            x = Held(op[a].scope, "active") /\ y = Held(op[a].scope, "grace")
      BY <2>2
    <3>2. op \in [Admins -> Operations \cup {None}]
      BY DEF TypeOK
    <3>3. op' = [op EXCEPT ![a] = [op[a] EXCEPT !.active = x, !.grace = y]]
      BY <1>4, <3>1, <3>2 DEF BeginTx
    <3>4. [op[a] EXCEPT !.active = x, !.grace = y] \in Operations
      BY <2>1 DEF Operations
    <3>q. QED
      BY <3>2, <3>3, <3>4
  <2>4. \A b \in Admins : b # a => op'[b] = op[b] /\ pc'[b] = pc[b]
    BY <1>4 DEF BeginTx, TypeOK
  <2>5. pc'[a] # "idle" /\ pc' \in [Admins -> {"idle", "lock", "deliver", "commit"}]
    BY <1>4 DEF BeginTx, TypeOK
  <2>6. lock' \in [Scopes -> Admins \cup {None}]
    BY <1>4, <2>1 DEF BeginTx, TypeOK
  <2>7. UNCHANGED <<table, delivered, clock, auth>>
    BY <1>4 DEF BeginTx
  <2>q. QED
    BY <2>3, <2>4, <2>5, <2>6, <2>7 DEF TypeOK
<1>5. ASSUME NEW a \in Admins, EndTx(a)
      PROVE  /\ pc' \in [Admins -> {"idle", "lock", "deliver", "commit"}]
             /\ op' \in [Admins -> Operations \cup {None}]
             /\ \A b \in Admins : op'[b] \in IF pc'[b] = "idle" THEN {None} ELSE Operations
             /\ lock' \in [Scopes -> Admins \cup {None}]
  BY <1>5 DEF EndTx, TypeOK
<1>6. ASSUME NEW a \in Admins, Refused(a) \/ Abort(a) PROVE TypeOK'
  BY <1>5, <1>6 DEF Refused, Abort, TypeOK
<1>7. ASSUME NEW a \in Admins, Deliver(a) PROVE TypeOK'
  <2>1. op[a] \in Operations
    BY <1>7 DEF Deliver, TypeOK
  <2>q. QED
    BY <1>7, <2>1 DEF Deliver, TypeOK, Operations
<1>8. ASSUME NEW a \in Admins, DeliverFails(a) PROVE TypeOK'
  <2>1. op[a] \in Operations
    BY <1>8 DEF DeliverFails, TypeOK
  <2>2. delivered' \subseteq Creds
    BY <1>8, <2>1 DEF DeliverFails, TypeOK, Operations
  <2>q. QED
    BY <1>5, <1>8, <2>2 DEF DeliverFails, TypeOK
<1>9. ASSUME NEW a \in Admins, Commit(a) PROVE TypeOK'
  <2>1. op[a] \in Operations
    BY <1>9 DEF Commit, TypeOK
  <2>2. /\ op[a].scope \in Scopes /\ op[a].until \in Times \cup {None}
        /\ op[a].expires \in Times \cup {None} /\ op[a].active \in Creds \cup {None}
    BY <2>1 DEF Operations
  <2>3. /\ status' \in [Creds -> Statuses]
        /\ scopeOf' \in [Creds -> Scopes \cup {None}]
        /\ until' \in [Creds -> Times \cup {None}]
        /\ expires' \in [Creds -> Times \cup {None}]
        /\ from' \in [Creds -> Creds \cup {None}]
    BY <1>9, <2>2 DEF Commit, TypeOK, Statuses
  <2>4. EndTx(a) /\ UNCHANGED <<scopeEnv, delivered, clock, auth>>
    BY <1>9 DEF Commit
  <2>q. QED
    BY <1>5, <2>3, <2>4 DEF TypeOK
<1>10. ASSUME NEW q \in Requests, NEW c \in Creds, Present(q, c) PROVE TypeOK'
  BY <1>10 DEF Present, TypeOK, Ended
<1>11. ASSUME NEW q \in Requests, ReadRow(q) PROVE TypeOK'
  <2>1. token[q] \in Creds
    BY <1>11 DEF ReadRow, TypeOK
  <2>2. RowOf(token[q]) \in Rows
    BY <2>1 DEF RowOf, Rows, TypeOK
  <2>q. QED
    BY <1>11, <2>1, <2>2 DEF ReadRow, TypeOK
<1>12. ASSUME NEW q \in Requests, Decide(q) PROVE TypeOK'
  BY <1>12 DEF Decide, TypeOK
<1>q. QED
  <2>1. ASSUME NEW a \in Admins, NEW s \in Scopes, NEW c \in Creds,
               \/ Revoke(a, s, c)
               \/ \E e \in Times \cup {None} :
                    Issue(a, s, c, e) \/ \E u \in Times : Rotate(a, s, c, u, e)
        PROVE  TypeOK'
    BY <1>3, <2>1, OperationTyped DEF Revoke, Issue, Rotate
  <2>q. QED
    BY <1>1, <1>2, <1>4, <1>6, <1>7, <1>8, <1>9, <1>10, <1>11, <1>12, <2>1 DEF Next

(* The tables, transactions and authentications of CredentialStore and     *)
(* CredentialStoreAuthenticator stay well typed.                           *)
THEOREM CredTypeCorrect == Spec => []TypeOK
  BY CredInit, CredTypeStep, PTL DEF Spec

------------------------------------------------------------------------------
(* Transactions.                                                           *)

(* A row has a scope, which exists, and a row in grace its end.            *)
RowSound(c) ==
  /\ status[c] = "none" <=> scopeOf[c] = None
  /\ status[c] # "none" => scopeEnv[scopeOf[c]] # None
  /\ status[c] = "grace" => until[c] \in Times

(* An issue or a rotation has a credential of its own, not yet a row; a    *)
(* rotation has an end of grace.                                           *)
NewSound(a) ==
  pc[a] # "idle" =>
    /\ op[a].kind = "revoke" <=> status[op[a].cred] # "none"
    /\ op[a].kind # "revoke" => \A b \in Admins \ {a} : pc[b] # "idle" => op[b].cred # op[a].cred
    /\ op[a].kind = "rotate" => op[a].until \in Times

(* What a transaction has read is still so: nobody else has its scope.     *)
TxSound(a) ==
  pc[a] \in InTx =>
    /\ lock[op[a].scope] = a
    /\ scopeEnv[op[a].scope] # None
    /\ \A c \in Creds : IsHeld(op[a].scope, c, "active") <=> c = op[a].active
    /\ \A c \in Creds : IsHeld(op[a].scope, c, "grace") <=> c = op[a].grace
    /\ op[a].kind = "issue" => op[a].active = None
    /\ op[a].kind = "rotate" => op[a].active \in Creds
    /\ op[a].kind = "revoke" => scopeOf[op[a].cred] = op[a].scope /\ status[op[a].cred] # "revoked"
    /\ pc[a] = "deliver" => op[a].kind # "revoke"
    /\ pc[a] = "commit" /\ op[a].kind # "revoke" => op[a].cred \in delivered

TxInv ==
  /\ \A c \in Creds : RowSound(c)
  /\ \A a \in Admins : NewSound(a) /\ TxSound(a)
  /\ OneOfEach
  /\ CommittedIsDelivered

(* No rows, no transactions.                                               *)
LEMMA TxInit == Init => TxInv
  BY CredentialsAssumption
  DEF Init, TxInv, RowSound, NewSound, TxSound, OneOfEach, CommittedIsDelivered, InTx

(* A step that leaves the tables and the transactions alone.               *)
LEMMA TxFrame ==
  ASSUME TxInv, UNCHANGED <<table, admin>>
  PROVE  TxInv'
  BY DEF TxInv, RowSound, NewSound, TxSound, OneOfEach, CommittedIsDelivered, IsHeld, table, admin

(* A transaction that ends without a trace keeps the others sound.         *)
LEMMA RollbackTx ==
  ASSUME TypeOK, TxInv, NEW a \in Admins, EndTx(a), UNCHANGED table, delivered \subseteq delivered'
  PROVE  TxInv'
<1>1. \A b \in Admins : \/ b = a /\ pc'[b] = "idle"
                        \/ b # a /\ pc'[b] = pc[b] /\ op'[b] = op[b]
  BY DEF EndTx, TypeOK
<1>2. ASSUME NEW b \in Admins PROVE NewSound(b)'
  BY <1>1 DEF TxInv, NewSound, table
<1>3. ASSUME NEW b \in Admins PROVE TxSound(b)'
  <2> SUFFICES ASSUME pc'[b] \in InTx PROVE TxSound(b)'
    BY DEF TxSound
  <2>1. b # a /\ pc'[b] = pc[b] /\ op'[b] = op[b] /\ op[b].scope \in Scopes
    BY <1>1 DEF InTx, TypeOK, Operations
  <2>2. lock'[op[b].scope] = b
    BY <2>1 DEF EndTx, TypeOK, TxInv, TxSound
  <2>q. QED
    BY <2>1, <2>2 DEF TxInv, TxSound, IsHeld, table
<1>q. QED
  BY <1>2, <1>3 DEF TxInv, RowSound, OneOfEach, CommittedIsDelivered, table

(* An operation that starts.                                               *)
LEMMA StartTx ==
  ASSUME TypeOK, TxInv, NEW a \in Admins, NEW o \in Operations, Start(a, o),
         o.kind = "revoke" <=> status[o.cred] # "none",
         o.kind # "revoke" => Fresh(o.cred),
         o.kind = "rotate" => o.until \in Times
  PROVE  TxInv'
<1>1. \A b \in Admins : \/ b = a /\ pc'[b] = "lock" /\ op'[b] = o
                        \/ b # a /\ pc'[b] = pc[b] /\ op'[b] = op[b]
  BY DEF Start, TypeOK
<1>2. UNCHANGED <<table, lock, delivered>>
  BY DEF Start
<1>3. NewSound(a)'
  BY <1>1, <1>2 DEF NewSound, Fresh, table
<1>4. ASSUME NEW b \in Admins, b # a PROVE NewSound(b)'
  <2> SUFFICES ASSUME pc[b] # "idle" PROVE NewSound(b)'
    BY <1>1, <1>4 DEF NewSound
  <2>1. op[b].kind # "revoke" => o.cred # op[b].cred
    BY DEF TxInv, NewSound, Fresh
  <2>q. QED
    BY <1>1, <1>2, <1>4, <2>1 DEF TxInv, NewSound, table
<1>5. ASSUME NEW b \in Admins PROVE TxSound(b)'
  BY <1>1, <1>2 DEF TxInv, TxSound, IsHeld, table, InTx
<1>q. QED
  BY <1>2, <1>3, <1>4, <1>5 DEF TxInv, RowSound, OneOfEach, CommittedIsDelivered, table

(* A transaction takes a free lock and reads: with one credential of each  *)
(* status in the scope, what it reads is all there is.                     *)
LEMMA BeginTxSound ==
  ASSUME TypeOK, TxInv, NEW a \in Admins, BeginTx(a)
  PROVE  TxInv'
<1>1. /\ op[a] \in Operations /\ pc[a] = "lock"
      /\ op'[a] = [op[a] EXCEPT !.active = Held(op[a].scope, "active"),
                                !.grace = Held(op[a].scope, "grace")]
      /\ pc'[a] = IF op[a].kind = "revoke" THEN "commit" ELSE "deliver"
      /\ \A b \in Admins \ {a} : pc'[b] = pc[b] /\ op'[b] = op[b]
      /\ UNCHANGED <<table, delivered>>
  BY DEF BeginTx, TypeOK
<1> DEFINE o == op[a]
<1>2. /\ op'[a].scope = o.scope /\ op'[a].cred = o.cred /\ op'[a].kind = o.kind
      /\ op'[a].until = o.until
      /\ op'[a].active = Held(o.scope, "active") /\ op'[a].grace = Held(o.scope, "grace")
  BY <1>1 DEF Operations
<1>3. ASSUME NEW b \in Admins PROVE NewSound(b)'
  <2>1. \A d \in Admins : /\ op'[d].cred = op[d].cred /\ op'[d].kind = op[d].kind
                          /\ op'[d].until = op[d].until /\ (pc'[d] # "idle" <=> pc[d] # "idle")
    BY <1>1, <1>2
  <2>2. NewSound(b) /\ status' = status
    BY <1>1 DEF TxInv, table
  <2>q. QED
    BY <2>1, <2>2 DEF NewSound
<1>4. /\ \A c \in Creds : IsHeld(o.scope, c, "active") <=> c = Held(o.scope, "active")
      /\ \A c \in Creds : IsHeld(o.scope, c, "grace") <=> c = Held(o.scope, "grace")
  BY HeldFound, CredentialsAssumption DEF TxInv, OneOfEach, IsHeld
<1>5. lock' = [lock EXCEPT ![o.scope] = a] /\ o.scope \in Scopes /\ lock[o.scope] = None
  BY <1>1 DEF BeginTx, LockFree, Operations
<1>6. TxSound(a)'
  <2>1. /\ lock'[o.scope] = a /\ scopeEnv[o.scope] # None
        /\ o.kind = "issue" => Held(o.scope, "active") = None
        /\ o.kind = "rotate" => Held(o.scope, "active") \in Creds
        /\ o.kind = "revoke" => scopeOf[o.cred] = o.scope /\ status[o.cred] # "revoked"
    BY <1>5, HeldFound DEF BeginTx, Allowed, TypeOK
  <2> HIDE DEF o
  <2>q. QED
    BY <1>1, <1>2, <1>4, <2>1 DEF TxSound, IsHeld, table
<1>7. ASSUME NEW b \in Admins, b # a PROVE TxSound(b)'
  <2> SUFFICES ASSUME pc[b] \in InTx PROVE TxSound(b)'
    BY <1>1, <1>7 DEF TxSound
  <2>1. lock[op[b].scope] = b /\ op[b].scope \in Scopes
    BY DEF TxInv, TxSound, TypeOK, InTx, Operations
  <2>2. lock'[op[b].scope] = b
    BY <1>5, <2>1, CredentialsAssumption DEF TypeOK
  <2>q. QED
    BY <1>1, <1>7, <2>2 DEF TxInv, TxSound, IsHeld, table
<1>q. QED
  BY <1>1, <1>3, <1>6, <1>7 DEF TxInv, RowSound, OneOfEach, CommittedIsDelivered, table

(* The token is out before the transaction may commit.                     *)
LEMMA DeliverSound ==
  ASSUME TypeOK, TxInv, NEW a \in Admins, Deliver(a)
  PROVE  TxInv'
<1>1. /\ pc[a] = "deliver" /\ pc'[a] = "commit" /\ op' = op /\ UNCHANGED <<table, lock>>
      /\ delivered' = delivered \cup {op[a].cred}
      /\ \A b \in Admins \ {a} : pc'[b] = pc[b]
  BY DEF Deliver, TypeOK
<1>2. ASSUME NEW b \in Admins PROVE NewSound(b)' /\ TxSound(b)'
  BY <1>1 DEF TxInv, NewSound, TxSound, IsHeld, table, InTx
<1>q. QED
  BY <1>1, <1>2 DEF TxInv, RowSound, OneOfEach, CommittedIsDelivered, table

(* What COMMIT writes, operation by operation.                             *)
LEMMA CommitWrites ==
  ASSUME TypeOK, TxInv, NEW a \in Admins, Commit(a)
  PROVE  /\ op[a] \in Operations
         /\ EndTx(a) /\ UNCHANGED <<scopeEnv, delivered, clock, auth>>
         /\ op[a].kind = "issue" =>
              /\ status' = [status EXCEPT ![op[a].cred] = "active"] /\ UNCHANGED <<until, from>>
              /\ scopeOf' = [scopeOf EXCEPT ![op[a].cred] = op[a].scope]
              /\ expires' = [expires EXCEPT ![op[a].cred] = op[a].expires]
         /\ op[a].kind = "rotate" =>
              /\ status' = [c \in Creds |-> IF c = op[a].cred THEN "active"
                                            ELSE IF c = op[a].grace THEN "revoked"
                                            ELSE IF c = op[a].active THEN "grace" ELSE status[c]]
              /\ until' = [c \in Creds |-> IF c = op[a].grace THEN None
                                           ELSE IF c = op[a].active THEN op[a].until ELSE until[c]]
              /\ scopeOf' = [scopeOf EXCEPT ![op[a].cred] = op[a].scope]
              /\ expires' = [expires EXCEPT ![op[a].cred] = op[a].expires]
              /\ from' = [from EXCEPT ![op[a].cred] = op[a].active]
         /\ op[a].kind = "revoke" =>
              /\ status' = [status EXCEPT ![op[a].cred] = "revoked"]
              /\ until' = [until EXCEPT ![op[a].cred] = None] /\ UNCHANGED <<scopeOf, expires, from>>
<1>1. op[a] \in Operations /\ pc[a] = "commit"
  BY DEF Commit, TypeOK
<1>2. EndTx(a) /\ UNCHANGED <<scopeEnv, delivered, clock, auth>>
  BY DEF Commit
<1>3. CASE op[a].kind = "issue"
  <2>1. Inserted(op[a]) = {op[a].cred} /\ Revoked(op[a]) = {} /\ Demoted(op[a]) = {}
    BY <1>3 DEF Inserted, Revoked, Demoted
  <2>q. QED
    BY <1>1, <1>2, <1>3, <2>1 DEF Commit, TypeOK
<1>4. CASE op[a].kind = "rotate"
  <2>1. op[a].active \in Creds /\ status[op[a].active] = "active"
    BY <1>1, <1>4 DEF TxInv, TxSound, InTx, IsHeld
  <2>2. /\ Inserted(op[a]) = {op[a].cred} /\ Revoked(op[a]) = {op[a].grace}
        /\ Demoted(op[a]) = {op[a].active}
    BY <1>4, <2>1 DEF Inserted, Revoked, Demoted
  <2>q. QED
    BY <1>1, <1>2, <1>4, <2>2 DEF Commit, TypeOK
<1>5. CASE op[a].kind = "revoke"
  <2>1. Inserted(op[a]) = {} /\ Revoked(op[a]) = {op[a].cred} /\ Demoted(op[a]) = {}
    BY <1>5 DEF Inserted, Revoked, Demoted
  <2>q. QED
    BY <1>1, <1>2, <1>5, <2>1 DEF Commit, TypeOK
<1>q. QED
  BY <1>1, <1>3, <1>4, <1>5 DEF Operations

(* A commit writes rows of its own scope and its new row; other scopes'    *)
(* transactions do not notice.                                             *)
LEMMA CommitSound ==
  ASSUME TypeOK, TxInv, NEW a \in Admins, Commit(a)
  PROVE  TxInv'
<1> DEFINE o == op[a]
<1>1. /\ o \in Operations /\ pc[a] = "commit" /\ EndTx(a) /\ UNCHANGED <<scopeEnv, delivered>>
      /\ o.kind \in {"issue", "rotate", "revoke"} /\ o.cred \in Creds /\ o.scope \in Scopes
  BY CommitWrites DEF Commit, Operations
<1>2. /\ NewSound(a) /\ TxSound(a) /\ pc[a] \in InTx /\ pc[a] # "idle"
  BY <1>1 DEF TxInv, InTx
<1>3. \A b \in Admins : \/ b = a /\ pc'[b] = "idle"
                        \/ b # a /\ pc'[b] = pc[b] /\ op'[b] = op[b]
  BY <1>1 DEF EndTx, TypeOK
<1>4. \A c \in Creds :
        \/ c = o.cred
        \/ /\ scopeOf'[c] = scopeOf[c]
           /\ scopeOf[c] # o.scope => status'[c] = status[c] /\ until'[c] = until[c]
           /\ status[c] = "none" <=> status'[c] = "none"
  <2>1. CASE o.kind = "issue" \/ o.kind = "revoke"
    BY <1>1, <2>1, CommitWrites DEF TypeOK
  <2>2. CASE o.kind = "rotate"
    <3>1. \A c \in Creds : c \in {o.active, o.grace} => scopeOf[c] = o.scope /\ status[c] # "none"
      BY <1>2 DEF TxSound, IsHeld
    <3>q. QED
      BY <1>1, <2>2, <3>1, CommitWrites DEF TypeOK
  <2>q. QED
    BY <1>1, <2>1, <2>2
<1>5. ASSUME NEW c \in Creds PROVE RowSound(c)'
  <2>1. RowSound(c) /\ scopeEnv[o.scope] # None
    BY <1>2 DEF TxInv, TxSound
  <2>2. CASE o.kind = "issue"
    BY <1>1, <2>1, <2>2, CommitWrites, CredentialsAssumption DEF RowSound, TypeOK
  <2>3. CASE o.kind = "revoke"
    BY <1>1, <1>2, <2>1, <2>3, CommitWrites, CredentialsAssumption DEF RowSound, NewSound, TypeOK
  <2>4. CASE o.kind = "rotate"
    <3>1. \A d \in Creds : d \in {o.active, o.grace} => scopeOf[d] = o.scope /\ status[d] # "none"
      BY <1>2 DEF TxSound, IsHeld
    <3>2. status[o.cred] = "none" /\ o.until \in Times
      BY <1>2, <2>4 DEF NewSound
    <3>3. CASE c = o.cred
      BY <1>1, <2>1, <2>4, <3>1, <3>2, <3>3, CommitWrites, CredentialsAssumption DEF RowSound, TypeOK
    <3>4. CASE c # o.cred
      BY <1>1, <2>1, <2>4, <3>1, <3>2, <3>4, CommitWrites, CredentialsAssumption DEF RowSound, TypeOK
    <3>q. QED
      BY <3>3, <3>4
  <2>q. QED
    BY <1>1, <2>2, <2>3, <2>4
<1>6. ASSUME NEW b \in Admins PROVE NewSound(b)'
  <2> SUFFICES ASSUME b # a, pc[b] # "idle", pc'[b] = pc[b], op'[b] = op[b] PROVE NewSound(b)'
    BY <1>3 DEF NewSound
  <2>1. NewSound(b) /\ op[b].cred \in Creds
    BY DEF TxInv, TypeOK, Operations
  <2>2. op[b].cred = o.cred => o.kind = "revoke" /\ op[b].kind = "revoke"
    BY <1>2, <2>1 DEF NewSound
  <2>3. o.kind = "revoke" => status'[o.cred] # "none" /\ status[o.cred] # "none"
    BY <1>1, <1>2, CommitWrites DEF NewSound, TypeOK
  <2>4. status'[op[b].cred] = "none" <=> status[op[b].cred] = "none"
    BY <1>4, <2>1, <2>2, <2>3
  <2>q. QED
    BY <1>3, <2>1, <2>4 DEF NewSound
<1>7. ASSUME NEW b \in Admins PROVE TxSound(b)'
  <2> SUFFICES ASSUME b # a, pc[b] \in InTx, pc'[b] = pc[b], op'[b] = op[b] PROVE TxSound(b)'
    BY <1>3 DEF TxSound, InTx
  <2>1. TxSound(b) /\ op[b].scope \in Scopes /\ op[b].cred \in Creds
    BY DEF TxInv, TypeOK, Operations, InTx
  <2>2. op[b].scope # o.scope /\ lock'[op[b].scope] = b
    BY <1>1, <1>2, <2>1 DEF TxSound, EndTx, TypeOK
  <2>3. scopeOf[o.cred] # op[b].scope /\ scopeOf'[o.cred] # op[b].scope
    <3>1. scopeOf[o.cred] \in {o.scope, None} /\ None \notin Scopes
      BY <1>1, <1>2, CredentialsAssumption DEF TxInv, RowSound, NewSound, TxSound
    <3>2. scopeOf'[o.cred] = o.scope \/ scopeOf'[o.cred] = scopeOf[o.cred]
      BY <1>1, CommitWrites DEF TypeOK
    <3>q. QED
      BY <2>1, <2>2, <3>1, <3>2
  <2>4. \A c \in Creds, st \in {"active", "grace"} :
          IsHeld(op[b].scope, c, st)' <=> IsHeld(op[b].scope, c, st)
    BY <1>4, <2>2, <2>3 DEF IsHeld
  <2>5. op[b].kind = "revoke" => /\ scopeOf'[op[b].cred] = scopeOf[op[b].cred]
                                 /\ status'[op[b].cred] = status[op[b].cred]
    BY <1>4, <2>1, <2>2, <2>3 DEF TxSound
  <2> HIDE DEF o
  <2>q. QED
    BY <1>1, <2>1, <2>2, <2>4, <2>5 DEF TxSound
<1>8. OneOfEach'
  <2> SUFFICES ASSUME NEW c \in Creds, NEW d \in Creds, status'[c] = status'[d],
                      status'[c] \in {"active", "grace"}, scopeOf'[c] = scopeOf'[d], c # d
               PROVE  FALSE
    BY DEF OneOfEach
  <2>1. CASE o.kind = "issue"
    <3>1. \A e \in Creds : scopeOf[e] = o.scope => status[e] # "active"
      BY <1>2, <2>1, CredentialsAssumption DEF TxSound, IsHeld
    <3>q. QED
      BY <1>1, <2>1, <3>1, CommitWrites DEF TxInv, OneOfEach, TypeOK
  <2>2. CASE o.kind = "revoke"
    BY <1>1, <2>2, CommitWrites DEF TxInv, OneOfEach, TypeOK
  <2>3. CASE o.kind = "rotate"
    <3>1. /\ \A e \in Creds : scopeOf[e] = o.scope /\ status[e] = "active" <=> e = o.active
          /\ \A e \in Creds : scopeOf[e] = o.scope /\ status[e] = "grace" <=> e = o.grace
      BY <1>2 DEF TxSound, IsHeld
    <3>2. status[o.cred] = "none"
      BY <1>2, <2>3 DEF NewSound
    <3>3. /\ status' = [e \in Creds |-> IF e = o.cred THEN "active"
                                        ELSE IF e = o.grace THEN "revoked"
                                        ELSE IF e = o.active THEN "grace" ELSE status[e]]
          /\ scopeOf' = [scopeOf EXCEPT ![o.cred] = o.scope]
      BY <2>3, CommitWrites
    <3> HIDE DEF o
    <3>4. \A e \in Creds : e # o.cred => scopeOf'[e] = scopeOf[e]
      BY <3>3 DEF TypeOK
    <3>5. scopeOf'[o.cred] = o.scope
      BY <1>1, <3>3 DEF TypeOK
    <3>6. CASE scopeOf'[c] = o.scope
      <4>1. \A e \in Creds : scopeOf'[e] = o.scope /\ status'[e] = "active" => e = o.cred
        BY <3>1, <3>3, <3>4
      <4>2. \A e \in Creds : scopeOf'[e] = o.scope /\ status'[e] = "grace" => e = o.active
        BY <3>1, <3>3, <3>4
      <4>3. scopeOf'[d] = o.scope /\ status'[d] = status'[c]
        BY <3>6
      <4>4. CASE status'[c] = "active"
        BY <3>6, <4>1, <4>3, <4>4
      <4>5. CASE status'[c] = "grace"
        BY <3>6, <4>2, <4>3, <4>5
      <4>q. QED
        BY <4>4, <4>5
    <3>7. CASE scopeOf'[c] # o.scope
      <4>1. \A e \in {c, d} : /\ e # o.cred /\ scopeOf'[e] = scopeOf[e] /\ e # o.grace
                              /\ e # o.active /\ status'[e] = status[e]
        BY <3>1, <3>3, <3>4, <3>5, <3>7
      <4>q. QED
        BY <4>1 DEF TxInv, OneOfEach
    <3>q. QED
      BY <3>6, <3>7
  <2>q. QED
    BY <1>1, <2>1, <2>2, <2>3
<1>9. CommittedIsDelivered'
  <2>1. o.cred \in delivered
    BY <1>1, <1>2 DEF TxInv, NewSound, TxSound, CommittedIsDelivered
  <2>q. QED
    BY <1>1, <1>4, <2>1 DEF TxInv, CommittedIsDelivered
<1>q. QED
  BY <1>5, <1>6, <1>7, <1>8, <1>9 DEF TxInv

(* Every step keeps the transactions sound.                                *)
LEMMA TxStep ==
  ASSUME TypeOK, TxInv, [Next]_vars
  PROVE  TxInv'
<1>1. CASE UNCHANGED vars
  BY <1>1, TxFrame DEF vars
<1>2. CASE Tick
  BY <1>2, TxFrame DEF Tick
<1>3. ASSUME NEW s \in Scopes, NEW e \in Environments, CreateScope(s, e) PROVE TxInv'
  <2>1. /\ UNCHANGED <<status, scopeOf, until, admin>>
        /\ \A t \in Scopes : scopeEnv[t] # None => scopeEnv'[t] # None
    BY <1>3, CredentialsAssumption DEF CreateScope, TypeOK
  <2>2. ASSUME NEW c \in Creds PROVE RowSound(c)'
    BY <2>1 DEF TxInv, RowSound, TypeOK
  <2>3. ASSUME NEW a \in Admins PROVE NewSound(a)'
    BY <2>1 DEF TxInv, NewSound, admin
  <2>4. ASSUME NEW a \in Admins PROVE TxSound(a)'
    <3>1. pc[a] \in InTx => op[a].scope \in Scopes
      BY DEF TypeOK, InTx, Operations
    <3>q. QED
      BY <2>1, <3>1 DEF TxInv, TxSound, IsHeld, admin
  <2>q. QED
    BY <2>1, <2>2, <2>3, <2>4 DEF TxInv, OneOfEach, CommittedIsDelivered, admin
<1>4. ASSUME NEW a \in Admins, NEW s \in Scopes, NEW c \in Creds, Revoke(a, s, c) PROVE TxInv'
  <2> DEFINE o == Operation("revoke", s, c, None, None)
  <2>1. o \in Operations /\ o.kind = "revoke" /\ o.cred = c
    BY OperationTyped DEF Operation
  <2>2. Start(a, o) /\ status[c] # "none"
    BY <1>4 DEF Revoke
  <2> HIDE DEF o
  <2>q. QED
    BY <2>1, <2>2, StartTx
<1>5. ASSUME NEW a \in Admins, NEW s \in Scopes, NEW c \in Creds, NEW e \in Times \cup {None},
             Issue(a, s, c, e)
      PROVE  TxInv'
  <2> DEFINE o == Operation("issue", s, c, None, e)
  <2>1. o \in Operations /\ o.kind = "issue" /\ o.cred = c
    BY OperationTyped DEF Operation
  <2>2. Start(a, o) /\ Fresh(c) /\ status[c] = "none"
    BY <1>5 DEF Issue, Fresh
  <2> HIDE DEF o
  <2>q. QED
    BY <2>1, <2>2, StartTx
<1>6. ASSUME NEW a \in Admins, NEW s \in Scopes, NEW c \in Creds, NEW e \in Times \cup {None},
             NEW u \in Times, Rotate(a, s, c, u, e)
      PROVE  TxInv'
  <2> DEFINE o == Operation("rotate", s, c, u, e)
  <2>1. o \in Operations /\ o.kind = "rotate" /\ o.cred = c /\ o.until = u
    BY OperationTyped DEF Operation
  <2>2. Start(a, o) /\ Fresh(c) /\ status[c] = "none"
    BY <1>6 DEF Rotate, Fresh
  <2> HIDE DEF o
  <2>q. QED
    BY <2>1, <2>2, StartTx
<1>7. ASSUME NEW a \in Admins, Refused(a) \/ Abort(a) \/ DeliverFails(a) PROVE TxInv'
  BY <1>7, RollbackTx DEF Refused, Abort, DeliverFails
<1>8. ASSUME NEW a \in Admins, BeginTx(a) \/ Deliver(a) \/ Commit(a) PROVE TxInv'
  BY <1>8, BeginTxSound, DeliverSound, CommitSound
<1>9. ASSUME NEW q \in Requests, (\E c \in Creds : Present(q, c)) \/ ReadRow(q) \/ Decide(q)
      PROVE  TxInv'
  BY <1>9, TxFrame DEF Present, ReadRow, Decide
<1>q. QED
  BY <1>1, <1>2, <1>3, <1>4, <1>5, <1>6, <1>7, <1>8, <1>9 DEF Next

------------------------------------------------------------------------------
(* Authentications.                                                        *)

(* A row never comes back to life, and keeps what authentication compares. *)
RowDescends(c) ==
  status[c] # "none" =>
    /\ status'[c] # "none" /\ expires'[c] = expires[c] /\ RowOf(c).env' = RowOf(c).env
    /\ status[c] = "revoked" => status'[c] = "revoked"
    /\ status[c] = "grace" => \/ status'[c] = "grace" /\ until'[c] = until[c]
                              \/ status'[c] = "revoked"

(* What a step is, by what it changes.                                     *)
LEMMA StepKinds ==
  ASSUME [Next]_vars
  PROVE  \/ UNCHANGED <<table, clock, auth>>
         \/ Tick
         \/ \E s \in Scopes, e \in Environments : CreateScope(s, e)
         \/ \E a \in Admins : Commit(a)
         \/ \E q \in Requests : (\E c \in Creds : Present(q, c)) \/ ReadRow(q) \/ Decide(q)
<1> DEFINE Quiet == UNCHANGED <<table, clock, auth>>
<1>1. ASSUME NEW a \in Admins, NEW s \in Scopes, NEW c \in Creds, Revoke(a, s, c) PROVE Quiet
  BY <1>1 DEF Revoke, Start
<1>2. ASSUME NEW a \in Admins, NEW s \in Scopes, NEW c \in Creds, NEW e \in Times \cup {None},
             Issue(a, s, c, e)
      PROVE  Quiet
  BY <1>2 DEF Issue, Start
<1>3. ASSUME NEW a \in Admins, NEW s \in Scopes, NEW c \in Creds, NEW e \in Times \cup {None},
             NEW u \in Times, Rotate(a, s, c, u, e)
      PROVE  Quiet
  BY <1>3 DEF Rotate, Start
<1>4. ASSUME NEW a \in Admins, BeginTx(a) PROVE Quiet
  BY <1>4 DEF BeginTx
<1>5. ASSUME NEW a \in Admins, Refused(a) PROVE Quiet
  BY <1>5 DEF Refused
<1>6. ASSUME NEW a \in Admins, Deliver(a) PROVE Quiet
  BY <1>6 DEF Deliver
<1>7. ASSUME NEW a \in Admins, DeliverFails(a) PROVE Quiet
  BY <1>7 DEF DeliverFails
<1>8. ASSUME NEW a \in Admins, Abort(a) PROVE Quiet
  BY <1>8 DEF Abort
<1>9. ASSUME UNCHANGED vars PROVE Quiet
  BY <1>9 DEF vars
<1> HIDE DEF Quiet
<1>q. QED
  <2>1. \/ Quiet \/ Tick
        \/ \E s \in Scopes, e \in Environments : CreateScope(s, e)
        \/ \E a \in Admins : Commit(a)
        \/ \E q \in Requests : (\E c \in Creds : Present(q, c)) \/ ReadRow(q) \/ Decide(q)
    BY <1>1, <1>2, <1>3, <1>4, <1>5, <1>6, <1>7, <1>8, <1>9 DEF Next
  <2>q. QED
    BY <2>1 DEF Quiet

(* Only Authenticate changes what it keeps of a request.                   *)
LEMMA AuthMoves ==
  ASSUME [Next]_vars
  PROVE  \/ UNCHANGED auth
         \/ \E q \in Requests : (\E c \in Creds : Present(q, c)) \/ ReadRow(q) \/ Decide(q)
<1>1. Tick => UNCHANGED auth
  BY DEF Tick
<1>2. ASSUME NEW s \in Scopes, NEW e \in Environments, CreateScope(s, e) PROVE UNCHANGED auth
  BY <1>2 DEF CreateScope
<1>3. ASSUME NEW a \in Admins, Commit(a) PROVE UNCHANGED auth
  BY <1>3 DEF Commit
<1>q. QED
  BY <1>1, <1>2, <1>3, StepKinds

(* Only the creation of a scope and a commit write the tables.             *)
LEMMA TableMoves ==
  ASSUME [Next]_vars
  PROVE  \/ UNCHANGED table
         \/ \E s \in Scopes, e \in Environments : CreateScope(s, e)
         \/ \E a \in Admins : Commit(a)
<1>1. Tick => UNCHANGED table
  BY DEF Tick
<1>2. ASSUME NEW q \in Requests, NEW c \in Creds, Present(q, c) PROVE UNCHANGED table
  BY <1>2 DEF Present
<1>3. ASSUME NEW q \in Requests, ReadRow(q) \/ Decide(q) PROVE UNCHANGED table
  BY <1>3 DEF ReadRow, Decide
<1>q. QED
  BY <1>1, <1>2, <1>3, StepKinds

(* This holds of every step, the commits included.                         *)
LEMMA RowsDescend ==
  ASSUME TypeOK, TxInv, [Next]_vars, NEW c \in Creds
  PROVE  RowDescends(c)
<1>1. CASE UNCHANGED table
  BY <1>1 DEF RowDescends, RowOf, table
<1>2. ASSUME NEW s \in Scopes, NEW e \in Environments, CreateScope(s, e) PROVE RowDescends(c)
  <2>1. status[c] # "none" => scopeOf[c] # None /\ scopeEnv[scopeOf[c]] # None
    BY DEF TxInv, RowSound
  <2>2. scopeEnv[s] = None /\ UNCHANGED <<status, scopeOf, until, expires>>
    BY <1>2 DEF CreateScope
  <2>3. status[c] # "none" => scopeEnv'[scopeOf[c]] = scopeEnv[scopeOf[c]]
    BY <1>2, <2>1 DEF CreateScope, TypeOK
  <2>q. QED
    BY <2>1, <2>2, <2>3 DEF RowDescends, RowOf
<1>3. ASSUME NEW a \in Admins, Commit(a) PROVE RowDescends(c)
  <2> DEFINE o == op[a]
  <2>1. /\ o \in Operations /\ UNCHANGED scopeEnv /\ o.kind \in {"issue", "rotate", "revoke"}
        /\ o.cred \in Creds
    BY <1>3, CommitWrites DEF Operations
  <2>2. NewSound(a) /\ TxSound(a) /\ pc[a] = "commit"
    BY <1>3 DEF TxInv, Commit
  <2>3. o.kind # "revoke" => status[o.cred] = "none"
    BY <2>2 DEF NewSound
  <2>4. o.kind = "rotate" => /\ status[o.active] = "active" /\ o.active \in Creds
                             /\ o.grace \in Creds => status[o.grace] = "grace"
    BY <2>2 DEF TxSound, IsHeld, InTx
  <2>5. status[c] # "none" =>
          /\ status'[c] # "none" /\ expires'[c] = expires[c] /\ scopeOf'[c] = scopeOf[c]
          /\ status[c] = "revoked" => status'[c] = "revoked"
          /\ status[c] = "grace" => \/ status'[c] = "grace" /\ until'[c] = until[c]
                                    \/ status'[c] = "revoked"
    <3>1. CASE o.kind = "issue"
      BY <1>3, <2>1, <2>3, <3>1, CommitWrites DEF TypeOK
    <3>2. CASE o.kind = "revoke"
      BY <1>3, <2>1, <3>2, CommitWrites DEF TypeOK
    <3>3. CASE o.kind = "rotate"
      BY <1>3, <2>1, <2>3, <2>4, <3>3, CommitWrites DEF TypeOK
    <3>q. QED
      BY <2>1, <3>1, <3>2, <3>3
  <2>q. QED
    BY <2>1, <2>5 DEF RowDescends, RowOf
<1>q. QED
  BY <1>1, <1>2, <1>3, TableMoves

(* The clock never goes back.                                              *)
LEMMA ClockAdvances ==
  ASSUME TypeOK, [Next]_vars
  PROVE  clock \in Nat /\ clock' \in Nat /\ clock <= clock'
<1>1. clock' = clock \/ clock' = clock + 1
  <2>1. Tick => clock' = clock + 1
    BY DEF Tick
  <2>2. ASSUME NEW s \in Scopes, NEW e \in Environments, CreateScope(s, e) PROVE clock' = clock
    BY <2>2 DEF CreateScope
  <2>3. ASSUME NEW a \in Admins, Commit(a) PROVE clock' = clock
    BY <2>3 DEF Commit
  <2>4. ASSUME NEW q \in Requests, NEW c \in Creds, Present(q, c) PROVE clock' = clock
    BY <2>4 DEF Present
  <2>5. ASSUME NEW q \in Requests, ReadRow(q) \/ Decide(q) PROVE clock' = clock
    BY <2>5 DEF ReadRow, Decide
  <2>q. QED
    BY <2>1, <2>2, <2>3, <2>4, <2>5, StepKinds
<1>q. QED
  BY <1>1 DEF TypeOK

(* A credential that has ended has ended for good.                         *)
LEMMA EndedStays ==
  ASSUME TypeOK, TypeOK', TxInv, [Next]_vars, NEW c \in Creds, Ended(c)
  PROVE  Ended(c)'
<1>1. RowDescends(c) /\ clock \in Nat /\ clock' \in Nat /\ clock <= clock'
  BY RowsDescend, ClockAdvances
<1>2. CASE status[c] = "revoked"
  BY <1>1, <1>2 DEF RowDescends, Ended
<1>3. CASE status[c] = "grace" /\ until[c] <= clock
  <2>1. until[c] \in Nat
    BY <1>3, CredentialsAssumption DEF TxInv, RowSound, Times
  <2>q. QED
    BY <1>1, <1>3, <2>1 DEF RowDescends, Ended
<1>4. CASE status[c] # "none" /\ expires[c] # None /\ expires[c] <= clock
  <2>1. expires[c] \in Nat
    BY <1>4, CredentialsAssumption DEF TypeOK, Times
  <2>q. QED
    BY <1>1, <1>4, <2>1 DEF RowDescends, Ended
<1>q. QED
  BY <1>2, <1>3, <1>4 DEF Ended

(* The row a request holds, of a token that ended before it began, will    *)
(* not be accepted at any later time.                                      *)
RowEnded(r, t) ==
  \/ r.status = "revoked"
  \/ r.status = "grace" /\ r.until \in Nat /\ r.until <= t
  \/ r.status # "none" /\ r.expires \in Nat /\ r.expires <= t

(* The row a request holds is the present one or an earlier one.           *)
RowFollows(r, c) ==
  r.status # "none" =>
    /\ status[c] # "none" /\ r.expires = expires[c] /\ r.env = RowOf(c).env
    /\ r.status = "revoked" => status[c] = "revoked"
    /\ r.status = "grace" => /\ r.until \in Times
                             /\ status[c] = "revoked" \/ (status[c] = "grace" /\ until[c] = r.until)

AuthInv ==
  /\ \A q \in Requests : apc[q] = "read" /\ late[q] => Ended(token[q])
  /\ \A q \in Requests : apc[q] = "decide" => /\ RowFollows(row[q], token[q])
                                              /\ late[q] => RowEnded(row[q], clock)
  /\ EndedNotAccepted

(* Nothing is accepted of an ended row.                                    *)
LEMMA RowEndedRefused ==
  ASSUME NEW r, NEW t \in Nat, RowEnded(r, t)
  PROVE  ~Acceptable(r, t)
  BY CredentialsAssumption DEF RowEnded, Acceptable

(* No request has begun.                                                   *)
LEMMA AuthInit == Init => AuthInv
  BY DEF Init, AuthInv, EndedNotAccepted

(* Every step keeps the authentications sound.                             *)
LEMMA AuthStep ==
  ASSUME TypeOK, TypeOK', TxInv, TxInv', AuthInv, [Next]_vars
  PROVE  AuthInv'
<1>1. CASE UNCHANGED auth
  <2>1. ASSUME NEW q \in Requests PROVE (apc[q] = "read" /\ late[q] => Ended(token[q]))'
    BY <1>1, EndedStays DEF AuthInv, auth, TypeOK
  <2>2. ASSUME NEW q \in Requests, apc'[q] = "decide"
        PROVE  RowFollows(row[q], token[q])' /\ (late[q] => RowEnded(row[q], clock))'
    <3>1. /\ apc[q] = "decide" /\ row'[q] = row[q] /\ token'[q] = token[q] /\ late'[q] = late[q]
          /\ token[q] \in Creds
      BY <1>1, <2>2 DEF auth, TypeOK
    <3>2. RowFollows(row[q], token[q]) /\ (late[q] => RowEnded(row[q], clock))
      BY <3>1 DEF AuthInv
    <3>5. /\ RowDescends(token[q]) /\ clock \in Nat /\ clock' \in Nat /\ clock <= clock'
      BY <3>1, RowsDescend, ClockAdvances
    <3>6. (late[q] => RowEnded(row[q], clock))'
      BY <3>1, <3>2, <3>5 DEF RowEnded
    <3>7. RowFollows(row[q], token[q])'
      BY <3>1, <3>2, <3>5 DEF RowFollows, RowDescends
    <3>q. QED
      BY <3>6, <3>7
  <2>q. QED
    BY <1>1, <2>1, <2>2 DEF AuthInv, EndedNotAccepted, auth
<1>2. ASSUME NEW q \in Requests, (\E c \in Creds : Present(q, c)) \/ ReadRow(q) \/ Decide(q)
      PROVE  AuthInv'
  <2>1. UNCHANGED <<table, clock>> /\ clock \in Nat
    BY <1>2 DEF Present, ReadRow, Decide, TypeOK
  <2>2. \A p \in Requests \ {q} :
          /\ apc'[p] = apc[p] /\ token'[p] = token[p] /\ row'[p] = row[p] /\ late'[p] = late[p]
          /\ outcome'[p] = outcome[p]
    BY <1>2 DEF Present, ReadRow, Decide, TypeOK
  <2>3. ASSUME NEW p \in Requests, p # q
        PROVE  /\ (apc[p] = "read" /\ late[p] => Ended(token[p]))'
               /\ (apc[p] = "decide" => /\ RowFollows(row[p], token[p])
                                        /\ late[p] => RowEnded(row[p], clock))'
               /\ (outcome[p] = "accepted" => ~late[p])'
    BY <2>1, <2>2, <2>3
    DEF AuthInv, Ended, RowFollows, RowEnded, RowOf, EndedNotAccepted, table
  <2>4. CASE \E c \in Creds : Present(q, c)
    <3>1. PICK c \in Creds : Present(q, c)
      BY <2>4
    <3>2. /\ apc'[q] = "read" /\ token'[q] = c /\ late'[q] = Ended(c) /\ outcome'[q] = "none"
      BY <3>1 DEF Present, TypeOK
    <3>4. (apc[q] = "read" /\ late[q] => Ended(token[q]))'
      BY <2>1, <3>2 DEF Ended, table
    <3>q. QED
      BY <2>3, <3>2, <3>4 DEF AuthInv, EndedNotAccepted
  <2>5. CASE ReadRow(q)
    <3>1. /\ apc[q] = "read" /\ apc'[q] = "decide" /\ row'[q] = RowOf(token[q])
          /\ token'[q] = token[q] /\ late'[q] = late[q] /\ outcome'[q] = outcome[q]
          /\ token[q] \in Creds
      BY <2>5 DEF ReadRow, TypeOK
    <3>2. RowSound(token[q]) /\ (late[q] => Ended(token[q]))
      BY <3>1 DEF TxInv, AuthInv
    <3>3. RowFollows(row[q], token[q])'
      BY <2>1, <3>1, <3>2 DEF RowFollows, RowOf, RowSound, table
    <3>4. late[q] => RowEnded(RowOf(token[q]), clock)
      BY <3>1, <3>2, CredentialsAssumption DEF RowEnded, RowOf, RowSound, Ended, TypeOK, Times
    <3>5. (late[q] => RowEnded(row[q], clock))'
      BY <2>1, <3>1, <3>4 DEF RowEnded
    <3>q. QED
      BY <2>3, <3>1, <3>3, <3>5 DEF AuthInv, EndedNotAccepted
  <2>6. CASE Decide(q)
    <3>1. /\ apc[q] = "decide" /\ apc'[q] = "idle" /\ late'[q] = late[q]
          /\ outcome'[q] = IF Acceptable(row[q], clock) THEN "accepted" ELSE "rejected"
      BY <2>6 DEF Decide, TypeOK
    <3>2. outcome'[q] = "accepted" => ~late'[q]
      BY <2>1, <3>1, RowEndedRefused DEF AuthInv
    <3>q. QED
      BY <2>3, <3>1, <3>2 DEF AuthInv, EndedNotAccepted
  <2>q. QED
    BY <1>2, <2>4, <2>5, <2>6
<1>q. QED
  BY <1>1, <1>2, AuthMoves

------------------------------------------------------------------------------
CredInv == TypeOK /\ TxInv /\ AuthInv

(* The inductive invariant holds of every reachable state.                 *)
LEMMA CredInvHolds == Spec => []CredInv
<1>1. Init => CredInv
  BY CredInit, TxInit, AuthInit DEF CredInv
<1>2. CredInv /\ [Next]_vars => CredInv'
  BY CredTypeStep, TxStep, AuthStep DEF CredInv
<1>q. QED
  BY <1>1, <1>2, PTL DEF Spec

(* However many administrators issue, rotate and revoke at once, the locks *)
(* of withScopeTx leave at most one active credential and one in grace.    *)
THEOREM LocksSuffice == Spec => []OneOfEach
<1>1. CredInv => OneOfEach
  BY DEF CredInv, TxInv
<1>q. QED
  BY <1>1, CredInvHolds, PTL

(* Wherever Issue or Rotate fails or dies, no committed credential is one  *)
(* whose token was never delivered.                                        *)
THEOREM NoTokenLost == Spec => []CommittedIsDelivered
<1>1. CredInv => CommittedIsDelivered
  BY DEF CredInv, TxInv
<1>q. QED
  BY <1>1, CredInvHolds, PTL

(* Authenticate never accepts a token that was revoked, expired or out of  *)
(* its grace before the request began.                                     *)
THEOREM EndedRefused == Spec => []EndedNotAccepted
<1>1. CredInv => EndedNotAccepted
  BY DEF CredInv, AuthInv
<1>q. QED
  BY <1>1, CredInvHolds, PTL

(* Authenticate refuses no token that is usable at that moment, unless its *)
(* row was not committed yet when it was read.                             *)
THEOREM RefusalsJustified == Spec => RejectionJustified
<1> DEFINE Justified(q) ==
       apc[q] = "decide" /\ apc'[q] = "idle" /\ outcome'[q] = "rejected" =>
         row[q].status = "none" \/ ~Usable(token[q])
<1>1. ASSUME CredInv, [Next]_vars, NEW q \in Requests PROVE Justified(q)
  <2> SUFFICES ASSUME apc[q] = "decide", apc'[q] = "idle", outcome'[q] = "rejected",
                      row[q].status # "none"
               PROVE  ~Usable(token[q])
    OBVIOUS
  <2>1. Decide(q)
    <3>1. ASSUME NEW p \in Requests, p # q,
                 (\E c \in Creds : Present(p, c)) \/ ReadRow(p) \/ Decide(p)
          PROVE  apc'[q] = apc[q]
      BY <1>1, <3>1 DEF Present, ReadRow, Decide, CredInv, TypeOK
    <3>2. ~ReadRow(q) /\ \A c \in Creds : ~Present(q, c)
      BY DEF ReadRow, Present
    <3>3. \/ UNCHANGED apc
          \/ \E p \in Requests : (\E c \in Creds : Present(p, c)) \/ ReadRow(p) \/ Decide(p)
      BY <1>1, AuthMoves DEF auth
    <3>q. QED
      BY <3>1, <3>2, <3>3
  <2>2. ~Acceptable(row[q], clock)
    BY <1>1, <2>1 DEF Decide, CredInv, TypeOK
  <2>3. RowFollows(row[q], token[q]) /\ row[q] \in Rows
    BY <1>1 DEF CredInv, AuthInv, TypeOK
  <2>4. row[q].status \in {"active", "grace", "revoked"}
    BY <2>3 DEF Rows, Statuses
  <2>5. ASSUME Acceptable(RowOf(token[q]), clock) PROVE Acceptable(row[q], clock)
    <3>1. /\ RowOf(token[q]).status = status[token[q]] /\ RowOf(token[q]).until = until[token[q]]
          /\ RowOf(token[q]).expires = expires[token[q]]
      BY DEF RowOf
    <3>q. QED
      BY <2>3, <2>4, <2>5, <3>1 DEF Acceptable, RowFollows
  <2>q. QED
    BY <2>2, <2>5 DEF Usable
<1>2. CredInv /\ [Next]_vars => [\A q \in Requests : Justified(q)]_vars
  BY <1>1
<1>q. QED
  BY CredInvHolds, <1>2, PTL DEF Spec, RejectionJustified

(* Rotate hands over from the credential that is active as it commits,     *)
(* whatever other administrators did while it waited or delivered.         *)
THEOREM RotationHandsOver == Spec => HandOver
<1> DEFINE Hands(c) ==
       from'[c] # from[c] =>
         /\ status[from'[c]] = "active" /\ status'[from'[c]] = "grace"
         /\ scopeOf'[c] = scopeOf[from'[c]]
<1>1. ASSUME CredInv, [Next]_vars, NEW c \in Creds PROVE Hands(c)
  <2> SUFFICES ASSUME from'[c] # from[c]
               PROVE  /\ status[from'[c]] = "active" /\ status'[from'[c]] = "grace"
                      /\ scopeOf'[c] = scopeOf[from'[c]]
    OBVIOUS
  <2>1. PICK a \in Admins : Commit(a)
    BY <1>1, TableMoves DEF table, CreateScope
  <2> DEFINE o == op[a]
  <2>2. o \in Operations /\ o.kind \in {"issue", "rotate", "revoke"}
    BY <1>1, <2>1, CommitWrites DEF CredInv, Operations
  <2>3. o.kind = "rotate" /\ from' = [from EXCEPT ![o.cred] = o.active]
    BY <1>1, <2>1, <2>2, CommitWrites DEF CredInv
  <2>4. c = o.cred /\ from'[c] = o.active
    BY <1>1, <2>3 DEF CredInv, TypeOK
  <2>5. /\ o.active \in Creds /\ status[o.active] = "active" /\ scopeOf[o.active] = o.scope
        /\ o.grace \in Creds => status[o.grace] = "grace"
        /\ status[o.cred] = "none"
    BY <1>1, <2>1, <2>3 DEF CredInv, TxInv, TxSound, NewSound, IsHeld, InTx, Commit
  <2>6. /\ status' = [d \in Creds |-> IF d = o.cred THEN "active"
                                      ELSE IF d = o.grace THEN "revoked"
                                      ELSE IF d = o.active THEN "grace" ELSE status[d]]
        /\ scopeOf' = [scopeOf EXCEPT ![o.cred] = o.scope]
    BY <1>1, <2>1, <2>3, CommitWrites DEF CredInv
  <2> HIDE DEF o
  <2>q. QED
    BY <1>1, <2>4, <2>5, <2>6 DEF CredInv, TypeOK
<1>2. CredInv /\ [Next]_vars => [\A c \in Creds : Hands(c)]_vars
  BY <1>1
<1>q. QED
  BY CredInvHolds, <1>2, PTL DEF Spec, HandOver
==============================================================================
