------------------------- MODULE FixtureQueueProofs -------------------------
(***************************************************************************)
(* Proofs about FixtureQueue for any rows, callers, retry limit, faults    *)
(* and overtaken passes.                                                   *)
(***************************************************************************)
EXTENDS FixtureQueue, FiniteSetTheorems, TLAPS

BusyPCs == PCs \ {"idle", "claim"}

(* A pass between its claim and its end has a row; no other caller has.    *)
JobSound(c) ==
  /\ pc[c] \in BusyPCs => job[c] \in Rows
  /\ pc[c] \notin BusyPCs => job[c] = None /\ kind[c] = "next"

------------------------------------------------------------------------------
(* Types.                                                                  *)

(* The empty queue of a runtime that has just been opened is well typed.   *)
LEMMA FixtureInit == Init => TypeOK /\ \A c \in Callers : JobSound(c)
  BY QueueAssumption DEF Init, TypeOK, RowStates, Settled, Answers, PCs, JobSound, BusyPCs

(* Every step keeps the types and the callers' rows.                       *)
LEMMA FixtureTypeStep ==
  ASSUME TypeOK, \A c \in Callers : JobSound(c), [Next]_vars
  PROVE  TypeOK' /\ (\A c \in Callers : JobSound(c))'
<1> USE QueueAssumption DEF RowStates, Settled, Answers, PCs, BusyPCs, Goto, table, passes,
        memory, history, bounds
<1>1. CASE UNCHANGED vars
  BY <1>1 DEF vars, TypeOK, JobSound
<1>2. ASSUME NEW r \in Rows, Enqueue(r) \/ BackoffElapses(r)
      PROVE  TypeOK' /\ (\A c \in Callers : JobSound(c))'
  BY <1>2 DEF Enqueue, BackoffElapses, TypeOK, JobSound
<1>3. ASSUME NEW c \in Callers, ProcessOne(c)
      PROVE  TypeOK' /\ (\A d \in Callers : JobSound(d))'
  BY <1>3 DEF ProcessOne, TypeOK, JobSound
<1>4. ASSUME NEW c \in Callers, NEW r \in Rows, ClaimNext(c, r)
      PROVE  TypeOK' /\ (\A d \in Callers : JobSound(d))'
  <2>1. PICK stale \in SUBSET Rows :
          /\ ReclaimStale(stale)
          /\ state' = [s \in Rows |-> IF s = r THEN "in_flight"
                                      ELSE IF s \in stale THEN "queued" ELSE state[s]]
    BY <1>4 DEF ClaimNext
  <2>2. overtakes' \in 0..MaxOvertakes /\ reclaims' \in [Rows -> Nat]
    BY <2>1 DEF ReclaimStale, TypeOK
  <2>3. state' \in [Rows -> RowStates]
    BY <2>1 DEF TypeOK
  <2>4. /\ attempts' = [attempts EXCEPT ![r] = @ + 1]
        /\ job' = [job EXCEPT ![c] = r]
        /\ try' = [try EXCEPT ![c] = attempts[r] + 1]
        /\ pc' = [pc EXCEPT ![c] = "claimed"]
        /\ UNCHANGED <<backoff, evidence, kind, result, memory, runtime, given, faults>>
    BY <1>4 DEF ClaimNext
  <2>5. TypeOK'
    BY <2>2, <2>3, <2>4 DEF TypeOK
  <2>6. (\A d \in Callers : JobSound(d))'
    BY <2>4 DEF TypeOK, JobSound
  <2>q. QED
    BY <2>5, <2>6
<1>5. ASSUME NEW c \in Callers, QueueEmpty(c)
      PROVE  TypeOK' /\ (\A d \in Callers : JobSound(d))'
  BY <1>5 DEF QueueEmpty, Return, TypeOK, JobSound
<1>6. ASSUME NEW c \in Callers, NEW r \in Rows, ReconcileObterEstado(c, r)
      PROVE  TypeOK' /\ (\A d \in Callers : JobSound(d))'
  BY <1>6 DEF ReconcileObterEstado, TypeOK, JobSound
<1>7. ASSUME NEW c \in Callers,
             EngineEnqueue(c) \/ EngineProcess(c) \/ EngineFinish(c) \/ MockLookup(c) \/ PostFails(c)
      PROVE  TypeOK' /\ (\A d \in Callers : JobSound(d))'
  BY <1>7 DEF EngineEnqueue, EngineProcess, EngineFinish, MockLookup, PostFails, Answered, TypeOK,
              JobSound
<1>8. ASSUME NEW c \in Callers, MockRespond(c)
      PROVE  TypeOK' /\ (\A d \in Callers : JobSound(d))'
  <2>1. job[c] \in Rows
    BY <1>8 DEF MockRespond, JobSound
  <2>q. QED
    BY <1>8, <2>1 DEF MockRespond, Answered, TypeOK, JobSound
<1>9. ASSUME NEW c \in Callers, Settle(c) \/ HandleTransportFailure(c)
      PROVE  TypeOK' /\ (\A d \in Callers : JobSound(d))'
  <2>1. job[c] \in Rows
    BY <1>9 DEF Settle, HandleTransportFailure, JobSound
  <2>2. /\ state' \in [Rows -> RowStates] /\ backoff' \subseteq Rows /\ evidence' \subseteq Rows
    BY <1>9, <2>1 DEF Settle, HandleTransportFailure, Retry, Requeue, FinishRow, TypeOK
  <2>3. Return(c) /\ UNCHANGED <<attempts, memory, runtime, history, bounds>>
    BY <1>9 DEF Settle, HandleTransportFailure
  <2>q. QED
    BY <2>2, <2>3 DEF Return, TypeOK, JobSound
<1>10. ASSUME NEW c \in Callers, UpdateFails(c)
       PROVE  TypeOK' /\ (\A d \in Callers : JobSound(d))'
  BY <1>10 DEF UpdateFails, Fault, Return, TypeOK, JobSound
<1>11. CASE ScriptFERNG \/ CloseRuntime \/ CloseEngine \/ Crash \/ Reopen
  BY <1>11 DEF ScriptFERNG, CloseRuntime, CloseEngine, Crash, Reopen, Restarted, Fault, TypeOK,
               JobSound
<1>q. QED
  BY <1>1, <1>2, <1>3, <1>4, <1>5, <1>6, <1>7, <1>8, <1>9, <1>10, <1>11 DEF Next, Proceed

------------------------------------------------------------------------------
(* Answers.                                                                *)

(* What the mock keeps for a row, what a pass holds in its hands and what  *)
(* a reconciliation has read in the table were all given by the mock.      *)
ReplaySound(r) == replay[r] # None => replay[r] \in given[r]
ResultSound(c) ==
  pc[c] \in {"answered", "settle"} /\ kind[c] = "next" /\ result[c] # "failed"
    => result[c] \in given[job[c]]
ReadSound(c) == pc[c] \in BusyPCs /\ kind[c] = "reconcile" => "ok" \in given[job[c]]

AnswerInv ==
  /\ \A r \in Rows : ReplaySound(r)
  /\ \A c \in Callers : ResultSound(c) /\ ReadSound(c)
  /\ AnswerBacked

(* Nothing is answered before the first POST.                              *)
LEMMA AnswerInit == Init => AnswerInv
  BY DEF Init, AnswerInv, ReplaySound, ResultSound, ReadSound, AnswerBacked, BusyPCs, Answers

(* Every step keeps the answers backed.                                    *)
LEMMA AnswerStep ==
  ASSUME TypeOK, \A c \in Callers : JobSound(c), AnswerInv, [Next]_vars
  PROVE  AnswerInv'
<1> USE DEF Goto, table, passes, memory, history, bounds
<1>1. CASE UNCHANGED vars
  BY <1>1 DEF vars, AnswerInv, ReplaySound, ResultSound, ReadSound, AnswerBacked
<1>2. ASSUME NEW r \in Rows, Enqueue(r) \/ BackoffElapses(r) PROVE AnswerInv'
  <2>1. AnswerBacked'
    BY <1>2 DEF Enqueue, BackoffElapses, TypeOK, AnswerInv, AnswerBacked, Answers
  <2>q. QED
    BY <1>2, <2>1 DEF Enqueue, BackoffElapses, AnswerInv, ReplaySound, ResultSound, ReadSound
<1>3. ASSUME NEW c \in Callers, ProcessOne(c) \/ QueueEmpty(c) \/ UpdateFails(c) PROVE AnswerInv'
  BY <1>3 DEF ProcessOne, QueueEmpty, UpdateFails, Return, TypeOK, AnswerInv, ReplaySound,
              ResultSound, ReadSound, AnswerBacked, BusyPCs
<1>4. ASSUME NEW c \in Callers, NEW r \in Rows, ClaimNext(c, r) PROVE AnswerInv'
  <2>1. UNCHANGED <<kind, result, replay, given>>
    BY <1>4 DEF ClaimNext
  <2>2. /\ pc' = [pc EXCEPT ![c] = "claimed"] /\ job' = [job EXCEPT ![c] = r]
        /\ pc[c] = "claim" /\ kind[c] = "next"
    BY <1>4 DEF ClaimNext, JobSound, BusyPCs
  <2>3. \A s \in Rows : state'[s] \in Answers => state[s] = state'[s]
    BY <1>4 DEF ClaimNext, Answers
  <2>4. AnswerBacked'
    BY <2>1, <2>3 DEF AnswerInv, AnswerBacked
  <2>5. (\A d \in Callers : ResultSound(d) /\ ReadSound(d))'
    BY <2>1, <2>2 DEF AnswerInv, ResultSound, ReadSound, TypeOK
  <2>q. QED
    BY <2>1, <2>4, <2>5 DEF AnswerInv, ReplaySound
<1>5. ASSUME NEW c \in Callers, NEW r \in Rows, ReconcileObterEstado(c, r) PROVE AnswerInv'
  <2>1. "ok" \in given[r]
    BY <1>5 DEF ReconcileObterEstado, AnswerInv, AnswerBacked, Answers
  <2>q. QED
    BY <1>5, <2>1 DEF ReconcileObterEstado, TypeOK, AnswerInv, ReplaySound, ResultSound, ReadSound,
                      AnswerBacked
<1>6. ASSUME NEW c \in Callers, EngineEnqueue(c) \/ EngineProcess(c) \/ EngineFinish(c)
      PROVE  AnswerInv'
  <2>1. UNCHANGED <<state, given, replay, job, kind, result>>
    BY <1>6 DEF EngineEnqueue, EngineProcess, EngineFinish
  <2>2. \A d \in Callers : /\ pc'[d] \in BusyPCs => pc[d] \in BusyPCs
                           /\ pc'[d] \in {"answered", "settle"} => pc[d] \in {"answered", "settle"}
    BY <1>6 DEF EngineEnqueue, EngineProcess, EngineFinish, TypeOK, BusyPCs, PCs
  <2>q. QED
    BY <2>1, <2>2 DEF AnswerInv, ReplaySound, ResultSound, ReadSound, AnswerBacked
<1>7. ASSUME NEW c \in Callers, MockLookup(c) PROVE AnswerInv'
  <2>1. job[c] \in Rows
    BY <1>7 DEF MockLookup, JobSound, BusyPCs, PCs
  <2>2. UNCHANGED <<state, given, replay, job, kind>>
    BY <1>7 DEF MockLookup
  <2>3. ASSUME NEW d \in Callers PROVE (ResultSound(d) /\ ReadSound(d))'
    BY <1>7, <2>1, <2>2
    DEF MockLookup, Answered, TypeOK, AnswerInv, ReplaySound, ResultSound, ReadSound, BusyPCs, PCs
  <2>q. QED
    BY <2>2, <2>3 DEF AnswerInv, ReplaySound, AnswerBacked
<1>8. ASSUME NEW c \in Callers, MockRespond(c) PROVE AnswerInv'
  <2>1. job[c] \in Rows
    BY <1>8 DEF MockRespond, JobSound, BusyPCs, PCs
  <2>2. /\ UNCHANGED <<state, job, kind>>
        /\ pc' = [pc EXCEPT ![c] = "answered"] /\ result' = [result EXCEPT ![c] = script]
    BY <1>8 DEF MockRespond, Answered
  <2>3. /\ \A r \in Rows : given[r] \subseteq given'[r]
        /\ kind[c] = "next" => script \in given'[job[c]]
    BY <1>8, <2>1 DEF MockRespond, TypeOK
  <2>4. \A r \in Rows : ReplaySound(r)'
    BY <1>8, <2>1, <2>3 DEF MockRespond, TypeOK, AnswerInv, ReplaySound
  <2>5. ASSUME NEW d \in Callers PROVE (ResultSound(d) /\ ReadSound(d))'
    <3>1. pc[d] \in BusyPCs => job[d] \in Rows
      BY DEF JobSound
    <3>q. QED
      BY <1>8, <2>2, <2>3, <3>1
      DEF MockRespond, TypeOK, AnswerInv, ResultSound, ReadSound, BusyPCs, PCs
  <2>6. AnswerBacked'
    BY <2>2, <2>3 DEF AnswerInv, AnswerBacked
  <2>q. QED
    BY <2>4, <2>5, <2>6 DEF AnswerInv
<1>9. ASSUME NEW c \in Callers, PostFails(c) PROVE AnswerInv'
  BY <1>9 DEF PostFails, Answered, TypeOK, AnswerInv, ReplaySound, ResultSound, ReadSound,
              AnswerBacked, BusyPCs, PCs
<1>10. ASSUME NEW c \in Callers, Settle(c) \/ HandleTransportFailure(c) PROVE AnswerInv'
  <2>1. job[c] \in Rows /\ pc[c] \in BusyPCs
    BY <1>10 DEF Settle, HandleTransportFailure, JobSound, BusyPCs, PCs
  <2>2. Return(c) /\ UNCHANGED <<given, replay>>
    BY <1>10 DEF Settle, HandleTransportFailure
  <2>3. \/ UNCHANGED state
        \/ \E a \in RowStates : /\ state' = [state EXCEPT ![job[c]] = a]
                                /\ a \in Answers => a \in given[job[c]]
    <3>1. CASE Settle(c)
      <4>1. kind[c] = "reconcile" => "ok" \in given[job[c]]
        BY <2>1 DEF AnswerInv, ReadSound
      <4>2. kind[c] = "next" /\ result[c] # "failed" => result[c] \in given[job[c]]
        BY <3>1 DEF AnswerInv, ResultSound, Settle
      <4>3. result[c] # "failed" => result[c] \in RowStates
        BY DEF TypeOK, RowStates, Settled
      <4>q. QED
        BY <3>1, <4>1, <4>2, <4>3
        DEF Settle, Retry, Requeue, FinishRow, RowStates, Settled, Answers
    <3>2. CASE HandleTransportFailure(c)
      BY <3>2 DEF HandleTransportFailure, Retry, Requeue, FinishRow, RowStates, Settled, Answers
    <3>q. QED
      BY <1>10, <3>1, <3>2
  <2>4. AnswerBacked'
    BY <2>1, <2>2, <2>3 DEF AnswerInv, AnswerBacked, TypeOK
  <2>5. (\A d \in Callers : ResultSound(d) /\ ReadSound(d))'
    BY <2>2 DEF Return, TypeOK, AnswerInv, ResultSound, ReadSound, BusyPCs
  <2>q. QED
    BY <2>2, <2>4, <2>5 DEF AnswerInv, ReplaySound
<1>11. CASE ScriptFERNG \/ CloseRuntime \/ CloseEngine
  BY <1>11 DEF ScriptFERNG, CloseRuntime, CloseEngine, AnswerInv, ReplaySound, ResultSound,
               ReadSound, AnswerBacked
<1>12. CASE Crash \/ Reopen
  BY <1>12 DEF Crash, Reopen, Restarted, TypeOK, AnswerInv, ReplaySound, ResultSound, ReadSound,
               AnswerBacked, BusyPCs
<1>q. QED
  BY <1>1, <1>2, <1>3, <1>4, <1>5, <1>6, <1>7, <1>8, <1>9, <1>10, <1>11, <1>12 DEF Next, Proceed

------------------------------------------------------------------------------
(* The retry budget.                                                       *)

(* Passes that may still requeue r.                                        *)
Pending(r) == {c \in Callers : job[c] = r /\ kind[c] = "next" /\ try[c] < MaxAttempts}
Queued(r) == IF state[r] = "queued" THEN 1 ELSE 0
(* Of n attempts, those that may end in a requeue: all but the last ones.  *)
Low(n) == IF n < MaxAttempts THEN n ELSE MaxAttempts - 1

(* A row is queued once by Enqueue, once by each reclaim, and once by each *)
(* attempt below the limit that has failed; every attempt takes it out of  *)
(* the queue.  Attempts still pending have not requeued it yet.            *)
Account(r) ==
  attempts[r] + Queued(r) + Cardinality(Pending(r)) <= 1 + reclaims[r] + Low(attempts[r])
TrySound(c) == pc[c] \in BusyPCs /\ kind[c] = "next" => try[c] <= attempts[job[c]]
DeadSound(r) == state[r] = "dead" => attempts[r] >= MaxAttempts
AbsentSound(r) == state[r] = "absent" => attempts[r] = 0 /\ \A c \in Callers : job[c] # r

BudgetInv ==
  /\ \A r \in Rows : Account(r) /\ DeadSound(r) /\ AbsentSound(r)
  /\ \A c \in Callers : TrySound(c)

(* Cardinality facts about the pending passes of a row.                    *)
LEMMA PendingFinite ==
  ASSUME NEW r \in Rows
  PROVE  IsFiniteSet(Pending(r)) /\ Cardinality(Pending(r)) \in Nat
<1>1. Pending(r) \subseteq Callers
  BY DEF Pending
<1>q. QED
  BY <1>1, QueueAssumption, FS_Subset, FS_CardinalityType

(* A step that changes a row's account only in the ways the code can:      *)
(* nothing is added to the row's queue entries and pending passes that is  *)
(* not paid for by a reclaim or a failed attempt.                          *)
LEMMA AccountKept ==
  ASSUME NEW r \in Rows, TypeOK, TypeOK', Account(r),
         attempts'[r] = attempts[r], reclaims'[r] = reclaims[r],
         Queued(r)' + Cardinality(Pending(r))' <= Queued(r) + Cardinality(Pending(r)),
         Cardinality(Pending(r))' \in Nat
  PROVE  Account(r)'
  BY PendingFinite, QueueAssumption DEF Account, Low, Queued, TypeOK

(* Nothing is queued or attempted in an empty queue.                       *)
LEMMA BudgetInit == Init => BudgetInv
<1> SUFFICES ASSUME Init PROVE BudgetInv
  OBVIOUS
<1>1. ASSUME NEW r \in Rows PROVE Pending(r) = {}
  BY QueueAssumption DEF Init, Pending
<1>2. ASSUME NEW r \in Rows PROVE Account(r)
  BY <1>1, FS_EmptySet, QueueAssumption DEF Init, Account, Queued, Low
<1>3. ASSUME NEW r \in Rows PROVE DeadSound(r) /\ AbsentSound(r)
  BY QueueAssumption DEF Init, DeadSound, AbsentSound
<1>4. ASSUME NEW c \in Callers PROVE TrySound(c)
  BY DEF Init, TrySound, BusyPCs
<1>q. QED
  BY <1>2, <1>3, <1>4 DEF BudgetInv

(* A step that leaves the rows' states and counters and every pass's claim *)
(* alone leaves the budget alone.                                          *)
LEMMA BudgetFrame ==
  ASSUME BudgetInv, UNCHANGED <<state, attempts, reclaims, job, kind, try>>,
         \A c \in Callers : pc'[c] \in BusyPCs => pc[c] \in BusyPCs
  PROVE  BudgetInv'
<1>1. ASSUME NEW r \in Rows PROVE Pending(r)' = Pending(r)
  BY DEF Pending
<1>q. QED
  BY <1>1 DEF BudgetInv, Account, Queued, Low, TrySound, DeadSound, AbsentSound

(* A pass that ends no longer counts as pending.                           *)
LEMMA ReturnPending ==
  ASSUME TypeOK, NEW c \in Callers, Return(c), NEW r \in Rows
  PROVE  /\ Pending(r)' = Pending(r) \ {c}
         /\ Cardinality(Pending(r))' \in Nat
         /\ Cardinality(Pending(r))' <= Cardinality(Pending(r))
         /\ c \in Pending(r) => Cardinality(Pending(r))' = Cardinality(Pending(r)) - 1
<1>1. Pending(r)' = Pending(r) \ {c}
  BY QueueAssumption DEF Return, TypeOK, Pending
<1>2. /\ c \in Pending(r) => Cardinality(Pending(r) \ {c}) = Cardinality(Pending(r)) - 1
      /\ c \notin Pending(r) => Pending(r) \ {c} = Pending(r)
  <2>1. IsFiniteSet(Pending(r))
    BY PendingFinite
  <2> HIDE DEF Pending
  <2>2. ASSUME c \in Pending(r)
        PROVE  Cardinality(Pending(r) \ {c}) = Cardinality(Pending(r)) - 1
    BY <2>1, <2>2, FS_RemoveElement
  <2>3. c \notin Pending(r) => Pending(r) \ {c} = Pending(r)
    OBVIOUS
  <2> QED BY <2>2, <2>3
<1>3. Cardinality(Pending(r) \ {c}) \in Nat
  BY PendingFinite, FS_Subset, FS_CardinalityType
<1>q. QED
  BY <1>1, <1>2, <1>3, PendingFinite

(* A caller that returns keeps the other callers' attempts sound.          *)
LEMMA ReturnTry ==
  ASSUME TypeOK, \A d \in Callers : JobSound(d), BudgetInv, NEW c \in Callers, Return(c),
         UNCHANGED attempts
  PROVE  (\A d \in Callers : TrySound(d))'
  BY DEF Return, Goto, TypeOK, BudgetInv, TrySound, BusyPCs

(* A claim takes a queued row out of the queue, or a reclaimed one, and    *)
(* its attempt is pending when it is below the limit.                      *)
LEMMA ClaimBudget ==
  ASSUME TypeOK, TypeOK', \A d \in Callers : JobSound(d), BudgetInv,
         NEW c \in Callers, NEW r \in Rows, ClaimNext(c, r)
  PROVE  BudgetInv'
<1>1. PICK stale \in SUBSET Rows :
        /\ ReclaimStale(stale)
        /\ Due(r) \/ r \in stale
        /\ state' = [s \in Rows |-> IF s = r THEN "in_flight"
                                    ELSE IF s \in stale THEN "queued" ELSE state[s]]
  BY DEF ClaimNext
<1>2. /\ attempts' = [attempts EXCEPT ![r] = @ + 1]
      /\ job' = [job EXCEPT ![c] = r]
      /\ try' = [try EXCEPT ![c] = attempts[r] + 1]
      /\ pc' = [pc EXCEPT ![c] = "claimed"]
      /\ UNCHANGED kind
  BY DEF ClaimNext, Goto
<1>3. pc[c] = "claim" /\ job[c] = None /\ kind[c] = "next"
  BY DEF ClaimNext, JobSound, BusyPCs
<1>4. /\ \A s \in stale : state[s] = "in_flight"
      /\ reclaims' = [s \in Rows |-> IF s \in stale THEN reclaims[s] + 1 ELSE reclaims[s]]
  BY <1>1 DEF ReclaimStale
<1>5. ASSUME NEW s \in Rows, s # r PROVE (Account(s) /\ DeadSound(s) /\ AbsentSound(s))'
  <2>1. Pending(s)' = Pending(s)
    BY <1>2, <1>3, <1>5, QueueAssumption DEF Pending, TypeOK
  <2>2. /\ attempts'[s] = attempts[s]
        /\ Queued(s)' - Queued(s) = reclaims'[s] - reclaims[s]
    BY <1>1, <1>2, <1>4, <1>5 DEF Queued, TypeOK
  <2>3. Account(s) /\ DeadSound(s) /\ AbsentSound(s) /\ Cardinality(Pending(s)) \in Nat
    BY PendingFinite DEF BudgetInv
  <2>4. Account(s)'
    BY <2>1, <2>2, <2>3, QueueAssumption DEF Account, Low, Queued, TypeOK
  <2>5. state'[s] \in {"dead", "absent"} => state'[s] = state[s]
    BY <1>1, <1>5
  <2>6. (DeadSound(s) /\ AbsentSound(s))'
    BY <1>2, <1>5, <2>2, <2>3, <2>5 DEF DeadSound, AbsentSound, TypeOK
  <2>q. QED
    BY <2>4, <2>6
<1>6. Account(r)'
  <2> DEFINE more == IF attempts[r] + 1 < MaxAttempts THEN 1 ELSE 0
  <2>1. c \notin Pending(r)
    BY <1>3, QueueAssumption DEF Pending
  <2>2. Pending(r)' = IF attempts[r] + 1 < MaxAttempts THEN Pending(r) \cup {c} ELSE Pending(r)
    BY <1>2, <1>3, <2>1 DEF Pending, TypeOK
  <2>3. Cardinality(Pending(r)') = Cardinality(Pending(r)) + more
    <3>1. Cardinality(Pending(r) \cup {c}) = Cardinality(Pending(r)) + 1
      BY <2>1, PendingFinite, FS_AddElement
    <3>2. Cardinality(Pending(r)) \in Nat
      BY PendingFinite
    <3>3. CASE attempts[r] + 1 < MaxAttempts
      BY <2>2, <3>1, <3>3
    <3>4. CASE ~(attempts[r] + 1 < MaxAttempts)
      BY <2>2, <3>2, <3>4
    <3>q. QED
      BY <3>3, <3>4
  <2>4. Queued(r)' = 0 /\ attempts'[r] = attempts[r] + 1
    BY <1>1, <1>2 DEF Queued, TypeOK
  <2>5. reclaims'[r] + Queued(r) = reclaims[r] + 1
    BY <1>1, <1>4 DEF Queued, Due, TypeOK
  <2>6. Low(attempts[r] + 1) = Low(attempts[r]) + more
    BY QueueAssumption DEF Low, TypeOK
  <2>7. Account(r) /\ Cardinality(Pending(r)) \in Nat
    BY PendingFinite DEF BudgetInv
  <2>8. /\ attempts[r] \in Nat /\ reclaims[r] \in Nat /\ reclaims'[r] \in Nat
        /\ Low(attempts[r]) \in Nat /\ Queued(r) \in Nat /\ more \in Nat
    BY QueueAssumption DEF TypeOK, Low, Queued
  <2>9. attempts[r] + 1 + 0 + Cardinality(Pending(r)') <= 1 + reclaims'[r] + Low(attempts[r] + 1)
    <3> HIDE DEF more
    <3>q. QED
      BY <2>3, <2>5, <2>6, <2>7, <2>8 DEF Account
  <2>q. QED
    BY <2>4, <2>9 DEF Account, Low
<1>7. (DeadSound(r) /\ AbsentSound(r))'
  BY <1>1 DEF DeadSound, AbsentSound
<1>8. ASSUME NEW d \in Callers PROVE TrySound(d)'
  <2>1. CASE d = c
    BY <1>2, <2>1 DEF TrySound, TypeOK
  <2>2. CASE d # c
    BY <1>2, <2>2 DEF BudgetInv, TrySound, JobSound, TypeOK
  <2>q. QED
    BY <2>1, <2>2
<1>q. QED
  BY <1>5, <1>6, <1>7, <1>8 DEF BudgetInv

(* A pass that ends requeues its row only when its attempt was pending,    *)
(* and buries it only when its attempt was not.                            *)
LEMMA SettleBudget ==
  ASSUME TypeOK, TypeOK', \A d \in Callers : JobSound(d), BudgetInv,
         NEW c \in Callers, Settle(c) \/ HandleTransportFailure(c)
  PROVE  BudgetInv'
<1>1. /\ Return(c) /\ UNCHANGED <<attempts, reclaims>> /\ pc[c] \in BusyPCs /\ job[c] \in Rows
  BY DEF Settle, HandleTransportFailure, JobSound, BusyPCs, PCs, history
<1>2. \/ UNCHANGED state
      \/ /\ state' = [state EXCEPT ![job[c]] = "queued"]
         /\ kind[c] = "next" /\ try[c] < MaxAttempts
      \/ /\ state' = [state EXCEPT ![job[c]] = "dead"]
         /\ kind[c] = "next" /\ try[c] >= MaxAttempts
      \/ \E a \in Answers : state' = [state EXCEPT ![job[c]] = a]
  BY DEF Settle, HandleTransportFailure, Retry, Requeue, FinishRow, TypeOK, Answers
<1>3. ASSUME NEW r \in Rows PROVE Account(r)'
  <2>1. Queued(r)' <= Queued(r) \/ (Queued(r)' = 1 /\ c \in Pending(r))
    BY <1>1, <1>2 DEF Queued, Pending, TypeOK, Answers
  <2>2. Queued(r)' + Cardinality(Pending(r))' <= Queued(r) + Cardinality(Pending(r))
    BY <1>1, <2>1, ReturnPending, PendingFinite DEF Queued
  <2>q. QED
    BY <1>1, <2>2, ReturnPending, AccountKept DEF BudgetInv
<1>4. ASSUME NEW r \in Rows PROVE (DeadSound(r) /\ AbsentSound(r))'
  <2>1. kind[c] = "next" => try[c] <= attempts[job[c]]
    BY <1>1 DEF BudgetInv, TrySound
  <2>2. DeadSound(r)'
    BY <1>1, <1>2, <2>1, QueueAssumption DEF BudgetInv, DeadSound, TypeOK, Answers
  <2>3. state'[r] = "absent" => state[r] = "absent"
    BY <1>1, <1>2 DEF TypeOK, Answers
  <2>4. \A d \in Callers : job'[d] = job[d] \/ job'[d] = None
    BY <1>1 DEF Return, TypeOK
  <2>5. AbsentSound(r)'
    BY <1>1, <2>3, <2>4, QueueAssumption DEF BudgetInv, AbsentSound
  <2>q. QED
    BY <2>2, <2>5
<1>q. QED
  BY <1>1, <1>3, <1>4, ReturnTry DEF BudgetInv

(* Every step keeps the budget.                                            *)
LEMMA BudgetStep ==
  ASSUME TypeOK, TypeOK', \A d \in Callers : JobSound(d), BudgetInv, [Next]_vars
  PROVE  BudgetInv'
<1> USE DEF Goto, table, passes, memory, history, bounds
<1>1. CASE UNCHANGED vars
  BY <1>1, BudgetFrame DEF vars
<1>2. ASSUME NEW r \in Rows, Enqueue(r) PROVE BudgetInv'
  <2>1. UNCHANGED <<attempts, reclaims, pc, job, kind, try>>
    BY <1>2 DEF Enqueue
  <2>2. \A s \in Rows : Pending(s)' = Pending(s)
    BY <2>1 DEF Pending
  <2>3. attempts[r] = 0 /\ Pending(r) = {} /\ reclaims[r] \in Nat /\ Queued(r)' = 1
    BY <1>2 DEF Enqueue, BudgetInv, AbsentSound, Pending, Queued, TypeOK
  <2>4. Account(r)'
    <3>1. Cardinality(Pending(r)') = 0
      BY <2>2, <2>3, FS_EmptySet
    <3>2. attempts'[r] = 0 /\ reclaims'[r] \in Nat
      BY <2>1, <2>3
    <3>q. QED
      BY <2>3, <3>1, <3>2, QueueAssumption DEF Account, Low
  <2>5. \A s \in Rows : s # r => state'[s] = state[s]
    BY <1>2 DEF Enqueue, TypeOK
  <2>6. \A s \in Rows : s # r => Account(s)'
    BY <2>1, <2>2, <2>5 DEF BudgetInv, Account, Queued, Low
  <2>7. \A s \in Rows : (DeadSound(s) /\ AbsentSound(s))'
    BY <1>2, <2>1, <2>5 DEF Enqueue, BudgetInv, DeadSound, AbsentSound, TypeOK
  <2>8. \A d \in Callers : TrySound(d)'
    BY <2>1 DEF BudgetInv, TrySound
  <2>q. QED
    BY <2>4, <2>6, <2>7, <2>8 DEF BudgetInv
<1>3. ASSUME NEW r \in Rows, BackoffElapses(r) PROVE BudgetInv'
  BY <1>3, BudgetFrame DEF BackoffElapses
<1>4. ASSUME NEW c \in Callers,
             \/ ProcessOne(c) \/ EngineEnqueue(c) \/ EngineProcess(c) \/ EngineFinish(c)
             \/ MockLookup(c) \/ MockRespond(c) \/ PostFails(c)
      PROVE  BudgetInv'
  <2>1. UNCHANGED <<state, attempts, reclaims, job, kind, try>>
    BY <1>4 DEF ProcessOne, EngineEnqueue, EngineProcess, EngineFinish, MockLookup, MockRespond,
                PostFails
  <2>2. \A d \in Callers : pc'[d] \in BusyPCs => pc[d] \in BusyPCs
    BY <1>4 DEF ProcessOne, EngineEnqueue, EngineProcess, EngineFinish, MockLookup, MockRespond,
                PostFails, Answered, TypeOK, BusyPCs, PCs
  <2>q. QED
    BY <2>1, <2>2, BudgetFrame
<1>5. ASSUME NEW c \in Callers, NEW r \in Rows, ClaimNext(c, r) PROVE BudgetInv'
  BY <1>5, ClaimBudget
<1>6. ASSUME NEW c \in Callers, QueueEmpty(c) \/ UpdateFails(c) PROVE BudgetInv'
  <2>1. Return(c) /\ UNCHANGED <<state, attempts, reclaims>>
    BY <1>6 DEF QueueEmpty, UpdateFails
  <2>2. ASSUME NEW r \in Rows PROVE Account(r)'
    BY <2>1, ReturnPending, PendingFinite, AccountKept DEF BudgetInv, Queued
  <2>3. \A d \in Callers : job'[d] = job[d] \/ job'[d] = None
    BY <2>1 DEF Return, TypeOK
  <2>4. ASSUME NEW r \in Rows PROVE (DeadSound(r) /\ AbsentSound(r))'
    BY <2>1, <2>3, QueueAssumption DEF BudgetInv, DeadSound, AbsentSound
  <2>q. QED
    BY <2>1, <2>2, <2>4, ReturnTry DEF BudgetInv
<1>7. ASSUME NEW c \in Callers, NEW r \in Rows, ReconcileObterEstado(c, r) PROVE BudgetInv'
  <2>1. /\ UNCHANGED <<state, attempts, reclaims, try>> /\ job[c] = None /\ state[r] = "ok"
        /\ job' = [job EXCEPT ![c] = r] /\ kind' = [kind EXCEPT ![c] = "reconcile"]
    BY <1>7 DEF ReconcileObterEstado, JobSound, BusyPCs
  <2>2. \A s \in Rows : Pending(s)' = Pending(s)
    BY <2>1, QueueAssumption DEF Pending, TypeOK
  <2>3. \A s \in Rows : (Account(s) /\ DeadSound(s))'
    BY <2>1, <2>2 DEF BudgetInv, Account, Queued, Low, DeadSound
  <2>4. \A s \in Rows : AbsentSound(s)'
    BY <2>1 DEF BudgetInv, AbsentSound, TypeOK
  <2>5. \A d \in Callers : TrySound(d)'
    BY <1>7, <2>1 DEF ReconcileObterEstado, BudgetInv, TrySound, TypeOK
  <2>q. QED
    BY <2>3, <2>4, <2>5 DEF BudgetInv
<1>8. ASSUME NEW c \in Callers, Settle(c) \/ HandleTransportFailure(c) PROVE BudgetInv'
  BY <1>8, SettleBudget
<1>9. CASE ScriptFERNG \/ CloseRuntime \/ CloseEngine
  BY <1>9, BudgetFrame DEF ScriptFERNG, CloseRuntime, CloseEngine
<1>10. CASE Crash \/ Reopen
  <2>1. /\ UNCHANGED <<state, attempts, reclaims>>
        /\ pc' = [c \in Callers |-> "idle"] /\ job' = [c \in Callers |-> None]
    BY <1>10 DEF Crash, Reopen, Restarted
  <2>2. ASSUME NEW r \in Rows PROVE Pending(r)' = {}
    BY <2>1, QueueAssumption DEF Pending
  <2>3. ASSUME NEW r \in Rows PROVE Account(r)'
    BY <2>1, <2>2, FS_EmptySet, PendingFinite, AccountKept DEF BudgetInv, Queued
  <2>4. \A r \in Rows : (DeadSound(r) /\ AbsentSound(r))'
    BY <2>1, QueueAssumption DEF BudgetInv, DeadSound, AbsentSound
  <2>5. \A c \in Callers : TrySound(c)'
    BY <2>1 DEF TrySound, BusyPCs
  <2>q. QED
    BY <2>3, <2>4, <2>5 DEF BudgetInv
<1>q. QED
  BY <1>1, <1>2, <1>3, <1>4, <1>5, <1>6, <1>7, <1>8, <1>9, <1>10 DEF Next, Proceed

------------------------------------------------------------------------------
(* Settled rows, as long as no pass has been overtaken.                    *)

Passing(c, r) == job[c] = r /\ kind[c] = "next"
Reconciling(c, r) == job[c] = r /\ kind[c] = "reconcile"

(* A pass has its row in flight and to itself; a reconciliation is on a    *)
(* row that is ok.                                                         *)
Owned ==
  \A c \in Callers, r \in Rows :
    /\ Passing(c, r) => state[r] = "in_flight" /\ \A d \in Callers : Passing(d, r) => d = c
    /\ Reconciling(c, r) => state[r] = "ok"
OwnedInv == overtakes = 0 => Owned

(* A step that returns some callers and changes no row keeps Owned.        *)
LEMMA OwnedFrame ==
  ASSUME Owned, UNCHANGED state,
         \A c \in Callers : job'[c] = None \/ (job'[c] = job[c] /\ kind'[c] = kind[c])
  PROVE  Owned'
  BY QueueAssumption DEF Owned, Passing, Reconciling

(* A claim that overtakes nobody takes a row nobody has.                   *)
LEMMA OwnedClaim ==
  ASSUME TypeOK, \A d \in Callers : JobSound(d), OwnedInv, overtakes' = 0,
         NEW c \in Callers, NEW r \in Rows, ClaimNext(c, r)
  PROVE  /\ Owned'
         /\ \A s \in Rows : state[s] \in Settled => state'[s] = state[s]
<1>1. PICK stale \in SUBSET Rows :
        /\ ReclaimStale(stale)
        /\ Due(r) \/ r \in stale
        /\ state' = [s \in Rows |-> IF s = r THEN "in_flight"
                                    ELSE IF s \in stale THEN "queued" ELSE state[s]]
  BY DEF ClaimNext
<1>2. overtakes = 0 /\ (\A s \in stale : state[s] = "in_flight" /\ ~Live(s))
  BY <1>1 DEF ReclaimStale, TypeOK
<1>3. Owned
  BY <1>2 DEF OwnedInv
<1>4. /\ job[c] = None
      /\ \A d \in Callers : job'[d] = IF d = c THEN r ELSE job[d]
      /\ \A d \in Callers : kind'[d] = kind[d]
      /\ kind[c] = "next"
  BY DEF ClaimNext, TypeOK, JobSound, BusyPCs
<1>5. \A s \in Rows : s = r \/ s \in stale =>
        /\ state[s] \in {"queued", "in_flight"}
        /\ \A d \in Callers : ~Passing(d, s)
  BY <1>1, <1>2, <1>3 DEF Due, Live, Owned, Passing
<1>6. \A s \in Rows : state'[s] = IF s = r THEN "in_flight"
                                  ELSE IF s \in stale THEN "queued" ELSE state[s]
  BY <1>1
<1>7. Owned'
  BY <1>3, <1>4, <1>5, <1>6, QueueAssumption DEF Owned, Passing, Reconciling
<1>q. QED
  BY <1>5, <1>6, <1>7 DEF Settled, Answers

(* The end of a pass touches no row but its own.                           *)
LEMMA OwnedSettle ==
  ASSUME TypeOK, \A d \in Callers : JobSound(d), Owned,
         NEW c \in Callers, Settle(c) \/ HandleTransportFailure(c)
  PROVE  /\ Owned'
         /\ \A s \in Rows : state[s] \in Settled => state'[s] = state[s]
<1>1. job[c] \in Rows /\ Return(c)
  BY DEF Settle, HandleTransportFailure, JobSound, BusyPCs, PCs
<1>2. \/ kind[c] = "next" /\ \E x \in RowStates : state' = [state EXCEPT ![job[c]] = x]
      \/ kind[c] = "reconcile" /\ state' = [state EXCEPT ![job[c]] = "ok"]
      \/ kind[c] = "reconcile" /\ UNCHANGED state
  BY DEF Settle, HandleTransportFailure, Retry, Requeue, FinishRow, TypeOK, RowStates, Settled, Answers
<1>3. \A d \in Callers : /\ job'[d] = IF d = c THEN None ELSE job[d]
                         /\ d # c => kind'[d] = kind[d]
  BY <1>1 DEF Return, TypeOK
<1>4. CASE kind[c] = "next"
  <2>1. state[job[c]] = "in_flight" /\ \A d \in Callers : d # c => ~Passing(d, job[c]) /\ ~Reconciling(d, job[c])
    BY <1>1, <1>4 DEF Owned, Passing, Reconciling
  <2>2. \A s \in Rows : s # job[c] => state'[s] = state[s]
    BY <1>2, <1>4 DEF TypeOK
  <2>q. QED
    BY <1>1, <1>3, <2>1, <2>2, QueueAssumption DEF Owned, Passing, Reconciling, Settled, Answers
<1>5. CASE kind[c] = "reconcile"
  <2>1. state[job[c]] = "ok"
    BY <1>1, <1>5 DEF Owned, Reconciling
  <2>2. UNCHANGED state
    BY <1>1, <1>2, <1>5, <2>1 DEF TypeOK
  <2>q. QED
    BY <1>3, <2>2, OwnedFrame
<1>q. QED
  BY <1>4, <1>5 DEF TypeOK

(* Every step keeps Owned and, with it, the settled rows.                  *)
LEMMA OwnedStep ==
  ASSUME TypeOK, \A d \in Callers : JobSound(d), OwnedInv, [Next]_vars, overtakes' = 0
  PROVE  /\ Owned'
         /\ \A s \in Rows : state[s] \in Settled => state'[s] = state[s]
<1> DEFINE Goal == Owned' /\ \A s \in Rows : state[s] \in Settled => state'[s] = state[s]
<1> USE DEF Goto, table, passes, memory, history, bounds
<1>1. CASE UNCHANGED vars
  BY <1>1, OwnedFrame DEF vars, OwnedInv
<1>2. ASSUME NEW r \in Rows, Enqueue(r) PROVE Goal
  <2>1. Owned /\ UNCHANGED <<job, kind>> /\ state[r] = "absent"
    BY <1>2 DEF Enqueue, OwnedInv
  <2>2. \A s \in Rows : s # r => state'[s] = state[s]
    BY <1>2 DEF Enqueue, TypeOK
  <2>q. QED
    BY <2>1, <2>2 DEF Owned, Passing, Reconciling, Settled, Answers
<1>3. ASSUME NEW r \in Rows, BackoffElapses(r) PROVE Goal
  BY <1>3, OwnedFrame DEF BackoffElapses, OwnedInv
<1>4. ASSUME NEW c \in Callers,
             \/ ProcessOne(c) \/ EngineEnqueue(c) \/ EngineProcess(c) \/ EngineFinish(c)
             \/ MockLookup(c) \/ MockRespond(c) \/ PostFails(c)
      PROVE  Goal
  <2>1. UNCHANGED <<state, job, kind, overtakes>>
    BY <1>4 DEF ProcessOne, EngineEnqueue, EngineProcess, EngineFinish, MockLookup, MockRespond,
                PostFails
  <2>q. QED
    BY <2>1, OwnedFrame DEF OwnedInv
<1>5. ASSUME NEW c \in Callers, NEW r \in Rows, ClaimNext(c, r) PROVE Goal
  BY <1>5, OwnedClaim
<1>6. ASSUME NEW c \in Callers, QueueEmpty(c) \/ UpdateFails(c) PROVE Goal
  <2>1. Return(c) /\ UNCHANGED <<state, overtakes>>
    BY <1>6 DEF QueueEmpty, UpdateFails
  <2>2. \A d \in Callers : job'[d] = None \/ (job'[d] = job[d] /\ kind'[d] = kind[d])
    BY <2>1 DEF Return, TypeOK
  <2>q. QED
    BY <2>1, <2>2, OwnedFrame DEF OwnedInv
<1>7. ASSUME NEW c \in Callers, NEW r \in Rows, ReconcileObterEstado(c, r) PROVE Goal
  <2>1. /\ Owned /\ UNCHANGED state /\ state[r] = "ok" /\ job[c] = None
        /\ \A d \in Callers : job'[d] = IF d = c THEN r ELSE job[d]
        /\ \A d \in Callers : kind'[d] = IF d = c THEN "reconcile" ELSE kind[d]
    BY <1>7 DEF ReconcileObterEstado, JobSound, BusyPCs, TypeOK, OwnedInv
  <2>q. QED
    BY <2>1 DEF Owned, Passing, Reconciling
<1>8. ASSUME NEW c \in Callers, Settle(c) \/ HandleTransportFailure(c) PROVE Goal
  <2>1. UNCHANGED overtakes
    BY <1>8 DEF Settle, HandleTransportFailure
  <2>q. QED
    BY <1>8, <2>1, OwnedSettle DEF OwnedInv
<1>9. CASE ScriptFERNG \/ CloseRuntime \/ CloseEngine
  BY <1>9, OwnedFrame DEF ScriptFERNG, CloseRuntime, CloseEngine, OwnedInv
<1>10. CASE Crash \/ Reopen
  <2>1. UNCHANGED <<state, overtakes>> /\ \A c \in Callers : job'[c] = None
    BY <1>10 DEF Crash, Reopen, Restarted
  <2>q. QED
    BY <2>1, OwnedFrame DEF OwnedInv
<1>q. QED
  BY <1>1, <1>2, <1>3, <1>4, <1>5, <1>6, <1>7, <1>8, <1>9, <1>10 DEF Next, Proceed

------------------------------------------------------------------------------
FixtureInv == TypeOK /\ (\A c \in Callers : JobSound(c)) /\ AnswerInv /\ BudgetInv /\ OwnedInv

(* FixtureInv holds in every reachable state of the queue.                 *)
LEMMA FixtureInvHolds == Spec => []FixtureInv
<1>1. Init => FixtureInv
  <2>1. Init => OwnedInv
    BY QueueAssumption DEF Init, OwnedInv, Owned, Passing, Reconciling
  <2>q. QED
    BY <2>1, FixtureInit, AnswerInit, BudgetInit DEF FixtureInv
<1>2. FixtureInv /\ [Next]_vars => FixtureInv'
  <2>1. ASSUME FixtureInv, [Next]_vars PROVE OwnedInv'
    BY <2>1, OwnedStep DEF FixtureInv, OwnedInv
  <2>q. QED
    BY <2>1, FixtureTypeStep, AnswerStep, BudgetStep DEF FixtureInv
<1>q. QED
  BY <1>1, <1>2, PTL DEF Spec

(* Rows, passes, engine and mock stay well typed, in every interleaving of *)
(* ProcessNext, ReconcileObterEstado, Close and restarts.                  *)
THEOREM FixtureTypeCorrect == Spec => []TypeOK
<1>1. FixtureInv => TypeOK
  BY DEF FixtureInv
<1>q. QED
  BY <1>1, FixtureInvHolds, PTL

(* However passes, reclaims and shutdowns interleave, finish writes ok or  *)
(* reject into a row only when the mock gave that answer to this row.      *)
THEOREM SettledByAnswer == Spec => []AnswerBacked
<1>1. FixtureInv => AnswerBacked
  BY DEF FixtureInv, AnswerInv
<1>q. QED
  BY <1>1, FixtureInvHolds, PTL

(* For any limit, any number of callers, crashes and overtaken passes:     *)
(* claimNext attempts a row at most MaxAttempts times, plus once for each  *)
(* reclaim, and no row is buried with attempts left.                       *)
THEOREM RetryBudget == Spec => []AttemptBudget
<1>1. FixtureInv => AttemptBudget
  <2> SUFFICES ASSUME FixtureInv, NEW r \in Rows
               PROVE  /\ attempts[r] <= MaxAttempts + reclaims[r]
                      /\ state[r] = "dead" => attempts[r] >= MaxAttempts
    BY DEF AttemptBudget
  <2>1. Account(r) /\ DeadSound(r) /\ Cardinality(Pending(r)) \in Nat
    BY PendingFinite DEF FixtureInv, BudgetInv
  <2>2. /\ attempts[r] \in Nat /\ reclaims[r] \in Nat /\ Queued(r) \in Nat
        /\ Low(attempts[r]) <= MaxAttempts - 1 /\ Low(attempts[r]) \in Nat
    BY QueueAssumption DEF FixtureInv, TypeOK, Queued, Low
  <2>3. attempts[r] <= MaxAttempts + reclaims[r]
    BY <2>1, <2>2, QueueAssumption DEF Account
  <2>q. QED
    BY <2>1, <2>3 DEF DeadSound
<1>q. QED
  BY <1>1, FixtureInvHolds, PTL

(* A settled row stays settled until a pass is overtaken, for any rows,    *)
(* callers, crashes and shutdowns: although finish and requeue name only   *)
(* the row's id, the claim gives each row to one pass at a time.           *)
THEOREM SettledForGood == Spec => OutcomeKept
<1>1. FixtureInv /\ [Next]_vars
        => [overtakes' = 0 => \A r \in Rows : state[r] \in Settled => state'[r] = state[r]]_vars
  BY OwnedStep DEF FixtureInv
<1>q. QED
  BY <1>1, FixtureInvHolds, PTL DEF Spec, OutcomeKept
==============================================================================
