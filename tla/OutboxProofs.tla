---------------------------- MODULE OutboxProofs ----------------------------
(***************************************************************************)
(* Proofs about Outbox for any documents, any number of workers and any    *)
(* number of faults.                                                       *)
(***************************************************************************)
EXTENDS Outbox, TLAPS

PersistPCs == {"persist", "persist_tip", "persist_dup", "persist_seq", "persist_commit"}
ReadPCs == {"persist_seq", "persist_commit", "release_seq", "release_commit"}

(* What a worker's program counter says about its claim and its answer.    *)
Working ==
  \A w \in Workers :
    /\ pc[w] # "idle" => claim[w] \in Docs
    /\ pc[w] \in PersistPCs => answer[w] \in Outcomes
    /\ pc[w] \in ReadPCs => latest[w] \in Statuses

TypeInv == TypeOK /\ Working

------------------------------------------------------------------------------
(* The last event of a document has a status.                              *)
LEMMA TipType == ASSUME RecordType, NEW d \in Docs PROVE Tip(d) \in Statuses
<1>1. ledger[d] \in Seq(LedgerEvents) /\ Len(ledger[d]) \in 1..Len(ledger[d])
  BY DEF RecordType
<1>2. ledger[d][Len(ledger[d])] \in LedgerEvents
  BY <1>1
<1>q. QED
  BY <1>2 DEF LedgerEvents, Tip

(* The initial state is well typed.                                        *)
LEMMA TypeInit == Init => TypeInv
  BY NoneAssumption, FaultsAssumption
  DEF Init, TypeInv, TypeOK, Working, OutboxStates, Dispositions, Statuses, Outcomes, Verdicts,
      PCs, PersistPCs, ReadPCs, Event, QueueType, RecordType, WorkerType, LockType,
      LedgerEvents

(* Outbox states, dispositions and the waiting set keep their types.       *)
LEMMA QueueTypeStep == TypeInv /\ [Next]_vars => QueueType'
<1> SUFFICES ASSUME TypeInv, [Next]_vars PROVE QueueType'
  OBVIOUS
<1> USE DEF TypeInv, TypeOK, QueueType, OutboxStates, Dispositions
<1>1. ASSUME NEW w \in Workers, NEW d \in Docs, ClaimDoc(w, d) PROVE QueueType'
  BY <1>1 DEF ClaimDoc
<1>2. ASSUME NEW w \in Workers, PersistDuplicate(w) PROVE QueueType'
  BY <1>2 DEF PersistDuplicate
<1>3. ASSUME NEW w \in Workers, PersistCommit(w) PROVE QueueType'
  BY <1>3 DEF PersistCommit
<1>4. ASSUME NEW w \in Workers, ReleaseCommit(w) PROVE QueueType'
  BY <1>4 DEF ReleaseCommit, Working, WorkerType
<1>5. ASSUME NEW d \in Docs, Ops(d) PROVE QueueType'
  BY <1>5 DEF Ops, OpsRetry, OpsCancel, OpsManualReview, ApplyQueueAction
<1>6. ASSUME NEW d \in Docs, BackoffElapses(d) PROVE QueueType'
  BY <1>6 DEF BackoffElapses
<1>7. CASE UNCHANGED queueVars
  BY <1>7 DEF queueVars
<1>8. ASSUME NEW w \in Workers, Faulty(w) PROVE UNCHANGED queueVars
  BY <1>8 DEF Faulty, MarkFails, SubmitFails, PersistFails, ReleaseFails, Crash
<1>9. ASSUME NEW w \in Workers, Proceed(w),
             ~PersistDuplicate(w), ~PersistCommit(w), ~ReleaseCommit(w)
      PROVE  UNCHANGED queueVars
  BY <1>9 DEF Proceed, MarkReadTip, MarkReadSeq, MarkCommit, Submit, PersistReadState,
              PersistReadTip, PersistReadSeq, ReleaseUpdate, ReleaseReadTip, ReleaseReadSeq
<1> HIDE DEF TypeInv, QueueType
<1>q. QED
  BY <1>1, <1>2, <1>3, <1>4, <1>5, <1>6, <1>7, <1>8, <1>9 DEF Next, vars

(* Appending an event leaves a non-empty ledger.                           *)
LEMMA AppendTyped ==
  ASSUME RecordType, NEW d \in Docs, NEW e \in LedgerEvents
  PROVE  /\ Append(ledger[d], e) \in Seq(LedgerEvents)
         /\ Len(Append(ledger[d], e)) > 0
  BY DEF RecordType

(* Ledgers, responses and the authority's answers keep their types.        *)
LEMMA RecordTypeStep == TypeInv /\ [Next]_vars => RecordType'
<1> SUFFICES ASSUME TypeInv, [Next]_vars PROVE RecordType'
  OBVIOUS
<1> USE DEF TypeInv, TypeOK, RecordType, WorkerType
<1>1. ASSUME NEW w \in Workers, MarkCommit(w) PROVE RecordType'
  <2>1. Event("sealed_locally", "authority_processing") \in LedgerEvents
    BY DEF Event, Statuses, LedgerEvents
  <2>2. claim[w] \in Docs
    BY <1>1 DEF MarkCommit, Working
  <2>q. QED
    <3>1. CASE UNCHANGED ledger
      BY <1>1, <3>1 DEF MarkCommit
    <3>2. CASE ledger' = [ledger EXCEPT ![claim[w]] =
                            Append(@, Event("sealed_locally", "authority_processing"))]
      BY <1>1, <2>1, <2>2, <3>2, AppendTyped DEF MarkCommit
    <3>q. QED
      BY <1>1, <3>1, <3>2 DEF MarkCommit
<1>2. ASSUME NEW w \in Workers, PersistCommit(w) PROVE RecordType'
  <2>1. claim[w] \in Docs /\ answer[w] \in Outcomes /\ latest[w] \in Statuses
    BY <1>2 DEF PersistCommit, Working, PersistPCs, ReadPCs
  <2>2. OutcomeEvents(w) \in Seq(LedgerEvents)
    <3>1. /\ Event("sealed_locally", "authority_processing") \in LedgerEvents
          /\ Event("authority_processing", answer[w]) \in LedgerEvents
          /\ Event(latest[w], answer[w]) \in LedgerEvents
      BY <2>1 DEF Event, Statuses, LedgerEvents
    <3>q. QED
      BY <3>1 DEF OutcomeEvents
  <2>3. /\ ledger[claim[w]] \o OutcomeEvents(w) \in Seq(LedgerEvents)
        /\ Len(ledger[claim[w]] \o OutcomeEvents(w)) > 0
    BY <2>1, <2>2
  <2>q. QED
    <3>1. CASE UNCHANGED <<ledger, responses>>
      BY <1>2, <3>1 DEF PersistCommit
    <3>2. CASE /\ ledger' = [ledger EXCEPT ![claim[w]] = @ \o OutcomeEvents(w)]
               /\ responses' = [responses EXCEPT ![claim[w]] = Append(@, answer[w])]
      <4>1. Append(responses[claim[w]], answer[w]) \in Seq(Outcomes)
        BY <2>1
      <4>q. QED
        BY <1>2, <2>1, <2>3, <3>2, <4>1 DEF PersistCommit
    <3>q. QED
      BY <1>2, <3>1, <3>2 DEF PersistCommit
<1>3. ASSUME NEW w \in Workers, ReleaseCommit(w) PROVE RecordType'
  <2>1. Event("authority_processing", "sealed_locally") \in LedgerEvents
    BY DEF Event, Statuses, LedgerEvents
  <2>2. claim[w] \in Docs
    BY <1>3 DEF ReleaseCommit, Working
  <2>q. QED
    BY <1>3, <2>1, <2>2, AppendTyped DEF ReleaseCommit
<1>4. ASSUME NEW w \in Workers, Submit(w) PROVE RecordType'
  <2>1. PICK o \in Outcomes : answered' = [answered EXCEPT ![claim[w]] = @ \cup {o}]
    BY <1>4 DEF Submit
  <2>2. claim[w] \in Docs
    BY <1>4 DEF Submit, Working
  <2>3. answered' \in [Docs -> SUBSET Outcomes]
    BY <2>1, <2>2
  <2>q. QED
    BY <1>4, <2>3 DEF Submit
<1>5. CASE UNCHANGED recordVars
  BY <1>5 DEF recordVars
<1>6. ASSUME NEW w \in Workers, Faulty(w) PROVE UNCHANGED recordVars
  BY <1>6 DEF Faulty, MarkFails, SubmitFails, PersistFails, ReleaseFails, Crash
<1>7. ASSUME NEW w \in Workers, Proceed(w),
             ~MarkCommit(w), ~Submit(w), ~PersistCommit(w), ~ReleaseCommit(w)
      PROVE  UNCHANGED recordVars
  BY <1>7 DEF Proceed, MarkReadTip, MarkReadSeq, PersistReadState, PersistReadTip,
              PersistDuplicate, PersistReadSeq, ReleaseUpdate, ReleaseReadTip, ReleaseReadSeq
<1>8. ASSUME NEW d \in Docs, Ops(d) \/ BackoffElapses(d) PROVE UNCHANGED recordVars
  BY <1>8 DEF Ops, OpsRetry, OpsCancel, OpsManualReview, ApplyQueueAction, BackoffElapses
<1>9. ASSUME NEW w \in Workers, NEW d \in Docs, ClaimDoc(w, d) PROVE UNCHANGED recordVars
  BY <1>9 DEF ClaimDoc
<1> HIDE DEF TypeInv, RecordType
<1>q. QED
  BY <1>1, <1>2, <1>3, <1>4, <1>5, <1>6, <1>7, <1>8, <1>9 DEF Next, vars

(* Locks and the fault counter keep their types.                           *)
LEMMA LockTypeStep == TypeInv /\ [Next]_vars => LockType'
<1> SUFFICES ASSUME TypeInv, [Next]_vars PROVE LockType'
  OBVIOUS
<1> USE FaultsAssumption DEF TypeInv, TypeOK, LockType
<1>1. ASSUME NEW w \in Workers, Faulty(w) PROVE LockType'
  BY <1>1 DEF Faulty, MarkFails, SubmitFails, PersistFails, ReleaseFails, Crash, Fault,
              EndTx, lockVars
<1>2. ASSUME NEW w \in Workers,
             MarkCommit(w) \/ PersistDuplicate(w) \/ PersistCommit(w) \/ ReleaseCommit(w)
      PROVE  LockType'
  BY <1>2 DEF MarkCommit, PersistDuplicate, PersistCommit, ReleaseCommit, EndTx
<1>3. ASSUME NEW w \in Workers, MarkReadTip(w) \/ PersistReadState(w) \/ ReleaseUpdate(w)
      PROVE  LockType'
  BY <1>3 DEF MarkReadTip, PersistReadState, ReleaseUpdate, BeginTx
<1>4. ASSUME NEW w \in Workers,
             \/ MarkReadSeq(w) \/ Submit(w) \/ PersistReadTip(w) \/ PersistReadSeq(w)
             \/ ReleaseReadTip(w) \/ ReleaseReadSeq(w) \/ \E d \in Docs : ClaimDoc(w, d)
      PROVE  LockType'
  BY <1>4 DEF MarkReadSeq, Submit, PersistReadTip, PersistReadSeq, ReleaseReadTip,
              ReleaseReadSeq, ClaimDoc, lockVars
<1>5. ASSUME NEW d \in Docs, Ops(d) \/ BackoffElapses(d) PROVE LockType'
  BY <1>5 DEF Ops, OpsRetry, OpsCancel, OpsManualReview, ApplyQueueAction, BackoffElapses,
              lockVars
<1>6. CASE UNCHANGED vars
  BY <1>6 DEF vars, lockVars
<1> HIDE DEF TypeInv, LockType
<1>q. QED
  BY <1>1, <1>2, <1>3, <1>4, <1>5, <1>6 DEF Next, Proceed

(* Program counters, claims and what was read keep their types.            *)
LEMMA WorkerTypeStep == TypeInv /\ [Next]_vars => WorkerType'
<1> SUFFICES ASSUME TypeInv, [Next]_vars PROVE WorkerType'
  OBVIOUS
<1> USE DEF TypeInv, TypeOK, WorkerType, PCs
<1>1. ASSUME NEW w \in Workers,
             \/ Finish(w)
             \/ \E l \in PCs : Goto(w, l) /\ UNCHANGED <<claim, readVars, answer>>
      PROVE  WorkerType'
  BY <1>1 DEF Finish, Goto, readVars
<1>2. ASSUME NEW w \in Workers, MarkReadTip(w) \/ PersistReadTip(w) \/ ReleaseReadTip(w)
      PROVE  WorkerType'
  <2>1. Tip(claim[w]) \in Statuses
    BY <1>2, TipType DEF MarkReadTip, PersistReadTip, ReleaseReadTip, Working
  <2>2. latest' \in [Workers -> Statuses \cup {None}]
    BY <1>2, <2>1 DEF MarkReadTip, PersistReadTip, ReleaseReadTip, ReadTip
  <2>3. UNCHANGED <<claim, nextSeq, attemptNo, answer>> /\ pc' \in [Workers -> PCs]
    BY <1>2 DEF MarkReadTip, PersistReadTip, ReleaseReadTip, Goto
  <2>q. QED
    BY <2>2, <2>3
<1>3. ASSUME NEW w \in Workers, MarkReadSeq(w) \/ PersistReadSeq(w) \/ ReleaseReadSeq(w)
      PROVE  WorkerType'
  <2>1. claim[w] \in Docs
    BY <1>3 DEF MarkReadSeq, PersistReadSeq, ReleaseReadSeq, Working
  <2>2. Len(ledger[claim[w]]) + 1 \in Nat /\ Len(responses[claim[w]]) + 1 \in Nat
    BY <2>1 DEF RecordType
  <2>3. nextSeq' \in [Workers -> Nat] /\ attemptNo' \in [Workers -> Nat]
    BY <1>3, <2>2 DEF MarkReadSeq, PersistReadSeq, ReleaseReadSeq, ReadSeq
  <2>4. UNCHANGED <<claim, latest, answer>> /\ pc' \in [Workers -> PCs]
    BY <1>3 DEF MarkReadSeq, PersistReadSeq, ReleaseReadSeq, Goto
  <2>q. QED
    BY <2>3, <2>4
<1>4. ASSUME NEW w \in Workers, Submit(w) PROVE WorkerType'
  BY <1>4 DEF Submit, Goto, readVars
<1>5. ASSUME NEW w \in Workers, NEW d \in Docs, ClaimDoc(w, d) PROVE WorkerType'
  BY <1>5 DEF ClaimDoc, Goto, readVars
<1>6. ASSUME NEW w \in Workers,
             \/ MarkCommit(w) \/ PersistReadState(w) \/ PersistDuplicate(w) \/ PersistCommit(w)
             \/ ReleaseUpdate(w) \/ ReleaseCommit(w) \/ Faulty(w)
      PROVE  \/ Finish(w)
             \/ \E l \in PCs : Goto(w, l) /\ UNCHANGED <<claim, readVars, answer>>
  BY <1>6 DEF MarkCommit, PersistReadState, PersistDuplicate, PersistCommit, ReleaseUpdate,
              ReleaseCommit, Faulty, MarkFails, SubmitFails, PersistFails, ReleaseFails, Crash
<1>7. CASE UNCHANGED <<pc, claim, readVars, answer>>
  BY <1>7 DEF readVars
<1>8. ASSUME NEW d \in Docs, Ops(d) \/ BackoffElapses(d)
      PROVE  UNCHANGED <<pc, claim, readVars, answer>>
  BY <1>8 DEF Ops, OpsRetry, OpsCancel, OpsManualReview, ApplyQueueAction, BackoffElapses
<1> HIDE DEF TypeInv, WorkerType, PCs
<1>q. QED
  BY <1>1, <1>2, <1>3, <1>4, <1>5, <1>6, <1>7, <1>8 DEF Next, Proceed, vars

(* A busy worker has a claim, and has read what its next statement uses.   *)
LEMMA WorkingStep == TypeInv /\ [Next]_vars => Working'
<1> SUFFICES ASSUME TypeInv, [Next]_vars PROVE Working'
  OBVIOUS
<1> USE DEF TypeInv, TypeOK, WorkerType, Working, PersistPCs, ReadPCs
<1>1. ASSUME NEW w \in Workers, Finish(w) PROVE Working'
  BY <1>1 DEF Finish, Goto
<1>2. ASSUME NEW w \in Workers, MarkReadTip(w) \/ PersistReadTip(w) \/ ReleaseReadTip(w)
      PROVE  Working'
  <2>1. Tip(claim[w]) \in Statuses
    BY <1>2, TipType DEF MarkReadTip, PersistReadTip, ReleaseReadTip
  <2>q. QED
    BY <1>2, <2>1 DEF MarkReadTip, PersistReadTip, ReleaseReadTip, ReadTip, Goto
<1>3. ASSUME NEW w \in Workers, MarkReadSeq(w) \/ PersistReadSeq(w) \/ ReleaseReadSeq(w)
      PROVE  Working'
  BY <1>3 DEF MarkReadSeq, PersistReadSeq, ReleaseReadSeq, Goto
<1>4. ASSUME NEW w \in Workers,
             \/ MarkCommit(w) \/ ReleaseUpdate(w) \/ MarkFails(w) \/ SubmitFails(w)
             \/ Submit(w) \/ PersistReadState(w)
      PROVE  Working'
  BY <1>4, <1>1 DEF MarkCommit, ReleaseUpdate, MarkFails, SubmitFails, Submit,
                    PersistReadState, Goto, readVars
<1>5. ASSUME NEW w \in Workers, NEW d \in Docs, ClaimDoc(w, d) PROVE Working'
  BY <1>5 DEF ClaimDoc, Goto, readVars
<1>6. ASSUME NEW w \in Workers,
             \/ PersistDuplicate(w) \/ PersistCommit(w) \/ ReleaseCommit(w)
             \/ PersistFails(w) \/ ReleaseFails(w) \/ Crash(w)
      PROVE  Finish(w)
  BY <1>6 DEF PersistDuplicate, PersistCommit, ReleaseCommit, PersistFails, ReleaseFails, Crash
<1>7. CASE UNCHANGED <<pc, claim, readVars, answer>>
  BY <1>7 DEF readVars
<1>8. ASSUME NEW d \in Docs, Ops(d) \/ BackoffElapses(d)
      PROVE  UNCHANGED <<pc, claim, readVars, answer>>
  BY <1>8 DEF Ops, OpsRetry, OpsCancel, OpsManualReview, ApplyQueueAction, BackoffElapses
<1> HIDE DEF TypeInv, Working
<1>q. QED
  BY <1>1, <1>2, <1>3, <1>4, <1>5, <1>6, <1>7, <1>8 DEF Next, Proceed, Faulty, vars

(* Every state of the outbox is well typed.                                *)
THEOREM TypeCorrect == Spec => []TypeOK
<1>1. TypeInv /\ [Next]_vars => TypeInv'
  BY QueueTypeStep, RecordTypeStep, LockTypeStep, WorkerTypeStep, WorkingStep
  DEF TypeInv, TypeOK
<1>2. TypeInv => TypeOK
  BY DEF TypeInv
<1>q. QED
  BY TypeInit, <1>1, <1>2, PTL DEF Spec

------------------------------------------------------------------------------
(* One verdict, in both dialects.  A release's uncommitted UPDATE keeps    *)
(* the row in_flight, an answer about to be persisted is one the authority *)
(* gave, and the duplicate branch is only entered after a verdict.         *)

CarriesAnswer(w) == pc[w] \in PersistPCs => answer[w] \in answered[claim[w]]
DuplicateSeen(w) == pc[w] = "persist_dup" => responses[claim[w]] # <<>>
LockedInFlight(d) == rowLock[d] # None => outbox[d] = "in_flight"
CancelledDead(d) == disposition[d] = "cancelled" => outbox[d] = "dead"

VerdictInv ==
  /\ VerdictRecordedOnce
  /\ \A w \in Workers : CarriesAnswer(w) /\ DuplicateSeen(w)
  /\ \A d \in Docs : LockedInFlight(d) /\ CancelledDead(d)

(* A document whose records keep their verdicts stays consistent.          *)
LEMMA RecordedFrame ==
  ASSUME NEW d \in Docs, Recorded(d),
         outbox'[d] = "succeeded" <=> outbox[d] = "succeeded",
         responses'[d] = responses[d],
         answered[d] \subseteq answered'[d],
         OutcomesAt(d)' = OutcomesAt(d),
         \A i \in OutcomesAt(d) : ledger'[d][i] = ledger[d][i]
  PROVE  Recorded(d)'
  BY DEF Recorded

(* A status that is no outcome adds no verdict.                            *)
LEMMA AppendNoVerdict ==
  ASSUME RecordType, NEW d \in Docs, NEW e \in LedgerEvents, e.to \notin Outcomes,
         ledger'[d] = Append(ledger[d], e)
  PROVE  /\ OutcomesAt(d)' = OutcomesAt(d)
         /\ \A i \in OutcomesAt(d) : ledger'[d][i] = ledger[d][i]
<1>1. ledger[d] \in Seq(LedgerEvents)
  BY DEF RecordType
<1>2. /\ Len(ledger'[d]) = Len(ledger[d]) + 1
      /\ ledger'[d][Len(ledger[d]) + 1] = e
      /\ \A i \in 1..Len(ledger[d]) : ledger'[d][i] = ledger[d][i]
  BY <1>1
<1>q. QED
  BY <1>1, <1>2 DEF OutcomesAt

(* The verdict of OutcomeEvents is the last event, and the only one.       *)
LEMMA AppendVerdict ==
  ASSUME RecordType, NEW w \in Workers, NEW d \in Docs, answer[w] \in Outcomes,
         latest[w] \in Statuses, OutcomesAt(d) = {},
         ledger'[d] = ledger[d] \o OutcomeEvents(w)
  PROVE  /\ OutcomesAt(d)' = {Len(ledger'[d])}
         /\ ledger'[d][Len(ledger'[d])].to = answer[w]
<1>1. ledger[d] \in Seq(LedgerEvents) /\ Len(ledger[d]) \in Nat
  BY DEF RecordType
<1>2. CASE latest[w] = "sealed_locally"
  <2>1. OutcomeEvents(w) = <<Event("sealed_locally", "authority_processing"),
                             Event("authority_processing", answer[w])>>
    BY <1>2 DEF OutcomeEvents
  <2>2. /\ Len(ledger'[d]) = Len(ledger[d]) + 2
        /\ ledger'[d][Len(ledger[d]) + 1].to = "authority_processing"
        /\ ledger'[d][Len(ledger[d]) + 2].to = answer[w]
        /\ \A i \in 1..Len(ledger[d]) : ledger'[d][i] = ledger[d][i]
    BY <1>1, <2>1 DEF Event
  <2>3. "authority_processing" \notin Outcomes
    BY DEF Outcomes, Verdicts
  <2>4. \A i \in 1..Len(ledger[d]) : ledger[d][i].to \notin Outcomes
    BY DEF OutcomesAt
  <2>5. \A i \in 1..Len(ledger'[d]) :
          \/ i \in 1..Len(ledger[d])
          \/ i = Len(ledger[d]) + 1
          \/ i = Len(ledger[d]) + 2
    BY <1>1, <2>2
  <2>q. QED
    BY <1>1, <2>2, <2>3, <2>4, <2>5 DEF OutcomesAt
<1>3. CASE latest[w] # "sealed_locally"
  <2>1. OutcomeEvents(w) = <<Event(latest[w], answer[w])>>
    BY <1>3 DEF OutcomeEvents
  <2>2. /\ Len(ledger'[d]) = Len(ledger[d]) + 1
        /\ ledger'[d][Len(ledger[d]) + 1].to = answer[w]
        /\ \A i \in 1..Len(ledger[d]) : ledger'[d][i] = ledger[d][i]
    BY <1>1, <2>1 DEF Event
  <2>q. QED
    BY <1>1, <2>2 DEF OutcomesAt
<1>q. QED
  BY <1>2, <1>3

(* A document whose last status is an outcome has a response.              *)
LEMMA TipVerdict ==
  ASSUME RecordType, NEW d \in Docs, Recorded(d), Tip(d) \in Outcomes
  PROVE  responses[d] # <<>>
<1>1. Len(ledger[d]) \in 1..Len(ledger[d])
  BY DEF RecordType
<1>q. QED
  BY <1>1 DEF Recorded, OutcomesAt, Tip

(* No verdict, response or attempt exists before the first step.           *)
LEMMA VerdictInit == Init => VerdictInv
<1> SUFFICES ASSUME Init PROVE VerdictInv
  OBVIOUS
<1>1. ASSUME NEW d \in Docs PROVE Recorded(d)
  <2>1. ledger[d] = <<Event(None, "sealed_locally")>> /\ responses[d] = <<>> /\ outbox[d] = "pending"
    BY DEF Init
  <2>2. OutcomesAt(d) = {}
    <3>1. Len(ledger[d]) = 1 /\ ledger[d][1].to = "sealed_locally"
      BY <2>1 DEF Event
    <3>q. QED
      BY <3>1 DEF OutcomesAt, Outcomes, Verdicts
  <2>q. QED
    BY <2>1, <2>2 DEF Recorded
<1>q. QED
  BY <1>1 DEF Init, VerdictInv, VerdictRecordedOnce, CarriesAnswer, DuplicateSeen,
              LockedInFlight, CancelledDead, PersistPCs

(* Every step keeps each document's records consistent.                    *)
LEMMA RecordedStep ==
  ASSUME TypeInv, VerdictInv, [Next]_vars, NEW d \in Docs
  PROVE  Recorded(d)'
<1> USE DEF TypeInv, TypeOK
<1>0. Recorded(d)
  BY DEF VerdictInv, VerdictRecordedOnce
<1>1. CASE UNCHANGED recordVars /\ (outbox'[d] = "succeeded" <=> outbox[d] = "succeeded")
  BY <1>0, <1>1, RecordedFrame DEF recordVars, OutcomesAt
<1>2. ASSUME NEW w \in Workers, MarkCommit(w) PROVE Recorded(d)'
  <2>1. UNCHANGED <<outbox, responses, answered>>
    BY <1>2 DEF MarkCommit, queueVars
  <2>2. CASE ledger'[d] = ledger[d]
    BY <1>0, <2>1, <2>2, RecordedFrame DEF OutcomesAt
  <2>3. CASE ledger'[d] = Append(ledger[d], Event("sealed_locally", "authority_processing"))
    <3>1. /\ Event("sealed_locally", "authority_processing") \in LedgerEvents
          /\ Event("sealed_locally", "authority_processing").to \notin Outcomes
      BY DEF Event, LedgerEvents, Statuses, Outcomes, Verdicts
    <3>2. /\ OutcomesAt(d)' = OutcomesAt(d)
          /\ \A i \in OutcomesAt(d) : ledger'[d][i] = ledger[d][i]
      BY <2>3, <3>1, AppendNoVerdict
    <3>q. QED
      BY <1>0, <2>1, <3>2, RecordedFrame
  <2>q. QED
    BY <1>2, <2>2, <2>3 DEF MarkCommit, RecordType
<1>3. ASSUME NEW w \in Workers, Submit(w) PROVE Recorded(d)'
  <2>1. UNCHANGED <<outbox, responses, ledger>> /\ answered[d] \subseteq answered'[d]
    BY <1>3 DEF Submit, queueVars, RecordType
  <2>q. QED
    BY <1>0, <2>1, RecordedFrame DEF OutcomesAt
<1>4. ASSUME NEW w \in Workers, PersistDuplicate(w) PROVE Recorded(d)'
  <2>1. UNCHANGED recordVars
    BY <1>4 DEF PersistDuplicate
  <2>2. outbox'[d] = "succeeded" <=> outbox[d] = "succeeded"
    <3>1. CASE claim[w] = d
      <4>1. responses[d] # <<>>
        BY <1>4, <3>1 DEF PersistDuplicate, VerdictInv, DuplicateSeen
      <4>q. QED
        BY <1>0, <1>4, <3>1, <4>1 DEF PersistDuplicate, Recorded, QueueType
    <3>2. CASE claim[w] # d
      BY <1>4, <3>2 DEF PersistDuplicate, QueueType
    <3>q. QED
      BY <3>1, <3>2
  <2>q. QED
    BY <1>1, <2>1, <2>2
<1>5. ASSUME NEW w \in Workers, PersistCommit(w) PROVE Recorded(d)'
  <2>1. CASE claim[w] # d \/ UNCHANGED <<ledger, responses, outbox>>
    <3>1. /\ ledger'[d] = ledger[d] /\ responses'[d] = responses[d]
          /\ outbox'[d] = outbox[d] /\ answered' = answered
      BY <1>5, <2>1 DEF PersistCommit, RecordType, QueueType
    <3>q. QED
      BY <1>0, <3>1, RecordedFrame DEF OutcomesAt
  <2>2. CASE claim[w] = d /\ ~UNCHANGED <<ledger, responses, outbox>>
    <3>1. /\ ledger'[d] = ledger[d] \o OutcomeEvents(w)
          /\ responses'[d] = Append(responses[d], answer[w])
          /\ outbox'[d] = "succeeded"
          /\ outbox[d] # "succeeded"
          /\ answered' = answered
      BY <1>5, <2>2 DEF PersistCommit, RecordType, QueueType, Succeedable
    <3>2. responses[d] = <<>> /\ OutcomesAt(d) = {}
      BY <1>0, <3>1 DEF Recorded
    <3>3. answer[w] \in Outcomes /\ answer[w] \in answered[d] /\ latest[w] \in Statuses
      BY <1>5, <2>2 DEF PersistCommit, VerdictInv, CarriesAnswer, Working, PersistPCs, ReadPCs
    <3>4. OutcomesAt(d)' = {Len(ledger'[d])} /\ ledger'[d][Len(ledger'[d])].to = answer[w]
      BY <3>1, <3>2, <3>3, AppendVerdict
    <3>5. /\ responses'[d] # <<>> /\ Len(responses'[d]) = 1
          /\ responses'[d][1] = answer[w]
      BY <3>1, <3>2
    <3>q. QED
      <4>1. (outbox[d] = "succeeded" <=> responses[d] # <<>>)'
        BY <3>1, <3>5
      <4>2. (OutcomesAt(d) # {} <=> responses[d] # <<>>)'
        BY <3>4, <3>5
      <4>3. (Len(responses[d]) <= 1)'
        BY <3>5
      <4>4. ASSUME NEW i \in OutcomesAt(d)'
            PROVE  (/\ ledger[d][i].to = responses[d][1]
                    /\ ledger[d][i].to \in answered[d]
                    /\ OutcomesAt(d) = {i})'
        BY <3>1, <3>3, <3>4, <3>5
      <4>q. QED
        BY <4>1, <4>2, <4>3, <4>4 DEF Recorded
  <2>q. QED
    BY <2>1, <2>2
<1>6. ASSUME NEW w \in Workers, ReleaseCommit(w) PROVE Recorded(d)'
  <2>1. UNCHANGED <<responses, answered>>
    BY <1>6 DEF ReleaseCommit
  <2>2. outbox'[d] = "succeeded" <=> outbox[d] = "succeeded"
    <3>1. outbox'[d] # outbox[d] => rowLock[d] # None /\ outbox'[d] = "pending"
      <4>1. \/ outbox' = outbox
            \/ outbox' = [outbox EXCEPT ![claim[w]] = "pending"] /\ rowLock[claim[w]] = w
        BY <1>6 DEF ReleaseCommit
      <4>q. QED
        BY <4>1, NoneAssumption DEF QueueType
    <3>q. QED
      BY <3>1 DEF VerdictInv, LockedInFlight
  <2>3. CASE ledger'[d] = ledger[d]
    BY <1>0, <2>1, <2>2, <2>3, RecordedFrame DEF OutcomesAt
  <2>4. CASE ledger'[d] = Append(ledger[d], Event("authority_processing", "sealed_locally"))
    <3>1. /\ Event("authority_processing", "sealed_locally") \in LedgerEvents
          /\ Event("authority_processing", "sealed_locally").to \notin Outcomes
      BY DEF Event, LedgerEvents, Statuses, Outcomes, Verdicts
    <3>2. /\ OutcomesAt(d)' = OutcomesAt(d)
          /\ \A i \in OutcomesAt(d) : ledger'[d][i] = ledger[d][i]
      BY <2>4, <3>1, AppendNoVerdict
    <3>q. QED
      BY <1>0, <2>1, <2>2, <3>2, RecordedFrame
  <2>q. QED
    BY <1>6, <2>3, <2>4 DEF ReleaseCommit, RecordType
<1>7. ASSUME NEW w \in Workers, NEW e \in Docs, ClaimDoc(w, e)
      PROVE  UNCHANGED recordVars /\ (outbox'[d] = "succeeded" <=> outbox[d] = "succeeded")
  BY <1>7 DEF ClaimDoc, StaleRows
<1>8. ASSUME NEW e \in Docs, Ops(e) \/ BackoffElapses(e)
      PROVE  UNCHANGED recordVars /\ (outbox'[d] = "succeeded" <=> outbox[d] = "succeeded")
  BY <1>8 DEF Ops, OpsRetry, OpsCancel, OpsManualReview, ApplyQueueAction, BackoffElapses,
              QueueType
<1>9. ASSUME NEW w \in Workers,
             \/ MarkReadTip(w) \/ MarkReadSeq(w) \/ PersistReadState(w) \/ PersistReadTip(w)
             \/ PersistReadSeq(w) \/ ReleaseUpdate(w) \/ ReleaseReadTip(w)
             \/ ReleaseReadSeq(w) \/ Faulty(w)
      PROVE  UNCHANGED recordVars /\ UNCHANGED queueVars
  BY <1>9 DEF MarkReadTip, MarkReadSeq, PersistReadState, PersistReadTip, PersistReadSeq,
              ReleaseUpdate, ReleaseReadTip, ReleaseReadSeq, Faulty, MarkFails, SubmitFails,
              PersistFails, ReleaseFails, Crash
<1> HIDE DEF TypeInv
<1>10. UNCHANGED queueVars => (outbox'[d] = "succeeded" <=> outbox[d] = "succeeded")
  BY DEF queueVars
<1>q. QED
  BY <1>1, <1>2, <1>3, <1>4, <1>5, <1>6, <1>7, <1>8, <1>9, <1>10 DEF Next, Proceed, vars

(* An answer a worker carries was given, and a duplicate was seen, for as  *)
(* long as the worker carries them: both records only grow.                *)
LEMMA CarriesStep ==
  ASSUME TypeInv, VerdictInv, [Next]_vars, NEW w \in Workers
  PROVE  CarriesAnswer(w)' /\ DuplicateSeen(w)'
<1> USE DEF TypeInv, TypeOK
<1>1. \A d \in Docs : answered[d] \subseteq answered'[d]
  <2>1. ASSUME NEW v \in Workers, Submit(v) PROVE \A d \in Docs : answered[d] \subseteq answered'[d]
    BY <2>1 DEF Submit, RecordType
  <2>2. ASSUME NEW v \in Workers, Proceed(v) \/ Faulty(v), ~Submit(v) PROVE answered' = answered
    BY <2>2 DEF Proceed, MarkReadTip, MarkReadSeq, MarkCommit, PersistReadState, PersistReadTip,
                PersistDuplicate, PersistReadSeq, PersistCommit, ReleaseUpdate, ReleaseReadTip,
                ReleaseReadSeq, ReleaseCommit, Faulty, MarkFails, SubmitFails, PersistFails,
                ReleaseFails, Crash, recordVars
  <2>3. ASSUME NEW d \in Docs, Ops(d) \/ BackoffElapses(d) \/ \E v \in Workers : ClaimDoc(v, d)
        PROVE  answered' = answered
    BY <2>3 DEF Ops, OpsRetry, OpsCancel, OpsManualReview, ApplyQueueAction, BackoffElapses,
                ClaimDoc, recordVars
  <2> HIDE DEF TypeInv
  <2>q. QED
    BY <2>1, <2>2, <2>3 DEF Next, vars, recordVars
<1>2. \A d \in Docs : responses[d] # <<>> => responses'[d] # <<>>
  <2>1. ASSUME NEW v \in Workers, PersistCommit(v), NEW d \in Docs, responses[d] # <<>>
        PROVE  responses'[d] # <<>>
    <3>1. Append(responses[d], answer[v]) # <<>>
      <4>1. answer[v] \in Outcomes /\ responses[d] \in Seq(Outcomes)
        BY <2>1 DEF PersistCommit, Working, PersistPCs, RecordType
      <4>2. Len(Append(responses[d], answer[v])) = Len(responses[d]) + 1
        BY <4>1
      <4>q. QED
        BY <4>1, <4>2
    <3>2. \/ responses'[d] = responses[d]
          \/ responses'[d] = Append(responses[d], answer[v])
      <4>1. \/ responses' = responses
            \/ responses' = [responses EXCEPT ![claim[v]] = Append(@, answer[v])]
        BY <2>1 DEF PersistCommit
      <4>q. QED
        BY <4>1 DEF RecordType
    <3>q. QED
      BY <2>1, <3>1, <3>2
  <2>2. ASSUME NEW v \in Workers, Proceed(v) \/ Faulty(v), ~PersistCommit(v)
        PROVE  responses' = responses
    BY <2>2 DEF Proceed, MarkReadTip, MarkReadSeq, MarkCommit, Submit, PersistReadState,
                PersistReadTip, PersistDuplicate, PersistReadSeq, ReleaseUpdate, ReleaseReadTip,
                ReleaseReadSeq, ReleaseCommit, Faulty, MarkFails, SubmitFails, PersistFails,
                ReleaseFails, Crash, recordVars
  <2>3. ASSUME NEW d \in Docs, Ops(d) \/ BackoffElapses(d) \/ \E v \in Workers : ClaimDoc(v, d)
        PROVE  responses' = responses
    BY <2>3 DEF Ops, OpsRetry, OpsCancel, OpsManualReview, ApplyQueueAction, BackoffElapses,
                ClaimDoc, recordVars
  <2> HIDE DEF TypeInv
  <2>q. QED
    BY <2>1, <2>2, <2>3 DEF Next, vars, recordVars
<1>3. CarriesAnswer(w) /\ DuplicateSeen(w)
  BY DEF VerdictInv
<1>4. CASE pc'[w] = pc[w] /\ claim'[w] = claim[w] /\ answer'[w] = answer[w]
  BY <1>1, <1>2, <1>3, <1>4 DEF CarriesAnswer, DuplicateSeen, Working, PersistPCs
<1>5. CASE Submit(w)
  BY <1>5 DEF Submit, Goto, CarriesAnswer, DuplicateSeen, Working, WorkerType, RecordType, PersistPCs
<1>6. CASE PersistReadState(w) \/ PersistReadSeq(w)
  <2>1. \/ pc'[w] = "idle"
        \/ /\ pc[w] \in PersistPCs /\ pc'[w] # "persist_dup"
           /\ claim'[w] = claim[w] /\ answer'[w] = answer[w] /\ claim[w] \in Docs
    BY <1>6 DEF PersistReadState, PersistReadSeq, Finish, Goto, WorkerType, PersistPCs, Working
  <2>q. QED
    BY <1>1, <1>3, <2>1 DEF CarriesAnswer, DuplicateSeen, PersistPCs
<1>7. CASE PersistReadTip(w)
  <2>1. /\ pc[w] \in PersistPCs /\ claim[w] \in Docs
        /\ pc'[w] = "persist_dup" => Tip(claim[w]) \in Outcomes
        /\ claim'[w] = claim[w] /\ answer'[w] = answer[w] /\ responses' = responses
    BY <1>7 DEF PersistReadTip, Goto, WorkerType, PersistPCs, Working, recordVars
  <2>2. pc'[w] = "persist_dup" => responses[claim[w]] # <<>>
    BY <2>1, TipVerdict DEF VerdictInv, VerdictRecordedOnce
  <2>q. QED
    BY <1>1, <1>3, <2>1, <2>2 DEF CarriesAnswer, DuplicateSeen, PersistPCs
<1>8. CASE pc'[w] \notin PersistPCs
  BY <1>8 DEF CarriesAnswer, DuplicateSeen, PersistPCs
<1>9. ASSUME NEW v \in Workers, Proceed(v) \/ Faulty(v) \/ \E d \in Docs : ClaimDoc(v, d),
             ~(v = w /\ (Submit(w) \/ PersistReadState(w) \/ PersistReadSeq(w) \/ PersistReadTip(w)))
      PROVE  \/ pc'[w] \notin PersistPCs
             \/ pc'[w] = pc[w] /\ claim'[w] = claim[w] /\ answer'[w] = answer[w]
  <2>1. CASE v # w
    BY <1>9, <2>1
    DEF Proceed, MarkReadTip, MarkReadSeq, MarkCommit, Submit, PersistReadState, PersistReadTip,
        PersistDuplicate, PersistReadSeq, PersistCommit, ReleaseUpdate, ReleaseReadTip,
        ReleaseReadSeq, ReleaseCommit, Faulty, MarkFails, SubmitFails, PersistFails,
        ReleaseFails, Crash, ClaimDoc, Finish, Goto, WorkerType
  <2>2. CASE v = w
    BY <1>9, <2>2
    DEF Proceed, MarkReadTip, MarkReadSeq, MarkCommit, PersistDuplicate, PersistCommit,
        ReleaseUpdate, ReleaseReadTip, ReleaseReadSeq, ReleaseCommit, Faulty, MarkFails,
        SubmitFails, PersistFails, ReleaseFails, Crash, ClaimDoc, Finish, Goto, WorkerType,
        PersistPCs
  <2>q. QED
    BY <2>1, <2>2
<1>10. ASSUME NEW d \in Docs, Ops(d) \/ BackoffElapses(d) PROVE UNCHANGED <<pc, claim, answer>>
  BY <1>10 DEF Ops, OpsRetry, OpsCancel, OpsManualReview, ApplyQueueAction, BackoffElapses
<1> HIDE DEF TypeInv
<1>q. QED
  BY <1>4, <1>5, <1>6, <1>7, <1>8, <1>9, <1>10 DEF Next, vars

(* A row with an uncommitted UPDATE stays in_flight, and a cancelled row   *)
(* stays dead.                                                             *)
LEMMA RowStep ==
  ASSUME TypeInv, VerdictInv, [Next]_vars, NEW d \in Docs
  PROVE  LockedInFlight(d)' /\ CancelledDead(d)'
<1> USE NoneAssumption DEF TypeInv, TypeOK, LockedInFlight, CancelledDead, QueueType, LockType
<1>0. LockedInFlight(d) /\ CancelledDead(d) /\ Recorded(d)
  BY DEF VerdictInv, VerdictRecordedOnce
<1>1. CASE outbox'[d] = outbox[d] /\ disposition'[d] = disposition[d] /\ rowLock'[d] \in {rowLock[d], None}
  BY <1>0, <1>1
<1>2. ASSUME NEW w \in Workers, NEW e \in Docs, ClaimDoc(w, e) PROVE LockedInFlight(d)' /\ CancelledDead(d)'
  BY <1>0, <1>2 DEF ClaimDoc, StaleRows, lockVars
<1>3. ASSUME NEW w \in Workers, PersistDuplicate(w) PROVE LockedInFlight(d)' /\ CancelledDead(d)'
  <2>1. claim[w] = d => outbox[d] = "succeeded"
    BY <1>0, <1>3 DEF PersistDuplicate, VerdictInv, DuplicateSeen, Recorded
  <2>q. QED
    BY <1>0, <1>3, <2>1 DEF PersistDuplicate, EndTx
<1>4. ASSUME NEW w \in Workers, PersistCommit(w) PROVE LockedInFlight(d)' /\ CancelledDead(d)'
  BY <1>0, <1>4 DEF PersistCommit, EndTx, Succeedable
<1>5. ASSUME NEW w \in Workers, ReleaseUpdate(w) PROVE LockedInFlight(d)' /\ CancelledDead(d)'
  BY <1>0, <1>5 DEF ReleaseUpdate, Releasable, queueVars
<1>6. ASSUME NEW w \in Workers, ReleaseCommit(w) PROVE LockedInFlight(d)' /\ CancelledDead(d)'
  <2>1. disposition' = disposition
    BY <1>6 DEF ReleaseCommit
  <2>2. \/ outbox'[d] = outbox[d]
        \/ rowLock[d] = w
    BY <1>6 DEF ReleaseCommit
  <2>3. rowLock'[d] = IF rowLock[d] = w THEN None ELSE rowLock[d]
    BY <1>6 DEF ReleaseCommit, EndTx
  <2>q. QED
    BY <1>0, <2>1, <2>2, <2>3
<1>7. ASSUME NEW e \in Docs, Ops(e) \/ BackoffElapses(e) PROVE LockedInFlight(d)' /\ CancelledDead(d)'
  BY <1>0, <1>7 DEF Ops, OpsRetry, OpsCancel, OpsManualReview, Reopenable, ApplyQueueAction,
                    BackoffElapses, lockVars
<1>8. ASSUME NEW w \in Workers, Proceed(w) \/ Faulty(w), ~PersistDuplicate(w), ~PersistCommit(w),
             ~ReleaseUpdate(w), ~ReleaseCommit(w)
      PROVE  outbox'[d] = outbox[d] /\ disposition'[d] = disposition[d] /\ rowLock'[d] \in {rowLock[d], None}
  BY <1>8 DEF Proceed, MarkReadTip, MarkReadSeq, MarkCommit, Submit, PersistReadState,
              PersistReadTip, PersistReadSeq, ReleaseReadTip, ReleaseReadSeq, Faulty, MarkFails,
              SubmitFails, PersistFails, ReleaseFails, Crash, EndTx, queueVars, lockVars
<1>9. CASE UNCHANGED vars
  BY <1>0, <1>9 DEF vars, queueVars, lockVars
<1> HIDE DEF TypeInv, LockedInFlight, CancelledDead
<1>q. QED
  BY <1>1, <1>2, <1>3, <1>4, <1>5, <1>6, <1>7, <1>8, <1>9 DEF Next

VerdictSafe == TypeInv /\ VerdictInv

(* The inductive invariant holds in every reachable state.                 *)
LEMMA VerdictSafeHolds == Spec => []VerdictSafe
<1>1. Init => VerdictSafe
  BY TypeInit, VerdictInit DEF VerdictSafe
<1>2. TypeInv /\ [Next]_vars => TypeInv'
  BY QueueTypeStep, RecordTypeStep, LockTypeStep, WorkerTypeStep, WorkingStep
  DEF TypeInv, TypeOK
<1>3. VerdictSafe /\ [Next]_vars => VerdictSafe'
  BY <1>2, RecordedStep, CarriesStep, RowStep DEF VerdictSafe, VerdictInv, VerdictRecordedOnce
<1>q. QED
  BY <1>1, <1>3, PTL DEF Spec

(* persistAuthoritySuccess records one verdict per document, one the       *)
(* authority gave, however workers, crashes and operators interleave, in   *)
(* SQLite and in PostgreSQL.                                               *)
THEOREM OneVerdict == Spec => []VerdictRecordedOnce
<1>1. VerdictSafe => VerdictRecordedOnce
  BY DEF VerdictSafe, VerdictInv
<1>q. QED
  BY VerdictSafeHolds, <1>1, PTL

(* ApplyQueueAction's cancel is terminal: nothing reopens, sends or        *)
(* decides a cancelled submission that no worker already holds.            *)
THEOREM CancelForGood == Spec => CancelIsFinal
<1> DEFINE Final(d) ==
       disposition[d] = "cancelled" =>
       /\ disposition'[d] = "cancelled"
       /\ outbox'[d] = "dead"
       /\ responses'[d] = <<>>
       /\ \A w \in Workers : Holds(w, d)' => Holds(w, d)
<1>1. ASSUME VerdictSafe, VerdictSafe', [Next]_vars, NEW d \in Docs, disposition[d] = "cancelled"
      PROVE  Final(d)
  <2> USE NoneAssumption DEF VerdictSafe, TypeInv, TypeOK, QueueType
  <2>1. outbox[d] = "dead"
    BY <1>1 DEF VerdictInv, CancelledDead
  <2>2. disposition'[d] = "cancelled"
    <3>1. ASSUME NEW e \in Docs, Ops(e) \/ BackoffElapses(e) PROVE disposition'[d] = "cancelled"
      BY <1>1, <3>1 DEF Ops, OpsRetry, OpsCancel, OpsManualReview, Reopenable,
                        ApplyQueueAction, BackoffElapses
    <3>2. ASSUME NEW w \in Workers, Proceed(w) \/ Faulty(w) \/ \E e \in Docs : ClaimDoc(w, e)
          PROVE  disposition' = disposition
      BY <3>2 DEF Proceed, MarkReadTip, MarkReadSeq, MarkCommit, Submit, PersistReadState,
                  PersistReadTip, PersistDuplicate, PersistReadSeq, PersistCommit,
                  ReleaseUpdate, ReleaseReadTip, ReleaseReadSeq, ReleaseCommit, Faulty,
                  MarkFails, SubmitFails, PersistFails, ReleaseFails, Crash, ClaimDoc, queueVars
    <3> HIDE DEF VerdictSafe
    <3>q. QED
      BY <1>1, <3>1, <3>2 DEF Next, vars, queueVars
  <2>3. outbox'[d] = "dead"
    BY <1>1, <2>2 DEF VerdictInv, CancelledDead
  <2>4. responses'[d] = <<>>
    <3>1. Recorded(d)'
      BY <1>1 DEF VerdictInv, VerdictRecordedOnce
    <3>q. QED
      BY <2>3, <3>1 DEF Recorded
  <2>5. ASSUME NEW w \in Workers, claim'[w] = d PROVE claim[w] = d
    <3>1. ASSUME NEW v \in Workers, NEW e \in Docs, ClaimDoc(v, e) PROVE claim[w] = d
      BY <2>1, <2>5, <3>1 DEF ClaimDoc, StaleRows, WorkerType
    <3>2. ASSUME NEW v \in Workers, Proceed(v) \/ Faulty(v)
          PROVE  claim' = claim \/ claim' = [claim EXCEPT ![v] = None]
      BY <3>2 DEF Proceed, MarkReadTip, MarkReadSeq, MarkCommit, Submit,
                  PersistReadState, PersistReadTip, PersistDuplicate, PersistReadSeq,
                  PersistCommit, ReleaseUpdate, ReleaseReadTip, ReleaseReadSeq, ReleaseCommit,
                  Faulty, MarkFails, SubmitFails, PersistFails, ReleaseFails, Crash, Finish
    <3>3. ASSUME NEW e \in Docs, Ops(e) \/ BackoffElapses(e) PROVE claim' = claim
      BY <3>3 DEF Ops, OpsRetry, OpsCancel, OpsManualReview, ApplyQueueAction, BackoffElapses
    <3>4. ASSUME NEW v \in Workers, claim' = [claim EXCEPT ![v] = None] PROVE claim[w] = d
      BY <1>1, <2>5, <3>4 DEF WorkerType
    <3> HIDE DEF VerdictSafe
    <3>q. QED
      BY <1>1, <2>5, <3>1, <3>2, <3>3, <3>4 DEF Next, vars
  <2>q. QED
    BY <2>2, <2>3, <2>4, <2>5 DEF Holds
<1>2. VerdictSafe /\ VerdictSafe' /\ [Next]_vars => [\A d \in Docs : Final(d)]_vars
  BY <1>1
<1>q. QED
  BY VerdictSafeHolds, <1>2, PTL DEF Spec, CancelIsFinal

------------------------------------------------------------------------------
(* SQLite: what a transaction reads stays true until it commits.           *)

TxPCs == {"mark_seq", "mark_commit", "persist_tip", "persist_dup", "persist_seq",
          "persist_commit", "release_tip", "release_seq", "release_commit"}

WritesAlone(w) == pc[w] \in TxPCs => writer = w

ReadsCurrent(w) ==
  /\ pc[w] \in {"mark_seq", "mark_commit"} => Tip(claim[w]) = "sealed_locally"
  /\ pc[w] \in {"persist_seq", "persist_commit"} =>
       latest[w] = Tip(claim[w]) /\ latest[w] \notin Outcomes
  /\ pc[w] \in {"release_seq", "release_commit"} => latest[w] = Tip(claim[w])

SerialInv ==
  /\ \A w \in Workers : WritesAlone(w) /\ ReadsCurrent(w)
  /\ LedgerChained

(* The three ways a commit extends a ledger.                               *)
Marks(w) ==
  /\ pc[w] = "mark_commit"
  /\ ledger' = [ledger EXCEPT ![claim[w]] =
                  Append(@, Event("sealed_locally", "authority_processing"))]
Decides(w) ==
  /\ pc[w] = "persist_commit"
  /\ ledger' = [ledger EXCEPT ![claim[w]] = @ \o OutcomeEvents(w)]
Undoes(w) ==
  /\ pc[w] = "release_commit"
  /\ Reverts(latest[w])
  /\ ledger' = [ledger EXCEPT ![claim[w]] =
                  Append(@, Event("authority_processing", "sealed_locally"))]

(* Nothing else writes to a ledger, and each of the three ends its         *)
(* transaction.                                                            *)
LEMMA LedgerMoves ==
  ASSUME TypeInv, [Next]_vars
  PROVE  \/ ledger' = ledger
         \/ /\ answered' = answered
            /\ \E w \in Workers : (Marks(w) \/ Decides(w) \/ Undoes(w)) /\ pc'[w] \notin TxPCs
<1> DEFINE Moved == \/ ledger' = ledger
                    \/ /\ answered' = answered
                       /\ \E w \in Workers : (Marks(w) \/ Decides(w) \/ Undoes(w)) /\ pc'[w] \notin TxPCs
<1>1. ASSUME NEW w \in Workers, MarkCommit(w) PROVE Moved
  BY <1>1 DEF MarkCommit, Marks, Goto, TypeInv, TypeOK, WorkerType, TxPCs
<1>2. ASSUME NEW w \in Workers, PersistCommit(w) PROVE Moved
  BY <1>2 DEF PersistCommit, Decides, Finish, Goto, TypeInv, TypeOK, WorkerType, TxPCs
<1>3. ASSUME NEW w \in Workers, ReleaseCommit(w) PROVE Moved
  BY <1>3 DEF ReleaseCommit, Undoes, Finish, Goto, TypeInv, TypeOK, WorkerType, TxPCs
<1>4. ASSUME NEW w \in Workers, Proceed(w) \/ Faulty(w), ~MarkCommit(w), ~PersistCommit(w),
             ~ReleaseCommit(w)
      PROVE  ledger' = ledger
  BY <1>4 DEF Proceed, MarkReadTip, MarkReadSeq, Submit, PersistReadState, PersistReadTip,
              PersistDuplicate, PersistReadSeq, ReleaseUpdate, ReleaseReadTip, ReleaseReadSeq,
              Faulty, MarkFails, SubmitFails, PersistFails, ReleaseFails, Crash, recordVars
<1>5. ASSUME NEW d \in Docs, Ops(d) \/ BackoffElapses(d) \/ \E w \in Workers : ClaimDoc(w, d)
      PROVE  ledger' = ledger
  BY <1>5 DEF Ops, OpsRetry, OpsCancel, OpsManualReview, ApplyQueueAction, BackoffElapses,
              ClaimDoc, recordVars
<1>6. CASE UNCHANGED vars
  BY <1>6 DEF vars, recordVars
<1> HIDE DEF Moved
<1>7. Moved
  BY <1>1, <1>2, <1>3, <1>4, <1>5, <1>6 DEF Next, Moved
<1>q. QED
  BY <1>7 DEF Moved

(* BEGIN IMMEDIATE: one worker at a time is inside a transaction.          *)
LEMMA WritesAloneStep ==
  ASSUME Dialect = "sqlite", TypeInv, SerialInv, [Next]_vars, NEW v \in Workers
  PROVE  WritesAlone(v)'
<1> USE NoneAssumption DEF TypeInv, TypeOK, WorkerType, LockType, TxPCs
<1>0. WritesAlone(v)
  BY DEF SerialInv
<1>1. ASSUME NEW w \in Workers, w # v, Proceed(w) \/ Faulty(w) \/ \E d \in Docs : ClaimDoc(w, d)
      PROVE  pc'[v] = pc[v]
  BY <1>1 DEF Proceed, MarkReadTip, MarkReadSeq, MarkCommit, Submit, PersistReadState,
              PersistReadTip, PersistDuplicate, PersistReadSeq, PersistCommit, ReleaseUpdate,
              ReleaseReadTip, ReleaseReadSeq, ReleaseCommit, Faulty, MarkFails, SubmitFails,
              PersistFails, ReleaseFails, Crash, ClaimDoc, Finish, Goto
<1>2. ASSUME NEW w \in Workers, w # v, Proceed(w) \/ Faulty(w) \/ \E d \in Docs : ClaimDoc(w, d)
      PROVE  writer = v => writer' = v
  BY <1>2 DEF Proceed, MarkReadTip, MarkReadSeq, MarkCommit, Submit, PersistReadState,
              PersistReadTip, PersistDuplicate, PersistReadSeq, PersistCommit, ReleaseUpdate,
              ReleaseReadTip, ReleaseReadSeq, ReleaseCommit, Faulty, MarkFails, SubmitFails,
              PersistFails, ReleaseFails, Crash, ClaimDoc, BeginTx, EndTx, CanWrite, lockVars
<1>3. CASE \/ MarkReadSeq(v) \/ PersistReadTip(v) \/ PersistReadSeq(v)
           \/ ReleaseReadTip(v) \/ ReleaseReadSeq(v)
  <2>1. pc[v] \in TxPCs /\ writer' = writer
    BY <1>3 DEF MarkReadSeq, PersistReadTip, PersistReadSeq, ReleaseReadTip, ReleaseReadSeq, lockVars
  <2>q. QED
    BY <1>0, <2>1 DEF WritesAlone
<1>4. CASE MarkReadTip(v) \/ PersistReadState(v) \/ ReleaseUpdate(v)
  <2>1. writer' = v \/ pc'[v] \notin TxPCs
    BY <1>4 DEF MarkReadTip, PersistReadState, ReleaseUpdate, BeginTx, Finish, Goto
  <2>q. QED
    BY <2>1 DEF WritesAlone
<1>5. CASE \/ MarkCommit(v) \/ Submit(v) \/ PersistDuplicate(v) \/ PersistCommit(v)
           \/ ReleaseCommit(v) \/ Faulty(v) \/ \E d \in Docs : ClaimDoc(v, d)
  <2>1. pc'[v] \notin TxPCs
    BY <1>5 DEF MarkCommit, Submit, PersistDuplicate, PersistCommit, ReleaseCommit, Faulty,
                MarkFails, SubmitFails, PersistFails, ReleaseFails, Crash, ClaimDoc, Finish, Goto
  <2>q. QED
    BY <2>1 DEF WritesAlone
<1>6. ASSUME NEW d \in Docs, Ops(d) \/ BackoffElapses(d) PROVE UNCHANGED <<pc, writer>>
  BY <1>6 DEF Ops, OpsRetry, OpsCancel, OpsManualReview, ApplyQueueAction, BackoffElapses, lockVars
<1>7. CASE UNCHANGED <<pc, writer>>
  BY <1>0, <1>7 DEF WritesAlone
<1>8. ASSUME pc'[v] = pc[v], writer = v => writer' = v PROVE WritesAlone(v)'
  BY <1>0, <1>8 DEF WritesAlone
<1> HIDE DEF TypeInv, TxPCs
<1>q. QED
  BY <1>1, <1>2, <1>3, <1>4, <1>5, <1>6, <1>7, <1>8 DEF Next, Proceed, vars, lockVars

(* The status a transaction acts on is still the document's when it acts.  *)
LEMMA ReadsCurrentStep ==
  ASSUME Dialect = "sqlite", TypeInv, SerialInv, [Next]_vars, NEW v \in Workers
  PROVE  ReadsCurrent(v)'
<1> USE DEF TypeInv, TypeOK, WorkerType, TxPCs
<1>0. ReadsCurrent(v) /\ \A w \in Workers : WritesAlone(w)
  BY DEF SerialInv
<1> DEFINE ReadPc == {"mark_seq", "mark_commit", "persist_seq", "persist_commit",
                      "release_seq", "release_commit"}
<1>1. ledger' = ledger \/ pc[v] \notin TxPCs \/ pc'[v] \notin TxPCs
  <2>1. ASSUME NEW w \in Workers, Marks(w) \/ Decides(w) \/ Undoes(w) PROVE pc[w] \in TxPCs
    BY <2>1 DEF Marks, Decides, Undoes
  <2>2. ASSUME NEW w \in Workers, pc[w] \in TxPCs, pc[v] \in TxPCs PROVE w = v
    BY <1>0, <2>2 DEF WritesAlone
  <2> HIDE DEF TxPCs, TypeInv
  <2>q. QED
    BY <2>1, <2>2, LedgerMoves
<1>2. CASE pc'[v] \notin ReadPc
  BY <1>2 DEF ReadsCurrent
<1>3. CASE pc'[v] = pc[v] /\ claim'[v] = claim[v] /\ latest'[v] = latest[v]
  <2>1. ledger' = ledger \/ pc'[v] \notin ReadPc
    BY <1>1, <1>3
  <2>q. QED
    BY <1>0, <1>2, <1>3, <2>1 DEF ReadsCurrent, Tip
<1>4. CASE MarkReadTip(v) \/ PersistReadTip(v) \/ ReleaseReadTip(v)
  <2>1. ledger' = ledger /\ claim' = claim
    BY <1>4 DEF MarkReadTip, PersistReadTip, ReleaseReadTip, recordVars
  <2>2. CASE MarkReadTip(v)
    BY <2>1, <2>2 DEF MarkReadTip, ReadsCurrent, NeedsMark, Goto, Tip
  <2>3. CASE PersistReadTip(v)
    <3>1. /\ latest'[v] = Tip(claim[v])
          /\ pc'[v] = IF Tip(claim[v]) \in Outcomes THEN "persist_dup" ELSE "persist_seq"
      BY <2>3 DEF PersistReadTip, ReadTip, Goto
    <3>q. QED
      BY <2>1, <3>1 DEF ReadsCurrent, Tip
  <2>4. CASE ReleaseReadTip(v)
    <3>1. latest'[v] = Tip(claim[v]) /\ pc'[v] \in {"release_seq", "release_commit"}
      BY <2>4 DEF ReleaseReadTip, ReadTip, Goto
    <3>q. QED
      BY <2>1, <3>1 DEF ReadsCurrent, Tip
  <2>q. QED
    BY <1>4, <2>2, <2>3, <2>4
<1>5. CASE MarkReadSeq(v) \/ PersistReadSeq(v) \/ ReleaseReadSeq(v)
  <2>1. ledger' = ledger /\ claim' = claim /\ latest' = latest
    BY <1>5 DEF MarkReadSeq, PersistReadSeq, ReleaseReadSeq, recordVars
  <2>2. \/ pc[v] = "mark_seq" /\ pc'[v] = "mark_commit"
        \/ pc[v] = "persist_seq" /\ pc'[v] = "persist_commit"
        \/ pc[v] = "release_seq" /\ pc'[v] = "release_commit"
    BY <1>5 DEF MarkReadSeq, PersistReadSeq, ReleaseReadSeq, Goto
  <2>q. QED
    BY <1>0, <2>1, <2>2 DEF ReadsCurrent, Tip
<1>6. ASSUME NEW w \in Workers, Proceed(w) \/ Faulty(w) \/ \E d \in Docs : ClaimDoc(w, d),
             w # v
      PROVE  pc'[v] = pc[v] /\ claim'[v] = claim[v] /\ latest'[v] = latest[v]
  BY <1>6 DEF Proceed, MarkReadTip, MarkReadSeq, MarkCommit, Submit, PersistReadState,
              PersistReadTip, PersistDuplicate, PersistReadSeq, PersistCommit, ReleaseUpdate,
              ReleaseReadTip, ReleaseReadSeq, ReleaseCommit, Faulty, MarkFails, SubmitFails,
              PersistFails, ReleaseFails, Crash, ClaimDoc, Finish, Goto, ReadTip, readVars
<1>7. CASE \/ MarkCommit(v) \/ Submit(v) \/ PersistReadState(v) \/ PersistDuplicate(v)
           \/ PersistCommit(v) \/ ReleaseUpdate(v) \/ ReleaseCommit(v) \/ Faulty(v)
           \/ \E d \in Docs : ClaimDoc(v, d)
  <2>1. pc'[v] \notin ReadPc
    BY <1>7 DEF MarkCommit, Submit, PersistReadState, PersistDuplicate, PersistCommit,
                ReleaseUpdate, ReleaseCommit, Faulty, MarkFails, SubmitFails, PersistFails,
                ReleaseFails, Crash, ClaimDoc, Finish, Goto
  <2>q. QED
    BY <1>2, <2>1
<1>8. ASSUME NEW d \in Docs, Ops(d) \/ BackoffElapses(d) PROVE UNCHANGED <<pc, claim, latest>>
  BY <1>8 DEF Ops, OpsRetry, OpsCancel, OpsManualReview, ApplyQueueAction, BackoffElapses, readVars
<1>9. UNCHANGED vars => UNCHANGED <<pc, claim, latest>>
  BY DEF vars, readVars
<1> HIDE DEF TypeInv, TxPCs, ReadPc
<1>q. QED
  BY <1>3, <1>4, <1>5, <1>6, <1>7, <1>8, <1>9 DEF Next, Proceed

(* A chain extended by an event that leaves its last status is a chain.    *)
Chain(s) == \A i \in 1..Len(s) : s[i].from = IF i = 1 THEN None ELSE s[i - 1].to

LEMMA ChainExtends ==
  ASSUME NEW s \in Seq(LedgerEvents), Len(s) > 0, Chain(s),
         NEW t \in Seq(LedgerEvents), Len(t) = Len(s) + 1,
         \A i \in 1..Len(s) : t[i] = s[i],
         t[Len(t)].from = s[Len(s)].to
  PROVE  Chain(t)
<1> SUFFICES ASSUME NEW i \in 1..Len(t)
             PROVE  t[i].from = IF i = 1 THEN None ELSE t[i - 1].to
  BY DEF Chain
<1>1. CASE i = Len(t)
  <2>1. i # 1 /\ i - 1 = Len(s) /\ Len(s) \in 1..Len(s)
    BY <1>1
  <2>q. QED
    BY <1>1, <2>1
<1>2. CASE i \in 1..Len(s)
  <2>1. s[i].from = IF i = 1 THEN None ELSE s[i - 1].to
    BY <1>2 DEF Chain
  <2>2. i # 1 => i - 1 \in 1..Len(s)
    BY <1>2
  <2>q. QED
    BY <1>2, <2>1, <2>2
<1>q. QED
  BY <1>1, <1>2

(* Appending one event.                                                    *)
LEMMA ChainAppend ==
  ASSUME NEW s \in Seq(LedgerEvents), Len(s) > 0, Chain(s),
         NEW e \in LedgerEvents, e.from = s[Len(s)].to
  PROVE  Chain(Append(s, e)) /\ Append(s, e)[Len(Append(s, e))].to = e.to
<1>1. /\ Append(s, e) \in Seq(LedgerEvents)
      /\ Len(Append(s, e)) = Len(s) + 1
      /\ Append(s, e)[Len(s) + 1] = e
      /\ \A i \in 1..Len(s) : Append(s, e)[i] = s[i]
  OBVIOUS
<1>q. QED
  BY <1>1, ChainExtends

(* The verdict's one or two events extend the chain and end it in the      *)
(* authority's answer.                                                     *)
LEMMA ChainOutcome ==
  ASSUME NEW w \in Workers, NEW s \in Seq(LedgerEvents), Len(s) > 0, Chain(s),
         latest[w] = s[Len(s)].to, latest[w] \in Statuses, answer[w] \in Outcomes
  PROVE  LET t == s \o OutcomeEvents(w)
         IN  Chain(t) /\ t[Len(t)].to = answer[w]
<1> DEFINE p == Event("sealed_locally", "authority_processing")
           a == Event("authority_processing", answer[w])
           b == Event(latest[w], answer[w])
<1>1. /\ p \in LedgerEvents /\ a \in LedgerEvents /\ b \in LedgerEvents
      /\ p.from = "sealed_locally" /\ p.to = "authority_processing"
      /\ a.from = "authority_processing" /\ a.to = answer[w]
      /\ b.from = latest[w] /\ b.to = answer[w]
  BY DEF Event, LedgerEvents, Statuses
<1>2. CASE latest[w] = "sealed_locally"
  <2> DEFINE u == Append(s, p)
             t == s \o <<p, a>>
  <2>1. OutcomeEvents(w) = <<p, a>>
    BY <1>2 DEF OutcomeEvents
  <2> HIDE DEF p, a, b
  <2>2. Chain(u)
    BY <1>1, <1>2, ChainAppend
  <2>3. /\ u \in Seq(LedgerEvents) /\ Len(u) = Len(s) + 1 /\ u[Len(s) + 1] = p
        /\ \A i \in 1..Len(s) : u[i] = s[i]
    BY <1>1
  <2>4. <<p, a>> \in Seq(LedgerEvents)
    BY <1>1
  <2>5. /\ t \in Seq(LedgerEvents) /\ Len(t) = Len(s) + 2
        /\ t[Len(s) + 1] = p /\ t[Len(s) + 2] = a
        /\ \A i \in 1..Len(s) : t[i] = s[i]
    BY <2>4
  <2> HIDE DEF u, t
  <2>6. \A i \in 1..Len(u) : t[i] = u[i]
    BY <2>3, <2>5
  <2>7. Chain(t)
    BY <1>1, <2>2, <2>3, <2>5, <2>6, ChainExtends
  <2>q. QED
    BY <1>1, <2>1, <2>5, <2>7 DEF t
<1>3. CASE latest[w] # "sealed_locally"
  <2> DEFINE t == s \o <<b>>
  <2>1. OutcomeEvents(w) = <<b>>
    BY <1>3 DEF OutcomeEvents
  <2> HIDE DEF p, a, b
  <2>2. /\ t \in Seq(LedgerEvents) /\ Len(t) = Len(s) + 1 /\ t[Len(s) + 1] = b
        /\ \A i \in 1..Len(s) : t[i] = s[i]
    BY <1>1
  <2> HIDE DEF t
  <2>3. Chain(t)
    BY <1>1, <2>2, ChainExtends
  <2>q. QED
    BY <1>1, <2>1, <2>2, <2>3 DEF t
<1>q. QED
  BY <1>2, <1>3

(* What a ledger step does to the document it is about, and that it leaves *)
(* every other document alone.                                             *)
Opened(d) == Tip(d) = "sealed_locally" /\ Tip(d)' = "authority_processing"
Settled(d) == Tip(d) \notin Outcomes /\ Tip(d)' \in answered[d]
Reopened(d) == Tip(d) = "authority_processing" /\ Tip(d)' = "sealed_locally"

LEMMA LedgerStep ==
  ASSUME TypeInv, VerdictInv, SerialInv, [Next]_vars, ledger' # ledger
  PROVE  \E d \in Docs :
           /\ Opened(d) \/ Settled(d) \/ Reopened(d)
           /\ Chain(ledger'[d])
           /\ \A e \in Docs \ {d} : ledger'[e] = ledger[e]
           /\ answered' = answered
<1>1. PICK w \in Workers : Marks(w) \/ Decides(w) \/ Undoes(w)
  BY LedgerMoves
<1>2. PICK d \in Docs : d = claim[w]
  BY <1>1 DEF Marks, Decides, Undoes, TypeInv, Working
<1> DEFINE s == ledger[d]
<1>3. /\ s \in Seq(LedgerEvents) /\ Len(s) > 0 /\ Chain(s) /\ Tip(d) = s[Len(s)].to
      /\ ledger \in [Docs -> Seq(LedgerEvents)] /\ answered' = answered
  BY <1>2, LedgerMoves DEF TypeInv, TypeOK, RecordType, SerialInv, LedgerChained, Chain, Tip
<1>4. ReadsCurrent(w) /\ CarriesAnswer(w)
  BY DEF SerialInv, VerdictInv
<1> HIDE DEF s
<1>5. CASE Marks(w)
  <2> DEFINE e == Event("sealed_locally", "authority_processing")
  <2>1. e \in LedgerEvents /\ e.from = "sealed_locally" /\ e.to = "authority_processing"
    BY DEF Event, LedgerEvents, Statuses
  <2>2. Tip(d) = "sealed_locally"
    BY <1>2, <1>4, <1>5 DEF Marks, ReadsCurrent
  <2> HIDE DEF e
  <2>3. Chain(Append(s, e)) /\ Append(s, e)[Len(Append(s, e))].to = "authority_processing"
    BY <1>3, <2>1, <2>2, ChainAppend
  <2>4. ledger' = [ledger EXCEPT ![d] = Append(s, e)]
    BY <1>2, <1>5 DEF Marks, s, e
  <2>5. ledger'[d] = Append(s, e) /\ \A c \in Docs \ {d} : ledger'[c] = ledger[c]
    BY <1>2, <1>3, <2>4
  <2>6. Opened(d) /\ Chain(ledger'[d])
    BY <2>2, <2>3, <2>5 DEF Opened, Tip
  <2>q. QED
    BY <1>2, <1>3, <2>5, <2>6
<1>6. CASE Decides(w)
  <2> DEFINE t == s \o OutcomeEvents(w)
  <2>1. /\ latest[w] = Tip(d) /\ Tip(d) \notin Outcomes /\ latest[w] \in Statuses
        /\ answer[w] \in Outcomes /\ answer[w] \in answered[d]
    BY <1>2, <1>4, <1>6 DEF Decides, ReadsCurrent, CarriesAnswer, PersistPCs, ReadPCs, TypeInv, Working
  <2>2. Chain(t) /\ t[Len(t)].to = answer[w]
    BY <1>3, <2>1, ChainOutcome
  <2>3. ledger' = [ledger EXCEPT ![d] = t]
    BY <1>2, <1>6 DEF Decides, s
  <2> HIDE DEF t
  <2>4. ledger'[d] = t /\ \A c \in Docs \ {d} : ledger'[c] = ledger[c]
    BY <1>2, <1>3, <2>3
  <2>5. Settled(d) /\ Chain(ledger'[d])
    BY <2>1, <2>2, <2>4 DEF Settled, Tip
  <2>q. QED
    BY <1>2, <1>3, <2>4, <2>5
<1>7. CASE Undoes(w)
  <2> DEFINE e == Event("authority_processing", "sealed_locally")
  <2>1. e \in LedgerEvents /\ e.from = "authority_processing" /\ e.to = "sealed_locally"
    BY DEF Event, LedgerEvents, Statuses
  <2>2. Tip(d) = "authority_processing"
    BY <1>2, <1>4, <1>7 DEF Undoes, Reverts, ReadsCurrent
  <2> HIDE DEF e
  <2>3. Chain(Append(s, e)) /\ Append(s, e)[Len(Append(s, e))].to = "sealed_locally"
    BY <1>3, <2>1, <2>2, ChainAppend
  <2>4. ledger' = [ledger EXCEPT ![d] = Append(s, e)]
    BY <1>2, <1>7 DEF Undoes, s, e
  <2>5. ledger'[d] = Append(s, e) /\ \A c \in Docs \ {d} : ledger'[c] = ledger[c]
    BY <1>2, <1>3, <2>4
  <2>6. Reopened(d) /\ Chain(ledger'[d])
    BY <2>2, <2>3, <2>5 DEF Reopened, Tip
  <2>q. QED
    BY <1>2, <1>3, <2>5, <2>6
<1>q. QED
  BY <1>1, <1>5, <1>6, <1>7

(* No worker has begun, and the only event is the seal.                    *)
LEMMA SerialInit == Init => SerialInv
<1> SUFFICES ASSUME Init PROVE SerialInv
  OBVIOUS
<1>1. ASSUME NEW w \in Workers PROVE WritesAlone(w) /\ ReadsCurrent(w)
  BY DEF Init, WritesAlone, ReadsCurrent, TxPCs
<1>2. ASSUME NEW d \in Docs
      PROVE  Len(ledger[d]) = 1 /\ ledger[d][1].from = None
  BY DEF Init, Event
<1>3. LedgerChained
  BY <1>2 DEF LedgerChained
<1>q. QED
  BY <1>1, <1>3 DEF SerialInv

SerialSafe == VerdictSafe /\ SerialInv

(* Under BEGIN IMMEDIATE the strengthened invariant holds in every         *)
(* reachable state.                                                        *)
LEMMA SerialSafeHolds ==
  ASSUME Dialect = "sqlite"
  PROVE  Spec => []SerialSafe
<1>1. VerdictSafe /\ SerialInv /\ [Next]_vars => LedgerChained'
  <2> SUFFICES ASSUME VerdictSafe, SerialInv, [Next]_vars, NEW d \in Docs
               PROVE  Chain(ledger'[d])
    BY DEF LedgerChained, Chain
  <2>1. Chain(ledger[d])
    BY DEF SerialInv, LedgerChained, Chain
  <2>q. QED
    BY <2>1, LedgerStep DEF VerdictSafe
<1>2. VerdictSafe /\ SerialInv /\ [Next]_vars => SerialInv'
  BY <1>1, WritesAloneStep, ReadsCurrentStep DEF SerialInv, VerdictSafe
<1>q. QED
  BY SerialInit, VerdictSafeHolds, <1>2, PTL DEF Spec, SerialSafe

(* In SQLite every ledger is one chain from the seal, for any number of    *)
(* documents, workers and faults, although each event's from_status is     *)
(* read statements before the event is written.                            *)
THEOREM LedgersChained ==
  ASSUME Dialect = "sqlite"
  PROVE  Spec => []LedgerChained
<1>1. SerialSafe => LedgerChained
  BY DEF SerialSafe, SerialInv
<1>q. QED
  BY SerialSafeHolds, <1>1, PTL

(* In SQLite nothing is written to a ledger after the authority accepted   *)
(* or rejected the document: a late worker, a reclaimed row or a release   *)
(* finds it decided.                                                       *)
THEOREM DecisionsFinal ==
  ASSUME Dialect = "sqlite"
  PROVE  Spec => DecisionFinal
<1>1. ASSUME SerialSafe, [Next]_vars, NEW d \in Docs, Tip(d) \in Verdicts
      PROVE  ledger'[d] = ledger[d]
  <2>1. CASE ledger' # ledger
    <3>1. PICK c \in Docs : /\ Opened(c) \/ Settled(c) \/ Reopened(c)
                            /\ \A e \in Docs \ {c} : ledger'[e] = ledger[e]
      BY <1>1, <2>1, LedgerStep DEF SerialSafe, VerdictSafe
    <3>2. c # d
      BY <1>1, <3>1 DEF Opened, Settled, Reopened, Outcomes, Verdicts
    <3>q. QED
      BY <3>1, <3>2
  <2>q. QED
    BY <2>1
<1>2. SerialSafe /\ [Next]_vars =>
        [\A d \in Docs : Tip(d) \in Verdicts => ledger'[d] = ledger[d]]_vars
  BY <1>1
<1>q. QED
  BY SerialSafeHolds, <1>2, PTL DEF Spec, DecisionFinal

(* A step that leaves the ledgers alone changes only the authority's       *)
(* answers, and those by one answer for one document.                      *)
LEMMA AnswerStep ==
  ASSUME TypeInv, [Next]_vars, ledger' = ledger, answered' # answered
  PROVE  \E d \in Docs, o \in Outcomes : answered' = [answered EXCEPT ![d] = @ \cup {o}]
<1>1. ASSUME NEW w \in Workers, Submit(w)
      PROVE  \E d \in Docs, o \in Outcomes : answered' = [answered EXCEPT ![d] = @ \cup {o}]
  <2>1. claim[w] \in Docs
    BY <1>1 DEF Submit, TypeInv, Working
  <2>q. QED
    BY <1>1, <2>1 DEF Submit
<1>2. ASSUME NEW w \in Workers, Proceed(w) \/ Faulty(w), ~Submit(w) PROVE answered' = answered
  BY <1>2 DEF Proceed, MarkReadTip, MarkReadSeq, MarkCommit, PersistReadState, PersistReadTip,
              PersistDuplicate, PersistReadSeq, PersistCommit, ReleaseUpdate, ReleaseReadTip,
              ReleaseReadSeq, ReleaseCommit, Faulty, MarkFails, SubmitFails, PersistFails,
              ReleaseFails, Crash, recordVars
<1>3. ASSUME NEW d \in Docs, Ops(d) \/ BackoffElapses(d) \/ \E v \in Workers : ClaimDoc(v, d)
      PROVE  answered' = answered
  BY <1>3 DEF Ops, OpsRetry, OpsCancel, OpsManualReview, ApplyQueueAction, BackoffElapses,
              ClaimDoc, recordVars
<1>q. QED
  BY <1>1, <1>2, <1>3 DEF Next, vars, recordVars

(* In SQLite the worker implements SubmissionLifecycle: the seals map to   *)
(* its initial state, MarkCommit, PersistCommit, ReleaseCommit and Submit  *)
(* to StartProcessing, RecordOutcome, RevertToSealed and Answer, and every *)
(* other statement, crash or operator action to a stutter.  No step of the *)
(* code is a Reconcile.                                                    *)
THEOREM LifecycleImplemented ==
  ASSUME Dialect = "sqlite"
  PROVE  Spec => ImplementsLifecycle
<1>1. Init => Lifecycle!Init
  BY DEF Init, Lifecycle!Init, Tip, Event
<1>2. ASSUME SerialSafe, [Next]_vars
      PROVE  Lifecycle!Next \/ UNCHANGED Lifecycle!vars
  <2>0. TypeInv /\ VerdictInv /\ SerialInv
    BY <1>2 DEF SerialSafe, VerdictSafe
  <2>1. CASE ledger' # ledger
    <3>1. PICK d \in Docs : /\ Opened(d) \/ Settled(d) \/ Reopened(d)
                            /\ \A e \in Docs \ {d} : ledger'[e] = ledger[e]
                            /\ answered' = answered
      BY <1>2, <2>0, <2>1, LedgerStep
    <3>2. [e \in Docs |-> Tip(e)]' = [[e \in Docs |-> Tip(e)] EXCEPT ![d] = Tip(d)']
      BY <3>1 DEF Tip
    <3>3. CASE Opened(d)
      BY <3>1, <3>2, <3>3 DEF Opened, Lifecycle!Next, Lifecycle!StartProcessing
    <3>4. CASE Reopened(d)
      BY <3>1, <3>2, <3>4 DEF Reopened, Lifecycle!Next, Lifecycle!RevertToSealed
    <3>5. CASE Settled(d)
      <4>1. Tip(d)' \in Lifecycle!Outcomes /\ Tip(d) \notin Lifecycle!Outcomes
        BY <2>0, <3>5 DEF Settled, TypeInv, TypeOK, RecordType, Outcomes, Verdicts, Lifecycle!Outcomes, Lifecycle!Verdicts
      <4>q. QED
        BY <3>1, <3>2, <3>5, <4>1 DEF Settled, Lifecycle!Next, Lifecycle!RecordOutcome
    <3>q. QED
      BY <3>1, <3>3, <3>4, <3>5
  <2>2. CASE ledger' = ledger /\ answered' # answered
    <3>1. PICK d \in Docs, o \in Outcomes : answered' = [answered EXCEPT ![d] = @ \cup {o}]
      BY <1>2, <2>0, <2>2, AnswerStep
    <3>2. UNCHANGED [e \in Docs |-> Tip(e)] /\ o \in Lifecycle!Outcomes
      BY <2>2 DEF Tip, Outcomes, Verdicts, Lifecycle!Outcomes, Lifecycle!Verdicts
    <3>q. QED
      BY <3>1, <3>2 DEF Lifecycle!Next, Lifecycle!Answer
  <2>3. CASE ledger' = ledger /\ answered' = answered
    BY <2>3 DEF Lifecycle!vars, Tip
  <2>q. QED
    BY <2>1, <2>2, <2>3
<1>q. QED
  BY <1>1, <1>2, SerialSafeHolds, PTL DEF Spec, ImplementsLifecycle, Lifecycle!Spec
==============================================================================
