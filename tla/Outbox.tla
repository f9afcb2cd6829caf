------------------------------- MODULE Outbox -------------------------------
(***************************************************************************)
(* The authority-submission worker of internal/persistence/outbox.go, with *)
(* the queue actions operators apply to the same rows                      *)
(* (internal/adminops/actions.go).                                         *)
(*                                                                         *)
(* Every document sealed by SealInTx has one outbox row, one stable        *)
(* submission_id and an append-only ledger, so a document names all three. *)
(* A worker pass is: claim (one transaction), mark authority_processing    *)
(* (one), call the authority (none), then persist the answer or release    *)
(* the row (one).  The passes of several workers, crashes, the 30s reclaim *)
(* and the operators interleave.                                           *)
(*                                                                         *)
(* Transactions are modelled statement by statement.  In SQLite they run   *)
(* under BEGIN IMMEDIATE: one writer at a time.  In PostgreSQL they are    *)
(* READ COMMITTED: each SELECT sees what is committed when it runs, and    *)
(* only rows updated earlier in the transaction are locked.  An INSERT is  *)
(* modelled with the COMMIT that makes it visible; it fails there when     *)
(* another transaction has taken its unique (document_id, seq).            *)
(*                                                                         *)
(* Wall-clock time is abstracted: any in_flight row may be older than the  *)
(* reclaim limit when a claim runs, and a backoff ends at some later time. *)
(***************************************************************************)
EXTENDS Naturals, Sequences

CONSTANTS
  Docs,         \* sealed documents
  Workers,      \* concurrent callers of ProcessNextAuthoritySubmission
  Dialect,      \* "sqlite" or "postgres"
  MaxFaults,    \* bound on the faults (outages, SQL errors, crashes) of a run
  None          \* no worker, no document, no status

ASSUME DialectAssumption == Dialect \in {"sqlite", "postgres"}
ASSUME NoneAssumption == None \notin Docs \cup Workers
ASSUME FaultsAssumption == MaxFaults \in Nat

Verdicts == {"authority_accepted", "authority_rejected"}
Outcomes == Verdicts \cup {"authority_outcome_unknown"}
Statuses == {"sealed_locally", "authority_processing"} \cup Outcomes
OutboxStates == {"pending", "in_flight", "succeeded", "dead"}
Dispositions == {"none", "cancelled", "manual_review"}

VARIABLES
  outbox,       \* outbox[d]: outbox_messages.state
  disposition,  \* disposition[d]: outbox_messages.ops_disposition
  waiting,      \* documents whose available_at is still in the future
  ledger,       \* ledger[d]: ledger_events of d; the index is seq
  responses,    \* responses[d]: authority_attempts with its response; index attempt_no
  answered,     \* answered[d]: outcomes the authority has returned for d
  pc,           \* pc[w]: the next statement of worker w
  claim,        \* claim[w]: the document w has claimed
  latest,       \* latest[w]: last to_status w read in this transaction
  nextSeq,      \* nextSeq[w]: MAX(seq)+1 w read in this transaction
  attemptNo,    \* attemptNo[w]: MAX(attempt_no)+1 w read in this transaction
  answer,       \* answer[w]: outcome the authority returned to w
  writer,       \* SQLite: the worker that holds the database's write lock
  rowLock,      \* rowLock[d]: the worker that updated d's outbox row, uncommitted
  faults        \* faults so far

queueVars == <<outbox, disposition, waiting>>
recordVars == <<ledger, responses, answered>>
readVars == <<latest, nextSeq, attemptNo>>
lockVars == <<writer, rowLock>>
vars == <<queueVars, recordVars, pc, claim, readVars, answer, lockVars, faults>>

Event(from, to) == [from |-> from, to |-> to]
Tip(d) == ledger[d][Len(ledger[d])].to

PCs == {"idle", "mark", "mark_seq", "mark_commit", "submit",
        "persist", "persist_tip", "persist_dup", "persist_seq", "persist_commit",
        "release", "release_tip", "release_seq", "release_commit"}

QueueType ==
  /\ outbox \in [Docs -> OutboxStates]
  /\ disposition \in [Docs -> Dispositions]
  /\ waiting \subseteq Docs

LedgerEvents == [from : Statuses \cup {None}, to : Statuses]

RecordType ==
  /\ ledger \in [Docs -> Seq(LedgerEvents)]
  /\ \A d \in Docs : Len(ledger[d]) > 0
  /\ responses \in [Docs -> Seq(Outcomes)]
  /\ answered \in [Docs -> SUBSET Outcomes]

WorkerType ==
  /\ pc \in [Workers -> PCs]
  /\ claim \in [Workers -> Docs \cup {None}]
  /\ latest \in [Workers -> Statuses \cup {None}]
  /\ nextSeq \in [Workers -> Nat]
  /\ attemptNo \in [Workers -> Nat]
  /\ answer \in [Workers -> Outcomes \cup {None}]

LockType ==
  /\ writer \in Workers \cup {None}
  /\ rowLock \in [Docs -> Workers \cup {None}]
  /\ faults \in 0..MaxFaults

TypeOK == QueueType /\ RecordType /\ WorkerType /\ LockType

(* The rows SealInTx leaves behind: pending, due at once, sealed_locally.  *)
Init ==
  /\ outbox = [d \in Docs |-> "pending"]
  /\ disposition = [d \in Docs |-> "none"]
  /\ waiting = {}
  /\ ledger = [d \in Docs |-> <<Event(None, "sealed_locally")>>]
  /\ responses = [d \in Docs |-> <<>>]
  /\ answered = [d \in Docs |-> {}]
  /\ pc = [w \in Workers |-> "idle"]
  /\ claim = [w \in Workers |-> None]
  /\ latest = [w \in Workers |-> None]
  /\ nextSeq = [w \in Workers |-> 0]
  /\ attemptNo = [w \in Workers |-> 0]
  /\ answer = [w \in Workers |-> None]
  /\ writer = None
  /\ rowLock = [d \in Docs |-> None]
  /\ faults = 0

------------------------------------------------------------------------------
(* Transactions.                                                           *)

CanWrite == writer = None
BeginTx(w) ==
  /\ CanWrite
  /\ writer' = IF Dialect = "sqlite" THEN w ELSE None
EndTx(w) ==
  /\ writer' = IF writer = w THEN None ELSE writer
  /\ rowLock' = [d \in Docs |-> IF rowLock[d] = w THEN None ELSE rowLock[d]]
Goto(w, label) == pc' = [pc EXCEPT ![w] = label]
Fault == faults < MaxFaults /\ faults' = faults + 1

(* The end of a pass: the worker forgets its claim.                        *)
Finish(w) ==
  /\ Goto(w, "idle")
  /\ claim' = [claim EXCEPT ![w] = None]
  /\ latest' = [latest EXCEPT ![w] = None]
  /\ nextSeq' = [nextSeq EXCEPT ![w] = 0]
  /\ attemptNo' = [attemptNo EXCEPT ![w] = 0]
  /\ answer' = [answer EXCEPT ![w] = None]

(* The UNIQUE (document_id, seq) and UNIQUE (submission_id, attempt_no)    *)
(* constraints, checked against the committed rows.                        *)
SeqFree(w) == nextSeq[w] = Len(ledger[claim[w]]) + 1
AttemptFree(w) == attemptNo[w] = Len(responses[claim[w]]) + 1

ReadTip(w) == latest' = [latest EXCEPT ![w] = Tip(claim[w])]
ReadSeq(w) == nextSeq' = [nextSeq EXCEPT ![w] = Len(ledger[claim[w]]) + 1]

------------------------------------------------------------------------------
(* claimOutbox.  The first UPDATE returns stale in_flight rows to pending, *)
(* due now; the oldest due row is then taken.  A pass that finds none      *)
(* rolls back and changes nothing.                                         *)

StaleRows_Mutant == {}
StaleRows == {d \in Docs : outbox[d] = "in_flight" /\ rowLock[d] = None}

ClaimDoc(w, d) ==
  /\ pc[w] = "idle"
  /\ CanWrite
  /\ rowLock[d] = None
  /\ \E stale \in SUBSET StaleRows :
       /\ d \in stale \/ (outbox[d] = "pending" /\ d \notin waiting)
       /\ outbox' = [e \in Docs |-> IF e = d THEN "in_flight"
                                    ELSE IF e \in stale THEN "pending"
                                    ELSE outbox[e]]
       /\ waiting' = waiting \ stale
  /\ claim' = [claim EXCEPT ![w] = d]
  /\ Goto(w, "mark")
  /\ UNCHANGED <<disposition, recordVars, readVars, answer, lockVars, faults>>

------------------------------------------------------------------------------
(* markAuthorityProcessing.                                                *)

(* A document processing, or with an outcome, is left as it is and sent on.*)
NeedsMark_Mutant(d) == Tip(d) # "authority_processing"
NeedsMark(d) == Tip(d) = "sealed_locally"

MarkReadTip(w) ==
  /\ pc[w] = "mark"
  /\ \/ /\ NeedsMark(claim[w])
        /\ BeginTx(w)
        /\ ReadTip(w)
        /\ Goto(w, "mark_seq")
     \/ /\ ~NeedsMark(claim[w])
        /\ CanWrite
        /\ Goto(w, "submit")
        /\ UNCHANGED <<latest, writer>>
  /\ UNCHANGED <<queueVars, recordVars, claim, nextSeq, attemptNo, answer, rowLock, faults>>

MarkReadSeq(w) ==
  /\ pc[w] = "mark_seq"
  /\ ReadSeq(w)
  /\ Goto(w, "mark_commit")
  /\ UNCHANGED <<queueVars, recordVars, claim, latest, attemptNo, answer, lockVars, faults>>

(* A duplicate (document_id, seq) aborts the transaction: the row is       *)
(* released.                                                               *)
MarkCommit(w) ==
  /\ pc[w] = "mark_commit"
  /\ \/ /\ SeqFree(w)
        /\ ledger' = [ledger EXCEPT ![claim[w]] =
                        Append(@, Event("sealed_locally", "authority_processing"))]
        /\ Goto(w, "submit")
     \/ /\ ~SeqFree(w)
        /\ Goto(w, "release")
        /\ UNCHANGED ledger
  /\ EndTx(w)
  /\ UNCHANGED <<queueVars, responses, answered, claim, readVars, answer, faults>>

MarkFails(w) ==
  /\ pc[w] \in {"mark", "mark_seq", "mark_commit"}
  /\ Fault
  /\ Goto(w, "release")
  /\ EndTx(w)
  /\ UNCHANGED <<queueVars, recordVars, claim, readVars, answer>>

------------------------------------------------------------------------------
(* finishOutbox around AuthorityClient.Submit.                             *)

Submit(w) ==
  /\ pc[w] = "submit"
  /\ \E o \in Outcomes :
       /\ answered' = [answered EXCEPT ![claim[w]] = @ \cup {o}]
       /\ answer' = [answer EXCEPT ![w] = o]
  /\ Goto(w, "persist")
  /\ UNCHANGED <<queueVars, ledger, responses, claim, readVars, lockVars, faults>>

(* ErrUnavailable, any other transport error, a signing error or an        *)
(* outcome mapSimulatorOutcome does not know.                              *)
SubmitFails(w) ==
  /\ pc[w] = "submit"
  /\ Fault
  /\ Goto(w, "release")
  /\ UNCHANGED <<queueVars, recordVars, claim, readVars, answer, lockVars>>

------------------------------------------------------------------------------
(* persistAuthoritySuccess.                                                *)

PersistReadState(w) ==
  /\ pc[w] = "persist"
  /\ \/ /\ outbox[claim[w]] = "succeeded"
        /\ CanWrite
        /\ Finish(w)
        /\ UNCHANGED writer
     \/ /\ outbox[claim[w]] # "succeeded"
        /\ BeginTx(w)
        /\ Goto(w, "persist_tip")
        /\ UNCHANGED <<claim, readVars, answer>>
  /\ UNCHANGED <<queueVars, recordVars, rowLock, faults>>

PersistReadTip(w) ==
  /\ pc[w] = "persist_tip"
  /\ ReadTip(w)
  /\ Goto(w, IF Tip(claim[w]) \in Outcomes THEN "persist_dup" ELSE "persist_seq")
  /\ UNCHANGED <<queueVars, recordVars, claim, nextSeq, attemptNo, answer, lockVars, faults>>

(* An outcome, be it unknown, is already recorded: only the outbox row is  *)
(* closed, and the worker's answer is dropped.                             *)
PersistDuplicate(w) ==
  /\ pc[w] = "persist_dup"
  /\ rowLock[claim[w]] = None
  /\ outbox' = [outbox EXCEPT ![claim[w]] = "succeeded"]
  /\ EndTx(w)
  /\ Finish(w)
  /\ UNCHANGED <<disposition, waiting, recordVars, faults>>

PersistReadSeq(w) ==
  /\ pc[w] = "persist_seq"
  /\ attemptNo' = [attemptNo EXCEPT ![w] = Len(responses[claim[w]]) + 1]
  /\ ReadSeq(w)
  /\ Goto(w, "persist_commit")
  /\ UNCHANGED <<queueVars, recordVars, claim, latest, answer, lockVars, faults>>

OutcomeEvents_Mutant(w) ==
  IF latest[w] = "sealed_locally"
  THEN <<Event("sealed_locally", "authority_processing"),
         Event("sealed_locally", answer[w])>>
  ELSE <<Event(latest[w], answer[w])>>
OutcomeEvents(w) ==
  IF latest[w] = "sealed_locally"
  THEN <<Event("sealed_locally", "authority_processing"),
         Event("authority_processing", answer[w])>>
  ELSE <<Event(latest[w], answer[w])>>

(* A taken seq, a taken attempt_no or an outbox row that is no longer      *)
(* in_flight or pending ("outbox succeed rows=0") rolls everything back.   *)
Succeedable_Mutant(d) == TRUE
Succeedable(d) == outbox[d] \in {"in_flight", "pending"}

PersistCommit(w) ==
  LET d == claim[w]
      ok == SeqFree(w) /\ AttemptFree(w) /\ Succeedable(d)
  IN /\ pc[w] = "persist_commit"
     /\ rowLock[d] = None
     /\ \/ /\ ok
           /\ ledger' = [ledger EXCEPT ![d] = @ \o OutcomeEvents(w)]
           /\ responses' = [responses EXCEPT ![d] = Append(@, answer[w])]
           /\ outbox' = [outbox EXCEPT ![d] = "succeeded"]
        \/ ~ok /\ UNCHANGED <<ledger, responses, outbox>>
     /\ EndTx(w)
     /\ Finish(w)
     /\ UNCHANGED <<disposition, waiting, answered, faults>>

(* The error is returned to the caller; the row is not released.           *)
PersistFails(w) ==
  /\ pc[w] \in {"persist", "persist_tip", "persist_dup", "persist_seq", "persist_commit"}
  /\ Fault
  /\ EndTx(w)
  /\ Finish(w)
  /\ UNCHANGED <<queueVars, recordVars>>

------------------------------------------------------------------------------
(* releaseOutboxUnavailable.                                               *)

(* UPDATE ... WHERE id AND state = in_flight: locks the row only if it     *)
(* matches; the transaction goes on either way.                            *)
Releasable_Mutant(d) == TRUE
Releasable(d) == outbox[d] = "in_flight"

ReleaseUpdate(w) ==
  /\ pc[w] = "release"
  /\ rowLock[claim[w]] = None
  /\ BeginTx(w)
  /\ rowLock' = IF Releasable(claim[w])
                THEN [rowLock EXCEPT ![claim[w]] = w]
                ELSE rowLock
  /\ Goto(w, "release_tip")
  /\ UNCHANGED <<queueVars, recordVars, claim, readVars, answer, faults>>

(* VS-T08: only a document left in processing goes back to sealed_locally. *)
Reverts_Mutant(status) == status # "sealed_locally"
Reverts(status) == status = "authority_processing"

ReleaseReadTip(w) ==
  /\ pc[w] = "release_tip"
  /\ ReadTip(w)
  /\ Goto(w, IF Reverts(Tip(claim[w])) THEN "release_seq"
             ELSE "release_commit")
  /\ UNCHANGED <<queueVars, recordVars, claim, nextSeq, attemptNo, answer, lockVars, faults>>

ReleaseReadSeq(w) ==
  /\ pc[w] = "release_seq"
  /\ ReadSeq(w)
  /\ Goto(w, "release_commit")
  /\ UNCHANGED <<queueVars, recordVars, claim, latest, attemptNo, answer, lockVars, faults>>

ReleaseCommit(w) ==
  LET d == claim[w]
      reverts == Reverts(latest[w])
      ok == reverts => SeqFree(w)
  IN /\ pc[w] = "release_commit"
     /\ ledger' = IF ok /\ reverts
                  THEN [ledger EXCEPT ![d] =
                          Append(@, Event("authority_processing", "sealed_locally"))]
                  ELSE ledger
     /\ IF ok /\ rowLock[d] = w
        THEN /\ outbox' = [outbox EXCEPT ![d] = "pending"]
             /\ waiting' = waiting \cup {d}
        ELSE UNCHANGED <<outbox, waiting>>
     /\ EndTx(w)
     /\ Finish(w)
     /\ UNCHANGED <<disposition, responses, answered, faults>>

ReleaseFails(w) ==
  /\ pc[w] \in {"release", "release_tip", "release_seq", "release_commit"}
  /\ Fault
  /\ EndTx(w)
  /\ Finish(w)
  /\ UNCHANGED <<queueVars, recordVars>>

(* The process dies: the database rolls its open transaction back.         *)
Crash(w) ==
  /\ pc[w] # "idle"
  /\ Fault
  /\ EndTx(w)
  /\ Finish(w)
  /\ UNCHANGED <<queueVars, recordVars>>

------------------------------------------------------------------------------
(* ApplyQueueAction: a compare-and-set on updated_at, so an action that is *)
(* applied acts on the row as it is; one with an older view, or a replayed *)
(* Idempotency-Key, changes nothing.  A succeeded row is never touched.    *)

ApplyQueueAction(d, state, disp) ==
  /\ CanWrite
  /\ rowLock[d] = None
  /\ outbox[d] # "succeeded"
  /\ outbox' = [outbox EXCEPT ![d] = state]
  /\ disposition' = [disposition EXCEPT ![d] = disp]
  /\ waiting' = IF state = "pending" THEN waiting \ {d} ELSE waiting
  /\ UNCHANGED <<recordVars, pc, claim, readVars, answer, lockVars, faults>>

Reopenable(d) == disposition[d] # "cancelled"

OpsRetry(d) ==
  /\ Reopenable(d)
  /\ ApplyQueueAction(d, "pending", "none")

OpsCancel(d) == ApplyQueueAction(d, "dead", "cancelled")

OpsManualReview_Mutant(d) ==
  /\ Reopenable(d)
  /\ ApplyQueueAction(d, "manual_review", "manual_review")

OpsManualReview(d) ==
  /\ Reopenable(d)
  /\ ApplyQueueAction(d, "dead", "manual_review")

(* Time passes the row's available_at.                                     *)
BackoffElapses(d) ==
  /\ d \in waiting
  /\ waiting' = waiting \ {d}
  /\ UNCHANGED <<outbox, disposition, recordVars, pc, claim, readVars, answer, lockVars, faults>>

------------------------------------------------------------------------------
(* The statements of a pass, other than its claim and its faults.          *)
Proceed(w) ==
  \/ MarkReadTip(w) \/ MarkReadSeq(w) \/ MarkCommit(w)
  \/ Submit(w)
  \/ PersistReadState(w) \/ PersistReadTip(w) \/ PersistDuplicate(w)
  \/ PersistReadSeq(w) \/ PersistCommit(w)
  \/ ReleaseUpdate(w) \/ ReleaseReadTip(w) \/ ReleaseReadSeq(w) \/ ReleaseCommit(w)

Faulty(w) ==
  MarkFails(w) \/ SubmitFails(w) \/ PersistFails(w) \/ ReleaseFails(w) \/ Crash(w)

Ops(d) == OpsRetry(d) \/ OpsCancel(d) \/ OpsManualReview(d)

Next ==
  \/ \E w \in Workers : Proceed(w) \/ Faulty(w) \/ \E d \in Docs : ClaimDoc(w, d)
  \/ \E d \in Docs : Ops(d) \/ BackoffElapses(d)

Spec == Init /\ [][Next]_vars

(* Some process keeps calling ProcessNextAuthoritySubmission.  A started   *)
(* transaction gets the lock it waits for (busy_timeout; row locks queue), *)
(* ORDER BY available_at does not pass a due row over for ever, and the    *)
(* clock advances.  Faults are finite (MaxFaults); none has to happen.     *)
Fairness ==
  /\ \A w \in Workers : SF_vars(Proceed(w))
  /\ \A d \in Docs : SF_vars(\E w \in Workers : ClaimDoc(w, d))
  /\ \A d \in Docs : WF_vars(BackoffElapses(d))

FairSpec == Spec /\ Fairness

------------------------------------------------------------------------------
(* Properties of both dialects.                                            *)

OutcomesAt(d) == {i \in 1..Len(ledger[d]) : ledger[d][i].to \in Outcomes}
Holds(w, d) == claim[w] = d

Recorded(d) ==
  /\ outbox[d] = "succeeded" <=> responses[d] # <<>>
  /\ OutcomesAt(d) # {} <=> responses[d] # <<>>
  /\ Len(responses[d]) <= 1
  /\ \A i \in OutcomesAt(d) :
       /\ ledger[d][i].to = responses[d][1]
       /\ ledger[d][i].to \in answered[d]
       /\ OutcomesAt(d) = {i}

(* However often a document is sent (reclaim, crash after the answer,      *)
(* operator retry), one verdict is recorded: one authority response, one   *)
(* ledger event with the same outcome, an outcome the authority gave, and  *)
(* the outbox row is succeeded exactly then.                               *)
VerdictRecordedOnce == \A d \in Docs : Recorded(d)

(* A cancelled submission is closed for good: no worker in flight, no      *)
(* reclaim, release or later operator action reopens or decides it, and    *)
(* once its last worker has let go no other ever takes it up.              *)
CancelIsFinal ==
  [][\A d \in Docs : disposition[d] = "cancelled" =>
       /\ disposition'[d] = "cancelled"
       /\ outbox'[d] = "dead"
       /\ responses'[d] = <<>>
       /\ \A w \in Workers : Holds(w, d)' => Holds(w, d)]_vars

(* Every submission is worked to an end: a row that is pending or in       *)
(* flight is one day succeeded, or dead by an operator's decision, across  *)
(* outages, crashes between any two statements and stale claims.           *)
EveryRowCloses ==
  \A d \in Docs : outbox[d] \in {"pending", "in_flight"}
                  ~> outbox[d] \in {"succeeded", "dead"}

(* docs/04-domain/document-state-machine.md: an unknown outcome is         *)
(* uncertain and is reconciled, so it does not stay the document's last    *)
(* status.  persistAuthoritySuccess closes its row like a verdict's, and   *)
(* neither a worker nor an operator takes a succeeded row up again.        *)
UncertainResolved ==
  \A d \in Docs : Tip(d) = "authority_outcome_unknown"
                  ~> Tip(d) # "authority_outcome_unknown"

------------------------------------------------------------------------------
(* Properties of the serialised (SQLite) transactions.                     *)

(* The ledger is one chain: it starts with the seal, and every event       *)
(* leaves the status the one before it reached, although the event's       *)
(* from_status is read in an earlier statement than its seq.               *)
LedgerChained ==
  \A d \in Docs : \A i \in 1..Len(ledger[d]) :
    ledger[d][i].from = IF i = 1 THEN None ELSE ledger[d][i - 1].to

(* docs/04-domain/document-state-machine.md: a final fiscal state          *)
(* (accepted or rejected by the authority) is not reverted.  After it      *)
(* nothing is appended to the document's ledger.                           *)
DecisionFinal ==
  [][\A d \in Docs : Tip(d) \in Verdicts => ledger'[d] = ledger[d]]_vars

(* The worker implements the lifecycle: what a reader of the last ledger   *)
(* event sees of a document is a behaviour of SubmissionLifecycle.         *)
Lifecycle == INSTANCE SubmissionLifecycle WITH status <- [d \in Docs |-> Tip(d)]
ImplementsLifecycle == Lifecycle!Spec

==============================================================================
