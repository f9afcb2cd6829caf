---------------------------- MODULE FixtureQueue ----------------------------
(***************************************************************************)
(* The persistent fixture queue: fefixqueue's rows, the passes of          *)
(* ProcessNext and ReconcileObterEstado over them, the in-memory engine of *)
(* feboundary, the loopback mock of femock, and fixtruntime, which runs    *)
(* them in one process: a background worker and the administrators'        *)
(* process-next calls.                                                     *)
(*                                                                         *)
(* A row is named by its unique (idempotency_key, operation).  A pass      *)
(* claims a row in one transaction, hands a submission of its own to the   *)
(* engine, posts it to the mock, and settles the row with one UPDATE       *)
(* (atomic in both dialects: the claim locks its row, the others are       *)
(* single statements).  The engine, the mock's replay store and its        *)
(* scripted codes live in memory and are lost with the process; rows are   *)
(* not.                                                                    *)
(*                                                                         *)
(* Time is abstracted.  A backoff ends at some later time.  A row in       *)
(* flight may be older than the 30s reclaim limit once its pass is gone,   *)
(* and up to MaxOvertakes times while its pass still runs: the HTTP client *)
(* gives up after the same 30s.                                            *)
(***************************************************************************)
EXTENDS Naturals, FiniteSets

CONSTANTS
  Rows,           \* (idempotency_key, operation) pairs
  Callers,        \* callers of ProcessOne and ReconcileObterEstado
  Worker,         \* the caller that is fixtruntime's background worker
  MaxAttempts,    \* defaultMaxAttempts
  MaxFaults,      \* bound on crashes, shutdowns and failed UPDATEs
  MaxOvertakes,   \* bound on reclaims of a row whose pass still runs
  None

ASSUME QueueAssumption ==
  /\ IsFiniteSet(Callers) /\ Worker \in Callers
  /\ MaxAttempts \in Nat \ {0} /\ MaxFaults \in Nat /\ MaxOvertakes \in Nat
  /\ None \notin Rows

Answers == {"ok", "reject"}
Settled == Answers \cup {"dead"}
RowStates == Settled \cup {"absent", "queued", "in_flight"}
PCs == {"idle", "claim", "claimed", "process", "post", "mock", "answered", "settle", "fail"}

VARIABLES
  state,          \* state[r]: fe_fixture_submissions.state, or "absent"
  attempts,       \* attempts[r]: the attempts column
  backoff,        \* rows whose next_attempt_at is in the future
  evidence,       \* rows whose mock_request_id is not empty
  pc,             \* pc[c]: the next step of caller c
  job,            \* job[c]: the row c works on
  kind,           \* kind[c]: "next" or "reconcile"
  try,            \* try[c]: Attempts as c read them at its claim
  result,         \* result[c]: what the engine makes of the answer
  submitted,      \* callers whose submission is in the engine's map
  runtime,        \* "open", "closing" (Runtime.closed) or "closed" (Engine.closed)
  replay,         \* replay[r]: the functional answer the mock keeps for r
  script,         \* the mock's next new answer: "reject" once a code is scripted
  given,          \* given[r]: every answer the mock has produced for r
  reclaims,       \* reclaims[r]: how often r was reclaimed
  faults, overtakes

table == <<state, attempts, backoff, evidence>>
passes == <<pc, job, kind, try, result>>
memory == <<submitted, replay, script>>
history == <<given, reclaims>>
bounds == <<faults, overtakes>>
vars == <<table, passes, memory, runtime, history, bounds>>

TypeOK ==
  /\ state \in [Rows -> RowStates]
  /\ attempts \in [Rows -> Nat]
  /\ backoff \subseteq Rows /\ evidence \subseteq Rows
  /\ pc \in [Callers -> PCs]
  /\ job \in [Callers -> Rows \cup {None}]
  /\ kind \in [Callers -> {"next", "reconcile"}]
  /\ try \in [Callers -> Nat]
  /\ result \in [Callers -> Answers \cup {"failed"}]
  /\ submitted \subseteq Callers
  /\ runtime \in {"open", "closing", "closed"}
  /\ replay \in [Rows -> Answers \cup {None}]
  /\ script \in Answers
  /\ given \in [Rows -> SUBSET Answers]
  /\ reclaims \in [Rows -> Nat]
  /\ faults \in 0..MaxFaults /\ overtakes \in 0..MaxOvertakes

Init ==
  /\ state = [r \in Rows |-> "absent"]
  /\ attempts = [r \in Rows |-> 0]
  /\ backoff = {} /\ evidence = {}
  /\ pc = [c \in Callers |-> "idle"]
  /\ job = [c \in Callers |-> None]
  /\ kind = [c \in Callers |-> "next"]
  /\ try = [c \in Callers |-> 0]
  /\ result = [c \in Callers |-> "failed"]
  /\ submitted = {}
  /\ runtime = "open"
  /\ replay = [r \in Rows |-> None]
  /\ script = "ok"
  /\ given = [r \in Rows |-> {}]
  /\ reclaims = [r \in Rows |-> 0]
  /\ faults = 0 /\ overtakes = 0

------------------------------------------------------------------------------
Goto(c, label) == pc' = [pc EXCEPT ![c] = label]
Fault == faults < MaxFaults /\ faults' = faults + 1

(* The caller returns; the submission it made stays in the engine's map.   *)
Return(c) ==
  /\ Goto(c, "idle")
  /\ job' = [job EXCEPT ![c] = None]
  /\ kind' = [kind EXCEPT ![c] = "next"]
  /\ try' = [try EXCEPT ![c] = 0]
  /\ result' = [result EXCEPT ![c] = "failed"]

(* Enqueue: a key that exists returns its row unchanged; two inserts of    *)
(* one key meet the unique constraint and both return the row.             *)
Enqueue(r) ==
  /\ state[r] = "absent"
  /\ state' = [state EXCEPT ![r] = "queued"]
  /\ UNCHANGED <<attempts, backoff, evidence, passes, memory, runtime, history, bounds>>

(* ProcessOne looks at Runtime.closed before it claims.                    *)
ProcessOne(c) ==
  /\ pc[c] = "idle"
  /\ runtime = "open"
  /\ Goto(c, "claim")
  /\ UNCHANGED <<table, job, kind, try, result, memory, runtime, history, bounds>>

Due(r) == state[r] = "queued" /\ r \notin backoff
Live(r) == \E c \in Callers : job[c] = r /\ kind[c] = "next"

(* Rows the reclaim may find older than its limit, and how many of them    *)
(* overtake a pass that still runs.                                        *)
ReclaimStale_Never(stale) == stale = {} /\ UNCHANGED <<reclaims, overtakes>>
ReclaimStale_AnyState(stale) ==
  /\ \A r \in stale : state[r] # "absent" /\ ~Live(r)
  /\ reclaims' = [r \in Rows |-> IF r \in stale THEN reclaims[r] + 1 ELSE reclaims[r]]
  /\ UNCHANGED overtakes
ReclaimStale(stale) ==
  /\ \A r \in stale : state[r] = "in_flight"
  /\ \A r, s \in stale : Live(r) /\ Live(s) => r = s
  /\ overtakes' = IF \E r \in stale : Live(r) THEN overtakes + 1 ELSE overtakes
  /\ overtakes' <= MaxOvertakes
  /\ reclaims' = [r \in Rows |-> IF r \in stale THEN reclaims[r] + 1 ELSE reclaims[r]]

(* claimNext: reclaim, take the due row with the oldest next_attempt_at,   *)
(* count the attempt.                                                      *)
ClaimNext(c, r) ==
  /\ pc[c] = "claim"
  /\ \E stale \in SUBSET Rows :
       /\ ReclaimStale(stale)
       /\ Due(r) \/ r \in stale
       /\ state' = [s \in Rows |-> IF s = r THEN "in_flight"
                                   ELSE IF s \in stale THEN "queued"
                                   ELSE state[s]]
  /\ attempts' = [attempts EXCEPT ![r] = @ + 1]
  /\ job' = [job EXCEPT ![c] = r]
  /\ try' = [try EXCEPT ![c] = attempts[r] + 1]
  /\ Goto(c, "claimed")
  /\ UNCHANGED <<backoff, evidence, kind, result, memory, runtime, given, faults>>

(* No row is due: ErrEmpty.  The reclaim is rolled back with it.           *)
QueueEmpty(c) ==
  /\ pc[c] = "claim"
  /\ \A r \in Rows : ~Due(r)
  /\ Return(c)
  /\ UNCHANGED <<table, memory, runtime, history, bounds>>

(* ReconcileObterEstado begins by reading a row that is ok.  The worker's  *)
(* loop only calls ProcessOne.                                             *)
ReconcileObterEstado(c, r) ==
  /\ pc[c] = "idle" /\ c # Worker
  /\ state[r] = "ok"
  /\ job' = [job EXCEPT ![c] = r]
  /\ kind' = [kind EXCEPT ![c] = "reconcile"]
  /\ Goto(c, "claimed")
  /\ UNCHANGED <<table, try, result, memory, runtime, history, bounds>>

(* Engine.Enqueue.                                                         *)
EngineEnqueue(c) ==
  /\ pc[c] = "claimed"
  /\ \/ /\ runtime = "closed"
        /\ Goto(c, "fail")
        /\ UNCHANGED submitted
     \/ /\ runtime # "closed"
        /\ submitted' = submitted \cup {c}
        /\ Goto(c, "process")
  /\ UNCHANGED <<table, job, kind, try, result, replay, script, runtime, history, bounds>>

(* Engine.Process up to the POST.  It fails when the engine was closed and *)
(* forgot the submission, when the context was cancelled, and when the     *)
(* identity cannot sign the claims.                                        *)
EngineProcess(c) ==
  /\ pc[c] = "process"
  /\ \/ c \in submitted /\ Goto(c, "post")
     \/ Goto(c, "fail")
  /\ UNCHANGED <<table, job, kind, try, result, memory, runtime, history, bounds>>

Answered(c, a) ==
  /\ result' = [result EXCEPT ![c] = a]
  /\ Goto(c, "answered")

(* The mock's handler: handleReplay, then respondOKOrFERNG.  The lookup    *)
(* and the store are two critical sections.  A reconciliation has a key of *)
(* its own; of its answer only whether it came is used.                    *)
MockLookup(c) ==
  /\ pc[c] = "post"
  /\ \/ /\ kind[c] = "next" /\ replay[job[c]] # None
        /\ Answered(c, replay[job[c]])
     \/ /\ kind[c] = "reconcile" \/ replay[job[c]] = None
        /\ Goto(c, "mock")
        /\ UNCHANGED result
  /\ UNCHANGED <<table, job, kind, try, memory, runtime, history, bounds>>

MockRespond(c) ==
  /\ pc[c] = "mock"
  /\ script' = "ok"
  /\ \/ /\ kind[c] = "next"
        /\ replay' = [replay EXCEPT ![job[c]] = script]
        /\ given' = [given EXCEPT ![job[c]] = @ \cup {script}]
     \/ kind[c] = "reconcile" /\ UNCHANGED <<replay, given>>
  /\ Answered(c, script)
  /\ UNCHANGED <<table, job, kind, try, submitted, runtime, reclaims, bounds>>

ScriptFERNG ==
  /\ script' = "reject"
  /\ UNCHANGED <<table, passes, submitted, replay, runtime, history, bounds>>

(* The POST fails or times out, before or after the mock has answered.     *)
PostFails_Mutant(c) ==
  /\ pc[c] \in {"post", "mock", "answered"}
  /\ Answered(c, "ok")
  /\ UNCHANGED <<table, job, kind, try, memory, runtime, history, bounds>>
PostFails(c) ==
  /\ pc[c] \in {"post", "mock", "answered"}
  /\ Answered(c, "failed")
  /\ UNCHANGED <<table, job, kind, try, memory, runtime, history, bounds>>

(* Engine.finish and Engine.fail: ErrNotFound when the map was cleared.    *)
EngineFinish(c) ==
  /\ pc[c] = "answered"
  /\ Goto(c, IF c \in submitted THEN "settle" ELSE "fail")
  /\ UNCHANGED <<table, job, kind, try, result, memory, runtime, history, bounds>>

------------------------------------------------------------------------------
(* The end of a pass: one UPDATE ... WHERE id, whatever the row's state.   *)
FinishRow(c, s, hasID) ==
  /\ state' = [state EXCEPT ![job[c]] = s]
  /\ evidence' = IF hasID THEN evidence \cup {job[c]} ELSE evidence \ {job[c]}
  /\ UNCHANGED backoff

Requeue(c) ==
  /\ state' = [state EXCEPT ![job[c]] = "queued"]
  /\ backoff' = backoff \cup {job[c]}
  /\ UNCHANGED evidence

(* A failed attempt goes back to the queue until the attempts are used up. *)
Retry_Mutant(c) == Requeue(c)
Retry(c) ==
  \/ try[c] < MaxAttempts /\ Requeue(c)
  \/ try[c] >= MaxAttempts /\ FinishRow(c, "dead", FALSE)

Settle_Mutant(c) ==
  /\ pc[c] = "settle"
  /\ \/ kind[c] = "next" /\ FinishRow(c, result[c], TRUE)
     \/ kind[c] = "reconcile" /\ FinishRow(c, "ok", result[c] # "failed")
  /\ Return(c)
  /\ UNCHANGED <<attempts, memory, runtime, history, bounds>>
Settle(c) ==
  /\ pc[c] = "settle"
  /\ \/ kind[c] = "next" /\ result[c] = "failed" /\ Retry(c)
     \/ kind[c] = "next" /\ result[c] # "failed" /\ FinishRow(c, result[c], TRUE)
     \/ kind[c] = "reconcile" /\ FinishRow(c, "ok", result[c] # "failed")
  /\ Return(c)
  /\ UNCHANGED <<attempts, memory, runtime, history, bounds>>

(* handleTransportFailure; a reconciliation returns the error.             *)
HandleTransportFailure(c) ==
  /\ pc[c] = "fail"
  /\ \/ kind[c] = "next" /\ Retry(c)
     \/ kind[c] = "reconcile" /\ UNCHANGED <<state, backoff, evidence>>
  /\ Return(c)
  /\ UNCHANGED <<attempts, memory, runtime, history, bounds>>

(* The UPDATE itself fails, or its context was cancelled: the row stays as *)
(* it is, in flight until it is reclaimed.                                 *)
UpdateFails(c) ==
  /\ pc[c] \in {"settle", "fail"}
  /\ Fault
  /\ Return(c)
  /\ UNCHANGED <<table, memory, runtime, history, overtakes>>

------------------------------------------------------------------------------
BackoffElapses(r) ==
  /\ r \in backoff
  /\ backoff' = backoff \ {r}
  /\ UNCHANGED <<state, attempts, evidence, passes, memory, runtime, history, bounds>>

(* Runtime.Close: no new pass, then the engine forgets its submissions.    *)
CloseRuntime ==
  /\ runtime = "open"
  /\ Fault
  /\ runtime' = "closing"
  /\ UNCHANGED <<table, passes, memory, history, overtakes>>

CloseEngine ==
  /\ runtime = "closing"
  /\ runtime' = "closed"
  /\ submitted' = {}
  /\ UNCHANGED <<table, passes, replay, script, history, bounds>>

(* The process ends, in order or not, and a new one opens the runtime.     *)
Restarted ==
  /\ pc' = [c \in Callers |-> "idle"]
  /\ job' = [c \in Callers |-> None]
  /\ kind' = [c \in Callers |-> "next"]
  /\ try' = [c \in Callers |-> 0]
  /\ result' = [c \in Callers |-> "failed"]
  /\ submitted' = {}
  /\ replay' = [r \in Rows |-> None]
  /\ script' = "ok"
  /\ runtime' = "open"
  /\ UNCHANGED <<table, history, overtakes>>

Crash == Fault /\ Restarted
Reopen == runtime = "closed" /\ Restarted /\ UNCHANGED faults

Proceed(c) ==
  \/ QueueEmpty(c) \/ (\E r \in Rows : ClaimNext(c, r))
  \/ EngineEnqueue(c) \/ EngineProcess(c) \/ MockLookup(c) \/ MockRespond(c)
  \/ EngineFinish(c) \/ Settle(c) \/ HandleTransportFailure(c)

Next ==
  \/ \E r \in Rows : Enqueue(r) \/ BackoffElapses(r)
  \/ \E c \in Callers :
       \/ ProcessOne(c) \/ Proceed(c) \/ PostFails(c) \/ UpdateFails(c)
       \/ \E r \in Rows : ReconcileObterEstado(c, r)
  \/ ScriptFERNG \/ CloseRuntime \/ CloseEngine \/ Crash \/ Reopen

Spec == Init /\ [][Next]_vars

(* Passes go on and the worker's ticker starts them; the claim's order     *)
(* passes over no row for ever; backoffs end; a runtime is closed only to  *)
(* be opened again.                                                        *)
Fairness ==
  /\ \A c \in Callers : WF_vars(Proceed(c))
  /\ WF_vars(ProcessOne(Worker))
  /\ \A r \in Rows : SF_vars(\E c \in Callers : ClaimNext(c, r)) /\ WF_vars(BackoffElapses(r))
  /\ WF_vars(CloseEngine) /\ WF_vars(Reopen)

FairSpec == Spec /\ Fairness

------------------------------------------------------------------------------
(* A row is ok, or rejected, only when the mock has given that answer to a *)
(* POST of this row: a signature alone, a failed POST or a forgotten       *)
(* submission never settles it so (Engine.Process, ProcessNext).           *)
AnswerBacked == \A r \in Rows : state[r] \in Answers => state[r] \in given[r]

(* The retry budget: a row dies only after MaxAttempts attempts, and is    *)
(* attempted no more often than that, but for one more per reclaim: stale  *)
(* passes that requeue it late add none (ProcessNext, claimNext).          *)
AttemptBudget ==
  \A r \in Rows :
    /\ attempts[r] <= MaxAttempts + reclaims[r]
    /\ state[r] = "dead" => attempts[r] >= MaxAttempts

(* As long as no pass has been overtaken by the reclaim, a settled row     *)
(* stays as it was settled, whatever passes and reconciliations are under  *)
(* way and wherever a crash or a shutdown cut them off: finish and requeue *)
(* name the row by its id alone (ProcessNext, ReconcileObterEstado).       *)
OutcomeKept ==
  [][overtakes' = 0 => \A r \in Rows : state[r] \in Settled => state'[r] = state[r]]_vars

(* A settled row stays as it was settled, overtaken passes included.       *)
OutcomeFinal ==
  [][\A r \in Rows : state[r] \in Settled => state'[r] = state[r]]_vars

(* Every row is settled in the end, and for good: with finitely many       *)
(* faults no submission is lost between reclaim, backoff and shutdown.     *)
EveryRowSettles == \A r \in Rows : state[r] # "absent" ~> [](state[r] \in Settled)
==============================================================================
