------------------------- MODULE SubmissionLifecycle -------------------------
(***************************************************************************)
(* What the module promises about the authority status of a sealed         *)
(* document, whatever worker, crash or operator is involved: the status    *)
(* moves between sealed_locally and authority_processing and leaves them   *)
(* only by an answer the authority really gave.  Acceptance and rejection  *)
(* are final.  An unknown outcome is not: it waits for a reconciliation,   *)
(* which submits the document again or records the verdict.                *)
(* docs/04-domain/document-state-machine.md is the document's side of it;  *)
(* the statuses are the ones outbox.go writes to ledger_events.            *)
(***************************************************************************)
CONSTANT Docs       \* the sealed documents

Verdicts == {"authority_accepted", "authority_rejected"}
Outcomes == Verdicts \cup {"authority_outcome_unknown"}
Statuses == {"sealed_locally", "authority_processing"} \cup Outcomes

VARIABLES
  status,           \* status[d]: to_status of the document's last ledger event
  answered          \* answered[d]: outcomes the authority has returned for d

vars == <<status, answered>>

TypeOK ==
  /\ status \in [Docs -> Statuses]
  /\ answered \in [Docs -> SUBSET Outcomes]

Init ==
  /\ status = [d \in Docs |-> "sealed_locally"]
  /\ answered = [d \in Docs |-> {}]

StartProcessing(d) ==
  /\ status[d] = "sealed_locally"
  /\ status' = [status EXCEPT ![d] = "authority_processing"]
  /\ UNCHANGED answered

RevertToSealed(d) ==
  /\ status[d] = "authority_processing"
  /\ status' = [status EXCEPT ![d] = "sealed_locally"]
  /\ UNCHANGED answered

Answer(d, o) ==
  /\ answered' = [answered EXCEPT ![d] = @ \cup {o}]
  /\ UNCHANGED status

RecordOutcome(d, o) ==
  /\ status[d] \notin Outcomes
  /\ o \in answered[d]
  /\ status' = [status EXCEPT ![d] = o]
  /\ UNCHANGED answered

(* outbox.go has no such step: Outbox!UncertainResolved shows what follows *)
(* from that.                                                              *)
Reconcile(d, s) ==
  /\ status[d] = "authority_outcome_unknown"
  /\ s = "authority_processing" \/ s \in Verdicts \cap answered[d]
  /\ status' = [status EXCEPT ![d] = s]
  /\ UNCHANGED answered

Next ==
  \E d \in Docs :
    \/ StartProcessing(d)
    \/ RevertToSealed(d)
    \/ \E o \in Outcomes : Answer(d, o) \/ RecordOutcome(d, o)
    \/ \E s \in Statuses : Reconcile(d, s)

Spec == Init /\ [][Next]_vars
==============================================================================
