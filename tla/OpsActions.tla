----------------------------- MODULE OpsActions -----------------------------
(***************************************************************************)
(* The idempotency of queue actions (ApplyQueueAction,                     *)
(* internal/adminops/actions.go) on one row of the outbox.  Outbox has the *)
(* effect of the actions beside the worker; here is how often a call takes *)
(* effect when its client, not knowing, makes it again: the key is looked  *)
(* up before the transaction, the row is compared by updated_at, and the   *)
(* key is inserted at the end of the transaction.                          *)
(*                                                                         *)
(* updated_at is a clock in microseconds, and two changes may fall in one: *)
(* the row then keeps the stamp it had.                                    *)
(***************************************************************************)
EXTENDS Integers, FiniteSets

CONSTANTS
  Attempts,    \* HTTP requests; each is made once
  IdemKeys,    \* Idempotency-Keys of the clients
  MaxClock     \* bound on the clock

ASSUME OpsAssumption == MaxClock \in Nat

OpsKinds == {"retry", "cancel", "manual_review"}

VARIABLES
  row,         \* [state, disp, updated] of the outbox message
  idem,        \* admin_ops_action_idempotency: the action of each key used
  attempt,     \* where each request is: its key, action, stamp and what it read
  now,
  effects      \* history: how often each key has changed the row

opsVars == <<row, idem, attempt, now, effects>>

NewAttempt == [pc |-> "new", key |-> "none", action |-> "none", expected |-> 0, at |-> 0, read |-> <<>>]
Answer(a, with) ==
  attempt' = [attempt EXCEPT ![a] = [NewAttempt EXCEPT !.pc = with, !.key = attempt[a].key,
               !.action = attempt[a].action]]

\* The clock is read, then the key is looked up, outside the transaction.  A
\* client may send any key with any action and any stamp it has seen.
LookupIdempotency(a, k, action, expected) ==
  /\ attempt[a].pc = "new" /\ expected <= row.updated
  /\ attempt' = [attempt EXCEPT ![a] =
       [NewAttempt EXCEPT !.key = k, !.action = action, !.expected = expected, !.at = now,
          !.pc = CASE idem[k] = "none" -> "begin"
                   [] idem[k] = action -> "replayed"
                   [] OTHER -> "conflict"]]
  /\ UNCHANGED <<row, idem, now, effects>>

\* The rules of the three actions on the row as read.
Permitted(r, action) ==
  /\ r.state # "succeeded"
  /\ action # "cancel" => r.disp # "cancelled"

ReadRow(a) ==
  /\ attempt[a].pc = "begin"
  /\ \/ /\ row.updated = attempt[a].expected /\ Permitted(row, attempt[a].action)
        /\ attempt' = [attempt EXCEPT ![a].pc = "update", ![a].read = row]
     \/ /\ ~(row.updated = attempt[a].expected /\ Permitted(row, attempt[a].action))
        /\ Answer(a, "refused")
  /\ UNCHANGED <<row, idem, now, effects>>

Target(action) ==
  CASE action = "retry" -> [state |-> "pending", disp |-> "none"]
    [] action = "cancel" -> [state |-> "dead", disp |-> "cancelled"]
    [] action = "manual_review" -> [state |-> "dead", disp |-> "manual_review"]

KeyFree_Mutant(k) == TRUE
KeyFree(k) == idem[k] = "none"

\* UPDATE WHERE updated_at and INSERT of the key; either may refuse, and
\* then the transaction rolls back.
UpdateRow(a) ==
  LET t == Target(attempt[a].action)
      k == attempt[a].key
      done == row.updated = attempt[a].read.updated /\ KeyFree(k)
  IN  /\ attempt[a].pc = "update"
      /\ \/ /\ done
            /\ row' = [state |-> t.state, disp |-> t.disp, updated |-> attempt[a].at]
            /\ idem' = [idem EXCEPT ![k] = attempt[a].action]
            /\ effects' = [effects EXCEPT ![k] = @ + 1]
            /\ Answer(a, "applied")
         \/ ~done /\ Answer(a, "conflict") /\ UNCHANGED <<row, idem, effects>>
      /\ UNCHANGED now

\* The client hears nothing and gives up this request; it may make it again.
LoseAnswer(a) ==
  /\ attempt[a].pc \in {"begin", "update"}
  /\ Answer(a, "lost")
  /\ UNCHANGED <<row, idem, now, effects>>

\* The outbox worker beside the administrators: a claim, a reclaim or a
\* release, and the closing of the row, which late workers do from pending
\* too and, when the ledger has an outcome already, from any state.  Each
\* sets updated_at.  Outbox has the worker itself.
WorkerWrites(from) ==
  CASE from = "pending" -> {"in_flight", "succeeded"}
    [] from = "in_flight" -> {"pending", "succeeded"}
    [] OTHER -> {"succeeded"}

WorkerStep(s) ==
  /\ s \in WorkerWrites(row.state)
  /\ row' = [row EXCEPT !.state = s, !.updated = now]
  /\ UNCHANGED <<idem, attempt, now, effects>>

Tick == now < MaxClock /\ now' = now + 1 /\ UNCHANGED <<row, idem, attempt, effects>>

OpsInit ==
  /\ row = [state |-> "pending", disp |-> "none", updated |-> 0]
  /\ idem = [k \in IdemKeys |-> "none"]
  /\ attempt = [a \in Attempts |-> NewAttempt]
  /\ now = 0
  /\ effects = [k \in IdemKeys |-> 0]

OpsNext ==
  \/ \E a \in Attempts :
       \/ \E k \in IdemKeys, action \in OpsKinds, e \in 0..MaxClock : LookupIdempotency(a, k, action, e)
       \/ ReadRow(a) \/ UpdateRow(a) \/ LoseAnswer(a)
  \/ \E s \in {"pending", "in_flight", "succeeded"} : WorkerStep(s)
  \/ Tick

OpsSpec == OpsInit /\ [][OpsNext]_opsVars

------------------------------------------------------------------------------
\* However often a client repeats a call, and however the repetitions meet,
\* a key changes the row at most once, and a call answered as applied or as
\* a replay means its own action has been applied once.  updated_at alone
\* would not do: within one microsecond it does not move.
KeyAppliedOnce ==
  /\ \A k \in IdemKeys : effects[k] <= 1
  /\ \A a \in Attempts :
       attempt[a].pc \in {"applied", "replayed"} =>
         effects[attempt[a].key] = 1 /\ idem[attempt[a].key] = attempt[a].action
==============================================================================
