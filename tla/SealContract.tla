---------------------------- MODULE SealContract ----------------------------
(***************************************************************************)
(* What POST /v1/documents promises of a scope, without transactions or    *)
(* locks: one numbered book per series, entered once per idempotency key   *)
(* and once per external id, at the next number; and a caller that gets a  *)
(* document gets the entry of its own key, intent and series.              *)
(***************************************************************************)
EXTENDS Naturals, Sequences

CONSTANTS
  Calls,          \* calls of POST /v1/documents
  Keys,           \* Idempotency-Key values
  Intents,        \* document intents (normalised bodies)
  ExternalID,     \* ExternalID[i]: external_id of intent i
  Series,         \* series codes
  None

VARIABLES
  asked,          \* asked[c]: what call c asks for
  book,           \* book[s]: the entries of series s, by fiscal_seq
  reply           \* reply[c]: the entry returned to c

vars == <<asked, book, reply>>

Requests == [key : Keys, intent : Intents, series : Series]
Entries(s) == {book[s][n] : n \in 1..Len(book[s])}
Booked == UNION {Entries(s) : s \in Series}

Init ==
  /\ asked = [c \in Calls |-> None]
  /\ book = [s \in Series |-> <<>>]
  /\ reply = [c \in Calls |-> None]

Ask(c, r) ==
  /\ asked[c] = None
  /\ asked' = [asked EXCEPT ![c] = r]
  /\ UNCHANGED <<book, reply>>

(* The caller may miss the answer of a seal that was committed.            *)
Seal(c, told) ==
  LET r == asked[c] IN
  /\ r # None
  /\ reply[c] = None
  /\ \A e \in Booked : e.key # r.key /\ ExternalID[e.intent] # ExternalID[r.intent]
  /\ book' = [book EXCEPT ![r.series] = Append(@, [key |-> r.key, intent |-> r.intent])]
  /\ reply' = IF told
              THEN [reply EXCEPT ![c] = [series |-> r.series, seq |-> Len(book[r.series]) + 1]]
              ELSE reply
  /\ UNCHANGED asked

Replay(c) ==
  LET r == asked[c] IN
  /\ r # None
  /\ reply[c] = None
  /\ \E n \in 1..Len(book[r.series]) :
       /\ book[r.series][n] = [key |-> r.key, intent |-> r.intent]
       /\ reply' = [reply EXCEPT ![c] = [series |-> r.series, seq |-> n]]
  /\ UNCHANGED <<asked, book>>

Next ==
  \E c \in Calls :
    \/ \E r \in Requests : Ask(c, r)
    \/ \E told \in BOOLEAN : Seal(c, told)
    \/ Replay(c)

Spec == Init /\ [][Next]_vars
==============================================================================
