------------------------------- MODULE SealTx -------------------------------
(***************************************************************************)
(* POST /v1/documents: SealInTx (internal/persistence/seal.go, seal_tx.go) *)
(* behind internal/httpapi/documents.go, for the calls of one scope.  All  *)
(* tables and unique indexes are keyed by scope_id, so scopes do not meet. *)
(*                                                                         *)
(* A call is one transaction, modelled statement by statement.  In SQLite  *)
(* BEGIN IMMEDIATE admits one transaction at a time.  In PostgreSQL (READ  *)
(* COMMITTED) a transaction waits for a row or an index entry another has  *)
(* written: the idempotency row, the series counter and the unique         *)
(* (scope_id, external_id).  Its rows become visible at COMMIT.            *)
(*                                                                         *)
(* Document ids are random: a document is named by the call that sealed    *)
(* it.  Its lines, ledger event and outbox row are inserted with it and    *)
(* meet no other transaction.  A client's retry is another call.  The      *)
(* series is the one bound to the caller's credential, not the client's    *)
(* choice, and is part of the request hash.                                *)
(***************************************************************************)
EXTENDS Naturals, FiniteSets

CONSTANTS
  Calls,          \* calls of POST /v1/documents that pass authentication and validation
  Keys,           \* Idempotency-Key values
  Intents,        \* document intents (normalised bodies)
  ExternalID,     \* ExternalID[i]: external_id of intent i
  Series,         \* series codes
  Dialect,        \* "sqlite" or "postgres"
  None

ASSUME SealDialect == Dialect \in {"sqlite", "postgres"}
ASSUME SealExternal == DOMAIN ExternalID = Intents

ExternalIDs == {ExternalID[i] : i \in Intents}
Requests == [key : Keys, intent : Intents, series : Series]
PCs == {"idle", "key", "external", "series", "document", "commit", "done"}
Refusals == {"idempotency_conflict", "external_id_conflict", "error"}
DocumentRows == [intent : Intents, series : Series, seq : Nat]
RecordRows == [intent : Intents, series : Series, document : Calls]

ASSUME SealDistinct ==
  /\ Calls \cap (Refusals \cup {None}) = {}
  /\ None \notin Requests /\ None \notin DocumentRows /\ None \notin RecordRows

VARIABLES
  request,        \* request[c]: what c asks for
  pc,             \* pc[c]: the next statement of c
  seq,            \* seq[c]: the fiscal_seq c has taken in its transaction
  answer,         \* answer[c]: the document c returned, or why it refused
  documents,      \* documents[c]: the committed document sealed by c
  records,        \* records[k]: the committed idempotency record of key k
  lastSeq,        \* lastSeq[s]: committed series_counters.last_seq
  keyLock,        \* keyLock[k]: the call that has written k's record, uncommitted
  seriesLock,     \* seriesLock[s]: the call that holds s's counter
  externalLock,   \* externalLock[e]: the call that has inserted a document with e
  writer          \* SQLite: the call that holds the write lock

tables == <<documents, records, lastSeq>>
locks == <<keyLock, seriesLock, externalLock, writer>>
vars == <<request, pc, seq, answer, tables, locks>>

TypeOK ==
  /\ request \in [Calls -> Requests \cup {None}]
  /\ pc \in [Calls -> PCs]
  /\ seq \in [Calls -> Nat]
  /\ answer \in [Calls -> Calls \cup Refusals \cup {None}]
  /\ documents \in [Calls -> DocumentRows \cup {None}]
  /\ records \in [Keys -> RecordRows \cup {None}]
  /\ lastSeq \in [Series -> Nat]
  /\ keyLock \in [Keys -> Calls \cup {None}]
  /\ seriesLock \in [Series -> Calls \cup {None}]
  /\ externalLock \in [ExternalIDs -> Calls \cup {None}]
  /\ writer \in Calls \cup {None}

Init ==
  /\ request = [c \in Calls |-> None]
  /\ pc = [c \in Calls |-> "idle"]
  /\ seq = [c \in Calls |-> 0]
  /\ answer = [c \in Calls |-> None]
  /\ documents = [c \in Calls |-> None]
  /\ records = [k \in Keys |-> None]
  /\ lastSeq = [s \in Series |-> 0]
  /\ keyLock = [k \in Keys |-> None]
  /\ seriesLock = [s \in Series |-> None]
  /\ externalLock = [e \in ExternalIDs |-> None]
  /\ writer = None

------------------------------------------------------------------------------
Key(c) == request[c].key
Intent(c) == request[c].intent
SeriesOf(c) == request[c].series
External(c) == ExternalID[Intent(c)]
Sealed == {d \in Calls : documents[d] # None}
InSeries(s) == {d \in Sealed : documents[d].series = s}

(* The canonical hash covers the intent and the series.                    *)
SameRequest_Mutant(c) == TRUE
SameRequest(c) ==
  /\ records[Key(c)].intent = Intent(c)
  /\ records[Key(c)].series = SeriesOf(c)

ExternalTaken_Mutant(c) == FALSE
ExternalTaken(c) == \E d \in Sealed : ExternalID[documents[d].intent] = External(c)

SeqTaken(c) == \E d \in InSeries(SeriesOf(c)) : documents[d].seq = seq[c]

Goto(c, label) == pc' = [pc EXCEPT ![c] = label]
Answer(c, a) == answer' = [answer EXCEPT ![c] = a]
Without(lock, c) == [x \in DOMAIN lock |-> IF lock[x] = c THEN None ELSE lock[x]]

(* COMMIT or ROLLBACK: every lock of the transaction is released.          *)
ReleaseLocks_Mutant(c) ==
  /\ keyLock' = keyLock
  /\ seriesLock' = Without(seriesLock, c)
  /\ externalLock' = Without(externalLock, c)
  /\ writer' = IF writer = c THEN None ELSE writer
ReleaseLocks(c) ==
  /\ keyLock' = Without(keyLock, c)
  /\ seriesLock' = Without(seriesLock, c)
  /\ externalLock' = Without(externalLock, c)
  /\ writer' = IF writer = c THEN None ELSE writer

Return(c, a) ==
  /\ Answer(c, a)
  /\ Goto(c, "done")
  /\ ReleaseLocks(c)

Rollback(c, a) ==
  /\ Return(c, a)
  /\ UNCHANGED <<request, seq, tables>>

------------------------------------------------------------------------------
(* ServeHTTP: authenticated and validated, the call reaches SealInTx.      *)
Post(c, r) ==
  /\ pc[c] = "idle"
  /\ request' = [request EXCEPT ![c] = r]
  /\ Goto(c, "key")
  /\ UNCHANGED <<seq, answer, tables, locks>>

(* resolveIdempotency: INSERT ... ON CONFLICT DO NOTHING waits for another *)
(* transaction's uncommitted record of the key, SELECT ... FOR UPDATE then *)
(* sees what that one committed.                                           *)
KeyAvailable(c) ==
  /\ pc[c] = "key"
  /\ writer = None
  /\ keyLock[Key(c)] = None

OwnKey(c) ==
  /\ KeyAvailable(c)
  /\ records[Key(c)] = None
  /\ keyLock' = [keyLock EXCEPT ![Key(c)] = c]
  /\ writer' = IF Dialect = "sqlite" THEN c ELSE None
  /\ Goto(c, "external")
  /\ UNCHANGED <<request, seq, answer, tables, seriesLock, externalLock>>

KeyConflict(c) ==
  /\ KeyAvailable(c)
  /\ records[Key(c)] # None
  /\ ~SameRequest(c)
  /\ Rollback(c, "idempotency_conflict")

Replay(c) ==
  /\ KeyAvailable(c)
  /\ records[Key(c)] # None
  /\ SameRequest(c)
  /\ Return(c, records[Key(c)].document)
  /\ UNCHANGED <<request, seq, tables>>

CheckExternal(c) ==
  /\ pc[c] = "external"
  /\ \/ /\ ExternalTaken(c)
        /\ Rollback(c, "external_id_conflict")
     \/ /\ ~ExternalTaken(c)
        /\ Goto(c, "series")
        /\ UNCHANGED <<request, seq, answer, tables, locks>>

(* nextFiscalSeq: the counter's row lock is held until the transaction     *)
(* ends; the new value is the transaction's own until it commits.          *)
NextFiscalSeq_Mutant(c) ==
  /\ pc[c] = "series"
  /\ seriesLock[SeriesOf(c)] = None
  /\ seq' = [seq EXCEPT ![c] = lastSeq[SeriesOf(c)] + 1]
  /\ lastSeq' = [lastSeq EXCEPT ![SeriesOf(c)] = @ + 1]
  /\ Goto(c, "document")
  /\ UNCHANGED <<request, answer, documents, records, locks>>
NextFiscalSeq(c) ==
  /\ pc[c] = "series"
  /\ seriesLock[SeriesOf(c)] = None
  /\ seriesLock' = [seriesLock EXCEPT ![SeriesOf(c)] = c]
  /\ seq' = [seq EXCEPT ![c] = lastSeq[SeriesOf(c)] + 1]
  /\ Goto(c, "document")
  /\ UNCHANGED <<request, answer, tables, keyLock, externalLock, writer>>

(* The INSERT waits for an uncommitted document with the same external_id; *)
(* a committed one, or a taken (series_code, fiscal_seq), is an error.     *)
InsertDocument(c) ==
  /\ pc[c] = "document"
  /\ externalLock[External(c)] = None
  /\ \/ /\ ExternalTaken(c) \/ SeqTaken(c)
        /\ Rollback(c, IF ExternalTaken(c) THEN "external_id_conflict" ELSE "error")
     \/ /\ ~ExternalTaken(c) /\ ~SeqTaken(c)
        /\ externalLock' = [externalLock EXCEPT ![External(c)] = c]
        /\ Goto(c, "commit")
        /\ UNCHANGED <<request, seq, answer, tables, keyLock, seriesLock, writer>>

(* UPDATE idempotency_records: the record is completed with its document.  *)
CompletedRecord_Mutant(c) == [intent |-> Intent(c), series |-> SeriesOf(c), document |-> None]
CompletedRecord(c) == [intent |-> Intent(c), series |-> SeriesOf(c), document |-> c]

(* The document, its ledger event and outbox row, the completed record and *)
(* the counter become visible together.  The caller may not learn of it:   *)
(* the connection can be lost between the database and the answer.         *)
Commit(c) ==
  /\ pc[c] = "commit"
  /\ documents' = [documents EXCEPT ![c] =
       [intent |-> Intent(c), series |-> SeriesOf(c), seq |-> seq[c]]]
  /\ records' = [records EXCEPT ![Key(c)] = CompletedRecord(c)]
  /\ lastSeq' = [lastSeq EXCEPT ![SeriesOf(c)] = seq[c]]
  /\ Return(c, c) \/ Return(c, "error")
  /\ UNCHANGED <<request, seq>>

(* Any statement may fail, the request's context may be cancelled and the  *)
(* process may die: the transaction is rolled back.                        *)
Fails(c) ==
  /\ pc[c] \notin {"idle", "done"}
  /\ Rollback(c, "error")

Proceed(c) ==
  \/ OwnKey(c) \/ KeyConflict(c) \/ Replay(c) \/ CheckExternal(c)
  \/ NextFiscalSeq(c) \/ InsertDocument(c) \/ Commit(c)

Next ==
  \E c \in Calls :
    \/ \E r \in Requests : Post(c, r)
    \/ Proceed(c)
    \/ Fails(c)

Spec == Init /\ [][Next]_vars

(* A running transaction is scheduled; nothing has to fail, and no client  *)
(* has to call.                                                            *)
FairSpec == Spec /\ \A c \in Calls : WF_vars(Proceed(c))

------------------------------------------------------------------------------
(* Numbers of a series are continuous: the committed documents carry       *)
(* exactly 1..last_seq, each once, whatever was rolled back, and in        *)
(* whatever order concurrent calls took and committed their numbers        *)
(* (AO-SEQ-001, nextFiscalSeq).                                            *)
ContinuousNumbering ==
  \A s \in Series :
    /\ {documents[d].seq : d \in InSeries(s)} = 1..lastSeq[s]
    /\ \A d, e \in InSeries(s) : documents[d].seq = documents[e].seq => d = e

(* All answers to one Idempotency-Key name the same document, one with the *)
(* intent and the series the caller asked for, also when the answer of the *)
(* call that sealed it was lost and when retries race it.                  *)
AnswersAgree ==
  \A c \in Calls : answer[c] \in Calls =>
    /\ answer[c] \in Sealed
    /\ documents[answer[c]].intent = Intent(c)
    /\ documents[answer[c]].series = SeriesOf(c)
    /\ \A d \in Calls : answer[d] \in Calls /\ Key(d) = Key(c) => answer[d] = answer[c]

(* No call waits for ever: the key, the counter and the external id are    *)
(* always locked in that order and always released.                        *)
EveryCallReturns == \A c \in Calls : pc[c] # "idle" ~> pc[c] = "done"

(* The book the committed documents make, read by series and number, and   *)
(* the entries the callers were told of.                                   *)
DocumentAt(s, n) ==
  CHOOSE d \in Sealed : documents[d].series = s /\ documents[d].seq = n
KeyOf(d) == CHOOSE k \in Keys : records[k] # None /\ records[k].document = d
Entry(s, n) == [key |-> KeyOf(DocumentAt(s, n)), intent |-> documents[DocumentAt(s, n)].intent]
Page(s) == [n \in 1..lastSeq[s] |-> Entry(s, n)]
Book == [s \in Series |-> Page(s)]
Reply == [c \in Calls |-> IF answer[c] \in Calls
                          THEN [series |-> documents[answer[c]].series,
                                seq |-> documents[answer[c]].seq]
                          ELSE None]

(* The calls implement the contract: only SealContract's steps change the  *)
(* book or a reply.                                                        *)
Contract == INSTANCE SealContract WITH asked <- request, book <- Book, reply <- Reply
ImplementsContract == Contract!Spec
==============================================================================
