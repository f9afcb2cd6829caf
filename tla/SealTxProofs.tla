---------------------------- MODULE SealTxProofs ----------------------------
(***************************************************************************)
(* Proofs about SealTx for any calls, keys, intents and series, in both    *)
(* dialects.                                                               *)
(***************************************************************************)
EXTENDS SealTx, Sequences, TLAPS

RunPCs == {"external", "series", "document", "commit"}
NumberPCs == {"document", "commit"}

(* What a call that has begun, or not yet ended, says of the tables.       *)
Begun(c) ==
  /\ pc[c] # "idle" => request[c] \in Requests
  /\ pc[c] # "done" => documents[c] = None /\ answer[c] = None

(* The key's record and the counter are held from the statement that wrote *)
(* them to the end of the transaction.                                     *)
HoldsKey(c) == pc[c] \in RunPCs => keyLock[Key(c)] = c /\ records[Key(c)] = None
HoldsNumber(c) ==
  pc[c] \in NumberPCs => seriesLock[SeriesOf(c)] = c /\ seq[c] = lastSeq[SeriesOf(c)] + 1

(* A completed record names a document with its intent and series.         *)
RecordSound(k) ==
  records[k] # None =>
    /\ documents[records[k].document] # None
    /\ documents[records[k].document].intent = records[k].intent
    /\ documents[records[k].document].series = records[k].series

(* A document that was returned is the one its key's record names.         *)
AnswerSound(c) ==
  answer[c] \in Calls =>
    /\ pc[c] = "done"
    /\ records[Key(c)] # None
    /\ answer[c] = records[Key(c)].document
    /\ SameRequest(c)

SealInv ==
  /\ TypeOK
  /\ \A c \in Calls : Begun(c) /\ HoldsKey(c) /\ HoldsNumber(c) /\ AnswerSound(c)
  /\ \A k \in Keys : RecordSound(k)
  /\ ContinuousNumbering

------------------------------------------------------------------------------
(* Nothing is sealed before the first call.                                *)
LEMMA SealInit == Init => SealInv
<1> SUFFICES ASSUME Init PROVE SealInv
  OBVIOUS
<1>1. TypeOK
  BY DEF Init, TypeOK, PCs
<1>2. \A c \in Calls : Begun(c) /\ HoldsKey(c) /\ HoldsNumber(c)
  BY DEF Init, Begun, HoldsKey, HoldsNumber, RunPCs, NumberPCs
<1>3. \A c \in Calls : AnswerSound(c)
  BY SealDistinct DEF Init, AnswerSound
<1>4. \A k \in Keys : RecordSound(k)
  BY DEF Init, RecordSound
<1>5. ContinuousNumbering
  <2>1. \A s \in Series : InSeries(s) = {} /\ lastSeq[s] = 0
    BY DEF Init, InSeries, Sealed
  <2>q. QED
    BY <2>1 DEF ContinuousNumbering
<1>q. QED
  BY <1>1, <1>2, <1>3, <1>4, <1>5 DEF SealInv

(* The tables' invariants depend on the tables only.                       *)
LEMMA TablesFrame ==
  ASSUME SealInv, UNCHANGED tables
  PROVE  (\A k \in Keys : RecordSound(k))' /\ ContinuousNumbering'
  BY DEF SealInv, tables, RecordSound, ContinuousNumbering, InSeries, Sealed

(* A transaction that is rolled back leaves no trace but its answer.       *)
LEMMA RollbackStep ==
  ASSUME SealInv, NEW c \in Calls, NEW a \in Refusals, pc[c] \notin {"idle", "done"},
         Rollback(c, a)
  PROVE  SealInv'
<1> USE SealDistinct DEF Rollback, Return, Goto, Answer, ReleaseLocks, Without
<1>1. TypeOK'
  BY DEF SealInv, TypeOK, PCs, tables, Refusals
<1>2. ASSUME NEW d \in Calls PROVE (Begun(d) /\ HoldsKey(d) /\ HoldsNumber(d) /\ AnswerSound(d))'
  <2>1. CASE d = c
    BY <2>1 DEF SealInv, TypeOK, Begun, HoldsKey, HoldsNumber, AnswerSound, RunPCs, NumberPCs,
                Refusals
  <2>2. CASE d # c
    BY <2>2 DEF SealInv, TypeOK, Begun, HoldsKey, HoldsNumber, AnswerSound, SameRequest,
                RunPCs, NumberPCs, Key, SeriesOf, Intent, tables, Requests
  <2>q. QED
    BY <2>1, <2>2
<1>3. UNCHANGED tables
  OBVIOUS
<1>q. QED
  BY <1>1, <1>2, <1>3, TablesFrame DEF SealInv

(* A new call touches nothing but its request.                             *)
LEMMA PostStep ==
  ASSUME SealInv, NEW c \in Calls, NEW r \in Requests, Post(c, r)
  PROVE  SealInv'
<1> USE SealDistinct DEF Post, Goto
<1>1. TypeOK'
  BY DEF SealInv, TypeOK, PCs, tables, locks
<1>2. ASSUME NEW d \in Calls PROVE (Begun(d) /\ HoldsKey(d) /\ HoldsNumber(d) /\ AnswerSound(d))'
  <2>1. CASE d = c
    BY <2>1 DEF SealInv, TypeOK, Begun, HoldsKey, HoldsNumber, AnswerSound, RunPCs, NumberPCs,
                tables, Requests
  <2>2. CASE d # c
    BY <2>2 DEF SealInv, TypeOK, Begun, HoldsKey, HoldsNumber, AnswerSound, SameRequest,
                RunPCs, NumberPCs, Key, SeriesOf, Intent, tables, locks
  <2>q. QED
    BY <2>1, <2>2
<1>q. QED
  BY <1>1, <1>2, TablesFrame DEF SealInv

(* A call that only takes a lock or moves on keeps what others hold.       *)
LEMMA MoveStep ==
  ASSUME SealInv, NEW c \in Calls,
         \/ OwnKey(c)
         \/ NextFiscalSeq(c)
         \/ CheckExternal(c) /\ pc'[c] = "series"
         \/ InsertDocument(c) /\ pc'[c] = "commit"
  PROVE  SealInv'
<1>0. /\ pc[c] \in {"key", "external", "series", "document"}
      /\ request[c] \in Requests /\ Key(c) \in Keys /\ SeriesOf(c) \in Series
      /\ Intent(c) \in Intents /\ External(c) \in ExternalIDs
  BY SealExternal DEF OwnKey, KeyAvailable, NextFiscalSeq, CheckExternal, InsertDocument, SealInv, Begun,
         Requests, Key, SeriesOf, Intent, External, ExternalIDs
<1>1. UNCHANGED <<request, tables, answer>>
  BY DEF OwnKey, NextFiscalSeq, CheckExternal, InsertDocument, Rollback, Return, Goto, SealInv, TypeOK
<1>2. CASE OwnKey(c)
  <2>1. TypeOK'
    BY <1>0, <1>2 DEF OwnKey, Goto, SealInv, TypeOK, PCs, tables
  <2>2. ASSUME NEW d \in Calls PROVE (Begun(d) /\ HoldsKey(d) /\ HoldsNumber(d) /\ AnswerSound(d))'
    BY <1>0, <1>1, <1>2, SealDistinct
    DEF OwnKey, KeyAvailable, Goto, SealInv, TypeOK, Begun, HoldsKey, HoldsNumber, AnswerSound,
        SameRequest, RunPCs, NumberPCs, Key, SeriesOf, Intent, tables
  <2>q. QED
    BY <1>1, <2>1, <2>2, TablesFrame DEF SealInv
<1>3. CASE NextFiscalSeq(c)
  <2>1. TypeOK'
    BY <1>0, <1>3 DEF NextFiscalSeq, Goto, SealInv, TypeOK, PCs, tables
  <2>2. ASSUME NEW d \in Calls PROVE (Begun(d) /\ HoldsKey(d) /\ HoldsNumber(d) /\ AnswerSound(d))'
    BY <1>0, <1>1, <1>3, SealDistinct
    DEF NextFiscalSeq, Goto, SealInv, TypeOK, Begun, HoldsKey, HoldsNumber, AnswerSound,
        SameRequest, RunPCs, NumberPCs, Key, SeriesOf, Intent, tables
  <2>q. QED
    BY <1>1, <2>1, <2>2, TablesFrame DEF SealInv
<1>4. CASE CheckExternal(c) /\ pc'[c] = "series"
  <2>0. Goto(c, "series") /\ UNCHANGED <<seq, locks>>
    BY <1>4 DEF CheckExternal, Rollback, Return, Goto, SealInv, TypeOK
  <2>1. TypeOK'
    BY <1>0, <1>1, <2>0 DEF Goto, SealInv, TypeOK, PCs, tables, locks
  <2>2. ASSUME NEW d \in Calls PROVE (Begun(d) /\ HoldsKey(d) /\ HoldsNumber(d) /\ AnswerSound(d))'
    BY <1>0, <1>1, <1>4, <2>0
    DEF CheckExternal, Goto, SealInv, TypeOK, Begun, HoldsKey, HoldsNumber, AnswerSound,
        SameRequest, RunPCs, NumberPCs, Key, SeriesOf, Intent, tables, locks
  <2>q. QED
    BY <1>1, <2>1, <2>2, TablesFrame DEF SealInv
<1>5. CASE InsertDocument(c) /\ pc'[c] = "commit"
  <2>0. /\ Goto(c, "commit") /\ UNCHANGED <<seq, keyLock, seriesLock, writer>>
        /\ externalLock' = [externalLock EXCEPT ![External(c)] = c]
        /\ pc[c] = "document"
    BY <1>5 DEF InsertDocument, Rollback, Return, Goto, SealInv, TypeOK
  <2>1. TypeOK'
    BY <1>0, <1>1, <2>0 DEF Goto, SealInv, TypeOK, PCs, tables
  <2>2. ASSUME NEW d \in Calls PROVE (Begun(d) /\ HoldsKey(d) /\ HoldsNumber(d) /\ AnswerSound(d))'
    BY <1>0, <1>1, <2>0
    DEF Goto, SealInv, TypeOK, Begun, HoldsKey, HoldsNumber, AnswerSound,
        SameRequest, RunPCs, NumberPCs, Key, SeriesOf, Intent, tables
  <2>q. QED
    BY <1>1, <2>1, <2>2, TablesFrame DEF SealInv
<1>q. QED
  BY <1>2, <1>3, <1>4, <1>5

(* A replay returns the document the key's record names.                   *)
LEMMA ReplayStep ==
  ASSUME SealInv, NEW c \in Calls, Replay(c)
  PROVE  SealInv'
<1>0. request[c] \in Requests /\ Key(c) \in Keys /\ pc[c] = "key"
  BY DEF Replay, KeyAvailable, SealInv, Begun, Requests, Key
<1>1. records[Key(c)] \in RecordRows /\ records[Key(c)].document \in Calls
  BY <1>0 DEF Replay, SealInv, TypeOK, RecordRows
<1> USE SealDistinct DEF Replay, Return, Goto, Answer, ReleaseLocks, Without
<1>2. TypeOK'
  BY <1>1 DEF SealInv, TypeOK, PCs, tables
<1>3. ASSUME NEW d \in Calls PROVE (Begun(d) /\ HoldsKey(d) /\ HoldsNumber(d) /\ AnswerSound(d))'
  <2>1. CASE d = c
    BY <1>0, <1>1, <2>1
    DEF SealInv, TypeOK, Begun, HoldsKey, HoldsNumber, AnswerSound, SameRequest, RunPCs,
        NumberPCs, Key, SeriesOf, Intent, tables
  <2>2. CASE d # c
    BY <2>2 DEF SealInv, TypeOK, Begun, HoldsKey, HoldsNumber, AnswerSound, SameRequest,
                RunPCs, NumberPCs, Key, SeriesOf, Intent, tables, Requests
  <2>q. QED
    BY <2>1, <2>2
<1>q. QED
  BY <1>2, <1>3, TablesFrame DEF SealInv

(* COMMIT adds one document, at the number its call holds.  No other call  *)
(* holds that key or that series.                                          *)
LEMMA CommitStep ==
  ASSUME SealInv, NEW c \in Calls, Commit(c)
  PROVE  SealInv'
<1> DEFINE row == [intent |-> Intent(c), series |-> SeriesOf(c), seq |-> seq[c]]
           rec == CompletedRecord(c)
<1>1. /\ pc[c] = "commit" /\ request[c] \in Requests
      /\ documents[c] = None /\ answer[c] = None
      /\ keyLock[Key(c)] = c /\ records[Key(c)] = None
      /\ seriesLock[SeriesOf(c)] = c /\ seq[c] = lastSeq[SeriesOf(c)] + 1
  BY DEF Commit, SealInv, Begun, HoldsKey, HoldsNumber, RunPCs, NumberPCs
<1>2. Key(c) \in Keys /\ SeriesOf(c) \in Series /\ Intent(c) \in Intents /\ seq[c] \in Nat
  BY <1>1 DEF Requests, Key, SeriesOf, Intent, SealInv, TypeOK
<1>3. row \in DocumentRows /\ rec \in RecordRows /\ row # None /\ rec # None
  BY <1>2, SealDistinct DEF DocumentRows, RecordRows, CompletedRecord
<1>4. /\ documents' = [documents EXCEPT ![c] = row]
      /\ records' = [records EXCEPT ![Key(c)] = rec]
      /\ lastSeq' = [lastSeq EXCEPT ![SeriesOf(c)] = seq[c]]
      /\ UNCHANGED <<request, seq>>
      /\ pc' = [pc EXCEPT ![c] = "done"]
      /\ ReleaseLocks(c)
      /\ \/ answer' = [answer EXCEPT ![c] = c]
         \/ answer' = [answer EXCEPT ![c] = "error"]
  BY DEF Commit, Return, Goto, Answer
<1> HIDE DEF row, rec
<1>5. TypeOK'
  <2>1. /\ documents' \in [Calls -> DocumentRows \cup {None}]
        /\ records' \in [Keys -> RecordRows \cup {None}]
        /\ lastSeq' \in [Series -> Nat]
    BY <1>2, <1>3, <1>4 DEF SealInv, TypeOK
  <2>2. answer' \in [Calls -> Calls \cup Refusals \cup {None}] /\ pc' \in [Calls -> PCs]
    BY <1>4 DEF SealInv, TypeOK, Refusals, PCs
  <2>3. /\ keyLock' \in [Keys -> Calls \cup {None}]
        /\ seriesLock' \in [Series -> Calls \cup {None}]
        /\ externalLock' \in [ExternalIDs -> Calls \cup {None}]
        /\ writer' \in Calls \cup {None}
    BY <1>4 DEF SealInv, TypeOK, ReleaseLocks, Without
  <2>q. QED
    BY <1>4, <2>1, <2>2, <2>3 DEF SealInv, TypeOK
<1>6. ASSUME NEW d \in Calls, d # c, pc[d] \in RunPCs PROVE Key(d) # Key(c) /\ Key(d) \in Keys
  BY <1>1, <1>6 DEF SealInv, HoldsKey, Begun, Requests, Key, RunPCs
<1>7. ASSUME NEW d \in Calls, d # c, pc[d] \in NumberPCs
      PROVE  SeriesOf(d) # SeriesOf(c) /\ SeriesOf(d) \in Series
  BY <1>1, <1>7 DEF SealInv, HoldsNumber, Begun, Requests, SeriesOf, NumberPCs
<1>8. ASSUME NEW d \in Calls PROVE (Begun(d) /\ HoldsKey(d) /\ HoldsNumber(d) /\ AnswerSound(d))'
  <2>1. CASE d = c
    <3>1. (Begun(d) /\ HoldsKey(d) /\ HoldsNumber(d))'
      BY <1>1, <1>4, <2>1 DEF SealInv, TypeOK, Begun, HoldsKey, HoldsNumber, RunPCs, NumberPCs
    <3>2. AnswerSound(d)'
      BY <1>1, <1>2, <1>3, <1>4, <2>1, SealDistinct
      DEF SealInv, TypeOK, AnswerSound, SameRequest, Key, Intent, SeriesOf, Refusals, rec,
          CompletedRecord
    <3>q. QED
      BY <3>1, <3>2
  <2>2. CASE d # c
    <3>0. pc'[d] = pc[d] /\ answer'[d] = answer[d] /\ documents'[d] = documents[d]
      BY <1>4, <2>2 DEF SealInv, TypeOK
    <3>1. Begun(d)'
      BY <1>4, <3>0 DEF SealInv, Begun
    <3>2. HoldsKey(d)'
      BY <1>2, <1>4, <1>6, <2>2, <3>0
      DEF SealInv, TypeOK, HoldsKey, ReleaseLocks, Without, Key
    <3>3. HoldsNumber(d)'
      BY <1>2, <1>4, <1>7, <2>2, <3>0
      DEF SealInv, TypeOK, HoldsNumber, ReleaseLocks, Without, SeriesOf
    <3>4. AnswerSound(d)'
      <4>1. ASSUME answer[d] \in Calls
            PROVE  Key(d) # Key(c)
        BY <1>1, <4>1 DEF SealInv, AnswerSound
      <4>q. QED
        BY <1>2, <1>4, <3>0, <4>1 DEF SealInv, TypeOK, AnswerSound, SameRequest, Key, Intent,
           SeriesOf
    <3>q. QED
      BY <3>1, <3>2, <3>3, <3>4
  <2>q. QED
    BY <2>1, <2>2
<1>9. ASSUME NEW k \in Keys PROVE RecordSound(k)'
  <2>1. CASE k = Key(c)
    BY <1>2, <1>3, <1>4, <2>1 DEF SealInv, TypeOK, RecordSound, row, rec, CompletedRecord
  <2>2. CASE k # Key(c)
    <3>1. records'[k] = records[k]
      BY <1>4, <2>2 DEF SealInv, TypeOK
    <3>2. records[k] # None => records[k].document \in Calls /\ records[k].document # c
      BY <1>1 DEF SealInv, TypeOK, RecordSound, RecordRows
    <3>q. QED
      BY <1>4, <3>1, <3>2 DEF SealInv, TypeOK, RecordSound
  <2>q. QED
    BY <2>1, <2>2
<1>10. ASSUME NEW s \in Series
       PROVE  /\ {documents[d].seq : d \in InSeries(s)}' = 1..lastSeq'[s]
              /\ (\A d, e \in InSeries(s) : documents[d].seq = documents[e].seq => d = e)'
  <2>0. /\ {documents[d].seq : d \in InSeries(s)} = 1..lastSeq[s]
        /\ \A d, e \in InSeries(s) : documents[d].seq = documents[e].seq => d = e
        /\ lastSeq[s] \in Nat
    BY DEF SealInv, TypeOK, ContinuousNumbering
  <2>a. \A d \in Calls : d # c => documents'[d] = documents[d]
    BY <1>4 DEF SealInv, TypeOK
  <2>b. documents'[c] = row /\ row.series = SeriesOf(c) /\ row.seq = seq[c] /\ c \notin InSeries(s)
    BY <1>1, <1>4 DEF SealInv, TypeOK, row, InSeries, Sealed
  <2>1. CASE s # SeriesOf(c)
    <3>1. InSeries(s)' = InSeries(s)
      BY <1>3, <2>1, <2>a, <2>b DEF InSeries, Sealed
    <3>2. \A d \in InSeries(s) : documents'[d] = documents[d]
      BY <2>a, <2>b DEF InSeries, Sealed
    <3>3. lastSeq'[s] = lastSeq[s]
      BY <1>4, <2>1 DEF SealInv, TypeOK
    <3>q. QED
      BY <2>0, <3>1, <3>2, <3>3
  <2>2. CASE s = SeriesOf(c)
    <3>1. InSeries(s)' = InSeries(s) \cup {c}
      BY <1>3, <2>2, <2>a, <2>b DEF InSeries, Sealed
    <3>2. \A d \in InSeries(s) : documents'[d] = documents[d]
      BY <2>a, <2>b DEF InSeries, Sealed
    <3>3. lastSeq'[s] = lastSeq[s] + 1 /\ documents'[c].seq = lastSeq[s] + 1
      BY <1>1, <1>4, <2>2, <2>b DEF SealInv, TypeOK
    <3>4. {documents[d].seq : d \in InSeries(s)}' = 1..lastSeq[s] \cup {lastSeq[s] + 1}
      BY <2>0, <3>1, <3>2, <3>3
    <3>5. \A d \in InSeries(s) : documents[d].seq # lastSeq[s] + 1
      <4>1. \A d \in InSeries(s) : documents[d].seq \in 1..lastSeq[s]
        BY <2>0
      <4>q. QED
        BY <2>0, <4>1
    <3>6. (\A d, e \in InSeries(s) : documents[d].seq = documents[e].seq => d = e)'
      BY <2>0, <3>1, <3>2, <3>3, <3>5
    <3>7. 1..lastSeq[s] \cup {lastSeq[s] + 1} = 1..(lastSeq[s] + 1)
      BY <2>0
    <3>q. QED
      BY <3>3, <3>4, <3>6, <3>7
  <2>q. QED
    BY <2>1, <2>2
<1>11. ContinuousNumbering'
  BY <1>10 DEF ContinuousNumbering
<1>q. QED
  BY <1>5, <1>8, <1>9, <1>11 DEF SealInv

------------------------------------------------------------------------------
(* SealInv is inductive: one step per statement of the transaction.        *)
LEMMA SealStep == SealInv /\ [Next]_vars => SealInv'
<1> SUFFICES ASSUME SealInv, [Next]_vars PROVE SealInv'
  OBVIOUS
<1>1. CASE UNCHANGED vars
  <2>1. UNCHANGED <<request, pc, seq, answer>> /\ UNCHANGED tables /\ UNCHANGED locks
    BY <1>1 DEF vars
  <2>2. TypeOK'
    BY <2>1 DEF SealInv, TypeOK, tables, locks
  <2>3. (\A c \in Calls : Begun(c) /\ HoldsKey(c) /\ HoldsNumber(c) /\ AnswerSound(c))'
    BY <2>1 DEF SealInv, Begun, HoldsKey, HoldsNumber, AnswerSound, SameRequest, Key, SeriesOf,
       Intent, tables, locks
  <2>q. QED
    BY <2>1, <2>2, <2>3, TablesFrame DEF SealInv
<1>2. ASSUME NEW c \in Calls, NEW r \in Requests, Post(c, r) PROVE SealInv'
  BY <1>2, PostStep
<1>3. ASSUME NEW c \in Calls, OwnKey(c) \/ NextFiscalSeq(c) PROVE SealInv'
  BY <1>3, MoveStep
<1>4. ASSUME NEW c \in Calls, KeyConflict(c) PROVE SealInv'
  BY <1>4, RollbackStep DEF KeyConflict, KeyAvailable, Refusals
<1>5. ASSUME NEW c \in Calls, Replay(c) PROVE SealInv'
  BY <1>5, ReplayStep
<1>6. ASSUME NEW c \in Calls, CheckExternal(c) PROVE SealInv'
  <2>1. pc[c] \notin {"idle", "done"} /\ "external_id_conflict" \in Refusals
    BY <1>6 DEF CheckExternal, Refusals
  <2>2. Rollback(c, "external_id_conflict") \/ Goto(c, "series")
    BY <1>6 DEF CheckExternal
  <2>3. Goto(c, "series") => pc'[c] = "series"
    BY DEF Goto, SealInv, TypeOK
  <2>q. QED
    BY <1>6, <2>1, <2>2, <2>3, RollbackStep, MoveStep
<1>7. ASSUME NEW c \in Calls, InsertDocument(c) PROVE SealInv'
  <2>1. pc[c] \notin {"idle", "done"} /\ {"external_id_conflict", "error"} \subseteq Refusals
    BY <1>7 DEF InsertDocument, Refusals
  <2>2. (\E a \in Refusals : Rollback(c, a)) \/ Goto(c, "commit")
    BY <1>7, <2>1 DEF InsertDocument
  <2>3. Goto(c, "commit") => pc'[c] = "commit"
    BY DEF Goto, SealInv, TypeOK
  <2>q. QED
    BY <1>7, <2>1, <2>2, <2>3, RollbackStep, MoveStep
<1>8. ASSUME NEW c \in Calls, Commit(c) PROVE SealInv'
  BY <1>8, CommitStep
<1>9. ASSUME NEW c \in Calls, Fails(c) PROVE SealInv'
  BY <1>9, RollbackStep DEF Fails, Refusals
<1>q. QED
  BY <1>1, <1>2, <1>3, <1>4, <1>5, <1>6, <1>7, <1>8, <1>9 DEF Next, Proceed

(* SealInv holds of every reachable state of SealInTx's transactions.      *)
LEMMA SealInvHolds == Spec => []SealInv
  BY SealInit, SealStep, PTL DEF Spec

(* Requests, tables and locks of SealInTx stay well typed.                 *)
THEOREM SealTypeCorrect == Spec => []TypeOK
<1>1. SealInv => TypeOK
  BY DEF SealInv
<1>q. QED
  BY <1>1, SealInvHolds, PTL

(* The committed documents of every series carry exactly 1..last_seq, each *)
(* number once, for any calls and rollbacks, in both dialects: what        *)
(* nextFiscalSeq hands out is never skipped and never reused.              *)
THEOREM NumberingContinuous == Spec => []ContinuousNumbering
<1>1. SealInv => ContinuousNumbering
  BY DEF SealInv
<1>q. QED
  BY <1>1, SealInvHolds, PTL

(* However many retries of an Idempotency-Key race, and whichever answers  *)
(* were lost, resolveIdempotency lets all that succeed return one          *)
(* document, with the intent and series they asked for.                    *)
THEOREM AnswersConsistent == Spec => []AnswersAgree
<1>1. SealInv => AnswersAgree
  <2> SUFFICES ASSUME SealInv, NEW c \in Calls, answer[c] \in Calls
      PROVE  /\ answer[c] \in Sealed
             /\ documents[answer[c]].intent = Intent(c)
             /\ documents[answer[c]].series = SeriesOf(c)
             /\ \A d \in Calls : answer[d] \in Calls /\ Key(d) = Key(c) => answer[d] = answer[c]
    BY DEF AnswersAgree
  <2>1. AnswerSound(c) /\ pc[c] = "done" /\ request[c] \in Requests /\ Key(c) \in Keys
    BY DEF SealInv, AnswerSound, Begun, Requests, Key
  <2>2. RecordSound(Key(c))
    BY <2>1 DEF SealInv
  <2>3. \A d \in Calls : answer[d] \in Calls => answer[d] = records[Key(d)].document
    BY DEF SealInv, AnswerSound
  <2>q. QED
    BY <2>1, <2>2, <2>3 DEF AnswerSound, RecordSound, SameRequest, Sealed
<1>q. QED
  BY <1>1, SealInvHolds, PTL

------------------------------------------------------------------------------
(* The refinement of SealContract needs more of the state than the two     *)
(* safety properties: a call asks once, holds its external id from the     *)
(* INSERT to the COMMIT, and records and documents name each other.        *)

AsksOnce(c) == pc[c] = "idle" => request[c] = None
HoldsExternal(c) == pc[c] = "commit" => externalLock[External(c)] = c /\ ~ExternalTaken(c)
HasKey(d) == d \in Sealed => \E k \in Keys : records[k] # None /\ records[k].document = d
OwnDocument(k) ==
  \A j \in Keys :
    records[j] # None /\ records[k] # None /\ records[j].document = records[k].document => j = k

BookInv ==
  /\ \A c \in Calls : AsksOnce(c) /\ HoldsExternal(c) /\ HasKey(c)
  /\ \A k \in Keys : OwnDocument(k)

(* No call has asked and nothing is recorded at the start.                 *)
LEMMA BookInit == Init => BookInv
  BY DEF Init, BookInv, AsksOnce, HoldsExternal, HasKey, OwnDocument, Sealed

(* Only COMMIT changes the tables, only a new call its request.            *)
LEMMA TablesMove ==
  ASSUME [Next]_vars
  PROVE  \/ UNCHANGED tables
         \/ \E c \in Calls : Commit(c)
  BY DEF Next, vars, Post, Proceed, OwnKey, KeyConflict, Replay, CheckExternal, NextFiscalSeq,
         InsertDocument, Fails, Rollback, tables

LEMMA RequestsMove ==
  ASSUME SealInv, [Next]_vars
  PROVE  \/ request' = request
         \/ \E c \in Calls, r \in Requests : Post(c, r)
  BY DEF Next, vars, Proceed, OwnKey, KeyConflict, Replay, CheckExternal, NextFiscalSeq,
         InsertDocument, Commit, Fails, Rollback

(* A commit writes its document, its record and its number.                *)
LEMMA CommitWrites ==
  ASSUME SealInv, BookInv, NEW c \in Calls, Commit(c)
  PROVE  /\ request[c] \in Requests /\ Key(c) \in Keys /\ SeriesOf(c) \in Series
         /\ documents[c] = None /\ answer[c] = None /\ records[Key(c)] = None
         /\ seq[c] = lastSeq[SeriesOf(c)] + 1 /\ ~ExternalTaken(c)
         /\ documents'[c] # None
         /\ documents'[c].intent = Intent(c)
         /\ documents'[c].series = SeriesOf(c)
         /\ documents'[c].seq = seq[c]
         /\ \A d \in Calls \ {c} : documents'[d] = documents[d]
         /\ records'[Key(c)] # None
         /\ records'[Key(c)].document = c
         /\ \A k \in Keys \ {Key(c)} : records'[k] = records[k]
         /\ lastSeq'[SeriesOf(c)] = seq[c]
         /\ \A s \in Series \ {SeriesOf(c)} : lastSeq'[s] = lastSeq[s]
         /\ request' = request /\ pc[c] = "commit"
<1> DEFINE row == [intent |-> Intent(c), series |-> SeriesOf(c), seq |-> seq[c]]
           rec == CompletedRecord(c)
<1>1. /\ pc[c] = "commit" /\ request[c] \in Requests
      /\ documents[c] = None /\ answer[c] = None /\ records[Key(c)] = None
      /\ seq[c] = lastSeq[SeriesOf(c)] + 1 /\ ~ExternalTaken(c)
  BY DEF Commit, SealInv, BookInv, Begun, HoldsKey, HoldsNumber, HoldsExternal, RunPCs, NumberPCs
<1>2. Key(c) \in Keys /\ SeriesOf(c) \in Series /\ Intent(c) \in Intents /\ seq[c] \in Nat
  BY <1>1 DEF Requests, Key, SeriesOf, Intent, SealInv, TypeOK
<1>3. /\ row # None /\ row.intent = Intent(c) /\ row.series = SeriesOf(c) /\ row.seq = seq[c]
      /\ rec # None /\ rec.document = c
  <2>1. row \in DocumentRows /\ rec \in RecordRows
    BY <1>2 DEF DocumentRows, RecordRows, CompletedRecord
  <2>q. QED
    BY <2>1, SealDistinct DEF CompletedRecord
<1>4. /\ documents' = [documents EXCEPT ![c] = row]
      /\ records' = [records EXCEPT ![Key(c)] = rec]
      /\ lastSeq' = [lastSeq EXCEPT ![SeriesOf(c)] = seq[c]]
      /\ request' = request
  BY DEF Commit
<1> HIDE DEF row, rec
<1>5. documents'[c] = row /\ \A d \in Calls \ {c} : documents'[d] = documents[d]
  BY <1>4 DEF SealInv, TypeOK
<1>6. records'[Key(c)] = rec /\ \A k \in Keys \ {Key(c)} : records'[k] = records[k]
  BY <1>2, <1>4 DEF SealInv, TypeOK
<1>7. lastSeq'[SeriesOf(c)] = seq[c] /\ \A s \in Series \ {SeriesOf(c)} : lastSeq'[s] = lastSeq[s]
  BY <1>2, <1>4 DEF SealInv, TypeOK
<1>q. QED
  BY <1>1, <1>2, <1>3, <1>4, <1>5, <1>6, <1>7

(* A call that has asked does not become idle again.                       *)
LEMMA AsksOnceStep ==
  ASSUME SealInv, BookInv, [Next]_vars, NEW d \in Calls
  PROVE  AsksOnce(d)'
<1>1. pc'[d] = "idle" => pc[d] = "idle"
  BY DEF SealInv, TypeOK, Next, vars, Post, Proceed, OwnKey, KeyConflict, Replay, CheckExternal,
         NextFiscalSeq, InsertDocument, Commit, Fails, Rollback, Return, Goto
<1>2. ASSUME NEW c \in Calls, NEW r \in Requests, Post(c, r), pc'[d] = "idle"
      PROVE  request'[d] = request[d]
  BY <1>2 DEF Post, Goto, SealInv, TypeOK
<1>q. QED
  BY <1>1, <1>2, RequestsMove DEF BookInv, AsksOnce

(* The external id of a document about to be committed stays its own.      *)
LEMMA HoldsExternalStep ==
  ASSUME SealInv, BookInv, [Next]_vars, NEW d \in Calls
  PROVE  HoldsExternal(d)'
<1> SUFFICES ASSUME pc'[d] = "commit"
             PROVE  externalLock'[External(d)'] = d /\ ~ExternalTaken(d)'
  BY DEF HoldsExternal
<1> USE SealDistinct DEF SealInv, TypeOK
<1>1. request'[d] = request[d] /\ External(d)' = External(d)
  <2>1. ASSUME NEW c \in Calls, NEW r \in Requests, Post(c, r) PROVE request'[d] = request[d]
    BY <2>1 DEF Post, Goto
  <2>2. request'[d] = request[d]
    BY <2>1, RequestsMove
  <2>q. QED
    BY <2>2 DEF External, Intent
<1>2. CASE pc[d] # "commit"
  <2>1. InsertDocument(d)
    BY <1>2 DEF Next, vars, Post, Proceed, OwnKey, KeyConflict, Replay, CheckExternal,
         NextFiscalSeq, InsertDocument, Commit, Fails, Rollback, Return, Goto
  <2>2. /\ ~ExternalTaken(d) /\ UNCHANGED tables
        /\ externalLock' = [externalLock EXCEPT ![External(d)] = d]
    BY <2>1 DEF InsertDocument, Rollback, Return, Goto
  <2>3. External(d) \in ExternalIDs
    BY <2>1, SealExternal DEF InsertDocument, Begun, Requests, External, Intent, ExternalIDs
  <2>q. QED
    BY <1>1, <2>2, <2>3 DEF ExternalTaken, Sealed, tables
<1>3. CASE pc[d] = "commit"
  <2>1. externalLock[External(d)] = d /\ ~ExternalTaken(d)
    BY <1>3 DEF BookInv, HoldsExternal
  <2>2. External(d) \in ExternalIDs
    BY <1>3, SealExternal DEF Begun, Requests, External, Intent, ExternalIDs
  <2>3. ASSUME NEW c \in Calls, ReleaseLocks(c), pc'[c] = "done"
        PROVE  externalLock'[External(d)] = d
    BY <2>1, <2>2, <2>3 DEF ReleaseLocks, Without
  <2>4. ASSUME NEW c \in Calls, InsertDocument(c), ~ReleaseLocks(c)
        PROVE  externalLock'[External(d)] = d
    BY <2>1, <2>2, <2>4 DEF InsertDocument, Rollback, Return
  <2>5. externalLock'[External(d)] = d
    <3>1. ASSUME NEW c \in Calls, Proceed(c) \/ Fails(c), ~InsertDocument(c)
          PROVE  externalLock' = externalLock \/ (ReleaseLocks(c) /\ pc'[c] = "done")
      BY <3>1 DEF Proceed, OwnKey, KeyConflict, Replay, CheckExternal, NextFiscalSeq, Commit,
                  Fails, Rollback, Return, Goto, locks
    <3>2. ASSUME NEW c \in Calls, InsertDocument(c), ReleaseLocks(c)
          PROVE  externalLock'[External(d)] = d
      BY <2>1, <2>2, <3>2 DEF InsertDocument, ReleaseLocks, Without, Rollback, Return, Goto
    <3>3. ASSUME NEW c \in Calls, NEW r \in Requests, Post(c, r) PROVE externalLock' = externalLock
      BY <3>3 DEF Post, locks
    <3>4. UNCHANGED vars => externalLock' = externalLock
      BY DEF vars, locks
    <3> HIDE DEF SealInv
    <3>q. QED
      BY <2>1, <2>3, <2>4, <3>1, <3>2, <3>3, <3>4 DEF Next
  <2>6. ~ExternalTaken(d)'
    <3>1. CASE UNCHANGED tables
      BY <1>1, <2>1, <3>1 DEF ExternalTaken, Sealed, tables
    <3>2. ASSUME NEW c \in Calls, Commit(c) PROVE ~ExternalTaken(d)'
      <4>1. c # d
        BY <3>2 DEF Commit, Return, Goto
      <4>2. External(c) # External(d)
        BY <2>1, <3>2, <4>1 DEF Commit, BookInv, HoldsExternal
      <4>3. /\ documents'[c].intent = Intent(c)
            /\ \A e \in Calls \ {c} : documents'[e] = documents[e]
        BY <3>2, CommitWrites
      <4> HIDE DEF SealInv
      <4>q. QED
        BY <1>1, <2>1, <4>2, <4>3 DEF ExternalTaken, Sealed, External
    <3> HIDE DEF SealInv
    <3>q. QED
      BY <3>1, <3>2, TablesMove
  <2>q. QED
    BY <1>1, <2>5, <2>6
<1>q. QED
  BY <1>2, <1>3

(* A commit gives its document its key, and no key two documents.          *)
LEMMA RecordsStep ==
  ASSUME SealInv, BookInv, [Next]_vars
  PROVE  (\A d \in Calls : HasKey(d))' /\ (\A k \in Keys : OwnDocument(k))'
<1>1. CASE UNCHANGED tables
  BY <1>1 DEF BookInv, HasKey, OwnDocument, Sealed, tables
<1>2. ASSUME NEW c \in Calls, Commit(c)
      PROVE  (\A d \in Calls : HasKey(d))' /\ (\A k \in Keys : OwnDocument(k))'
  <2>1. /\ Key(c) \in Keys /\ documents[c] = None /\ records[Key(c)] = None
        /\ \A d \in Calls \ {c} : documents'[d] = documents[d]
        /\ records'[Key(c)] # None /\ records'[Key(c)].document = c
        /\ \A k \in Keys \ {Key(c)} : records'[k] = records[k]
    BY <1>2, CommitWrites
  <2>2. \A k \in Keys : records[k] # None => records[k].document # c
    BY <2>1 DEF SealInv, RecordSound
  <2>3. ASSUME NEW d \in Calls PROVE HasKey(d)'
    <3>1. CASE d = c
      BY <2>1, <3>1 DEF HasKey
    <3>2. CASE d # c
      <4>1. d \in Sealed' => d \in Sealed
        BY <2>1, <3>2 DEF Sealed
      <4>2. HasKey(d)
        BY DEF BookInv
      <4>q. QED
        BY <2>1, <4>1, <4>2 DEF HasKey
    <3>q. QED
      BY <3>1, <3>2
  <2>4. ASSUME NEW k \in Keys, NEW j \in Keys, records'[j] # None, records'[k] # None,
               records'[j].document = records'[k].document
        PROVE  j = k
    <3>1. CASE j = Key(c) \/ k = Key(c)
      BY <2>1, <2>2, <2>4, <3>1
    <3>2. CASE j # Key(c) /\ k # Key(c)
      BY <2>1, <2>4, <3>2 DEF BookInv, OwnDocument
    <3>q. QED
      BY <3>1, <3>2
  <2>q. QED
    BY <2>3, <2>4 DEF OwnDocument
<1>q. QED
  BY <1>1, <1>2, TablesMove

BookSafe == SealInv /\ BookInv

(* The invariant of the refinement holds in every reachable state.         *)
LEMMA BookSafeHolds == Spec => []BookSafe
<1>1. SealInv /\ BookInv /\ [Next]_vars => BookInv'
  BY AsksOnceStep, HoldsExternalStep, RecordsStep DEF BookInv
<1>q. QED
  BY BookInit, SealInvHolds, <1>1, PTL DEF Spec, BookSafe

(* A committed document is the one at its number, and its key the one      *)
(* whose record names it: the choices the book is read with are forced.    *)
Indexed ==
  /\ \A s \in Series : \A d \in InSeries(s) : DocumentAt(s, documents[d].seq) = d
  /\ \A s \in Series : \A n \in 1..lastSeq[s] :
       DocumentAt(s, n) \in InSeries(s) /\ documents[DocumentAt(s, n)].seq = n
  /\ \A k \in Keys : records[k] # None => KeyOf(records[k].document) = k
  /\ \A d \in Sealed :
       KeyOf(d) \in Keys /\ records[KeyOf(d)] # None /\ records[KeyOf(d)].document = d

LEMMA BookIndexed == BookSafe => Indexed
<1> SUFFICES ASSUME BookSafe PROVE Indexed
  OBVIOUS
<1>1. ASSUME NEW s \in Series, NEW d \in InSeries(s)
      PROVE  DocumentAt(s, documents[d].seq) = d
  <2>1. \A e \in InSeries(s) : documents[d].seq = documents[e].seq => d = e
    BY DEF BookSafe, SealInv, ContinuousNumbering
  <2>2. d \in Sealed /\ documents[d].series = s
    BY DEF InSeries
  <2>3. \A e \in Sealed : documents[e].series = s /\ documents[e].seq = documents[d].seq => e = d
    BY <2>1 DEF InSeries
  <2>q. QED
    BY <2>2, <2>3 DEF DocumentAt
<1>2. ASSUME NEW s \in Series, NEW n \in 1..lastSeq[s]
      PROVE  DocumentAt(s, n) \in InSeries(s) /\ documents[DocumentAt(s, n)].seq = n
  <2>1. \E d \in InSeries(s) : documents[d].seq = n
    BY DEF BookSafe, SealInv, ContinuousNumbering
  <2>q. QED
    BY <1>1, <2>1
<1>3. ASSUME NEW k \in Keys, records[k] # None PROVE KeyOf(records[k].document) = k
  <2>1. \A j \in Keys : records[j] # None /\ records[j].document = records[k].document => j = k
    BY <1>3 DEF BookSafe, BookInv, OwnDocument
  <2>q. QED
    BY <1>3, <2>1 DEF KeyOf
<1>4. ASSUME NEW d \in Sealed
      PROVE  KeyOf(d) \in Keys /\ records[KeyOf(d)] # None /\ records[KeyOf(d)].document = d
  <2>1. \E k \in Keys : records[k] # None /\ records[k].document = d
    BY DEF BookSafe, BookInv, HasKey, Sealed
  <2>q. QED
    BY <2>1 DEF KeyOf
<1>q. QED
  BY <1>1, <1>2, <1>3, <1>4 DEF Indexed

(* A page is a sequence as long as its series' counter.                    *)
LEMMA PageLength ==
  ASSUME TypeOK, NEW s \in Series
  PROVE  Len(Page(s)) = lastSeq[s] /\ lastSeq[s] \in Nat
<1>1. lastSeq[s] \in Nat
  BY DEF TypeOK
<1>q. QED
  BY <1>1 DEF Page

(* Appending to a page, element by element.                                *)
LEMMA PageAppend ==
  ASSUME TypeOK, NEW s \in Series, NEW e
  PROVE  Append(Page(s), e) = [n \in 1..(lastSeq[s] + 1) |->
                                 IF n = lastSeq[s] + 1 THEN e ELSE Entry(s, n)]
<1>1. lastSeq[s] \in Nat
  BY DEF TypeOK
<1>q. QED
  BY <1>1, PageLength DEF Page

(* A commit appends its own entry to its page and changes no other.        *)
LEMMA CommitAppends ==
  ASSUME BookSafe, BookSafe', Indexed, Indexed', NEW c \in Calls, Commit(c)
  PROVE  Book' = [Book EXCEPT ![SeriesOf(c)] =
                    Append(@, [key |-> Key(c), intent |-> Intent(c)])]
<1>0. SealInv /\ BookInv /\ TypeOK /\ TypeOK'
  BY DEF BookSafe, SealInv
<1>1. /\ Key(c) \in Keys /\ SeriesOf(c) \in Series
      /\ documents[c] = None /\ records[Key(c)] = None
      /\ seq[c] = lastSeq[SeriesOf(c)] + 1
      /\ documents'[c] # None
      /\ documents'[c].intent = Intent(c)
      /\ documents'[c].series = SeriesOf(c)
      /\ documents'[c].seq = seq[c]
      /\ \A d \in Calls \ {c} : documents'[d] = documents[d]
      /\ records'[Key(c)] # None
      /\ records'[Key(c)].document = c
      /\ \A k \in Keys \ {Key(c)} : records'[k] = records[k]
      /\ lastSeq'[SeriesOf(c)] = seq[c]
      /\ \A s \in Series \ {SeriesOf(c)} : lastSeq'[s] = lastSeq[s]
  BY <1>0, CommitWrites
<1>2. ASSUME NEW s \in Series, NEW n \in 1..lastSeq[s]
      PROVE  Entry(s, n)' = Entry(s, n)
  <2> DEFINE d == DocumentAt(s, n)
  <2>1. PICK e \in InSeries(s) : e = d /\ documents[e].seq = n
    BY DEF Indexed
  <2>2. e \in Calls /\ e # c /\ documents'[e] = documents[e] /\ e \in Sealed
    BY <1>1, <2>1 DEF InSeries, Sealed
  <2>3. e \in InSeries(s)'
    BY <2>1, <2>2 DEF InSeries, Sealed
  <2>4. DocumentAt(s, n)' = e
    BY <2>1, <2>2, <2>3 DEF Indexed
  <2>5. PICK k \in Keys : k = KeyOf(e) /\ records[k] # None /\ records[k].document = e
    BY <2>2 DEF Indexed
  <2>6. k # Key(c) /\ records'[k] = records[k]
    BY <1>1, <2>5
  <2>7. KeyOf(e)' = k
    BY <2>5, <2>6 DEF Indexed
  <2>q. QED
    BY <2>1, <2>2, <2>4, <2>5, <2>7 DEF Entry
<1>3. PICK t \in Series, m \in Nat : t = SeriesOf(c) /\ m = lastSeq[t]
  BY <1>0, <1>1 DEF TypeOK
<1>4. Entry(t, m + 1)' = [key |-> Key(c), intent |-> Intent(c)]
  <2>1. c \in InSeries(t)' /\ documents'[c].seq = m + 1
    BY <1>1, <1>3 DEF InSeries, Sealed
  <2>2. DocumentAt(t, m + 1)' = c
    BY <2>1 DEF Indexed
  <2>3. PICK k \in Keys : k = Key(c)
    BY <1>1
  <2>4. KeyOf(c)' = k
    BY <1>1, <2>3 DEF Indexed
  <2>q. QED
    BY <1>1, <2>2, <2>3, <2>4 DEF Entry
<1>5. ASSUME NEW s \in Series, s # t PROVE Page(s)' = Page(s)
  <2>1. lastSeq'[s] = lastSeq[s]
    BY <1>1, <1>3, <1>5
  <2>q. QED
    BY <1>2, <2>1 DEF Page
<1>6. Page(t)' = Append(Page(t), [key |-> Key(c), intent |-> Intent(c)])
  <2>1. lastSeq'[t] = m + 1
    BY <1>1, <1>3
  <2>2. ASSUME NEW n \in 1..(m + 1), n # m + 1 PROVE Entry(t, n)' = Entry(t, n)
    <3>1. n \in 1..lastSeq[t]
      BY <1>3, <2>2
    <3>q. QED
      BY <1>2, <3>1
  <2>3. Page(t)' = [n \in 1..(m + 1) |->
                      IF n = m + 1 THEN [key |-> Key(c), intent |-> Intent(c)] ELSE Entry(t, n)]
    BY <1>4, <2>1, <2>2 DEF Page
  <2> DEFINE e == [key |-> Key(c), intent |-> Intent(c)]
  <2> HIDE DEF e
  <2>4. Append(Page(t), e) = [n \in 1..(lastSeq[t] + 1) |->
                                IF n = lastSeq[t] + 1 THEN e ELSE Entry(t, n)]
    BY <1>0, PageAppend
  <2>5. Append(Page(t), e) = [n \in 1..(m + 1) |-> IF n = m + 1 THEN e ELSE Entry(t, n)]
    BY <1>3, <2>4
  <2>q. QED
    BY <2>3, <2>5 DEF e
<1>q. QED
  BY <1>3, <1>5, <1>6 DEF Book

(* The answers already given still name the same entries.                  *)
LEMMA RepliesKept ==
  ASSUME BookSafe, [Next]_vars, NEW d \in Calls, answer[d] \in Calls
  PROVE  documents'[answer[d]] = documents[answer[d]]
<1>1. answer[d] \in Sealed
  <2>1. AnswerSound(d) /\ Begun(d)
    BY DEF BookSafe, SealInv
  <2>2. Key(d) \in Keys
    BY <2>1 DEF AnswerSound, Begun, Requests, Key
  <2>3. RecordSound(Key(d))
    BY <2>2 DEF BookSafe, SealInv
  <2>q. QED
    BY <2>1, <2>3 DEF AnswerSound, RecordSound, Sealed
<1>2. ASSUME NEW c \in Calls, Commit(c)
      PROVE  documents'[answer[d]] = documents[answer[d]]
  <2>1. documents[c] = None /\ \A e \in Calls \ {c} : documents'[e] = documents[e]
    BY <1>2, CommitWrites DEF BookSafe
  <2>q. QED
    BY <1>1, <2>1 DEF Sealed
<1>q. QED
  BY <1>2, TablesMove DEF tables

(* Reply changes only at the call whose answer changes.                    *)
LEMMA ReplyFrame ==
  ASSUME BookSafe, [Next]_vars, NEW c \in Calls, NEW a,
         answer' = [answer EXCEPT ![c] = a], answer[c] = None
  PROVE  Reply' = [Reply EXCEPT ![c] =
                     IF a \in Calls
                     THEN [series |-> documents'[a].series, seq |-> documents'[a].seq]
                     ELSE None]
<1>1. \A d \in Calls : answer'[d] = IF d = c THEN a ELSE answer[d]
  BY DEF BookSafe, SealInv, TypeOK
<1>2. \A d \in Calls : answer[d] \in Calls => documents'[answer[d]] = documents[answer[d]]
  BY RepliesKept
<1>3. \A d \in Calls \ {c} : Reply'[d] = Reply[d]
  BY <1>1, <1>2 DEF Reply
<1>4. Reply'[c] = IF a \in Calls
                  THEN [series |-> documents'[a].series, seq |-> documents'[a].seq]
                  ELSE None
  BY <1>1 DEF Reply
<1>5. Reply = [d \in Calls |-> Reply[d]] /\ Reply' = [d \in Calls |-> Reply'[d]]
  BY DEF Reply
<1>q. QED
  BY <1>3, <1>4, <1>5

(* No entry of the book has the key or the external id of a document about *)
(* to be committed.                                                        *)
LEMMA CommitFresh ==
  ASSUME BookSafe, Indexed, NEW c \in Calls, Commit(c), NEW e \in Contract!Booked
  PROVE  e.key # Key(c) /\ ExternalID[e.intent] # External(c)
<1>1. PICK s \in Series : \E n \in 1..lastSeq[s] : e = Entry(s, n)
  <2>1. PICK s \in Series : e \in Contract!Entries(s)
    BY DEF Contract!Booked
  <2>2. Book[s] = Page(s) /\ Len(Page(s)) = lastSeq[s]
    BY PageLength DEF Book, BookSafe, SealInv
  <2>3. PICK n \in 1..lastSeq[s] : e = Page(s)[n]
    BY <2>1, <2>2 DEF Contract!Entries
  <2>q. QED
    BY <2>3 DEF Page
<1>2. PICK n \in 1..lastSeq[s] : e = Entry(s, n)
  BY <1>1
<1>3. PICK d \in Sealed : d = DocumentAt(s, n)
  BY DEF Indexed, InSeries
<1>4. e.key = KeyOf(d) /\ e.intent = documents[d].intent /\ records[KeyOf(d)] # None
  BY <1>2, <1>3 DEF Entry, Indexed
<1>5. records[Key(c)] = None /\ ~ExternalTaken(c)
  BY CommitWrites DEF BookSafe
<1>q. QED
  BY <1>3, <1>4, <1>5 DEF ExternalTaken

(* COMMIT is the contract's Seal, whether or not its caller hears of it.   *)
LEMMA CommitSeals ==
  ASSUME BookSafe, BookSafe', Indexed, Indexed', [Next]_vars, NEW c \in Calls, Commit(c)
  PROVE  Contract!Next
<1>0. Calls \cap (Refusals \cup {None}) = {} /\ "error" \in Refusals /\ None \notin Requests
  BY SealDistinct DEF Refusals
<1>1. /\ request[c] \in Requests /\ SeriesOf(c) \in Series /\ answer[c] = None
      /\ seq[c] = lastSeq[SeriesOf(c)] + 1 /\ request' = request
      /\ documents'[c].series = SeriesOf(c) /\ documents'[c].seq = seq[c]
  BY CommitWrites DEF BookSafe
<1>2. Reply[c] = None /\ request[c] # None
  BY <1>0, <1>1 DEF Reply
<1>3. Len(Book[SeriesOf(c)]) + 1 = seq[c]
  BY <1>1, PageLength DEF Book, BookSafe, SealInv
<1>4. \A e \in Contract!Booked : e.key # Key(c) /\ ExternalID[e.intent] # External(c)
  BY CommitFresh
<1>5. Book' = [Book EXCEPT ![SeriesOf(c)] = Append(@, [key |-> Key(c), intent |-> Intent(c)])]
  BY CommitAppends
<1>6. CASE answer' = [answer EXCEPT ![c] = c]
  <2>1. Reply' = [Reply EXCEPT ![c] = [series |-> SeriesOf(c), seq |-> Len(Book[SeriesOf(c)]) + 1]]
    BY <1>1, <1>3, <1>6, ReplyFrame
  <2>2. Contract!Seal(c, TRUE)
    BY <1>1, <1>2, <1>4, <1>5, <2>1 DEF Contract!Seal, Key, Intent, SeriesOf, External
  <2>q. QED
    BY <2>2 DEF Contract!Next
<1>7. CASE answer' = [answer EXCEPT ![c] = "error"]
  <2>1. Reply' = [Reply EXCEPT ![c] = None]
    BY <1>0, <1>1, <1>7, ReplyFrame
  <2>2. Reply' = Reply
    BY <1>2, <2>1 DEF Reply
  <2>3. Contract!Seal(c, FALSE)
    BY <1>1, <1>2, <1>4, <1>5, <2>2 DEF Contract!Seal, Key, Intent, SeriesOf, External
  <2>q. QED
    BY <2>3 DEF Contract!Next
<1>q. QED
  BY <1>6, <1>7 DEF Commit, Return, Answer

(* A replay tells the caller of the entry of its own key and intent.       *)
LEMMA ReplayTells ==
  ASSUME BookSafe, Indexed, [Next]_vars, NEW c \in Calls, Replay(c)
  PROVE  Contract!Next
<1>0. Calls \cap (Refusals \cup {None}) = {} /\ None \notin Requests
  BY SealDistinct
<1>1. /\ request[c] \in Requests /\ SeriesOf(c) \in Series /\ Key(c) \in Keys
      /\ answer[c] = None /\ records[Key(c)] # None
      /\ records[Key(c)].intent = Intent(c) /\ records[Key(c)].series = SeriesOf(c)
      /\ UNCHANGED tables /\ request' = request
  BY DEF Replay, KeyAvailable, SameRequest, BookSafe, SealInv, Begun, Requests, Key, SeriesOf
<1>2. PICK d \in Calls : d = records[Key(c)].document
  BY <1>1 DEF BookSafe, SealInv, TypeOK, RecordRows
<1>3. /\ documents[d] # None /\ documents[d].intent = Intent(c)
      /\ documents[d].series = SeriesOf(c)
  BY <1>1, <1>2 DEF BookSafe, SealInv, RecordSound
<1>4. PICK n \in 1..lastSeq[SeriesOf(c)] : n = documents[d].seq
  <2>1. d \in InSeries(SeriesOf(c))
    BY <1>3 DEF InSeries, Sealed
  <2>q. QED
    BY <1>1, <2>1 DEF BookSafe, SealInv, ContinuousNumbering
<1>5. /\ Book[SeriesOf(c)][n] = [key |-> Key(c), intent |-> Intent(c)]
      /\ n \in 1..Len(Book[SeriesOf(c)])
  <2>1. DocumentAt(SeriesOf(c), n) = d
    BY <1>1, <1>3, <1>4 DEF Indexed, InSeries, Sealed
  <2>2. KeyOf(d) = Key(c)
    BY <1>1, <1>2 DEF Indexed
  <2>3. Entry(SeriesOf(c), n) = [key |-> Key(c), intent |-> Intent(c)]
    BY <1>3, <2>1, <2>2 DEF Entry
  <2>4. Book[SeriesOf(c)] = Page(SeriesOf(c)) /\ Len(Page(SeriesOf(c))) = lastSeq[SeriesOf(c)]
    BY <1>1, PageLength DEF Book, BookSafe, SealInv
  <2>5. Page(SeriesOf(c))[n] = Entry(SeriesOf(c), n)
    BY DEF Page
  <2>q. QED
    BY <2>3, <2>4, <2>5
<1>6. Reply' = [Reply EXCEPT ![c] = [series |-> SeriesOf(c), seq |-> n]]
  <2>1. answer' = [answer EXCEPT ![c] = d]
    BY <1>2 DEF Replay, Return, Answer
  <2>2. documents'[d] = documents[d]
    BY <1>1 DEF tables
  <2>q. QED
    BY <1>1, <1>3, <1>4, <2>1, <2>2, ReplyFrame
<1>7. Book' = Book
  BY <1>1 DEF tables, Book, Page, Entry, KeyOf, DocumentAt, Sealed
<1>8. Reply[c] = None /\ request[c] # None
  BY <1>0, <1>1 DEF Reply
<1>9. Contract!Replay(c)
  BY <1>1, <1>5, <1>6, <1>7, <1>8 DEF Contract!Replay, Key, Intent, SeriesOf
<1>q. QED
  BY <1>9 DEF Contract!Next

(* SealInTx implements SealContract, in both dialects: an arriving call    *)
(* maps to Ask, a COMMIT to Seal (told or not), a replay to Replay, and    *)
(* every other statement, refusal, rollback and crash to a stutter.  So a  *)
(* book has one entry per key and per external id, at the next number, and *)
(* a caller is told of the entry of its own key, intent and series.        *)
THEOREM ContractImplemented == Spec => ImplementsContract
<1>1. Init => Contract!Init
  <2> SUFFICES ASSUME Init PROVE Contract!Init
    OBVIOUS
  <2>1. \A s \in Series : Page(s) = <<>>
    BY DEF Init, Page
  <2>2. Reply = [c \in Calls |-> None]
    BY SealDistinct DEF Init, Reply
  <2>q. QED
    BY <2>1, <2>2 DEF Init, Contract!Init, Book
<1>2. ASSUME BookSafe, BookSafe', Indexed, Indexed', [Next]_vars
      PROVE  Contract!Next \/ UNCHANGED Contract!vars
  <2>0. SealInv /\ BookInv /\ TypeOK /\ TypeOK' /\ Calls \cap (Refusals \cup {None}) = {}
    BY <1>2, SealDistinct DEF BookSafe, SealInv
  <2>1. UNCHANGED tables => Book' = Book
    BY DEF tables, Book, Page, Entry, KeyOf, DocumentAt, Sealed
  <2>2. UNCHANGED tables /\ answer' = answer => Reply' = Reply
    BY DEF tables, Reply
  <2>3. ASSUME NEW c \in Calls, NEW r \in Requests, Post(c, r) PROVE Contract!Next
    <3>1. /\ request[c] = None /\ request' = [request EXCEPT ![c] = r]
          /\ UNCHANGED tables /\ answer' = answer
      BY <2>0, <2>3 DEF Post, BookInv, AsksOnce
    <3>2. Contract!Ask(c, r) /\ r \in Contract!Requests
      BY <2>1, <2>2, <3>1 DEF Contract!Ask, Contract!Requests, Requests
    <3>q. QED
      BY <3>2 DEF Contract!Next
  <2>4. ASSUME NEW c \in Calls, Commit(c) PROVE Contract!Next
    BY <1>2, <2>4, CommitSeals
  <2>5. ASSUME NEW c \in Calls, Replay(c) PROVE Contract!Next
    BY <1>2, <2>5, ReplayTells
  <2>6. ASSUME NEW c \in Calls, NEW a \in Refusals, Rollback(c, a), pc[c] # "done"
        PROVE  UNCHANGED Contract!vars
    <3>1. /\ answer[c] = None /\ answer' = [answer EXCEPT ![c] = a] /\ a \notin Calls
          /\ UNCHANGED tables /\ request' = request
      BY <2>0, <2>6 DEF Rollback, Return, Answer, SealInv, Begun
    <3>2. Reply' = [Reply EXCEPT ![c] = None] /\ Reply[c] = None
      BY <1>2, <2>0, <3>1, ReplyFrame DEF Reply
    <3>3. Reply' = Reply
      BY <3>2 DEF Reply
    <3>q. QED
      BY <2>1, <3>1, <3>3 DEF Contract!vars
  <2>7. ASSUME UNCHANGED tables, UNCHANGED <<request, answer>>
        PROVE  UNCHANGED Contract!vars
    BY <2>1, <2>2, <2>7 DEF Contract!vars
  <2>8. ASSUME NEW c \in Calls, Proceed(c) \/ Fails(c), ~Commit(c), ~Replay(c)
        PROVE  \/ UNCHANGED tables /\ UNCHANGED <<request, answer>>
               \/ pc[c] # "done" /\ \E a \in Refusals : Rollback(c, a)
    BY <2>8 DEF Proceed, Fails, OwnKey, KeyConflict, KeyAvailable, CheckExternal, NextFiscalSeq,
                InsertDocument, Refusals
  <2>9. CASE UNCHANGED vars
    BY <2>7, <2>9 DEF vars
  <2>q. QED
    BY <1>2, <2>3, <2>4, <2>5, <2>6, <2>7, <2>8, <2>9 DEF Next, Proceed
<1>q. QED
  BY <1>1, <1>2, BookSafeHolds, BookIndexed, PTL DEF Spec, ImplementsContract, Contract!Spec
==============================================================================
