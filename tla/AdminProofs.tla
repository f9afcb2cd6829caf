----------------------------- MODULE AdminProofs -----------------------------
(***************************************************************************)
(* The administrative side, for any registry, administrators, browsers,    *)
(* keys and durations: the life of a document series, the idempotency of   *)
(* queue actions, how long a withdrawn signing key is accepted and a new   *)
(* one refused, and what the UI's sessions are worth.  The four share no   *)
(* state.                                                                  *)
(***************************************************************************)
EXTENDS AdminRegistry, OpsActions, JwksCache, AdminSessions, FiniteSetTheorems, TLAPS

------------------------------------------------------------------------------
(* Document series (AdminRegistry).                                        *)

SeriesType ==
  [status : {"none", "draft", "active", "closed"}, version : Nat,
   type : PolicyTypes \cup {<<"none", "none">>}]

\* A call is a record of the fields of NewCall, whatever they hold.
CallShape(r) ==
  r = [pc |-> r.pc, key |-> r.key, to |-> r.to, version |-> r.version, est |-> r.est,
       groups |-> r.groups, types |-> r.types, result |-> r.result]

RegTypeOK ==
  /\ series \in [SeriesKeys -> SeriesType]
  /\ \A k \in SeriesKeys : series[k].status = "none" <=> series[k] = NoSeries
  /\ call = [c \in Calls |-> call[c]]
  /\ \A c \in Calls : CallShape(call[c])

\* A transition that has read its series names a version the series has had;
\* while the series still has it, the transition is allowed.
Pending(k, to, version) ==
  /\ k \in SeriesKeys /\ to \in {"active", "closed"} /\ version \in Nat
  /\ series[k].status # "none"
  /\ version <= series[k].version
  /\ version = series[k].version => validateSeriesTransition(series[k].status, to)

CallsSound ==
  \A c \in Calls : call[c].pc = "update" => Pending(call[c].key, call[c].to, call[c].version)

RInv == RegTypeOK /\ CallsSound /\ OneActivePerType

\* The transitions under way are the ones that were.
SameCalls ==
  /\ call' = [c \in Calls |-> call'[c]]
  /\ \A c \in Calls : CallShape(call'[c])
  /\ \A c \in Calls : call'[c].pc = "update" =>
       /\ call[c].pc = "update" /\ call'[c].key = call[c].key
       /\ call'[c].to = call[c].to /\ call'[c].version = call[c].version

\* There are no series and no calls at the start.
LEMMA RegInitInv == RegInit => RInv
<1> SUFFICES ASSUME RegInit PROVE RInv
  OBVIOUS
<1>1. CallShape(NewCall) /\ NewCall.pc = "new"
  BY DEF NewCall, CallShape
<1>2. RegTypeOK
  BY <1>1 DEF RegInit, RegTypeOK, SeriesType, NoSeries
<1>3. CallsSound /\ OneActivePerType
  BY <1>1 DEF RegInit, CallsSound, OneActivePerType, NoSeries
<1> QED BY <1>2, <1>3 DEF RInv

\* A step that leaves the series alone and begins no transition.
LEMMA QuietInv == ASSUME RInv, SameCalls, UNCHANGED series PROVE RInv'
  BY DEF RInv, RegTypeOK, CallsSound, Pending, OneActivePerType, SameCalls, IndexAllows

\* A new series is a draft, and no transition can have read it.
LEMMA CreateSeriesInv ==
  ASSUME RInv, NEW k \in SeriesKeys, NEW t \in PolicyTypes, CreateSeries(k, t)
  PROVE  RInv'
<1>1. RegTypeOK'
  BY DEF RInv, RegTypeOK, CreateSeries, SeriesType, NoSeries
<1>2. CallsSound'
  BY DEF RInv, RegTypeOK, CreateSeries, SeriesType, NoSeries, CallsSound, Pending
<1>3. OneActivePerType'
  BY DEF RInv, RegTypeOK, CreateSeries, SeriesType, NoSeries, OneActivePerType
<1> QED BY <1>1, <1>2, <1>3 DEF RInv

\* The row was read in the version the call will ask for.
LEMMA BeginTransitionInv ==
  ASSUME RInv, NEW c \in Calls, NEW k \in SeriesKeys, NEW to \in {"active", "closed"},
         BeginTransition(c, k, to)
  PROVE  RInv'
<1>1. RegTypeOK'
  BY DEF RInv, RegTypeOK, BeginTransition, CallShape, NewCall, Done
<1>2. CallsSound'
  BY DEF RInv, RegTypeOK, BeginTransition, CallsSound, Pending, NewCall, Done, SeriesType
<1>3. OneActivePerType'
  BY DEF RInv, BeginTransition, OneActivePerType
<1> QED BY <1>1, <1>2, <1>3 DEF RInv

\* What a committed transition leaves: the status asked for, one version on.
LEMMA UpdateRowFacts ==
  ASSUME RInv, NEW c \in Calls, UpdateSeries(c), series' # series
  PROVE  LET k == call[c].key
         IN  /\ Pending(k, call[c].to, call[c].version)
             /\ series[k].version = call[c].version
             /\ call[c].to = "active" => IndexAllows(k)
             /\ series' = [series EXCEPT ![k] = [status |-> call[c].to,
                             version |-> call[c].version + 1, type |-> series[k].type]]
  BY DEF RInv, RegTypeOK, CallsSound, Pending, UpdateSeries, VersionMatches, SeriesType

\* The version it moves on from is no longer the version of any other call.
LEMMA UpdateSeriesInv == ASSUME RInv, NEW c \in Calls, UpdateSeries(c) PROVE RInv'
<1>0. SameCalls /\ call'[c].pc = "done"
  BY DEF RInv, RegTypeOK, UpdateSeries, SameCalls, Done, NewCall, CallShape
<1>1. CASE series' = series
  BY <1>0, <1>1, QuietInv
<1>2. CASE series' # series
  <2> DEFINE k == call[c].key
  <2>1. /\ Pending(k, call[c].to, call[c].version)
        /\ series[k].version = call[c].version
        /\ call[c].to = "active" => IndexAllows(k)
        /\ series' = [series EXCEPT ![k] = [status |-> call[c].to,
                        version |-> call[c].version + 1, type |-> series[k].type]]
    BY <1>2, UpdateRowFacts
  <2> HIDE DEF k
  <2>2. RegTypeOK'
    BY <2>1, <1>0 DEF RInv, RegTypeOK, SameCalls, Pending, SeriesType, NoSeries
  <2>3. CallsSound'
    BY <2>1, <1>0 DEF RInv, RegTypeOK, SameCalls, CallsSound, Pending, SeriesType
  <2>4. OneActivePerType'
    <3>1. \A j \in SeriesKeys : j # k => series'[j] = series[j]
      BY <2>1 DEF RInv, RegTypeOK
    <3>2. series'[k].type = series[k].type /\ series'[k].status = call[c].to /\ k \in SeriesKeys
      BY <2>1 DEF RInv, RegTypeOK, Pending
    <3>3. call[c].to = "active" =>
            ~ \E j \in SeriesKeys \ {k} :
                j[1] = k[1] /\ series[j].type = series[k].type /\ series[j].status = "active"
      BY <2>1 DEF IndexAllows
    <3> QED BY <3>1, <3>2, <3>3 DEF RInv, OneActivePerType
  <2> QED BY <2>2, <2>3, <2>4 DEF RInv
<1> QED BY <1>1, <1>2

\* Every other step leaves the series and the transitions alone.
LEMMA OtherStepsQuiet ==
  ASSUME RInv, [RegNext]_regVars,
         ~ \E k \in SeriesKeys, t \in PolicyTypes : CreateSeries(k, t),
         ~ \E c \in Calls, k \in SeriesKeys, to \in {"active", "closed"} : BeginTransition(c, k, to),
         ~ \E c \in Calls : UpdateSeries(c)
  PROVE  SameCalls /\ UNCHANGED series
<1> USE DEF RInv, RegTypeOK
<1>1. ASSUME UNCHANGED <<series, call>> PROVE SameCalls /\ UNCHANGED series
  BY <1>1 DEF SameCalls
<1>2. ASSUME NEW n \in Nifs, CreateTaxpayer(n) PROVE UNCHANGED <<series, call>>
  BY <1>2 DEF CreateTaxpayer
<1>3. ASSUME NEW e \in Ests, CreateEstablishment(e) PROVE UNCHANGED <<series, call>>
  BY <1>3 DEF CreateEstablishment
<1>4. ASSUME NEW s \in ScopeIds, NEW n \in Nifs, NEW e \in Ests, CreateScopeBinding(s, n, e)
      PROVE UNCHANGED <<series, call>>
  BY <1>4 DEF CreateScopeBinding
<1>5. ASSUME NEW n \in Nifs, NEW status, UpsertFEEnrollment(n, status)
      PROVE UNCHANGED <<series, call>>
  BY <1>5 DEF UpsertFEEnrollment
<1>6. ASSUME NEW e, NEW g, NEW switch, UpsertDocGroupConfig(e, g, switch)
      PROVE UNCHANGED <<series, call>>
  BY <1>6 DEF UpsertDocGroupConfig
<1>7. ASSUME NEW e, NEW t, NEW switch, UpsertDocTypeConfig(e, t, switch)
      PROVE UNCHANGED <<series, call>>
  BY <1>7 DEF UpsertDocTypeConfig
<1>8. ASSUME NEW c \in Calls, NEW e \in Ests, BeginReport(c, e) PROVE SameCalls /\ UNCHANGED series
  BY <1>8 DEF BeginReport, SameCalls, CallShape, NewCall
<1>9. ASSUME NEW c \in Calls, ReadGroups(c) \/ ReadTypes(c) \/ ReadEnrolment(c)
      PROVE SameCalls /\ UNCHANGED series
  <2>1. CASE ReadGroups(c)
    <3>1. call'[c] =
              [pc |-> "types", key |-> call[c].key, to |-> call[c].to, version |-> call[c].version,
               est |-> call[c].est, groups |-> groupConfig[call[c].est], types |-> call[c].types,
               result |-> call[c].result]
      <4>1. call'[c] = [call[c] EXCEPT !.pc = "types", !.groups = groupConfig[call[c].est]]
        BY <2>1 DEF ReadGroups
      <4>2. CallShape(call[c])
        OBVIOUS
      <4> QED BY <4>1, <4>2 DEF CallShape
    <3>2. \A d \in Calls : d # c => call'[d] = call[d]
      BY <2>1 DEF ReadGroups
    <3>3. call' = [d \in Calls |-> call'[d]] /\ UNCHANGED series
      BY <2>1 DEF ReadGroups
    <3> QED BY <3>1, <3>2, <3>3 DEF SameCalls, CallShape
  <2>2. CASE ReadTypes(c)
    <3>1. call'[c] =
              [pc |-> "enrolment", key |-> call[c].key, to |-> call[c].to, version |-> call[c].version,
               est |-> call[c].est, groups |-> call[c].groups, types |-> typeConfig[call[c].est],
               result |-> call[c].result]
      <4>1. call'[c] = [call[c] EXCEPT !.pc = "enrolment", !.types = typeConfig[call[c].est]]
        BY <2>2 DEF ReadTypes
      <4>2. CallShape(call[c])
        OBVIOUS
      <4> QED BY <4>1, <4>2 DEF CallShape
    <3>2. \A d \in Calls : d # c => call'[d] = call[d]
      BY <2>2 DEF ReadTypes
    <3>3. call' = [d \in Calls |-> call'[d]] /\ UNCHANGED series
      BY <2>2 DEF ReadTypes
    <3> QED BY <3>1, <3>2, <3>3 DEF SameCalls, CallShape
  <2>3. CASE ReadEnrolment(c)
    <3>1. PICK status \in EnrolmentsRead(c) :
            call' = [call EXCEPT ![c] = [NewCall EXCEPT !.pc = "reported", !.result = ReportOf(c, status)]]
      BY <2>3 DEF ReadEnrolment
    <3> DEFINE result == ReportOf(c, status)
    <3>2. call' = [call EXCEPT ![c] = [NewCall EXCEPT !.pc = "reported", !.result = result]]
      BY <3>1
    <3> HIDE DEF result
    <3>3. call'[c] = [NewCall EXCEPT !.pc = "reported", !.result = result]
          /\ \A d \in Calls : d # c => call'[d] = call[d]
      BY <3>2
    <3>4. CallShape(call'[c]) /\ call'[c].pc = "reported"
      BY <3>3 DEF CallShape, NewCall
    <3>5. call' = [d \in Calls |-> call'[d]] /\ UNCHANGED series
      BY <2>3, <3>2 DEF ReadEnrolment
    <3> QED BY <3>3, <3>4, <3>5 DEF SameCalls
  <2> QED BY <1>9, <2>1, <2>2, <2>3
<1>10. ASSUME UNCHANGED regVars PROVE UNCHANGED <<series, call>>
  BY <1>10 DEF regVars
<1> HIDE DEF RInv, RegTypeOK
<1> QED BY <1>1, <1>2, <1>3, <1>4, <1>5, <1>6, <1>7, <1>8, <1>9, <1>10 DEF RegNext

\* RInv is inductive.
LEMMA RegNextInv == RInv /\ [RegNext]_regVars => RInv'
  BY CreateSeriesInv, BeginTransitionInv, UpdateSeriesInv, OtherStepsQuiet, QuietInv

\* At most one series of a type is active in an establishment, for any
\* registry and any transitions at once (TransitionSeries and the unique
\* index).
THEOREM OneActive == RegSpec => []OneActivePerType
<1>1. RInv => OneActivePerType
  BY DEF RInv
<1> QED BY <1>1, RegInitInv, RegNextInv, PTL DEF RegSpec

\* A series only moves forward, one version at a time, for any transitions
\* at once (TransitionSeries).
THEOREM ForwardOnly == RegSpec => SeriesForward
<1> DEFINE Forward ==
      \A k \in SeriesKeys :
        series[k] # NoSeries /\ series'[k] # series[k] =>
          /\ validateSeriesTransition(series[k].status, series'[k].status)
          /\ series'[k].version = series[k].version + 1 /\ series'[k].type = series[k].type
<1>1. ASSUME RInv, [RegNext]_regVars PROVE Forward
  <2>1. ASSUME NEW c \in Calls, UpdateSeries(c), series' # series PROVE Forward
    <3> DEFINE k == call[c].key
    <3>1. /\ Pending(k, call[c].to, call[c].version)
          /\ series[k].version = call[c].version
          /\ series' = [series EXCEPT ![k] = [status |-> call[c].to,
                          version |-> call[c].version + 1, type |-> series[k].type]]
      BY <1>1, <2>1, UpdateRowFacts
    <3> HIDE DEF k
    <3>2. k \in SeriesKeys /\ series[k] \in SeriesType
      BY <1>1, <3>1 DEF Pending, RInv, RegTypeOK
    <3>3. \A j \in SeriesKeys : j # k => series'[j] = series[j]
      BY <1>1, <3>1 DEF RInv, RegTypeOK
    <3>4. series'[k] = [status |-> call[c].to, version |-> series[k].version + 1,
                        type |-> series[k].type]
      BY <1>1, <3>1, <3>2 DEF RInv, RegTypeOK
    <3>5. series'[k].version = series[k].version + 1 /\ series'[k].type = series[k].type
      BY <3>4
    <3>6. validateSeriesTransition(series[k].status, series'[k].status)
      BY <3>1, <3>4 DEF Pending
    <3> QED BY <3>3, <3>5, <3>6
  <2>2. ASSUME NEW k \in SeriesKeys, NEW t \in PolicyTypes, CreateSeries(k, t) PROVE Forward
    BY <1>1, <2>2 DEF CreateSeries, RInv, RegTypeOK
  <2>3. ASSUME UNCHANGED series PROVE Forward
    BY <2>3
  <2>4. ASSUME NEW c \in Calls, NEW k \in SeriesKeys, NEW to \in {"active", "closed"},
               BeginTransition(c, k, to)
        PROVE UNCHANGED series
    BY <2>4 DEF BeginTransition
  <2> QED BY <1>1, <2>1, <2>2, <2>3, <2>4, OtherStepsQuiet
<1>2. RInv /\ [RegNext]_regVars => [Forward]_regVars
  BY <1>1
<1> QED BY <1>2, RegInitInv, RegNextInv, PTL DEF RegSpec, SeriesForward

------------------------------------------------------------------------------
(* Queue actions (OpsActions).                                             *)

\* An attempt is a record of the fields of NewAttempt, whatever they hold.
AttemptShape(r) ==
  r = [pc |-> r.pc, key |-> r.key, action |-> r.action, expected |-> r.expected, at |-> r.at,
       read |-> r.read]

OpsShape ==
  /\ idem \in [IdemKeys -> OpsKinds \cup {"none"}]
  /\ effects \in [IdemKeys -> Nat]
  /\ attempt = [a \in Attempts |-> attempt[a]]
  /\ \A a \in Attempts : AttemptShape(attempt[a])

\* The table of keys counts the effects, and an attempt that is under way or
\* has succeeded names a key and an action.
KeysCount == \A k \in IdemKeys : effects[k] = IF idem[k] = "none" THEN 0 ELSE 1
Named ==
  \A a \in Attempts :
    attempt[a].pc \in {"begin", "update", "applied", "replayed"} =>
      attempt[a].key \in IdemKeys /\ attempt[a].action \in OpsKinds
Honest ==
  \A a \in Attempts :
    attempt[a].pc \in {"applied", "replayed"} => idem[attempt[a].key] = attempt[a].action

OInv == OpsShape /\ KeysCount /\ Named /\ Honest

\* At the start no key is used and no attempt made.
LEMMA OpsInitInv == OpsInit => OInv
  BY DEF OpsInit, OInv, OpsShape, AttemptShape, KeysCount, Named, Honest, NewAttempt

\* A step of one attempt that leaves the keys alone.
LEMMA OneAttemptInv ==
  ASSUME OInv, NEW a \in Attempts, NEW r,
         attempt' = [attempt EXCEPT ![a] = r], UNCHANGED <<idem, effects>>,
         AttemptShape(r),
         r.pc \in {"begin", "update", "applied", "replayed"} => r.key \in IdemKeys /\ r.action \in OpsKinds,
         r.pc \in {"applied", "replayed"} => idem[r.key] = r.action
  PROVE  OInv'
<1>1. attempt'[a] = r /\ \A b \in Attempts : b # a => attempt'[b] = attempt[b]
  BY DEF OInv, OpsShape
<1>2. attempt' = [b \in Attempts |-> attempt'[b]]
  BY DEF OInv, OpsShape
<1> QED BY <1>1, <1>2 DEF OInv, OpsShape, KeysCount, Named, Honest

\* The key is looked up outside the transaction: only an answer can follow.
LEMMA LookupInv ==
  ASSUME OInv, NEW a \in Attempts, NEW k \in IdemKeys, NEW action \in OpsKinds, NEW e,
         LookupIdempotency(a, k, action, e)
  PROVE  OInv'
<1> DEFINE pc == CASE idem[k] = "none" -> "begin"
                   [] idem[k] = action -> "replayed"
                   [] OTHER -> "conflict"
           r == [NewAttempt EXCEPT !.key = k, !.action = action, !.expected = e, !.at = now, !.pc = pc]
<1>1. attempt' = [attempt EXCEPT ![a] = r] /\ UNCHANGED <<idem, effects>>
  BY DEF LookupIdempotency
<1>2. pc = "replayed" => idem[k] = action
  OBVIOUS
<1>3. pc # "applied"
  OBVIOUS
<1> HIDE DEF pc
<1>r. r = [NewAttempt EXCEPT !.key = k, !.action = action, !.expected = e, !.at = now, !.pc = pc]
  OBVIOUS
<1> HIDE DEF r
<1>4. AttemptShape(r) /\ r.pc = pc /\ r.key = k /\ r.action = action
  BY <1>r DEF NewAttempt, AttemptShape
<1> QED BY <1>1, <1>2, <1>3, <1>4, OneAttemptInv

\* An answer other than success.
LEMMA AnswerInv ==
  ASSUME OInv, NEW a \in Attempts, NEW with \in {"refused", "conflict", "lost"},
         Answer(a, with), UNCHANGED <<idem, effects>>
  PROVE  OInv'
<1> DEFINE r == [NewAttempt EXCEPT !.pc = with, !.key = attempt[a].key, !.action = attempt[a].action]
<1>1. attempt' = [attempt EXCEPT ![a] = r]
  BY DEF Answer
<1>r. r = [NewAttempt EXCEPT !.pc = with, !.key = attempt[a].key, !.action = attempt[a].action]
  OBVIOUS
<1> HIDE DEF r
<1>2. AttemptShape(r) /\ r.pc = with
  BY <1>r DEF NewAttempt, AttemptShape
<1> QED BY <1>1, <1>2, OneAttemptInv

\* Reading the row keeps the attempt's key and action.
LEMMA ReadRowInv == ASSUME OInv, NEW a \in Attempts, ReadRow(a) PROVE OInv'
<1>1. CASE Answer(a, "refused")
  BY <1>1, AnswerInv DEF ReadRow
<1>2. CASE attempt' = [attempt EXCEPT ![a].pc = "update", ![a].read = row]
  <2>1. attempt'[a] = [attempt[a] EXCEPT !.pc = "update", !.read = row]
    BY <1>2 DEF OInv, OpsShape
  <2>2. AttemptShape(attempt[a])
    BY DEF OInv, OpsShape
  <2>3. attempt'[a] = [pc |-> "update", key |-> attempt[a].key, action |-> attempt[a].action,
                       expected |-> attempt[a].expected, at |-> attempt[a].at, read |-> row]
    BY <2>1, <2>2 DEF AttemptShape
  <2>4. \A b \in Attempts : b # a => attempt'[b] = attempt[b]
    BY <1>2 DEF OInv, OpsShape
  <2>5. attempt' = [b \in Attempts |-> attempt'[b]]
    BY <1>2 DEF OInv, OpsShape
  <2>6. UNCHANGED <<idem, effects>> /\ attempt[a].pc = "begin"
    BY DEF ReadRow
  <2>7. /\ AttemptShape(attempt'[a]) /\ attempt'[a].pc = "update"
        /\ attempt'[a].key = attempt[a].key /\ attempt'[a].action = attempt[a].action
    BY <2>3 DEF AttemptShape
  <2>8. OpsShape'
    BY <2>4, <2>5, <2>6, <2>7 DEF OInv, OpsShape
  <2>9. KeysCount'
    BY <2>6 DEF OInv, KeysCount
  <2>10. Named'
    BY <2>4, <2>6, <2>7 DEF OInv, Named
  <2>11. Honest'
    BY <2>4, <2>6, <2>7 DEF OInv, Honest
  <2> QED BY <2>8, <2>9, <2>10, <2>11 DEF OInv
<1> QED BY <1>1, <1>2 DEF ReadRow

\* The key is inserted with the effect, and only if it was not there.
LEMMA UpdateRowInv == ASSUME OInv, NEW a \in Attempts, UpdateRow(a) PROVE OInv'
<1> DEFINE k == attempt[a].key
           action == attempt[a].action
<1>1. CASE Answer(a, "conflict") /\ UNCHANGED <<idem, effects>>
  BY <1>1, AnswerInv
<1>2. CASE /\ KeyFree(k)
           /\ idem' = [idem EXCEPT ![k] = action]
           /\ effects' = [effects EXCEPT ![k] = @ + 1]
           /\ Answer(a, "applied")
  <2> DEFINE r == [NewAttempt EXCEPT !.pc = "applied", !.key = k, !.action = action]
  <2>1. /\ attempt'[a] = r /\ \A b \in Attempts : b # a => attempt'[b] = attempt[b]
        /\ attempt' = [b \in Attempts |-> attempt'[b]]
    BY <1>2 DEF Answer, OInv, OpsShape
  <2>2. k \in IdemKeys /\ action \in OpsKinds
    BY DEF UpdateRow, OInv, Named
  <2>3. idem[k] = "none" /\ effects[k] = 0 /\ action # "none"
    BY <1>2, <2>2 DEF KeyFree, OInv, KeysCount, OpsKinds
  <2>r. r = [NewAttempt EXCEPT !.pc = "applied", !.key = k, !.action = action]
    OBVIOUS
  <2> HIDE DEF k, action, r
  <2>0. AttemptShape(r) /\ r.pc = "applied" /\ r.key = k /\ r.action = action
    BY <2>r DEF NewAttempt, AttemptShape
  <2>4. OpsShape'
    BY <1>2, <2>0, <2>1, <2>2, <2>3 DEF OInv, OpsShape
  <2>5. KeysCount'
    BY <1>2, <2>2, <2>3 DEF OInv, OpsShape, KeysCount
  <2>6. Named'
    BY <2>0, <2>1, <2>2 DEF OInv, Named
  <2>7. Honest'
    BY <1>2, <2>0, <2>1, <2>2, <2>3 DEF OInv, OpsShape, Named, Honest, OpsKinds
  <2> QED BY <2>4, <2>5, <2>6, <2>7 DEF OInv
<1> QED BY <1>1, <1>2 DEF UpdateRow

\* OInv is inductive.
LEMMA OpsNextInv == OInv /\ [OpsNext]_opsVars => OInv'
<1> SUFFICES ASSUME OInv, [OpsNext]_opsVars PROVE OInv'
  OBVIOUS
<1>1. ASSUME UNCHANGED <<idem, effects, attempt>> PROVE OInv'
  BY <1>1 DEF OInv, OpsShape, KeysCount, Named, Honest
<1>2. ASSUME NEW a \in Attempts, LoseAnswer(a) PROVE OInv'
  BY <1>2, AnswerInv DEF LoseAnswer
<1>3. ASSUME (\E s \in {"pending", "in_flight", "succeeded"} : WorkerStep(s)) \/ Tick \/ UNCHANGED opsVars
      PROVE UNCHANGED <<idem, effects, attempt>>
  BY <1>3 DEF WorkerStep, Tick, opsVars
<1> QED BY <1>1, <1>2, <1>3, LookupInv, ReadRowInv, UpdateRowInv DEF OpsNext

\* A key changes the row at most once, and an action answered as applied or
\* replayed has been applied, for any attempts and any interleaving with the
\* worker (ApplyQueueAction).
THEOREM KeysApplyOnce == OpsSpec => []KeyAppliedOnce
<1>1. OInv => KeyAppliedOnce
  <2> SUFFICES ASSUME OInv PROVE KeyAppliedOnce
    OBVIOUS
  <2>1. \A k \in IdemKeys : effects[k] <= 1
    BY DEF OInv, KeysCount
  <2>2. ASSUME NEW a \in Attempts, attempt[a].pc \in {"applied", "replayed"}
        PROVE effects[attempt[a].key] = 1 /\ idem[attempt[a].key] = attempt[a].action
    BY <2>2 DEF OInv, KeysCount, Named, Honest, OpsKinds
  <2> QED BY <2>1, <2>2 DEF KeyAppliedOnce
<1> QED BY <1>1, OpsInitInv, OpsNextInv, PTL DEF OpsSpec

------------------------------------------------------------------------------
(* Signing keys (JwksCache).                                               *)

GetType ==
  [pc : {"idle", "stale", "forced"}, kid : Kids \cup {"none"}, at : Nat, sentAt : Nat,
   doc : SUBSET Kids]
AnswerType == [kid : Kids \cup {"none"}, at : Nat, result : {"key", "unknown", "error"}]

JwksTypeOK ==
  /\ time \in Nat /\ fetchedAt \in Int /\ lastForced \in Int
  /\ published \in SUBSET Kids /\ keys \in SUBSET Kids
  /\ since \in [Kids -> Nat] /\ until \in [Kids -> Nat]
  /\ get \in GetType
  /\ answer \in AnswerType

\* What the cache knows is no older than a fetch may take, and a key it
\* lacks was published after the last forced refresh began.
CacheSound ==
  /\ fetchedAt <= time /\ lastForced <= time
  /\ \A k \in keys : LastPublished(k) >= fetchedAt - FetchTimeout
  /\ \A k \in published \ keys : since[k] >= lastForced

\* The same of the document a fetch has brought, from the time it was sent.
FetchSound ==
  Fetching =>
    /\ get.kid \in Kids
    /\ get.at <= get.sentAt /\ lastForced <= get.sentAt
    /\ get.sentAt <= time /\ time <= get.sentAt + FetchTimeout
    /\ \A k \in get.doc : LastPublished(k) >= get.sentAt
    /\ get.doc # {} => \A k \in published \ get.doc : since[k] >= get.sentAt

AnswerSound ==
  /\ answer.at <= time
  /\ answer.result \in {"key", "unknown"} => answer.kid \in Kids
  /\ WithdrawnKeyEnds
  /\ UnknownIsNew

JInv == JwksTypeOK /\ CacheSound /\ FetchSound /\ AnswerSound

\* At the start nothing is cached and nothing has been answered.
LEMMA JwksInitInv == JwksInit => JInv
  BY JwksAssumption
  DEF JwksInit, JInv, JwksTypeOK, CacheSound, FetchSound, AnswerSound, WithdrawnKeyEnds,
      UnknownIsNew, GetType, AnswerType, NoGet, NoAnswer, Fetching, Never, KeySets

\* Get answers from a fresh cache, or sends a fetch.
LEMMA GetInv == ASSUME JInv, NEW kid \in Kids, Get(kid) PROVE JInv'
<1> USE JwksAssumption DEF JInv, Get, cacheVars, providerVars
<1>1. CASE kid \in keys /\ ~Stale /\ GetAnswer(kid, time, "key")
  BY <1>1 DEF GetAnswer, Stale, JwksTypeOK, CacheSound, FetchSound, AnswerSound,
    WithdrawnKeyEnds, UnknownIsNew, GetType, AnswerType, NoGet, Fetching, LastPublished
<1>2. CASE SendFetch(kid, time, "stale") \/ SendFetch(kid, time, "forced")
  BY <1>2 DEF SendFetch, JwksTypeOK, CacheSound, FetchSound, AnswerSound,
    WithdrawnKeyEnds, UnknownIsNew, GetType, AnswerType, NoAnswer, Fetching, LastPublished
<1>3. CASE kid \notin keys /\ ~Stale /\ ~MayForce(time) /\ GetAnswer(kid, time, "unknown")
  BY <1>3 DEF GetAnswer, MayForce, JwksTypeOK, CacheSound, FetchSound, AnswerSound,
    WithdrawnKeyEnds, UnknownIsNew, GetType, AnswerType, NoGet, Fetching, LastPublished
<1> QED BY <1>1, <1>2, <1>3

\* The document is what is published now.
LEMMA RespondInv == ASSUME JInv, Respond PROVE JInv'
  BY JwksAssumption
  DEF JInv, Respond, cacheVars, providerVars, JwksTypeOK, CacheSound, FetchSound, AnswerSound,
      WithdrawnKeyEnds, UnknownIsNew, GetType, AnswerType, Fetching, LastPublished

\* A failed fetch changes nothing but the call.
LEMMA FetchFailsInv == ASSUME JInv, FetchFails PROVE JInv'
  BY JwksAssumption
  DEF JInv, FetchFails, LastForcedAfterFailure, providerVars, JwksTypeOK, CacheSound, FetchSound,
      AnswerSound, WithdrawnKeyEnds, UnknownIsNew, GetType, AnswerType, NoGet, NoAnswer, Fetching,
      LastPublished

\* A document that arrives is at most FetchTimeout old.
LEMMA RefreshedInv == ASSUME JInv, Refreshed PROVE JInv'
<1> USE JwksAssumption DEF JInv
<1>1. CacheSound' /\ lastForced' \in Int /\ keys' \in SUBSET Kids /\ fetchedAt' \in Int
  BY DEF Refreshed, providerVars, JwksTypeOK, CacheSound, FetchSound, GetType, Fetching, LastPublished
<1>2. lastForced' <= time
  BY DEF Refreshed, JwksTypeOK, CacheSound, FetchSound, GetType, Fetching
<1>3. CASE get.kid \in get.doc /\ GetAnswer(get.kid, get.at, "key")
  BY <1>1, <1>3 DEF Refreshed, providerVars, GetAnswer, JwksTypeOK, FetchSound, AnswerSound,
    WithdrawnKeyEnds, UnknownIsNew, GetType, AnswerType, NoGet, Fetching, LastPublished
<1>4. CASE SendFetch(get.kid, get.at, "forced")
  <2>1. JwksTypeOK'
    BY <1>1, <1>4 DEF Refreshed, providerVars, SendFetch, JwksTypeOK, FetchSound, GetType,
      AnswerType, NoAnswer, Fetching
  <2>2. FetchSound'
    BY <1>2, <1>4 DEF Refreshed, SendFetch, JwksTypeOK, FetchSound, GetType, Fetching
  <2>3. AnswerSound'
    BY <1>4 DEF Refreshed, SendFetch, JwksTypeOK, AnswerSound, WithdrawnKeyEnds, UnknownIsNew,
      NoAnswer
  <2> QED BY <1>1, <2>1, <2>2, <2>3
<1>5. CASE get.kid \notin get.doc /\ GetAnswer(get.kid, get.at, "unknown")
  <2>1. JwksTypeOK'
    BY <1>1, <1>5 DEF Refreshed, providerVars, GetAnswer, JwksTypeOK, FetchSound, GetType,
      AnswerType, NoGet, Fetching
  <2>2. FetchSound'
    BY <1>5 DEF GetAnswer, FetchSound, NoGet, Fetching
  <2>3. AnswerSound'
    BY <1>5 DEF Refreshed, providerVars, GetAnswer, JwksTypeOK, FetchSound, GetType, AnswerSound,
      WithdrawnKeyEnds, UnknownIsNew, Fetching
  <2> QED BY <1>1, <2>1, <2>2, <2>3
<1> QED BY <1>3, <1>4, <1>5 DEF Refreshed

\* A key withdrawn now was published until now; one published now is newer
\* than every fetch and every answer.
LEMMA RotateKeysInv == ASSUME JInv, NEW set \in KeySets, RotateKeys(set) PROVE JInv'
<1> USE JwksAssumption DEF JInv, RotateKeys, cacheVars
<1>1. JwksTypeOK'
  BY DEF JwksTypeOK, KeySets
<1>2. \A k \in Kids : LastPublished(k)' \in Nat /\ LastPublished(k) \in Nat
  BY <1>1 DEF LastPublished, JwksTypeOK
<1>3. \A k \in Kids : LastPublished(k)' = LastPublished(k) \/ LastPublished(k)' = time
  BY DEF LastPublished, JwksTypeOK
<1>4. \A k \in published' : since'[k] = time \/ (k \in published /\ since'[k] = since[k])
  BY DEF JwksTypeOK, KeySets
<1>5. CacheSound'
  <2>1. \A k \in keys : LastPublished(k)' >= fetchedAt - FetchTimeout
    BY <1>2, <1>3 DEF CacheSound, JwksTypeOK
  <2>2. \A k \in published' \ keys : since'[k] >= lastForced
    BY <1>4 DEF CacheSound, JwksTypeOK
  <2> QED BY <2>1, <2>2 DEF CacheSound
<1>6. FetchSound'
  <2> SUFFICES ASSUME Fetching PROVE FetchSound'
    BY DEF FetchSound, Fetching
  <2>1. \A k \in get.doc : LastPublished(k)' >= get.sentAt
    BY <1>2, <1>3 DEF FetchSound, JwksTypeOK, GetType
  <2>2. get.doc # {} => \A k \in published' \ get.doc : since'[k] >= get.sentAt
    BY <1>4 DEF FetchSound, JwksTypeOK, GetType
  <2> QED BY <2>1, <2>2 DEF FetchSound
<1>7. AnswerSound'
  <2>1. WithdrawnKeyEnds'
    BY <1>2, <1>3 DEF AnswerSound, WithdrawnKeyEnds, JwksTypeOK, AnswerType
  <2>2. UnknownIsNew'
    BY <1>4 DEF AnswerSound, UnknownIsNew, JwksTypeOK, AnswerType
  <2> QED BY <2>1, <2>2 DEF AnswerSound
<1> QED BY <1>1, <1>5, <1>6, <1>7

\* Time passes, for a fetch no further than its timeout.
LEMMA AuthTickInv == ASSUME JInv, AuthTick PROVE JInv'
<1> USE JwksAssumption DEF JInv, AuthTick, cacheVars, providerVars
<1>1. JwksTypeOK' /\ time' = time + 1
  BY DEF JwksTypeOK
<1>2. \A k \in Kids : LastPublished(k)' \in Nat /\ LastPublished(k) \in Nat
                        /\ LastPublished(k)' >= LastPublished(k)
  BY DEF LastPublished, JwksTypeOK
<1>3. CacheSound'
  BY <1>2 DEF CacheSound, JwksTypeOK
<1>4. FetchSound'
  BY <1>2 DEF FetchSound, Fetching, JwksTypeOK, GetType
<1>5. AnswerSound'
  BY <1>2 DEF AnswerSound, WithdrawnKeyEnds, UnknownIsNew, JwksTypeOK, AnswerType
<1> QED BY <1>1, <1>3, <1>4, <1>5

\* JInv is inductive.
LEMMA JwksNextInv == JInv /\ [JwksNext]_jwksVars => JInv'
<1> SUFFICES ASSUME JInv, [JwksNext]_jwksVars PROVE JInv'
  OBVIOUS
<1>1. CASE UNCHANGED jwksVars
  BY <1>1 DEF jwksVars, JInv, JwksTypeOK, CacheSound, FetchSound, AnswerSound, WithdrawnKeyEnds,
    UnknownIsNew, Fetching, LastPublished
<1>2. CASE JwksNext
  BY <1>2, GetInv, RespondInv, FetchFailsInv, RefreshedInv, RotateKeysInv, AuthTickInv DEF JwksNext
<1> QED BY <1>1, <1>2

\* A withdrawn key is accepted for CacheTTL and the time of a fetch, no
\* longer, for any keys, durations and failures of the provider (get,
\* refreshLocked).
THEOREM WithdrawnKeysEnd == JwksSpec => []WithdrawnKeyEnds
<1>1. JInv => WithdrawnKeyEnds
  BY DEF JInv, AnswerSound
<1> QED BY <1>1, JwksInitInv, JwksNextInv, PTL DEF JwksSpec

\* A published key is answered as unknown for less than MinRefresh, for any
\* keys, durations and failures of the provider (get, refreshLocked).
THEOREM UnknownKeysAreNew == JwksSpec => []UnknownIsNew
<1>1. JInv => UnknownIsNew
  BY DEF JInv, AnswerSound
<1> QED BY <1>1, JwksInitInv, JwksNextInv, PTL DEF JwksSpec

------------------------------------------------------------------------------
(* Sessions and form tokens (AdminSessions).                               *)

StoreType(st) ==
  /\ st = [held |-> st.held, exp |-> st.exp, lost |-> st.lost]
  /\ st.exp \in Seq(Nat)
  /\ st.held \in SUBSET IssuedIds(st)
  /\ st.lost \in SUBSET IssuedIds(st)

UiTypeOK ==
  /\ uiTime \in Nat
  /\ StoreType(sessions) /\ StoreType(tokens)
  /\ cookie \in [Browsers -> [session : IssuedIds(sessions) \cup {0}, token : IssuedIds(tokens) \cup {0}]]

\* A session is in one browser's cookie: logging out of it takes no other's.
SessionsApart ==
  \A b, c \in Browsers : b # c /\ cookie[b].session = cookie[c].session => cookie[b].session = 0

\* What a store has not had to give up it holds until it expires.
Kept(st, id) == id # 0 /\ ~Expired(st, id) /\ id \notin st.lost => id \in st.held
CookiesKept ==
  \A b \in Browsers : Kept(sessions, cookie[b].session) /\ Kept(tokens, cookie[b].token)

UiInv == UiTypeOK /\ SessionsApart /\ CookiesKept /\ StoresBounded

\* Making room and adding an id leaves a store of at most max ids, and gives
\* up a live one only when there were max of them.
LEMMA IssueKeeps ==
  ASSUME uiTime \in Nat, NEW st, StoreType(st), NEW max \in Nat \ {0}, NEW ttl \in Nat,
         NEW nx \in Issued(st, max, ttl)
  PROVE  /\ StoreType(nx)
         /\ Cardinality(nx.held) <= max
         /\ nx.exp = Append(st.exp, uiTime + ttl)
         /\ Len(st.exp) + 1 \in nx.held
         /\ \A id \in IssuedIds(st) : Kept(st, id) => Kept(nx, id)
<1> DEFINE new == Len(st.exp) + 1
           live == {id \in st.held : ~Expired(st, id)}
<1>1. PICK kept \in gcLocked(st, max) :
        nx = [held |-> kept \cup {new}, exp |-> Append(st.exp, uiTime + ttl),
              lost |-> st.lost \cup Crowded(st, max)]
  BY DEF Issued
<1>2. new \in Nat /\ IssuedIds(st) = 1 .. new - 1 /\ new \notin IssuedIds(st)
  BY DEF StoreType, IssuedIds
<1>3. /\ IsFiniteSet(live) /\ live \subseteq IssuedIds(st)
      /\ Swept(st) \subseteq live /\ kept \subseteq Swept(st)
  <2>1. IsFiniteSet(IssuedIds(st))
    BY <1>2, FS_Interval
  <2>2. live \subseteq IssuedIds(st) /\ Swept(st) \subseteq live
    BY DEF StoreType, Swept
  <2> QED BY <2>1, <2>2, FS_Subset DEF gcLocked
<1>4. /\ Cardinality(Swept(st)) \in Nat /\ Cardinality(live) \in Nat
      /\ Cardinality(Swept(st)) <= Cardinality(live)
      /\ IsFiniteSet(Swept(st)) /\ IsFiniteSet(kept)
  <2> HIDE DEF live
  <2> QED BY <1>3, FS_Subset, FS_CardinalityType
<1>5. Cardinality(kept) <= max - 1 /\ Cardinality(kept) \in Nat
  BY <1>4, FS_CardinalityType DEF gcLocked
<1>6. Cardinality(kept \cup {new}) <= max
  <2>1. new \notin kept
    BY <1>2, <1>3
  <2>2. Cardinality(kept \cup {new}) = Cardinality(kept) + 1
    BY <1>4, <2>1, FS_AddElement
  <2> QED BY <1>5, <2>2
<1>7. /\ nx.exp = Append(st.exp, uiTime + ttl) /\ nx.held = kept \cup {new}
      /\ nx.lost = st.lost \cup Crowded(st, max)
      /\ nx = [held |-> nx.held, exp |-> nx.exp, lost |-> nx.lost]
  BY <1>1
<1>8. IssuedIds(nx) = IssuedIds(st) \cup {new} /\ nx.exp \in Seq(Nat)
      /\ \A id \in IssuedIds(st) : nx.exp[id] = st.exp[id]
  BY <1>2, <1>7 DEF StoreType, IssuedIds
<1>9. StoreType(nx)
  <2>1. Crowded(st, max) \subseteq IssuedIds(st)
    BY DEF Crowded, StoreType
  <2> QED BY <1>3, <1>7, <1>8, <2>1 DEF StoreType
<1>10. ASSUME NEW id \in IssuedIds(st), Kept(st, id), ~Expired(nx, id), id \notin nx.lost
       PROVE  id \in nx.held
  <2>1. id \in live /\ id \in st.held /\ id \in Swept(st)
    BY <1>2, <1>7, <1>8, <1>10 DEF Kept, Expired, Swept
  <2>2. Crowded(st, max) # live
    BY <1>7, <1>10, <2>1
  <2>3. Cardinality(live) < max
    BY <2>2, <1>4 DEF Crowded
  <2>4. kept = Swept(st)
    BY <1>4, <2>3 DEF gcLocked
  <2> QED BY <1>7, <2>1, <2>4
<1> QED
  BY <1>6, <1>7, <1>9, <1>10 DEF Kept

LEMMA UiInitInv == UiInit => UiInv
<1> SUFFICES ASSUME UiInit PROVE UiInv
  OBVIOUS
<1>1. StoreType(NewStore) /\ NewStore.held = {}
  BY DEF NewStore, StoreType, IssuedIds
<1>2. UiTypeOK
  BY <1>1 DEF UiInit, UiTypeOK
<1>3. StoresBounded
  BY <1>1, FS_EmptySet, SessionAssumption DEF UiInit, StoresBounded
<1> QED BY <1>2, <1>3 DEF UiInv, UiInit, SessionsApart, CookiesKept, Kept

\* A browser that signs in is given an id no browser has.
LEMMA createSessionInv == ASSUME UiInv, NEW b \in Browsers, createSession(b) PROVE UiInv'
<1> DEFINE new == Len(sessions.exp) + 1
<1> USE DEF UiInv
<1>1. /\ StoreType(sessions') /\ Cardinality(sessions'.held) <= MaxSessions
      /\ sessions'.exp = Append(sessions.exp, uiTime + SessionTTL)
      /\ new \in sessions'.held
      /\ \A id \in IssuedIds(sessions) : Kept(sessions, id) => Kept(sessions', id)
  BY IssueKeeps, SessionAssumption DEF createSession, UiTypeOK
<1>2. IssuedIds(sessions') = IssuedIds(sessions) \cup {new} /\ new \notin IssuedIds(sessions) /\ new # 0
  <2>1. sessions.exp \in Seq(Nat) /\ uiTime + SessionTTL \in Nat
    BY SessionAssumption DEF UiTypeOK, StoreType
  <2>2. Len(sessions'.exp) = new /\ Len(sessions.exp) \in Nat
    BY <1>1, <2>1
  <2> QED BY <2>2 DEF IssuedIds
<1>3. /\ cookie'[b].session = new /\ cookie'[b].token = cookie[b].token
      /\ \A c \in Browsers : c # b => cookie'[c] = cookie[c]
      /\ uiTime' = uiTime /\ tokens' = tokens
  BY DEF createSession, UiTypeOK
<1>4. UiTypeOK'
  BY <1>1, <1>2 DEF createSession, UiTypeOK, IssuedIds
<1>5. SessionsApart'
  BY <1>2, <1>3 DEF SessionsApart, UiTypeOK
<1>6. CookiesKept'
  <2> SUFFICES ASSUME NEW c \in Browsers
               PROVE  Kept(sessions, cookie[c].session)' /\ Kept(tokens, cookie[c].token)'
    BY DEF CookiesKept
  <2>1. Kept(tokens, cookie[c].token)'
    BY <1>3 DEF CookiesKept, Kept, Expired
  <2>2. CASE c = b
    BY <1>1, <1>3, <2>1, <2>2 DEF Kept
  <2>3. CASE c # b
    <3>1. cookie'[c].session \in IssuedIds(sessions) \cup {0} /\ Kept(sessions, cookie'[c].session)
      BY <1>3, <2>3 DEF CookiesKept, UiTypeOK
    <3>2. Kept(sessions', cookie'[c].session)
      BY <1>1, <3>1 DEF Kept
    <3> QED BY <1>3, <2>1, <3>2 DEF Kept, Expired
  <2> QED BY <2>2, <2>3
<1>7. StoresBounded'
  BY <1>1, <1>3 DEF StoresBounded
<1> QED BY <1>4, <1>5, <1>6, <1>7

\* Loading a page does the same for the form token.
LEMMA LoadPageInv == ASSUME UiInv, NEW b \in Browsers, LoadPage(b) PROVE UiInv'
<1> DEFINE new == Len(tokens.exp) + 1
<1> USE DEF UiInv
<1>1. /\ StoreType(tokens') /\ Cardinality(tokens'.held) <= MaxTokens
      /\ tokens'.exp = Append(tokens.exp, uiTime + CsrfTTL)
      /\ new \in tokens'.held
      /\ \A id \in IssuedIds(tokens) : Kept(tokens, id) => Kept(tokens', id)
  BY IssueKeeps, SessionAssumption DEF LoadPage, UiTypeOK
<1>2. IssuedIds(tokens') = IssuedIds(tokens) \cup {new}
  <2>1. tokens.exp \in Seq(Nat) /\ uiTime + CsrfTTL \in Nat
    BY SessionAssumption DEF UiTypeOK, StoreType
  <2>2. Len(tokens'.exp) = new /\ Len(tokens.exp) \in Nat
    BY <1>1, <2>1
  <2> QED BY <2>2 DEF IssuedIds
<1>3. /\ cookie'[b].token = new
      /\ \A c \in Browsers : c # b => cookie'[c] = cookie[c]
      /\ \A c \in Browsers : cookie'[c].session = cookie[c].session
      /\ uiTime' = uiTime /\ sessions' = sessions
  BY DEF LoadPage, UiTypeOK
<1>4. UiTypeOK'
  BY <1>1, <1>2 DEF LoadPage, UiTypeOK, IssuedIds
<1>5. SessionsApart'
  BY <1>3 DEF SessionsApart
<1>6. CookiesKept'
  <2> SUFFICES ASSUME NEW c \in Browsers
               PROVE  Kept(sessions, cookie[c].session)' /\ Kept(tokens, cookie[c].token)'
    BY DEF CookiesKept
  <2>1. Kept(sessions, cookie[c].session)'
    BY <1>3 DEF CookiesKept, Kept, Expired
  <2>2. CASE c = b
    BY <1>1, <1>3, <2>1, <2>2 DEF Kept
  <2>3. CASE c # b
    <3>1. cookie'[c].token \in IssuedIds(tokens) \cup {0} /\ Kept(tokens, cookie'[c].token)
      BY <1>3, <2>3 DEF CookiesKept, UiTypeOK
    <3>2. Kept(tokens', cookie'[c].token)
      BY <1>1, <3>1 DEF Kept
    <3> QED BY <1>3, <2>1, <3>2 DEF Kept, Expired
  <2> QED BY <2>2, <2>3
<1>7. StoresBounded'
  BY <1>1, <1>3 DEF StoresBounded
<1> QED BY <1>4, <1>5, <1>6, <1>7

\* Taking ids out of the session store leaves it well formed and bounded.
LEMMA SessionsRemoved ==
  ASSUME UiTypeOK, StoresBounded, NEW gone, sessions' = [sessions EXCEPT !.held = @ \ gone]
  PROVE  /\ StoreType(sessions') /\ Cardinality(sessions'.held) <= MaxSessions
         /\ sessions'.held = sessions.held \ gone
         /\ sessions'.exp = sessions.exp /\ sessions'.lost = sessions.lost
         /\ IssuedIds(sessions') = IssuedIds(sessions)
<1>1. /\ sessions'.held = sessions.held \ gone
      /\ sessions'.exp = sessions.exp /\ sessions'.lost = sessions.lost
      /\ sessions' = [held |-> sessions'.held, exp |-> sessions'.exp, lost |-> sessions'.lost]
  BY DEF UiTypeOK, StoreType
<1>2. IssuedIds(sessions') = IssuedIds(sessions)
  BY <1>1 DEF IssuedIds
<1>3. StoreType(sessions')
  BY <1>1, <1>2 DEF UiTypeOK, StoreType
<1>4. IsFiniteSet(IssuedIds(sessions))
  <2>1. Len(sessions.exp) \in Nat
    BY DEF UiTypeOK, StoreType
  <2>2. PICK n \in Nat : n = Len(sessions.exp)
    BY <2>1
  <2>3. IsFiniteSet(1 .. n)
    BY FS_Interval
  <2> QED BY <2>2, <2>3 DEF IssuedIds
<1>5. IsFiniteSet(sessions.held)
  BY <1>4, FS_Subset DEF UiTypeOK, StoreType
<1>6. Cardinality(sessions'.held) <= Cardinality(sessions.held)
      /\ Cardinality(sessions.held) \in Nat /\ Cardinality(sessions'.held) \in Nat
  BY <1>1, <1>5, FS_Subset, FS_CardinalityType
<1> QED BY <1>1, <1>2, <1>3, <1>6, SessionAssumption DEF StoresBounded

\* A lookup drops the session it finds expired.
LEMMA SubmitInv == ASSUME UiInv, NEW b \in Browsers, Submit(b) PROVE UiInv'
<1> DEFINE gone == {id \in sessions.held : id = cookie[b].session /\ Expired(sessions, id)}
<1> USE DEF UiInv
<1>1. sessions' = [sessions EXCEPT !.held = @ \ gone]
      /\ uiTime' = uiTime /\ tokens' = tokens /\ cookie' = cookie
  BY DEF Submit, LookupSession
<1>2. /\ StoreType(sessions') /\ Cardinality(sessions'.held) <= MaxSessions
      /\ sessions'.held = sessions.held \ gone
      /\ sessions'.exp = sessions.exp /\ sessions'.lost = sessions.lost
      /\ IssuedIds(sessions') = IssuedIds(sessions)
  <2> HIDE DEF gone
  <2> QED BY <1>1, SessionsRemoved
<1>3. CookiesKept'
  BY <1>1, <1>2 DEF CookiesKept, Kept, Expired
<1> QED
  BY <1>1, <1>2, <1>3 DEF UiTypeOK, SessionsApart, StoresBounded, IssuedIds

\* Logging out takes the session of one cookie, which is then empty.
LEMMA logoutInv ==
  ASSUME UiInv, NEW b \in Browsers, NEW token, logout(b, token) PROVE UiInv'
<1> DEFINE gone == {cookie[b].session}
<1> USE DEF UiInv
<1>1. /\ sessions' = [sessions EXCEPT !.held = @ \ gone]
      /\ uiTime' = uiTime /\ tokens' = tokens
  BY DEF logout
<1>2. /\ StoreType(sessions') /\ Cardinality(sessions'.held) <= MaxSessions
      /\ sessions'.held = sessions.held \ gone
      /\ sessions'.exp = sessions.exp /\ sessions'.lost = sessions.lost
      /\ IssuedIds(sessions') = IssuedIds(sessions)
  <2> HIDE DEF gone
  <2> QED BY <1>1, SessionsRemoved
<1>3. /\ cookie'[b].session = 0
      /\ \A c \in Browsers : c # b => cookie'[c] = cookie[c]
      /\ \A c \in Browsers : cookie'[c].token = cookie[c].token
  BY DEF logout, UiTypeOK
<1>4. UiTypeOK'
  BY <1>1, <1>2 DEF logout, UiTypeOK
<1>5. SessionsApart'
  BY <1>3 DEF SessionsApart
<1>6. CookiesKept'
  <2> SUFFICES ASSUME NEW c \in Browsers
               PROVE  Kept(sessions, cookie[c].session)' /\ Kept(tokens, cookie[c].token)'
    BY DEF CookiesKept
  <2>1. Kept(tokens, cookie[c].token)'
    BY <1>1, <1>3 DEF CookiesKept, Kept, Expired
  <2>2. CASE c = b
    BY <1>3, <2>1, <2>2 DEF Kept
  <2>3. CASE c # b
    <3>1. cookie[c].session # 0 => cookie[c].session \notin gone
      BY <2>3 DEF SessionsApart
    <3> QED BY <1>1, <1>2, <1>3, <2>1, <2>3, <3>1 DEF CookiesKept, Kept, Expired
  <2> QED BY <2>2, <2>3
<1>7. StoresBounded'
  BY <1>1, <1>2 DEF StoresBounded
<1> QED BY <1>4, <1>5, <1>6, <1>7

\* A restart loses every id issued so far.
LEMMA UiRestartInv == ASSUME UiInv, Restart PROVE UiInv'
<1> USE DEF UiInv
<1>1. /\ sessions' = [held |-> {}, exp |-> sessions.exp, lost |-> IssuedIds(sessions)]
      /\ tokens' = [held |-> {}, exp |-> tokens.exp, lost |-> IssuedIds(tokens)]
      /\ uiTime' = uiTime /\ cookie' = cookie
  BY DEF Restart, UiTypeOK, StoreType
<1>2. /\ StoreType(sessions') /\ IssuedIds(sessions') = IssuedIds(sessions)
      /\ StoreType(tokens') /\ IssuedIds(tokens') = IssuedIds(tokens)
  BY <1>1 DEF UiTypeOK, StoreType, IssuedIds
<1>3. UiTypeOK'
  BY <1>1, <1>2 DEF UiTypeOK
<1>4. CookiesKept'
  BY <1>1 DEF CookiesKept, Kept, UiTypeOK
<1>5. StoresBounded'
  BY <1>1, FS_EmptySet, SessionAssumption DEF StoresBounded
<1> QED BY <1>1, <1>3, <1>4, <1>5 DEF SessionsApart

\* The passing of time only makes ids expire.
LEMMA UiTickInv == ASSUME UiInv, UiTick PROVE UiInv'
<1> USE DEF UiInv
<1>1. /\ uiTime' = uiTime + 1 /\ sessions' = sessions /\ tokens' = tokens /\ cookie' = cookie
  BY DEF UiTick
<1>2. UiTypeOK'
  BY <1>1 DEF UiTypeOK, StoreType, IssuedIds
<1>3. CookiesKept'
  BY <1>1 DEF CookiesKept, Kept, Expired, StoreType, IssuedIds, UiTypeOK
<1> QED BY <1>1, <1>2, <1>3 DEF SessionsApart, StoresBounded

LEMMA UiInvHolds == UiSpec => []UiInv
<1>1. ASSUME UiInv, [UiNext]_uiVars PROVE UiInv'
  <2>1. CASE UNCHANGED uiVars
    BY <1>1, <2>1 DEF uiVars, UiInv, UiTypeOK, StoreType, IssuedIds, SessionsApart, CookiesKept, Kept,
      Expired, StoresBounded
  <2> QED
    BY <1>1, <2>1, createSessionInv, LoadPageInv, SubmitInv, logoutInv, UiRestartInv, UiTickInv DEF UiNext
<1> QED BY <1>1, UiInitInv, PTL DEF UiSpec

\* Sessions and form tokens are honoured to the last moment of their
\* lifetime, for any browsers, sizes and lifetimes: gcLocked
\* (internal/adminui/session.go, csrf.go) evicts a live id only when there
\* is no room.
THEOREM SessionsHonoured == UiSpec => []CookiesHonoured
<1>1. UiInv => CookiesHonoured
  BY DEF UiInv, CookiesKept, Kept, CookiesHonoured, Authenticated, Validate, Holds
<1> QED BY <1>1, UiInvHolds, PTL

\* Neither store outgrows its maximum, for any browsers, sizes and lifetimes.
THEOREM StoresStayBounded == UiSpec => []StoresBounded
<1>1. UiInv => StoresBounded
  BY DEF UiInv
<1> QED BY <1>1, UiInvHolds, PTL
==============================================================================
