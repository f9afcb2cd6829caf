---------------------------- MODULE AdminRegistry ----------------------------
(***************************************************************************)
(* The administrative registry (internal/adminregistry) in one             *)
(* environment: taxpayers, their establishments, scope bindings, document  *)
(* series, the enrolment in electronic invoicing and the switches of       *)
(* document groups and types; and the report of available types the        *)
(* administrative API computes from them.                                  *)
(*                                                                         *)
(* A row is known by what its table keeps unique: a taxpayer by its NIF,   *)
(* an establishment by its taxpayer and code, a series by its              *)
(* establishment and code.  No row is deleted and none changes owner, so   *)
(* the look-ups a create makes before its INSERT cannot go stale and the   *)
(* create is one step.  A transition of a series and the report are        *)
(* several statements, with other requests between them.  Columns that no  *)
(* step reads (names, statuses, dates, time zones) are left out.           *)
(***************************************************************************)
EXTENDS DocTypes

CONSTANTS
  Nifs, EstCodes, SeriesCodes, ScopeIds,
  Calls,           \* transitions and reports; each is made once
  PolicyGroups,    \* the groups and types the administrators switch
  PolicyTypes,
  MaxWrites        \* bound on the registry writes besides the transitions

ASSUME RegistryAssumption ==
  /\ PolicyGroups \subseteq Groups
  /\ PolicyTypes \subseteq Ids(Seed)
  /\ MaxWrites \in Nat

Ests == Nifs \X EstCodes
SeriesKeys == Ests \X SeriesCodes
NoSeries == [status |-> "none", version |-> 0, type |-> <<"none", "none">>]
NoScope == [nif |-> "none", est |-> <<>>]

VARIABLES
  taxpayers, establishments,   \* the keys of the rows
  scopes,          \* scope_bindings
  series,          \* establishment_series
  enrolment,       \* taxpayer_fe_enrollments, "not_enrolled" without a row
  groupConfig, typeConfig,     \* switches, Empty without a row
  call,            \* where each transition or report is, and what it has read
  writes

policy == <<enrolment, groupConfig, typeConfig>>
regVars == <<taxpayers, establishments, scopes, series, enrolment, groupConfig, typeConfig, call, writes>>

------------------------------------------------------------------------------
(* The switches of an establishment, absent where it has no row.           *)

AllGroups(partial) == [g \in Groups |-> IF g \in DOMAIN partial THEN partial[g] ELSE Empty]
AllTypes(partial) == [i \in Ids(Seed) |-> IF i \in DOMAIN partial THEN partial[i] ELSE Empty]

------------------------------------------------------------------------------
(* Creates and upserts.                                                    *)

Write ==
  /\ writes < MaxWrites
  /\ writes' = writes + 1

CreateTaxpayer(n) ==
  /\ Write /\ n \notin taxpayers
  /\ taxpayers' = taxpayers \cup {n}
  /\ UNCHANGED <<establishments, scopes, series, policy, call>>

CreateEstablishment(e) ==
  /\ Write /\ e[1] \in taxpayers /\ e \notin establishments
  /\ establishments' = establishments \cup {e}
  /\ UNCHANGED <<taxpayers, scopes, series, policy, call>>

CreateScopeBinding(s, n, e) ==
  /\ Write /\ scopes[s] = NoScope
  /\ e \in establishments /\ e[1] = n
  /\ scopes' = [scopes EXCEPT ![s] = [nif |-> n, est |-> e]]
  /\ UNCHANGED <<taxpayers, establishments, series, policy, call>>

CreateSeries(k, t) ==
  /\ Write /\ k[1] \in establishments /\ series[k] = NoSeries
  /\ Lookup(SeedRows, t) # {}
  /\ series' = [series EXCEPT ![k] = [status |-> "draft", version |-> 1, type |-> t]]
  /\ UNCHANGED <<taxpayers, establishments, scopes, policy, call>>

UpsertDocGroupConfig(e, g, switch) ==
  /\ Write /\ e \in establishments
  /\ groupConfig' = [groupConfig EXCEPT ![e][g] = switch]
  /\ UNCHANGED <<taxpayers, establishments, scopes, series, enrolment, typeConfig, call>>

UpsertDocTypeConfig(e, t, switch) ==
  /\ Write /\ e \in establishments /\ Lookup(SeedRows, t) # {}
  /\ typeConfig' = [typeConfig EXCEPT ![e][t] = switch]
  /\ UNCHANGED <<taxpayers, establishments, scopes, series, enrolment, groupConfig, call>>

UpsertFEEnrollment(n, status) ==
  /\ Write /\ n \in taxpayers
  /\ enrolment' = [enrolment EXCEPT ![n] = status]
  /\ UNCHANGED <<taxpayers, establishments, scopes, series, groupConfig, typeConfig, call>>

------------------------------------------------------------------------------
(* TransitionSeries.                                                       *)

validateSeriesTransition(from, to) ==
  \/ from = "draft" /\ to \in {"active", "closed"}
  \/ from = "active" /\ to = "closed"

NoReport == [status |-> "none", aderiu |-> FALSE, groups |-> {}, types |-> {}]
NewCall == [pc |-> "new", key |-> <<>>, to |-> "none", version |-> 0, est |-> <<>>, groups |-> <<>>,
            types |-> <<>>, result |-> NoReport]
Done == [NewCall EXCEPT !.pc = "done"]

\* The client names the version it has seen; the row read must still have
\* it, so the client's version is the one read here or the call is refused.
BeginTransition(c, k, to) ==
  /\ call[c].pc = "new" /\ series[k] # NoSeries
  /\ call' = [call EXCEPT ![c] =
       IF validateSeriesTransition(series[k].status, to)
       THEN [NewCall EXCEPT !.pc = "update", !.key = k, !.to = to, !.version = series[k].version]
       ELSE Done]
  /\ UNCHANGED <<taxpayers, establishments, scopes, series, policy, writes>>

VersionMatches_Mutant(c) == TRUE
VersionMatches(c) == series[call[c].key].version = call[c].version

\* establishment_series_one_active_per_type_idx
IndexAllows_Mutant(k) == TRUE
IndexAllows(k) ==
  ~ \E j \in SeriesKeys \ {k} :
      j[1] = k[1] /\ series[j].type = series[k].type /\ series[j].status = "active"

UpdateSeries(c) ==
  LET k == call[c].key IN
  /\ call[c].pc = "update"
  /\ call' = [call EXCEPT ![c] = Done]
  /\ \/ /\ VersionMatches(c) /\ (call[c].to = "active" => IndexAllows(k))
        /\ series' = [series EXCEPT ![k].status = call[c].to, ![k].version = call[c].version + 1]
     \/ /\ ~(VersionMatches(c) /\ (call[c].to = "active" => IndexAllows(k)))
        /\ UNCHANGED series
  /\ UNCHANGED <<taxpayers, establishments, scopes, policy, writes>>

------------------------------------------------------------------------------
(* getDocumentAvailability: the establishment, then the switches of the    *)
(* groups, of the types, and the enrolment, each in a query of its own.    *)

BeginReport(c, e) ==
  /\ call[c].pc = "new" /\ e \in establishments
  /\ call' = [call EXCEPT ![c] = [NewCall EXCEPT !.pc = "groups", !.est = e]]
  /\ UNCHANGED <<taxpayers, establishments, scopes, series, policy, writes>>

ReadGroups(c) ==
  /\ call[c].pc = "groups"
  /\ call' = [call EXCEPT ![c].pc = "types", ![c].groups = groupConfig[call[c].est]]
  /\ UNCHANGED <<taxpayers, establishments, scopes, series, policy, writes>>

ReadTypes(c) ==
  /\ call[c].pc = "types"
  /\ call' = [call EXCEPT ![c].pc = "enrolment", ![c].types = typeConfig[call[c].est]]
  /\ UNCHANGED <<taxpayers, establishments, scopes, series, policy, writes>>

\* When the enrolments cannot be read the report takes "not_enrolled".
EnrolmentsRead(c) == {enrolment[call[c].est[1]], "not_enrolled"}

ReportOf(c, status) ==
  ComputeAvailability(SeedRows, AllGroups(call[c].groups), AllTypes(call[c].types), status)

ReadEnrolment(c) ==
  /\ call[c].pc = "enrolment"
  /\ \E status \in EnrolmentsRead(c) :
       call' = [call EXCEPT ![c] = [NewCall EXCEPT !.pc = "reported", !.result = ReportOf(c, status)]]
  /\ UNCHANGED <<taxpayers, establishments, scopes, series, policy, writes>>

------------------------------------------------------------------------------
RegInit ==
  /\ taxpayers = {}
  /\ establishments = {}
  /\ scopes = [s \in ScopeIds |-> NoScope]
  /\ series = [k \in SeriesKeys |-> NoSeries]
  /\ enrolment = [n \in Nifs |-> "not_enrolled"]
  /\ groupConfig = [e \in Ests |-> [g \in PolicyGroups |-> Empty]]
  /\ typeConfig = [e \in Ests |-> [t \in PolicyTypes |-> Empty]]
  /\ call = [c \in Calls |-> NewCall]
  /\ writes = 0

RegNext ==
  \/ \E n \in Nifs : CreateTaxpayer(n) \/ \E status \in EnrolmentStates : UpsertFEEnrollment(n, status)
  \/ \E e \in Ests :
       \/ CreateEstablishment(e)
       \/ \E s \in ScopeIds, n \in Nifs : CreateScopeBinding(s, n, e)
       \/ \E switch \in {"T", "F"} :
            \/ \E g \in PolicyGroups : UpsertDocGroupConfig(e, g, switch)
            \/ \E t \in PolicyTypes : UpsertDocTypeConfig(e, t, switch)
  \/ \E k \in SeriesKeys, t \in PolicyTypes : CreateSeries(k, t)
  \/ \E c \in Calls :
       \/ \E k \in SeriesKeys, to \in {"active", "closed"} : BeginTransition(c, k, to)
       \/ UpdateSeries(c)
       \/ \E e \in Ests : BeginReport(c, e)
       \/ ReadGroups(c) \/ ReadTypes(c) \/ ReadEnrolment(c)

RegSpec == RegInit /\ [][RegNext]_regVars

------------------------------------------------------------------------------
(* Properties.                                                             *)

\* However transitions interleave, a series goes from draft to active to
\* closed, never back and never out of closed, and each move that commits
\* raises its version by one: no two moves start from the same version
\* (UPDATE ... WHERE version in TransitionSeries).
SeriesForward ==
  [][\A k \in SeriesKeys :
       series[k] # NoSeries /\ series'[k] # series[k] =>
         /\ validateSeriesTransition(series[k].status, series'[k].status)
         /\ series'[k].version = series[k].version + 1 /\ series'[k].type = series[k].type]_regVars

\* At most one series of a type is active in an establishment, also when
\* two activations have both passed TransitionSeries' checks before either
\* writes.
OneActivePerType ==
  \A j, k \in SeriesKeys :
    /\ j[1] = k[1] /\ series[j].type = series[k].type
    /\ series[j].status = "active" /\ series[k].status = "active"
    => j = k
==============================================================================
