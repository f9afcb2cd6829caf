------------------------------ MODULE JwksCache ------------------------------
(***************************************************************************)
(* The cache of the identity provider's signing keys, through which every  *)
(* token of an administrator is verified (internal/adminauth/jwks.go).     *)
(*                                                                         *)
(* get holds the cache's mutex from its first statement to its answer, the *)
(* fetches included, so one call is under way at a time; the provider and  *)
(* the clock go on meanwhile.  A fetch ends within the timeout of the HTTP *)
(* client.                                                                 *)
(*                                                                         *)
(* A key is its kid: a provider that gives a new key an old kid, and the   *)
(* verification of the signature, are left out.  A document that cannot be *)
(* read, is too large or has no usable key is a fetch that fails, so the   *)
(* provider always publishes a key; one that parseJWK skips is a key that  *)
(* is not published.                                                       *)
(***************************************************************************)
EXTENDS Integers

CONSTANTS
  Kids,          \* the keys
  CacheTTL,      \* JWKSCacheTTL
  MinRefresh,    \* JWKSMinRefresh
  FetchTimeout,  \* the timeout of the HTTP client
  MaxTime        \* bound on the clock

ASSUME JwksAssumption ==
  /\ CacheTTL \in Nat \ {0} /\ MinRefresh \in Nat \ {0} /\ FetchTimeout \in Nat
  /\ MaxTime \in Nat

VARIABLES
  time,        \* the clock
  published,   \* the keys the provider publishes
  keys,        \* the cache: the keys of the last document read,
  fetchedAt,   \*   when it was read, -1 for never,
  lastForced,  \*   and when the last refresh for an unknown kid began
  get,         \* the call that holds the mutex
  answer,      \* what get last answered of a key
  since,       \* history: since when a key is published, 0 if it is not
  until        \* history: when a key was withdrawn, 0 if it is published

cacheVars == <<keys, fetchedAt, lastForced>>
providerVars == <<published, since, until>>
jwksVars == <<time, published, keys, fetchedAt, lastForced, get, answer, since, until>>

KeySets == (SUBSET Kids) \ {{}}
Never == 0 - MinRefresh
NoGet == [pc |-> "idle", kid |-> "none", at |-> 0, sentAt |-> 0, doc |-> {}]
NoAnswer == [kid |-> "none", at |-> 0, result |-> "error"]

------------------------------------------------------------------------------
Stale_Mutant == fetchedAt = -1 \/ time - fetchedAt > CacheTTL + FetchTimeout
Stale == fetchedAt = -1 \/ time - fetchedAt > CacheTTL

\* The zero time is longer ago than any interval.
MayForce(at) == at - lastForced >= MinRefresh

GetAnswer(kid, at, result) ==
  /\ get' = NoGet
  /\ answer' = [kid |-> kid, at |-> at, result |-> result]

SendFetch(kid, at, why) ==
  /\ get' = [pc |-> why, kid |-> kid, at |-> at, sentAt |-> time, doc |-> {}]
  /\ answer' = NoAnswer

\* The first part of get: up to an answer or to the first fetch.
Get(kid) ==
  /\ get.pc = "idle"
  /\ \/ kid \in keys /\ ~Stale /\ GetAnswer(kid, time, "key")
     \/ Stale /\ SendFetch(kid, time, "stale")
     \/ kid \notin keys /\ ~Stale /\ MayForce(time) /\ SendFetch(kid, time, "forced")
     \/ kid \notin keys /\ ~Stale /\ ~MayForce(time) /\ GetAnswer(kid, time, "unknown")
  /\ UNCHANGED <<time, cacheVars, providerVars>>

Fetching == get.pc \in {"stale", "forced"}

\* The provider answers with the keys it publishes.
Respond ==
  /\ Fetching /\ get.doc = {}
  /\ get' = [get EXCEPT !.doc = published]
  /\ UNCHANGED <<time, cacheVars, answer, providerVars>>

\* A fetch that fails leaves the cache, and lastForced, as they were.
LastForcedAfterFailure_Mutant == IF get.pc = "forced" THEN get.at ELSE lastForced
LastForcedAfterFailure == lastForced

FetchFails ==
  /\ Fetching
  /\ lastForced' = LastForcedAfterFailure
  /\ get' = NoGet /\ answer' = NoAnswer
  /\ UNCHANGED <<time, keys, fetchedAt, providerVars>>

\* refreshLocked ends and get goes on: a refresh of a stale cache that does
\* not bring the kid is followed by a forced one, if the interval allows.
Refreshed ==
  /\ Fetching /\ get.doc # {}
  /\ keys' = get.doc
  /\ fetchedAt' = time
  /\ lastForced' = IF get.pc = "forced" THEN get.at ELSE lastForced
  /\ \/ get.kid \in get.doc /\ GetAnswer(get.kid, get.at, "key")
     \/ /\ get.kid \notin get.doc
        /\ get.pc = "stale" /\ MayForce(get.at)
        /\ SendFetch(get.kid, get.at, "forced")
     \/ /\ get.kid \notin get.doc
        /\ get.pc = "forced" \/ ~MayForce(get.at)
        /\ GetAnswer(get.kid, get.at, "unknown")
  /\ UNCHANGED <<time, providerVars>>

\* The provider withdraws keys and publishes others.
RotateKeys(set) ==
  /\ published' = set
  /\ since' = [k \in Kids |-> IF k \notin set THEN 0 ELSE IF k \in published THEN since[k] ELSE time]
  /\ until' = [k \in Kids |-> IF k \in set THEN 0 ELSE IF k \in published THEN time ELSE until[k]]
  /\ UNCHANGED <<time, cacheVars, get, answer>>

AuthTick ==
  /\ time < MaxTime
  /\ Fetching => time < get.sentAt + FetchTimeout
  /\ time' = time + 1
  /\ UNCHANGED <<cacheVars, get, answer, providerVars>>

JwksInit ==
  /\ time = 0
  /\ published \in KeySets
  /\ keys = {} /\ fetchedAt = -1 /\ lastForced = Never
  /\ get = NoGet
  /\ answer = NoAnswer
  /\ since = [k \in Kids |-> 0] /\ until = [k \in Kids |-> 0]

JwksNext ==
  \/ \E kid \in Kids : Get(kid)
  \/ Respond \/ FetchFails \/ Refreshed
  \/ \E set \in KeySets : RotateKeys(set)
  \/ AuthTick

JwksSpec == JwksInit /\ [][JwksNext]_jwksVars

------------------------------------------------------------------------------
(* Properties.                                                             *)

LastPublished(k) == IF k \in published THEN time ELSE until[k]

\* A key the provider has withdrawn is accepted for CacheTTL and the time a
\* fetch may take, and no longer, however fetches fail and calls arrive:
\* get answers from the cache only while it is fresh.
WithdrawnKeyEnds ==
  answer.result = "key" => LastPublished(answer.kid) >= answer.at - CacheTTL - FetchTimeout

\* A key is answered as unknown only if it is not published or has been
\* published for less than MinRefresh: a refresh that fails must not use up
\* the interval, nor may one that fetched before the key was there.
UnknownIsNew ==
  answer.result = "unknown" =>
    answer.kid \notin published \/ since[answer.kid] > answer.at - MinRefresh
==============================================================================
