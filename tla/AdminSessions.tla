---------------------------- MODULE AdminSessions ----------------------------
(***************************************************************************)
(* What the administrative UI remembers of a browser, in memory: sessions  *)
(* (internal/adminui/session.go) and the tokens of its forms (csrf.go).    *)
(* Both stores are maps of random ids to expiry times, under a mutex, of a *)
(* bounded size, swept when an id is added; a restart empties both, and    *)
(* browsers keep their cookies.                                            *)
(*                                                                         *)
(* An id is the number of its issue: ids are random and do not repeat.     *)
(* A browser has one cookie of each kind: every page it loads replaces the *)
(* cookie of the form token.  A request is authenticated by its session;   *)
(* the bearer token the UI also takes is the subject of JwksCache.         *)
(***************************************************************************)
EXTENDS Integers, FiniteSets, Sequences

CONSTANTS
  Browsers,
  MaxSessions, SessionTTL,   \* maxSize and lifetime of the sessions
  MaxTokens, CsrfTTL,        \* and of the form tokens
  MaxIssues,                 \* bound on the ids issued by each store
  MaxUiTime                  \* bound on the clock

ASSUME SessionAssumption ==
  /\ {MaxSessions, MaxTokens} \subseteq Nat \ {0}
  /\ {SessionTTL, CsrfTTL, MaxIssues, MaxUiTime} \subseteq Nat

VARIABLES
  uiTime,
  sessions, tokens,   \* the stores: ids held, expiry of every id issued, and
                      \* (history) the ids a full store or a restart may have lost
  cookie              \* of each browser: [session, token], 0 for none

uiVars == <<uiTime, sessions, tokens, cookie>>

NewStore == [held |-> {}, exp |-> <<>>, lost |-> {}]

------------------------------------------------------------------------------
(* The stores.                                                             *)

IssuedIds(st) == 1 .. Len(st.exp)
Expired(st, id) == uiTime > st.exp[id]

\* gcLocked: what has expired goes first; then arbitrary ids, live ones,
\* until there is room for one more.
Swept_Mutant(st) == {id \in st.held : uiTime < st.exp[id]}
Swept(st) == {id \in st.held : ~Expired(st, id)}
gcLocked_Mutant(st, max) ==
  IF Cardinality(Swept(st)) <= max THEN {Swept(st)}
  ELSE {kept \in SUBSET Swept(st) : Cardinality(kept) = max}
gcLocked(st, max) ==
  IF Cardinality(Swept(st)) < max THEN {Swept(st)}
  ELSE {kept \in SUBSET Swept(st) : Cardinality(kept) = max - 1}

\* The ids that may be lost when one more is issued: the live ones held, if
\* there are max of them.
Crowded(st, max) ==
  LET live == {id \in st.held : ~Expired(st, id)}
  IN  IF Cardinality(live) >= max THEN live ELSE {}

\* The stores that issuing an id can leave; the new id is the last of exp.
Issued(st, max, ttl) ==
  {[held |-> kept \cup {Len(st.exp) + 1},
    exp |-> Append(st.exp, uiTime + ttl),
    lost |-> st.lost \cup Crowded(st, max)] : kept \in gcLocked(st, max)}

Holds(st, id) == id \in st.held /\ ~Expired(st, id)

\* Lookup drops the session it finds expired.
LookupSession(b) ==
  sessions' = [sessions EXCEPT !.held = @ \ {id \in @ : id = cookie[b].session /\ Expired(sessions, id)}]

Authenticated(b) == Holds(sessions, cookie[b].session)

\* The form token, the cookie and the store must agree.
Validate(b, token) == cookie[b].token = token /\ Holds(tokens, token)

------------------------------------------------------------------------------
(* Requests.                                                               *)

\* POST /auth/session with a valid bearer token.
createSession(b) ==
  /\ Len(sessions.exp) < MaxIssues
  /\ sessions' \in Issued(sessions, MaxSessions, SessionTTL)
  /\ cookie' = [cookie EXCEPT ![b].session = Len(sessions.exp) + 1]
  /\ UNCHANGED <<uiTime, tokens>>

\* A page with a form: the login page, which is public, or any other, for
\* which Lookup finds a session that is live and changes nothing.
LoadPage(b) ==
  /\ Len(tokens.exp) < MaxIssues
  /\ tokens' \in Issued(tokens, MaxTokens, CsrfTTL)
  /\ cookie' = [cookie EXCEPT ![b].token = Len(tokens.exp) + 1]
  /\ UNCHANGED <<uiTime, sessions>>

\* A request that is refused, or a form whose effect lies elsewhere.
Submit(b) == LookupSession(b) /\ UNCHANGED <<uiTime, tokens, cookie>>

\* The form of any page the browser still shows.
logout(b, token) ==
  /\ Authenticated(b) /\ Validate(b, token)
  /\ sessions' = [sessions EXCEPT !.held = @ \ {cookie[b].session}]
  /\ cookie' = [cookie EXCEPT ![b].session = 0]
  /\ UNCHANGED <<uiTime, tokens>>

\* The process restarts with empty stores.
Restart ==
  /\ sessions' = [sessions EXCEPT !.held = {}, !.lost = IssuedIds(sessions)]
  /\ tokens' = [tokens EXCEPT !.held = {}, !.lost = IssuedIds(tokens)]
  /\ UNCHANGED <<uiTime, cookie>>

UiTick == uiTime < MaxUiTime /\ uiTime' = uiTime + 1 /\ UNCHANGED <<sessions, tokens, cookie>>

UiInit ==
  /\ uiTime = 0
  /\ sessions = NewStore /\ tokens = NewStore
  /\ cookie = [b \in Browsers |-> [session |-> 0, token |-> 0]]

UiNext ==
  \/ \E b \in Browsers :
       \/ createSession(b) \/ LoadPage(b) \/ Submit(b)
       \/ \E token \in IssuedIds(tokens) : logout(b, token)
  \/ Restart
  \/ UiTick

UiSpec == UiInit /\ [][UiNext]_uiVars

------------------------------------------------------------------------------
(* Properties.                                                             *)

\* A browser's session, and the form of the page it loaded last, are good to
\* the last moment of their lifetime, whatever other browsers do, unless the
\* store was once asked for room while full of live ids, or the process was
\* restarted: the sweep takes no id that has not expired.
CookiesHonoured ==
  \A b \in Browsers :
    LET s == cookie[b].session
        t == cookie[b].token
    IN  /\ s # 0 /\ ~Expired(sessions, s) /\ s \notin sessions.lost => Authenticated(b)
        /\ t # 0 /\ ~Expired(tokens, t) /\ t \notin tokens.lost => Validate(b, t)

\* Neither store ever holds more than its maximum.
StoresBounded ==
  Cardinality(sessions.held) <= MaxSessions /\ Cardinality(tokens.held) <= MaxTokens
==============================================================================
