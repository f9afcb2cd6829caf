# Verification of the BWB fiscal module

TLA+ models of the fiscal module, the TLC runs that check them on small
instances, and theorems, proved with TLAPS, that hold for every instance. The
models are translated from the Go code under `src/`; `PROJECT.json` maps each
definition to the lines it stands for.

To repeat a run: `tlc -config Outbox_sqlite.cfg MCOutbox`. To repeat a proof:
`tlapm OutboxProofs.tla`.

## 1. The system

The module seals fiscal documents for points of sale, numbers them, and submits
them to the tax authority. The parts that hold its logic:

| Part | State it keeps | Operations | Meets |
|---|---|---|---|
| Document seal (`persistence/seal.go`, `seal_tx.go`) | documents, idempotency records, series counters | `SealInTx`: key, external id, number, document, record, in one transaction | other calls, through row locks and unique indexes; writes the first ledger event and the outbox row |
| Document endpoint (`httpapi/documents.go`) | none | `POST /v1/documents`: authenticate, validate, seal | `auth`, the seal |
| Authority submission (`persistence/outbox.go`) | outbox rows, ledger events, attempts and responses | claim with reclaim, mark, submit, persist, release | other workers, operators, the authority |
| Authority simulator (`authority/simulator`) | scripted outcomes, call counts | `Submit` | the worker |
| Queue operations (`adminops`) | `ops_disposition`, idempotency keys of actions | retry, cancel, manual review; summaries, dashboard | the same outbox rows as the worker |
| Fixture queue (`authority/fefixqueue`) | queue rows with attempts and `next_attempt_at` | enqueue, claim, requeue, finish, reconcile | engine, mock |
| Fixture boundary and mock (`feboundary`, `femock`) | submissions, replay store, scripted codes, in memory | enqueue, sign, post; answer or replay | the queue's passes |
| Fixture runtime (`fixtruntime`) | open or closed | ticking worker, `ProcessOne`, `Close` | the queue, administrators |
| API credentials (`persistence/credentials.go`, `cmd/fiscal-admin`) | scopes, credentials, audit events | create scope, issue, rotate, revoke | other administrators, through the scope's lock; token sink |
| Authentication (`auth`) | none | row by token hash, then clock | the credential tables |
| Administrative registry (`adminregistry`) | taxpayers, establishments, bindings, profiles, series, enrolments, document policy | create, update, transition | the secret store, through handlers |
| Secret store (`secretstore`, `secadm`) | encrypted material with status and version | put, rotate, revoke, reveal, offline validation | the registry's readiness flags |
| Administrative access (`adminauth`, `adminapi`, `adminui`) | JWKS cache, sessions, CSRF tokens | authenticate, authorise, handle | everything above |
| Pure rules (`doctype`, `money`, `quantity`, `fiscaltime`, `canonical`, `saftao`, `fepath`, `feqr`, `fejws`) | none | parse, format, hash, decide, map, sign | the seal, the exports |
| Deployment (`scripts/deploy`, `deploy/`) | releases, links, nginx state, timers | install, activate, roll back, open | the running service |

What is hard in it is the overlap of transactions, processes and time: workers
that outlive their claim, statements that read at different moments of a READ
COMMITTED transaction, answers that arrive after a timeout, commits whose answer
is lost, credentials that change while a request is being authenticated. What
makes each part correct:

- seal: numbers of a series without gap or repetition; one document for one
  idempotency key; no call waits for ever;
- submission: one answer recorded per document, with its response; acceptance,
  rejection and cancellation are final; an uncertain outcome is resolved in the
  end; no row is forgotten;
- fixture queue: an outcome was really given by the mock; the retry budget
  holds; every row is settled;
- credentials: one active credential and one in grace; rotation without a gap;
  no credential without a delivered token; no ended token accepted, no usable
  one refused;
- profiles and material: an active profile is ready; validation does not outlive
  the material it was made of;
- registry: series move forward only and one of a type is active; what a report
  offers does not hang on the query that may fail;
- queue actions: one key, one effect;
- administrative access: a withdrawn key is soon refused and a new one soon
  accepted; a session and a form are good for their lifetime, in bounded stores;
- document types: the checks pin the released table; no channel that does not
  carry a type is offered for it;
- SAF-T export: every record of the period is a document or an omission; exact
  totals; a defect is reported, not fatal; successive periods neither miss nor
  repeat a sale.

`PROJECT.json` lists every part (`components`) and the places where something
can go wrong that a test would hardly reach (`hazards`).

## 2. Modules

| Module | Models | Its runs |
|---|---|---|
| `SubmissionLifecycle` | what a reader sees of a document's status, abstractly | refined by `Outbox` |
| `Outbox`, `MCOutbox`, `OutboxProofs` | `outbox.go`, `adminops/actions.go` | `Outbox_*.cfg` |
| `SealContract` | numbered books with idempotent entries, abstractly | refined by `SealTx` |
| `SealTx`, `MCSealTx`, `SealTxProofs` | `seal.go`, `seal_tx.go`, `documents.go` | `SealTx_*.cfg` |
| `FixtureQueue`, `FixtureQueueProofs` | `fefixqueue`, `feboundary`, `femock`, `fixtruntime` | `FixtureQueue_*.cfg` |
| `Credentials`, `MCCredentials`, `CredentialsProofs` | `credentials.go`, `auth.go`, `cmd/fiscal-admin` | `Credentials.cfg` |
| `AuthorityMaterial`, `AuthorityMaterialProofs` | `secretstore`, `adminregistry/authority_profile.go`, `authority/prep`, the handlers that join them | `Admin.cfg`, `AuthorityMaterial_flags.cfg` |
| `AdminRegistry` | `adminregistry`, the availability report of `adminapi` | `Admin.cfg` |
| `OpsActions` | `adminops/actions.go`, idempotency of one action | `Admin.cfg` |
| `JwksCache` | `adminauth/jwks.go` | `Admin.cfg` |
| `AdminSessions` | `adminui/session.go`, `csrf.go` | `Admin.cfg` |
| `MCAdmin` | the five above side by side | |
| `AdminProofs` | the proofs of the last four | |
| `DocTypes`, `DocumentCatalog`, `DocTypesProofs` | `doctype`: catalogue, its checks, availability | `Rules.cfg` |
| `SaftExport`, `SaftExportProofs` | `saftao`, `persistence/saft_*.go` | `Rules.cfg`, `SaftExport_period.cfg` |
| `MCRules` | the two above side by side | |

A name that ends in `_Mutant` (or another suffix of a mapped definition) is a
plausible wrong version of the definition after it; no specification uses it. It
is there to show that the property it is listed with can fail.

### Outbox

`outbox`, `disposition` and `waiting` are the columns of `outbox_messages`;
`ledger` and `responses` are the append-only tables, with their `seq` and
`attempt_no` as indexes; the rest is a worker's local state and the locks. A
pass is a sequence of statements: `ClaimDoc` (`claimOutbox`, with its reclaim of
rows in flight for more than 30 s), `Mark*`, `Submit`, then `Persist*` or
`Release*`. `MarkFails`, `SubmitFails`, `PersistFails`, `ReleaseFails` and
`Crash` are the error paths; `OpsRetry`, `OpsCancel` and `OpsManualReview` are
`ApplyQueueAction`.

With `Dialect = "sqlite"` one transaction runs at a time (`BEGIN IMMEDIATE`, one
connection, `platform/db/db.go`); with `"postgres"` every SELECT sees what is
committed when it runs and only updated rows are locked. `PersistReadSeq` merges
two reads (`attempt_no` and `seq`): both are checked against unique indexes at
the end, so a commit between them is refused just as one after them is. Time is
abstract: any row in flight may be stale.

Of the three outcomes only acceptance and rejection are verdicts. The repository
wants `authority_outcome_unknown` reconciled
(`docs/04-domain/document-state-machine.md`), and `SubmissionLifecycle` has that as
an action, `Reconcile`; `outbox.go` has no step for it and closes the row, so the
refinement never uses the action and `UncertainResolved` fails (section 3).

### SealTx

One action per statement that can wait or fail: `OwnKey`, `Replay` and
`KeyConflict` (`resolveIdempotency`), `CheckExternal`, `NextFiscalSeq`,
`InsertDocument`, `Commit`. The rows and index entries a transaction has written
are locks until it ends. `Commit` may lose its answer; `Fails` rolls back at any
point; a retry is another call with the same request.

### FixtureQueue

A caller's `pc` walks through a pass: claim, the engine's map, the POST, the
mock's replay lookup and its answer (two critical sections), the engine's
finish, the UPDATE. The engine's map, the replay store and the script are lost by
`Crash` and by `CloseRuntime`, `CloseEngine`, `Reopen`; the rows are kept. The
reclaim takes rows whose pass is gone, and up to `MaxOvertakes` times a row whose
pass still runs: the HTTP client's timeout equals the 30 s limit, so this
happens.

### Credentials

`Issue`, `Rotate` and `Revoke` check what the code checks before the lock;
`BeginTx` takes the scope's lock and reads; `Deliver` hands out the token;
`Commit` writes. `Refused`, `DeliverFails` and `Abort` are the ways to fail.
Nobody sees a transaction's writes before it commits and nobody changes what it
has read under the lock, so its reads are one step and its writes another. With
`Serial` the lock is SQLite's single writer, otherwise PostgreSQL's advisory lock
of the scope. An authentication reads the row (`ReadRow`) and later the clock
(`Decide`). The unique indexes are left out on purpose: `OneOfEach` shows that
the lock is enough. `grace_until` is compared with the clock before the wait for
the lock, as in the code, so a slow rotation may commit a grace that is over.
Audit rows are written in the same transaction and are left out; so is the static
development token, and the check of `scopes.status` (`auth.go:215`):
`CreateScope` writes `active` and no statement of the repository changes it.

### AuthorityMaterial

`vault` is what `secret_store_entries` holds for each role and name, `profile`
the row of `authority_profiles` with the name bound to each role, or none, `req`
the requests under way, each with the statement it has reached and the copy of
the profile it will write. A change of material (`Put`, `Rotate`, `Revoke`, then
`WriteMaterial`) commits first; with `authority_profile_id` it goes on to
`SyncRead` and `SaveProfile`, which passes through the activation gate like
every other update. `PatchProfile` checks the bindings on a preview and reads
again; the forms of the UI (`EditForm`, `WizardRefs`, `WizardAck`) do not check
them. A name in a request replaces the one bound (`Apply`). `ValidateOffline`
and `RevealCert` reveal key and certificate one after the other, by the names
the request gives, which need not be the bound ones. `overlapped` says that two
requests have met: `OfflineInvalidated` fails before that, so lost updates are
not what breaks it.

### AdminRegistry

Creates and upserts are one step each (no row is deleted or changes owner, so
their look-ups do not go stale). A transition reads (`BeginTransition`) and
writes with the version and the partial unique index (`UpdateSeries`). The
availability report is four queries, of which the last may fail unnoticed; its
result is the whole report of `ComputeAvailability`, the enrolment it went by
and the reasons against each type included. A report may mix the switches of two
moments, and nothing in the repository promises otherwise.

### OpsActions

`Outbox` has the effect of operators' actions beside the worker; here is one
action that its client repeats: look-up of the key outside the transaction, read
of the row, `UPDATE ... WHERE updated_at` with the INSERT of the key. The clock
may stand still between two changes, so `updated_at` alone does not tell them
apart. `WorkerStep` is what the statements of `outbox.go` do to the row's state.

### JwksCache

`get` holds the mutex throughout, so one call runs at a time while clock and
provider move. A stale cache is fetched; an unknown key forces a fetch, once per
`MinRefresh`; a fetch that fails changes nothing. `since` and `until` are history.

### AdminSessions

Two bounded stores of ids with expiry (sessions, form tokens), swept on issue;
a restart empties them and browsers keep their cookies. `lost` is history: the
ids a store held, live, when an issue found it full of live ids, and those issued
before a restart.

### DocTypes, DocumentCatalog

`DocTypes` has the released table, `ParseCatalog`, the nine `Check*Invariants`,
`ResolveAPI` and `ComputeAvailability` as operators; the last gives the enrolment,
the groups switched on and, for each type, the reasons against it, none for a type
that is offered. `DocumentCatalog` edits a
cell, loses or copies a row of the table, loads and checks it: what the checks
let through is what they do not pin.

### SaftExport

A ledger grows record by record and is exported once, for a group, a period and
the caller's limits. A record is a good one with a set of faults, each named
after the omission or the refusal it causes; `Omit*` is what a mapping reports,
`Refused*` what the builder refuses, so that the agreement of the two lists, kept
in different files by the code, is a property (`FailsOnlyForPoison`). Amounts are
written as decimals and read back (`formatCents`, `parseMoneyCents`,
`formatQuantity`, `parseDecimalMilli`). The instants of sealed sales are those of
a day that its bounds tell apart: midnight, the rest of the first second, the last
microsecond, any other. On SQLite they are compared as text; on PostgreSQL the
upper bound, with its nine decimals, rounds to the next midnight, which the list
then includes (`IssuedWithin`). Only sales have a persistent source; the other five
groups are read from the synthetic adapters, as their persistent sources return
`ErrUnsupported`.

The lines a record may have, the calendar and the limits are constants. A record
with more lines than a document may have has the fault `too_many_lines`: the
source of sales refuses it, of payments and the general ledger the builder does.
Loops over records and lines (`SumSeq`, `Picked`, `AddedTo`, `TotalOf`) are
recursive functions of the number of elements gone through, and `SortByDoc` is
any ascending rearrangement, which for records that differ in their id is the
one `sort.Slice` gives. General ledger entries have one journal: the code sorts
by journal first and takes the journal's description from its first record.
Amounts are natural numbers without a bound: the code's are `int64`, and what
would take a product of a line or a total beyond that is left out.

## 3. Runs

| Run | Bounds | Shows |
|---|---|---|
| `outbox_sqlite` | 1 document, 2 workers, 2 faults | types; chained ledger; acceptance and rejection final; refinement of `SubmissionLifecycle`; every row is closed in the end |
| `outbox_postgres` | 1 document, 2 workers, 2 faults, ledgers of at most 6 events | one verdict and final cancellation under READ COMMITTED |
| `seal_postgres` | 3 calls, 2 keys, 2 documents, 2 series, statement by statement | types; continuous numbering; answers agree; refinement of `SealContract`; every call returns |
| `fixture_liveness` | 1 row, worker and administrator, 2 attempts, 2 overtaken passes, 1 fault | types; answers backed; retry budget; settled rows kept until a pass is overtaken; every row is settled for good |
| `credentials` | 1 scope, 3 credentials, 2 administrators, 1 request, times 0 and 1 | types and five properties |
| `admin` | 3 requests on a profile, with 2 names and 2 key pairs; 2 calls among 5 registry writes; 3 attempts of one action, clock 0 to 1; 2 keys, times 0 to 4; 2 browsers, stores of 2, 3 ids each, times 0 to 2 | the properties of the five administrative modules |
| `rules` | one edit of any cell of the released table; ledgers of 2 records with 2 deviations, 6 groups, every period of 2 days, files of at most 2 documents, limits unset or 1 | the properties of the catalogue and of the export (PostgreSQL) |

The bounds are the least with which the cases happen: two workers or calls that
meet on one row; a third call that meets what the two left behind; two series to
tell a per-series rule from a global one; two attempts so that one is the last
and one is not; three credentials for active, grace and revoked; a clock with a
before and an after. Of the administrative side: three requests, for a lost
update and one that builds on it; five writes, for a taxpayer, an establishment,
and two series of one type or two changes while a report is made; a clock of
keys that goes past lifetime, interval and fetch; stores that two browsers can
fill. Of the rules: one edit, since the checks are about single cells
(`RowsPinned` is about any number); two records, since the builder compares at
most two and what happens in longer ledgers is proved; limits of one, which two
records reach and exceed. With one scope SQLite's single writer and PostgreSQL's
lock per scope are the same lock; several scopes and environments are left to
the theorems about `Credentials`, which hold for any number of each and for both
values of `Serial`. In the same way several documents in one SQLite queue are
left to `OutboxProofs`: the run has one, with two faults. The ledger bound of
`outbox_postgres` is a state constraint: alternating mark and release can
lengthen a ledger without end, six events hold the seal, two rounds and a
verdict. `admin` and `rules` put modules side by side that share no state: a
behaviour moves one of them.

Symmetry is used for requests, workers, documents and credentials, which the
models only compare, and not in runs that check liveness.

Deadlock is not checked where the system may stop: all calls done, all rows
closed, or a bound reached.

### What the code does otherwise

Five runs end in a counterexample, each against a sentence of the repository
(`findings` has the quotations):

- `outbox_decision_reverted`: in PostgreSQL `markAuthorityProcessing` reads the
  last status and the next `seq` in two statements; a verdict committed between
  them is followed by `authority_processing`. `DecisionFinal` holds under SQLite.
- `outbox_uncertain`: an unknown outcome closes its row like a verdict; nothing
  reconciles it, and the document stays uncertain however fairly the worker runs.
- `fixture_outcome_reverted`: a pass overtaken by the reclaim requeues or
  overwrites a row another pass has settled (`WHERE id` only). `OutcomeKept`, the
  same until a pass is overtaken, holds and is proved.
- `saft_period`: on SQLite a sale sealed in the first second of a period's first
  day, or in the last microsecond of its last, is in no export: `issued_at` is
  text with six decimals, compared with bounds that have none or nine.
  With `SaftDialect = "postgres"` the run fails as well: the upper bound is rounded
  to the next midnight, and a sale of exactly that instant is listed for both days,
  as a document of the second and an omission of the first, and counts against the
  limits of both.
- `material_flags`: rotating the material of an active profile leaves
  `offline_validated` true: the patch that would take it away is refused by the
  activation gate, and the refusal is only audited.

Observed while modelling, without a run of their own:

- cancelling a row in flight makes the worker roll back the answer it then
  receives;
- a reconciliation of a settled fixture row whose poll fails erases the row's
  mock request id (only administrators reconcile, the worker never does);
- the stores of sessions and of form tokens drop arbitrary ids when full of live
  ones (a comment in `csrf.go` says expired or oldest);
- each page a browser loads replaces its one form cookie, so the form of an older
  tab is refused;
- a change of material without `authority_profile_id`, and the flags ticked in
  the edit form, leave readiness flags that nothing has checked; the same holds of
  `offline_validated` set by a validation of references that are not the bound ones;
- the wizard's second step can bind a role to a name under which nothing is stored
  and leaves `secrets_ready` set, which a PATCH of the API would have refused
  (`CHANGELOG.md:65` has the flag require the three references to be present);
- two requests of `Put` on one revoked reference both find it revoked (the row is
  read without a lock), and the second replaces the material of the first, though
  `Put` refuses what is present (`sqlstore.go:70`);
- a report that cannot read the enrolments is answered all the same and says
  `not_enrolled`, `fe_aderiu` false, of a taxpayer that may have been enrolled all
  along (`doc_policy_handlers.go:56`); the types it offers are the right ones
  (`OfferWhateverEnrolment`), the reasons against the others need not be.

### Fairness

- `Outbox`: some process keeps calling `ProcessNextAuthoritySubmission` (the
  repository has no production loop for it yet; this is an assumption on the
  caller). A started pass goes on: SQLite's busy timeout and PostgreSQL's queues
  of lock waiters give it the lock, hence strong fairness of its statements.
  `ORDER BY available_at` passes over no due row for ever: strong fairness of a
  row's claim. Backoffs end. Faults are finite and never have to happen.
- `SealTx`: weak fairness of a running transaction's next statement, nothing
  else; no client has to call.
- `FixtureQueue`: weak fairness of a pass's next step and of the worker's start
  (a 2 s ticker), strong fairness of a row's claim (`ORDER BY next_attempt_at`),
  weak fairness of backoff, of the engine's close after the runtime's, and of
  reopening (the service is restarted by systemd and by deployments).

## 4. Proofs

All theorems hold for every set of documents, workers, calls, rows, callers,
scopes, credentials, requests, keys, series and browsers and for every bound on
faults, attempts, writes, edits and time. The assumptions are the named
`ASSUME`s of the models: `None` is not one of the other values, bounds and
durations are natural numbers, the amounts of a line are natural numbers,
uploads, patches and switches are of the kinds the handlers accept, and for the
fixture queue the callers are finitely many. Three theorems of `OutboxProofs`
have `Dialect = "sqlite"` as a hypothesis: in PostgreSQL `DecisionFinal` fails
(section 3).

- `OutboxProofs`: `TypeCorrect`, `OneVerdict` (`VerdictRecordedOnce`, both
  dialects) and `CancelForGood` (`CancelIsFinal`). The invariant adds to the
  property that a worker carries an answer the authority gave it
  (`CarriesAnswer`), that a worker that found a verdict leaves it
  (`DuplicateSeen`), that a locked row is in flight (`LockedInFlight`) and that a
  cancelled one is dead (`CancelledDead`): without them a late `Persist` or
  `Release` could write anything over a closed row.
- `OutboxProofs`, SQLite: `LedgersChained` (`LedgerChained`), `DecisionsFinal`
  (`DecisionFinal`) and the refinement `LifecycleImplemented`
  (`ImplementsLifecycle`). `SerialInv` says that a worker between the first and
  the last statement of a transaction is the one writer (`WritesAlone`), so that
  what it has read is still the last event of its document's ledger
  (`ReadsCurrent`). A ledger then moves in three ways only, a mark, a decision and
  a release, each from the status it says (`LedgerMoves`); they and `Submit` map
  to four of the five actions of `SubmissionLifecycle`, and every other statement,
  crash or operator action to a stutter. `DecisionFinal` is about acceptance and
  rejection: that nothing follows an unknown outcome either is a defect of the code
  (`outbox_uncertain`), not a property to prove.
- `SealTxProofs`: `SealTypeCorrect`, `NumberingContinuous`, `AnswersConsistent`.
  `SealInv` says what a running call holds: its key, with no record
  (`HoldsKey`), and from the counter on the series' lock with `seq` one above
  `lastSeq` (`HoldsNumber`); and that records and answers name sealed documents
  (`RecordSound`, `AnswerSound`).
- `SealTxProofs`: the refinement `ContractImplemented` (`ImplementsContract`), both
  dialects. The book of `SealContract` is read from the committed documents by
  their numbers and from the records of their keys; `BookInv` makes those choices
  unique: a document has the record of one key and a key one document
  (`HasKey`, `OwnDocument`), a call asks once (`AsksOnce`) and a running call holds
  its external id (`HoldsExternal`). A commit appends one entry, at the end of one
  book, and leaves every other page and every reply as they were.
- `FixtureQueueProofs`: `FixtureTypeCorrect`, `SettledByAnswer`, `RetryBudget`,
  `SettledForGood`.
  The budget needs an account: `attempts`, plus one if the row is queued, plus
  the number of passes that may still requeue it, is at most one plus its
  reclaims plus the attempts counted below the limit (`Account`). A stale pass's
  late requeue is paid for by the reclaim that overtook it. `SettledForGood` rests
  on `Owned`: until a reclaim overtakes one, each row has at most one pass, and a
  row with a pass is in flight.
- `CredentialsProofs`: `CredTypeCorrect`, `LocksSuffice`, `NoTokenLost`,
  `EndedRefused`, `RefusalsJustified`, `RotationHandsOver`. `TxInv` says that what a
  transaction read under its lock is still so when it commits (`TxSound`,
  `NewSound`) and what a row contains (`RowSound`). `AuthInv` says that the row a
  request holds is the present one or an earlier one (`RowFollows`), and that a row
  of an ended token stays unacceptable (`RowEnded`); a row only ever descends
  (`RowDescends`) and the clock only advances, which is why two reads at different
  times are as good as one.
- `AuthorityMaterialProofs`: `ActiveProfilesReady`. The invariant is the property
  itself: a save judges and writes the same copy, however old it is.
- `AdminProofs`, registry: `OneActive`, `ForwardOnly`. `RInv` adds that a transition
  waiting to write asks for a move that was allowed at the version it read
  (`Pending`): with the same version the row still has the same state.
- `AdminProofs`, queue actions: `KeysApplyOnce`. `OInv` says that a key's count is one
  exactly when its row exists (`KeysCount`), and that an attempt answered with
  success has the action of its key's row (`Honest`).
- `AdminProofs`, signing keys: `WithdrawnKeysEnd`, `UnknownKeysAreNew`. `JInv` says
  until when the keys of the cache were published at least (`CacheSound`), the
  same of a document on its way (`FetchSound`), that a published key missing from
  either was published after its fetch was sent, and that the last answer was
  right when it was given (`AnswerSound`).
- `AdminProofs`, sessions: `SessionsHonoured` (`CookiesHonoured`), `StoresStayBounded`
  (`StoresBounded`). `UiInv` adds that no two browsers have the same session
  (`SessionsApart`): otherwise one's logout would take the other's. `IssueKeeps`
  is the heart: a sweep that leaves `max` ids or more has met as many live ones,
  and otherwise drops none of them.
- `DocTypesProofs`, catalogue: `RowsPinned` (`GuardedRowsPinned`), `NeverElectronic`
  (`SaftOnlyNeverElectronic`). `ChecksPin` and `SeedPinned` hold of any table that
  loads and passes the nine checks, edited how often and in whatever way; the
  invariant only says that an accepted table did both. `OfferWhateverEnrolment`:
  every released type that the authority's validation does not hold back has both
  channels, so the enrolment changes the status and the reasons of a report and not
  the types it offers.
- `SaftExportProofs`: `RecordsAccounted` (`EveryRecordAccounted`), `TotalsAreExact`
  (`TotalsExact`), `OnlyPoisonFails` (`FailsOnlyForPoison`) and `OrderNeverMatters`
  (`OrderIrrelevant`), for ledgers of any length, records with any faults and lines,
  every calendar, period and limit. The first excludes sales kept in SQLite: there
  the source loses the edges of a day, `saft_period` shows how. On PostgreSQL the
  sale of the next midnight is one of the records listed (`Reached`): it may be
  omitted and counts against the limits, but is never a document. The other three
  hold for both stores.

  `SaftInv` is small: the records of the ledger differ in their id, those of sales
  have an instant, and the result is the export of the ledger. The work is in what
  an export computes. `ExportCases` writes the six mappings as one expression: the
  records listed (`RecsOf`), sorted (`SortedOf`), those kept (`MappedOf`), built
  (`BuiltOf`). From there
  - `OmissionsCover` and `MappedIsBuilt`: each mapping looks at all that the builder
    refuses but the defects of `Poison`; with `OmissionsCount` and `PartWeight`, for
    the limit of omissions, every failure has a cause (`ExportFailsFor`);
  - `AmountsAddExactly`, `TotalOfIs` and `MappedTotal`: a total kept as text through
    all lines of all documents is the sum of sums, and a sum over the documents in
    their order is the sum over the ledger in its own (`SumPermuted`);
  - `SortedAlike`: two lists of the same records, each once, are sorted into the same
    list, since there is an ascending one (`OrderExists`) and only one
    (`AscendingUnique`).

  What a loop computes is proved by induction on the number of elements. The
  library's induction theorems take a predicate and cannot be instantiated here;
  `LeastNat` (a nonempty set of numbers has a least one, from
  `NatLessThanWellFounded`) and `UpTo` take a set instead, and `Recursion` shows that
  the function a loop stands for exists.

Only model-checked: the liveness properties (fairness is beyond the prover), and the
counterexamples. `SaftInv` itself is not one of TLC's invariants: it speaks of all
lists of records.

## 5. Not modelled

`PROJECT.json` gives each part's reason. Pure I/O and presentation (templates,
SMTP, landing page, logging), byte-level encodings and signatures, XML, the
repository's own tooling and the catalogues of legislation are left out for
good. SQL itself is modelled by what its statements do under the engine's
isolation, and hashes by the equality of what they hash. Within the modelled
parts, columns that no step reads back (names, statuses of registry rows, dates,
versions and fingerprints of material), audit rows, the roles of administrators,
and an identity provider that reuses a key id are left out. The Sandbox
measurement is a client run by hand; the AGT test kit only feeds tests.

## 6. Plan

Done: `Outbox` with operators, `SealTx`, `FixtureQueue`, `Credentials`, the
administrative side (`AuthorityMaterial`, `AdminRegistry`, `OpsActions`,
`JwksCache`, `AdminSessions`), the rules (`DocumentCatalog`, `SaftExport`), and the
proofs of section 4: every safety property of the passing runs, and both
refinements. Left, in order:

1. The reconciliation of unknown outcomes, as actions of `Outbox` that map to
   `Reconcile`, once the code has it.
2. What PostgreSQL still guarantees of a ledger, stated as weaker invariants
   beside `LedgerChained` and proved in `OutboxProofs`.
3. Round trips of `money`, `quantity` and `fiscaltime` as operators of the rules.
4. The deployment helper: install, activate, roll back and the opening with its
   timer, with crashes between steps.
