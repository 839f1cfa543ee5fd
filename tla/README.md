# A TLA+ verification project for SecureScan

SecureScan lets authenticated users ask for TCP port scans of allowed targets.
This directory holds TLA+ specifications of the program, TLC configurations
that check them on small instances, and TLAPS proofs of theorems about them.
Paths below are relative to the repository; `PROJECT.json` maps every definition
to its lines.

## 1. Inventory

| Component | State it keeps | Operations | Talks to |
|---|---|---|---|
| Scanner engine, job store (`scanner-engine/cmd/server/jobs.go`) | `jobs`, `idempotencyKeys`, in memory, behind one mutex | `admit`, `get`, `markRunning/Completed/Failed`, retention | its handlers and the goroutine of each job |
| Scanner engine, handlers (`scans.go`, `get_scan.go`, `main.go`) | none of their own | POST and GET of `/internal/scans`, `runScan` | job store, validation, port scanner |
| Port scanner (`internal/scanner/scanner.go`) | results, semaphore, wait group of one scan | `Scan`, `scanPort` | TCP |
| Target validation (`internal/validation`) | none | `ValidatePinnedTarget`, `VerifyCurrentResolution`, port ranges | DNS |
| API, pipeline (`ballerina-api/service.bal`, `scanner_client.bal`) | strands only | `createScan`, `dispatchQueuedScan`, `getPersistedScanStatus`, `reconcileActiveScansInBackground` | PostgreSQL, scanner engine, DNS |
| API, persistence (`persistence.bal`, `database/migrations`) | `scan_jobs`, `scan_results`, `audit_logs`, `allowed_targets` | one statement or transaction per function | PostgreSQL |
| API, target authorization (`target_authorization.bal`) | none | `authorizeScanTarget` | `allowed_targets`, DNS |
| API, identity, parsing, validation, error mapping | none | decisions on one request | - |
| API, allowed-target administration, listings | rows | create, list, disable; read-only pages | PostgreSQL |
| Frontend, scan detail (`hooks/use-scan-detail.ts`) | React state, timer, abort controller | poll, retry, unmount | backend proxy |
| Frontend, login (`app/auth`, `lib/auth`, `proxy.ts`) | two sealed cookies in the browser, the login's transaction and the session; cached provider metadata in the server | login, callback, logout, route guard | identity server |
| Frontend, backend proxy (`app/backend/[...path]`) | none | relays a request with the session's token, under a deadline | API Manager or the API |
| Frontend, pages (`components/scan-form.tsx`, `scan-history.tsx`, `admin-dashboard.tsx`) | what the page shows, is loading, has to report | submit, retry, filter, create and disable a rule, leave | backend proxy |
| Migrations (`database/scripts/migrate.sh`) | `schema_migrations` | up, down | PostgreSQL |
| API Manager, identity server, compose, CI | configuration | - | third-party products |

A scan crosses all of them. A create request is authorized against the rules
and DNS, stored as a QUEUED row together with its audit event, and answered 202.
A background strand then claims an expiring lease on the row, authorizes the
target again, records the rule, POSTs the job to the scanner engine under the
scan's public id as idempotency key, and marks the row RUNNING with the id the
engine answered. From then on every status request, and the reconciler every few
seconds, asks the engine for that id and copies a terminal answer to the row.

What is hard, and what makes each part correct:

* *Several strands on one row.* The background dispatcher, the clients' polls and
  the reconciler all run `dispatchQueuedScan` and `getPersistedScanStatus` on the
  same scan; each decides on what it read some exchanges ago. Right means: one
  outcome, one audit trail, no rewriting of an ended scan, no exchange of results.
* *Two stores without a common transaction.* The engine may have admitted a job
  whose answer never arrived; it forgets everything when it restarts; it evicts
  finished jobs; the API dies between any two statements. Right means: the row
  still ends, and what it says happened did happen to its own job.
* *Leases in wall-clock time.* A lease may run out under its holder.
* *Limits.* One active scan per owner, `maxActive` jobs in the engine,
  `maxRetained` finished jobs, a page of 100 scans in the reconciler.
* *Shared memory in one scan.* A loop, hundreds of goroutines, a channel as a
  semaphore, a wait group and one slice of results. Right means: every port once,
  no more connections than allowed, and `Scan` returns.
* *A name may resolve to something else at every look.* The API and the engine
  resolve it one after the other. Right means: what is dialed is what was authorized.
* *Two cookies shared by all tabs.* A handler works on the cookies of its request, and
  its answer replaces those of the browser later, when other tabs have signed in or
  out. There is one transaction, so the login of a second tab overwrites that of the
  first; there are two OIDC clients with different scopes. Right means: a session is
  of the client its token was issued to, nobody is sent round in circles, and who goes
  on arrives.
* *A proxy with a deadline.* The proxy gives up while the API goes on. Right means: a
  refusal may be relied on, and every call ends for the page.
* *A dashboard that corrects itself.* It shows a list and a number which were read at
  two instants, and after a click it changes both without a reload; the button may be
  clicked twice, another administrator may be faster, the page may be left. Right
  means: what it shows keeps to what the API has.
* *A page that polls.* Timers, answers and React's cleanups come in any order. Right
  means: one loop at most, nothing stale on the page, and the end is seen.

## 2. Modules

| Module | What it specifies |
|---|---|
| `JobStore` | the scanner engine's store; every method is atomic because it holds the mutex |
| `ScanRecords` | the rows of PostgreSQL; one action per function of `persistence.bal` |
| `ScanDispatch` | the pipeline: strands of the API over `ScanRecords` and an instance `Go` of `JobStore`, with time and failures |
| `ScanLifecycle` | what the pipeline promises: the life of a scan and its audit events, without any mechanism |
| `PortScan` | `Scan` of the engine: the feeding loop and one goroutine per address and port |
| `TargetPinning` | from the authorization of a target to the addresses that are dialed, through both services |
| `ScanPolling` | the polling effect of the frontend under React's renders |
| `SessionValues` | decisions of the frontend's server on one request: configuration, return paths, sealed cookies, roles and routes; no state |
| `AuthSession` | several tabs signing in and out over two cookies; over `SessionValues` |
| `RequestValues` | decisions about one request of a page: form validation, the proxy's configuration, its refusals and its relay; over `SessionValues`, no state |
| `Workspace` | one tab at work: the form, the history and the dashboard, their calls through the proxy, and the API behind it; over `RequestValues` |
| `MCJobStore`, `MCScanDispatch` | symmetry for TLC; the `.cfg` files give the constants |
| `MCTargetPinning`, `MCAuthSession`, `MCWorkspace` | the sets of addresses, environments, accounts, sessions and inputs for TLC |
| `MCPortScan`, `MCScanPolling` | nothing but the module; the `.cfg` files give the constants |
| `JobStoreProofs` | theorems about `JobStore` |
| `ScanDispatchProofs` | theorems about the pipeline: that it implements `ScanLifecycle`, and `JobStore` |
| `ScanLeaseProofs` | theorems about submissions: the lease, how many jobs failures can start, forgotten jobs |
| `PortScanProofs`, `TargetPinningProofs`, `ScanPollingProofs`, `AuthSessionProofs`, `WorkspaceProofs` | theorems about the module of that name |

`PortScan`, `TargetPinning`, `ScanPolling`, `AuthSession` and `Workspace` stand alone: in
`ScanDispatch` a scan is one step of `RunScan`, the refusals of the validation are
outcomes of `Post`, and the browser is one of the clients that may poll. In
`Workspace` a scan is a number and the session is what `AuthSession` would leave in
the jar at that moment. A definition marked `mutant` in a comment is a variant with a
plausible mistake; `PROJECT.json` says which property it breaks, and no specification
uses it.

### JobStore

Go maps are total functions with `NoJob` and `NoId` for "not found". A job keeps
its status, the request `sameScanRequest` compares, and `UpdatedAt` for terminal
jobs, the only ones it is read for. `update` includes `enforceRetentionLocked`,
as in the code. The clock is any reading of `Clock`: `UTC()` drops the monotonic
reading, so readings may repeat or go back. `history` is an observer, not a
variable of the program: the key an id was admitted under and how its scan ended.

### ScanRecords

A row is a record; time stamps, durations and result rows that are only set or
unset are Booleans, and `expired` stands for the comparison of
`dispatch_lease_expires_at` with the current time. A lease token is named after the
strand that made it (a strand uses at most one at a time). Scans are numbered in
the order of `created_at`, rules in the order in which the authorization query
prefers them. Outcomes are parameters of the actions, as they are the results of
the functions.

### ScanDispatch

A strand is a record: where it stands (`at`, named for its next step), the scan
it works on, and what it has read and will use later. The reconciler is one
strand with a page of scans to look at. Every database statement, transaction
or exchange with the engine is a step of its own, and everything may
happen in between. In the exchange of `createScannerJob` there are two instants. `Post`
is the one at which the engine has handled the request: it has admitted the job, found
it, or refused. From then until the strand stores the id (`dispatched`) the answer is on
its way, and may be lost (`AnswerLost`) or cut off by the death of the engine
(`ScannerRestart`), although the job was admitted. One simplification: the background
strand that a create request starts is the request's own strand going on, because the
202 has no further effect. A status request that only reads leaves no trace beyond its
reads.

Failures are `PostUnanswered` (the request lost or still under way), `AnswerLost`,
`StatusUnreadable`, `GiveUp` (a database error, or no answer to a GET, at any
step), `ApiCrash`, `ScannerRestart`, and `LeaseOverrun`. A restart takes the store, the
requests nobody waits for, and the connections of any of the strands in an exchange
(`Exchanging`): for one of them this is no answer at all (`Returned`), for another half of
one (`Unreadable`). Each failure takes one of `MaxFaults`. `faults` counts them by
kind: `overrun`, a dispatch that outran its lease; `cut`, a restart that cut off the
answer to a submission the engine had accepted; `restart`, any other restart; and `other`.
`JobsTakeFailures` is about these counts.

### ScanLifecycle

Request, Deny, Start, Block, Complete, Fail on status, owner and audit events.
`ScanDispatch!ImplementsLifecycle` is the refinement: every step of the pipeline is
one of these or a stutter, so each status change is told to the trail in the same
transaction, a scan starts at most once and ends at most once, and an owner's
request is admitted only under the limit.

### PortScan

`feeder` is the goroutine that called `Scan`: where it is and its two loop variables.
`worker` holds, per probe (an address and a port), where its goroutine is. `sem` and
`wg` are the channel's fill and the wait group's counter. `append` is two steps,
the read of the slice and the write, so that the mutex has something to protect. The
deferred calls run in Go's order: the slot first, then `Done`. What a port's state
was is left out, because the goroutine goes on in the same way.

### TargetPinning

An address is a class (how each service classifies it) and a number. `DnsChanges` is
the environment's, at any moment. `Authorize` is `authorizeScanTarget` when a rule
was found; the order in which the resolver returned the addresses is arbitrary. The
engine's verdicts follow the order of the checks in `createScanHandler` and `Scan`;
`cause` is an observer for the first check that refused. The engine's own allowlist
is one bit, and texts that are no addresses are left out: `net.ParseIP` refuses them.

### ScanPolling

`effect` holds, for every effect that ran, the variables its functions close over:
`active`, `timer`, and `request` for `inFlight` and `controller` together. A promise
that settles (`Settle`) and the code after its `await` (`Continue`) are two steps; a
cleanup may come between them. `RunEffects` is React running the cleanup of the last
effect and the next effect. The id may change under the hook, as in the hook's tests.

### AuthSession

`jar` is the browser's cookies, `tab` where each tab is: at a page, at the identity
server, about to send a request (`going`), in the second look of a page component
(`rendering`), or waiting for an answer that carries cookies (`answer`). A handler is
one step when its request is served, on the jar of that moment: `proxy` is the route
guard `proxy.ts`, `login`, `CallbackAccepts` and `CallbackRefuses`, `logout` are the
routes of `app/auth`. `Deliver` is the arrival of the answer, which replaces or deletes
the cookies it sets, whatever the jar holds by then. An answer that sets no cookie is
delivered at once, since nobody can tell the difference. Every page has the header, so the
login page offers to sign out while there is a session (a session that must
reauthenticate, for one). A tab in `Linked` may follow a link with a return value
(`Follow`). A sealed cookie is its value and the generation of the
secret; a cookie of another generation reads as nothing. State, nonce and verifier are
one number of the attempt; `redeemed` is the identity server's memory of used codes.
`Restart` empties the cache of provider metadata and may come with a new secret. An
answer may be lost (`Reload`), the provider may not be found, the exchange may fail.

Return values are classes. `safeReturnTo` (`return-to.ts:3-17`) tests the value it is given
and returns the path the URL parser made of it, so a value that passes is not always
returned as it was: the class `reshaped` comes out as `elsewhere`, which is no path
of the application, and the callback's redirect leads there (`Landing`). No property and
no theorem here says that a login ends inside the application.

### Workspace

`page` is the mounted page, `view` its state and what it shows, `read` the reading it is
at (the requests of one `Promise.all`), `calls` the writes in flight. A write is a record:
the operation, whether its page is still there (`here`), where it is upstream (`up`:
with the proxy, with the API, over), under which session the proxy sent it, whether
the API performed it, the status that came back, and whether the page has it. So a
write whose page was left or whose deadline passed goes on to the API, as a `fetch` upstream that
was sent may. A part of a reading is read from `rules` or `scans` at one
instant, and different parts at different ones. `Mount` is what React does when another
page is shown: readings are aborted, writes are not. `Continued` is the code of
each handler after its `await`; the dashboard's decrement of the number and its change
of the list are those of `disableTarget`. `Performs` commits and then answers, or fails
to (`route.ts` cannot tell); `Refuses` is every outcome in which the API does nothing.
The proxy hands on what is no answer of the API, a redirect of the API Manager among
it (`GatewayRedirects`), and says 504 when the deadline passes before the answer begins and
502 when it passes inside it (`timeout`, `bodyTimeout`). What a browser finds where a
relayed redirect leads is not modelled.

Simplifications: the API Manager's 401, 403 and 429 are one status, so are the API's 500 and
503, because the pages treat them alike; that the form drops a shown error when a
field is edited is left out; an operation's limits and conflicts are outcomes of
`Refuses`, not computed.

## 3. Runs

| Run | Instance | Checks |
|---|---|---|
| `job_store` | 4 ids, 2 keys, 2 requests, limit 2, 1 retained, clock {1,2} | `TypeOK`, `ActiveLimit`, `RetentionLimit`, `KeysAgree`, `EvictOldestFinished` |
| `dispatch_raced` | 1 scan, 2 handlers and the reconciler, 2 failures | `TypeOK`, `SchemaConstraints`, `AuditTrailTellsTheRow`, `OutcomeFromOwnJob`, `OneDispatcherPerLease`, `JobsTakeFailures`, `EndedForGood`, `ScannerIdStable`, `ImplementsLifecycle` |
| `dispatch_ends` | 1 scan, 1 handler and the reconciler, 2 failures, fairness | `EveryScanEnds` |
| `dispatch_ends_paged` | 2 scans of one or two owners, page size 1, 1 engine slot, no failures, fairness | `OneActivePerOwner`, `EveryScanEnds` |
| `port_scan` | every configuration around the limits 0 to 3, 2 addresses, 2 ports | `TypeOK`, `ReturnsEveryPortOnce`, `ConnectionsBounded`, `NoReportLost`, `ScanReturns` |
| `scan_polling` | 2 scans, 2 changes or retries, 2 failures | `TypeOK`, `OneLoop`, `UpdateIsComing`, `NoStaleAnswerShown`, `EndIsShown` |
| `target_pinning` | 6 classes, up to 3 addresses, limit 2, every configuration | `TypeOK`, `DialsWhatWasAuthorized`, `DialsNothingBlocked`, `RefusedForCause`, `AcceptedIsScanned` |
| `auth_session` | 2 tabs, 3 login attempts, 4 configurations, 2 of which start: an administrator where both clients can log in, a user where the administrator's cannot; 1 tab follows a link, 1 failure, 1 tick of the clock | `TypeOK`, `SessionFromOwnLogin`, `NoLoginLoop`, `LoginArrives` |
| `workspace` | 2 rules, 2 writes in flight, 2 moves of the user, 1 fault or change by others, fairness | `TypeOK`, `RefusedMeansNothingDone`, `ShownFollowsServer`, `PagesSettle` |
| `blocked_after_submission` | 1 scan, 1 failure | violates `BlockedNeverReachedScanner` |
| `duplicate_job` | 1 scan, 1 failure | violates `OneScannerJobPerScan` |
| `target_reported_failed` | as `workspace` | violates `AlertMeansFailure` |

What they show, beyond that the properties hold. `dispatch_raced` has the histories that a
test would have to stage by hand: a lost answer, a lease that ran out, a second
dispatcher, and the first one coming back. `dispatch_ends` shows that no client is needed
for a scan to end. `auth_session` shows that the single transaction cookie costs a tab
its login, never its integrity: the overwritten attempt ends at the login page, and
when the user goes on there, it arrives. `workspace` shows that the dashboard's
`Math.max(0, ...)` is needed: a rule created between the reading of the number and the
reading of the list makes the number too small (the mutant `oneLessUnbounded`).

`JobsTakeFailures` keeps two accounts of a scan's jobs. Each further one takes a loss, which
makes the API submit again: a lost or cut off answer, a dispatch that outran its lease, a
failure of the API. And it takes a restart, which makes the engine forget the key. A restart
that cuts off the answer to an accepted submission is both, so one failure is enough for
a second job, as `duplicate_job` shows. The second account has a premise, because the engine
forgets a key also when it evicts a finished job, and that is no failure: it must retain
a job for every scan. Otherwise a loss alone may do: the job finishes, a lease runs out under
its holder, another scan's job evicts the first, and the second dispatcher posts.

The last three are disagreements between the repository's documents and its code;
`PROJECT.json` quotes the documents. The first two take one failure each, and break no row: in
`dispatch_raced` the same histories satisfy the constraints, the trail and the lifecycle. The third is a
fault of the dashboard: `createTarget` reads `event.currentTarget` after its `await`
(`admin-dashboard.tsx:96`), when React has already set it to null, so every successful
creation is reported as a failure and the list is not loaded again. In `Workspace`
this is the first case of `Continued`; when the code is corrected, that case becomes a
notice and a reading, and the run is to become a passing one.

Deadlock is not checked where the system may stop: when all scans have ended and no
failure or clock reading is left, when `Scan` has returned, when a request was
answered, when the page was left, when the moves of `workspace` are used up.
`auth_session` checks it: a tab always has something to do.

Bounds of the pipeline. One scan with three strands contains every race on a row: a dispatcher,
a second one that takes its lease over, and the reconciler. Each of the
known bad histories needs one failure; two allow a second one in the middle of the
recovery from the first (a cut off answer, then a lease that runs out under the next
dispatcher). Two scans are needed for the limits: per owner, per engine,
retention of one job, a page of one. `Ids` has room for every job that can
be admitted under `MaxFaults`; when it is used up `ScannerAccepts` is simply not
enabled, and every other answer still is. `RowsLeft` stops create requests when no
row is left. `MaxRetained = 1` makes the engine forget jobs soon. Symmetry is over
the handlers and the owners (never in the runs with fairness).

Bounds of the other modules. `port_scan`: two addresses with two ports make up to
four goroutines, enough for two to be inside `append` while a third waits and the
loop waits for a slot; the ports beyond both ends and the limits 0 to 3 take in
every refusal of `ValidateScanConfig` and a concurrency below, at and above the number
of probes that fit. `scan_polling`: two changes give three effects, so an abandoned
one can be late by two; two failures allow a temporary one between two others.
`target_pinning`: one representative of every class the two services treat alike
(loopback, multicast and the like are treated as `linkLocal` by both, `uniqueLocal`
as `private`), two public addresses for a change and an exchange of answers, and
lists of three for the limit of two.

`auth_session`: two tabs make every exchange of transactions and sessions that involves a
login and a disturbance; three attempts leave one for a login while both tabs hold one
(`AuthAssumption` asks for that). One failure is a restart with a new secret, a lost answer or a
refusal, at any moment. A life of 1 and a clock of 1 let every cookie be fresh or
expired. `workspace`: two moves are two clicks on one rule, a click and a
departure, a submission and a return, or a creation and a disabling; two rules tell a
wrong rule from a wrong number; one fault is a break at any stage of a call, another
administrator, or another tab's login. Three moves or two faults make the run too
long; the theorems cover them.

Leases. `validateDispatchLease` (`service.bal:646-651`) compares the lease with the timeout of the
response only; the second authorization of the target, with its resolution and two
statements, comes between the claim and the POST and has no deadline. So a dispatch may
outrun its lease, and the model lets it: `LeaseOverrun` is a failure like the others and
is counted. `OneDispatcherPerLease` says what the lease is worth then.

Fairness. `FairSpec` assumes that a strand that can take its next step does
(the runtime schedules strands; every exchange with PostgreSQL or the engine
returns, errors being `Failure` steps), that the reconciler's loop goes on
(`while persistenceEnabled`), that the goroutine of a job goes on, and that an
abandoned lease runs out. Nothing is assumed of clients, administrators or
failures. Failures are finitely many, so this says: when failures stop, every
scan ends. `PortScan!Spec` assumes that the loop and every goroutine are scheduled
and that a dial ends, which its timeout sees to; no fairness of the mutex is needed
beyond that, because each goroutine takes it once. `ScanPolling!Spec` assumes that the
browser runs effects, timers and continuations, and that a request settles, which the
backend route's timeout sees to; nothing of the user, and not that scans end.
`AuthSession!Spec` assumes that the browser follows redirects and the server answers. What
`LoginArrives` asks beyond that are its antecedents: the other tabs come to rest, and the
user opens no further address, goes on at the login page and signs in. `Workspace!Spec`
assumes fairness of the browser and of the frontend's server, with its deadline, and
none of the API: `PagesSettle` holds when the API never answers.

## 4. Proofs

`JobStoreProofs` proves for every set of ids, keys and requests and all limits, from
`StoreAssumption` alone: `StoreTypeCorrect` (`TypeOK`), `KeysAlwaysAgree` (`KeysAgree`),
`ActiveJobsLimited` (`ActiveLimit`), `FinishedJobsLimited` (`RetentionLimit`) and
`OldestAreEvicted` (`EvictOldestFinished`). The last two count: a finished job's rank is the
number of those sorted after it; the order is total, so ranks are a bijection
onto an interval (`Ranks`), and the jobs with a rank below `maxRetained` are those that
stay (`KeptNewest`). The job that finishes in the very step is
counted with the time it has then, so it too is evicted only if it is among the oldest.

`ScanDispatchProofs` proves, from `RecordsAssumption` and `DispatchAssumption` (finitely
many scans, strands and ids; the "no value" constants are no values), for any
number of scans, owners, rules, strands, jobs and failures:

| Theorem | Property |
|---|---|
| `DispatchTypeCorrect` | `TypeOK` |
| `TrailIsTold` | `AuditTrailTellsTheRow` |
| `OutcomesAreTheirOwn` | `OutcomeFromOwnJob` |
| `NoStatementIsRejected` | `SchemaConstraints` |
| `EndedScansStay` | `EndedForGood` |
| `CorrelationStays` | `ScannerIdStable` |
| `OwnersAreLimited` | `OneActivePerOwner` |
| `PipelineImplementsLifecycle` | `ImplementsLifecycle` |

None of the properties is inductive alone: that a poller writes the right outcome
depends on what it read some steps ago. The invariant is

    IInv == TypeOK /\ RowsOK /\ EngineOK /\ StrandsOK

`RowsOK`: which columns of a row are set follows from its status, the trail
is `TrailOf` the row, and what the row says of the engine is what happened there.
`EngineOK`: the observer `history` follows the store. `StrandsOK`: what a strand
carries is still true - the id it received belongs to its scan, the row it polls
is correlated, a completion it is about to record did happen. The argument has
three parts: every statement of `ScanRecords` writes one row along `Moves` with the
event that tells it (`...Effect` lemmas, summed up in `RecordsStep`); every exchange
with the engine only adds to `history` (`EngineStaysOK`); hence rows and history
only advance (`Advances`), so the work of a strand that does not move stays true
(`WorkStaysOK`). The `...Keeps` lemmas put these together action by action. The
theorems about steps and the refinement follow from `IInv` and `RecordsStep`.

`PipelineImplementsJobStore` says that what happens to the engine inside the pipeline -
submissions of strands and of nobody, goroutines, restarts - is a behaviour of `JobStore`
(`Go!Spec`). `JobStoreProofs` is instantiated for that engine (`Store`), and
`EngineKeepsItsPromises` follows: the limits, the agreement of keys and jobs and the
eviction of the oldest hold of the engine in the pipeline too, where they
were proved of the store alone.

`ScanLeaseProofs` is about submissions. `LeaseExcludes` proves `OneDispatcherPerLease` with no
assumption about the length of leases: for every strand more than one at the POST of a
scan, a dispatch outran its lease. The invariant counts: the strands that are under way
without their lease in force (`Lost`) are no more than the overruns there were
(`LostToOverruns`). Every step leaves `Lost` alone or makes it smaller, except
`LeaseOverrun`, which adds the one holder (`NextLoses`).

Two things keep a scan from having a second job, and each has a theorem of its own.
The engine remembers the scan's key: as long as it has not restarted and retains a job for
every scan, every job ever admitted is still there and its key leads to it
(`NothingForgotten`), so any number of crashes, lost answers, late requests and outrun
leases start no second one (`RetriesFindTheirJob`). That retention then evicts nothing
is a matter of counting: the keys are an injection of the finished jobs into the scans
(`NothingExpires`). `RetainedJobsAreFound` is the same for pollers: no scan fails with
`SCAN_NOT_FOUND`. And the API submits once: as long as there was no loss, dispatchers have
their leases, no request is on its way unattended, and every job ever admitted is stored
in its row or carried by the strand that will store it (`Undisturbed`), so any number of
restarts that cut off no accepted submission start no second job, and no submitted scan
is blocked (`OnlyLossesStartSecondJobs`).

How many jobs failures can buy is a matter of two accounts (`EveryFurtherJobTakesItsFailures`,
which is `JobsTakeFailures`). A submission of a scan that may still be admitted is a chance
(`Chances`): one if the scan waits for a dispatcher, one for every POST on its way
unattended, and one for every strand on its way to the POST that has lost its lease
(`Strays`). The invariants, inductive with `IInv`, are

    ApiBudget    == \A s \in Scans : Cardinality(JobsOf(s)) + Chances(s) <= 1 + Losses
    EngineBudget == \A s \in Scans : Cardinality(JobsOf(s)) + One(~Go!Retained(s)) <= 1 + Restarts

An admission makes a job of a chance (`PostBalance`, `OrphanBalance`), and makes an unknown key a
known one; a replay adds nothing. Storing an id uses up the scan's regular chance
(`AnswerPays`). A loss makes one chance at most - a crash leaves stray POSTs for
the strays there were, and one for the dispatcher that had the lease (`CrashLoad`); a
restart that cuts off an accepted submission gives the scan back its regular one - and a
restart that cuts off none makes no chance (`QuietRestartLoad`) but an unknown key. For
`EngineBudget` the engine must retain a job for every scan and every job in the store must have a
key (`Keyed`). So k jobs of a scan take k - 1 losses and k - 1 restarts, which may be the same
k - 1 failures.

`PortScanProofs` proves the safety of `PortScan` for every number of addresses and
ports and any limits: `ScanTypeCorrect`, `EveryPortIsReturnedOnce`,
`ConnectionsAreBounded`, `ReportsAreKept`. That the results are complete when `Return`
fires is a matter of counting: the invariant says that `wg` is the number of goroutines
that were started and have not called `Done` (`GroupOK`), that `sem` is the number of
those that hold a slot, plus the one the loop is about to start (`SlotsOK`), how far
the loop got (`LoopOK`), that the mutex's holder alone is between `Lock` and `Unlock`
and what it read is current (`MutexOK`), and that the results are exactly the probes
whose goroutine has written (`ResultsOK`). `wg = 0` then leaves no goroutine, by
lemmas about the cardinality of a set from which one element moves.

Two more theorems are the part of `ScanReturns` that is not about fairness, for every number of
addresses and ports. `ScanIsNeverStuck`: until `Scan` has returned, the loop or a
goroutine can take a step, because whatever one waits for - a slot, the wait group, the
mutex - is in the hands of a goroutine that waits for nothing but the mutex, whose holder
waits for nothing. `CanFeed` and `CanWork` spell out the guards of `Feed` and `Work`, since
the prover does not reason about `ENABLED`. `ScanWorksOffItsSteps`: every step after
the validation takes one element from the finite set `Todo`, nine for every probe, and the loop
returns when none is left. What is left to TLC is that the scheduler goes on and the
induction over `Todo` that turns the two into an end.

`TargetPinningProofs` proves `PinsAreWhatIsDialed`, `BlockedIsNeverDialed`,
`AcceptedTargetsStay`, `PinningTypeCorrect` and `RefusalsHaveCauses` (`RefusedForCause`) for all addresses, lists and limits. The
invariant carries what `Authorize` established to the dial: the pins of an API request
are not empty, safe, and the target itself if that is an address (`PinsOK`); an accepted
request would be accepted again (`AcceptedOK`), because `ValidatePinnedTarget` looks at
nothing that changes. For the causes of refusals, `PostedOK` says that the pins are
what the name resolves to as long as DNS answers the same, and a list that repeats
nothing is as long as it has elements (`DistinctLength`).

`ScanPollingProofs` proves the safety of `ScanPolling` for any scans and any number of
changes, retries and failures: `PollingTypeCorrect`, `OneLoopPolls` (`OneLoop`),
`UpdatesCome` (`UpdateIsComing`) and `NothingStaleIsShown` (`NoStaleAnswerShown`). `EffectsOK`
says that only the last effect is active, and that one that is not has neither timer nor
request: hence one loop. `PageOK` ties what is shown to what is ahead: an answer
"active" that waits to be read was given before the end was shown, so it cannot be
waiting beside it.

`AuthSessionProofs` proves, for any number of tabs and attempts, all configurations and
lives of cookies, `AuthTypeCorrect`, `SessionsAreTheirOwn` (`SessionFromOwnLogin`) and
`LoginDoesNotLoop` (`NoLoginLoop`), by `IInv == TypeOK /\ LoginsOK`. `LoginsOK` follows a
login through all its stations: a transaction in the jar or on its way is of the client
its return path asks for; a session in the jar or on its way is of its token's
client; a tab that was just given a session goes to a page of that session's client.
`SessionFromOwnLogin` alone is not inductive, because a session comes from a
transaction and a callback's address, perhaps of different tabs; that the exchange
checks both against each other is what joins them.

`WorkspaceProofs` proves, for any number of rules, writes in flight, moves and faults,
`WorkspaceTypeCorrect`, `RefusalsAreFinal` (`RefusedMeansNothingDone`) and
`DashboardFollowsServer` (`ShownFollowsServer`), by

    IInv == TypeOK /\ CallsOK /\ ScansCounted /\ ShownOK

`CallsOK`: a refused write is over and not performed, an answered one was performed.
`ScansCounted`: scans and the submissions that may still make one are no more than
the moves. `ShownOK`: what is shown or was read as disabled is disabled; while the
dashboard loads it shows no rules, so a click always finds a list that stays; of
several clicks on one rule only one is performed, and until its answer arrives the rule is still
shown as enabled. The last is why a second click never decrements twice: the API
finds nothing to disable and says 404.

`OtherAlertsTellOfFailures` delimits what `target_reported_failed` shows: an alert that is not of
a creation always tells of a failure, so of all handlers only `createTarget` reports
what succeeded as failed.

Every invariant and every action property of a passing run is stated by a theorem. Only
model-checked are the liveness properties `EveryScanEnds`, `ScanReturns`, `EndIsShown`,
`LoginArrives` and `PagesSettle`, which are beyond the prover.

## 5. Not modelled

`PROJECT.json` lists every component with its status. What is left out, and why:

* *Owner admission below the function.* `insertQueuedScan` takes an advisory lock, counts
  and inserts in one transaction; it is one action of `ScanRecords`. Whether the count sees
  what the previous holder of the lock committed depends on the isolation level
  that the database gives the transaction, which the code does not set. So two counts before
  either insert cannot happen here, and `OneActivePerOwner` speaks of the limit and of
  everything else that makes a scan active or ends it, not of the lock.
* *Where a return value leads.* `safeReturnTo` may return an address that is no path of the
  application; the model has it, and stops there (`Page("elsewhere", ...)`).
* *The cache of failed discoveries.* `getOidcConfiguration` drops a failed one; so does the
  model, by construction, and no property depends on it.
* *The selection among several rules, and the conflicts of a new rule.* One `ORDER BY`, and
  the unique indexes of V005. `ScanRecords` numbers the rules in that order, and a
  conflict is an outcome.
* *Identity behind the gateway, request parsing, validation and error mapping of the API.*
  Functions of one request without any state; their outcomes are steps of `Workspace`
  and `ScanDispatch`.
* *Listings, usage and audit queries.* One read-only statement each.
* *Ranges for special use* are a class of addresses that the engine alone refuses, as
  `RefusedForCause` says; which ranges they are is left out.
* *Migrations, deployment, API Manager, command line.* Scripts and configuration that
  run by hand or in third-party products.
