# Formal models of go-grpc-starter

TLA+ models of the parts of this service whose correctness depends on order,
failure and concurrency: the event pipeline and its drain, the worker process,
sessions and tokens, the login lockout, accounts and moderation, the message
workers, the API process behind its REST gateway, and the migration tool. TLC
checks the models on small instances. TLAPS proves the safety properties of
every part for every value of the constants, and that the event pipeline, the
migration tool and the API behind its gateway implement what is specified of
them in the abstract.

Paths below are relative to the repository (`src/` in `PROJECT.json`).

| File | What it is |
| --- | --- |
| `EventDelivery.tla` | what the event pipeline promises, with no pipeline in it |
| `EventOutbox.tla` | Publish, the outbox table, the drains, the Asynq worker; it implements `EventDelivery` |
| `MCEventOutbox.tla`, `outbox_*.cfg` | its instances for TLC |
| `DrainLoop.tla` | the goroutine that drives a drain, its breaker and its end |
| `WorkerProcess.tla`, `MCWorkerProcess.tla`, `drain_loop.cfg` | that goroutine inside the API or the worker process |
| `AuthSessions.tla`, `MCAuthSessions.tla`, `auth_*.cfg` | device sessions, refresh tokens, password change and reset |
| `LoginGuard.tla`, `MCLoginGuard.tla`, `lockout.cfg` | the login lockout |
| `Accounts.tla`, `MCAccounts.tla`, `accounts.cfg` | registration, verification, avatar, deletion, moderation |
| `MessageWorkers.tla`, `MCMessageWorkers.tla`, `messages.cfg` | push and e-mail tasks |
| `Serving.tla` | calls, interceptors, uploads and the shutdown of the API process |
| `Gateway.tla`, `MCServing.tla`, `serving.cfg` | the REST gateway in front of it |
| `SchemaMigration.tla` | what the migration tool promises, with no processes or lock in it |
| `Migrate.tla`, `MCMigrate.tla`, `migrate.cfg` | the migration tool; it implements `SchemaMigration` |
| `EventOutboxProofs.tla`, `AuthSessionsProofs.tla`, `LoginGuardProofs.tla`, `AccountsProofs.tla`, `MessageWorkersProofs.tla`, `ServingProofs.tla`, `MigrateProofs.tla`, `WorkerProcessProofs.tla` | the theorems about each of them, with their proofs; the gateway's are in `ServingProofs`, the drain loop's in `WorkerProcessProofs` |
| `PROJECT.json` | components, runs, mutants, source lines of each definition, findings, hazards, theorems |

To repeat a run: `tlc -config outbox_mixed.cfg MCEventOutbox.tla`; the proofs of
a module: `tlapm EventOutboxProofs.tla`.

## 1. Inventory

### Components

**Event bus and outbox** (`internal/event`). `Bus.Publish` has three paths.
Inside a service's transaction it inserts a row into `events.outbox` and kicks
the drain. Outside one it inserts the row in a transaction of its own,
dispatches at once and marks the row. Under a drain it only dispatches.
`dispatch` runs synchronous handlers in place and enqueues one Asynq task per
asynchronous subscription. State: the outbox and dead-letter tables, the
subscriptions, Redis. Correct when no acknowledged event is lost, no row is
drained by two replicas at once, and retries are bounded.

**Drain** (`Bus.DrainOutbox`, on the worker and, with `drain_on_api`, on each
API replica). A goroutine selects over its context, a ticker and a kick
channel; a wake-up claims batches with `FOR UPDATE SKIP LOCKED` until one is
not full. A circuit breaker counts consecutive batches in which everything
failed. State: locals of the goroutine, row locks. Correct when every committed
row is processed in the end, a failing queue is probed and not flooded, and a
cancelled context ends it.

**Event worker** (`asynq_processor.go`, `worker.go`). A task carries an event;
`InvokeAsync` runs *every* asynchronous handler of its type. Asynq retries with
back-off and archives. Handlers write audit rows and login attempts, or
invalidate caches.

**Worker process** (`cmd/worker`). `main` starts three Asynq servers, the drain
and the background goroutines, waits for a signal, shuts the servers down one
after the other and closes what they use; it waits for no goroutine. Correct
when it ends, and when what the drain was doing costs no row an attempt.

**Transactions** (`internal/store`). `WithTx` opens or joins a transaction and
sets the row-level-security variables; `Run` is a one-statement `WithTx`.

**Authentication** (`internal/auth`, `pkg/token`). Register, Login, Refresh,
Logout, device list and removal, e-mail verification, password change and
reset. State: users, `device_sessions`, `refresh_tokens` in PostgreSQL; access
tokens, reset tokens, counters in Redis. Each operation is a sequence of
transactions. Correct when a revoked session gets nothing, a device has one
active session, and no failure strands an active session.

**Login lockout** (`internal/auth/lockout.go`). A Redis counter per address,
read before the password is checked and raised after it. Correct when the
number of guesses is bounded, nobody is locked out for nothing, and a lockout
ends.

**Users, settings, admin, suspension** (`internal/users`, `internal/settings`,
`internal/suspension`, `grpcsvc/admin_service.go`). Registration creates a user
with settings and a session in one transaction. An avatar goes to object storage
first and into the row second. Suspension writes a suspension row, then the
status, then an audit event, in separate transactions. Correct when two live
accounts never share an address, single-use tokens work once, an avatar exists,
and a moderation that answered OK has taken effect.

**Interceptors, services, server** (`internal/interceptor`,
`internal/grpcsvc`, `internal/app`, `cmd/server`). Each call passes recovery,
metrics, logging, locale, error mapping, authentication and validation.
`AwaitShutdown` reports NOT_SERVING, stops the server gracefully and after a
grace period at once, and closes pool, cache and dispatchers. Correct when a
handler runs only for an entitled caller, nothing is closed under a running
call, and the process ends.

**REST gateway** (`cmd/gateway` and the generated `*.pb.gw.go`). Routes in a
certain order, messages filled from body, path and query. Correct when each
request becomes the call it names and is answered.

**Cache** (`internal/platform/cache`): values with TTL, single-use tokens
(GETDEL), counters with a window, tag sets for group invalidation.

**Retention sweeper** (`internal/maintenance`): deletes stale refresh tokens,
processed outbox rows and login attempts, each in a transaction of its own.

**Notification and e-mail workers** (`internal/worker`,
`internal/notifications`): Asynq tasks that send push messages and e-mails, with
device tokens, preferences and delivery logs.

**Migration tool** (`cmd/migrate`): wraps golang-migrate with tables that it
finds, moves or creates, a history row for a run that moved the version, and a
forwarder of signals. Correct when `schema_migrations` tells what the schema is and the history tells
what a run did, however many are started.

### How they interact

```
REST -> gateway -> interceptors -> service -> store (PostgreSQL)
                        |             |          ^ rows, locks
                        v             v          |
                      Redis       Bus.Publish -> events.outbox <- DrainOutbox (N replicas)
                                      |                               |
                                      +--------> Asynq (Redis) <------+
                                                     |
                                                  worker -> handlers -> store, FCM, Resend
```

Requests share nothing in memory but the bus's subscriptions and the kick
channel. All other sharing goes through PostgreSQL (READ COMMITTED, row locks,
unique indexes) and Redis (single commands).

### What is hard here

* a crash or an error between two of the steps above (commit, outbox insert,
  enqueue, mark; suspension and status; object and row; a migration and its
  version);
* several replicas and the publishing request working on one row;
* replies of Redis that get lost, pipelines that are half executed, task ids
  that Asynq has forgotten;
* requests of one user racing each other between the statements of a login, a
  refresh, a revocation loop or a moderation;
* what is checked before it is used: the lockout counter, the address, the
  caller's session and role;
* the drain's wake-ups, which are sent too early to see the row;
* shutdowns with calls, uploads, tasks and batches in flight;
* boundaries: retry counts, the device limit, the empty device id.

`PROJECT.json` lists each of these as a hazard at its line, with the properties
that cover it or the reason why none does.

## 2. Modules and their correspondence to the code

### EventDelivery

The contract of `Publish` with its caller: what has become of the domain change
(`phase`), which events some part of the system answers for (`kept`), which
handlers have run (`ran`) or are set aside for an operator (`parked`). `Ack` is
the only promise, and once given it is never withdrawn; a rolled-back event
(`Withdraw`) never runs. `Promised` and `Lasting` are what the contract comes to,
`Settles` is the promise's end.

### EventOutbox

One event stands for one call of `Publish`, so the request, its row and the
event have one name. `rowSt`, `retry`, `cooling` and `dead` are the columns
`processed_at`, `retry_count`, `last_attempted_at` (as "inside its back-off
window") and the dead-letter rows. `taskSt`, `taskEvt`, `taskTries` are what
Redis holds under a task id. `disp[x]` holds the locals of `dispatch`
(subscription index, `allEnqueued`, `firstCritErr`) of a request or of a
drainer. `batch[d]` are the rows locked by d's transaction and `eff[d]` its
uncommitted UPDATEs.

| Action | Code |
| --- | --- |
| `PublishInTx`, `CommitTx`, `RollbackTx` | `Publish` in a transaction; the end of that transaction |
| `CommitDomain`, `PublishDirect`, `DispatchStep`, `FinishDirect`, `CrashDirect` | the service's own commit; `Publish` outside a transaction; a crash |
| `EnqueueOk`, `EnqueueErr`, `RunSync` | one iteration of `dispatch` |
| `ClaimBatch`, `DeadLetterRow`, `PublishRow`, `MarkRow`, `CommitBatch`, `AbortBatch` | `drainBatch` |
| `TaskSkipped`, `TaskSucceeds`, `TaskFails`, `TaskInterrupted` | `ProcessTask`, `InvokeAsync`; Asynq's retry and archive |
| `BackoffElapses`, `Sweep` | the back-off clauses of `PendingOutboxBatch`; the retention sweep |

`EnqueueErr` has both outcomes of a failed call to Redis: refused, or stored
with the reply lost. A row's order inside a batch is left open; only NULLS
FIRST is kept. A claim that finds no row commits an empty transaction and is
left out. The retention sweep deletes a processed row at any time: the
retention period is only a delay.

`ImplementsDelivery` is `EventDelivery`'s specification under a refinement
mapping: `phase` from the publishing request's position, `kept` from the rows,
dispatch loops and tasks that still hold the event, `ran` from the handlers'
history, `parked` from dead letters and archived tasks. Two kinds of events
are no part of it (`Delivered`), and neither are some handlers of the others (below). The worker completes the tasks of a type it has
not registered without running anything (`TaskSkipped`). An event whose type has
synchronous subscriptions only has nobody to be delivered to: `Publish` outside a
transaction runs its handlers in place and writes no row, so that nothing keeps
the event once it is acknowledged. A handler whose task id some other event
yields too may lose its event, because Asynq takes the second one for a
redelivery: `OwnOf` keeps the handlers with a task id of their own, and the
contract is about them. That they are unharmed by the others is part of what the
refinement shows.

### DrainLoop and WorkerProcess

DrainLoop is the drain goroutine of one process. EventOutbox lets a drainer
claim a batch whenever there is one; DrainLoop says when the code does. Rows are
counted, not named: `open` (in a service's transaction), `ready`, `waiting` (in
back-off), `got` (locked by the running batch). `kick` and `tick` are the
one-slot channels, `fails` and `resting` are `drainBreakerFailures` and "less
than the cooldown since `drainBreakerOpenedAt`". `probes` is a history variable:
batches started with an open breaker since the last wake-up.

WorkerProcess extends it with a process, `api` or `worker`. In the API, requests
write rows and kick the drain. In the worker, rows arrive unannounced, and
`main` goes through its steps; the context it shares with the drain is
DrainLoop's `live`.

| Action | Code |
| --- | --- |
| `StartWorker`, `StartFails`, `Ready` | the loop over `workers`, `logx.Fatal`, "worker ready" |
| `TaskStarts`, `TaskEnds`, `QueryBegins`, `QueryEnds` | Asynq's tasks; sweeper and outbox metrics |
| `Signal`, `BeginShutdown`, `ShutdownWorker`, `TaskDone`, `Timeout` | `rootCtx.Done`, `w.Shutdown()` one after the other |
| `CloseDispatcher`, `CloseObs`, `CloseRedis`, `ClosePool` | the deferred calls, last deferred first |

### AuthSessions

Each of the concurrent `Clients` runs one request at a time. A request takes one
step per database transaction, and one per statement inside the login
transaction: `Sweep` takes the snapshot of the `UPDATE ... WHERE device_id`,
`Lock` is its wait for row locks and its re-check, `Insert` is the insert under
the unique index and the commit. A session opens exactly one token family, so a
family is named by its session; an access token is named by the session in its
claims. `held` are the rows an open transaction has updated; other writers of
such a row wait. `struck`, `before`, `stale`, `clean` and `cut` are history:
they only serve the properties. `cut` counts the evictions that met a session
another request had just revoked and left others alone: `Revoke` reports such a
session as an error, and the loop of `evictOldestIfOverLimit` returns at the
first one (`CutShort`).

| Action | Code |
| --- | --- |
| `Register`, `Login`, `List`, `RevokeSession`, `RevokeItsTokens`, `Sweep`, `Lock`, `Insert` | `Register`, `Login`, `evictOldestIfOverLimit`, `revokeSessionAndTokens`, `createSessionAndTokens` |
| `Refresh`, `ReadSession`, `Rotate`, `RevokeFamily`, `KillSession` | `RefreshTokens` |
| `Present`, `Authenticate`, `Logout`, `RemoveDevice` | `authenticate`, `Logout`, `RemoveDevice` |
| `ChangePassword`, `DeleteAccount` (+ `List`, `RevokeSession`, ...) | `ChangePassword`, `users.DeleteAccount` |
| `RequestPasswordReset`, `ResetPassword`, `WritePassword`, `SnapshotAll`, `RevokeAll` | `RequestPasswordReset`, `ResetPassword` |
| `Crash` | the process dies; PostgreSQL rolls back |

Two refreshes that present one token at the same time both succeed, because
`RevokeByTokenHash` does not say whether it revoked a row: the family then has
two active tokens. The model has that behaviour; no property forbids it.

### LoginGuard

One login is `Check` (`blocked`), the password check with its three ends
(`WrongPassword`, `LookupFails`, `RightPassword`), then `RecordFailure` or
`Reset`. `cnt` and `ttl` are the Redis key and whether it has an expiry.
`Increment` has the three outcomes of a pipeline without MULTI. `LookupFails` is
any error of `FindByEmail`, which `Login` takes for an unknown address.
`guesses` is history: wrong passwords tried since the counter was cleared.
`auth.login_attempts` is left out: the program never reads it. (Its CHECK in
`migrations/00010` does not admit the outcome `locked`, so the handler's insert
of such an attempt fails on every retry.)

### Accounts

Requests take one step per transaction, Redis command or call to object storage.
`row`, `email`, `status`, `verified`, `avatar` and `settings` are columns of
`auth.users` and `auth.user_settings`; `tokens` counts live verification tokens;
`banned` and `record` are `auth.account_suspensions`. `granted` is the database
role's right to write that table: `docs/database.md` gives the API's role full
access, the policies of `migrations/00006` give `app_api` SELECT only. Both
deployments are initial states. Under the second every `SuspendUser` fails at
its first write, and an `UnsuspendUser` lifts nothing.

| Action | Code |
| --- | --- |
| `Register`, `CreateUser`, `SendVerification`, `ResendVerification` | `Register`, `sendVerification`, `ResendVerification` |
| `VerifyEmail`, `MarkEmailVerified`, `TokenExpires` | `VerifyEmail` |
| `UploadAvatar`, `Put`, `PersistAvatar` | `users.UploadAvatar` |
| `UpdateSettings`, `DeleteAccount` | `settings.Update`, `SoftDeleteUser` |
| `SuspendUser`, `InsertSuspension`, `UnsuspendUser`, `LiftSuspensions`, `SetStatus`, `SuspensionEnds`, `Reply` | `AdminServer`, `suspension`, `users.SetStatus` |

`Reply` keeps the answer of a moderation for a step, so that
`ModerationTakesEffect` can look at it; `alone` is history: no other moderation
of the account overlapped.

### MessageWorkers

A message is one call of `Send` or `Schedule`, or one batch of `SendBulk`; its
task has its name, unless its idempotency key is held by another one. `w[m]`
holds the locals of the attempt that runs the task: `rows` is what
`FindActiveByUserID` returned, `todo` the part of the loop still ahead, `failed`
whether `lastErr` is set. Device rows keep the id of their insertion, so that a
row deleted and registered anew differs from one updated in place. FCM accepts
one token per device, `live[d]`. `orphan` are e-mail goroutines whose deadline
has passed: the processor ignores its context and sends on while Asynq retries.
`copies` and `refused` are history.

| Action | Code |
| --- | --- |
| `Send` | `Send` and `Schedule` of both dispatchers |
| `Start`, `Interrupt`, `Timeout`, `Retry`, `Finish` | `ProcessTask` around its loop; Asynq |
| `CheckPreferences`, `ReadTokens`, `SendToToken`, `Deactivate`, `EndLoop` | `processNotification`, `sendToToken` |
| `SendEmail`, `OrphanSends`, `EndLoop` | `processEmail`, `processBulkEmail` |
| `RegisterToken`, `DeleteToken`, `SetPreferences`, `Rotate` | the notifications service; the platform |

### Serving and Gateway

Serving is the API process. A call is of a kind: public, a user's, an
administrator's, or the upload stream; it moves from interceptor to interceptor.
The caller's session and role change next to it (`Revoke`, `SetRole`).
`entitled` is history: the caller was entitled to the method at some time since
the call arrived. A background goroutine uses a pooled connection per tick.

| Action | Code |
| --- | --- |
| `Arrive`, `Undecodable` | grpc-go up to `metricsUnary`, `metricsStream` |
| `Authenticate`, `Validate`, `Handle`, `Panic`, `Return` | the interceptor chain; `recovery` |
| `Receive`, `ReceiveFails` | `validatingStream`, the loop of `UploadAvatar` |
| `Serve`, `Signal`, `HealthDown`, `GracefulStop`, `ForceStop`, `StopReturns`, `CloseObs`, `ClosePool`, `CloseCache`, `CloseDispatchers` | `Start`, `AwaitShutdown`, `Server.Shutdown` |
| `Tick`, `QueryEnds`, `StopLoop` | the drain and the outbox metrics |

Gateway extends Serving: the calls of `Rests` come from REST requests. `Routes`
lists every route in the order of registration, `Route` picks as `ServeMux`
does (the one registered last), `MessageId` fills the message's id as the
generated `request_X_0` does, and `KindOf` is the interceptors' table of public
methods and the administrator's prefix. `Named` and `PathId` are the reference:
the most specific route, and the id in the path. Every request with a route is
enumerated in `Requests`.

### SchemaMigration and Migrate

SchemaMigration has a schema (`version`, `dirty`, `applied`) and at most one run
with a goal. A run starts from a clean version and takes the schema towards its
goal a migration at a time: `Announce` (a dirty version), `Perform` (its body),
`Confirm` (a clean version). It may end anywhere, and only an operator's
`Force` gets past a dirty version.

In Migrate a process runs one command at a time. `place` says in which schema the two
tables are; `version` and `dirty` are the row of `schema_migrations`, `applied`
the migrations whose effect is in the schema, `holder` has the advisory lock.

| Action | Code |
| --- | --- |
| `Start`, `End` | `main` and its flags |
| `FindHistory`, `MoveHistory`, `CreateHistoryTable`, `FindVersionTable`, `MoveVersionTable` | `moveTableToPublic`, `createHistoryTable`, `moveSchemamigrationsToPublic` |
| `OpenLibrary`, `PeekVersion`, `ReadBefore`, `ReadAfter`, `RecordMigration`, `Forward` | `getMigrate`, `migrateToVersion`, `executeMigrationWithTracking` |
| `Lock`, `BeginRun`, `NextMigration`, `RunBody`, `SetClean`, `Unlock`, `ForceVersion` | golang-migrate, external |

`OneRunAtATime` is `SchemaMigration`'s specification under the mapping that
takes the run in progress to be that of the process which holds the lock and has
read a clean version (`InRun`), with its target as the goal. The mapped steps are
those under the lock; waiting, reading the version beside it, history and tables
are stutters.

`PeekVersion`, `ReadBefore` and `ReadAfter` all go through `Reading`: the code
drops the error of `m.Version()` (`main.go:468`, `:474`, `:697`), so a read that
fails yields version 0, and a rollback by `-version` then counts as `up`. Such a
run is `blind`. `-steps k` is a number and a direction: `Goals` takes as many
migrations as there are, and `Short` makes the run fail after them
(`ErrShortLimit`), so its row says `failed` although every body succeeded; with
nothing left to do it fails at once (`BeginRun`).

`HistoryTruthful` says what the history keeps of a run that no other overlapped.
`DueRow` is the row its outcome calls for: none if it moved nothing, otherwise
the version reached, or the first one rolled back, and whether the library
returned an error. A run that could read the version writes exactly that row,
whatever else failed. A blind run may write none although it moved the version,
or one for no move (0 read on one side of it, the version on the other); still its row names a
version the run found or left, and tells whether it failed. Out of its scope is
what the code does not record truthfully: runs that overlap, since the version
is read outside the lock, an insert that fails (it is only logged), and `-force`
(section 3, disagreements).

## 3. Runs

### Passing

| Run | Question | Bounds |
| --- | --- | --- |
| `outbox_mixed` | Do the safety properties of the pipeline hold, and is it a delivery, when two replicas drain a direct publish with two async handlers and a transactional one with two async handlers and a critical one, under one dedupe key, with one task id for the second handlers of both? | 3 failures, 2 attempts per row, 1 row per batch |
| `outbox_live` | Is every committed row processed or dead-lettered once, and every acknowledged event settled, in the end, with one unknown type and one corrupt payload? | 3 events, 1 replica, 2 rows per batch, 1 failure, 2 attempts |
| `drain_loop` | In the API and in the worker: does the loop probe at most once per wake-up and drain every row; do goroutine and process end; does the shutdown cost an attempt? | 3 rows, batches of 1, threshold 2, 3 failures, 2 Asynq servers, 1 background goroutine |
| `auth_sessions` | Do revocations revoke, does a revoked session get nothing, does an active one keep a refresh token; one active session per device, and how far beyond the device limit? | 2 requests at a time, 3 device ids (one of them empty), limit 1, 3 sessions, 3 tokens, 1 reset, 1 password change, 1 failure; the third token only without reset and change (`ThreeTokensWithoutReset`) |
| `lockout` | How many guesses get through, for what is an address locked, and does it end? | 2 logins at a time, 1 known and 1 unknown address, limit 3, 2 failures |
| `accounts` | Do the invariants over rows, tokens, objects and suspensions survive every interleaving and one failure? | 2 requests at a time, 2 users with 1 address, 1 token, 1 avatar, 2 suspensions, 1 failure, both roles |
| `messages` | Is a completed task delivered, is nothing repeated without a failure, does a dead token cost one attempt, is only a refused row deactivated? | 2 devices, 2 pushes under one key (one undecodable), 1 e-mail, 2 retries, 2 rows, 1 new token, 1 failure |
| `serving` | Who gets to a handler, do the metrics add up, is anything closed in use, does each request become the call it names and get an answer, does the process end? | 2 calls of every kind, one of them behind the gateway, 1 background loop, uploads of 1 chunk, 1 panic, every route with 2 ids, `me` among them |
| `migrate` | Does the version table match the schema, and the history the runs, and is it all as if one run came after another? | 2 processes, 2 migrations, every command, `-steps` of 1 and 2 either way, 1 failure, unreadable version or crash |

Why the bounds are enough. In the pipeline the conflicts are between two
replicas, or a replica and the publishing request, over one row or over two rows
with one key; two events and two replicas produce all of them, and two attempts
make a first try, a retry and an exhausted row. Each event has a handler with a
task id of its own, and one that shares its id with the other event. Three failures let one behaviour
combine a failed enqueue, an aborted batch and a failed mark. Drain loop: two
failing batches open a breaker of threshold two, the third row is there to probe
it; two servers make the shutdown's order visible. Sessions: every race of the
code is between two requests; two sessions give a victim and a survivor, a third
one, with three device ids, lets the limit be exceeded by more than one, and a
third token lets two refreshes rotate one token. A behaviour is not followed
beyond a state that has both the third token and a requested reset or a changed
password: a revocation loop needs two sessions, not three. Lockout: two logins read the counter below the limit before either raises
it, and the failures stay below the limit, as `LockoutEnds` requires. Accounts:
two requests race for one address, one token, one account; a deleted user and
its successor are two. Messages: two devices let one accept and the other
refuse, two rows let a row be replaced between the answer and the update, and
one failure with a token refused in both rows uses up two retries. Serving: a
call and an upload overlap with a shutdown; routes do not depend on each other.
Migrate: two migrations have a first, a last and a middle version, and two
processes contend for lock and tables; two steps reach the last migration or
fall short of it by one. All bounds are CONSTANTS, most of them
named Max...; they stand in the guards of the actions that consume them. The
checks do not look for deadlock where a bounded behaviour or a process comes to
an end.

Each property of a passing run has a mutant in `PROJECT.json`: a plausible bug
in one definition under which TLC finds the property violated.

The base modules state the types of their variables in `TypeOK`. No run spends
its time on it: it is proved (section 4).

### Violations: what a document says and the code does not do

| Run | What it shows |
| --- | --- |
| `outbox_crash` | A crash between the domain commit and the outbox insert loses the event: no caller publishes inside its transaction. |
| `serving_panic` | A handler panics: recovery answers Internal, and `metricsUnary`, which does not defer, never counts the call. |
| `auth_no_device` | The empty device id is one value of the unique index: a second login without device id fails. |

The quotations and lines are under "findings" in `PROJECT.json`. Four more
disagreements have no run of their own.

* A row that reached `outboxMaxRetry` is not selected any more, so the
  dead-letter branch for it is unreachable (`migrations/00016` says that such
  rows land in the dead-letter table).
* Two events of one request id share a task id, and the second is taken for a
  redelivery (`bus.go:248-249`): `NoSilentLoss` promises only the handlers whose
  task id no other event yields (`OwnOf`).
* An eviction that meets a session which another request has just revoked leaves
  the rest, so that the user keeps sessions the limit should have cost although
  nothing failed (`docs/authentication.md:38-40` says that the oldest is
  evicted); `DeviceLimitSlack` counts such evictions.
* `docs/database.md:46` says "Every run is recorded in
  `public.migration_history`." Not recorded are: a run that moved nothing,
  because there was nothing to do, the version was dirty, the lock was not
  obtained or the first migration could not be announced (`main.go:486-487`);
  `-force`, always, because the CHECK of `createHistoryTable` (`main.go:224`)
  refuses its direction `force`; a rollback that could not read the version before
  it, or, by `-version`, when it chose the direction, and a forward run that could
  not read it afterwards (`main.go:468`, `:697`, `:474`); a run that was overlapped by another in such a
  way that it saw no move of its own; a run whose INSERT failed, which is only
  logged; and a run that was killed. `HistoryTruthful` treats each of them as a
  run that is owed no row or as an exception, and claims no more than what is
  left.

### Fairness

Safety runs use `Spec`, without fairness.

* `EventOutbox`: weak fairness of each drainer (its ticker fires for ever), of
  each task (Asynq workers keep polling), of the back-off windows (time passes)
  and of a publishing request that has started. Faults, crashes, commits that
  fail and the sweep have no fairness. Starting a publish has none either.
* `WorkerProcess`: weak fairness of the loop, of the ticker, of the back-off
  windows and the cooldown; strong fairness of `Stop`, because Go's `select`
  picks at random among its ready cases, so a cancelled context is noticed
  although ticks and kicks keep arriving. Kicks are not fair: `RowsDrained` must
  not rest on them. `main` runs, a query of a background goroutine ends, and so
  does a task whose context was cancelled. A task that runs may hang for ever:
  `WorkerExits` must not rest on it.
* `LoginGuard`: Redis expires keys, and a login that has started goes on.
* `Serving`: the goroutines of the server run. Clients are not fair: an upload
  may stall for ever. Of the gateway nothing is assumed.

`RowsProcessed` needs fewer failures than `outboxMaxRetry`: the run has one
failure and two attempts. With more it is false: an exhausted row stays pending.

## 4. Proofs

Each theorem is about the module's specification, for every value of its
constants: any set of events, users, devices, addresses, messages or processes,
any finite set of concurrent requests, any limit and any bound. Every proof
module also has `TypeCorrect`, which says that `TypeOK` holds (in `WorkerProcessProofs`
the one of the drain loop).

| Module | Theorem | Property |
| --- | --- | --- |
| `EventOutboxProofs` | `ClaimsExclusive` | `ExclusiveClaim`: a claimed row is in one batch and unprocessed |
| | `DeadLettersOnce` | `DeadLetteredOnce` |
| | `KeysUnique` | `OneRowPerKey` |
| | `RetriesBounded` | `AttemptsBounded` |
| | `NoSilentLossHolds` | `NoSilentLoss` |
| | `DeliveryImplemented` | `ImplementsDelivery`: every step of the pipeline is a step of `EventDelivery` or a stutter |
| | `OnlyCommittedHandled` | no handler has run or has a task, and no dead letter exists, for a change that has not committed |
| | `HandledForGood` | a handler (of `OwnOf`) with a task or a run behind it is never forgotten |
| | `PromiseKept` | `Promised` and `Lasting` of `EventDelivery`: what was acknowledged stays in keeping, and nothing is done about a rolled-back change |
| `WorkerProcessProofs` | `LoopProbesOnce`, `ProbesOnce` | `ProbeOnce`, of the loop alone and inside the API or the worker |
| | `ShutdownIsFree` | `ShutdownCostsNoAttempt`, an action property |
| `AuthSessionsProofs` | `DevicesUnshared` | `OneActivePerDevice` |
| | `RevocationIsImmediate` | `RevokedGrantsNothing` |
| | `RevokersMissNothing` | `RevokersFinish` |
| | `SessionsKeepTokens` | `NotStranded` |
| | `DeviceLimitHolds` | `DeviceLimitSlack` |
| `LoginGuardProofs` | `GuessesAreBounded` | `GuessesBounded` |
| | `LockoutsHaveCause` | `LockedForCause` |
| `AccountsProofs` | `AddressesUnshared` | `OneLivePerAddress` |
| | `TokensOpenOneUpdate` | `TokensSingleUse` |
| | `AvatarsResolve` | `AvatarResolves` |
| | `SuspensionsOnRecord` | `SuspendedHasRecord` |
| | `ModerationsTakeEffect` | `ModerationTakesEffect` |
| `MessageWorkersProofs` | `CompletedMeansDelivered` | `DoneMeansDelivered` |
| | `CopiesArePaid` | `NoNeedlessCopies` |
| | `DeadTokensCostOnce` | `DeadTokenCostsOneAttempt` |
| | `DevicesStayReachable` | `OnlyRefusedRowsInactive` |
| `ServingProofs` | `HandlersAreEntitled` | `HandlerEntitled` |
| | `MetricsAccount` | `MetricsAddUp` |
| | `ShutdownInOrder` | `ClosedInOrder` |
| | `GatewayImplementsServing` | `Gateway` implements `Serving`: every step is one of the API process or a stutter |
| | `ApiBehindGateway` | so the three properties above hold behind the gateway |
| | `RoutedCorrectly` | `RoutedAsNamed` |
| `MigrateProofs` | `SchemaKnown` | `SchemaMatchesVersion` |
| | `HistoryIsTruthful` | `HistoryTruthful` |
| | `InterruptsStop` | `InterruptStops` |
| | `MigratesOneByOne` | `OneRunAtATime`: `Migrate` implements `SchemaMigration` |

### Assumptions

They stand in the module that declares the constants, and TLC evaluates them in
the runs. Every module assumes that its bounds are natural numbers; batch size,
breaker threshold, login limit and number of migrations are positive too (`BoundsAssumption`,
`DrainBounds`, `AuthBounds`, `GuardBounds`, `AccountBounds`, `MessageBounds`,
`ServingBounds`, `MigrateBounds`; `MaxDevices` may be 0, which is no limit).
Names that stand for "none" are nobody's name (`IdentityAssumption`,
`AuthIdentities`, `AccountNames`, `MigrateNames`). Requests in flight are
finitely many where a property counts them (`AuthIdentities`, `GuardNames`,
`ServingBounds`). `SubsAssumption` says that subscriptions are sequences of the
three kinds and their task ids are task ids; `GuardNames` that there is an
address, and that the known ones are addresses; `MessageBounds` that pushes are
messages.

Nothing is assumed of task ids: two requests may carry one request id, and then
their events share one.

### The inductive invariants

None of the properties is inductive alone. Each proof module defines `IInv` as
a conjunction of named parts, shows that `Init` implies it and that every action
preserves it, and derives the theorems.

**EventOutbox**, in three layers, each proved with the help of the ones before:

1. `Shape`: types; a stored task carries an event that yields its id
   (`TaskShape`); a drainer marks only rows it has claimed and publishes an
   unmarked one (`DrainShape`). The types alone are not inductive: applying a
   task needs the event in its envelope to be an event.
2. `RowInv`: what the position of the publishing request says of its row
   (`PublishShape`), that a claimed row may still be retried
   (`ClaimedRetryable`), and the four row properties. Exclusive claims need
   `Locked` in the guards of `FinishDirect`; the bound on attempts needs the
   late mark of the request to be counted once.
3. `DeliveryInv`: while a dispatch loop has `allEnqueued` set, every
   subscription it has passed is handled (`DispatchInv`), so is every row a
   drainer has marked ok (`MarkInv`), and `NoSilentLoss`. The lemma
   `HandledStable` says that no step takes a handled subscription back. It needs
   `OwnOf`: the task under a shared id may be another event's, and go with it.

The refinement rests on `RefInv`, which adds `Causes`: rows past their insert,
dead letters, tasks and runs exist only for events whose domain change has
committed. With it each action maps to one step of the contract: a publish that
returns to `Ack`, `Fail` or `Entrust`, a rolled-back transaction to `Withdraw`,
an attempt of a task to `Run`, the commit of a batch to `Park`, everything else
to a stutter. The step that needs most is the end of a dispatch: what the
mapping calls `kept` is read off rows, loops and tasks, and passes from one to
the other without a gap by `DispatchInv`. `ContractKeepsPromise` is about the
contract alone, and `PromiseKept` follows from it and the refinement.

**DrainLoop and WorkerProcess.** `Gated`: when the loop stands before its gate
the breaker is closed or this wake-up has not probed yet. `PastWait`: `main`
closes things only in a worker whose context is done, and under such a context
no batch commits.

**AuthSessions.** `Rows`: sessions and tokens are numbered in the order of their
inserts. `Named`: which operations reach a pc, and what their locals name.
`Refused`: a request that began too late is still in a position to find out.
`Revoking`: each session a revoker has to revoke is revoked or still in its list
(`Remaining`). The device limit counts. Each login evicts down to the limit the
sessions there were when it listed them, and says so while it does (`Evicted`).
`Limit` names, for each user, the newest session k of the most recent complete
eviction: up to k fewer than the limit are active, and what is newer than any x
past k came from a login that had listed no later than x, one per client, or
from one that failed or was cut short.

The proof found that the limit does not hold without `cut`. With three requests
at a time a logout may revoke the session that an eviction is about to, the
eviction stops, and one more session stays than failures and logins explain.
The runs have two requests at a time and do not reach this.

**LoginGuard.** `Accounted`: every wrong password is in the counter, on its way
to it, or lost to a failure. `Admission`: a login that has passed the check and
has yet to try its password is already in the bound.

**Accounts.** `Uploaded` and `Recorded` say what a request has done before the
step at which it stands; `Ungranted` covers the role that may write no
suspension; `Alone` and `Lifted` carry what a moderation without overlap relies
on from its first transaction to its answer. `TokensSingleUse` is inductive as
an account: `VerifyEmail` takes one from the tokens outstanding and adds one to
those used.

**MessageWorkers.** Each message has an account (`Book`). What it has cost so
far, failed attempts (`Failures`) and copies of each item (`Sends`), with a
reserve for what the running attempt may still send, is covered by what it has
been paid: the failures injected, and the dead tokens that it has met and can
never be refused again (`Met`). A token can be met once because the attempt that
is refused deactivates the row by the id it fetched, and a row registered anew
has another id (`Fetched`, `RowsFit`).

**Serving.** `Witnessed`: a call past authentication has recorded that its
caller was entitled. `Phases`: where `main` stands says which calls and loops
may still run. The gauge and the counter are cardinalities of sets of calls, so
each step moves one call from one set to another.

**Gateway.** Each of its actions carries one of Serving or leaves the API as it
is, so `GatewayImplementsServing` needs no invariant. `RoutedAsNamed` does: a
request that has been sent has made its call, so that no other is made for it,
and the call is of the method it names and none of the uploads (`GInv`). That
the route picked is the one named is read off the table by what each row asks of
a path (`RowShape`): no request fits two rows but for `GetUser` and `GetMe`
(`ShapesApart`), whatever the ids are.

**Migrate.** `Running`: what the process under the lock knows of version, dirty
mark and applied migrations at each of its steps. `Placed`: nobody opens the
library before the version table is in its place. `GoalsFit`: a run's goal
lies between 0 and N and, but for `-version`, on the side of its direction.
`Alone`, `Sighted` and `Truthful`: of a run that overlapped no other and could
read the version, what it has read is still so, and its row follows from it; of
a blind one, what it read is 0 or still so. The refinement rests on
`Running`: a process under the lock that has read a clean version stays the only
one until it unlocks, and `applied` differs from `version` by no more than the
migration announced.

### Only model-checked

* Liveness (`RowsProcessed`, `AckedEventsHandled`, `RowsDrained`,
  `ShutdownStops`, `WorkerExits`, `LockoutEnds`, `ShutdownCompletes`,
  `RequestsAnswered`): fairness is stated with ENABLED, which the provers do not
  handle.

## 5. What is not modelled

* Time: durations appear as the moment a window closes. The expiry of refresh
  tokens, the inactivity of sessions and retention are left out.
* Asynq is external: an id is taken until the task completes, retries are
  bounded, an exhausted task is archived. Its uniqueness lock and queue
  priorities are left out.
* Handlers are atoms that succeed or fail; a handler's SQL in a drain
  transaction only shows as `AbortBatch`.
* `CacheManager.GetOrSet`, tagged values and `InvalidateByTag`: nothing in the
  program writes a tagged value.
* Delivery logs, login attempts, `last_used_at`, `last_login_at`, rendering of
  messages; an e-mail address Resend never accepts makes the others of its batch
  repeat on each retry, which `NoNeedlessCopies` excludes.
* Row-level security, triggers and database roles, but for the policies on
  `auth.account_suspensions`.
* The user's status in `AuthSessions` (it is in `Accounts` and in the `session`
  of `Serving`), and the events that requests of `Accounts` publish (they are
  `EventOutbox`'s).
* Start-up: every process builds its parts one after the other and ends at the
  first error, before it serves anything.
* The gateway's form-encoded POSTs and the renaming of headers; listing,
  pagination and other reads.
* `OutboxRepository.Publish`, which nothing calls; the session cache entry, which
  nothing reads.
* Message descriptors, mappers, configuration, logging, gauges.

## 6. Plan

Done: the models of section 2, the runs of section 3 and the proofs of section 4:
every safety property of the runs, and the refinements of the pipeline, the
migration tool and the gateway.

What is left:

1. `DrainLoop`: that its batches are steps which `EventOutbox` allows its
   drainers.
2. An abstract specification of sessions, granted and revoked with no tokens or
   rows in it, for `AuthSessions` to implement.
3. One of what a push or an e-mail promises the caller of `Send`, for
   `MessageWorkers`.
