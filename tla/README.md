# Formal models of StrellerMinds-Backend

TLA+ specifications of the stateful parts of the backend, TLC configurations that check
them on small instances, and TLAPS proofs that hold for every instance. Paths such as
`auth/services/auth.service.ts` are relative to the implementation directory `src/` of
the repository; `docs/` is the repository's documentation.

The backend is a NestJS process in front of PostgreSQL. Node runs one callback at a time,
so code between two `await`s is atomic and everything else interleaves: other requests of
the process run at every `await`, and the database interleaves the statements of all
connections. The models take exactly these as their atomic steps.

## 1. Inventory

| Component | State | Operations | What is hard | What makes it correct |
|---|---|---|---|---|
| **Account life cycle** `auth/services/auth.service.ts`, entities under `auth/entities`, `user/entities/user-profile.entity.ts` | tables `users`, `user_profiles`, `refresh_tokens`, `security_audits` | `register`, `login`, `refreshToken`, `forgotPassword`, `resetPassword`, `verifyEmail`, `updatePassword` | each operation reads and checks first and writes in a transaction later; row locks, foreign keys and the unique index decide what two of them do together; rollback, and commits nobody hears of | one account per address; no dangling rows; a password in force is accounted for; a change of the password ends older sessions; a used reset token stays used; every request is answered |
| **Transactions** `common/database/transaction.manager.ts` | none | `run` | failure of any statement | all or nothing |
| **GDPR erasure** `gdpr/` | the same tables | `exportUserData`, `deleteUserData`, `applyRetentionPolicies` | erasure while another request of the account is under way | cascades leave nothing behind |
| **Token endpoints** `auth/controllers/token.controller.ts`, `auth/services/cookie-token.service.ts` | cookies of the browser | logout, verify, clear | logout does not reach `refresh_tokens`; all pages share the cookies | see findings |
| **Circuit breaker** `database/connection-pool.manager.ts` | `circuitState`, `failureCount`, `lastFailureTime` | `executeWithCircuitBreaker` | the circuit is read before the first `await` of a call and written after the last: late outcomes of calls let through earlier | no half-reset state; probes only after the timeout; recovery |
| **Contract violation reporting** `common/contract-testing/contract-violation-reporter.service.ts` | violations map, history (sharing the same objects), alerts, time of the last alert | record, resolve, report, statistics, nightly cleanup, daily summary | recurrence after resolution, after cleanup, within a cooldown; ids made of milliseconds | history and map agree; alerts respect the cooldown; counts add up |
| **OpenAPI validation** `common/contract-testing/openapi-validation.*.ts` | specification, schema cache, validation cache | validate request and response, reload, clear; middleware hooks | cache key narrower than the verdict; eviction at the limit; reload; the middleware's catch | a cached verdict equals the computed one; strict mode lets nothing through without one |
| **Rate limiting** `auth/guards/rate-limit*.ts` | windows per limit and address | `isAllowed`, `getStatus`, `reset`, `cleanup`; guard, interceptor | borders of windows, two windows side by side, cleanup at any moment | less than twice the maximum in any window's time; refused only with a full window; nobody locked out |
| **CSRF and HTTP routes** `auth/guards/csrf.guard.ts`, the controllers, `common/filters/global-exception.filter.ts`, `main.ts` | the CSRF cookie, the token each page holds | every operation of the controllers `AppModule` reaches | answers and requests of pages overtake each other; four gates and a filter before and after each handler | a page that fetches tokens gets through; a status tells which gate refused |
| **Debounce guard** `common/debounce/` | expiry per route and caller | `canActivate` with the sweep | sweep at the limit while windows are open | one call per window, exactly |
| **Query cache** `common/cache/`, `common/interceptors/cache-invalidation.interceptor.ts`, `course/course.service.ts` | cache entries with expiry | `getOrSet`, invalidation | fill after an invalidation; `null` in the cache | what was cleared stays away; no absence from the cache; old values go at last |
| **Notifications gateway** `notifications/notifications.gateway.ts` | subscriptions map, rooms of Socket.IO | connect, disconnect, subscribe, unsubscribe, ping, notify | `join` and `leave` are awaited | map, rooms and answers agree when nothing is under way |
| **MFA** `auth/services/mfa.service.ts` | `mfaSecret`, `mfaEnabled` | setup, verify and enable, validate, disable | read, check and update without a transaction | enabled only with a secret that was proved |
| **Keyset pagination** `course/`, `user/` use cases and repositories | none | list a page after a cursor | rows inserted, changed and deleted during the walk; odd limits | each row that stays is listed once; a walk ends |
| **Passwords** `auth/validators/`, `auth/dtos/` | none | validate, check strength, set, log in | one policy written in several forms | they agree |
| **Secure logging** `common/secure-logging/` | none | `log` and its kin, the interceptor | two passes with different lists and depths, and a URL that neither touches | hidden exactly behind the first sensitive name |
| **Health checks** `health/` | the one Redis client | `/health`, `/health/ready`, `/health/live` | partial outage, missing configuration, a client that never reconnects | the status is what the dependencies call for |
| **Visual regression** `common/visual/` | the current and the baseline file of a test | run a test, update baselines, clean up | the baseline is rewritten after an `await` | only a request changes a baseline |
| **Others** (jobs, e-mail, encryption, request security, media, CDN, Redis, pool monitoring) | none, or a library's | | | see section 6 |

Interactions. HTTP requests pass middleware (OpenAPI validation, which reports to the
violation reporter), guards (CSRF, then rate limit or JWT), the validation pipe, a controller and
a service, and `GlobalExceptionFilter` if any of them throws; services meet in the tables. `AuthService`, `GdprService` and `MfaService` share `users`;
`TransactionManager` carries the transactions. The circuit breaker stands in front of the
driver's pool for callers that ask for it.

Some parts are in the source but not in the application that `main.ts` starts: `AppModule`
imports neither `DatabaseModule` (the circuit breaker, and the scheduler behind the reporter's
nightly jobs) nor `NotificationsModule`, no route is decorated with `@Debounce` or uses
`CacheInvalidationInterceptor`, nothing calls `VisualRegressionService`, and `main.ts:101-102` hands the OpenAPI middleware to
`app.use` as an object, which Express does not accept. The models are of these components as they
are written, for the module that provides them.

## 2. Modules

| Module | Models | Role |
|---|---|---|
| `AccountContract` | what clients of the account handlers may rely on | abstract specification |
| `AuthService` | account life cycle, transactions, GDPR erasure, logout | specification, refines `AccountContract` |
| `MCAuthService` | | symmetry for TLC |
| `AuthServiceProofs` | | theorems about `AuthService` |
| `BreakerContract` | what callers of the breaker may rely on | abstract specification |
| `ConnectionPoolManager` | the circuit breaker | specification, refines `BreakerContract` |
| `ConnectionPoolProofs` | | theorems about `ConnectionPoolManager` |
| `ContractViolationReporter` | tracking, resolution, cleanup and alerts of contract violations | specification |
| `MCContractViolationReporter` | | results and ids for TLC, symmetry |
| `ContractViolationProofs` | | theorems about `ContractViolationReporter` |
| `OpenApiValidation` | the validation service with its cache and reload, and the middleware | specification |
| `MCOpenApiValidation` | | specification files, requests and responses for TLC |
| `OpenApiValidationProofs` | | theorems about `OpenApiValidation` |
| `RateLimiter` | the windows of the limiter | specification |
| `Routes` | gates, failures and statuses of every HTTP operation | definitions |
| `RequestPipeline` | one request on its way through gates, handler and filter | specification over `Routes` |
| `HttpApi` | the pages of a browser, the CSRF cookie and guard, the limiter behind it | composes `RateLimiter` and `Routes` |
| `ApiProofs` | | theorems about `RateLimiter`, `HttpApi` and `RequestPipeline` |
| `DebounceGuard` | the debounce guard | specification |
| `MfaService` | MFA of one user | specification |
| `NotificationsGateway` | the gateway and Socket.IO's rooms | specification |
| `QueryCache` | readers, writers, expiry and invalidation of one course | specification |
| `Pagination`, `PaginationProofs` | pages of courses and users | specification, theorems |
| `PasswordPolicy` | the rules, the regular expression and the DTOs | functions and a specification that compares them |
| `SecureLogger` | the logger and the logging interceptor | functions and a specification that compares them with a reference |
| `HealthStatus` | the probes | specification |
| `VisualRegression` | the files of the visual tests | specification |
| `ServiceProofs` | | theorems about debounce, MFA, cache, passwords, log, probes, baselines, gateway |
| `MCServices` | | the components above, one per behaviour, for TLC |
| `MCServicesProofs` | | carries the theorems about the components over to `MCServices` |

### AuthService

*State.* `row`, `profile`, `session` and `audit` are the four tables, as committed. `pc[r]`
is the next statement of HTTP request `r` or the answer it gave, and `req[r]` its local
variables. Random values (ids, refresh tokens, reset tokens) are fresh in the code, so
they are named by the request that draws them. Passwords are model values: `bcrypt.hash`
and `compare` are equality, `hashToken` is injective. Ids are never guessed: `Refresh`,
`Logout` and `ResetCheck` present only tokens that an answered request handed out.

*Steps.* The first step of a request is its read with the checks on what was read
(`RegisterCheck`, `LoginCheck`, `Refresh`, `Logout`, `ForgotCheck`, `ResetCheck`,
`VerifyCheck`, `UpdateCheck`), or that read fails (`ReadFails`); `Delete` is one statement, and
may fail too (`DeleteFails`). Then each SQL statement of the
transaction is a step (`InsertUser`, `InsertProfile`, `InsertSession`, `UpdateUser`,
`RevokeSessions`, `InsertAudit`), and the commit makes the writes visible at once. Any
statement of a transaction may fail (`Abort`): a database error, or a connection or process lost
before the database commits, is a rollback. A connection or process lost after the COMMIT is
something else: the writes are there, and the handler answers 500 or nobody (`AtCommit` with the answer
`lost`, also of `Delete`). The token of such a login or forgot-password request is known to nobody; such an account is listed by
`GET /users` all the same, and so can be updated and erased (`Committed`). `ExpireSession` and `ExpireReset` are the passing of time.

*Database.* READ COMMITTED, the default of PostgreSQL that the code leaves in force. An
UPDATE locks its row until the transaction ends; an insert with a foreign key shares the
key of the row it refers to, which only a DELETE conflicts with; the unique index on
`emailHash` makes a second insert of the same address wait. A lock follows from the `pc` of
the request that holds it, so there is no lock table. These definitions are external to the
repository and are marked so in the map.

*Faithful details worth knowing.* `refreshToken` neither rotates nor revokes; `logout` only
clears cookies; `verifyEmail` resolves every token to one fixed address (`StubEmail`); a
failed audit of a failed login is swallowed and the answer is still 401; an UPDATE by id of a
row that is gone is no error, the audit insert after it is. `updatePassword` is reached by
the id of a registered user.

*History.* `setBy`, `proof`, `saw`, `audit.by` are read by no step; they let the properties
relate a state to an earlier one.

*Contract.* `AccountContract` takes every handler as one step: a request is answered once, and
what it does to accounts, sessions and the audit trail happens at its answer, on an account that is
still there, or not at all. A refusal (4xx) gives a reason that holds: a refresh is refused when there is no
such session, an erasure when there is no account. A 500 gives none: the request took effect as a whole or not
at all, and its client cannot tell (`Unknown`). `KeepsAccountContract` is this refinement. An account is seen once row and
profile are committed, without a reset token that has expired; a session is seen while
`refreshToken` would honour it. The contract says what a handler writes and not what it had compared
before, since that was of older rows: which is what the findings on resets and logins are about.

### ConnectionPoolManager

*State.* `circuitState`; `failureCount`, kept at the threshold where it would grow past it
(the code only compares it with the threshold); `sinceFailure`, the clock minus
`lastFailureTime`, kept at `ResetTimeout`; `phase[c]`, the `await` at which caller `c` stands;
`streak`, a history variable for the documented meaning of the threshold.

*Steps.* `Refuse` and `Admit` are the code up to `queryRunner.connect()`, `Connect` gets a
connection of a pool of `PoolSize`, `Succeeds` and `Fails` are the try and the catch block,
`Release` the finally block, `Tick` the clock. A caller repeats calls.

*Contract.* `BreakerContract` forgets states and counts: a breaker is tripped or not; while
it is tripped, a call is let through only when no failure was recorded for `ResetTimeout`,
and only the success of a call then makes it recover. `KeepsContract` is this refinement,
with `tripped`, `quiet` and `inFlight` computed from the code's fields.

### ContractViolationReporter

*State.* `violations` is the map by id, `violationHistory` the list that reports, statistics and
thresholds count. Both hold the same JavaScript objects, and a resolution through the map shows
in the history; so objects have names (`Object`) and their fields are in `object`. `sinceAlert` is the age of
`lastAlertTime` of each kind and severity, `time` the time of day. Times are compared with the
clock only, so each is kept as an age, up to one tick past the longest time it is compared with.
`sinceSent` is a history variable: when an alert really went out.

*Steps.* Every method runs without an `await` and is one step: `recordViolation` (with the
update of a known violation, `Recur`, or a new one, `Occur`, the thresholds and the alerts),
`resolveViolation`, the two cron jobs `cleanupOldViolations` (at midnight) and
`generateDailySummary` (at nine), and the clock. The id of a violation is made of its method,
endpoint and codes with everything but letters and digits replaced, so two endpoints may
share one: `Slug` is any function.

### OpenApiValidation

*State.* `file` is the specification file as it is now, `openApiSpec` what was parsed last,
`ajv` the component schemas registered by name, `validationCache` the cache as a sequence, oldest
first, and `handling[r]` the request whose handler runs. A verdict is the set of error codes of
a message; the operators from `validateSchema` to `Errors` compute it as the service does,
with what a schema accepts given as a set of values.

*Steps.* `Pass` and `Reject` are the middleware on a request, `Respond` a response through
the replaced `res.json` and `res.send`. `PassUnvalidated` is the catch of the middleware: when the lookup of the
endpoint comes upon an empty path item (`lookupThrows`) it throws, and once more while `validateRequest` puts together its
error result, so the request goes on, in strict mode too, and its response is not validated
(`RespondUnvalidated`). A validation that throws elsewhere (`faulty`: the parameters of an operation are no list, or the
description of a response header is empty) gives the result `VALIDATION_ERROR`, which is not cached. `clearCache` and `reloadSpecification` are
the endpoints of the controller, `Edit` is a change of the file. The key of the cache leaves out the query, the headers and
all but the first bytes of a body, as in the code.

*Interaction.* The middleware reports each invalid result to the reporter, in the same step.
The reporter gives nothing back to validation, so the two modules are checked apart: the input of
the one, `Validation`, is the output of the other.

### RateLimiter, Routes, RequestPipeline and HttpApi

`RateLimiter` keeps `resetTime - now` of each entry; a call and the clock are steps, several calls may
fall in one tick. `isAllowed` compares `now > resetTime`, so an entry is alive through the tick at
which nothing is left of it. `recent` is history: the ages of the calls that were allowed.

`Routes` has a record for each operation: its method, limit, guard, whether a DTO is validated, the
statuses of success, and what it may throw. What is thrown
comes from the handlers and the services below them; `catch` is the filter. `RequestPipeline` sends
one request at a time through the gates in the order of `main.ts`. The contract controller's
`JwtAuthGuard` (`auth/guards/auth.guard.ts`) returns true, so it is no gate.

`HttpApi` is the browser: pages share one cookie jar, each holds the token of the last
`csrf-token` answer it got. A request takes the cookie when it leaves, an answer sets it when it
arrives, and both travel for any length of time. The server's part of a request is one step:
guards and `getCsrfToken` have no `await`. Token values are reused when nothing holds them
any more, which a random token never is.

### DebounceGuard, MfaService, NotificationsGateway, QueryCache

One step is the code between two `await`s. In `MfaService` that is the SELECT with the check of
the token, and the UPDATE. `verifyAndEnable` answers 400 without a secret (`rejectSetup`), `validateToken`
verifies against `''` then, so a token computed from the empty secret passes: it proves nothing. `crossed` remembers that a setup replaced a secret in use, or that a setup
or a disable came between a check and its UPDATE. How each crossing breaks the promise: a setup on an
enabled account replaces the secret by one nobody has proved, with `mfaEnabled` still true; a setup
between the check of a verification and its UPDATE enables MFA with the new, unproved secret; a
disable there leaves MFA enabled with the secret `''`, which a token of the empty secret passes
(`mfa_crossed` shows this one). `MfaEnabledProved` says that there is no fourth way.

In `NotificationsGateway`, Socket.IO's in-memory adapter joins and leaves at the call and the
handlers go on after their `await` in the order of their calls; a disconnect falls between. With an
adapter that answers out of order `AnswersHold` fails, as the variant `finishLast` shows.

`QueryCache` follows one key. Each `await` of `getOrSet` is a step, and the interceptor's clearing
comes some time after the write. `outdated` is what must not come back: what was overwritten
before the cache was emptied while no reader stood between its query and its fill. A reader that
does stand there puts back an old value, for at most the time to live (`CacheConverges`).

### Pagination, PasswordPolicy, SecureLogger, HealthStatus, VisualRegression

A page is one query. Walks are of either table with any filter and limit; the rows are any, and
others insert, change and delete them between pages. `take` and `slice` follow TypeORM and
JavaScript for limits of 0 and -1.

A password is its length and the kinds of characters in it, `other` for those outside the alphabet. A
logged value is one leaf with the names on the way to it, an element of an array under its index, since what
happens to a part of a value depends only on the names above it. `sanitizeBelow` is the code's recursion, from
each depth on; `Clean` is the reference: cut behind the first sensitive name that holds something. A line has several
parts; those of the interceptor are the message and the URL, which are text that may hold a secret of the query
(`Line`, `urlOf`), and the sanitized query, body or error. In `HealthStatus` the dependencies
answer in any order, and may come and go. `redis` is the state of the one ioredis client, apart from whether Redis serves
(`redisServes`): a connection that is refused or lost ends it, since `retryStrategy` returns null, and each
PING after that fails (`found["redis"]` is then `ended`), until the process is restarted. A Redis that answers with
an error (while it loads, say) leaves the connection. In `VisualRegression` responses are numbers and match within the threshold;
a process that ends while it writes a baseline leaves a torn file, which fails every later test
until a baseline is set on request.

Definitions marked *Variant* in the modules are plausible mistakes (a missing reset, a
dropped check). No specification uses them; each is listed as a mutant of the definition
that follows it, and TLC then finds the property it is listed with violated.

## 3. Runs

| Run | Instance | Shows |
|---|---|---|
| `auth_sessions` | 1 account, 4 further requests of any kind, at most one of them meeting a failure, 1 address, 2 passwords, symmetry; 447,807 states | `TypeOK`, `PasswordAccountedFor`, `OlderSessionsRevoked`, `StoredTokenUnused` |
| `auth_accounts` | 1 account, 3 further requests, any number of failures, 1 address, 1 password; 95,163 states | `UniqueEmail`, `ReferencesLive`, the refinement `KeepsAccountContract`, and under fairness `EveryRequestAnswered` |
| `auth_relogin` | 1 account, 3 further requests | violated: `ForcesReLogin` |
| `auth_reset_once` | 1 account, 3 further requests | violated: `ResetTokenUsedOnce` |
| `auth_duplicate` | 1 account, 3 further requests | violated: `DuplicateIsConflict` |
| `circuit_breaker` | 3 callers, threshold 3, timeout 2 ticks, pool of 2; 3,429 states | `TypeOK`, `StateMatchesCount`, `HalfOpenIsRested`, `KeepsContract`, and under fairness `Recovers` |
| `breaker_consecutive` | the same | violated: `OpensOnConsecutiveFailures` |
| `contract_reporter` | 3 objects, results of 2 endpoints that share an id and a critical one, all durations of 1 to 3 ticks, symmetry; 33,782 states | `TypeOK`, `HistoryTracked`, `ListedUntilResolved`, `NoAlertStarved` |
| `openapi_cache` | 2 exchanges, 6 requests, 3 responses, 4 contents of the file, cache of 2, strict; 32,932 states | `TypeOK`, `CacheCurrent`, `StrictByTwin` |
| `openapi_strict` | the same | violated: `StrictRejectsInvalid` |
| `services` | the twelve components of `MCServices`, one per behaviour (below); 131,289 states | 15 invariants: `ServicesTypeOK`, `AtMostTwoWindows`, `FullWhenRefusing`, `StatusTellsGate`, `DebounceExact`, `MfaEnabledProved`, `EntriesAreConnected`, `AnswersHold`, `NoStaleAbsence`, `ClearedForGood`, `ListedOnce`, `OnePolicy`, `LoggedByPath`, `HealthTruthful`, `BaselineIntended`; under fairness `NotLockedOut`, `PostsGetThrough`, `CacheConverges`, `WalkEnds` |
| `mfa_crossed` | 2 requests, 1 secret | violated: `EnabledHasSecret` |

*Bounds.* The bound of `AuthService` is the number of requests: each request runs once,
so the system stops when all are answered and deadlock is not checked there. `auth_sessions`, the largest run,
has one more: at most one request is answered 500 or not at all (`MaxFailures` in `MCAuthService`); the other runs
have any number of these. Four requests
are enough for login, forgot, reset and a fourth that overlaps them, the longest chain of
causes the properties speak of. With one address any two registrations collide, which is what
`UniqueEmail` is about; that accounts of different addresses, and answers to a wrong password, keep the contract too is said
by the theorems, which do not depend on these numbers. In the breaker, two
callers make a late outcome possible and the third a probe beside it; a threshold of 3 is
reached by counts that straddle an opening; a pool of 2 makes the third caller wait. Its
counters are capped where the code cannot tell larger values apart.

In the reporter, a day of two ticks and a retention of three let a violation recur before and after
it is resolved, cleaned from the history and cleaned from the map, in every order; two ticks of cooldown
let an alert be suppressed once and go out again; the threshold of two in total is passed by violations of
different ids. A third object is needed for a violation of an id whose first object has left the
history but not the map, beside others. In the validation, the files are a valid one, one that
changes a schema of the same name and an optional parameter, one that is invalid, with an empty
path item and parameters that are no list, and one that does not parse; requests come in pairs that share a key, and three keys compete for a cache of two.

In `services` a behaviour is one of a single component, chosen at the start, and the others stay as they
begin; the components share no state, so nothing is lost by it. The limiter has two keys, one of a
single call per tick and one of two calls per two ticks: two windows side by side and a call at
`resetTime` occur. `HttpApi` has two pages, with `csrf-token`, a limited POST and logout; seven token
values are as many as jar, pages, requests and answers can hold at one time, and one to give out (six are enough, as `TokensSuffice` asks). The debounce
guard has three keys over a limit of one, so that every admission may sweep, and windows of two
lengths. MFA has two requests and three secrets, the third for a setup that crosses a second round.
The gateway has two sockets, two channels and two handlers in their `await`, two of one channel among
them. The cache has two readers and two versions: one reader may fill with the older of two. Walks
are over three ids with limits -2, -1, 0 (the default, 2) and 1: pages end at, before and behind
the last row. Passwords have the lengths on both sides of each bound. Logged values have up to five names
from four kinds, and up to two more by way of the interceptor; the limit on the depth is 5 as in the code, so
leaves end before, at and behind it. A visual test has three responses, two and two of
them close, and two overlapping runs: a baseline could drift.

*Fairness.* `AuthService!FairSpec`: a statement that can run is run (the event loop and the
database make progress). Clients need not send anything, statements need not fail, time need
not pass. `EveryRequestAnswered` then says that waiting for locks never goes in a circle.
`ConnectionPoolManager!FairSpec`: the clock runs, a call that has been let through ends (the
driver has timeouts), and callers keep calling, because the breaker has no timer and leaves
the open state only in a call. `Recovers` needs in addition that from some time on no call
fails, which is its premise. In `services` time passes, the server handles what it was
sent and its answers arrive (`ApiFairness`); pages need not send, and `NotLockedOut` and
`PostsGetThrough` have it as their premise that they go on trying. Entries of the cache expire and
the database and the cache answer (`CacheFairness`), but nobody need read and no interceptor need
run. A client that walks asks on (`PageFairness`), since `WalkEnds` is about such a client.

## 4. Disagreements found

* **A password change does not force every session to log in again** (`auth_relogin`). A login
  that compared the old password before the change inserts its session after the revocation.
* **A reset token can be used twice** (`auth_reset_once`): the validation is outside the
  transaction that clears the token, unlike what its comment says.
* **The loser of a race for an address is answered 500, not 409** (`auth_duplicate`).
* **The breaker counts all failures, not consecutive ones** (`breaker_consecutive`): a success in
  the closed circuit leaves the count as it is.
* **Strict mode passes invalid requests and rejects valid ones** (`openapi_strict`): the key of the
  cache leaves out the query, the headers and most of the body, so a request gets the verdict of
  another one.
* **MFA can be enabled for a user without a secret** (`mfa_crossed`), by a disable between the check and the
  UPDATE of a verification.

No run is spent on these, but the modules say them and the theorems cover them:

* No refresh token can be refreshed: login gives out random hex, the DTO of refresh asks for a JWT
  (`refresh-token.dto.ts:6`), so every request to refresh is answered 400 (`NoTokenRefreshes`).
* Strict mode lets a request through when its validation throws (`PassUnvalidated`): an empty path item in
  the specification makes the lookup throw, again while the error result is made, and the middleware's catch
  calls `next()` in every mode (`openapi-validation.middleware.ts:87-95`). `KeyAndEmptyItemsMislead` says that this and the key
  of the cache are all that is wrong with strict mode.
* The URL is logged with its query string (`secure-logging.interceptor.ts:30`), so a token or a password sent as a query
  parameter is in the message and in the field `url` of each line of the interceptor, while `query` is sanitized
  (`Line`, `urlOf`; `LoggedByPath` says that these parts are logged as they are). The exception
  filter logs `request.url` in the same way (`global-exception.filter.ts:81-85`). The class comment says
  that tokens "are never logged".
* After one failed or lost connection to Redis, `/health` and `/health/ready` say 503 until the process is restarted,
  with nothing down: the one client has `retryStrategy: () => null` (`health.service.ts:38`) and never connects
  again (`redis = "end"`). `docs/DEPLOYMENT.md:165-168` calls the 503 of an unreachable Redis the correct signal.
* An unknown course is answered 400, not the documented 404 (`getCourse`): the use case throws
  `COURSE_NOT_FOUND`, which is no code the filter knows, and the controller's own
  `EntityNotFoundException` (`course.controller.ts:141`) is never reached.
* Five POST operations answer 201 where they document 200: the three of the MFA controller, and the
  validation and reload endpoints of the contract controller (`Post` of `Routes`).

By reading:

* a response sent with `res.json` is validated twice, the second time as the text `res.json` hands to
  `res.send`, which no object schema accepts: a conforming response is reported;
* a reload keeps the schemas of the first load where names are the same (ajv keeps them), and a
  file that is invalid or cannot be parsed is only logged, while the controller answers
  "Specification reloaded successfully" (`contract-testing.controller.ts:117-122`);
* the query is validated as strings, so an integer parameter never conforms;
* `RateLimiter.cleanup` is never called, and `QueryCache` has no writer that invalidates it;
* a reset clears whatever reset token is on the account, a newer one too that was sent between its check
  and its commit (`auth.service.ts:322-326`);
* a violation that is resolved and occurs again raises no immediate alert
  (`contract-violation-reporter.service.ts:175-186`), and is not listed as unresolved;
* a connection lost after a COMMIT is answered 500 with "Could not reset password. Please try again.", while the new
  password is in force and the token is spent;
* an update of a password always fails, since its id is the constant of a TODO (the 200 and the 401 it documents
  are never given); no operation documents 403;
* `GET /courses` counts against the limit of registrations (`course.controller.ts:31`), and its header
  `X-Next-Cursor` is always empty (line 33); a limit of -1 drops the last row of every page, a lower
  one is answered 400;
* `Retry-After` may be 0, in the last millisecond of a window, when a retry is still refused;
* `RateLimitInterceptor` reads its options before the decorator's wrapper sets them, so it would
  never limit; no route uses it. `RateLimitExceptionFilter` and `ValidationExceptionFilter` are unused;
* cookies are set with a domain and cleared without one (`cookie-token.service.ts:73-104`): with
  `COOKIE_DOMAIN` set, logout clears nothing. No handler ever sets the access or the refresh cookie, and
  `refresh` answers the literal `new-token`;
* two pages that fetch CSRF tokens in turn invalidate each other's; CORS does not allow the header
  `X-CSRF-Token` (`main.ts:76`);
* `main.ts:88-89` calls `json` and `urlencoded` of the Express application, which has neither;
* `degraded` of `buildDetailedResult` is never answered, since Terminus throws on anything but `ok`;
* a password that is not valid may be called `good` or `strong`, and `good` is described as "Meets all
  basic requirements" (`password.validator.ts:142`) with a score of 3 of 5;
* a baseline set while a test of the same name awaits its diff is put back to what it was;
  `updateBaselines` takes whatever response is there by then.

Also by reading: `docs/AUTHENTICATION_GUIDE.md:111` says of logout "Tokens are invalidated"; the
handler only clears cookies, and the refresh token stays valid in the table.

## 5. Proofs

`AuthServiceProofs` proves, for all sets of requests, addresses and passwords, the type
invariant (`TypeCorrect`), `AccountsUnique`, `NoDanglingReference`, `UsedTokenNotStored`,
`ChangeEndsSessions`, `PasswordAudited`, the action properties `RevokedForGood` and
`SpentTokensAreRefused`, how requests wait (`NoCircularWait`, `EveryStepIsCloser`) and the refinement
`ContractKept`. The assumptions are those of the specification: `StubEmail` is an address, the
registrations that exist at the start are requests, and `None` is none of the values.

None of these is inductive alone. `Invariant` adds what the argument turns on:

* `LocalsFit`: what a request holds in its locals fits the operation and statement it is at;
* `CommitsLive`: a request about to commit refers to an account that exists, since its insert
  took the key lock that an erasure waits for;
* `IndexExclusive`: of the registrations of one address between insert and commit there is
  one, and no committed account has the address;
* `TokensGenuine`: a stored reset token is the one of a completed forgot-password request;
* `SessionsOfLogins`: a session row is that of a committed login;
* `SawItsSessions`, `MarkedItsSessions`: the sessions a change saw at its read belong to the
  account, and each of them that is still active when the revocation statement has run is
  among those it marked.

`StoredTokenUnused` is inductive only through the row lock: between a reset's UPDATE and its
commit no forgot-password request can store a token. `StepCases` sums up what a step does to
one request, and each conjunct has a lemma of its own.

The refinement needs one more conjunct, `RowsOfRegistrations`: a row is that of a registration that
has committed, so before its answer there is no account of it to be seen. Then each step of
`AuthService` maps to a stutter (`UncommittedKeeps`: reads, statements before the commit, an abort that
gives no answer yet), to an expiry, or to the answer of one request (`CommitAnswer`): `CommitsLive` gives
the account of a login, a reset or an update, `IndexExclusive` the address of a registration,
`TokensGenuine` the new reset token, and `MarkedItsSessions` that a revocation takes sessions
of this account only.

`ConnectionPoolProofs` proves, for any callers, threshold, timeout and pool size,
`BreakerTyped`, `BreakerConsistent`, `ProbesAfterRest` and the refinement
`BreakerImplementsContract`. Its invariant is the conjunction of the three checked
invariants: that an open circuit has a time of failure is what makes a probe wait, and that
a half open circuit has a full count is what makes a failed probe open it again.

`ContractViolationProofs` proves, for any results, ids, thresholds and durations,
`ReporterTyped`, `CountedIsFiled` (`HistoryTracked`), `OnlyResolutionUnlists`
(`ListedUntilResolved`) and `AlertsGoOut` (`NoAlertStarved`). That the history is in the map is not
inductive alone: the two cleanups go by different ages. Its invariant adds `Filed`, that the
map holds each object under the object's own id, and `ResolvedLater`, that a resolution is never
older than its violation: so when a cleanup takes a resolved violation from the map, the same
cleanup takes it from the history. `CooldownsEarned` says that a cooldown under way
was started by an alert that went out, which is why suppression never starves an alert.
The assumption is that the windows are no longer than the retention.

`OpenApiValidationProofs` proves, for any specifications, messages, hash and size of the cache,
`ValidationTyped`, `NoStaleVerdict` (`CacheCurrent`) and `GateByKey` (`StrictByTwin`). Its
invariant is `TypeOK` with `Sound`: the cache is a sequence of well-formed entries within its size,
each the verdict of a message the middleware can build, under that message's own key. Keys of requests and of responses differ
in their type, which is why a hit at the gate is the verdict of a request. What throws leaves nothing in the cache;
a hit is found before the lookup, so a request whose lookup would throw may pass by the verdict of one like it.

`ApiProofs` has three parts. For any keys, limits and windows, `LimiterTyped`, `LimiterSound`
(`AtMostTwoWindows`) and `RefusedOnlyWhenFull` (`FullWhenRefusing`). `AtMostTwoWindows` is not
inductive: it needs `KeyInv`, that of a live entry the calls since its window began (`Young`) are as many as
its count, one of them is as old as the window, and the older calls that still count (`Aged`) are at most
one less than the maximum. The first call of a window is what makes the last of them too many. When the
entry is dead, by time or by cleanup, all that is recent is older than zero and less than the maximum.

For any finite number of pages and any operations, `ApiLimits`: the API implements the limiter, so the
bounds hold of it too (`ApiLimited`); `ApiTyped`; and `OneAtTheCookie`, that at most one page holds the
token the cookie has. The invariant `PagesInv` adds to the types that a page has a request or an answer
under way and not both, that a request of a safe method carries no token, and `TokensApart`, that no two
pages hold or are about to get the same token. With the first two, each page has at most three tokens of
its own or under way, the cookie is one of a page's or none, and so `getCsrfToken` always finds one that is
in use nowhere (`FreshToken`), as long as there are three for each page (`TokensSuffice`; the code's
tokens are random, and never run out). `TokensApart` is kept only because what is given out is fresh.

For every operation of `Routes`, `PipelineTyped` and `StatusIsTelling` (`StatusTellsGate`). The invariant is
`AnswerAccounted`: an answer is that of a gate on the operation's way, of something its handler throws, or of its
success. Nothing here depends on a constant, so the run covers all of it as well.

Of the gateway, `ServiceProofs` proves, for any sockets, channels and number of handlers, `NotificationsTyped`,
`NoEntryLeftOver` (`EntriesAreConnected`) and `NotificationsSound` (`AnswersHold`). The
rooms run ahead of the map by the handlers that wait: `RoomsFollowLast` says that they agree with the last
of them of a client and channel, so that when it is finished, the map agrees too.

`PaginationProofs` proves `PagesSound`, for any finite set of ids, filters and limits. `CursorCuts`:
nothing listed lies beyond the cursor, and nothing that stayed before it is missing; that a page
is a first part of what is left needs the greatest element of a finite set (`HasGreatest`).

`ServiceProofs` proves the invariants of the smaller services for all values of their constants:
`DebounceIsExact` (the time since the last admission is the window less what is left of it, of swept keys
too), `MfaSound` (a verification's UPDATE under way follows a proof of the stored secret, unless crossed; the premise
`~crossed` is needed, as `mfa_crossed` shows), `AbsenceIsFresh` and `CacheSound` (whoever read
null witnessed it; nothing outdated is in the row or about to be cached), `BaselinesIntended` (a comparison
under way carries the intended baseline, unless one was set meanwhile), `PolicyIsOne` and
`HealthIsTruthful` (by cases, with the invariant that a dependency found down was down during the probe, and that only a
client that has ended is found so), and the types of each (`CacheTyped`, `PolicyTyped`; the others state it with
their invariant).

For any limit of depth and values of any nesting, it also proves `LoggerTyped` and `LogIsClean` (`LoggedByPath`),
of the message and the URL as of the sanitized parts; that these two may hold a secret all the same is said in section 4.
`SanitizeClean` is the core: the recursion and the closed form agree on every value. The prover takes no
induction over a formula, so `SetInduction` states it with a set of naturals whose least element would have to
be in it. By it `BelowDefined` shows that the function the recursion describes exists, and `BelowStep`
goes from one depth to the one above. That the interceptor's pass makes no difference is
`PassChangesNothing`: where it hides something the logger hides at the same name (`InterceptorHides`), and two
values alike up to where both are cut are logged alike (`AlikeClean`).

`MCServicesProofs` is about the specification that run `services` checks. `EachAsAlone`: what it does with
a component, the component's own specification allows; the limiter is the one that two drivers share, and
for it the steps of the API are mapped to its own (`ApiStepLimits`, under `PagesInv`). `ApiAsAlone` says
so of the API where the limiter is not driven alone. So the theorems above hold of
`MCServices` too: `ServicesTyped` (`ServicesTypeOK`), `ServicesSound` (every safety invariant
of the run) and `NothingPutOff`.

*How far the findings go.* Three theorems bound what section 4 reports.

* `SpentTokensAreRefused`: a reset that begins after one with its token has committed is answered 400.
  So a token is used twice only by resets that overlap, each of which read the account before the other's commit.
* `NoTokenRefreshes`: whatever any pages do, no request to refresh reaches its handler with the token that
  login gave out. `RefreshStopped` carries it: what is on the way is the
  token as issued, and every answer to it is that of a gate.
* `KeyAndEmptyItemsMislead`: if requests with one key were equal, and no specification had an empty path item that
  a request comes upon, strict mode would pass exactly the requests that
  conform. The rest of the cache (eviction, reloads, `clearCache`) has no part in it. The premises are about the requests and specifications that arrive, which the code does not
  ensure; the theorem says that they are all that is missing.

*What is proved of the liveness properties.* Under fairness each of the six needs, of the steps, that
something gets smaller whatever else happens, and that while there is something left a step that makes it smaller can be taken.
The first is an action property, and proved of all of them; the second is proved where it says more than a guard.

| Liveness, by TLC | Theorem | What gets smaller, and what cannot put it off |
|---|---|---|
| `EveryRequestAnswered` | `EveryStepIsCloser` (`StepsRunOut`) | the statements of a request under way, at most four; no step of another request adds one |
| | `NoCircularWait` (`SomeoneGoesOn`) | a statement that cannot run, or a DELETE, waits for a request whose next statement can (`HoldsUp`, `CanGoOn`): the order of locks has no circle |
| `Recovers` | `OnlyFailuresKeepOpen` (`OpenMovesOn`, `OnlyFailuresDelay`) | the way from open over half open to closed; only a failure makes it longer, and an open circuit has a running clock or lets a call through |
| `NotLockedOut` | `WindowsEnd` (`WindowsRunOut`) | what is left of an open window; attempts, cleanups and resets do not extend it |
| `PostsGetThrough` | `FetchedTokensServe` (`FetchedTokenServes`) | a page that fetched the token has the cookie's, and passes the guard with it until the cookie goes |
| `CacheConverges` | `StaleReadersRunOut` (`StaleRunsOut`) | the readers that hold an old value; only a write makes more of them |
| `WalkEnds` | `WalksRunOut` (`WalkRunsOut`) | the ids ahead of the cursor; rows that come and go never bring back one that was passed |

`SomeoneGoesOn` speaks of the guards as `CanGoOn` writes them out, since the prover does not expand
`ENABLED`. That no other request takes a step is `AdvanceCan`; that these guards suffice is not proved, but
plain from the actions: beyond them they only assign, or choose.

*Only model-checked:* the six liveness properties themselves. From the steps above to "eventually"
it takes fairness, that is `ENABLED`, and induction over what gets smaller: both are beyond the prover.
Every other property of the passing runs is stated by a theorem. The violated properties need no proof.

## 6. Not modelled, and why

Signatures, roles, IP lists and API keys (checks on one request without state; the two guards of
`auth.guard.ts` let everything pass), encryption and the cleaning of strings from HTML, input and output (mail, files,
images, CDN, Redis set-up), reporting of counters (pool monitor, sizing, database metrics, statistics
and reports of violations) and layers no module provides. Data retention
deletes accounts with `isActive = false`; no operation of the program sets that, so there is
no reachable state in which it does anything. Jobs are retried by Bull, a library, and the
processors keep no state. Of the rate limiting, `getStatus` (it only reads), the headers and the
unused interceptor are left out; of the cookies, the access and refresh cookies, which nothing sets.

## 7. Plan

Done: `AuthService` with `AccountContract`, `ConnectionPoolManager` with `BreakerContract`, `ContractViolationReporter`,
`OpenApiValidation`, `RateLimiter` with `HttpApi` and `RequestPipeline`, `DebounceGuard`, `MfaService`,
`NotificationsGateway`, `QueryCache`, `Pagination`, `PasswordPolicy`, `SecureLogger`, `HealthStatus` and
`VisualRegression`, each with its run and its proofs, together in `MCServices` too;
liveness is left to TLC (section 5).

Left, in this order:

1. `MfaService` composed with `AuthService`: both write rows of `users`, and an account may be erased
   while it is enabled.
2. An abstract store with bounded staleness that `QueryCache` refines, and several keys.
3. The reports of `OpenApiValidation` composed with `ContractViolationReporter`.
