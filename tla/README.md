# TLA+ models of the Address Intelligence Platform

The repository is a Go platform skeleton: three long-running runtimes (API, worker,
indexer), two operator commands (`migrate`, `importdata`) and a PostgreSQL schema with
logic of its own. This directory models the parts that keep state or run concurrently,
model-checks them on small instances and proves the most important results for every
instance. Paths below are relative to `src/`.

## Inventory

| Part | State it keeps | Operations | Hard behaviour | What makes it correct |
|---|---|---|---|---|
| Bootstrap (`internal/bootstrap/app.go`, `resources.go`, `api.go`, `worker.go`, `indexer.go`) | stack of closers, joined error, listener, pool, tracer, `http.Server`, Serve goroutine | `Run`, acquisitions, closers in reverse order | signal at any moment, Serve racing Shutdown, one deadline for all closers, handlers left behind by timeouts | dependencies outlive requests; everything released; exactly the real failures reported; a stop always ends |
| Middleware (`internal/platform/httpserver`, `logging/http.go`, `telemetry/tracing.go`) | per request: two goroutines, TimeoutHandler's buffer, the writers' statuses; process-wide metrics | request ID, trace, access log, metrics and their scrape, recovery, CORS, timeout, limiter, router, endpoint | timeout racing the handler, late writes, panics before and after commitment, a scrape while requests leave | all observers agree with the wire; a late handler is harmless; every request is answered; a scrape counts nobody twice |
| Endpoint helpers (`httpserver/auth.go`, `request.go`, `pagination.go`, `response.go`, `error.go`, `apperror`) | none | `Protected`, `DecodeJSON`, `Paginated`, `Success`, `WriteError` | joined and wrapped errors, outages of the authorities, bodies cut by the limit, totals next to the largest integer | fail closed without blaming the client; details only for invalid input; exact verdicts on bodies and pages |
| Rate limiter (`httpserver/ratelimit.go`) | tokens, last | `allow` | stamps taken outside the mutex arrive out of order | bounded admissions, honest `Retry-After` |
| Hierarchies (`database/legacy.sql`, `database/schema/00002_hierarchy_serializable.sql`) | parent columns | insert, move, detach under the old or the new triggers, the upgrade | write skew, stale snapshots, transactions that straddle the upgrade | once migration 2 is in place: no lost update, and no committed cycle unless a straddling transaction commits |
| Import (`internal/importjob/infrastructure/postgres/import.go`) | sources, source records, units, references, events | read, validate, one transaction of nine statements | rivals, crashes, a commit without acknowledgement, reruns, review between runs | one atomic load or nothing; results tell the truth |
| Migration (`database/migrate.go`, `bootstrap/migrate.go`, `schema/*.sql`) and readiness (`database/pool.go`) | version table, objects, grants, advisory lock | `up`, `adopt-legacy`, provisioning, `Ready` | concurrent and dying runs, legacy and drifted databases, provisioning in between | each version once and in order, legacy data protected, what ready means |
| Commands and configuration (`cmd/*`, `bootstrap/app.go`, `platform/config`) | environment, `Config`, exit code | `LoadFor`, `Validate`, `MigrationURL`, the components' own checks, failure report | the same limits checked twice, settings shared by several runtimes | only a command's own settings matter; what is accepted starts |
| Structured logging (`platform/logging/logging.go`) | per logger: a slice of operations | `With`, `WithGroup`, `Handle` | siblings derived from one parent | a record carries its own logger's attributes |
| Dependency checker (`tools/dependencycheck`) | violations found so far | the walk, `checkImport`, `checkContexts` | single imports are judged, dependencies are chains | what it passes keeps modules apart and cores pure |

The parts interact as follows. `Run` opens the pool, which calls `Ready` and so depends on what
`migrate` has committed; the API's readiness route calls `Ready` again for every probe and
holds a pool connection meanwhile. `serveHTTP` puts the middleware stack under `http.Server`;
the stack contains the limiter. `importdata` refuses to run on another schema version and
writes `administrative_units`, whose trigger demands the serializable transaction that the
import uses. The runtimes share the database with all of them.

## Modules

- **Lifecycle** models one `App` from `Run` to its result. `pc` is the program counter of
  the Run goroutine, `owned` is `resources.entries`, `err` the set of errors joined so far;
  `serve`/`serveErr` are the Serve goroutine and its variable, `inShutdown`, `conn` and
  `handler` the parts of net/http the code relies on. There is one action per acquisition,
  per closer (split where it blocks), per step of `http.Server.Serve` and per event of a
  connection. `faults` and `aborted` are history variables used by properties only.
- **RateLimiter** models `Wrap` (the stamp) and `allow` (the critical section) separately.
  Floating point is replaced by exact arithmetic: a token is `Ticks` units, one clock tick
  refills `Rate` units. `regress` is history: how far `last` has moved back in total.
- **Forest** has the recursive queries of migration 2 as operators; **Hierarchy** has
  concurrent transactions of either isolation level that fire the baseline's triggers or,
  after `Migrate`, those of migration 2. `Migrate` waits, as `LOCK TABLE` does, only for
  transactions that have written; one that has merely begun goes on under the new triggers
  with its old snapshot. `since` (history) tells when the upgrade happened, `straddles` and
  `windowKept` say of a state whether such a transaction has committed after it, which the
  maintenance window of `migrations/README.md` is there to prevent; only properties use
  them. PostgreSQL's
  serializable level is modelled by what it guarantees and by nothing stronger: a commit is
  possible whenever the committed serializable transactions have a serial order. One table
  is modelled; both triggers are the same code on unrelated tables.
- **SourceFiles** has the importer's validation as operators, **SourceImport** the runs of
  `importdata` with one action per statement, **CanonicalLoad** what the import promises:
  the units, references and events of one accepted directory appear in one step, at most
  once. `SourceImport` is shown to implement `CanonicalLoad` (`units <- db.unit` and so on).
- **Migration** models runs of `migrate` against one database, with goose as an external
  component (session lock, pending versions read once under it, one transaction per version
  together with its ledger row), the
  DBA's scripts, which may run at any moment, a writer whose transaction begins, writes and
  commits in steps of its own and can close a cycle if it began under the baseline trigger,
  and `Ready` as its two statements. `late` (the role was created while migration 3 was open)
  and `straddled` (a writer from before migration 2 committed after it) are history.
- **Endpoint** has what a handler answers as operators: an error is the sequence of nodes
  `errors.As` visits, a body a sequence of tokens of one unit of length, an integer wraps at
  `MaxInt`. **Pipeline** extends it and models requests through the whole stack; each has the
  connection's goroutine and the one TimeoutHandler starts. A reply is reduced to status,
  content type, kind of body, header names and what else it discloses. A handler may panic
  with `http.ErrAbortHandler`, which recovery lets pass, and may have prepared headers, which
  recovery deletes (`kept`). The deferred
  functions of the outer layers are two steps (`leave`: the gauge, `Record`: counter, access
  log, trace), a scrape is one step per load.
- **Configuration** has `LoadFor` as the sequence of its checks in the code's order; the error
  names the variable of the first that fails. A check (`check`) is the variable it would
  name or `""`; the variables of a connection are a record (`runtimeDB`, `migrationDB`).
  What `time`, `strconv`, `net/url` and `strings` make of a text is given by constants:
  durations, integers (`Numbers`, and `Int32s` for those that must fit 32 bits), URLs, log
  levels in any case, and the parts of a list of origins. `poolAccepts` and `serverAccepts`
  are the second opinions of `database.Open` and `httpserver.New`. **Logging** models loggers
  as Go slices: an array of the heap and a length. **Process** composes the two: one command
  from its environment to its exit code, and its loggers while it runs.
- **DependencyPolicy** models the walk of the checker. A path is the sequence of its segments;
  `graph` records the imports of the production files as long as nothing was reported;
  `dependsOn` is the least set that contains what a package imports and is closed under
  imports. The cases of `classify` exclude one another, as the ordered tests of the code do.
- **LifecycleProofs**, **RateLimiterProofs**, **MigrationProofs**, **HierarchyProofs**,
  **SourceImportProofs**, **PipelineProofs**, **DependencyPolicyProofs** and **ProcessProofs**
  hold the theorems, each about the module of its name and those it extends.
- **MC...** modules and the `.cfg` files give the constants. The operators commented as
  mutants, which nothing uses, are faulty variants of the definition that follows them; each
  is known to violate a property, which shows that the property can fail.

## Runs

| Run | Instance | What it shows |
|---|---|---|
| `lifecycle` | 2 connections, 1 further call of `Run`, both kinds of runtime, with and without database and exporter | shutdown order, complete release, exact error report, graceful drain; a signal or a failed Serve ends `Run` |
| `lifecycle_cancel` (violated) | 1 connection | a signal during the exporter's start makes `Run` fail, against app.go:49 |
| `rate_limiter` | 3 goroutines, rate 1, burst 2, 2 ticks a second, 4 ticks | the bucket's real bound, the ordinary bound without reordering, `Retry-After` |
| `rate_bound` (violated) | same | reordered stamps refill an interval twice |
| `hierarchy` | 3 rows, 3 transactions, 2 of them possibly begun before the upgrade, 3 row updates altogether | after migration 2 no lost update, and no cycle unless a transaction that straddles the upgrade commits; checks see own writes |
| `source_import` | 2 importers, 5 directories, 6 files of one or two rows, one foreign code | refinement of the atomic load, decided records, truthful results, termination |
| `import_rerun` (violated) | 1 importer | a rerun after a review is refused as a changed snapshot |
| `migration` | 2 runs, 1 probe, all four kinds of initial database | ledger and schema agree, legacy protected, cycle check not stale; a ready runtime has its schema and tables, all of them unless its role came while migration 3 was open |
| `pipeline` | 2 requests: all pairs of nine basic sorts, scrapes among them, and about 900 endpoint calls beside a preflight | observers agree, metrics balance, headers survive, panics contained, late handlers harmless, scrapes consistent, every request answered; the verdicts of `Protected`, `DecodeJSON`, `Paginated` and `WriteError` as the client sees them |
| `pipeline_redirect` (violated) | 1 request | a redirect's HTML is labelled JSON |
| `dependency_policy` | 2 modules, 2 platform packages, 3 external rules, trees of up to 3 recorded imports, `context` under up to two names | nothing the checker passes leaks through a chain of imports |
| `process` | 5 commands, about 1300 environments: development, production and split settings with one deviation of every variable, and pairs of variables checked together; 6 loggers | own settings only, accepted means startable, loggers do not interfere |

Why the bounds are enough to be interesting: two connections allow one to hold the pool while
the other is drained; three goroutines are needed for a stamp to be overtaken twice; three
transactions reach the write skew of three moves, and three updates reach several moves in
one transaction; two old transactions reach a skew across the upgrade; two importers or
migrators are enough for every race on a lock, and their restarts are unbounded; the two
requests of the pipeline share only the metrics; three imports make chains through two
packages; six loggers are the fewest with two siblings behind a slice that has spare capacity
in the faulty variant. Every action of every module is taken in some passing run.

`CHECK_DEADLOCK FALSE` is set where each transaction, request, walk or process runs once and
the system then stops: Hierarchy, Pipeline, DependencyPolicy and Process.

## Fairness

Liveness is checked with TLC only.

- Lifecycle: weak fairness for the Run goroutine, the Serve goroutine and the deadline
  (runnable goroutines run, timers fire), strong fairness for Shutdown noticing the expired
  deadline, because its poll loop enables and disables that step while the `select` sees a
  closed channel every time. Nothing is assumed of clients, handlers, the trace collector or
  the signal. `StopReturns` and `ServeFailureStops` therefore hold with a handler that keeps
  its pool connection for ever.
- SourceImport: weak fairness for the steps of a started run, none for crashes, restarts or
  the others. `RunsEnd` rests on `lock_timeout`.
- Pipeline: weak fairness for the connection goroutine, its deferred functions and the
  timeout; none for the handler.

## Proofs

TLAPS proves every safety invariant, every action property and the refinement that a passing
run checks, for every value of the constants that satisfies the named assumptions. The
argument is always the same: an inductive invariant, one lemma per action or per goroutine,
then the property from the invariant. What makes each invariant inductive:

- **LifecycleProofs** (`LifecycleAssumption`). `DependenciesKept` and `DrainIsGraceful`: one
  must know that the server's closer is registered last and hence runs first (`ServerOnTop`),
  that dependencies are up while it is registered or running (`DependenciesInOrder`), and that
  a request neither answered nor cancelled keeps its connection active and so keeps Shutdown
  waiting (`DrainInOrder`, `NoHttpBeforeServe`). `ReleasedAlways`, `NilIsClean`,
  `FailuresReported` and `NothingSpurious` come from `Outcome`: what is open has its closer on
  the stack or is being closed right now (`Releasable`), there is no connection before the
  server is up and none after its closer has run (`Quieted`), a fault is in the joined error or in a
  variable that a later step joins (`Reported`), and an error has a cause (`Justified`).
- **RateLimiterProofs** (positive rate, burst and ticks, as `NewLimiter` demands).
  `TypeCorrect`, `BudgetKept`, `OrderedBoundKept`, `RetryHonestKept`. The invariant is the
  budget equation itself with `LastNotAhead`: a refill of `t - last` is paid for by the
  growth of `last + regress`, whatever the order of the stamps.
- **MigrationProofs** (any number of runs and probes). `LedgerKept`, `LegacyProtected`,
  `UpgradeSound`, `SuccessTruthful`: only the holder of the session lock is inside `Up` and
  what it read of the ledger still holds (`LockHeld`), and what an open migration transaction
  has checked is still true (`CheckedStillTrue`), which is where the table lock of migration 2
  is needed: a writer that has not written waits for it (`UpgradeSound` is silent once a
  writer that straddles the migration has committed, `straddled`). `ReadyIsUsable` assumes
  nothing of the order of provisioning and migrating: a role that holds any grant at schema 3
  also holds those of `source_records`, inside the open migration 3 too, unless it was
  created during it (`Provisioned`), and what a probe has seen of the schema and the grants
  stays so until it answers (`Probed`).
- **HierarchyProofs** (`NoneAssumption`; any rows, any transactions). `ForestKeptAlways`,
  `ViewsAcyclicAlways`, `NoLostParentAlways`. The hard part is that the trigger checks a
  snapshot and not the state the transaction commits into. The invariant (`Serial`) is, after
  the upgrade and while `windowKept`, that the table is acyclic and that the commits since
  have a history: a table `H` of what each committed transaction saw when it committed, which
  the state does not keep. An open serializable transaction that does not straddle the
  upgrade sees an acyclic table of its own and has read every ancestor of what it wrote
  (`Checked`); one of the weaker isolation only detaches rows (`Detaches`). With that: no two
  open transactions have updated the same row (`Locked`), a serializable one has written only
  rows that nobody has committed since it began and its snapshot holds the committed value of
  every such row (`Isolated`), and each row ever written has a last writer (`lastWriters`).
  `Locked`, `Isolated` and `Detaches` do not need `windowKept`, and `NoLostParentAlways` rests
  on them alone. The lemmas about `Forest` show that a row attached below one whose ancestors
  do not contain it keeps a table acyclic, and that this depends on the ancestors only, which
  is exactly what the recursive query has read; so the check made on the snapshot holds in
  the table committed to.
- **SourceImportProofs** (`SnapshotsAssumption`: the list of files is not empty and of levels
  1 to 4; `HashAssumption`: equal SHA-256, equal rows; `SchemaAssumption`).
  `RecordsDecidedAlways`, `ResultTruthfulAlways` and `Refinement`. `Progress` says of every
  statement exactly what the transaction has written so far; `Apart` that two runs that have
  inserted the first source cannot both be open, since its code is unique, and that the units
  a run has inserted are not yet in the database; `announced` that a source that is committed,
  or is in some run's snapshot, came with the events of its administrative rows. `Refinement`
  covers the whole of `CanonicalLoad`'s specification: every step is a stuttering step except
  the commit, which is its `Load`.
- **PipelineProofs** (`PipelineAssumption`: finitely many requests, each of a known kind;
  `EndpointAssumption`). `TypeCorrect` and ten properties. `Local(q)` ties the two goroutines
  of a request together: what was sent (`Sent`), recorded (`Recorded`), buffered by
  TimeoutHandler (`Buffered`), who may still write (`Attended`), which headers are already on
  the writer (`Tagged`), what a panic leaves (`Contained`); `Accounted` and `Explained` relate
  the reply to the call that made it, which the lemmas about `Protected`, `DecodeJSON`,
  `Paginated` and `WriteError` establish. `ScansBounded` bounds a scrape while it is
  underway: what it has loaded of a counter is never more than the counter is now, and a
  complete scrape sums to at most the requests that have entered.
- **DependencyPolicyProofs** (`PathsAssumption`: no standard package has a path of the
  architecture or of the module, an approved external path begins with a host).
  `ModulesMeetInContractsAlways` and `CoreStaysPureAlways`. `Judged`: as long as nothing is
  reported, every recorded import comes from a file without a reason against it. The rest is
  about chains: the packages a module may reach are closed under judged imports, so the least
  closed set is inside them. The files are arbitrary: `context` may be imported under any
  number of names, and the dependencies on its functions are those by the name the checker
  follows (`knownUses`); what it misses is the last point under *Disagreements found*.
- **ProcessProofs** (any environments; nothing is assumed of what the texts parse to).
  `AcceptedStartsAlways`: `firstError` is empty only if each check of each group passes
  (`ErrorPasses`, `PassesConcat`, `LoadPasses`), and the checks that pass imply those of
  `database.Open` (`PoolAccepted`) and of the server (`ServerAccepted`); `Loaded` carries the
  result from `Load` to `Start`. `ReadsOnlyItsSettingsAlways`: environments that agree on what
  a runtime reads (`agrees`) give the same checks in the same order and the same `Config`
  (`LoadAgrees`), and an environment agrees with the part its command owns (`OwnAgrees`).
  `RecordsCarryOwnPathAlways`: each logger's array is full and holds its derivation
  (`Derived`), so no two loggers ever append to one array.

`PagesSoundAlways` holds for every largest integer, `BodiesJudgedAlways` for every body,
where the runs have one integer and a list of bodies. The bounds of the models (`MaxReruns`,
`MaxTime`, `MaxImports`, `MaxLoggers`, ...) are constants in the theorems as well.

Proving changed the models where they could not be reasoned about or said something else than
the code: the guards of `classify` overlapped; a bounded closure stood for all dependencies;
the checks of `Configuration` put names of variables together from strings; a request that the
CORS layer answers itself was counted among the calls of an endpoint (`calls`).

Only model-checked: liveness, which is out of the prover's reach (`StopReturns`,
`ServeFailureStops`, `RunsEnd`, `Answered`), and the four runs that end in a violation. The
type invariants are parts of the proofs and not of the runs, except the rate limiter's, which
says that the bucket stays between empty and full.

## Disagreements found

Four runs end in a violation on purpose; each states what a comment or a document says and
shows an execution of the code that contradicts it. `PROJECT.json` quotes both sides under
`findings`. The rate limiter's is a defect of the code (the stamp is taken outside the lock
and `last` may move back; `BudgetKept` bounds the effect); the others are differences
between text and code that a maintainer may settle either way.

Four more, without a run of their own:

- The bootstrap document says that closers leave no goroutine with a running cleanup behind;
  the database closer (`app.go:80`) does when a handler still holds a connection at the
  deadline. The error is reported (`NilMeansClean`, `FailureReported`).
- "Ready checks ... runtime table privileges" (`database/pool.go:52`), but only those of two
  tables. `ReadyMeansUsable` has an exception for it: migration 3 grants `source_records` to
  the role only if it finds it, so a role that is created and given access while migration 3
  is open (`SourceRecords`, `CreateRole`, `Access`, `Commit`) is reported ready without those
  grants. Without `\/ late` TLC violates the property by exactly this.
- `checkContexts` follows only the last of several imports of `context` in a file
  (`context.go:27`), so uses through an earlier name are not seen. Files of
  `dependency_policy` import it under two names; `CoreStaysPure` speaks of the uses by the
  last one, since of a use by the first it would be false.
- A transaction that took its snapshot before migration 2 and commits after it can leave a
  cycle behind: `LOCK TABLE` (`schema/00002_hierarchy_serializable.sql:4`) waits only for
  those that have written. `migrations/README.md` asks for a window without writers, which
  nothing enforces; `windowKept` and `~straddled` are the weakest form of it that the
  properties need.

## Not modelled

- The domain packages (search, autocomplete, geocoding, resolution, outbox ...): package
  comments without code at this commit.
- Tables without a writer in the repository, Docker and CI files, the SQL data files.
- Flush and Hijack of the response writers: TimeoutHandler supports neither.
- `Timestamp` (`httpserver/time.go`), which only calls `UTC`; error texts, JSON and log
  formatting; the duration sum of the metrics.
- Statement timeouts and pool limits as quantities at work: they appear as steps that may
  happen, and as settings that are validated.
- Connection URLs that `validURL` accepts and pgx refuses.
- An error of closing the listener that `http.Server.Shutdown` returns (`api.go:83`): the
  listener's own closer and the drain's deadline are the failures of cleanup modelled there.
- Directories the dependency checker skips (`vendor`, `node_modules`, `testdata`, hidden ones).

## Plan

1. Modelled first, because most depends on it: Lifecycle, RateLimiter, Hierarchy,
   SourceImport, Migration, Pipeline, with the proofs above. Done.
2. Then the upgrade with transactions that straddle it, the endpoint helpers under the
   pipeline, the metrics scrape, configuration, logging and the commands, and the dependency
   checker. Done.
3. Then the theorems: every safety property of the runs and the refinement. Done.
4. Possible later: the composition of Pipeline with RateLimiter (what a timed-out request
   costs the bucket) and the readiness route with the pool's limits at work.
