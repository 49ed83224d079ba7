# Bloope in TLA+

A verification project for Bloope, a single-node deployment service: it takes a
GitHub URL, clones and builds the repository with Railpack, runs the image in
Docker, and routes a hostname to it through Caddy. The backend is one Go
process with one goroutine per deployment; a React client lists deployments and
follows their logs.

Line numbers refer to this commit; paths are relative to `src/`.

## 1. Inventory

| Part | Source | State | Operations |
| --- | --- | --- | --- |
| Deployment service and pipeline | `internal/services/deployment_service.go`, `deployment_pipeline.go`, `deployment_failures.go` | one goroutine per deployment, an ID counter | create, the stages of `runFakeDeployment`, fail with or without cleanup and resynchronisation, `SyncCaddyRoutes` |
| Store | `internal/services/deployment_store.go` | SQLite tables `deployments`, `deployment_env_vars`, `deployment_logs`; one connection | create, get, list, one UPDATE per set of columns, add and list logs |
| State engine | `internal/state/engine.go` | none (a table of edges) | `CanTransition`, `ValidateTransition` |
| Docker runtime | `internal/docker/runtime.go` | none of its own; the daemon's containers and host ports | `Run` (remove, find a port, run, health check, capture), `Cleanup` |
| Caddy router | `internal/caddy/router.go` | the Caddyfile; the Caddy container and what it serves | `ApplyRoutes` (write, ensure container, reload), `LiveURL` |
| Startup | `cmd/server/main.go` | none | open the store, resynchronise the ingress, serve |
| Log stream | `internal/services/deployment_logging.go`, `deployment_log_broker.go`, `handlers/deployment_handler.go` | subscribers and their channels of 128 entries | persist and broadcast, subscribe, history then live entries, unsubscribe |
| HTTP handlers | `internal/handlers/deployment_handler.go` | none | thin wrappers, and the stream above |
| Cloner | `internal/repository/cloner.go` | one directory per deployment | `Clone` |
| Railpack builder | `internal/build/railpack.go` | a child process, two pipes, two scanners | `Build` |
| Inspection, validation | `internal/source`, `internal/validation`, `third_party/zeroreg-go` | none | pure functions |
| Frontend | `frontend/src` | query cache, `EventSource`, selected deployment, form rows | list polling, log following, submitting |

How they interact: a POST creates a row and starts a worker. The worker calls
the store, the cloner, the builder, the runtime and the router one after the
other; workers of different deployments share the store (row by row), the
Docker daemon (names are disjoint, host ports are not) and the Caddyfile (one
file, no lock). A worker that fails after the routes were applied runs the same
`SyncCaddyRoutes` as the startup code. Nothing resumes a worker after a crash.

What is hard here:

* overlapping workers that list rows, write the Caddyfile and reload it without
  a lock, and a file that is truncated before it is written;
* a Caddy that Docker starts again by itself, on the file as it is then;
* ports found free by a listener that is closed again before `docker run`;
* calls whose effect took place although they report an error: an UPDATE whose
  read-back fails, a reload or a `docker run` killed by a deadline;
* crashes between any two calls, and a restart with another ingress host;
* error paths that only log, and cleanups without a deadline;
* persisting, broadcasting and replaying of log entries by several goroutines;
* a database pool of one connection, which a call that makes a query with its
  rows still open would wait for for ever;
* a build that waits for its output to end, which a descendant of the child, a
  line beyond the scanner's buffer or the deadline may keep from ending;
* texts that are made over and compared as something else: IDs cut to host
  labels, times as text, URLs as cache keys, ports as text.

What makes each part correct:

* service: statuses move along the engine's edges; a failure ends in `failed`;
  a running row is complete; failed deployments leave nothing running or routed;
* runtime: a deployment passes its health check only on its own container;
* router and service: Caddy serves every running deployment, on its own port;
* startup: a successful resynchronisation restores the ingress exactly;
* log stream: every persisted entry reaches a connected client once, in order;
* store: no call waits for itself, Create is atomic, answers are complete, and
  the schema is whole after any number of interrupted migrations;
* builder: a successful build has logged all its output, and every build returns;
* data: requests in order are accepted, hosts are distinct, the container gets
  its variables and is reached on the port it listens on, the start command is
  the first one the repository allows.

`PROJECT.json` lists the hazards at their lines, with the properties that would
catch them.

## 2. Modules

```
StateEngine          statuses and their edges
DeploymentLifecycle  abstract: a row appears pending and moves along the edges
Faults               failures: their kinds and their number
Backend              actors and pc                 (shared control state)
 |- DeploymentStore  the deployments table, UPDATE and read-back
 |- DockerRuntime    Run of one worker, and the Docker daemon
 |- CaddyRouter      ApplyRoutes of one actor, the Caddyfile, and Caddy
 `- DeploymentService  composes the three: workers, startup, restart
     |- MCDeploymentService      definitions for TLC
     `- DeploymentServiceProofs  theorems
         `- PipelineProofs       theorems about one worker at a time
             `- IngressProofs    theorems about the Caddyfile and Caddy
LogBroker            the broker's lock, subscribers and channels
 `- LogStream        loggers, deployment_logs, handlers and one browser
     |- MCLogStream              definitions for TLC
     |- LogStreamProofs          theorems
     |   `- LogOrderProofs       theorems about what the browser shows
     `- RailpackBuild  Build: child, pipes, deadline; its scanners are the loggers
         |- MCRailpackBuild      definitions for TLC
         `- RailpackBuildProofs  theorems
DeploymentTable      abstract: a deployment appears at once with its variables
 `- StoreConnections  the statements of every call over one connection
     |- MCStoreConnections       definitions for TLC
     `- StoreConnectionsProofs   theorems
HostLabel, TimeText, RequestText, SourceInspection   pure functions
 `- DeploymentData   composes them: from a request to a container and a host
     |- MCDeploymentData         the inputs for TLC
     `- DeploymentDataProofs     theorems
```

The compositions are separate because they share no state a property relates: a
log call changes nothing that the pipeline reads, and what the pipeline waits
for in a log call (the store and a lock) is `LoggerNeverBlocked`. The pipeline
takes a call of the store for one step; `StoreConnections` looks inside and
shows that it returns, and that what it returns is whole. It takes the build
for one step; `RailpackBuild` looks inside. Values (names, URLs, ports within
the container) do not influence which step comes next but by failing, so
`DeploymentData` follows them without interleavings of calls.

An *actor* is a thread of control: the worker of a deployment, named by the
deployment, or `Main`, the startup code. `pc[a]` is the call the actor makes
next, and one step is one call that leaves the process: a query, an UPDATE, a
file operation, a docker command. What Go code does between two calls (string
building, logging) has no step. The store and the runtime and router modules
leave `UNCHANGED` only what they own; `DeploymentService` closes their steps
with the rest (`StoreStep`, `RunStep`, `ApplyStep`).

| Code | Model |
| --- | --- |
| `models.Deployment` row | `row[d]`: status, whether an image is recorded, host port, and the host its live URL was made for |
| `updateAndGet` | applied; not applied (`write`); applied, but the read-back fails (`lost`) |
| `TransitionDeployment`, `CompleteDeployment`, `FailDeployment` | two steps each, check and write, because they are two transactions |
| container `bloope-<id>` | `container[d]`: none, created, running, exited |
| `findFreePort` | any port; `docker run` fails when another running container holds it |
| `waitForHealthy` | `isContainerRunning` and `probeHealthTargets`, alternating |
| Caddyfile | `caddyfile`: its site blocks, and whether it may be torn |
| Caddy | `caddy`: up or not, and the routes it serves; `CaddyStops`, and `CaddyStarts` for `restart: unless-stopped` of `docker-compose.yml` |
| `syncCaddyRoutesBestEffort` | `resync[d]`: the worker's next `ApplyRoutes` is that of the resynchronisation |
| deadlines (45 s, 3 min, 30 s) | the failure kinds `health`, `run`, `run_lost`, `caddy_lost`, `reload`, `reload_lost` |

`LogStream` has one deployment, its logging goroutines (`Logger`, in the code
the two railpack scanners, with the worker before and after them), the
connections to its stream (`Conn`, each used once) and one browser.

| Code | Model |
| --- | --- |
| a log entry | `<<l, n>>`, the n-th entry of goroutine `l`; this stands for the message and the timestamp by which the browser tells entries apart |
| `logDeployment` | `step[l]`: `LogCall`, `AddLog`, `Broadcast`; the lock is taken, each channel is visited and the lock released in steps of their own |
| `DeploymentLogBroker` | `readers` (the read lock), `subscribers`, `channel`, `closed`; subscribing needs `readers = {}` |
| `StreamDeploymentLogs` | `handler[c]`: accept, history, stream, done |
| `useDeploymentLogs` | `client`: fetch, retry, follow, gone; `current`, its connection; `view`, the query's data |
| `EventSource` | reconnects after the connection is lost (`Cut`, `Restart`), gives up after a 404 |

`RailpackBuild` extends `LogStream`: its two loggers are the two scanners.

| Code | Model |
| --- | --- |
| the railpack process | `child`: none, running, ok, error, killed; it writes lines, may leave a `descendant` that holds its pipes, and owes nothing |
| `StdoutPipe`, `StderrPipe` | `pipe[l]`: lines not yet read; `written[l]`: all so far |
| `scanOutput` | `scanner[l]`, which calls `LogCall` for a line, and ends at the end of the file or at a line beyond its buffer (`long[l]`) |
| such a line is longer than the pipe | `stuck`: the child waits for room that nobody makes |
| `exec.CommandContext`, `context.WithTimeout` | `Deadline`, and `Kill` of the child alone |
| `wg.Wait`, `command.Wait`, the answer | `Wait`, which looks at the deadline before the result |

`StoreConnections`:

| Code | Model |
| --- | --- |
| `SetMaxOpenConns(1)` | `conn`: the caller that holds the connection, or nobody |
| a `Query`, `Exec` or `Begin` | the caller asks (`phase`), acquires, does its step, and gives the connection back or keeps it (`Keep`, in a transaction) |
| a call | `op[c]`, and the statement it is `at`: `Create` (begin, insert, insert_env, then row, attach), `GetByID` (row, attach), `List` and `ListRunning` (list, then attach for every row), `GetEnvVars`, `GetLogsByDeploymentID`, `updateAndGet`, `AddLog` |
| what it returns | `answer[c]`: deployments with the names of their variables |
| `tx.Rollback`, a crash | `tx` is emptied, `rows` and `env` keep what was committed |
| `migrate` | one step per statement, `schema` grows; "duplicate column name" is passed over |

`DeploymentData` follows up to two requests from `CreateDeployment` to
`docker run` and the route; `now` is the clock (in ticks, ten to a model
millisecond and a hundred to a second) and `rows[i]` gains a field per stage.
`SourceInspection` takes a tree as what its functions look at: manifests, words
of the dependency files, directories with `wsgi.py`, the frameworks whose pattern
each candidate module matches, and files in the order of the walk. `HostLabel` works on sequences of
words and separators, `TimeText` on digits, `RequestText` on a URL as
(spelling of owner/repository, suffixes).

Failures have kinds. A model chooses in `FaultKinds` which may occur, and
`MaxFaults` bounds how many. The kinds: `stage` (validation, clone or build
fails), `read`, `write`, `lost` (store), `run`, `run_lost`, `health`, `rm`,
`boot`, `probe`, `exit` (docker; `boot` and `exit` are a program ending during
its health check and later, `probe` a probe that fails and is repeated), `file`,
`caddy`, `caddy_lost`, `reload`, `reload_lost`, `caddy_stop` (`_lost` is a
command that the deadline kills after the daemon or Caddy has done it). In the
log stream: `fetch` (the browser's request; not counted,
the browser tries again), `lookup`, `history`, `write`; in the build `start`,
`child`, `long_line`, `descendant`; in the store `exec` and `scan`. Some outcomes need no fault: a busy port, a torn file, a
container that is found ended.

Abstractions that matter:

* Everything a property does not tell apart is left out: in the pipeline URLs,
  environment variables, images, commands, log lines, error texts; in the data
  the wording of hints and commands, and white space that every reader trims.
* Two lines written to one pipe are read in order; blank ones, which the scanner
  skips, are not counted as lines.
* All site blocks of the Caddyfile have one length, so a shorter list written
  over a longer one leaves the old tail (`Overwrite`); Caddy rejects a torn
  file or serves any part of its blocks (`Loaded`).
* Subscribing and unsubscribing are atomic: Go code between `Lock` and `Unlock`
  waits for nothing. A writer that waits for the lock holds back new readers in
  Go; readers never wait while they hold it, so this only delays.
* Two entries with one message and one timestamp (in nanoseconds) would be one
  entry for the browser; the model has no such entries.
* The clock does not go back over a restart, and a restart takes longer than a
  millisecond: two processes that give out the first ID of one millisecond would
  collide, and the second deployment be refused.
* SHA-256 is taken to tell texts apart.
* A restart ends all workers at once and keeps rows, containers, file and Caddy.
  A start that cannot open the store ends the process (`log.Fatalf` in
  `main.go`) before anything of this has changed, so it is no step of
  `DeploymentService`; `StoreConnections` is about opening the store.
* `CaddyRestarts` says whether Docker starts Caddy again by itself. It does for
  the container of `docker-compose.yml`, at any time and on the Caddyfile as it
  is, truncated or torn; it does not for the container that the router creates
  when it finds none. Runs and theorems say which of the two they are about.

## 3. Runs

| Run | Instance | Checks |
| --- | --- | --- |
| `all_faults` | 2 deployments, overlapping, 2 ports, any 2 failures, 1 crash, Caddy restarts | `TypeOK`, `RoutesCarrySavedPort`, `RunningRowComplete`, `LifecycleSpec` |
| `own_container` | 3 deployments in sequence, 2 failures but `lost` and `exit`, 1 crash, only the router starts Caddy | `RunningHasContainer`, `RunningIsServed`, `CaddyfileCovers` |
| `store_answers` | 2 overlapping deployments, 2 failures outside the store (nor `rm`, `run_lost` and `exit`), Caddy restarts, fairness | `FailedStageIsMarked`, `FailedHasStopped`, `DeploySettles` |
| `restart` | 2 deployments in sequence, 2 ingress hosts, 2 crashes, 1 failure of any kind but `run`, `boot`, `probe` and `rm`, Caddy restarts, fairness | `StartupRestoresIngress`, `StartupServes`, `RunningIsRouted`, `FailedIsUnrouted` |
| `log_faults` | a build with 2 scanners, 1 line each, 1 connection, channels of 1, 1 failure of the store, the child or its output, deadline, 1 crash, fairness | `BuildTypeOK`, `NoSendOnClosed`, `OutputComplete`, `LoggerNeverBlocked`, `StreamStarts`, `BuildReturns` |
| `log_order` | 2 loggers with 2 entries, 2 connections, channels of 4, 1 crash, failing fetches | `NothingMissed`, `InOrder` |
| `store_pool` | 2 callers, 2 deployments, 1 variable, 1 failing statement or read, 1 crash, an old or a new database, fairness | `TypeOK`, `NoSelfWait`, `AnswersComplete`, `RefusedOnlyOnFault`, `SchemaComplete`, `CallsReturn`, `CreateIsAtomic` |
| `request_data` | 1 or 2 requests at 5 instants over 2 seconds, 1 restart, labels of 5, 2 files scanned | `DataTypeOK`, `RejectedOnlyInvalid`, `HostsDistinct`, `ListedByTime`, `EnvDelivered`, `AppReachable`, `CacheKeyPerRepo`, `StartCommandIsBest`, `HintsAgree` |

What they say, where it needs more than the table:

* `restart` and `own_container`: Caddy serves every running deployment, in two
  forms. `RunningIsServed` is about every state in which Caddy is up. It holds
  for any two failures while only the router starts Caddy, since the router has
  always just written the file. With a Caddy that Docker restarts it does not
  (TLC finds it violated when `CaddyRestarts` is set: Caddy stops, and comes up
  again while a worker has the file truncated), and `RunningIsRouted` says what is left: at the moments when
  nobody is between truncating the file and the end of the reload and no startup
  resynchronisation is under way, every running deployment is served, after one
  failure at any point. With a second failure it does not hold: a write fails,
  Caddy stops, and it comes up with what is left of the file before the
  worker's resynchronisation writes it again. `CaddyfileCovers` is about the file that
  a restarting Caddy reads: it is torn, or has all running deployments.

* `store_pool`: rows are closed and transactions ended before the next statement
  of the same call, on every error path too, so nobody waits for itself and
  every call returns. `Create` implements `DeploymentTable` over failures and
  crashes between its statements. A migration that was cut off, or an older
  database, is completed by the next start.
* `log_faults`: the channel's limit, a browser that reads nothing, a child that
  never ends and a scanner that has stopped do not keep `Build` from returning.
  Only a descendant that keeps the pipes open does, since the deadline kills the
  child alone and `wg.Wait` comes before `command.Wait`. In exchange no line of
  a successful build is lost.
* `request_data`: `ListedByTime` is about rows of different seconds; within a
  second the texts of RFC3339Nano do not order times. `AppReachable` is about
  images that do what README.md:349 assumes and requests that do not set `PORT`
  themselves. The host is `sanitizeHostLabel` of the ID, not the ID of
  README.md:101: it has dashes for underscores.

Violations, each with a finding that quotes the sentence it is about:

| Run | What TLC shows |
| --- | --- |
| `lost_route` | two workers overlap, no failure: each lists the rows before the other is completed, the last reload has one route only, and the deployment marked running has none although nobody applies routes |
| `port_taken` | a container ends during its health check and another worker's container answers the probe |
| `lost_answer` | one worker: Complete's UPDATE is applied and its read-back fails; the worker removes the container of the row that is running |
| `log_dropped` | no failure, channels of 1: `Broadcast` drops an entry, and the open stream never shows it |

The passing runs of the same properties delimit these: `restart` shows that one
failure without overlap loses no route for longer than until the reload,
`own_container` that one worker at a time whose UPDATEs keep their answers has
its own container, and that Caddy serves all that is running if Docker does not
start it, `store_answers` that only a failing store leaves a status behind. For the log stream, `log_order` shows that without failures and
with room in the channels there is no gap and no disorder. Its restrictions are
needed: an entry that was dropped, or whose history was not read, can come with
the history of a later connection, behind younger ones; one that was not
persisted can come live after younger ones from the history.

Bounds. Two workers are enough for every race found here, because each race is
about one shared thing (a port, the file) and a writer that comes second; the
third deployment lets a row or a container of an earlier, finished worker take
part. Two ports let a port be free, taken, or reused. `MaxFaults` 2 lets the
handling of one failure fail itself. One crash per run, two in `restart`, where
the second can hit the recovery from the first. Symmetry over deployments,
ports and hosts is used in runs without liveness only.

The channels of the log stream hold as many entries as all loggers make where
an entry must not be dropped (`log_order`), and one where the
limit is the question. Two connections let one be closed, or its handler still
be at work, while the next is open. Two entries per logger let an order be
wrong; two loggers let broadcasts overlap. In the build one line per stream is
enough for output to be overtaken by the child's end, and two scanners for one
to hold up the other.

Two callers are enough in the store: all contention is for one connection, and
a transaction or a list is between two statements of the other. Two
deployments let a list have names still to attach after the first, and a create
come between them; one variable lets a deployment lack it.

`request_data` varies one aspect of a request at a time (URLs in pairs): every
spelling of a repository's URL and some that are none, up to three variables of
five raw names, all sets of four exposed ports, trees for each branch of the
start command, and all sequences of up to three files of five sorts against a
scan bound of two. Labels of 5 words are cut after the counter's word, as 63
characters are for an ID of the code's length, or not at all; at 3 they would
be cut before it (the mutant).

Deadlock is checked in every run: a state in which no worker is at work and the
API serves is marked by `AwaitRequests`, any other state without a step would
be a worker that is stuck.

Fairness (`FairSpec`). Weak fairness for the calls of a worker and of
`ApplyRoutes` and the resynchronisation: goroutines are scheduled, SQLite and
file operations return, and the docker commands among them run under a deadline
that kills them. None for `Clone`, `Build` and `Cleanup`: they run without a
deadline (`context.Background()`), or with one that does not end a build whose
pipes stay open. `DeploySettles` says so: it excepts a worker that waits in
`docker rm`. In `LogStream`, `LoggerFairness` is that goroutines that log are
scheduled and the store answers (its busy timeout is 5 seconds); nothing is
assumed of handlers and browsers, so `LoggerNeverBlocked` holds against a
browser that reads nothing. `HandlerFairness` is for `StreamStarts`: a
handler that waits for the broker's lock gets it (`sync.RWMutex` lets no new
readers pass a waiting writer, hence the strong fairness) and its query returns.

`BuildFairness`: Build and the goroutines of its scanners are scheduled, and
time passes, so that the deadline comes and `exec` kills the child. Nothing is
assumed of the child and its descendant, which need neither write nor end. In
`StoreConnections` statements return, and `Acquire` is strongly fair:
`database/sql` hands a connection that is given back to one of the waiting
requests, chosen at random, so that none waits for ever while it is given back
again and again.

## 4. Theorems

`DeploymentServiceProofs` proves, for any sets of deployments, ports and hosts,
any kinds of failure and any bounds (assumptions `BackendAssumption` and
`ServiceAssumption`: `Main`, `NoPort` and `NoHost` are not among the values they
are told apart from, bounds are naturals; `FaultAssumption`: so is the number of
failures):

* `TypeCorrect`: `TypeOK` is invariant, together with `PortInv`.
* `RoutesPortCorrect`: `RoutesCarrySavedPort` is invariant.
* `RunningRowCorrect`: `RunningRowComplete` is invariant.
* `LifecycleCorrect`: the statuses implement `DeploymentLifecycle`.

`TypeOK` is not inductive alone: a route built at label `routes` is a `Route`
only if the deployment's port has been chosen. `PortInv` says where a port comes
from: a row has none before `SaveDeploymentRuntime`, then it has that of the
container, and a worker that applies its own routes is past that call. From it
follows that a saved port never changes (`NextPortsStay`), so that routes
computed from rows read earlier go on carrying the saved port (`RoutesStep`:
every set of routes comes from an older one or from the rows). For the life
cycle, `StatusInv` says that at a label that writes a status the row still has
a status its check accepted; it holds because only the deployment's own worker
writes its status, also after a lost answer. `PortInv` and `StatusInv` were
checked with TLC before they were proved.

`LogStreamProofs` proves, for any loggers, connections, capacity, failures and
bounds (`StreamAssumption`, `FaultAssumption`):

* `StreamTypeCorrect`: `TypeOK` is invariant, so no channel exceeds its capacity.
* `NoSendOnClosedCorrect`: `NoSendOnClosed` is invariant.

The inductive invariant is `StreamInv`: a broadcast under way visits only
subscribers and holds the read lock (so no unsubscribe can happen), a
subscriber's channel is not closed, and a connection whose channel is closed is
done and does not subscribe again. That a logger at work has an entry is needed
for the types of the table and the channels.

`RailpackBuildProofs` proves, under the same assumptions and for any number of
streams and lines:

* `BuildTypeCorrect`: `BuildTypeOK` is invariant.
* `BuildNoSendOnClosed`: `NoSendOnClosed` is invariant beside a build.
* `OutputCompleteCorrect`: `OutputComplete` is invariant.

What the actions of `LogStream` preserve is taken from `LogStreamProofs`.
`PipeInv` says where the lines of a stream are: what was written is in the pipe
or has been given to a log call, unless the scanner met an over-long line, and a
scanner is done only at the end of its file. `LostInv` counts: the entries that
loggers have tried to insert and that are not in the table are finitely many
and no more than the failures. Once all scanners are done, every written line
has been tried.

`StoreConnectionsProofs` proves, for any callers, deployments and variables and
any failures and crashes (`PoolAssumption`: `None` is neither a caller nor a
deployment; `FaultAssumption`):

* `StoreTypeCorrect`, `NoSelfWaitCorrect`, `AnswersCompleteCorrect`,
  `SchemaCompleteCorrect`, `RefusedOnlyOnFaultCorrect`: the invariants of
  `store_pool`.
* `CreateIsAtomicCorrect`: the calls implement `DeploymentTable`.

`StoreInv` has a part for each idea. `ConnInv`: who holds the connection is at a
statement of its call, and a transaction keeps it. `TxInv`: the open transaction
is that of the caller who inserts, of a deployment that the table lacks and
nobody else creates. `TablesInv`: the tables have a deployment with all its
variables or nothing of it. `AnswerInv`: what a call has read is of deployments
in the table. `MigrationInv`: what the migration has passed exists. A commit is
then the one step of `DeploymentTable`, and every other step leaves the tables
as they are.

`PipelineProofs` and `IngressProofs` prove the properties of the pipeline that
need a restriction. Each restriction is a hypothesis of its theorem, as weak as
the counterexamples of TLC leave it, and no stronger than that of the run:

| Theorem | Property | Hypotheses |
| --- | --- | --- |
| `FailedStageMarked` | `FailedStageIsMarked` | `StoreAnswers`: no `read`, `write` or `lost`, since the worker only logs them: one failed query while the row is loaded or its status is moved, and the row stays pending or building for ever |
| `FailedStopped` | `FailedHasStopped` | `DockerAnswers`: no `rm` and no `run_lost`, whose errors the cleanup drops |
| `RunningOwnsContainer` | `RunningHasContainer` | `OneAtATime`: `MaxActive =< 1` (`port_taken`); `RowsAnswer`: no `lost`, after which the worker removes what it has marked running (`lost_answer`), and no `exit`, which nothing notices |
| `StartupRestored` | `StartupRestoresIngress` | none |
| `CaddyfileCovered` | `CaddyfileCovers` | `OneAtATime` |
| `RunningServed` | `RunningIsServed` | `OneAtATime`; `~CaddyRestarts`, as Docker may start Caddy on a truncated file |
| `RunningRouted` | `RunningIsRouted` | `OneAtATime` (`lost_route`); `OneFault`: `MaxFaults =< 1`, as a write may fail and Caddy stop before the resynchronisation |
| `FailedUnrouted` | `FailedIsUnrouted` | `OneAtATime`; `OneFault`, as a second failure can hit the resynchronisation |

A worker moves in one of a few ways as far as its own row, container and label
go (`LocalMove`), and every step is such a move of every deployment
(`LocalMoves`), most of them the empty one. So an invariant about one deployment
at a time is proved from its moves alone: `StageInv` (which statuses and which
`resync` go with a label, for all constants), `MarkedInv` (a worker that is
failing has a row still to be marked, and one that resynchronises has marked
it), `StoppedInv` (no container runs before `docker run` and after a failure,
and a failed row is found only where none is started any more) and `OwnContainerInv` (a worker past the health check
has its own container running; a running row's worker has ended). For the
ingress the actor at work is alone: `StartInv` says that Main accepts no request
before its resynchronisation has ended, and `OneActive` follows from
`OneAtATime`. What a lone actor has read of the rows stays true until it has
reloaded: `RestoreInv` for the startup, `CarryInv` for any actor (its routes are
those of the running rows and, for a worker that is not resynchronising, its
own). A deployment is `Due` when it is running or about to be marked so:
`Covered` says that a whole file has all that are due, and `Served` that a Caddy
which is up does. With `CaddyRestarts` the latter is not invariant, and
`RoutedInv` says instead: either Caddy is up with all that are due (`Covers`), or
the one failure has happened, and then somebody is about to reload (`Hot`)
unless Caddy is down and the file is whole, from which it comes up by `Covered`.
The first failure may be Caddy's stop, which `Covers` does not survive, or a
write, after which Caddy no longer stops; a crash leaves the file torn only with
the startup resynchronisation ahead. `UnroutedInv` is for failures (a deployment
that is in the file or in Caddy without a running row was killed, or its worker
is before its last reload; and one that resynchronises has spent the one
failure). `FiniteInv` is needed because a torn file is
described by its length.

`LogOrderProofs` proves, for any loggers, entries, connections and restarts:

| Theorem | Property | Hypotheses |
| --- | --- | --- |
| `NothingMissedCorrect` | `NothingMissed` | `HistoryAnswers` (no `history` failure), `[]NoneDropped` |
| `StreamCompleteCorrect` | `StreamComplete` | the same |
| `InOrderCorrect` | `InOrder` | the same and `InsertsSucceed` (no `write` failure) |
| `NoneDroppedCorrect` | `NoneDropped` | `Room`: the entries are finitely many and no more than `Capacity` |
| `LogsComplete` | the three | `Room`, `HistoryAnswers`, `InsertsSucceed`, which `log_order` satisfies |

`NoneDropped` says that no broadcast is about to find a full channel. It is a
hypothesis about the behaviour and not about the constants, so a long log that a
browser keeps up with is covered. `StreamComplete` is the promise that
`log_dropped` refutes: the theorem shows that dropping, and a history that is
not read, are the only ways to break it. The invariants: `BrokerInv` (who is
subscribed, and that an unused connection has an empty channel), `ChannelInv`
(a channel holds each entry once, and none that is still to be sent to it),
`TableInv` (the table holds each entry once, in the order of its goroutine, and
all that a goroutine made before its present one), and `ViewInv`: the view, then
what the handler has still to replay, then the channel continue each other, that
is, an entry comes in one of them only if all that its goroutine made before it
comes earlier.

`DeploymentDataProofs` proves, for any sequences of requests, any repositories,
images, times and restarts (`DataAssumption`: inputs have the form that the JSON
of a request, a clone and `docker image inspect` can have, ports are of 16 bits,
and times lie within a hundred seconds, as their texts have two digits of
seconds; `ScanAssumption`: the bound of the walk is a natural):

* `DataTypeCorrect`, `ListedCorrect`, `EnvCorrect`, `ReachableCorrect`,
  `CacheKeyCorrect`, `StartCommandCorrect`, `HintsCorrect`: the invariants
  `DataTypeOK`, `ListedByTime`, `EnvDelivered`, `AppReachable`,
  `CacheKeyPerRepo`, `StartCommandIsBest` and `HintsAgree` of `request_data`.
* `RejectedCorrect`: `RejectedOnlyInvalid`, under `Texts`: `ToString`, which
  stands for `%d`, tells numbers apart. The prover knows nothing of `ToString`.
* `HostsCorrect`: `HostsDistinct`, under `Digits` (`ToString` gives no
  separator) and `LabelsFit` (a label may have the five parts of an ID; in the
  code an ID has at most 44 bytes and a label 63).

The lemmas say what each function computes for any argument: `StartCommandBest`
and `HintsAre` of a tree, `RepositoryKey` of a URL, `EnvironOf` of variables,
`PortOf` of an image, `TextInOrder` of two times, `LabelOf` of an ID. A fold is a
recursive function of the sets of indices: `WrittenIs` shows that it exists,
`DashedEach` what the loop of `sanitizeHostLabel` makes of any text without
neighbouring separators; both go by the least counterexample (`AllNat`), as the
prover cannot instantiate an induction theorem. `DataInv` is the inductive
invariant: a row keeps what its request said, and each field of a stage is that
function of the request (`RowOK`). It is needed because a property reads fields
that stages before have written, and a restart comes between. `IDInv` is about
the counter, which a restart sets back: the number of every ID is one that has
been given out if its millisecond is the present one. `OwnIDs` says that no two
rows have one ID, which the primary key sees to. All three were checked with TLC
on the instance of `request_data` before they were proved.

Model-checked only:

* the liveness properties `StartupServes`, `DeploySettles`,
  `LoggerNeverBlocked`, `StreamStarts`, `BuildReturns` and `CallsReturn`;
* that the hypotheses above are needed: the violations, and the restrictions
  of the passing runs.

## 5. Plan

1. *(done)* the pipeline: composition, runs, findings, four theorems.
2. *(done)* the log stream: composition, runs, findings, two theorems.
3. *(done)* `StoreConnections`: the pool of one connection, the transaction and
   the migration; six theorems.
4. *(done)* `RailpackBuild`, composed with the log stream; three theorems.
5. *(done)* the pure functions and `DeploymentData`, against reference
   definitions.
6. *(done)* theorems for the properties that need a restriction: eight about the
   pipeline and the ingress, five about the log stream.
7. *(done)* theorems about the data: all nine properties.
8. An abstract specification of the log stream (entries appear once and in
   order) that `LogStream` implements when nothing is dropped.
9. `Frontend`: polling of the list, selection of a deployment, the form.

## 6. Not modelled

Rendering (the React components) and the form's own fields, static files,
packaging but for the restarts of Caddy, the vendored pattern library, formatting of logs and errors, the text
of git's messages, the WSL variant of the build command, authentication (there
is none). The cloner is a stage: each deployment has its own directory, and what
`Clone` does before `git clone` can only fail. The polling of the list by the
frontend reads and changes nothing in the backend.

Modelled but claimed nowhere: that a row stays pending, building or deploying
for ever when the query that loads it or moves its status fails, since the
worker only logs that (against README.md:89; `FailedStageIsMarked` is about a
store that answers), or when the read-back of a created row fails. Likewise that
a running deployment's program ends later (`ContainerExits`): nothing in the
code notices; the row stays running with its
port, which `findFreePort` may give to another deployment, so that two
hostnames lead to one container. Likewise a container that a killed
`docker run` leaves running (`run_lost`) or that a clash of ports leaves created,
a stream whose history could not be read, an entry whose insert failed
and which a browser shows behind younger ones, and a build that the deadline
overtakes just after it has succeeded.
