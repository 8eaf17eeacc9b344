# Align: TLA+ models, model checks and proofs

Align is a compiled language with an LLVM back end, a Rust runtime linked into every
program, and a driver that builds, tests, watches and caches. This directory models
the parts of it in which order, concurrency and failure decide correctness.
`PROJECT.json` lists components, runs, mutants, hazards and theorems, and maps each
definition to the source lines it stands for. Paths below are relative to `crates/`.

## 1. The system and its parts

| Part | State it keeps | Operations | What is hard | What makes it correct |
|---|---|---|---|---|
| Worker pool (`align_runtime/src/lib.rs`, `ParPool`) | FIFO of jobs under a mutex, a condition variable, detached workers | `submit_many`, the worker loop | notification after unlock; jobs that outlive their submitter | no job is lost or run twice, no parked worker misses work |
| Task groups (`TgGeneration`, `align_rt_tg_*`) | per group: arena, cleanup list, open generation; per generation: pending queue, counters, lowest error and panic | begin, alloc, register (spawn), wait, end | helper retirement racing registration, nested waiters, late helpers | every task runs exactly once; a join is a barrier with a deterministic answer; storage is freed only when nobody can touch it |
| Data-parallel calls (`align_rt_par_map*`) | per pass: range cursor, barrier, call-scoped buffers | map, stable filter (count, prefix, scatter), wrapping reduction | late helpers, any completion order, double rounding of the plan | the output is the sequential one; no buffer is touched after return |
| Signal subscription (`process_signal.rs`) | one reservation, one atomic word (generation, selected, pending), previous dispositions | create, next, close, Drop; the handler | a handler delayed across leases, half-failed install or restore, foreign handlers | one lease at a time; no handler without an owner; no stale and no lost signal |
| Child processes and scopes (`process_launch.rs`, `process_live.rs`, `process_scope.rs`) | `CreationState` (child count, scope flag), handles with pid and reaped/lost latches, the subreaper bit | launch, wait, kill, Drop; scope start, reap, kill, release, Drop | pid reuse, the lock released across the vfork wait, wildcard reaping, orphans | a number is signalled only while it is pinned; a scope excludes every other owner; release means nothing is left |
| Unit-frontend cache (`align_driver/src/unit_cache.rs`, `cache.rs`) | shared directory of entries and rejection markers; a packaged root; a bounded in-process set | lookup, publish, reject, clear | processes without a lock, crashes, failing unlinks | a revoked entry is never served again |
| Object cache (`align_driver/src/cache.rs`) | content-addressed blobs, manifests that name them, a packaged root | lookup, publish, self-heal, clear | processes without a lock, crash between blob and manifest, damage | a build links an object of its own key; a damaged cache heals |
| In-process memo (`memo.rs`, `emit_object_file`) | retained objects and their charge, paths being emitted | lookup, emit, retain, clear | two emissions on one path | what is replayed under a key is that key's object |
| Codegen pipeline (`build_package_pipelined`) | queue of units, results, workers, job budget | walk, enqueue, emit, drain, cancel, retry, commit | failing and panicking emitters, refused threads, cancellation | the call ends with every worker, one verdict, nothing published early |
| Link (`watch_link.rs`) | captured child, two pipes, a stage directory, the executable | spawn, pump, stop, reap, isolate, publish | surviving descendants, sinks that fail, replaced files | the executable is one moment's output of the tool; failed calls leave nothing |
| HTTP client (`align_runtime/src/lib.rs`) | idle connections per endpoint, response streams | get, get_many, stream, drop | a pooled connection the server has closed, the one retry | one owner per connection; every request gets its own answer |
| HTTP server (same file) | parked connections, the listener, request contexts | accept, respond, upgrade, drop | descriptor pressure, a spent budget, fairness of the poll | promises are kept, nobody starves |
| Test runner (`test_runner.rs`) | signal word, child, capture buffers, deadlines | run a row, interrupt, quiesce, reap | a signal against a write, a deadline against an exit | a pass is earned; nothing is signalled late; the runner exits |
| Watch (`watch*.rs`, `align_watch`) | watched paths, baseline, dirty flag, build in flight | observe, rebuild, verify, reinstall | changes during a build, lost wake-ups, moved directories | the last change is built; a build saw one state of the disk |
| Migrations (`db_migrate*.rs`) | history rows, operation lock | migrate, check, repair | crash and lost commit between two statements | each file takes effect once, in order |
| pkg.db (`apps/db`) | pool of connections, transactions, rows | acquire, return, begin, commit, drop | drops in any order, failing statements | handles closed once; a returned connection is clean |
| pkg.kv (`apps/kv`) | one connection, a reply parser | commands, drop | late, partial and extra replies | an answer belongs to its request |
| pkg.ws (`apps/ws`, http_upgrade) | one connection, a message under assembly | receive, send, close, drop | fragments, control frames between them, deadlines | messages intact, close returns |
| The wait proof (`align_sema/src/task_wait.rs`) | tokens, groups and proofs per program point | replay of a function body | loops, branches, a wait whose result is handled later | no task's slot is read before it is known to hold a value; not modelled yet |
| Front end, MIR, LLVM back end, formatter, interface files | per-compilation data only | parse, check, lower, emit | size | sequential and functional; not modelled |
| Other packages under `apps/` (web, s3, auth) | none across calls | routes, formats, signatures | size | sequential; not modelled |

How they interact. A generated program calls the runtime: `task_group` and `par_map`
both push closures on the one process-wide pool, and the caller of either always drains
its own work too, so neither depends on a worker becoming free. A queued job keeps only
shared metadata alive, never the caller's storage; that is why joins may free storage
while jobs are still queued. Child launches and scopes share the `CREATION` mutex and
the kernel's process table; a scope's `wait4(-1)` would steal an ordinary child's
status, so each excludes the other. Signal handlers share one atomic word with their
owner. Driver processes share only a cache directory: an entry or a marker appears by
an atomic rename and disappears by an unlink. The test runner and the watch loop use
their own signal word and child handling and are independent of the runtime's; one
driver-wide reservation keeps them from owning the handlers at once. A build walks its
units (unit cache), emits objects through the pipeline (object cache, memo) and ends
with the captured link; the watch repeats that. Packages under `apps/` are Align source
over the runtime: pkg.kv and pkg.ws each own one socket, pkg.db its connections.

## 2. Plan

Done, in this order:

1. Task groups: `ForkJoin` (abstract contract), `TaskGroup`, `TaskGroupProofs`,
   `ForkJoinProofs`.
2. Data-parallel calls: `ParMapPlan`, `ParMap`, `ParMapProofs`.
3. Signal subscription: `SignalLease`. 4. Child processes and scopes: `ProcessScope`.
5. Caches of the driver: `UnitCache`, `ObjectCache`, `ObjectMemo`, with `CacheProofs`.
6. Test runner: `TestRunner`. 7. Watch: `WatchLoop`.
8. The build: `CodegenPipeline`, `LinkPublish`, with `BuildProofs`.
9. Network: `HttpPool` (client), `HttpPark` (server), `KvClient`,
   `KvClientProofs`, `WsConn`.
10. Databases: `Migrations`, `DbPool`. `DriverProofs` is about `Migrations` and
   `WatchLoop`, `ResourceProofs` about `SignalLease`, `ProcessScope` and `DbPool`.

The components are instantiated for TLC by five modules: `MCRuntime` (1, 2 and the process
trees of 4), `MCResources` (3, 4 and `DbPool`), `MCBuild` (5 and 8), `MCDriver` (6, 7 and
`Migrations`) and `MCNetwork` (9). Each extends the components about which theorems are
proved, so that the runs check the very definitions the theorems name and TLC evaluates
the assumptions the proofs use. That is why the names of those components differ from
each other (`ParInit`, `ScopeNext`, `WatchSpec`, ...) and why a proof module that is
about several components extends them all.

Left: the compiler's wait proof (`task_wait.rs`); the event registrations and captures of
`ProcessScope`; the handshake of pkg.ws; the ThinLTO phases of the build; the liveness of
`Migrations` (everything is applied in the end if somebody keeps migrating and repairing);
a composition of `WatchLoop` with `LinkPublish`.

Next theorems: `RowsRight` and `SignalsArbitrated` of `TestRunner`, whose inductive
invariants have to follow a handler through every instruction of the thread it interrupts;
`ConnectionsRight` and `ParkedRight` of the HTTP modules; `FramesRight` of `WsConn`.

## 3. Modules and the code

Every module reads the same way: constants and their assumptions, variables with the
code's names, small operators for the decisions of the code, one action per critical
section or system call, `Next`, `Spec`, then the properties. For each property of a run
some operator that carries a decision of the code has a neighbour that makes the decision
wrongly (named in its comment, and in `PROJECT.json` under `mutants`): replacing one by
the other must break the property, which shows that it depends on that decision.

### TaskGroup (`align_runtime/src/lib.rs`)

`pending`, `registered`, `completed`, `helpers`, `error`, `panic` are
`TgGenerationState`; `generation`, `result_cleanup` and `arena` belong to the group;
`queue` is the pool's FIFO of helper jobs. Each critical section of the generation
mutex and of the queue mutex is one step, and a task runs between two of them.
`Register`/`Submit`/`Notify` are `register` and `submit_many`, `Take` is the worker
loop, `Claim`/`Execute`/`Publish` are `TgGeneration::run`, `Join` is the join loop and
`Wait`, `End`, `Reclaim` the entry points `align_rt_tg_wait` and `align_rt_tg_end`.
Condition variables are explicit: parking happens in the step that releases the mutex,
a notification without a parked thread is lost, and spurious wake-ups happen. A task
returns `ok`, `err` or `panic`. A wait with no open generation changes nothing and is a
stutter.

`ForkJoin` is the contract: tasks get outcomes in any order, and a join answers, once
every task has one, with the lowest-index panic, else the lowest-index error, else
success. `TaskGroup` implements it with `spawned <- registered`: TLC checks that and
`ForkJoinProofs` proves it.

### ParMapPlan, ParMap (`align_runtime/src/lib.rs`)

`ParMapPlan` holds the arithmetic of the range plan (minimum grain from byte widths and
work weight, number of ranges, elements per range), with both roundings. `ParMap` runs
a call: `Begin` chooses the pooled or the caller-only path, `NotifyHelpers` is the
notification after unlock, `TakeJob`/`Fetch`/`Kernel`/`Finish`/`Wake` are the helper and
caller loop over the atomic cursor and the barrier, `StartScatter` the prefix sum and
second pass of a filter, `Return` the end of a call. Elements are their indices; a
kernel's effect is which output cells it writes; the reduction works modulo
`ResultMod` within a register of `RegisterMod`, so narrowing is visible.

### SignalLease (`align_runtime/src/process_signal.rs`)

`word`, `reserved`, `lock` are `WORD`, `RESERVED` and `CREATION`; `action` is the
kernel's disposition of each signal; `sub` is a client's `Subscription`. `create()` is
`Create`, `Select`, `Install`, `InstallFails`, `Unselect`, `Raise`, `CreateFails`;
`restore()` is `Query`, `PutBack`, `Clear`, `RestoreFails`, `Release`; `next()` is
`NextLoad`, `NextTry`; the handler is `Deliver`, `Load`, `Publish`. Each atomic
operation and each `sigaction` call is a step. Foreign code may replace a handler and
put it back. Refusals that change nothing are stutters.

### ProcessScope (`process_launch.rs`, `process_live.rs`, `process_scope.rs`)

`children` and `scope` are `CreationState`; `st`, `parent`, `doomed` are the kernel's
process table with ids reused as soon as they are reaped, reparenting to the nearest
subreaper, and processes started by others. Launch is `Admit` or `Arm`, then `Clone` or
`CloneFails`, `Handshake`, and on failure `CleanupKill` and `Wait`. `Kill`, `Wait`,
`ReleaseTracking`, `DropHandle` are `NativeChild`; `Reap`, `KillMember`, `ReleaseScope`,
`DropScope`, `DropRelease`, `DropKill`, `DropReap` are `Scope`. `of`, `line` and
`stolen` are history.

### UnitCache (`align_driver/src/unit_cache.rs`, `cache.rs`, `lib.rs`)

`action` and `marker` are the two files of a key in the writable root, `exact` and
`all` the in-process set `RejectedInProcess`. A lookup is `Begin` (early marker check),
`ReadPrimary`, `Corrupt`, `Authorize`, `ReadPackaged`, `AuthorizePackaged`; publication
is `PublishBegin`, `Write`, `Finish`; a verified mismatch is `Reject`, `Mark`,
`Persisted`, `Invalidate`. Every write and unlink may fail, a process may die anywhere
and its successor knows nothing, an entry may be damaged, and the cache cleared. `own`,
`seen` and `torn` are history: the keys a process rejected, whether a key was already
revoked when its bytes were read, and the keys whose publication or rejection was cut
short.

### TestRunner (`align_driver/src/test_runner.rs`)

`state` is the atomic `SIGNAL_STATE`, `pipe` the self-pipe, `frames` the handlers on
the runner's stack, `kid` the row's child with its group, its output and its record
socket, `clock` the two deadlines of a row. `Deliver` and `Handler` are a signal and
the steps of its handler, which interrupts the thread at any step and nests; `Process`
is what the child may do (print, exceed the bound, fork, leave its group, send records,
exit); `Runner` is `run_row` (launch, poll, drain, quiesce, kill, wait, reap) and
`run_and_exit` (reports in raw writes, summary, diagnostic, exit); `FailingCall` is a call
of the runner that fails. A report is written under the permit the word grants; a handler that meets it
leaves its signal pending for the writer.

### WatchLoop (`watch.rs`, `watch_native.rs`, `align_watch`)

`disk` is a directory with its inputs and their identities, `watches` the inotify
registrations, `queue`/`waking`/`dirty`/`byte` the way from an event to the sleeping
controller, `loop` the controller's position, `known` and `final` what a revision read
and verified, `base` the monitor's baseline. A build reads the inputs one by one
(`Read`), verifies them (`Finalize`), links (`Link`), takes its baseline (`MarkRevision`)
and replaces the registrations (`Desire`, `Add`, `Compact`, `Observe`), in steps between
which editors may `Write`, `Remove`, `Replace` or `Restore`. `Audit` is the periodic
comparison with the baseline, `EndWatch` the exit.

### ObjectCache (`cache.rs`), ObjectMemo (`memo.rs`, `lib.rs`)

`blob` and `entry` are `cas/` and `actions/`. A lookup is `BeginLookup`, `ReadManifest`,
`Open`, `Copy`, `Install`, `Unlink` (self-heal); a publication `Produce`, `PublishBlob`,
`Store`, `Record`; `alignc cache clear` empties one directory after the other beside
them. `ObjectMemo` is `emit_object_file` around the process-wide store: `EmitObject`
begins a call, keyed if the memo is enabled; then `ObjectLookup`, the guard that counts
emitters of a path (`Claim`), `OpenFile` and `WriteFile`, the test for exclusivity
(`Check`), the read-back (`Read`), the retention against the budget (`Retain`) and the
guard's `Drop`. `assign` gives each thread its paths: `Private` says that no two share
one, as in the driver. `met` is history: the emissions that found another one on their
path, or were found by one, before their own test for exclusivity. `OverlapSkips` says
that those retain nothing. The test does not protect an emission that has already passed
it, so `MemoRight` asks for the right bytes (`RetainedIsOwn`) only where paths are
private (section 7).

### CodegenPipeline (`align_driver/src/lib.rs`)

The coordinator (`coord`) walks the units (hit, lowered, reused, stale, key error),
enqueues, takes tasks itself, drains results (`FinishPool`) and gives up or commits, and
`Return`s or `Retry`s; `Worker` is the worker's loop with its claim,
emission, post and unwinding drop. Mutex regions are steps, condition variables are
explicit, a thread may be refused by the system, and the whole build is retried without
reuse when a reused unit turns out to be stale.

### LinkPublish (`watch_link.rs`)

`call` is the thread in `link_captured`, `child` its current tool (cc, then strip),
`pipe` the two streams, `stage` and `iso` the names in the stage directories with the
identities the code recorded. `CallerStep` is one system call of lease, spawn, pump,
grace, kill, reap, reclaim, isolate, rename and cleanup. The tool prints, replaces its
output file and exits; its descendants keep writing; foreign files appear. `contents` is
history: what the output held since it was reclaimed. `Compare` is the comparison of the
three readings of it.

### HttpPool, HttpPark (`align_runtime/src/lib.rs`)

`HttpPool`: `pool` is the idle map, `sock` the descriptor table with the peer behind
each number, `wk` the exchange of each worker or stream. Checkout, connect, send,
receive, the retry, check-in, reaping and drop are steps at the granularity of the
pool's lock. `HttpPark`: `Accept`, `Direct`, `Poll`, `Claim`, `Admit`, `Relieve`,
`Publish` are `srv.accept`, with its rotating scan and its valve for an exhausted
descriptor table; `Respond`, upgrade, stream and drop end a context.

### KvClient (`apps/kv`), WsConn (`apps/ws`)

One program thread over one socket. `KvClient` sends a request and parses the reply
token by token, refilling as it needs; the server answers late, wrongly, partly, twice
or not at all. `Size` gives the tokens of each kind of reply, `Extras` bounds the replies
that nobody asked for. In `WsConn` a frame is a header token and byte tokens; `Local`,
`ReadHeader`, `ReadPayload` and `Write` are the steps of receive, send and close,
including the answers to pings and closes that arrive between fragments, UTF-8
characters split across frames, the message cap and the work allowance.

### Migrations (`db_migrate.rs`, `db_migrate_native.rs`), DbPool (`apps/db`)

`Migrations`: `driver` is the database (`Drivers` the possible ones), `rows` the history table, `effects` how often each file took effect,
`lock` the operation lock, `wait` the expectation of a commit whose answer was lost. A
Required file commits together with its row; a Forbidden one is recorded as Applying,
runs outside and is recorded again. `DbPool`: images of the pool (its driver is
one of the two databases) and of its connections with their native handles; every drop order of pool, connections, transactions and rows
that Align's ownership admits.

## 4. Runs

The components of one run share no state in the code beyond what each module already
contains, so their interleavings say nothing. An MC module therefore declares the
variables of its components, extends those with theorems and instantiates the others, or
the same ones with other constants, and has a variable `part`: a behaviour runs one instance, the rest stay in
their initial states, and a property speaks about the instances it concerns. The cfg
names the parts a run covers. Where a part is smaller than the constants of the extended
component, its step is that component's step with a restriction on it (`Silent`, `Alone`,
`Healthy`). The property of a run is the conjunction of the component's own properties, which are stated and explained in the component's module.

| Run | Parts and their instances | Properties |
|---|---|---|
| `runtime` | *tasks*: 2 workers, 2 generations of up to 2 tasks; *par*: 2 workers, 1 or 3 elements, 3 passes | of `TaskGroup`: `TypeOK`, `NoTouchAfterJoin`, `JoinIsBarrier`, `ClaimedOnce`, `HelpersCover`, `DropsFollowRuns`, `ImplementsForkJoin`; of `ParMap`: `CallsExact`, `OutputCorrect` |
| `resources` | *signals*: 2 clients, 2 handler invocations, 2 signals, 2 generations; *procs*: 2 children, 2 scopes, 2 ids, 1 fork, 1 foreign reap; *dbpool*: a pool of 2 and 3 connections of either database | `LeaseExact`, `ScopesExclusive`, `PoolSound` |
| `runtime_live` | *tasks*: 1 generation of 2 tasks; *batch*: 1 worker, 5 tasks; *par*: 2 passes; *tree*: 1 child, 1 scope, 3 ids, 2 forks; all fair | `TasksProgress`, `CallReturns`, `DropReturns` |
| `build` | *unit*: 2 drivers, 2 keys (one packaged), set limit 1; *object*: 2 drivers, 2 keys over 2 objects, 2 faults of which a clear is the last; *memo*: 2 threads with a path each, settings that change; *shared*: 3 threads on one path, settings fixed; *pipeline*: 3 units, 3 jobs, no panic and no key error; *failing*: 3 units, the third in the object cache, every setup failure, panics; *callers*: 2 links at once, of silent tools; *pump*: 3 chunks on 2 streams, reads that fail, one call gets the lease; *isolate*: 3 stray writes, 2 foreign files, one call gets the lease and meets no fault in its pump | of `UnitCache`: `TypeOK`, `NoReachableAction`, `OwnRejectionSticks`, `NoRevokedHit`; `ObjectsRight`; of `ObjectMemo`: `MemoRight`, `Charged`; `PipelineRight`; `LinkRight` |
| `build_live` | *heal*: 2 drivers, 1 key of 2 objects, 2 faults; *ending*: 2 units, 3 jobs, failures, panics, refused threads; *linking*: 3 chunks on 2 streams, stops, sink errors and panics; all fair | `KeyHeals`, `BuildEnds`, `LinkReturns` |
| `driver` | *row*: a child with every deed, 2 records (acknowledgement, success); *chatter*: 3 records of every kind, no failing call; *interrupted*: 2 signals, a report of 2 writes; *watch*: 2 inputs, 2 edits, 2 tries, signal, backend failure, failing calls; *migrate*: 2 commands, 3 files, SQLite and PostgreSQL, 4 faults and 1 edit; *tampered*: files that touch their own history, no faults | `RowsRight`, `SignalsArbitrated`, `WatchRight`, `HistoryTrue` |
| `driver_live` | *waking*: 1 row, no clock; *exiting*: 2 rows, the clock runs; *events*: no audit; *audit*: directories moved back; all fair | `RunnerExits`, `EventuallyCurrent` |
| `network` | *pool*: 2 workers, 2 calls, 3 descriptors; *stream*: a worker and a stream, 2 endpoints; *park*, *promise*: 3 descriptors, 2 parked, 2 contexts, a sibling; *kv*: 2 operations and an unasked reply; *messages*: 3 frames of text and pings; *control*: pings, pongs, closes | `ConnectionsRight`, `ParkedRight`, `RepliesMatched`, `FramesRight` |
| `network_live` | *single*: 1 worker, deadlines; *serve*, *crowd*: one context at a time; *flood*: an endless peer; all fair | `CallReturns`, `ClientsServed`, `CloseReturns` |
| `proc_recycled_root` | *tree* | violates `ReapReports`: section 7 |
| `migrate_retry` | *migrate*: one Forbidden file on PostgreSQL, 2 commands, 2 faults | violates `OnlyOnce`: section 7 |
| `http_acted` | *single* | violates `ActedOnce`: section 7 |

Every component's type invariant is checked too: `TaskGroup`'s and `UnitCache`'s by name,
since theorems of their own state them, the others as a conjunct. Symmetry is used over workers,
clients, handlers, processes and descriptors, only in runs without liveness.

Why the bounds are enough to meet the hard cases:

- Two workers and a caller are the smallest pool in which one helper retires while
  another claims and the caller registers. Two generations let a helper of the first
  outlive its join while the second is open. Batches of more than one task need
  `tasks > 4 * workers`, hence one worker and five tasks in *batch*; owned results are
  left out there, since *tasks* has them.
- Three elements over two workers give ranges of two and one, so rounding and the
  shorter last range happen; one element takes the caller-only path. Three passes let a
  helper of a filter's first pass arrive in its second, or in the next call.
- `GENERATION_MAX = 2` reaches a second lease under a delayed handler and the exhausted
  generation. Two signals allow a failure between two `sigaction` calls.
- Two ids over four owners force reuse of every id. One foreign reap is enough to
  make an id stale; two forks give a chain of two descendants below a root.
- Two drivers and two faults, or a fault and a clear, cover every pair of concurrent
  publication, self-heal and removal of a blob two keys share; *heal* recovers from each
  of them, and the theorem `ObjectsAreRight` is for any number of faults and clears.
- A report of two raw writes has an instruction between its halves; two signals nest.
  Three records are one more than a correct child sends.
- Two edits change both inputs during one build, or one of them during it and again after.
- Three files of both policies, one of them between two of the other kind, and a fault
  for each of the two commits of a Forbidden file, for its repair and for the retry.
- Two calls of two URLs reuse a connection in the second call that the first pooled;
  one more descriptor than live connections lets a closed number come back.
- Two parked clients and a listener are the smallest poll set whose rotation matters.
- Three units and three jobs give a coordinator and two workers with work left over.
- Three chunks through a pipe of one make the tool block while the pump sleeps.
- Two operations are a late reply and the one that could take it for its own; three, with
  an unasked reply, pass as well.
- Three frames are a fragment, a control frame and the final fragment.
- A set limit of 1 is reached by the first unpersisted rejection and exceeded by the
  second; the packaged key has two roots to read and authorise.

Deadlock is not checked where the program may stop: a caller need not call again, a pool
and its connections may all be dropped, a runner or a watch has ended, and aborting is an
outcome of the code. `build` and `network` check it: a driver can always begin another
lookup, a build or a call that ended stutters explicitly, and a program can always call
again.

## 5. Fairness

- `TaskGroup`: threads that can run do (weak fairness of each worker's take and run and
  of the caller's internal steps), and tasks terminate. The caller need not call `wait`
  or `end`, so `EagerProgress` holds without them.
- `ParMap`: a thread that is in the loop runs. Taking a job is *not* fair: every worker
  may be busy in other operations for ever, and calls still return.
- `ProcessScope`: a process with a pending SIGKILL exits, and threads inside a call
  run. Nothing is assumed of other processes. Forks are bounded, so the liveness of the
  Drop loop excludes a descendant that forks for ever faster than it is killed, a case
  in which the code loops as well. A failing system call in the loop aborts the
  process, which counts as an end.

- `TestRunner`: the thread runs (with the handlers on it); `RunnerExits` also needs the
  clock. Nothing is assumed of the child.
- `WatchLoop`: the controller and the backend's threads run; *audit* also assumes that
  the audit's time comes, *events* does not.
- `ObjectCache`: a driver process runs on.
- `HttpPool`: threads run and a socket's own deadline passes; nothing of the server.
  `HttpPark`: the server's thread runs and clients send again. Without a budget a
  silent client blocks `accept` in the code, so that assumption is needed. With as many
  parked connections as descriptors, a parked client whose request has arrived can be
  passed over for ever; *crowd* therefore has descriptors to spare.
- `CodegenPipeline`: threads that can step do; spurious wake-ups get no fairness.
- `LinkPublish`: the caller and the tool run; a tool stops only on unread output, and reads
  do not fail (section 7).
- `WsConn`: the clock runs, a call whose time is over gives up, and local computation
  proceeds. No read and no write is assumed to succeed.

## 6. Proofs

`TaskGroupProofs` proves, for every finite pool and all bounds, `TypeCorrect`,
`JoinBarrier` (`JoinIsBarrier`), `AtMostOnce` (`ClaimedOnce`) and `NoLateTouch`
(`NoTouchAfterJoin`). None is inductive by itself. `Control` ties program counters to
generations: who holds one, that the caller joins at most one and it is then closed,
that every opened generation is answered, open or being joined. `Ledger` says where
each registered task is: `pending` is exactly the unclaimed tail of the spawn order,
each claimed task is in one batch, and `completed` is the cardinality of the claimed
tasks that nobody holds any more. From `completed = registered` at a join it follows
that the queue is empty and no batch is held, which is the barrier; and from that, that
a late helper finds nothing to run. The proofs use the named assumption of `TaskGroup`
(a finite non-empty pool, positive bounds).

`ParMapProofs` proves `PlanPartitions` (for all counts, widths, weights and worker
counts a pooled plan is a partition into non-empty consecutive ranges) and `PlanGrain`
(two to `workers` ranges); the argument is the arithmetic of two ceilings, stated as
lemmas. On top of them `CallsAreExact` (`CallsExact`): in a call over any plan, on any pool
and through any number of passes, no thread touches a pass that has returned, a range is
run once, a barrier opens when all ranges have, the lowest panicking range is reported, and
a finished map has every element in its place. `ParInv` is inductive: `Control` (who drains
which pass; a queued job names a pass with helpers), `CallerKnows` (what each position of
the caller says of its pass), `Claims` (a claimed range is below the cursor and the
claimer's alone, and its pass lives until it has run), `PassState` (`remaining` is the
cardinality of the ranges not finished, and `range_panic` is below every panic that is
published), `PlanState` and `MapState`.

`CacheProofs` is about the three caches. Of `UnitCache` it proves `TypeCorrect`,
`RejectionWins` (`NoReachableAction`), `RejectionSticks` (`OwnRejectionSticks`) and
`RevokedNeverServed` (`NoRevokedHit`) for any number of processes and keys and any set
limit. `Phases` is what is needed beyond the properties: a process drops a key from its
set only with the marker on disk, and a revocation seen when the bytes were read is still
in force at the authorisation. Of `ObjectCache` it proves `ObjectsAreRight`
(`ObjectsRight`) for any drivers, keys, digests, packaged root and number of faults:
`Sources` says that a manifest names an object of its key or does not decode, and that
bytes without their digest were hurt by somebody; `Vouched` what a driver in the middle of
a lookup or a publication holds (a digest of its key, an installed copy that was verified,
a recorded blob that is still there unless hurt). Of `ObjectMemo` it proves `MemoIsRight`
(`MemoRight`) for any threads, keys, paths, budgets and settings changed at any moment:
`Emission` says what a call relies on at each step, above all that a call which met
another one on its path before its test for exclusivity finds the path contended until
that test, and therefore never reads back. Nothing is proved of the bytes retained by
calls that share a path: there the code gives no guarantee.

`ForkJoinProofs` goes on from there. `HelpersNeverMissing` (`HelpersCover`): the helper
count of a generation is the cardinality of its queued jobs plus that of the workers that
hold one, so a helper that retires in the section that saw no task cannot strand one. The
rest needs two more parts of the invariant. `Failures` says that a batch runs in spawn
order and that a thread, and after publication the generation, holds the lowest error and
the lowest panic of the tasks it accounts for, in whatever order batches are published.
`Groups` says that generations open one after the other and that the cleanup records are
registered tasks in spawn order. `Scheduler` is the whole inductive invariant; from it
follow `DropsInOrder` (`DropsFollowRuns`) and `Refinement` (`ImplementsForkJoin`): a
registration is a spawn, a task's execution its outcome, the join the answer, the
reclamation the release, and every other step stutters. `ForkJoin!Spec` has no fairness,
so this is its whole meaning.

`ResourceProofs` is about three owners of what outlives a call.

`LeaseCorrect` (`LeaseExact`) holds for any sets of clients and of
handler invocations in progress, any number of signals and any generation limit.
`LeaseInvariant` is inductive: `Locking` ties program counters to the lock and to the
state of the subscription, `Selected` says which bits the word admits between two atomic
operations, `Disposed` that only an installed signal has a foreign disposition and the
subscription remembers the program's own, `Captured` that a handler's loaded generation
is not a later one, and `Kept` where a published signal is while a rollback or a close
takes it back. A handler that loaded the word of an earlier lease fails its
compare-exchange because generations never come back: `create()` refuses the lease after
`GENERATION_MAX` instead of wrapping.

`ScopesAreExclusive` (`ScopesExclusive`, with its action property `ReleaseMeansGone`)
holds for any handles, scopes, process ids, forks and foreign reapers. `ScopeInvariant` is
inductive: `Table` ties an owner to the process it launched, which stays a child of ours
until it is reaped; `Descent` says that what is left of a scope's descendants descends from
us while the scope is open; `OwnerState` what the flags of an owner say at each position.
That a release leaves nothing behind follows from `Descent`: to descend from us is to be
in every set of processes that holds our children and the children of its members, and
without a child of ours the empty set is one.

`PoolIsSound` (`PoolSound`) holds for any capacity and number of connections.
`PoolInvariant` is inductive: the slots are the pool's connections that nobody holds, once
each and with an idle native connection (`SlotsOwned`), every live image is held or pooled
(`HeldIsLive`), images agree with their handles (`GoodImage`), and a pool that is being
built or is dropped has the slots it must have (`LifeFits`).

`BuildProofs` is about the end of a build.

`PipelineIsRight` (`PipelineRight`) holds for any number of units and jobs and whatever
frontend, setup, cache and codegen make of each unit. `PipeInvariant` is inductive:
`PoolShape` (threads and the counters of the queue), `Walked` (what the coordinator knows
of the units behind it), `Owned` (a unit is in one place: queued, held, or a result, and
its object file is as that place says), `Covered` (as long as nothing cancelled the pool,
a unit offered to it is in some place, and a cancellation has a reason), `Fifo` (units are
taken in the order of the walk) and `Settled` (what was returned). `Precedence` and
`ChosenError` compute the verdict and the blamed unit from what setup and the units are,
not from the order of completion, so they say that no schedule changes them; a panic and a
failing frontend end the build as they come.

`LinkIsRight` (`LinkRight`) holds for any number of calls, streams, chunks, stray writes
and foreign files and every fault of the pump. `LinkInvariant` is inductive: `Captured`
ties the position of a call to the lease and to its child, `Reported` says that a call
without a fault has read all that its tool printed, `Named` which files the stage names
stand for, `Copied` what the readings of the output say. The copy is a snapshot because
bytes that a stray write leaves are new (`Kept`): where a later reading agrees with the
first, the output agreed with it already at the moment the first reading ended (`Moment`),
so a copy equal to the first reading is what the output was at that moment.

`DriverProofs` proves `HistoryIsTrue` (`HistoryTrue`) on both databases for any
number of commands, files, faults and edits. `HistoryInvariant` is inductive: `Locking`
(who may write the history; only PostgreSQL loses the lock, with its session),
`Catalogs` (no gaps), `History` (what took effect has a row, what is applied took
effect, the files before a row are applied), and for each command what it may still rely
on between two transactions: `WorkingAt` for a Forbidden file that runs outside one, also
after the session and with it the lock went; `RepairingAt` for what the operator saw
before a repair; `CurrentAt`; `OnceAt` for SQLite, whose file lock outlives a connection.
`OnlyOnce` is part of the invariant on SQLite only: on PostgreSQL it is false (section 7).
The theorems assume `Tampers = {}`: a file that erases, forges or drops the history and
then dies is not protected by the code (section 7), and TLC checks tampering without
faults in *tampered*.

It also proves `WatchIsRight` (`WatchRight`) for any number of inputs, changes and rounds
of `reinstall_watches`. `WatchInvariant` is inductive: `Reading` and `Versioned` carry what
a revision read to its link (versions never come back, so an input that is as it was read
was so when the verification began: `OneSnapshot`); `Attached`, `Registered` and `Noticed`
say which watch, event or flag still stands for an input the controller has looked at. The
second half is conditional on `~MoveBack`, as the property is: a directory that is moved
away and back has its old identity, no watch and no event, and only the audit sees it.

`KvClientProofs` proves `RepliesAreMatched` (`RepliesMatched`) for any number of
operations and of unasked replies. `KvInvariant` looks at the tokens read but not parsed
and those not yet read as one stream. `Framing`: a reply follows a reply, the last one is
whole while the server is there, and a client that may be used again stands at the start
of one. `Mine`: while nothing was repeated, the stream holds at most the reply to the
request in progress, and nothing between two operations. The second part carries
`AnswerIsMine` and is conditional in the property too: bytes that arrive after a reply
was read are not detected, as `kv.md` says.

The assumptions are those each component declares (`TaskGroupAssumption`,
`ParMapAssumption`, `ParMapPlanAssumption`, `SignalLeaseAssumption`,
`ProcessScopeAssumption`, `PoolConstants`, `UnitCacheAssumption`, `ObjectCacheAssumption`,
`MemoAssumption`, `PipelineAssumption`, `LinkAssumption`, `WatchAssumption`,
`MigrationsAssumption`, `KvAssumption`): types of the constants, finite and non-empty
pools, distinct null values, no bounds on sizes. TLC evaluates each of them in a run.

Only model-checked:

- everything about liveness (`TasksProgress`, `CallReturns`, `DropReturns`, `KeyHeals`,
  `BuildEnds`, `LinkReturns`, `RunnerExits`, `EventuallyCurrent`, `ClientsServed`,
  `CloseReturns`): fairness and `ENABLED` are out of the proof system's reach;
- `OutputCorrect` (the results of filtering and reducing calls) and `Charged` (the
  memo's budget), which compare with sums over sequences or sets: what a fold computes
  for every input needs an induction over data, which is out of reach too;
- migrations that tamper with their history;
- `RowsRight`, `SignalsArbitrated`, `ConnectionsRight`, `ParkedRight` and `FramesRight`:
  the size of their inductive invariants. They are in the plan.

## 7. Findings

Three runs end with a violation; `PROJECT.json` quotes the lines.

`proc_recycled_root`: `docs/impl/50-r65-process-capability-handoff.md:154` says of
`scope.reap` "Return each newly reaped child's PID and typed wait_result once." After
the root was reaped, a scope may stay open for its remaining descendants. If one of
them forks a process that is given the root's freed id, and that process is orphaned,
adopted and exits, `reap` (`process_scope.rs:346`) consumes its status, compares its id
with the root's, takes it for a contradiction, latches `lost` and returns an error. The
status is dropped, the scope can be neither reaped nor released, and its Drop aborts.
It needs an id to be reused while a scope is open; no foreign code is involved.

`migrate_retry`: on PostgreSQL a command whose Applying commit was lost reconnects without
the operation lock, finds the equal Applying row of another command, takes it for its own
and runs the file again; `docs/impl/pkg-design/db.md:2608` excludes an automatic retry.

`http_acted`: a request on a reused connection is retried after the server acted on it, if
the server drops the connection, or the deadline passes, before a byte of the answer; the
comment on `http_client_perform` says the failure is never a server-side effect.

Smaller disagreements met while modelling. They limit the passing properties as said:

| Where | What the code does, and what is said of it | In the models |
|---|---|---|
| `test_runner.rs:1980` | a signal selected after a completed diagnostic, or while the one about a failed summary is written, does not decide the exit status; `core-design/test.md:369` says it outranks it | `FirstSignalWins` is about the suite status and the exits the code protects |
| `test_runner.rs:1735` | when the wait or the reap of a row fails, the failure block already selected is dropped; `core-design/test.md:254` says it is preserved | `RowsRight` does not ask for it |
| `db_migrate_native.rs:1036` | a file that erases its own Applying row is run again if the process dies before the row is restored; `pkg-design/db.md:2777` says it cannot | *tampered* has no faults |
| `lib.rs:27016` (HTTP server) | two contexts held at a time make the rotating cursor skip the listener for ever; comments say it cannot be starved | *serve* has `MaxHeld = 1` |
| `lib.rs:28048` (HTTP server) | a budget found spent after the write closes a connection the response promised to keep | *promise* has no reply budget |
| `align_driver/src/lib.rs:6458` | which unit is blamed depends on completion order when units are reused; PL19 says it does not | `ChosenError` is about builds that reuse no unit |
| `align_driver/src/lib.rs:5434` | exclusivity is tested once, before the file is read back: an emission that begins in between truncates the file, and the first one retains what it finds under its own key; a hit's write (`lib.rs:5421`) takes no guard at all. `memo.rs:167` says the invariant is "enforced rather than assumed" and that both emissions skip retention. The driver gives each emission its own path | `MemoRight` asks for the retained bytes where paths are private; with `RetainedIsOwn` as the invariant, TLC finds the trace in *shared* at once |
| `watch_link.rs:533` | after a failed read the pipe is neither read nor closed, so the tool blocks; the plan says both ends are closed and the group is terminated | *linking* has no failing read |
| `watch_link.rs:578` | a panicking sink leaves the stage when the linker replaced its output; the plan promises identity-aware cleanup | `StagesCleaned` is about calls that return |

## 8. What is left out

- Runtime: panics and aborts on contract violations of the C interface, overflow of the registration counters (a
  `checked_add` that aborts), byte offsets, lazy creation of the pool, probe features.
- `SignalLease`: errno values, `sigaction` flags, argument checks of the C wrappers. The
  previous dispositions are captured in one step. A handler that is delayed *before*
  its first load may serve a later lease, as `docs/impl/49` accepts; `PendingIsFresh`
  is about handlers that have loaded.
- `ProcessScope`: group signals, captured pipes, poll and event registration, the cached
  `status()` observation; early returns of `reap` on EINTR and its batch limit; the
  `/proc` scan is one snapshot, and `clone` is one step with the commit of its result.
  The remaining tests of `valid()` cannot fail while `ScopeExclusive` holds. Foreign code
  that reaps an owner's child is modelled, and voids `PidPinned`.
- `UnitCache`: slot pointers (they only explain a miss), the encoding of manifests,
  entries of other versions (an undecodable entry is `damaged`), and directory errors,
  which fail closed as a miss.
- `TestRunner`: one stream stands for two; contents, wording and durations.
- `WatchLoop`: deeper trees, other platforms' backends, the link (`LinkPublish`).
- `ObjectCache`: slot pointers (their order is kept), encodings. `ObjectMemo`: a file is
  truncated and then written, overlapping writers may mix; the other maps are charges.
- `CodegenPipeline`: runs with the object cache enabled; cancelling and closing the
  queue is one step; a panic of the frontend, which would detach the workers, PGO
  tallies and the link are left out.
- `LinkPublish`: a kill is accepted and a wait succeeds; stray writes carry new bytes;
  no foreign file appears between a name's check and its use, which the plan's W12
  excludes; file modes and byte limits.
- `HttpPool`: TLS, decoding, request buffers; an answer without a body may end with its
  head; a server sends nothing unasked after its answer was read (an overshoot comes with the
  answer). `HttpPark`: parsing is a verdict on the request.
- `Migrations`: parsing and digests of files; a transaction is one step with its commit.
- `DbPool`: malformed images; rows are closed before the connection or transaction that
  owns them is consumed, as Align's ownership guarantees; each operation is one step of
  one thread.
- `KvClient`: refused connects and raw image checks. `AnswerIsMine` assumes one reply a
  request: bytes that arrive after a reply was read are not detected, as `kv.md` says.
- `WsConn`: masking, length encodings and the handshake; a header costs one unit.
- Sequential parts (front end, MIR, back end, formatter, interface files, conversion
  libraries, REPL, database preparation, most of semantic analysis) keep no state across
  steps and have unbounded inputs: what they compute is a function of a program text,
  and a bounded model would test a handful of toy programs. They are most of the
  repository's lines.
