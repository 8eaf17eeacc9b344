-------------------------- MODULE CodegenPipeline --------------------------
(***************************************************************************)
(* build_package_pipelined: the serial frontend walk hands every unit that *)
(* is ready to a queue, workers emit objects from it beside the walk, and  *)
(* the coordinator then rehydrates what the unit cache had served, drains  *)
(* the queue itself, joins the workers, publishes and returns one verdict. *)
(*                                                                         *)
(* A critical section of PipelineQueue.state is one step; the emission of  *)
(* an object has a beginning and an end.  What codegen makes of each unit  *)
(* is fixed at the start, so that a verdict can be compared between        *)
(* schedules.                                                              *)
(***************************************************************************)
EXTENDS Naturals, Sequences, FiniteSets, SequencesExt

CONSTANTS
    N,              \* units of the package, in DAG order
    Jobs,           \* -j
    Verdicts,       \* what codegen may make of a unit: a subset of {"ok", "err", "panic"}
    Kinds,          \* what the walk may find for a unit: a subset of KindSet
    Setups,         \* which setup phase may fail: a subset of {"ok", "stage", "pgo", "target"}
    FrontMayFail,   \* whether the frontend may report errors
    SpawnMayFail    \* whether the system may refuse a thread

KindSet == {"hit", "fresh", "reused", "stale", "keyerr"}

\* What the constants must be.
ASSUME PipelineAssumption ==
    /\ N \in Nat \ {0} /\ Jobs \in Nat \ {0}
    /\ Verdicts \subseteq {"ok", "err", "panic"} /\ Kinds \subseteq KindSet
    /\ Setups \subseteq {"ok", "stage", "pgo", "target"}
    /\ FrontMayFail \in BOOLEAN /\ SpawnMayFail \in BOOLEAN

Units == 1..N
Coord == 0
Background == 1..Jobs           \* thread slots; BackgroundLimit says how many may be used
Workers == {Coord} \cup Background

VARIABLES
    verdict,        \* unit -> what codegen will make of it
    setup,          \* the setup phase that failed, or ok
    kind,           \* unit -> what the walk found: cache hit, lowered, reused or stale miss, key error
    coord,          \* where the coordinator is
    cur,            \* the unit the coordinator is at
    want,           \* available work the last enqueue saw
    tasks,          \* PipelineQueueState::tasks
    results,        \* PipelineQueueState::results, as a set of units with their results
    inflight,       \* PipelineQueueState::in_flight
    closed,         \* PipelineQueueState::closed
    cancelled,      \* PipelineQueueState::cancelled
    wpc,            \* worker -> none, top, wait, emit, post, unwind, done or dead
    task,           \* worker -> the unit it has claimed, 0 if none
    obj,            \* unit -> its object file: absent, torn or whole
    published,      \* units whose object was published to the object cache
    outcome,        \* the verdict returned, or none
    blamed,         \* the unit the verdict names, 0 if none
    attempt         \* 1, or 2 after the retry without reuse

queue == <<tasks, results, inflight, closed, cancelled>>
threads == <<wpc, task, obj>>
pipeVars == <<verdict, setup, kind, coord, cur, want, queue, threads, published, outcome, blamed, attempt>>

PipeInit ==
    /\ verdict \in [Units -> Verdicts]
    /\ setup \in Setups
    /\ kind = [u \in Units |-> "none"]
    /\ coord = "walk" /\ cur = 1 /\ want = 0
    /\ tasks = <<>> /\ results = {} /\ inflight = 0
    /\ closed = FALSE /\ cancelled = FALSE
    /\ wpc = [w \in Workers |-> "none"]
    /\ task = [w \in Workers |-> 0]
    /\ obj = [u \in Units |-> "absent"]
    /\ published = {}
    /\ outcome = "none" /\ blamed = 0
    /\ attempt = 1

Missed(u) == kind[u] \in {"fresh", "reused", "stale"}
KeyError == \E u \in Units : kind[u] = "keyerr"
Spawned == {w \in Background : wpc[w] # "none"}
Ended == {"none", "done", "dead"}

(***************************************************************************)
(* The condition variable.                                                 *)
(***************************************************************************)
Waiting == {w \in Workers : wpc[w] = "wait"}
NotifyAll(f) == [w \in Workers |-> IF f[w] = "wait" THEN "top" ELSE f[w]]

\* cancel, and what a failed or panicking worker does to the queue.
Cancelled ==
    /\ cancelled' = TRUE /\ tasks' = <<>>

(***************************************************************************)
(* The walk and its on_ready hook.                                         *)
(***************************************************************************)

\* One unit is ready: its key, its lookup, and where its MIR goes.
Ready(k) ==
    /\ coord = "walk" /\ cur <= N
    /\ attempt = 2 => k \notin {"reused", "stale"}
    /\ LET skip == setup \in {"stage", "pgo"} \/ KeyError IN
         /\ k \in {"hit", "keyerr"} => ~skip
         /\ kind' = [kind EXCEPT ![cur] = IF skip THEN "none" ELSE k]
         /\ obj' = IF k = "hit" THEN [obj EXCEPT ![cur] = "whole"] ELSE obj
         /\ IF k = "keyerr"
            THEN Cancelled /\ wpc' = NotifyAll(wpc)
            ELSE UNCHANGED <<tasks, cancelled, wpc>>
         /\ IF ~skip /\ k = "fresh" /\ setup = "ok" /\ ~cancelled
            THEN coord' = "enqueue" /\ UNCHANGED cur
            ELSE coord' = "walk" /\ cur' = cur + 1
    /\ UNCHANGED <<verdict, setup, want, results, inflight, closed, task, published, outcome, blamed, attempt>>

\* enqueue: nothing if it was cancelled meanwhile, else one waiting worker is notified.
NotifyOne(w) == IF Waiting = {} THEN wpc ELSE [wpc EXCEPT ![w] = "top"]
Enqueue ==
    /\ coord \in {"enqueue", "requeue"}
    /\ coord' = IF coord = "enqueue" THEN "grow" ELSE "regrow"
    /\ IF cancelled
       THEN want' = 0 /\ UNCHANGED <<tasks, wpc>>
       ELSE /\ tasks' = Append(tasks, cur)
            /\ want' = Len(tasks') + inflight
            /\ \E w \in Workers : (Waiting # {} => w \in Waiting) /\ wpc' = NotifyOne(w)
    /\ UNCHANGED <<verdict, setup, kind, cur, results, inflight, closed, cancelled, task, obj, published, outcome, blamed, attempt>>

\* background_limit: the coordinator is one of the jobs.
BackgroundLimit == Jobs - 1

\* ensure_background_workers: one spawn, or the end of its loop.
SpareJobs == want > Cardinality(Spawned) /\ Cardinality(Spawned) < BackgroundLimit
Grow ==
    /\ coord \in {"grow", "regrow"}
    /\ \/ /\ SpareJobs
          /\ wpc' = [wpc EXCEPT ![Cardinality(Spawned) + 1] = "top"]
          /\ UNCHANGED <<coord, cur>>
       \/ /\ SpareJobs => SpawnMayFail
          /\ coord' = IF coord = "grow" THEN "walk" ELSE "deferred"
          /\ cur' = cur + 1
          /\ UNCHANGED wpc
    /\ UNCHANGED <<verdict, setup, kind, want, queue, task, obj, published, outcome, blamed, attempt>>

(***************************************************************************)
(* After the walk, in the order of the documented failure precedence.      *)
(***************************************************************************)

\* The end of an attempt that gives up: the pool is cancelled and joined, then the verdict stands.
GiveUp(why, u) ==
    /\ coord' = "join" /\ outcome' = why /\ blamed' = u
    /\ Cancelled /\ closed' = TRUE /\ wpc' = NotifyAll(wpc)
    /\ UNCHANGED <<results, inflight, task, obj>>

FrontendFails ==
    /\ coord = "walk" /\ FrontMayFail
    /\ GiveUp("frontend", 0)
    /\ UNCHANGED <<verdict, setup, kind, cur, want, published, attempt>>

\* The walk is complete: stage, PGO and key errors, then the deferred units.
SetupFailure == IF setup \in {"stage", "pgo"} THEN setup ELSE IF KeyError THEN "key" ELSE "none"
WalkEnds ==
    /\ coord = "walk" /\ cur = N + 1
    /\ IF SetupFailure # "none"
       THEN GiveUp(SetupFailure, 0) /\ UNCHANGED cur
       ELSE /\ coord' = "deferred" /\ cur' = 1
            /\ UNCHANGED <<queue, threads, outcome, blamed>>
    /\ UNCHANGED <<verdict, setup, kind, want, published, attempt>>

\* materialize of one deferred unit fails: the cached summary disagrees with the recomputation.
Disagrees(u) == kind[u] = "stale"
Stale ==
    /\ coord = "deferred" /\ cur <= N /\ Disagrees(cur)
    /\ GiveUp("stale", cur)
    /\ UNCHANGED <<verdict, setup, kind, cur, want, published, attempt>>

\* It succeeds, and the unit is enqueued unless that has become pointless.
Rehydrate ==
    /\ coord = "deferred" /\ cur <= N /\ ~Disagrees(cur)
    /\ IF kind[cur] = "reused" /\ setup = "ok" /\ ~cancelled
       THEN coord' = "requeue" /\ UNCHANGED cur
       ELSE coord' = "deferred" /\ cur' = cur + 1
    /\ UNCHANGED <<verdict, setup, kind, want, queue, threads, published, outcome, blamed, attempt>>

\* Target initialization, then finish(true): close the queue and work.  Mutant: nobody is told.
QuietClose(f) == f
TellClosed(f) == NotifyAll(f)
FinishPool ==
    /\ coord = "deferred" /\ cur = N + 1
    /\ IF setup = "target"
       THEN GiveUp("target", 0)
       ELSE /\ closed' = TRUE
            /\ wpc' = [TellClosed(wpc) EXCEPT ![Coord] = "top"]
            /\ coord' = "join"
            /\ UNCHANGED <<tasks, results, inflight, cancelled, task, obj, outcome, blamed>>
    /\ UNCHANGED <<verdict, setup, kind, cur, want, published, attempt>>

(***************************************************************************)
(* A worker, background or coordinator.                                    *)
(***************************************************************************)

\* pop_front.
PopFront(q) == Tail(q)
TakeTask(w) ==
    /\ wpc[w] = "top" /\ ~cancelled /\ tasks # <<>>
    /\ task' = [task EXCEPT ![w] = Head(tasks)]
    /\ tasks' = PopFront(tasks)
    /\ inflight' = inflight + 1
    /\ wpc' = [wpc EXCEPT ![w] = "emit"]
    /\ obj' = [obj EXCEPT ![Head(tasks)] = "torn"]
    /\ UNCHANGED <<verdict, setup, kind, coord, cur, want, results, closed, cancelled, published, outcome, blamed, attempt>>

\* The returns of pipeline_worker.  Mutant: closed is looked at before the queue.
LeaveOnClose == cancelled \/ closed
NoMoreWork == cancelled \/ (tasks = <<>> /\ closed)
Leave(w) ==
    /\ wpc[w] = "top" /\ NoMoreWork
    /\ wpc' = [wpc EXCEPT ![w] = "done"]
    /\ UNCHANGED <<verdict, setup, kind, coord, cur, want, queue, task, obj, published, outcome, blamed, attempt>>

Sleep(w) ==
    /\ wpc[w] = "top" /\ ~cancelled /\ tasks = <<>> /\ ~closed
    /\ wpc' = [wpc EXCEPT ![w] = "wait"]
    /\ UNCHANGED <<verdict, setup, kind, coord, cur, want, queue, task, obj, published, outcome, blamed, attempt>>

\* A condition variable may wake without a notification.
Spurious(w) ==
    /\ wpc[w] = "wait"
    /\ wpc' = [wpc EXCEPT ![w] = "top"]
    /\ UNCHANGED <<verdict, setup, kind, coord, cur, want, queue, task, obj, published, outcome, blamed, attempt>>

\* The emission ends with a result, which is pushed; a failure cancels the rest in the same section.
Emitted(w) ==
    /\ wpc[w] = "emit" /\ verdict[task[w]] # "panic"
    /\ LET ok == verdict[task[w]] = "ok" IN
         /\ results' = results \cup {[unit |-> task[w], ok |-> ok]}
         /\ obj' = [obj EXCEPT ![task[w]] = IF ok THEN "whole" ELSE "torn"]
         /\ IF ~ok
            THEN Cancelled /\ wpc' = [NotifyAll(wpc) EXCEPT ![w] = "post"]
            ELSE UNCHANGED <<tasks, cancelled>> /\ wpc' = [wpc EXCEPT ![w] = "post"]
    /\ UNCHANGED <<verdict, setup, kind, coord, cur, want, inflight, closed, task, published, outcome, blamed, attempt>>

\* The emitter panics; its thread unwinds towards the claim guard.
Panics(w) ==
    /\ wpc[w] = "emit" /\ verdict[task[w]] = "panic"
    /\ wpc' = [wpc EXCEPT ![w] = "unwind"]
    /\ UNCHANGED <<verdict, setup, kind, coord, cur, want, queue, task, obj, published, outcome, blamed, attempt>>

\* PipelineClaimGuard::drop, which also cancels the rest when it unwinds.
DropClaim(w) ==
    /\ wpc[w] \in {"post", "unwind"}
    /\ inflight' = IF inflight > 0 THEN inflight - 1 ELSE 0
    /\ IF wpc[w] = "unwind" THEN Cancelled ELSE UNCHANGED <<tasks, cancelled>>
    /\ wpc' = [NotifyAll(wpc) EXCEPT ![w] = IF wpc[w] = "unwind" THEN "dead" ELSE "top"]
    /\ task' = [task EXCEPT ![w] = 0]
    /\ UNCHANGED <<verdict, setup, kind, coord, cur, want, results, closed, obj, published, outcome, blamed, attempt>>

(***************************************************************************)
(* The end.                                                                *)
(***************************************************************************)

\* Every handle is joined.
Joined == \A w \in Workers : wpc[w] \in Ended
Panicked == \E w \in Workers : wpc[w] = "dead"
Succeeded == {r.unit : r \in {x \in results : x.ok}}
Failed == {r.unit : r \in {x \in results : ~x.ok}}

\* The error that is reported.
Blame(S) == CHOOSE u \in S : \A v \in S : u <= v

\* What the successful units' objects are published for.
Commit == outcome = "none"

\* finish returns: a panic is resumed; otherwise the successes are published and the verdict formed.
Return ==
    /\ coord = "join" /\ Joined
    /\ coord' = "returned"
    /\ IF Panicked
       THEN outcome' = "panic" /\ blamed' = 0 /\ UNCHANGED published
       ELSE /\ published' = IF Commit THEN published \cup Succeeded ELSE published
            /\ IF outcome # "none"
               THEN UNCHANGED <<outcome, blamed>>
               ELSE IF Failed # {}
                    THEN outcome' = "codegen" /\ blamed' = Blame(Failed)
                    ELSE outcome' = "complete" /\ blamed' = 0
    /\ UNCHANGED <<verdict, setup, kind, cur, want, queue, threads, attempt>>

\* The command retries once without reuse after a stale entry.
Retry ==
    /\ coord = "returned" /\ outcome = "stale" /\ attempt = 1
    /\ attempt' = 2
    /\ kind' = [u \in Units |-> "none"]
    /\ coord' = "walk" /\ cur' = 1 /\ want' = 0
    /\ tasks' = <<>> /\ results' = {} /\ inflight' = 0
    /\ closed' = FALSE /\ cancelled' = FALSE
    /\ wpc' = [w \in Workers |-> "none"]
    /\ task' = [w \in Workers |-> 0]
    /\ obj' = [u \in Units |-> "absent"]
    /\ published' = {} /\ outcome' = "none" /\ blamed' = 0
    /\ UNCHANGED <<verdict, setup>>

\* The command has its verdict.
Over ==
    /\ coord = "returned" /\ ~(outcome = "stale" /\ attempt = 1)
    /\ UNCHANGED pipeVars

Coordinator ==
    \/ \E k \in Kinds : Ready(k)
    \/ Enqueue \/ Grow \/ FrontendFails \/ WalkEnds \/ Stale \/ Rehydrate \/ FinishPool \/ Return \/ Retry

Worker(w) == TakeTask(w) \/ Leave(w) \/ Sleep(w) \/ Emitted(w) \/ Panics(w) \/ DropClaim(w)

PipeNext == Coordinator \/ Over \/ \E w \in Workers : Worker(w) \/ Spurious(w)

PipeSpec == PipeInit /\ [][PipeNext]_pipeVars

\* Every thread that can take a step does.
PipeFairSpec == PipeSpec /\ WF_pipeVars(Coordinator) /\ \A w \in Workers : WF_pipeVars(Worker(w))

-----------------------------------------------------------------------------
(***************************************************************************)
(* Properties (docs/impl/21-build-perf-plan.md, item 3).                   *)
(***************************************************************************)

\* Types of the queue, the workers and the verdict.
PipeTypeOK ==
    /\ verdict \in [Units -> {"ok", "err", "panic"}]
    /\ setup \in {"ok", "stage", "pgo", "target"}
    /\ kind \in [Units -> KindSet \cup {"none"}]
    /\ coord \in {"walk", "enqueue", "grow", "deferred", "requeue", "regrow", "join", "returned"}
    /\ cur \in 1..(N + 1) /\ want \in Nat
    /\ tasks \in Seq(Units) /\ results \subseteq [unit : Units, ok : BOOLEAN]
    /\ inflight \in Nat /\ closed \in BOOLEAN /\ cancelled \in BOOLEAN
    /\ wpc \in [Workers -> {"none", "top", "wait", "emit", "post", "unwind", "done", "dead"}]
    /\ task \in [Workers -> 0..N]
    /\ obj \in [Units -> {"absent", "torn", "whole"}]
    /\ published \subseteq Units /\ blamed \in 0..N /\ attempt \in {1, 2}
    /\ outcome \in {"none", "frontend", "stage", "pgo", "key", "stale", "target", "codegen", "complete", "panic"}

\* Frontend and codegen together never run more than -j things at once (PL3).
Emitting == {w \in Workers : wpc[w] = "emit"}
JobBudget == Cardinality(Emitting) + (IF coord \in {"join", "returned"} THEN 0 ELSE 1) <= Jobs

\* A verdict is returned only when no compiler work is left: no worker may still write into the
\* stage that is about to be removed or linked from (PL9, PL22).
NoDetachedWork == coord = "returned" => inflight = 0 /\ \A w \in Workers : wpc[w] \in Ended

\* A unit's MIR has one owner: it is queued once, held by one worker, or has a result (PL4).
Places(u) ==
    Cardinality({i \in DOMAIN tasks : tasks[i] = u}) + Cardinality({w \in Workers : task[w] = u /\ wpc[w] \in {"emit", "unwind"}})
    + Cardinality({r \in results : r.unit = u})
OneOwner == \A u \in Units : Places(u) <= 1

\* A complete build lends a whole object for every unit, however its sibling workers were scheduled,
\* refused or cancelled (PL22).
CompleteIsWhole == outcome = "complete" => \A u \in Units : obj[u] = "whole"

\* No speculative object is published before frontend, setup and rehydration are known to be good;
\* after that every success is, also beside a failed sibling (PL10).
PublishedAtCommit ==
    /\ published # {} => outcome \in {"codegen", "complete"}
    /\ outcome \in {"codegen", "complete"} => published = {u \in Units : Missed(u) /\ obj[u] = "whole"}

\* The verdict is the first failure in the documented order, whatever ran first: a codegen error or
\* a cancelled pool hides no setup error and no stale entry, and no failure is lost (PL8).
Precedence ==
    coord = "returned" /\ outcome \notin {"panic", "frontend"} =>
        outcome = IF setup \in {"stage", "pgo"} THEN setup
                  ELSE IF KeyError THEN "key"
                  ELSE IF \E u \in Units : kind[u] = "stale" THEN "stale"
                  ELSE IF setup = "target" THEN "target"
                  ELSE IF \E u \in Units : Missed(u) /\ verdict[u] # "ok" THEN "codegen"
                  ELSE "complete"

\* The reported unit is the first whose codegen fails, whatever the order of completion, if no unit
\* was deferred behind the walk (PL19).
ChosenError ==
    outcome = "codegen" /\ (\A u \in Units : kind[u] # "reused") =>
        blamed = Blame({u \in Units : Missed(u) /\ verdict[u] = "err"})

\* No more than -j things run at once, a unit's MIR has one owner, a verdict is returned only when no
\* worker may still write into the stage, a complete build has every object whole, and objects are
\* published only once frontend and setup are known to be good.  The verdict is the first failure in
\* the documented order, whatever ran first, and where no unit is reused the unit it blames is the first
\* whose codegen fails (codegen_pipeline).
PipelineRight ==
    /\ PipeTypeOK /\ JobBudget /\ OneOwner /\ NoDetachedWork
    /\ CompleteIsWhole /\ PublishedAtCommit /\ Precedence /\ ChosenError

\* Every build ends: no worker sleeps through the last task, the close or a cancellation.
PipelineEnds == <>[](coord = "returned")
=============================================================================
