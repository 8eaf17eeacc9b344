------------------------------ MODULE MCRuntime -----------------------------
(***************************************************************************)
(* Instances of the runtime's schedulers for TLC: task groups,             *)
(* data-parallel calls and the process tree of a scope.  They share no     *)
(* state, so their interleavings say nothing: each behaviour runs one part *)
(* and leaves the others in their initial states.                          *)
(***************************************************************************)
EXTENDS TaskGroup, ParMap, TLC

CONSTANTS Parts,          \* the parts a run covers
          t1, t2,         \* interchangeable threads, or scopes
          p1, p2, p3,     \* process ids
          c1,             \* an ordinary owner of a child
          NoPid, Us, Pid1, None

VARIABLES
    part,
    children, scope, subreaper, st, parent, doomed, of, line, owner, pid, tracked, reaped, lost,
    slost, forks, thefts, stolen                                                       \* ProcessScope

tgVars == vars
procVars == <<children, scope, subreaper, st, parent, doomed, of, line, owner, pid, tracked,
              reaped, lost, slost, forks, thefts, stolen>>
rtVars == <<part, tgVars, parVars, procVars>>

\* One worker, the only size at which a batch of two fits a small group.
Batch == INSTANCE TaskGroup WITH Workers <- {t1}, MaxGens <- 1, MaxTasks <- 5

Tree == INSTANCE ProcessScope WITH
    Handles <- {c1}, Scopes <- {t1}, Pids <- {p1, p2, p3},
    MaxForks <- 2, MaxThefts <- 0

ASSUME RuntimeConstants ==
    Tree!ProcessScopeAssumption

(***************************************************************************)
(* Each part on its own.                                                   *)
(***************************************************************************)
RtInit ==
    /\ part \in Parts
    /\ IF part = "batch" THEN Batch!Init ELSE Init
    /\ ParInit
    /\ Tree!ScopeInit

\* Owned results, the subject of "tasks", would only multiply the batches.
TaskStep ==
    /\ \/ part = "tasks" /\ Next
       \/ part = "batch" /\ Batch!Next /\ result_cleanup' = <<>>
    /\ UNCHANGED <<part, parVars, procVars>>

CallStep ==
    /\ part = "par"
    /\ ParNext
    /\ UNCHANGED <<part, tgVars, procVars>>

ProcStep ==
    /\ part = "tree"
    /\ Tree!ScopeNext
    /\ UNCHANGED <<part, tgVars, parVars>>

RtNext == TaskStep \/ CallStep \/ ProcStep

RtSpec == RtInit /\ [][RtNext]_rtVars

\* The fairness of each part: threads run and tasks end; a killed process exits.
RtFairSpec ==
    /\ RtSpec
    /\ WF_tgVars(part = "tasks" /\ Alive /\ CallerInternal)
    /\ WF_tgVars(part = "tasks" /\ Alive /\ Run(Caller))
    /\ \A w \in Workers : /\ WF_tgVars(part = "tasks" /\ Alive /\ Take(w))
                          /\ WF_tgVars(part = "tasks" /\ Alive /\ Run(w))
    /\ WF_parVars(part = "par" /\ CallAlive /\ CallerStep)
    /\ \A t \in CallThreads : WF_parVars(part = "par" /\ CallAlive /\ DrainRanges(t))
    /\ \A p \in {p1, p2, p3} : WF_procVars(part = "tree" /\ Tree!Dies(p))
    /\ \A o \in {c1, t1} : WF_procVars(part = "tree" /\ Tree!Cleans(o))
    /\ WF_procVars(part = "tree" /\ Tree!Drops(t1))

Symmetric == Permutations({t1, t2}) \cup Permutations({p1, p2})

-----------------------------------------------------------------------------
(***************************************************************************)
(* Properties.  A part that does not run is in its initial state.          *)
(***************************************************************************)

\* A spawned task runs although its caller never waits, and every wait or end returns: no wake-up of
\* the last completion is lost.  In batches, too, a task is claimed once and a join is a barrier that
\* answers with the lowest panic or error.
TasksProgress ==
    /\ part = "tasks" => EagerProgress /\ JoinReturns
    /\ [](part = "batch" => Batch!ClaimedOnce /\ Batch!JoinIsBarrier)
    /\ [][part = "batch" => Batch!FJ!Next]_<<registered, outcome, answer, arena>>

\* The Drop of a scope, and a failed start of one, finishes, and its release leaves no descendant.
DropReturns ==
    /\ Tree!DropReturns
    /\ [](part = "tree" => Tree!PidPinned /\ Tree!Counted /\ Tree!ScopeExclusive)
    /\ [][part = "tree" => Tree!ReleaseMeansGone]_procVars

\* scope.reap "return[s] each newly reaped child's PID and typed wait_result once"
\* (docs/impl/50-r65-process-capability-handoff.md): a status its wait4(-1) consumed is never dropped
\* for a contradiction that no foreign code caused.
ReapReports == Tree!ReapReports
=============================================================================
