----------------------------- MODULE TaskGroup ------------------------------
(***************************************************************************)
(* The structured-task scheduler of crates/align_runtime/src/lib.rs: one   *)
(* `TaskGroup` driven by its caller (register, wait, end), the generation  *)
(* each wait joins (`TgGeneration`), and the process-lifetime worker pool  *)
(* (`ParPool`) its helper jobs run on.                                     *)
(*                                                                         *)
(* Every critical section of the generation mutex and of the queue mutex   *)
(* is one step; tasks run between them.  Condition variables are explicit: *)
(* a thread parks in the step that releases the mutex, a notification      *)
(* unparks one thread and is lost when none is parked, and a parked thread *)
(* may also wake spuriously.                                               *)
(***************************************************************************)
EXTENDS Integers, Sequences, FiniteSets

CONSTANTS Workers,    \* the pool's threads; their number is par_worker_count()
          Caller,     \* the thread that owns the group
          MaxGens,    \* bound on the generations of the group
          MaxTasks    \* bound on the tasks registered in one generation

ASSUME TaskGroupAssumption ==
    /\ IsFiniteSet(Workers)
    /\ Workers # {}
    /\ Caller \notin Workers
    /\ MaxGens \in Nat \ {0}
    /\ MaxTasks \in Nat \ {0}

Threads == Workers \cup {Caller}
Gens == 1..MaxGens
Indices == 0..(MaxTasks - 1)
Outcomes == {"ok", "err", "panic"}
Unrun == "unrun"
Null == MaxTasks      \* the absent index of an Option<(usize, _)>
NoAnswer == <<"none", Null>>
NoGen == 0            \* the absent generation of an Option<Arc<TgGeneration>>
TG_OVERSUBSCRIPTION == 4

VARIABLES
    (* TaskGroup, touched by the caller only *)
    generation,       \* the open generation, or NoGen
    gens,             \* how many generations this group has opened
    result_cleanup,   \* owned results to drop at group end, in spawn order
    arena,            \* "live" until align_rt_tg_end drops the group
    dropped,          \* cleanup calls made by align_rt_tg_end
    (* TgGenerationState, guarded by the generation mutex *)
    pending, registered, completed, helpers, error, panic,
    (* ParPool *)
    queue,            \* helper jobs, each naming the generation it holds
    (* control and locals of each thread *)
    pc,
    run,              \* the generation a thread is running or joining
    batch,            \* claimed tasks not yet executed, in claim order
    claimed,          \* the tasks of the claimed batch
    lerror, lpanic,   \* first failure of the batch
    ending,           \* the caller is inside align_rt_tg_end
    (* history *)
    outcome,          \* what each task's trampoline returned
    answer            \* what each generation's join returned

genVars == <<pending, registered, completed, helpers, error, panic>>
groupVars == <<generation, gens, result_cleanup, arena, dropped>>
localVars == <<batch, claimed, lerror, lpanic>>
history == <<outcome, answer>>
vars == <<genVars, groupVars, localVars, history, queue, pc, run, ending>>

WorkerCount == Cardinality(Workers)

DivCeil(a, b) == (a + b - 1) \div b

(* Small groups are claimed one task at a time, large ones in batches. *)
tg_claim_batch_size(taskCount, workers) ==
    IF taskCount <= workers THEN 1
    ELSE DivCeil(taskCount, workers * TG_OVERSUBSCRIPTION)

(* The join loop's exit test.  Mutants: the queue being empty is enough;   *)
(* one task may still be out.                                              *)
JoinDoneWhenDrained(g) == pending[g] = <<>>
JoinDoneOneShort(g) == completed[g] + 1 >= registered[g]
JoinDone(g) == completed[g] = registered[g]

(* register's helper reservation test.  Mutant: only the task that opens   *)
(* the generation reserves one.                                            *)
HelperFreeOnce(g) == registered[g] = 0
HelperFree(g) == helpers[g] < WorkerCount

(* helpers after a helper leaves. *)
Retired(h) == h - 1

(* pending after a claim of n.  Mutant: the last claimed task stays queued. *)
DrainOneShort(s, n) == SubSeq(s, n, Len(s))
Drain(s, n) == SubSeq(s, n + 1, Len(s))

(* A batch keeps its first failure; the generation keeps the lowest index  *)
(* of the batches' failures.  Mutant: the last one wins.                   *)
KeepFirst(old, new) == IF old = Null THEN new ELSE old
MergeLastWins(old, new) == IF new # Null THEN new ELSE old
Merge(old, new) == IF new # Null /\ (old = Null \/ new < old) THEN new ELSE old

(* Whether a publication that brings completed to n wakes the join.        *)
(* Mutant: the count is compared before this batch is added.               *)
LastCompletionStale(g, n) == completed[g] = registered[g]
LastCompletion(g, n) == n = registered[g]

Init == /\ generation = NoGen
        /\ gens = 0
        /\ result_cleanup = <<>>
        /\ arena = "live"
        /\ dropped = <<>>
        /\ pending = [g \in Gens |-> <<>>]
        /\ registered = [g \in Gens |-> 0]
        /\ completed = [g \in Gens |-> 0]
        /\ helpers = [g \in Gens |-> 0]
        /\ error = [g \in Gens |-> Null]
        /\ panic = [g \in Gens |-> Null]
        /\ queue = <<>>
        /\ pc = [t \in Threads |-> IF t = Caller THEN "user" ELSE "take"]
        /\ run = [t \in Threads |-> NoGen]
        /\ batch = [t \in Threads |-> <<>>]
        /\ claimed = [t \in Threads |-> {}]
        /\ lerror = [t \in Threads |-> Null]
        /\ lpanic = [t \in Threads |-> Null]
        /\ ending = FALSE
        /\ outcome = [g \in Gens |-> [i \in Indices |-> Unrun]]
        /\ answer = [g \in Gens |-> NoAnswer]

-----------------------------------------------------------------------------
(* The caller *)

(* Enqueue the task and reserve a helper under one lock; a task with an    *)
(* owned result also leaves a cleanup record with the group.               *)
Register(owned) ==
    /\ pc[Caller] = "user"
    /\ LET g == IF generation = NoGen THEN gens + 1 ELSE generation
           i == registered[g]
       IN /\ g \in Gens
          /\ i < MaxTasks
          /\ generation' = g
          /\ gens' = IF generation = NoGen THEN g ELSE gens
          /\ result_cleanup' = IF owned THEN Append(result_cleanup, <<g, i>>)
                                        ELSE result_cleanup
          /\ registered' = [registered EXCEPT ![g] = @ + 1]
          /\ pending' = [pending EXCEPT ![g] = Append(@, i)]
          /\ IF HelperFree(g)
               THEN /\ helpers' = [helpers EXCEPT ![g] = @ + 1]
                    /\ pc' = [pc EXCEPT ![Caller] = "submit"]
               ELSE UNCHANGED <<helpers, pc>>
    /\ UNCHANGED <<arena, dropped, completed, error, panic, queue, run,
                   localVars, ending, history>>

(* submit_many publishes the reserved helper job under the queue lock ... *)
Submit ==
    /\ pc[Caller] = "submit"
    /\ queue' = Append(queue, generation)
    /\ pc' = [pc EXCEPT ![Caller] = "notify"]
    /\ UNCHANGED <<genVars, groupVars, localVars, history, run, ending>>

(* ... and notifies one parked worker after releasing it. *)

Notify ==
    /\ pc[Caller] = "notify"
    /\ LET parked == {w \in Workers : pc[w] = "parked"}
       IN IF parked = {}
            THEN pc' = [pc EXCEPT ![Caller] = "user"]
            ELSE \E w \in parked :
                   pc' = [pc EXCEPT ![Caller] = "user", ![w] = "take"]
    /\ UNCHANGED <<genVars, groupVars, localVars, history, queue, run, ending>>

(* wait takes the open generation and joins it, first by helping.  With no *)
(* open generation it returns null at once, which changes nothing.         *)
Wait ==
    /\ pc[Caller] = "user"
    /\ generation # NoGen
    /\ run' = [run EXCEPT ![Caller] = generation]
    /\ generation' = NoGen
    /\ pc' = [pc EXCEPT ![Caller] = "claim"]
    /\ UNCHANGED <<genVars, gens, result_cleanup, arena, dropped, localVars,
                   history, queue, ending>>

(* end waits first, then reclaims; an empty group is reclaimed at once.    *)
(* Mutant: end reclaims without joining the open generation.               *)
EndUnjoined ==
    /\ pc[Caller] = "user"
    /\ ending' = TRUE
    /\ pc' = [pc EXCEPT ![Caller] = "reclaim"]
    /\ UNCHANGED <<genVars, groupVars, localVars, history, queue, run>>

End ==
    /\ pc[Caller] = "user"
    /\ ending' = TRUE
    /\ IF generation = NoGen
         THEN /\ pc' = [pc EXCEPT ![Caller] = "reclaim"]
              /\ UNCHANGED <<run, generation>>
         ELSE /\ pc' = [pc EXCEPT ![Caller] = "claim"]
              /\ run' = [run EXCEPT ![Caller] = generation]
              /\ generation' = NoGen
    /\ UNCHANGED <<genVars, gens, result_cleanup, arena, dropped, localVars,
                   history, queue>>

(* The condition-variable loop of join.  A recorded panic is resumed,      *)
(* which aborts at the C boundary of align_rt_tg_wait.                     *)
Join ==
    /\ pc[Caller] = "join"
    /\ LET g == run[Caller]
       IN IF ~JoinDone(g)
            THEN /\ pc' = [pc EXCEPT ![Caller] = "joinwait"]
                 /\ UNCHANGED <<panic, answer, run>>
            ELSE /\ panic' = [panic EXCEPT ![g] = Null]
                 /\ answer' = [answer EXCEPT ![g] =
                                 IF panic[g] # Null THEN <<"panic", panic[g]>>
                                 ELSE <<"slot", error[g]>>]
                 /\ run' = [run EXCEPT ![Caller] = NoGen]
                 /\ pc' = [pc EXCEPT ![Caller] =
                             IF panic[g] # Null THEN "aborted"
                             ELSE IF ending THEN "reclaim" ELSE "user"]
    /\ UNCHANGED <<pending, registered, completed, helpers, error, groupVars,
                   localVars, outcome, queue, ending>>

(* Run every cleanup record, then drop the arena with the group. *)
Reclaim ==
    /\ pc[Caller] = "reclaim"
    /\ dropped' = result_cleanup
    /\ result_cleanup' = <<>>
    /\ arena' = "freed"
    /\ pc' = [pc EXCEPT ![Caller] = "ended"]
    /\ UNCHANGED <<genVars, generation, gens, localVars, history, queue, run,
                   ending>>

-----------------------------------------------------------------------------
(* The pool's worker loop *)

Take(w) ==
    /\ pc[w] = "take"
    /\ IF queue = <<>>
         THEN /\ pc' = [pc EXCEPT ![w] = "parked"]
              /\ UNCHANGED <<queue, run>>
         ELSE /\ queue' = Tail(queue)
              /\ run' = [run EXCEPT ![w] = Head(queue)]
              /\ pc' = [pc EXCEPT ![w] = "claim"]
    /\ UNCHANGED <<genVars, groupVars, localVars, history, ending>>

(* A condition variable may wake a parked thread for no reason. *)
SpuriousWake(t) ==
    /\ pc[t] \in {"parked", "joinwait"}
    /\ pc' = [pc EXCEPT ![t] = IF t = Caller THEN "join" ELSE "take"]
    /\ UNCHANGED <<genVars, groupVars, localVars, history, queue, run, ending>>

-----------------------------------------------------------------------------
(* TgGeneration::run, shared by helpers and by the joining caller *)

(* The `helper` argument of run.  Mutant: the two callers' flags swapped.  *)
IsHelperSwapped(t) == t = Caller
IsHelper(t) == t # Caller

(* Claim a batch, or leave: a helper retires under the same lock. *)
Claim(t) ==
    /\ pc[t] = "claim"
    /\ LET g == run[t]
           n == tg_claim_batch_size(Len(pending[g]), WorkerCount)
       IN IF pending[g] = <<>>
            THEN /\ IF ~IsHelper(t)
                      THEN /\ pc' = [pc EXCEPT ![t] = "join"]
                           /\ UNCHANGED <<helpers, run>>
                      ELSE /\ pc' = [pc EXCEPT ![t] = "take"]
                           /\ helpers' = [helpers EXCEPT ![g] = Retired(@)]
                           /\ run' = [run EXCEPT ![t] = NoGen]
                 /\ UNCHANGED <<pending, batch, claimed>>
            ELSE /\ batch' = [batch EXCEPT ![t] = SubSeq(pending[g], 1, n)]
                 /\ pending' = [pending EXCEPT ![g] = Drain(@, n)]
                 /\ claimed' = [claimed EXCEPT ![t] =
                                  {pending[g][k] : k \in 1..n}]
                 /\ pc' = [pc EXCEPT ![t] = "exec"]
                 /\ UNCHANGED <<helpers, run>>
    /\ UNCHANGED <<registered, completed, error, panic, groupVars, history,
                   lerror, lpanic, queue, ending>>

(* One trampoline call of the batch returns; the first failure is kept. *)
Execute(t, o) ==
    /\ pc[t] = "exec"
    /\ batch[t] # <<>>
    /\ LET i == Head(batch[t])
       IN /\ outcome' = [outcome EXCEPT ![run[t]][i] = o]
          /\ lerror' = [lerror EXCEPT ![t] =
                          IF o = "err" THEN KeepFirst(@, i) ELSE @]
          /\ lpanic' = [lpanic EXCEPT ![t] =
                          IF o = "panic" THEN KeepFirst(@, i) ELSE @]
    /\ batch' = [batch EXCEPT ![t] = Tail(@)]
    /\ UNCHANGED <<genVars, groupVars, claimed, answer, queue, pc, run, ending>>

(* Publish the batch under the generation lock; the last one notifies.  The *)
(* batch's locals go out of scope.                                         *)
Publish(t) ==
    /\ pc[t] = "exec"
    /\ batch[t] = <<>>
    /\ LET g == run[t]
       IN /\ error' = [error EXCEPT ![g] = Merge(@, lerror[t])]
          /\ panic' = [panic EXCEPT ![g] = Merge(@, lpanic[t])]
          /\ completed' = [completed EXCEPT ![g] = @ + Cardinality(claimed[t])]
          /\ pc' = [u \in Threads |->
                      IF u = t THEN "claim"
                      ELSE IF /\ u = Caller
                              /\ pc[u] = "joinwait"
                              /\ run[u] = g
                              /\ LastCompletion(g, completed'[g])
                           THEN "join" ELSE pc[u]]
    /\ claimed' = [claimed EXCEPT ![t] = {}]
    /\ lerror' = [lerror EXCEPT ![t] = Null]
    /\ lpanic' = [lpanic EXCEPT ![t] = Null]
    /\ UNCHANGED <<pending, registered, helpers, groupVars, batch, history,
                   queue, run, ending>>

-----------------------------------------------------------------------------
Run(t) == Claim(t) \/ Publish(t) \/ \E o \in Outcomes : Execute(t, o)

CallerInternal == Submit \/ Notify \/ Join \/ Reclaim

UserCall == Wait \/ End \/ \E owned \in BOOLEAN : Register(owned)

(* Resuming a panic through align_rt_tg_wait ends the process. *)
Alive == pc[Caller] # "aborted"

Step == \/ UserCall
        \/ CallerInternal
        \/ \E w \in Workers : Take(w)
        \/ \E t \in Threads : Run(t) \/ SpuriousWake(t)

Next == Alive /\ Step

Spec == Init /\ [][Next]_vars

(* Threads are scheduled and tasks terminate; the caller need not call.    *)
Fairness == /\ WF_vars(Alive /\ CallerInternal)
            /\ WF_vars(Alive /\ Run(Caller))
            /\ \A w \in Workers : /\ WF_vars(Alive /\ Take(w))
                                 /\ WF_vars(Alive /\ Run(w))

FairSpec == Spec /\ Fairness
-----------------------------------------------------------------------------
(* Properties *)

CallerPCs == {"user", "submit", "notify", "claim", "exec", "join", "joinwait",
              "reclaim", "ended", "aborted"}
WorkerPCs == {"take", "parked", "claim", "exec"}

GroupTypeOK ==
    /\ generation \in Gens \cup {NoGen}
    /\ gens \in 0..MaxGens
    /\ result_cleanup \in Seq(Gens \X Indices)
    /\ dropped \in Seq(Gens \X Indices)
    /\ arena \in {"live", "freed"}
    /\ ending \in BOOLEAN

GenerationTypeOK ==
    /\ pending \in [Gens -> Seq(Indices)]
    /\ registered \in [Gens -> 0..MaxTasks]
    /\ completed \in [Gens -> Nat]
    /\ helpers \in [Gens -> Int]
    /\ error \in [Gens -> Indices \cup {Null}]
    /\ panic \in [Gens -> Indices \cup {Null}]

ControlTypeOK ==
    /\ pc \in [Threads -> CallerPCs \cup WorkerPCs]
    /\ pc[Caller] \in CallerPCs
    /\ \A w \in Workers : pc[w] \in WorkerPCs
    /\ run \in [Threads -> Gens \cup {NoGen}]
    /\ queue \in Seq(Gens)

LocalTypeOK ==
    /\ batch \in [Threads -> Seq(Indices)]
    /\ claimed \in [Threads -> SUBSET Indices]
    /\ lerror \in [Threads -> Indices \cup {Null}]
    /\ lpanic \in [Threads -> Indices \cup {Null}]

HistoryTypeOK ==
    /\ outcome \in [Gens -> [Indices -> Outcomes \cup {Unrun}]]
    /\ answer \in [Gens -> {"none", "panic", "slot"} \X (Indices \cup {Null})]

(* Every variable keeps its shape: indices and generations stay within the *)
(* bounds, and only the caller joins, only workers take jobs.              *)
TypeOK == GroupTypeOK /\ GenerationTypeOK /\ ControlTypeOK /\ LocalTypeOK
          /\ HistoryTypeOK

(* A thread inside a trampoline call: it may touch the task's environment, *)
(* result slot, error slot and captured storage.                           *)
Running(t) == pc[t] = "exec" /\ batch[t] # <<>>

(* No task touches group storage or captures once its generation has been  *)
(* joined or the group's arena released, however late its helper started.  *)
NoTouchAfterJoin ==
    \A t \in Threads : Running(t) =>
        arena = "live" /\ answer[run[t]] = NoAnswer

(* A join has returned only after every task registered in its generation  *)
(* has run, whichever thread claimed it.                                   *)
JoinIsBarrier ==
    \A g \in Gens : answer[g] # NoAnswer =>
        \A i \in Indices : i < registered[g] => outcome[g][i] # Unrun

(* A task still queued or still in a batch has not run, and no task is in  *)
(* two batches: every descriptor is executed at most once.                 *)
ClaimedOnce ==
    /\ \A g \in Gens : \A k \in 1..Len(pending[g]) :
          outcome[g][pending[g][k]] = Unrun
    /\ \A t \in Threads : \A k \in 1..Len(batch[t]) :
          outcome[run[t]][batch[t][k]] = Unrun
    /\ \A t, u \in Threads :
          t # u /\ run[t] = run[u] => claimed[t] \cap claimed[u] = {}

(* Owned results are dropped only after the task that writes them ran, and *)
(* in spawn order, although the records survive earlier waits.             *)
DropsFollowRuns ==
    \A k \in 1..Len(dropped) :
        /\ outcome[dropped[k][1]][dropped[k][2]] # Unrun
        /\ \A j \in 1..(k - 1) :
              \/ dropped[j][1] < dropped[k][1]
              \/ dropped[j][1] = dropped[k][1] /\ dropped[j][2] < dropped[k][2]

(* The helper count is exactly the helper jobs that exist: being           *)
(* submitted, queued, or running on a worker and not yet retired.          *)
HelperAccounting ==
    \A g \in Gens :
        helpers[g] =
            Cardinality({k \in 1..Len(queue) : queue[k] = g})
          + Cardinality({w \in Workers : pc[w] \in {"claim", "exec"} /\ run[w] = g})
          + (IF pc[Caller] = "submit" /\ generation = g THEN 1 ELSE 0)

(* Queued work is never stranded: a helper that retires does so in the     *)
(* critical section that saw the queue empty.                              *)
WorkHasHelper == \A g \in Gens : pending[g] # <<>> => helpers[g] > 0

(* Both: register's reservation against a helper's retirement. *)
HelpersCover == HelperAccounting /\ WorkHasHelper

(* A spawned task runs although its caller never waits. *)
EagerProgress ==
    \A g \in Gens : \A i \in Indices :
        (i < registered[g]) ~> (outcome[g][i] # Unrun \/ ~Alive)

(* Every wait or end returns: no notification of the last completion is    *)
(* lost, and the join never depends on a queued helper starting.           *)
JoinReturns ==
    (pc[Caller] \in {"claim", "exec", "join", "joinwait", "reclaim"})
        ~> (pc[Caller] \in {"user", "ended", "aborted"})

FJ == INSTANCE ForkJoin WITH spawned <- registered

(* The scheduler implements the fork/join contract: among its joins, each  *)
(* answers with the lowest-index panic, else the lowest-index error.       *)
ImplementsForkJoin == FJ!Spec
=============================================================================
