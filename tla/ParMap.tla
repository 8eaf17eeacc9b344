------------------------------- MODULE ParMap -------------------------------
(***************************************************************************)
(* The data-parallel calls of crates/align_runtime/src/lib.rs: a caller    *)
(* makes a sequence of par_map, filtering par_map and reducing par_map     *)
(* calls.  Each pass of a call (one ParMapWork) is drained by the caller   *)
(* and by helper jobs on the process pool: ranges are claimed from an      *)
(* atomic cursor and write to call-scoped buffers that die when the pass   *)
(* returns, although a queued helper may start long after that.            *)
(***************************************************************************)
EXTENDS ParMapPlan, Sequences, FiniteSets, SequencesExt

CONSTANTS Pool,          \* the pool's threads
          Calling,       \* the calling thread
          Counts,        \* element counts a call may have
          IN_STRIDE, OUT_STRIDE, WORK_WEIGHT,
          ResultMod,     \* 2^(8 * result_stride): a partial's width
          RegisterMod,   \* 2^64: the width partials are combined in
          MaxPasses      \* bound on the passes created

(* What the constants must be. *)
ASSUME ParMapAssumption ==
    /\ IsFiniteSet(Pool)
    /\ Calling \notin Pool
    /\ Counts \subseteq Nat \ {0}
    /\ IN_STRIDE \in Nat /\ OUT_STRIDE \in Nat /\ WORK_WEIGHT \in Int
    /\ ResultMod \in Nat \ {0} /\ RegisterMod \in Nat \ {0}
    /\ RegisterMod % ResultMod = 0
    /\ MaxPasses \in Nat

CallThreads == Pool \cup {Calling}
Passes == 1..MaxPasses
NoPass == 0
NoRange == -1
Uninit == -1             \* contents of a fresh output buffer
PoolSize == Cardinality(Pool)

VARIABLES
    call,         \* the call in progress or last made
    pass,         \* passes created; the last is the call's current one
    role,         \* per pass: "map", "count", "scatter" or "reduce"
    next_range, ranges, per,       \* per pass: cursor and plan
    remaining, range_panic,        \* per pass: the barrier
    live,         \* per pass: its buffers may still be touched
    offsets,      \* where the scatter pass writes each range's survivors
    slots,        \* one partial result per range: survivor counts or sums
    out,          \* the call's output buffer
    jobs,         \* helper jobs, each naming its pass
    owed,         \* notifications submit_many has still to make
    at, job, range, failed,        \* per thread
    ran, bad      \* history, per pass: ranges whose kernel ended, panicked

passVars == <<role, ranges, per, live>>
barrierVars == <<remaining, range_panic>>
bufferVars == <<slots, out, offsets>>
parHistory == <<ran, bad>>
parVars == <<call, pass, passVars, next_range, barrierVars, bufferVars, jobs, owed,
             at, job, range, failed, parHistory>>

Plan(count) ==
    par_map_execution_plan(count, IN_STRIDE, OUT_STRIDE, WORK_WEIGHT, PoolSize)

RangesIn(p) == 0..(ranges[p] - 1)

ParInit ==
    /\ call = [kind |-> "none", count |-> 0, keep |-> {}]
    /\ pass = 0
    /\ role = [p \in Passes |-> "map"]
    /\ next_range = [p \in Passes |-> 0]
    /\ ranges = [p \in Passes |-> 0]
    /\ per = [p \in Passes |-> 0]
    /\ remaining = [p \in Passes |-> 0]
    /\ range_panic = [p \in Passes |-> NoRange]
    /\ live = [p \in Passes |-> FALSE]
    /\ offsets = <<>>
    /\ slots = <<>>
    /\ out = <<>>
    /\ jobs = <<>>
    /\ owed = 0
    /\ at = [t \in CallThreads |-> IF t = Calling THEN "user" ELSE "take"]
    /\ job = [t \in CallThreads |-> NoPass]
    /\ range = [t \in CallThreads |-> NoRange]
    /\ failed = [t \in CallThreads |-> FALSE]
    /\ ran = [p \in Passes |-> {}]
    /\ bad = [p \in Passes |-> {}]

-----------------------------------------------------------------------------
(* Kernels (generated code): what one range writes.  Element e has value e *)
(* in a map and e + 1 in a reduction; a filter keeps call.keep.            *)

Survivors(p, r) == call.keep \cap Elements(r, per[p], call.count)

SumOf(S) == FoldSet(LAMBDA e, acc : acc + e + 1, 0, S)

(* Where the kernel of a range is told to write: the global base, its own  *)
(* slot, or its prefix offset.  Mutant: always the base.                   *)
TargetBase(p, r) == 0
Target(p, r) == IF role[p] = "scatter" THEN offsets[r + 1] ELSE 0

KernelOut(p, r) ==
    LET elements == Elements(r, per[p], call.count)
        written == CASE role[p] = "map" -> [e \in elements |-> e]
                     [] role[p] = "scatter" ->
                          LET s == SetToSortSeq(Survivors(p, r), <)
                          IN [k \in Target(p, r)..(Target(p, r) + Len(s) - 1) |->
                                s[k - Target(p, r) + 1]]
                     [] OTHER -> [k \in {} |-> 0]
    IN [k \in DOMAIN out \cup DOMAIN written |->
          IF k \in DOMAIN written THEN written[k] ELSE out[k]]

KernelSlots(p, r) ==
    CASE role[p] = "count" ->
           [slots EXCEPT ![r + 1] = Cardinality(Survivors(p, r))]
      [] role[p] = "reduce" ->
           [slots EXCEPT ![r + 1] =
              SumOf(Elements(r, per[p], call.count)) % ResultMod]
      [] OTHER -> slots

(* The prefix sums of the survivor counts, the total last. *)
PrefixSums(c) == FoldLeft(LAMBDA acc, n : Append(acc, Last(acc) + n), <<0>>, c)

(* Partials are added in the full register width and narrowed afterwards.  *)
Combine(c) == FoldLeft(LAMBDA acc, n : (acc + n) % RegisterMod, 0, c) % ResultMod

-----------------------------------------------------------------------------
(* The caller *)

(* run_par_map_ranges_with_output up to its submission: a call too small   *)
(* for the pool is one range the caller runs itself.                       *)
StartPass(r, count) ==
    LET p == pass + 1
        plan == Plan(count)
        n == IF plan = NoPlan THEN 1 ELSE plan[1]
    IN /\ p \in Passes
       /\ pass' = p
       /\ role' = [role EXCEPT ![p] = r]
       /\ ranges' = [ranges EXCEPT ![p] = n]
       /\ per' = [per EXCEPT ![p] = IF plan = NoPlan THEN count ELSE plan[2]]
       /\ remaining' = [remaining EXCEPT ![p] = n]
       /\ live' = [q \in Passes |-> q = p]
       /\ job' = [job EXCEPT ![Calling] = p]
       /\ jobs' = jobs \o [k \in 1..(n - 1) |-> p]
       /\ owed' = n - 1
       /\ at' = [at EXCEPT ![Calling] = IF plan = NoPlan THEN "alone" ELSE "notify"]
       /\ UNCHANGED <<next_range, range_panic, range, failed, parHistory>>

(* align_rt_par_map, align_rt_par_map_filter and align_rt_par_map_reduce.  *)
(* MaxPasses leaves room for both passes of a filter.                      *)
Begin(kind, count, keep) ==
    /\ at[Calling] = "user"
    /\ kind = "filter" => pass + 2 \in Passes
    /\ kind # "filter" => keep = {}
    /\ call' = [kind |-> kind, count |-> count, keep |-> keep]
    /\ out' = IF kind = "map" THEN [e \in 0..(count - 1) |-> Uninit] ELSE <<>>
    /\ slots' = [r \in 1..(IF Plan(count) = NoPlan THEN 1 ELSE Plan(count)[1]) |-> 0]
    /\ offsets' = <<>>
    /\ StartPass(IF kind = "filter" THEN "count" ELSE kind, count)

(* submit_many wakes one parked worker per job after releasing the lock.   *)
NotifyHelpers ==
    /\ at[Calling] = "notify"
    /\ LET parked == {w \in Pool : at[w] = "parked"}
           after == IF owed = 1 THEN "fetch" ELSE "notify"
       IN IF parked = {}
            THEN at' = [at EXCEPT ![Calling] = after]
            ELSE \E w \in parked : at' = [at EXCEPT ![Calling] = after, ![w] = "take"]
    /\ owed' = owed - 1
    /\ UNCHANGED <<call, pass, passVars, next_range, barrierVars, bufferVars, jobs,
                   job, range, failed, parHistory>>

(* The caller-only path calls the kernel directly; nothing catches a panic. *)
RunAlone(ok) ==
    /\ at[Calling] = "alone"
    /\ out' = IF ok THEN KernelOut(pass, 0) ELSE out
    /\ slots' = IF ok THEN KernelSlots(pass, 0) ELSE slots
    /\ ran' = [ran EXCEPT ![pass] = {0}]
    /\ bad' = [bad EXCEPT ![pass] = IF ok THEN {} ELSE {0}]
    /\ range_panic' = [range_panic EXCEPT ![pass] = IF ok THEN NoRange ELSE 0]
    /\ remaining' = [remaining EXCEPT ![pass] = 0]
    /\ at' = [at EXCEPT ![Calling] = IF ok THEN "passdone" ELSE "aborted"]
    /\ UNCHANGED <<call, pass, passVars, next_range, offsets, jobs, owed, job,
                   range, failed>>

(* The barrier's exit test.  Mutant: an empty cursor is taken for the end. *)
BarrierOpenWhenClaimed(p) == next_range[p] >= ranges[p]
BarrierOpen(p) == remaining[p] = 0

(* Whether a pass kept a panic. *)
Panicked(p) == range_panic[p] # NoRange

(* The wait for every range; the lowest range's panic is resumed. *)
Barrier ==
    /\ at[Calling] = "barrier"
    /\ at' = [at EXCEPT ![Calling] =
                IF ~BarrierOpen(pass) THEN "barrierwait"
                ELSE IF Panicked(pass) THEN "aborted"
                ELSE "passdone"]
    /\ UNCHANGED <<call, pass, passVars, next_range, barrierVars, bufferVars, jobs,
                   owed, job, range, failed, parHistory>>

(* What the three entry points do after a pass; a filter with survivors    *)
(* allocates its exact output and starts the scatter pass.                 *)
Return ==
    /\ at[Calling] = "passdone"
    /\ role[pass] = "count" => Last(PrefixSums(slots)) = 0
    /\ live' = [live EXCEPT ![pass] = FALSE]
    /\ out' = IF role[pass] = "reduce" THEN <<Combine(slots)>> ELSE out
    /\ job' = [job EXCEPT ![Calling] = NoPass]
    /\ at' = [at EXCEPT ![Calling] = "user"]
    /\ UNCHANGED <<call, pass, role, ranges, per, next_range, barrierVars, slots,
                   offsets, jobs, owed, range, failed, parHistory>>

StartScatter ==
    /\ at[Calling] = "passdone"
    /\ role[pass] = "count"
    /\ LET prefix == PrefixSums(slots)
       IN /\ Last(prefix) # 0
          /\ out' = [k \in 0..(Last(prefix) - 1) |-> Uninit]
          /\ offsets' = Front(prefix)
    /\ StartPass("scatter", call.count)
    /\ UNCHANGED <<call, slots>>

-----------------------------------------------------------------------------
(* The pool's worker loop, as in TaskGroup *)

TakeJob(w) ==
    /\ at[w] = "take"
    /\ IF jobs = <<>>
         THEN /\ at' = [at EXCEPT ![w] = "parked"]
              /\ UNCHANGED <<jobs, job>>
         ELSE /\ jobs' = Tail(jobs)
              /\ job' = [job EXCEPT ![w] = Head(jobs)]
              /\ at' = [at EXCEPT ![w] = "fetch"]
    /\ UNCHANGED <<call, pass, passVars, next_range, barrierVars, bufferVars, owed,
                   range, failed, parHistory>>

SpuriousUnpark(t) ==
    /\ at[t] \in {"parked", "barrierwait"}
    /\ at' = [at EXCEPT ![t] = IF t = Calling THEN "barrier" ELSE "take"]
    /\ UNCHANGED <<call, pass, passVars, next_range, barrierVars, bufferVars, jobs,
                   owed, job, range, failed, parHistory>>

-----------------------------------------------------------------------------
(* drain_par_map, shared by helpers and by the caller *)

(* Whether a fetched index names no range. *)
Exhausted(p, r) == r >= ranges[p]

(* The cursor after thread t fetched r. *)
CursorAfter(t, r) == r + 1

(* fetch_add on the cursor; an exhausted cursor is left before any call-   *)
(* scoped address is used.                                                 *)
Fetch(t) ==
    /\ at[t] = "fetch"
    /\ LET p == job[t]
           r == next_range[p]
       IN /\ next_range' = [next_range EXCEPT ![p] = CursorAfter(t, r)]
          /\ IF Exhausted(p, r)
               THEN /\ at' = [at EXCEPT ![t] = IF t = Calling THEN "barrier" ELSE "take"]
                    /\ job' = IF t = Calling THEN job ELSE [job EXCEPT ![t] = NoPass]
                    /\ UNCHANGED range
               ELSE /\ at' = [at EXCEPT ![t] = "kernel"]
                    /\ range' = [range EXCEPT ![t] = r]
                    /\ UNCHANGED job
    /\ UNCHANGED <<call, pass, passVars, barrierVars, bufferVars, jobs, owed,
                   failed, parHistory>>

(* The kernel of the claimed range; a panic is caught. *)
Kernel(t, ok) ==
    /\ at[t] = "kernel"
    /\ LET p == job[t]
           r == range[t]
       IN /\ out' = IF ok THEN KernelOut(p, r) ELSE out
          /\ slots' = IF ok THEN KernelSlots(p, r) ELSE slots
          /\ ran' = [ran EXCEPT ![p] = @ \cup {r}]
          /\ bad' = IF ok THEN bad ELSE [bad EXCEPT ![p] = @ \cup {r}]
    /\ failed' = [failed EXCEPT ![t] = ~ok]
    /\ at' = [at EXCEPT ![t] = "finish"]
    /\ UNCHANGED <<call, pass, passVars, next_range, barrierVars, offsets, jobs,
                   owed, job, range>>

(* The barrier keeps the lowest panicking range. *)
KeepPanic(old, r) == IF old = NoRange \/ r < old THEN r ELSE old

Finish(t) ==
    /\ at[t] = "finish"
    /\ LET p == job[t]
       IN /\ remaining' = [remaining EXCEPT ![p] = @ - 1]
          /\ range_panic' = IF failed[t] THEN [range_panic EXCEPT ![p] = KeepPanic(@, range[t])]
                                   ELSE range_panic
    /\ at' = [at EXCEPT ![t] = "wake"]
    /\ UNCHANGED <<call, pass, passVars, next_range, bufferVars, jobs, owed, job,
                   range, failed, parHistory>>

(* notify_all after the barrier is released.  Mutant: not made.            *)
WakeNobody(t) ==
    /\ at[t] = "wake"
    /\ at' = [at EXCEPT ![t] = "fetch"]
    /\ range' = [range EXCEPT ![t] = NoRange]
    /\ failed' = [failed EXCEPT ![t] = FALSE]
    /\ UNCHANGED <<call, pass, passVars, next_range, barrierVars, bufferVars, jobs,
                   owed, job, parHistory>>

Wake(t) ==
    /\ at[t] = "wake"
    /\ at' = [u \in CallThreads |->
                IF u = t THEN "fetch"
                ELSE IF u = Calling /\ at[u] = "barrierwait" /\ job[u] = job[t]
                     THEN "barrier" ELSE at[u]]
    /\ range' = [range EXCEPT ![t] = NoRange]
    /\ failed' = [failed EXCEPT ![t] = FALSE]
    /\ UNCHANGED <<call, pass, passVars, next_range, barrierVars, bufferVars, jobs,
                   owed, job, parHistory>>

-----------------------------------------------------------------------------
DrainRanges(t) == Fetch(t) \/ Finish(t) \/ Wake(t) \/ \E ok \in BOOLEAN : Kernel(t, ok)

CallerStep == \/ NotifyHelpers \/ Barrier \/ Return \/ StartScatter
              \/ \E ok \in BOOLEAN : RunAlone(ok)

CallMade == \E kind \in {"map", "filter", "reduce"}, count \in Counts :
              \E keep \in SUBSET (0..(count - 1)) : Begin(kind, count, keep)

CallAlive == at[Calling] # "aborted"

ParStep ==
    \/ CallMade
    \/ CallerStep
    \/ \E w \in Pool : TakeJob(w)
    \/ \E t \in CallThreads : DrainRanges(t) \/ SpuriousUnpark(t)

ParNext == CallAlive /\ ParStep

ParSpec == ParInit /\ [][ParNext]_parVars

(* A running thread runs; no worker is ever promised to a call: Take is    *)
(* not fair, because every worker may be busy in another operation.        *)
ParFairness ==
    /\ WF_parVars(CallAlive /\ CallerStep)
    /\ \A t \in CallThreads : WF_parVars(CallAlive /\ DrainRanges(t))

ParFairSpec == ParSpec /\ ParFairness
-----------------------------------------------------------------------------
(* Properties *)

(* Every variable keeps its shape; remaining is a count that never         *)
(* underflows and a fetched range is one of the pass's ranges.             *)
ParTypeOK ==
    /\ pass \in 0..MaxPasses
    /\ role \in [Passes -> {"map", "count", "scatter", "reduce"}]
    /\ next_range \in [Passes -> Nat]
    /\ ranges \in [Passes -> Nat]
    /\ per \in [Passes -> Nat]
    /\ remaining \in [Passes -> Nat]
    /\ range_panic \in [Passes -> Nat \cup {NoRange}]
    /\ live \in [Passes -> BOOLEAN]
    /\ jobs \in Seq(Passes)
    /\ owed \in Nat
    /\ job \in [CallThreads -> Passes \cup {NoPass}]
    /\ range \in [CallThreads -> Nat \cup {NoRange}]
    /\ failed \in [CallThreads -> BOOLEAN]
    /\ ran \in [Passes -> SUBSET Nat]
    /\ bad \in [Passes -> SUBSET Nat]
    /\ \A t \in CallThreads : at[t] \in {"kernel", "finish"} => range[t] \in RangesIn(job[t])

(* A kernel is inside call-scoped buffers only while their pass has not    *)
(* returned, however late its helper job was dequeued.                     *)
NoTouchAfterReturn == \A t \in CallThreads : at[t] = "kernel" => live[job[t]]

(* No range is run twice, and none is claimed by two threads at a time.    *)
RangeOnce ==
    /\ \A t \in CallThreads : at[t] = "kernel" => range[t] \notin ran[job[t]]
    /\ \A t, u \in CallThreads :
          /\ t # u /\ job[t] = job[u]
          /\ at[t] \in {"kernel", "finish"} /\ at[u] \in {"kernel", "finish"}
          => range[t] # range[u]

(* A pass that returned ran all of its ranges, none of them panicking.     *)
PassIsBarrier ==
    \A p \in 1..pass : ~live[p] => ran[p] = RangesIn(p) /\ bad[p] = {}

(* What the caller of the runtime gets: every element mapped in place, the *)
(* kept elements in source order, the sum in the result's width.           *)
OutputCorrect ==
    at[Calling] = "user" =>
        out = CASE call.kind = "map" -> [e \in 0..(call.count - 1) |-> e]
                [] call.kind = "filter" /\ call.keep # {} ->
                     LET s == SetToSortSeq(call.keep, <)
                     IN [k \in 0..(Len(s) - 1) |-> s[k + 1]]
                [] call.kind = "reduce" ->
                     <<SumOf(0..(call.count - 1)) % ResultMod>>
                [] OTHER -> <<>>

(* The pooled plan of every pass partitions the call's elements. *)
PlanCovers ==
    \A p \in {pass} \cap Passes :
        ranges[p] > 1 => /\ Partition(call.count, <<ranges[p], per[p]>>)
                         /\ Grain(<<ranges[p], per[p]>>, PoolSize)

(* A resumed panic is the one of the lowest range that panicked. *)
LowestPanic ==
    ~CallAlive =>
        /\ range_panic[pass] \in bad[pass]
        /\ \A r \in bad[pass] : range_panic[pass] <= r

(* A map has every element in its place: ranges that other threads ran in  *)
(* the same buffer, and helpers that came late, neither left a hole nor    *)
(* wrote twice.                                                            *)
MapComplete ==
    at[Calling] = "user" /\ call.kind = "map" => out = [e \in 0..(call.count - 1) |-> e]

(* A data-parallel call: its plan partitions the elements; no range runs   *)
(* twice or after its pass has returned, whose buffers are gone; a pass    *)
(* that returned ran every range; a map is complete; a panic is the lowest *)
(* range's.                                                                *)
CallsExact ==
    /\ ParTypeOK /\ NoTouchAfterReturn /\ RangeOnce /\ PassIsBarrier
    /\ PlanCovers /\ LowestPanic /\ MapComplete

(* Every call returns although no worker ever becomes free for it: the     *)
(* caller drains what nobody claimed, and the last range's wake-up is not  *)
(* lost.                                                                   *)
CallReturns ==
    (at[Calling] # "user") ~> (at[Calling] \in {"user", "aborted"})
=============================================================================
