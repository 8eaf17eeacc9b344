---------------------------- MODULE ParMapProofs ----------------------------
(***************************************************************************)
(* Proofs about the data-parallel calls: the range plan, for every element *)
(* count, element width, body hint and pool size; and the passes, for any  *)
(* pool, any counts and any number of passes.                              *)
(***************************************************************************)
EXTENDS ParMap, FiniteSetTheorems, SequenceTheorems, TLAPS

-----------------------------------------------------------------------------
(* The range plan is a partition of the elements *)

(* Multiplication by a natural number is monotone. *)
LEMMA TimesMonotone ==
    ASSUME NEW k \in Nat, NEW x \in Int, NEW y \in Int, x <= y
    PROVE  k * x <= k * y
  OBVIOUS

(* Division rounded up is the least multiple count that covers a. *)
LEMMA CeilFacts ==
    ASSUME NEW a \in Nat \ {0}, NEW b \in Nat \ {0}
    PROVE  /\ div_ceil(a, b) \in Nat \ {0}
           /\ b * div_ceil(a, b) >= a
           /\ b * (div_ceil(a, b) - 1) < a
           /\ \A k \in Nat : b * k >= a => div_ceil(a, b) <= k
<1> DEFINE q == (a + b - 1) \div b
           r == (a + b - 1) % b
<1>1. q \in Int /\ r \in 0..(b - 1) /\ a + b - 1 = b * q + r
  OBVIOUS
<1> HIDE DEF q, r
<1>2. b * (q - 1) = b * q - b
  BY <1>1
<1>3. b * q >= a /\ b * (q - 1) < a
  BY ONLY <1>1, <1>2, a \in Nat \ {0}, b \in Nat \ {0}
<1>4. q >= 1
  <2>1. SUFFICES ASSUME q <= 0 PROVE FALSE
    BY <1>1
  <2>2. b * q <= 0
    BY <1>1, <2>1
  <2>3. b * q \in Int
    BY <1>1
  <2> QED BY ONLY <1>3, <2>2, <2>3, a \in Nat \ {0}
<1>5. ASSUME NEW k \in Nat, b * k >= a PROVE q <= k
  <2>1. SUFFICES ASSUME q - 1 >= k PROVE FALSE
    BY <1>1
  <2>2. b * (q - 1) >= b * k
    BY <1>1, <2>1
  <2>3. b * (q - 1) \in Int /\ b * k \in Int
    BY <1>1
  <2> QED BY ONLY <1>3, <1>5, <2>2, <2>3, a \in Nat \ {0}
<1> QED BY <1>1, <1>3, <1>4, <1>5 DEF div_ceil, q

(* The scheduler floor is a positive number of elements. *)
LEMMA MinChunkType ==
    ASSUME NEW i \in Nat, NEW o \in Nat, NEW w \in Int
    PROVE  par_map_min_chunk(i, o, w) \in Nat \ {0}
<1> DEFINE weight == MinOf(IF w > 0 THEN w ELSE 1, PAR_MAX_WORK_WEIGHT)
           bytes == MaxOf(i + o, 1)
           work == PAR_MIN_WORK_BYTES \div weight
           lowest == IF bytes <= 16 THEN PAR_MIN_CHUNK ELSE div_ceil(PAR_MIN_CHUNK, bytes)
<1>1. weight \in Nat \ {0} /\ bytes \in Nat \ {0}
  BY ParMapPlanAssumption DEF MinOf, MaxOf
<1>2. PAR_MIN_WORK_BYTES \in Nat
  BY ParMapPlanAssumption DEF PAR_MIN_WORK_BYTES
<1> HIDE DEF weight, bytes
<1>3. work \in Int
  BY <1>1, <1>2
<1> HIDE DEF work
<1>4. div_ceil(work, bytes) \in Int
  BY <1>1, <1>3 DEF div_ceil
<1>5. lowest \in Int
  BY <1>1, ParMapPlanAssumption DEF div_ceil
<1> HIDE DEF lowest
<1>6. MaxOf(MaxOf(div_ceil(work, bytes), lowest), 1) \in Nat \ {0}
  BY ONLY <1>4, <1>5 DEF MaxOf
<1> QED BY <1>6 DEF par_map_min_chunk, work, bytes, weight, lowest

(* A pooled plan has between two and `workers` ranges, and the ranges'     *)
(* common length reaches count but does not reach it one range early.      *)
LEMMA PlanFacts ==
    ASSUME NEW c \in Nat \ {0}, NEW w \in Nat \ {0}, NEW m \in Nat \ {0},
           NEW R, R = RangesOf(c, w, m), R > 1
    PROVE  /\ R \in 2..w
           /\ PerOf(c, R) \in Nat \ {0}
           /\ R * PerOf(c, R) >= c
           /\ (R - 1) * PerOf(c, R) < c
<1> DEFINE t == MaxOf(div_ceil(c, w), m)
           P == PerOf(c, R)
<1>1. div_ceil(c, w) \in Nat \ {0} /\ w * div_ceil(c, w) >= c
  BY CeilFacts
<1>2. t \in Nat \ {0} /\ t >= div_ceil(c, w)
  BY <1>1 DEF MaxOf
<1> HIDE DEF t
<1>3. w * t >= w * div_ceil(c, w)
  BY <1>1, <1>2
<1>4. t * w >= c
  BY <1>1, <1>2, <1>3
<1>5. /\ R \in Nat \ {0} /\ t * R >= c /\ t * (R - 1) < c
      /\ \A k \in Nat : t * k >= c => R <= k
  BY <1>2, CeilFacts DEF RangesOf, t
<1>6. R \in 2..w
  BY <1>4, <1>5
<1>7. /\ P \in Nat \ {0} /\ R * P >= c
      /\ \A k \in Nat : R * k >= c => P <= k
  BY <1>5, CeilFacts DEF PerOf
<1> HIDE DEF P
<1>8. P <= t
  <2>1. R * t >= c
    BY <1>2, <1>5
  <2> QED BY <1>2, <1>7, <2>1
<1>9. (R - 1) * P <= (R - 1) * t
  <2>1. R - 1 \in Nat
    BY ONLY <1>5
  <2> QED BY ONLY <1>2, <1>7, <1>8, <2>1, TimesMonotone
<1>10. (R - 1) * P < c
  <2>1. (R - 1) * t = t * (R - 1) /\ (R - 1) * P \in Int /\ (R - 1) * t \in Int
    BY <1>2, <1>5, <1>7
  <2> QED BY ONLY <1>5, <1>9, <2>1, c \in Nat \ {0}
<1> QED BY <1>6, <1>7, <1>10 DEF P

-----------------------------------------------------------------------------
(* Every plan the runtime can compute cuts the elements into nonempty,     *)
(* adjacent ranges from 0 to count.                                        *)
THEOREM PlanPartitions ==
    \A count, src, dst, workers \in Nat, weight \in Int :
        Partition(count, par_map_execution_plan(count, src, dst, weight, workers))
<1> SUFFICES ASSUME NEW count \in Nat, NEW src \in Nat, NEW dst \in Nat,
                    NEW workers \in Nat, NEW weight \in Int
             PROVE  Partition(count, par_map_execution_plan(count, src, dst, weight, workers))
  OBVIOUS
<1> DEFINE m == par_map_min_chunk(src, dst, weight)
           plan == par_map_execution_plan(count, src, dst, weight, workers)
           R == RangesOf(count, workers, m)
           P == PerOf(count, R)
<1>1. m \in Nat \ {0}
  BY MinChunkType
<1> HIDE DEF m
<1>2. CASE plan = NoPlan
  BY <1>2 DEF Partition
<1>3. CASE plan # NoPlan
  <2>1. count > m /\ workers > 1 /\ R > 1 /\ plan = <<R, P>>
    BY <1>1, <1>3 DEF par_map_execution_plan, par_map_plan, m
  <2>2. count \in Nat \ {0} /\ workers \in Nat \ {0}
    BY <1>1, <2>1
  <2>3. R \in 2..workers /\ P \in Nat \ {0} /\ R * P >= count /\ (R - 1) * P < count
    BY <1>1, <2>1, <2>2, PlanFacts
  <2> HIDE DEF R, P, plan
  <2>4. ASSUME NEW r \in 0..(R - 1) PROVE r * P < count /\ r * P \in Nat
    <3>1. P * r <= P * (R - 1)
      BY ONLY <2>3, r \in 0..(R - 1), TimesMonotone
    <3>2. r * P = P * r /\ (R - 1) * P = P * (R - 1) /\ P * (R - 1) \in Int /\ P * r \in Int
      BY ONLY <2>3, r \in 0..(R - 1)
    <3>3. r * P \in Nat
      BY ONLY <2>3, r \in 0..(R - 1)
    <3> QED BY ONLY <2>3, <3>1, <3>2, <3>3, count \in Nat
  <2>5. ASSUME NEW r \in 0..(R - 1), NEW q \in 0..(R - 1), r < q
        PROVE  r * P + P <= q * P
    <3>1. P * (r + 1) <= P * q
      <4>1. r + 1 <= q /\ r + 1 \in Int /\ q \in Int /\ P \in Nat
        BY ONLY <2>3, <2>5, r \in 0..(R - 1), q \in 0..(R - 1)
      <4> QED BY ONLY <4>1, TimesMonotone
    <3>2. P * (r + 1) = r * P + P /\ P * q = q * P
      BY ONLY <2>3, r \in 0..(R - 1), q \in 0..(R - 1)
    <3> QED BY ONLY <3>1, <3>2
  <2>6. (R - 1) * P + P >= count
    <3>1. (R - 1) * P + P = R * P
      BY ONLY <2>3
    <3> QED BY ONLY <2>3, <3>1
  <2>7. ASSUME NEW r \in 0..(R - 1), r + 1 \in 0..(R - 1)
        PROVE  r * P + P = (r + 1) * P
    BY ONLY <2>3, <2>7
  <2>8. \A r \in 0..(R - 1) : /\ RangeStart(r, P) < RangeEnd(r, P, count)
                              /\ RangeEnd(r, P, count) <= count
    BY ONLY <2>3, <2>4, count \in Nat DEF RangeStart, RangeEnd, MinOf
  <2>9. \A r, q \in 0..(R - 1) :
           r < q => RangeEnd(r, P, count) <= RangeStart(q, P)
    BY ONLY <2>3, <2>4, <2>5, count \in Nat DEF RangeStart, RangeEnd, MinOf
  <2>10. RangeStart(0, P) = 0 /\ RangeEnd(R - 1, P, count) = count
    <3>1. R - 1 \in 0..(R - 1) /\ 0 * P = 0
      BY ONLY <2>3
    <3> QED BY ONLY <2>3, <2>4, <2>6, <3>1, count \in Nat DEF RangeStart, RangeEnd, MinOf
  <2>11. \A r \in 0..(R - 1) : r + 1 \in 0..(R - 1) =>
            RangeEnd(r, P, count) = RangeStart(r + 1, P)
    BY ONLY <2>3, <2>4, <2>7, count \in Nat DEF RangeStart, RangeEnd, MinOf
  <2>12. plan[1] = R /\ plan[2] = P
    BY <2>1
  <2>13. Partition(count, plan)
    BY ONLY <2>8, <2>9, <2>10, <2>11, <2>12 DEF Partition
  <2> QED BY <2>13 DEF plan
<1> QED BY <1>2, <1>3

(* A pooled call is cut into at least two ranges and never into more than  *)
(* the pool has workers.                                                   *)
THEOREM PlanGrain ==
    \A count, src, dst, workers \in Nat, weight \in Int :
        Grain(par_map_execution_plan(count, src, dst, weight, workers), workers)
<1> SUFFICES ASSUME NEW count \in Nat, NEW src \in Nat, NEW dst \in Nat,
                    NEW workers \in Nat, NEW weight \in Int,
                    par_map_execution_plan(count, src, dst, weight, workers) # NoPlan
             PROVE  par_map_execution_plan(count, src, dst, weight, workers)[1] \in 2..workers
  BY DEF Grain
<1> DEFINE m == par_map_min_chunk(src, dst, weight)
           R == RangesOf(count, workers, m)
<1>1. m \in Nat \ {0}
  BY MinChunkType
<1> HIDE DEF m
<1>2. /\ count > m /\ workers > 1 /\ R > 1
      /\ par_map_execution_plan(count, src, dst, weight, workers)[1] = R
  BY <1>1 DEF par_map_execution_plan, par_map_plan, m
<1>3. count \in Nat \ {0} /\ workers \in Nat \ {0}
  BY <1>1, <1>2
<1> QED BY <1>1, <1>2, <1>3, PlanFacts

-----------------------------------------------------------------------------
(* The invariant of the passes *)

CallerLabels == {"user", "notify", "alone", "fetch", "kernel", "finish", "wake", "barrier", "barrierwait",
                 "passdone", "aborted"}
WorkerLabels == {"take", "parked", "fetch", "kernel", "finish", "wake"}
Claiming == {"kernel", "finish"}
Draining == Claiming \cup {"fetch", "wake"}

(* Some thread has run range r of pass p and not counted it yet. *)
Finishes(p, r) == \E t \in CallThreads : at[t] = "finish" /\ job[t] = p /\ range[t] = r

(* The ranges remaining counts. *)
Unfinished(p) == {r \in RangesIn(p) : r \notin ran[p] \/ Finishes(p, r)}

(* Only passes with helpers are drained, now or when their job is dequeued. *)
Drained(p) == p \in 1..pass /\ ranges[p] > 1

Control ==
    /\ at \in [CallThreads -> CallerLabels \cup WorkerLabels]
    /\ at[Calling] \in CallerLabels /\ \A w \in Pool : at[w] \in WorkerLabels
    /\ \A t \in CallThreads : at[t] \in Draining => Drained(job[t])
    /\ \A i \in 1..Len(jobs) : Drained(jobs[i])

(* What the caller knows of its pass. *)
CallerKnows ==
    /\ at[Calling] = "user" => \A p \in Passes : ~live[p]
    /\ at[Calling] # "user" => pass >= 1 /\ job[Calling] = pass /\ live[pass]
    /\ at[Calling] = "notify" => ranges[pass] > 1 /\ owed >= 1
    /\ at[Calling] = "alone" => ranges[pass] = 1 /\ ran[pass] = {} /\ bad[pass] = {}
    /\ at[Calling] = "passdone" => remaining[pass] = 0 /\ bad[pass] = {}
    /\ at[Calling] = "aborted" => remaining[pass] = 0 /\ range_panic[pass] # NoRange

(* A claimed range is the claimer's alone, below the cursor, of a pass     *)
(* that has not returned until it has run.                                 *)
Claims ==
    /\ \A t \in CallThreads : at[t] \in Claiming =>
          range[t] \in RangesIn(job[t]) /\ range[t] < next_range[job[t]]
    /\ \A t \in CallThreads : at[t] = "kernel" => live[job[t]] /\ range[t] \notin ran[job[t]]
    /\ \A t \in CallThreads : at[t] = "finish" =>
          range[t] \in ran[job[t]] /\ (failed[t] <=> range[t] \in bad[job[t]])
    /\ \A t, u \in CallThreads :
          t # u /\ job[t] = job[u] /\ at[t] \in Claiming /\ at[u] \in Claiming => range[t] # range[u]

PassState(p) ==
    /\ p > pass => /\ next_range[p] = 0 /\ ranges[p] = 0 /\ ran[p] = {} /\ bad[p] = {}
                   /\ range_panic[p] = NoRange /\ ~live[p]
    /\ live[p] => p = pass
    /\ bad[p] \subseteq ran[p] /\ ran[p] \subseteq RangesIn(p)
    /\ ranges[p] > 1 => \A r \in ran[p] : r < next_range[p]
    /\ remaining[p] = Cardinality(Unfinished(p))
    /\ range_panic[p] = NoRange => \A r \in bad[p] : Finishes(p, r)
    /\ range_panic[p] # NoRange => /\ range_panic[p] \in bad[p]
                                  /\ \A r \in bad[p] : Finishes(p, r) \/ range_panic[p] <= r
    /\ p <= pass /\ ~live[p] => remaining[p] = 0 /\ bad[p] = {}

(* The current pass is cut by the call's plan. *)
PlanState ==
    pass >= 1 =>
        /\ call.count \in Counts
        /\ IF Plan(call.count) = NoPlan THEN ranges[pass] = 1 /\ per[pass] = call.count
           ELSE Plan(call.count) = <<ranges[pass], per[pass]>>

(* A map's buffer is its elements', and every range that ran is in place.  *)
MapState ==
    call.kind = "map" =>
        /\ pass >= 1 /\ role[pass] = "map"
        /\ out \in [0..(call.count - 1) -> Int]
        /\ \A r \in ran[pass] \ bad[pass] : \A e \in Elements(r, per[pass], call.count) : out[e] = e

ParInv ==
    /\ ParTypeOK /\ Control /\ CallerKnows /\ Claims
    /\ \A p \in Passes : PassState(p)
    /\ PlanState /\ MapState

LEMMA ParInitInv == ParInit => ParInv
<1>. SUFFICES ASSUME ParInit PROVE ParInv
  OBVIOUS
<1>. USE DEF ParInit
<1>1. \A p \in Passes : ranges[p] = 0 /\ RangesIn(p) = {} /\ Unfinished(p) = {}
  BY DEF RangesIn, Unfinished
<1>2. at[Calling] = "user" /\ \A w \in Pool : at[w] = "take"
  BY ParMapAssumption DEF CallThreads
<1>3. \A t \in CallThreads : at[t] \in {"user", "take"}
  OBVIOUS
<1>4. Control
  BY <1>2, <1>3, EmptySeq DEF Control, CallerLabels, WorkerLabels, Draining, Claiming
<1>5. ParTypeOK
  BY <1>3, ParMapAssumption, EmptySeq DEF ParTypeOK, Passes, NoRange, NoPass
<1>6. \A p \in Passes : PassState(p)
  BY <1>1, FS_EmptySet DEF PassState, Passes
<1>7. Claims /\ CallerKnows
  BY <1>2, <1>3 DEF Claims, Claiming, CallerKnows
<1>. QED BY <1>4, <1>5, <1>6, <1>7 DEF ParInv, PlanState, MapState

(* The ranges a pass has left are finitely many. *)
LEMMA UnfinishedFinite ==
    ASSUME ParInv, NEW p \in Passes
    PROVE  /\ IsFiniteSet(Unfinished(p)) /\ Cardinality(Unfinished(p)) \in Nat
           /\ remaining[p] = Cardinality(Unfinished(p)) /\ (remaining[p] = 0 <=> Unfinished(p) = {})
<1>1. ranges[p] \in Nat
  BY DEF ParInv, ParTypeOK
<1>2. IsFiniteSet(RangesIn(p))
  BY <1>1, FS_Interval DEF RangesIn
<1>3. Unfinished(p) \in SUBSET RangesIn(p)
  BY DEF Unfinished
<1>4. IsFiniteSet(Unfinished(p))
  BY <1>2, <1>3, FS_Subset
<1>. QED BY <1>4, FS_CardinalityType, FS_EmptySet DEF ParInv, PassState

(* A pass with nothing left has run everything, and nobody is inside it.   *)
LEMMA NothingLeft ==
    ASSUME ParInv, NEW p \in Passes, remaining[p] = 0
    PROVE  /\ ran[p] = RangesIn(p)
           /\ \A t \in CallThreads : job[t] = p => at[t] \notin Claiming
           /\ \A r : ~Finishes(p, r)
<1>1. Unfinished(p) = {}
  BY UnfinishedFinite
<1>2. ran[p] = RangesIn(p)
  BY <1>1 DEF Unfinished, ParInv, PassState
<1>3. ASSUME NEW t \in CallThreads, job[t] = p, at[t] \in Claiming PROVE FALSE
  <2>1. range[t] \in RangesIn(p)
    BY <1>3 DEF ParInv, Claims
  <2>2. range[t] \notin ran[p] \/ Finishes(p, range[t])
    BY <1>3 DEF ParInv, Claims, Claiming, Finishes
  <2>. QED BY <1>1, <2>1, <2>2 DEF Unfinished
<1>. QED BY <1>2, <1>3 DEF Finishes, Claiming

(* A pass that has returned has nothing left. *)
LEMMA ReturnedDone ==
    ASSUME ParInv, NEW p \in Passes, p <= pass, ~live[p]
    PROVE  remaining[p] = 0 /\ bad[p] = {}
BY DEF ParInv, PassState

(* The invariant says what it is for. *)
LEMMA PlansHold ==
    ASSUME NEW count \in Counts
    PROVE  /\ Partition(count, Plan(count)) /\ Grain(Plan(count), PoolSize)
           /\ count \in Nat \ {0} /\ PoolSize \in Nat
<1>1. PoolSize \in Nat
  BY ParMapAssumption, FS_CardinalityType DEF PoolSize
<1>2. count \in Nat \ {0}
  BY ParMapAssumption
<1>. QED BY <1>1, <1>2, PlanPartitions, PlanGrain, ParMapAssumption DEF Plan

LEMMA EveryElement ==
    ASSUME NEW count \in Counts, Plan(count) # NoPlan, NEW e \in 0..(count - 1)
    PROVE  /\ Plan(count)[1] \in Nat \ {0} /\ Plan(count)[2] \in Nat \ {0}
           /\ \E r \in 0..(Plan(count)[1] - 1) : e \in Elements(r, Plan(count)[2], count)
<1>. DEFINE m == par_map_min_chunk(IN_STRIDE, OUT_STRIDE, WORK_WEIGHT)
            R == RangesOf(count, PoolSize, m)
            P == PerOf(count, R)
<1>1. m \in Nat \ {0} /\ PoolSize \in Nat /\ count \in Nat \ {0}
  BY MinChunkType, PlansHold, ParMapAssumption
<1>. HIDE DEF m
<1>2. count > m /\ PoolSize > 1 /\ R > 1 /\ Plan(count) = <<R, P>>
  BY <1>1 DEF Plan, par_map_execution_plan, par_map_plan, m
<1>3. R \in 2..PoolSize /\ P \in Nat \ {0} /\ R * P >= count
  BY <1>1, <1>2, PlanFacts
<1>. HIDE DEF R, P
<1>4. Plan(count)[1] = R /\ Plan(count)[2] = P
  BY <1>2
<1>. DEFINE q == e \div P
<1>5. q \in Int /\ P * q <= e /\ e < P * q + P
  BY <1>1, <1>3
<1>. HIDE DEF q
<1>6. q >= 0
  <2>1. SUFFICES ASSUME q <= -1 PROVE FALSE
    BY <1>5
  <2>2. P * q <= P * (-1)
    BY <1>3, <1>5, <2>1, TimesMonotone
  <2>3. P * q + P <= 0
    BY <1>3, <1>5, <2>2
  <2>4. P * q \in Int /\ P \in Int /\ e \in Nat
    BY <1>1, <1>3, <1>5
  <2>. QED BY ONLY <1>5, <2>3, <2>4
<1>7. q < R
  <2>1. SUFFICES ASSUME R <= q PROVE FALSE
    BY <1>3, <1>5
  <2>2. P * R <= P * q
    BY <1>3, <1>5, <2>1, TimesMonotone
  <2>3. P * R = R * P /\ P * R \in Int /\ P * q \in Int
    BY <1>3, <1>5
  <2>. QED BY <1>1, <1>3, <1>5, <2>2, <2>3
<1>8. e \in Elements(q, P, count)
  <2>1. q * P = P * q /\ q * P \in Int
    BY <1>3, <1>5
  <2>. QED BY <1>1, <1>3, <1>5, <2>1 DEF Elements, RangeStart, RangeEnd, MinOf
<1>9. q \in 0..(R - 1)
  BY <1>3, <1>5, <1>6, <1>7
<1>. QED BY <1>3, <1>4, <1>8, <1>9

LEMMA InvMeans ==
    ASSUME ParInv
    PROVE  CallsExact
<1>1. pass \in 0..MaxPasses /\ Calling \in CallThreads
  BY DEF ParInv, ParTypeOK, CallThreads
<1>2. PassIsBarrier
  <2>1. ASSUME NEW p \in 1..pass, ~live[p] PROVE ran[p] = RangesIn(p) /\ bad[p] = {}
    <3>1. p \in Passes /\ p <= pass
      BY <1>1, ParMapAssumption DEF Passes
    <3>. QED BY <2>1, <3>1, ReturnedDone, NothingLeft
  <2>. QED BY <2>1 DEF PassIsBarrier
<1>3. PlanCovers
  <2>1. ASSUME NEW p \in {pass} \cap Passes, ranges[p] > 1
        PROVE  Partition(call.count, <<ranges[p], per[p]>>) /\ Grain(<<ranges[p], per[p]>>, PoolSize)
    <3>1. p = pass /\ pass >= 1
      BY DEF Passes
    <3>2. call.count \in Counts /\ Plan(call.count) = <<ranges[p], per[p]>>
      BY <2>1, <3>1 DEF ParInv, PlanState
    <3>. QED BY <3>2, PlansHold
  <2>. QED BY <2>1 DEF PlanCovers
<1>4. LowestPanic
  <2>1. SUFFICES ASSUME at[Calling] = "aborted"
                 PROVE  range_panic[pass] \in bad[pass] /\ \A r \in bad[pass] : range_panic[pass] <= r
    BY DEF LowestPanic, CallAlive
  <2>2. pass \in Passes /\ remaining[pass] = 0 /\ range_panic[pass] # NoRange
    BY <1>1, <2>1 DEF ParInv, CallerKnows, Passes
  <2>. QED BY <2>2, NothingLeft DEF ParInv, PassState
<1>5. MapComplete
  <2>1. SUFFICES ASSUME at[Calling] = "user", call.kind = "map"
                 PROVE  out = [e \in 0..(call.count - 1) |-> e]
    BY DEF MapComplete
  <2>2. pass \in Passes /\ pass >= 1 /\ ~live[pass]
    BY <1>1, <2>1 DEF ParInv, CallerKnows, MapState, Passes
  <2>3. ran[pass] = RangesIn(pass) /\ bad[pass] = {}
    BY <2>2, ReturnedDone, NothingLeft, <1>1
  <2>4. /\ out \in [0..(call.count - 1) -> Int]
        /\ \A r \in RangesIn(pass) : \A e \in Elements(r, per[pass], call.count) : out[e] = e
    BY <2>1, <2>3 DEF ParInv, MapState
  <2>5. call.count \in Counts /\ call.count \in Nat \ {0}
    BY <2>2, ParMapAssumption DEF ParInv, PlanState
  <2>6. ASSUME NEW e \in 0..(call.count - 1) PROVE out[e] = e
    <3>1. CASE Plan(call.count) = NoPlan
      <4>1. ranges[pass] = 1 /\ per[pass] = call.count
        BY <2>2, <3>1 DEF ParInv, PlanState
      <4>2. 0 \in RangesIn(pass) /\ e \in Elements(0, per[pass], call.count)
        BY <2>5, <4>1 DEF RangesIn, Elements, RangeStart, RangeEnd, MinOf
      <4>. QED BY <2>4, <4>2
    <3>2. CASE Plan(call.count) # NoPlan
      <4>1. Plan(call.count) = <<ranges[pass], per[pass]>>
        BY <2>2, <3>2 DEF ParInv, PlanState
      <4>2. PICK r \in 0..(ranges[pass] - 1) : e \in Elements(r, per[pass], call.count)
        BY <2>5, <3>2, <4>1, EveryElement
      <4>. QED BY <2>4, <4>2 DEF RangesIn
    <3>. QED BY <3>1, <3>2
  <2>. QED BY <2>4, <2>6
<1>6. NoTouchAfterReturn /\ RangeOnce
  BY DEF ParInv, Claims, Claiming, NoTouchAfterReturn, RangeOnce
<1>. QED BY <1>2, <1>3, <1>4, <1>5, <1>6 DEF CallsExact, ParInv

-----------------------------------------------------------------------------
(* The steps *)

(* The kernels of the threads inside a range are left alone, and so are    *)
(* the passes, but for cursors that may advance.                           *)
SameClaims ==
    \A t \in CallThreads :
        /\ at'[t] \in Claiming \/ at[t] \in Claiming => at'[t] = at[t]
        /\ at[t] \in Claiming => job'[t] = job[t] /\ range'[t] = range[t] /\ failed'[t] = failed[t]

LEMMA SameFinishes ==
    ASSUME SameClaims, NEW p, NEW r
    PROVE  Finishes(p, r)' <=> Finishes(p, r)
BY DEF SameClaims, Finishes, Claiming

LEMMA PassBound ==
    ASSUME ParInv
    PROVE  pass \in Nat /\ MaxPasses \in Nat /\ 1..pass \subseteq Passes
BY ParMapAssumption DEF ParInv, ParTypeOK, Passes

LEMMA QuietFrame ==
    ASSUME ParInv, SameClaims,
           UNCHANGED <<call, pass, passVars, barrierVars, out, parHistory>>,
           next_range' \in [Passes -> Nat], \A p \in 1..pass : next_range'[p] >= next_range[p],
           \A p \in Passes : p > pass => next_range'[p] = next_range[p]
    PROVE  Claims' /\ (\A p \in Passes : PassState(p)') /\ PlanState' /\ MapState'
<1>. USE DEF passVars, barrierVars, parHistory
<1>1. \A p \in Passes : RangesIn(p)' = RangesIn(p) /\ Unfinished(p)' = Unfinished(p)
  BY SameFinishes DEF RangesIn, Unfinished
<1>2. Claims'
  <2>1. ASSUME NEW t \in CallThreads, at[t] \in Claiming
        PROVE  range[t] \in RangesIn(job[t])' /\ range[t] < next_range'[job[t]]
    <3>1. job[t] \in 1..pass /\ range[t] \in RangesIn(job[t]) /\ range[t] < next_range[job[t]]
      BY <2>1 DEF ParInv, Control, Draining, Drained, Claims
    <3>2. job[t] \in Passes
      BY <3>1, PassBound DEF Passes
    <3>3. next_range[job[t]] \in Nat /\ next_range'[job[t]] \in Nat /\ range[t] \in Int
      BY <3>1, <3>2 DEF ParInv, ParTypeOK, RangesIn
    <3>4. next_range'[job[t]] >= next_range[job[t]]
      BY <3>1
    <3>5. RangesIn(job[t])' = RangesIn(job[t])
      BY <2>1 DEF SameClaims, RangesIn
    <3>. QED BY <3>1, <3>3, <3>4, <3>5
  <2>. QED BY <2>1 DEF ParInv, Claims, Claiming, SameClaims
<1>3. ASSUME NEW p \in Passes PROVE PassState(p)'
  <2>1. ranges[p] > 1 => \A r \in ran[p] : r < next_range'[p]
    <3>1. ran[p] \in SUBSET Nat /\ next_range[p] \in Nat /\ next_range'[p] \in Nat /\ pass \in Nat /\ p \in Nat
      BY ParMapAssumption DEF ParInv, ParTypeOK, Passes
    <3>2. next_range'[p] >= next_range[p]
      BY <3>1 DEF Passes
    <3>. QED BY <3>1, <3>2 DEF ParInv, PassState
  <2>. QED BY <1>1, <2>1, SameFinishes DEF ParInv, PassState
<1>. QED BY <1>2, <1>3 DEF ParInv, PlanState, MapState

(* Steps of the caller and of the workers that claim nothing. *)
LEMMA NotifyHelpersStep ==
    ASSUME ParInv, NotifyHelpers
    PROVE  ParInv'
<1>. DEFINE next == IF owed = 1 THEN "fetch" ELSE "notify"
<1>1. /\ at[Calling] = "notify" /\ owed' = owed - 1 /\ owed \in Nat /\ owed >= 1
      /\ UNCHANGED <<call, pass, passVars, next_range, barrierVars, bufferVars, jobs, job, range, failed, parHistory>>
      /\ at \in [CallThreads -> CallerLabels \cup WorkerLabels] /\ Calling \in CallThreads /\ Calling \notin Pool
  BY ParMapAssumption DEF NotifyHelpers, ParInv, CallerKnows, Control, ParTypeOK, CallThreads
<1>2. /\ at'[Calling] = next
      /\ \A w \in Pool : at'[w] = at[w] \/ (at[w] = "parked" /\ at'[w] = "take")
      /\ DOMAIN at' = CallThreads
  <2>1. CASE at' = [at EXCEPT ![Calling] = next]
    BY <1>1, <2>1 DEF CallThreads
  <2>2. CASE \E w \in Pool : at[w] = "parked" /\ at' = [at EXCEPT ![Calling] = next, ![w] = "take"]
    BY <1>1, <2>2 DEF CallThreads
  <2>. QED BY <2>1, <2>2 DEF NotifyHelpers
<1>3. at' \in [CallThreads -> CallerLabels \cup WorkerLabels]
  <2>1. \A t \in CallThreads : at'[t] \in CallerLabels \cup WorkerLabels
    BY <1>1, <1>2 DEF CallThreads, CallerLabels, WorkerLabels
  <2>2. at' = [t \in CallThreads |-> at'[t]]
    BY <1>1 DEF NotifyHelpers
  <2>. QED BY <2>1, <2>2
<1>4. SameClaims
  BY <1>1, <1>2 DEF SameClaims, Claiming, CallThreads
<1>5. Claims' /\ (\A p \in Passes : PassState(p)') /\ PlanState' /\ MapState'
  <2>1. next_range \in [Passes -> Nat]
    BY DEF ParInv, ParTypeOK
  <2>. QED BY <1>1, <1>4, <2>1, QuietFrame, PassBound DEF bufferVars
<1>6. ranges[pass] > 1 /\ job[Calling] = pass /\ pass >= 1 /\ live[pass] /\ pass \in Nat
  BY <1>1, PassBound DEF ParInv, CallerKnows
<1>7. Control'
  <2>1. \A t \in CallThreads : at'[t] \in Draining => Drained(job[t])
    BY <1>1, <1>2, <1>6 DEF ParInv, Control, CallThreads, Draining, Claiming, Drained
  <2>2. at'[Calling] \in CallerLabels /\ \A w \in Pool : at'[w] \in WorkerLabels
    BY <1>2 DEF ParInv, Control, CallerLabels, WorkerLabels
  <2>. QED BY <1>1, <1>3, <2>1, <2>2 DEF ParInv, Control, Drained, passVars
<1>8. CallerKnows'
  BY <1>1, <1>2, <1>6 DEF CallerKnows, passVars
<1>9. ParTypeOK'
  <2>1. owed' \in Nat
    BY <1>1
  <2>. QED BY <1>1, <1>5, <2>1 DEF ParInv, ParTypeOK, Claims, Claiming, passVars, barrierVars, parHistory
<1>. QED BY <1>5, <1>7, <1>8, <1>9 DEF ParInv

LEMMA BarrierStep ==
    ASSUME ParInv, Barrier
    PROVE  ParInv'
<1>1. /\ at[Calling] = "barrier"
      /\ UNCHANGED <<call, pass, passVars, next_range, barrierVars, bufferVars, jobs, owed, job, range, failed,
                     parHistory>>
      /\ at \in [CallThreads -> CallerLabels \cup WorkerLabels] /\ Calling \in CallThreads /\ Calling \notin Pool
  BY ParMapAssumption DEF Barrier, ParInv, Control, CallThreads
<1>2. PICK next \in {"barrierwait", "aborted", "passdone"} :
        /\ at' = [at EXCEPT ![Calling] = next]
        /\ next \in {"aborted", "passdone"} => remaining[pass] = 0
        /\ next = "aborted" <=> remaining[pass] = 0 /\ range_panic[pass] # NoRange
  BY DEF Barrier, BarrierOpen, Panicked
<1>3. /\ at'[Calling] = next /\ \A w \in Pool : at'[w] = at[w]
      /\ at' \in [CallThreads -> CallerLabels \cup WorkerLabels]
  BY <1>1, <1>2 DEF CallThreads, CallerLabels
<1>4. SameClaims
  BY <1>1, <1>3 DEF SameClaims, Claiming, CallThreads
<1>5. Claims' /\ (\A p \in Passes : PassState(p)') /\ PlanState' /\ MapState'
  <2>1. next_range \in [Passes -> Nat]
    BY DEF ParInv, ParTypeOK
  <2>. QED BY <1>1, <1>4, <2>1, QuietFrame, PassBound DEF bufferVars
<1>6. job[Calling] = pass /\ pass >= 1 /\ live[pass] /\ pass \in Nat /\ pass \in Passes
  BY <1>1, PassBound DEF ParInv, CallerKnows
<1>7. Control'
  <2>1. \A t \in CallThreads : at'[t] \in Draining => Drained(job[t])
    BY <1>1, <1>3 DEF ParInv, Control, CallThreads, Draining, Claiming
  <2>2. at'[Calling] \in CallerLabels /\ \A w \in Pool : at'[w] \in WorkerLabels
    BY <1>3 DEF ParInv, Control, CallerLabels
  <2>. QED BY <1>1, <1>3, <2>1, <2>2 DEF ParInv, Control, Drained, passVars
<1>8. CallerKnows'
  <2>1. next = "passdone" => bad[pass] = {}
    <3>1. SUFFICES ASSUME remaining[pass] = 0, range_panic[pass] = NoRange PROVE bad[pass] = {}
      BY <1>2
    <3>. QED BY <1>6, <3>1, NothingLeft DEF ParInv, PassState
  <2>. QED BY <1>1, <1>2, <1>3, <1>6, <2>1 DEF CallerKnows, passVars, barrierVars, parHistory
<1>9. ParTypeOK'
  BY <1>1, <1>5 DEF ParInv, ParTypeOK, Claims, Claiming, passVars, barrierVars, parHistory
<1>. QED BY <1>5, <1>7, <1>8, <1>9 DEF ParInv

LEMMA TakeJobStep ==
    ASSUME ParInv, NEW w \in Pool, TakeJob(w)
    PROVE  ParInv'
<1>1. /\ at[w] = "take"
      /\ UNCHANGED <<call, pass, passVars, next_range, barrierVars, bufferVars, owed, range, failed, parHistory>>
      /\ at \in [CallThreads -> CallerLabels \cup WorkerLabels] /\ w \in CallThreads /\ w # Calling
      /\ Calling \notin Pool /\ jobs \in Seq(Passes) /\ job \in [CallThreads -> Passes \cup {NoPass}]
  BY ParMapAssumption DEF TakeJob, ParInv, Control, ParTypeOK, CallThreads
<1>2. PICK next \in {"parked", "fetch"} :
        /\ at' = [at EXCEPT ![w] = next]
        /\ next = "parked" => UNCHANGED <<jobs, job>>
        /\ next = "fetch" => jobs # <<>> /\ jobs' = Tail(jobs) /\ job' = [job EXCEPT ![w] = Head(jobs)]
  BY DEF TakeJob
<1>3. /\ at'[w] = next /\ \A t \in CallThreads \ {w} : at'[t] = at[t]
      /\ at' \in [CallThreads -> CallerLabels \cup WorkerLabels]
  BY <1>1, <1>2 DEF WorkerLabels
<1>4. /\ jobs' \in Seq(Passes) /\ job' \in [CallThreads -> Passes \cup {NoPass}]
      /\ \A t \in CallThreads \ {w} : job'[t] = job[t]
      /\ next = "fetch" => Drained(job'[w])
      /\ \A i \in 1..Len(jobs') : Drained(jobs'[i])
  <2>1. CASE next = "parked"
    BY <1>1, <1>2, <2>1 DEF ParInv, Control
  <2>2. CASE next = "fetch"
    <3>1. jobs # <<>> /\ jobs' = Tail(jobs) /\ job' = [job EXCEPT ![w] = Head(jobs)]
      BY <1>2, <2>2
    <3>2. Head(jobs) \in Passes /\ Tail(jobs) \in Seq(Passes) /\ Head(jobs) = jobs[1]
      BY <1>1, <3>1
    <3>3. /\ Len(jobs) \in Nat \ {0} /\ Len(Tail(jobs)) = Len(jobs) - 1
          /\ \A i \in 1..Len(Tail(jobs)) : Tail(jobs)[i] = jobs[i + 1]
      BY <1>1, <3>1
    <3>4. Drained(jobs[1]) /\ \A i \in 1..Len(Tail(jobs)) : Drained(Tail(jobs)[i])
      BY <3>3 DEF ParInv, Control
    <3>. QED BY <1>1, <3>1, <3>2, <3>4
  <2>. QED BY <2>1, <2>2
<1>5. SameClaims
  BY <1>1, <1>2, <1>3, <1>4 DEF SameClaims, Claiming
<1>6. Claims' /\ (\A p \in Passes : PassState(p)') /\ PlanState' /\ MapState'
  <2>1. next_range \in [Passes -> Nat]
    BY DEF ParInv, ParTypeOK
  <2>. QED BY <1>1, <1>5, <2>1, QuietFrame, PassBound DEF bufferVars
<1>7. Control'
  <2>1. \A t \in CallThreads : at'[t] \in Draining => Drained(job'[t])
    BY <1>1, <1>3, <1>4 DEF ParInv, Control, Draining, Claiming
  <2>2. at'[Calling] \in CallerLabels /\ \A v \in Pool : at'[v] \in WorkerLabels
    BY <1>1, <1>3 DEF ParInv, Control, WorkerLabels, CallThreads
  <2>. QED BY <1>1, <1>3, <1>4, <2>1, <2>2 DEF Control, Drained, passVars
<1>8. CallerKnows'
  <2>1. at'[Calling] = at[Calling] /\ job'[Calling] = job[Calling]
    BY <1>1, <1>3, <1>4 DEF CallThreads
  <2>. QED BY <1>1, <2>1 DEF ParInv, CallerKnows, passVars, barrierVars, parHistory
<1>9. ParTypeOK'
  BY <1>1, <1>4, <1>6 DEF ParInv, ParTypeOK, Claims, Claiming, passVars, barrierVars, parHistory
<1>. QED BY <1>6, <1>7, <1>8, <1>9 DEF ParInv

LEMMA SpuriousUnparkStep ==
    ASSUME ParInv, NEW t \in CallThreads, SpuriousUnpark(t)
    PROVE  ParInv'
<1>. DEFINE next == IF t = Calling THEN "barrier" ELSE "take"
<1>1. /\ at[t] \in {"parked", "barrierwait"} /\ at' = [at EXCEPT ![t] = next]
      /\ UNCHANGED <<call, pass, passVars, next_range, barrierVars, bufferVars, jobs, owed, job, range, failed,
                     parHistory>>
      /\ at \in [CallThreads -> CallerLabels \cup WorkerLabels]
      /\ Calling \in CallThreads /\ Calling \notin Pool
  BY ParMapAssumption DEF SpuriousUnpark, ParInv, Control, CallThreads
<1>2. /\ at'[t] = next /\ \A u \in CallThreads \ {t} : at'[u] = at[u]
      /\ at' \in [CallThreads -> CallerLabels \cup WorkerLabels]
  BY <1>1 DEF WorkerLabels, CallerLabels
<1>3. t = Calling => at[Calling] = "barrierwait"
  BY <1>1 DEF ParInv, Control, CallerLabels
<1>. HIDE DEF next
<1>4. next \in {"barrier", "take"} /\ (next = "barrier" <=> t = Calling)
  BY DEF next
<1>5. SameClaims
  BY <1>1, <1>2, <1>4 DEF SameClaims, Claiming
<1>6. Claims' /\ (\A p \in Passes : PassState(p)') /\ PlanState' /\ MapState'
  <2>1. next_range \in [Passes -> Nat]
    BY DEF ParInv, ParTypeOK
  <2>. QED BY <1>1, <1>5, <2>1, QuietFrame, PassBound DEF bufferVars
<1>7. Control'
  <2>1. \A u \in CallThreads : at'[u] \in Draining => Drained(job[u])
    BY <1>2, <1>4 DEF ParInv, Control, Draining, Claiming
  <2>2. at'[Calling] \in CallerLabels /\ \A v \in Pool : at'[v] \in WorkerLabels
    BY <1>1, <1>2, <1>4 DEF ParInv, Control, WorkerLabels, CallerLabels, CallThreads
  <2>. QED BY <1>1, <1>2, <2>1, <2>2 DEF ParInv, Control, Drained, passVars
<1>8. CallerKnows'
  <2>1. CASE t = Calling
    BY <1>1, <1>2, <1>3, <1>4, <2>1 DEF ParInv, CallerKnows, passVars, barrierVars, parHistory
  <2>2. CASE t # Calling
    BY <1>1, <1>2, <2>2 DEF ParInv, CallerKnows, passVars, barrierVars, parHistory
  <2>. QED BY <2>1, <2>2
<1>9. ParTypeOK'
  BY <1>1, <1>6 DEF ParInv, ParTypeOK, Claims, Claiming, passVars, barrierVars, parHistory
<1>. QED BY <1>6, <1>7, <1>8, <1>9 DEF ParInv

(* A thread that fetched a range's end leaves the pass. *)
LEMMA FetchLeaves ==
    ASSUME ParInv, NEW t \in CallThreads, Fetch(t), Exhausted(job[t], next_range[job[t]])
    PROVE  ParInv'
<1>. DEFINE next == IF t = Calling THEN "barrier" ELSE "take"
            p == job[t]
<1>1. /\ at[t] = "fetch" /\ at' = [at EXCEPT ![t] = next] /\ UNCHANGED range
      /\ next_range' = [next_range EXCEPT ![p] = next_range[p] + 1]
      /\ job' = IF t = Calling THEN job ELSE [job EXCEPT ![t] = NoPass]
      /\ UNCHANGED <<call, pass, passVars, barrierVars, bufferVars, jobs, owed, failed, parHistory>>
      /\ at \in [CallThreads -> CallerLabels \cup WorkerLabels]
      /\ Calling \in CallThreads /\ Calling \notin Pool
  BY ParMapAssumption DEF Fetch, CursorAfter, ParInv, Control, CallThreads
<1>2. /\ at'[t] = next /\ \A u \in CallThreads \ {t} : at'[u] = at[u]
      /\ at' \in [CallThreads -> CallerLabels \cup WorkerLabels]
  BY <1>1 DEF WorkerLabels, CallerLabels
<1>3. /\ job' \in [CallThreads -> Passes \cup {NoPass}] /\ job'[Calling] = job[Calling]
      /\ \A u \in CallThreads \ {t} : job'[u] = job[u]
  <2>1. job \in [CallThreads -> Passes \cup {NoPass}]
    BY DEF ParInv, ParTypeOK
  <2>. QED BY <1>1, <2>1
<1>. HIDE DEF next
<1>4. next \in {"barrier", "take"} /\ (next = "barrier" <=> t = Calling)
  BY DEF next
<1>5. SameClaims
  BY <1>1, <1>2, <1>3, <1>4 DEF SameClaims, Claiming
<1>6. p \in 1..pass /\ p \in Passes
  BY <1>1, PassBound DEF ParInv, Control, Draining, Drained
<1>. HIDE DEF p
<1>7. /\ next_range' \in [Passes -> Nat] /\ \A q \in 1..pass : next_range'[q] >= next_range[q]
      /\ \A q \in Passes : q > pass => next_range'[q] = next_range[q]
  <2>1. next_range \in [Passes -> Nat] /\ pass \in Nat /\ 1..pass \subseteq Passes
    BY PassBound DEF ParInv, ParTypeOK
  <2>. QED BY <1>1, <1>6, <2>1
<1>8. Claims' /\ (\A q \in Passes : PassState(q)') /\ PlanState' /\ MapState'
  BY <1>1, <1>5, <1>7, QuietFrame DEF bufferVars
<1>9. Control'
  <2>1. \A u \in CallThreads : at'[u] \in Draining => Drained(job'[u])
    BY <1>2, <1>3, <1>4 DEF ParInv, Control, Draining, Claiming
  <2>2. at'[Calling] \in CallerLabels /\ \A v \in Pool : at'[v] \in WorkerLabels
    BY <1>1, <1>2, <1>4 DEF ParInv, Control, WorkerLabels, CallerLabels, CallThreads
  <2>. QED BY <1>1, <1>2, <2>1, <2>2 DEF ParInv, Control, Drained, passVars
<1>10. CallerKnows'
  <2>1. CASE t = Calling
    BY <1>1, <1>2, <1>3, <1>4, <2>1 DEF ParInv, CallerKnows, passVars, barrierVars, parHistory
  <2>2. CASE t # Calling
    BY <1>1, <1>2, <1>3, <2>2 DEF ParInv, CallerKnows, passVars, barrierVars, parHistory
  <2>. QED BY <2>1, <2>2
<1>11. ParTypeOK'
  BY <1>1, <1>3, <1>7, <1>8 DEF ParInv, ParTypeOK, Claims, Claiming, passVars, barrierVars, parHistory
<1>. QED BY <1>8, <1>9, <1>10, <1>11 DEF ParInv

(* A thread that fetched a range is inside a pass that has not returned:   *)
(* a pass that has returned has run every range below its cursor.          *)
LEMMA FetchClaims ==
    ASSUME ParInv, NEW t \in CallThreads, Fetch(t), ~Exhausted(job[t], next_range[job[t]])
    PROVE  ParInv'
<1>. DEFINE p == job[t]
            r == next_range[p]
<1>1. /\ at[t] = "fetch" /\ at' = [at EXCEPT ![t] = "kernel"] /\ range' = [range EXCEPT ![t] = r]
      /\ next_range' = [next_range EXCEPT ![p] = r + 1]
      /\ UNCHANGED <<call, pass, passVars, barrierVars, bufferVars, jobs, job, owed, failed, parHistory>>
      /\ at \in [CallThreads -> CallerLabels \cup WorkerLabels]
      /\ Calling \in CallThreads /\ Calling \notin Pool
  BY ParMapAssumption DEF Fetch, CursorAfter, ParInv, Control, CallThreads
<1>2. p \in 1..pass /\ p \in Passes /\ ranges[p] > 1
  BY <1>1, PassBound DEF ParInv, Control, Draining, Drained
<1>3. /\ next_range \in [Passes -> Nat] /\ ranges \in [Passes -> Nat] /\ ran \in [Passes -> SUBSET Nat]
      /\ range \in [CallThreads -> Nat \cup {NoRange}] /\ pass \in Nat
  BY PassBound DEF ParInv, ParTypeOK
<1>4. r \in Nat /\ r < ranges[p] /\ r \in RangesIn(p)
  BY <1>2, <1>3 DEF Exhausted, RangesIn
<1>. HIDE DEF r, p
<1>5. \A q \in ran[p] : q < r
  BY <1>2 DEF ParInv, PassState, r
<1>6. r \notin ran[p]
  BY <1>4, <1>5
<1>7. live[p]
  <2>1. SUFFICES ASSUME ~live[p] PROVE FALSE
    OBVIOUS
  <2>2. ran[p] = RangesIn(p)
    BY <1>2, <2>1, ReturnedDone, NothingLeft
  <2>. QED BY <1>4, <1>6, <2>2
<1>8. /\ at'[t] = "kernel" /\ \A u \in CallThreads \ {t} : at'[u] = at[u]
      /\ at' \in [CallThreads -> CallerLabels \cup WorkerLabels]
  BY <1>1 DEF WorkerLabels, CallerLabels
<1>9. /\ range'[t] = r /\ \A u \in CallThreads \ {t} : range'[u] = range[u]
      /\ range' \in [CallThreads -> Nat \cup {NoRange}]
  BY <1>1, <1>3, <1>4
<1>10. /\ next_range' \in [Passes -> Nat] /\ next_range'[p] = r + 1
       /\ \A q \in Passes \ {p} : next_range'[q] = next_range[q]
  BY <1>1, <1>2, <1>3, <1>4
<1>11. \A q, s : Finishes(q, s)' <=> Finishes(q, s)
  BY <1>1, <1>8, <1>9 DEF Finishes
<1>12. \A q \in Passes : RangesIn(q)' = RangesIn(q) /\ Unfinished(q)' = Unfinished(q)
  BY <1>1, <1>11 DEF RangesIn, Unfinished, passVars, parHistory
<1>13. Claims'
  <2>1. ASSUME NEW u \in CallThreads, u # t, at[u] \in Claiming
        PROVE  /\ range[u] \in RangesIn(job[u]) /\ range[u] < next_range'[job[u]]
               /\ job[u] = p => range[u] # r
    <3>1. job[u] \in Passes /\ range[u] \in RangesIn(job[u]) /\ range[u] < next_range[job[u]]
      BY <2>1, PassBound DEF ParInv, Control, Draining, Drained, Claims
    <3>2. range[u] \in Int
      BY <3>1 DEF RangesIn
    <3>3. CASE job[u] = p
      BY <1>4, <1>10, <3>1, <3>2, <3>3 DEF r
    <3>4. CASE job[u] # p
      BY <1>10, <3>1, <3>4
    <3>. QED BY <3>3, <3>4
  <2>2. range'[t] \in RangesIn(job[t]) /\ range'[t] < next_range'[job[t]]
    BY <1>4, <1>9, <1>10 DEF p
  <2>3. \A u \in CallThreads : at'[u] \in Claiming =>
          range'[u] \in RangesIn(job[u]) /\ range'[u] < next_range'[job[u]]
    BY <1>8, <1>9, <2>1, <2>2
  <2>4. \A u \in CallThreads : at'[u] = "kernel" => live[job[u]] /\ range'[u] \notin ran[job[u]]
    <3>1. live[job[t]] /\ range'[t] \notin ran[job[t]]
      BY <1>6, <1>7, <1>9 DEF p
    <3>. QED BY <1>8, <1>9, <3>1 DEF ParInv, Claims
  <2>5. \A u \in CallThreads : at'[u] = "finish" =>
          u # t /\ range'[u] \in ran[job[u]] /\ (failed[u] <=> range'[u] \in bad[job[u]])
    BY <1>8, <1>9 DEF ParInv, Claims
  <2>6. ASSUME NEW u \in CallThreads, NEW v \in CallThreads, u # v, job[u] = job[v],
               at'[u] \in Claiming, at'[v] \in Claiming
        PROVE  range'[u] # range'[v]
    <3>1. CASE u = t
      BY <1>8, <1>9, <2>1, <2>6, <3>1 DEF p
    <3>2. CASE v = t
      BY <1>8, <1>9, <2>1, <2>6, <3>2 DEF p
    <3>3. CASE u # t /\ v # t
      BY <1>8, <1>9, <2>6, <3>3 DEF ParInv, Claims
    <3>. QED BY <3>1, <3>2, <3>3
  <2>. QED BY <1>1, <2>3, <2>4, <2>5, <2>6 DEF Claims, RangesIn, passVars, parHistory
<1>14. ASSUME NEW q \in Passes PROVE PassState(q)'
  <2>1. q > pass => q # p
    BY <1>2, <1>3
  <2>2. q > pass => next_range'[q] = next_range[q]
    BY <1>10, <2>1
  <2>3. ranges[q] > 1 => \A s \in ran[q] : s < next_range'[q]
    <3>1. CASE q = p
      BY <1>3, <1>4, <1>5, <1>10, <3>1
    <3>2. CASE q # p
      BY <1>10, <3>2 DEF ParInv, PassState
    <3>. QED BY <3>1, <3>2
  <2>. QED BY <1>1, <1>11, <1>12, <2>2, <2>3 DEF ParInv, PassState, passVars, barrierVars, parHistory
<1>15. Control'
  <2>1. \A u \in CallThreads : at'[u] \in Draining => Drained(job[u])
    <3>1. Drained(job[t])
      BY <1>2 DEF Drained, p
    <3>. QED BY <1>8, <3>1 DEF ParInv, Control
  <2>2. at'[Calling] \in CallerLabels /\ \A v \in Pool : at'[v] \in WorkerLabels
    BY <1>1, <1>8 DEF ParInv, Control, WorkerLabels, CallerLabels, CallThreads
  <2>. QED BY <1>1, <1>8, <2>1, <2>2 DEF ParInv, Control, Drained, passVars
<1>16. CallerKnows'
  <2>1. CASE t = Calling
    BY <1>1, <1>8, <2>1 DEF ParInv, CallerKnows, passVars, barrierVars, parHistory
  <2>2. CASE t # Calling
    BY <1>1, <1>8, <2>2 DEF ParInv, CallerKnows, passVars, barrierVars, parHistory
  <2>. QED BY <2>1, <2>2
<1>17. PlanState' /\ MapState'
  BY <1>1 DEF ParInv, PlanState, MapState, passVars, bufferVars, parHistory
<1>18. ParTypeOK'
  BY <1>1, <1>9, <1>10, <1>13 DEF ParInv, ParTypeOK, Claims, Claiming, passVars, barrierVars, parHistory
<1>. QED BY <1>13, <1>14, <1>15, <1>16, <1>17, <1>18 DEF ParInv

LEMMA WakeStep ==
    ASSUME ParInv, NEW t \in CallThreads, Wake(t)
    PROVE  ParInv'
<1>1. /\ at[t] = "wake" /\ range' = [range EXCEPT ![t] = NoRange] /\ failed' = [failed EXCEPT ![t] = FALSE]
      /\ UNCHANGED <<call, pass, passVars, next_range, barrierVars, bufferVars, jobs, owed, job, parHistory>>
      /\ at \in [CallThreads -> CallerLabels \cup WorkerLabels]
      /\ Calling \in CallThreads /\ Calling \notin Pool
      /\ range \in [CallThreads -> Nat \cup {NoRange}] /\ failed \in [CallThreads -> BOOLEAN]
  BY ParMapAssumption DEF Wake, ParInv, Control, ParTypeOK, CallThreads
<1>2. /\ at'[t] = "fetch"
      /\ \A u \in CallThreads \ {t} :
            at'[u] = at[u] \/ (u = Calling /\ at[u] = "barrierwait" /\ at'[u] = "barrier")
  BY DEF Wake
<1>3. at' \in [CallThreads -> CallerLabels \cup WorkerLabels]
  <2>1. \A u \in CallThreads : at'[u] \in CallerLabels \cup WorkerLabels
    BY <1>1, <1>2 DEF CallerLabels
  <2>2. at' = [u \in CallThreads |-> at'[u]]
    BY DEF Wake
  <2>. QED BY <2>1, <2>2
<1>4. /\ range' \in [CallThreads -> Nat \cup {NoRange}] /\ \A u \in CallThreads \ {t} : range'[u] = range[u]
      /\ failed' \in [CallThreads -> BOOLEAN] /\ \A u \in CallThreads \ {t} : failed'[u] = failed[u]
  <2>1. range' \in [CallThreads -> Nat \cup {NoRange}] /\ \A u \in CallThreads \ {t} : range'[u] = range[u]
    BY <1>1
  <2>2. failed' \in [CallThreads -> BOOLEAN] /\ \A u \in CallThreads \ {t} : failed'[u] = failed[u]
    BY <1>1
  <2>. QED BY <2>1, <2>2
<1>5. SameClaims
  BY <1>1, <1>2, <1>4 DEF SameClaims, Claiming
<1>6. Claims' /\ (\A p \in Passes : PassState(p)') /\ PlanState' /\ MapState'
  <2>1. next_range \in [Passes -> Nat]
    BY DEF ParInv, ParTypeOK
  <2>. QED BY <1>1, <1>5, <2>1, QuietFrame, PassBound DEF bufferVars
<1>7. Control'
  <2>1. \A u \in CallThreads : at'[u] \in Draining => Drained(job[u])
    BY <1>1, <1>2 DEF ParInv, Control, Draining, Claiming
  <2>2. at'[Calling] \in CallerLabels /\ \A v \in Pool : at'[v] \in WorkerLabels
    BY <1>1, <1>2 DEF ParInv, Control, WorkerLabels, CallerLabels, CallThreads
  <2>. QED BY <1>1, <1>3, <2>1, <2>2 DEF ParInv, Control, Drained, passVars
<1>8. CallerKnows'
  <2>1. at'[Calling] = at[Calling] \/ (at[Calling] \in {"wake", "barrierwait"} /\ at'[Calling] \in {"fetch", "barrier"})
    BY <1>1, <1>2
  <2>. QED BY <1>1, <2>1 DEF ParInv, CallerKnows, passVars, barrierVars, parHistory
<1>9. ParTypeOK'
  BY <1>1, <1>4, <1>6 DEF ParInv, ParTypeOK, Claims, Claiming, passVars, barrierVars, parHistory
<1>. QED BY <1>6, <1>7, <1>8, <1>9 DEF ParInv

(* A range is inside the elements of its call. *)
LEMMA RangeInside ==
    ASSUME NEW r \in Nat, NEW n \in Nat, NEW count \in Nat
    PROVE  Elements(r, n, count) \subseteq 0..(count - 1) /\ Elements(r, n, count) \subseteq Int
<1>1. r * n \in Nat
  OBVIOUS
<1>. QED BY <1>1 DEF Elements, RangeStart, RangeEnd, MinOf

(* The kernel of a map's range writes the range's elements and no other.   *)
LEMMA MapKernel ==
    ASSUME ParInv, call.kind = "map", NEW r \in Nat, r \notin ran[pass], out' = KernelOut(pass, r)
    PROVE  /\ out' \in [0..(call.count - 1) -> Int]
           /\ \A s \in (ran[pass] \ bad[pass]) \cup {r} :
                \A e \in Elements(s, per[pass], call.count) : out'[e] = e
<1>. DEFINE E == Elements(r, per[pass], call.count)
            written == [e \in E |-> e]
<1>1. pass \in Passes /\ role[pass] = "map" /\ out \in [0..(call.count - 1) -> Int]
  BY PassBound DEF ParInv, MapState, Passes
<1>2. call.count \in Nat /\ per[pass] \in Nat
  BY <1>1, ParMapAssumption DEF ParInv, PlanState, MapState, ParTypeOK
<1>3. E \subseteq 0..(call.count - 1) /\ E \subseteq Int
  BY <1>2, RangeInside
<1>4. out' = [k \in DOMAIN out \cup E |-> IF k \in E THEN written[k] ELSE out[k]]
  BY <1>1 DEF KernelOut
<1>. HIDE DEF E
<1>5. out' = [k \in 0..(call.count - 1) |-> IF k \in E THEN k ELSE out[k]]
  BY <1>1, <1>3, <1>4
<1>6. out' \in [0..(call.count - 1) -> Int]
  BY <1>1, <1>3, <1>5
<1>7. ASSUME NEW s \in (ran[pass] \ bad[pass]) \cup {r}, NEW e \in Elements(s, per[pass], call.count)
      PROVE  out'[e] = e
  <2>1. CASE e \in E
    BY <1>3, <1>5, <2>1
  <2>2. CASE e \notin E
    <3>1. s \in ran[pass] \ bad[pass] /\ s \in Nat
      BY <1>1, <1>7, <2>2 DEF E, ParInv, ParTypeOK
    <3>2. out[e] = e /\ e \in 0..(call.count - 1)
      BY <1>2, <1>7, <3>1, RangeInside DEF ParInv, MapState
    <3>. QED BY <1>5, <2>2, <3>2
  <2>. QED BY <2>1, <2>2
<1>. QED BY <1>6, <1>7

LEMMA KernelStep ==
    ASSUME ParInv, NEW t \in CallThreads, NEW ok \in BOOLEAN, Kernel(t, ok)
    PROVE  ParInv'
<1>. DEFINE p == job[t]
            r == range[t]
<1>1. /\ at[t] = "kernel" /\ at' = [at EXCEPT ![t] = "finish"] /\ failed' = [failed EXCEPT ![t] = ~ok]
      /\ ran' = [ran EXCEPT ![p] = @ \cup {r}]
      /\ bad' = IF ok THEN bad ELSE [bad EXCEPT ![p] = @ \cup {r}]
      /\ out' = IF ok THEN KernelOut(p, r) ELSE out
      /\ UNCHANGED <<call, pass, passVars, next_range, barrierVars, jobs, owed, job, range>>
      /\ at \in [CallThreads -> CallerLabels \cup WorkerLabels]
      /\ Calling \in CallThreads /\ Calling \notin Pool
  BY ParMapAssumption DEF Kernel, ParInv, Control, CallThreads
<1>2. p \in Passes /\ ranges[p] > 1 /\ live[p] /\ p = pass /\ r \in RangesIn(p) /\ r \notin ran[p] /\ r < next_range[p]
  BY <1>1, PassBound DEF ParInv, Control, Draining, Claiming, Drained, Claims, PassState
<1>3. /\ ran \in [Passes -> SUBSET Nat] /\ bad \in [Passes -> SUBSET Nat] /\ failed \in [CallThreads -> BOOLEAN]
      /\ ranges[p] \in Nat /\ r \in Nat
  BY <1>2 DEF ParInv, ParTypeOK, RangesIn
<1>. HIDE DEF p, r
<1>4. r \notin bad[p]
  BY <1>2 DEF ParInv, PassState
<1>5. /\ ran'[p] = ran[p] \cup {r} /\ \A q \in Passes \ {p} : ran'[q] = ran[q]
      /\ ran' \in [Passes -> SUBSET Nat]
  BY <1>1, <1>2, <1>3
<1>6. /\ bad'[p] = (IF ok THEN bad[p] ELSE bad[p] \cup {r}) /\ \A q \in Passes \ {p} : bad'[q] = bad[q]
      /\ bad' \in [Passes -> SUBSET Nat]
  <2>1. CASE ok
    BY <1>1, <1>2, <1>3, <2>1
  <2>2. CASE ~ok
    BY <1>1, <1>2, <1>3, <2>2
  <2>. QED BY <2>1, <2>2
<1>7. /\ at'[t] = "finish" /\ \A u \in CallThreads \ {t} : at'[u] = at[u]
      /\ at' \in [CallThreads -> CallerLabels \cup WorkerLabels]
  BY <1>1 DEF WorkerLabels, CallerLabels
<1>8. /\ (failed'[t] <=> ~ok) /\ (\A u \in CallThreads \ {t} : failed'[u] = failed[u])
      /\ failed' \in [CallThreads -> BOOLEAN]
  BY <1>1, <1>3
<1>9. \A q, s : Finishes(q, s)' <=> Finishes(q, s) \/ (q = p /\ s = r)
  BY <1>1, <1>7 DEF Finishes, p, r
<1>10. \A q \in Passes : RangesIn(q)' = RangesIn(q)
  BY <1>1 DEF RangesIn, passVars
<1>11. ASSUME NEW q \in Passes PROVE Unfinished(q)' = Unfinished(q)
  <2>1. CASE q = p
    BY <1>2, <1>5, <1>9, <1>10, <2>1 DEF Unfinished
  <2>2. CASE q # p
    BY <1>5, <1>9, <1>10, <2>2 DEF Unfinished
  <2>. QED BY <2>1, <2>2
<1>12. Claims'
  <2>1. ASSUME NEW u \in CallThreads, u # t, at[u] \in Claiming
        PROVE  job[u] \in Passes /\ (job[u] = p => range[u] # r)
    BY <1>1, <2>1, PassBound DEF ParInv, Control, Draining, Drained, Claims, Claiming, p, r
  <2>2. \A u \in CallThreads : at'[u] \in Claiming => at[u] \in Claiming
    BY <1>1, <1>7 DEF Claiming
  <2>3. ASSUME NEW u \in CallThreads, at'[u] = "kernel"
        PROVE  live[job[u]] /\ range[u] \notin ran'[job[u]]
    <3>1. u # t /\ at[u] = "kernel"
      BY <1>7, <2>3
    <3>2. job[u] \in Passes /\ (job[u] = p => range[u] # r) /\ live[job[u]] /\ range[u] \notin ran[job[u]]
      BY <2>1, <3>1 DEF ParInv, Claims, Claiming
    <3>. QED BY <1>5, <3>2
  <2>4. ASSUME NEW u \in CallThreads, at'[u] = "finish"
        PROVE  range[u] \in ran'[job[u]] /\ (failed'[u] <=> range[u] \in bad'[job[u]])
    <3>1. CASE u = t
      <4>1. range[u] = r /\ job[u] = p
        BY <3>1 DEF p, r
      <4>. QED BY <1>4, <1>5, <1>6, <1>8, <3>1, <4>1
    <3>2. CASE u # t
      <4>1. at[u] = "finish" /\ failed'[u] = failed[u]
        BY <1>7, <1>8, <2>4, <3>2
      <4>2. /\ job[u] \in Passes /\ (job[u] = p => range[u] # r)
            /\ range[u] \in ran[job[u]] /\ (failed[u] <=> range[u] \in bad[job[u]])
        BY <2>1, <3>2, <4>1 DEF ParInv, Claims, Claiming
      <4>. QED BY <1>5, <1>6, <4>1, <4>2
    <3>. QED BY <3>1, <3>2
  <2>5. \A u \in CallThreads : at[u] \in Claiming => range[u] \in RangesIn(job[u]) /\ range[u] < next_range[job[u]]
    BY DEF ParInv, Claims
  <2>6. \A u, v \in CallThreads :
          u # v /\ job[u] = job[v] /\ at[u] \in Claiming /\ at[v] \in Claiming => range[u] # range[v]
    BY DEF ParInv, Claims
  <2>. QED BY <1>1, <2>2, <2>3, <2>4, <2>5, <2>6 DEF Claims, RangesIn, passVars
<1>13. ASSUME NEW q \in Passes PROVE PassState(q)'
  <2>1. CASE q = p
    <3>1. bad'[q] \subseteq ran'[q] /\ ran'[q] \subseteq RangesIn(q)
      BY <1>2, <1>5, <1>6, <2>1 DEF ParInv, PassState
    <3>2. \A s \in ran'[q] : s < next_range[q]
      BY <1>2, <1>5, <2>1 DEF ParInv, PassState
    <3>3. range_panic[q] = NoRange => \A s \in bad'[q] : Finishes(q, s)'
      BY <1>6, <1>9, <2>1 DEF ParInv, PassState
    <3>4. range_panic[q] # NoRange =>
            range_panic[q] \in bad'[q] /\ \A s \in bad'[q] : Finishes(q, s)' \/ range_panic[q] <= s
      BY <1>6, <1>9, <2>1 DEF ParInv, PassState
    <3>5. remaining[q] = Cardinality(Unfinished(q)) /\ ~(q > pass)
      BY <1>2, <2>1, PassBound DEF ParInv, PassState
    <3>. QED BY <1>1, <1>2, <1>10, <1>11, <2>1, <3>1, <3>2, <3>3, <3>4, <3>5
             DEF PassState, passVars, barrierVars
  <2>2. CASE q # p
    <3>1. \A s : Finishes(q, s)' <=> Finishes(q, s)
      BY <1>9, <2>2
    <3>. QED BY <1>1, <1>5, <1>6, <1>10, <1>11, <2>2, <3>1 DEF ParInv, PassState, passVars, barrierVars
  <2>. QED BY <2>1, <2>2
<1>14. Control'
  <2>1. \A u \in CallThreads : at'[u] \in Draining => Drained(job[u])
    BY <1>1, <1>7 DEF ParInv, Control, Draining, Claiming
  <2>2. at'[Calling] \in CallerLabels /\ \A v \in Pool : at'[v] \in WorkerLabels
    BY <1>1, <1>7 DEF ParInv, Control, WorkerLabels, CallerLabels, CallThreads
  <2>. QED BY <1>1, <1>7, <2>1, <2>2 DEF ParInv, Control, Drained, passVars
<1>15. CallerKnows'
  <2>1. remaining[pass] # 0
    BY <1>1, <1>2, NothingLeft DEF Claiming, p
  <2>2. at'[Calling] \notin {"alone", "passdone", "aborted"}
    <3>1. at[Calling] \notin {"alone", "passdone", "aborted"}
      BY <1>2, <2>1 DEF ParInv, CallerKnows
    <3>. QED BY <1>1, <1>7, <3>1
  <2>3. (at'[Calling] = "user" <=> at[Calling] = "user") /\ (at'[Calling] = "notify" <=> at[Calling] = "notify")
    BY <1>1, <1>7
  <2>. QED BY <1>1, <2>2, <2>3 DEF ParInv, CallerKnows, passVars, barrierVars
<1>16. PlanState'
  BY <1>1 DEF ParInv, PlanState, passVars
<1>17. MapState'
  <2>1. SUFFICES ASSUME call.kind = "map"
                 PROVE  /\ out' \in [0..(call.count - 1) -> Int]
                        /\ \A s \in ran'[pass] \ bad'[pass] :
                             \A e \in Elements(s, per[pass], call.count) : out'[e] = e
    BY <1>1 DEF ParInv, MapState, passVars
  <2>2. CASE ok
    <3>1. out' = KernelOut(pass, r) /\ ran'[pass] \ bad'[pass] \subseteq (ran[pass] \ bad[pass]) \cup {r}
      BY <1>1, <1>2, <1>5, <1>6, <2>2
    <3>. QED BY <1>2, <1>3, <2>1, <3>1, MapKernel
  <2>3. CASE ~ok
    <3>1. out' = out /\ ran'[pass] \ bad'[pass] \subseteq ran[pass] \ bad[pass]
      BY <1>1, <1>2, <1>5, <1>6, <2>3
    <3>. QED BY <2>1, <3>1 DEF ParInv, MapState
  <2>. QED BY <2>2, <2>3
<1>18. ParTypeOK'
  BY <1>1, <1>5, <1>6, <1>8, <1>12 DEF ParInv, ParTypeOK, Claims, Claiming, passVars, barrierVars
<1>. QED BY <1>12, <1>13, <1>14, <1>15, <1>16, <1>17, <1>18 DEF ParInv

(* The range leaves the count, once, and takes its panic to the barrier.   *)
LEMMA FinishStep ==
    ASSUME ParInv, NEW t \in CallThreads, Finish(t)
    PROVE  ParInv'
<1>. DEFINE p == job[t]
            r == range[t]
<1>1. /\ at[t] = "finish" /\ at' = [at EXCEPT ![t] = "wake"]
      /\ remaining' = [remaining EXCEPT ![p] = @ - 1]
      /\ range_panic' = IF failed[t] THEN [range_panic EXCEPT ![p] = KeepPanic(@, r)] ELSE range_panic
      /\ UNCHANGED <<call, pass, passVars, next_range, bufferVars, jobs, owed, job, range, failed, parHistory>>
      /\ at \in [CallThreads -> CallerLabels \cup WorkerLabels]
      /\ Calling \in CallThreads /\ Calling \notin Pool
  BY ParMapAssumption DEF Finish, ParInv, Control, CallThreads
<1>2. p \in Passes /\ p \in 1..pass /\ r \in RangesIn(p) /\ r \in ran[p] /\ (failed[t] <=> r \in bad[p])
  BY <1>1, PassBound DEF ParInv, Control, Draining, Claiming, Drained, Claims
<1>3. /\ remaining \in [Passes -> Nat] /\ range_panic \in [Passes -> Nat \cup {NoRange}] /\ r \in Nat
      /\ failed[t] \in BOOLEAN /\ bad[p] \in SUBSET Nat
  BY <1>2 DEF ParInv, ParTypeOK, RangesIn
<1>. HIDE DEF p, r
<1>4. Finishes(p, r) /\ r \in Unfinished(p)
  BY <1>1, <1>2 DEF Finishes, Unfinished, p, r
<1>5. remaining[p] # 0 /\ remaining[p] \in Nat
  BY <1>2, <1>3, <1>4, UnfinishedFinite
<1>6. live[p] /\ p = pass
  <2>1. live[p]
    BY <1>2, <1>5, ReturnedDone
  <2>. QED BY <1>2, <2>1 DEF ParInv, PassState
<1>7. /\ remaining'[p] = remaining[p] - 1 /\ \A q \in Passes \ {p} : remaining'[q] = remaining[q]
      /\ remaining' \in [Passes -> Nat]
  BY <1>1, <1>2, <1>3, <1>5
<1>8. /\ range_panic'[p] = (IF failed[t] THEN KeepPanic(range_panic[p], r) ELSE range_panic[p])
      /\ \A q \in Passes \ {p} : range_panic'[q] = range_panic[q]
      /\ range_panic' \in [Passes -> Nat \cup {NoRange}]
  <2>1. CASE failed[t]
    <3>1. KeepPanic(range_panic[p], r) \in Nat \cup {NoRange}
      BY <1>2, <1>3 DEF KeepPanic
    <3>. QED BY <1>1, <1>2, <1>3, <2>1, <3>1
  <2>2. CASE ~failed[t]
    BY <1>1, <1>2, <1>3, <2>2
  <2>. QED BY <2>1, <2>2
<1>9. /\ at'[t] = "wake" /\ \A u \in CallThreads \ {t} : at'[u] = at[u]
      /\ at' \in [CallThreads -> CallerLabels \cup WorkerLabels]
  BY <1>1 DEF WorkerLabels, CallerLabels
<1>10. ASSUME NEW q, NEW s PROVE Finishes(q, s)' <=> Finishes(q, s) /\ ~(q = p /\ s = r)
  <2>1. \A u \in CallThreads : u # t /\ at[u] = "finish" => ~(job[u] = p /\ range[u] = r)
    BY <1>1 DEF ParInv, Claims, Claiming, p, r
  <2>2. Finishes(q, s)' <=> \E u \in CallThreads : u # t /\ at[u] = "finish" /\ job[u] = q /\ range[u] = s
    BY <1>1, <1>9 DEF Finishes
  <2>3. Finishes(q, s) <=>
          (q = p /\ s = r) \/ \E u \in CallThreads : u # t /\ at[u] = "finish" /\ job[u] = q /\ range[u] = s
    BY <1>1 DEF Finishes, p, r
  <2>. QED BY <2>1, <2>2, <2>3
<1>11. \A q \in Passes : RangesIn(q)' = RangesIn(q)
  BY <1>1 DEF RangesIn, passVars
<1>12. /\ \A q \in Passes : q = p => Unfinished(q)' = Unfinished(q) \ {r}
       /\ \A q \in Passes : q # p => Unfinished(q)' = Unfinished(q)
  <2>1. ASSUME NEW q \in Passes, q = p PROVE Unfinished(q)' = Unfinished(q) \ {r}
    BY <1>1, <1>2, <1>10, <1>11, <2>1 DEF Unfinished, parHistory
  <2>2. ASSUME NEW q \in Passes, q # p PROVE Unfinished(q)' = Unfinished(q)
    BY <1>1, <1>10, <1>11, <2>2 DEF Unfinished, parHistory
  <2>. QED BY <2>1, <2>2
<1>13. Claims'
  <2>1. \A u \in CallThreads : (at'[u] \in Claiming => at[u] \in Claiming)
          /\ (at'[u] = "kernel" => at[u] = "kernel") /\ (at'[u] = "finish" => at[u] = "finish")
    BY <1>9 DEF Claiming
  <2>. QED BY <1>1, <2>1 DEF ParInv, Claims, RangesIn, passVars, parHistory
<1>14. ASSUME NEW q \in Passes PROVE PassState(q)'
  <2>1. CASE q = p
    <3>1. remaining'[q] = Cardinality(Unfinished(q)')
      <4>1. IsFiniteSet(Unfinished(q)) /\ remaining[q] = Cardinality(Unfinished(q))
        BY UnfinishedFinite
      <4>2. Cardinality(Unfinished(q) \ {r}) = Cardinality(Unfinished(q)) - 1
        BY <1>4, <2>1, <4>1, FS_RemoveElement
      <4>. QED BY <1>7, <1>12, <2>1, <4>1, <4>2
    <3>2. range_panic'[q] = NoRange => \A s \in bad[q] : Finishes(q, s)'
      <4>1. SUFFICES ASSUME range_panic'[q] = NoRange, NEW s \in bad[q] PROVE Finishes(q, s)'
        OBVIOUS
      <4>2. ~failed[t] /\ range_panic[q] = NoRange
        BY <1>3, <1>8, <2>1, <4>1 DEF KeepPanic, NoRange
      <4>3. s # r /\ Finishes(q, s)
        BY <1>2, <2>1, <4>1, <4>2 DEF ParInv, PassState
      <4>. QED BY <1>10, <4>3
    <3>3. range_panic'[q] # NoRange => range_panic'[q] \in bad[q]
      <4>1. range_panic[q] # NoRange => range_panic[q] \in bad[q]
        BY DEF ParInv, PassState
      <4>. QED BY <1>2, <1>8, <2>1, <4>1 DEF KeepPanic
    <3>4. range_panic'[q] # NoRange => \A s \in bad[q] : Finishes(q, s)' \/ range_panic'[q] <= s
      <4>1. SUFFICES ASSUME range_panic'[q] # NoRange, NEW s \in bad[q] PROVE Finishes(q, s)' \/ range_panic'[q] <= s
        OBVIOUS
      <4>2. /\ s \in Nat /\ range_panic[q] \in Nat \cup {NoRange}
            /\ Finishes(q, s) \/ (range_panic[q] # NoRange /\ range_panic[q] <= s)
        BY <1>3, <2>1, <4>1 DEF ParInv, PassState
      <4>3. CASE s = r
        BY <1>2, <1>3, <1>8, <2>1, <4>1, <4>2, <4>3 DEF KeepPanic, NoRange
      <4>4. CASE s # r /\ Finishes(q, s)
        BY <1>10, <4>4
      <4>5. CASE range_panic[q] # NoRange /\ range_panic[q] <= s
        BY <1>3, <1>8, <2>1, <4>2, <4>5 DEF KeepPanic, NoRange
      <4>. QED BY <4>2, <4>3, <4>4, <4>5
    <3>5. ~(q > pass) /\ q = pass /\ live[q]
      BY <1>6, <2>1, PassBound
    <3>6. /\ bad[q] \subseteq ran[q] /\ ran[q] \subseteq RangesIn(q)
          /\ ranges[q] > 1 => \A s \in ran[q] : s < next_range[q]
      BY DEF ParInv, PassState
    <3>. QED BY <1>1, <1>11, <3>1, <3>2, <3>3, <3>4, <3>5, <3>6 DEF PassState, passVars, parHistory
  <2>2. CASE q # p
    <3>1. \A s : Finishes(q, s)' <=> Finishes(q, s)
      BY <1>10, <2>2
    <3>. QED BY <1>1, <1>7, <1>8, <1>11, <1>12, <2>2, <3>1 DEF ParInv, PassState, passVars, parHistory
  <2>. QED BY <2>1, <2>2
<1>15. Control'
  <2>1. \A u \in CallThreads : at'[u] \in Draining => Drained(job[u])
    BY <1>1, <1>9 DEF ParInv, Control, Draining, Claiming
  <2>2. at'[Calling] \in CallerLabels /\ \A v \in Pool : at'[v] \in WorkerLabels
    BY <1>1, <1>9 DEF ParInv, Control, WorkerLabels, CallerLabels, CallThreads
  <2>. QED BY <1>1, <1>9, <2>1, <2>2 DEF ParInv, Control, Drained, passVars
<1>16. CallerKnows'
  <2>1. at'[Calling] \notin {"passdone", "aborted"}
    <3>1. at[Calling] \notin {"passdone", "aborted"}
      BY <1>5, <1>6 DEF ParInv, CallerKnows
    <3>. QED BY <1>1, <1>9, <3>1
  <2>2. /\ (at'[Calling] = "user" <=> at[Calling] = "user") /\ (at'[Calling] = "notify" <=> at[Calling] = "notify")
        /\ (at'[Calling] = "alone" <=> at[Calling] = "alone")
    BY <1>1, <1>9
  <2>. QED BY <1>1, <2>1, <2>2 DEF ParInv, CallerKnows, passVars, parHistory
<1>17. PlanState' /\ MapState'
  BY <1>1 DEF ParInv, PlanState, MapState, passVars, bufferVars, parHistory
<1>18. ParTypeOK'
  BY <1>1, <1>7, <1>8, <1>13 DEF ParInv, ParTypeOK, Claims, Claiming, passVars, parHistory
<1>. QED BY <1>13, <1>14, <1>15, <1>16, <1>17, <1>18 DEF ParInv

(* A call too small for the pool: nobody else is inside its only range.    *)
LEMMA RunAloneStep ==
    ASSUME ParInv, NEW ok \in BOOLEAN, RunAlone(ok)
    PROVE  ParInv'
<1>1. /\ at[Calling] = "alone" /\ out' = IF ok THEN KernelOut(pass, 0) ELSE out
      /\ ran' = [ran EXCEPT ![pass] = {0}] /\ bad' = [bad EXCEPT ![pass] = IF ok THEN {} ELSE {0}]
      /\ range_panic' = [range_panic EXCEPT ![pass] = IF ok THEN NoRange ELSE 0]
      /\ remaining' = [remaining EXCEPT ![pass] = 0]
      /\ at' = [at EXCEPT ![Calling] = IF ok THEN "passdone" ELSE "aborted"]
      /\ UNCHANGED <<call, pass, passVars, next_range, jobs, owed, job, range, failed>>
      /\ at \in [CallThreads -> CallerLabels \cup WorkerLabels]
      /\ Calling \in CallThreads /\ Calling \notin Pool
  BY ParMapAssumption DEF RunAlone, ParInv, Control, CallThreads
<1>2. /\ pass \in Passes /\ pass \in Nat /\ job[Calling] = pass /\ live[pass] /\ ranges[pass] = 1
      /\ ran[pass] = {} /\ bad[pass] = {}
  BY <1>1, PassBound DEF ParInv, CallerKnows
<1>3. RangesIn(pass) = {0}
  BY <1>2 DEF RangesIn
<1>4. \A u \in CallThreads : at[u] \in Claiming => job[u] \in Passes /\ job[u] # pass /\ u # Calling
  BY <1>1, <1>2, PassBound DEF ParInv, Control, Draining, Drained, Claiming
<1>5. /\ ran' \in [Passes -> SUBSET Nat] /\ ran'[pass] = {0} /\ \A q \in Passes \ {pass} : ran'[q] = ran[q]
      /\ bad' \in [Passes -> SUBSET Nat] /\ bad'[pass] = (IF ok THEN {} ELSE {0})
      /\ \A q \in Passes \ {pass} : bad'[q] = bad[q]
  <2>1. ran \in [Passes -> SUBSET Nat] /\ bad \in [Passes -> SUBSET Nat]
    BY DEF ParInv, ParTypeOK
  <2>. QED BY <1>1, <1>2, <2>1
<1>6. /\ remaining' \in [Passes -> Nat] /\ remaining'[pass] = 0
      /\ \A q \in Passes \ {pass} : remaining'[q] = remaining[q]
      /\ range_panic' \in [Passes -> Nat \cup {NoRange}] /\ range_panic'[pass] = (IF ok THEN NoRange ELSE 0)
      /\ \A q \in Passes \ {pass} : range_panic'[q] = range_panic[q]
  <2>1. remaining \in [Passes -> Nat] /\ range_panic \in [Passes -> Nat \cup {NoRange}]
    BY DEF ParInv, ParTypeOK
  <2>. QED BY <1>1, <1>2, <2>1
<1>7. /\ at'[Calling] = (IF ok THEN "passdone" ELSE "aborted") /\ \A u \in CallThreads \ {Calling} : at'[u] = at[u]
      /\ at' \in [CallThreads -> CallerLabels \cup WorkerLabels]
  BY <1>1 DEF CallerLabels
<1>8. SameClaims
  BY <1>1, <1>7 DEF SameClaims, Claiming
<1>9. Claims'
  <2>1. \A u \in CallThreads : at'[u] \in Claiming => at[u] = at'[u] /\ ran'[job[u]] = ran[job[u]] /\ bad'[job[u]] = bad[job[u]]
    BY <1>4, <1>5, <1>8 DEF SameClaims
  <2>2. "kernel" \in Claiming /\ "finish" \in Claiming
    BY DEF Claiming
  <2>. QED BY <1>1, <2>1, <2>2 DEF ParInv, Claims, RangesIn, passVars
<1>10. \A q \in Passes : RangesIn(q)' = RangesIn(q)
  BY <1>1 DEF RangesIn, passVars
<1>11. ASSUME NEW q \in Passes PROVE PassState(q)'
  <2>1. CASE q = pass
    <3>1. \A s : ~Finishes(q, s)'
      BY <1>4, <2>1, SameFinishes, <1>8 DEF Finishes, Claiming
    <3>2. Unfinished(q)' = {}
      BY <1>3, <1>5, <1>10, <2>1, <3>1 DEF Unfinished
    <3>3. Cardinality(Unfinished(q)') = 0
      BY <3>2, FS_EmptySet
    <3>. QED BY <1>1, <1>2, <1>3, <1>5, <1>6, <1>10, <2>1, <3>1, <3>3 DEF PassState, passVars, NoRange
  <2>2. CASE q # pass
    <3>1. \A s : Finishes(q, s)' <=> Finishes(q, s)
      BY <1>8, SameFinishes
    <3>2. Unfinished(q)' = Unfinished(q)
      BY <1>5, <1>10, <2>2, <3>1 DEF Unfinished
    <3>. QED BY <1>1, <1>5, <1>6, <1>10, <2>2, <3>1, <3>2 DEF ParInv, PassState, passVars
  <2>. QED BY <2>1, <2>2
<1>12. Control'
  <2>1. \A u \in CallThreads : at'[u] \in Draining => Drained(job[u])
    BY <1>1, <1>7 DEF ParInv, Control, Draining, Claiming
  <2>2. at'[Calling] \in CallerLabels /\ \A v \in Pool : at'[v] \in WorkerLabels
    BY <1>1, <1>7 DEF ParInv, Control, CallerLabels, CallThreads
  <2>. QED BY <1>1, <1>7, <2>1, <2>2 DEF ParInv, Control, Drained, passVars
<1>13. CallerKnows'
  <2>1. pass >= 1
    BY <1>2 DEF Passes
  <2>. QED BY <1>1, <1>2, <1>5, <1>6, <1>7, <2>1 DEF CallerKnows, passVars, NoRange
<1>14. PlanState'
  BY <1>1 DEF ParInv, PlanState, passVars
<1>15. MapState'
  <2>1. SUFFICES ASSUME call.kind = "map"
                 PROVE  /\ out' \in [0..(call.count - 1) -> Int]
                        /\ \A s \in ran'[pass] \ bad'[pass] :
                             \A e \in Elements(s, per[pass], call.count) : out'[e] = e
    BY <1>1 DEF ParInv, MapState, passVars
  <2>2. CASE ok
    <3>1. out' = KernelOut(pass, 0) /\ ran'[pass] \ bad'[pass] \subseteq (ran[pass] \ bad[pass]) \cup {0}
      BY <1>1, <1>5, <2>2
    <3>2. 0 \in Nat /\ 0 \notin ran[pass]
      BY <1>2
    <3>. QED BY <2>1, <3>1, <3>2, MapKernel
  <2>3. CASE ~ok
    <3>1. out' = out /\ ran'[pass] \ bad'[pass] = {}
      BY <1>1, <1>5, <2>3
    <3>. QED BY <2>1, <3>1 DEF ParInv, MapState
  <2>. QED BY <2>2, <2>3
<1>16. ParTypeOK'
  BY <1>1, <1>5, <1>6, <1>9 DEF ParInv, ParTypeOK, Claims, Claiming, passVars
<1>. QED BY <1>9, <1>11, <1>12, <1>13, <1>14, <1>15, <1>16 DEF ParInv

(* The buffers die with nobody inside them. *)
LEMMA ReturnStep ==
    ASSUME ParInv, Return
    PROVE  ParInv'
<1>1. /\ at[Calling] = "passdone" /\ live' = [live EXCEPT ![pass] = FALSE]
      /\ out' = IF role[pass] = "reduce" THEN <<Combine(slots)>> ELSE out
      /\ job' = [job EXCEPT ![Calling] = NoPass] /\ at' = [at EXCEPT ![Calling] = "user"]
      /\ UNCHANGED <<call, pass, role, ranges, per, next_range, barrierVars, jobs, owed, range, failed, parHistory>>
      /\ at \in [CallThreads -> CallerLabels \cup WorkerLabels]
      /\ Calling \in CallThreads /\ Calling \notin Pool
  BY ParMapAssumption DEF Return, ParInv, Control, CallThreads
<1>2. pass \in Passes /\ pass \in Nat /\ live[pass] /\ remaining[pass] = 0 /\ bad[pass] = {}
  BY <1>1, PassBound DEF ParInv, CallerKnows
<1>3. /\ live' \in [Passes -> BOOLEAN] /\ ~live'[pass] /\ \A q \in Passes \ {pass} : live'[q] = live[q]
      /\ \A q \in Passes : ~live'[q]
  BY <1>1, <1>2 DEF ParInv, ParTypeOK, PassState
<1>4. /\ job' \in [CallThreads -> Passes \cup {NoPass}] /\ \A u \in CallThreads \ {Calling} : job'[u] = job[u]
      /\ at'[Calling] = "user" /\ \A u \in CallThreads \ {Calling} : at'[u] = at[u]
      /\ at' \in [CallThreads -> CallerLabels \cup WorkerLabels]
  BY <1>1 DEF ParInv, ParTypeOK, CallerLabels
<1>5. SameClaims
  BY <1>1, <1>4 DEF SameClaims, Claiming
<1>6. \A q \in Passes : RangesIn(q)' = RangesIn(q) /\ Unfinished(q)' = Unfinished(q)
  BY <1>1, <1>5, SameFinishes DEF RangesIn, Unfinished, parHistory
<1>7. \A u \in CallThreads : at[u] # "kernel"
  <2>1. ASSUME NEW u \in CallThreads, at[u] = "kernel" PROVE FALSE
    <3>1. job[u] \in Passes /\ live[job[u]]
      BY <2>1, PassBound DEF ParInv, Control, Draining, Claiming, Drained, Claims
    <3>2. job[u] = pass
      BY <3>1 DEF ParInv, PassState
    <3>. QED BY <1>2, <2>1, <3>2, NothingLeft DEF Claiming
  <2>. QED BY <2>1
<1>8. Claims'
  <2>1. \A u \in CallThreads : at'[u] \in Claiming => at[u] = at'[u] /\ job'[u] = job[u] /\ at[u] = "finish"
    BY <1>4, <1>5, <1>7 DEF SameClaims, Claiming
  <2>2. "kernel" \in Claiming /\ "finish" \in Claiming
    BY DEF Claiming
  <2>. QED BY <1>1, <2>1, <2>2 DEF ParInv, Claims, RangesIn, parHistory
<1>9. ASSUME NEW q \in Passes PROVE PassState(q)'
  <2>1. \A s : Finishes(q, s)' <=> Finishes(q, s)
    BY <1>5, SameFinishes
  <2>2. q <= pass => remaining[q] = 0 /\ bad[q] = {}
    BY <1>2 DEF ParInv, PassState
  <2>. QED BY <1>1, <1>3, <1>6, <2>1, <2>2 DEF ParInv, PassState, barrierVars, parHistory
<1>10. Control'
  <2>1. \A u \in CallThreads : at'[u] \in Draining => Drained(job'[u])
    BY <1>4 DEF ParInv, Control, Draining, Claiming
  <2>2. at'[Calling] \in CallerLabels /\ \A v \in Pool : at'[v] \in WorkerLabels
    BY <1>1, <1>4 DEF ParInv, Control, CallerLabels, CallThreads
  <2>. QED BY <1>1, <1>4, <2>1, <2>2 DEF ParInv, Control, Drained
<1>11. CallerKnows'
  BY <1>3, <1>4 DEF CallerKnows
<1>12. PlanState' /\ MapState'
  BY <1>1 DEF ParInv, PlanState, MapState, parHistory
<1>13. ParTypeOK'
  BY <1>1, <1>3, <1>4, <1>8 DEF ParInv, ParTypeOK, Claims, Claiming, barrierVars, parHistory
<1>. QED BY <1>8, <1>9, <1>10, <1>11, <1>12, <1>13 DEF ParInv

(* A new pass: how it is cut. *)
LEMMA PlanPair ==
    ASSUME NEW count \in Counts, Plan(count) # NoPlan
    PROVE  /\ Plan(count) = <<Plan(count)[1], Plan(count)[2]>>
           /\ Plan(count)[1] \in Nat /\ Plan(count)[1] > 1 /\ Plan(count)[2] \in Nat
<1>. DEFINE m == par_map_min_chunk(IN_STRIDE, OUT_STRIDE, WORK_WEIGHT)
            R == RangesOf(count, PoolSize, m)
            P == PerOf(count, R)
<1>1. Plan(count) = <<R, P>>
  BY DEF Plan, par_map_execution_plan, par_map_plan, m
<1>2. count \in Nat \ {0} /\ 0 \in 0..(count - 1) /\ PoolSize \in Nat /\ Grain(Plan(count), PoolSize)
  BY PlansHold
<1>3. Plan(count)[1] \in Nat \ {0} /\ Plan(count)[2] \in Nat \ {0}
  BY <1>2, EveryElement
<1>4. Plan(count)[1] \in 2..PoolSize
  BY <1>2 DEF Grain
<1>. HIDE DEF R, P
<1>. QED BY <1>1, <1>2, <1>3, <1>4

(* Nobody is inside the previous pass when the next one starts. *)
LEMMA StartPassStep ==
    ASSUME ParInv, at[Calling] \in {"user", "passdone"},
           NEW kind \in {"map", "count", "scatter", "reduce"}, NEW count \in Counts,
           StartPass(kind, count), call'.count = count, MapState'
    PROVE  ParInv'
<1>. DEFINE p == pass + 1
            plan == Plan(count)
            n == IF plan = NoPlan THEN 1 ELSE plan[1]
            width == IF plan = NoPlan THEN count ELSE plan[2]
            next == IF plan = NoPlan THEN "alone" ELSE "notify"
            DrainedNext(q) == q \in 1..pass' /\ ranges'[q] > 1
<1>1. /\ p \in Passes /\ pass' = p /\ role' = [role EXCEPT ![p] = kind] /\ ranges' = [ranges EXCEPT ![p] = n]
      /\ per' = [per EXCEPT ![p] = width] /\ remaining' = [remaining EXCEPT ![p] = n]
      /\ live' = [q \in Passes |-> q = p] /\ job' = [job EXCEPT ![Calling] = p]
      /\ jobs' = jobs \o [k \in 1..(n - 1) |-> p] /\ owed' = n - 1
      /\ at' = [at EXCEPT ![Calling] = next]
      /\ UNCHANGED <<next_range, range_panic, range, failed, parHistory>>
  BY DEF StartPass
<1>2. /\ n \in Nat /\ n >= 1 /\ width \in Nat /\ (plan # NoPlan => n > 1 /\ plan = <<n, width>>)
      /\ (plan = NoPlan => n = 1 /\ width = count)
  BY PlanPair, PlansHold
<1>3. next \in {"alone", "notify"} /\ (next = "alone" => n = 1) /\ (next = "notify" => n > 1)
  BY <1>2
<1>. HIDE DEF next, n, width, plan
<1>4. /\ pass \in Nat /\ MaxPasses \in Nat /\ 1..pass \subseteq Passes /\ p = pass + 1 /\ p \in Nat /\ p > pass /\ p >= 1
      /\ Calling \in CallThreads /\ Calling \notin Pool
      /\ at \in [CallThreads -> CallerLabels \cup WorkerLabels] /\ job \in [CallThreads -> Passes \cup {NoPass}]
  BY PassBound, ParMapAssumption DEF ParInv, Control, ParTypeOK, CallThreads
<1>. HIDE DEF p
<1>5. /\ ranges \in [Passes -> Nat] /\ remaining \in [Passes -> Nat] /\ per \in [Passes -> Nat]
      /\ role \in [Passes -> {"map", "count", "scatter", "reduce"}] /\ jobs \in Seq(Passes)
  BY DEF ParInv, ParTypeOK
<1>6. /\ ranges' \in [Passes -> Nat] /\ ranges'[p] = n /\ \A q \in Passes \ {p} : ranges'[q] = ranges[q]
      /\ remaining' \in [Passes -> Nat] /\ remaining'[p] = n /\ \A q \in Passes \ {p} : remaining'[q] = remaining[q]
  BY <1>1, <1>2, <1>5
<1>7. /\ per' \in [Passes -> Nat] /\ per'[p] = width /\ role' \in [Passes -> {"map", "count", "scatter", "reduce"}]
  BY <1>1, <1>2, <1>5
<1>8. live' \in [Passes -> BOOLEAN] /\ \A q \in Passes : live'[q] <=> q = p
  BY <1>1
<1>9. /\ job' \in [CallThreads -> Passes \cup {NoPass}] /\ job'[Calling] = p
      /\ \A u \in CallThreads \ {Calling} : job'[u] = job[u]
      /\ at' \in [CallThreads -> CallerLabels \cup WorkerLabels] /\ at'[Calling] = next
      /\ \A u \in CallThreads \ {Calling} : at'[u] = at[u]
  BY <1>1, <1>3, <1>4 DEF CallerLabels
<1>10. /\ next_range[p] = 0 /\ ranges[p] = 0 /\ ran[p] = {} /\ bad[p] = {} /\ range_panic[p] = NoRange
  BY <1>1, <1>4 DEF ParInv, PassState
<1>11. ASSUME NEW q \in Passes, q <= pass PROVE remaining[q] = 0 /\ bad[q] = {}
  <2>1. CASE live[q]
    <3>1. q = pass /\ at[Calling] = "passdone"
      BY <2>1 DEF ParInv, PassState, CallerKnows
    <3>. QED BY <3>1 DEF ParInv, CallerKnows
  <2>2. CASE ~live[q]
    BY <1>11, <2>2, ReturnedDone
  <2>. QED BY <2>1, <2>2
<1>12. ASSUME NEW u \in CallThreads, at[u] \in Claiming PROVE FALSE
  <2>1. job[u] \in 1..pass
    BY <1>12 DEF ParInv, Control, Draining, Drained
  <2>2. job[u] \in Passes /\ job[u] <= pass
    BY <1>4, <2>1
  <2>. QED BY <1>11, <1>12, <2>2, NothingLeft
<1>13. \A u \in CallThreads : at'[u] \notin Claiming /\ at[u] \notin Claiming
  BY <1>3, <1>9, <1>12 DEF Claiming
<1>14. Claims'
  BY <1>13 DEF Claims, Claiming
<1>15. \A q, s : ~Finishes(q, s) /\ ~Finishes(q, s)'
  BY <1>13 DEF Finishes, Claiming
<1>16. ASSUME NEW q \in Passes PROVE PassState(q)'
  <2>1. CASE q = p
    <3>1. RangesIn(q)' = 0..(n - 1) /\ Unfinished(q)' = 0..(n - 1)
      BY <1>1, <1>6, <1>10, <2>1 DEF RangesIn, Unfinished, parHistory
    <3>2. Cardinality(0..(n - 1)) = n
      <4>1. 0 \in Int /\ n - 1 \in Int
        BY <1>2
      <4>2. Cardinality(0..(n - 1)) = IF 0 > n - 1 THEN 0 ELSE (n - 1) - 0 + 1
        BY <4>1, FS_Interval
      <4>. QED BY <1>2, <4>2
    <3>. QED BY <1>1, <1>4, <1>6, <1>8, <1>10, <2>1, <3>1, <3>2 DEF PassState, parHistory
  <2>2. CASE q # p
    <3>1. RangesIn(q)' = RangesIn(q) /\ Unfinished(q)' = Unfinished(q)
      BY <1>1, <1>6, <1>15, <2>2 DEF RangesIn, Unfinished, parHistory
    <3>2. (q > pass' => q > pass) /\ (q <= pass' => q <= pass)
      <4>1. q \in Nat
        BY DEF Passes
      <4>. QED BY <1>1, <1>4, <2>2, <4>1
    <3>3. ~live'[q]
      BY <1>8, <2>2
    <3>. QED BY <1>1, <1>6, <1>11, <1>15, <2>2, <3>1, <3>2, <3>3 DEF ParInv, PassState, parHistory
  <2>. QED BY <2>1, <2>2
<1>17. ASSUME NEW q, Drained(q) PROVE DrainedNext(q)
  <2>1. q \in 1..pass /\ q # p /\ q \in Passes /\ q \in 1..pass'
    BY <1>1, <1>4, <1>17 DEF Drained
  <2>. QED BY <1>6, <1>17, <2>1 DEF Drained
<1>. HIDE DEF DrainedNext
<1>18. jobs' \in Seq(Passes) /\ \A i \in 1..Len(jobs') : DrainedNext(jobs'[i])
  <2>. DEFINE new == [k \in 1..(n - 1) |-> p]
  <2>1. n - 1 \in Nat /\ new \in Seq(Passes) /\ Len(new) = n - 1 /\ \A k \in 1..(n - 1) : new[k] = p
    <3>1. n - 1 \in Nat
      BY <1>2
    <3>2. new \in [1..(n - 1) -> Passes]
      BY <1>1
    <3>3. new \in Seq(Passes) /\ Len(new) = n - 1
      BY <3>1, <3>2, LenProperties
    <3>. QED BY <3>1, <3>3
  <2>. HIDE DEF new
  <2>2. /\ jobs \o new \in Seq(Passes) /\ Len(jobs \o new) = Len(jobs) + (n - 1) /\ Len(jobs) \in Nat
        /\ \A i \in 1..(Len(jobs) + (n - 1)) :
             (jobs \o new)[i] = IF i <= Len(jobs) THEN jobs[i] ELSE new[i - Len(jobs)]
    <3>1. Len(jobs) \in Nat /\ jobs \o new \in Seq(Passes) /\ Len(jobs \o new) = Len(jobs) + (n - 1)
      <4>1. Len(jobs) \in Nat
        BY <1>5, LenProperties
      <4>2. jobs \o new \in Seq(Passes) /\ Len(jobs \o new) = Len(jobs) + Len(new)
        BY ONLY <1>5, <2>1, ConcatProperties
      <4>. QED BY <2>1, <4>1, <4>2
    <3>2. \A i \in 1..(Len(jobs) + Len(new)) :
            (jobs \o new)[i] = IF i <= Len(jobs) THEN jobs[i] ELSE new[i - Len(jobs)]
      BY <1>5, <2>1, ConcatProperties
    <3>. QED BY <2>1, <3>1, <3>2
  <2>3. jobs' = jobs \o new
    BY <1>1 DEF new
  <2>4. ASSUME NEW i \in 1..Len(jobs') PROVE DrainedNext(jobs'[i])
    <3>1. CASE i <= Len(jobs)
      <4>1. jobs'[i] = jobs[i] /\ i \in 1..Len(jobs)
        BY <2>1, <2>2, <2>3, <3>1
      <4>2. Drained(jobs[i])
        BY <4>1 DEF ParInv, Control
      <4>. QED BY <1>17, <4>1, <4>2
    <3>2. CASE i > Len(jobs)
      <4>1. i - Len(jobs) \in 1..(n - 1)
        BY <2>1, <2>2, <2>3, <3>2
      <4>2. jobs'[i] = p /\ n > 1
        <5>1. jobs'[i] = new[i - Len(jobs)]
          BY <2>2, <2>3, <3>2
        <5>2. i - Len(jobs) >= 1 /\ i - Len(jobs) <= n - 1 /\ i - Len(jobs) \in Int /\ n \in Nat
          BY <1>2, <4>1
        <5>. QED BY <2>1, <4>1, <5>1, <5>2
      <4>3. p \in 1..pass' /\ ranges'[p] > 1
        BY <1>1, <1>4, <1>6, <4>2
      <4>. QED BY <4>2, <4>3 DEF DrainedNext
    <3>. QED BY <2>2, <3>1, <3>2
  <2>. QED BY <2>2, <2>3, <2>4
<1>19. Control'
  <2>1. ASSUME NEW u \in CallThreads, at'[u] \in Draining PROVE DrainedNext(job'[u])
    <3>1. u # Calling
      BY <1>3, <1>9, <2>1 DEF Draining, Claiming
    <3>2. Drained(job[u]) /\ job'[u] = job[u]
      BY <1>9, <2>1, <3>1 DEF ParInv, Control
    <3>. QED BY <1>17, <3>2
  <2>2. at'[Calling] \in CallerLabels /\ \A v \in Pool : at'[v] \in WorkerLabels
    BY <1>3, <1>4, <1>9 DEF ParInv, Control, CallerLabels, CallThreads
  <2>. QED BY <1>9, <1>18, <2>1, <2>2 DEF Control, Drained, DrainedNext
<1>20. CallerKnows'
  <2>1. ranges'[pass'] = n /\ live'[pass'] /\ job'[Calling] = pass' /\ pass' >= 1 /\ ran'[pass'] = {} /\ bad'[pass'] = {}
    BY <1>1, <1>4, <1>6, <1>8, <1>9, <1>10 DEF parHistory
  <2>2. next = "notify" => n > 1 /\ owed' >= 1
    BY <1>1, <1>2, <1>3
  <2>. QED BY <1>3, <1>9, <2>1, <2>2 DEF CallerKnows
<1>21. PlanState'
  <2>1. ranges'[pass'] = n /\ per'[pass'] = width
    BY <1>1, <1>6, <1>7
  <2>. QED BY <1>2, <2>1 DEF PlanState, plan
<1>22. ParTypeOK'
  <2>1. owed' \in Nat /\ pass' \in 0..MaxPasses
    BY <1>1, <1>2, <1>4 DEF Passes
  <2>. QED BY <1>1, <1>6, <1>7, <1>8, <1>9, <1>13, <1>18, <2>1 DEF ParInv, ParTypeOK, Claiming, parHistory
<1>. QED BY <1>14, <1>16, <1>19, <1>20, <1>21, <1>22 DEF ParInv

LEMMA BeginStep ==
    ASSUME ParInv, NEW kind \in {"map", "filter", "reduce"}, NEW count \in Counts,
           NEW keep \in SUBSET (0..(count - 1)), Begin(kind, count, keep)
    PROVE  ParInv'
<1>. DEFINE first == IF kind = "filter" THEN "count" ELSE kind
<1>1. /\ at[Calling] = "user" /\ StartPass(first, count) /\ first \in {"map", "count", "scatter", "reduce"}
      /\ call' = [kind |-> kind, count |-> count, keep |-> keep]
      /\ out' = IF kind = "map" THEN [e \in 0..(count - 1) |-> Uninit] ELSE <<>>
  BY DEF Begin
<1>2. call'.kind = kind /\ call'.count = count
  BY <1>1
<1>3. MapState'
  <2>1. SUFFICES ASSUME kind = "map"
                 PROVE  pass' >= 1 /\ role'[pass'] = "map" /\ out' \in [0..(count - 1) -> Int] /\ ran'[pass'] = {}
    BY <1>2 DEF MapState
  <2>2. pass' = pass + 1 /\ pass' \in Passes /\ role' = [role EXCEPT ![pass + 1] = "map"] /\ ran' = ran
    BY <1>1, <2>1 DEF StartPass, parHistory
  <2>3. pass \in Nat /\ role \in [Passes -> {"map", "count", "scatter", "reduce"}]
    BY PassBound DEF ParInv, ParTypeOK
  <2>4. ran[pass + 1] = {}
    BY <2>2, <2>3 DEF ParInv, PassState
  <2>5. out' \in [0..(count - 1) -> Int]
    BY <1>1, <2>1 DEF Uninit
  <2>. QED BY <2>2, <2>3, <2>4, <2>5
<1>. QED BY <1>1, <1>2, <1>3, StartPassStep

LEMMA StartScatterStep ==
    ASSUME ParInv, StartScatter
    PROVE  ParInv'
<1>1. at[Calling] = "passdone" /\ role[pass] = "count" /\ StartPass("scatter", call.count) /\ UNCHANGED call
  BY DEF StartScatter
<1>2. call.count \in Counts
  BY <1>1 DEF ParInv, CallerKnows, PlanState
<1>3. MapState'
  BY <1>1 DEF ParInv, MapState
<1>. QED BY <1>1, <1>2, <1>3, StartPassStep

LEMMA ParStutter ==
    ASSUME ParInv, UNCHANGED parVars
    PROVE  ParInv'
<1>. USE DEF parVars, passVars, barrierVars, bufferVars, parHistory
<1>1. SameClaims
  BY DEF SameClaims
<1>2. next_range' \in [Passes -> Nat] /\ \A p \in Passes : next_range'[p] >= next_range[p]
  BY DEF ParInv, ParTypeOK
<1>3. Claims' /\ (\A p \in Passes : PassState(p)') /\ PlanState' /\ MapState'
  BY <1>1, <1>2, PassBound, QuietFrame
<1>4. Control' /\ CallerKnows'
  BY DEF ParInv, Control, CallerKnows, Drained
<1>5. ParTypeOK'
  BY DEF ParInv, ParTypeOK, RangesIn
<1>. QED BY <1>3, <1>4, <1>5 DEF ParInv

(* The inductive step, one case per action. *)
LEMMA ParInvStep == ParInv /\ [ParNext]_parVars => ParInv'
<1>. SUFFICES ASSUME ParInv, [ParNext]_parVars PROVE ParInv'
  OBVIOUS
<1>1. CASE UNCHANGED parVars
  BY <1>1, ParStutter
<1>2. CASE CallMade
  BY <1>2, BeginStep DEF CallMade
<1>3. CASE NotifyHelpers
  BY <1>3, NotifyHelpersStep
<1>4. CASE Barrier
  BY <1>4, BarrierStep
<1>5. CASE Return
  BY <1>5, ReturnStep
<1>6. CASE StartScatter
  BY <1>6, StartScatterStep
<1>7. CASE \E ok \in BOOLEAN : RunAlone(ok)
  BY <1>7, RunAloneStep
<1>8. CASE \E w \in Pool : TakeJob(w)
  BY <1>8, TakeJobStep
<1>9. ASSUME NEW t \in CallThreads, DrainRanges(t) \/ SpuriousUnpark(t) PROVE ParInv'
  <2>1. CASE Fetch(t)
    BY <2>1, FetchLeaves, FetchClaims
  <2>2. CASE Finish(t)
    BY <2>2, FinishStep
  <2>3. CASE Wake(t)
    BY <2>3, WakeStep
  <2>4. CASE \E ok \in BOOLEAN : Kernel(t, ok)
    BY <2>4, KernelStep
  <2>5. CASE SpuriousUnpark(t)
    BY <2>5, SpuriousUnparkStep
  <2>. QED BY <1>9, <2>1, <2>2, <2>3, <2>4, <2>5 DEF DrainRanges
<1>. QED BY <1>1, <1>2, <1>3, <1>4, <1>5, <1>6, <1>7, <1>8, <1>9 DEF ParNext, ParStep, CallerStep

(* The invariant of run_par_map_ranges_with_output and drain_par_map holds *)
(* for every pool, call and number of passes.                              *)
THEOREM ParInvariant == ParSpec => []ParInv
<1>1. ParInit => ParInv
  BY ParInitInv
<1>2. ParInv /\ [ParNext]_parVars => ParInv'
  BY ParInvStep
<1>. QED BY <1>1, <1>2, PTL DEF ParSpec

(* Every data-parallel call is exact, for every pool, plan and sequence of *)
(* calls: the ranges that par_map_execution_plan cuts partition the call,  *)
(* none runs twice or in a pass that has returned, a pass returns when all *)
(* have run, a returned map has every element, and the panic resumed is    *)
(* the lowest range's.                                                     *)
THEOREM CallsAreExact == ParSpec => []CallsExact
<1>1. ParInv => CallsExact
  BY InvMeans
<1>. QED BY <1>1, ParInvariant, PTL

=============================================================================
