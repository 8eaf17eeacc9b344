----------------------------- MODULE ParMapPlan -----------------------------
(***************************************************************************)
(* The arithmetic of a `par_map` call in crates/align_runtime/src/lib.rs:  *)
(* when a call is worth the pool, into how many ranges it is cut, which    *)
(* elements each range covers, and where the stable filter writes each     *)
(* range's survivors.                                                      *)
(***************************************************************************)
EXTENDS Integers

CONSTANTS PAR_MIN_CHUNK,         \* 65536 in the runtime
          PAR_MAX_WORK_WEIGHT    \* 4 in the runtime

ASSUME ParMapPlanAssumption ==
    /\ PAR_MIN_CHUNK \in Nat \ {0}
    /\ PAR_MAX_WORK_WEIGHT \in Nat \ {0}

PAR_MIN_WORK_BYTES == PAR_MIN_CHUNK * 16

MaxOf(a, b) == IF a >= b THEN a ELSE b
MinOf(a, b) == IF a <= b THEN a ELSE b

div_ceil(a, b) == (a + b - 1) \div b

(* The scheduler floor, in elements, for an element width and body hint.   *)
par_map_min_chunk(in_stride, out_stride, work_weight) ==
    LET weight == MinOf(IF work_weight > 0 THEN work_weight ELSE 1,
                        PAR_MAX_WORK_WEIGHT)
        bytes == MaxOf(in_stride + out_stride, 1)
        floor == IF bytes <= 16 THEN PAR_MIN_CHUNK
                 ELSE div_ceil(PAR_MIN_CHUNK, bytes)
    IN MaxOf(MaxOf(div_ceil(PAR_MIN_WORK_BYTES \div weight, bytes), floor), 1)

NoPlan == <<0, 0>>       \* None: the caller runs the whole range itself

(* The grain picks the number of ranges. *)
RangesOf(count, workers, min_chunk) ==
    div_ceil(count, MaxOf(div_ceil(count, workers), min_chunk))

(* ... and the elements are redistributed evenly over them. *)
PerOf(count, ranges) == div_ceil(count, ranges)

par_map_plan(count, workers, min_chunk) ==
    LET ranges == RangesOf(count, workers, min_chunk)
    IN IF ranges > 1 THEN <<ranges, PerOf(count, ranges)>> ELSE NoPlan

(* Small calls and one-worker hosts never wake the pool. *)
par_map_execution_plan(count, in_stride, out_stride, work_weight, workers) ==
    LET min_chunk == par_map_min_chunk(in_stride, out_stride, work_weight)
    IN IF count <= min_chunk \/ workers <= 1 THEN NoPlan
       ELSE par_map_plan(count, workers, min_chunk)

(* The half-open element range r covers; the last one is cut at count. *)
RangeStart(r, per) == r * per
RangeEnd(r, per, count) == MinOf(r * per + per, count)
Elements(r, per, count) == RangeStart(r, per)..(RangeEnd(r, per, count) - 1)
-----------------------------------------------------------------------------
(* Properties *)

(* A pooled plan gives every range at least one element, no two ranges an  *)
(* element in common, and every element a range: ranges rounded up twice   *)
(* neither leave an empty tail range nor a lost element.                   *)
Partition(count, plan) ==
    LET Ranges == 0..(plan[1] - 1)
    IN plan # NoPlan =>
         /\ \A r \in Ranges :
               RangeStart(r, plan[2]) < RangeEnd(r, plan[2], count)
         /\ \A r \in Ranges :
               RangeEnd(r, plan[2], count) <= count
         /\ \A r, q \in Ranges :
               r < q => RangeEnd(r, plan[2], count) <= RangeStart(q, plan[2])
         /\ RangeStart(0, plan[2]) = 0
         /\ RangeEnd(plan[1] - 1, plan[2], count) = count
         /\ \A r \in Ranges :
               r + 1 \in Ranges =>
                  RangeEnd(r, plan[2], count) = RangeStart(r + 1, plan[2])

(* A pooled call has at least two ranges and no more than the pool has     *)
(* workers, so its helpers never crowd out another call's.                 *)
Grain(plan, workers) == plan # NoPlan => plan[1] \in 2..workers
=============================================================================
