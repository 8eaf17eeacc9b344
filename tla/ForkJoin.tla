------------------------------ MODULE ForkJoin ------------------------------
(***************************************************************************)
(* What a `task_group` promises its caller, with no scheduler in sight:    *)
(* spawned tasks finish in any order, `wait` answers only when every task  *)
(* of its generation has finished and then names the lowest-index failure, *)
(* and the group's storage is released once, after the last task.          *)
(* TaskGroup implements this specification.                                *)
(***************************************************************************)
EXTENDS Naturals

CONSTANTS MaxGens,    \* bound on the generations (waits with work) of a group
          MaxTasks    \* bound on the tasks registered in one generation

Gens == 1..MaxGens
Indices == 0..(MaxTasks - 1)
Outcomes == {"ok", "err", "panic"}      \* what one trampoline call can do
Unrun == "unrun"
Null == MaxTasks                        \* "no index": null error, no panic
NoAnswer == <<"none", Null>>

VARIABLES spawned,    \* [Gens -> 0..MaxTasks], tasks registered so far
          outcome,    \* [Gens -> [Indices -> Outcomes or Unrun]]
          answer,     \* [Gens -> NoAnswer or <<kind, index>>]
          arena       \* "live" or "freed": environments, result and error slots

vars == <<spawned, outcome, answer, arena>>

Failing(out, kind) == {i \in Indices : out[i] = kind}

Lowest(S) == IF S = {} THEN Null ELSE CHOOSE i \in S : \A j \in S : i <= j

(* A panic payload is resumed in preference to any error slot. *)
AnswerOf(out) ==
    IF Failing(out, "panic") # {}
      THEN <<"panic", Lowest(Failing(out, "panic"))>>
      ELSE <<"slot", Lowest(Failing(out, "err"))>>

Init == /\ spawned = [g \in Gens |-> 0]
        /\ outcome = [g \in Gens |-> [i \in Indices |-> Unrun]]
        /\ answer = [g \in Gens |-> NoAnswer]
        /\ arena = "live"

Spawn(g) == /\ arena = "live"
            /\ answer[g] = NoAnswer
            /\ spawned[g] < MaxTasks
            /\ spawned' = [spawned EXCEPT ![g] = @ + 1]
            /\ UNCHANGED <<outcome, answer, arena>>

Finish(g, i, o) == /\ arena = "live"
                   /\ answer[g] = NoAnswer
                   /\ i < spawned[g]
                   /\ outcome[g][i] = Unrun
                   /\ outcome' = [outcome EXCEPT ![g][i] = o]
                   /\ UNCHANGED <<spawned, answer, arena>>

Join(g) == /\ arena = "live"
           /\ answer[g] = NoAnswer
           /\ spawned[g] > 0
           /\ \A i \in Indices : i < spawned[g] => outcome[g][i] # Unrun
           /\ answer' = [answer EXCEPT ![g] = AnswerOf(outcome[g])]
           /\ UNCHANGED <<spawned, outcome, arena>>

Reclaim == /\ arena = "live"
           /\ \A g \in Gens : spawned[g] > 0 => answer[g] # NoAnswer
           /\ arena' = "freed"
           /\ UNCHANGED <<spawned, outcome, answer>>

Next == \/ \E g \in Gens : Spawn(g) \/ Join(g)
        \/ \E g \in Gens, i \in Indices, o \in Outcomes : Finish(g, i, o)
        \/ Reclaim

Spec == Init /\ [][Next]_vars
=============================================================================
