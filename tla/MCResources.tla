---------------------------- MODULE MCResources -----------------------------
(***************************************************************************)
(* Instances of the resources a running program owns for TLC: the signal   *)
(* subscription, the child processes and the database connections.  They   *)
(* share no state, so their interleavings say nothing: each behaviour runs *)
(* one part and leaves the others in their initial states.                 *)
(***************************************************************************)
EXTENDS SignalLease, ProcessScope, DbPool, TLC

CONSTANTS Parts,          \* the parts a run covers
          t1, t2,         \* interchangeable clients, or scopes
          p1, p2, p3,     \* handler invocations, process ids or connections
          c1, c2          \* ordinary owners of a child

VARIABLE part

sigVars == vars
resVars == <<part, sigVars, scopeVars, poolVars>>

(***************************************************************************)
(* Each part on its own.                                                   *)
(***************************************************************************)
ResInit == part \in Parts /\ Init /\ ScopeInit /\ PoolInit

SignalStep ==
    /\ part = "signals"
    /\ Next
    /\ UNCHANGED <<part, scopeVars, poolVars>>

ProcStep ==
    /\ part = "procs"
    /\ ScopeNext
    /\ UNCHANGED <<part, sigVars, poolVars>>

DbStep ==
    /\ part = "dbpool"
    /\ PoolNext
    /\ UNCHANGED <<part, sigVars, scopeVars>>

ResNext == SignalStep \/ ProcStep \/ DbStep

ResSpec == ResInit /\ [][ResNext]_resVars

Symmetric == Permutations({t1, t2}) \cup Permutations({p1, p2})
=============================================================================
