----------------------------- MODULE BuildProofs -----------------------------
(***************************************************************************)
(* Proofs about the two steps that end a build: CodegenPipeline, for any   *)
(* number of units and of jobs and whatever the cache, the setup and       *)
(* codegen make of each unit, and LinkPublish, for any calls, streams,     *)
(* faults, stray writes and foreign files.                                 *)
(*                                                                         *)
(* PipelineRight is not inductive.  That a verdict does not depend on the  *)
(* schedule needs to know where every unit is: Owned keeps it in one place *)
(* and ties that place to its object, Covered says that a unit offered to  *)
(* the queue is in some place as long as nothing cancelled the pool, Fifo  *)
(* that units are taken in the order of the walk.  Walked records what the *)
(* coordinator knows of the units behind it, PoolShape what the threads    *)
(* and the counters of the queue say of each other.                        *)
(*                                                                         *)
(* LinkRight is not inductive either.  Captured ties the position of a     *)
(* call to the lease and to its child, Reported says that a call without a *)
(* fault behind the pump has read all its tool printed, Named which files  *)
(* the stage names stand for.  That the executable is what the output was  *)
(* at one moment is Copied: bytes a stray write puts into the output are   *)
(* new, so a place at which a later reading agrees with the first agreed   *)
(* at the moment the first reading ended.                                  *)
(***************************************************************************)
EXTENDS CodegenPipeline, LinkPublish, FiniteSetTheorems, SequenceTheorems,
        WellFoundedInduction, TLAPS

-----------------------------------------------------------------------------
(***************************************************************************)
(* Where a unit is.                                                        *)
(***************************************************************************)
Working == {"emit", "post", "unwind"}
Busy == {w \in Workers : wpc[w] \in Working}
Queued(u) == \E i \in DOMAIN tasks : tasks[i] = u
Holds(w, u) == wpc[w] \in {"emit", "unwind"} /\ task[w] = u
Held(u) == \E w \in Workers : Holds(w, u)
Resulted(u) == \E r \in results : r.unit = u
Taken(u) == Held(u) \/ Resulted(u)
AtEnd == coord \in {"join", "returned"}

(* The coordinator has offered u to the queue: in the walk what it         *)
(* lowered, behind the walk what it rehydrated.                            *)
Offered(u) ==
    \/ kind[u] = "fresh" /\ ~(coord = "enqueue" /\ u = cur)
    \/ /\ kind[u] = "reused"
       /\ \/ AtEnd
          \/ coord \in {"deferred", "requeue"} /\ u < cur
          \/ coord = "regrow" /\ u <= cur

(***************************************************************************)
(* The parts of the invariant.                                             *)
(***************************************************************************)

(* The pool: spawned threads fill the slots in order, a thread has a task  *)
(* while it works on one, and whoever stops serving leaves no task behind  *)
(* unless the pool is cancelled.                                           *)
PoolShape ==
    /\ \E n \in 0..BackgroundLimit : Spawned = 1..n
    /\ wpc[Coord] # "none" => AtEnd
    /\ coord = "join" /\ outcome = "none" => wpc[Coord] # "none"
    /\ \A w \in Workers : task[w] # 0 <=> wpc[w] \in Working
    /\ inflight = Cardinality(Busy)
    /\ closed <=> AtEnd
    /\ cancelled => tasks = <<>>
    /\ Panicked => cancelled
    /\ wpc[Coord] = "done" => tasks = <<>>
    /\ coord = "returned" => Joined

(* What the coordinator knows of the units behind it. *)
Walked ==
    /\ setup \in {"stage", "pgo"} => \A u \in Units : kind[u] = "none"
    /\ coord \in {"walk", "enqueue", "grow"} =>
         /\ \A u \in Units : (u > cur \/ (u = cur /\ coord = "walk")) => kind[u] = "none"
         /\ setup \notin {"stage", "pgo"} /\ ~KeyError => \A u \in Units : u < cur => kind[u] # "none"
    /\ coord \in {"enqueue", "grow"} => cur \in Units /\ kind[cur] = "fresh" /\ setup = "ok"
    /\ coord \in {"requeue", "regrow"} => cur \in Units /\ kind[cur] = "reused" /\ setup = "ok"
    /\ coord \in {"deferred", "requeue", "regrow"} => \A u \in Units : u < cur => kind[u] # "stale"
    /\ ~AtEnd => outcome = "none" /\ published = {} /\ blamed = 0
    /\ \/ coord \in {"deferred", "requeue", "regrow"}
       \/ AtEnd /\ outcome \in {"none", "stale", "target", "codegen", "complete"}
       => /\ setup \notin {"stage", "pgo"} /\ ~KeyError
          /\ \A u \in Units : kind[u] # "none"
    /\ AtEnd /\ outcome \in {"none", "target", "codegen", "complete"} => \A u \in Units : kind[u] # "stale"
    /\ AtEnd /\ outcome \in {"none", "codegen", "complete"} => setup = "ok"
    /\ outcome \in {"stage", "pgo"} => setup = outcome
    /\ outcome = "key" => KeyError
    /\ outcome = "target" => setup = "target"
    /\ outcome = "stale" => \E u \in Units : kind[u] = "stale"
    /\ coord = "join" => /\ outcome \in {"none", "frontend", "stage", "pgo", "key", "stale", "target"}
                         /\ published = {}

(* A unit is in one place, it is there for a reason, and its object says   *)
(* where.                                                                  *)
Owned ==
    /\ \A i, j \in DOMAIN tasks : tasks[i] = tasks[j] => i = j
    /\ \A w \in Workers : wpc[w] \in Working => task[w] \in Units
    /\ \A r \in results : r.ok <=> verdict[r.unit] = "ok"
    /\ \A v, w \in Workers : \A u \in Units : Holds(v, u) /\ Holds(w, u) => v = w
    /\ \A u \in Units :
         /\ Queued(u) \/ Taken(u) => Offered(u)
         /\ Queued(u) => ~Taken(u)
         /\ Held(u) => ~Resulted(u) /\ obj[u] = "torn"
         /\ Resulted(u) => verdict[u] # "panic"
         /\ obj[u] = "whole" <=> kind[u] = "hit" \/ [unit |-> u, ok |-> TRUE] \in results

(* The pool is cancelled for a reason; until it is, every unit offered is  *)
(* somewhere.                                                              *)
Covered ==
    /\ cancelled => KeyError \/ Failed # {} \/ Panicked \/ (AtEnd /\ outcome # "none")
    /\ ~cancelled /\ setup = "ok" => \A u \in Units : Offered(u) => Queued(u) \/ Taken(u)

(* Tasks are taken in the order of the walk. *)
NoneDeferred == \A u \in Units : kind[u] # "reused"
Fifo ==
    NoneDeferred /\ ~Panicked =>
        \A u, v \in Units : u < v /\ kind[u] = "fresh" =>
            /\ Taken(v) => Taken(u)
            /\ \A j \in DOMAIN tasks : tasks[j] = v => Taken(u) \/ \E i \in DOMAIN tasks : i < j /\ tasks[i] = u

(* What is returned. *)
Settled == CompleteIsWhole /\ PublishedAtCommit /\ Precedence /\ ChosenError

PipeInv == PipeTypeOK /\ PoolShape /\ Walked /\ Owned /\ Covered /\ Fifo /\ Settled

-----------------------------------------------------------------------------
(***************************************************************************)
(* What the invariant says of the properties.                              *)
(***************************************************************************)
LEMMA Sets ==
    /\ N \in Nat \ {0} /\ Jobs \in Nat \ {0} /\ BackgroundLimit \in Nat
    /\ Units = 1..N /\ Units \subseteq Nat /\ Coord \in Workers /\ Background \subseteq Workers
    /\ 0 \notin Units /\ Coord \notin Background
    /\ IsFiniteSet(Workers) /\ IsFiniteSet(Background)
    /\ Cardinality(Workers) \in Nat /\ Workers \subseteq Nat
<1>1. N \in Nat \ {0} /\ Jobs \in Nat \ {0} /\ BackgroundLimit \in Nat
  BY PipelineAssumption DEF BackgroundLimit
<1>2. IsFiniteSet(Background)
  BY <1>1, FS_Interval DEF Background
<1>3. IsFiniteSet(Background \cup {0})
  BY <1>2, FS_AddElement
<1>4. IsFiniteSet(Workers) /\ Cardinality(Workers) \in Nat
  <2>1. Workers = Background \cup {0}
    BY DEF Workers, Coord
  <2>. QED BY <1>3, <2>1, FS_CardinalityType
<1>. QED BY <1>1, <1>2, <1>4 DEF Units, Coord, Background, Workers

(* A set with at most one element counts at most one. *)
LEMMA AtMostOne ==
    ASSUME NEW S, \A x, y \in S : x = y
    PROVE  /\ IsFiniteSet(S) /\ Cardinality(S) \in {0, 1}
           /\ Cardinality(S) = 1 => S # {}
<1>1. CASE S = {}
  BY <1>1, FS_EmptySet
<1>2. CASE S # {}
  <2>1. PICK x : x \in S
    BY <1>2
  <2>2. S = {x}
    BY <2>1
  <2>. QED BY <2>2, FS_Singleton
<1>. QED BY <1>1, <1>2

LEMMA OwnersExclude ==
    ASSUME PipeTypeOK, Owned
    PROVE  OneOwner
<1>. SUFFICES ASSUME NEW u \in Units PROVE Places(u) <= 1
  BY DEF OneOwner
<1>. DEFINE Q == {i \in DOMAIN tasks : tasks[i] = u}
            H == {w \in Workers : task[w] = u /\ wpc[w] \in {"emit", "unwind"}}
            R == {r \in results : r.unit = u}
<1>1. IsFiniteSet(Q) /\ Cardinality(Q) \in {0, 1} /\ (Cardinality(Q) = 1 => Q # {})
  <2>1. \A i, j \in Q : i = j
    BY DEF Owned
  <2>. QED BY <2>1, AtMostOne
<1>2. IsFiniteSet(H) /\ Cardinality(H) \in {0, 1} /\ (Cardinality(H) = 1 => H # {})
  <2>1. \A v, w \in H : v = w
    BY DEF Owned, Holds
  <2>. QED BY <2>1, AtMostOne
<1>3. IsFiniteSet(R) /\ Cardinality(R) \in {0, 1} /\ (Cardinality(R) = 1 => R # {})
  <2>1. \A r, s \in R : r = s
    <3>. TAKE r, s \in R
    <3>1. r \in [unit : Units, ok : BOOLEAN] /\ s \in [unit : Units, ok : BOOLEAN]
      BY DEF PipeTypeOK
    <3>2. r.unit = s.unit /\ r.ok = s.ok
      BY <3>1 DEF Owned
    <3>. QED BY <3>1, <3>2
  <2>. QED BY <2>1, AtMostOne
<1>4. H # {} => Held(u)
  BY DEF Held, Holds
<1>5. R # {} => Resulted(u)
  BY DEF Resulted
<1>6. Q # {} => ~Held(u) /\ ~Resulted(u)
  BY DEF Owned, Taken, Queued
<1>7. Held(u) => ~Resulted(u)
  BY DEF Owned
<1>8. Places(u) = Cardinality(Q) + Cardinality(H) + Cardinality(R)
  BY DEF Places
<1>. HIDE DEF Q, H, R
<1>. QED BY <1>1, <1>2, <1>3, <1>4, <1>5, <1>6, <1>7, <1>8

LEMMA BudgetKept ==
    ASSUME PipeTypeOK, PoolShape
    PROVE  JobBudget
<1>1. PICK n \in 0..BackgroundLimit : Spawned = 1..n
  BY DEF PoolShape
<1>2. n \in Nat /\ n <= Jobs - 1
  BY Sets DEF BackgroundLimit
<1>3. IsFiniteSet(Spawned) /\ Cardinality(Spawned) = n
  BY <1>1, <1>2, FS_Interval
<1>4. IsFiniteSet(Spawned \cup {Coord}) /\ Cardinality(Spawned \cup {Coord}) <= n + 1
  BY <1>2, <1>3, FS_AddElement
<1>5. CASE AtEnd
  <2>1. Emitting \in SUBSET (Spawned \cup {Coord})
    BY DEF Emitting, Spawned, Workers
  <2>2. IsFiniteSet(Emitting) /\ Cardinality(Emitting) <= Cardinality(Spawned \cup {Coord})
    BY <1>4, <2>1, FS_Subset
  <2>3. Cardinality(Emitting) \in Nat /\ Cardinality(Spawned \cup {Coord}) \in Nat
    BY <1>4, <2>2, FS_CardinalityType
  <2>. QED BY <1>2, <1>4, <1>5, <2>2, <2>3, Sets DEF JobBudget, AtEnd
<1>6. CASE ~AtEnd
  <2>1. Emitting \in SUBSET Spawned
    BY <1>6 DEF Emitting, Spawned, Workers, PoolShape
  <2>2. IsFiniteSet(Emitting) /\ Cardinality(Emitting) <= n
    BY <1>3, <2>1, FS_Subset
  <2>3. Cardinality(Emitting) \in Nat
    BY <2>2, FS_CardinalityType
  <2>. QED BY <1>2, <1>6, <2>2, <2>3, Sets DEF JobBudget, AtEnd
<1>. QED BY <1>5, <1>6

LEMMA InvIsRight == PipeInv => PipelineRight
<1>. SUFFICES ASSUME PipeInv PROVE PipelineRight
  OBVIOUS
<1>1. NoDetachedWork
  <2>. SUFFICES ASSUME coord = "returned" PROVE inflight = 0 /\ Joined
    BY DEF NoDetachedWork, Joined
  <2>1. Joined
    BY DEF PipeInv, PoolShape
  <2>2. Busy = {}
    BY <2>1 DEF Busy, Joined, Ended, Working
  <2>. QED BY <2>1, <2>2, FS_EmptySet DEF PipeInv, PoolShape
<1>. QED BY <1>1, OwnersExclude, BudgetKept DEF PipeInv, PipelineRight, Settled

(***************************************************************************)
(* The first state.                                                        *)
(***************************************************************************)

(* Nothing has been started: the state of the first attempt and of the     *)
(* retry.                                                                  *)
Fresh ==
    /\ kind = [u \in Units |-> "none"]
    /\ coord = "walk" /\ cur = 1 /\ want = 0
    /\ tasks = <<>> /\ results = {} /\ inflight = 0
    /\ closed = FALSE /\ cancelled = FALSE
    /\ wpc = [w \in Workers |-> "none"]
    /\ task = [w \in Workers |-> 0]
    /\ obj = [u \in Units |-> "absent"]
    /\ published = {} /\ outcome = "none" /\ blamed = 0
    /\ verdict \in [Units -> {"ok", "err", "panic"}]
    /\ setup \in {"ok", "stage", "pgo", "target"} /\ attempt \in {1, 2}

LEMMA FreshInv == Fresh => PipeInv
<1>. SUFFICES ASSUME Fresh PROVE PipeInv
  OBVIOUS
<1>. USE DEF Fresh
<1>1. PipeTypeOK
  <2>1. /\ kind \in [Units -> KindSet \cup {"none"}] /\ obj \in [Units -> {"absent", "torn", "whole"}]
        /\ tasks \in Seq(Units)
    BY DEF KindSet
  <2>2. /\ wpc \in [Workers -> {"none", "top", "wait", "emit", "post", "unwind", "done", "dead"}]
        /\ task \in [Workers -> 0..N] /\ cur \in 1..(N + 1) /\ blamed \in 0..N
    BY Sets
  <2>. QED BY <2>1, <2>2 DEF PipeTypeOK
<1>2. /\ Spawned = {} /\ Busy = {} /\ ~Panicked /\ DOMAIN tasks = {} /\ ~KeyError /\ Failed = {}
      /\ \A w \in Workers : wpc[w] = "none" /\ task[w] = 0
      /\ \A u \in Units : kind[u] = "none" /\ obj[u] = "absent"
  <2>1. \A w \in Workers : wpc[w] = "none" /\ task[w] = 0
    OBVIOUS
  <2>2. \A u \in Units : kind[u] = "none" /\ obj[u] = "absent"
    OBVIOUS
  <2>3. Spawned = {} /\ Busy = {} /\ ~Panicked
    BY <2>1, Sets DEF Spawned, Busy, Working, Panicked
  <2>4. ~KeyError /\ Failed = {}
    BY <2>2 DEF KeyError, Failed
  <2>. QED BY <2>1, <2>2, <2>3, <2>4
<1>3. PoolShape
  <2>1. 1..0 = {} /\ 0 \in 0..BackgroundLimit
    BY Sets
  <2>2. \E n \in 0..BackgroundLimit : Spawned = 1..n
    BY <1>2, <2>1
  <2>. QED BY <1>2, <2>2, Sets, FS_EmptySet DEF PoolShape, AtEnd, Working
<1>4. Walked
  BY <1>2, Sets DEF Walked, AtEnd
<1>5. Owned
  BY <1>2 DEF Owned, Holds, Held, Resulted, Taken, Queued, Working
<1>6. Covered /\ Fifo
  BY <1>2 DEF Covered, Fifo, Offered
<1>7. Settled
  BY DEF Settled, CompleteIsWhole, PublishedAtCommit, Precedence, ChosenError
<1>. QED BY <1>1, <1>3, <1>4, <1>5, <1>6, <1>7 DEF PipeInv

LEMMA PipeInitInv == PipeInit => PipeInv
<1>. SUFFICES ASSUME PipeInit PROVE PipeInv
  OBVIOUS
<1>1. Fresh
  BY PipelineAssumption DEF PipeInit, Fresh
<1>. QED BY <1>1, FreshInv

(***************************************************************************)
(* What steps keep.                                                        *)
(***************************************************************************)
Resting == {"none", "top", "wait", "done"}

(* No thread takes a task, has a result or drops a claim. *)
Steady ==
    /\ \A w \in Workers : \/ wpc'[w] = wpc[w]
                          \/ wpc[w] \in Resting /\ wpc'[w] \in Resting
                          \/ wpc[w] = "emit" /\ wpc'[w] = "unwind"
    /\ task' = task /\ results' = results

LEMMA SteadyKeeps ==
    ASSUME Steady
    PROVE  /\ Busy' = Busy /\ (Panicked' <=> Panicked) /\ Failed' = Failed
           /\ \A w \in Workers, u \in Units : Holds(w, u)' <=> Holds(w, u)
           /\ \A u \in Units : /\ (Held(u)' <=> Held(u)) /\ (Resulted(u)' <=> Resulted(u))
                               /\ (Taken(u)' <=> Taken(u))
<1>1. \A w \in Workers : /\ wpc'[w] \in Working <=> wpc[w] \in Working
                         /\ wpc'[w] = "dead" <=> wpc[w] = "dead"
                         /\ wpc'[w] \in {"emit", "unwind"} <=> wpc[w] \in {"emit", "unwind"}
  BY DEF Steady, Working, Resting
<1>2. Busy' = Busy /\ (Panicked' <=> Panicked)
  BY <1>1 DEF Busy, Panicked
<1>3. \A w \in Workers, u \in Units : Holds(w, u)' <=> Holds(w, u)
  BY <1>1 DEF Holds, Steady
<1>4. ASSUME NEW u \in Units
      PROVE  (Held(u)' <=> Held(u)) /\ (Resulted(u)' <=> Resulted(u)) /\ (Taken(u)' <=> Taken(u))
  <2>1. Held(u)' <=> Held(u)
    BY <1>3 DEF Held
  <2>2. Resulted(u)' <=> Resulted(u)
    BY DEF Resulted, Steady
  <2>. QED BY <2>1, <2>2 DEF Taken
<1>5. Failed' = Failed
  BY DEF Failed, Steady
<1>. QED BY <1>2, <1>3, <1>4, <1>5

(* The queue is left alone or emptied. *)
Shrinks == tasks' = tasks \/ tasks' = <<>>

(* An object changes only when a hit brings it. *)
HitsOnly ==
    \A u \in Units : \/ obj'[u] = obj[u] /\ (kind'[u] = "hit" <=> kind[u] = "hit")
                     \/ kind[u] = "none" /\ kind'[u] = "hit" /\ obj'[u] = "whole"

LEMMA OwnedKeeps ==
    ASSUME PipeTypeOK, Owned, Steady, Shrinks, HitsOnly, verdict' = verdict,
           \A u \in Units : Offered(u) => Offered(u)'
    PROVE  Owned'
<1>1. \A i \in DOMAIN tasks' : i \in DOMAIN tasks /\ tasks'[i] = tasks[i]
  BY DEF Shrinks
<1>2. \A i, j \in DOMAIN tasks' : tasks'[i] = tasks'[j] => i = j
  BY <1>1 DEF Owned
<1>3. \A w \in Workers : wpc'[w] \in Working => task'[w] \in Units
  BY DEF Owned, Steady, Working, Resting
<1>4. \A r \in results' : r.ok <=> verdict'[r.unit] = "ok"
  BY DEF Owned, Steady
<1>5. \A v, w \in Workers : \A u \in Units : Holds(v, u)' /\ Holds(w, u)' => v = w
  BY SteadyKeeps DEF Owned
<1>6. ASSUME NEW u \in Units
      PROVE  /\ Queued(u)' \/ Taken(u)' => Offered(u)'
             /\ Queued(u)' => ~Taken(u)'
             /\ Held(u)' => ~Resulted(u)' /\ obj'[u] = "torn"
             /\ Resulted(u)' => verdict'[u] # "panic"
             /\ obj'[u] = "whole" <=> kind'[u] = "hit" \/ [unit |-> u, ok |-> TRUE] \in results'
  <2>1. Queued(u)' => Queued(u)
    BY <1>1 DEF Queued
  <2>2. Held(u) => kind[u] # "none"
    BY DEF Owned, Taken, Offered
  <2>3. /\ Queued(u) \/ Taken(u) => Offered(u)
        /\ Queued(u) => ~Taken(u)
        /\ Held(u) => ~Resulted(u) /\ obj[u] = "torn"
        /\ Resulted(u) => verdict[u] # "panic"
        /\ obj[u] = "whole" <=> kind[u] = "hit" \/ [unit |-> u, ok |-> TRUE] \in results
    BY DEF Owned
  <2>4. /\ (Held(u)' <=> Held(u)) /\ (Resulted(u)' <=> Resulted(u)) /\ (Taken(u)' <=> Taken(u))
        /\ results' = results
    BY SteadyKeeps DEF Steady
  <2>. QED BY <2>1, <2>2, <2>3, <2>4 DEF HitsOnly
<1>. QED BY <1>2, <1>3, <1>4, <1>5, <1>6 DEF Owned

LEMMA CoveredKeeps ==
    ASSUME PipeTypeOK, Covered, Steady,
           cancelled' => cancelled \/ KeyError' \/ (AtEnd' /\ outcome' # "none"),
           KeyError => KeyError', AtEnd /\ outcome # "none" => AtEnd' /\ outcome' # "none",
           ~cancelled' /\ setup' = "ok" =>
               /\ ~cancelled /\ setup = "ok" /\ tasks' = tasks
               /\ \A u \in Units : Offered(u)' => Offered(u)
    PROVE  Covered'
<1>1. cancelled' => KeyError' \/ Failed' # {} \/ Panicked' \/ (AtEnd' /\ outcome' # "none")
  BY SteadyKeeps DEF Covered
<1>2. ASSUME ~cancelled', setup' = "ok", NEW u \in Units, Offered(u)' PROVE Queued(u)' \/ Taken(u)'
  <2>1. Queued(u) \/ Taken(u)
    BY <1>2 DEF Covered
  <2>2. Queued(u) => Queued(u)'
    BY <1>2 DEF Queued
  <2>. QED BY <2>1, <2>2, SteadyKeeps
<1>. QED BY <1>1, <1>2 DEF Covered

LEMMA FifoKeeps ==
    ASSUME PipeTypeOK, Fifo, Steady, Shrinks, NoneDeferred' => NoneDeferred,
           \A u \in Units : kind'[u] = "fresh" =>
               kind[u] = "fresh" \/ \A v \in Units : u < v => ~Taken(v) /\ ~Queued(v)
    PROVE  Fifo'
<1>. SUFFICES ASSUME NoneDeferred', ~Panicked', NEW u \in Units, NEW v \in Units, u < v, kind'[u] = "fresh"
              PROVE  /\ Taken(v)' => Taken(u)'
                     /\ \A j \in DOMAIN tasks' : tasks'[j] = v =>
                          Taken(u)' \/ \E i \in DOMAIN tasks' : i < j /\ tasks'[i] = u
  BY DEF Fifo
<1>1. NoneDeferred /\ ~Panicked
  BY SteadyKeeps
<1>2. \A j \in DOMAIN tasks' : tasks' = tasks
  BY DEF Shrinks
<1>3. CASE kind[u] = "fresh"
  BY <1>1, <1>2, <1>3, SteadyKeeps DEF Fifo
<1>4. CASE ~Taken(v) /\ ~Queued(v)
  BY <1>2, <1>4, SteadyKeeps DEF Queued
<1>. QED BY <1>3, <1>4

(* Before a verdict is returned there is none. *)
LEMMA SettledEarly ==
    ASSUME PipeTypeOK', Walked', coord' # "returned"
    PROVE  Settled'
<1>1. outcome' \notin {"codegen", "complete"} /\ published' = {}
  BY DEF PipeTypeOK, Walked, AtEnd
<1>. QED BY <1>1 DEF Settled, CompleteIsWhole, PublishedAtCommit, Precedence, ChosenError

(***************************************************************************)
(* The steps of the coordinator.                                           *)
(***************************************************************************)
Threads == [Workers -> {"none", "top", "wait", "emit", "post", "unwind", "done", "dead"}]

(* Nothing happens to the threads but that some are woken. *)
Woken ==
    /\ wpc' \in Threads
    /\ \A w \in Workers : wpc'[w] = wpc[w] \/ (wpc[w] = "wait" /\ wpc'[w] = "top")

LEMMA NotifyWakes ==
    ASSUME PipeTypeOK, wpc' = NotifyAll(wpc) \/ wpc' = wpc
    PROVE  Woken
BY DEF PipeTypeOK, NotifyAll, Woken, Threads

LEMMA WokenKeeps ==
    ASSUME PipeTypeOK, Woken, task' = task, results' = results
    PROVE  Steady /\ Spawned' = Spawned /\ (wpc'[Coord] = "none" <=> wpc[Coord] = "none")
<1>1. Steady
  BY DEF Steady, Woken, Resting
<1>2. Spawned' = Spawned
  BY DEF Spawned, Woken, Workers
<1>. QED BY <1>1, <1>2, Sets DEF Woken

LEMMA PoolKeeps ==
    ASSUME PipeTypeOK, PoolShape, Woken, UNCHANGED <<task, results, inflight>>,
           ~AtEnd, coord' # "returned", closed' <=> AtEnd', cancelled' => tasks' = <<>>,
           cancelled => cancelled', coord' = "join" => outcome' # "none"
    PROVE  PoolShape'
<1>1. Steady /\ Spawned' = Spawned /\ wpc'[Coord] = "none"
  BY WokenKeeps DEF PoolShape
<1>2. \A w \in Workers : task'[w] # 0 <=> wpc'[w] \in Working
  BY <1>1 DEF PoolShape, Steady, Working, Resting
<1>3. inflight' = Cardinality(Busy)' /\ (Panicked' => cancelled')
  BY <1>1, SteadyKeeps DEF PoolShape
<1>. QED BY <1>1, <1>2, <1>3 DEF PoolShape

(* A step of the coordinator that puts nothing into the queue. *)
LEMMA CoordKeeps ==
    ASSUME PipeInv, Woken, UNCHANGED <<task, results, inflight, verdict, setup>>, PipeTypeOK', Walked',
           ~AtEnd, coord' # "returned", closed' <=> AtEnd', Shrinks, HitsOnly,
           cancelled' => tasks' = <<>>, cancelled => cancelled', coord' = "join" => outcome' # "none",
           \A u \in Units : Offered(u) => Offered(u)',
           cancelled' => cancelled \/ KeyError' \/ AtEnd',
           KeyError => KeyError',
           ~cancelled' /\ setup = "ok" => tasks' = tasks /\ \A u \in Units : Offered(u)' => Offered(u),
           NoneDeferred' => NoneDeferred,
           \A u \in Units : kind'[u] = "fresh" =>
               kind[u] = "fresh" \/ \A v \in Units : u < v => ~Taken(v) /\ ~Queued(v)
    PROVE  PipeInv'
<1>1. Steady
  BY WokenKeeps DEF PipeInv
<1>2. PoolShape'
  BY PoolKeeps DEF PipeInv
<1>3. Owned'
  BY <1>1, OwnedKeeps DEF PipeInv
<1>4. AtEnd' => outcome' # "none"
  BY DEF AtEnd
<1>5. Covered'
  BY <1>1, <1>4, CoveredKeeps DEF PipeInv
<1>6. Fifo'
  BY <1>1, FifoKeeps DEF PipeInv
<1>7. Settled'
  BY SettledEarly
<1>. QED BY <1>2, <1>3, <1>5, <1>6, <1>7 DEF PipeInv

(* The same when no unit is looked up. *)
LEMMA GiveUpStep ==
    ASSUME PipeInv, ~AtEnd, NEW why, NEW u, GiveUp(why, u),
           UNCHANGED <<verdict, setup, kind, cur, want, published, attempt>>,
           why # "none", PipeTypeOK', Walked'
    PROVE  PipeInv'
<1>1. Woken
  BY NotifyWakes DEF GiveUp, PipeInv
<1>2. /\ UNCHANGED <<task, results, inflight, obj>> /\ coord' = "join" /\ outcome' = why /\ AtEnd'
      /\ closed' = TRUE /\ cancelled' = TRUE /\ tasks' = <<>>
  BY DEF GiveUp, Cancelled, AtEnd
<1>3. \A v \in Units : Offered(v) => Offered(v)'
  BY <1>2 DEF Offered
<1>4. KeyError => KeyError'
  BY DEF KeyError
<1>5. NoneDeferred' => NoneDeferred
  BY DEF NoneDeferred
<1>6. Shrinks /\ HitsOnly
  BY <1>2 DEF Shrinks, HitsOnly
<1>. QED BY <1>1, <1>2, <1>3, <1>4, <1>5, <1>6, CoordKeeps

LEMMA GiveUpTypes ==
    ASSUME PipeTypeOK, NEW why, NEW u \in 0..N, GiveUp(why, u),
           UNCHANGED <<verdict, setup, kind, cur, want, published, attempt>>,
           why \in {"frontend", "stage", "pgo", "key", "stale", "target"}
    PROVE  PipeTypeOK'
<1>1. wpc' \in Threads
  BY NotifyWakes DEF GiveUp, Woken
<1>2. tasks' \in Seq(Units)
  BY DEF GiveUp, Cancelled
<1>. QED BY <1>1, <1>2 DEF PipeTypeOK, GiveUp, Cancelled, Threads

LEMMA FrontendFailsStep ==
    ASSUME PipeInv, FrontendFails
    PROVE  PipeInv'
<1>1. /\ coord = "walk" /\ ~AtEnd /\ GiveUp("frontend", 0)
      /\ UNCHANGED <<verdict, setup, kind, cur, want, published, attempt>> /\ 0 \in 0..N
  BY Sets DEF FrontendFails, AtEnd
<1>2. PipeTypeOK'
  BY <1>1, GiveUpTypes DEF PipeInv
<1>3. Walked'
  BY <1>1 DEF PipeInv, Walked, GiveUp, KeyError, AtEnd
<1>. QED BY <1>1, <1>2, <1>3, GiveUpStep

LEMMA StaleStep ==
    ASSUME PipeInv, Stale
    PROVE  PipeInv'
<1>1. /\ coord = "deferred" /\ ~AtEnd /\ GiveUp("stale", cur) /\ kind[cur] = "stale"
      /\ UNCHANGED <<verdict, setup, kind, cur, want, published, attempt>> /\ cur \in Units /\ cur \in 0..N
  BY Sets DEF Stale, AtEnd, Disagrees, PipeInv, PipeTypeOK
<1>2. PipeTypeOK'
  BY <1>1, GiveUpTypes DEF PipeInv
<1>3. Walked'
  BY <1>1 DEF PipeInv, Walked, GiveUp, KeyError, AtEnd
<1>. QED BY <1>1, <1>2, <1>3, GiveUpStep

LEMMA WalkEndsStep ==
    ASSUME PipeInv, WalkEnds
    PROVE  PipeInv'
<1>1. /\ coord = "walk" /\ ~AtEnd /\ cur = N + 1 /\ 0 \in 0..N
      /\ UNCHANGED <<verdict, setup, kind, want, published, attempt>>
  BY Sets DEF WalkEnds, AtEnd
<1>2. CASE SetupFailure # "none"
  <2>1. GiveUp(SetupFailure, 0) /\ cur' = cur
    BY <1>2 DEF WalkEnds
  <2>2. /\ SetupFailure \in {"stage", "pgo", "key"}
        /\ SetupFailure \in {"stage", "pgo"} => setup = SetupFailure
        /\ SetupFailure = "key" => KeyError
    BY <1>2 DEF SetupFailure
  <2>3. PipeTypeOK'
    BY <1>1, <2>1, <2>2, GiveUpTypes DEF PipeInv
  <2>4. Walked'
    BY <1>1, <2>1, <2>2 DEF PipeInv, Walked, GiveUp, KeyError, AtEnd
  <2>. QED BY <1>1, <1>2, <2>1, <2>3, <2>4, GiveUpStep
<1>3. CASE SetupFailure = "none"
  <2>1. /\ coord' = "deferred" /\ cur' = 1 /\ UNCHANGED <<queue, threads, outcome, blamed>>
    BY <1>3 DEF WalkEnds
  <2>2. setup \notin {"stage", "pgo"} /\ ~KeyError
    BY <1>3 DEF SetupFailure
  <2>3. PipeTypeOK'
    BY <1>1, <2>1, Sets DEF PipeInv, PipeTypeOK, queue, threads
  <2>4. \A u \in Units : kind[u] # "none" /\ ~(u < 1)
    BY <1>1, <2>2, Sets DEF PipeInv, Walked
  <2>5. Walked'
    BY <1>1, <2>1, <2>2, <2>4 DEF PipeInv, Walked, KeyError, AtEnd
  <2>6. Woken /\ Shrinks /\ HitsOnly /\ ~AtEnd'
    BY <1>1, <2>1, NotifyWakes DEF PipeInv, threads, queue, Shrinks, HitsOnly, AtEnd
  <2>7. \A u \in Units : Offered(u)' <=> Offered(u)
    BY <1>1, <2>1, <2>4 DEF Offered, AtEnd
  <2>8. UNCHANGED <<task, results, inflight, tasks, closed, cancelled>>
    BY <2>1 DEF queue, threads
  <2>9. closed' <=> AtEnd'
    BY <1>1, <2>6, <2>8 DEF PipeInv, PoolShape
  <2>10. cancelled' => tasks' = <<>>
    BY <2>8 DEF PipeInv, PoolShape
  <2>11. (KeyError => KeyError') /\ (NoneDeferred' => NoneDeferred)
    BY <1>1 DEF KeyError, NoneDeferred
  <2>. QED BY <1>1, <2>1, <2>3, <2>5, <2>6, <2>7, <2>8, <2>9, <2>10, <2>11, CoordKeeps
<1>. QED BY <1>2, <1>3

LEMMA RehydrateStep ==
    ASSUME PipeInv, Rehydrate
    PROVE  PipeInv'
<1>1. /\ coord = "deferred" /\ ~AtEnd /\ cur \in Units /\ kind[cur] # "stale"
      /\ UNCHANGED <<verdict, setup, kind, want, queue, threads, published, outcome, blamed, attempt>>
      /\ UNCHANGED <<task, results, inflight, tasks, closed, cancelled, obj, wpc>>
  BY Sets DEF Rehydrate, AtEnd, Disagrees, PipeInv, PipeTypeOK, queue, threads
<1>2. /\ \/ kind[cur] = "reused" /\ setup = "ok" /\ ~cancelled /\ coord' = "requeue" /\ cur' = cur
         \/ ~(kind[cur] = "reused" /\ setup = "ok" /\ ~cancelled) /\ coord' = "deferred" /\ cur' = cur + 1
      /\ ~AtEnd'
  BY DEF Rehydrate, AtEnd
<1>3. PipeTypeOK'
  BY <1>1, <1>2, Sets DEF PipeInv, PipeTypeOK
<1>4. Walked'
  <2>1. \A u \in Units : u < cur' => kind[u] # "stale"
    BY <1>1, <1>2, Sets DEF PipeInv, Walked
  <2>. QED BY <1>1, <1>2, <2>1 DEF PipeInv, Walked, KeyError, AtEnd
<1>5. Woken /\ Shrinks /\ HitsOnly
  BY <1>1, NotifyWakes DEF PipeInv, Shrinks, HitsOnly
<1>6. \A u \in Units : Offered(u) => Offered(u)'
  BY <1>1, <1>2, Sets DEF Offered, AtEnd
<1>7. ~cancelled /\ setup = "ok" => \A u \in Units : Offered(u)' => Offered(u)
  BY <1>1, <1>2, Sets DEF Offered, AtEnd
<1>8. (closed' <=> AtEnd') /\ (cancelled' => tasks' = <<>>)
  BY <1>1, <1>2 DEF PipeInv, PoolShape
<1>9. (KeyError => KeyError') /\ (NoneDeferred' => NoneDeferred)
  BY <1>1 DEF KeyError, NoneDeferred
<1>10. coord' # "returned" /\ coord' # "join" /\ cancelled' = cancelled /\ tasks' = tasks /\ kind' = kind
  BY <1>1, <1>2
<1>. QED BY <1>1, <1>2, <1>3, <1>4, <1>5, <1>6, <1>7, <1>8, <1>9, <1>10, CoordKeeps

(* One unit is ready: nothing behind it is offered yet. *)
LEMMA ReadyStep ==
    ASSUME PipeInv, NEW k \in Kinds, Ready(k)
    PROVE  PipeInv'
<1>. DEFINE skip == setup \in {"stage", "pgo"} \/ KeyError
            go == ~skip /\ k = "fresh" /\ setup = "ok" /\ ~cancelled
<1>1. /\ coord = "walk" /\ ~AtEnd /\ cur \in Units /\ k \in KindSet /\ kind[cur] = "none"
      /\ \A u \in Units : u > cur => kind[u] = "none"
      /\ UNCHANGED <<verdict, setup, want, results, inflight, closed, task, published, outcome, blamed, attempt>>
  BY Sets, PipelineAssumption DEF Ready, AtEnd, PipeInv, PipeTypeOK, Walked
<1>2. /\ k \in {"hit", "keyerr"} => ~skip
      /\ kind' = [kind EXCEPT ![cur] = IF skip THEN "none" ELSE k]
      /\ obj' = IF k = "hit" THEN [obj EXCEPT ![cur] = "whole"] ELSE obj
  BY DEF Ready
<1>3. \/ k = "keyerr" /\ cancelled' = TRUE /\ tasks' = <<>> /\ wpc' = NotifyAll(wpc)
      \/ k # "keyerr" /\ UNCHANGED <<tasks, cancelled, wpc>>
  BY DEF Ready, Cancelled
<1>4. \/ go /\ coord' = "enqueue" /\ cur' = cur
      \/ ~go /\ coord' = "walk" /\ cur' = cur + 1
  BY DEF Ready
<1>5. /\ kind \in [Units -> KindSet \cup {"none"}] /\ obj \in [Units -> {"absent", "torn", "whole"}]
      /\ wpc \in Threads /\ tasks \in Seq(Units)
  BY DEF PipeInv, PipeTypeOK, Threads
<1>6. Woken
  BY <1>3, NotifyWakes DEF PipeInv
<1>7. PipeTypeOK'
  <2>1. kind' \in [Units -> KindSet \cup {"none"}] /\ obj' \in [Units -> {"absent", "torn", "whole"}]
    BY <1>1, <1>2, <1>5
  <2>2. cur' \in 1..(N + 1) /\ coord' \in {"walk", "enqueue"}
    BY <1>1, <1>4, Sets
  <2>3. tasks' \in Seq(Units) /\ cancelled' \in BOOLEAN /\ wpc' \in Threads
    <3>1. cancelled \in BOOLEAN /\ <<>> \in Seq(Units)
      BY DEF PipeInv, PipeTypeOK
    <3>. QED BY <1>3, <1>5, <1>6, <3>1 DEF Woken
  <2>. HIDE DEF go, skip
  <2>. QED BY <1>1, <2>1, <2>2, <2>3 DEF PipeInv, PipeTypeOK, Threads
<1>8. /\ \A u \in Units : u # cur => kind'[u] = kind[u] /\ obj'[u] = obj[u]
      /\ kind'[cur] = (IF skip THEN "none" ELSE k)
      /\ obj'[cur] = (IF k = "hit" THEN "whole" ELSE obj[cur])
  BY <1>1, <1>2, <1>5
<1>9. KeyError' <=> KeyError \/ (~skip /\ k = "keyerr")
  BY <1>1, <1>8 DEF KeyError
<1>10. Walked'
  <2>1. setup' \in {"stage", "pgo"} => \A u \in Units : kind'[u] = "none"
    BY <1>1, <1>8 DEF PipeInv, Walked
  <2>2. \A u \in Units : (u > cur' \/ (u = cur' /\ coord' = "walk")) => kind'[u] = "none"
    BY <1>1, <1>4, <1>8, Sets
  <2>3. setup' \notin {"stage", "pgo"} /\ ~KeyError' => \A u \in Units : u < cur' => kind'[u] # "none"
    <3>. SUFFICES ASSUME setup \notin {"stage", "pgo"}, ~KeyError', NEW u \in Units, u < cur'
                  PROVE  kind'[u] # "none"
      BY <1>1
    <3>1. ~skip
      BY <1>9
    <3>2. CASE u = cur
      BY <1>1, <1>8, <3>1, <3>2 DEF KindSet
    <3>3. CASE u # cur
      <4>1. u < cur
        BY <1>1, <1>4, <3>3, Sets
      <4>. QED BY <1>1, <1>8, <3>1, <3>3, <4>1 DEF PipeInv, Walked
    <3>. QED BY <3>2, <3>3
  <2>4. coord' = "enqueue" => cur' \in Units /\ kind'[cur'] = "fresh" /\ setup' = "ok"
    BY <1>1, <1>4, <1>8
  <2>5. coord' \in {"walk", "enqueue"} /\ outcome' = "none" /\ published' = {} /\ blamed' = 0
    BY <1>1, <1>4 DEF PipeInv, Walked
  <2>. HIDE DEF go, skip
  <2>. QED BY <2>1, <2>2, <2>3, <2>4, <2>5 DEF Walked, AtEnd
<1>11. \A u \in Units : Offered(u) => Offered(u)'
  BY <1>1, <1>4, <1>8 DEF Offered, AtEnd
<1>12. ~cancelled' /\ setup = "ok" => \A u \in Units : Offered(u)' => Offered(u)
  <2>. SUFFICES ASSUME ~cancelled', setup = "ok", NEW u \in Units, Offered(u)' PROVE Offered(u)
    OBVIOUS
  <2>1. kind'[u] = "fresh" /\ ~(coord' = "enqueue" /\ u = cur')
    BY <1>4 DEF Offered, AtEnd
  <2>2. ~cancelled
    BY <1>3
  <2>3. u # cur
    BY <1>4, <1>8, <2>1, <2>2
  <2>. QED BY <1>1, <1>8, <2>1, <2>3 DEF Offered
<1>13. \A u \in Units : kind'[u] = "fresh" =>
         kind[u] = "fresh" \/ \A v \in Units : u < v => ~Taken(v) /\ ~Queued(v)
  <2>. SUFFICES ASSUME NEW v \in Units, cur < v PROVE ~Taken(v) /\ ~Queued(v)
    BY <1>8
  <2>1. ~Offered(v)
    BY <1>1, Sets DEF Offered
  <2>. QED BY <2>1 DEF PipeInv, Owned
<1>14. Shrinks /\ HitsOnly
  BY <1>1, <1>2, <1>3, <1>8 DEF Shrinks, HitsOnly
<1>15. NoneDeferred' => NoneDeferred
  BY <1>1, <1>8 DEF NoneDeferred
<1>16. /\ ~AtEnd' /\ (closed' <=> AtEnd') /\ coord' \notin {"returned", "join"}
       /\ cancelled' => tasks' = <<>>
       /\ cancelled => cancelled'
       /\ cancelled' => cancelled \/ KeyError'
       /\ ~cancelled' => tasks' = tasks
  BY <1>1, <1>2, <1>3, <1>4, <1>9 DEF AtEnd, PipeInv, PoolShape
<1>. HIDE DEF go, skip
<1>. QED BY <1>1, <1>6, <1>7, <1>9, <1>10, <1>11, <1>12, <1>13, <1>14, <1>15, <1>16, CoordKeeps

(* enqueue: the unit the coordinator is at becomes the last task, unless   *)
(* the pool has been cancelled.                                            *)
LEMMA EnqueueStep ==
    ASSUME PipeInv, Enqueue
    PROVE  PipeInv'
<1>1. /\ coord \in {"enqueue", "requeue"} /\ ~AtEnd /\ ~AtEnd'
      /\ coord' = (IF coord = "enqueue" THEN "grow" ELSE "regrow")
      /\ UNCHANGED <<verdict, setup, kind, cur, results, inflight, closed, cancelled, task, obj, published, outcome,
                     blamed, attempt>>
  BY DEF Enqueue, AtEnd
<1>2. /\ cur \in Units /\ kind[cur] \in {"fresh", "reused"} /\ ~Offered(cur)
      /\ coord = "enqueue" <=> kind[cur] = "fresh"
  BY <1>1, Sets DEF PipeInv, Walked, Offered, AtEnd
<1>3. \A u \in Units : Offered(u)' <=> Offered(u) \/ u = cur
  BY <1>1, <1>2, Sets DEF Offered, AtEnd
<1>4. Walked'
  BY <1>1, <1>2 DEF PipeInv, Walked, KeyError, AtEnd
<1>5. \/ cancelled /\ want' = 0 /\ tasks' = tasks /\ wpc' = wpc
      \/ /\ ~cancelled /\ tasks' = Append(tasks, cur) /\ want' = Len(tasks') + inflight
         /\ \E w \in Workers : (Waiting # {} => w \in Waiting) /\ wpc' = NotifyOne(w)
  BY DEF Enqueue
<1>6. Woken
  BY <1>5 DEF PipeInv, PipeTypeOK, Woken, Threads, NotifyOne, Waiting
<1>7. PipeTypeOK'
  <2>1. tasks' \in Seq(Units) /\ want' \in Nat
    <3>1. tasks \in Seq(Units) /\ inflight \in Nat
      BY DEF PipeInv, PipeTypeOK
    <3>2. Append(tasks, cur) \in Seq(Units) /\ Len(Append(tasks, cur)) \in Nat
      BY <1>2, <3>1, AppendProperties
    <3>. QED BY <1>5, <3>1, <3>2
  <2>. QED BY <1>1, <1>6, <2>1 DEF PipeInv, PipeTypeOK, Woken, Threads
<1>8. Steady
  BY <1>1, <1>6, WokenKeeps DEF PipeInv
<1>9. PoolShape'
  <2>1. cancelled' => tasks' = <<>>
    BY <1>1, <1>5 DEF PipeInv, PoolShape
  <2>2. coord' \notin {"returned", "join"} /\ (closed' <=> AtEnd')
    BY <1>1 DEF PipeInv, PoolShape
  <2>. QED BY <1>1, <1>6, <2>1, <2>2, PoolKeeps DEF PipeInv
<1>10. CASE cancelled
  <2>1. Shrinks /\ HitsOnly /\ (KeyError => KeyError') /\ (NoneDeferred' => NoneDeferred)
    BY <1>1, <1>5, <1>10 DEF Shrinks, HitsOnly, KeyError, NoneDeferred
  <2>2. coord' \notin {"returned", "join"} /\ (closed' <=> AtEnd') /\ (cancelled' => tasks' = <<>>)
    BY <1>1, <1>5, <1>10 DEF PipeInv, PoolShape
  <2>. QED BY <1>1, <1>3, <1>4, <1>6, <1>7, <1>10, <2>1, <2>2, CoordKeeps
<1>11. CASE ~cancelled
  <2>1. /\ tasks \in Seq(Units) /\ tasks' = Append(tasks, cur) /\ Len(tasks) \in Nat
        /\ DOMAIN tasks = 1..Len(tasks)
    BY <1>5, <1>11 DEF PipeInv, PipeTypeOK
  <2>2. /\ DOMAIN tasks' = 1..(Len(tasks) + 1) /\ tasks'[Len(tasks) + 1] = cur
        /\ \A i \in DOMAIN tasks : tasks'[i] = tasks[i]
    BY <1>2, <2>1, AppendProperties
  <2>3. \A u \in Units : Queued(u)' <=> Queued(u) \/ u = cur
    BY <2>1, <2>2 DEF Queued
  <2>4. ~Queued(cur) /\ ~Taken(cur)
    BY <1>2 DEF PipeInv, Owned
  <2>5. Owned'
    <3>1. \A i, j \in DOMAIN tasks' : tasks'[i] = tasks'[j] => i = j
      <4>1. \A i \in DOMAIN tasks : tasks[i] # cur
        BY <2>4 DEF Queued
      <4>2. \A i, j \in DOMAIN tasks : tasks[i] = tasks[j] => i = j
        BY DEF PipeInv, Owned
      <4>. QED BY <2>1, <2>2, <4>1, <4>2
    <3>2. \A w \in Workers : wpc'[w] \in Working => task'[w] \in Units
      BY <1>8 DEF PipeInv, Owned, Steady, Working, Resting
    <3>3. \A r \in results' : r.ok <=> verdict'[r.unit] = "ok"
      BY <1>1 DEF PipeInv, Owned
    <3>4. \A v, w \in Workers : \A u \in Units : Holds(v, u)' /\ Holds(w, u)' => v = w
      BY <1>8, SteadyKeeps DEF PipeInv, Owned
    <3>5. ASSUME NEW u \in Units
          PROVE  /\ Queued(u)' \/ Taken(u)' => Offered(u)'
                 /\ Queued(u)' => ~Taken(u)'
                 /\ Held(u)' => ~Resulted(u)' /\ obj'[u] = "torn"
                 /\ Resulted(u)' => verdict'[u] # "panic"
                 /\ obj'[u] = "whole" <=> kind'[u] = "hit" \/ [unit |-> u, ok |-> TRUE] \in results'
      <4>1. (Held(u)' <=> Held(u)) /\ (Resulted(u)' <=> Resulted(u)) /\ (Taken(u)' <=> Taken(u))
        BY <1>8, SteadyKeeps
      <4>2. /\ Queued(u) \/ Taken(u) => Offered(u)
            /\ Queued(u) => ~Taken(u)
            /\ Held(u) => ~Resulted(u) /\ obj[u] = "torn"
            /\ Resulted(u) => verdict[u] # "panic"
            /\ obj[u] = "whole" <=> kind[u] = "hit" \/ [unit |-> u, ok |-> TRUE] \in results
        BY DEF PipeInv, Owned
      <4>. QED BY <1>1, <1>3, <2>3, <2>4, <4>1, <4>2
    <3>. QED BY <3>1, <3>2, <3>3, <3>4, <3>5 DEF Owned
  <2>6. Covered'
    <3>1. \A u \in Units : Offered(u)' => Queued(u)' \/ Taken(u)' \/ setup # "ok"
      BY <1>3, <1>8, <1>11, <2>3, SteadyKeeps DEF PipeInv, Covered
    <3>. QED BY <1>1, <1>11, <3>1 DEF Covered
  <2>7. Fifo'
    <3>. SUFFICES ASSUME NoneDeferred', ~Panicked', NEW u \in Units, NEW v \in Units, u < v, kind'[u] = "fresh"
                  PROVE  /\ Taken(v)' => Taken(u)'
                         /\ \A j \in DOMAIN tasks' : tasks'[j] = v =>
                              Taken(u)' \/ \E i \in DOMAIN tasks' : i < j /\ tasks'[i] = u
      BY DEF Fifo
    <3>1. NoneDeferred /\ ~Panicked /\ kind[u] = "fresh"
      BY <1>1, <1>8, SteadyKeeps DEF NoneDeferred
    <3>2. /\ Taken(v) => Taken(u)
          /\ \A j \in DOMAIN tasks : tasks[j] = v => Taken(u) \/ \E i \in DOMAIN tasks : i < j /\ tasks[i] = u
      BY <3>1 DEF PipeInv, Fifo
    <3>3. (Taken(v)' <=> Taken(v)) /\ (Taken(u)' <=> Taken(u))
      BY <1>8, SteadyKeeps
    <3>4. ASSUME NEW j \in DOMAIN tasks', tasks'[j] = v
          PROVE  Taken(u) \/ \E i \in DOMAIN tasks' : i < j /\ tasks'[i] = u
      <4>1. CASE j \in DOMAIN tasks
        BY <2>1, <2>2, <3>2, <3>4, <4>1
      <4>2. CASE j \notin DOMAIN tasks
        <5>1. j = Len(tasks) + 1 /\ v = cur
          BY <2>1, <2>2, <3>4, <4>2
        <5>2. kind[cur] = "fresh" /\ coord = "enqueue"
          BY <1>2, <3>1 DEF NoneDeferred
        <5>3. setup = "ok" => Queued(u) \/ Taken(u)
          BY <1>11, <3>1, <5>1, <5>2, Sets DEF PipeInv, Covered, Offered
        <5>4. setup = "ok"
          BY <5>2 DEF PipeInv, Walked
        <5>. QED BY <2>1, <2>2, <5>1, <5>3, <5>4 DEF Queued
      <4>. QED BY <4>1, <4>2
    <3>. QED BY <3>2, <3>3, <3>4
  <2>8. Settled'
    BY <1>1, <1>4, <1>7, SettledEarly
  <2>. QED BY <1>4, <1>7, <1>9, <2>5, <2>6, <2>7, <2>8 DEF PipeInv
<1>. QED BY <1>10, <1>11

(* A thread is spawned into the next slot, or the loop ends. *)
LEMMA GrowStep ==
    ASSUME PipeInv, Grow
    PROVE  PipeInv'
<1>1. /\ coord \in {"grow", "regrow"} /\ ~AtEnd /\ cur \in Units
      /\ UNCHANGED <<verdict, setup, kind, want, queue, task, obj, published, outcome, blamed, attempt>>
      /\ UNCHANGED <<tasks, results, inflight, closed, cancelled>>
      /\ closed = FALSE /\ (cancelled => tasks = <<>>)
  BY DEF Grow, AtEnd, queue, PipeInv, Walked, PoolShape
<1>2. CASE /\ SpareJobs /\ wpc' = [wpc EXCEPT ![Cardinality(Spawned) + 1] = "top"]
           /\ UNCHANGED <<coord, cur>>
  <2>1. PICK n \in 0..BackgroundLimit : Spawned = 1..n
    BY DEF PipeInv, PoolShape
  <2>2. n \in Nat /\ Cardinality(Spawned) = n /\ n < Jobs - 1 /\ Jobs \in Nat
    <3>1. n \in Nat /\ Jobs \in Nat /\ 1 \in Int /\ n \in Int
      BY Sets
    <3>2. Cardinality(1..n) = n
      BY <3>1, FS_Interval
    <3>. QED BY <1>2, <2>1, <3>1, <3>2 DEF SpareJobs, BackgroundLimit
  <2>3. n + 1 \in Background /\ n + 1 \in Workers /\ n + 1 # Coord /\ n + 1 \in 0..BackgroundLimit
    BY <2>2 DEF Background, Workers, Coord, BackgroundLimit
  <2>4. wpc \in Threads /\ wpc[n + 1] = "none" /\ n + 1 \notin Spawned
    BY <2>1, <2>2, <2>3 DEF PipeInv, PipeTypeOK, Threads, Spawned
  <2>5. /\ wpc' \in Threads /\ wpc'[n + 1] = "top"
        /\ \A w \in Workers : w # n + 1 => wpc'[w] = wpc[w]
    BY <1>2, <2>2, <2>3, <2>4 DEF Threads
  <2>6. Spawned' = 1..(n + 1)
    <3>1. Spawned' = Spawned \cup {n + 1}
      BY <2>3, <2>5 DEF Spawned, Workers
    <3>. QED BY <2>1, <2>2, <3>1
  <2>7. Steady /\ wpc'[Coord] = wpc[Coord]
    BY <1>1, <2>3, <2>4, <2>5, Sets DEF Steady, Resting
  <2>8. PipeTypeOK'
    BY <1>1, <1>2, <2>5 DEF PipeInv, PipeTypeOK, Threads
  <2>9. PoolShape'
    <3>1. \A w \in Workers : task'[w] # 0 <=> wpc'[w] \in Working
      BY <2>7 DEF PipeInv, PoolShape, Steady, Working, Resting
    <3>2. inflight' = Cardinality(Busy)' /\ (Panicked' => cancelled')
      BY <1>1, <2>7, SteadyKeeps DEF PipeInv, PoolShape
    <3>3. \E m \in 0..BackgroundLimit : Spawned' = 1..m
      BY <2>3, <2>6
    <3>. QED BY <1>1, <1>2, <2>7, <3>1, <3>2, <3>3 DEF PipeInv, PoolShape, AtEnd
  <2>10. Walked'
    BY <1>1, <1>2 DEF PipeInv, Walked, KeyError, AtEnd
  <2>11. /\ \A u \in Units : Offered(u)' <=> Offered(u)
         /\ Shrinks /\ HitsOnly /\ (KeyError' <=> KeyError) /\ (NoneDeferred' <=> NoneDeferred)
         /\ AtEnd' <=> AtEnd
    BY <1>1, <1>2 DEF Offered, AtEnd, Shrinks, HitsOnly, KeyError, NoneDeferred
  <2>12. Owned'
    BY <1>1, <2>7, <2>11, OwnedKeeps DEF PipeInv
  <2>13. Covered'
    BY <1>1, <2>7, <2>11, CoveredKeeps DEF PipeInv
  <2>14. Fifo'
    BY <1>1, <2>7, <2>11, FifoKeeps DEF PipeInv
  <2>15. Settled'
    BY <1>1, <1>2, <2>8, <2>10, SettledEarly
  <2>. QED BY <2>8, <2>9, <2>10, <2>12, <2>13, <2>14, <2>15 DEF PipeInv
<1>3. CASE /\ coord' = (IF coord = "grow" THEN "walk" ELSE "deferred")
           /\ cur' = cur + 1 /\ wpc' = wpc
  <2>1. PipeTypeOK'
    BY <1>1, <1>3, Sets DEF PipeInv, PipeTypeOK
  <2>2. Woken /\ Shrinks /\ HitsOnly /\ ~AtEnd'
    BY <1>1, <1>3, NotifyWakes DEF PipeInv, Shrinks, HitsOnly, AtEnd
  <2>3. Walked'
    <3>1. coord = "grow" => /\ \A u \in Units : u > cur => kind[u] = "none"
                            /\ ~KeyError => \A u \in Units : u < cur => kind[u] # "none"
                            /\ kind[cur] = "fresh" /\ setup = "ok"
      BY DEF PipeInv, Walked
    <3>2. coord = "regrow" => /\ \A u \in Units : u < cur => kind[u] # "stale"
                              /\ kind[cur] = "reused" /\ ~KeyError /\ \A u \in Units : kind[u] # "none"
                              /\ setup = "ok"
      BY DEF PipeInv, Walked
    <3>3. \A u \in Units : (u < cur + 1 <=> u < cur \/ u = cur) /\ (u >= cur + 1 <=> u > cur)
      BY <1>1, Sets
    <3>4. outcome = "none" /\ published = {} /\ blamed = 0
      BY <1>1 DEF PipeInv, Walked
    <3>5. KeyError' <=> KeyError
      BY <1>1 DEF KeyError
    <3>6. CASE coord = "grow"
      <4>1. \A u \in Units : (u > cur' \/ u = cur') => kind'[u] = "none"
        BY <1>1, <1>3, <3>1, <3>6, Sets
      <4>2. ~KeyError' => \A u \in Units : u < cur' => kind'[u] # "none"
        BY <1>1, <1>3, <3>1, <3>3, <3>5, <3>6
      <4>. QED BY <1>1, <1>3, <3>1, <3>4, <3>6, <4>1, <4>2 DEF Walked, AtEnd
    <3>7. CASE coord = "regrow"
      <4>1. \A u \in Units : u < cur' => kind'[u] # "stale"
        BY <1>1, <1>3, <3>2, <3>3, <3>7
      <4>. QED BY <1>1, <1>3, <3>2, <3>4, <3>5, <3>7, <4>1 DEF Walked, AtEnd
    <3>. QED BY <1>1, <3>6, <3>7
  <2>4. \A u \in Units : Offered(u)' <=> Offered(u)
    <3>1. coord = "grow" => \A u \in Units : u > cur => kind[u] = "none"
      BY DEF PipeInv, Walked
    <3>. QED BY <1>1, <1>3, <3>1, Sets DEF Offered, AtEnd
  <2>5. (KeyError => KeyError') /\ (NoneDeferred' => NoneDeferred)
    BY <1>1 DEF KeyError, NoneDeferred
  <2>6. coord' \notin {"returned", "join"}
    BY <1>3
  <2>. QED BY <1>1, <1>3, <2>1, <2>2, <2>3, <2>4, <2>5, <2>6, CoordKeeps
<1>. QED BY <1>2, <1>3 DEF Grow

(* finish: the queue is closed, and the coordinator serves it too. *)
LEMMA FinishPoolStep ==
    ASSUME PipeInv, FinishPool
    PROVE  PipeInv'
<1>1. /\ coord = "deferred" /\ ~AtEnd /\ cur = N + 1 /\ 0 \in 0..N
      /\ UNCHANGED <<verdict, setup, kind, cur, want, published, attempt>>
  BY Sets DEF FinishPool, AtEnd
<1>2. /\ \A u \in Units : kind[u] # "stale" /\ kind[u] # "none"
      /\ setup \notin {"stage", "pgo"} /\ ~KeyError /\ outcome = "none" /\ published = {} /\ blamed = 0
      /\ KeyError' <=> KeyError
  BY <1>1, Sets DEF PipeInv, Walked, KeyError
<1>3. CASE setup = "target"
  <2>1. GiveUp("target", 0)
    BY <1>3 DEF FinishPool
  <2>2. PipeTypeOK'
    BY <1>1, <2>1, GiveUpTypes DEF PipeInv
  <2>3. Walked'
    BY <1>1, <1>2, <1>3, <2>1 DEF Walked, GiveUp, AtEnd
  <2>. QED BY <1>1, <2>1, <2>2, <2>3, GiveUpStep
<1>4. CASE setup # "target"
  <2>1. /\ closed' = TRUE /\ wpc' = [NotifyAll(wpc) EXCEPT ![Coord] = "top"] /\ coord' = "join" /\ AtEnd'
        /\ UNCHANGED <<tasks, results, inflight, cancelled, task, obj, outcome, blamed>>
    BY <1>4 DEF FinishPool, TellClosed, AtEnd
  <2>2. setup = "ok" /\ wpc[Coord] = "none" /\ wpc \in Threads /\ (cancelled => tasks = <<>>)
    BY <1>1, <1>2, <1>4 DEF PipeInv, PipeTypeOK, PoolShape, Threads
  <2>3. /\ wpc' \in Threads /\ wpc'[Coord] = "top"
        /\ \A w \in Workers : w # Coord => wpc'[w] = wpc[w] \/ (wpc[w] = "wait" /\ wpc'[w] = "top")
    BY <2>1, <2>2, Sets DEF NotifyAll, Threads
  <2>4. Steady
    BY <2>1, <2>2, <2>3 DEF Steady, Resting
  <2>5. Spawned' = Spawned
    BY <2>3, Sets DEF Spawned, Workers
  <2>6. PipeTypeOK'
    BY <1>1, <2>1, <2>3 DEF PipeInv, PipeTypeOK, Threads
  <2>7. PoolShape'
    <3>1. \A w \in Workers : task'[w] # 0 <=> wpc'[w] \in Working
      BY <2>4 DEF PipeInv, PoolShape, Steady, Working, Resting
    <3>2. inflight' = Cardinality(Busy)' /\ (Panicked' => cancelled')
      BY <2>1, <2>4, SteadyKeeps DEF PipeInv, PoolShape
    <3>. QED BY <2>1, <2>2, <2>3, <2>5, <3>1, <3>2 DEF PipeInv, PoolShape
  <2>8. Walked'
    BY <1>1, <1>2, <2>1, <2>2 DEF Walked, AtEnd
  <2>9. \A u \in Units : Offered(u)' <=> Offered(u)
    BY <1>1, <2>1, Sets DEF Offered, AtEnd
  <2>10. Shrinks /\ HitsOnly /\ (NoneDeferred' => NoneDeferred)
    BY <1>1, <2>1 DEF Shrinks, HitsOnly, NoneDeferred
  <2>11. Owned'
    BY <1>1, <2>4, <2>9, <2>10, OwnedKeeps DEF PipeInv
  <2>12. Covered'
    BY <1>1, <1>2, <2>1, <2>4, <2>9, CoveredKeeps DEF PipeInv
  <2>13. Fifo'
    BY <1>1, <2>4, <2>10, FifoKeeps DEF PipeInv
  <2>14. Settled'
    BY <2>1, <2>6, <2>8, SettledEarly
  <2>. QED BY <2>6, <2>7, <2>8, <2>11, <2>12, <2>13, <2>14 DEF PipeInv
<1>. QED BY <1>3, <1>4

(***************************************************************************)
(* The steps of a worker.                                                  *)
(***************************************************************************)
WorkerFrame == UNCHANGED <<verdict, setup, kind, coord, cur, want, closed, published, outcome, blamed, attempt>>

LEMMA FrameKeeps ==
    ASSUME PipeInv, WorkerFrame
    PROVE  /\ Walked' /\ (KeyError' <=> KeyError) /\ (NoneDeferred' <=> NoneDeferred) /\ (AtEnd' <=> AtEnd)
           /\ \A u \in Units : Offered(u)' <=> Offered(u)
BY DEF PipeInv, WorkerFrame, Walked, KeyError, NoneDeferred, AtEnd, Offered

(* A worker that may move is one whose build is not over. *)
LEMMA NotReturned ==
    ASSUME PipeInv, NEW w \in Workers, wpc[w] \notin Ended
    PROVE  coord # "returned"
BY DEF PipeInv, PoolShape, Joined

(* The pool after a step of w. *)
LEMMA PoolAfter ==
    ASSUME PipeInv, WorkerFrame, NEW w \in Workers, wpc[w] \notin Ended, wpc' \in Threads,
           wpc'[w] # "none",
           \A v \in Workers \ {w} : wpc'[v] = wpc[v] \/ (wpc[v] = "wait" /\ wpc'[v] = "top"),
           \A v \in Workers : task'[v] # 0 <=> wpc'[v] \in Working,
           inflight' = Cardinality(Busy)',
           cancelled' => tasks' = <<>>, Panicked' => cancelled',
           wpc'[Coord] = "done" => tasks' = <<>>
    PROVE  PoolShape'
<1>1. Spawned' = Spawned
  <2>1. wpc[w] # "none"
    BY DEF Ended
  <2>. QED BY <2>1 DEF Spawned, Workers
<1>2. wpc'[Coord] # "none" <=> wpc[Coord] # "none"
  BY Sets DEF Ended
<1>3. coord' # "returned"
  BY NotReturned DEF WorkerFrame
<1>. QED BY <1>1, <1>2, <1>3, FrameKeeps DEF PipeInv, PoolShape, WorkerFrame

(* Leaving, sleeping, waking and panicking move no unit. *)
LEMMA RestStep ==
    ASSUME PipeInv, NEW w \in Workers, Leave(w) \/ Sleep(w) \/ Spurious(w) \/ Panics(w)
    PROVE  PipeInv'
<1>1. /\ WorkerFrame /\ UNCHANGED <<tasks, results, inflight, cancelled, task, obj>>
      /\ \/ wpc[w] = "top" /\ wpc' = [wpc EXCEPT ![w] = "done"] /\ NoMoreWork
         \/ wpc[w] = "top" /\ wpc' = [wpc EXCEPT ![w] = "wait"]
         \/ wpc[w] = "wait" /\ wpc' = [wpc EXCEPT ![w] = "top"]
         \/ wpc[w] = "emit" /\ wpc' = [wpc EXCEPT ![w] = "unwind"]
  BY DEF Leave, Sleep, Spurious, Panics, WorkerFrame, queue
<1>2. wpc \in Threads
  BY DEF PipeInv, PipeTypeOK, Threads
<1>3. /\ wpc' \in Threads /\ wpc'[w] \in {"done", "wait", "top", "unwind"}
      /\ \A v \in Workers \ {w} : wpc'[v] = wpc[v]
      /\ wpc[w] \notin Ended /\ wpc'[w] # "none"
      /\ wpc'[w] = "done" => tasks = <<>>
  <2>1. NoMoreWork => tasks = <<>>
    BY DEF NoMoreWork, PipeInv, PoolShape
  <2>. QED BY <1>1, <1>2, <2>1 DEF Threads, Ended
<1>4. Steady
  BY <1>1, <1>2 DEF Steady, Resting, Threads
<1>5. PipeTypeOK'
  BY <1>1, <1>3 DEF PipeInv, PipeTypeOK, Threads, WorkerFrame
<1>6. PoolShape'
  <2>1. \A v \in Workers : task'[v] # 0 <=> wpc'[v] \in Working
    BY <1>4 DEF PipeInv, PoolShape, Steady, Working, Resting
  <2>2. inflight' = Cardinality(Busy)' /\ (Panicked' => cancelled') /\ (cancelled' => tasks' = <<>>)
    BY <1>1, <1>4, SteadyKeeps DEF PipeInv, PoolShape
  <2>3. wpc'[Coord] = "done" => tasks' = <<>>
    BY <1>1, <1>3, Sets DEF PipeInv, PoolShape
  <2>. QED BY <1>1, <1>3, <2>1, <2>2, <2>3, PoolAfter
<1>7. Shrinks /\ HitsOnly
  BY <1>1 DEF Shrinks, HitsOnly, WorkerFrame
<1>8. Owned'
  BY <1>1, <1>4, <1>7, FrameKeeps, OwnedKeeps DEF PipeInv, WorkerFrame
<1>9. Covered'
  BY <1>1, <1>4, FrameKeeps, CoveredKeeps DEF PipeInv, WorkerFrame
<1>10. Fifo'
  BY <1>1, <1>4, <1>7, FrameKeeps, FifoKeeps DEF PipeInv, WorkerFrame
<1>11. Settled'
  BY <1>1, <1>3, <1>5, FrameKeeps, NotReturned, SettledEarly DEF WorkerFrame
<1>. QED BY <1>1, <1>5, <1>6, <1>8, <1>9, <1>10, <1>11, FrameKeeps DEF PipeInv

(* A step of w that takes a unit from one place to the next. *)
LEMMA TakeTaskStep ==
    ASSUME PipeInv, NEW w \in Workers, TakeTask(w)
    PROVE  PipeInv'
<1>. DEFINE t == Head(tasks)
<1>1. /\ WorkerFrame /\ wpc[w] = "top" /\ ~cancelled /\ cancelled' = cancelled /\ results' = results
      /\ tasks # <<>> /\ tasks' = Tail(tasks) /\ inflight' = inflight + 1
      /\ task' = [task EXCEPT ![w] = t] /\ wpc' = [wpc EXCEPT ![w] = "emit"] /\ obj' = [obj EXCEPT ![t] = "torn"]
  BY DEF TakeTask, PopFront, WorkerFrame
<1>2. /\ tasks \in Seq(Units) /\ Len(tasks) \in Nat /\ Len(tasks) >= 1 /\ DOMAIN tasks = 1..Len(tasks)
      /\ t = tasks[1] /\ t \in Units
      /\ tasks' \in Seq(Units) /\ DOMAIN tasks' = 1..(Len(tasks) - 1)
      /\ \A i \in DOMAIN tasks' : tasks'[i] = tasks[i + 1]
  BY <1>1 DEF PipeInv, PipeTypeOK
<1>. HIDE DEF t
<1>3. /\ wpc \in Threads /\ task \in [Workers -> 0..N] /\ obj \in [Units -> {"absent", "torn", "whole"}]
      /\ inflight \in Nat
  BY DEF PipeInv, PipeTypeOK, Threads
<1>4. /\ wpc' \in Threads /\ wpc'[w] = "emit" /\ task'[w] = t
      /\ \A v \in Workers \ {w} : wpc'[v] = wpc[v] /\ task'[v] = task[v]
      /\ task' \in [Workers -> 0..N] /\ obj' \in [Units -> {"absent", "torn", "whole"}]
      /\ obj'[t] = "torn" /\ \A u \in Units \ {t} : obj'[u] = obj[u]
      /\ wpc[w] \notin Ended /\ t # 0
  BY <1>1, <1>2, <1>3, Sets DEF Threads, Ended
<1>5. PipeTypeOK'
  BY <1>1, <1>2, <1>3, <1>4 DEF PipeInv, PipeTypeOK, Threads, WorkerFrame
<1>6. Queued(t) /\ ~Taken(t) /\ Offered(t) /\ ~Held(t) /\ ~Resulted(t)
  <2>1. Queued(t)
    BY <1>2 DEF Queued
  <2>. QED BY <1>2, <2>1 DEF PipeInv, Owned, Taken
<1>7. \A v \in Workers, u \in Units : Holds(v, u)' <=> IF v = w THEN u = t ELSE Holds(v, u)
  BY <1>1, <1>4 DEF Holds
<1>8. \A u \in Units : ~Holds(w, u)
  BY <1>1 DEF Holds
<1>9. \A u \in Units : /\ (Held(u)' <=> Held(u) \/ u = t) /\ (Resulted(u)' <=> Resulted(u))
                       /\ (Taken(u)' <=> Taken(u) \/ u = t)
  <2>. TAKE u \in Units
  <2>1. Held(u)' <=> Held(u) \/ u = t
    BY <1>7, <1>8 DEF Held
  <2>2. Resulted(u)' <=> Resulted(u)
    BY <1>1 DEF Resulted
  <2>. QED BY <2>1, <2>2 DEF Taken
<1>10. \A u \in Units : Queued(u)' <=> Queued(u) /\ u # t
  <2>. TAKE u \in Units
  <2>1. \A i, j \in DOMAIN tasks : tasks[i] = tasks[j] => i = j
    BY DEF PipeInv, Owned
  <2>2. Queued(u)' => Queued(u) /\ u # t
    BY <1>2, <2>1 DEF Queued
  <2>3. ASSUME Queued(u), u # t PROVE Queued(u)'
    <3>1. PICK i \in DOMAIN tasks : tasks[i] = u
      BY <2>3 DEF Queued
    <3>2. i # 1 /\ i - 1 \in DOMAIN tasks' /\ (i - 1) + 1 = i
      BY <1>2, <2>3, <3>1
    <3>3. tasks'[i - 1] = u
      BY <1>2, <3>1, <3>2
    <3>. QED BY <3>2, <3>3 DEF Queued
  <2>. QED BY <2>2, <2>3
<1>11. PoolShape'
  <2>1. \A v \in Workers : task'[v] # 0 <=> wpc'[v] \in Working
    BY <1>4 DEF PipeInv, PoolShape, Working
  <2>2. inflight' = Cardinality(Busy)'
    <3>1. Busy' = Busy \cup {w} /\ w \notin Busy
      BY <1>1, <1>4 DEF Busy, Working
    <3>2. IsFiniteSet(Busy)
      BY Sets, FS_Subset DEF Busy
    <3>3. Cardinality(Busy \cup {w}) = Cardinality(Busy) + 1
      BY <3>1, <3>2, FS_AddElement
    <3>. QED BY <1>1, <3>1, <3>3 DEF PipeInv, PoolShape
  <2>3. Panicked' <=> Panicked
    BY <1>1, <1>4 DEF Panicked
  <2>4. wpc'[Coord] # "done"
    <3>1. wpc[Coord] # "done"
      BY <1>1 DEF PipeInv, PoolShape
    <3>. QED BY <1>4, <3>1, Sets
  <2>. QED BY <1>1, <1>4, <2>1, <2>2, <2>3, <2>4, PoolAfter DEF PipeInv, PoolShape
<1>12. Owned'
  <2>1. \A i, j \in DOMAIN tasks' : tasks'[i] = tasks'[j] => i = j
    <3>1. \A i, j \in DOMAIN tasks : tasks[i] = tasks[j] => i = j
      BY DEF PipeInv, Owned
    <3>. QED BY <1>2, <3>1, SMTT(30)
  <2>2. \A v \in Workers : wpc'[v] \in Working => task'[v] \in Units
    BY <1>2, <1>4 DEF PipeInv, Owned
  <2>3. \A r \in results' : r.ok <=> verdict'[r.unit] = "ok"
    BY <1>1 DEF PipeInv, Owned, WorkerFrame
  <2>4. \A x, v \in Workers : \A u \in Units : Holds(x, u)' /\ Holds(v, u)' => x = v
    BY <1>6, <1>7 DEF PipeInv, Owned, Held
  <2>5. ASSUME NEW u \in Units
        PROVE  /\ Queued(u)' \/ Taken(u)' => Offered(u)'
               /\ Queued(u)' => ~Taken(u)'
               /\ Held(u)' => ~Resulted(u)' /\ obj'[u] = "torn"
               /\ Resulted(u)' => verdict'[u] # "panic"
               /\ obj'[u] = "whole" <=> kind'[u] = "hit" \/ [unit |-> u, ok |-> TRUE] \in results'
    <3>1. /\ Queued(u) \/ Taken(u) => Offered(u)
          /\ Queued(u) => ~Taken(u)
          /\ Held(u) => ~Resulted(u) /\ obj[u] = "torn"
          /\ Resulted(u) => verdict[u] # "panic"
          /\ obj[u] = "whole" <=> kind[u] = "hit" \/ [unit |-> u, ok |-> TRUE] \in results
      BY DEF PipeInv, Owned
    <3>2. u = t => kind[u] # "hit" /\ [unit |-> u, ok |-> TRUE] \notin results
      BY <1>6 DEF Offered, Resulted
    <3>3. kind' = kind /\ verdict' = verdict /\ (Offered(u)' <=> Offered(u))
      BY <1>1, FrameKeeps DEF WorkerFrame
    <3>. QED BY <1>1, <1>4, <1>6, <1>9, <1>10, <3>1, <3>2, <3>3
  <2>. QED BY <2>1, <2>2, <2>3, <2>4, <2>5 DEF Owned
<1>13. Covered'
  <2>1. ASSUME setup' = "ok", NEW u \in Units, Offered(u)' PROVE Queued(u)' \/ Taken(u)'
    <3>1. Queued(u) \/ Taken(u)
      BY <1>1, <2>1, FrameKeeps DEF PipeInv, Covered, WorkerFrame
    <3>. QED BY <1>9, <1>10, <3>1
  <2>. QED BY <1>1, <2>1 DEF Covered
<1>14. Fifo'
  <2>. SUFFICES ASSUME NoneDeferred', ~Panicked', NEW u \in Units, NEW v \in Units, u < v, kind'[u] = "fresh"
                PROVE  /\ Taken(v)' => Taken(u)'
                       /\ \A j \in DOMAIN tasks' : tasks'[j] = v =>
                            Taken(u)' \/ \E i \in DOMAIN tasks' : i < j /\ tasks'[i] = u
    BY DEF Fifo
  <2>1. NoneDeferred /\ ~Panicked /\ kind[u] = "fresh"
    BY <1>1, <1>4, FrameKeeps DEF Panicked, WorkerFrame
  <2>2. /\ Taken(v) => Taken(u)
        /\ \A j \in DOMAIN tasks : tasks[j] = v => Taken(u) \/ \E i \in DOMAIN tasks : i < j /\ tasks[i] = u
    BY <2>1 DEF PipeInv, Fifo
  <2>3. v = t => Taken(u)
    BY <1>2, <2>2
  <2>4. ASSUME NEW j \in DOMAIN tasks', tasks'[j] = v, ~Taken(u), u # t
        PROVE  \E i \in DOMAIN tasks' : i < j /\ tasks'[i] = u
    <3>1. j + 1 \in DOMAIN tasks /\ tasks[j + 1] = v
      BY <1>2, <2>4
    <3>2. PICK i \in DOMAIN tasks : i < j + 1 /\ tasks[i] = u
      BY <2>2, <2>4, <3>1
    <3>3. i # 1 /\ i - 1 \in DOMAIN tasks' /\ (i - 1) + 1 = i /\ i - 1 < j
      BY <1>2, <2>4, <3>2
    <3>4. tasks'[i - 1] = u
      BY <1>2, <3>2, <3>3
    <3>. QED BY <3>3, <3>4
  <2>. QED BY <1>9, <2>2, <2>3, <2>4
<1>15. Settled'
  BY <1>1, <1>4, <1>5, FrameKeeps, NotReturned, SettledEarly DEF WorkerFrame
<1>. QED BY <1>1, <1>5, <1>11, <1>12, <1>13, <1>14, <1>15, FrameKeeps DEF PipeInv

(* A result is pushed; a failure cancels what is left. *)
LEMMA EmittedStep ==
    ASSUME PipeInv, NEW w \in Workers, Emitted(w)
    PROVE  PipeInv'
<1>. PICK t : t = task[w]
  OBVIOUS
<1>. PICK ok : ok = (verdict[t] = "ok")
  OBVIOUS
<1>1. /\ WorkerFrame /\ UNCHANGED <<inflight, task>> /\ wpc[w] = "emit" /\ verdict[t] # "panic"
      /\ results' = results \cup {[unit |-> t, ok |-> ok]}
      /\ obj' = [obj EXCEPT ![t] = IF ok THEN "whole" ELSE "torn"]
      /\ \/ ~ok /\ cancelled' = TRUE /\ tasks' = <<>> /\ wpc' = [NotifyAll(wpc) EXCEPT ![w] = "post"]
         \/ ok /\ UNCHANGED <<tasks, cancelled>> /\ wpc' = [wpc EXCEPT ![w] = "post"]
  BY DEF Emitted, WorkerFrame, Cancelled
<1>2. /\ t \in Units /\ Holds(w, t) /\ Held(t) /\ ~Resulted(t) /\ Offered(t) /\ ~Queued(t) /\ Taken(t)
      /\ wpc \in Threads /\ obj \in [Units -> {"absent", "torn", "whole"}] /\ ok \in BOOLEAN
  <2>1. t \in Units /\ Holds(w, t)
    BY <1>1 DEF PipeInv, Owned, Holds, Working
  <2>2. Held(t) /\ Taken(t)
    BY <2>1 DEF Held, Taken
  <2>. QED BY <2>1, <2>2 DEF PipeInv, Owned, PipeTypeOK, Threads
<1>2a. PICK rec : rec = [unit |-> t, ok |-> ok]
  OBVIOUS
<1>2b. rec \in [unit : Units, ok : BOOLEAN] /\ rec.unit = t /\ (rec.ok <=> verdict[t] = "ok") /\ results' = results \cup {rec}
  <2>1. CASE ok = TRUE
    BY <1>1, <1>2, <1>2a, <2>1
  <2>2. CASE ok = FALSE
    BY <1>1, <1>2, <1>2a, <2>2
  <2>. QED BY <1>2, <2>1, <2>2
<1>3. /\ wpc' \in Threads /\ wpc'[w] = "post" /\ wpc[w] \notin Ended
      /\ \A v \in Workers \ {w} : wpc'[v] = wpc[v] \/ (wpc[v] = "wait" /\ wpc'[v] = "top")
      /\ obj' \in [Units -> {"absent", "torn", "whole"}]
      /\ obj'[t] = (IF ok THEN "whole" ELSE "torn") /\ \A u \in Units \ {t} : obj'[u] = obj[u]
  BY <1>1, <1>2 DEF Threads, NotifyAll, Ended
<1>4. Shrinks /\ (cancelled' => tasks' = <<>>) /\ (cancelled => cancelled')
  BY <1>1 DEF Shrinks, PipeInv, PoolShape
<1>5. PipeTypeOK'
  <2>1. tasks' \in Seq(Units) /\ cancelled' \in BOOLEAN
    <3>1. tasks \in Seq(Units) /\ <<>> \in Seq(Units) /\ cancelled \in BOOLEAN
      BY DEF PipeInv, PipeTypeOK
    <3>. QED BY <1>1, <3>1
  <2>2. results' \subseteq [unit : Units, ok : BOOLEAN]
    BY <1>2b DEF PipeInv, PipeTypeOK
  <2>. QED BY <1>1, <1>3, <2>1, <2>2 DEF PipeInv, PipeTypeOK, Threads, WorkerFrame
<1>6. \A v \in Workers, u \in Units : Holds(v, u)' <=> v # w /\ Holds(v, u)
  BY <1>1, <1>3 DEF Holds
<1>7. \A u \in Units : /\ (Held(u)' <=> Held(u) /\ u # t) /\ (Resulted(u)' <=> Resulted(u) \/ u = t)
                       /\ (Taken(u)' <=> Taken(u))
  <2>. TAKE u \in Units
  <2>1. Held(u)' <=> Held(u) /\ u # t
    <3>1. \A v \in Workers : Holds(v, t) => v = w
      BY <1>2 DEF PipeInv, Owned
    <3>2. Holds(w, u) => u = t
      BY DEF Holds
    <3>. QED BY <1>6, <3>1, <3>2 DEF Held
  <2>2. Resulted(u)' <=> Resulted(u) \/ u = t
    BY <1>2b DEF Resulted
  <2>. QED BY <1>2, <2>1, <2>2 DEF Taken
<1>8. \A u \in Units : Queued(u)' => Queued(u)
  BY <1>4 DEF Shrinks, Queued
<1>9. Panicked' <=> Panicked
  BY <1>1, <1>3 DEF Panicked
<1>10. PoolShape'
  <2>1. \A v \in Workers : wpc'[v] \in Working <=> wpc[v] \in Working
    BY <1>1, <1>3 DEF Working
  <2>2. \A v \in Workers : task'[v] # 0 <=> wpc'[v] \in Working
    BY <1>1, <2>1 DEF PipeInv, PoolShape
  <2>3. Busy' = Busy
    BY <2>1 DEF Busy
  <2>4. inflight' = Cardinality(Busy)' /\ (Panicked' => cancelled')
    BY <1>1, <1>4, <1>9, <2>3 DEF PipeInv, PoolShape
  <2>5. wpc'[Coord] = "done" => tasks' = <<>>
    BY <1>3, <1>4, Sets DEF PipeInv, PoolShape, Shrinks
  <2>. QED BY <1>1, <1>3, <1>4, <2>2, <2>4, <2>5, PoolAfter
<1>11. Owned'
  <2>1. \A i, j \in DOMAIN tasks' : tasks'[i] = tasks'[j] => i = j
    BY <1>4 DEF PipeInv, Owned, Shrinks
  <2>2. \A v \in Workers : wpc'[v] \in Working => task'[v] \in Units
    BY <1>1, <1>3 DEF PipeInv, Owned, Working
  <2>3. \A r \in results' : r.ok <=> verdict'[r.unit] = "ok"
    <3>. TAKE r \in results'
    <3>1. verdict' = verdict
      BY <1>1 DEF WorkerFrame
    <3>2. CASE r \in results
      BY <3>1, <3>2 DEF PipeInv, Owned
    <3>3. CASE r = rec
      BY <1>2b, <3>1, <3>3
    <3>. QED BY <1>2b, <3>2, <3>3
  <2>4. \A x, v \in Workers : \A u \in Units : Holds(x, u)' /\ Holds(v, u)' => x = v
    BY <1>6 DEF PipeInv, Owned
  <2>5. ASSUME NEW u \in Units
        PROVE  /\ Queued(u)' \/ Taken(u)' => Offered(u)'
               /\ Queued(u)' => ~Taken(u)'
               /\ Held(u)' => ~Resulted(u)' /\ obj'[u] = "torn"
               /\ Resulted(u)' => verdict'[u] # "panic"
               /\ obj'[u] = "whole" <=> kind'[u] = "hit" \/ [unit |-> u, ok |-> TRUE] \in results'
    <3>1. /\ Queued(u) \/ Taken(u) => Offered(u)
          /\ Queued(u) => ~Taken(u)
          /\ Held(u) => ~Resulted(u) /\ obj[u] = "torn"
          /\ Resulted(u) => verdict[u] # "panic"
          /\ obj[u] = "whole" <=> kind[u] = "hit" \/ [unit |-> u, ok |-> TRUE] \in results
      BY DEF PipeInv, Owned
    <3>2. u = t => kind[u] # "hit" /\ [unit |-> u, ok |-> TRUE] \notin results
      BY <1>2 DEF Offered, Resulted
    <3>3. kind' = kind /\ verdict' = verdict /\ (Offered(u)' <=> Offered(u))
      BY <1>1, FrameKeeps DEF WorkerFrame
    <3>4. [unit |-> u, ok |-> TRUE] \in results' <=>
            [unit |-> u, ok |-> TRUE] \in results \/ (u = t /\ ok)
      <4>1. [unit |-> u, ok |-> TRUE] = [unit |-> t, ok |-> ok] <=> u = t /\ ok = TRUE
        OBVIOUS
      <4>. QED BY <1>1, <1>2, <4>1
    <3>5. obj'[u] = "whole" <=> kind'[u] = "hit" \/ [unit |-> u, ok |-> TRUE] \in results'
      BY <1>2, <1>3, <3>1, <3>2, <3>3, <3>4
    <3>. QED BY <1>1, <1>2, <1>3, <1>7, <1>8, <3>1, <3>3, <3>5
  <2>. QED BY <2>1, <2>2, <2>3, <2>4, <2>5 DEF Owned
<1>12. Covered'
  <2>1. cancelled' => KeyError' \/ Failed' # {} \/ Panicked' \/ (AtEnd' /\ outcome' # "none")
    <3>1. Failed # {} => Failed' # {}
      BY <1>1 DEF Failed
    <3>2. ~ok => Failed' # {}
      <4>1. ~ok => [unit |-> t, ok |-> ok] \in results' /\ ~[unit |-> t, ok |-> ok].ok
        BY <1>1
      <4>. QED BY <4>1 DEF Failed
    <3>. QED BY <1>1, <1>9, <3>1, <3>2, FrameKeeps DEF PipeInv, Covered, WorkerFrame
  <2>2. ASSUME ~cancelled', setup' = "ok", NEW u \in Units, Offered(u)' PROVE Queued(u)' \/ Taken(u)'
    <3>1. tasks' = tasks /\ ~cancelled
      BY <1>1, <2>2
    <3>2. Queued(u) \/ Taken(u)
      BY <1>1, <2>2, <3>1, FrameKeeps DEF PipeInv, Covered, WorkerFrame
    <3>. QED BY <1>7, <3>1, <3>2 DEF Queued
  <2>. QED BY <2>1, <2>2 DEF Covered
<1>13. Fifo'
  <2>. SUFFICES ASSUME NoneDeferred', ~Panicked', NEW u \in Units, NEW v \in Units, u < v, kind'[u] = "fresh"
                PROVE  /\ Taken(v)' => Taken(u)'
                       /\ \A j \in DOMAIN tasks' : tasks'[j] = v =>
                            Taken(u)' \/ \E i \in DOMAIN tasks' : i < j /\ tasks'[i] = u
    BY DEF Fifo
  <2>1. NoneDeferred /\ ~Panicked /\ kind[u] = "fresh"
    BY <1>1, <1>9, FrameKeeps DEF WorkerFrame
  <2>2. /\ Taken(v) => Taken(u)
        /\ \A j \in DOMAIN tasks : tasks[j] = v => Taken(u) \/ \E i \in DOMAIN tasks : i < j /\ tasks[i] = u
    BY <2>1 DEF PipeInv, Fifo
  <2>3. \A j \in DOMAIN tasks' : tasks' = tasks
    BY <1>4 DEF Shrinks
  <2>. QED BY <1>7, <2>2, <2>3
<1>14. Settled'
  BY <1>1, <1>3, <1>5, FrameKeeps, NotReturned, SettledEarly DEF WorkerFrame
<1>. QED BY <1>1, <1>5, <1>10, <1>11, <1>12, <1>13, <1>14, FrameKeeps DEF PipeInv

(* The claim guard goes; one that unwinds cancels what is left. *)
LEMMA DropClaimStep ==
    ASSUME PipeInv, NEW w \in Workers, DropClaim(w)
    PROVE  PipeInv'
<1>1. /\ WorkerFrame /\ UNCHANGED <<results, obj>> /\ wpc[w] \in {"post", "unwind"}
      /\ inflight' = (IF inflight > 0 THEN inflight - 1 ELSE 0)
      /\ \/ wpc[w] = "unwind" /\ cancelled' = TRUE /\ tasks' = <<>>
         \/ wpc[w] = "post" /\ UNCHANGED <<tasks, cancelled>>
      /\ wpc' = [NotifyAll(wpc) EXCEPT ![w] = IF wpc[w] = "unwind" THEN "dead" ELSE "top"]
      /\ task' = [task EXCEPT ![w] = 0]
  BY DEF DropClaim, WorkerFrame, Cancelled
<1>2. wpc \in Threads /\ task \in [Workers -> 0..N] /\ inflight \in Nat /\ 0 \in 0..N
  BY Sets DEF PipeInv, PipeTypeOK, Threads
<1>3. /\ wpc' \in Threads /\ wpc'[w] = (IF wpc[w] = "unwind" THEN "dead" ELSE "top") /\ wpc[w] \notin Ended
      /\ \A v \in Workers \ {w} : /\ wpc'[v] = wpc[v] \/ (wpc[v] = "wait" /\ wpc'[v] = "top")
                                  /\ task'[v] = task[v]
      /\ task'[w] = 0 /\ task' \in [Workers -> 0..N]
  BY <1>1, <1>2 DEF Threads, NotifyAll, Ended
<1>4. Shrinks /\ (cancelled' => tasks' = <<>>) /\ (cancelled => cancelled')
  BY <1>1 DEF Shrinks, PipeInv, PoolShape
<1>5. inflight' = Cardinality(Busy)' /\ inflight' \in Nat
  <2>1. Busy' = Busy \ {w} /\ w \in Busy
    BY <1>1, <1>3 DEF Busy, Working
  <2>2. IsFiniteSet(Busy)
    BY Sets, FS_Subset DEF Busy
  <2>3. Cardinality(Busy \ {w}) = Cardinality(Busy) - 1 /\ Cardinality(Busy \ {w}) \in Nat
    BY <2>1, <2>2, FS_RemoveElement, FS_CardinalityType
  <2>4. inflight = Cardinality(Busy)
    BY DEF PipeInv, PoolShape
  <2>. QED BY <1>1, <1>2, <2>1, <2>3, <2>4
<1>6. PipeTypeOK'
  <2>1. tasks' \in Seq(Units) /\ cancelled' \in BOOLEAN
    <3>1. tasks \in Seq(Units) /\ <<>> \in Seq(Units) /\ cancelled \in BOOLEAN
      BY DEF PipeInv, PipeTypeOK
    <3>. QED BY <1>1, <3>1
  <2>. QED BY <1>1, <1>3, <1>5, <2>1 DEF PipeInv, PipeTypeOK, Threads, WorkerFrame
<1>7. \A v \in Workers, u \in Units : Holds(v, u)' <=> v # w /\ Holds(v, u)
  BY <1>1, <1>3 DEF Holds
<1>8. \A u \in Units : /\ (Held(u)' => Held(u)) /\ (Resulted(u)' <=> Resulted(u)) /\ (Taken(u)' => Taken(u))
                       /\ Queued(u)' => Queued(u)
                       /\ wpc[w] = "post" => (Taken(u)' <=> Taken(u))
  <2>. TAKE u \in Units
  <2>1. (Held(u)' => Held(u)) /\ (wpc[w] = "post" => (Held(u)' <=> Held(u)))
    BY <1>7 DEF Held, Holds
  <2>2. Resulted(u)' <=> Resulted(u)
    BY <1>1 DEF Resulted
  <2>3. Queued(u)' => Queued(u)
    BY <1>4 DEF Shrinks, Queued
  <2>. QED BY <2>1, <2>2, <2>3 DEF Taken
<1>9. Panicked' <=> Panicked \/ wpc[w] = "unwind"
  BY <1>1, <1>3 DEF Panicked
<1>10. PoolShape'
  <2>1. \A v \in Workers : task'[v] # 0 <=> wpc'[v] \in Working
    BY <1>3 DEF PipeInv, PoolShape, Working
  <2>2. Panicked' => cancelled'
    BY <1>1, <1>4, <1>9 DEF PipeInv, PoolShape
  <2>3. wpc'[Coord] = "done" => tasks' = <<>>
    BY <1>3, <1>4, Sets DEF PipeInv, PoolShape, Shrinks
  <2>4. /\ wpc'[w] # "none"
        /\ \A v \in Workers \ {w} : wpc'[v] = wpc[v] \/ (wpc[v] = "wait" /\ wpc'[v] = "top")
    BY <1>3
  <2>. QED BY <1>1, <1>3, <1>4, <1>5, <2>1, <2>2, <2>3, <2>4, PoolAfter
<1>11. Owned'
  <2>1. \A i, j \in DOMAIN tasks' : tasks'[i] = tasks'[j] => i = j
    BY <1>4 DEF PipeInv, Owned, Shrinks
  <2>2. \A v \in Workers : wpc'[v] \in Working => task'[v] \in Units
    BY <1>1, <1>3 DEF PipeInv, Owned, Working
  <2>3. \A r \in results' : r.ok <=> verdict'[r.unit] = "ok"
    BY <1>1 DEF PipeInv, Owned, WorkerFrame
  <2>4. \A x, v \in Workers : \A u \in Units : Holds(x, u)' /\ Holds(v, u)' => x = v
    BY <1>7 DEF PipeInv, Owned
  <2>5. \A u \in Units :
          /\ Queued(u)' \/ Taken(u)' => Offered(u)'
          /\ Queued(u)' => ~Taken(u)'
          /\ Held(u)' => ~Resulted(u)' /\ obj'[u] = "torn"
          /\ Resulted(u)' => verdict'[u] # "panic"
          /\ obj'[u] = "whole" <=> kind'[u] = "hit" \/ [unit |-> u, ok |-> TRUE] \in results'
    BY <1>1, <1>8, FrameKeeps DEF PipeInv, Owned, WorkerFrame
  <2>. QED BY <2>1, <2>2, <2>3, <2>4, <2>5 DEF Owned
<1>12. Covered'
  <2>1. cancelled' => KeyError' \/ Failed' # {} \/ Panicked' \/ (AtEnd' /\ outcome' # "none")
    <3>1. Failed' = Failed
      BY <1>1 DEF Failed
    <3>. QED BY <1>1, <1>9, <3>1, FrameKeeps DEF PipeInv, Covered, WorkerFrame
  <2>2. ASSUME ~cancelled', setup' = "ok", NEW u \in Units, Offered(u)' PROVE Queued(u)' \/ Taken(u)'
    <3>1. tasks' = tasks /\ ~cancelled /\ wpc[w] = "post"
      BY <1>1, <2>2
    <3>2. Queued(u) \/ Taken(u)
      BY <1>1, <2>2, <3>1, FrameKeeps DEF PipeInv, Covered, WorkerFrame
    <3>. QED BY <1>8, <3>1, <3>2 DEF Queued
  <2>. QED BY <2>1, <2>2 DEF Covered
<1>13. Fifo'
  <2>1. CASE wpc[w] = "unwind"
    BY <1>9, <2>1 DEF Fifo
  <2>2. CASE wpc[w] = "post"
    <3>1. tasks' = tasks /\ kind' = kind
      BY <1>1, <2>2 DEF WorkerFrame
    <3>. SUFFICES ASSUME NoneDeferred', ~Panicked', NEW u \in Units, NEW v \in Units, u < v, kind'[u] = "fresh"
                  PROVE  /\ Taken(v)' => Taken(u)'
                         /\ \A j \in DOMAIN tasks' : tasks'[j] = v =>
                              Taken(u)' \/ \E i \in DOMAIN tasks' : i < j /\ tasks'[i] = u
      BY DEF Fifo
    <3>2. NoneDeferred /\ ~Panicked /\ kind[u] = "fresh"
      BY <1>1, <1>9, <3>1, FrameKeeps
    <3>3. /\ Taken(v) => Taken(u)
          /\ \A j \in DOMAIN tasks : tasks[j] = v => Taken(u) \/ \E i \in DOMAIN tasks : i < j /\ tasks[i] = u
      BY <3>2 DEF PipeInv, Fifo
    <3>4. (Taken(u)' <=> Taken(u)) /\ (Taken(v)' <=> Taken(v))
      BY <1>8, <2>2
    <3>. QED BY <3>1, <3>3, <3>4
  <2>. QED BY <1>1, <2>1, <2>2
<1>14. Settled'
  BY <1>1, <1>3, <1>6, FrameKeeps, NotReturned, SettledEarly DEF WorkerFrame
<1>. QED BY <1>1, <1>6, <1>10, <1>11, <1>12, <1>13, <1>14, FrameKeeps DEF PipeInv

(***************************************************************************)
(* The verdict.                                                            *)
(***************************************************************************)
LEMMA BlamesFirst ==
    ASSUME NEW S, S \subseteq Nat, S # {}
    PROVE  Blame(S) \in S /\ \A v \in S : Blame(S) <= v
<1> DEFINE R == {p \in Nat \X Nat : p[1] < p[2]}
<1>1. IsWellFoundedOn(R, Nat)
  BY NatLessThanWellFounded DEF OpToRel
<1>2. PICK x \in S : \A y \in S : <<y, x>> \notin R
  BY <1>1, WFMin
<1>3. ASSUME NEW y \in S PROVE x <= y
  <2>1. x \in Nat /\ y \in Nat /\ <<y, x>> \notin R
    BY <1>2
  <2>2. y < x => <<y, x>> \in R
    BY <2>1
  <2> HIDE DEF R
  <2> QED BY ONLY <2>1, <2>2
<1> QED BY <1>3 DEF Blame

(* When every thread has ended, each unit that was offered and is not lost *)
(* to a cancellation has its result.                                       *)
LEMMA ResultsAtEnd ==
    ASSUME PipeInv, Joined
    PROVE  /\ \A u \in Units : ~Held(u) /\ (Taken(u) <=> Resulted(u))
           /\ \A u \in Units : u \in Failed <=> Resulted(u) /\ verdict[u] = "err"
           /\ \A u \in Units : u \in Succeeded <=> Resulted(u) /\ verdict[u] = "ok"
           /\ \A u \in Units : u \in Succeeded <=> [unit |-> u, ok |-> TRUE] \in results
           /\ \A u \in Units : Resulted(u) => kind[u] \in {"fresh", "reused"}
           /\ Failed \subseteq Units /\ Succeeded \subseteq Units
<1>1. \A u \in Units : ~Held(u) /\ (Taken(u) <=> Resulted(u))
  BY DEF Joined, Held, Holds, Ended, Taken
<1>2. \A r \in results : /\ r \in [unit : Units, ok : BOOLEAN] /\ r.unit \in Units /\ r.ok \in BOOLEAN
                         /\ (r.ok <=> verdict[r.unit] = "ok")
  BY DEF PipeInv, PipeTypeOK, Owned
<1>3. Failed \subseteq Units /\ Succeeded \subseteq Units
  BY <1>2 DEF Failed, Succeeded
<1>4. ASSUME NEW u \in Units
      PROVE  /\ u \in Failed <=> Resulted(u) /\ verdict[u] = "err"
             /\ u \in Succeeded <=> Resulted(u) /\ verdict[u] = "ok"
             /\ u \in Succeeded <=> [unit |-> u, ok |-> TRUE] \in results
             /\ Resulted(u) => kind[u] \in {"fresh", "reused"}
  <2>1. Resulted(u) => verdict[u] \in {"ok", "err"}
    BY DEF PipeInv, PipeTypeOK, Owned
  <2>2. u \in Failed <=> Resulted(u) /\ verdict[u] # "ok"
    BY <1>2 DEF Failed, Resulted
  <2>3. u \in Succeeded <=> Resulted(u) /\ verdict[u] = "ok"
    BY <1>2 DEF Succeeded, Resulted
  <2>4. u \in Succeeded => [unit |-> u, ok |-> TRUE] \in results
    <3>. SUFFICES ASSUME u \in Succeeded PROVE [unit |-> u, ok |-> TRUE] \in results
      OBVIOUS
    <3>1. PICK r \in results : r.unit = u /\ r.ok
      BY DEF Succeeded
    <3>2. r = [unit |-> u, ok |-> TRUE]
      BY <1>2, <3>1
    <3>. QED BY <3>1, <3>2
  <2>5. [unit |-> u, ok |-> TRUE] \in results => u \in Succeeded
    BY DEF Succeeded
  <2>6. Resulted(u) => kind[u] \in {"fresh", "reused"}
    BY DEF PipeInv, Owned, Taken, Offered
  <2>. QED BY <2>1, <2>2, <2>3, <2>4, <2>5, <2>6
<1>. QED BY <1>1, <1>3, <1>4

(* A build that gets as far as a verdict on codegen. *)
LEMMA CommitFacts ==
    ASSUME PipeInv, coord = "join", Joined, ~Panicked, outcome = "none"
    PROVE  /\ setup = "ok" /\ ~KeyError
           /\ \A u \in Units : kind[u] \in {"hit", "fresh", "reused"}
           /\ Failed = {} => \A u \in Units : kind[u] # "hit" => u \in Succeeded
<1>1. /\ setup = "ok" /\ ~KeyError /\ AtEnd
      /\ \A u \in Units : kind[u] \in {"hit", "fresh", "reused"}
  <2>1. setup = "ok" /\ ~KeyError /\ AtEnd /\ \A u \in Units : kind[u] \notin {"none", "stale"}
    BY DEF PipeInv, Walked, AtEnd
  <2>. QED BY <2>1 DEF PipeInv, PipeTypeOK, KindSet, KeyError
<1>2. tasks = <<>>
  BY Sets DEF PipeInv, PoolShape, Joined, Ended, Panicked
<1>3. ASSUME Failed = {}, NEW u \in Units, kind[u] # "hit" PROVE u \in Succeeded
  <2>1. ~cancelled
    BY <1>1, <1>3 DEF PipeInv, Covered
  <2>2. Offered(u)
    BY <1>1, <1>3 DEF Offered
  <2>3. Queued(u) \/ Taken(u)
    BY <1>1, <2>1, <2>2 DEF PipeInv, Covered
  <2>4. ~Queued(u)
    BY <1>2 DEF Queued
  <2>5. Resulted(u) /\ verdict[u] # "err"
    BY <1>3, <2>3, <2>4, ResultsAtEnd
  <2>6. verdict[u] \in {"ok", "err", "panic"}
    <3>1. verdict \in [Units -> {"ok", "err", "panic"}]
      BY DEF PipeInv, PipeTypeOK
    <3>. QED BY <3>1
  <2>7. verdict[u] # "panic"
    BY <2>5 DEF PipeInv, Owned
  <2>. QED BY <2>5, <2>6, <2>7, ResultsAtEnd
<1>. QED BY <1>1, <1>3

(* The first result that is an error is the first error of the package. *)
LEMMA FirstError ==
    ASSUME PipeInv, coord = "join", Joined, ~Panicked, outcome = "none", Failed # {}, NoneDeferred
    PROVE  Blame(Failed) = Blame({u \in Units : Missed(u) /\ verdict[u] = "err"})
<1>. DEFINE E == {u \in Units : Missed(u) /\ verdict[u] = "err"}
            b == Blame(Failed)
            m == Blame(E)
<1>1. b \in Failed /\ b \in Units /\ \A v \in Failed : b <= v
  BY ResultsAtEnd, BlamesFirst, Sets
<1>2. Resulted(b) /\ b \in E
  BY <1>1, ResultsAtEnd DEF Missed
<1>3. m \in E /\ m \in Units /\ \A v \in E : m <= v
  <2>1. E # {} /\ E \subseteq Nat
    BY <1>2, Sets
  <2>. QED BY <2>1, BlamesFirst
<1>4. kind[m] = "fresh" /\ verdict[m] = "err"
  BY <1>3, CommitFacts DEF Missed, NoneDeferred
<1>. HIDE DEF E, b, m
<1>5. m <= b /\ m \in Nat /\ b \in Nat
  BY <1>1, <1>2, <1>3, Sets
<1>6. m < b => m \in Failed
  <2>. SUFFICES ASSUME m < b PROVE m \in Failed
    OBVIOUS
  <2>1. Taken(b)
    BY <1>2 DEF Taken
  <2>2. Taken(m)
    BY <1>1, <1>3, <1>4, <2>1 DEF PipeInv, Fifo
  <2>. QED BY <1>3, <1>4, <2>2, ResultsAtEnd
<1>7. b = m
  BY <1>1, <1>5, <1>6
<1>. QED BY <1>7 DEF b, m, E

LEMMA ReturnStep ==
    ASSUME PipeInv, Return
    PROVE  PipeInv'
<1>1. /\ coord = "join" /\ coord' = "returned" /\ Joined /\ AtEnd /\ AtEnd'
      /\ UNCHANGED <<verdict, setup, kind, cur, want, tasks, results, inflight, closed, cancelled, wpc, task, obj, attempt>>
      /\ outcome \in {"none", "frontend", "stage", "pgo", "key", "stale", "target"} /\ published = {}
  BY DEF Return, AtEnd, queue, threads, PipeInv, Walked
<1>2. \/ Panicked /\ outcome' = "panic" /\ blamed' = 0 /\ published' = {}
      \/ ~Panicked /\ outcome # "none" /\ UNCHANGED <<outcome, blamed>> /\ published' = {}
      \/ /\ ~Panicked /\ outcome = "none" /\ published' = Succeeded
         /\ \/ Failed # {} /\ outcome' = "codegen" /\ blamed' = Blame(Failed)
            \/ Failed = {} /\ outcome' = "complete" /\ blamed' = 0
  BY <1>1 DEF Return, Commit
<1>3. /\ KeyError' <=> KeyError
      /\ NoneDeferred' <=> NoneDeferred
      /\ \A u \in Units : (Offered(u)' <=> Offered(u)) /\ (Missed(u)' <=> Missed(u))
      /\ Steady /\ Shrinks /\ HitsOnly
  BY <1>1 DEF KeyError, NoneDeferred, Offered, Missed, Steady, Shrinks, HitsOnly
<1>4. PipeTypeOK'
  <2>1. blamed' \in 0..N
    <3>1. Failed # {} => Blame(Failed) \in Units
      BY <1>1, ResultsAtEnd, BlamesFirst, Sets
    <3>2. blamed \in 0..N
      BY DEF PipeInv, PipeTypeOK
    <3>. QED BY <1>2, <3>1, <3>2, Sets
  <2>2. published' \subseteq Units
    BY <1>1, <1>2, ResultsAtEnd
  <2>. QED BY <1>1, <1>2, <2>1, <2>2 DEF PipeInv, PipeTypeOK
<1>5. PoolShape'
  <2>1. /\ Spawned' = Spawned /\ Busy' = Busy /\ (Panicked' <=> Panicked) /\ (Joined' <=> Joined)
    BY <1>1 DEF Spawned, Busy, Panicked, Joined
  <2>. QED BY <1>1, <2>1 DEF PipeInv, PoolShape
<1>6. Walked'
  <2>1. outcome' \in {"codegen", "complete"} => outcome = "none"
    BY <1>1, <1>2
  <2>2. outcome' \notin {"codegen", "complete", "panic"} => outcome' = outcome /\ outcome # "none"
    BY <1>2
  <2>. QED BY <1>1, <1>3, <2>1, <2>2 DEF PipeInv, Walked
<1>7. Owned'
  BY <1>1, <1>3, OwnedKeeps DEF PipeInv
<1>8. Covered'
  <2>1. outcome # "none" => outcome' # "none"
    BY <1>2
  <2>. QED BY <1>1, <1>3, <2>1, CoveredKeeps DEF PipeInv
<1>9. Fifo'
  BY <1>1, <1>3, FifoKeeps DEF PipeInv
<1>10. CompleteIsWhole'
  <2>. SUFFICES ASSUME outcome' = "complete", NEW u \in Units PROVE obj[u] = "whole"
    BY <1>1 DEF CompleteIsWhole
  <2>1. ~Panicked /\ outcome = "none" /\ Failed = {}
    BY <1>1, <1>2
  <2>2. kind[u] = "hit" \/ [unit |-> u, ok |-> TRUE] \in results
    BY <1>1, <2>1, CommitFacts, ResultsAtEnd
  <2>. QED BY <2>2 DEF PipeInv, Owned
<1>11. PublishedAtCommit'
  <2>1. published' # {} => outcome' \in {"codegen", "complete"}
    BY <1>2
  <2>2. ASSUME outcome' \in {"codegen", "complete"}
        PROVE  published' = {u \in Units : Missed(u)' /\ obj'[u] = "whole"}
    <3>1. published' = Succeeded
      BY <1>1, <1>2, <2>2
    <3>2. \A u \in Units : u \in Succeeded <=> Missed(u) /\ obj[u] = "whole"
      <4>. TAKE u \in Units
      <4>1. obj[u] = "whole" <=> kind[u] = "hit" \/ u \in Succeeded
        BY <1>1, ResultsAtEnd DEF PipeInv, Owned
      <4>2. u \in Succeeded => Missed(u)
        BY <1>1, ResultsAtEnd DEF Missed
      <4>. QED BY <4>1, <4>2 DEF Missed
    <3>3. Succeeded \subseteq Units
      BY <1>1, ResultsAtEnd
    <3>. QED BY <1>1, <1>3, <3>1, <3>2, <3>3
  <2>. QED BY <2>1, <2>2 DEF PublishedAtCommit
<1>12. Precedence'
  <2>1. CASE Panicked
    BY <1>2, <2>1 DEF Precedence
  <2>2. CASE ~Panicked /\ outcome # "none"
    <3>1. outcome' = outcome
      BY <1>2, <2>2
    <3>2. /\ outcome \in {"stage", "pgo"} => setup = outcome
          /\ outcome = "key" => KeyError /\ setup \notin {"stage", "pgo"}
          /\ outcome = "stale" => setup \notin {"stage", "pgo"} /\ ~KeyError /\ \E u \in Units : kind[u] = "stale"
          /\ outcome = "target" => setup = "target" /\ ~KeyError /\ \A u \in Units : kind[u] # "stale"
      BY <1>1 DEF PipeInv, Walked, KeyError
    <3>. QED BY <1>1, <1>3, <2>2, <3>1, <3>2 DEF Precedence
  <2>3. CASE ~Panicked /\ outcome = "none"
    <3>1. setup = "ok" /\ ~KeyError /\ \A u \in Units : kind[u] \in {"hit", "fresh", "reused"}
      BY <1>1, <2>3, CommitFacts
    <3>2. (\E u \in Units : Missed(u) /\ verdict[u] # "ok") <=> Failed # {}
      <4>1. ASSUME Failed # {} PROVE \E u \in Units : Missed(u) /\ verdict[u] # "ok"
        <5>1. PICK u \in Units : u \in Failed
          BY <1>1, <4>1, ResultsAtEnd
        <5>2. Missed(u) /\ verdict[u] # "ok"
          BY <1>1, <5>1, ResultsAtEnd DEF Missed
        <5>. QED BY <5>2
      <4>2. ASSUME Failed = {}, NEW u \in Units, Missed(u) PROVE verdict[u] = "ok"
        <5>1. u \in Succeeded
          BY <1>1, <2>3, <4>2, CommitFacts DEF Missed
        <5>. QED BY <1>1, <5>1, ResultsAtEnd
      <4>. QED BY <4>1, <4>2
    <3>3. outcome' = IF Failed # {} THEN "codegen" ELSE "complete"
      BY <1>2, <2>3
    <3>. QED BY <1>1, <1>3, <3>1, <3>2, <3>3 DEF Precedence
  <2>. QED BY <2>1, <2>2, <2>3
<1>13. ChosenError'
  <2>. SUFFICES ASSUME outcome' = "codegen", NoneDeferred'
                PROVE  blamed' = Blame({u \in Units : Missed(u) /\ verdict[u] = "err"})
    BY <1>1 DEF ChosenError, NoneDeferred, Missed, Blame
  <2>1. ~Panicked /\ outcome = "none" /\ Failed # {} /\ blamed' = Blame(Failed) /\ NoneDeferred
    BY <1>1, <1>2, <1>3
  <2>. QED BY <1>1, <2>1, FirstError
<1>. QED BY <1>4, <1>5, <1>6, <1>7, <1>8, <1>9, <1>10, <1>11, <1>12, <1>13 DEF PipeInv, Settled

(* The retry starts as the first attempt did. *)
LEMMA FreshAgain == Fresh' => PipeInv'
BY FreshInv, PTL

LEMMA RetryStep ==
    ASSUME PipeInv, Retry
    PROVE  PipeInv'
<1>1. Fresh'
  BY DEF Retry, Fresh, PipeInv, PipeTypeOK
<1>. QED BY <1>1, FreshAgain

LEMMA PipeStep == PipeInv /\ [PipeNext]_pipeVars => PipeInv'
<1>. SUFFICES ASSUME PipeInv, [PipeNext]_pipeVars PROVE PipeInv'
  OBVIOUS
<1>1. ASSUME UNCHANGED pipeVars PROVE PipeInv'
  <2>1. /\ UNCHANGED <<verdict, setup, kind, coord, cur, want, tasks, results, inflight, closed, cancelled>>
        /\ UNCHANGED <<wpc, task, obj, published, outcome, blamed, attempt>>
    BY <1>1 DEF pipeVars, queue, threads
  <2>2. WorkerFrame /\ Steady /\ Shrinks /\ HitsOnly
    BY <2>1 DEF WorkerFrame, Steady, Shrinks, HitsOnly
  <2>3. PipeTypeOK'
    BY <2>1 DEF PipeInv, PipeTypeOK
  <2>4. PoolShape'
    <3>1. /\ Spawned' = Spawned /\ Busy' = Busy /\ (Panicked' <=> Panicked) /\ (Joined' <=> Joined)
      BY <2>1 DEF Spawned, Busy, Panicked, Joined
    <3>. QED BY <2>1, <3>1 DEF PipeInv, PoolShape, AtEnd
  <2>5. Owned'
    BY <2>1, <2>2, FrameKeeps, OwnedKeeps DEF PipeInv
  <2>6. Covered'
    BY <2>1, <2>2, FrameKeeps, CoveredKeeps DEF PipeInv
  <2>7. Fifo'
    BY <2>1, <2>2, FrameKeeps, FifoKeeps DEF PipeInv
  <2>8. Settled'
    <3>1. \A u \in Units : Missed(u)' <=> Missed(u)
      BY <2>1 DEF Missed
    <3>. QED BY <2>1, <2>2, <3>1, FrameKeeps DEF PipeInv, Settled, CompleteIsWhole, PublishedAtCommit, Precedence, ChosenError, Missed, Blame
  <2>. QED BY <2>2, <2>3, <2>4, <2>5, <2>6, <2>7, <2>8, FrameKeeps DEF PipeInv
<1>2. ASSUME NEW k \in Kinds, Ready(k) PROVE PipeInv'
  BY <1>2, ReadyStep
<1>3. ASSUME Enqueue \/ Grow \/ FrontendFails \/ WalkEnds \/ Stale \/ Rehydrate \/ FinishPool \/ Return \/ Retry
      PROVE  PipeInv'
  BY <1>3, EnqueueStep, GrowStep, FrontendFailsStep, WalkEndsStep, StaleStep, RehydrateStep, FinishPoolStep, ReturnStep, RetryStep
<1>4. ASSUME NEW w \in Workers, Worker(w) \/ Spurious(w) PROVE PipeInv'
  BY <1>4, TakeTaskStep, RestStep, EmittedStep, DropClaimStep DEF Worker
<1>. QED BY <1>1, <1>2, <1>3, <1>4 DEF PipeNext, Coordinator, Over

(* The inductive invariant of the pipeline: PoolShape, Walked, Owned,      *)
(* Covered, Fifo and Settled hold in every state of build_package_pipelined *)
(* for any number of units and of jobs, whatever codegen makes of a unit.  *)
THEOREM PipeInvariant == PipeSpec => []PipeInv
<1>1. PipeInit => PipeInv
  BY PipeInitInv
<1>2. PipeInv /\ [PipeNext]_pipeVars => PipeInv'
  BY PipeStep
<1>. QED BY <1>1, <1>2, PTL DEF PipeSpec

(* build_package_pipelined never runs more than -j things at once, keeps   *)
(* one owner for each unit's MIR, returns only when no worker is left that *)
(* may write into the stage, calls a build complete only when every object *)
(* is whole, publishes exactly the successes and only once frontend and    *)
(* setup are known to be good, and its verdict and the unit it blames do   *)
(* not depend on the order in which its workers ran.                       *)
THEOREM PipelineIsRight == PipeSpec => []PipelineRight
<1>1. PipeInv => PipelineRight
  BY InvIsRight
<1>. QED BY <1>1, PipeInvariant, PTL

-----------------------------------------------------------------------------
(***************************************************************************)
(* The captured link: what holds of each call.                             *)
(***************************************************************************)
Clean(c) == ~call[c].err /\ ~call[c].stop /\ ~call[c].panic
AllTaken(c) == \A s \in Streams : pipe[c][s].out = pipe[c][s].put
BeforeIsolation == Capturing \cup {"idle", "discard", "reclaim"}
Ours == {0, ReservedIno, ReplacedIno}

(* The lease is held as long as the tool is captured, and the position of  *)
(* the caller says how far the tool has come.                              *)
Captured(c) ==
    /\ call[c].pc \in Capturing <=> lease = c
    /\ call[c].pc \in {"pump", "poll", "grace", "kill"} => child[c].st \in {"run", "zombie"}
    /\ call[c].pc = "drain" => child[c].st = "zombie"
    /\ call[c].pc = "reap" => child[c].st \in {"dying", "zombie"}
    /\ call[c].pc = "after" => child[c].st = "reaped"
    /\ call[c].pc \notin Capturing \/ call[c].pc = "spawn" => child[c].st \in {None, "reaped"}

(* A call that has met no fault behind the pump has drained both streams   *)
(* of a tool that ended by itself.                                         *)
Reported(c) ==
    /\ call[c].pump => call[c].err
    /\ call[c].pc \in {"idle", "spawn"} => Clean(c)
    /\ call[c].pc \in {"grace", "kill", "reap", "after"} /\ Clean(c) =>
         child[c].st \in {"zombie", "reaped"} /\ AllTaken(c)
    /\ Isolated(c) \/ call[c].result = "ok" => Clean(c) /\ child[c].code = "ok" /\ AllTaken(c)
    /\ call[c].result # None <=> call[c].pc = "done"

(* Which files the stage names stand for. *)
Named(c) ==
    /\ stage[c].known \in Ours
    /\ call[c].pc = "idle" => stage[c].tool = NoFile
    /\ call[c].pc \in BeforeIsolation => stage[c].tool.ino \in Ours
    /\ call[c].pc \in BeforeIsolation \cup {"hash"} => stage[c].pub = NoFile
    /\ Isolating(c) => stage[c].tool.kind = "file" /\ stage[c].tool.ino \in {stage[c].known, ForeignIno}
    /\ call[c].pc \in {"copy", "rehash", "check", "remove", "verify", "rename"} =>
         stage[c].pub.kind = "file" /\ stage[c].pub.ino \in {PubIno, ForeignIno}
    /\ call[c].pc \in {"verify", "rename"} => stage[c].tool = NoFile
    /\ call[c].pc = "rename" => stage[c].pub = File(PubIno)
    /\ call[c].result \in {"ok", "err"} =>
         \A n \in {stage[c].tool, stage[c].pub} : n.kind = "file" => n.ino = ForeignIno

(* Bytes that a later stray write cannot bring back. *)
Kept(v) == v <= 2 \/ v > 2 + budget.writes
AllKept(d) == \A i \in 1..Len(d) : Kept(d[i])

(* Where d still agrees with the first reading, the output did so at the   *)
(* moment e that ended it.                                                 *)
AgreesAt(d, first, e) ==
    \A i \in 1..Len(first) : i <= Len(d) /\ d[i] = first[i] => i <= Len(e) /\ e[i] = first[i]
Moment(c, e) ==
    /\ Len(e) <= Len(iso[c].first)
    /\ AgreesAt(iso[c].src, iso[c].first, e)
    /\ AgreesAt(iso[c].copy, iso[c].first, e)

(* The passes over the output. *)
Copied(c) ==
    /\ AllKept(iso[c].src) /\ AllKept(iso[c].first)
    /\ call[c].pc \in BeforeIsolation => iso[c].first = <<>>
    /\ call[c].pc \in BeforeIsolation \cup {"hash"} => iso[c].copy = <<>>
    /\ Isolating(c) => iso[c].src \in contents[c]
    /\ call[c].pc \in {"copy", "rehash", "check"} => \E e \in contents[c] : Moment(c, e)
    /\ call[c].pc \in {"remove", "verify", "rename"} => iso[c].copy \in contents[c]
    /\ exe.by = c => call[c].pc = "done" /\ exe.data \in contents[c]

LinkInv ==
    /\ LinkTypeOK
    /\ \A c \in Calls : Captured(c) /\ Reported(c) /\ Named(c) /\ Copied(c)
    /\ ForeignKept

-----------------------------------------------------------------------------
(***************************************************************************)
(* What a step of one call leaves alone.                                   *)
(***************************************************************************)
Only(c) ==
    /\ call' = [call EXCEPT ![c] = call'[c]] /\ child' = [child EXCEPT ![c] = child'[c]]
    /\ pipe' = [pipe EXCEPT ![c] = pipe'[c]] /\ stage' = [stage EXCEPT ![c] = stage'[c]]
    /\ iso' = [iso EXCEPT ![c] = iso'[c]] /\ contents' = [contents EXCEPT ![c] = contents'[c]]

(* The rest of what the step of c may do to the others. *)
Mild(c) ==
    /\ \A d \in Calls \ {c} : lease' = d <=> lease = d
    /\ budget'.writes <= budget.writes
    /\ exe' = exe \/ exe'.by = c

LEMMA Names ==
    /\ None = "none" /\ None \notin Calls /\ "foreign" \notin Calls /\ IsFiniteSet(Calls)
    /\ MaxWrites \in Nat /\ Foreign \in Nat /\ Tools \in 1..2
BY LinkAssumption DEF LinkAssumption, None

LEMMA Others ==
    ASSUME LinkInv, NEW c \in Calls, Only(c), Mild(c), LinkTypeOK', NEW d \in Calls, d # c
    PROVE  (Captured(d) /\ Reported(d) /\ Named(d) /\ Copied(d))'
<1>1. /\ call'[d] = call[d] /\ child'[d] = child[d] /\ pipe'[d] = pipe[d] /\ stage'[d] = stage[d]
      /\ iso'[d] = iso[d] /\ contents'[d] = contents[d] /\ (lease' = d <=> lease = d)
      /\ (exe'.by = d => exe' = exe)
  BY DEF LinkInv, LinkTypeOK, Only, Mild
<1>2. Captured(d) /\ Reported(d) /\ Named(d) /\ Copied(d)
  BY DEF LinkInv
<1>3. Captured(d)'
  BY <1>1, <1>2 DEF Captured
<1>4. Reported(d)'
  BY <1>1, <1>2 DEF Reported, Clean, AllTaken, Isolated
<1>5. Named(d)'
  BY <1>1, <1>2 DEF Named, Isolating
<1>6. AllKept(iso[d].src)' /\ AllKept(iso[d].first)'
  <2>1. iso[d].src \in Seq(Nat) /\ iso[d].first \in Seq(Nat)
    BY DEF LinkInv, LinkTypeOK, IsoType
  <2>2. budget' \in [writes : 0..MaxWrites, foreign : 0..Foreign] /\ budget'.writes <= budget.writes
    BY DEF LinkTypeOK, Mild
  <2>3. AllKept(iso[d].src) /\ AllKept(iso[d].first) /\ LinkTypeOK
    BY <1>2 DEF Copied, LinkInv
  <2>4. \A v \in Nat : Kept(v) => Kept(v)'
    BY <2>2, Names DEF Kept, LinkInv, LinkTypeOK
  <2> QED  BY <1>1, <2>1, <2>3, <2>4, SMTT(30) DEF AllKept
<1>7. Copied(d)'
  BY <1>1, <1>2, <1>6 DEF Copied, Isolating, Moment
<1> QED  BY <1>3, <1>4, <1>5, <1>7

(* A file of others under a stage name. *)
Alien(n) == n.kind = "file" /\ n.ino = ForeignIno

LEMMA SameAliens ==
    ASSUME LinkInv, NEW c \in Calls, Only(c), budget'.foreign = budget.foreign, exe'.by # "foreign",
           Alien(stage'[c].tool) <=> Alien(stage[c].tool), Alien(stage'[c].pub) <=> Alien(stage[c].pub)
    PROVE  ForeignKept'
<1> DEFINE A == {x \in Calls \X {"tool", "pub"} : stage[x[1]][x[2]].kind = "file" /\ stage[x[1]][x[2]].ino = ForeignIno}
<1>1. \A d \in Calls : d # c => stage'[d] = stage[d]
  BY DEF Only, LinkInv, LinkTypeOK
<1>2. \A d \in Calls, n \in {"tool", "pub"} : Alien(stage'[d][n]) <=> Alien(stage[d][n])
  BY <1>1
<1>3. A' = A
  BY <1>2 DEF Alien
<1>4. ForeignKept
  BY DEF LinkInv
<1> QED  BY <1>3, <1>4 DEF ForeignKept

(* A step of c keeps the invariant if it does so for c. *)
LEMMA Alone ==
    ASSUME LinkInv, NEW c \in Calls, Only(c), Mild(c), LinkTypeOK',
           (Captured(c) /\ Reported(c) /\ Named(c) /\ Copied(c))', ForeignKept'
    PROVE  LinkInv'
<1>1. \A d \in Calls : (Captured(d) /\ Reported(d) /\ Named(d) /\ Copied(d))'
  BY Others
<1> QED  BY <1>1 DEF LinkInv

(* A step of the pump or of the tool that touches no file. *)
LEMMA Pumps ==
    ASSUME LinkInv, NEW c \in Calls, Only(c), LinkTypeOK', UNCHANGED <<lease, stage, iso, exe, contents, budget>>,
           call[c].pc \in Capturing, call'[c].pc \in Capturing, call'[c].result = call[c].result,
           Captured(c)', Reported(c)'
    PROVE  LinkInv'
<1>1. Captured(c) /\ Reported(c) /\ Named(c) /\ Copied(c)
  BY DEF LinkInv
<1>2. Named(c)'
  BY <1>1 DEF Named, Isolating, Passes, Capturing, BeforeIsolation, Alien, Only
<1>3. Copied(c)'
  BY <1>1 DEF Copied, Isolating, Passes, Capturing, BeforeIsolation, Moment, AllKept, Kept, Only
<1>4. Mild(c)
  BY DEF Mild, LinkInv, LinkTypeOK
<1>5. ForeignKept'
  BY SameAliens DEF LinkInv, ForeignKept
<1> QED  BY <1>2, <1>3, <1>4, <1>5, Alone

(* The types, for the call that moves. *)
Fits(c) ==
    /\ call[c] \in CallType /\ child[c] \in ChildType /\ pipe[c] \in [Streams -> PipeType]
    /\ \A s \in Streams : pipe[c][s].out <= pipe[c][s].put
    /\ stage[c] \in StageType /\ iso[c] \in IsoType /\ contents[c] \in SUBSET Seq(Nat)

LEMMA Fit == ASSUME LinkTypeOK, NEW c \in Calls PROVE Fits(c)
BY DEF LinkTypeOK, Fits

LEMMA Typed ==
    ASSUME LinkTypeOK, NEW c \in Calls, Only(c), Fits(c)', lease' \in Calls \cup {None},
           exe' \in [by : Calls \cup {None, "foreign"}, data : Seq(Nat)],
           budget' \in [writes : 0..MaxWrites, foreign : 0..Foreign]
    PROVE  LinkTypeOK'
<1>1. call' \in [Calls -> CallType] /\ child' \in [Calls -> ChildType] /\ pipe' \in [Calls -> [Streams -> PipeType]]
  BY DEF LinkTypeOK, Only, Fits
<1>2. stage' \in [Calls -> StageType] /\ iso' \in [Calls -> IsoType] /\ contents' \in [Calls -> SUBSET Seq(Nat)]
  BY DEF LinkTypeOK, Only, Fits
<1>3. \A d \in Calls, s \in Streams : (pipe[d][s].out <= pipe[d][s].put)'
  BY ZenonT(30) DEF LinkTypeOK, Only, Fits
<1> QED  BY <1>1, <1>2, <1>3 DEF LinkTypeOK

(* What happens to one stream. *)
LEMMA Drained ==
    ASSUME NEW p \in PipeType
    PROVE  [p EXCEPT !.out = p.put] \in PipeType /\ [p EXCEPT !.out = p.put].out = [p EXCEPT !.out = p.put].put
BY DEF PipeType
LEMMA Printed ==
    ASSUME NEW p \in PipeType, p.out <= p.put
    PROVE  /\ [p EXCEPT !.put = @ + 1] \in PipeType
           /\ [p EXCEPT !.put = @ + 1].out <= [p EXCEPT !.put = @ + 1].put
<1>1. p.put \in Nat /\ p.out \in Nat /\ p.put + 1 \in Nat
  BY DEF PipeType
<1>2. [p EXCEPT !.put = @ + 1] \in PipeType
  BY <1>1 DEF PipeType
<1>3. [p EXCEPT !.put = @ + 1].out = p.out /\ [p EXCEPT !.put = @ + 1].put = p.put + 1
  BY DEF PipeType
<1> QED  BY <1>1, <1>2, <1>3
LEMMA Shut ==
    ASSUME NEW p \in PipeType
    PROVE  /\ [p EXCEPT !.open = FALSE] \in PipeType
           /\ [p EXCEPT !.open = FALSE].out = p.out /\ [p EXCEPT !.open = FALSE].put = p.put
BY DEF PipeType

LEMMA SpawnSafe == ASSUME LinkInv, NEW c \in Calls, Spawn(c) PROVE LinkInv'
<1> USE Names DEF Spawn, CallAt, Go, To, NewPipe
<1>1. Captured(c) /\ Reported(c) /\ LinkTypeOK /\ Fits(c)
  BY Fit DEF LinkInv
<1>2. Only(c)
  BY <1>1 DEF LinkTypeOK, Only
<1>3. Fits(c)'
  <2>1. pipe'[c] = [s \in Streams |-> NewPipe] /\ NewPipe \in PipeType /\ NewPipe.out = NewPipe.put
    BY <1>1 DEF LinkTypeOK, PipeType
  <2>2. pipe'[c] \in [Streams -> PipeType] /\ \A s \in Streams : pipe'[c][s].out <= pipe'[c][s].put
    <3>1. \A s \in Streams : pipe'[c][s] = NewPipe
      BY <2>1
    <3>2. NewPipe.out <= NewPipe.put
      OBVIOUS
    <3> HIDE DEF NewPipe
    <3> QED  BY <2>1, <3>1, <3>2
  <2>3. call'[c] \in CallType /\ child'[c] \in ChildType
    BY <1>1, ZenonT(30) DEF LinkTypeOK, Fits, CallType, ChildType, Capturing
  <2> QED  BY <1>1, <2>2, <2>3 DEF Fits
<1>4. LinkTypeOK'
  BY <1>1, <1>2, <1>3, Typed DEF LinkTypeOK
<1>5. call[c].pc \in Capturing /\ call'[c].pc \in Capturing /\ call'[c].result = call[c].result
  BY <1>1 DEF LinkTypeOK, Fits, CallType, Captured, Capturing
<1>6. Captured(c)'
  BY <1>1, <1>5 DEF Captured, LinkTypeOK, Fits, CallType, ChildType, Capturing
<1>7. Reported(c)'
  BY <1>1, <1>5 DEF Reported, Clean, AllTaken, LinkTypeOK, Fits, CallType, ChildType, PipeType, Capturing, Isolated, Passes, Captured
<1> QED  BY <1>2, <1>4, <1>5, <1>6, <1>7, Pumps

LEMMA StopAskedSafe == ASSUME LinkInv, NEW c \in Calls, StopAsked(c) PROVE LinkInv'
<1> USE Names DEF StopAsked, CallAt, Go, To
<1>1. Captured(c) /\ Reported(c) /\ LinkTypeOK /\ Fits(c)
  BY Fit DEF LinkInv
<1>2. Only(c)
  BY <1>1 DEF LinkTypeOK, Only
<1>3. Fits(c)'
  BY <1>1, ZenonT(30) DEF LinkTypeOK, Fits, CallType, ChildType, PipeType, Capturing
<1>4. LinkTypeOK'
  BY <1>1, <1>2, <1>3, Typed DEF LinkTypeOK
<1>5. call[c].pc \in Capturing /\ call'[c].pc \in Capturing /\ call'[c].result = call[c].result
  BY <1>1 DEF LinkTypeOK, Fits, CallType, Captured, Capturing
<1>6. Captured(c)'
  BY <1>1, <1>5 DEF Captured, LinkTypeOK, Fits, CallType, ChildType, Capturing
<1>7. Reported(c)'
  BY <1>1, <1>5 DEF Reported, Clean, AllTaken, LinkTypeOK, Fits, CallType, ChildType, PipeType, Capturing, Isolated, Passes, Captured
<1> QED  BY <1>2, <1>4, <1>5, <1>6, <1>7, Pumps

LEMMA StopPanicsSafe == ASSUME LinkInv, NEW c \in Calls, StopPanics(c) PROVE LinkInv'
<1> USE Names DEF StopPanics, CallAt, Go, To
<1>1. Captured(c) /\ Reported(c) /\ LinkTypeOK /\ Fits(c)
  BY Fit DEF LinkInv
<1>2. Only(c)
  BY <1>1 DEF LinkTypeOK, Only
<1>3. Fits(c)'
  BY <1>1, ZenonT(30) DEF LinkTypeOK, Fits, CallType, ChildType, PipeType, Capturing
<1>4. LinkTypeOK'
  BY <1>1, <1>2, <1>3, Typed DEF LinkTypeOK
<1>5. call[c].pc \in Capturing /\ call'[c].pc \in Capturing /\ call'[c].result = call[c].result
  BY <1>1 DEF LinkTypeOK, Fits, CallType, Captured, Capturing
<1>6. Captured(c)'
  BY <1>1, <1>5 DEF Captured, LinkTypeOK, Fits, CallType, ChildType, Capturing
<1>7. Reported(c)'
  BY <1>1, <1>5 DEF Reported, Clean, AllTaken, LinkTypeOK, Fits, CallType, ChildType, PipeType, Capturing, Isolated, Passes, Captured
<1> QED  BY <1>2, <1>4, <1>5, <1>6, <1>7, Pumps

LEMMA CheckFailsSafe == ASSUME LinkInv, NEW c \in Calls, CheckFails(c) PROVE LinkInv'
<1> USE Names DEF CheckFails, CallAt, Go, To
<1>1. Captured(c) /\ Reported(c) /\ LinkTypeOK /\ Fits(c)
  BY Fit DEF LinkInv
<1>2. Only(c)
  BY <1>1 DEF LinkTypeOK, Only
<1>3. Fits(c)'
  BY <1>1, ZenonT(30) DEF LinkTypeOK, Fits, CallType, ChildType, PipeType, Capturing
<1>4. LinkTypeOK'
  BY <1>1, <1>2, <1>3, Typed DEF LinkTypeOK
<1>5. call[c].pc \in Capturing /\ call'[c].pc \in Capturing /\ call'[c].result = call[c].result
  BY <1>1 DEF LinkTypeOK, Fits, CallType, Captured, Capturing
<1>6. Captured(c)'
  BY <1>1, <1>5 DEF Captured, LinkTypeOK, Fits, CallType, ChildType, Capturing
<1>7. Reported(c)'
  BY <1>1, <1>5 DEF Reported, Clean, AllTaken, LinkTypeOK, Fits, CallType, ChildType, PipeType, Capturing, Isolated, Passes, Captured
<1> QED  BY <1>2, <1>4, <1>5, <1>6, <1>7, Pumps

LEMMA ObserveSafe == ASSUME LinkInv, NEW c \in Calls, Observe(c) PROVE LinkInv'
<1> USE Names DEF Observe, CallAt, Go, To, AfterExit
<1>1. Captured(c) /\ Reported(c) /\ LinkTypeOK /\ Fits(c)
  BY Fit DEF LinkInv
<1>2. Only(c)
  BY <1>1 DEF LinkTypeOK, Only
<1>3. Fits(c)'
  BY <1>1, ZenonT(30) DEF LinkTypeOK, Fits, CallType, ChildType, PipeType, Capturing
<1>4. LinkTypeOK'
  BY <1>1, <1>2, <1>3, Typed DEF LinkTypeOK
<1>5. call[c].pc \in Capturing /\ call'[c].pc \in Capturing /\ call'[c].result = call[c].result
  BY <1>1 DEF LinkTypeOK, Fits, CallType, Captured, Capturing
<1>6. Captured(c)'
  BY <1>1, <1>5 DEF Captured, LinkTypeOK, Fits, CallType, ChildType, Capturing
<1>7. Reported(c)'
  BY <1>1, <1>5 DEF Reported, Clean, AllTaken, LinkTypeOK, Fits, CallType, ChildType, PipeType, Capturing, Isolated, Passes, Captured
<1> QED  BY <1>2, <1>4, <1>5, <1>6, <1>7, Pumps

LEMMA PollFailsSafe == ASSUME LinkInv, NEW c \in Calls, PollFails(c) PROVE LinkInv'
<1> USE Names DEF PollFails, CallAt, Go, To
<1>1. Captured(c) /\ Reported(c) /\ LinkTypeOK /\ Fits(c)
  BY Fit DEF LinkInv
<1>2. Only(c)
  BY <1>1 DEF LinkTypeOK, Only
<1>3. Fits(c)'
  BY <1>1, ZenonT(30) DEF LinkTypeOK, Fits, CallType, ChildType, PipeType, Capturing
<1>4. LinkTypeOK'
  BY <1>1, <1>2, <1>3, Typed DEF LinkTypeOK
<1>5. call[c].pc \in Capturing /\ call'[c].pc \in Capturing /\ call'[c].result = call[c].result
  BY <1>1 DEF LinkTypeOK, Fits, CallType, Captured, Capturing
<1>6. Captured(c)'
  BY <1>1, <1>5 DEF Captured, LinkTypeOK, Fits, CallType, ChildType, Capturing
<1>7. Reported(c)'
  BY <1>1, <1>5 DEF Reported, Clean, AllTaken, LinkTypeOK, Fits, CallType, ChildType, PipeType, Capturing, Isolated, Passes, Captured
<1> QED  BY <1>2, <1>4, <1>5, <1>6, <1>7, Pumps

LEMMA ServiceSafe == ASSUME LinkInv, NEW c \in Calls, Service(c) PROVE LinkInv'
<1> USE Names DEF Service, CallAt, Go, To
<1>1. Captured(c) /\ Reported(c) /\ LinkTypeOK /\ Fits(c)
  BY Fit DEF LinkInv
<1>2. Only(c)
  BY <1>1 DEF LinkTypeOK, Only, Serviced
<1>p. pipe'[c] \in [Streams -> PipeType] /\ \A s \in Streams : pipe'[c][s].out <= pipe'[c][s].put
  <2>1. pipe'[c] = [s \in Streams |-> IF s \in Polled(c) THEN [pipe[c][s] EXCEPT !.out = @ + 1] ELSE pipe[c][s]]
    BY <1>1 DEF LinkTypeOK, Serviced
  <2>2. \A s \in Polled(c) : pipe[c][s].put > pipe[c][s].out
    BY DEF Polled
  <2>3. \A s \in Streams : pipe[c][s] \in PipeType /\ pipe[c][s].out <= pipe[c][s].put
    BY <1>1 DEF Fits
  <2> QED  BY <2>1, <2>2, <2>3 DEF PipeType
<1>5. /\ call[c].pc \in Capturing /\ call'[c].pc \in {"pump", "kill"} /\ call'[c].result = call[c].result
      /\ call'[c].pc \in Capturing /\ call'[c].pump = call[c].pump /\ (call[c].err => call'[c].err)
      /\ (call'[c].pc = "kill" => call'[c].panic) /\ call'[c] \in CallType
  <2>1. call[c] \in CallType /\ call \in [Calls -> CallType]
    BY <1>1 DEF LinkTypeOK
  <2>2. \/ To(c, "pump")
        \/ Go(c, [call[c] EXCEPT !.pc = "pump", !.err = TRUE])
        \/ Go(c, [call[c] EXCEPT !.pc = "kill", !.panic = TRUE])
    OBVIOUS
  <2>3. CASE To(c, "pump")
    BY <2>1, <2>3 DEF CallType, Capturing
  <2>4. CASE Go(c, [call[c] EXCEPT !.pc = "pump", !.err = TRUE])
    BY <2>1, <2>4 DEF CallType, Capturing
  <2>5. CASE Go(c, [call[c] EXCEPT !.pc = "kill", !.panic = TRUE])
    BY <2>1, <2>5 DEF CallType, Capturing
  <2> QED  BY <2>2, <2>3, <2>4, <2>5
<1>3. Fits(c)'
  BY <1>1, <1>p, <1>5 DEF LinkTypeOK, Fits
<1>4. LinkTypeOK'
  BY <1>1, <1>2, <1>3, Typed DEF LinkTypeOK
<1>6. Captured(c)'
  BY <1>1, <1>5 DEF Captured, LinkTypeOK, Fits, CallType, ChildType, Capturing
<1>7. Reported(c)'
  BY <1>1, <1>5, <1>p DEF Reported, Clean, AllTaken, LinkTypeOK, Fits, CallType, ChildType, PipeType, Capturing, Isolated, Passes, Captured
<1> QED  BY <1>2, <1>4, <1>5, <1>6, <1>7, Pumps

LEMMA DrainSafe == ASSUME LinkInv, NEW c \in Calls, Drain(c) PROVE LinkInv'
<1> USE Names DEF Drain, CallAt, Go, To
<1>1. Captured(c) /\ Reported(c) /\ LinkTypeOK /\ Fits(c)
  BY Fit DEF LinkInv
<1>2. Only(c)
  BY <1>1 DEF LinkTypeOK, Only
<1>p. pipe'[c] \in [Streams -> PipeType] /\ \A s \in Streams : pipe'[c][s].out = pipe'[c][s].put
  <2>1. pipe'[c] = [s \in Streams |-> [pipe[c][s] EXCEPT !.out = pipe[c][s].put]]
    BY <1>1 DEF LinkTypeOK
  <2>2. \A s \in Streams : pipe[c][s] \in PipeType
    BY <1>1 DEF Fits
  <2>3. \A s \in Streams : pipe'[c][s] = [pipe[c][s] EXCEPT !.out = pipe[c][s].put]
    BY <2>1
  <2>4. \A s \in Streams : pipe'[c][s] \in PipeType /\ pipe'[c][s].out = pipe'[c][s].put
    <3> TAKE s \in Streams
    <3>1. [pipe[c][s] EXCEPT !.out = pipe[c][s].put] \in PipeType
          /\ [pipe[c][s] EXCEPT !.out = pipe[c][s].put].out = [pipe[c][s] EXCEPT !.out = pipe[c][s].put].put
      BY <2>2, Drained
    <3> QED  BY <2>3, <3>1
  <2> QED  BY <2>1, <2>4
<1>5. /\ call[c].pc \in Capturing /\ call'[c].pc \in {"grace", "kill"} /\ call'[c].result = call[c].result
      /\ call'[c].pc \in Capturing /\ call'[c].pump = call[c].pump /\ (call[c].err => call'[c].err)
      /\ call'[c] \in CallType
  <2>1. call[c] \in CallType /\ call \in [Calls -> CallType]
    BY <1>1 DEF LinkTypeOK
  <2>2. PICK pc \in {"grace", "kill"} :
          \/ To(c, pc)
          \/ Go(c, [call[c] EXCEPT !.pc = pc, !.err = TRUE])
          \/ Go(c, [call[c] EXCEPT !.pc = pc, !.panic = TRUE])
    OBVIOUS
  <2>3. CASE To(c, pc)
    BY <2>1, <2>3 DEF CallType, Capturing
  <2>4. CASE Go(c, [call[c] EXCEPT !.pc = pc, !.err = TRUE])
    BY <2>1, <2>4 DEF CallType, Capturing
  <2>5. CASE Go(c, [call[c] EXCEPT !.pc = pc, !.panic = TRUE])
    BY <2>1, <2>5 DEF CallType, Capturing
  <2> QED  BY <2>2, <2>3, <2>4, <2>5
<1>3. Fits(c)'
  BY <1>1, <1>p, <1>5 DEF LinkTypeOK, Fits, PipeType
<1>4. LinkTypeOK'
  BY <1>1, <1>2, <1>3, Typed DEF LinkTypeOK
<1>6. Captured(c)'
  BY <1>1, <1>5 DEF Captured, LinkTypeOK, Fits, CallType, ChildType, Capturing
<1>7. Reported(c)'
  BY <1>1, <1>5, <1>p DEF Reported, Clean, AllTaken, LinkTypeOK, Fits, CallType, ChildType, PipeType, Capturing, Isolated, Passes, Captured
<1> QED  BY <1>2, <1>4, <1>5, <1>6, <1>7, Pumps

LEMMA GraceSafe == ASSUME LinkInv, NEW c \in Calls, Grace(c) PROVE LinkInv'
<1> USE Names DEF Grace, CallAt, Go, To
<1>1. Captured(c) /\ Reported(c) /\ LinkTypeOK /\ Fits(c)
  BY Fit DEF LinkInv
<1>2. Only(c)
  BY <1>1 DEF LinkTypeOK, Only
<1>3. Fits(c)'
  BY <1>1, ZenonT(30) DEF LinkTypeOK, Fits, CallType, ChildType, PipeType, Capturing
<1>4. LinkTypeOK'
  BY <1>1, <1>2, <1>3, Typed DEF LinkTypeOK
<1>5. call[c].pc \in Capturing /\ call'[c].pc \in Capturing /\ call'[c].result = call[c].result
  BY <1>1 DEF LinkTypeOK, Fits, CallType, Captured, Capturing
<1>6. Captured(c)'
  BY <1>1, <1>5 DEF Captured, LinkTypeOK, Fits, CallType, ChildType, Capturing
<1>7. Reported(c)'
  BY <1>1, <1>5 DEF Reported, Clean, AllTaken, LinkTypeOK, Fits, CallType, ChildType, PipeType, Capturing, Isolated, Passes, Captured
<1> QED  BY <1>2, <1>4, <1>5, <1>6, <1>7, Pumps

LEMMA KillSafe == ASSUME LinkInv, NEW c \in Calls, Kill(c) PROVE LinkInv'
<1> USE Names DEF Kill, CallAt, Go, To, Killed
<1>1. Captured(c) /\ Reported(c) /\ LinkTypeOK /\ Fits(c)
  BY Fit DEF LinkInv
<1>2. Only(c)
  BY <1>1 DEF LinkTypeOK, Only
<1>3. Fits(c)'
  BY <1>1, ZenonT(30) DEF LinkTypeOK, Fits, CallType, ChildType, PipeType, Capturing
<1>4. LinkTypeOK'
  BY <1>1, <1>2, <1>3, Typed DEF LinkTypeOK
<1>5. call[c].pc \in Capturing /\ call'[c].pc \in Capturing /\ call'[c].result = call[c].result
  BY <1>1 DEF LinkTypeOK, Fits, CallType, Captured, Capturing
<1>6. Captured(c)'
  BY <1>1, <1>5 DEF Captured, LinkTypeOK, Fits, CallType, ChildType, Capturing
<1>7. Reported(c)'
  BY <1>1, <1>5 DEF Reported, Clean, AllTaken, LinkTypeOK, Fits, CallType, ChildType, PipeType, Capturing, Isolated, Passes, Captured
<1> QED  BY <1>2, <1>4, <1>5, <1>6, <1>7, Pumps

LEMMA ReapSafe == ASSUME LinkInv, NEW c \in Calls, Reap(c) PROVE LinkInv'
<1> USE Names DEF Reap, CallAt, Go, To
<1>1. Captured(c) /\ Reported(c) /\ LinkTypeOK /\ Fits(c)
  BY Fit DEF LinkInv
<1>2. Only(c)
  BY <1>1 DEF LinkTypeOK, Only
<1>3. Fits(c)'
  BY <1>1, ZenonT(30) DEF LinkTypeOK, Fits, CallType, ChildType, PipeType, Capturing
<1>4. LinkTypeOK'
  BY <1>1, <1>2, <1>3, Typed DEF LinkTypeOK
<1>5. call[c].pc \in Capturing /\ call'[c].pc \in Capturing /\ call'[c].result = call[c].result
  BY <1>1 DEF LinkTypeOK, Fits, CallType, Captured, Capturing
<1>6. Captured(c)'
  BY <1>1, <1>5 DEF Captured, LinkTypeOK, Fits, CallType, ChildType, Capturing
<1>7. Reported(c)'
  BY <1>1, <1>5 DEF Reported, Clean, AllTaken, LinkTypeOK, Fits, CallType, ChildType, PipeType, Capturing, Isolated, Passes, Captured
<1> QED  BY <1>2, <1>4, <1>5, <1>6, <1>7, Pumps

LEMMA ToolExitsSafe == ASSUME LinkInv, NEW c \in Calls, ToolExits(c) PROVE LinkInv'
<1> USE Names DEF ToolExits, CallAt, Go, To
<1>1. Captured(c) /\ Reported(c) /\ LinkTypeOK /\ Fits(c)
  BY Fit DEF LinkInv
<1>2. Only(c)
  BY <1>1 DEF LinkTypeOK, Only
<1>3. Fits(c)'
  <2>1. PICK code \in {"ok", "fail"} : child' = [child EXCEPT ![c].st = "zombie", ![c].code = code]
    OBVIOUS
  <2>2. child'[c] = [child[c] EXCEPT !.st = "zombie", !.code = code]
    BY <1>1, <2>1 DEF LinkTypeOK
  <2>3. child'[c] \in ChildType
    BY <1>1, <2>2 DEF Fits, ChildType
  <2> QED  BY <1>1, <2>3 DEF Fits
<1>4. LinkTypeOK'
  BY <1>1, <1>2, <1>3, Typed DEF LinkTypeOK
<1>5. call[c].pc \in Capturing /\ call'[c].pc \in Capturing /\ call'[c].result = call[c].result
  BY <1>1 DEF LinkTypeOK, Fits, CallType, Captured, Capturing
<1>6. Captured(c)'
  BY <1>1, <1>5 DEF Captured, LinkTypeOK, Fits, CallType, ChildType, Capturing
<1>7. Reported(c)'
  BY <1>1, <1>5 DEF Reported, Clean, AllTaken, LinkTypeOK, Fits, CallType, ChildType, PipeType, Capturing, Isolated, Passes, Captured
<1> QED  BY <1>2, <1>4, <1>5, <1>6, <1>7, Pumps

LEMMA ReadFailsSafe == ASSUME LinkInv, NEW c \in Calls, NEW s \in Streams, ReadFails(c, s) PROVE LinkInv'
<1> USE Names DEF ReadFails, CallAt, Go, To
<1>1. Captured(c) /\ Reported(c) /\ LinkTypeOK /\ Fits(c)
  BY Fit DEF LinkInv
<1>2. Only(c)
  BY <1>1 DEF LinkTypeOK, Only, Serviced
<1>3. Fits(c)'
  <2> DEFINE p == [t \in Streams |-> IF t \in Polled(c) \ {s} THEN [pipe[c][t] EXCEPT !.out = @ + 1] ELSE pipe[c][t]]
  <2>1. pipe'[c] = [p EXCEPT ![s].open = FALSE]
    BY <1>1 DEF LinkTypeOK, Serviced
  <2>2. \A t \in Polled(c) : pipe[c][t].put > pipe[c][t].out
    BY DEF Polled
  <2>3. \A t \in Streams : pipe[c][t] \in PipeType /\ pipe[c][t].out <= pipe[c][t].put
    BY <1>1 DEF Fits
  <2>4. p \in [Streams -> PipeType] /\ \A t \in Streams : p[t].out <= p[t].put
    BY <2>2, <2>3 DEF PipeType
  <2> HIDE DEF p
  <2>5. pipe'[c] \in [Streams -> PipeType] /\ \A t \in Streams : pipe'[c][t].out <= pipe'[c][t].put
    <3>1. \A t \in Streams : pipe'[c][t] = IF t = s THEN [p[s] EXCEPT !.open = FALSE] ELSE p[t]
      BY <2>1, <2>4
    <3>2. [p[s] EXCEPT !.open = FALSE] \in PipeType /\ [p[s] EXCEPT !.open = FALSE].out = p[s].out
          /\ [p[s] EXCEPT !.open = FALSE].put = p[s].put
      BY <2>4, Shut
    <3> QED  BY <2>1, <2>4, <3>1, <3>2, ZenonT(30)
  <2>6. call'[c] \in CallType
    BY <1>1 DEF LinkTypeOK, Fits, CallType, Capturing
  <2> QED  BY <1>1, <2>5, <2>6 DEF Fits
<1>4. LinkTypeOK'
  BY <1>1, <1>2, <1>3, Typed DEF LinkTypeOK
<1>5. call[c].pc \in Capturing /\ call'[c].pc \in Capturing /\ call'[c].result = call[c].result
  BY <1>1 DEF LinkTypeOK, Fits, CallType, Captured, Capturing
<1>6. Captured(c)'
  BY <1>1, <1>5 DEF Captured, LinkTypeOK, Fits, CallType, ChildType, Capturing
<1>7. Reported(c)'
  BY <1>1, <1>5 DEF Reported, Clean, LinkTypeOK, Fits, CallType, ChildType, Capturing, Isolated, Passes, Captured
<1> QED  BY <1>2, <1>4, <1>5, <1>6, <1>7, Pumps

LEMMA ToolPrintsSafe == ASSUME LinkInv, NEW c \in Calls, NEW s \in Streams, ToolPrints(c, s) PROVE LinkInv'
<1> USE Names DEF ToolPrints
<1>1. Captured(c) /\ Reported(c) /\ LinkTypeOK /\ Fits(c)
  BY Fit DEF LinkInv
<1>2. Only(c)
  BY <1>1 DEF LinkTypeOK, Only
<1>3. Fits(c)'
  <2>1. pipe'[c] = [pipe[c] EXCEPT ![s].put = @ + 1]
    BY <1>1 DEF LinkTypeOK
  <2>2. pipe'[c] \in [Streams -> PipeType] /\ \A t \in Streams : pipe'[c][t].out <= pipe'[c][t].put
    <3>1. \A t \in Streams : pipe[c][t] \in PipeType /\ pipe[c][t].out <= pipe[c][t].put
      BY <1>1 DEF Fits
    <3>2. \A t \in Streams : pipe'[c][t] = IF t = s THEN [pipe[c][s] EXCEPT !.put = @ + 1] ELSE pipe[c][t]
      BY <1>1, <2>1 DEF Fits
    <3>3. [pipe[c][s] EXCEPT !.put = @ + 1] \in PipeType
      BY <3>1, Printed
    <3>4. [pipe[c][s] EXCEPT !.put = @ + 1].out <= [pipe[c][s] EXCEPT !.put = @ + 1].put
      BY <3>1, Printed
    <3> QED  BY <1>1, <2>1, <3>1, <3>2, <3>3, <3>4 DEF Fits
  <2> QED  BY <1>1, <2>2 DEF Fits
<1>4. LinkTypeOK'
  BY <1>1, <1>2, <1>3, Typed DEF LinkTypeOK
<1>5. call[c].pc \in {"pump", "poll", "grace", "kill"} /\ call[c].pc \in Capturing /\ call' = call
  BY <1>1 DEF LinkTypeOK, Fits, CallType, ChildType, Captured, Capturing
<1>6. Captured(c)'
  BY <1>1, <1>5 DEF Captured
<1>7. Reported(c)'
  BY <1>1, <1>5 DEF Reported, Clean, Isolated, Passes
<1> QED  BY <1>2, <1>4, <1>5, <1>6, <1>7, Pumps

(***************************************************************************)
(* The end of the capture: the output is lost, or goes on to isolation.    *)
(***************************************************************************)
LEMMA CopiesKept ==
    ASSUME LinkInv, NEW c \in Calls, UNCHANGED <<iso, exe, contents, budget>>, call[c].pc # "done",
           \/ call[c].pc \in BeforeIsolation /\ call'[c].pc \in BeforeIsolation
           \/ call'[c].pc = "done"
    PROVE  Copied(c)'
<1>1. Copied(c)
  BY DEF LinkInv
<1> QED  BY <1>1 DEF Copied, Isolating, Passes, Capturing, BeforeIsolation, Moment, AllKept, Kept

LEMMA Inodes ==
    /\ ReservedIno = 1 /\ ReplacedIno = 2 /\ PubIno = 3 /\ ForeignIno = 4
    /\ NoFile \in NameType /\ NoFile.kind = "gone" /\ NoFile.ino = 0
    /\ Symlink \in NameType /\ Symlink.kind = "link" /\ Symlink.ino = 0
    /\ \A i \in Nat : File(i) \in NameType /\ File(i).kind = "file" /\ File(i).ino = i
    /\ \A n \in NameType, i \in Nat : /\ RemoveName(n, i) \in NameType
                                     /\ RemoveName(n, i) = IF n.kind = "file" /\ n.ino = i THEN NoFile ELSE n
BY DEF ReservedIno, ReplacedIno, PubIno, ForeignIno, NoFile, Symlink, File, RemoveName, NameType

LEMMA RemovesOwn ==
    ASSUME NEW n \in NameType, NEW i \in Nat, i # ForeignIno
    PROVE  Alien(RemoveName(n, i)) <=> Alien(n)
BY Inodes DEF Alien

LEMMA FailSafe ==
    ASSUME LinkInv, NEW c \in Calls, Isolated(c), Fail(c), UNCHANGED <<lease, child, pipe, iso, exe, contents, budget>>,
           call[c].pc = "reclaim" => stage[c].tool.kind # "file"
    PROVE  LinkInv'
<1> USE Names
<1>1. Captured(c) /\ Reported(c) /\ Named(c) /\ LinkTypeOK /\ Fits(c)
  BY Fit DEF LinkInv
<1>2. call'[c] = [call[c] EXCEPT !.pc = "done", !.result = "err"] /\ call' = [call EXCEPT ![c] = call'[c]]
  BY <1>1 DEF Fail, Go, LinkTypeOK
<1>3. /\ stage' = [stage EXCEPT ![c] = stage'[c]]
      /\ stage'[c] = [stage[c] EXCEPT !.tool = RemoveName(stage[c].tool, stage[c].known), !.pub = RemoveName(stage[c].pub, PubIno)]
  BY <1>1 DEF Fail, Cleanup, LinkTypeOK
<1>4. /\ stage'[c].tool = RemoveName(stage[c].tool, stage[c].known) /\ stage'[c].pub = RemoveName(stage[c].pub, PubIno)
      /\ stage'[c].known = stage[c].known /\ stage[c].known \in Nat /\ stage[c].tool \in NameType
      /\ stage[c].pub \in NameType
  BY <1>1, <1>3 DEF Fits, StageType
<1>5. Only(c)
  BY <1>1, <1>2, <1>3 DEF Only, LinkTypeOK
<1>6. Fits(c)'
  <2>1. call'[c] \in CallType
    BY <1>1, <1>2 DEF Fits, CallType
  <2>2. RemoveName(stage[c].tool, stage[c].known) \in NameType /\ RemoveName(stage[c].pub, PubIno) \in NameType
    BY <1>4, Inodes
  <2>3. stage'[c] \in StageType
    BY <1>1, <1>3, <2>2 DEF Fits, StageType
  <2> QED  BY <1>1, <2>1, <2>3 DEF Fits
<1>7. LinkTypeOK'
  BY <1>1, <1>5, <1>6, Typed DEF LinkTypeOK
<1>8. call'[c].pc = "done" /\ call'[c].result = "err" /\ call'[c].err = call[c].err /\ call'[c].pump = call[c].pump
  BY <1>1, <1>2 DEF Fits, CallType
<1>9. Captured(c)'
  BY <1>1, <1>8 DEF Captured, Isolated, Passes, Capturing
<1>10. Reported(c)'
  BY <1>1, <1>8 DEF Reported, Isolated, Passes
<1>11. Named(c)'
  BY <1>1, <1>4, <1>8, Inodes, SMTT(30) DEF Named, Isolated, Isolating, Passes, Capturing, BeforeIsolation, Ours
<1>12. Copied(c)'
  BY <1>8, CopiesKept DEF Isolated, Passes
<1>13. Mild(c)
  BY <1>1 DEF Mild, LinkTypeOK
<1>14. ForeignKept'
  <2>1. (Alien(stage'[c].tool) <=> Alien(stage[c].tool)) /\ (Alien(stage'[c].pub) <=> Alien(stage[c].pub))
    <3>1. stage[c].known \in Ours
      BY <1>1 DEF Named
    <3>2. stage[c].known \in Nat /\ stage[c].known # ForeignIno /\ PubIno \in Nat /\ PubIno # ForeignIno
      BY <3>1, Inodes DEF Ours
    <3> QED  BY <1>4, <3>2, RemovesOwn
  <2> QED  BY <1>5, <2>1, SameAliens DEF LinkInv, ForeignKept
<1> QED  BY <1>5, <1>7, <1>9, <1>10, <1>11, <1>12, <1>13, <1>14, Alone

LEMMA RefusedSafe == ASSUME LinkInv, NEW c \in Calls, Refused(c) PROVE LinkInv'
<1> USE Names
<1>1. Captured(c) /\ Reported(c) /\ Named(c) /\ LinkTypeOK /\ Fits(c)
  BY Fit DEF LinkInv
<1>2. Only(c)
  BY <1>1 DEF LinkTypeOK, Only, Refused, CallAt, Go, To
<1>3. /\ call[c].pc = "idle" /\ call'[c] \in CallType
      /\ call'[c].pc = "done" /\ call'[c].result = "err"
      /\ call'[c].err = call[c].err /\ call'[c].stop = call[c].stop /\ call'[c].panic = call[c].panic /\ call'[c].pump = call[c].pump
  <2>1. call'[c] = [call[c] EXCEPT !.pc = "done", !.result = "err"]
    BY <1>1 DEF LinkTypeOK, Refused, CallAt, Go, To
  <2>2. call'[c] \in CallType
    BY <1>1, <2>1 DEF Fits, CallType, Capturing
  <2>3. call'[c].pc = "done" /\ call'[c].result = "err"
      /\ call'[c].err = call[c].err /\ call'[c].stop = call[c].stop /\ call'[c].panic = call[c].panic /\ call'[c].pump = call[c].pump
    BY <1>1, <2>1 DEF Fits, CallType
  <2> QED  BY <2>2, <2>3 DEF Refused, CallAt, Go, To
<1>s. stage'[c] = stage[c]
  <2>1. stage'[c] = stage[c] /\ stage[c] \in StageType
    BY <1>1 DEF LinkTypeOK, Fits, Refused, CallAt, Go, To
  <2>2. stage[c].tool \in NameType /\ stage[c].known \in Nat /\ stage[c].pub \in NameType
    BY <2>1 DEF StageType
  <2>3. File(ReservedIno) \in NameType /\ ReservedIno \in Nat
    BY Inodes
  <2>4. \A i \in Nat : RemoveName(stage[c].tool, i) \in NameType
    BY <2>2, Inodes
  <2> QED  BY <2>1, <2>2, <2>3, <2>4 DEF StageType, Fits
<1>t. UNCHANGED <<lease, child, pipe>> /\ UNCHANGED <<iso, exe, contents, budget>>
  BY <1>1, <1>3 DEF Captured, Capturing, Refused, CallAt, Go, To
<1>4. Fits(c)'
  BY <1>1, <1>3, <1>s, <1>t DEF Fits
<1>5. LinkTypeOK'
  BY <1>1, <1>2, <1>4, <1>t, Typed DEF LinkTypeOK
<1>6. Captured(c)'
  BY <1>1, <1>3, <1>t DEF Captured, Capturing
<1>7. Reported(c)'
  BY <1>1, <1>3, <1>t DEF Reported, Clean, AllTaken, Isolated, Passes
<1>8. Named(c)'
  BY <1>1, <1>3, <1>s, Inodes DEF Named, Isolating, Passes, Capturing, BeforeIsolation, Ours
<1>9. Copied(c)'
  BY <1>3, <1>t, CopiesKept DEF BeforeIsolation, Capturing
<1>10. Mild(c)
  BY <1>1, <1>t DEF Mild, LinkTypeOK
<1>11. ForeignKept'
  <2>1. (Alien(stage'[c].tool) <=> Alien(stage[c].tool)) /\ (Alien(stage'[c].pub) <=> Alien(stage[c].pub))
    BY <1>1, <1>3, <1>s, Inodes, RemovesOwn DEF Named, Ours, Alien, BeforeIsolation, Capturing
  <2> QED  BY <1>2, <1>t, <2>1, SameAliens DEF LinkInv, ForeignKept
<1> QED  BY <1>2, <1>5, <1>6, <1>7, <1>8, <1>9, <1>10, <1>11, Alone

LEMMA AcquireSafe == ASSUME LinkInv, NEW c \in Calls, Acquire(c) PROVE LinkInv'
<1> USE Names
<1>1. Captured(c) /\ Reported(c) /\ Named(c) /\ LinkTypeOK /\ Fits(c)
  BY Fit DEF LinkInv
<1>2. Only(c)
  BY <1>1 DEF LinkTypeOK, Only, Acquire, CallAt, Go, To
<1>3. /\ call[c].pc = "idle" /\ call'[c] \in CallType
      /\ call'[c].pc = "spawn" /\ call'[c].result = call[c].result
      /\ call'[c].err = call[c].err /\ call'[c].stop = call[c].stop /\ call'[c].panic = call[c].panic /\ call'[c].pump = call[c].pump
  <2>1. call'[c] = [call[c] EXCEPT !.pc = "spawn"]
    BY <1>1 DEF LinkTypeOK, Acquire, CallAt, Go, To
  <2>2. call'[c] \in CallType
    BY <1>1, <2>1 DEF Fits, CallType, Capturing
  <2>3. call'[c].pc = "spawn" /\ call'[c].result = call[c].result
      /\ call'[c].err = call[c].err /\ call'[c].stop = call[c].stop /\ call'[c].panic = call[c].panic /\ call'[c].pump = call[c].pump
    BY <1>1, <2>1 DEF Fits, CallType
  <2> QED  BY <2>2, <2>3 DEF Acquire, CallAt, Go, To
<1>s. /\ stage'[c].tool = File(ReservedIno) /\ stage'[c].known = ReservedIno /\ stage'[c].pub = stage[c].pub
      /\ stage'[c] \in StageType
  <2>1. stage'[c] = [stage[c] EXCEPT !.tool = File(ReservedIno), !.known = ReservedIno] /\ stage[c] \in StageType
    BY <1>1 DEF LinkTypeOK, Fits, Acquire, CallAt, Go, To
  <2>2. stage[c].tool \in NameType /\ stage[c].known \in Nat /\ stage[c].pub \in NameType
    BY <2>1 DEF StageType
  <2>3. File(ReservedIno) \in NameType /\ ReservedIno \in Nat
    BY Inodes
  <2>4. \A i \in Nat : RemoveName(stage[c].tool, i) \in NameType
    BY <2>2, Inodes
  <2> QED  BY <2>1, <2>2, <2>3, <2>4 DEF StageType, Fits
<1>t. lease = None /\ lease' = c /\ UNCHANGED <<child, pipe>> /\ UNCHANGED <<iso, exe, contents, budget>>
  BY <1>1, <1>3 DEF Captured, Capturing, Acquire, CallAt, Go, To
<1>4. Fits(c)'
  BY <1>1, <1>3, <1>s, <1>t DEF Fits
<1>5. LinkTypeOK'
  BY <1>1, <1>2, <1>4, <1>t, Typed DEF LinkTypeOK
<1>6. Captured(c)'
  BY <1>1, <1>3, <1>t DEF Captured, Capturing
<1>7. Reported(c)'
  BY <1>1, <1>3, <1>t DEF Reported, Clean, AllTaken, Isolated, Passes
<1>8. Named(c)'
  BY <1>1, <1>3, <1>s, Inodes DEF Named, Isolating, Passes, Capturing, BeforeIsolation, Ours, Reported
<1>9. Copied(c)'
  BY <1>3, <1>t, CopiesKept DEF BeforeIsolation, Capturing
<1>10. Mild(c)
  BY <1>1, <1>t DEF Mild, LinkTypeOK
<1>11. ForeignKept'
  <2>1. (Alien(stage'[c].tool) <=> Alien(stage[c].tool)) /\ (Alien(stage'[c].pub) <=> Alien(stage[c].pub))
    BY <1>1, <1>3, <1>s, Inodes, RemovesOwn DEF Named, Ours, Alien, BeforeIsolation, Capturing
  <2> QED  BY <1>2, <1>t, <2>1, SameAliens DEF LinkInv, ForeignKept
<1> QED  BY <1>2, <1>5, <1>6, <1>7, <1>8, <1>9, <1>10, <1>11, Alone

LEMMA SpawnFailsSafe == ASSUME LinkInv, NEW c \in Calls, SpawnFails(c) PROVE LinkInv'
<1> USE Names
<1>1. Captured(c) /\ Reported(c) /\ Named(c) /\ LinkTypeOK /\ Fits(c)
  BY Fit DEF LinkInv
<1>2. Only(c)
  BY <1>1 DEF LinkTypeOK, Only, SpawnFails, CallAt, Go, To
<1>3. /\ call[c].pc = "spawn" /\ call'[c] \in CallType
      /\ call'[c].pc = "discard" /\ call'[c].result = call[c].result /\ call'[c].err
  <2>1. call'[c] = [call[c] EXCEPT !.pc = "discard", !.err = TRUE]
    BY <1>1 DEF LinkTypeOK, SpawnFails, CallAt, Go, To
  <2>2. call'[c] \in CallType
    BY <1>1, <2>1 DEF Fits, CallType, Capturing
  <2>3. call'[c].pc = "discard" /\ call'[c].result = call[c].result /\ call'[c].err
    BY <1>1, <2>1 DEF Fits, CallType
  <2> QED  BY <2>2, <2>3 DEF SpawnFails, CallAt, Go, To
<1>s. stage'[c] = stage[c]
  <2>1. stage'[c] = stage[c] /\ stage[c] \in StageType
    BY <1>1 DEF LinkTypeOK, Fits, SpawnFails, CallAt, Go, To
  <2>2. stage[c].tool \in NameType /\ stage[c].known \in Nat /\ stage[c].pub \in NameType
    BY <2>1 DEF StageType
  <2>3. File(ReservedIno) \in NameType /\ ReservedIno \in Nat
    BY Inodes
  <2>4. \A i \in Nat : RemoveName(stage[c].tool, i) \in NameType
    BY <2>2, Inodes
  <2> QED  BY <2>1, <2>2, <2>3, <2>4 DEF StageType, Fits
<1>t. lease = c /\ lease' = None /\ UNCHANGED <<child, pipe>> /\ UNCHANGED <<iso, exe, contents, budget>>
  BY <1>1, <1>3 DEF Captured, Capturing, SpawnFails, CallAt, Go, To
<1>4. Fits(c)'
  BY <1>1, <1>3, <1>s, <1>t DEF Fits
<1>5. LinkTypeOK'
  BY <1>1, <1>2, <1>4, <1>t, Typed DEF LinkTypeOK
<1>6. Captured(c)'
  BY <1>1, <1>3, <1>t DEF Captured, Capturing
<1>7. Reported(c)'
  BY <1>1, <1>3, <1>t DEF Reported, Clean, AllTaken, Isolated, Passes
<1>8. Named(c)'
  BY <1>1, <1>3, <1>s, Inodes, SMTT(30) DEF Named, Isolating, Passes, Capturing, BeforeIsolation, Ours
<1>9. Copied(c)'
  BY <1>3, <1>t, CopiesKept DEF BeforeIsolation, Capturing
<1>10. Mild(c)
  BY <1>1, <1>t DEF Mild, LinkTypeOK
<1>11. ForeignKept'
  <2>1. (Alien(stage'[c].tool) <=> Alien(stage[c].tool)) /\ (Alien(stage'[c].pub) <=> Alien(stage[c].pub))
    BY <1>1, <1>3, <1>s, Inodes, RemovesOwn DEF Named, Ours, Alien, BeforeIsolation, Capturing
  <2> QED  BY <1>2, <1>t, <2>1, SameAliens DEF LinkInv, ForeignKept
<1> QED  BY <1>2, <1>5, <1>6, <1>7, <1>8, <1>9, <1>10, <1>11, Alone

LEMMA UnwindSafe == ASSUME LinkInv, NEW c \in Calls, Unwind(c) PROVE LinkInv'
<1> USE Names
<1>1. Captured(c) /\ Reported(c) /\ Named(c) /\ LinkTypeOK /\ Fits(c)
  BY Fit DEF LinkInv
<1>2. Only(c)
  BY <1>1 DEF LinkTypeOK, Only, Unwind, CallAt, Go, To
<1>3. /\ call[c].pc = "after" /\ call'[c] \in CallType
      /\ call'[c].pc = "done" /\ call'[c].result = "panic"
      /\ call'[c].err = call[c].err /\ call'[c].stop = call[c].stop /\ call'[c].panic = call[c].panic /\ call'[c].pump = call[c].pump
  <2>1. call'[c] = [call[c] EXCEPT !.pc = "done", !.result = "panic"]
    BY <1>1 DEF LinkTypeOK, Unwind, CallAt, Go, To
  <2>2. call'[c] \in CallType
    BY <1>1, <2>1 DEF Fits, CallType, Capturing
  <2>3. call'[c].pc = "done" /\ call'[c].result = "panic"
      /\ call'[c].err = call[c].err /\ call'[c].stop = call[c].stop /\ call'[c].panic = call[c].panic /\ call'[c].pump = call[c].pump
    BY <1>1, <2>1 DEF Fits, CallType
  <2> QED  BY <2>2, <2>3 DEF Unwind, CallAt, Go, To
<1>s. /\ stage'[c].tool = RemoveName(stage[c].tool, stage[c].known) /\ stage'[c].known = stage[c].known
      /\ stage'[c].pub = stage[c].pub /\ stage[c].tool \in NameType /\ stage[c].known \in Nat
      /\ stage'[c] \in StageType
  <2>1. stage'[c] = [stage[c] EXCEPT !.tool = RemoveName(stage[c].tool, stage[c].known)] /\ stage[c] \in StageType
    BY <1>1 DEF LinkTypeOK, Fits, Unwind, CallAt, Go, To
  <2>2. stage[c].tool \in NameType /\ stage[c].known \in Nat /\ stage[c].pub \in NameType
    BY <2>1 DEF StageType
  <2>3. File(ReservedIno) \in NameType /\ ReservedIno \in Nat
    BY Inodes
  <2>4. \A i \in Nat : RemoveName(stage[c].tool, i) \in NameType
    BY <2>2, Inodes
  <2> QED  BY <2>1, <2>2, <2>3, <2>4 DEF StageType, Fits
<1>t. lease = c /\ lease' = None /\ UNCHANGED <<child, pipe>> /\ UNCHANGED <<iso, exe, contents, budget>>
  BY <1>1, <1>3 DEF Captured, Capturing, Unwind, CallAt, Go, To
<1>4. Fits(c)'
  BY <1>1, <1>3, <1>s, <1>t DEF Fits
<1>5. LinkTypeOK'
  BY <1>1, <1>2, <1>4, <1>t, Typed DEF LinkTypeOK
<1>6. Captured(c)'
  BY <1>1, <1>3, <1>t DEF Captured, Capturing
<1>7. Reported(c)'
  BY <1>1, <1>3, <1>t DEF Reported, Clean, AllTaken, Isolated, Passes
<1>8. Named(c)'
  BY <1>1, <1>3, <1>s, Inodes DEF Named, Isolating, Passes, Capturing, BeforeIsolation, Ours
<1>9. Copied(c)'
  BY <1>3, <1>t, CopiesKept DEF BeforeIsolation, Capturing
<1>10. Mild(c)
  BY <1>1, <1>t DEF Mild, LinkTypeOK
<1>11. ForeignKept'
  <2>1. (Alien(stage'[c].tool) <=> Alien(stage[c].tool)) /\ (Alien(stage'[c].pub) <=> Alien(stage[c].pub))
    <3>1. stage[c].known \in Ours
      BY <1>1 DEF Named
    <3>2. stage[c].known \in Nat /\ stage[c].known # ForeignIno
      BY <3>1, Inodes DEF Ours
    <3> QED  BY <1>s, <3>2, RemovesOwn
  <2> QED  BY <1>2, <1>t, <2>1, SameAliens DEF LinkInv, ForeignKept
<1> QED  BY <1>2, <1>5, <1>6, <1>7, <1>8, <1>9, <1>10, <1>11, Alone

LEMMA DiscardSafe == ASSUME LinkInv, NEW c \in Calls, Discard(c) PROVE LinkInv'
<1> USE Names
<1>1. Captured(c) /\ Reported(c) /\ Named(c) /\ LinkTypeOK /\ Fits(c)
  BY Fit DEF LinkInv
<1>2. Only(c)
  BY <1>1 DEF LinkTypeOK, Only, Discard, CallAt, Go, To
<1>3. /\ call[c].pc = "discard" /\ call'[c] \in CallType
      /\ call'[c].pc = "done" /\ call'[c].result = "err"
      /\ call'[c].err = call[c].err /\ call'[c].stop = call[c].stop /\ call'[c].panic = call[c].panic /\ call'[c].pump = call[c].pump
  <2>1. call'[c] = [call[c] EXCEPT !.pc = "done", !.result = "err"]
    BY <1>1 DEF LinkTypeOK, Discard, CallAt, Go, To
  <2>2. call'[c] \in CallType
    BY <1>1, <2>1 DEF Fits, CallType, Capturing
  <2>3. call'[c].pc = "done" /\ call'[c].result = "err"
      /\ call'[c].err = call[c].err /\ call'[c].stop = call[c].stop /\ call'[c].panic = call[c].panic /\ call'[c].pump = call[c].pump
    BY <1>1, <2>1 DEF Fits, CallType
  <2> QED  BY <2>2, <2>3 DEF Discard, CallAt, Go, To
<1>s. /\ stage'[c].tool = RemoveName(stage[c].tool, Current(stage[c].tool, stage[c].known)) /\ stage'[c].known = stage[c].known
      /\ stage'[c].pub = stage[c].pub /\ stage[c].tool \in NameType /\ Current(stage[c].tool, stage[c].known) \in Nat
      /\ stage'[c] \in StageType
      /\ (stage[c].tool.kind = "file" => Current(stage[c].tool, stage[c].known) = stage[c].tool.ino) /\ (Current(stage[c].tool, stage[c].known) = stage[c].known \/ Current(stage[c].tool, stage[c].known) = stage[c].tool.ino)
  <2>1. stage'[c] = [stage[c] EXCEPT !.tool = RemoveName(stage[c].tool, Current(stage[c].tool, stage[c].known))] /\ stage[c] \in StageType
    BY <1>1 DEF LinkTypeOK, Fits, Discard, CallAt, Go, To
  <2>2. stage[c].tool \in NameType /\ stage[c].known \in Nat /\ stage[c].pub \in NameType
    BY <2>1 DEF StageType
  <2>3. File(ReservedIno) \in NameType /\ ReservedIno \in Nat
    BY Inodes
  <2>4. \A i \in Nat : RemoveName(stage[c].tool, i) \in NameType
    BY <2>2, Inodes
  <2>5. /\ Current(stage[c].tool, stage[c].known) \in Nat
        /\ (stage[c].tool.kind = "file" => Current(stage[c].tool, stage[c].known) = stage[c].tool.ino)
        /\ \/ Current(stage[c].tool, stage[c].known) = stage[c].known
           \/ Current(stage[c].tool, stage[c].known) = stage[c].tool.ino
    BY <2>2 DEF Current, NameType
  <2> QED  BY <2>1, <2>2, <2>3, <2>4, <2>5 DEF StageType, Fits
<1>t. UNCHANGED <<lease, child, pipe>> /\ UNCHANGED <<iso, exe, contents, budget>>
  BY <1>1, <1>3 DEF Captured, Capturing, Discard, CallAt, Go, To
<1>4. Fits(c)'
  BY <1>1, <1>3, <1>s, <1>t DEF Fits
<1>5. LinkTypeOK'
  BY <1>1, <1>2, <1>4, <1>t, Typed DEF LinkTypeOK
<1>6. Captured(c)'
  BY <1>1, <1>3, <1>t DEF Captured, Capturing
<1>7. Reported(c)'
  BY <1>1, <1>3, <1>t DEF Reported, Clean, AllTaken, Isolated, Passes
<1>8. Named(c)'
  BY <1>1, <1>3, <1>s, Inodes DEF Named, Isolating, Passes, Capturing, BeforeIsolation, Ours
<1>9. Copied(c)'
  BY <1>3, <1>t, CopiesKept DEF BeforeIsolation, Capturing
<1>10. Mild(c)
  BY <1>1, <1>t DEF Mild, LinkTypeOK
<1>11. ForeignKept'
  <2>1. (Alien(stage'[c].tool) <=> Alien(stage[c].tool)) /\ (Alien(stage'[c].pub) <=> Alien(stage[c].pub))
    <3> DEFINE k == Current(stage[c].tool, stage[c].known)
    <3>1. stage[c].known \in Ours /\ stage[c].tool.ino \in Ours
      BY <1>1, <1>3 DEF Named, BeforeIsolation
    <3>2. k \in Ours
      BY <1>s, <3>1
    <3> HIDE DEF k
    <3>3. k \in Nat /\ k # ForeignIno
      BY <3>2, Inodes DEF Ours
    <3>4. stage'[c].tool = RemoveName(stage[c].tool, k) /\ stage'[c].pub = stage[c].pub /\ stage[c].tool \in NameType
      BY <1>s DEF k
    <3> QED  BY <3>3, <3>4, RemovesOwn
  <2> QED  BY <1>2, <1>t, <2>1, SameAliens DEF LinkInv, ForeignKept
<1> QED  BY <1>2, <1>5, <1>6, <1>7, <1>8, <1>9, <1>10, <1>11, Alone

LEMMA FollowSafe == ASSUME LinkInv, NEW c \in Calls, Follow(c) PROVE LinkInv'
<1> USE Names
<1> DEFINE o == Outcome(call[c], child[c].code)
           more == o = "ok" /\ call[c].tools > 1
<1>1. Captured(c) /\ Reported(c) /\ Named(c) /\ LinkTypeOK /\ Fits(c)
  BY Fit DEF LinkInv
<1>2. /\ o # "panic" /\ call[c].pc = "after" /\ lease = c /\ lease' = (IF more THEN c ELSE None)
      /\ call' = [call EXCEPT ![c] = IF more THEN [call[c] EXCEPT !.pc = "spawn", !.tools = @ - 1]
                                    ELSE [call[c] EXCEPT !.pc = IF o = "ok" THEN "reclaim" ELSE "discard"]]
      /\ UNCHANGED <<child, pipe, stage, iso, exe, contents, budget>>
  BY <1>1 DEF Follow, CallAt, Go, Holder, Captured, Capturing
<1>3. o = "ok" => Clean(c) /\ child[c].code = "ok"
  BY DEF Outcome, Clean
<1> HIDE DEF o
<1>4. Only(c)
  BY <1>1, <1>2 DEF LinkTypeOK, Only
<1>5. /\ call'[c] \in CallType /\ call'[c].result = call[c].result
      /\ call'[c].pc = IF more THEN "spawn" ELSE IF o = "ok" THEN "reclaim" ELSE "discard"
      /\ call'[c].err = call[c].err /\ call'[c].stop = call[c].stop /\ call'[c].panic = call[c].panic
      /\ call'[c].pump = call[c].pump
  <2>1. call[c] \in CallType /\ call \in [Calls -> CallType]
    BY <1>1 DEF LinkTypeOK
  <2>2. CASE more
    <3>1. call'[c] = [call[c] EXCEPT !.pc = "spawn", !.tools = @ - 1]
      BY <1>2, <2>1, <2>2
    <3>2. call[c].tools - 1 \in 1..Tools
      BY <2>1, <2>2 DEF CallType
    <3> QED  BY <2>1, <2>2, <3>1, <3>2 DEF CallType, Capturing
  <2>3. CASE ~more
    <3>1. call'[c] = [call[c] EXCEPT !.pc = IF o = "ok" THEN "reclaim" ELSE "discard"]
      BY <1>2, <2>1, <2>3
    <3> HIDE DEF more
    <3> QED  BY <2>1, <2>3, <3>1 DEF CallType
  <2> QED  BY <2>2, <2>3
<1>6. Fits(c)'
  BY <1>1, <1>2, <1>5 DEF Fits
<1>7. LinkTypeOK'
  BY <1>1, <1>2, <1>4, <1>6, Typed DEF LinkTypeOK
<1>8. Captured(c)'
  BY <1>1, <1>2, <1>5 DEF Captured, Capturing
<1>9. Reported(c)'
  BY <1>1, <1>2, <1>3, <1>5 DEF Reported, Clean, AllTaken, Isolated, Passes
<1>10. Named(c)'
  BY <1>1, <1>2, <1>5 DEF Named, Isolating, Passes, Capturing, BeforeIsolation
<1>11. Copied(c)'
  BY <1>2, <1>5, CopiesKept DEF BeforeIsolation, Capturing
<1>12. Mild(c)
  BY <1>1, <1>2 DEF Mild, LinkTypeOK
<1>13. ForeignKept'
  BY <1>2, <1>4, SameAliens DEF LinkInv, ForeignKept
<1> QED  BY <1>4, <1>7, <1>8, <1>9, <1>10, <1>11, <1>12, <1>13, Alone

LEMMA ToolWritesSafe == ASSUME LinkInv, NEW c \in Calls, ToolWrites(c) PROVE LinkInv'
<1> USE Names
<1>1. Captured(c) /\ Reported(c) /\ Named(c) /\ LinkTypeOK /\ Fits(c)
  BY Fit DEF LinkInv
<1>2. PICK n \in {stage[c].tool, File(ReplacedIno), Symlink, NoFile} : stage' = [stage EXCEPT ![c].tool = n]
  BY DEF ToolWrites
<1>3. /\ child[c].st = "run" /\ child' = [child EXCEPT ![c].wrote = TRUE]
      /\ UNCHANGED <<lease, call, pipe, iso, exe, contents, budget>>
  BY DEF ToolWrites
<1>4. Only(c)
  BY <1>1, <1>2, <1>3 DEF LinkTypeOK, Only
<1>5. call[c].pc \in Capturing /\ call[c].pc # "idle" /\ call[c].pc # "done" /\ call[c].result = None
  BY <1>1, <1>3 DEF Captured, Reported, Capturing
<1>6. /\ stage'[c].tool = n /\ stage'[c].pub = stage[c].pub /\ stage'[c].known = stage[c].known
      /\ stage'[c] \in StageType /\ n \in NameType /\ n.ino \in Ours
  <2>1. stage'[c] = [stage[c] EXCEPT !.tool = n] /\ stage[c] \in StageType
    BY <1>1, <1>2 DEF LinkTypeOK
  <2>2. stage[c].tool \in NameType
    BY <2>1 DEF StageType
  <2>3. n \in NameType /\ n.ino \in Ours
    BY <1>1, <1>5, <2>2, Inodes DEF Named, Ours, BeforeIsolation
  <2> QED  BY <2>1, <2>3 DEF StageType
<1>7. child'[c].st = "run" /\ child'[c].code = child[c].code /\ child'[c] \in ChildType
  BY <1>1, <1>3 DEF LinkTypeOK, Fits, ChildType
<1>8. Fits(c)'
  BY <1>1, <1>3, <1>6, <1>7 DEF Fits
<1>9. LinkTypeOK'
  BY <1>1, <1>3, <1>4, <1>8, Typed DEF LinkTypeOK
<1>10. Captured(c)'
  BY <1>1, <1>3, <1>7 DEF Captured
<1>11. Reported(c)'
  BY <1>1, <1>3, <1>7 DEF Reported, Clean, AllTaken, Isolated
<1>12. Named(c)'
  BY <1>1, <1>3, <1>5, <1>6 DEF Named, Isolating, Passes, Capturing
<1>13. Copied(c)'
  BY <1>3, <1>5, CopiesKept DEF BeforeIsolation
<1>14. Mild(c)
  BY <1>1, <1>3 DEF Mild, LinkTypeOK
<1>15. ForeignKept'
  <2>1. ~Alien(stage'[c].tool) /\ ~Alien(stage[c].tool) /\ stage'[c].pub = stage[c].pub
    BY <1>1, <1>5, <1>6, Inodes DEF Alien, Named, Ours, BeforeIsolation
  <2> QED  BY <1>3, <1>4, <2>1, SameAliens DEF LinkInv, ForeignKept
<1> QED  BY <1>4, <1>9, <1>10, <1>11, <1>12, <1>13, <1>14, <1>15, Alone

(***************************************************************************)
(* Isolation and publication.                                              *)
(***************************************************************************)
LEMMA ReclaimSafe == ASSUME LinkInv, NEW c \in Calls, Reclaim(c) PROVE LinkInv'
<1> USE Names
<1>1. Captured(c) /\ Reported(c) /\ Named(c) /\ Copied(c) /\ LinkTypeOK /\ Fits(c)
  BY Fit DEF LinkInv
<1>2. call[c].pc = "reclaim" /\ UNCHANGED <<lease, child, pipe, exe, budget>>
  BY DEF Reclaim, CallAt
<1>3. CASE stage[c].tool.kind # "file"
  BY <1>2, <1>3, FailSafe DEF Reclaim, Isolated
<1>4. CASE stage[c].tool.kind = "file"
  <2>1. /\ stage' = [stage EXCEPT ![c].known = stage[c].tool.ino]
        /\ iso' = [iso EXCEPT ![c].src = <<1, 2>>, ![c].len = 2]
        /\ contents' = [contents EXCEPT ![c] = {<<1, 2>>}]
        /\ call' = [call EXCEPT ![c] = [call[c] EXCEPT !.pc = "hash"]]
    BY <1>4 DEF Reclaim, To, Go
  <2>2. Only(c)
    BY <1>1, <1>2, <2>1 DEF LinkTypeOK, Only
  <2>3. /\ call'[c] \in CallType /\ call'[c].pc = "hash" /\ call'[c].result = call[c].result
        /\ call'[c].err = call[c].err /\ call'[c].stop = call[c].stop /\ call'[c].panic = call[c].panic
        /\ call'[c].pump = call[c].pump
    <3>1. call'[c] = [call[c] EXCEPT !.pc = "hash"] /\ call[c] \in CallType
      BY <1>1, <2>1 DEF LinkTypeOK
    <3> QED  BY <3>1 DEF CallType, Passes
  <2>4. /\ stage'[c] \in StageType /\ stage'[c].tool = stage[c].tool /\ stage'[c].pub = stage[c].pub
        /\ stage'[c].known = stage[c].tool.ino
    <3>1. stage'[c] = [stage[c] EXCEPT !.known = stage[c].tool.ino] /\ stage[c] \in StageType
      BY <1>1, <2>1 DEF LinkTypeOK
    <3> QED  BY <3>1 DEF StageType, NameType
  <2>5. /\ iso'[c] \in IsoType /\ iso'[c].src = <<1, 2>> /\ iso'[c].first = iso[c].first /\ iso'[c].copy = iso[c].copy
        /\ contents'[c] = {<<1, 2>>} /\ <<1, 2>> \in Seq(Nat)
    <3>1. iso'[c] = [iso[c] EXCEPT !.src = <<1, 2>>, !.len = 2] /\ iso[c] \in IsoType
      BY <1>1, <2>1 DEF LinkTypeOK
    <3>2. <<1, 2>> \in Seq(Nat)
      OBVIOUS
    <3> QED  BY <1>1, <2>1, <3>1, <3>2 DEF IsoType, LinkTypeOK
  <2>6. Fits(c)'
    BY <1>1, <1>2, <2>3, <2>4, <2>5 DEF Fits
  <2>7. LinkTypeOK'
    BY <1>1, <1>2, <2>2, <2>6, Typed DEF LinkTypeOK
  <2>8. Captured(c)'
    BY <1>1, <1>2, <2>3 DEF Captured, Capturing
  <2>9. Reported(c)'
    BY <1>1, <1>2, <2>3 DEF Reported, Clean, AllTaken, Isolated, Passes
  <2>10. Named(c)'
    BY <1>1, <1>2, <1>4, <2>3, <2>4 DEF Named, Reported, Isolating, Passes, Capturing, BeforeIsolation
  <2>11. Copied(c)'
    <3>1. AllKept(iso[c].src)'
      BY <2>5 DEF AllKept, Kept
    <3>2. AllKept(iso[c].first)'
      BY <1>1, <1>2, <2>5 DEF Copied, AllKept, Kept
    <3> QED  BY <1>1, <1>2, <2>3, <2>5, <3>1, <3>2 DEF Copied, Isolating, Passes, Capturing, BeforeIsolation
  <2>12. Mild(c)
    BY <1>1, <1>2 DEF Mild, LinkTypeOK
  <2>13. ForeignKept'
    BY <1>2, <2>2, <2>4, SameAliens DEF LinkInv, ForeignKept
  <2> QED  BY <2>2, <2>7, <2>8, <2>9, <2>10, <2>11, <2>12, <2>13, Alone
<1> QED  BY <1>3, <1>4

(* A step of a call that isolates its output: what it must keep. *)
LEMMA Isolates ==
    ASSUME LinkInv, NEW c \in Calls, Isolated(c), Only(c), UNCHANGED <<lease, child, pipe, contents, budget>>, exe' = exe,
           NEW pc \in Passes \cup {"check", "remove", "verify", "rename"},
           call' = [call EXCEPT ![c] = [call[c] EXCEPT !.pc = pc]],
           stage'[c] \in StageType, iso'[c] \in IsoType, Named(c)', Copied(c)',
           Alien(stage'[c].tool) <=> Alien(stage[c].tool), Alien(stage'[c].pub) <=> Alien(stage[c].pub)
    PROVE  LinkInv'
<1> USE Names
<1>1. Captured(c) /\ Reported(c) /\ LinkTypeOK /\ Fits(c)
  BY Fit DEF LinkInv
<1>2. /\ call'[c] \in CallType /\ call'[c].pc = pc /\ call'[c].result = call[c].result
      /\ call'[c].err = call[c].err /\ call'[c].stop = call[c].stop /\ call'[c].panic = call[c].panic
      /\ call'[c].pump = call[c].pump
  <2>1. call'[c] = [call[c] EXCEPT !.pc = pc] /\ call[c] \in CallType
    BY <1>1 DEF LinkTypeOK
  <2> QED  BY <2>1 DEF CallType, Passes
<1>3. Fits(c)'
  BY <1>1, <1>2 DEF Fits
<1>4. LinkTypeOK'
  BY <1>1, <1>3, Typed DEF LinkTypeOK
<1>5. Captured(c)'
  BY <1>1, <1>2 DEF Captured, Capturing, Isolated, Passes
<1>6. Reported(c)'
  BY <1>1, <1>2 DEF Reported, Clean, AllTaken, Isolated, Passes
<1>7. Mild(c)
  BY <1>1 DEF Mild, LinkTypeOK
<1>8. ForeignKept'
  BY SameAliens DEF LinkInv, ForeignKept
<1> QED  BY <1>4, <1>5, <1>6, <1>7, <1>8, Alone

LEMMA SameSeq ==
    ASSUME NEW d \in Seq(Nat), NEW e \in Seq(Nat), Len(e) <= Len(d), \A i \in 1..Len(d) : i <= Len(e) /\ e[i] = d[i]
    PROVE  e = d
<1>1. Len(d) \in Nat /\ Len(e) \in Nat
  OBVIOUS
<1>2. Len(e) = Len(d)
  <2>1. CASE Len(d) = 0
    BY <1>1, <2>1
  <2>2. CASE Len(d) > 0
    BY <1>1, <2>2
  <2> QED  BY <1>1, <2>1, <2>2
<1> QED  BY <1>2

LEMMA CompareSafe == ASSUME LinkInv, NEW c \in Calls, Compare(c) PROVE LinkInv'
<1> USE Names
<1>1. Named(c) /\ Reported(c) /\ Copied(c) /\ LinkTypeOK /\ Fits(c)
  BY Fit DEF LinkInv
<1>2. call[c].pc = "check" /\ Isolated(c) /\ UNCHANGED <<lease, child, pipe, iso, exe, contents, budget>>
  BY DEF Compare, CallAt, Isolated
<1>3. CASE ~Unchanged(iso[c])
  BY <1>2, <1>3, FailSafe DEF Compare
<1>4. CASE Unchanged(iso[c])
  <2>1. call' = [call EXCEPT ![c] = [call[c] EXCEPT !.pc = "remove"]] /\ stage' = stage
    BY <1>4 DEF Compare, To, Go
  <2>2. iso[c].copy \in contents[c]
    <3>1. PICK e \in contents[c] : Moment(c, e)
      BY <1>1, <1>2 DEF Copied
    <3>2. iso[c].copy = iso[c].first /\ iso[c].first \in Seq(Nat) /\ e \in Seq(Nat)
      BY <1>1, <1>4 DEF Unchanged, Fits, IsoType
    <3>3. Len(e) <= Len(iso[c].first) /\ \A i \in 1..Len(iso[c].first) : i <= Len(e) /\ e[i] = iso[c].first[i]
      BY <3>1, <3>2 DEF Moment, AgreesAt
    <3>4. e = iso[c].first
      BY <3>2, <3>3, SameSeq
    <3> QED  BY <3>2, <3>4
  <2>3. call'[c].pc = "remove" /\ call'[c].result = call[c].result
    BY <1>1, <2>1 DEF LinkTypeOK, Fits, CallType
  <2>4. Only(c)
    BY <1>1, <1>2, <2>1 DEF LinkTypeOK, Only
  <2>5. Named(c)'
    BY <1>1, <1>2, <2>1, <2>3 DEF Named, Isolating, Passes, Capturing, BeforeIsolation
  <2>6. Copied(c)'
    BY <1>1, <1>2, <2>2, <2>3 DEF Copied, AllKept, Kept, Isolating, Passes, Capturing, BeforeIsolation
  <2>7. stage'[c] \in StageType /\ iso'[c] \in IsoType
    BY <1>1, <1>2, <2>1 DEF Fits
  <2> QED  BY <1>2, <2>1, <2>4, <2>5, <2>6, <2>7, Isolates
<1> QED  BY <1>3, <1>4

LEMMA RemoveToolSafe == ASSUME LinkInv, NEW c \in Calls, RemoveTool(c) PROVE LinkInv'
<1> USE Names
<1>1. Named(c) /\ Reported(c) /\ Copied(c) /\ LinkTypeOK /\ Fits(c)
  BY Fit DEF LinkInv
<1>2. call[c].pc = "remove" /\ Isolated(c) /\ UNCHANGED <<lease, child, pipe, iso, exe, contents, budget>>
  BY DEF RemoveTool, CallAt, Isolated
<1>3. CASE ~(stage[c].tool.kind = "gone" \/ stage[c].tool = File(stage[c].known))
  BY <1>2, <1>3, FailSafe DEF RemoveTool
<1>4. CASE stage[c].tool.kind = "gone" \/ stage[c].tool = File(stage[c].known)
  <2>1. /\ call' = [call EXCEPT ![c] = [call[c] EXCEPT !.pc = "verify"]]
        /\ stage' = [stage EXCEPT ![c].tool = NoFile]
    BY <1>4 DEF RemoveTool, To, Go
  <2>2. call'[c].pc = "verify" /\ call'[c].result = call[c].result
    BY <1>1, <2>1 DEF LinkTypeOK, Fits, CallType
  <2>3. stage'[c] \in StageType /\ stage'[c].tool = NoFile /\ stage'[c].pub = stage[c].pub /\ stage'[c].known = stage[c].known
    <3>1. stage'[c] = [stage[c] EXCEPT !.tool = NoFile] /\ stage[c] \in StageType
      BY <1>1, <2>1 DEF LinkTypeOK
    <3> QED  BY <3>1, Inodes DEF StageType
  <2>4. Only(c)
    BY <1>1, <1>2, <2>1 DEF LinkTypeOK, Only
  <2>5. Named(c)'
    BY <1>1, <1>2, <2>2, <2>3, Inodes DEF Named, Reported, Isolating, Passes, Capturing, BeforeIsolation
  <2>6. Copied(c)'
    BY <1>1, <1>2, <2>2 DEF Copied, AllKept, Kept, Isolating, Passes, Capturing, BeforeIsolation
  <2>7. stage[c].known \in Nat /\ stage[c].known # ForeignIno
    BY <1>1, Inodes DEF Named, Ours
  <2>8. ~Alien(stage[c].tool) /\ ~Alien(stage'[c].tool)
    BY <1>4, <2>3, <2>7, Inodes DEF Alien
  <2> QED  BY <1>1, <1>2, <2>1, <2>3, <2>4, <2>5, <2>6, <2>8, Isolates DEF Fits
<1> QED  BY <1>3, <1>4

LEMMA VerifyPubSafe == ASSUME LinkInv, NEW c \in Calls, VerifyPub(c) PROVE LinkInv'
<1> USE Names
<1>1. Named(c) /\ Reported(c) /\ Copied(c) /\ LinkTypeOK /\ Fits(c)
  BY Fit DEF LinkInv
<1>2. call[c].pc = "verify" /\ Isolated(c) /\ UNCHANGED <<lease, child, pipe, iso, exe, contents, budget>>
  BY DEF VerifyPub, CallAt, Isolated
<1>3. CASE ~PubIsOurs(stage[c].pub)
  BY <1>2, <1>3, FailSafe DEF VerifyPub
<1>4. CASE PubIsOurs(stage[c].pub)
  <2>1. call' = [call EXCEPT ![c] = [call[c] EXCEPT !.pc = "rename"]] /\ stage' = stage
    BY <1>4 DEF VerifyPub, To, Go
  <2>2. call'[c].pc = "rename" /\ call'[c].result = call[c].result
    BY <1>1, <2>1 DEF LinkTypeOK, Fits, CallType
  <2>3. Only(c)
    BY <1>1, <1>2, <2>1 DEF LinkTypeOK, Only
  <2>4. Named(c)'
    BY <1>1, <1>2, <1>4, <2>1, <2>2 DEF Named, PubIsOurs, Isolating, Passes, Capturing, BeforeIsolation
  <2>5. Copied(c)'
    BY <1>1, <1>2, <2>2 DEF Copied, AllKept, Kept, Isolating, Passes, Capturing, BeforeIsolation
  <2> QED  BY <1>1, <1>2, <2>1, <2>3, <2>4, <2>5, Isolates DEF Fits
<1> QED  BY <1>3, <1>4

LEMMA RenameSafe == ASSUME LinkInv, NEW c \in Calls, Rename(c) PROVE LinkInv'
<1> USE Names
<1>1. Captured(c) /\ Named(c) /\ Reported(c) /\ Copied(c) /\ LinkTypeOK /\ Fits(c)
  BY Fit DEF LinkInv
<1>2. call[c].pc = "rename" /\ Isolated(c) /\ UNCHANGED <<lease, child, pipe, iso, contents, budget>>
  BY DEF Rename, CallAt, Isolated
<1>3. CASE Fail(c) /\ UNCHANGED exe
  BY <1>2, <1>3, FailSafe
<1>4. CASE /\ exe' = IF stage[c].pub = File(PubIno) THEN [by |-> c, data |-> iso[c].copy] ELSE [by |-> "foreign", data |-> <<>>]
           /\ stage' = [stage EXCEPT ![c].pub = NoFile]
           /\ Go(c, [call[c] EXCEPT !.pc = "done", !.result = "ok"])
  <2>1. exe' = [by |-> c, data |-> iso[c].copy] /\ iso[c].copy \in Seq(Nat)
    BY <1>1, <1>2, <1>4 DEF Named, Fits, IsoType
  <2>2. /\ call' = [call EXCEPT ![c] = call'[c]] /\ call'[c] = [call[c] EXCEPT !.pc = "done", !.result = "ok"]
        /\ stage' = [stage EXCEPT ![c] = stage'[c]] /\ stage'[c] = [stage[c] EXCEPT !.pub = NoFile]
    BY <1>1, <1>4 DEF Go, LinkTypeOK
  <2>3. /\ call'[c] \in CallType /\ call'[c].pc = "done" /\ call'[c].result = "ok"
        /\ call'[c].err = call[c].err /\ call'[c].stop = call[c].stop /\ call'[c].panic = call[c].panic
        /\ call'[c].pump = call[c].pump
    BY <1>1, <2>2 DEF Fits, CallType
  <2>4. /\ stage'[c] \in StageType /\ stage'[c].tool = stage[c].tool /\ stage'[c].pub = NoFile
        /\ stage'[c].known = stage[c].known
    BY <1>1, <2>2, Inodes DEF Fits, StageType
  <2>5. Only(c)
    BY <1>1, <1>2, <2>2 DEF LinkTypeOK, Only
  <2>6. Fits(c)'
    BY <1>1, <1>2, <2>3, <2>4 DEF Fits
  <2>7. LinkTypeOK'
    BY <1>1, <1>2, <2>1, <2>5, <2>6, Typed DEF LinkTypeOK
  <2>8. Captured(c)'
    BY <1>1, <1>2, <2>3 DEF Captured, Capturing
  <2>9. Reported(c)'
    BY <1>1, <1>2, <2>3 DEF Reported, Clean, AllTaken, Isolated, Passes
  <2>10. Named(c)'
    BY <1>1, <1>2, <2>3, <2>4, Inodes DEF Named, Isolating, Passes, Capturing, BeforeIsolation
  <2>11. Copied(c)'
    BY <1>1, <1>2, <2>1, <2>3 DEF Copied, AllKept, Kept, Isolating, Passes, Capturing, BeforeIsolation
  <2>12. Mild(c)
    BY <1>1, <1>2, <2>1 DEF Mild, LinkTypeOK
  <2>13. ForeignKept'
    <3>1. ~Alien(stage[c].pub) /\ ~Alien(stage'[c].pub)
      BY <1>1, <1>2, <2>4, Inodes DEF Named, Alien
    <3> QED  BY <1>2, <2>1, <2>4, <2>5, <3>1, SameAliens
  <2> QED  BY <2>5, <2>7, <2>8, <2>9, <2>10, <2>11, <2>12, <2>13, Alone
<1> QED  BY <1>3, <1>4 DEF Rename

(* The passes over the output. *)
LEMMA Appended ==
    ASSUME NEW d \in Seq(Nat), NEW v \in Nat
    PROVE  /\ Append(d, v) \in Seq(Nat) /\ Len(Append(d, v)) = Len(d) + 1
           /\ \A j \in 1..(Len(d) + 1) : Append(d, v)[j] = IF j = Len(d) + 1 THEN v ELSE d[j]
OBVIOUS

LEMMA Block ==
    ASSUME NEW d \in Seq(Nat), NEW j \in 1..Len(d) PROVE d[j] \in Nat /\ (AllKept(d) => Kept(d[j]))
BY DEF AllKept

LEMMA SameCall ==
    ASSUME LinkTypeOK, NEW c \in Calls
    PROVE  call = [call EXCEPT ![c] = [call[c] EXCEPT !.pc = call[c].pc]]
<1>1. call[c] = [call[c] EXCEPT !.pc = call[c].pc]
  BY DEF LinkTypeOK, CallType
<1> QED  BY <1>1 DEF LinkTypeOK

(* What a block read does to the readings. *)
LEMMA HashBlock ==
    ASSUME LinkInv, NEW c \in Calls, call[c].pc = "hash", UNCHANGED <<contents, budget, exe, call>>, NEW n \in Nat,
           Len(iso[c].first) + 1 <= Len(iso[c].src),
           iso'[c] = [iso[c] EXCEPT !.first = Append(@, iso[c].src[Len(iso[c].first) + 1]), !.len = n]
    PROVE  iso'[c] \in IsoType /\ Copied(c)'
<1> DEFINE b == iso[c].first
           v == iso[c].src[Len(b) + 1]
<1>1. Copied(c) /\ iso[c] \in IsoType
  BY Fit DEF LinkInv, Fits
<1>2. iso[c].src \in Seq(Nat) /\ b \in Seq(Nat) /\ Len(b) \in Nat /\ Len(iso[c].src) \in Nat
  BY <1>1 DEF IsoType
<1>3. Len(b) + 1 \in 1..Len(iso[c].src)
  BY <1>2
<1>4. v \in Nat /\ AllKept(b) /\ AllKept(iso[c].src) /\ Kept(v)
  <2>1. AllKept(b) /\ AllKept(iso[c].src)
    BY <1>1 DEF Copied
  <2> QED  BY <1>2, <1>3, <2>1, Block
<1>5. iso'[c] = [iso[c] EXCEPT !.first = Append(b, v), !.len = n]
  BY <1>1 DEF IsoType
<1> HIDE DEF b, v
<1>6. /\ Append(b, v) \in Seq(Nat) /\ Len(Append(b, v)) = Len(b) + 1
      /\ \A j \in 1..(Len(b) + 1) : Append(b, v)[j] = IF j = Len(b) + 1 THEN v ELSE b[j]
  BY <1>2, <1>4, Appended
<1>7. iso'[c] \in IsoType /\ iso'[c].src = iso[c].src /\ iso'[c].first = Append(b, v) /\ iso'[c].copy = iso[c].copy
  BY <1>1, <1>5, <1>6 DEF IsoType
<1>8. \A j \in 1..(Len(b) + 1) : Kept(Append(b, v)[j])
  BY <1>2, <1>4, <1>6 DEF AllKept
<1>9. AllKept(iso[c].first)' /\ AllKept(iso[c].src)'
  BY <1>4, <1>6, <1>7, <1>8 DEF AllKept, Kept
<1> QED  BY <1>1, <1>7, <1>9 DEF Copied, Isolating, Passes, Capturing, BeforeIsolation

LEMMA CopyBlock ==
    ASSUME LinkInv, NEW c \in Calls, call[c].pc = "copy", UNCHANGED <<contents, budget, exe, call>>, NEW n \in Nat,
           Len(iso[c].copy) + 1 <= Len(iso[c].src),
           iso'[c] = [iso[c] EXCEPT !.copy = Append(@, iso[c].src[Len(iso[c].copy) + 1]), !.len = n]
    PROVE  iso'[c] \in IsoType /\ Copied(c)'
<1> DEFINE b == iso[c].copy
           v == iso[c].src[Len(b) + 1]
<1>1. Copied(c) /\ iso[c] \in IsoType
  BY Fit DEF LinkInv, Fits
<1>2. iso[c].src \in Seq(Nat) /\ b \in Seq(Nat) /\ Len(b) \in Nat /\ Len(iso[c].src) \in Nat
  BY <1>1 DEF IsoType
<1>3. Len(b) + 1 \in 1..Len(iso[c].src)
  BY <1>2
<1>4. v \in Nat /\ v = iso[c].src[Len(b) + 1]
  BY <1>2, <1>3, Block
<1>5. iso'[c] = [iso[c] EXCEPT !.copy = Append(b, v), !.len = n]
  BY <1>1 DEF IsoType
<1>k. b = iso[c].copy
  OBVIOUS
<1> HIDE DEF b, v
<1>6. /\ Append(b, v) \in Seq(Nat) /\ Len(Append(b, v)) = Len(b) + 1
      /\ \A j \in 1..(Len(b) + 1) : Append(b, v)[j] = IF j = Len(b) + 1 THEN v ELSE b[j]
  BY <1>2, <1>4, Appended
<1>7. iso'[c] \in IsoType /\ iso'[c].src = iso[c].src /\ iso'[c].copy = Append(b, v) /\ iso'[c].first = iso[c].first
  BY <1>1, <1>5, <1>6 DEF IsoType
<1>8. PICK e \in contents[c] : Moment(c, e)
  BY <1>1 DEF Copied
<1>9. AgreesAt(Append(b, v), iso[c].first, e)
  <2> SUFFICES ASSUME NEW j \in 1..Len(iso[c].first), j <= Len(b) + 1, Append(b, v)[j] = iso[c].first[j]
               PROVE  j <= Len(e) /\ e[j] = iso[c].first[j]
    BY <1>6 DEF AgreesAt
  <2>0. j \in 1..(Len(b) + 1)
    BY <1>2
  <2>1. CASE j = Len(b) + 1
    <3>1. iso[c].src[j] = iso[c].first[j] /\ j <= Len(iso[c].src)
      BY <1>3, <1>4, <1>6, <2>0, <2>1
    <3> QED  BY <1>8, <3>1 DEF Moment, AgreesAt
  <2>2. CASE j # Len(b) + 1
    <3>1. j <= Len(iso[c].copy) /\ iso[c].copy[j] = iso[c].first[j]
      BY <1>2, <1>k, <1>6, <2>0, <2>2, SMTT(30)
    <3> QED  BY <1>8, <3>1 DEF Moment, AgreesAt
  <2> QED  BY <2>1, <2>2
<1>10. Moment(c, e)'
  BY <1>7, <1>8, <1>9 DEF Moment
<1>11. AllKept(iso[c].first)' /\ AllKept(iso[c].src)'
  BY <1>1, <1>7 DEF Copied, AllKept, Kept
<1> QED  BY <1>1, <1>7, <1>8, <1>10, <1>11 DEF Copied, Isolating, Passes, Capturing, BeforeIsolation

LEMMA RehashBlock ==
    ASSUME LinkInv, NEW c \in Calls, call[c].pc = "rehash", UNCHANGED <<contents, budget, exe, call>>, NEW n \in Nat,
           Len(iso[c].again) + 1 <= Len(iso[c].src),
           iso'[c] = [iso[c] EXCEPT !.again = Append(@, iso[c].src[Len(iso[c].again) + 1]), !.len = n]
    PROVE  iso'[c] \in IsoType /\ Copied(c)'
<1> DEFINE b == iso[c].again
           v == iso[c].src[Len(b) + 1]
<1>1. Copied(c) /\ iso[c] \in IsoType
  BY Fit DEF LinkInv, Fits
<1>2. iso[c].src \in Seq(Nat) /\ b \in Seq(Nat) /\ Len(b) \in Nat /\ Len(iso[c].src) \in Nat
  BY <1>1 DEF IsoType
<1>3. v \in Nat
  <2>1. Len(b) + 1 \in 1..Len(iso[c].src)
    BY <1>2
  <2> QED  BY <1>2, <2>1, Block
<1>4. iso'[c] = [iso[c] EXCEPT !.again = Append(b, v), !.len = n]
  BY <1>1 DEF IsoType
<1> HIDE DEF b, v
<1>5. Append(b, v) \in Seq(Nat)
  BY <1>2, <1>3, Appended
<1>6. /\ iso'[c] \in IsoType
      /\ iso'[c].src = iso[c].src /\ iso'[c].first = iso[c].first /\ iso'[c].copy = iso[c].copy
  BY <1>1, <1>4, <1>5 DEF IsoType
<1> QED  BY <1>1, <1>6 DEF Copied, Moment, AllKept, Kept, Isolating, Passes, Capturing, BeforeIsolation

LEMMA PassCopied ==
    ASSUME LinkInv, NEW c \in Calls, NEW pass \in Passes, call[c].pc = pass, call'[c].pc = NextPass[pass],
           UNCHANGED <<contents, budget, exe>>,
           NEW n \in Nat, Len(iso[c][Buffer[pass]]) + 1 > n, Len(iso[c].src) <= n, iso'[c] = [iso[c] EXCEPT !.len = n]
    PROVE  iso'[c] \in IsoType /\ Copied(c)'
<1>1. Copied(c) /\ Fits(c) /\ LinkTypeOK
  BY Fit DEF LinkInv
<1>2. /\ iso[c] \in IsoType /\ iso[c].src \in Seq(Nat) /\ iso[c].first \in Seq(Nat) /\ iso[c].copy \in Seq(Nat)
  BY <1>1 DEF Fits, IsoType
<1>3. /\ iso'[c] \in IsoType
      /\ iso'[c].src = iso[c].src /\ iso'[c].first = iso[c].first /\ iso'[c].copy = iso[c].copy
  BY <1>2 DEF IsoType
<1>4. AllKept(iso[c].src)' /\ AllKept(iso[c].first)'
  BY <1>1, <1>3 DEF Copied, AllKept, Kept
<1>5. CASE pass = "hash"
  <2>1. Len(iso[c].src) <= Len(iso[c].first)
    BY <1>2, <1>5 DEF Buffer
  <2>2. iso[c].copy = <<>> /\ iso[c].src \in contents[c]
    BY <1>1, <1>5 DEF Copied, Isolating, Passes
  <2>3. Moment(c, iso[c].src)
    BY <1>2, <2>1, <2>2 DEF Moment, AgreesAt
  <2>4. Moment(c, iso[c].src)'
    BY <1>3, <2>3 DEF Moment
  <2>5. iso'[c].src \in contents'[c] /\ \E e \in contents'[c] : Moment(c, e)'
    BY <1>3, <2>2, <2>4
  <2>6. call'[c].pc = "copy"
    BY <1>5 DEF NextPass
  <2> QED  BY <1>1, <1>3, <1>4, <1>5, <2>5, <2>6 DEF Copied, Isolating, Passes, Capturing, BeforeIsolation
<1>6. CASE pass \in {"copy", "rehash"}
  BY <1>1, <1>3, <1>4, <1>6 DEF Copied, Moment, NextPass, Isolating, Passes, Capturing, BeforeIsolation
<1> QED  BY <1>5, <1>6 DEF Passes

LEMMA ReadBlockSafe == ASSUME LinkInv, NEW c \in Calls, NEW pass \in Passes, ReadBlock(c, pass) PROVE LinkInv'
<1> USE Names
<1> DEFINE f == Buffer[pass]
           i == Len(iso[c][f]) + 1
           n == IF pass = "rehash" /\ i = 1 THEN Len(iso[c].src) ELSE iso[c].len
<1>1. Named(c) /\ Reported(c) /\ LinkTypeOK /\ Fits(c)
  BY Fit DEF LinkInv
<1>2. call[c].pc = pass /\ Isolated(c) /\ pass # "reclaim" /\ UNCHANGED <<lease, child, pipe, exe, contents, budget>>
  BY DEF ReadBlock, CallAt, Isolated, Passes
<1>3. f \in {"first", "copy", "again"} /\ iso[c][f] \in Seq(Nat) /\ iso[c] \in IsoType
  BY <1>1 DEF Fits, IsoType, Buffer, Passes
<1>4. n \in Nat /\ Len(iso[c].src) \in Nat /\ i \in Nat
  BY <1>1, <1>3 DEF Fits, IsoType
<1>5. \/ Fail(c) /\ UNCHANGED iso
      \/ /\ i <= n /\ ~(i > Len(iso[c].src))
         /\ iso' = [iso EXCEPT ![c][f] = Append(@, iso[c].src[i]), ![c].len = n]
         /\ UNCHANGED <<call, stage>>
      \/ /\ ~(i <= n) /\ ~(Len(iso[c].src) > n)
         /\ To(c, NextPass[pass])
         /\ stage' = IF pass = "hash" THEN [stage EXCEPT ![c].pub = File(PubIno)] ELSE stage
         /\ iso' = [iso EXCEPT ![c].len = n]
  BY Zenon DEF ReadBlock
<1> HIDE DEF f, n
<1>6. CASE Fail(c) /\ UNCHANGED iso
  BY <1>2, <1>6, FailSafe
<1>7. CASE /\ i <= n /\ ~(i > Len(iso[c].src))
           /\ iso' = [iso EXCEPT ![c][f] = Append(@, iso[c].src[i]), ![c].len = n]
           /\ UNCHANGED <<call, stage>>
  <2>1. Only(c)
    BY <1>1, <1>2, <1>7 DEF LinkTypeOK, Only
  <2>2. iso'[c] = [iso[c] EXCEPT ![f] = Append(@, iso[c].src[i]), !.len = n]
    BY <1>1, <1>7 DEF LinkTypeOK
  <2>3. iso'[c] \in IsoType /\ Copied(c)'
    <3>1. CASE pass = "hash"
      <4>1. f = "first"
        BY <3>1 DEF f, Buffer
      <4>2. Len(iso[c].first) + 1 <= Len(iso[c].src)
        BY <1>4, <1>7, <4>1
      <4>3. iso'[c] = [iso[c] EXCEPT !.first = Append(@, iso[c].src[Len(iso[c].first) + 1]), !.len = n]
        BY <2>2, <4>1
      <4> QED  BY <1>2, <1>4, <1>7, <3>1, <4>2, <4>3, HashBlock
    <3>2. CASE pass = "copy"
      <4>1. f = "copy"
        BY <3>2 DEF f, Buffer
      <4>2. Len(iso[c].copy) + 1 <= Len(iso[c].src)
        BY <1>4, <1>7, <4>1
      <4>3. iso'[c] = [iso[c] EXCEPT !.copy = Append(@, iso[c].src[Len(iso[c].copy) + 1]), !.len = n]
        BY <2>2, <4>1
      <4> QED  BY <1>2, <1>4, <1>7, <3>2, <4>2, <4>3, CopyBlock
    <3>3. CASE pass = "rehash"
      <4>1. f = "again"
        BY <3>3 DEF f, Buffer
      <4>2. Len(iso[c].again) + 1 <= Len(iso[c].src)
        BY <1>4, <1>7, <4>1
      <4>3. iso'[c] = [iso[c] EXCEPT !.again = Append(@, iso[c].src[Len(iso[c].again) + 1]), !.len = n]
        BY <2>2, <4>1
      <4> QED  BY <1>2, <1>4, <1>7, <3>3, <4>2, <4>3, RehashBlock
    <3> QED  BY <3>1, <3>2, <3>3 DEF Passes
  <2>4. Named(c)'
    BY <1>1, <1>7 DEF Named, Isolating
  <2>5. call' = [call EXCEPT ![c] = [call[c] EXCEPT !.pc = pass]]
    BY <1>1, <1>2, <1>7, SameCall
  <2> QED  BY <1>1, <1>2, <1>7, <2>1, <2>3, <2>4, <2>5, Isolates DEF Fits
<1>8. CASE /\ ~(i <= n) /\ ~(Len(iso[c].src) > n)
           /\ To(c, NextPass[pass])
           /\ stage' = IF pass = "hash" THEN [stage EXCEPT ![c].pub = File(PubIno)] ELSE stage
           /\ iso' = [iso EXCEPT ![c].len = n]
  <2>1. call' = [call EXCEPT ![c] = [call[c] EXCEPT !.pc = NextPass[pass]]] /\ NextPass[pass] \in {"copy", "rehash", "check"}
    BY <1>8 DEF To, Go, NextPass, Passes
  <2>2. call'[c].pc = NextPass[pass] /\ call'[c].result = call[c].result
    BY <1>1, <2>1 DEF LinkTypeOK, Fits, CallType
  <2>3. Only(c)
    BY <1>1, <1>2, <1>8, <2>1 DEF LinkTypeOK, Only
  <2>4. iso'[c] \in IsoType /\ Copied(c)'
    <3>1. iso'[c] = [iso[c] EXCEPT !.len = n]
      BY <1>1, <1>8 DEF LinkTypeOK
    <3> QED  BY <1>2, <1>4, <1>8, <2>2, <3>1, PassCopied DEF f
  <2>5. /\ stage'[c] \in StageType /\ stage'[c].tool = stage[c].tool /\ stage'[c].known = stage[c].known
        /\ stage'[c].pub = IF pass = "hash" THEN File(PubIno) ELSE stage[c].pub
    <3>1. CASE pass = "hash"
      <4>1. stage'[c] = [stage[c] EXCEPT !.pub = File(PubIno)] /\ stage[c] \in StageType
        BY <1>1, <1>8, <3>1 DEF LinkTypeOK
      <4>2. File(PubIno) \in NameType
        BY Inodes
      <4> QED  BY <3>1, <4>1, <4>2 DEF StageType
    <3>2. CASE pass # "hash"
      BY <1>1, <1>8, <3>2 DEF Fits
    <3> QED  BY <3>1, <3>2
  <2>6. Named(c)'
    <3>1. pass # "hash" => call'[c].pc \in {"rehash", "check"}
      BY <2>2 DEF NextPass, Passes
    <3>2. pass = "hash" => call'[c].pc = "copy"
      BY <2>2 DEF NextPass, Passes
    <3>3. pass \in {"hash", "copy", "rehash"}
      BY DEF Passes
    <3>4. CASE pass = "hash"
      BY <1>1, <1>2, <2>2, <2>5, <3>2, <3>4, Inodes DEF Named, Reported, Isolating, Passes, Capturing, BeforeIsolation
    <3>5. CASE pass # "hash"
      BY <1>1, <1>2, <2>2, <2>5, <3>1, <3>3, <3>5 DEF Named, Isolating, Passes, Capturing, BeforeIsolation
    <3> QED  BY <3>4, <3>5
  <2>7. (Alien(stage'[c].tool) <=> Alien(stage[c].tool)) /\ (Alien(stage'[c].pub) <=> Alien(stage[c].pub))
    BY <1>1, <1>2, <2>5, Inodes DEF Alien, Named
  <2>8. NextPass[pass] \in Passes \cup {"check", "remove", "verify", "rename"}
    BY <2>1 DEF Passes
  <2> QED  BY <1>2, <2>1, <2>3, <2>4, <2>5, <2>6, <2>7, <2>8, Isolates
<1> QED  BY <1>5, <1>6, <1>7, <1>8

(* Others write to the output, or put files under the stages' names. *)
LEMMA Rewritten ==
    ASSUME NEW d \in Seq(Nat), NEW first \in Seq(Nat), NEW m, NEW v \in Nat, NEW K, v \in K, NEW i \in 1..Len(d),
           \A j \in 1..Len(first) : first[j] # v, AgreesAt(d, first, m), \A j \in 1..Len(d) : d[j] \in K
    PROVE  LET e == [d EXCEPT ![i] = v]
           IN  e \in Seq(Nat) /\ AgreesAt(e, first, m) /\ \A j \in 1..Len(e) : e[j] \in K
<1> DEFINE e == [d EXCEPT ![i] = v]
<1>1. e \in Seq(Nat) /\ Len(e) = Len(d) /\ \A j \in 1..Len(d) : e[j] = IF j = i THEN v ELSE d[j]
  OBVIOUS
<1>2. Len(d) \in Nat /\ Len(first) \in Nat
  OBVIOUS
<1> HIDE DEF e
<1>3. AgreesAt(e, first, m)
  <2> SUFFICES ASSUME NEW j \in 1..Len(first), j <= Len(d), e[j] = first[j] PROVE j <= Len(m) /\ m[j] = first[j]
    BY <1>1 DEF AgreesAt
  <2>1. j # i /\ d[j] = first[j]
    BY <1>1, <1>2, SMTT(30)
  <2> QED  BY <2>1 DEF AgreesAt
<1>4. \A j \in 1..Len(e) : e[j] \in K
  BY <1>1
<1> QED  BY <1>1, <1>3, <1>4 DEF e

LEMMA Extended ==
    ASSUME NEW d \in Seq(Nat), NEW first \in Seq(Nat), NEW m, NEW v \in Nat, NEW K, v \in K,
           \A j \in 1..Len(first) : first[j] # v, AgreesAt(d, first, m), \A j \in 1..Len(d) : d[j] \in K
    PROVE  LET e == Append(d, v)
           IN  e \in Seq(Nat) /\ AgreesAt(e, first, m) /\ \A j \in 1..Len(e) : e[j] \in K
<1> DEFINE e == Append(d, v)
<1>1. e \in Seq(Nat) /\ Len(e) = Len(d) + 1 /\ \A j \in 1..(Len(d) + 1) : e[j] = IF j = Len(d) + 1 THEN v ELSE d[j]
  BY Appended
<1>2. Len(d) \in Nat /\ Len(first) \in Nat
  OBVIOUS
<1> HIDE DEF e
<1>3. AgreesAt(e, first, m)
  <2> SUFFICES ASSUME NEW j \in 1..Len(first), j <= Len(d) + 1, e[j] = first[j] PROVE j <= Len(m) /\ m[j] = first[j]
    BY <1>1 DEF AgreesAt
  <2>1. j # Len(d) + 1
    BY <1>1, <1>2
  <2>2. j \in 1..(Len(d) + 1) /\ j <= Len(d)
    BY <1>2, <2>1
  <2>3. e[j] = d[j]
    BY <1>1, <2>1, <2>2
  <2> QED  BY <2>2, <2>3 DEF AgreesAt
<1>4. \A j \in 1..Len(e) : e[j] \in K
  <2> SUFFICES ASSUME NEW j \in 1..(Len(d) + 1) PROVE e[j] \in K
    BY <1>1
  <2>1. CASE j = Len(d) + 1
    BY <1>1, <2>1
  <2>2. CASE j # Len(d) + 1
    <3>1. j \in 1..Len(d)
      BY <1>2, <2>2
    <3> QED  BY <1>1, <2>2, <3>1
  <2> QED  BY <2>1, <2>2
<1> QED  BY <1>1, <1>3, <1>4 DEF e

LEMMA Cut ==
    ASSUME NEW d \in Seq(Nat), NEW first \in Seq(Nat), NEW m, NEW K, d # <<>>,
           AgreesAt(d, first, m), \A j \in 1..Len(d) : d[j] \in K
    PROVE  LET e == SubSeq(d, 1, Len(d) - 1)
           IN  e \in Seq(Nat) /\ AgreesAt(e, first, m) /\ \A j \in 1..Len(e) : e[j] \in K
<1> DEFINE e == SubSeq(d, 1, Len(d) - 1)
<1>1. Len(d) \in Nat /\ Len(d) >= 1 /\ Len(first) \in Nat
  OBVIOUS
<1>2. e \in Seq(Nat) /\ Len(e) = Len(d) - 1 /\ \A j \in 1..(Len(d) - 1) : e[j] = d[j]
  <2> DEFINE n == Len(d) - 1
  <2>1. n \in Int /\ n >= 0 /\ n - 1 + 1 = n /\ (\A j \in 1..n : 1 + j - 1 = j)
    BY <1>1
  <2>2. \A j \in 1..n : d[j] \in Nat
    BY <1>1
  <2> HIDE DEF n
  <2>3. /\ SubSeq(d, 1, n) \in Seq(Nat) /\ Len(SubSeq(d, 1, n)) = IF 1 <= n THEN n - 1 + 1 ELSE 0
        /\ \A j \in 1..(n - 1 + 1) : SubSeq(d, 1, n)[j] = d[1 + j - 1]
    BY <2>1, <2>2, SubSeqProperties
  <2>4. Len(SubSeq(d, 1, n)) = n /\ \A j \in 1..n : SubSeq(d, 1, n)[j] = d[j]
    BY <2>1, <2>3
  <2> QED  BY <2>3, <2>4 DEF n
<1> HIDE DEF e
<1>3. AgreesAt(e, first, m)
  <2> SUFFICES ASSUME NEW j \in 1..Len(first), j <= Len(d) - 1, e[j] = first[j] PROVE j <= Len(m) /\ m[j] = first[j]
    BY <1>2 DEF AgreesAt
  <2>1. j <= Len(d) /\ d[j] = first[j]
    BY <1>1, <1>2
  <2> QED  BY <2>1 DEF AgreesAt
<1>4. \A j \in 1..Len(e) : e[j] \in K
  <2> SUFFICES ASSUME NEW j \in 1..(Len(d) - 1) PROVE e[j] \in K
    BY <1>2
  <2>1. j \in 1..Len(d)
    BY <1>1
  <2> QED  BY <1>2, <2>1
<1> QED  BY <1>2, <1>3, <1>4 DEF e

LEMMA Strayed ==
    ASSUME NEW d \in Seq(Nat), NEW first \in Seq(Nat), NEW m, NEW v \in Nat, NEW K, v \in K,
           \A i \in 1..Len(first) : first[i] # v, AgreesAt(d, first, m), \A i \in 1..Len(d) : d[i] \in K,
           NEW e \in {[d EXCEPT ![i] = v] : i \in DOMAIN d} \cup {Append(d, v)}
                     \cup (IF d = <<>> THEN {} ELSE {SubSeq(d, 1, Len(d) - 1)})
    PROVE  e \in Seq(Nat) /\ AgreesAt(e, first, m) /\ \A i \in 1..Len(e) : e[i] \in K
<1>1. CASE \E i \in 1..Len(d) : e = [d EXCEPT ![i] = v]
  <2>1. PICK i \in 1..Len(d) : e = [d EXCEPT ![i] = v]
    BY <1>1
  <2> QED  BY <2>1, Rewritten
<1>2. CASE e = Append(d, v)
  BY <1>2, Extended
<1>3. CASE d # <<>> /\ e = SubSeq(d, 1, Len(d) - 1)
  BY <1>3, Cut
<1>4. DOMAIN d = 1..Len(d)
  OBVIOUS
<1> QED  BY <1>1, <1>2, <1>3, <1>4

LEMMA StrayWritesSafe == ASSUME LinkInv, NEW c \in Calls, StrayWrites(c) PROVE LinkInv'
<1> USE Names
<1> DEFINE d == iso[c].src
           v == 2 + budget.writes
           first == iso[c].first
<1>1. Captured(c) /\ Reported(c) /\ Named(c) /\ Copied(c) /\ LinkTypeOK /\ Fits(c)
  BY Fit DEF LinkInv
<1>2. /\ Isolating(c) /\ Isolated(c) /\ budget.writes > 0 /\ budget' = [budget EXCEPT !.writes = @ - 1]
      /\ UNCHANGED <<lease, call, child, pipe, stage, exe>>
  BY DEF StrayWrites, Isolating, Isolated, Passes
<1>3. PICK e \in {[d EXCEPT ![i] = v] : i \in DOMAIN d} \cup {Append(d, v)}
                 \cup (IF d = <<>> THEN {} ELSE {SubSeq(d, 1, Len(d) - 1)}) :
             iso' = [iso EXCEPT ![c].src = e] /\ contents' = [contents EXCEPT ![c] = @ \cup {e}]
  BY DEF StrayWrites
<1>4. /\ budget.writes \in 1..MaxWrites /\ budget'.writes = budget.writes - 1 /\ budget'.foreign = budget.foreign
      /\ budget' \in [writes : 0..MaxWrites, foreign : 0..Foreign] /\ v \in Nat
  <2>1. budget \in [writes : 0..MaxWrites, foreign : 0..Foreign]
    BY <1>1 DEF LinkTypeOK
  <2>2. budget.writes \in 0..MaxWrites /\ budget.writes - 1 \in 0..MaxWrites /\ budget.foreign \in 0..Foreign
    BY <1>2, <2>1
  <2> QED  BY <1>2, <2>1, <2>2
<1>5. d \in Seq(Nat) /\ first \in Seq(Nat) /\ iso[c] \in IsoType /\ contents[c] \in SUBSET Seq(Nat)
  BY <1>1 DEF Fits, IsoType
<1> DEFINE Later == {x \in Nat : x <= 2 \/ x > 2 + budget'.writes}
<1>6. v \in Later /\ \A x \in Nat : Kept(x) => x \in Later /\ x # v
  <2> DEFINE w == budget.writes
  <2>1. w \in Nat /\ w >= 1 /\ budget'.writes = w - 1
    BY <1>4
  <2> HIDE DEF w
  <2>2. 2 + w > 2 + (w - 1) /\ \A x \in Nat : x <= 2 \/ x > 2 + w => (x <= 2 \/ x > 2 + (w - 1)) /\ x # 2 + w
    BY <2>1
  <2> QED  BY <1>4, <2>1, <2>2 DEF Kept, w
<1>7. AllKept(d) /\ AllKept(first)
  BY <1>1 DEF Copied
<1> HIDE DEF Later
<1>8. \A i \in 1..Len(d) : d[i] \in Later
  <2> SUFFICES ASSUME NEW i \in 1..Len(d) PROVE d[i] \in Later
    OBVIOUS
  <2> HIDE DEF d, first, v
  <2> QED  BY <1>5, <1>6, <1>7, Block
<1>9. \A i \in 1..Len(first) : first[i] \in Later /\ first[i] # v
  <2> SUFFICES ASSUME NEW i \in 1..Len(first) PROVE first[i] \in Later /\ first[i] # v
    OBVIOUS
  <2> HIDE DEF d, first, v
  <2> QED  BY <1>5, <1>6, <1>7, Block
<1>10. e \in Seq(Nat) /\ \A i \in 1..Len(e) : e[i] \in Later
  <2>1. AgreesAt(d, first, d)
    BY DEF AgreesAt
  <2> HIDE DEF d, first, v
  <2> QED  BY <1>3, <1>4, <1>5, <1>6, <1>8, <1>9, <2>1, Strayed
<1>11. \A m \in Seq(Nat) : AgreesAt(d, first, m) => AgreesAt(e, first, m)
  <2> SUFFICES ASSUME NEW m \in Seq(Nat), AgreesAt(d, first, m) PROVE AgreesAt(e, first, m)
    OBVIOUS
  <2>1. \A i \in 1..Len(first) : first[i] # v
    BY <1>9
  <2> HIDE DEF d, first, v
  <2>2. \A i \in 1..Len(d) : d[i] \in Nat
    BY <1>5
  <2> QED  BY <1>3, <1>4, <1>5, <2>1, <2>2, Strayed
<1>12. /\ iso'[c] \in IsoType /\ iso'[c].src = e /\ iso'[c].first = first /\ iso'[c].copy = iso[c].copy
       /\ contents'[c] = contents[c] \cup {e} /\ contents'[c] \in SUBSET Seq(Nat)
  <2>1. iso'[c] = [iso[c] EXCEPT !.src = e] /\ contents'[c] = contents[c] \cup {e}
    BY <1>1, <1>3 DEF LinkTypeOK
  <2> QED  BY <1>5, <1>10, <2>1 DEF IsoType
<1>13. Only(c)
  BY <1>1, <1>2, <1>3 DEF LinkTypeOK, Only
<1>14. Fits(c)'
  BY <1>1, <1>2, <1>12 DEF Fits
<1>15. LinkTypeOK'
  BY <1>1, <1>2, <1>4, <1>13, <1>14, Typed DEF LinkTypeOK
<1>16. Captured(c)' /\ Reported(c)' /\ Named(c)'
  BY <1>1, <1>2 DEF Captured, Reported, Clean, AllTaken, Isolated, Named, Isolating
<1>17. Copied(c)'
  <2>1. AllKept(iso[c].src)' /\ AllKept(iso[c].first)'
    BY <1>9, <1>10, <1>12 DEF AllKept, Kept, Later
  <2>2. \A m \in contents[c] : Moment(c, m) => Moment(c, m)'
    BY <1>5, <1>11, <1>12 DEF Moment
  <2>3. call[c].pc \in {"copy", "rehash", "check"} => \E m \in contents'[c] : Moment(c, m)'
    BY <1>1, <1>12, <2>2 DEF Copied
  <2>4. iso'[c].src \in contents'[c] /\ (iso[c].copy \in contents[c] => iso'[c].copy \in contents'[c])
        /\ (exe.data \in contents[c] => exe.data \in contents'[c])
    BY <1>12
  <2> QED  BY <1>1, <1>2, <1>12, <2>1, <2>3, <2>4 DEF Copied, Isolating, Passes, Capturing, BeforeIsolation
<1>18. Mild(c)
  BY <1>1, <1>2, <1>4 DEF Mild, LinkTypeOK
<1>19. ForeignKept'
  BY <1>2, <1>4, <1>13, SameAliens DEF LinkInv, ForeignKept
<1> QED  BY <1>13, <1>15, <1>16, <1>17, <1>18, <1>19, Alone

(* One name more is theirs. *)
LEMMA OneMore ==
    ASSUME LinkInv, NEW c \in Calls, Only(c), NEW f \in {"tool", "pub"}, NEW g \in {"tool", "pub"}, f # g,
           ~Alien(stage[c][f]), Alien(stage'[c][f]), stage'[c][g] = stage[c][g],
           budget'.foreign = budget.foreign - 1, budget.foreign \in Nat, exe' = exe
    PROVE  ForeignKept'
<1> DEFINE A == {x \in Calls \X {"tool", "pub"} : stage[x[1]][x[2]].kind = "file" /\ stage[x[1]][x[2]].ino = ForeignIno}
<1>1. \A d \in Calls : d # c => stage'[d] = stage[d]
  BY DEF Only, LinkInv, LinkTypeOK
<1>2. \A x \in Calls \X {"tool", "pub"} : x # <<c, f>> => stage'[x[1]][x[2]] = stage[x[1]][x[2]]
  BY <1>1
<1>3. A' = A \cup {<<c, f>>} /\ <<c, f>> \notin A
  BY <1>2 DEF Alien
<1>4. IsFiniteSet(A) 
  <2>1. IsFiniteSet({"tool", "pub"})
    <3>1. IsFiniteSet({"tool"})
      BY FS_Singleton
    <3>2. {"tool", "pub"} = {"tool"} \cup {"pub"}
      OBVIOUS
    <3> QED  BY <3>1, <3>2, FS_AddElement
  <2>2. IsFiniteSet(Calls \X {"tool", "pub"})
    BY Names, <2>1, FS_Product
  <2> QED  BY <2>2, FS_Subset
<1>5. Cardinality(A') = Cardinality(A) + 1 /\ Cardinality(A) \in Nat
  <2> HIDE DEF A
  <2>1. Cardinality(A \cup {<<c, f>>}) = Cardinality(A) + 1
    BY <1>3, <1>4, FS_AddElement
  <2> QED  BY <1>3, <1>4, <2>1, FS_CardinalityType
<1>6. ForeignKept
  BY DEF LinkInv
<1>7. /\ exe.by # "foreign" /\ Foreign - budget.foreign = Cardinality(A)
      /\ (ForeignKept' <=> exe'.by # "foreign" /\ Foreign - budget'.foreign = Cardinality(A'))
  BY <1>6, Zenon DEF ForeignKept
<1> HIDE DEF A
<1> QED  BY <1>5, <1>7, Names

LEMMA ForeignFileSafe == ASSUME LinkInv, NEW c \in Calls, ForeignFile(c) PROVE LinkInv'
<1> USE Names
<1>1. Captured(c) /\ Reported(c) /\ Named(c) /\ Copied(c) /\ LinkTypeOK /\ Fits(c)
  BY Fit DEF LinkInv
<1>2. /\ Isolating(c) \/ call[c].pc = "verify"
      /\ budget.foreign > 0 /\ budget' = [budget EXCEPT !.foreign = @ - 1]
      /\ UNCHANGED <<lease, call, child, pipe, iso, exe, contents>>
  BY DEF ForeignFile, CallAt
<1>3. /\ budget.foreign \in 1..Foreign /\ budget'.foreign = budget.foreign - 1 /\ budget'.writes = budget.writes
      /\ budget' \in [writes : 0..MaxWrites, foreign : 0..Foreign] /\ budget.writes \in Nat
  BY <1>1, <1>2 DEF LinkTypeOK
<1>4. call[c].pc \in Passes \cup {"check", "remove", "verify"} /\ call[c].result = None
  BY <1>1, <1>2 DEF Isolating, Reported, Passes
<1>5. stage[c].known \in Nat /\ stage[c].known # ForeignIno /\ File(ForeignIno) \in NameType /\ stage[c] \in StageType
  BY <1>1, Inodes DEF Named, Ours, Fits
<1>6. ASSUME Only(c), stage'[c] \in StageType, Named(c)', ForeignKept' PROVE LinkInv'
  <2>1. Fits(c)'
    BY <1>1, <1>2, <1>6 DEF Fits
  <2>2. LinkTypeOK'
    BY <1>1, <1>2, <1>3, <1>6, <2>1, Typed DEF LinkTypeOK
  <2>3. Captured(c)' /\ Reported(c)'
    BY <1>1, <1>2 DEF Captured, Reported, Clean, AllTaken, Isolated
  <2>4. Copied(c)'
    BY <1>1, <1>2, <1>3 DEF Copied, AllKept, Kept, Isolating, Moment
  <2>5. Mild(c)
    BY <1>1, <1>2, <1>3 DEF Mild, LinkTypeOK
  <2> QED  BY <1>6, <2>2, <2>3, <2>4, <2>5, Alone
<1>7. CASE stage[c].tool = File(stage[c].known) /\ stage' = [stage EXCEPT ![c].tool = File(ForeignIno)]
  <2>1. stage'[c] = [stage[c] EXCEPT !.tool = File(ForeignIno)] /\ Only(c)
    BY <1>1, <1>2, <1>7 DEF LinkTypeOK, Only
  <2>2. /\ stage'[c] \in StageType /\ stage'[c].tool = File(ForeignIno) /\ stage'[c].pub = stage[c].pub
        /\ stage'[c].known = stage[c].known
    BY <1>5, <2>1 DEF StageType
  <2>3. ~Alien(stage[c].tool) /\ Alien(stage'[c].tool)
    BY <1>5, <1>7, <2>2, Inodes DEF Alien
  <2>4. Named(c)'
    <3>1. stage[c].tool # NoFile
      BY <1>5, <1>7, Inodes
    <3> QED  BY <1>1, <1>2, <1>4, <2>2, <3>1, Inodes DEF Named, Isolating, Passes, Capturing, BeforeIsolation
  <2>5. ForeignKept'
    <3>1. budget.foreign \in Nat /\ "tool" \in {"tool", "pub"} /\ "pub" \in {"tool", "pub"} /\ "tool" # "pub"
      BY <1>3
    <3>2. ~Alien(stage[c]["tool"]) /\ Alien(stage'[c]["tool"]) /\ stage'[c]["pub"] = stage[c]["pub"]
      BY <2>2, <2>3
    <3> QED  BY <1>2, <1>3, <2>1, <3>1, <3>2, OneMore
  <2> QED  BY <1>6, <2>1, <2>2, <2>4, <2>5
<1>8. CASE stage[c].pub = File(PubIno) /\ stage' = [stage EXCEPT ![c].pub = File(ForeignIno)]
  <2>1. stage'[c] = [stage[c] EXCEPT !.pub = File(ForeignIno)] /\ Only(c)
    BY <1>1, <1>2, <1>8 DEF LinkTypeOK, Only
  <2>2. /\ stage'[c] \in StageType /\ stage'[c].pub = File(ForeignIno) /\ stage'[c].tool = stage[c].tool
        /\ stage'[c].known = stage[c].known
    BY <1>5, <2>1 DEF StageType
  <2>3. ~Alien(stage[c].pub) /\ Alien(stage'[c].pub)
    BY <1>8, <2>2, Inodes DEF Alien
  <2>4. Named(c)'
    <3>1. stage[c].pub # NoFile
      BY <1>8, Inodes
    <3> QED  BY <1>1, <1>2, <1>4, <2>2, <3>1, Inodes DEF Named, Isolating, Passes, Capturing, BeforeIsolation
  <2>5. ForeignKept'
    <3>1. budget.foreign \in Nat /\ "tool" \in {"tool", "pub"} /\ "pub" \in {"tool", "pub"} /\ "tool" # "pub"
      BY <1>3
    <3>2. ~Alien(stage[c]["pub"]) /\ Alien(stage'[c]["pub"]) /\ stage'[c]["tool"] = stage[c]["tool"]
      BY <2>2, <2>3
    <3> QED  BY <1>2, <1>3, <2>1, <3>1, <3>2, OneMore
  <2> QED  BY <1>6, <2>1, <2>2, <2>4, <2>5
<1> QED  BY <1>7, <1>8 DEF ForeignFile

-----------------------------------------------------------------------------
(***************************************************************************)
(* The invariant of the link, and what it shows.                           *)
(***************************************************************************)
LEMMA LinkStarts == LinkInit => LinkInv
<1> SUFFICES ASSUME LinkInit PROVE LinkInv
  OBVIOUS
<1> USE Names
<1>1. LinkTypeOK
  <2>1. Idle \in CallType
    BY DEF Idle, CallType
  <2>2. [st |-> None, code |-> None, wrote |-> FALSE] \in ChildType
    BY DEF ChildType
  <2>3. NewPipe \in PipeType /\ NewPipe.out <= NewPipe.put
    BY DEF NewPipe, PipeType
  <2>4. [tool |-> NoFile, pub |-> NoFile, known |-> 0] \in StageType
    BY Inodes DEF StageType
  <2>5. [src |-> <<>>, len |-> 0, first |-> <<>>, copy |-> <<>>, again |-> <<>>] \in IsoType /\ <<>> \in Seq(Nat)
    BY DEF IsoType
  <2>6. call \in [Calls -> CallType] /\ child \in [Calls -> ChildType] /\ lease \in Calls \cup {None}
    BY <2>1, <2>2 DEF LinkInit
  <2>7. pipe \in [Calls -> [Streams -> PipeType]] /\ \A c \in Calls, s \in Streams : pipe[c][s].out <= pipe[c][s].put
    BY <2>3 DEF LinkInit
  <2>8. stage \in [Calls -> StageType] /\ iso \in [Calls -> IsoType] /\ contents \in [Calls -> SUBSET Seq(Nat)]
    BY <2>4, <2>5 DEF LinkInit
  <2>9. exe \in [by : Calls \cup {None, "foreign"}, data : Seq(Nat)] /\ budget \in [writes : 0..MaxWrites, foreign : 0..Foreign]
    BY <2>5 DEF LinkInit
  <2> QED  BY <2>6, <2>7, <2>8, <2>9 DEF LinkTypeOK
<1>2. ASSUME NEW c \in Calls PROVE Captured(c) /\ Reported(c) /\ Named(c) /\ Copied(c)
  <2>1. /\ call[c].pc = "idle" /\ ~call[c].err /\ ~call[c].panic /\ ~call[c].stop /\ ~call[c].pump
        /\ call[c].result = None /\ child[c].st = None
    BY DEF LinkInit, Idle
  <2>2. stage[c].tool = NoFile /\ stage[c].pub = NoFile /\ stage[c].known = 0
    BY DEF LinkInit
  <2>3. iso[c].src = <<>> /\ iso[c].first = <<>> /\ iso[c].copy = <<>> /\ exe.by = None
    BY DEF LinkInit
  <2>4. Captured(c)
    BY <2>1 DEF LinkInit, Captured, Capturing
  <2>5. Reported(c)
    BY <2>1 DEF Reported, Clean, Isolated, Passes
  <2>6. Named(c)
    BY <2>1, <2>2, Inodes DEF Named, Isolating, Passes, Ours
  <2>7. Copied(c)
    BY <2>1, <2>3 DEF Copied, AllKept, Isolating, Passes
  <2> QED  BY <2>4, <2>5, <2>6, <2>7
<1>3. ForeignKept
  <2> DEFINE A == {x \in Calls \X {"tool", "pub"} : stage[x[1]][x[2]].kind = "file" /\ stage[x[1]][x[2]].ino = ForeignIno}
  <2>1. \A c \in Calls : stage[c].tool.kind = "gone" /\ stage[c].pub.kind = "gone"
    BY Inodes DEF LinkInit
  <2>2. A = {}
    BY <2>1
  <2>3. Cardinality(A) = 0
    BY <2>2, FS_EmptySet
  <2>4. exe.by = None /\ budget.foreign = Foreign
    BY DEF LinkInit
  <2> QED  BY <2>3, <2>4 DEF ForeignKept
<1> QED  BY <1>1, <1>2, <1>3 DEF LinkInv

LEMMA LinkStays == LinkInv /\ [LinkNext]_linkVars => LinkInv'
<1> SUFFICES ASSUME LinkInv, [LinkNext]_linkVars PROVE LinkInv'
  OBVIOUS
<1>1. CASE UNCHANGED linkVars
  <2>1. LinkTypeOK' /\ ForeignKept'
    BY <1>1 DEF linkVars, LinkInv, LinkTypeOK, ForeignKept
  <2>2. ASSUME NEW c \in Calls PROVE Captured(c)' /\ Reported(c)' /\ Named(c)'
    BY <1>1 DEF linkVars, LinkInv, Captured, Reported, Named, Clean, AllTaken, Isolated, Isolating
  <2>3. ASSUME NEW c \in Calls PROVE Copied(c)'
    BY <1>1 DEF linkVars, LinkInv, Copied, Isolating, AllKept, Kept, Moment
  <2> QED  BY <2>1, <2>2, <2>3 DEF LinkInv
<1>2. ASSUME NEW c \in Calls, CallerStep(c) PROVE LinkInv'
  <2>1. CASE Refused(c) \/ Acquire(c) \/ SpawnFails(c) \/ Spawn(c)
    BY <2>1, RefusedSafe, AcquireSafe, SpawnFailsSafe, SpawnSafe
  <2>2. CASE StopAsked(c) \/ StopPanics(c) \/ CheckFails(c) \/ Observe(c) \/ PollFails(c) \/ Service(c)
    BY <2>2, StopAskedSafe, StopPanicsSafe, CheckFailsSafe, ObserveSafe, PollFailsSafe, ServiceSafe
  <2>3. CASE (\E s \in Streams : ReadFails(c, s)) \/ Drain(c) \/ Grace(c) \/ Kill(c) \/ Reap(c)
    BY <2>3, ReadFailsSafe, DrainSafe, GraceSafe, KillSafe, ReapSafe
  <2>4. CASE Unwind(c) \/ Follow(c) \/ Discard(c) \/ Reclaim(c)
    BY <2>4, UnwindSafe, FollowSafe, DiscardSafe, ReclaimSafe
  <2>5. CASE (\E pass \in Passes : ReadBlock(c, pass)) \/ Compare(c) \/ RemoveTool(c) \/ VerifyPub(c) \/ Rename(c)
    BY <2>5, ReadBlockSafe, CompareSafe, RemoveToolSafe, VerifyPubSafe, RenameSafe
  <2> QED  BY <1>2, <2>1, <2>2, <2>3, <2>4, <2>5 DEF CallerStep
<1>3. ASSUME NEW c \in Calls,
             ToolWrites(c) \/ (\E s \in Streams : ToolPrints(c, s)) \/ ToolExits(c) \/ StrayWrites(c) \/ ForeignFile(c)
      PROVE  LinkInv'
  BY <1>3, ToolWritesSafe, ToolPrintsSafe, ToolExitsSafe, StrayWritesSafe, ForeignFileSafe
<1> QED  BY <1>1, <1>2, <1>3 DEF LinkNext, AllReturned

(* For any number of calls, streams, chunks, stray writes and foreign      *)
(* files LinkInv is inductive: the lease, the tool and the pump of each    *)
(* call keep step, its names stand for its own files, and its readings     *)
(* agree with one moment of the output (watch_link.rs).                    *)
THEOREM LinkInvariant == LinkSpec => []LinkInv
<1> QED  BY LinkStarts, LinkStays, PTL DEF LinkSpec

(* LinkRight: a tool is captured under the lease and reaped before its     *)
(* call goes on, the executable changes only after a success and to what   *)
(* the output was at one moment, and no stage of the call is left while    *)
(* the files of others are (link_captured, isolate_and_publish).           *)
THEOREM LinkIsRight == LinkSpec => []LinkRight
<1>1. ASSUME LinkInv PROVE LinkRight
  <2>1. LinkTypeOK /\ ForeignKept
    BY <1>1 DEF LinkInv
  <2>2. \A c \in Calls : Captured(c) /\ Reported(c) /\ Named(c) /\ Copied(c)
    BY <1>1 DEF LinkInv
  <2>3. ChildIsLeased
    <3> SUFFICES ASSUME NEW c \in Calls
                 PROVE  /\ child[c].st \in {"run", "dying", "zombie"} => lease = c
                        /\ call[c].pc \notin Capturing => child[c].st \in {None, "reaped"}
                        /\ call[c].pc \in {"grace", "kill"} => child[c].st # "reaped"
      BY DEF ChildIsLeased
    <3> QED  BY <2>2, Names DEF Captured
  <2>4. OnlyOnSuccess
    BY <2>2 DEF OnlyOnSuccess, Reported, Clean, AllTaken
  <2>5. PublishedIsSnapshot
    BY <2>2 DEF PublishedIsSnapshot, Copied
  <2>6. StagesCleaned
    BY <2>2 DEF StagesCleaned, Named
  <2> QED  BY <2>1, <2>3, <2>4, <2>5, <2>6 DEF LinkRight
<1> QED  BY <1>1, LinkInvariant, PTL
=============================================================================
