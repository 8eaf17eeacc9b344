--------------------------- MODULE ForkJoinProofs ---------------------------
(***************************************************************************)
(* More about TaskGroup for every finite pool and every bound: its helper  *)
(* jobs are counted and never missing, owned results are dropped in spawn  *)
(* order after their tasks, and the scheduler implements ForkJoin.  The    *)
(* proofs start from the inductive invariant of TaskGroupProofs.           *)
(***************************************************************************)
EXTENDS TaskGroupProofs, FunctionTheorems

(* x names the lowest member of S, or is Null. *)
IsLowest(x, S) ==
    \/ x = Null /\ S = {}
    \/ x \in S /\ \A j \in S : x <= j

(* The members of S whose task ended so. *)
Ended(g, S, kind) == {i \in S : outcome[g][i] = kind}

(* A batch is executed in spawn order, and keeps its lowest failures. *)
BatchFailures ==
    \A t \in Threads :
        /\ \A k \in 1..Len(batch[t]) :
              /\ \A j \in 1..(k - 1) : batch[t][j] < batch[t][k]
              /\ \A i \in claimed[t] : outcome[run[t]][i] # Unrun => i < batch[t][k]
        /\ IsLowest(lerror[t], Ended(run[t], claimed[t], "err"))
        /\ IsLowest(lpanic[t], Ended(run[t], claimed[t], "panic"))

(* Until its join, a generation keeps the lowest published failures. *)
Merged ==
    \A g \in Gens : answer[g] = NoAnswer =>
        /\ IsLowest(error[g], Ended(g, Done(g), "err"))
        /\ IsLowest(panic[g], Ended(g, Done(g), "panic"))

Failures == BatchFailures /\ Merged

(* Generations are opened by a task, one at a time. *)
Generations ==
    /\ generation # NoGen => generation = gens
    /\ \A g \in Gens : g <= gens => registered[g] > 0

(* Spawn order of two cleanup records. *)
Before(a, b) == a[1] < b[1] \/ (a[1] = b[1] /\ a[2] < b[2])

Ordered(s) == \A k \in 1..Len(s) : \A j \in 1..(k - 1) : Before(s[j], s[k])

(* The group's cleanup records are registered tasks in spawn order. *)
Records ==
    /\ Ordered(result_cleanup)
    /\ \A k \in 1..Len(result_cleanup) :
          result_cleanup[k][2] < registered[result_cleanup[k][1]]

Groups == Generations /\ Records /\ DropsFollowRuns

-----------------------------------------------------------------------------
(* Helper jobs *)

(* The helper jobs of g in a queue, and those running on a worker. *)
Jobs(q, g) == {k \in 1..Len(q) : q[k] = g}

OnWorkers(g) == {w \in Workers : pc[w] \in {"claim", "exec"} /\ run[w] = g}

(* Both sets are finite. *)
LEMMA JobsFinite ==
    ASSUME NEW q \in Seq(Gens), NEW g
    PROVE  IsFiniteSet(Jobs(q, g)) /\ Cardinality(Jobs(q, g)) \in Nat
<1>1. Len(q) \in Nat
  OBVIOUS
<1>2. IsFiniteSet(1..Len(q))
  BY <1>1, FS_Interval
<1>3. Jobs(q, g) \in SUBSET (1..Len(q))
  BY DEF Jobs
<1> QED BY ONLY <1>2, <1>3, FS_Subset, FS_CardinalityType

(* A worker more, or a worker less, in a set of workers. *)
LEMMA WorkersFinite ==
    ASSUME NEW S \in SUBSET Workers
    PROVE  IsFiniteSet(S) /\ Cardinality(S) \in Nat
  BY TaskGroupAssumption, FS_Subset, FS_CardinalityType

(* A job appended is one job more for its generation. *)
LEMMA JobsAppend ==
    ASSUME NEW q \in Seq(Gens), NEW x \in Gens, NEW g
    PROVE  Cardinality(Jobs(Append(q, x), g))
             = Cardinality(Jobs(q, g)) + (IF x = g THEN 1 ELSE 0)
<1> DEFINE n == Len(q) + 1
<1>1. /\ Len(q) \in Nat /\ Len(Append(q, x)) = n
      /\ \A k \in 1..Len(q) : Append(q, x)[k] = q[k]
      /\ Append(q, x)[n] = x
  BY AppendProperties
<1>2. n \notin Jobs(q, g)
  BY <1>1 DEF Jobs
<1>3. CASE x = g
  <2>1. Jobs(Append(q, x), g) = Jobs(q, g) \cup {n}
    BY <1>1, <1>3 DEF Jobs
  <2> QED BY ONLY <1>2, <1>3, <2>1, JobsFinite, FS_AddElement, q \in Seq(Gens)
<1>4. CASE x # g
  <2>1. Jobs(Append(q, x), g) = Jobs(q, g)
    BY <1>1, <1>4 DEF Jobs
  <2> QED BY ONLY <1>4, <2>1, JobsFinite, q \in Seq(Gens)
<1> QED BY <1>3, <1>4

(* A job taken is one job less for its generation. *)
LEMMA JobsTail ==
    ASSUME NEW q \in Seq(Gens), q # <<>>, NEW g
    PROVE  Cardinality(Jobs(q, g))
             = Cardinality(Jobs(Tail(q), g)) + (IF Head(q) = g THEN 1 ELSE 0)
<1> DEFINE J == Jobs(q, g) \ {1}
           T == Jobs(Tail(q), g)
           f == [k \in T |-> k + 1]
<1>1. /\ Len(q) \in Nat \ {0} /\ Tail(q) \in Seq(Gens) /\ Len(Tail(q)) = Len(q) - 1
      /\ \A k \in 1..Len(Tail(q)) : Tail(q)[k] = q[k + 1]
      /\ Head(q) = q[1]
  BY HeadTailProperties
<1>2. \A k \in T : k \in Nat /\ k + 1 \in J
  BY <1>1 DEF Jobs
<1>3. \A k \in J : k - 1 \in T /\ k - 1 + 1 = k
  BY <1>1 DEF Jobs
<1>4. f \in Bijection(T, J)
  <2>1. f \in [T -> J]
    BY <1>2
  <2>2. \A a, b \in T : f[a] = f[b] => a = b
    BY <1>2
  <2>3. \A k \in J : \E a \in T : f[a] = k
    BY <1>3
  <2> HIDE DEF f, J, T
  <2> QED BY <2>1, <2>2, <2>3, Fun_IsBij
<1>5. Cardinality(J) = Cardinality(T)
  <2>1. ExistsBijection(T, J)
    BY <1>4 DEF ExistsBijection
  <2>2. IsFiniteSet(T)
    BY <1>1, JobsFinite
  <2> HIDE DEF J, T
  <2> QED BY <2>1, <2>2, FS_Bijection
<1>6. /\ IsFiniteSet(Jobs(q, g)) /\ Cardinality(Jobs(q, g)) \in Nat
      /\ 1 \in Jobs(q, g) <=> Head(q) = g
  <2>1. 1 \in Jobs(q, g) <=> Head(q) = g
    BY <1>1 DEF Jobs
  <2> QED BY ONLY <2>1, JobsFinite, q \in Seq(Gens)
<1>7. Cardinality(J) = IF 1 \in Jobs(q, g) THEN Cardinality(Jobs(q, g)) - 1
                                           ELSE Cardinality(Jobs(q, g))
  BY ONLY <1>6, FS_RemoveElement
<1> QED BY ONLY <1>5, <1>6, <1>7

(* The helper count and its jobs, in the words of the lemmas. *)
Accounted(g) ==
    helpers[g] = Cardinality(Jobs(queue, g)) + Cardinality(OnWorkers(g))
                   + (IF pc[Caller] = "submit" /\ generation = g THEN 1 ELSE 0)

(* That is what HelperAccounting says. *)
LEMMA AccountedIs == HelperAccounting <=> \A g \in Gens : Accounted(g)
  BY DEF HelperAccounting, Accounted, Jobs, OnWorkers

(* So does it in the next state. *)
LEMMA AccountedNext ==
    ASSUME \A g \in Gens : Accounted(g)'
    PROVE  HelperAccounting'
  BY DEF HelperAccounting, Accounted, Jobs, OnWorkers

(* A step that leaves the jobs and the holders of g alone keeps its count. *)
LEMMA AccountedFrame ==
    ASSUME NEW g \in Gens, Accounted(g), helpers'[g] = helpers[g], queue' = queue,
           OnWorkers(g)' = OnWorkers(g),
           (pc'[Caller] = "submit" /\ generation' = g) <=> (pc[Caller] = "submit" /\ generation = g)
    PROVE  Accounted(g)'
  BY DEF Accounted

(* One worker starts or stops holding a job of g. *)
LEMMA OnWorkersMove ==
    ASSUME NEW w \in Workers, NEW g,
           \A u \in Workers : u # w => (u \in OnWorkers(g)' <=> u \in OnWorkers(g))
    PROVE  /\ w \in OnWorkers(g)' /\ w \notin OnWorkers(g)
                => Cardinality(OnWorkers(g)') = Cardinality(OnWorkers(g)) + 1
           /\ w \notin OnWorkers(g)' /\ w \in OnWorkers(g)
                => Cardinality(OnWorkers(g)') = Cardinality(OnWorkers(g)) - 1
           /\ (w \in OnWorkers(g)' <=> w \in OnWorkers(g)) => OnWorkers(g)' = OnWorkers(g)
<1> DEFINE A == OnWorkers(g)
           B == OnWorkers(g)'
<1>1. IsFiniteSet(A) /\ IsFiniteSet(B) /\ Cardinality(A) \in Nat /\ Cardinality(B) \in Nat
  <2>1. A \in SUBSET Workers /\ B \in SUBSET Workers
    BY DEF OnWorkers
  <2> QED BY ONLY <2>1, WorkersFinite
<1>2. \A u \in Workers : u # w => (u \in A <=> u \in B)
  OBVIOUS
<1>3. A \subseteq Workers /\ B \subseteq Workers
  BY DEF OnWorkers
<1> HIDE DEF A, B
<1>4. CASE w \in B /\ w \notin A
  <2>1. B = A \cup {w}
    BY ONLY <1>2, <1>3, <1>4
  <2> QED BY ONLY <1>1, <1>4, <2>1, FS_AddElement DEF A, B
<1>5. CASE w \notin B /\ w \in A
  <2>1. B = A \ {w}
    BY ONLY <1>2, <1>3, <1>5
  <2> QED BY ONLY <1>1, <1>5, <2>1, FS_RemoveElement DEF A, B
<1>6. CASE w \in B <=> w \in A
  <2>1. B = A
    BY ONLY <1>2, <1>3, <1>6
  <2> QED BY ONLY <1>6, <2>1 DEF A, B
<1> QED BY <1>4, <1>5, <1>6 DEF A, B

(* Registering reserves a helper unless every worker may be one already. *)
LEMMA RegisterHelpers ==
    ASSUME TypeOK, Control, HelpersCover, NEW owned \in BOOLEAN, Register(owned)
    PROVE  HelpersCover'
<1> DEFINE g == IF generation = NoGen THEN gens + 1 ELSE generation
<1>1. /\ g \in Gens /\ generation' = g /\ pc[Caller] = "user"
      /\ pending' = [pending EXCEPT ![g] = Append(@, registered[g])]
      /\ IF helpers[g] < WorkerCount
           THEN /\ helpers' = [helpers EXCEPT ![g] = @ + 1]
                /\ pc' = [pc EXCEPT ![Caller] = "submit"]
           ELSE UNCHANGED <<helpers, pc>>
      /\ UNCHANGED <<queue, run>>
  BY DEF Register, HelperFree
<1> HIDE DEF g
<1>2. helpers \in [Gens -> Int] /\ pending \in [Gens -> Seq(Indices)] /\ pc \in [Threads -> CallerPCs \cup WorkerPCs]
  BY DEF TypeOK, GenerationTypeOK, ControlTypeOK
<1>3. \A h : OnWorkers(h)' = OnWorkers(h)
  BY <1>1, <1>2, Constants DEF OnWorkers
<1>4. \A h \in Gens : Accounted(h)
  BY AccountedIs DEF HelpersCover
<1>5. ASSUME NEW h \in Gens PROVE Accounted(h)'
  <2>1. Cardinality(Jobs(queue, h)) \in Nat /\ Cardinality(OnWorkers(h)) \in Nat
    <3>1. OnWorkers(h) \in SUBSET Workers /\ queue \in Seq(Gens)
      BY DEF OnWorkers, TypeOK, ControlTypeOK
    <3> QED BY ONLY <3>1, WorkersFinite, JobsFinite
  <2>2. helpers[h] = Cardinality(Jobs(queue, h)) + Cardinality(OnWorkers(h))
    BY <1>1, <1>4, <2>1 DEF Accounted
  <2>3. CASE helpers[g] < WorkerCount
    <3>1. pc'[Caller] = "submit" /\ helpers'[h] = IF h = g THEN helpers[h] + 1 ELSE helpers[h]
      BY <1>1, <1>2, <2>3, Constants
    <3> QED BY <1>1, <1>3, <2>1, <2>2, <3>1 DEF Accounted
  <2>4. CASE ~(helpers[g] < WorkerCount)
    BY <1>1, <1>3, <2>1, <2>2, <2>4 DEF Accounted
  <2> QED BY <2>3, <2>4
<1>6. WorkHasHelper'
  <2> SUFFICES ASSUME NEW h \in Gens, pending'[h] # <<>> PROVE helpers'[h] > 0
    BY DEF WorkHasHelper
  <2>1. CASE h # g
    BY <1>1, <1>2, <2>1 DEF HelpersCover, WorkHasHelper
  <2>2. CASE h = g
    <3>1. helpers[g] >= 0
      <4>1. OnWorkers(g) \in SUBSET Workers /\ queue \in Seq(Gens)
        BY DEF OnWorkers, TypeOK, ControlTypeOK
      <4>2. Cardinality(Jobs(queue, g)) \in Nat /\ Cardinality(OnWorkers(g)) \in Nat
        BY ONLY <4>1, WorkersFinite, JobsFinite
      <4> QED BY <1>1, <1>4, <4>2 DEF Accounted
    <3> QED BY <1>1, <1>2, <2>2, <3>1, SomeWorker
  <2> QED BY <2>1, <2>2
<1> QED BY <1>5, <1>6, AccountedNext DEF HelpersCover

(* The caller's other steps: a submission turns the reserved helper into a *)
(* job of the queue.                                                       *)
LEMMA CallerHelpers ==
    ASSUME TypeOK, Control, HelpersCover, Wait \/ End \/ CallerInternal
    PROVE  HelpersCover'
<1>1. UNCHANGED <<pending, helpers>>
  BY DEF Wait, End, CallerInternal, Submit, Notify, Join, Reclaim, genVars
<1>2. \A h : OnWorkers(h)' = OnWorkers(h)
  <2>1. \A w \in Workers : /\ pc'[w] \in {"claim", "exec"} <=> pc[w] \in {"claim", "exec"}
                           /\ run'[w] = run[w]
    BY Constants DEF TypeOK, ControlTypeOK, Wait, End, CallerInternal, Submit, Notify, Join, Reclaim
  <2> QED BY <2>1 DEF OnWorkers
<1>3. \A h \in Gens : Accounted(h)
  BY AccountedIs DEF HelpersCover
<1>4. CASE Submit
  <2>1. /\ queue' = Append(queue, generation) /\ UNCHANGED generation
        /\ pc[Caller] = "submit" /\ pc'[Caller] = "notify"
        /\ generation \in Gens /\ queue \in Seq(Gens)
    BY <1>4, Constants DEF Submit, groupVars, TypeOK, ControlTypeOK, Control, Holding
  <2>2. ASSUME NEW h \in Gens PROVE Accounted(h)'
    <3>1. /\ Cardinality(Jobs(queue, h)) \in Nat /\ Cardinality(OnWorkers(h)) \in Nat
          /\ Cardinality(Jobs(queue', h)) = Cardinality(Jobs(queue, h)) + (IF generation = h THEN 1 ELSE 0)
      <4>1. OnWorkers(h) \in SUBSET Workers
        BY DEF OnWorkers
      <4> QED BY ONLY <2>1, <4>1, WorkersFinite, JobsFinite, JobsAppend
    <3> QED BY <1>1, <1>2, <1>3, <2>1, <3>1 DEF Accounted
  <2>3. HelperAccounting'
    BY <2>2, AccountedNext
  <2> QED BY <1>1, <2>3 DEF HelpersCover, WorkHasHelper
<1>5. CASE ~Submit
  <2>1. /\ queue' = queue
        /\ pc[Caller] # "submit" /\ pc'[Caller] # "submit"
    BY <1>5, Constants DEF Wait, End, CallerInternal, Notify, Join, Reclaim, TypeOK, ControlTypeOK
  <2>2. ASSUME NEW h \in Gens PROVE Accounted(h)'
    BY <1>1, <1>2, <1>3, <2>1, AccountedFrame
  <2>3. HelperAccounting'
    BY <2>2, AccountedNext
  <2> QED BY <1>1, <2>3 DEF HelpersCover, WorkHasHelper
<1> QED BY <1>4, <1>5

(* A worker that takes a job holds it, and one that leaves run retires, in *)
(* the critical section that saw no queued task.                           *)
LEMMA ThreadHelpers ==
    ASSUME TypeOK, Control, HelpersCover, NEW t \in Threads,
           (Take(t) /\ t \in Workers) \/ SpuriousWake(t) \/ Run(t)
    PROVE  HelpersCover'
<1>1. \A h \in Gens : Accounted(h)
  BY AccountedIs DEF HelpersCover
<1>2. /\ queue \in Seq(Gens) /\ run \in [Threads -> Gens \cup {NoGen}]
      /\ pc \in [Threads -> CallerPCs \cup WorkerPCs] /\ helpers \in [Gens -> Int]
      /\ pending \in [Gens -> Seq(Indices)] /\ pc[Caller] \in CallerPCs
      /\ \A w \in Workers : pc[w] \in WorkerPCs
  BY DEF TypeOK, ControlTypeOK, GenerationTypeOK
<1>3. UNCHANGED generation /\ (pc'[Caller] = "submit" <=> pc[Caller] = "submit")
  BY <1>2, Constants DEF Take, SpuriousWake, Run, Claim, Execute, Publish, groupVars, WorkerPCs
<1>4. ASSUME UNCHANGED <<helpers, queue>>, \A h : OnWorkers(h)' = OnWorkers(h),
             \A h \in Gens : pending'[h] # <<>> => pending[h] # <<>>
      PROVE  HelpersCover'
  <2>1. HelperAccounting'
    BY <1>1, <1>3, <1>4, AccountedFrame, AccountedNext
  <2> QED BY <1>4, <2>1 DEF HelpersCover, WorkHasHelper
<1>5. CASE SpuriousWake(t)
  <2>1. \A w \in Workers : /\ pc'[w] \in {"claim", "exec"} <=> pc[w] \in {"claim", "exec"}
                           /\ run'[w] = run[w]
    BY <1>2, <1>5, Constants DEF SpuriousWake
  <2> QED BY <1>4, <1>5, <2>1 DEF SpuriousWake, OnWorkers, genVars
<1>6. CASE Take(t) /\ t \in Workers
  <2>1. CASE queue = <<>>
    <3>1. \A w \in Workers : /\ pc'[w] \in {"claim", "exec"} <=> pc[w] \in {"claim", "exec"}
                             /\ run'[w] = run[w]
      BY <1>2, <1>6, <2>1, Constants DEF Take
    <3> QED BY <1>4, <1>6, <2>1, <3>1 DEF Take, OnWorkers, genVars
  <2>2. CASE queue # <<>>
    <3>1. /\ queue' = Tail(queue) /\ run' = [run EXCEPT ![t] = Head(queue)]
          /\ pc' = [pc EXCEPT ![t] = "claim"] /\ pc[t] = "take" /\ UNCHANGED <<helpers, pending>>
      BY <1>6, <2>2 DEF Take, genVars
    <3>2. \A h : /\ t \notin OnWorkers(h) /\ (t \in OnWorkers(h)' <=> Head(queue) = h)
                 /\ \A u \in Workers : u # t => (u \in OnWorkers(h)' <=> u \in OnWorkers(h))
      BY <1>2, <1>6, <3>1, Constants DEF OnWorkers
    <3>3. ASSUME NEW h \in Gens PROVE Accounted(h)'
      <4>1. /\ Cardinality(Jobs(queue, h)) = Cardinality(Jobs(queue', h)) + (IF Head(queue) = h THEN 1 ELSE 0)
            /\ Cardinality(Jobs(queue', h)) \in Nat
        <5>1. Tail(queue) \in Seq(Gens)
          BY ONLY <1>2, <2>2, HeadTailProperties
        <5> QED BY ONLY <1>2, <2>2, <3>1, <5>1, JobsTail, JobsFinite
      <4>2. Cardinality(OnWorkers(h)') = Cardinality(OnWorkers(h)) + (IF Head(queue) = h THEN 1 ELSE 0)
        <5>1. Cardinality(OnWorkers(h)) \in Nat
          BY WorkersFinite DEF OnWorkers
        <5>2. \A u \in Workers : u # t => (u \in OnWorkers(h)' <=> u \in OnWorkers(h))
          BY <3>2
        <5>3. t \notin OnWorkers(h) /\ (t \in OnWorkers(h)' <=> Head(queue) = h)
          BY <3>2
        <5> QED BY ONLY <1>6, <5>1, <5>2, <5>3, OnWorkersMove
      <4>3. Cardinality(OnWorkers(h)) \in Nat
        BY WorkersFinite DEF OnWorkers
      <4> QED BY <1>1, <1>3, <3>1, <4>1, <4>2, <4>3 DEF Accounted
    <3>4. HelperAccounting'
      BY <3>3, AccountedNext
    <3> QED BY <3>1, <3>4 DEF HelpersCover, WorkHasHelper
  <2> QED BY <2>1, <2>2
<1>7. CASE Run(t)
  <2>1. run[t] \in Gens /\ pc[t] \in {"claim", "exec"}
    BY <1>7 DEF Run, Claim, Execute, Publish, Control, Holding
  <2>2. CASE Claim(t) /\ pending[run[t]] = <<>> /\ t # Caller
    <3> DEFINE g == run[t]
    <3>1. /\ pc' = [pc EXCEPT ![t] = "take"] /\ run' = [run EXCEPT ![t] = NoGen]
          /\ helpers' = [helpers EXCEPT ![g] = @ - 1] /\ UNCHANGED <<queue, pending>>
      BY <2>2 DEF Claim, IsHelper, Retired
    <3>2. t \in Workers
      BY <2>2, Constants
    <3>3. \A h : /\ t \notin OnWorkers(h)' /\ (t \in OnWorkers(h) <=> g = h)
                 /\ \A u \in Workers : u # t => (u \in OnWorkers(h)' <=> u \in OnWorkers(h))
      BY <1>2, <2>1, <3>1, <3>2, Constants DEF OnWorkers
    <3>4. ASSUME NEW h \in Gens PROVE Accounted(h)'
      <4>1. Cardinality(Jobs(queue, h)) \in Nat /\ Cardinality(OnWorkers(h)) \in Nat
        BY <1>2, JobsFinite, WorkersFinite DEF OnWorkers
      <4>2. Cardinality(OnWorkers(h)') = Cardinality(OnWorkers(h)) - (IF g = h THEN 1 ELSE 0)
        <5>1. \A u \in Workers : u # t => (u \in OnWorkers(h)' <=> u \in OnWorkers(h))
          BY <3>3
        <5>2. t \notin OnWorkers(h)' /\ (t \in OnWorkers(h) <=> g = h)
          BY <3>3
        <5> QED BY ONLY <3>2, <4>1, <5>1, <5>2, OnWorkersMove
      <4>3. helpers'[h] = helpers[h] - (IF g = h THEN 1 ELSE 0)
        BY <1>2, <2>1, <3>1
      <4> QED BY <1>1, <1>2, <1>3, <3>1, <4>1, <4>2, <4>3 DEF Accounted
    <3>5. WorkHasHelper'
      BY <1>2, <2>1, <2>2, <3>1 DEF WorkHasHelper, HelpersCover
    <3> QED BY <3>4, <3>5, AccountedNext DEF HelpersCover
  <2>3. CASE ~(Claim(t) /\ pending[run[t]] = <<>> /\ t # Caller)
    <3>1. UNCHANGED <<helpers, queue, run>>
      BY <1>7, <2>3 DEF Run, Claim, Execute, Publish, genVars, IsHelper
    <3>2. \A w \in Workers : pc'[w] \in {"claim", "exec"} <=> pc[w] \in {"claim", "exec"}
      BY <1>2, <1>7, <2>3, Constants DEF Run, Claim, Execute, Publish, IsHelper
    <3>3. \A h \in Gens : pending'[h] # <<>> => pending[h] # <<>>
      BY <1>2, <1>7, <2>1 DEF Run, Claim, Execute, Publish, genVars
    <3> QED BY <1>4, <3>1, <3>2, <3>3 DEF OnWorkers
  <2> QED BY <2>2, <2>3
<1> QED BY <1>5, <1>6, <1>7

(* The helper count is exactly the helper jobs that exist, and queued work *)
(* always has one: no task waits for a join that may never come.           *)
THEOREM HelpersNeverMissing == Spec => []HelpersCover
<1>1. Init => HelpersCover
  <2> SUFFICES ASSUME Init PROVE HelpersCover
    OBVIOUS
  <2>1. \A g \in Gens : Jobs(queue, g) = {} /\ OnWorkers(g) = {}
    BY Constants DEF Init, Jobs, OnWorkers
  <2>2. Cardinality({}) = 0 /\ pc[Caller] = "user" /\ \A g \in Gens : helpers[g] = 0
    BY Constants, FS_EmptySet DEF Init
  <2>3. \A g \in Gens : Accounted(g)
    BY <2>1, <2>2 DEF Accounted
  <2> QED BY <2>3, AccountedIs DEF Init, HelpersCover, WorkHasHelper
<1>2. TypeOK /\ Control /\ HelpersCover /\ [Next]_vars => HelpersCover'
  <2> SUFFICES ASSUME TypeOK, Control, HelpersCover, [Next]_vars PROVE HelpersCover'
    OBVIOUS
  <2>1. CASE UNCHANGED vars
    BY <2>1 DEF vars, genVars, groupVars, HelpersCover, HelperAccounting, WorkHasHelper
  <2>2. CASE Next
    BY <2>2, RegisterHelpers, CallerHelpers, ThreadHelpers, Constants DEF Next, Step, UserCall
  <2> QED BY <2>1, <2>2
<1> QED BY <1>1, <1>2, Inductive, PTL DEF Spec

-----------------------------------------------------------------------------
(* The lowest failure *)

(* Merging keeps the lowest index of both sets. *)
LEMMA LowestUnion ==
    ASSUME NEW A \in SUBSET Indices, NEW B \in SUBSET Indices,
           NEW a, NEW b, IsLowest(a, A), IsLowest(b, B)
    PROVE  IsLowest(Merge(a, b), A \cup B)
<1>1. Indices \subseteq Nat /\ Null \notin Indices
  BY Constants
<1>2. CASE b = Null /\ B = {}
  BY <1>2 DEF IsLowest, Merge
<1>3. CASE b \in B /\ (\A j \in B : b <= j) /\ a = Null /\ A = {}
  BY <1>1, <1>3 DEF IsLowest, Merge
<1>4. CASE b \in B /\ (\A j \in B : b <= j) /\ a \in A /\ (\A j \in A : a <= j)
  <2>1. a \in Nat /\ b \in Nat /\ a # Null /\ b # Null /\ \A j \in A \cup B : j \in Nat
    BY <1>1, <1>4
  <2>2. CASE b < a
    BY <1>4, <2>1, <2>2 DEF IsLowest, Merge
  <2>3. CASE ~(b < a)
    BY <1>4, <2>1, <2>3 DEF IsLowest, Merge
  <2> QED BY <2>2, <2>3
<1> QED BY <1>2, <1>3, <1>4 DEF IsLowest

(* The lowest index is what the contract's Lowest names. *)
LEMMA LowestUnique ==
    ASSUME NEW S \in SUBSET Indices, NEW x, IsLowest(x, S)
    PROVE  FJ!Lowest(S) = x
<1>1. CASE S = {}
  BY <1>1 DEF IsLowest, FJ!Lowest, FJ!Null, Null
<1>2. CASE S # {}
  <2>1. x \in S /\ \A j \in S : x <= j
    BY <1>2 DEF IsLowest
  <2>2. \A y \in S : (\A j \in S : y <= j) => y = x
    <3>1. \A y \in S : y \in Nat
      BY Constants
    <3> QED BY ONLY <2>1, <3>1
  <2>3. FJ!Lowest(S) = CHOOSE i \in S : \A j \in S : i <= j
    BY <1>2 DEF FJ!Lowest
  <2> QED BY <2>1, <2>2, <2>3
<1> QED BY <1>1, <1>2

(* Initially nothing has failed. *)
LEMMA FailuresInit == Init => Failures
<1> SUFFICES ASSUME Init PROVE Failures
  OBVIOUS
<1>1. BatchFailures
  BY Constants DEF Init, BatchFailures, Ended, IsLowest
<1>2. Merged
  BY Constants DEF Init, Merged, Ended, IsLowest, Done, Unrun
<1> QED BY <1>1, <1>2 DEF Failures

(* A step that runs no task and publishes no batch keeps every failure. *)
LEMMA FailuresFrame ==
    ASSUME Ledger, Failures,
           UNCHANGED <<batch, claimed, outcome, lerror, lpanic, error>>,
           \A t \in Threads : pc[t] = "exec" => run'[t] = run[t],
           \A g \in Gens : Done(g)' = Done(g),
           \A g \in Gens : answer'[g] = NoAnswer => answer[g] = NoAnswer /\ panic'[g] = panic[g]
    PROVE  Failures'
<1>1. \A t \in Threads : run'[t] = run[t] \/ (claimed[t] = {} /\ batch[t] = <<>>)
  BY DEF Ledger, BatchesHold
<1>2. BatchFailures'
  <2> SUFFICES ASSUME NEW t \in Threads
               PROVE  /\ \A k \in 1..Len(batch[t]) :
                            /\ \A j \in 1..(k - 1) : batch[t][j] < batch[t][k]
                            /\ \A i \in claimed[t] : outcome[run'[t]][i] # Unrun => i < batch[t][k]
                      /\ IsLowest(lerror[t], Ended(run'[t], claimed[t], "err"))
                      /\ IsLowest(lpanic[t], Ended(run'[t], claimed[t], "panic"))
    BY DEF BatchFailures, Ended, IsLowest
  <2>1. CASE run'[t] = run[t]
    BY <2>1 DEF Failures, BatchFailures
  <2>2. CASE claimed[t] = {} /\ batch[t] = <<>>
    <3>1. \A g, kind : Ended(g, claimed[t], kind) = {}
      BY <2>2 DEF Ended
    <3> QED BY <2>2, <3>1 DEF Failures, BatchFailures
  <2> QED BY <1>1, <2>1, <2>2
<1>3. Merged'
  <2> SUFFICES ASSUME NEW g \in Gens, answer'[g] = NoAnswer
               PROVE  /\ IsLowest(error[g], Ended(g, Done(g), "err"))
                      /\ IsLowest(panic'[g], Ended(g, Done(g), "panic"))
    BY DEF Merged, Ended, IsLowest
  <2> QED BY DEF Failures, Merged
<1> QED BY <1>2, <1>3 DEF Failures

(* A claimed batch is in spawn order, and nothing of it has run. *)
LEMMA ClaimFailures ==
    ASSUME TypeOK, Control, Ledger, Failures, NEW t \in Threads, Claim(t),
           NEW g \in Gens, g = run[t], pending[g] # <<>>
    PROVE  Failures'
<1>1. /\ \A h \in Gens : Done(h)' = Done(h)
      /\ \A k \in 1..Len(batch'[t]) : batch'[t][k] = Front(g) + k - 1
      /\ \A i \in claimed'[t] : i >= Front(g)
      /\ Front(g) \in Nat
  <2>1. registered[g] \in 0..MaxTasks /\ Front(g) \in 0..registered[g]
    BY FrontType DEF Ledger
  <2>2. Front(g) \in Nat
    BY ONLY <2>1, Constants
  <2> QED BY <2>2, ClaimLedger
<1>2. /\ pc[t] = "claim" /\ claimed[t] = {}
      /\ UNCHANGED <<run, outcome, lerror, lpanic, error, panic, answer>>
      /\ \A u \in Threads : u # t => claimed'[u] = claimed[u] /\ batch'[u] = batch[u]
  BY DEF Claim, history, Ledger, BatchesHold, TypeOK, LocalTypeOK
<1>3. claimed'[t] \subseteq Indices /\ \A i \in claimed'[t] : outcome[g][i] = Unrun
  <2>1. claimed'[t] \subseteq Indices
    BY RunTypeStep DEF Run, TypeOK, LocalTypeOK
  <2> QED BY <1>1, <2>1 DEF Ledger, QueueIsTail
<1>4. lerror[t] = Null /\ lpanic[t] = Null
  BY <1>2 DEF Failures, BatchFailures, IsLowest, Ended
<1>5. BatchFailures'
  <2> SUFFICES ASSUME NEW u \in Threads
               PROVE  /\ \A k \in 1..Len(batch'[u]) :
                            /\ \A j \in 1..(k - 1) : batch'[u][j] < batch'[u][k]
                            /\ \A i \in claimed'[u] : outcome[run[u]][i] # Unrun => i < batch'[u][k]
                      /\ IsLowest(lerror[u], Ended(run[u], claimed'[u], "err"))
                      /\ IsLowest(lpanic[u], Ended(run[u], claimed'[u], "panic"))
    BY <1>2 DEF BatchFailures, Ended, IsLowest
  <2>1. CASE u = t
    <3>1. Ended(g, claimed'[t], "err") = {} /\ Ended(g, claimed'[t], "panic") = {}
      BY <1>3 DEF Ended, Unrun
    <3>2. Len(batch'[t]) \in Nat
      BY RunTypeStep DEF Run, TypeOK, LocalTypeOK
    <3>3. ASSUME NEW k \in 1..Len(batch'[t]), NEW j \in 1..(k - 1)
          PROVE  batch'[t][j] < batch'[t][k]
      BY ONLY <1>1, <3>2, <3>3
    <3> QED BY <1>3, <1>4, <2>1, <3>1, <3>3 DEF IsLowest
  <2>2. CASE u # t
    BY <1>2, <2>2 DEF Failures, BatchFailures
  <2> QED BY <2>1, <2>2
<1>6. Merged'
  <2> SUFFICES ASSUME NEW h \in Gens, answer[h] = NoAnswer
               PROVE  /\ IsLowest(error[h], Ended(h, Done(h), "err"))
                      /\ IsLowest(panic[h], Ended(h, Done(h), "panic"))
    BY <1>1, <1>2 DEF Merged, Ended, IsLowest
  <2> QED BY DEF Failures, Merged
<1> QED BY <1>5, <1>6 DEF Failures

(* A task that ran is below the rest of its batch, so the first failure of *)
(* the batch is its lowest.                                                *)
LEMMA ExecuteFailures ==
    ASSUME TypeOK, Control, Ledger, Failures, NEW t \in Threads, NEW o \in Outcomes,
           Execute(t, o), NEW g \in Gens, g = run[t]
    PROVE  Failures'
<1> DEFINE b == batch[t]
           i == Head(b)
<1>1. /\ pc[t] = "exec" /\ b # <<>>
      /\ outcome' = [outcome EXCEPT ![g][i] = o]
      /\ batch' = [batch EXCEPT ![t] = Tail(b)]
      /\ lerror' = [lerror EXCEPT ![t] = IF o = "err" THEN KeepFirst(@, i) ELSE @]
      /\ lpanic' = [lpanic EXCEPT ![t] = IF o = "panic" THEN KeepFirst(@, i) ELSE @]
      /\ UNCHANGED <<claimed, answer, run, error, panic>>
  BY DEF Execute, genVars
<1>2. /\ b \in Seq(Indices) /\ Len(b) \in Nat \ {0} /\ i = b[1] /\ 1 \in 1..Len(b)
      /\ o \in {"ok", "err", "panic"} /\ claimed[t] \subseteq Indices
  <2>1. b \in Seq(Indices) /\ claimed[t] \subseteq Indices
    BY DEF TypeOK, LocalTypeOK
  <2> QED BY <1>1, <2>1 DEF Outcomes
<1>3. /\ Len(Tail(b)) = Len(b) - 1 /\ Len(Tail(b)) \in Nat
      /\ \A k \in 1..Len(Tail(b)) : Tail(b)[k] = b[k + 1] /\ k + 1 \in 1..Len(b)
  BY ONLY <1>1, <1>2, HeadTailProperties
<1>4. i \in Indices /\ i \in claimed[t] /\ outcome[g][i] = Unrun
  <2>1. b[1] \in claimed[t] /\ outcome[g][b[1]] = Unrun
    BY <1>2 DEF Ledger, BatchesHold
  <2> QED BY <1>2, <2>1
<1> HIDE DEF i, b
<1>5. ASSUME NEW h \in Gens, NEW j \in Indices
      PROVE  outcome'[h][j] = IF h = g /\ j = i THEN o ELSE outcome[h][j]
  BY <1>1, <1>4 DEF TypeOK, HistoryTypeOK
<1>6. \A h \in Gens : Done(h)' = Done(h) /\ Done(h) \subseteq Indices /\ (h = g => i \notin Done(h))
  <2>1. \A h \in Gens : Done(h)' = Done(h)
    BY ExecuteLedger
  <2> QED BY <1>4, <2>1 DEF Done, HeldBy
<1>7. /\ \A k \in 1..Len(b) :
            /\ \A j \in 1..(k - 1) : b[j] < b[k]
            /\ \A j \in claimed[t] : outcome[g][j] # Unrun => j < b[k]
      /\ IsLowest(lerror[t], Ended(g, claimed[t], "err"))
      /\ IsLowest(lpanic[t], Ended(g, claimed[t], "panic"))
  BY DEF Failures, BatchFailures, b
<1>8. ASSUME NEW kind \in {"err", "panic"}, NEW x, IsLowest(x, Ended(g, claimed[t], kind))
      PROVE  IsLowest(IF o = kind THEN KeepFirst(x, i) ELSE x, Ended(g, claimed[t], kind)')
  <2>1. Ended(g, claimed[t], kind)' = IF o = kind THEN Ended(g, claimed[t], kind) \cup {i}
                                                  ELSE Ended(g, claimed[t], kind)
    BY <1>1, <1>2, <1>4, <1>5 DEF Ended, Unrun
  <2>2. ASSUME x # Null, o = kind PROVE x < i /\ x \in Indices
    <3>1. x \in claimed[t] /\ outcome[g][x] # Unrun
      BY <1>8, <2>2 DEF IsLowest, Ended, Unrun
    <3> QED BY <1>2, <1>7, <3>1
  <2>3. x = Null => Ended(g, claimed[t], kind) = {}
    BY <1>2, <1>8, Constants DEF IsLowest, Ended
  <2>4. i \in Nat /\ Indices \subseteq Nat
    BY <1>4, Constants
  <2>5. CASE o # kind
    BY <1>8, <2>1, <2>5
  <2>6. CASE o = kind /\ x = Null
    <3>1. Ended(g, claimed[t], kind)' = {i} /\ i <= i
      BY <2>1, <2>3, <2>4, <2>6
    <3> QED BY <2>6, <3>1 DEF IsLowest, KeepFirst
  <2>7. CASE o = kind /\ x # Null
    <3>1. x \in Ended(g, claimed[t], kind) /\ \A j \in Ended(g, claimed[t], kind) : x <= j
      BY <1>8, <2>7 DEF IsLowest
    <3>2. x <= i
      <4>1. x < i /\ x \in Indices
        BY <2>2, <2>7
      <4> QED BY ONLY <2>4, <4>1
    <3> QED BY <2>1, <2>7, <3>1, <3>2 DEF IsLowest, KeepFirst
  <2> QED BY <2>5, <2>6, <2>7
<1>9. BatchFailures'
  <2> SUFFICES ASSUME NEW u \in Threads
               PROVE  /\ \A k \in 1..Len(batch'[u]) :
                            /\ \A j \in 1..(k - 1) : batch'[u][j] < batch'[u][k]
                            /\ \A j \in claimed[u] : outcome'[run[u]][j] # Unrun => j < batch'[u][k]
                      /\ IsLowest(lerror'[u], Ended(run[u], claimed[u], "err")')
                      /\ IsLowest(lpanic'[u], Ended(run[u], claimed[u], "panic")')
    BY <1>1 DEF BatchFailures, Ended, IsLowest
  <2>1. CASE u = t
    <3>1. /\ batch'[t] = Tail(b)
          /\ lerror'[t] = IF o = "err" THEN KeepFirst(lerror[t], i) ELSE lerror[t]
          /\ lpanic'[t] = IF o = "panic" THEN KeepFirst(lpanic[t], i) ELSE lpanic[t]
      BY <1>1 DEF TypeOK, LocalTypeOK
    <3>2. ASSUME NEW k \in 1..Len(Tail(b))
          PROVE  /\ \A j \in 1..(k - 1) : Tail(b)[j] < Tail(b)[k]
                 /\ \A j \in claimed[t] : outcome'[g][j] # Unrun => j < Tail(b)[k]
      <4>1. Tail(b)[k] = b[k + 1] /\ k + 1 \in 1..Len(b) /\ 1 \in 1..((k + 1) - 1)
        BY ONLY <1>3, k \in 1..Len(Tail(b))
      <4>2. ASSUME NEW j \in 1..(k - 1) PROVE Tail(b)[j] < Tail(b)[k]
        <5>1. Tail(b)[j] = b[j + 1] /\ j + 1 \in 1..((k + 1) - 1)
          BY ONLY <1>3, k \in 1..Len(Tail(b)), j \in 1..(k - 1)
        <5> QED BY ONLY <1>7, <4>1, <5>1
      <4>3. ASSUME NEW j \in claimed[t], outcome'[g][j] # Unrun PROVE j < Tail(b)[k]
        <5>1. CASE j = i
          BY ONLY <1>2, <1>7, <4>1, <5>1
        <5>2. CASE j # i
          <6>1. outcome[g][j] # Unrun
            BY <1>2, <1>5, <4>3, <5>2
          <6> QED BY ONLY <1>7, <4>1, <6>1, j \in claimed[t]
        <5> QED BY <5>1, <5>2
      <4> QED BY <4>2, <4>3
    <3>3. IsLowest(lerror'[t], Ended(g, claimed[t], "err")') /\ IsLowest(lpanic'[t], Ended(g, claimed[t], "panic")')
      BY <1>7, <1>8, <3>1
    <3> QED BY <1>1, <2>1, <3>1, <3>2, <3>3 DEF Ended
  <2>2. CASE u # t
    <3>1. batch'[u] = batch[u] /\ lerror'[u] = lerror[u] /\ lpanic'[u] = lpanic[u]
      BY <1>1, <2>2 DEF TypeOK, LocalTypeOK
    <3>2. ASSUME NEW j \in claimed[u] PROVE outcome'[run[u]][j] = outcome[run[u]][j]
      <4>1. claimed[u] \subseteq Indices /\ run[u] \in Gens
        BY <3>2 DEF Ledger, BatchesHold, Control, Holding, TypeOK, LocalTypeOK
      <4>2. ~(run[u] = g /\ j = i)
        BY <1>4, <2>2 DEF Ledger, BatchesDisjoint
      <4> QED BY <1>5, <4>1, <4>2
    <3>3. \A kind : Ended(run[u], claimed[u], kind)' = Ended(run[u], claimed[u], kind)
      BY <1>1, <3>2 DEF Ended
    <3> QED BY <3>1, <3>2, <3>3 DEF Failures, BatchFailures
  <2> QED BY <2>1, <2>2
<1>10. Merged'
  <2> SUFFICES ASSUME NEW h \in Gens, answer[h] = NoAnswer
               PROVE  /\ IsLowest(error[h], Ended(h, Done(h), "err")')
                      /\ IsLowest(panic[h], Ended(h, Done(h), "panic")')
    BY <1>1, <1>6 DEF Merged, IsLowest
  <2>1. \A kind : Ended(h, Done(h), kind)' = Ended(h, Done(h), kind)
    BY <1>5, <1>6 DEF Ended
  <2> QED BY <2>1 DEF Failures, Merged
<1> QED BY <1>9, <1>10 DEF Failures

(* Publishing merges the batch's failures into the generation's. *)
LEMMA PublishFailures ==
    ASSUME TypeOK, Control, Ledger, Failures, NEW t \in Threads, Publish(t),
           NEW g \in Gens, g = run[t]
    PROVE  Failures'
<1>1. /\ pc[t] = "exec" /\ batch[t] = <<>>
      /\ error' = [error EXCEPT ![g] = Merge(@, lerror[t])]
      /\ panic' = [panic EXCEPT ![g] = Merge(@, lpanic[t])]
      /\ claimed' = [claimed EXCEPT ![t] = {}]
      /\ lerror' = [lerror EXCEPT ![t] = Null]
      /\ lpanic' = [lpanic EXCEPT ![t] = Null]
      /\ UNCHANGED <<batch, outcome, answer, run>>
  BY DEF Publish, history
<1>2. /\ Done(g)' = Done(g) \cup claimed[t]
      /\ \A h \in Gens : h # g => Done(h)' = Done(h)
  BY PublishLedger
<1>3. BatchFailures'
  <2> SUFFICES ASSUME NEW u \in Threads
               PROVE  /\ \A k \in 1..Len(batch[u]) :
                            /\ \A j \in 1..(k - 1) : batch[u][j] < batch[u][k]
                            /\ \A i \in claimed'[u] : outcome[run[u]][i] # Unrun => i < batch[u][k]
                      /\ IsLowest(lerror'[u], Ended(run[u], claimed'[u], "err"))
                      /\ IsLowest(lpanic'[u], Ended(run[u], claimed'[u], "panic"))
    BY <1>1 DEF BatchFailures, Ended, IsLowest
  <2>1. CASE u = t
    <3>1. claimed'[t] = {} /\ lerror'[t] = Null /\ lpanic'[t] = Null
      BY <1>1 DEF TypeOK, LocalTypeOK
    <3> QED BY <1>1, <2>1, <3>1 DEF Ended, IsLowest
  <2>2. CASE u # t
    <3>1. claimed'[u] = claimed[u] /\ lerror'[u] = lerror[u] /\ lpanic'[u] = lpanic[u]
      BY <1>1, <2>2 DEF TypeOK, LocalTypeOK
    <3> QED BY <3>1 DEF Failures, BatchFailures
  <2> QED BY <2>1, <2>2
<1>4. Merged'
  <2> SUFFICES ASSUME NEW h \in Gens, answer[h] = NoAnswer
               PROVE  /\ IsLowest(error'[h], Ended(h, Done(h)', "err"))
                      /\ IsLowest(panic'[h], Ended(h, Done(h)', "panic"))
    BY <1>1 DEF Merged, Ended, IsLowest
  <2>1. /\ IsLowest(error[h], Ended(h, Done(h), "err"))
        /\ IsLowest(panic[h], Ended(h, Done(h), "panic"))
    BY DEF Failures, Merged
  <2>2. CASE h # g
    BY <1>1, <1>2, <2>1, <2>2 DEF TypeOK, GenerationTypeOK
  <2>3. CASE h = g
    <3>1. error'[h] = Merge(error[h], lerror[t]) /\ panic'[h] = Merge(panic[h], lpanic[t])
      BY <1>1, <2>3 DEF TypeOK, GenerationTypeOK
    <3>2. \A kind : Ended(g, Done(g)', kind) = Ended(g, Done(g), kind) \cup Ended(g, claimed[t], kind)
      BY <1>2 DEF Ended
    <3>3. /\ IsLowest(lerror[t], Ended(g, claimed[t], "err"))
          /\ IsLowest(lpanic[t], Ended(g, claimed[t], "panic"))
      BY DEF Failures, BatchFailures
    <3>4. \A kind : Ended(g, Done(g), kind) \in SUBSET Indices /\ Ended(g, claimed[t], kind) \in SUBSET Indices
      BY DEF Ended, Done, TypeOK, LocalTypeOK
    <3> QED BY <2>1, <2>3, <3>1, <3>2, <3>3, <3>4, LowestUnion
  <2> QED BY <2>2, <2>3
<1> QED BY <1>3, <1>4 DEF Failures

(* The failure records are inductive relative to the ledger. *)
LEMMA FailuresStep ==
    TypeOK /\ Control /\ Ledger /\ Failures /\ [Next]_vars => Failures'
<1> SUFFICES ASSUME TypeOK, Control, Ledger, Failures, [Next]_vars PROVE Failures'
  OBVIOUS
<1>1. CASE UNCHANGED vars
  <2>1. UNCHANGED <<batch, claimed, outcome, lerror, lpanic, error, panic, answer, run, pending, registered>>
    BY <1>1 DEF vars, genVars, localVars, history
  <2>2. \A g : Done(g)' = Done(g)
    BY <2>1 DEF Done, HeldBy, Front
  <2> QED BY <2>1, <2>2, FailuresFrame
<1>2. ASSUME NEW owned \in BOOLEAN, Register(owned) PROVE Failures'
  <2>1. UNCHANGED <<batch, claimed, outcome, lerror, lpanic, error, panic, answer, run>>
    BY <1>2 DEF Register, localVars, history
  <2>2. \A g \in Gens : Done(g)' = Done(g)
    BY <1>2, RegisterLedger
  <2> QED BY <2>1, <2>2, FailuresFrame
<1>3. CASE Wait \/ End \/ CallerInternal
  <2>1. UNCHANGED <<batch, claimed, outcome, lerror, lpanic, error>>
    BY <1>3 DEF Wait, End, CallerInternal, Submit, Notify, Join, Reclaim, genVars, localVars, history
  <2>2. \A g \in Gens : Done(g)' = Done(g)
    BY <1>3, CallerLedger
  <2>3. \A t \in Threads : pc[t] = "exec" => run'[t] = run[t]
    BY <1>3, Constants DEF TypeOK, ControlTypeOK, Wait, End, CallerInternal, Submit, Notify, Join, Reclaim
  <2>4. ASSUME NEW g \in Gens, answer'[g] = NoAnswer PROVE answer[g] = NoAnswer /\ panic'[g] = panic[g]
    <3>1. CASE ~Join
      BY <1>3, <2>4, <3>1 DEF Wait, End, CallerInternal, Submit, Notify, Reclaim, genVars, history
    <3>2. CASE Join
      <4>1. \/ UNCHANGED <<panic, answer>>
            \/ /\ panic' = [panic EXCEPT ![run[Caller]] = Null]
               /\ \E x : answer' = [answer EXCEPT ![run[Caller]] = <<"panic", x>>]
            \/ /\ panic' = [panic EXCEPT ![run[Caller]] = Null]
               /\ \E x : answer' = [answer EXCEPT ![run[Caller]] = <<"slot", x>>]
        BY <3>2 DEF Join
      <4> QED BY <2>4, <4>1 DEF TypeOK, HistoryTypeOK, GenerationTypeOK, NoAnswer
    <3> QED BY <3>1, <3>2
  <2> QED BY <2>1, <2>2, <2>3, <2>4, FailuresFrame
<1>4. ASSUME NEW t \in Threads,
             Take(t) \/ SpuriousWake(t) \/ (Claim(t) /\ pending[run[t]] = <<>>)
      PROVE  Failures'
  <2>1. UNCHANGED <<batch, claimed, outcome, lerror, lpanic, error, panic, answer>>
    BY <1>4 DEF Take, SpuriousWake, Claim, genVars, localVars, history
  <2>2. \A g \in Gens : Done(g)' = Done(g)
    BY <1>4, IdleLedger
  <2>3. \A u \in Threads : pc[u] = "exec" => run'[u] = run[u]
    BY <1>4 DEF TypeOK, ControlTypeOK, Take, SpuriousWake, Claim
  <2> QED BY <2>1, <2>2, <2>3, FailuresFrame
<1>5. ASSUME NEW t \in Threads, Run(t) PROVE Failures'
  <2>1. run[t] \in Gens
    BY <1>5 DEF Run, Claim, Execute, Publish, Control, Holding
  <2>2. CASE Claim(t) /\ pending[run[t]] = <<>>
    BY <1>4, <2>2
  <2>3. CASE Claim(t) /\ pending[run[t]] # <<>>
    BY <2>1, <2>3, ClaimFailures
  <2>4. CASE Publish(t)
    BY <2>1, <2>4, PublishFailures
  <2>5. ASSUME NEW o \in Outcomes, Execute(t, o) PROVE Failures'
    BY <2>1, <2>5, ExecuteFailures
  <2> QED BY <1>5, <2>2, <2>3, <2>4, <2>5 DEF Run
<1>6. CASE Next
  BY <1>2, <1>3, <1>4, <1>5, <1>6, Constants DEF Next, Step, UserCall
<1> QED BY <1>1, <1>6

-----------------------------------------------------------------------------
(* Owned results *)

(* When the group is reclaimed every generation with a task is answered. *)
LEMMA AllAnswered ==
    ASSUME TypeOK, Control, pc[Caller] = "reclaim", NEW g \in Gens, registered[g] # 0
    PROVE  answer[g] # NoAnswer
<1>1. run[Caller] = NoGen /\ generation = NoGen
  BY DEF Control, CallerPhase
<1>2. gens \in Nat /\ g \in Nat
  BY Constants DEF TypeOK, GroupTypeOK
<1> QED BY <1>1, <1>2, Constants DEF Control, Opened

(* Initially there is no generation and no record. *)
LEMMA GroupsInit == Init => Groups
  BY Constants DEF Init, Groups, Generations, Records, Ordered, DropsFollowRuns

(* A record is appended by the task with the highest index of the last     *)
(* generation.                                                             *)
LEMMA RegisterGroups ==
    ASSUME TypeOK, Control, Ledger, Groups, NEW owned \in BOOLEAN, Register(owned)
    PROVE  Groups'
<1> DEFINE g == IF generation = NoGen THEN gens + 1 ELSE generation
           i == registered[g]
           c == result_cleanup
<1>1. /\ g \in Gens /\ i < MaxTasks /\ generation' = g
      /\ gens' = IF generation = NoGen THEN g ELSE gens
      /\ c' = IF owned THEN Append(c, <<g, i>>) ELSE c
      /\ registered' = [registered EXCEPT ![g] = @ + 1]
      /\ UNCHANGED <<dropped, outcome>>
  BY DEF Register, history
<1>2. gens \in Nat /\ gens' = g /\ gens <= g /\ \A h \in Gens : h <= g => h <= gens \/ h = g
  <2>1. gens \in Nat /\ Gens \subseteq Nat
    BY Constants DEF TypeOK, GroupTypeOK
  <2>2. CASE generation = NoGen
    BY ONLY <1>1, <2>1, <2>2
  <2>3. CASE generation # NoGen
    <3>1. generation = gens
      BY <2>3 DEF Groups, Generations
    <3> QED BY ONLY <1>1, <2>1, <2>3, <3>1
  <2> QED BY <2>2, <2>3
<1> HIDE DEF g
<1>3. \A h \in Gens : /\ registered[h] \in Nat /\ h \in Nat
                      /\ registered'[h] = IF h = g THEN registered[h] + 1 ELSE registered[h]
  BY <1>1, Constants DEF TypeOK, GenerationTypeOK
<1>4. Generations'
  <2>1. \A h \in Gens : h <= gens => registered[h] > 0
    BY DEF Groups, Generations
  <2>2. ASSUME NEW h \in Gens, h <= g PROVE registered'[h] > 0
    BY ONLY <1>1, <1>2, <1>3, <2>1, <2>2
  <2> QED BY <1>1, <1>2, <2>2 DEF Generations
<1>5. c \in Seq(Gens \X Indices) /\ Len(c) \in Nat
  BY DEF TypeOK, GroupTypeOK
<1>6. \A k \in 1..Len(c) :
         /\ c[k] \in Gens \X Indices /\ c[k][1] \in Gens /\ c[k][2] \in Nat
         /\ c[k][2] < registered[c[k][1]]
         /\ \A j \in 1..(k - 1) : Before(c[j], c[k])
  BY <1>5, Constants DEF Groups, Records, Ordered
<1>7. \A k \in 1..Len(c) : Before(c[k], <<g, i>>)
  <2> SUFFICES ASSUME NEW k \in 1..Len(c) PROVE c[k][1] < g \/ (c[k][1] = g /\ c[k][2] < i)
    BY DEF Before
  <2>1. c[k][1] <= gens
    <3>1. c[k][1] > gens => registered[c[k][1]] = 0
      BY <1>6 DEF Control, Opened
    <3> QED BY ONLY <1>2, <1>3, <1>6, <3>1
  <2> QED BY ONLY <1>1, <1>2, <1>3, <1>6, <2>1
<1>8. Records'
  <2>1. ASSUME NEW k \in 1..Len(c) PROVE c[k][2] < registered'[c[k][1]]
    BY ONLY <1>3, <1>6, k \in 1..Len(c)
  <2>2. CASE ~owned
    BY <1>1, <1>6, <2>1, <2>2 DEF Records, Ordered
  <2>3. CASE owned
    <3>1. <<g, i>> \in Gens \X Indices
      <4>1. registered[g] \in Nat /\ MaxTasks \in Nat
        BY <1>1, <1>3, Constants
      <4>2. i \in Indices
        BY ONLY <1>1, <4>1, Constants
      <4> QED BY <1>1, <4>2
    <3>2. /\ Len(c') = Len(c) + 1 /\ c'[Len(c) + 1] = <<g, i>>
          /\ \A k \in 1..Len(c) : c'[k] = c[k]
      BY <1>1, <1>5, <2>3, <3>1, AppendProperties
    <3>3. ASSUME NEW k \in 1..(Len(c) + 1), NEW j \in 1..(k - 1) PROVE Before(c'[j], c'[k])
      <4>1. j \in 1..Len(c) /\ (k \in 1..Len(c) \/ k = Len(c) + 1)
        BY ONLY <1>5, <3>3
      <4> QED BY <1>6, <1>7, <3>2, <4>1
    <3>4. ASSUME NEW k \in 1..(Len(c) + 1) PROVE c'[k][2] < registered'[c'[k][1]]
      <4>1. k \in 1..Len(c) \/ k = Len(c) + 1
        BY ONLY <1>5, <3>4
      <4>2. i < registered'[g]
        BY <1>1, <1>3
      <4> QED BY <2>1, <3>2, <4>1, <4>2
    <3> QED BY <3>2, <3>3, <3>4 DEF Records, Ordered
  <2> QED BY <2>2, <2>3
<1> QED BY <1>1, <1>4, <1>8 DEF Groups, DropsFollowRuns

(* Reclaiming drops the records of tasks that have all run. *)
LEMMA ReclaimGroups ==
    ASSUME TypeOK, Control, Ledger, Groups, Reclaim
    PROVE  Groups'
<1> DEFINE c == result_cleanup
<1>1. /\ pc[Caller] = "reclaim" /\ dropped' = c /\ result_cleanup' = <<>>
      /\ UNCHANGED <<generation, gens, registered, outcome>>
  BY DEF Reclaim, genVars, history
<1>2. \A k \in 1..Len(c) : /\ c[k][1] \in Gens /\ c[k][2] \in Indices
                           /\ c[k][2] < registered[c[k][1]]
                           /\ \A j \in 1..(k - 1) : Before(c[j], c[k])
  <2>1. c \in Seq(Gens \X Indices)
    BY DEF TypeOK, GroupTypeOK
  <2>2. \A k \in 1..Len(c) : c[k] \in Gens \X Indices
    BY ONLY <2>1, ElementOfSeq
  <2> QED BY <2>2 DEF Groups, Records, Ordered
<1>3. ASSUME NEW g \in Gens, NEW i \in Indices, i < registered[g] PROVE outcome[g][i] # Unrun
  <2>1. registered[g] \in 0..MaxTasks
    BY DEF TypeOK, GenerationTypeOK
  <2>2. registered[g] # 0
    BY ONLY <1>3, <2>1, Constants
  <2>3. completed[g] = registered[g]
    BY <1>1, <2>2, AllAnswered DEF Ledger, Counted
  <2> QED BY <1>3, <2>3, FullCount
<1>4. DropsFollowRuns'
  BY <1>1, <1>2, <1>3 DEF DropsFollowRuns, Before
<1> QED BY <1>1, <1>4 DEF Groups, Generations, Records, Ordered

(* The remaining steps keep the records, and never forget an outcome. *)
LEMMA OtherGroups ==
    ASSUME TypeOK, Control, Ledger, Groups,
           UNCHANGED <<gens, result_cleanup, dropped, registered>>,
           generation' \in {generation, NoGen},
           \A g \in Gens : \A i \in Indices : outcome[g][i] # Unrun => outcome'[g][i] # Unrun
    PROVE  Groups'
<1>1. dropped \in Seq(Gens \X Indices)
  BY DEF TypeOK, GroupTypeOK
<1>2. \A k \in 1..Len(dropped) : dropped[k] \in Gens \X Indices
  BY ONLY <1>1, ElementOfSeq
<1>3. DropsFollowRuns'
  BY <1>2 DEF Groups, DropsFollowRuns
<1> QED BY <1>3 DEF Groups, Generations, Records, Ordered

(* The group's bookkeeping is inductive. *)
LEMMA GroupsStep ==
    TypeOK /\ Control /\ Ledger /\ Groups /\ [Next]_vars => Groups'
<1> SUFFICES ASSUME TypeOK, Control, Ledger, Groups, [Next]_vars PROVE Groups'
  OBVIOUS
<1>1. CASE UNCHANGED vars
  BY <1>1, OtherGroups DEF vars, groupVars, genVars, history
<1>2. CASE Wait \/ End \/ Submit \/ Notify \/ Join
  BY <1>2, OtherGroups DEF Wait, End, Submit, Notify, Join, genVars, groupVars, history
<1>3. ASSUME NEW t \in Threads, Take(t) \/ SpuriousWake(t) \/ Claim(t) \/ Publish(t) PROVE Groups'
  BY <1>3, OtherGroups DEF Take, SpuriousWake, Claim, Publish, genVars, groupVars, history
<1>4. ASSUME NEW t \in Threads, NEW o \in Outcomes, Execute(t, o) PROVE Groups'
  <2>1. /\ UNCHANGED <<gens, result_cleanup, dropped, registered, generation>>
        /\ outcome' = [outcome EXCEPT ![run[t]][Head(batch[t])] = o]
    BY <1>4 DEF Execute, genVars, groupVars
  <2>2. o # Unrun
    BY DEF Outcomes, Unrun
  <2>3. \A g \in Gens : \A i \in Indices : outcome[g][i] # Unrun => outcome'[g][i] # Unrun
    BY <2>1, <2>2 DEF TypeOK, HistoryTypeOK
  <2> QED BY <2>1, <2>3, OtherGroups
<1>5. CASE Next
  BY <1>2, <1>3, <1>4, <1>5, RegisterGroups, ReclaimGroups, Constants
  DEF Next, Step, UserCall, CallerInternal, Run
<1> QED BY <1>1, <1>5

(* The complete inductive invariant of the scheduler. *)
THEOREM Scheduler == Spec => [](TypeOK /\ Control /\ Ledger /\ Failures /\ Groups)
<1>1. Init => Failures /\ Groups
  BY FailuresInit, GroupsInit
<1>2. TypeOK /\ Control /\ Ledger /\ Failures /\ Groups /\ [Next]_vars => (Failures /\ Groups)'
  BY FailuresStep, GroupsStep
<1> QED BY <1>1, <1>2, Inductive, PTL DEF Spec

(* Owned results are dropped only after the task that writes them ran, and *)
(* in spawn order, although the records survive earlier waits.             *)
THEOREM DropsInOrder == Spec => []DropsFollowRuns
<1>1. Groups => DropsFollowRuns
  BY DEF Groups
<1> QED BY <1>1, Scheduler, PTL

-----------------------------------------------------------------------------
(* Refinement *)

(* The contract's constants are the scheduler's. *)
LEMMA SameConstants ==
    /\ FJ!Gens = Gens /\ FJ!Indices = Indices /\ FJ!Outcomes = Outcomes
    /\ FJ!Unrun = Unrun /\ FJ!NoAnswer = NoAnswer /\ FJ!Null = Null
  BY DEF FJ!Gens, FJ!Indices, FJ!Outcomes, FJ!Unrun, FJ!NoAnswer, FJ!Null,
         Gens, Indices, Outcomes, Unrun, NoAnswer, Null

(* A registration is a spawn. *)
LEMMA RegisterSpawns ==
    ASSUME TypeOK, Control, NEW owned \in BOOLEAN, Register(owned)
    PROVE  FJ!Next
<1> DEFINE g == IF generation = NoGen THEN gens + 1 ELSE generation
<1>1. /\ g \in Gens /\ registered[g] < MaxTasks /\ pc[Caller] = "user"
      /\ registered' = [registered EXCEPT ![g] = @ + 1]
      /\ UNCHANGED <<outcome, answer, arena>>
  BY DEF Register, history
<1>2. answer[g] = NoAnswer
  BY <1>1, Constants DEF TypeOK, GroupTypeOK, Control, CallerPhase, Opened
<1>3. arena = "live"
  BY <1>1 DEF Control, CallerPhase, TypeOK, GroupTypeOK
<1> HIDE DEF g
<1>4. FJ!Spawn(g)
  BY <1>1, <1>2, <1>3, SameConstants DEF FJ!Spawn
<1> QED BY <1>1, <1>4, SameConstants DEF FJ!Next

(* A trampoline call that returns finishes a task of a generation that is  *)
(* not yet answered.                                                       *)
LEMMA ExecuteFinishes ==
    ASSUME TypeOK, Control, Ledger, NEW t \in Threads, NEW o \in Outcomes, Execute(t, o)
    PROVE  FJ!Next
<1> DEFINE g == run[t]
           i == Head(batch[t])
<1>1. /\ pc[t] = "exec" /\ batch[t] # <<>> /\ outcome' = [outcome EXCEPT ![g][i] = o]
      /\ UNCHANGED <<registered, answer, arena>>
  BY DEF Execute, genVars, groupVars
<1>2. arena = "live" /\ answer[g] = NoAnswer
  BY <1>1, StillLive DEF NoTouchAfterJoin, Running
<1>3. g \in Gens /\ i \in Indices /\ i < Front(g) /\ outcome[g][i] = Unrun
  <2>1. batch[t] \in Seq(Indices) /\ claimed[t] \subseteq Indices
    BY DEF TypeOK, LocalTypeOK
  <2>2. 1 \in 1..Len(batch[t]) /\ i = batch[t][1]
    BY ONLY <1>1, <2>1
  <2> QED BY <1>1, <2>1, <2>2 DEF Ledger, BatchesHold, Control, Holding
<1>4. i < registered[g]
  <2>1. registered[g] \in 0..MaxTasks /\ Front(g) \in 0..registered[g]
    BY <1>3, FrontType DEF Ledger
  <2> QED BY ONLY <1>3, <2>1, Constants
<1> HIDE DEF g, i
<1>5. FJ!Finish(g, i, o)
  BY <1>1, <1>2, <1>3, <1>4, SameConstants DEF FJ!Finish
<1> QED BY <1>3, <1>5, SameConstants DEF FJ!Next

(* A join that answers names the lowest failure of the whole generation.   *)
LEMMA JoinAnswers ==
    ASSUME TypeOK, Control, Ledger, Failures, Groups, Join
    PROVE  FJ!Next \/ UNCHANGED <<registered, outcome, answer, arena>>
<1> DEFINE g == run[Caller]
<1>1. /\ pc[Caller] = "join" /\ g \in Gens /\ UNCHANGED <<registered, outcome, arena>>
  BY DEF Join, Control, Holding, groupVars
<1>2. CASE ~JoinDone(g)
  BY <1>1, <1>2 DEF Join
<1>3. CASE JoinDone(g)
  <2>1. answer' = [answer EXCEPT ![g] = IF panic[g] # Null THEN <<"panic", panic[g]>>
                                        ELSE <<"slot", error[g]>>]
    BY <1>3 DEF Join
  <2>2. arena = "live" /\ answer[g] = NoAnswer /\ g <= gens
    BY <1>1, Constants DEF Control, CallerPhase, Opened, TypeOK, GroupTypeOK
  <2>3. registered[g] > 0
    BY <1>1, <2>2 DEF Groups, Generations
  <2>4. /\ pending[g] = <<>>
        /\ \A i \in Indices : i < registered[g] => outcome[g][i] # Unrun
        /\ \A t \in Threads : run[t] = g => claimed[t] = {}
    BY <1>1, <1>3, FullCount DEF JoinDone
  <2>5. Front(g) = registered[g]
    <3>1. registered[g] \in Int /\ Len(pending[g]) = 0
      BY <1>1, <2>4, Constants DEF TypeOK, GenerationTypeOK
    <3> QED BY ONLY <3>1 DEF Front
  <2>6. ASSUME NEW kind \in {"err", "panic"}
        PROVE  FJ!Failing(outcome[g], kind) = Ended(g, Done(g), kind)
    <3>1. ASSUME NEW i \in Indices, outcome[g][i] = kind PROVE i \in Done(g)
      <4>1. outcome[g][i] # Unrun
        BY <3>1 DEF Unrun
      <4>2. i < Front(g)
        <5>1. registered[g] \in Int /\ i \in Int
          <6>1. registered[g] \in 0..MaxTasks
            BY <1>1 DEF TypeOK, GenerationTypeOK
          <6> QED BY ONLY <6>1, Constants, i \in Indices
        <5>2. ~(i >= Front(g))
          BY <1>1, <4>1 DEF Ledger, QueueIsTail
        <5> QED BY ONLY <2>5, <5>1, <5>2
      <4> QED BY <2>4, <4>2 DEF Done, HeldBy
    <3>2. Done(g) \subseteq Indices
      BY DEF Done
    <3> QED BY <3>1, <3>2, SameConstants DEF FJ!Failing, Ended
  <2>7. /\ IsLowest(error[g], Ended(g, Done(g), "err"))
        /\ IsLowest(panic[g], Ended(g, Done(g), "panic"))
        /\ \A kind : Ended(g, Done(g), kind) \in SUBSET Indices
    BY <1>1, <2>2 DEF Failures, Merged, Ended, Done
  <2>8. /\ FJ!Lowest(FJ!Failing(outcome[g], "err")) = error[g]
        /\ FJ!Lowest(FJ!Failing(outcome[g], "panic")) = panic[g]
    BY <2>6, <2>7, LowestUnique
  <2>9. FJ!Failing(outcome[g], "panic") # {} <=> panic[g] # Null
    BY <2>6, <2>7, Constants DEF IsLowest
  <2>10. answer' = [answer EXCEPT ![g] = FJ!AnswerOf(outcome[g])]
    BY <2>1, <2>8, <2>9 DEF FJ!AnswerOf
  <2>11. FJ!Join(g)
    BY <1>1, <2>2, <2>3, <2>4, <2>10, SameConstants DEF FJ!Join
  <2> QED BY <1>1, <2>11, SameConstants DEF FJ!Next
<1> QED BY <1>2, <1>3

(* The storage is released when every generation has been answered. *)
LEMMA ReclaimReleases ==
    ASSUME TypeOK, Control, Reclaim
    PROVE  FJ!Next
<1>1. /\ pc[Caller] = "reclaim" /\ arena' = "freed" /\ UNCHANGED <<registered, outcome, answer>>
  BY DEF Reclaim, genVars, history
<1>2. arena = "live"
  BY <1>1 DEF Control, CallerPhase, TypeOK, GroupTypeOK
<1>3. \A g \in Gens : registered[g] > 0 => answer[g] # NoAnswer
  <2>1. \A g \in Gens : registered[g] > 0 => registered[g] # 0
    BY DEF TypeOK, GenerationTypeOK
  <2> QED BY <1>1, <2>1, AllAnswered
<1> QED BY <1>1, <1>2, <1>3, SameConstants DEF FJ!Next, FJ!Reclaim

(* Every step of the scheduler is a step of the contract or invisible. *)
LEMMA StepImplements ==
    TypeOK /\ Control /\ Ledger /\ Failures /\ Groups /\ [Next]_vars => [FJ!Next]_FJ!vars
<1> SUFFICES ASSUME TypeOK, Control, Ledger, Failures, Groups, [Next]_vars
             PROVE  FJ!Next \/ UNCHANGED <<registered, outcome, answer, arena>>
  BY DEF FJ!vars
<1>1. CASE UNCHANGED vars
  BY <1>1 DEF vars, genVars, groupVars, history
<1>2. CASE Wait \/ End \/ Submit \/ Notify
  BY <1>2 DEF Wait, End, Submit, Notify, genVars, groupVars, history
<1>3. ASSUME NEW t \in Threads, Take(t) \/ SpuriousWake(t) \/ Claim(t) \/ Publish(t)
      PROVE  UNCHANGED <<registered, outcome, answer, arena>>
  BY <1>3 DEF Take, SpuriousWake, Claim, Publish, genVars, groupVars, history
<1>4. CASE Next
  BY <1>2, <1>3, <1>4, RegisterSpawns, ExecuteFinishes, JoinAnswers, ReclaimReleases, Constants
  DEF Next, Step, UserCall, CallerInternal, Run
<1> QED BY <1>1, <1>4

(* The scheduler implements the fork/join contract: tasks finish while the *)
(* storage lives, a wait answers once, after every task of its generation, *)
(* with the lowest panic or else the lowest error, and the storage is      *)
(* released once.                                                          *)
THEOREM Refinement == Spec => ImplementsForkJoin
<1>1. Init => FJ!Init
  BY SameConstants DEF Init, FJ!Init
<1> QED BY <1>1, StepImplements, Scheduler, PTL DEF Spec, ImplementsForkJoin, FJ!Spec
=============================================================================
