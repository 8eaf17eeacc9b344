------------------------------- MODULE MCBuild ------------------------------
(***************************************************************************)
(* Instances of the driver's caches, its codegen pipeline and its link     *)
(* step for TLC.  They share no state, so their interleavings say nothing: *)
(* each behaviour runs one part and leaves the others in their initial     *)
(* states.                                                                 *)
(***************************************************************************)
EXTENDS UnitCache, ObjectCache, ObjectMemo, CodegenPipeline, LinkPublish, TLC

CONSTANTS Parts,              \* the parts a run covers
          p1, p2, t3, t4,     \* processes, or threads of one
          k1, k2,             \* keys
          o1, o2,             \* digests of objects
          f1, f2              \* object file paths

VARIABLE part

unitVars == vars
buildVars == <<part, unitVars, objectVars, memoVars, pipeVars, linkVars>>

(***************************************************************************)
(* The object cache: k1 has one object, k2 may be compiled to either; the  *)
(* release ships damaged bytes for k1.  Heal: one key with two objects,    *)
(* whose packaged blob is missing.                                         *)
(***************************************************************************)
BuildObjects == k1 :> {o1} @@ k2 :> {o1, o2}
BuildPackagedAction == k1 :> o1 @@ k2 :> NoDigest
BuildPackagedBlob == o1 :> "bad" @@ o2 :> "good"

Heal == INSTANCE ObjectCache WITH
    ObjectKeys <- {k1}, Objects <- k1 :> {o1, o2},
    PhaseKeys <- {}, PackagedAction <- k1 :> o1, PackagedBlob <- o1 :> "none" @@ o2 :> "none"

(***************************************************************************)
(* The session memo, with a path per thread; and three threads on one      *)
(* path, with one budget and no other content.                             *)
(***************************************************************************)
BuildBudget == 3
BuildCharge == k1 :> 1 @@ k2 :> 2
BuildAssignments == {t3 :> {f1} @@ t4 :> {f2} @@ p1 :> {} @@ p2 :> {},
                     t3 :> {f1} @@ t4 :> {} @@ p1 :> {f1} @@ p2 :> {f1}}

(***************************************************************************)
(* The codegen pipeline: three units on -j 3 with failing frontend and     *)
(* codegen; the same with every failure of setup and panics, the third     *)
(* unit being in the object cache; and two units for liveness.             *)
(***************************************************************************)
Ending == INSTANCE CodegenPipeline WITH
    N <- 2, Verdicts <- {"ok", "err", "panic"}, Kinds <- {"hit", "fresh", "reused", "stale"},
    Setups <- {"ok"}, FrontMayFail <- FALSE

(***************************************************************************)
(* The link step: two callers; a pump of two streams; a copy that others   *)
(* write to; and a pump whose reads do not fail, for liveness.  In the     *)
(* last three only one call gets the lease.                                *)
(***************************************************************************)
Linking == INSTANCE LinkPublish WITH Calls <- {p1}, MaxWrites <- 0, Foreign <- 0, ReadsFail <- FALSE

Silent == \A c \in Calls, s \in Streams : pipe[c][s].put = 0
Alone == lease # None => \A c \in Calls \ {lease} : CallAt(c, "done") /\ stage[c].known = 0
Healthy == \A c \in Calls : ~call[c].err /\ ~call[c].stop /\ ~call[c].panic

ASSUME BuildConstants ==
    /\ Heal!ObjectCacheAssumption
    /\ Ending!PipelineAssumption
    /\ Linking!LinkAssumption

(***************************************************************************)
(* Each part on its own.                                                   *)
(***************************************************************************)
BuildInit ==
    /\ part \in Parts
    /\ Init
    /\ IF part = "heal" THEN Heal!ObjectInit ELSE ObjectInit
    /\ MemoInit
    /\ CASE part = "memo" -> Private
         [] part = "shared" -> ~Private /\ cap = BuildBudget
         [] OTHER -> enabled /\ ~Private /\ cap = BuildBudget
    /\ IF part = "ending" THEN Ending!PipeInit ELSE PipeInit
    /\ CASE part = "pipeline" -> setup = "ok" /\ \A u \in Units : verdict[u] # "panic"
         [] part = "failing" -> verdict[N] = "ok"
         [] part = "ending" -> TRUE
         [] OTHER -> setup = "ok" /\ \A u \in Units : verdict[u] = "ok"
    /\ IF part = "linking" THEN Linking!LinkInit ELSE LinkInit

UnitStep ==
    /\ part = "unit"
    /\ Next
    /\ UNCHANGED <<part, objectVars, memoVars, pipeVars, linkVars>>

(* In object a clear is the last fault, and no driver is left alone: solo  *)
(* is for heal.                                                            *)
ObjectStep ==
    /\ \/ /\ part = "object"
          /\ ObjectNext
          /\ solo' = NoDriver
          /\ clearing' # "off" => faults' = MaxFaults
       \/ part = "heal" /\ Heal!ObjectNext
    /\ UNCHANGED <<part, unitVars, memoVars, pipeVars, linkVars>>

(* The three threads of shared keep the settings they start with; memo     *)
(* changes them.                                                           *)
MemoStep ==
    /\ \/ part = "memo" /\ MemoNext
       \/ part = "shared" /\ MemoNext /\ UNCHANGED <<enabled, cap, others>>
    /\ UNCHANGED <<part, unitVars, objectVars, pipeVars, linkVars>>

PipelineStep ==
    /\ \/ part = "pipeline" /\ PipeNext /\ ~KeyError'
       \/ part = "failing" /\ PipeNext /\ kind'[N] \in {"none", "hit"}
       \/ part = "ending" /\ Ending!PipeNext
    /\ UNCHANGED <<part, unitVars, objectVars, memoVars, linkVars>>

LinkStep ==
    /\ \/ part = "callers" /\ LinkNext /\ Silent' /\ UNCHANGED budget
       \/ part = "pump" /\ LinkNext /\ Alone' /\ UNCHANGED budget
       \/ part = "isolate" /\ LinkNext /\ Alone' /\ Silent' /\ Healthy'
       \/ part = "linking" /\ Linking!LinkNext
    /\ UNCHANGED <<part, unitVars, objectVars, memoVars, pipeVars>>

BuildNext == UnitStep \/ ObjectStep \/ MemoStep \/ PipelineStep \/ LinkStep

BuildSpec == BuildInit /\ [][BuildNext]_buildVars

\* The fairness of each part: the driver's threads and the tools it runs take their steps.
BuildFairSpec ==
    /\ BuildSpec
    /\ \A p \in Drivers : WF_objectVars(part = "heal" /\ Heal!Run(p))
    /\ WF_pipeVars(part = "ending" /\ Ending!Coordinator)
    /\ \A w \in 0..3 : WF_pipeVars(part = "ending" /\ Ending!Worker(w))
    /\ WF_linkVars(part = "linking" /\ Linking!CallerStep(p1))
    /\ WF_linkVars(part = "linking" /\ Linking!ToolStep(p1))

Symmetric == Permutations({p1, p2})

-----------------------------------------------------------------------------
(***************************************************************************)
(* Properties.  A part that does not run is in its initial state.          *)
(***************************************************************************)

\* A driver left alone with the root compiles a key a last time and then always reuses it.
KeyHeals == Heal!EventuallyReused

\* Every build ends: no worker sleeps through the last task, the close or a cancellation.
BuildEnds == part = "ending" => Ending!PipelineEnds

\* A link returns: no pipe, child or lease is waited for in vain, as long as reads do not fail.
LinkReturns == part = "linking" => Linking!CallsReturn
=============================================================================
