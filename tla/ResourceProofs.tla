--------------------------- MODULE ResourceProofs ---------------------------
(***************************************************************************)
(* Proofs about three owners of what outlives a call: ProcessScope, for    *)
(* any handles, scopes, process ids and number of forks and thefts,        *)
(* DbPool, for any capacity and any number of connections, and             *)
(* SignalLease, for any clients, handler invocations, number of signals    *)
(* and generation limit.                                                   *)
(***************************************************************************)
EXTENDS SignalLease, ProcessScope, DbPool, FiniteSetTheorems, SequenceTheorems, WellFoundedInduction,
        TLAPS

-----------------------------------------------------------------------------
(***************************************************************************)
(* Child processes and exclusive scopes.  ScopesExclusive alone is not     *)
(* inductive: Table ties an owner to the process it launched, Descent ties *)
(* what a scope has not reaped to us, OwnerState says what an owner knows  *)
(* at each point of its launch, wait or Drop.                              *)
(***************************************************************************)

(* The process table: an unused id has no parent and no history, a parent  *)
(* runs, and what an owner launched stays our child until it is reaped.    *)
Table ==
    /\ \A p \in Pids : st[p] = "free" => parent[p] = Pid1 /\ of[p] = None /\ line[p] = None
    /\ \A p \in Pids : parent[p] \in Pids => st[parent[p]] = "run"
    /\ \A p \in Pids : of[p] \in Owners => parent[p] = Us

(* What is left of a scope's descendants descends from us, and its scope   *)
(* is open.                                                                *)
Descent == \A p \in Pids : line[p] \in Scopes => line[p] \in Open /\ Ours(p)

(* An owner without a child has none of its flags; an ordinary child is    *)
(* counted exactly as long as it may be signalled or its status was just   *)
(* taken; a closed scope has nothing left to signal.                       *)
OwnerState(o) ==
    /\ owner[o] \in {"none", "clone"} => pid[o] = NoPid /\ ~reaped[o] /\ ~lost[o] /\ ~tracked[o]
    /\ owner[o] = "closed" => ~MaySignal(o)
    /\ o \in Scopes => ~tracked[o]
    /\ o \in Handles =>
         /\ owner[o] \notin {"closed", "drop", "dropkill", "dropreap", "aborted"}
         /\ owner[o] \in {"handshake", "cleanup", "reap"} => MaySignal(o)
         /\ owner[o] \in {"untrack", "untrackgone"} => ~MaySignal(o)
         /\ owner[o] \in {"handshake", "cleanup", "reap", "live"} => (tracked[o] <=> MaySignal(o))

ScopeInv ==
    /\ ScopeTypeOK /\ PidPinned /\ Counted /\ ScopeExclusive
    /\ Table /\ Descent
    /\ \A o \in Owners : OwnerState(o)

(* Nothing runs and nothing is owned. *)
LEMMA ScopeInitInv == ScopeInit => ScopeInv
<1>. SUFFICES ASSUME ScopeInit PROVE ScopeInv
  OBVIOUS
<1>1. ScopeTypeOK
  <2>1. forks \in 0..MaxForks /\ thefts \in 0..MaxThefts /\ children \in Nat
    BY ProcessScopeAssumption DEF ScopeInit
  <2>. QED BY <2>1 DEF ScopeInit, ScopeTypeOK
<1>2. Table
  BY ProcessScopeAssumption DEF ScopeInit, Table
<1>3. Open = {} /\ \A o \in Owners : ~MaySignal(o)
  BY DEF ScopeInit, Open, MaySignal, Owners
<1>4. {h \in Handles : owner[h] = "clone" \/ tracked[h]} = {}
  BY DEF ScopeInit, Owners
<1>5. Counted
  BY <1>4, FS_EmptySet DEF ScopeInit, Counted
<1>6. PidPinned /\ ScopeExclusive
  BY <1>3 DEF ScopeInit, PidPinned, ScopeExclusive, Owners
<1>7. Descent
  BY ProcessScopeAssumption DEF ScopeInit, Descent, Owners
<1>8. \A o \in Owners : OwnerState(o)
  BY <1>3 DEF ScopeInit, OwnerState
<1>. QED BY <1>1, <1>2, <1>5, <1>6, <1>7, <1>8 DEF ScopeInv

(***************************************************************************)
(* The process table: descent from us is kept by every kernel step.        *)
(***************************************************************************)
Closed(S) == \A q \in Pids : parent[q] \in S \cup {Us} => q \in S

(* A new process under Us, init or a running parent hides nobody. *)
LEMMA StartKeeps ==
    ASSUME NEW q \in Pids, NEW par \in Pids \cup {Us, Pid1}, NEW o \in Owners \cup {None},
           NEW l \in Owners \cup {None}, ScopeTypeOK, Table,
           st[q] = "free", par \in Pids => st[par] = "run", o \in Owners => par = Us,
           Started(q, par, o, l)
    PROVE  /\ Table'
           /\ \A p \in Pids : Ours(p) => Ours(p)'
           /\ par = Us \/ (par \in Pids /\ Ours(par)) => Ours(q)'
<1>1. parent' = [parent EXCEPT ![q] = par] /\ st' = [st EXCEPT ![q] = "run"]
      /\ of' = [of EXCEPT ![q] = o] /\ line' = [line EXCEPT ![q] = l]
  BY DEF Started
<1>2. parent[q] = Pid1
  BY DEF Table
<1>3. ASSUME NEW S \in SUBSET Pids, Closed(S)' PROVE Closed(S)
  <2>1. ASSUME NEW x \in Pids, parent[x] \in S \cup {Us} PROVE x \in S
    <3>1. x # q
      BY <1>2, <2>1, ProcessScopeAssumption
    <3>2. parent'[x] = parent[x]
      BY <1>1, <3>1 DEF ScopeTypeOK
    <3>. QED BY <1>3, <2>1, <3>2 DEF Closed
  <2>. QED BY <2>1 DEF Closed
<1>4. ASSUME NEW p \in Pids, Ours(p) PROVE Ours(p)'
  BY <1>3, <1>4 DEF Ours, Closed
<1>5. ASSUME par = Us \/ (par \in Pids /\ Ours(par)) PROVE Ours(q)'
  <2>1. ASSUME NEW S \in SUBSET Pids, Closed(S)' PROVE q \in S
    <3>1. par \in S \cup {Us}
      BY <1>3, <1>5, <2>1 DEF Ours, Closed
    <3>2. parent'[q] = par
      BY <1>1 DEF ScopeTypeOK
    <3>. QED BY <2>1, <3>1, <3>2 DEF Closed
  <2>. QED BY <2>1 DEF Ours, Closed
<1>6. Table'
  <2>1. ASSUME NEW p \in Pids, st'[p] = "free"
        PROVE  parent'[p] = Pid1 /\ of'[p] = None /\ line'[p] = None
    BY <1>1, <2>1 DEF Table, ScopeTypeOK
  <2>2. ASSUME NEW p \in Pids, parent'[p] \in Pids PROVE st'[parent'[p]] = "run"
    BY <1>1, <2>2 DEF Table, ScopeTypeOK
  <2>3. ASSUME NEW p \in Pids, of'[p] \in Owners PROVE parent'[p] = Us
    BY <1>1, <2>3 DEF Table, ScopeTypeOK
  <2>. QED BY <2>1, <2>2, <2>3 DEF Table
<1>. QED BY <1>4, <1>5, <1>6

(* A reaped process has no children, so nobody descends through it. *)
LEMMA FreeKeeps ==
    ASSUME NEW p \in Pids, ScopeTypeOK, Table, st[p] = "zombie", Freed(p)
    PROVE  /\ Table'
           /\ \A q \in Pids : q # p /\ Ours(q) => Ours(q)'
<1>1. parent' = [parent EXCEPT ![p] = Pid1] /\ st' = [st EXCEPT ![p] = "free"]
      /\ of' = [of EXCEPT ![p] = None] /\ line' = [line EXCEPT ![p] = None]
  BY DEF Freed
<1>2. \A q \in Pids : parent[q] # p
  BY DEF Table
<1>3. ASSUME NEW q \in Pids, q # p, Ours(q), NEW S \in SUBSET Pids, Closed(S)' PROVE q \in S
  <2>1. ASSUME NEW x \in Pids, parent[x] \in (S \cup {p}) \cup {Us} PROVE x \in S \cup {p}
    <3>1. x = p \/ parent'[x] = parent[x]
      BY <1>1 DEF ScopeTypeOK
    <3>2. parent[x] \in S \cup {Us}
      BY <1>2, <2>1
    <3>. QED BY <1>3, <3>1, <3>2 DEF Closed
  <2>2. S \cup {p} \in SUBSET Pids
    OBVIOUS
  <2>. QED BY <1>3, <2>1, <2>2 DEF Ours
<1>4. ASSUME NEW q \in Pids, q # p, Ours(q) PROVE Ours(q)'
  BY <1>3, <1>4 DEF Ours, Closed
<1>5. Table'
  <2>1. ASSUME NEW q \in Pids, st'[q] = "free"
        PROVE  parent'[q] = Pid1 /\ of'[q] = None /\ line'[q] = None
    BY <1>1, <2>1 DEF Table, ScopeTypeOK
  <2>2. ASSUME NEW q \in Pids, parent'[q] \in Pids PROVE st'[parent'[q]] = "run"
    BY <1>1, <1>2, <2>2, ProcessScopeAssumption DEF Table, ScopeTypeOK
  <2>3. ASSUME NEW q \in Pids, of'[q] \in Owners PROVE parent'[q] = Us
    BY <1>1, <2>3, ProcessScopeAssumption DEF Table, ScopeTypeOK
  <2>. QED BY <2>1, <2>2, <2>3 DEF Table
<1>. QED BY <1>4, <1>5

(* The children of a process that exits are adopted: by us, if it          *)
(* descended from us and we are their subreaper.                           *)
LEMMA ExitKeeps ==
    ASSUME NEW p \in Pids, ScopeTypeOK, Table, Exit(p)
    PROVE  /\ Table'
           /\ subreaper => \A q \in Pids : Ours(q) => Ours(q)'
<1>. DEFINE heir == IF Ours(p) /\ subreaper THEN Us ELSE Pid1
<1>1. /\ parent' = [q \in Pids |-> IF parent[q] # p THEN parent[q] ELSE heir]
      /\ st' = [st EXCEPT ![p] = "zombie"] /\ UNCHANGED <<of, line>> /\ st[p] = "run"
  BY DEF Exit
<1>2. ASSUME subreaper, NEW q \in Pids, Ours(q), NEW S \in SUBSET Pids, Closed(S)' PROVE q \in S
  <2>1. CASE Ours(p)
    <3>1. ASSUME NEW x \in Pids, parent[x] \in S \cup {Us} PROVE x \in S
      BY <1>1, <1>2, <2>1, <3>1 DEF Closed
    <3>. QED BY <1>2, <3>1 DEF Ours
  <2>2. CASE ~Ours(p)
    <3>1. PICK T \in SUBSET Pids : Closed(T) /\ p \notin T
      BY <2>2 DEF Ours, Closed
    <3>2. ASSUME NEW x \in Pids, parent[x] \in (S \cap T) \cup {Us} PROVE x \in S \cap T
      <4>1. x \in T
        BY <3>1, <3>2 DEF Closed
      <4>2. parent[x] # p
        BY <3>1, <3>2, ProcessScopeAssumption
      <4>3. parent'[x] = parent[x]
        BY <1>1, <4>2
      <4>. QED BY <1>2, <3>2, <4>1, <4>3 DEF Closed
    <3>3. S \cap T \in SUBSET Pids
      OBVIOUS
    <3>. QED BY <1>2, <3>2, <3>3 DEF Ours
  <2>. QED BY <2>1, <2>2
<1>3. ASSUME subreaper, NEW q \in Pids, Ours(q) PROVE Ours(q)'
  BY <1>2, <1>3 DEF Ours, Closed
<1>4. Table'
  <2>1. ASSUME NEW q \in Pids, st'[q] = "free"
        PROVE  parent'[q] = Pid1 /\ of'[q] = None /\ line'[q] = None
    BY <1>1, <2>1, ProcessScopeAssumption DEF Table, ScopeTypeOK
  <2>2. ASSUME NEW q \in Pids, parent'[q] \in Pids PROVE st'[parent'[q]] = "run"
    BY <1>1, <2>2, ProcessScopeAssumption DEF Table, ScopeTypeOK
  <2>3. ASSUME NEW q \in Pids, of'[q] \in Owners PROVE parent'[q] = Us
    BY <1>1, <2>3, ProcessScopeAssumption DEF Table, ScopeTypeOK
  <2>. QED BY <2>1, <2>2, <2>3 DEF Table
<1>. QED BY <1>3, <1>4

(***************************************************************************)
(* Steps of one owner: what the others have is what they had.              *)
(***************************************************************************)
OwnerLabels ==
    {"none", "clone", "handshake", "cleanup", "reap", "live", "untrack", "untrackgone",
     "closed", "drop", "dropkill", "dropreap", "aborted"}

OwnStep(o) ==
    /\ owner' = [owner EXCEPT ![o] = owner'[o]] /\ owner'[o] \in OwnerLabels
    /\ pid' = [pid EXCEPT ![o] = pid'[o]] /\ pid'[o] \in Pids \cup {NoPid}
    /\ tracked' = [tracked EXCEPT ![o] = tracked'[o]] /\ tracked'[o] \in BOOLEAN
    /\ reaped' = [reaped EXCEPT ![o] = reaped'[o]] /\ reaped'[o] \in BOOLEAN
    /\ lost' = [lost EXCEPT ![o] = lost'[o]] /\ lost'[o] \in BOOLEAN

(* The ordinary owners the creation count stands for. *)
Tally == {h \in Handles : owner[h] = "clone" \/ tracked[h]}

OwnerTypes ==
    /\ owner \in [Owners -> OwnerLabels]
    /\ pid \in [Owners -> Pids \cup {NoPid}]
    /\ tracked \in [Owners -> BOOLEAN]
    /\ reaped \in [Owners -> BOOLEAN]
    /\ lost \in [Owners -> BOOLEAN]

TableTypes ==
    /\ st \in [Pids -> {"free", "run", "zombie"}]
    /\ parent \in [Pids -> Pids \cup {Us, Pid1}]
    /\ doomed \in [Pids -> BOOLEAN]
    /\ of \in [Pids -> Owners \cup {None}]
    /\ line \in [Pids -> Owners \cup {None}]

RestTypes ==
    /\ children \in Nat /\ scope \in BOOLEAN /\ subreaper \in BOOLEAN
    /\ slost \in [Scopes -> BOOLEAN]
    /\ forks \in 0..MaxForks /\ thefts \in 0..MaxThefts
    /\ stolen \in BOOLEAN

LEMMA ScopeTypes == ScopeTypeOK <=> OwnerTypes /\ TableTypes /\ RestTypes
BY DEF ScopeTypeOK, OwnerTypes, TableTypes, RestTypes, OwnerLabels

LEMMA OwnFrame ==
    ASSUME NEW o \in Owners, ScopeInv, OwnStep(o), OwnerState(o)'
    PROVE  /\ OwnerTypes'
           /\ \A x \in Owners : OwnerState(x)'
           /\ \A x \in Owners : x # o => /\ owner'[x] = owner[x] /\ pid'[x] = pid[x]
                                         /\ MaySignal(x)' <=> MaySignal(x)
           /\ Tally' = IF o \in Handles /\ (owner'[o] = "clone" \/ tracked'[o])
                       THEN Tally \cup {o} ELSE Tally \ {o}
           /\ Open' = IF o \in Scopes /\ owner'[o] \notin {"none", "closed"}
                      THEN Open \cup {o} ELSE Open \ {o}
<1>1. OwnerTypes
  BY ScopeTypes DEF ScopeInv
<1>2. OwnerTypes'
  BY <1>1 DEF OwnStep, OwnerTypes
<1>3. ASSUME NEW x \in Owners, x # o
      PROVE  /\ owner'[x] = owner[x] /\ pid'[x] = pid[x] /\ tracked'[x] = tracked[x]
             /\ reaped'[x] = reaped[x] /\ lost'[x] = lost[x]
  BY <1>1, <1>3 DEF OwnStep, OwnerTypes
<1>4. ASSUME NEW x \in Owners, x # o PROVE (MaySignal(x)' <=> MaySignal(x)) /\ OwnerState(x)'
  <2>1. MaySignal(x)' <=> MaySignal(x)
    BY <1>3, <1>4 DEF MaySignal
  <2>2. OwnerState(x)
    BY DEF ScopeInv
  <2>. QED BY <1>3, <1>4, <2>1, <2>2 DEF OwnerState
<1>5. Tally' = IF o \in Handles /\ (owner'[o] = "clone" \/ tracked'[o])
               THEN Tally \cup {o} ELSE Tally \ {o}
  BY <1>3 DEF Tally, Owners
<1>6. Open' = IF o \in Scopes /\ owner'[o] \notin {"none", "closed"}
              THEN Open \cup {o} ELSE Open \ {o}
  BY <1>3 DEF Open, Owners
<1>. QED BY <1>2, <1>3, <1>4, <1>5, <1>6

(* The count of a finite set of launches. *)
LEMMA TallyCounts ==
    ASSUME ScopeInv
    PROVE  IsFiniteSet(Tally) /\ children = Cardinality(Tally) /\ Cardinality(Tally) \in Nat
<1>1. IsFiniteSet(Tally)
  BY FS_Subset, ProcessScopeAssumption DEF Tally
<1>. QED BY <1>1, FS_CardinalityType DEF ScopeInv, Counted, Tally

(* The owner's share of the count does not change. *)
LEMMA TallyKept ==
    ASSUME NEW o \in Owners, ScopeInv, OwnStep(o), OwnerState(o)',
           o \in Handles => /\ owner'[o] = "clone" <=> owner[o] = "clone"
                            /\ tracked'[o] = tracked[o]
    PROVE  Tally' = Tally
<1>1. o \in Tally <=> o \in Handles /\ (owner'[o] = "clone" \/ tracked'[o])
  BY DEF Tally
<1>2. Tally' = IF o \in Handles /\ (owner'[o] = "clone" \/ tracked'[o])
               THEN Tally \cup {o} ELSE Tally \ {o}
  BY OwnFrame
<1>3. CASE o \in Tally
  BY <1>1, <1>2, <1>3
<1>4. CASE o \notin Tally
  BY <1>1, <1>2, <1>4
<1>. QED BY <1>3, <1>4

(* Neither opened nor closed. *)
LEMMA OpenKept ==
    ASSUME NEW o \in Owners, ScopeInv, OwnStep(o), OwnerState(o)',
           o \in Scopes => (owner'[o] \in {"none", "closed"} <=> owner[o] \in {"none", "closed"})
    PROVE  Open' = Open
<1>1. o \in Open <=> o \in Scopes /\ owner'[o] \notin {"none", "closed"}
  BY DEF Open
<1>2. Open' = IF o \in Scopes /\ owner'[o] \notin {"none", "closed"}
              THEN Open \cup {o} ELSE Open \ {o}
  BY OwnFrame
<1>3. CASE o \in Open
  BY <1>1, <1>2, <1>3
<1>4. CASE o \notin Open
  BY <1>1, <1>2, <1>4
<1>. QED BY <1>3, <1>4

(* A step that neither changes the process table nor the mode: nothing     *)
(* becomes signalable, no scope opens or closes.                           *)
LEMMA SteadyStep ==
    ASSUME NEW o \in Owners, ScopeInv, OwnStep(o), OwnerState(o)',
           UNCHANGED <<st, parent, of, line, scope, subreaper, countVars>>,
           (doomed \in [Pids -> BOOLEAN])', (slost \in [Scopes -> BOOLEAN])',
           children' = Cardinality(Tally'), children' \in Nat,
           o \in Scopes => (owner'[o] \in {"none", "closed"} <=> owner[o] \in {"none", "closed"}),
           o \in Handles /\ scope => owner'[o] # "clone",
           MaySignal(o)' => MaySignal(o) /\ pid'[o] = pid[o]
    PROVE  ScopeInv'
<1>1. /\ OwnerTypes' /\ \A x \in Owners : OwnerState(x)'
      /\ \A x \in Owners : MaySignal(x)' => MaySignal(x) /\ pid'[x] = pid[x]
      /\ \A x \in Owners : x # o => owner'[x] = owner[x]
  BY OwnFrame
<1>2. Open' = Open
  BY OpenKept
<1>3. TableTypes' /\ RestTypes'
  BY ScopeTypes DEF ScopeInv, TableTypes, RestTypes, countVars
<1>4. ScopeTypeOK'
  BY <1>1, <1>3, ScopeTypes DEF ScopeTypeOK, OwnerTypes, TableTypes, RestTypes, OwnerLabels
<1>5. PidPinned'
  BY <1>1 DEF ScopeInv, PidPinned, OurChild, countVars
<1>6. Counted'
  BY DEF Counted, Tally
<1>7. ScopeExclusive'
  BY <1>1, <1>2 DEF ScopeInv, ScopeExclusive, Owners
<1>8. Table'
  BY DEF ScopeInv, Table
<1>9. Descent'
  BY <1>2 DEF ScopeInv, Descent, Ours
<1>. QED BY <1>1, <1>4, <1>5, <1>6, <1>7, <1>8, <1>9 DEF ScopeInv

(* The same, for a step that leaves the count and the owner's share of it. *)
LEMMA UncountedStep ==
    ASSUME NEW o \in Owners, ScopeInv, OwnStep(o), OwnerState(o)',
           UNCHANGED <<st, parent, of, line, children, scope, subreaper, countVars>>,
           (doomed \in [Pids -> BOOLEAN])', (slost \in [Scopes -> BOOLEAN])',
           o \in Scopes => (owner'[o] \in {"none", "closed"} <=> owner[o] \in {"none", "closed"}),
           o \in Handles => /\ owner'[o] = "clone" <=> owner[o] = "clone"
                            /\ tracked'[o] = tracked[o],
           MaySignal(o)' => MaySignal(o) /\ pid'[o] = pid[o]
    PROVE  ScopeInv'
<1>1. Tally' = Tally
  BY TallyKept
<1>2. children' = Cardinality(Tally') /\ children' \in Nat
  BY <1>1, TallyCounts
<1>3. o \in Handles /\ scope => owner'[o] # "clone"
  BY DEF ScopeInv, ScopeExclusive
<1>. QED BY <1>2, <1>3, SteadyStep

(* What the invariant says of one owner. *)
LEMMA OwnState ==
    ASSUME NEW o \in Owners, ScopeInv
    PROVE  /\ OwnerState(o) /\ owner[o] \in OwnerLabels /\ pid[o] \in Pids \cup {NoPid}
           /\ tracked[o] \in BOOLEAN /\ reaped[o] \in BOOLEAN /\ lost[o] \in BOOLEAN
           /\ OwnerTypes /\ TableTypes /\ RestTypes
BY ScopeTypes DEF ScopeInv, OwnerTypes

LEMMA AdmitStep ==
    ASSUME NEW h \in Handles, ScopeInv, Admit(h)
    PROVE  ScopeInv'
<1>1. h \in Owners /\ h \notin Scopes
  BY ProcessScopeAssumption DEF Owners
<1>2. /\ OwnerState(h) /\ OwnerTypes /\ TableTypes /\ RestTypes
  BY <1>1, OwnState
<1>3. OwnStep(h) /\ OwnerState(h)'
  BY <1>1, <1>2 DEF Admit, OwnerGoes, OwnStep, OwnerState, OwnerTypes, OwnerLabels, MaySignal
<1>4. Tally' = Tally \cup {h} /\ h \notin Tally
  <2>1. owner'[h] = "clone" /\ ~tracked[h] /\ owner[h] # "clone"
    BY <1>1, <1>2 DEF Admit, OwnerGoes, OwnerTypes, OwnerState
  <2>. QED BY <1>1, <1>3, <2>1, OwnFrame DEF Tally
<1>5. children' = Cardinality(Tally') /\ children' \in Nat
  <2>1. Cardinality(Tally \cup {h}) = Cardinality(Tally) + 1
    BY <1>4, TallyCounts, FS_AddElement
  <2>. QED BY <1>4, <2>1, TallyCounts DEF Admit
<1>. QED BY <1>1, <1>2, <1>3, <1>5, SteadyStep DEF Admit, kernelVars, TableTypes, RestTypes, MaySignal

LEMMA CloneFailsStep ==
    ASSUME NEW o \in Owners, ScopeInv, CloneFails(o)
    PROVE  ScopeInv'
<1>1. /\ OwnerState(o) /\ OwnerTypes /\ TableTypes /\ RestTypes
  BY OwnState
<1>2. OwnStep(o) /\ OwnerState(o)'
  BY <1>1, ProcessScopeAssumption
     DEF CloneFails, OwnerGoes, OwnStep, OwnerState, OwnerTypes, OwnerLabels, MaySignal
<1>3. CASE o \in Handles
  <2>1. o \notin Scopes
    BY <1>3, ProcessScopeAssumption
  <2>2. owner'[o] = "none" /\ ~tracked'[o] /\ owner[o] = "clone"
    BY <1>1, <1>3 DEF CloneFails, OwnerGoes, OwnerTypes, OwnerState
  <2>3. Tally' = Tally \ {o} /\ o \in Tally
    BY <1>2, <1>3, <2>2, OwnFrame DEF Tally
  <2>4. Cardinality(Tally') = Cardinality(Tally) - 1
    BY <2>3, TallyCounts, FS_RemoveElement
  <2>5. children' = Cardinality(Tally') /\ children' \in Nat
    <3>1. IsFiniteSet(Tally')
      BY <2>3, TallyCounts, FS_RemoveElement
    <3>. QED BY <1>3, <2>4, <3>1, TallyCounts, FS_CardinalityType DEF CloneFails, Pending
  <2>. QED BY <1>1, <1>2, <2>1, <2>2, <2>5, SteadyStep
           DEF CloneFails, kernelVars, TableTypes, RestTypes, MaySignal
<1>4. CASE o \notin Handles
  <2>1. owner'[o] = "drop" /\ owner[o] = "clone"
    BY <1>1, <1>4 DEF CloneFails, OwnerGoes, OwnerTypes
  <2>. QED BY <1>1, <1>2, <1>4, <2>1, UncountedStep
           DEF CloneFails, Pending, kernelVars, TableTypes, RestTypes, MaySignal
<1>. QED BY <1>3, <1>4

LEMMA HandshakeStep ==
    ASSUME NEW o \in Owners, NEW ok \in BOOLEAN, ScopeInv, Handshake(o, ok)
    PROVE  ScopeInv'
<1>1. /\ OwnerState(o) /\ OwnerTypes /\ TableTypes /\ RestTypes
  BY OwnState
<1>2. OwnStep(o) /\ OwnerState(o)'
  BY <1>1 DEF Handshake, OwnerGoes, OwnStep, OwnerState, OwnerTypes, OwnerLabels, MaySignal
<1>3. owner[o] = "handshake" /\ owner'[o] \in {"live", "cleanup"}
  BY <1>1 DEF Handshake, OwnerGoes, OwnerTypes
<1>. QED BY <1>1, <1>2, <1>3, UncountedStep DEF Handshake, kernelVars, TableTypes, RestTypes, MaySignal

LEMMA KillStep ==
    ASSUME NEW o \in Owners, ScopeInv, CleanupKill(o) \/ Kill(o)
    PROVE  ScopeInv'
<1>1. /\ OwnerState(o) /\ OwnerTypes /\ TableTypes /\ RestTypes
  BY OwnState
<1>2. (doomed \in [Pids -> BOOLEAN])'
  BY <1>1 DEF CleanupKill, Kill, Signalled, TableTypes
<1>3. UNCHANGED <<pid, tracked, reaped, lost>> /\ (MaySignal(o)' <=> MaySignal(o))
  BY DEF CleanupKill, Kill, ownerVars, MaySignal
<1>4. CASE CleanupKill(o)
  <2>1. owner[o] = "cleanup" /\ owner' = [owner EXCEPT ![o] = "reap"] /\ owner'[o] = "reap"
    BY <1>1, <1>4 DEF CleanupKill, OwnerGoes, OwnerTypes
  <2>2. OwnStep(o)
    BY <1>1, <1>3, <2>1 DEF OwnStep, OwnerTypes, OwnerLabels
  <2>3. OwnerState(o)'
    BY <1>1, <1>3, <2>1 DEF OwnerState
  <2>. QED BY <1>1, <1>2, <1>3, <1>4, <2>1, <2>2, <2>3, UncountedStep DEF CleanupKill, RestTypes
<1>5. CASE Kill(o)
  <2>1. OwnStep(o) /\ UNCHANGED owner
    BY <1>1, <1>5 DEF Kill, ownerVars, OwnStep, OwnerTypes
  <2>2. OwnerState(o)'
    BY <1>1, <1>3, <2>1 DEF OwnerState
  <2>. QED BY <1>1, <1>2, <1>3, <1>5, <2>1, <2>2, UncountedStep DEF Kill, ownerVars, RestTypes
<1>. QED BY <1>4, <1>5

(* The status of p is taken, and nobody who might signal p is left.        *)
LEMMA ReapStep ==
    ASSUME NEW o \in Owners, NEW p \in Pids, ScopeInv, OwnStep(o), OwnerState(o)',
           Waitable(p), Freed(p), UNCHANGED <<children, scope, subreaper, countVars>>,
           (slost \in [Scopes -> BOOLEAN])',
           o \in Scopes => (owner'[o] \in {"none", "closed"} <=> owner[o] \in {"none", "closed"}),
           o \in Handles => /\ owner'[o] = "clone" <=> owner[o] = "clone"
                            /\ tracked'[o] = tracked[o],
           MaySignal(o)' => MaySignal(o) /\ pid'[o] = pid[o] /\ pid[o] # p,
           ~stolen => \A x \in Owners : x # o /\ MaySignal(x) => pid[x] # p
    PROVE  ScopeInv'
<1>1. /\ OwnerTypes' /\ \A x \in Owners : OwnerState(x)'
      /\ \A x \in Owners : MaySignal(x)' => MaySignal(x) /\ pid'[x] = pid[x]
      /\ \A x \in Owners : x # o => owner'[x] = owner[x]
  BY OwnFrame
<1>2. Open' = Open /\ Tally' = Tally
  BY OpenKept, TallyKept
<1>3. ScopeTypeOK /\ TableTypes /\ RestTypes /\ st[p] = "zombie"
  BY OwnState DEF ScopeInv, Waitable
<1>4. TableTypes' /\ RestTypes'
  BY <1>3 DEF TableTypes, RestTypes, Freed, countVars
<1>5. ScopeTypeOK'
  BY <1>1, <1>4 DEF ScopeTypeOK, OwnerTypes, TableTypes, RestTypes, OwnerLabels
<1>6. Table' /\ \A q \in Pids : q # p /\ Ours(q) => Ours(q)'
  BY <1>3, FreeKeeps DEF ScopeInv
<1>7. \A q \in Pids : q # p => st'[q] = st[q] /\ parent'[q] = parent[q] /\ of'[q] = of[q] /\ line'[q] = line[q]
  BY <1>3 DEF Freed, TableTypes
<1>8. PidPinned'
  <2>1. ASSUME ~stolen', NEW x \in Owners, MaySignal(x)'
        PROVE  OurChild(pid[x])' /\ (of[pid[x]])' = x
    <3>1. ~stolen /\ MaySignal(x) /\ pid'[x] = pid[x] /\ pid[x] # p
      BY <1>1, <2>1 DEF countVars
    <3>2. OurChild(pid[x]) /\ of[pid[x]] = x
      BY <3>1 DEF ScopeInv, PidPinned
    <3>. QED BY <1>7, <3>1, <3>2 DEF OurChild
  <2>. QED BY <2>1 DEF PidPinned
<1>9. Counted'
  BY <1>2, TallyCounts DEF Counted, Tally
<1>10. ScopeExclusive'
  BY <1>1, <1>2 DEF ScopeInv, ScopeExclusive, Owners
<1>11. Descent'
  <2>1. ASSUME NEW q \in Pids, line'[q] \in Scopes PROVE line'[q] \in Open' /\ Ours(q)'
    <3>1. q # p
      BY <1>3, <2>1, ProcessScopeAssumption DEF Freed, TableTypes, Owners
    <3>. QED BY <1>2, <1>6, <1>7, <2>1, <3>1 DEF ScopeInv, Descent
  <2>. QED BY <2>1 DEF Descent
<1>. QED BY <1>1, <1>5, <1>6, <1>8, <1>9, <1>10, <1>11 DEF ScopeInv

LEMMA WaitStep ==
    ASSUME NEW o \in Owners, ScopeInv, Wait(o)
    PROVE  ScopeInv'
<1>1. /\ OwnerState(o) /\ OwnerTypes /\ TableTypes /\ RestTypes /\ MaySignal(o) /\ pid[o] \in Pids
  BY OwnState DEF Wait, MaySignal
<1>2. /\ owner[o] \in {"live", "reap"} /\ owner'[o] \in {"untrack", "untrackgone"}
      /\ owner' = [owner EXCEPT ![o] = owner'[o]]
  BY <1>1 DEF Wait, OwnerGoes, OwnerTypes
<1>3. UNCHANGED <<pid, tracked, slost, children, scope, subreaper, countVars>>
  BY DEF Wait
<1>4. CASE Waitable(pid[o]) /\ Freed(pid[o]) /\ reaped' = [reaped EXCEPT ![o] = TRUE] /\ UNCHANGED lost
  <2>1. OwnStep(o) /\ ~MaySignal(o)'
    BY <1>1, <1>2, <1>3, <1>4 DEF OwnStep, OwnerTypes, OwnerLabels, MaySignal
  <2>2. OwnerState(o)'
    BY <1>1, <1>2, <1>3, <2>1 DEF OwnerState
  <2>3. ~stolen => \A x \in Owners : x # o /\ MaySignal(x) => pid[x] # pid[o]
    BY <1>1 DEF ScopeInv, PidPinned
  <2>. QED BY <1>1, <1>2, <1>3, <1>4, <2>1, <2>2, <2>3, ReapStep DEF RestTypes
<1>5. CASE lost' = [lost EXCEPT ![o] = TRUE] /\ UNCHANGED <<kernelVars, reaped>>
  <2>1. OwnStep(o) /\ ~MaySignal(o)'
    BY <1>1, <1>2, <1>3, <1>5 DEF OwnStep, OwnerTypes, OwnerLabels, MaySignal
  <2>2. OwnerState(o)'
    BY <1>1, <1>2, <1>3, <2>1 DEF OwnerState
  <2>. QED BY <1>1, <1>2, <1>3, <1>5, <2>1, <2>2, UncountedStep DEF kernelVars, TableTypes, RestTypes
<1>. QED BY <1>4, <1>5 DEF Wait

LEMMA ReleaseTrackingStep ==
    ASSUME NEW o \in Owners, ScopeInv, ReleaseTracking(o)
    PROVE  ScopeInv'
<1>1. /\ OwnerState(o) /\ OwnerTypes /\ TableTypes /\ RestTypes
  BY OwnState
<1>2. /\ owner[o] \in {"untrack", "untrackgone"} /\ owner'[o] \in {"live", "none", "drop"}
      /\ owner' = [owner EXCEPT ![o] = owner'[o]] /\ (o \in Scopes => owner'[o] # "none")
  BY <1>1, ProcessScopeAssumption DEF ReleaseTracking, Gone, Forget, OwnerGoes, OwnerTypes
<1>3. OwnStep(o) /\ ~tracked'[o]
  BY <1>1, <1>2 DEF ReleaseTracking, Gone, Forget, OwnStep, OwnerTypes, OwnerLabels
<1>4. MaySignal(o)' => MaySignal(o) /\ pid'[o] = pid[o]
  BY <1>1 DEF ReleaseTracking, Gone, Forget, MaySignal, OwnerTypes
<1>5. OwnerState(o)'
  <2>1. owner'[o] = "none" => pid'[o] = NoPid /\ ~reaped'[o] /\ ~lost'[o]
    BY <1>1, <1>2 DEF ReleaseTracking, Gone, Forget, OwnerGoes, OwnerTypes
  <2>2. o \in Handles => ~MaySignal(o)' /\ owner'[o] # "drop"
    BY <1>1, <1>2, <1>4 DEF OwnerState, ReleaseTracking, Gone, OwnerGoes, OwnerTypes
  <2>. QED BY <1>2, <1>3, <2>1, <2>2, ProcessScopeAssumption DEF OwnerState
<1>6. children' = Cardinality(Tally') /\ children' \in Nat
  <2>1. Tally' = Tally \ {o}
    BY <1>2, <1>3, <1>5, OwnFrame
  <2>2. o \in Tally <=> tracked[o]
    BY <1>1, <1>2, ProcessScopeAssumption DEF Tally, OwnerState, Owners
  <2>3. /\ IsFiniteSet(Tally')
        /\ Cardinality(Tally') = IF o \in Tally THEN Cardinality(Tally) - 1 ELSE Cardinality(Tally)
    BY <2>1, TallyCounts, FS_RemoveElement
  <2>4. children' = Cardinality(Tally')
    BY <2>2, <2>3, TallyCounts DEF ReleaseTracking, GivenBack
  <2>. QED BY <2>3, <2>4, FS_CardinalityType
<1>. QED BY <1>1, <1>2, <1>3, <1>4, <1>5, <1>6, SteadyStep
         DEF ReleaseTracking, kernelVars, TableTypes, RestTypes

LEMMA DropHandleStep ==
    ASSUME NEW h \in Handles, ScopeInv, DropHandle(h)
    PROVE  ScopeInv'
<1>1. h \in Owners /\ h \notin Scopes
  BY ProcessScopeAssumption DEF Owners
<1>2. /\ OwnerState(h) /\ OwnerTypes /\ TableTypes /\ RestTypes
  BY <1>1, OwnState
<1>3. owner[h] = "live" /\ (tracked[h] <=> MaySignal(h)) /\ UNCHANGED tracked
  BY <1>2 DEF OwnerState, DropHandle
<1>4. CASE MaySignal(h)
  <2>1. owner' = [owner EXCEPT ![h] = "reap"] /\ owner'[h] = "reap" /\ UNCHANGED <<pid, reaped, lost>>
    BY <1>1, <1>2, <1>4 DEF DropHandle, OwnerGoes, OwnerTypes
  <2>2. OwnStep(h) /\ OwnerState(h)'
    BY <1>1, <1>2, <1>3, <1>4, <2>1 DEF OwnStep, OwnerState, OwnerTypes, OwnerLabels, MaySignal
  <2>. QED BY <1>1, <1>2, <1>3, <1>4, <2>1, <2>2, UncountedStep
           DEF DropHandle, kernelVars, TableTypes, RestTypes
<1>5. CASE ~MaySignal(h)
  <2>1. /\ owner' = [owner EXCEPT ![h] = "none"] /\ owner'[h] = "none" /\ pid'[h] = NoPid
        /\ ~reaped'[h] /\ ~lost'[h] /\ ~MaySignal(h)'
    BY <1>1, <1>2, <1>5 DEF DropHandle, Gone, Forget, OwnerGoes, OwnerTypes, MaySignal
  <2>2. OwnStep(h)
    BY <1>1, <1>2, <1>3, <1>5, <2>1
       DEF DropHandle, Gone, Forget, OwnStep, OwnerTypes, OwnerLabels
  <2>3. OwnerState(h)'
    BY <1>1, <1>3, <1>5, <2>1 DEF OwnerState
  <2>. QED BY <1>1, <1>2, <1>3, <2>1, <2>2, <2>3, UncountedStep
           DEF DropHandle, kernelVars, TableTypes, RestTypes
<1>. QED BY <1>4, <1>5

(***************************************************************************)
(* The steps of a scope.                                                   *)
(***************************************************************************)

(* An open scope is alone: whatever else may be signalled is not ours.     *)
LEMMA OpenAlone ==
    ASSUME NEW s \in Scopes, ScopeInv, s \in Open, NEW x \in Owners, x # s
    PROVE  ~MaySignal(x)
<1>1. CASE x \in Handles
  BY <1>1 DEF ScopeInv, ScopeExclusive
<1>2. CASE x \in Scopes
  <2>1. x \notin Open
    BY DEF ScopeInv, ScopeExclusive
  <2>2. owner[x] \in {"none", "closed"}
    BY <1>2, <2>1 DEF Open
  <2>. QED BY <2>2, OwnState DEF OwnerState, MaySignal
<1>. QED BY <1>1, <1>2 DEF Owners

LEMMA ReapAnyStep ==
    ASSUME NEW s \in Scopes, NEW p \in Pids, ScopeInv, ReapAny(s, p),
           owner[s] \in {"live", "dropreap"}, NEW l \in {"live", "dropreap", "aborted"},
           owner' = [owner EXCEPT ![s] = l],
           UNCHANGED <<children, scope, subreaper, pid, tracked, lost, countVars>>
    PROVE  ScopeInv'
<1>1. s \in Owners /\ s \notin Handles /\ s \in Open
  BY ProcessScopeAssumption DEF Owners, Open
<1>2. OwnerState(s) /\ OwnerTypes /\ TableTypes /\ RestTypes
  BY <1>1, OwnState
<1>3. OwnStep(s) /\ owner'[s] = l
  BY <1>1, <1>2 DEF ReapAny, RootRecord, OwnStep, OwnerTypes, OwnerLabels
<1>4. (slost \in [Scopes -> BOOLEAN])'
  BY <1>2 DEF ReapAny, RestTypes
<1>5. MaySignal(s)' => MaySignal(s) /\ pid[s] # p
  BY <1>1, <1>2 DEF ReapAny, RootRecord, MaySignal, OwnerTypes
<1>6. OwnerState(s)'
  BY <1>1, <1>2, <1>3 DEF OwnerState
<1>7. \A x \in Owners : x # s => ~MaySignal(x)
  BY <1>1, OpenAlone
<1>. QED BY <1>1, <1>3, <1>4, <1>5, <1>6, <1>7, ReapStep DEF ReapAny

(* Steps that only move a scope's control between open states. *)
LEMMA ScopeMoves ==
    ASSUME NEW s \in Scopes, ScopeInv, owner[s] \notin {"none", "clone", "closed"},
           NEW l \in OwnerLabels \ {"none", "clone", "closed"},
           owner' = [owner EXCEPT ![s] = l],
           (doomed \in [Pids -> BOOLEAN])', (slost \in [Scopes -> BOOLEAN])',
           UNCHANGED <<st, parent, of, line, children, scope, subreaper, pid, tracked, reaped, lost,
                       countVars>>
    PROVE  ScopeInv'
<1>1. s \in Owners /\ s \notin Handles
  BY ProcessScopeAssumption DEF Owners
<1>2. OwnerState(s) /\ OwnerTypes
  BY <1>1, OwnState
<1>3. OwnStep(s) /\ owner'[s] = l
  BY <1>1, <1>2 DEF OwnStep, OwnerTypes
<1>4. MaySignal(s)' <=> MaySignal(s)
  BY DEF MaySignal
<1>5. OwnerState(s)'
  BY <1>1, <1>2, <1>3 DEF OwnerState
<1>. QED BY <1>1, <1>3, <1>4, <1>5, UncountedStep

LEMMA ScopeReapStep ==
    ASSUME NEW s \in Scopes, ScopeInv, (\E p \in Pids : Reap(s, p)) \/ DropReap(s)
    PROVE  ScopeInv'
<1>1. OwnerTypes /\ TableTypes /\ RestTypes
  BY OwnState DEF Owners
<1>2. ASSUME NEW p \in Pids, Reap(s, p) PROVE ScopeInv'
  <2>1. owner' = [owner EXCEPT ![s] = "live"]
    BY <1>1, <1>2 DEF Reap, OwnerTypes, Owners
  <2>. QED BY <1>2, <2>1, ReapAnyStep DEF Reap
<1>3. ASSUME NEW p \in Pids, ReapAny(s, p), DropReap(s),
             OwnerGoes(s, IF slost'[s] THEN "aborted" ELSE "dropreap")
      PROVE  ScopeInv'
  <2>1. /\ owner[s] = "dropreap"
        /\ owner' = [owner EXCEPT ![s] = IF slost'[s] THEN "aborted" ELSE "dropreap"]
        /\ UNCHANGED <<children, scope, subreaper, pid, tracked, lost, countVars>>
    BY <1>3 DEF DropReap, OwnerGoes
  <2>2. CASE slost'[s]
    BY <1>3, <2>1, <2>2, ReapAnyStep
  <2>3. CASE ~slost'[s]
    BY <1>3, <2>1, <2>3, ReapAnyStep
  <2>. QED BY <2>2, <2>3
<1>4. CASE DropReap(s) /\ OwnerGoes(s, "drop") /\ UNCHANGED <<kernelVars, reaped, slost>>
  BY <1>1, <1>4, ScopeMoves DEF DropReap, OwnerGoes, kernelVars, TableTypes, RestTypes, OwnerLabels
<1>. QED BY <1>2, <1>3, <1>4 DEF DropReap

LEMMA KillMemberStep ==
    ASSUME NEW s \in Scopes, NEW p \in Pids, ScopeInv, KillMember(s, p)
    PROVE  ScopeInv'
<1>1. OwnerTypes /\ TableTypes /\ RestTypes
  BY OwnState DEF Owners
<1>2. owner' = [owner EXCEPT ![s] = "live"]
  BY <1>1 DEF KillMember, ownerVars, OwnerTypes, Owners
<1>3. (doomed \in [Pids -> BOOLEAN])'
  BY <1>1 DEF KillMember, TableTypes
<1>. QED BY <1>1, <1>2, <1>3, ScopeMoves DEF KillMember, ownerVars, RestTypes, OwnerLabels

LEMMA DropLoopStep ==
    ASSUME NEW s \in Scopes, ScopeInv, DropKill(s) \/ DropFails(s)
    PROVE  ScopeInv'
<1>1. OwnerTypes /\ TableTypes /\ RestTypes
  BY OwnState DEF Owners
<1>2. (doomed \in [Pids -> BOOLEAN])'
  BY <1>1 DEF DropKill, DropFails, kernelVars, TableTypes
<1>. QED BY <1>1, <1>2, ScopeMoves DEF DropKill, DropFails, OwnerGoes, kernelVars, RestTypes, OwnerLabels

(* Dropping a scope that was released, or entering the loop. *)
LEMMA DropScopeStep ==
    ASSUME NEW s \in Scopes, ScopeInv, DropScope(s)
    PROVE  ScopeInv'
<1>1. s \in Owners /\ s \notin Handles
  BY ProcessScopeAssumption DEF Owners
<1>2. OwnerState(s) /\ OwnerTypes /\ TableTypes /\ RestTypes
  BY <1>1, OwnState
<1>3. CASE owner[s] = "closed"
  <2>1. /\ owner' = [owner EXCEPT ![s] = "none"] /\ owner'[s] = "none" /\ pid'[s] = NoPid
        /\ ~reaped'[s] /\ ~lost'[s] /\ ~MaySignal(s)' /\ UNCHANGED tracked
    BY <1>1, <1>2, <1>3 DEF DropScope, Forget, OwnerGoes, OwnerTypes, MaySignal
  <2>2. OwnStep(s)
    BY <1>1, <1>2, <1>3, <2>1 DEF DropScope, Forget, OwnStep, OwnerTypes, OwnerLabels
  <2>3. OwnerState(s)'
    BY <1>1, <1>2, <2>1 DEF OwnerState
  <2>. QED BY <1>1, <1>2, <1>3, <2>1, <2>2, <2>3, UncountedStep
           DEF DropScope, kernelVars, TableTypes, RestTypes
<1>4. CASE owner[s] = "live"
  BY <1>2, <1>4, ScopeMoves DEF DropScope, OwnerGoes, kernelVars, TableTypes, RestTypes, OwnerLabels
<1>. QED BY <1>3, <1>4 DEF DropScope

(* No child at all: nobody descends from us, so nothing of a scope is left. *)
LEMMA EmptyMeansGone ==
    ASSUME ScopeInv, Empty
    PROVE  \A p \in Pids : line[p] \notin Scopes
<1>1. ASSUME NEW p \in Pids, line[p] \in Scopes PROVE FALSE
  <2>1. Ours(p)
    BY <1>1 DEF ScopeInv, Descent
  <2>2. \A q \in Pids : parent[q] # Us
    BY ProcessScopeAssumption DEF ScopeInv, Table, Empty, OurChild
  <2>3. \A q \in Pids : parent[q] \in {} \cup {Us} => q \in {}
    BY <2>2
  <2>. QED BY <2>1, <2>3 DEF Ours
<1>. QED BY <1>1

(* The end of a scope: it was the only one, and nothing of it is left. *)
LEMMA DisarmStep ==
    ASSUME NEW s \in Scopes, ScopeInv, s \in Open, Empty, Disarm,
           OwnStep(s), OwnerState(s)', owner'[s] \in {"none", "closed"}, ~MaySignal(s)',
           UNCHANGED <<kernelVars, children, slost, countVars>>, tracked' = tracked
    PROVE  ScopeInv'
<1>1. s \in Owners /\ s \notin Handles
  BY ProcessScopeAssumption DEF Owners
<1>2. /\ OwnerTypes' /\ \A x \in Owners : OwnerState(x)'
      /\ \A x \in Owners : x # s => (MaySignal(x)' <=> MaySignal(x)) /\ owner'[x] = owner[x]
      /\ Open' = Open \ {s}
  BY <1>1, OwnFrame
<1>3. Open' = {}
  BY <1>2 DEF ScopeInv, ScopeExclusive
<1>4. \A x \in Owners : ~MaySignal(x)'
  BY <1>2, OpenAlone
<1>5. Tally' = Tally
  BY <1>1, TallyKept
<1>6. TableTypes' /\ RestTypes'
  BY <1>1, OwnState DEF TableTypes, RestTypes, kernelVars, countVars, Disarm
<1>7. ScopeTypeOK'
  BY <1>2, <1>6 DEF ScopeTypeOK, OwnerTypes, TableTypes, RestTypes, OwnerLabels
<1>8. PidPinned'
  BY <1>4 DEF PidPinned
<1>9. Counted'
  BY <1>5, TallyCounts DEF Counted, Tally
<1>10. ScopeExclusive'
  BY <1>3 DEF ScopeExclusive, Disarm
<1>11. Table'
  BY DEF ScopeInv, Table, kernelVars
<1>12. Descent'
  BY EmptyMeansGone DEF Descent, kernelVars
<1>. QED BY <1>2, <1>7, <1>8, <1>9, <1>10, <1>11, <1>12 DEF ScopeInv

LEMMA ReleaseStep ==
    ASSUME NEW s \in Scopes, ScopeInv, ReleaseScope(s)
    PROVE  ScopeInv'
<1>1. s \in Owners /\ s \notin Handles /\ s \in Open
  BY ProcessScopeAssumption DEF Owners, Open, ReleaseScope
<1>2. OwnerState(s) /\ OwnerTypes /\ TableTypes /\ RestTypes
  BY <1>1, OwnState
<1>3. CASE RootUnaccounted(s)
  <2>1. owner' = [owner EXCEPT ![s] = "live"] /\ (slost \in [Scopes -> BOOLEAN])'
    BY <1>1, <1>2, <1>3 DEF ReleaseScope, OwnerTypes, RestTypes
  <2>. QED BY <1>2, <1>3, <2>1, ScopeMoves DEF ReleaseScope, kernelVars, TableTypes, OwnerLabels
<1>4. CASE ~RootUnaccounted(s)
  <2>1. Disarm /\ owner' = [owner EXCEPT ![s] = "closed"] /\ owner'[s] = "closed"
        /\ UNCHANGED <<pid, tracked, reaped, lost>>
    BY <1>1, <1>2, <1>4 DEF ReleaseScope, OwnerGoes, OwnerTypes
  <2>2. ~MaySignal(s) /\ ~MaySignal(s)'
    BY <1>4, <2>1 DEF RootUnaccounted, MaySignal
  <2>3. OwnStep(s) /\ OwnerState(s)'
    BY <1>1, <1>2, <2>1, <2>2 DEF OwnStep, OwnerState, OwnerTypes, OwnerLabels
  <2>. QED BY <1>1, <1>4, <2>1, <2>2, <2>3, DisarmStep DEF ReleaseScope
<1>. QED BY <1>3, <1>4

LEMMA DropReleaseStep ==
    ASSUME NEW s \in Scopes, ScopeInv, DropRelease(s)
    PROVE  ScopeInv'
<1>1. s \in Owners /\ s \notin Handles /\ s \in Open
  BY ProcessScopeAssumption DEF Owners, Open, DropRelease
<1>2. OwnerState(s) /\ OwnerTypes /\ TableTypes /\ RestTypes
  BY <1>1, OwnState
<1>3. CASE (~Valid(s) \/ (Empty /\ RootUnaccounted(s))) \/ ~Empty
  <2>1. \E l \in {"aborted", "dropkill"} :
          owner' = [owner EXCEPT ![s] = l] /\ UNCHANGED <<scope, subreaper, pid, reaped, lost>>
    BY <1>3 DEF DropRelease, OwnerGoes
  <2>. QED BY <1>2, <1>3, <2>1, ScopeMoves DEF DropRelease, kernelVars, TableTypes, RestTypes, OwnerLabels
<1>4. CASE ~(~Valid(s) \/ (Empty /\ RootUnaccounted(s))) /\ Empty
  <2>1. /\ Disarm /\ owner' = [owner EXCEPT ![s] = "none"] /\ owner'[s] = "none" /\ pid'[s] = NoPid
        /\ ~reaped'[s] /\ ~lost'[s] /\ ~MaySignal(s)' /\ UNCHANGED tracked
    BY <1>1, <1>2, <1>4 DEF DropRelease, Forget, OwnerGoes, OwnerTypes, MaySignal
  <2>2. OwnStep(s)
    BY <1>1, <1>2, <1>4, <2>1 DEF DropRelease, Forget, OwnStep, OwnerTypes, OwnerLabels
  <2>3. OwnerState(s)'
    BY <1>1, <1>2, <2>1 DEF OwnerState
  <2>. QED BY <1>1, <1>4, <2>1, <2>2, <2>3, DisarmStep DEF DropRelease
<1>. QED BY <1>3, <1>4

(* A scope starts only when the count stands for nobody. *)
LEMMA ArmStep ==
    ASSUME NEW s \in Scopes, ScopeInv, Arm(s)
    PROVE  ScopeInv'
<1>1. s \in Owners /\ s \notin Handles /\ owner[s] = "none"
  BY ProcessScopeAssumption DEF Owners, Arm
<1>2. OwnerState(s) /\ OwnerTypes /\ TableTypes /\ RestTypes
  BY <1>1, OwnState
<1>3. owner' = [owner EXCEPT ![s] = "clone"] /\ owner'[s] = "clone" /\ UNCHANGED <<pid, tracked, reaped, lost>>
  BY <1>1, <1>2 DEF Arm, OwnerGoes, OwnerTypes
<1>4. OwnStep(s) /\ OwnerState(s)' /\ ~MaySignal(s)'
  BY <1>1, <1>2, <1>3 DEF OwnStep, OwnerState, OwnerTypes, OwnerLabels, MaySignal
<1>5. /\ OwnerTypes' /\ \A x \in Owners : OwnerState(x)'
      /\ \A x \in Owners : x # s => (MaySignal(x)' <=> MaySignal(x)) /\ owner'[x] = owner[x]
      /\ Open' = Open \cup {s}
  BY <1>1, <1>3, <1>4, OwnFrame
<1>6. Open = {} /\ Open' = {s} /\ scope' /\ subreaper'
  BY <1>5 DEF ScopeInv, ScopeExclusive, Arm, ScopeMayStart
<1>7. Tally = {} /\ Tally' = Tally
  <2>1. Cardinality(Tally) = 0
    BY TallyCounts DEF Arm, ScopeMayStart
  <2>. QED BY <1>1, <1>4, <2>1, TallyCounts, TallyKept, FS_EmptySet
<1>8. \A h \in Handles : owner[h] # "clone" /\ ~MaySignal(h)
  <2>1. ASSUME NEW h \in Handles PROVE owner[h] # "clone" /\ ~MaySignal(h)
    <3>1. h \in Owners /\ ~tracked[h] /\ owner[h] # "clone"
      BY <1>7 DEF Owners, Tally
    <3>2. OwnerState(h) /\ owner[h] \in OwnerLabels
      BY <3>1, OwnState
    <3>. QED BY <3>1, <3>2 DEF OwnerState, OwnerLabels, MaySignal
  <2>. QED BY <2>1
<1>9. TableTypes' /\ RestTypes'
  BY <1>2 DEF Arm, TableTypes, RestTypes, kernelVars, countVars
<1>10. ScopeTypeOK'
  BY <1>5, <1>9 DEF ScopeTypeOK, OwnerTypes, TableTypes, RestTypes, OwnerLabels
<1>11. PidPinned'
  BY <1>3 DEF Arm, ScopeInv, PidPinned, MaySignal, OurChild, kernelVars, countVars
<1>12. Counted'
  BY <1>7, TallyCounts DEF Counted, Tally, Arm
<1>13. ScopeExclusive'
  BY <1>1, <1>5, <1>6, <1>8 DEF ScopeExclusive, Owners
<1>14. Table'
  BY DEF Arm, ScopeInv, Table, kernelVars
<1>15. Descent'
  BY <1>6 DEF Arm, ScopeInv, Descent, kernelVars
<1>. QED BY <1>5, <1>10, <1>11, <1>12, <1>13, <1>14, <1>15 DEF ScopeInv

(* The new child takes an id nobody may signal. *)
LEMMA CloneStep ==
    ASSUME NEW o \in Owners, NEW p \in Pids, ScopeInv, Clone(o, p)
    PROVE  ScopeInv'
<1>1. /\ OwnerState(o) /\ OwnerTypes /\ TableTypes /\ RestTypes /\ ScopeTypeOK /\ Table
      /\ owner[o] = "clone" /\ st[p] = "free"
  BY OwnState DEF Clone, ScopeInv
<1>2. /\ owner' = [owner EXCEPT ![o] = "handshake"] /\ owner'[o] = "handshake"
      /\ pid' = [pid EXCEPT ![o] = p] /\ pid'[o] = p /\ UNCHANGED <<reaped, lost>>
      /\ tracked' = [tracked EXCEPT ![o] = (o \in Handles)] /\ tracked'[o] = (o \in Handles)
  BY <1>1 DEF Clone, OwnerGoes, OwnerTypes, Pending
<1>3. MaySignal(o)'
  BY <1>1, <1>2, ProcessScopeAssumption DEF OwnerState, MaySignal
<1>4. OwnStep(o)
  BY <1>1, <1>2 DEF OwnStep, OwnerTypes, OwnerLabels
<1>5. OwnerState(o)'
  BY <1>2, <1>3, ProcessScopeAssumption DEF OwnerState
<1>6. /\ OwnerTypes' /\ \A x \in Owners : OwnerState(x)'
      /\ \A x \in Owners : x # o => (MaySignal(x)' <=> MaySignal(x)) /\ owner'[x] = owner[x] /\ pid'[x] = pid[x]
  BY <1>4, <1>5, OwnFrame
<1>7. Open' = Open
  BY <1>1, <1>2, <1>4, <1>5, OpenKept
<1>8. Tally' = Tally
  <2>1. o \in Tally <=> o \in Handles
    BY <1>1 DEF Tally
  <2>2. Tally' = IF o \in Handles THEN Tally \cup {o} ELSE Tally \ {o}
    BY <1>2, <1>4, <1>5, OwnFrame
  <2>3. CASE o \in Handles
    BY <2>1, <2>2, <2>3
  <2>4. CASE o \notin Handles
    BY <2>1, <2>2, <2>4
  <2>. QED BY <2>3, <2>4
<1>9. Started(p, Us, o, o) /\ UNCHANGED <<children, scope, subreaper, slost, countVars>>
  BY DEF Clone
<1>10. /\ Table' /\ \A q \in Pids : Ours(q) => Ours(q)'
       /\ Ours(p)'
  BY <1>1, <1>9, StartKeeps, ProcessScopeAssumption
<1>11. TableTypes' /\ RestTypes'
  BY <1>1, <1>9 DEF Started, TableTypes, RestTypes, countVars
<1>12. ScopeTypeOK'
  BY <1>6, <1>11 DEF ScopeTypeOK, OwnerTypes, TableTypes, RestTypes, OwnerLabels
<1>13. /\ \A q \in Pids : q # p => st'[q] = st[q] /\ parent'[q] = parent[q] /\ of'[q] = of[q] /\ line'[q] = line[q]
       /\ st'[p] = "run" /\ parent'[p] = Us /\ of'[p] = o /\ line'[p] = o
  BY <1>1, <1>9 DEF Started, TableTypes
<1>14. PidPinned'
  <2>1. ASSUME ~stolen', NEW x \in Owners, MaySignal(x)'
        PROVE  OurChild(pid[x])' /\ (of[pid[x]])' = x
    <3>1. CASE x = o
      BY <1>2, <1>13, <3>1 DEF OurChild
    <3>2. CASE x # o
      <4>1. ~stolen /\ MaySignal(x) /\ pid'[x] = pid[x]
        BY <1>6, <1>9, <2>1, <3>2 DEF countVars
      <4>2. OurChild(pid[x]) /\ of[pid[x]] = x /\ pid[x] # p
        BY <1>1, <4>1 DEF ScopeInv, PidPinned, OurChild
      <4>. QED BY <1>13, <4>1, <4>2 DEF OurChild
    <3>. QED BY <3>1, <3>2
  <2>. QED BY <2>1 DEF PidPinned
<1>15. Counted'
  BY <1>8, <1>9, TallyCounts DEF Counted, Tally
<1>16. ScopeExclusive'
  <2>1. scope => o \notin Handles
    BY <1>1 DEF ScopeInv, ScopeExclusive
  <2>. QED BY <1>6, <1>7, <1>9, <2>1 DEF ScopeInv, ScopeExclusive, Owners
<1>17. Descent'
  <2>1. ASSUME NEW q \in Pids, line'[q] \in Scopes PROVE line'[q] \in Open' /\ Ours(q)'
    <3>1. CASE q = p
      <4>1. o \in Open
        BY <1>1, <1>13, <2>1, <3>1 DEF Open
      <4>. QED BY <1>7, <1>10, <1>13, <3>1, <4>1
    <3>2. CASE q # p
      BY <1>7, <1>10, <1>13, <2>1, <3>2 DEF ScopeInv, Descent
    <3>. QED BY <3>1, <3>2
  <2>. QED BY <2>1 DEF Descent
<1>. QED BY <1>6, <1>10, <1>12, <1>14, <1>15, <1>16, <1>17 DEF ScopeInv

(***************************************************************************)
(* The kernel's steps: the owners do not move.                             *)
(***************************************************************************)
LEMMA KernelFrame ==
    ASSUME ScopeInv, UNCHANGED <<children, scope, subreaper, ownerVars>>, TableTypes',
           forks' \in 0..MaxForks, thefts' \in 0..MaxThefts, stolen' \in BOOLEAN,
           stolen => stolen', Table', Descent',
           \A p \in Pids : of[p] \in Owners /\ ~stolen' => OurChild(p)' /\ of'[p] = of[p]
    PROVE  ScopeInv'
<1>1. \A x \in Owners : (MaySignal(x)' <=> MaySignal(x)) /\ OwnerState(x)'
  BY DEF ScopeInv, OwnerState, MaySignal, ownerVars
<1>2. Open' = Open
  BY DEF Open, ownerVars
<1>3. ScopeTypeOK'
  BY ScopeTypes DEF ScopeInv, ScopeTypeOK, OwnerTypes, TableTypes, RestTypes, OwnerLabels, ownerVars
<1>4. PidPinned'
  <2>1. ASSUME ~stolen', NEW x \in Owners, MaySignal(x)'
        PROVE  OurChild(pid[x])' /\ (of[pid[x]])' = x
    <3>1. OurChild(pid[x]) /\ of[pid[x]] = x /\ pid'[x] = pid[x] /\ pid[x] \in Pids
      BY <1>1, <2>1 DEF ScopeInv, PidPinned, OurChild, ownerVars
    <3>. QED BY <2>1, <3>1 DEF OurChild
  <2>. QED BY <2>1 DEF PidPinned
<1>5. Counted' /\ ScopeExclusive'
  BY <1>1, <1>2 DEF ScopeInv, Counted, ScopeExclusive, Owners, ownerVars
<1>. QED BY <1>1, <1>3, <1>4, <1>5 DEF ScopeInv

LEMMA ForkStep ==
    ASSUME NEW q \in Pids, NEW par \in Pids \cup {Pid1}, NEW l \in Owners \cup {None}, ScopeInv,
           st[q] = "free", Started(q, par, None, l),
           par \in Pids => st[par] = "run" /\ l = line[par], par = Pid1 => l = None,
           UNCHANGED <<children, scope, subreaper, ownerVars, thefts, stolen>>,
           forks' \in 0..MaxForks
    PROVE  ScopeInv'
<1>1. ScopeTypeOK /\ TableTypes /\ RestTypes /\ Table /\ Descent
  BY ScopeTypes DEF ScopeInv
<1>2. TableTypes'
  BY <1>1, ProcessScopeAssumption DEF Started, TableTypes
<1>3. /\ Table' /\ \A p \in Pids : Ours(p) => Ours(p)'
      /\ par \in Pids /\ Ours(par) => Ours(q)'
  BY <1>1, StartKeeps, ProcessScopeAssumption
<1>4. /\ \A p \in Pids : p # q => st'[p] = st[p] /\ parent'[p] = parent[p] /\ of'[p] = of[p] /\ line'[p] = line[p]
      /\ line'[q] = l /\ of[q] = None
  BY <1>1 DEF Started, TableTypes, Table
<1>5. Descent'
  <2>1. Open' = Open
    BY DEF Open, ownerVars
  <2>2. ASSUME NEW p \in Pids, line'[p] \in Scopes PROVE line'[p] \in Open' /\ Ours(p)'
    <3>1. CASE p # q
      BY <1>1, <1>3, <1>4, <2>1, <2>2, <3>1 DEF Descent
    <3>2. CASE p = q
      <4>1. par \in Pids /\ line[par] \in Scopes
        BY <1>4, <2>2, <3>2, ProcessScopeAssumption DEF Owners
      <4>. QED BY <1>1, <1>3, <1>4, <2>1, <2>2, <3>2, <4>1 DEF Descent
    <3>. QED BY <3>1, <3>2
  <2>. QED BY <2>2 DEF Descent
<1>6. \A p \in Pids : of[p] \in Owners => OurChild(p)' /\ of'[p] = of[p]
  <2>1. ASSUME NEW p \in Pids, of[p] \in Owners PROVE OurChild(p)' /\ of'[p] = of[p]
    <3>1. p # q
      BY <1>4, <2>1, ProcessScopeAssumption
    <3>2. st[p] # "free" /\ parent[p] = Us
      BY <1>1, <2>1, ProcessScopeAssumption DEF Table
    <3>. QED BY <1>4, <3>1, <3>2 DEF OurChild
  <2>. QED BY <2>1
<1>. QED BY <1>1, <1>2, <1>3, <1>5, <1>6, KernelFrame DEF RestTypes

LEMMA ExitStep ==
    ASSUME NEW p \in Pids, ScopeInv, Exit(p)
    PROVE  ScopeInv'
<1>1. ScopeTypeOK /\ TableTypes /\ RestTypes /\ Table /\ Descent
  BY ScopeTypes DEF ScopeInv
<1>2. TableTypes'
  BY <1>1 DEF Exit, TableTypes
<1>3. Table' /\ (subreaper => \A q \in Pids : Ours(q) => Ours(q)')
  BY <1>1, ExitKeeps
<1>4. Descent'
  <2>1. Open' = Open /\ line' = line
    BY DEF Open, Exit, ownerVars
  <2>2. ASSUME NEW q \in Pids, line'[q] \in Scopes PROVE line'[q] \in Open' /\ Ours(q)'
    <3>1. line[q] \in Open /\ Ours(q)
      BY <1>1, <2>1, <2>2 DEF Descent
    <3>2. subreaper
      BY <3>1 DEF ScopeInv, ScopeExclusive
    <3>. QED BY <1>3, <2>1, <3>1, <3>2
  <2>. QED BY <2>2 DEF Descent
<1>5. \A q \in Pids : of[q] \in Owners => OurChild(q)' /\ of'[q] = of[q]
  <2>1. ASSUME NEW q \in Pids, of[q] \in Owners PROVE OurChild(q)' /\ of'[q] = of[q]
    <3>1. st[q] # "free" /\ parent[q] = Us /\ parent[q] # p
      BY <1>1, <2>1, ProcessScopeAssumption DEF Table
    <3>. QED BY <1>1, <3>1 DEF Exit, OurChild, TableTypes
  <2>. QED BY <2>1
<1>. QED BY <1>1, <1>2, <1>3, <1>4, <1>5, KernelFrame DEF Exit, RestTypes, countVars

(* Somebody else reaps: a parent its own child, or foreign code in this    *)
(* process any of ours, which is remembered when an owner launched it.     *)
LEMMA ElsewhereStep ==
    ASSUME NEW p \in Pids, ScopeInv, ReapedElsewhere(p) \/ ForeignReap(p)
    PROVE  ScopeInv'
<1>1. ScopeTypeOK /\ TableTypes /\ RestTypes /\ Table /\ Descent
  BY ScopeTypes DEF ScopeInv
<1>2. st[p] = "zombie" /\ Freed(p) /\ UNCHANGED <<children, scope, subreaper, ownerVars>>
  BY DEF ReapedElsewhere, ForeignReap, Waitable
<1>3. /\ forks' \in 0..MaxForks /\ thefts' \in 0..MaxThefts /\ stolen' \in BOOLEAN
      /\ stolen => stolen'
  <2>1. CASE ReapedElsewhere(p)
    BY <1>1, <2>1 DEF ReapedElsewhere, countVars, RestTypes
  <2>2. CASE ForeignReap(p)
    <3>1. forks' \in 0..MaxForks /\ thefts' \in 0..MaxThefts
      BY <1>1, <2>2, ProcessScopeAssumption DEF ForeignReap, RestTypes
    <3>2. stolen' \in BOOLEAN /\ (stolen => stolen')
      BY <1>1, <2>2, Zenon DEF ForeignReap, RestTypes
    <3>. QED BY <3>1, <3>2
  <2>. QED BY <2>1, <2>2
<1>4. TableTypes' /\ Table' /\ \A q \in Pids : q # p /\ Ours(q) => Ours(q)'
  BY <1>1, <1>2, FreeKeeps DEF TableTypes, Freed
<1>5. /\ \A q \in Pids : q # p => st'[q] = st[q] /\ parent'[q] = parent[q] /\ of'[q] = of[q] /\ line'[q] = line[q]
      /\ line'[p] = None
  BY <1>1, <1>2 DEF Freed, TableTypes
<1>6. Descent'
  <2>1. Open' = Open
    BY <1>2 DEF Open, ownerVars
  <2>. QED BY <1>1, <1>4, <1>5, <2>1, ProcessScopeAssumption DEF Descent, Owners
<1>7. ASSUME NEW q \in Pids, of[q] \in Owners, ~stolen' PROVE OurChild(q)' /\ of'[q] = of[q]
  <2>1. st[q] # "free" /\ parent[q] = Us
    BY <1>1, <1>7, ProcessScopeAssumption DEF Table
  <2>2. q # p
    BY <1>7, <2>1 DEF ReapedElsewhere, ForeignReap
  <2>. QED BY <1>5, <2>1, <2>2 DEF OurChild
<1>. QED BY <1>2, <1>3, <1>4, <1>6, <1>7, KernelFrame

LEMMA KernelStepInv ==
    ASSUME ScopeInv, KernelStep
    PROVE  ScopeInv'
<1>1. TableTypes /\ RestTypes
  BY ScopeTypes DEF ScopeInv
<1>2. ASSUME NEW p \in Pids, NEW q \in Pids, Fork(p, q) PROVE ScopeInv'
  <2>1. line[p] \in Owners \cup {None} /\ forks' \in 0..MaxForks
    BY <1>1, <1>2, ProcessScopeAssumption DEF Fork, TableTypes, RestTypes
  <2>. QED BY <1>2, <2>1, ForkStep, ProcessScopeAssumption DEF Fork
<1>3. ASSUME NEW q \in Pids, Unrelated(q) PROVE ScopeInv'
  <2>1. forks' \in 0..MaxForks
    BY <1>1, <1>3 DEF Unrelated, countVars, RestTypes
  <2>. QED BY <1>3, <2>1, ForkStep, ProcessScopeAssumption DEF Unrelated, countVars
<1>. QED BY <1>2, <1>3, ExitStep, ElsewhereStep DEF KernelStep

(* Every step of the kernel, of an owner and of a scope preserves it. *)
LEMMA ScopeInvStep ==
    ASSUME ScopeInv, [ScopeNext]_scopeVars
    PROVE  ScopeInv'
<1>1. ASSUME NEW o \in Owners, LaunchStep(o) PROVE ScopeInv'
  BY <1>1, AdmitStep, ArmStep, CloneStep, CloneFailsStep, HandshakeStep DEF LaunchStep
<1>2. ASSUME NEW o \in Owners, ChildStep(o) \/ Cleanup(o) PROVE ScopeInv'
  BY <1>2, KillStep, DropHandleStep, WaitStep, ReleaseTrackingStep DEF ChildStep, Cleanup
<1>3. ASSUME NEW s \in Scopes, ScopeStep(s) PROVE ScopeInv'
  BY <1>3, ScopeReapStep, KillMemberStep, ReleaseStep, DropScopeStep, DropLoopStep DEF ScopeStep
<1>4. ASSUME NEW s \in Scopes, DropLoop(s) PROVE ScopeInv'
  BY <1>4, DropReleaseStep, DropLoopStep, ScopeReapStep DEF DropLoop
<1>5. CASE UNCHANGED scopeVars
  <2>1. ScopeTypeOK'
    BY <1>5 DEF ScopeInv, ScopeTypeOK, scopeVars, kernelVars, ownerVars, countVars
  <2>2. PidPinned' /\ Counted' /\ ScopeExclusive'
    BY <1>5 DEF ScopeInv, PidPinned, Counted, ScopeExclusive, Open, MaySignal, OurChild,
       scopeVars, kernelVars, ownerVars, countVars
  <2>3. Table' /\ Descent' /\ \A o \in Owners : OwnerState(o)'
    BY <1>5 DEF ScopeInv, Table, Descent, Ours, Open, OwnerState, MaySignal,
       scopeVars, kernelVars, ownerVars, countVars
  <2>. QED BY <2>1, <2>2, <2>3 DEF ScopeInv
<1>. QED BY <1>1, <1>2, <1>3, <1>4, <1>5, KernelStepInv DEF ScopeNext

(* The mode ends only in a release, and a release sees no child. *)
LEMMA GoneStep ==
    ASSUME ScopeInv, [ScopeNext]_scopeVars
    PROVE  ReleaseMeansGone
<1>1. SUFFICES ASSUME scope, ~scope' PROVE \A p \in Pids : st[p] # "free" => line[p] \notin Open
  BY DEF ReleaseMeansGone
<1>2. Empty
  <2>1. ~UNCHANGED scopeVars /\ ~KernelStep
    BY <1>1 DEF scopeVars, KernelStep, Fork, Unrelated, Exit, ReapedElsewhere, ForeignReap
  <2>2. \A o \in Owners : ~(LaunchStep(o) \/ ChildStep(o) \/ Cleanup(o))
    BY <1>1 DEF LaunchStep, ChildStep, Cleanup, Admit, Arm, Clone, CloneFails, Handshake, Kill,
       DropHandle, CleanupKill, Wait, ReleaseTracking
  <2>3. \A s \in Scopes : ScopeStep(s) \/ DropLoop(s) => Empty
    BY <1>1 DEF ScopeStep, DropLoop, Reap, KillMember, ReleaseScope, DropScope, DropFails,
       DropRelease, DropKill, DropReap
  <2>. QED BY <2>1, <2>2, <2>3 DEF ScopeNext
<1>. QED BY <1>2, EmptyMeansGone DEF Open

(* The inductive invariant of process ownership: whose child every id is,  *)
(* what each owner's flags say of it, and that what is left of a scope     *)
(* descends from this process.                                             *)
THEOREM ScopeInvariant == ScopeSpec => []ScopeInv
<1>1. ScopeInit => ScopeInv
  BY ScopeInitInv
<1>2. ScopeInv /\ [ScopeNext]_scopeVars => ScopeInv'
  BY ScopeInvStep
<1>. QED BY <1>1, <1>2, PTL DEF ScopeSpec

(* For any owners, process ids, forks and foreign reapers: an id an owner  *)
(* may signal is still its child, the creation count is exact, a scope is  *)
(* alone, and when it is released no descendant of its root is left        *)
(* (process_launch.rs, process_live.rs, process_scope.rs).                 *)
THEOREM ScopesAreExclusive == ScopeSpec => ScopesExclusive
<1>1. ScopeInv => ScopeTypeOK /\ PidPinned /\ Counted /\ ScopeExclusive
  BY DEF ScopeInv
<1>2. ScopeInv /\ [ScopeNext]_scopeVars => [ReleaseMeansGone]_scopeVars
  BY GoneStep
<1>. QED BY <1>1, <1>2, ScopeInvariant, PTL DEF ScopeSpec, ScopesExclusive

-----------------------------------------------------------------------------
(***************************************************************************)
(* The database pool.  PoolSound is made inductive by SlotsOwned, which says*)
(* whose the slots are, and LifeFits, which ties them to the pool's life.  *)
(***************************************************************************)

Images == [mem : {"none", "live", "freed"}, driver : Databases \cup {"none"},
           native : {"idle", "tx", "error", "lost", "closed"},
           lease : BOOLEAN, tx : BOOLEAN, origin : BOOLEAN, closes : Nat]

(* A handle is closed once, with its image at the latest; an image that    *)
(* was never allocated is fresh; one of the pool's is live and of its      *)
(* driver.                                                                 *)
GoodImage(r) ==
    /\ r \in Images
    /\ r.mem # "none" => r.closes = IF r.native = "closed" THEN 1 ELSE 0
    /\ r.mem = "freed" => r.native = "closed"
    /\ r.mem = "none" => r = Fresh
    /\ r.origin => r.mem = "live" /\ r.driver = pool.driver

(* What the program holds is live. *)
HeldIsLive(c) ==
    /\ wrap[c] # "none" => conn[c].mem = "live"
    /\ rows[c] => wrap[c] # "none"

(* The slots are the pool's connections that nobody holds, once each. *)
SlotsOwned ==
    /\ \A i, j \in 1..Len(pool.slots) : pool.slots[i] = pool.slots[j] => i = j
    /\ \A i \in 1..Len(pool.slots) :
          LET c == pool.slots[i] IN
            /\ wrap[c] = "none" /\ conn[c].origin
            /\ conn[c].native = "idle" /\ ~conn[c].lease /\ ~conn[c].tx
    /\ \A c \in Conns : conn[c].mem = "live" /\ wrap[c] = "none" =>
          \E i \in 1..Len(pool.slots) : pool.slots[i] = c

(* Only a pool that is not dropped has slots; while it is built they are   *)
(* fewer than its capacity and none is out.                                *)
LifeFits ==
    /\ pool.life \notin {"building", "open"} => pool.slots = <<>>
    /\ pool.life = "building" => pool.out = 0 /\ Len(pool.slots) < Capacity

PoolInv ==
    /\ PoolTypeOK /\ PoolAlive /\ CheckedOut /\ ClosingIsNeeded
    /\ \A c \in Conns : GoodImage(conn[c]) /\ HeldIsLive(c)
    /\ SlotsOwned /\ LifeFits

LEMMA PoolInitInv == PoolInit => PoolInv
<1>. SUFFICES ASSUME PoolInit PROVE PoolInv
  OBVIOUS
<1>1. PoolTypeOK
  BY PoolConstants DEF PoolInit, PoolTypeOK, Fresh
<1>2. Pooled = {} /\ OutOfPool = {}
  BY DEF PoolInit, Pooled, OutOfPool, Fresh
<1>3. CheckedOut
  BY <1>2, FS_EmptySet DEF CheckedOut, PoolInit
<1>4. \A c \in Conns : GoodImage(conn[c]) /\ HeldIsLive(c)
  BY DEF PoolInit, GoodImage, HeldIsLive, Images, Fresh
<1>. QED
  BY <1>1, <1>2, <1>3, <1>4 DEF PoolInit, PoolInv, PoolAlive, ClosingIsNeeded, SlotsOwned, LifeFits, Fresh

(* What the properties say of the slots follows from whose they are. *)
LEMMA SlotsMean ==
    ASSUME PoolInv
    PROVE  OneOwner /\ ClosedOnce /\ IdleIsClean
<1>1. DOMAIN pool.slots = 1..Len(pool.slots) /\ \A i \in 1..Len(pool.slots) : pool.slots[i] \in Conns
  BY LenProperties, ElementOfSeq DEF PoolInv, PoolTypeOK
<1>2. ASSUME NEW c \in Conns, conn[c].mem = "live"
      PROVE  Cardinality({i \in DOMAIN pool.slots : pool.slots[i] = c}) + (IF wrap[c] = "none" THEN 0 ELSE 1) = 1
  <2>. DEFINE At == {i \in DOMAIN pool.slots : pool.slots[i] = c}
  <2>1. CASE wrap[c] = "none"
    <3>1. PICK i \in 1..Len(pool.slots) : pool.slots[i] = c
      BY <1>2, <2>1 DEF PoolInv, SlotsOwned
    <3>2. At = {i}
      BY <1>1, <3>1 DEF PoolInv, SlotsOwned
    <3>3. Cardinality(At) = 1
      BY <3>2, FS_Singleton
    <3>. QED BY <2>1, <3>3
  <2>2. CASE wrap[c] # "none"
    <3>1. At = {}
      BY <1>1, <2>2 DEF PoolInv, SlotsOwned
    <3>2. Cardinality(At) = 0
      BY <3>1, FS_EmptySet
    <3>. QED BY <2>2, <3>2
  <2>. QED BY <2>1, <2>2
<1>3. ClosedOnce
  BY DEF PoolInv, GoodImage, ClosedOnce
<1>4. IdleIsClean
  BY <1>1 DEF PoolInv, SlotsOwned, GoodImage, IdleIsClean
<1>. QED BY <1>2, <1>3, <1>4 DEF OneOwner

-----------------------------------------------------------------------------
(* Images *)

(* What the image of c may become while the program holds it. *)
Own(c, r) == GoodImage(r) /\ r.mem = "live" /\ r.origin = conn[c].origin

LEMMA ImageFields ==
    ASSUME NEW r \in Images
    PROVE  /\ r.mem \in {"none", "live", "freed"} /\ r.driver \in Databases \cup {"none"}
           /\ r.native \in {"idle", "tx", "error", "lost", "closed"}
           /\ r.lease \in BOOLEAN /\ r.tx \in BOOLEAN /\ r.origin \in BOOLEAN /\ r.closes \in Nat
BY DEF Images

LEMMA ClosesImage ==
    ASSUME NEW q \in Images, NEW n \in Nat
    PROVE  [q EXCEPT !.closes = n] \in Images
BY DEF Images

LEMMA PoisonedOwn ==
    ASSUME NEW c \in Conns, NEW r, Own(c, r)
    PROVE  Own(c, Poisoned(r)) /\ ~Live(Poisoned(r))
<1>1. r \in Images
  BY DEF Own, GoodImage
<1>2. CASE ~Live(r)
  BY <1>2 DEF Poisoned
<1>3. CASE Live(r)
  <2>. DEFINE p == [r EXCEPT !.native = "closed", !.lease = FALSE, !.tx = FALSE, !.closes = @ + 1]
  <2>1. Poisoned(r) = p
    BY <1>3 DEF Poisoned
  <2>2. r.closes = 0
    BY <1>3 DEF Own, GoodImage, Live
  <2>3. p \in Images
    <3>. DEFINE q == [r EXCEPT !.native = "closed", !.lease = FALSE, !.tx = FALSE]
    <3>1. q \in Images
      BY <1>1 DEF Images
    <3>2. p = [q EXCEPT !.closes = r.closes + 1]
      OBVIOUS
    <3>3. r.closes + 1 \in Nat
      BY <2>2
    <3>. QED BY <3>1, <3>2, <3>3, ClosesImage
  <2>4. p.closes = 1 /\ p.native = "closed" /\ p.mem = r.mem /\ p.origin = r.origin /\ p.driver = r.driver
    BY <1>1, <2>2 DEF Images
  <2>. QED BY <2>1, <2>3, <2>4 DEF Own, GoodImage, Live
<1>. QED BY <1>2, <1>3

LEMMA DroppedGood ==
    ASSUME NEW c \in Conns, NEW r, Own(c, r)
    PROVE  /\ GoodImage([Dropped(r) EXCEPT !.origin = FALSE])
           /\ ~r.origin => GoodImage(Dropped(r))
<1>1. r \in Images /\ r.mem = "live"
  BY DEF Own, GoodImage
<1>2. r.closes = IF Live(r) THEN 0 ELSE 1
  BY <1>1 DEF Own, GoodImage, Live
<1>3. Dropped(r) \in Images /\ [Dropped(r) EXCEPT !.origin = FALSE] \in Images
  <2>. DEFINE q == [r EXCEPT !.mem = "freed", !.native = "closed"]
              n == IF Live(r) THEN r.closes + 1 ELSE r.closes
  <2>1. q \in Images
    BY <1>1 DEF Images
  <2>2. n \in Nat
    BY <1>2
  <2>3. Dropped(r) = [q EXCEPT !.closes = n]
    BY DEF Dropped
  <2>. HIDE DEF n, q
  <2>4. Dropped(r) \in Images
    BY <2>1, <2>2, <2>3, ClosesImage
  <2>5. [Dropped(r) EXCEPT !.origin = FALSE] \in Images
    BY <2>4 DEF Images
  <2>. QED BY <2>4, <2>5
<1>4. Dropped(r).closes = 1 /\ Dropped(r).mem = "freed" /\ Dropped(r).native = "closed" /\ Dropped(r).origin = r.origin
  BY <1>1, <1>2 DEF Images, Dropped
<1>5. LET q == [Dropped(r) EXCEPT !.origin = FALSE] IN q.closes = 1 /\ q.mem = "freed" /\ q.native = "closed" /\ ~q.origin
  BY <1>3, <1>4 DEF Images
<1>. QED BY <1>3, <1>4, <1>5 DEF GoodImage

LEMMA RollbacksOwn ==
    ASSUME NEW c \in Conns, NEW r, Own(c, r), NEW x \in Rollbacks(r)
    PROVE  Own(c, x[1]) /\ x[2] \in BOOLEAN
<1>1. Own(c, [Poisoned(r) EXCEPT !.tx = FALSE])
  BY PoisonedOwn DEF Own, GoodImage, Images, Fresh
<1>2. CanRollback(r) => Own(c, [r EXCEPT !.native = "idle", !.tx = FALSE])
  BY DEF Own, GoodImage, Images, Fresh, CanRollback
<1>. DEFINE p == [Poisoned(r) EXCEPT !.tx = FALSE]
            q == [r EXCEPT !.native = "idle", !.tx = FALSE]
<1>3. x = <<r, FALSE>> \/ x = <<p, FALSE>> \/ (x = <<q, TRUE>> /\ CanRollback(r))
  <2>1. x \in IF ~Live(r) \/ ~r.tx THEN {<<r, FALSE>>}
              ELSE {<<p, FALSE>>} \cup (IF CanRollback(r) THEN {<<q, TRUE>>} ELSE {})
    BY DEF Rollbacks
  <2>. HIDE DEF p, q
  <2>2. CASE ~Live(r) \/ ~r.tx
    BY <2>1, <2>2
  <2>3. CASE ~(~Live(r) \/ ~r.tx) /\ CanRollback(r)
    BY <2>1, <2>3
  <2>4. CASE ~(~Live(r) \/ ~r.tx) /\ ~CanRollback(r)
    BY <2>1, <2>4
  <2>. QED BY <2>2, <2>3, <2>4
<1>4. Own(c, p) /\ (CanRollback(r) => Own(c, q))
  BY <1>1, <1>2
<1>. HIDE DEF p, q
<1>5. \A y : <<y, FALSE>>[1] = y /\ <<y, TRUE>>[1] = y /\ <<y, FALSE>>[2] \in BOOLEAN /\ <<y, TRUE>>[2] \in BOOLEAN
  OBVIOUS
<1>. QED BY <1>3, <1>4, <1>5, Zenon

LEMMA FailuresOwn ==
    ASSUME NEW c \in Conns, NEW r, Own(c, r), NEW sql, NEW x \in Failures(r, sql)
    PROVE  Own(c, x)
<1>1. r.native \in {"tx", "error"} => Own(c, [r EXCEPT !.native = "idle"])
  BY DEF Own, GoodImage, Images, Fresh
<1>. QED BY <1>1, PoisonedOwn DEF Failures

-----------------------------------------------------------------------------
(* A connection is used by who holds it: the pool is not concerned. *)
LEMMA UsedStep ==
    ASSUME PoolInv, NEW c \in Conns, NEW r, wrap[c] # "none", Own(c, r),
           conn' = [conn EXCEPT ![c] = r], pool' = pool,
           wrap' \in [Conns -> {"none", "conn", "tx"}], wrap'[c] # "none",
           \A d \in Conns \ {c} : wrap'[d] = wrap[d],
           rows' \in [Conns -> BOOLEAN], \A d \in Conns \ {c} : rows'[d] = rows[d]
    PROVE  PoolInv'
<1>1. conn'[c] = r /\ \A d \in Conns \ {c} : conn'[d] = conn[d]
  BY DEF PoolInv, PoolTypeOK
<1>2. \A d \in Conns : GoodImage(conn[d])' /\ HeldIsLive(d)'
  BY <1>1 DEF PoolInv, Own, GoodImage, HeldIsLive
<1>3. PoolTypeOK'
  BY <1>1 DEF PoolInv, PoolTypeOK, Own, GoodImage, Images
<1>4. Pooled' = Pooled /\ OutOfPool' = OutOfPool
  BY <1>1 DEF Pooled, OutOfPool, Own, PoolInv, HeldIsLive
<1>5. SlotsOwned'
  <2>1. \A i \in 1..Len(pool.slots) : pool.slots[i] \in Conns /\ pool.slots[i] # c
    BY ElementOfSeq DEF PoolInv, PoolTypeOK, SlotsOwned
  <2>. QED BY <1>1, <2>1 DEF PoolInv, SlotsOwned
<1>. QED
  BY <1>2, <1>3, <1>4, <1>5 DEF PoolInv, PoolAlive, CheckedOut, ClosingIsNeeded, LifeFits

-----------------------------------------------------------------------------
(* A connection leaves the program *)

LEMMA OutFinite ==
    ASSUME PoolInv
    PROVE  IsFiniteSet(OutOfPool) /\ Cardinality(OutOfPool) \in Nat
<1>1. OutOfPool \in SUBSET Conns
  BY DEF OutOfPool, Pooled
<1>2. IsFiniteSet(OutOfPool)
  BY <1>1, FS_Subset, PoolConstants
<1>. QED BY <1>2, FS_CardinalityType

(* Who holds a connection of the pool is counted, and the pool is there. *)
LEMMA HeldIsOut ==
    ASSUME PoolInv, NEW c \in Conns, wrap[c] # "none", conn[c].origin
    PROVE  /\ c \in OutOfPool /\ pool.life \in {"building", "open", "closing"}
           /\ pool.out = Cardinality(OutOfPool) /\ pool.out > 0
<1>1. c \in OutOfPool /\ c \in Pooled
  BY DEF PoolInv, HeldIsLive, OutOfPool, Pooled
<1>2. pool.life \in {"building", "open", "closing"} /\ pool.out = Cardinality(OutOfPool)
  BY <1>1 DEF PoolInv, PoolAlive, CheckedOut, PoolTypeOK
<1>3. Cardinality(OutOfPool) # 0
  BY <1>1, OutFinite, FS_EmptySet
<1>. QED BY <1>1, <1>2, <1>3, OutFinite

(* Its image is freed, and the pool's count follows. *)
LEMMA FreedStep ==
    ASSUME PoolInv, NEW c \in Conns, NEW r, wrap[c] # "none", ~rows[c],
           GoodImage(r), r.mem = "freed",
           conn' = [conn EXCEPT ![c] = r], Let(c), rows' = rows,
           IF conn[c].origin THEN pool' = Retired(pool) ELSE pool' = pool
    PROVE  PoolInv'
<1>1. conn'[c] = r /\ \A d \in Conns \ {c} : conn'[d] = conn[d]
  BY DEF PoolInv, PoolTypeOK
<1>2. /\ wrap' \in [Conns -> {"none", "conn", "tx"}] /\ wrap'[c] = "none"
      /\ \A d \in Conns \ {c} : wrap'[d] = wrap[d]
  BY DEF PoolInv, PoolTypeOK, Let
<1>3. /\ pool' \in [life : {"none", "building", "open", "closing", "freed"},
                    driver : Databases \cup {"none"}, slots : Seq(Conns), out : Nat]
      /\ pool'.slots = pool.slots /\ pool'.driver = pool.driver
      /\ pool'.out = IF conn[c].origin THEN pool.out - 1 ELSE pool.out
      /\ pool'.life = IF conn[c].origin /\ pool.life = "closing" /\ pool.out = 1 THEN "freed" ELSE pool.life
  <2>1. CASE conn[c].origin
    <3>1. pool.out \in Nat \ {0}
      BY <2>1, HeldIsOut DEF PoolInv, PoolTypeOK
    <3>2. pool' = [pool EXCEPT !.out = pool.out - 1,
                               !.life = IF pool.life = "closing" /\ pool.out = 1 THEN "freed" ELSE pool.life]
      BY <2>1, <3>1 DEF Retired
    <3>. DEFINE n == pool.out - 1
                l == IF pool.life = "closing" /\ pool.out = 1 THEN "freed" ELSE pool.life
    <3>3. n \in Nat /\ l \in {"none", "building", "open", "closing", "freed"}
      BY <3>1 DEF PoolInv, PoolTypeOK
    <3>4. pool' = [[pool EXCEPT !.out = n] EXCEPT !.life = l]
      BY <3>2
    <3>. HIDE DEF n, l
    <3>5. /\ pool' \in [life : {"none", "building", "open", "closing", "freed"},
                         driver : Databases \cup {"none"}, slots : Seq(Conns), out : Nat]
          /\ pool'.slots = pool.slots /\ pool'.driver = pool.driver /\ pool'.out = n /\ pool'.life = l
      BY <3>3, <3>4 DEF PoolInv, PoolTypeOK
    <3>. QED BY <2>1, <3>5 DEF n, l
  <2>2. CASE ~conn[c].origin
    BY <2>2 DEF PoolInv, PoolTypeOK
  <2>. QED BY <2>1, <2>2
<1>4. \A d \in Conns : GoodImage(conn[d])' /\ HeldIsLive(d)'
  <2>1. GoodImage(conn[c])'
    BY <1>1, <1>3 DEF GoodImage
  <2>2. \A d \in Conns \ {c} : GoodImage(conn[d])'
    BY <1>1, <1>3 DEF PoolInv, GoodImage
  <2>3. \A d \in Conns : HeldIsLive(d)'
    BY <1>1, <1>2 DEF PoolInv, HeldIsLive
  <2>. QED BY <2>1, <2>2, <2>3
<1>5. PoolTypeOK'
  <2>1. conn' \in [Conns -> Images]
    BY <1>4 DEF GoodImage, PoolInv, PoolTypeOK
  <2>2. pool.out \in Nat /\ Len(pool.slots) \in Nat /\ Len(pool.slots) <= Capacity /\ pool.out <= Capacity - Len(pool.slots)
    BY LenProperties DEF PoolInv, PoolTypeOK
  <2>3. Len(pool'.slots) <= Capacity /\ pool'.out <= Capacity - Len(pool'.slots)
    BY <1>3, <2>2, PoolConstants
  <2>. QED BY <1>2, <1>3, <2>1, <2>3 DEF PoolInv, PoolTypeOK, Images
<1>6. Pooled' = Pooled \ {c} /\ OutOfPool' = OutOfPool \ {c}
  BY <1>1, <1>2 DEF Pooled, OutOfPool, GoodImage
<1>7. CheckedOut' /\ ClosingIsNeeded' /\ PoolAlive'
  <2>1. CASE conn[c].origin
    <3>1. Cardinality(OutOfPool') = Cardinality(OutOfPool) - 1
      BY <1>6, <2>1, HeldIsOut, OutFinite, FS_RemoveElement
    <3>2. CheckedOut'
      BY <1>3, <2>1, <3>1, HeldIsOut DEF CheckedOut
    <3>3. ClosingIsNeeded'
      <4>1. SUFFICES ASSUME pool'.life = "closing" PROVE OutOfPool' # {}
        BY DEF ClosingIsNeeded
      <4>2. pool.out # 1 /\ pool.out = Cardinality(OutOfPool)
        BY <1>3, <2>1, <4>1, HeldIsOut
      <4>3. Cardinality(OutOfPool') # 0
        BY <3>1, <4>2, OutFinite
      <4>. QED BY <4>3, FS_EmptySet
    <3>4. PoolAlive'
      <4>1. SUFFICES ASSUME pool'.life \in {"none", "freed"} PROVE Pooled' = {}
        BY DEF PoolAlive
      <4>2. pool.life = "closing" /\ pool.out = 1
        BY <1>3, <2>1, <4>1, HeldIsOut
      <4>3. Cardinality(OutOfPool') = 0
        BY <2>1, <3>1, <4>2, HeldIsOut
      <4>4. OutOfPool' = {}
        <5>1. IsFiniteSet(OutOfPool')
          BY <1>6, OutFinite, FS_RemoveElement
        <5>. QED BY <4>3, <5>1, FS_EmptySet
      <4>5. pool.slots = <<>> /\ Len(pool.slots) = 0
        BY <4>2, EmptySeq DEF PoolInv, LifeFits
      <4>6. \A d \in Pooled : wrap[d] # "none"
        BY <4>5 DEF PoolInv, SlotsOwned, Pooled
      <4>7. Pooled \ {c} \subseteq OutOfPool \ {c}
        BY <4>6 DEF OutOfPool
      <4>. QED BY <1>6, <4>4, <4>7
    <3>. QED BY <3>2, <3>3, <3>4
  <2>2. CASE ~conn[c].origin
    <3>1. c \notin Pooled /\ c \notin OutOfPool
      BY <2>2 DEF Pooled, OutOfPool
    <3>2. Pooled' = Pooled /\ OutOfPool' = OutOfPool /\ pool' = pool
      BY <1>6, <2>2, <3>1
    <3>. QED BY <3>2 DEF PoolInv, CheckedOut, ClosingIsNeeded, PoolAlive
  <2>. QED BY <2>1, <2>2
<1>8. SlotsOwned'
  <2>1. \A i \in 1..Len(pool.slots) : pool.slots[i] \in Conns /\ pool.slots[i] # c
    BY ElementOfSeq DEF PoolInv, PoolTypeOK, SlotsOwned
  <2>. QED BY <1>1, <1>2, <1>3, <2>1 DEF PoolInv, SlotsOwned
<1>9. LifeFits'
  BY <1>3, HeldIsOut, PoolConstants DEF PoolInv, LifeFits
<1>. QED BY <1>4, <1>5, <1>7, <1>8, <1>9 DEF PoolInv

(* It goes back on the stack. *)
LEMMA PushedStep ==
    ASSUME PoolInv, NEW c \in Conns, NEW r, wrap[c] # "none", ~rows[c], Own(c, r), r.origin,
           pool.life = "open", Len(pool.slots) < Capacity, NativeIdle(r),
           conn' = [conn EXCEPT ![c] = r], Let(c), rows' = rows, pool' = Pushed(pool, c)
    PROVE  PoolInv'
<1>1. conn'[c] = r /\ \A d \in Conns \ {c} : conn'[d] = conn[d]
  BY DEF PoolInv, PoolTypeOK
<1>2. /\ wrap' \in [Conns -> {"none", "conn", "tx"}] /\ wrap'[c] = "none"
      /\ \A d \in Conns \ {c} : wrap'[d] = wrap[d]
  BY DEF PoolInv, PoolTypeOK, Let
<1>3. c \in OutOfPool /\ pool.out = Cardinality(OutOfPool) /\ pool.out > 0 /\ pool.out \in Nat
  BY HeldIsOut DEF Own, PoolInv, PoolTypeOK
<1>. DEFINE s == pool.slots
            t == Append(pool.slots, c)
<1>4. /\ s \in Seq(Conns) /\ Len(s) \in Nat /\ t \in Seq(Conns) /\ Len(t) = Len(s) + 1
      /\ \A i \in 1..Len(s) : t[i] = s[i] /\ s[i] \in Conns /\ s[i] # c
      /\ t[Len(s) + 1] = c
  <2>1. s \in Seq(Conns)
    BY DEF PoolInv, PoolTypeOK
  <2>2. \A i \in 1..Len(s) : s[i] \in Conns /\ s[i] # c
    BY <2>1, ElementOfSeq DEF PoolInv, SlotsOwned
  <2>. QED BY <2>1, <2>2, AppendProperties, LenProperties
<1>5. /\ pool' \in [life : {"none", "building", "open", "closing", "freed"},
                    driver : Databases \cup {"none"}, slots : Seq(Conns), out : Nat]
      /\ pool'.slots = t /\ pool'.driver = pool.driver /\ pool'.life = "open" /\ pool'.out = pool.out - 1
  <2>1. pool' = [[pool EXCEPT !.slots = t] EXCEPT !.out = pool.out - 1]
    BY DEF Pushed
  <2>2. pool.out - 1 \in Nat
    BY <1>3
  <2>. HIDE DEF t
  <2>. QED BY <1>4, <2>1, <2>2 DEF PoolInv, PoolTypeOK
<1>. HIDE DEF t
<1>6. \A d \in Conns : GoodImage(conn[d])' /\ HeldIsLive(d)'
  <2>1. GoodImage(conn[c])'
    BY <1>1, <1>5 DEF Own, GoodImage
  <2>2. \A d \in Conns \ {c} : GoodImage(conn[d])'
    BY <1>1, <1>5 DEF PoolInv, GoodImage
  <2>3. \A d \in Conns : HeldIsLive(d)'
    BY <1>1, <1>2 DEF PoolInv, HeldIsLive, Own
  <2>. QED BY <2>1, <2>2, <2>3
<1>7. PoolTypeOK'
  <2>1. conn' \in [Conns -> Images]
    BY <1>6 DEF GoodImage, PoolInv, PoolTypeOK
  <2>2. Len(s) <= Capacity /\ pool.out <= Capacity - Len(s)
    BY DEF PoolInv, PoolTypeOK
  <2>3. Len(t) <= Capacity /\ pool.out - 1 <= Capacity - Len(t)
    BY <1>3, <1>4, <2>2, PoolConstants
  <2>. QED BY <1>2, <1>5, <2>1, <2>3 DEF PoolInv, PoolTypeOK, Images
<1>8. Pooled' = Pooled /\ OutOfPool' = OutOfPool \ {c}
  BY <1>1, <1>2, <1>3 DEF Pooled, OutOfPool, Own
<1>9. CheckedOut' /\ ClosingIsNeeded' /\ PoolAlive' /\ LifeFits'
  <2>1. Cardinality(OutOfPool') = Cardinality(OutOfPool) - 1
    BY <1>3, <1>8, OutFinite, FS_RemoveElement
  <2>. QED BY <1>3, <1>5, <2>1 DEF CheckedOut, ClosingIsNeeded, PoolAlive, LifeFits
<1>10. SlotsOwned'
  <2>1. ASSUME NEW i \in 1..Len(t), NEW j \in 1..Len(t), t[i] = t[j] PROVE i = j
    BY <1>4, <2>1 DEF PoolInv, SlotsOwned
  <2>2. ASSUME NEW i \in 1..Len(t)
        PROVE  /\ wrap'[t[i]] = "none" /\ conn'[t[i]].origin
               /\ conn'[t[i]].native = "idle" /\ ~conn'[t[i]].lease /\ ~conn'[t[i]].tx
    <3>1. CASE i = Len(s) + 1
      BY <1>1, <1>2, <1>4, <3>1 DEF NativeIdle
    <3>2. CASE i \in 1..Len(s)
      BY <1>1, <1>2, <1>4, <3>2 DEF PoolInv, SlotsOwned
    <3>. QED BY <1>4, <3>1, <3>2
  <2>3. ASSUME NEW d \in Conns, conn'[d].mem = "live", wrap'[d] = "none"
        PROVE  \E i \in 1..Len(t) : t[i] = d
    <3>1. CASE d = c
      BY <1>4, <3>1
    <3>2. CASE d # c
      <4>1. PICK i \in 1..Len(s) : s[i] = d
        BY <1>1, <1>2, <2>3, <3>2 DEF PoolInv, SlotsOwned
      <4>. QED BY <1>4, <4>1
    <3>. QED BY <3>1, <3>2
  <2>. QED BY <1>5, <2>1, <2>2, <2>3 DEF SlotsOwned
<1>. QED BY <1>6, <1>7, <1>9, <1>10 DEF PoolInv

(* retire_conn_state, release_conn_state and drop_tx, of any image that    *)
(* the connection's may have become.                                       *)
LEMMA RetireStep ==
    ASSUME PoolInv, NEW c \in Conns, NEW r, wrap[c] # "none", ~rows[c], Own(c, r), r.origin,
           Retire(c, r), Let(c), rows' = rows
    PROVE  PoolInv'
<1>. DEFINE q == [Dropped(r) EXCEPT !.origin = FALSE]
<1>1. GoodImage(q)
  BY DroppedGood
<1>2. q.mem = "freed"
  BY DEF Own, GoodImage, Images, Dropped
<1>3. conn' = [conn EXCEPT ![c] = q] /\ pool' = Retired(pool)
  BY DEF Retire
<1>. HIDE DEF q
<1>. QED BY <1>1, <1>2, <1>3, FreedStep DEF Own

LEMMA DropUnpooledStep ==
    ASSUME PoolInv, NEW c \in Conns, NEW r, wrap[c] # "none", ~rows[c], Own(c, r), ~r.origin,
           conn' = [conn EXCEPT ![c] = Dropped(r)], UNCHANGED pool, Let(c), rows' = rows
    PROVE  PoolInv'
<1>1. GoodImage(Dropped(r))
  BY DroppedGood
<1>2. Dropped(r).mem = "freed"
  BY DEF Own, GoodImage, Images, Dropped
<1>. QED BY <1>1, <1>2, FreedStep DEF Own

LEMMA ReleaseConnStep ==
    ASSUME PoolInv, NEW c \in Conns, NEW r, wrap[c] # "none", ~rows[c], Own(c, r),
           ReleaseConn(c, r), Let(c), rows' = rows
    PROVE  PoolInv'
<1>1. CASE ~r.origin
  BY <1>1, DropUnpooledStep DEF ReleaseConn
<1>2. CASE r.origin
  <2>1. Own(c, Poisoned(r)) /\ Poisoned(r).origin
    BY <1>2, PoisonedOwn DEF Own
  <2>2. CASE pool.life # "open" \/ pool.out = 0 \/ Len(pool.slots) >= Capacity \/ ~NativeIdle(r)
    <3>1. Retire(c, Poisoned(r)) \/ Retire(c, r)
      BY <1>2, <2>2 DEF ReleaseConn
    <3>. QED BY <1>2, <2>1, <3>1, RetireStep
  <2>3. CASE ~(pool.life # "open" \/ pool.out = 0 \/ Len(pool.slots) >= Capacity \/ ~NativeIdle(r))
    <3>1. Len(pool.slots) < Capacity
      BY <2>3, PoolConstants, LenProperties DEF PoolInv, PoolTypeOK
    <3>. QED BY <1>2, <2>3, <3>1, PushedStep DEF ReleaseConn
  <2>. QED BY <2>2, <2>3
<1>. QED BY <1>1, <1>2

LEMMA AbandonStep ==
    ASSUME PoolInv, NEW c \in Conns, NEW r, wrap[c] # "none", ~rows[c], Own(c, r),
           Abandon(c, r), Let(c), rows' = rows
    PROVE  PoolInv'
<1>1. PICK x \in Rollbacks(r) :
         IF ~r.origin THEN conn' = [conn EXCEPT ![c] = Dropped(x[1])] /\ UNCHANGED pool
         ELSE IF x[2] THEN ReleaseConn(c, x[1]) ELSE Retire(c, x[1])
  BY DEF Abandon
<1>2. Own(c, x[1]) /\ x[1].origin = r.origin /\ x[2] \in BOOLEAN
  BY RollbacksOwn DEF Own
<1>3. CASE ~r.origin
  BY <1>1, <1>2, <1>3, DropUnpooledStep
<1>4. CASE r.origin /\ x[2]
  BY <1>1, <1>2, <1>4, ReleaseConnStep
<1>5. CASE r.origin /\ ~x[2]
  BY <1>1, <1>2, <1>5, RetireStep
<1>. QED BY <1>3, <1>4, <1>5

-----------------------------------------------------------------------------
(* The operations on a connection *)

LEMMA HeldOwn ==
    ASSUME PoolInv, NEW c \in Conns, wrap[c] # "none"
    PROVE  Own(c, conn[c])
BY DEF PoolInv, HeldIsLive, Own

(* The server's state and the lease of a live connection may change. *)
LEMMA NativeOwn ==
    ASSUME NEW c \in Conns, NEW r, Own(c, r), Live(r), NEW n \in {"idle", "tx", "error", "lost"}, NEW b \in BOOLEAN
    PROVE  Own(c, [r EXCEPT !.native = n]) /\ Own(c, [r EXCEPT !.native = n, !.tx = b])
<1>. DEFINE q == [r EXCEPT !.native = n]
<1>1. Own(c, q)
  BY DEF Own, GoodImage, Images, Live
<1>2. [r EXCEPT !.native = n, !.tx = b] = [q EXCEPT !.tx = b]
  OBVIOUS
<1>. HIDE DEF q
<1>3. Own(c, [q EXCEPT !.tx = b])
  BY <1>1 DEF Own, GoodImage, Images, Fresh
<1>. QED BY <1>1, <1>2, <1>3 DEF q

LEMMA LeaseOwn ==
    ASSUME NEW c \in Conns, NEW r, Own(c, r), NEW b \in BOOLEAN
    PROVE  Own(c, [r EXCEPT !.lease = b])
BY DEF Own, GoodImage, Images, Fresh

LEMMA RunStep ==
    ASSUME PoolInv, NEW c \in Conns, Run(c)
    PROVE  PoolInv'
<1>1. wrap[c] # "none" /\ Live(conn[c]) /\ UNCHANGED <<pool, wrap, rows>>
  BY DEF Run, Usable
<1>2. Own(c, conn[c])
  BY <1>1, HeldOwn
<1>3. PICK r : Own(c, r) /\ conn' = [conn EXCEPT ![c] = r]
  <2>1. CASE conn' = [conn EXCEPT ![c] = Poisoned(@)]
    BY <1>2, <2>1, PoisonedOwn
  <2>2. CASE \E n \in {"idle", "tx", "error", "lost"} : conn' = [conn EXCEPT ![c].native = n]
    BY <1>1, <1>2, <2>2, NativeOwn
  <2>. QED BY <2>1, <2>2 DEF Run
<1>. QED BY <1>1, <1>3, UsedStep DEF PoolInv, PoolTypeOK

LEMMA RowsStep ==
    ASSUME PoolInv, NEW c \in Conns, OpenRows(c) \/ CloseRows(c)
    PROVE  PoolInv'
<1>1. wrap[c] # "none" /\ UNCHANGED <<pool, wrap>>
  BY DEF OpenRows, CloseRows, Usable, PoolInv, HeldIsLive
<1>2. Own(c, conn[c])
  BY <1>1, HeldOwn
<1>3. PICK r : Own(c, r) /\ conn' = [conn EXCEPT ![c] = r]
  <2>1. CASE conn' = [conn EXCEPT ![c] = Poisoned(@)]
    BY <1>2, <2>1, PoisonedOwn
  <2>2. CASE \E b \in BOOLEAN : conn' = [conn EXCEPT ![c] = [@ EXCEPT !.lease = b]]
    BY <1>2, <2>2, LeaseOwn
  <2>3. CASE conn' = [conn EXCEPT ![c].lease = TRUE]
    BY <1>2, <2>3, LeaseOwn
  <2>. QED BY <2>1, <2>2, <2>3 DEF OpenRows, CloseRows
<1>4. rows' \in [Conns -> BOOLEAN] /\ \A d \in Conns \ {c} : rows'[d] = rows[d]
  BY DEF OpenRows, CloseRows, PoolInv, PoolTypeOK
<1>. QED BY <1>1, <1>3, <1>4, UsedStep DEF PoolInv, PoolTypeOK

LEMMA StmtFailsStep ==
    ASSUME PoolInv, NEW c \in Conns, StmtFails(c)
    PROVE  PoolInv'
<1>1. wrap[c] # "none" /\ UNCHANGED <<pool, wrap, rows>>
  BY DEF StmtFails, Usable
<1>2. Own(c, Poisoned(conn[c])) /\ conn' = [conn EXCEPT ![c] = Poisoned(conn[c])]
  BY <1>1, HeldOwn, PoisonedOwn DEF StmtFails
<1>. QED BY <1>1, <1>2, UsedStep DEF PoolInv, PoolTypeOK

LEMMA DropConnStep ==
    ASSUME PoolInv, NEW c \in Conns, DropConn(c) \/ DropTx(c)
    PROVE  PoolInv'
BY HeldOwn, ReleaseConnStep, AbandonStep DEF DropConn, DropTx

(* A transaction begins or ends, or its connection goes. *)
LEMMA ControlledStep ==
    ASSUME PoolInv, NEW c \in Conns, wrap[c] # "none", Live(conn[c]), NEW b \in BOOLEAN,
           NEW n \in {"idle", "tx"}, NEW w \in {"conn", "tx"},
           conn' = [conn EXCEPT ![c].native = n, ![c].tx = b],
           wrap' = [wrap EXCEPT ![c] = w], UNCHANGED <<pool, rows>>
    PROVE  PoolInv'
<1>. DEFINE r == [conn[c] EXCEPT !.native = n, !.tx = b]
<1>1. Own(c, r)
  BY HeldOwn, NativeOwn
<1>2. conn' = [conn EXCEPT ![c] = r]
  BY DEF PoolInv, PoolTypeOK
<1>3. wrap' \in [Conns -> {"none", "conn", "tx"}] /\ wrap'[c] # "none" /\ \A d \in Conns \ {c} : wrap'[d] = wrap[d]
  BY DEF PoolInv, PoolTypeOK
<1>. HIDE DEF r
<1>. QED BY <1>1, <1>2, <1>3, UsedStep DEF PoolInv, PoolTypeOK

LEMMA BeginStep ==
    ASSUME PoolInv, NEW c \in Conns, Begin(c)
    PROVE  PoolInv'
<1>1. wrap[c] = "conn" /\ ~rows[c] /\ rows' = rows
  BY DEF Begin
<1>2. CASE /\ Live(conn[c])
           /\ conn' = [conn EXCEPT ![c].native = "tx", ![c].tx = TRUE]
           /\ wrap' = [wrap EXCEPT ![c] = "tx"] /\ UNCHANGED pool
  BY <1>1, <1>2, ControlledStep
<1>3. CASE (\E r \in Failures(conn[c], "BEGIN") \cup {conn[c]} : ReleaseConn(c, r)) /\ Let(c)
  BY <1>1, <1>3, HeldOwn, FailuresOwn, ReleaseConnStep
<1>. QED BY <1>2, <1>3 DEF Begin

LEMMA EndTxStep ==
    ASSUME PoolInv, NEW c \in Conns, NEW sql, EndTx(c, sql)
    PROVE  PoolInv'
<1>1. wrap[c] = "tx" /\ ~rows[c] /\ rows' = rows
  BY DEF EndTx
<1>2. CASE /\ Live(conn[c])
           /\ conn' = [conn EXCEPT ![c].native = "idle", ![c].tx = FALSE]
           /\ wrap' = [wrap EXCEPT ![c] = "conn"] /\ UNCHANGED pool
  BY <1>1, <1>2, ControlledStep
<1>3. CASE (\E r \in Failures(conn[c], sql) \cup {conn[c]} : Abandon(c, r)) /\ Let(c)
  BY <1>1, <1>3, HeldOwn, FailuresOwn, AbandonStep
<1>. QED BY <1>2, <1>3 DEF EndTx

-----------------------------------------------------------------------------
(* The pool's own operations *)

PoolImages == [life : {"none", "building", "open", "closing", "freed"},
               driver : Databases \cup {"none"}, slots : Seq(Conns), out : Nat]

(* No connection of the invariant's pool makes it invalid. *)
LEMMA AlwaysValid ==
    ASSUME PoolInv, pool.life \in {"building", "open"}
    PROVE  OpenValid(pool)
<1>1. ASSUME NEW i \in DOMAIN pool.slots
      PROVE  LET r == conn[pool.slots[i]] IN FlagsIdle(r) /\ r.driver = pool.driver /\ r.origin
  <2>1. i \in 1..Len(pool.slots) /\ pool.slots[i] \in Conns
    BY <1>1, LenProperties, ElementOfSeq DEF PoolInv, PoolTypeOK
  <2>. QED BY <2>1 DEF PoolInv, SlotsOwned, GoodImage, FlagsIdle, Live
<1>. QED BY <1>1 DEF OpenValid

LEMMA OpenPoolStep ==
    ASSUME PoolInv, NEW d \in Databases, OpenPool(d)
    PROVE  PoolInv'
<1>1. pool.life = "none" /\ Pooled = {} /\ OutOfPool = {} /\ pool.out = 0 /\ pool.slots = <<>>
  <2>1. pool.life = "none" /\ Pooled = {} /\ OutOfPool = {} /\ pool.slots = <<>>
    BY DEF OpenPool, PoolInv, PoolAlive, OutOfPool, LifeFits
  <2>2. pool.out = 0
    BY <2>1, FS_EmptySet DEF PoolInv, CheckedOut
  <2>. QED BY <2>1, <2>2
<1>2. /\ pool' \in PoolImages /\ pool'.life = "building" /\ pool'.slots = <<>> /\ pool'.out = 0
      /\ UNCHANGED <<conn, wrap, rows>>
  BY <1>1 DEF OpenPool, PoolInv, PoolTypeOK, PoolImages
<1>3. Len(pool'.slots) = 0
  BY <1>2, EmptySeq
<1>4. PoolTypeOK'
  BY <1>2, <1>3, PoolConstants DEF PoolInv, PoolTypeOK, PoolImages
<1>5. Pooled' = {} /\ OutOfPool' = {}
  BY <1>1, <1>2 DEF Pooled, OutOfPool
<1>6. \A c \in Conns : GoodImage(conn[c])' /\ HeldIsLive(c)'
  <2>1. \A c \in Conns : ~conn[c].origin
    BY <1>1 DEF PoolInv, GoodImage, Pooled
  <2>. QED BY <1>2, <2>1 DEF PoolInv, GoodImage, HeldIsLive
<1>7. CheckedOut' /\ PoolAlive' /\ ClosingIsNeeded' /\ LifeFits'
  BY <1>2, <1>3, <1>5, FS_EmptySet, PoolConstants DEF CheckedOut, PoolAlive, ClosingIsNeeded, LifeFits
<1>8. SlotsOwned'
  BY <1>1, <1>2 DEF PoolInv, SlotsOwned
<1>. QED BY <1>4, <1>6, <1>7, <1>8 DEF PoolInv

LEMMA ConnectStep ==
    ASSUME PoolInv, NEW c \in Conns, NEW d \in Databases, Connect(c, d)
    PROVE  PoolInv'
<1>1. conn[c].mem = "none" /\ conn[c] = Fresh /\ wrap[c] = "none" /\ UNCHANGED <<pool, rows>>
  BY DEF Connect, PoolInv, GoodImage, HeldIsLive
<1>2. conn'[c] = Connected(d) /\ \A e \in Conns \ {c} : conn'[e] = conn[e]
  BY DEF Connect, PoolInv, PoolTypeOK
<1>3. /\ wrap' \in [Conns -> {"none", "conn", "tx"}] /\ wrap'[c] = "conn"
      /\ \A e \in Conns \ {c} : wrap'[e] = wrap[e]
  BY DEF Connect, PoolInv, PoolTypeOK
<1>4. GoodImage(Connected(d)) /\ ~Connected(d).origin /\ Connected(d).mem = "live"
  BY DEF Connected, Fresh, GoodImage, Images
<1>5. \A e \in Conns : GoodImage(conn[e])' /\ HeldIsLive(e)'
  <2>1. GoodImage(conn[c])'
    BY <1>1, <1>2, <1>4 DEF GoodImage
  <2>. QED BY <1>1, <1>2, <1>3, <1>4, <2>1 DEF PoolInv, GoodImage, HeldIsLive
<1>6. PoolTypeOK'
  <2>1. conn' \in [Conns -> Images]
    BY <1>5 DEF Connect, GoodImage, PoolInv, PoolTypeOK
  <2>. QED BY <1>1, <1>3, <2>1 DEF PoolInv, PoolTypeOK, Images
<1>7. Pooled' = Pooled /\ OutOfPool' = OutOfPool
  BY <1>1, <1>2, <1>3, <1>4 DEF Pooled, OutOfPool
<1>8. SlotsOwned'
  <2>1. \A i \in 1..Len(pool.slots) : pool.slots[i] \in Conns /\ pool.slots[i] # c
    BY <1>1, ElementOfSeq DEF PoolInv, PoolTypeOK, SlotsOwned, Fresh
  <2>. QED BY <1>1, <1>2, <1>3, <2>1 DEF PoolInv, SlotsOwned
<1>. QED BY <1>1, <1>5, <1>6, <1>7, <1>8 DEF PoolInv, CheckedOut, PoolAlive, ClosingIsNeeded, LifeFits

LEMMA TryAcquireStep ==
    ASSUME PoolInv, TryAcquire
    PROVE  PoolInv'
<1>. DEFINE s == pool.slots
            t == Front(pool.slots)
            c == Last(pool.slots)
<1>1. pool.life = "open" /\ s # <<>> /\ UNCHANGED <<conn, rows>>
  BY DEF TryAcquire
<1>2. s \in Seq(Conns) /\ Len(s) \in Nat \ {0} /\ pool.out \in Nat
  BY <1>1, EmptySeq DEF PoolInv, PoolTypeOK
<1>3. \A i \in 1..Len(s) : s[i] \in Conns
  BY <1>2, ElementOfSeq
<1>4. /\ t \in Seq(Conns) /\ Len(t) = Len(s) - 1 /\ \A i \in 1..Len(t) : t[i] = s[i]
      /\ c = s[Len(s)] /\ c \in Conns
  BY <1>2, <1>3, SubSeqProperties DEF Front, Last
<1>5. /\ pool' \in PoolImages /\ pool'.slots = t /\ pool'.driver = pool.driver
      /\ pool'.life = "open" /\ pool'.out = pool.out + 1
  <2>1. pool' = [[pool EXCEPT !.slots = t] EXCEPT !.out = pool.out + 1]
    BY DEF TryAcquire, Popped
  <2>2. pool.out + 1 \in Nat
    BY <1>2
  <2>. HIDE DEF t
  <2>. QED BY <1>1, <1>4, <2>1, <2>2 DEF PoolInv, PoolTypeOK, PoolImages
<1>6. /\ wrap' \in [Conns -> {"none", "conn", "tx"}] /\ wrap'[c] = "conn"
      /\ \A e \in Conns \ {c} : wrap'[e] = wrap[e]
  BY <1>4 DEF TryAcquire, PoolInv, PoolTypeOK
<1>7. wrap[c] = "none" /\ conn[c].origin /\ conn[c].mem = "live"
  BY <1>2, <1>4 DEF PoolInv, SlotsOwned, GoodImage
<1>. HIDE DEF t, c
<1>8. \A e \in Conns : GoodImage(conn[e])' /\ HeldIsLive(e)'
  BY <1>1, <1>4, <1>5, <1>6, <1>7 DEF PoolInv, GoodImage, HeldIsLive
<1>9. PoolTypeOK'
  <2>1. Len(s) <= Capacity /\ pool.out <= Capacity - Len(s)
    BY DEF PoolInv, PoolTypeOK
  <2>2. Len(t) <= Capacity /\ pool.out + 1 <= Capacity - Len(t)
    <3>1. Len(t) = Len(s) - 1 /\ Len(s) \in Nat \ {0} /\ pool.out \in Nat /\ Capacity \in Nat
      BY <1>2, <1>4, PoolConstants
    <3>2. \A a \in Nat \ {0} : \A o, k \in Nat : a <= k /\ o <= k - a => a - 1 <= k /\ o + 1 <= k - (a - 1)
      OBVIOUS
    <3>. QED BY <2>1, <3>1, <3>2
  <2>. QED BY <1>1, <1>5, <1>6, <2>2 DEF PoolInv, PoolTypeOK, PoolImages
<1>10. Pooled' = Pooled /\ OutOfPool' = OutOfPool \cup {c} /\ c \notin OutOfPool
  BY <1>1, <1>4, <1>6, <1>7 DEF Pooled, OutOfPool
<1>11. CheckedOut' /\ PoolAlive' /\ ClosingIsNeeded' /\ LifeFits'
  <2>1. Cardinality(OutOfPool') = Cardinality(OutOfPool) + 1
    BY <1>10, OutFinite, FS_AddElement
  <2>. QED BY <1>1, <1>5, <2>1 DEF PoolInv, CheckedOut, PoolAlive, ClosingIsNeeded, LifeFits
<1>12. SlotsOwned'
  <2>1. \A i \in 1..Len(t) : i \in 1..Len(s) /\ t[i] = s[i] /\ s[i] # c /\ s[i] \in Conns
    BY <1>2, <1>3, <1>4 DEF PoolInv, SlotsOwned
  <2>2. ASSUME NEW e \in Conns, conn'[e].mem = "live", wrap'[e] = "none"
        PROVE  \E i \in 1..Len(t) : t[i] = e
    <3>1. e # c
      BY <1>6, <2>2
    <3>2. PICK i \in 1..Len(s) : s[i] = e
      BY <1>1, <1>6, <2>2, <3>1 DEF PoolInv, SlotsOwned
    <3>. QED BY <1>2, <1>4, <3>1, <3>2
  <2>3. \A i, j \in 1..Len(t) : t[i] = t[j] => i = j
    BY <2>1 DEF PoolInv, SlotsOwned
  <2>4. \A i \in 1..Len(t) : /\ wrap'[t[i]] = "none" /\ conn[t[i]].origin
                             /\ conn[t[i]].native = "idle" /\ ~conn[t[i]].lease /\ ~conn[t[i]].tx
    BY <1>6, <2>1 DEF PoolInv, SlotsOwned
  <2>. QED BY <1>1, <1>5, <2>2, <2>3, <2>4 DEF SlotsOwned
<1>. QED BY <1>8, <1>9, <1>11, <1>12 DEF PoolInv

LEMMA AttachStep ==
    ASSUME PoolInv, NEW c \in Conns, Attach(c)
    PROVE  PoolInv'
<1>. DEFINE s == pool.slots
            t == Append(pool.slots, c)
            r == [Connected(pool.driver) EXCEPT !.origin = TRUE]
<1>1. /\ pool.life = "building" /\ UNCHANGED <<wrap, rows>> /\ conn[c].mem = "none" /\ wrap[c] = "none" /\ ~rows[c]
      /\ conn[c] = Fresh /\ pool.out = 0 /\ pool.out \in Nat /\ Len(s) < Capacity
  BY DEF Attach, PoolInv, HeldIsLive, GoodImage, LifeFits, PoolTypeOK
<1>2. conn'[c] = r /\ \A d \in Conns \ {c} : conn'[d] = conn[d]
  BY DEF Attach, PoolInv, PoolTypeOK
<1>3. GoodImage(r) /\ r.origin /\ r.mem = "live" /\ r.native = "idle" /\ ~r.lease /\ ~r.tx
  BY DEF PoolInv, PoolTypeOK, GoodImage, Images, Connected, Fresh
<1>4. /\ s \in Seq(Conns) /\ Len(s) \in Nat /\ t \in Seq(Conns) /\ Len(t) = Len(s) + 1
      /\ \A i \in 1..Len(s) : t[i] = s[i] /\ s[i] \in Conns /\ s[i] # c
      /\ t[Len(s) + 1] = c
  <2>1. s \in Seq(Conns)
    BY DEF PoolInv, PoolTypeOK
  <2>2. \A i \in 1..Len(s) : s[i] \in Conns /\ s[i] # c
    BY <1>1, <2>1, ElementOfSeq DEF PoolInv, SlotsOwned, Fresh
  <2>. QED BY <2>1, <2>2, AppendProperties, LenProperties
<1>5. /\ pool' \in PoolImages /\ pool'.slots = t /\ pool'.driver = pool.driver /\ pool'.out = 0
      /\ pool'.life = IF Len(t) = Capacity THEN "open" ELSE "building"
  <2>. DEFINE l == IF Len(s) + 1 = Capacity THEN "open" ELSE "building"
  <2>1. pool' = [pool EXCEPT !.slots = t, !.life = l]
    BY <1>1 DEF Attach
  <2>2. l \in {"none", "building", "open", "closing", "freed"}
    OBVIOUS
  <2>. HIDE DEF t, l
  <2>3. pool' \in PoolImages /\ pool'.slots = t /\ pool'.driver = pool.driver /\ pool'.out = 0 /\ pool'.life = l
    BY <1>1, <1>4, <2>1, <2>2 DEF PoolInv, PoolTypeOK, PoolImages
  <2>. QED BY <1>4, <2>3 DEF l
<1>. HIDE DEF t, r
<1>6. \A d \in Conns : GoodImage(conn[d])' /\ HeldIsLive(d)'
  <2>1. GoodImage(conn[c])'
    BY <1>2, <1>3, <1>5 DEF GoodImage
  <2>2. \A d \in Conns \ {c} : GoodImage(conn[d])'
    BY <1>2, <1>5 DEF PoolInv, GoodImage
  <2>3. \A d \in Conns : HeldIsLive(d)'
    BY <1>1, <1>2, <1>3 DEF PoolInv, HeldIsLive
  <2>. QED BY <2>1, <2>2, <2>3
<1>7. PoolTypeOK'
  <2>1. conn' \in [Conns -> Images]
    BY <1>6 DEF Attach, GoodImage, PoolInv, PoolTypeOK
  <2>2. Len(t) <= Capacity /\ 0 <= Capacity - Len(t)
    BY <1>1, <1>4, PoolConstants
  <2>. QED BY <1>1, <1>5, <2>1, <2>2 DEF PoolInv, PoolTypeOK, Images, PoolImages
<1>8. OutOfPool' = OutOfPool
  BY <1>1, <1>2 DEF Pooled, OutOfPool
<1>9. CheckedOut' /\ PoolAlive' /\ ClosingIsNeeded' /\ LifeFits'
  <2>1. Len(t) # Capacity => Len(t) < Capacity
    BY <1>1, <1>4, PoolConstants
  <2>. QED BY <1>1, <1>5, <1>8, <2>1 DEF PoolInv, CheckedOut, PoolAlive, ClosingIsNeeded, LifeFits
<1>10. SlotsOwned'
  <2>1. ASSUME NEW i \in 1..Len(t), NEW j \in 1..Len(t), t[i] = t[j] PROVE i = j
    BY <1>4, <2>1 DEF PoolInv, SlotsOwned
  <2>2. ASSUME NEW i \in 1..Len(t)
        PROVE  /\ wrap[t[i]] = "none" /\ conn'[t[i]].origin
               /\ conn'[t[i]].native = "idle" /\ ~conn'[t[i]].lease /\ ~conn'[t[i]].tx
    <3>1. CASE i = Len(s) + 1
      BY <1>1, <1>2, <1>3, <1>4, <3>1
    <3>2. CASE i \in 1..Len(s)
      BY <1>2, <1>4, <3>2 DEF PoolInv, SlotsOwned
    <3>. QED BY <1>4, <3>1, <3>2
  <2>3. ASSUME NEW d \in Conns, conn'[d].mem = "live", wrap'[d] = "none"
        PROVE  \E i \in 1..Len(t) : t[i] = d
    <3>1. CASE d = c
      BY <1>4, <3>1
    <3>2. CASE d # c
      <4>1. PICK i \in 1..Len(s) : s[i] = d
        BY <1>1, <1>2, <2>3, <3>2 DEF PoolInv, SlotsOwned
      <4>. QED BY <1>4, <4>1
    <3>. QED BY <3>1, <3>2
  <2>. QED BY <1>1, <1>5, <2>1, <2>2, <2>3 DEF SlotsOwned
<1>. QED BY <1>6, <1>7, <1>9, <1>10 DEF PoolInv

(* The idle connections are closed with the pool. *)
LEMMA DropPoolStep ==
    ASSUME PoolInv, DropPool
    PROVE  PoolInv'
<1>. DEFINE gone == {c \in Conns : c \in Range(pool.slots)}
<1>1. /\ pool.life \in {"building", "open"} /\ UNCHANGED <<wrap, rows>>
      /\ pool' = [pool EXCEPT !.life = AfterDrop(pool), !.slots = <<>>]
      /\ conn' = [c \in Conns |-> IF c \in Range(pool.slots) THEN [Dropped(conn[c]) EXCEPT !.origin = FALSE] ELSE conn[c]]
  BY AlwaysValid DEF DropPool
<1>2. /\ pool' \in PoolImages /\ pool'.slots = <<>> /\ pool'.driver = pool.driver /\ pool'.out = pool.out
      /\ pool'.life = IF pool.out = 0 THEN "freed" ELSE "closing"
  <2>1. AfterDrop(pool) \in {"freed", "closing"} /\ <<>> \in Seq(Conns)
    BY EmptySeq DEF AfterDrop
  <2>2. /\ pool' \in PoolImages /\ pool'.slots = <<>> /\ pool'.driver = pool.driver /\ pool'.out = pool.out
        /\ pool'.life = AfterDrop(pool)
    BY <1>1, <2>1 DEF PoolInv, PoolTypeOK, PoolImages
  <2>. QED BY <2>2 DEF AfterDrop
<1>3. \A c \in Conns : c \in gone <=> \E i \in 1..Len(pool.slots) : pool.slots[i] = c
  <2>1. DOMAIN pool.slots = 1..Len(pool.slots)
    BY LenProperties DEF PoolInv, PoolTypeOK
  <2>. QED BY <2>1 DEF Range
<1>4. \A c \in Conns : conn[c].mem = "live" /\ wrap[c] = "none" <=> c \in gone
  <2>1. \A i \in 1..Len(pool.slots) : pool.slots[i] \in Conns
    BY ElementOfSeq DEF PoolInv, PoolTypeOK
  <2>. QED BY <1>3, <2>1 DEF PoolInv, SlotsOwned, GoodImage
<1>5. \A c \in Conns : IF c \in gone THEN conn'[c] = [Dropped(conn[c]) EXCEPT !.origin = FALSE] ELSE conn'[c] = conn[c]
  BY <1>1
<1>. HIDE DEF gone
<1>6. \A c \in gone : c \in Conns /\ conn[c].mem = "live" /\ Own(c, conn[c])
  BY <1>4 DEF gone, Own, PoolInv
<1>7. \A c \in gone : GoodImage(conn'[c]) /\ conn'[c].mem = "freed" /\ ~conn'[c].origin
  <2>1. ASSUME NEW c \in gone PROVE GoodImage(conn'[c]) /\ conn'[c].mem = "freed" /\ ~conn'[c].origin
    <3>1. c \in Conns /\ conn'[c] = [Dropped(conn[c]) EXCEPT !.origin = FALSE] /\ Own(c, conn[c])
      BY <1>5, <1>6
    <3>2. GoodImage(conn'[c])
      BY <3>1, DroppedGood
    <3>3. conn'[c].mem = "freed" /\ ~conn'[c].origin
      BY <3>1 DEF Own, GoodImage, Images, Dropped
    <3>. QED BY <3>2, <3>3
  <2>. QED BY <2>1
<1>8. \A c \in Conns : GoodImage(conn[c])' /\ HeldIsLive(c)'
  <2>1. \A c \in gone : GoodImage(conn[c])' /\ wrap[c] = "none"
    BY <1>2, <1>4, <1>6, <1>7 DEF GoodImage
  <2>2. \A c \in Conns \ gone : GoodImage(conn[c])'
    BY <1>2, <1>5 DEF PoolInv, GoodImage
  <2>3. \A c \in Conns : HeldIsLive(c)'
    BY <1>1, <1>5, <2>1 DEF PoolInv, HeldIsLive
  <2>. QED BY <2>1, <2>2, <2>3
<1>9. PoolTypeOK'
  <2>1. conn' \in [Conns -> Images]
    BY <1>1, <1>8 DEF GoodImage
  <2>2. Len(pool'.slots) = 0 /\ pool.out \in Nat /\ pool.out <= Capacity
    BY <1>2, EmptySeq, LenProperties, PoolConstants DEF PoolInv, PoolTypeOK
  <2>3. Len(pool'.slots) <= Capacity /\ pool'.out <= Capacity - Len(pool'.slots)
    BY <1>2, <2>2, PoolConstants
  <2>. QED BY <1>1, <1>2, <2>1, <2>3 DEF PoolInv, PoolTypeOK, Images, PoolImages
<1>10. OutOfPool' = OutOfPool /\ Pooled' = OutOfPool
  <2>1. \A c \in Conns : (conn'[c].mem = "live" /\ conn'[c].origin) <=> (conn[c].mem = "live" /\ conn[c].origin /\ wrap[c] # "none")
    BY <1>4, <1>5, <1>7
  <2>. QED BY <1>1, <2>1 DEF OutOfPool, Pooled
<1>11. pool.out = Cardinality(OutOfPool) /\ (pool.out = 0 <=> OutOfPool = {})
  BY <1>1, OutFinite, FS_EmptySet DEF PoolInv, CheckedOut
<1>12. CheckedOut' /\ PoolAlive' /\ ClosingIsNeeded' /\ LifeFits'
  BY <1>2, <1>10, <1>11 DEF CheckedOut, PoolAlive, ClosingIsNeeded, LifeFits
<1>13. SlotsOwned'
  <2>1. Len(pool'.slots) = 0
    BY <1>2, EmptySeq
  <2>2. \A c \in Conns : ~(conn'[c].mem = "live" /\ wrap'[c] = "none")
    BY <1>1, <1>4, <1>5, <1>7
  <2>. QED BY <2>1, <2>2 DEF SlotsOwned
<1>. QED BY <1>8, <1>9, <1>12, <1>13 DEF PoolInv

LEMMA PoolInvStep ==
    ASSUME PoolInv, [PoolNext]_poolVars
    PROVE  PoolInv'
<1>1. CASE DropPool \/ TryAcquire
  BY <1>1, DropPoolStep, TryAcquireStep
<1>2. ASSUME NEW d \in Databases, OpenPool(d) \/ \E c \in Conns : Connect(c, d) PROVE PoolInv'
  BY <1>2, OpenPoolStep, ConnectStep
<1>3. ASSUME NEW c \in Conns, Attach(c) \/ DropConn(c) \/ DropTx(c) \/ Run(c) \/ OpenRows(c) \/ CloseRows(c)
      PROVE  PoolInv'
  BY <1>3, AttachStep, DropConnStep, RunStep, RowsStep
<1>4. ASSUME NEW c \in Conns, StmtFails(c) \/ Begin(c) \/ Commit(c) \/ Rollback(c)
      PROVE  PoolInv'
  BY <1>4, StmtFailsStep, BeginStep, EndTxStep DEF Commit, Rollback
<1>5. CASE UNCHANGED poolVars
  BY <1>5 DEF poolVars, PoolInv, PoolTypeOK, PoolAlive, CheckedOut, ClosingIsNeeded, GoodImage, HeldIsLive,
              SlotsOwned, LifeFits, Pooled, OutOfPool
<1>. QED BY <1>1, <1>2, <1>3, <1>4, <1>5 DEF PoolNext

(* The slots are the pool's connections that nobody holds, once each, and  *)
(* every handle is accounted for.                                          *)
THEOREM PoolInvariant == PoolSpec => []PoolInv
<1>1. PoolInit => PoolInv
  BY PoolInitInv
<1>2. PoolInv /\ [PoolNext]_poolVars => PoolInv'
  BY PoolInvStep
<1>. QED BY <1>1, <1>2, PTL DEF PoolSpec

(* PoolSound, for any capacity and any number of connections: new_pool,    *)
(* acquisition, release, retirement and every Drop hook of resource.align  *)
(* keep the counts exact and hand on nothing unclean.                      *)
THEOREM PoolIsSound == PoolSpec => []PoolSound
<1>1. PoolInv => PoolSound
  BY SlotsMean DEF PoolInv, PoolSound
<1>. QED BY <1>1, PoolInvariant, PTL

-----------------------------------------------------------------------------
(***************************************************************************)
(* The signal lease.  Locking ties each client's program counter to the    *)
(* lock and to its subscription; Selected says exactly which bits the word *)
(* admits; Disposed where a disposition differs from the program's own;    *)
(* Kept where a published signal is while a rollback or a close takes it   *)
(* back.                                                                   *)
(***************************************************************************)

(* Control points inside create(), and inside restore(). *)
Creating == {"select", "install", "unselect"}
Restoring == {"restore", "put", "clear"}

(* The lock holder is the one client inside a locked section, and its      *)
(* subscription says which call it is in.                                  *)
Locking ==
    \A c \in Clients :
        /\ lock = c <=> pc[c] \in Creating \cup Restoring \cup {"raise", "aborted"}
        /\ pc[c] \in Creating => sub[c].state = "creating"
        /\ pc[c] \in Restoring \cup {"aborted"}
             => sub[c].state \in {"creating", "closing", "dropping"}
        /\ pc[c] = "raise" => sub[c].state = "closed"
        /\ pc[c] = "next" => sub[c].state = "open"
        /\ pc[c] = "idle" => sub[c].state \in {"none", "open", "closed"}

(* The word admits the installed signals, and the one being installed;     *)
(* indices rise while installing and name an installed signal while        *)
(* restoring.                                                              *)
Selected ==
    /\ Active = {} => word.sel = {}
    /\ word.pend \subseteq word.sel
    /\ \A c \in Active :
          /\ pc[c] \in {"install", "unselect"} => word.sel = sub[c].installed \cup {idx}
          /\ pc[c] \notin {"install", "unselect"} => word.sel = sub[c].installed
          /\ pc[c] \in Creating => \A s \in sub[c].installed : s < idx
          /\ pc[c] \in {"put", "clear"} => idx \in sub[c].installed

(* Only an installed signal has a disposition that is not the program's    *)
(* own, and the subscription remembers that one.                           *)
Disposed ==
    /\ \A c \in Active : sub[c].previous = [s \in Signals |-> "prior"]
    /\ \A s \in Signals : action[s] # "prior" =>
          \E c \in Active : s \in sub[c].installed /\ (pc[c] = "clear" => idx # s)

(* A handler loaded the word of this lease or of an earlier one. *)
Captured ==
    \A h \in Handlers : hpc[h] = "publish" =>
        /\ hgen[h] <= word.gen
        /\ hgen[h] = word.gen => hsig[h] \in loaded

(* Nothing is gathered outside restore(), and a close gathers nothing that *)
(* it has not discarded.                                                   *)
Kept ==
    /\ lock = Nobody => collected = {}
    /\ \A c \in Clients :
          /\ pc[c] \in Creating => collected = {}
          /\ pc[c] \in Restoring /\ sub[c].state # "creating" => unseen \subseteq word.pend

Lease == /\ Locking /\ OneLease /\ Selected /\ Disposed
         /\ PendingIsFresh /\ Captured /\ NothingLost /\ Kept

-----------------------------------------------------------------------------
(* Facts about the operators *)

(* A set of naturals has a minimum, and Min names it. *)
LEMMA MinIs ==
    ASSUME NEW S \in SUBSET Nat, S # {}
    PROVE  Min(S) \in S /\ \A y \in S : Min(S) <= y
<1> DEFINE R == {ss \in Nat \X Nat : ss[1] < ss[2]}
<1>1. IsWellFoundedOn(R, Nat)
  BY NatLessThanWellFounded DEF OpToRel
<1>2. PICK x \in S : \A y \in S : <<y, x>> \notin R
  BY <1>1, WFMin
<1>3. ASSUME NEW y \in S PROVE x <= y
  <2>1. x \in Nat /\ y \in Nat /\ <<y, x>> \notin R
    BY <1>2
  <2>2. y < x => <<y, x>> \in R
    BY <2>1
  <2> HIDE DEF R
  <2> QED BY ONLY <2>1, <2>2
<1> QED BY <1>3 DEF Min

(* A set of signals has a maximum, and Max names it. *)
LEMMA MaxIs ==
    ASSUME NEW S \in SUBSET Signals, S # {}
    PROVE  Max(S) \in S
<1> DEFINE T == {n \in Nat : \A x \in S : x <= n}
<1>1. NumSignals \in Nat /\ S \subseteq Nat /\ \A x \in S : x <= NumSignals
  BY SignalLeaseAssumption DEF Signals
<1>2. NumSignals \in T
  BY <1>1
<1>3. PICK n \in T : \A m \in T : n <= m
  BY <1>2, MinIs
<1>4. n \in S
  <2>1. SUFFICES ASSUME n \notin S PROVE FALSE
    OBVIOUS
  <2>2. \A x \in S : x \in Nat /\ x <= n /\ x # n
    BY <1>1, <2>1
  <2>3. n - 1 \in T
    BY <1>3, <2>2
  <2> QED BY <1>3, <2>3
<1> QED BY <1>1, <1>4 DEF Max

(* What the proofs need of the constants. *)
LEMMA Facts ==
    /\ Signals \subseteq Nat /\ 0 \in Signals /\ GENERATION_MAX \in Nat
    /\ Nobody \notin Clients /\ NoWord \in Words
  BY SignalLeaseAssumption DEF Signals, NoWord, Words

(* The types of a subscription. *)
Subs == [state : {"none", "creating", "open", "closing", "dropping", "closed"},
         gen : 0..GENERATION_MAX, selection : SUBSET Signals,
         installed : SUBSET Signals, previous : [Signals -> Actions]]

(* The idle subscription is one. *)
LEMMA IdleIs == Idle \in Subs /\ Idle.state = "none"
  BY Facts DEF Idle, Subs, Actions

(* Disabling a signal keeps the generation. *)
LEMMA DisableIs ==
    ASSUME word \in Words, NEW s
    PROVE  /\ Disable(s) \in Words
           /\ Disable(s).gen = word.gen
           /\ Disable(s).sel = word.sel \ {s}
           /\ Disable(s).pend = word.pend \ {s}
  BY DEF Disable, Words

(* g is f with the state x and the installed set I at c. *)
Updated(g, f, c, x, I) ==
    /\ g \in [Clients -> Subs]
    /\ g[c].state = x /\ g[c].installed = I
    /\ g[c].gen = f[c].gen /\ g[c].previous = f[c].previous /\ g[c].selection = f[c].selection
    /\ \A d \in Clients : d # c => g[d] = f[d]

States == {"none", "creating", "open", "closing", "dropping", "closed"}

(* The three updates of a subscription: of the state, ... *)
LEMMA StateSet ==
    ASSUME NEW f \in [Clients -> Subs], NEW c \in Clients, NEW x \in States
    PROVE  Updated([f EXCEPT ![c].state = x], f, c, x, f[c].installed)
<1>1. f[c] \in Subs /\ [f[c] EXCEPT !.state = x] \in Subs
  BY DEF Subs, States
<1> QED BY <1>1 DEF Subs, Updated

(* ... of the installed signals, ... *)
LEMMA InstalledSet ==
    ASSUME NEW f \in [Clients -> Subs], NEW c \in Clients, NEW I \in SUBSET Signals
    PROVE  Updated([f EXCEPT ![c].installed = I], f, c, f[c].state, I)
<1>1. f[c] \in Subs /\ [f[c] EXCEPT !.installed = I] \in Subs
  BY DEF Subs
<1> QED BY <1>1 DEF Subs, Updated

(* ... and of both. *)
LEMMA BothSet ==
    ASSUME NEW f \in [Clients -> Subs], NEW c \in Clients, NEW x \in States,
           NEW I \in SUBSET Signals
    PROVE  Updated([f EXCEPT ![c].installed = I, ![c].state = x], f, c, x, I)
<1> DEFINE g == [f EXCEPT ![c].installed = I, ![c].state = x]
<1>1. f[c] \in Subs /\ [f[c] EXCEPT !.installed = I, !.state = x] \in Subs
  BY DEF Subs, States
<1>2. g = [f EXCEPT ![c] = [f[c] EXCEPT !.installed = I, !.state = x]]
  OBVIOUS
<1> QED BY <1>1, <1>2 DEF Subs, Updated

(* What TypeOK says of the records. *)
LEMMA Records ==
    ASSUME TypeOK
    PROVE  /\ sub \in [Clients -> Subs]
           /\ \A c \in Clients : /\ sub[c].state \in States /\ sub[c].installed \in SUBSET Signals
                                 /\ sub[c].selection \in SUBSET Signals
           /\ word.gen \in 0..GENERATION_MAX
           /\ word.sel \in SUBSET Signals /\ word.pend \in SUBSET Signals
  BY DEF TypeOK, Subs, States, Words

-----------------------------------------------------------------------------
(* Typing *)

(* The initial state is well typed. *)
LEMMA TypeInit == Init => TypeOK
<1> SUFFICES ASSUME Init PROVE TypeOK
  OBVIOUS
<1>1. sub \in [Clients -> Subs]
  BY IdleIs DEF Init
<1>2. action \in [Signals -> Actions]
  BY DEF Init, Actions
<1>3. 0 \in 0..GENERATION_MAX
  BY Facts
<1> QED BY <1>1, <1>2, <1>3, Facts DEF Init, TypeOK, Subs

(* create() keeps typing. *)
LEMMA CreateType ==
    ASSUME TypeOK, NEW c \in Clients, CreateStep(c)
    PROVE  TypeOK'
<1> USE Facts DEF Goto, handlerVars
<1>1. ASSUME NEW selection \in SUBSET Signals, Create(c, selection) PROVE TypeOK'
  <2>1. NextGeneration \in 0..GENERATION_MAX
    <3>1. word.gen \in 0..GENERATION_MAX /\ word.gen # GENERATION_MAX
      BY <1>1, Records DEF Create, MayReserve
    <3> QED BY ONLY <3>1, Facts DEF NextGeneration
  <2>2. Min(selection) \in Signals
    BY <1>1, MinIs DEF Create
  <2>3. word' \in Words
    BY <1>1, <2>1 DEF Create, Words
  <2>4. sub' \in [Clients -> Subs]
    BY <1>1, <2>1 DEF Create, TypeOK, Subs
  <2> QED BY <1>1, <2>2, <2>3, <2>4 DEF Create, TypeOK, Subs
<1>2. CASE Select(c)
  <2>1. word' \in Words
    BY <1>2 DEF Select, TypeOK, Words
  <2> QED BY <1>2, <2>1 DEF Select, TypeOK
<1>3. CASE Install(c)
  <2> DEFINE rest == {s \in sub[c].selection : s > idx}
  <2>1. rest # {} => Min(rest) \in Signals
    <3>1. rest \in SUBSET Signals
      BY DEF TypeOK
    <3> HIDE DEF rest
    <3> QED BY <3>1, MinIs
  <2>2. sub' \in [Clients -> Subs]
    <3>1. PICK x \in States : sub' = [sub EXCEPT ![c].installed = sub[c].installed \cup {idx}, ![c].state = x]
      BY <1>3, Records DEF Install, States
    <3>2. sub[c].installed \cup {idx} \in SUBSET Signals
      BY Records DEF TypeOK
    <3>3. Updated(sub', sub, c, x, sub[c].installed \cup {idx})
      BY <3>1, <3>2, Records, BothSet
    <3> QED BY <3>3 DEF Updated
  <2>3. idx' \in Signals /\ lock' \in Clients \cup {Nobody}
    BY <1>3, <2>1 DEF Install, TypeOK
  <2>4. action' \in [Signals -> Actions]
    BY <1>3 DEF Install, TypeOK, Actions
  <2>5. pc' = [pc EXCEPT ![c] = "idle"] \/ pc' = [pc EXCEPT ![c] = "select"]
    BY <1>3 DEF Install
  <2> QED BY <1>3, <2>2, <2>3, <2>4, <2>5 DEF Install, TypeOK, Subs
<1>4. CASE InstallFails(c)
  BY <1>4 DEF InstallFails, TypeOK
<1>5. CASE Unselect(c)
  BY <1>5, DisableIs DEF Unselect, TypeOK
<1>6. CASE Raise(c)
  BY <1>6 DEF Raise, TypeOK
<1>7. CASE CreateFails(c)
  BY <1>7, IdleIs DEF CreateFails, TypeOK, Subs
<1> QED BY <1>1, <1>2, <1>3, <1>4, <1>5, <1>6, <1>7 DEF CreateStep

(* restore() keeps typing. *)
LEMMA RestoreType ==
    ASSUME TypeOK, NEW c \in Clients, RestoreStep(c)
    PROVE  TypeOK'
<1> USE Facts DEF Goto, handlerVars
<1>1. CASE Query(c)
  <2>1. Max(sub[c].installed) \in Signals
    <3>1. sub[c].installed \in SUBSET Signals /\ sub[c].installed # {}
      BY <1>1 DEF Query, Restored, TypeOK
    <3> QED BY <3>1, MaxIs
  <2> QED BY <1>1, <2>1 DEF Query, TypeOK
<1>2. CASE PutBack(c)
  BY <1>2 DEF PutBack, TypeOK
<1>3. CASE Clear(c)
  <2>1. sub' \in [Clients -> Subs]
    <3>1. sub' = [sub EXCEPT ![c].installed = sub[c].installed \ {idx}]
      BY <1>3 DEF Clear
    <3> QED BY <3>1, Records, InstalledSet DEF Updated
  <2> QED BY <1>3, <2>1, DisableIs DEF Clear, Gathered, TypeOK, Subs, Words
<1>4. CASE RestoreFails(c)
  <2>1. sub' \in [Clients -> Subs]
    <3>1. sub' = [sub EXCEPT ![c].state = "open"] \/ sub' = sub
      BY <1>4 DEF RestoreFails
    <3>2. "open" \in States
      BY DEF States
    <3> QED BY <3>1, <3>2, Records, StateSet DEF Updated
  <2> QED BY <1>4, <2>1 DEF RestoreFails, TypeOK, Subs
<1>5. CASE Release(c)
  <2>1. sub' \in [Clients -> Subs]
    <3>1. sub' = [sub EXCEPT ![c].state = "closed"] \/ sub' = [sub EXCEPT ![c] = Idle]
      BY <1>5 DEF Release
    <3>2. "closed" \in States
      BY DEF States
    <3> QED BY <3>1, <3>2, IdleIs, Records, StateSet DEF Updated
  <2>2. word' \in Words
    BY <1>5 DEF Release, TypeOK, Words
  <2> QED BY <1>5, <2>1, <2>2 DEF Release, TypeOK, Subs
<1> QED BY <1>1, <1>2, <1>3, <1>4, <1>5 DEF RestoreStep

(* So do the owner, the handlers and foreign code. *)
LEMMA OtherType ==
    ASSUME TypeOK,
           \/ \E c \in Clients : OwnerStep(c)
           \/ \E h \in Handlers : HandlerStep(h)
           \/ \E s \in Signals : Foreign(s)
           \/ UNCHANGED vars
    PROVE  TypeOK'
<1> USE Facts DEF Goto, handlerVars, clientVars
<1>1. ASSUME NEW c \in Clients, NEW how \in {"closing", "dropping"}, Close(c, how) PROVE TypeOK'
  <2>1. sub' \in [Clients -> Subs]
    <3>1. sub' = [sub EXCEPT ![c].state = how] /\ how \in States
      BY <1>1 DEF Close, States
    <3>2. Updated(sub', sub, c, how, sub[c].installed)
      BY <3>1, Records, StateSet
    <3> QED BY <3>2 DEF Updated
  <2> QED BY <1>1, <2>1 DEF Close, TypeOK, Subs
<1>2. ASSUME NEW c \in Clients, FreeClosed(c) PROVE TypeOK'
  BY <1>2, IdleIs DEF FreeClosed, TypeOK, Subs
<1>3. ASSUME NEW c \in Clients, NextLoad(c) PROVE TypeOK'
  BY <1>3 DEF NextLoad, TypeOK
<1>4. ASSUME NEW c \in Clients, NextTry(c) PROVE TypeOK'
  <2>1. word' \in Words /\ seen' \in Words /\ unseen' \in SUBSET Signals
    <3> DEFINE m == Min(seen.pend \cap seen.sel)
    <3>1. [seen EXCEPT !.pend = seen.pend \ {m}] \in Words
      BY DEF TypeOK, Words
    <3>2. /\ word' = word \/ word' = [seen EXCEPT !.pend = seen.pend \ {m}]
          /\ seen' = NoWord \/ seen' = word
          /\ unseen' = unseen \/ unseen' = unseen \ {m}
      BY <1>4 DEF NextTry
    <3> HIDE DEF m
    <3> QED BY <3>1, <3>2 DEF TypeOK
  <2>2. pc' = [pc EXCEPT ![c] = "idle"] \/ pc' = pc
    BY <1>4 DEF NextTry
  <2> QED BY <1>4, <2>1, <2>2 DEF NextTry, TypeOK
<1>5. ASSUME NEW h \in Handlers, NEW s \in Signals, Deliver(h, s) PROVE TypeOK'
  BY <1>5 DEF Deliver, TypeOK
<1>6. ASSUME NEW h \in Handlers, Load(h) PROVE TypeOK'
  <2>1. word.gen \in 0..GENERATION_MAX
    BY DEF TypeOK, Words
  <2> QED BY <1>6, <2>1 DEF Load, TypeOK
<1>7. ASSUME NEW h \in Handlers, Publish(h) PROVE TypeOK'
  <2>1. word' \in Words /\ unseen' \in SUBSET Signals
    <3>1. /\ word' = word \/ word' = [word EXCEPT !.pend = word.pend \cup {hsig[h]}]
          /\ unseen' = unseen \/ unseen' = unseen \cup {hsig[h]}
      BY <1>7 DEF Publish
    <3>2. hsig[h] \in Signals
      BY DEF TypeOK
    <3>3. [word EXCEPT !.pend = word.pend \cup {hsig[h]}] \in Words
      BY <3>2 DEF TypeOK, Words
    <3> QED BY <3>1, <3>2, <3>3 DEF TypeOK
  <2>2. \/ Done(h)
        \/ hobs' = [hobs EXCEPT ![h] = word] /\ UNCHANGED <<hpc, hsig, hgen>>
    BY <1>7 DEF Publish
  <2>3. /\ hpc' \in [Handlers -> {"idle", "load", "publish"}] /\ hsig' \in [Handlers -> Signals]
        /\ hgen' \in [Handlers -> 0..GENERATION_MAX] /\ hobs' \in [Handlers -> Words]
    <3>1. 0 \in 0..GENERATION_MAX
      OBVIOUS
    <3>2. CASE Done(h)
      BY <3>1, <3>2 DEF Done, TypeOK
    <3> QED BY <2>2, <3>2 DEF TypeOK
  <2> QED BY <1>7, <2>1, <2>3 DEF Publish, TypeOK
<1>8. ASSUME NEW s \in Signals, Foreign(s) PROVE TypeOK'
  BY <1>8 DEF Foreign, TypeOK, Actions
<1>9. CASE UNCHANGED vars
  BY <1>9 DEF vars, TypeOK
<1> QED BY <1>1, <1>2, <1>3, <1>4, <1>5, <1>6, <1>7, <1>8, <1>9 DEF OwnerStep, HandlerStep

(* Every step keeps typing. *)
LEMMA TypeStep == TypeOK /\ [Next]_vars => TypeOK'
  BY CreateType, RestoreType, OtherType DEF Next

-----------------------------------------------------------------------------
(* The lease *)

ActiveStates == {"creating", "open", "closing", "dropping"}

(* There is one active client. *)
LEMMA OneActive ==
    ASSUME OneLease, NEW c \in Clients, sub[c].state \in ActiveStates
    PROVE  Active = {c} /\ reserved /\ sub[c].gen = word.gen
  BY DEF OneLease, Active, ActiveStates

(* The client's own step leaves the others alone. *)
OnlyClient(c) == \A d \in Clients : d # c => pc'[d] = pc[d] /\ sub'[d] = sub[d]

(* What a step does to the set of active clients. *)
LEMMA ActiveAfter ==
    ASSUME NEW c \in Clients, OnlyClient(c)
    PROVE  /\ \A d \in Clients : d # c => (d \in Active' <=> d \in Active)
           /\ c \in Active' <=> sub'[c].state \in ActiveStates
           /\ c \in Active <=> sub[c].state \in ActiveStates
           /\ Active \subseteq Clients /\ Active' \subseteq Clients
  BY DEF OnlyClient, Active, ActiveStates

(* The initial state holds no lease. *)
LEMMA LeaseInit == Init => Lease
<1> SUFFICES ASSUME Init PROVE Lease
  OBVIOUS
<1>1. \A c \in Clients : sub[c].state = "none" /\ pc[c] = "idle"
  BY IdleIs DEF Init
<1>2. Active = {} /\ word.sel = {} /\ word.pend = {} /\ lock = Nobody /\ reserved = FALSE
  BY <1>1 DEF Active, Init, NoWord
<1>3. Locking
  BY <1>1, <1>2, Facts DEF Locking, Creating, Restoring
<1>4. OneLease /\ Selected /\ Disposed
  BY <1>2 DEF OneLease, Selected, Disposed, Init
<1>5. PendingIsFresh /\ Captured /\ NothingLost /\ Kept
  BY <1>1, <1>2 DEF PendingIsFresh, Captured, NothingLost, Kept, Init, Creating, Restoring
<1> QED BY <1>3, <1>4, <1>5 DEF Lease

(* Reserving starts from nothing: no active client, no selected or pending *)
(* bit, no signal that is published and not returned.                      *)
LEMMA CreateLease ==
    ASSUME TypeOK, Lease, NEW c \in Clients, NEW selection \in SUBSET Signals,
           Create(c, selection)
    PROVE  Lease'
<1> DEFINE r == [state |-> "creating", gen |-> NextGeneration, selection |-> selection,
                 installed |-> {}, previous |-> action]
<1>1. /\ pc[c] = "idle" /\ sub[c].state = "none" /\ lock = Nobody /\ ~reserved
      /\ lock' = c /\ reserved' = TRUE /\ loaded' = {}
      /\ word' = [gen |-> NextGeneration, sel |-> {}, pend |-> {}]
      /\ sub' = [sub EXCEPT ![c] = r]
      /\ pc' = [pc EXCEPT ![c] = "select"]
      /\ UNCHANGED <<action, collected, hpc, hsig, hgen, unseen>>
  BY DEF Create, MayReserve, Goto, handlerVars
<1>2. /\ pc'[c] = "select" /\ sub'[c] = r /\ OnlyClient(c)
      /\ r.state = "creating" /\ r.gen = NextGeneration /\ r.installed = {} /\ r.previous = action
      /\ word'.gen = NextGeneration /\ word'.sel = {} /\ word'.pend = {}
  BY <1>1, Records DEF OnlyClient, TypeOK
<1> HIDE DEF r
<1>3. Active = {} /\ word.sel = {} /\ word.pend = {} /\ unseen = {} /\ collected = {}
  <2>1. Active = {}
    BY <1>1 DEF Lease, OneLease
  <2> QED BY <1>1, <2>1 DEF Lease, Selected, NothingLost, Kept
<1>4. Active' = {c}
  BY <1>2, <1>3, ActiveAfter DEF ActiveStates
<1>5. Locking'
  BY <1>1, <1>2, Facts DEF Lease, Locking, OnlyClient, Creating, Restoring
<1>6. OneLease' /\ Selected'
  BY <1>1, <1>2, <1>4 DEF OneLease, Selected
<1>7. Disposed'
  <2>1. \A s \in Signals : action[s] = "prior"
    BY <1>3 DEF Lease, Disposed
  <2>2. action = [s \in Signals |-> "prior"]
    BY <2>1 DEF TypeOK
  <2> QED BY <1>1, <1>2, <1>4, <2>1, <2>2 DEF Disposed
<1>8. Captured'
  <2>1. word.gen \in Nat /\ NextGeneration = word.gen + 1 /\ \A h \in Handlers : hgen[h] \in Nat
    BY Records, Facts DEF NextGeneration, TypeOK
  <2>2. \A h \in Handlers : hpc[h] = "publish" => hgen[h] <= word.gen
    BY DEF Lease, Captured
  <2>3. \A h \in Handlers : hpc[h] = "publish" => hgen[h] <= NextGeneration /\ hgen[h] # NextGeneration
    BY ONLY <2>1, <2>2
  <2> QED BY <1>1, <1>2, <2>3 DEF Captured
<1>9. PendingIsFresh' /\ NothingLost' /\ Kept'
  <2>1. \A d \in Clients : d # c => pc'[d] \notin Restoring
    BY <1>1, <1>2, Facts DEF Lease, Locking, OnlyClient
  <2> QED BY <1>1, <1>2, <1>3, <2>1 DEF PendingIsFresh, NothingLost, Kept, Restoring
<1> QED BY <1>5, <1>6, <1>7, <1>8, <1>9 DEF Lease

(* The lock holder in a locked section of an active lease. *)
LEMMA Holder ==
    ASSUME TypeOK, Lease, NEW c \in Clients, pc[c] \in Creating \cup Restoring
    PROVE  /\ lock = c /\ c # Nobody /\ c \in Active /\ Active = {c} /\ reserved
           /\ sub[c].gen = word.gen
           /\ \A d \in Clients : d # c => /\ pc[d] \notin Creating \cup Restoring \cup {"raise", "aborted"}
                                          /\ sub[d].state \notin ActiveStates
<1>1. lock = c /\ sub[c].state \in ActiveStates
  BY DEF Lease, Locking, ActiveStates
<1>2. Active = {c} /\ reserved /\ sub[c].gen = word.gen
  BY <1>1, OneActive DEF Lease
<1> QED BY <1>1, <1>2, Facts DEF Lease, Locking, Active, ActiveStates

(* A step that keeps the lease: the set of active clients, the             *)
(* reservation and the generations.                                        *)
LEMMA OneLeaseKept ==
    ASSUME OneLease, Active' = Active, reserved' = reserved, word'.gen = word.gen,
           \A d \in Active : sub'[d].gen = sub[d].gen
    PROVE  OneLease'
  BY DEF OneLease

(* Handlers in flight are not disturbed within a generation. *)
LEMMA CapturedKept ==
    ASSUME Captured, word'.gen = word.gen, UNCHANGED <<hpc, hsig, hgen, loaded>>
    PROVE  Captured'
  BY DEF Captured

(* Selecting, installing and failing to install. *)
LEMMA SelectLease ==
    ASSUME TypeOK, Lease, NEW c \in Clients, Select(c) \/ InstallFails(c) \/ Unselect(c)
    PROVE  Lease'
<1>1. /\ pc[c] \in Creating
      /\ pc' = [pc EXCEPT ![c] = IF Select(c) THEN "install"
                                 ELSE IF InstallFails(c) THEN "unselect" ELSE "restore"]
      /\ UNCHANGED <<reserved, lock, action, sub, idx, hpc, hsig, hgen, unseen, loaded>>
  BY DEF Select, InstallFails, Unselect, Goto, Creating, handlerVars
<1>2. /\ lock = c /\ c # Nobody /\ c \in Active /\ Active = {c} /\ reserved /\ sub[c].gen = word.gen
      /\ \A d \in Clients : d # c => /\ pc[d] \notin Creating \cup Restoring \cup {"raise", "aborted"}
                                     /\ sub[d].state \notin ActiveStates
  BY <1>1, Holder
<1>3. OnlyClient(c) /\ Active' = Active
  BY <1>1 DEF OnlyClient, Active, TypeOK
<1>4. /\ word'.gen = word.gen
      /\ \/ /\ Select(c) /\ pc[c] = "select" /\ pc'[c] = "install"
            /\ word'.sel = word.sel \cup {idx} /\ word'.pend = word.pend /\ collected' = collected
         \/ /\ InstallFails(c) /\ pc[c] = "install" /\ pc'[c] = "unselect"
            /\ word' = word /\ collected' = collected
         \/ /\ Unselect(c) /\ pc[c] = "unselect" /\ pc'[c] = "restore"
            /\ word'.sel = word.sel \ {idx} /\ word'.pend = word.pend \ {idx}
            /\ collected' = word.pend \cap {idx}
  <2>1. CASE Select(c)
    BY <1>1, <2>1 DEF Select, TypeOK, Words
  <2>2. CASE InstallFails(c)
    BY <1>1, <2>2 DEF InstallFails, Select, TypeOK
  <2>3. CASE Unselect(c)
    <3>1. pc[c] = "unselect" /\ ~Select(c) /\ ~InstallFails(c)
      BY <2>3 DEF Unselect, InstallFails, Select
    <3> QED BY <1>1, <2>3, <3>1, DisableIs DEF Unselect, TypeOK
  <2> QED BY <2>1, <2>2, <2>3
<1>5. Locking'
  BY <1>1, <1>2, <1>3, <1>4 DEF Lease, Locking, OnlyClient, Creating, Restoring
<1>6. OneLease' /\ Captured'
  BY <1>1, <1>3, <1>4, OneLeaseKept, CapturedKept DEF Lease
<1>7. Selected'
  <2>1. /\ word.pend \subseteq word.sel
        /\ pc[c] \in {"install", "unselect"} => word.sel = sub[c].installed \cup {idx}
        /\ pc[c] \notin {"install", "unselect"} => word.sel = sub[c].installed
        /\ \A s \in sub[c].installed : s < idx
    BY <1>1, <1>2 DEF Lease, Selected
  <2>2. idx \notin sub[c].installed
    <3>1. idx \in Nat
      BY Facts DEF TypeOK
    <3> QED BY ONLY <2>1, <3>1
  <2>3. /\ word'.pend \subseteq word'.sel
        /\ pc'[c] \in {"install", "unselect"} => word'.sel = sub[c].installed \cup {idx}
        /\ pc'[c] \notin {"install", "unselect"} => word'.sel = sub[c].installed
    BY <1>4, <2>1, <2>2
  <2> QED BY <1>1, <1>2, <1>3, <1>4, <2>1, <2>3 DEF Selected
<1>8. Disposed'
  <2>1. \A d \in Active : pc'[d] # "clear"
    BY <1>2, <1>4
  <2> QED BY <1>1, <1>3, <2>1 DEF Lease, Disposed
<1>9. PendingIsFresh'
  BY <1>1, <1>4 DEF Lease, PendingIsFresh
<1>10. NothingLost' /\ Kept'
  <2>1. collected = {} /\ unseen \subseteq word.pend
    BY <1>1 DEF Lease, Kept, NothingLost
  <2>2. sub[c].state = "creating"
    BY <1>1 DEF Lease, Locking
  <2> QED BY <1>1, <1>2, <1>3, <1>4, <2>1, <2>2 DEF NothingLost, Kept, OnlyClient, Creating, Restoring
<1> QED BY <1>5, <1>6, <1>7, <1>8, <1>9, <1>10 DEF Lease

(* Installing a handler for the selected index. *)
LEMMA InstallLease ==
    ASSUME TypeOK, Lease, NEW c \in Clients, Install(c)
    PROVE  Lease'
<1> DEFINE rest == {s \in sub[c].selection : s > idx}
           I == sub[c].installed \cup {idx}
           x == IF rest = {} THEN "open" ELSE "creating"
<1>1. /\ pc[c] = "install" /\ action' = [action EXCEPT ![idx] = "ours"]
      /\ UNCHANGED <<word, reserved, collected, hpc, hsig, hgen, unseen, loaded>>
  BY DEF Install, handlerVars
<1>2. /\ lock = c /\ c # Nobody /\ c \in Active /\ Active = {c} /\ reserved /\ sub[c].gen = word.gen
      /\ \A d \in Clients : d # c => /\ pc[d] \notin Creating \cup Restoring \cup {"raise", "aborted"}
                                     /\ sub[d].state \notin ActiveStates
      /\ sub[c].state = "creating"
  BY <1>1, Holder DEF Creating, Lease, Locking
<1>3. Updated(sub', sub, c, x, I)
  <2>1. sub' = [sub EXCEPT ![c].installed = I, ![c].state = x]
    BY <1>2 DEF Install
  <2>2. x \in States /\ I \in SUBSET Signals /\ sub \in [Clients -> Subs]
    BY Records DEF States, TypeOK
  <2> HIDE DEF x, I
  <2> QED BY <2>1, <2>2, BothSet
<1>4. /\ rest = {} => lock' = Nobody /\ pc' = [pc EXCEPT ![c] = "idle"]
      /\ rest # {} => lock' = lock /\ idx' = Min(rest) /\ pc' = [pc EXCEPT ![c] = "select"]
  BY DEF Install, Goto
<1>5. rest # {} => Min(rest) \in rest
  <2>1. rest \in SUBSET Nat
    BY Records, Facts
  <2> HIDE DEF rest
  <2> QED BY <2>1, MinIs
<1>6. /\ pc'[c] = IF rest = {} THEN "idle" ELSE "select"
      /\ OnlyClient(c) /\ Active' = Active
  <2>1. pc'[c] = (IF rest = {} THEN "idle" ELSE "select") /\ \A d \in Clients : d # c => pc'[d] = pc[d]
    BY <1>4 DEF TypeOK
  <2>2. OnlyClient(c)
    BY <1>3, <2>1 DEF OnlyClient, Updated
  <2>3. sub'[c].state \in ActiveStates
    BY <1>3 DEF Updated, ActiveStates
  <2> QED BY <1>2, <2>1, <2>2, <2>3, ActiveAfter
<1>7. Locking'
  BY <1>2, <1>3, <1>4, <1>6, Facts DEF Lease, Locking, OnlyClient, Creating, Restoring, Updated
<1>8. OneLease' /\ Captured'
  BY <1>1, <1>2, <1>3, <1>6, OneLeaseKept, CapturedKept DEF Lease, Updated
<1>9. Selected'
  <2>1. word.pend \subseteq word.sel /\ word.sel = I /\ \A s \in sub[c].installed : s < idx
    BY <1>1, <1>2 DEF Lease, Selected, Creating
  <2>2. rest # {} => \A s \in I : s < idx'
    <3>1. rest # {} => idx' > idx /\ idx' \in Nat
      BY <1>4, <1>5, Records, Facts
    <3>2. idx \in Nat /\ sub[c].installed \subseteq Nat
      BY Records, Facts DEF TypeOK
    <3> QED BY <2>1, <3>1, <3>2
  <2> HIDE DEF I
  <2> QED BY <1>1, <1>2, <1>3, <1>6, <2>1, <2>2 DEF Selected, Updated, Creating
<1>10. Disposed'
  <2>1. /\ sub'[c].previous = [s \in Signals |-> "prior"] /\ pc'[c] # "clear"
        /\ sub'[c].installed = I
    BY <1>2, <1>3, <1>6 DEF Lease, Disposed, Updated
  <2>2. \A s \in Signals : action'[s] # "prior" => s \in I
    BY <1>1, <1>2 DEF Lease, Disposed, TypeOK
  <2> HIDE DEF I
  <2> QED BY <1>2, <1>6, <2>1, <2>2 DEF Disposed
<1>11. PendingIsFresh' /\ NothingLost' /\ Kept'
  <2>1. collected = {} /\ unseen \subseteq word.pend
    BY <1>1 DEF Lease, Kept, NothingLost, Creating
  <2> QED BY <1>1, <1>2, <1>6, <2>1 DEF Lease, PendingIsFresh, NothingLost, Kept, OnlyClient, Creating, Restoring
<1> QED BY <1>7, <1>8, <1>9, <1>10, <1>11 DEF Lease

(* A failed create() raises the signals it gathered, and gives the lock    *)
(* back.                                                                   *)
LEMMA RaiseLease ==
    ASSUME TypeOK, Lease, NEW c \in Clients, Raise(c) \/ CreateFails(c)
    PROVE  Lease'
<1>1. /\ pc[c] = "raise" /\ UNCHANGED <<word, reserved, action, idx, hpc, hsig, hgen, loaded>>
      /\ \/ /\ UNCHANGED <<lock, pc, sub>>
            /\ collected' = collected \ {Min(collected)} /\ unseen' = unseen \ {Min(collected)}
         \/ /\ lock' = Nobody /\ collected = {} /\ UNCHANGED <<collected, unseen>>
            /\ pc' = [pc EXCEPT ![c] = "idle"] /\ sub' = [sub EXCEPT ![c] = Idle]
  BY DEF Raise, CreateFails, Goto, handlerVars
<1>2. /\ lock = c /\ c # Nobody /\ sub[c].state = "closed"
      /\ \A d \in Clients : d # c => pc[d] \notin Creating \cup Restoring \cup {"raise", "aborted"}
  BY <1>1, Facts DEF Lease, Locking
<1>3. /\ OnlyClient(c)
      /\ \/ lock' = lock /\ pc'[c] = "raise" /\ sub'[c] = sub[c]
         \/ lock' = Nobody /\ pc'[c] = "idle" /\ sub'[c].state = "none" /\ collected' = {}
  BY <1>1, Records, IdleIs DEF OnlyClient, TypeOK
<1>4. Active' = Active /\ c \notin Active
  BY <1>2, <1>3, ActiveAfter DEF ActiveStates
<1>5. Locking'
  BY <1>1, <1>2, <1>3, Facts DEF Lease, Locking, OnlyClient, Creating, Restoring
<1>6. \A d \in Active : pc'[d] = pc[d] /\ sub'[d] = sub[d]
  BY <1>3, <1>4 DEF OnlyClient, Active
<1>7. OneLease' /\ Captured'
  BY <1>1, <1>4, <1>6, OneLeaseKept, CapturedKept DEF Lease
<1>8. Selected' /\ Disposed' /\ PendingIsFresh'
  <2>1. Selected'
    BY <1>1, <1>4, <1>6 DEF Lease, Selected
  <2>2. Disposed'
    BY <1>1, <1>4, <1>6 DEF Lease, Disposed
  <2> QED BY <1>1, <2>1, <2>2 DEF Lease, PendingIsFresh
<1>9. NothingLost'
  BY <1>1, <1>2, <1>3 DEF Lease, NothingLost
<1>10. Kept'
  BY <1>1, <1>2, <1>3 DEF Kept, OnlyClient, Creating, Restoring
<1> QED BY <1>5, <1>7, <1>8, <1>9, <1>10 DEF Lease

(* Querying a handler and putting the program's disposition back. *)
LEMMA PutBackLease ==
    ASSUME TypeOK, Lease, NEW c \in Clients, Query(c) \/ PutBack(c)
    PROVE  Lease'
<1>1. /\ pc[c] \in {"restore", "put"}
      /\ UNCHANGED <<word, reserved, lock, sub, collected, hpc, hsig, hgen, unseen, loaded>>
      /\ \/ /\ pc[c] = "restore" /\ pc' = [pc EXCEPT ![c] = "put"] /\ action' = action
            /\ sub[c].installed # {} /\ idx' = Max(sub[c].installed)
         \/ /\ pc[c] = "put" /\ pc' = [pc EXCEPT ![c] = "clear"] /\ idx' = idx
            /\ action' = [action EXCEPT ![idx] = sub[c].previous[idx]]
  BY DEF Query, PutBack, Goto, Restored, handlerVars
<1>2. /\ lock = c /\ c # Nobody /\ Active = {c} /\ reserved /\ sub[c].gen = word.gen
      /\ \A d \in Clients : d # c => /\ pc[d] \notin Creating \cup Restoring \cup {"raise", "aborted"}
                                     /\ sub[d].state \notin ActiveStates
  BY <1>1, Holder DEF Restoring
<1>3. /\ OnlyClient(c) /\ Active' = Active
      /\ pc[c] = "restore" => pc'[c] = "put"
      /\ pc[c] = "put" => pc'[c] = "clear"
  BY <1>1 DEF OnlyClient, Active, TypeOK
<1>4. Locking'
  BY <1>1, <1>2, <1>3 DEF Lease, Locking, OnlyClient, Creating, Restoring
<1>5. OneLease' /\ Captured'
  BY <1>1, <1>3, OneLeaseKept, CapturedKept DEF Lease
<1>6. idx' \in sub[c].installed
  BY <1>1, <1>2, Records, MaxIs DEF Lease, Selected
<1>7. Selected'
  BY <1>1, <1>2, <1>3, <1>6 DEF Lease, Selected, Creating
<1>8. Disposed'
  <2>1. sub[c].previous = [s \in Signals |-> "prior"] /\ idx \in Signals /\ action \in [Signals -> Actions]
    BY <1>2 DEF Lease, Disposed, TypeOK
  <2>2. \A s \in Signals : action[s] # "prior" => s \in sub[c].installed
    BY <1>2 DEF Lease, Disposed
  <2>3. \A s \in Signals : action'[s] # "prior" => s \in sub[c].installed /\ (pc'[c] = "clear" => idx' # s)
    BY <1>1, <1>3, <2>1, <2>2
  <2> QED BY <1>1, <1>2, <1>3, <2>1, <2>3 DEF Disposed
<1>9. PendingIsFresh' /\ NothingLost' /\ Kept'
  BY <1>1, <1>2, <1>3 DEF Lease, PendingIsFresh, NothingLost, Kept, OnlyClient, Creating, Restoring
<1> QED BY <1>4, <1>5, <1>7, <1>8, <1>9 DEF Lease

(* Clearing a restored signal's bits. *)
LEMMA ClearLease ==
    ASSUME TypeOK, Lease, NEW c \in Clients, Clear(c)
    PROVE  Lease'
<1>1. /\ pc[c] = "clear" /\ pc' = [pc EXCEPT ![c] = "restore"]
      /\ collected' = collected \cup (word.pend \cap {idx})
      /\ sub' = [sub EXCEPT ![c].installed = sub[c].installed \ {idx}]
      /\ unseen' = unseen \/ unseen' = unseen \ {idx}
      /\ sub[c].state # "creating" => unseen' = unseen \ {idx}
      /\ UNCHANGED <<reserved, lock, action, idx, hpc, hsig, hgen, loaded>>
      /\ word'.gen = word.gen /\ word'.sel = word.sel \ {idx} /\ word'.pend = word.pend \ {idx}
  BY DisableIs DEF Clear, Gathered, Goto, handlerVars, TypeOK
<1>2. /\ lock = c /\ c # Nobody /\ Active = {c} /\ reserved /\ sub[c].gen = word.gen
      /\ \A d \in Clients : d # c => /\ pc[d] \notin Creating \cup Restoring \cup {"raise", "aborted"}
                                     /\ sub[d].state \notin ActiveStates
      /\ sub[c].state \in {"creating", "closing", "dropping"}
  BY <1>1, Holder DEF Restoring, Lease, Locking
<1>3. Updated(sub', sub, c, sub[c].state, sub[c].installed \ {idx})
  BY <1>1, Records, InstalledSet
<1>4. pc'[c] = "restore" /\ OnlyClient(c) /\ Active' = Active
  <2>1. pc'[c] = "restore" /\ OnlyClient(c)
    BY <1>1, <1>3 DEF OnlyClient, Updated, TypeOK
  <2> QED BY <1>2, <1>3, <2>1, ActiveAfter DEF Updated
<1>5. Locking'
  BY <1>1, <1>2, <1>3, <1>4 DEF Lease, Locking, OnlyClient, Creating, Restoring, Updated
<1>6. OneLease' /\ Captured'
  BY <1>1, <1>2, <1>3, <1>4, OneLeaseKept, CapturedKept DEF Lease, Updated
<1>7. Selected'
  <2>1. word.pend \subseteq word.sel /\ word.sel = sub[c].installed
    BY <1>1, <1>2 DEF Lease, Selected
  <2> QED BY <1>1, <1>2, <1>3, <1>4, <2>1 DEF Selected, Updated, Creating
<1>8. Disposed'
  <2>1. \A s \in Signals : action[s] # "prior" => s \in sub[c].installed \ {idx}
    BY <1>1, <1>2 DEF Lease, Disposed
  <2>2. sub'[c].previous = [s \in Signals |-> "prior"]
    BY <1>2, <1>3 DEF Lease, Disposed, Updated
  <2> QED BY <1>1, <1>2, <1>3, <1>4, <2>1, <2>2 DEF Disposed, Updated
<1>9. PendingIsFresh' /\ NothingLost'
  BY <1>1, <1>2 DEF Lease, PendingIsFresh, NothingLost
<1>10. Kept'
  <2>1. sub[c].state # "creating" => unseen' \subseteq word'.pend
    BY <1>1 DEF Lease, Kept, Restoring
  <2> QED BY <1>1, <1>2, <1>3, <1>4, <2>1 DEF Kept, OnlyClient, Creating, Restoring, Updated
<1> QED BY <1>5, <1>6, <1>7, <1>8, <1>9, <1>10 DEF Lease

(* A close() that cannot restore keeps its lease; a rollback or a Drop     *)
(* aborts with it.                                                         *)
LEMMA RestoreFailsLease ==
    ASSUME TypeOK, Lease, NEW c \in Clients, RestoreFails(c)
    PROVE  Lease'
<1> DEFINE x == IF sub[c].state = "closing" THEN "open" ELSE sub[c].state
<1>1. /\ pc[c] \in {"restore", "put"}
      /\ UNCHANGED <<word, reserved, action, hpc, hsig, hgen, unseen, loaded>>
      /\ \/ /\ sub[c].state = "closing" /\ lock' = Nobody /\ collected' = {}
            /\ pc' = [pc EXCEPT ![c] = "idle"] /\ sub' = [sub EXCEPT ![c].state = "open"]
         \/ /\ sub[c].state # "closing" /\ pc' = [pc EXCEPT ![c] = "aborted"]
            /\ UNCHANGED <<lock, sub, collected>>
  BY DEF RestoreFails, Goto, handlerVars
<1>2. /\ lock = c /\ c # Nobody /\ Active = {c} /\ reserved /\ sub[c].gen = word.gen
      /\ \A d \in Clients : d # c => /\ pc[d] \notin Creating \cup Restoring \cup {"raise", "aborted"}
                                     /\ sub[d].state \notin ActiveStates
      /\ sub[c].state \in {"creating", "closing", "dropping"}
  BY <1>1, Holder DEF Restoring, Lease, Locking
<1>3. Updated(sub', sub, c, x, sub[c].installed)
  <2>1. CASE sub[c].state = "closing"
    BY <1>1, <2>1, Records, StateSet DEF States
  <2>2. CASE sub[c].state # "closing"
    BY <1>1, <2>2, Records DEF Updated
  <2> QED BY <2>1, <2>2
<1>4. /\ OnlyClient(c) /\ Active' = Active
      /\ \/ sub[c].state = "closing" /\ pc'[c] = "idle" /\ sub'[c].state = "open"
         \/ sub[c].state # "closing" /\ pc'[c] = "aborted" /\ sub'[c].state = sub[c].state
  <2>1. OnlyClient(c)
    BY <1>1, <1>3 DEF OnlyClient, Updated, TypeOK
  <2>2. \/ sub[c].state = "closing" /\ pc'[c] = "idle" /\ sub'[c].state = "open"
        \/ sub[c].state # "closing" /\ pc'[c] = "aborted" /\ sub'[c].state = sub[c].state
    BY <1>1, <1>3 DEF TypeOK, Updated
  <2> QED BY <1>2, <2>1, <2>2, ActiveAfter DEF ActiveStates
<1>5. Locking'
  BY <1>1, <1>2, <1>4, Facts DEF Lease, Locking, OnlyClient, Creating, Restoring
<1>6. OneLease' /\ Captured'
  BY <1>1, <1>2, <1>3, <1>4, OneLeaseKept, CapturedKept DEF Lease, Updated
<1>7. Selected'
  BY <1>1, <1>2, <1>3, <1>4 DEF Lease, Selected, Updated, Creating
<1>8. Disposed'
  <2>1. \A s \in Signals : action[s] # "prior" => s \in sub[c].installed
    BY <1>2 DEF Lease, Disposed
  <2>2. sub'[c].previous = [s \in Signals |-> "prior"]
    BY <1>2, <1>3 DEF Lease, Disposed, Updated
  <2> QED BY <1>1, <1>2, <1>3, <1>4, <2>1, <2>2 DEF Disposed, Updated
<1>9. PendingIsFresh' /\ NothingLost' /\ Kept'
  <2>1. sub[c].state = "closing" => unseen \subseteq word.pend
    BY <1>1 DEF Lease, Kept, Restoring
  <2> QED BY <1>1, <1>2, <1>4, <2>1 DEF Lease, PendingIsFresh, NothingLost, Kept, OnlyClient, Creating, Restoring
<1> QED BY <1>5, <1>6, <1>7, <1>8, <1>9 DEF Lease

(* Releasing leaves no lease, no bit and no handler behind. *)
LEMMA ReleaseLease ==
    ASSUME TypeOK, Lease, NEW c \in Clients, Release(c)
    PROVE  Lease'
<1>1. /\ pc[c] = "restore" /\ sub[c].installed = {} /\ reserved' = FALSE
      /\ word'.gen = word.gen /\ word'.sel = {} /\ word'.pend = {}
      /\ UNCHANGED <<action, hpc, hsig, hgen, loaded>>
      /\ sub' = [sub EXCEPT ![c].state = "closed"] \/ sub' = [sub EXCEPT ![c] = Idle]
      /\ \/ /\ sub[c].state = "creating" /\ pc' = [pc EXCEPT ![c] = "raise"]
            /\ sub' = [sub EXCEPT ![c].state = "closed"]
            /\ UNCHANGED <<lock, collected, unseen>>
         \/ /\ sub[c].state # "creating" /\ pc' = [pc EXCEPT ![c] = "idle"]
            /\ lock' = Nobody /\ collected' = {} /\ unseen' = {}
  <2>1. word'.gen = word.gen /\ word'.sel = {} /\ word'.pend = {}
    BY DEF Release, TypeOK, Words
  <2> QED BY <2>1 DEF Release, Restored, Goto, handlerVars
<1>2. /\ lock = c /\ c # Nobody /\ Active = {c} /\ reserved /\ sub[c].gen = word.gen
      /\ \A d \in Clients : d # c => /\ pc[d] \notin Creating \cup Restoring \cup {"raise", "aborted"}
                                     /\ sub[d].state \notin ActiveStates
  BY <1>1, Holder DEF Restoring
<1>3. /\ OnlyClient(c) /\ sub'[c].state \in {"closed", "none"}
      /\ sub[c].state = "creating" => sub'[c].state = "closed" /\ pc'[c] = "raise"
      /\ sub[c].state # "creating" => pc'[c] = "idle"
  <2>1. /\ sub' = [sub EXCEPT ![c].state = "closed"] => Updated(sub', sub, c, "closed", sub[c].installed)
        /\ sub' = [sub EXCEPT ![c] = Idle] => sub'[c].state = "none" /\ \A d \in Clients : d # c => sub'[d] = sub[d]
    BY Records, StateSet, IdleIs DEF States
  <2>2. /\ sub[c].state = "creating" => pc'[c] = "raise"
        /\ sub[c].state # "creating" => pc'[c] = "idle"
        /\ \A d \in Clients : d # c => pc'[d] = pc[d]
    BY <1>1 DEF TypeOK
  <2> QED BY <1>1, <2>1, <2>2 DEF OnlyClient, Updated
<1>4. Active' = {}
  BY <1>2, <1>3, ActiveAfter DEF ActiveStates
<1>5. Locking'
  BY <1>1, <1>2, <1>3, Facts DEF Lease, Locking, OnlyClient, Creating, Restoring
<1>6. OneLease' /\ Selected' /\ PendingIsFresh'
  BY <1>1, <1>4 DEF OneLease, Selected, PendingIsFresh
<1>7. Captured'
  BY <1>1, CapturedKept DEF Lease
<1>8. Disposed'
  <2>1. \A s \in Signals : action[s] = "prior"
    BY <1>1, <1>2 DEF Lease, Disposed
  <2> QED BY <1>1, <1>4, <2>1 DEF Disposed
<1>9. NothingLost' /\ Kept'
  <2>1. word.pend = {}
    BY <1>1, <1>2 DEF Lease, Selected
  <2>2. unseen \subseteq collected
    BY <2>1 DEF Lease, NothingLost
  <2> QED BY <1>1, <1>2, <1>3, <2>2 DEF NothingLost, Kept, OnlyClient, Creating, Restoring
<1> QED BY <1>5, <1>6, <1>7, <1>8, <1>9 DEF Lease

(* Taking the lock to close, and freeing a closed subscription. *)
LEMMA CloseLease ==
    ASSUME TypeOK, Lease, NEW c \in Clients,
           FreeClosed(c) \/ \E how \in {"closing", "dropping"} : Close(c, how)
    PROVE  Lease'
<1>1. /\ pc[c] = "idle" /\ UNCHANGED <<word, reserved, action, idx, collected, hpc, hsig, hgen, unseen, loaded>>
      /\ \/ /\ sub[c].state = "closed" /\ sub' = [sub EXCEPT ![c] = Idle] /\ UNCHANGED <<lock, pc>>
         \/ /\ sub[c].state = "open" /\ lock = Nobody /\ lock' = c
            /\ pc' = [pc EXCEPT ![c] = "restore"]
            /\ \E how \in {"closing", "dropping"} : sub' = [sub EXCEPT ![c].state = how]
  BY DEF FreeClosed, Close, Goto, handlerVars
<1>2. CASE sub[c].state = "closed"
  <2>1. OnlyClient(c) /\ pc' = pc /\ sub'[c].state = "none" /\ lock' = lock
    BY <1>1, <1>2, IdleIs, Records DEF OnlyClient
  <2>2. Active' = Active /\ c \notin Active
    BY <1>2, <2>1, ActiveAfter DEF ActiveStates
  <2>3. \A d \in Active : sub'[d] = sub[d]
    BY <2>1, <2>2 DEF OnlyClient, Active
  <2>4. Locking'
    BY <1>1, <2>1 DEF Lease, Locking, OnlyClient, Creating, Restoring
  <2>5. OneLease' /\ Captured'
    BY <1>1, <2>2, <2>3, OneLeaseKept, CapturedKept DEF Lease
  <2>6. Selected'
    BY <1>1, <2>1, <2>2, <2>3 DEF Lease, Selected
  <2>7. Disposed'
    BY <1>1, <2>1, <2>2, <2>3 DEF Lease, Disposed
  <2>8. PendingIsFresh' /\ NothingLost' /\ Kept'
    BY <1>1, <2>1 DEF Lease, PendingIsFresh, NothingLost, Kept, OnlyClient, Creating, Restoring
  <2> QED BY <2>4, <2>5, <2>6, <2>7, <2>8 DEF Lease
<1>3. CASE sub[c].state = "open"
  <2>1. PICK how \in {"closing", "dropping"} : sub' = [sub EXCEPT ![c].state = how]
    BY <1>1, <1>3
  <2>2. Updated(sub', sub, c, how, sub[c].installed)
    BY <2>1, Records, StateSet DEF States
  <2>3. OnlyClient(c) /\ pc'[c] = "restore" /\ lock = Nobody /\ lock' = c /\ sub'[c].state = how
    BY <1>1, <1>3, <2>2 DEF OnlyClient, Updated, TypeOK
  <2>4. Active = {c} /\ Active' = {c}
    <3>1. Active = {c}
      BY <1>3, OneActive DEF Lease, ActiveStates
    <3> QED BY <2>3, <3>1, ActiveAfter DEF ActiveStates
  <2>5. \A d \in Clients : pc[d] \notin Creating \cup Restoring \cup {"raise", "aborted"}
    BY <2>3, Facts DEF Lease, Locking
  <2>6. Locking'
    BY <1>1, <2>3, <2>5 DEF Lease, Locking, OnlyClient, Creating, Restoring
  <2>7. OneLease' /\ Captured'
    BY <1>1, <2>2, <2>4, OneLeaseKept, CapturedKept DEF Lease, Updated
  <2>8. Selected'
    BY <1>1, <2>2, <2>3, <2>4 DEF Lease, Selected, Updated, Creating
  <2>9. Disposed'
    <3>1. /\ \A s \in Signals : action[s] # "prior" => s \in sub'[c].installed
          /\ sub'[c].previous = [s \in Signals |-> "prior"]
      BY <2>2, <2>4 DEF Lease, Disposed, Updated
    <3> QED BY <1>1, <2>3, <2>4, <3>1 DEF Disposed
  <2>10. PendingIsFresh' /\ NothingLost' /\ Kept'
    <3>1. unseen \subseteq word.pend
      BY <2>3 DEF Lease, NothingLost
    <3> QED BY <1>1, <2>3, <2>5, <3>1, Facts DEF Lease, PendingIsFresh, NothingLost, Kept, OnlyClient, Creating, Restoring
  <2> QED BY <2>6, <2>7, <2>8, <2>9, <2>10 DEF Lease
<1> QED BY <1>1, <1>2, <1>3

(* A step of next(), of a handler or of foreign code: it sets or takes     *)
(* pending bits of the current lease, and takes a bit only when it takes   *)
(* the signal.                                                             *)
LEMMA PendingStep ==
    ASSUME TypeOK, Lease, UNCHANGED <<reserved, lock, sub, idx, collected>>,
           word'.gen = word.gen, word'.sel = word.sel, word'.pend \subseteq word.sel,
           \A d \in Clients : \/ pc'[d] = pc[d]
                              \/ sub[d].state = "open" /\ {pc[d], pc'[d]} \subseteq {"idle", "next"},
           \A s \in Signals : action'[s] # "prior" => action[s] # "prior",
           \A s \in unseen' : s \in word'.pend \/ (s \in unseen /\ s \notin word.pend),
           PendingIsFresh', Captured'
    PROVE  Lease'
<1>1. Active' = Active
  BY DEF Active
<1>2. \A d \in Clients : /\ pc'[d] \in Creating \cup Restoring \cup {"raise", "aborted"}
                              <=> pc[d] \in Creating \cup Restoring \cup {"raise", "aborted"}
                         /\ pc'[d] \in Creating => pc'[d] = pc[d]
                         /\ pc'[d] \in Restoring => pc'[d] = pc[d]
                         /\ pc'[d] \in {"raise", "aborted"} => pc'[d] = pc[d]
                         /\ pc'[d] \in {"install", "unselect"} <=> pc[d] \in {"install", "unselect"}
  BY DEF Creating, Restoring
<1>3. Locking'
  BY <1>2 DEF Lease, Locking
<1>4. OneLease'
  BY <1>1, OneLeaseKept DEF Lease
<1>5. Selected'
  <2>1. Active \subseteq Clients
    BY DEF Active
  <2>2. \A d \in Clients : pc'[d] \in {"put", "clear"} => pc'[d] = pc[d]
    OBVIOUS
  <2> QED BY <1>1, <1>2, <2>1, <2>2 DEF Lease, Selected
<1>6. Disposed'
  <2>1. \A d \in Active : pc'[d] = "clear" => pc[d] = "clear"
    BY DEF Active
  <2> QED BY <1>1, <2>1 DEF Lease, Disposed
<1>7. NothingLost'
  BY DEF Lease, NothingLost
<1>8. Kept'
  BY <1>2 DEF Lease, Kept
<1> QED BY <1>3, <1>4, <1>5, <1>6, <1>7, <1>8 DEF Lease

(* next() takes a pending signal only from the word it looked at. *)
LEMMA NextLease ==
    ASSUME TypeOK, Lease, NEW c \in Clients, NextLoad(c) \/ NextTry(c)
    PROVE  Lease'
<1> DEFINE m == Min(seen.pend \cap seen.sel)
<1>1. /\ UNCHANGED <<reserved, lock, sub, idx, collected, action, hpc, hsig, hgen, loaded>>
      /\ pc[c] \in {"idle", "next"} /\ sub[c].state = "open"
      /\ pc' = pc \/ pc' = [pc EXCEPT ![c] = "idle"] \/ pc' = [pc EXCEPT ![c] = "next"]
      /\ \/ UNCHANGED <<word, unseen>>
         \/ word = seen /\ word' = [seen EXCEPT !.pend = seen.pend \ {m}] /\ unseen' = unseen \ {m}
  <2>1. CASE NextLoad(c)
    BY <2>1 DEF NextLoad, Goto, handlerVars
  <2>2. CASE NextTry(c)
    <3>1. pc[c] = "next" /\ sub[c].state = "open"
      BY <2>2 DEF NextTry, Lease, Locking
    <3> QED BY <2>2, <3>1 DEF NextTry, Goto, handlerVars, UnchangedSince
  <2> QED BY <2>1, <2>2
<1> HIDE DEF m
<1>2. /\ word'.gen = word.gen /\ word'.sel = word.sel
      /\ \/ word'.pend = word.pend /\ unseen' = unseen
         \/ word'.pend = word.pend \ {m} /\ unseen' = unseen \ {m}
  BY <1>1 DEF TypeOK, Words
<1>3. \A d \in Clients : \/ pc'[d] = pc[d]
                         \/ sub[d].state = "open" /\ {pc[d], pc'[d]} \subseteq {"idle", "next"}
  BY <1>1 DEF TypeOK
<1>4. word.pend \subseteq word.sel /\ word.pend \subseteq loaded
  BY DEF Lease, Selected, PendingIsFresh
<1>5. PendingIsFresh' /\ Captured'
  BY <1>1, <1>2, <1>4, CapturedKept DEF Lease, PendingIsFresh
<1>6. \A s \in unseen' : s \in word'.pend \/ (s \in unseen /\ s \notin word.pend)
  BY <1>2
<1> QED BY <1>1, <1>2, <1>3, <1>4, <1>5, <1>6, PendingStep

(* A handler publishes only into the lease whose word it loaded. *)
LEMMA HandlerLease ==
    ASSUME TypeOK, Lease, NEW h \in Handlers, HandlerStep(h)
    PROVE  Lease'
<1>1. word.pend \subseteq word.sel /\ word.pend \subseteq loaded /\ Captured
  BY DEF Lease, Selected, PendingIsFresh
<1>2. UNCHANGED <<reserved, lock, sub, pc, idx, collected, action>>
  BY DEF HandlerStep, Deliver, Load, Publish, clientVars
<1>3. ASSUME NEW s \in Signals, Deliver(h, s) PROVE Lease'
  <2>1. /\ UNCHANGED <<word, hgen, unseen, loaded>>
        /\ hpc' = [hpc EXCEPT ![h] = "load"] /\ hsig' = [hsig EXCEPT ![h] = s]
    BY <1>3 DEF Deliver
  <2>2. \A k \in Handlers : hpc'[k] = "publish" => hpc[k] = "publish" /\ hsig'[k] = hsig[k]
    BY <2>1 DEF TypeOK
  <2>3. Captured' /\ PendingIsFresh'
    BY <1>1, <2>1, <2>2 DEF Captured, PendingIsFresh
  <2> QED BY <1>1, <1>2, <2>1, <2>3, PendingStep
<1>4. CASE Load(h)
  <2>1. /\ UNCHANGED <<word, hsig, unseen>> /\ loaded' = loaded \cup {hsig[h]}
        /\ hpc' = [hpc EXCEPT ![h] = "publish"] /\ hgen' = [hgen EXCEPT ![h] = word.gen]
    BY <1>4 DEF Load
  <2>2. word.gen \in Nat
    BY Records, Facts
  <2>3. \A k \in Handlers : hpc'[k] = "publish" =>
          \/ k = h /\ hgen'[k] = word.gen
          \/ k # h /\ hpc[k] = "publish" /\ hgen'[k] = hgen[k]
    BY <2>1 DEF TypeOK
  <2>4. Captured' /\ PendingIsFresh'
    BY <1>1, <2>1, <2>2, <2>3 DEF Captured, PendingIsFresh
  <2> QED BY <1>1, <1>2, <2>1, <2>4, PendingStep
<1>5. CASE Publish(h)
  <2>1. \A k \in Handlers : hpc'[k] = "publish" =>
          hpc[k] = "publish" /\ hgen'[k] = hgen[k] /\ hsig'[k] = hsig[k]
    <3>1. Done(h) \/ UNCHANGED <<hpc, hsig, hgen>>
      BY <1>5 DEF Publish
    <3>2. CASE Done(h)
      BY <3>2 DEF Done, TypeOK
    <3> QED BY <3>1, <3>2
  <2>2. loaded' = loaded /\ word'.gen = word.gen /\ word'.sel = word.sel
    BY <1>5 DEF Publish, TypeOK, Words
  <2>3. Captured'
    BY <1>1, <2>1, <2>2 DEF Captured
  <2>4. CASE UNCHANGED <<word, unseen>>
    <3>1. PendingIsFresh'
      BY <1>1, <2>2, <2>4 DEF PendingIsFresh
    <3> QED BY <1>1, <1>2, <2>2, <2>3, <2>4, <3>1, PendingStep
  <2>5. CASE ~UNCHANGED <<word, unseen>>
    <3>1. /\ hpc[h] = "publish" /\ StillActive(h) /\ word = hobs[h]
          /\ word' = [word EXCEPT !.pend = word.pend \cup {hsig[h]}]
          /\ unseen' = unseen \cup {hsig[h]}
      BY <1>5, <2>5 DEF Publish
    <3>2. word'.pend = word.pend \cup {hsig[h]}
      BY <3>1 DEF TypeOK, Words
    <3>3. hsig[h] \in word.sel /\ hsig[h] \in loaded
      BY <1>1, <3>1 DEF StillActive, Captured
    <3>4. PendingIsFresh'
      BY <1>1, <2>2, <3>2, <3>3 DEF PendingIsFresh
    <3>5. \A s \in unseen' : s \in word'.pend \/ (s \in unseen /\ s \notin word.pend)
      BY <3>1, <3>2
    <3> QED BY <1>1, <1>2, <2>2, <2>3, <3>2, <3>3, <3>4, <3>5, PendingStep
  <2> QED BY <2>4, <2>5
<1> QED BY <1>3, <1>4, <1>5 DEF HandlerStep

(* Foreign code replaces only what the runtime installed. *)
LEMMA ForeignLease ==
    ASSUME TypeOK, Lease, (\E s \in Signals : Foreign(s)) \/ UNCHANGED vars
    PROVE  Lease'
<1>1. UNCHANGED <<word, reserved, lock, sub, pc, idx, collected, hpc, hsig, hgen, unseen, loaded>>
  BY DEF Foreign, vars, clientVars, handlerVars
<1>2. \A s \in Signals : action'[s] # "prior" => action[s] # "prior"
  BY DEF Foreign, vars, TypeOK
<1>3. PendingIsFresh' /\ Captured' /\ word.pend \subseteq word.sel
  BY <1>1, CapturedKept DEF Lease, PendingIsFresh, Selected
<1> QED BY <1>1, <1>2, <1>3, PendingStep

(* Every step keeps the lease. *)
LEMMA LeaseStep == TypeOK /\ Lease /\ [Next]_vars => Lease'
<1> SUFFICES ASSUME TypeOK, Lease, [Next]_vars PROVE Lease'
  OBVIOUS
<1>1. ASSUME NEW c \in Clients, CreateStep(c) PROVE Lease'
  BY <1>1, CreateLease, SelectLease, InstallLease, RaiseLease DEF CreateStep
<1>2. ASSUME NEW c \in Clients, RestoreStep(c) PROVE Lease'
  BY <1>2, PutBackLease, ClearLease, RestoreFailsLease, ReleaseLease DEF RestoreStep
<1>3. ASSUME NEW c \in Clients, OwnerStep(c) PROVE Lease'
  BY <1>3, CloseLease, NextLease DEF OwnerStep
<1> QED BY <1>1, <1>2, <1>3, HandlerLease, ForeignLease DEF Next

(* A handler is installed only while its owner's lease admits it. *)
LEMMA Owned ==
    ASSUME TypeOK, Lease
    PROVE  HandlersOwned
<1> SUFFICES ASSUME NEW s \in Signals, action[s] = "ours"
             PROVE  \E c \in Active : s \in sub[c].installed /\ s \in word.sel
  BY DEF HandlersOwned
<1>1. PICK c \in Active : s \in sub[c].installed
  BY DEF Lease, Disposed
<1>2. sub[c].installed \subseteq word.sel
  BY DEF Lease, Selected
<1> QED BY <1>1, <1>2

(* The inductive invariant, for every set of clients and handlers, every   *)
(* number of signals and every generation limit: who holds the lock, which *)
(* bits the word admits, whose disposition each signal has and where each  *)
(* published signal is, between any two of the kernel calls and atomic     *)
(* operations of create(), restore(), next() and the handler.              *)
THEOREM LeaseInvariant == Spec => [](TypeOK /\ Lease)
<1>1. Init => TypeOK /\ Lease
  BY TypeInit, LeaseInit
<1>2. TypeOK /\ Lease /\ [Next]_vars => (TypeOK /\ Lease)'
  BY TypeStep, LeaseStep
<1> QED BY <1>1, <1>2, PTL DEF Spec

(* process.signals: one lease at a time; every handler the runtime         *)
(* installed has an owner that will restore it; a handler delayed across a *)
(* close never publishes into a later lease; no published signal is lost.  *)
THEOREM LeaseCorrect == Spec => []LeaseExact
<1>1. TypeOK /\ Lease => LeaseExact
  BY Owned DEF Lease, LeaseExact
<1> QED BY <1>1, LeaseInvariant, PTL
=============================================================================
