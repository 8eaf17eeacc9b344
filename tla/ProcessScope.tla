---------------------------- MODULE ProcessScope ----------------------------
(***************************************************************************)
(* Ownership of child processes in crates/align_runtime/src:               *)
(* process_launch.rs (admission, clone, handshake, failed-launch cleanup), *)
(* process_live.rs (wait, kill and Drop of a NativeChild) and              *)
(* process_scope.rs (the exclusive scope: subreaper, wildcard reaping and  *)
(* the kernel-empty release).  All of them act on numeric process ids,     *)
(* which the kernel reuses as soon as a process is reaped.                 *)
(***************************************************************************)
EXTENDS Naturals, FiniteSets

CONSTANTS Handles,        \* ordinary NativeChild owners
          Scopes,         \* Scope owners; each contains its root NativeChild
          Pids,           \* process ids
          NoPid,          \* no process
          Us, Pid1,     \* this process and init, as parents
          None,           \* a process no owner launched
          MaxForks,       \* bound on the forks of descendants
          MaxThefts       \* bound on children reaped by foreign code

Owners == Handles \cup Scopes

(* What the constants must be. *)
ASSUME ProcessScopeAssumption ==
    /\ IsFiniteSet(Pids) /\ IsFiniteSet(Handles)
    /\ Handles \cap Scopes = {}
    /\ NoPid \notin Pids /\ Us \notin Pids /\ Pid1 \notin Pids /\ Us # Pid1
    /\ None \notin Owners
    /\ MaxForks \in Nat /\ MaxThefts \in Nat

VARIABLES
    (* CreationState, guarded by CREATION *)
    children, scope,
    subreaper,    \* PR_SET_CHILD_SUBREAPER
    (* the kernel's process table *)
    st,           \* "free", "run" or "zombie"
    parent,
    doomed,       \* a SIGKILL is pending
    of,           \* history: the owner whose launch created the process
    line,         \* history: the owner it descends from
    (* each owner's NativeChild and Scope *)
    owner,        \* its control
    pid, tracked, reaped, lost,
    slost,        \* Scope.lost
    forks, thefts,
    stolen        \* history: foreign code has reaped an owner's child

kernelVars == <<st, parent, doomed, of, line>>
ownerVars == <<owner, pid, tracked, reaped, lost, slost>>
countVars == <<forks, thefts, stolen>>
scopeVars == <<children, scope, subreaper, kernelVars, ownerVars, countVars>>

ScopeInit ==
    /\ children = 0 /\ scope = FALSE /\ subreaper = FALSE
    /\ st = [p \in Pids |-> "free"]
    /\ parent = [p \in Pids |-> Pid1]
    /\ doomed = [p \in Pids |-> FALSE]
    /\ of = [p \in Pids |-> None]
    /\ line = [p \in Pids |-> None]
    /\ owner = [o \in Owners |-> "none"]
    /\ pid = [o \in Owners |-> NoPid]
    /\ tracked = [o \in Owners |-> FALSE]
    /\ reaped = [o \in Owners |-> FALSE]
    /\ lost = [o \in Owners |-> FALSE]
    /\ slost = [s \in Scopes |-> FALSE]
    /\ forks = 0 /\ thefts = 0 /\ stolen = FALSE

OwnerGoes(o, l) == owner' = [owner EXCEPT ![o] = l]
-----------------------------------------------------------------------------
(* The kernel *)

(* Reaping frees the process id for reuse. *)
Freed(p) == /\ st' = [st EXCEPT ![p] = "free"]
            /\ parent' = [parent EXCEPT ![p] = Pid1]
            /\ doomed' = [doomed EXCEPT ![p] = FALSE]
            /\ of' = [of EXCEPT ![p] = None]
            /\ line' = [line EXCEPT ![p] = None]

Started(p, par, o, l) ==
    /\ st' = [st EXCEPT ![p] = "run"]
    /\ parent' = [parent EXCEPT ![p] = par]
    /\ of' = [of EXCEPT ![p] = o]
    /\ line' = [line EXCEPT ![p] = l]
    /\ UNCHANGED doomed

OurChild(p) == p \in Pids /\ st[p] # "free" /\ parent[p] = Us
Waitable(p) == OurChild(p) /\ st[p] = "zombie"

(* p descends from this process: it is in every set that holds our         *)
(* children and the children of its members.                               *)
Ours(p) ==
    \A S \in SUBSET Pids :
        (\A q \in Pids : parent[q] \in S \cup {Us} => q \in S) => p \in S

(* A running process forks, or unrelated code starts one. *)
Fork(p, q) ==
    /\ forks < MaxForks
    /\ st[p] = "run" /\ ~doomed[p]
    /\ st[q] = "free"
    /\ Started(q, p, None, line[p])
    /\ forks' = forks + 1
    /\ UNCHANGED <<children, scope, subreaper, ownerVars, thefts, stolen>>

Unrelated(q) ==
    /\ st[q] = "free"
    /\ Started(q, Pid1, None, None)
    /\ UNCHANGED <<children, scope, subreaper, ownerVars, countVars>>

(* Exit: the children of p go to its nearest subreaper, or to init. *)
Exit(p) ==
    /\ st[p] = "run"
    /\ st' = [st EXCEPT ![p] = "zombie"]
    /\ parent' = [q \in Pids |->
                    IF parent[q] # p THEN parent[q]
                    ELSE IF Ours(p) /\ subreaper THEN Us ELSE Pid1]
    /\ UNCHANGED <<children, scope, subreaper, doomed, of, line, ownerVars, countVars>>

(* A zombie whose parent is not this process is reaped by its parent.      *)
ReapedElsewhere(p) ==
    /\ st[p] = "zombie" /\ parent[p] # Us
    /\ Freed(p)
    /\ UNCHANGED <<children, scope, subreaper, ownerVars, countVars>>

(* Foreign code in this process waits for any child. *)
ForeignReap(p) ==
    /\ thefts < MaxThefts
    /\ Waitable(p)
    /\ Freed(p)
    /\ thefts' = thefts + 1
    /\ stolen' = (stolen \/ of[p] \in Owners)
    /\ UNCHANGED <<children, scope, subreaper, ownerVars, forks>>
-----------------------------------------------------------------------------
(* Launch *)

(* PendingChild's flag: only an ordinary launch is counted. *)
Pending(o) == o \in Handles

(* launch_inner up to PendingChild::reserve. *)
Admit(h) ==
    /\ owner[h] = "none"
    /\ ~scope
    /\ children' = children + 1
    /\ OwnerGoes(h, "clone")
    /\ UNCHANGED <<scope, subreaper, kernelVars, pid, tracked, reaped, lost, slost,
                   countVars>>

(* start() of a scope: no ordinary child in flight or unreaped, and the    *)
(* kernel's word that there is no child at all.  Mutant: the count is not  *)
(* looked at.                                                              *)
ScopeMayStartUncounted == ~scope /\ ~subreaper /\ ~\E p \in Pids : OurChild(p)
ScopeMayStart ==
    ~scope /\ children = 0 /\ ~subreaper /\ ~\E p \in Pids : OurChild(p)

Arm(s) ==
    /\ owner[s] = "none"
    /\ ScopeMayStart
    /\ scope' = TRUE
    /\ subreaper' = TRUE
    /\ OwnerGoes(s, "clone")
    /\ UNCHANGED <<children, kernelVars, pid, tracked, reaped, lost, slost, countVars>>

(* clone() succeeds; the reservation is committed to the child. *)
Clone(o, p) ==
    /\ owner[o] = "clone"
    /\ st[p] = "free"
    /\ Started(p, Us, o, o)
    /\ pid' = [pid EXCEPT ![o] = p]
    /\ tracked' = [tracked EXCEPT ![o] = Pending(o)]
    /\ OwnerGoes(o, "handshake")
    /\ UNCHANGED <<children, scope, subreaper, reaped, lost, slost, countVars>>

(* A launch that fails before it has a child: PendingChild gives the count *)
(* back, an armed scope is dropped.                                        *)
CloneFails(o) ==
    /\ owner[o] = "clone"
    /\ children' = IF Pending(o) THEN children - 1 ELSE children
    /\ OwnerGoes(o, IF o \in Handles THEN "none" ELSE "drop")
    /\ UNCHANGED <<scope, subreaper, kernelVars, pid, tracked, reaped, lost, slost,
                   countVars>>

(* The error pipe closes on exec, or reports a failure or a timeout.  *)
Handshake(o, ok) ==
    /\ owner[o] = "handshake"
    /\ OwnerGoes(o, IF ok THEN "live" ELSE "cleanup")
    /\ UNCHANGED <<children, scope, subreaper, kernelVars, pid, tracked, reaped, lost,
                   slost, countVars>>

(* NativeChild::signal's test: a reaped or lost child is never signalled.  *)
MaySignal(o) == pid[o] # NoPid /\ ~reaped[o] /\ ~lost[o]

(* kill(2) on the numeric id: whatever process has it now.                 *)
Signalled(o) == doomed' = [doomed EXCEPT ![pid[o]] = st[pid[o]] = "run"]

CleanupKill(o) ==
    /\ owner[o] = "cleanup"
    /\ Signalled(o)
    /\ OwnerGoes(o, "reap")
    /\ UNCHANGED <<children, scope, subreaper, st, parent, of, line, pid, tracked,
                   reaped, lost, slost, countVars>>
-----------------------------------------------------------------------------
(* A NativeChild: kill, wait, Drop.  A Scope offers the same for its root. *)

Kill(o) ==
    /\ owner[o] = "live"
    /\ MaySignal(o)
    /\ Signalled(o)
    /\ UNCHANGED <<children, scope, subreaper, st, parent, of, line, ownerVars, countVars>>

(* wait_native: wait4 on the numeric id.  The status is taken first and    *)
(* the count given back under the creation lock afterwards; ECHILD means   *)
(* that somebody else reaped the child.  "reap" is the blocking wait of    *)
(* Drop and of cleanup_failed.                                             *)
Wait(o) ==
    /\ owner[o] \in {"live", "reap"}
    /\ MaySignal(o)
    /\ \/ /\ Waitable(pid[o])
          /\ Freed(pid[o])
          /\ reaped' = [reaped EXCEPT ![o] = TRUE]
          /\ UNCHANGED lost
       \/ /\ ~OurChild(pid[o])
          /\ lost' = [lost EXCEPT ![o] = TRUE]
          /\ UNCHANGED <<kernelVars, reaped>>
    /\ OwnerGoes(o, IF owner[o] = "live" THEN "untrack" ELSE "untrackgone")
    /\ UNCHANGED <<children, scope, subreaper, pid, tracked, slost, countVars>>

(* release_tracking. *)
GivenBack(o) == tracked[o]

(* The NativeChild is dropped, and with it its flags. *)
Forget(o) == /\ pid' = [pid EXCEPT ![o] = NoPid]
             /\ reaped' = [reaped EXCEPT ![o] = FALSE]
             /\ lost' = [lost EXCEPT ![o] = FALSE]

(* The child goes away: an ordinary handle is freed, a scope whose root    *)
(* failed to launch has no root and is dropped.                            *)
Gone(o) == Forget(o) /\ OwnerGoes(o, IF o \in Handles THEN "none" ELSE "drop")

ReleaseTracking(o) ==
    /\ owner[o] \in {"untrack", "untrackgone"}
    /\ children' = IF GivenBack(o) THEN children - 1 ELSE children
    /\ tracked' = [tracked EXCEPT ![o] = FALSE]
    /\ IF owner[o] = "untrack"
         THEN OwnerGoes(o, "live") /\ UNCHANGED <<pid, reaped, lost>>
         ELSE Gone(o)
    /\ UNCHANGED <<scope, subreaper, kernelVars, slost, countVars>>

DropHandle(h) ==
    /\ owner[h] = "live"
    /\ IF MaySignal(h)
         THEN OwnerGoes(h, "reap") /\ UNCHANGED <<pid, reaped, lost>>
         ELSE Gone(h)
    /\ UNCHANGED <<children, scope, subreaper, kernelVars, tracked, slost, countVars>>
-----------------------------------------------------------------------------
(* A Scope *)

(* valid().  Its remaining tests (scope mode on, no ordinary child, the    *)
(* subreaper set) never fail: ScopeExclusive.                              *)
Valid(s) == ~slost[s] /\ ~lost[s]

(* A status of the root taken by the wildcard wait fills the root's own    *)
(* cache.                                                                  *)
RootRecord(s, p) == reaped[s] \/ p = pid[s]

(* One wait4(-1) of reap().  A status for the root's id after the root was *)
(* reaped is taken for a contradiction, and the scope is lost.             *)
ReapAny(s, p) ==
    /\ Waitable(p)
    /\ Freed(p)
    /\ slost' = [slost EXCEPT ![s] = p = pid[s] /\ reaped[s]]
    /\ reaped' = [reaped EXCEPT ![s] = RootRecord(s, p)]

Reap(s, p) ==
    /\ owner[s] = "live" /\ Valid(s)
    /\ ReapAny(s, p)
    /\ UNCHANGED <<children, scope, subreaper, owner, pid, tracked, lost, countVars>>

(* children() and member.kill: a child is admitted by waitid and signalled *)
(* through its pidfd.                                                      *)
KillMember(s, p) ==
    /\ owner[s] = "live" /\ Valid(s)
    /\ OurChild(p)
    /\ doomed' = [doomed EXCEPT ![p] = st[p] = "run"]
    /\ UNCHANGED <<children, scope, subreaper, st, parent, of, line, ownerVars, countVars>>

(* wait4(-1, WNOHANG) with nothing to report. *)
NothingWaitable == ~\E p \in Pids : Waitable(p)

(* The absence witness: ECHILD, not "pending". *)
Empty == ~\E p \in Pids : OurChild(p)

(* The end of a successful release(). *)
Disarm == scope' = FALSE /\ subreaper' = FALSE

(* release() with no child left although the root was never reaped. *)
RootUnaccounted(s) == pid[s] # NoPid /\ ~reaped[s]

ReleaseScope(s) ==
    /\ owner[s] = "live" /\ Valid(s)
    /\ Empty
    /\ IF RootUnaccounted(s)
         THEN /\ slost' = [slost EXCEPT ![s] = TRUE]
              /\ UNCHANGED <<scope, subreaper, owner>>
         ELSE Disarm /\ OwnerGoes(s, "closed") /\ UNCHANGED slost
    /\ UNCHANGED <<children, kernelVars, pid, tracked, reaped, lost, countVars>>

(* Drop of a released scope, or the start of the Drop loop. *)
DropScope(s) ==
    /\ \/ /\ owner[s] = "closed"
          /\ OwnerGoes(s, "none")
          /\ Forget(s)
       \/ /\ owner[s] = "live"
          /\ OwnerGoes(s, "drop")
          /\ UNCHANGED <<pid, reaped, lost>>
    /\ UNCHANGED <<children, scope, subreaper, kernelVars, tracked, slost, countVars>>

(* The Drop loop: release, or kill every child and reap, again.            *)
DropRelease(s) ==
    /\ owner[s] = "drop"
    /\ IF ~Valid(s) \/ (Empty /\ RootUnaccounted(s))
         THEN OwnerGoes(s, "aborted") /\ UNCHANGED <<scope, subreaper, pid, reaped, lost>>
         ELSE IF Empty
         THEN Disarm /\ OwnerGoes(s, "none") /\ Forget(s)
         ELSE OwnerGoes(s, "dropkill") /\ UNCHANGED <<scope, subreaper, pid, reaped, lost>>
    /\ UNCHANGED <<children, kernelVars, tracked, slost, countVars>>

(* Whom the Drop loop kills.  Mutant: only the root.                       *)
VictimsRootOnly(s) == {p \in Pids : OurChild(p) /\ p = pid[s]}
Victims(s) == {p \in Pids : OurChild(p)}

DropKill(s) ==
    /\ owner[s] = "dropkill"
    /\ doomed' = [p \in Pids |-> doomed[p] \/ (p \in Victims(s) /\ st[p] = "run")]
    /\ OwnerGoes(s, "dropreap")
    /\ UNCHANGED <<children, scope, subreaper, st, parent, of, line, pid, tracked,
                   reaped, lost, slost, countVars>>

DropReap(s) ==
    /\ owner[s] = "dropreap"
    /\ \/ /\ \E p \in Pids : ReapAny(s, p)
          /\ OwnerGoes(s, IF slost'[s] THEN "aborted" ELSE "dropreap")
       \/ /\ NothingWaitable
          /\ OwnerGoes(s, "drop")
          /\ UNCHANGED <<kernelVars, reaped, slost>>
    /\ UNCHANGED <<children, scope, subreaper, pid, tracked, lost, countVars>>

(* A failing prctl, /proc scan, pidfd or wait call ends the Drop, and with *)
(* it the process.                                                         *)
DropFails(s) ==
    /\ owner[s] \in {"drop", "dropkill", "dropreap"}
    /\ OwnerGoes(s, "aborted")
    /\ UNCHANGED <<children, scope, subreaper, kernelVars, pid, tracked, reaped, lost,
                   slost, countVars>>
-----------------------------------------------------------------------------
KernelStep == \/ \E p, q \in Pids : Fork(p, q)
              \/ \E p \in Pids : \/ Unrelated(p) \/ Exit(p)
                                 \/ ReapedElsewhere(p) \/ ForeignReap(p)

LaunchStep(o) == \/ o \in Handles /\ Admit(o)
                 \/ o \in Scopes /\ Arm(o)
                 \/ \E p \in Pids : Clone(o, p)
                 \/ CloneFails(o)
                 \/ \E ok \in BOOLEAN : Handshake(o, ok)

ChildStep(o) == Kill(o) \/ (o \in Handles /\ DropHandle(o))

(* The steps a thread inside a call takes by itself. *)
Cleanup(o) == CleanupKill(o) \/ Wait(o) \/ ReleaseTracking(o)

ScopeStep(s) == \/ \E p \in Pids : Reap(s, p) \/ KillMember(s, p)
                \/ ReleaseScope(s) \/ DropScope(s) \/ DropFails(s)

DropLoop(s) == DropRelease(s) \/ DropKill(s) \/ DropReap(s)

NoneAborted == \A o \in Owners : owner[o] # "aborted"

ScopeNext ==
    /\ NoneAborted
    /\ \/ KernelStep
       \/ \E o \in Owners : LaunchStep(o) \/ ChildStep(o) \/ Cleanup(o)
       \/ \E s \in Scopes : ScopeStep(s) \/ DropLoop(s)

ScopeSpec == ScopeInit /\ [][ScopeNext]_scopeVars

(* A killed process exits, and a thread inside a call runs. *)
Dies(p) == NoneAborted /\ doomed[p] /\ Exit(p)
Cleans(o) == NoneAborted /\ owner[o] # "live" /\ Cleanup(o)
Drops(s) == NoneAborted /\ DropLoop(s)

ScopeFairness ==
    /\ \A p \in Pids : WF_scopeVars(Dies(p))
    /\ \A o \in Owners : WF_scopeVars(Cleans(o))
    /\ \A s \in Scopes : WF_scopeVars(Drops(s))

ScopeFairSpec == ScopeSpec /\ ScopeFairness
-----------------------------------------------------------------------------
(* Properties *)

(* Every variable keeps its type; the owner count never underflows. *)
ScopeTypeOK ==
    /\ children \in Nat /\ scope \in BOOLEAN /\ subreaper \in BOOLEAN
    /\ st \in [Pids -> {"free", "run", "zombie"}]
    /\ parent \in [Pids -> Pids \cup {Us, Pid1}]
    /\ doomed \in [Pids -> BOOLEAN]
    /\ of \in [Pids -> Owners \cup {None}]
    /\ line \in [Pids -> Owners \cup {None}]
    /\ owner \in [Owners -> {"none", "clone", "handshake", "cleanup", "reap", "live",
                             "untrack", "untrackgone", "closed", "drop", "dropkill",
                             "dropreap", "aborted"}]
    /\ pid \in [Owners -> Pids \cup {NoPid}]
    /\ tracked \in [Owners -> BOOLEAN]
    /\ reaped \in [Owners -> BOOLEAN]
    /\ lost \in [Owners -> BOOLEAN]
    /\ slost \in [Scopes -> BOOLEAN]
    /\ forks \in 0..MaxForks /\ thefts \in 0..MaxThefts
    /\ stolen \in BOOLEAN

(* As long as an owner may signal or wait on its numeric id, that id is    *)
(* still the process it launched: nobody else inside the runtime, the      *)
(* scope's wait4(-1) included, has reaped it, so the kernel cannot have    *)
(* given the id to another process.  Foreign code that reaps an owner's    *)
(* child voids the guarantee for every owner: its stale id may be another  *)
(* owner's next child.                                                     *)
PidPinned ==
    ~stolen =>
        \A o \in Owners : MaySignal(o) => OurChild(pid[o]) /\ of[pid[o]] = o

(* The creation count stands for every launch in flight and every unreaped *)
(* ordinary child, on every failure path.                                  *)
Counted ==
    children = Cardinality({h \in Handles : owner[h] = "clone" \/ tracked[h]})

(* A scope is exclusive: while its mode is on exactly one scope is open,   *)
(* the subreaper is set, and no ordinary owner has a launch in flight or   *)
(* an unreaped child its wait4(-1) could steal.                            *)
Open == {s \in Scopes : owner[s] \notin {"none", "closed"}}

ScopeExclusive ==
    /\ scope <=> Open # {}
    /\ scope <=> subreaper
    /\ \A s, t \in Open : s = t
    /\ scope => \A h \in Handles : owner[h] # "clone" /\ ~MaySignal(h)

(* A release means that no descendant of the scope's root is left, however *)
(* deep its chain of parents was: no direct child is enough.               *)
ReleaseMeansGone ==
    scope /\ ~scope' => \A p \in Pids : st[p] # "free" => line[p] \notin Open

(* What the runtime's ownership of processes promises. *)
ScopesExclusive ==
    /\ [](ScopeTypeOK /\ PidPinned /\ Counted /\ ScopeExclusive)
    /\ [][ReleaseMeansGone]_scopeVars

(* The Drop of a scope, and a failed start of one, finishes: killing the   *)
(* children it sees and reaping, again and again, reaches everything.      *)
DropReturns ==
    \A s \in Scopes :
        owner[s] \in {"cleanup", "drop"} ~> owner[s] \in {"none", "aborted"}

(* scope.reap "return[s] each newly reaped child's PID and typed           *)
(* wait_result once" (docs/impl/50-r65-process-capability-handoff.md): a   *)
(* status its wait4(-1) consumed is never dropped for a contradiction that *)
(* no foreign code caused.                                                 *)
ReapReports == ~stolen => \A s \in Scopes : ~slost[s]
=============================================================================
