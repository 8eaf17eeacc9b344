------------------------------ MODULE WatchLoop ------------------------------
(***************************************************************************)
(* `alignc build --watch` (crates/align_driver/src/watch.rs and            *)
(* watch_native.rs, crates/align_watch): the controller builds a revision, *)
(* takes a baseline of what the build read, replaces the inotify           *)
(* registrations and waits, while editors change the inputs and one thread *)
(* per registration generation turns events into a flag and a wake byte.   *)
(*                                                                         *)
(* The inputs lie in one directory below a root that stays.  A read, a     *)
(* snapshot of one path and a compaction are each one step; the files are  *)
(* visited one after the other.                                            *)
(***************************************************************************)
EXTENDS Naturals, Sequences, FiniteSets

CONSTANTS Inputs,     \* number of inputs, read in order
          MaxChanges, \* bound on what editors do
          MaxTries,   \* rounds of reinstall_watches (8 in the code)
          MoveBack,   \* a directory may return under its old identity
          Faults      \* what may end the watch: "signal", "fatal", "call"

(* What the constants must be. *)
ASSUME WatchAssumption ==
    /\ Inputs \in Nat \ {0} /\ MaxChanges \in Nat /\ MaxTries \in Nat \ {0}
    /\ MoveBack \in BOOLEAN /\ Faults \subseteq {"signal", "fatal", "call"}

Files == 1..Inputs
Root == 1                 \* its inode; the directory below it has others
Inodes == 2..(MaxChanges + 2)

VARIABLES
    disk,       \* [dir, was, txt]: the directory's inode (0: missing), the last one, its contents
    changes,
    watches,    \* [gen, path, reg, on]: registered for inode reg, attached to on
    queue,      \* generations with unread events
    waking,     \* generations whose thread has set dirty and not yet written
    dirty, byte, control,
    loop, input, phase, tries, due,
    known, final, changed, success, broken,
    base,       \* the monitor's baseline: file to row
    last,       \* files of the last successful revision
    adds, gen, tentative, retry,
    seen,       \* history: what the last revision consumed
    mid         \* history: the disk when it began to verify that

diskVars == <<disk, changes>>
wakeVars == <<queue, waking, dirty, byte, control>>
buildVars == <<known, final, changed, success, broken, last, seen, mid>>
registryVars == <<watches, adds, gen, tentative>>
loopVars == <<loop, input, phase, tries, due, base, retry>>
watchVars == <<diskVars, wakeVars, buildVars, registryVars, loopVars>>

Look(f) == [dir |-> disk.dir,
            txt |-> IF disk.dir = 0 THEN [v |-> 0, ok |-> FALSE] ELSE disk.txt[f]]

WatchInit ==
    /\ disk = [dir |-> 2, was |-> 2, txt |-> [f \in Files |-> [v |-> 0, ok |-> TRUE]]] /\ changes = 0
    /\ watches = {} /\ queue = {} /\ waking = {}
    /\ dirty = FALSE /\ byte = FALSE /\ control = "none"
    /\ loop = "start" /\ input = 1 /\ phase = "none" /\ tries = 0 /\ due = FALSE
    /\ known = <<>> /\ final = <<>> /\ changed = FALSE /\ success = FALSE /\ broken = FALSE
    /\ base = <<>> /\ last = {} /\ adds = <<>> /\ gen = 1 /\ tentative = FALSE
    /\ retry = FALSE /\ seen = <<>> /\ mid = <<>>
-----------------------------------------------------------------------------
(* Editors.  An event reaches every watch attached to the inode. *)

Notified(inodes) == {w.gen : w \in {x \in watches : x.on \in inodes}}

Change(new, inodes) ==
    /\ changes < MaxChanges /\ loop # "exited"
    /\ changes' = changes + 1
    /\ disk' = new
    /\ queue' = queue \cup Notified(inodes)
    /\ UNCHANGED <<waking, dirty, byte, control, buildVars, registryVars, loopVars>>

Write(f, ok) ==
    /\ disk.dir # 0
    /\ Change([disk EXCEPT !.txt[f] = [v |-> changes + 1, ok |-> ok]], {disk.dir})

(* The directory is moved away; it, as it was, or another one is moved in. *)
Remove == disk.dir # 0 /\ Change([disk EXCEPT !.dir = 0], {Root, disk.dir})
Replace(d) ==
    /\ d # disk.dir
    /\ d = changes + 3 \/ (MoveBack /\ d < changes + 3)
    /\ Change([dir |-> d, was |-> d, txt |-> [f \in Files |-> [v |-> changes + 1, ok |-> TRUE]]],
              {Root, d, disk.dir})
Restore == /\ MoveBack /\ disk.dir = 0
           /\ Change([disk EXCEPT !.dir = disk.was], {Root, disk.was})
-----------------------------------------------------------------------------
(* event_loop: the flag is stored before the byte is written.              *)

Classify(g) ==
    /\ g \in queue
    /\ queue' = queue \ {g}
    /\ dirty' = TRUE /\ waking' = waking \cup {g}
    /\ UNCHANGED <<diskVars, byte, control, buildVars, registryVars, loopVars>>

Wake(g) ==
    /\ g \in waking
    /\ waking' = waking \ {g}
    /\ byte' = TRUE
    /\ UNCHANGED <<diskVars, queue, dirty, control, buildVars, registryVars, loopVars>>

(* set_signal from a handler, set_fatal from a backend.  The first one of  *)
(* each class stays and the signal outranks the failure, with a byte for   *)
(* the poll.                                                               *)
ControlWakes == TRUE

Control(c) ==
    /\ loop # "exited" /\ c \in Faults
    /\ control = "none" \/ (control = "fatal" /\ c = "signal")
    /\ control' = c
    /\ byte' = ControlWakes
    /\ UNCHANGED <<diskVars, queue, waking, dirty, buildVars, registryVars, loopVars>>
-----------------------------------------------------------------------------
(* A revision *)

Stopped == control # "none"

Start ==
    /\ loop = "start"
    /\ loop' = IF Stopped THEN "ending" ELSE "read"
    /\ input' = 1 /\ phase' = "none" /\ tries' = 0 /\ due' = FALSE /\ retry' = FALSE
    /\ changed' = FALSE /\ base' = <<>>
    /\ UNCHANGED <<diskVars, wakeVars, known, final, success, broken, last, seen, mid, registryVars>>

(* The front end stops at an input it cannot use. *)
LastInput(f) == f = Inputs

Read ==
    /\ loop = "read"
    /\ known' = Append(known, Look(input))
    /\ broken' = ~Look(input).txt.ok
    /\ IF broken' \/ LastInput(input)
         THEN loop' = "final" /\ input' = 1 /\ mid' = disk.txt
         ELSE input' = input + 1 /\ UNCHANGED <<loop, mid>>
    /\ UNCHANGED <<diskVars, wakeVars, final, changed, success, last, seen, registryVars,
                   phase, tries, due, base, retry>>

(* finalize_watch_inputs. *)
Moved(f) == Look(f) # known[f]

Finalize ==
    /\ loop = "final"
    /\ final' = Append(final, Look(input))
    /\ changed' = (changed \/ Moved(input))
    /\ IF input = Len(known)
         THEN input' = 1 /\ loop' = IF broken THEN "mark" ELSE "link"
         ELSE input' = input + 1 /\ UNCHANGED loop
    /\ UNCHANGED <<diskVars, wakeVars, known, success, broken, last, seen, mid, registryVars,
                   phase, tries, due, base, retry>>

(* The link runs on inputs that did not change, and may fail. *)
Link(ok) ==
    /\ loop = "link"
    /\ success' = (ok /\ ~changed)
    /\ loop' = "mark"
    /\ UNCHANGED <<diskVars, wakeVars, known, final, changed, broken, last, seen, mid,
                   registryVars, input, phase, tries, due, base, retry>>

(* A signal stops the linker's child, a broken linker the watch. *)
LinkStops ==
    /\ loop = "link" /\ (control = "signal" \/ "call" \in Faults)
    /\ loop' = "ending"
    /\ UNCHANGED <<diskVars, wakeVars, buildVars, registryVars, input, phase, tries, due, base, retry>>

(* The marker, and monitor_baseline: a failed revision also keeps what the *)
(* last successful one read.                                               *)
MarkRevision ==
    /\ loop = "mark"
    /\ seen' = known
    /\ IF Stopped THEN loop' = "ending" /\ UNCHANGED <<last, base>>
       ELSE LET read == 1..Len(final)
                kept == IF success THEN {} ELSE last \ read
            IN /\ base' = [f \in read \cup kept |-> IF f \in read THEN final[f] ELSE Look(f)]
               /\ last' = IF success THEN read ELSE last
               /\ loop' = "desire"
    /\ known' = <<>> /\ final' = <<>> /\ mid' = <<>> /\ success' = FALSE /\ broken' = FALSE
    /\ UNCHANGED <<diskVars, wakeVars, changed, registryVars, input, phase, tries, due, retry>>
-----------------------------------------------------------------------------
(* reinstall_watches *)

Dirs == {base[f].dir : f \in DOMAIN base} \ {0}
Desired == {[path |-> "root", reg |-> Root]} \cup {[path |-> "sub", reg |-> d] : d \in Dirs}
Registration(w) == [path |-> w.path, reg |-> w.reg]

(* compact_watches keeps the newest generation of each desired entry; a    *)
(* generation without entries is dropped with the events it has not read.  *)
Newest(ws, w) == \A x \in ws : Registration(x) = Registration(w) => x.gen <= w.gen
Compacted(ws) == {w \in ws : Registration(w) \in Desired /\ Newest(ws, w)}
DropBackends(ws) ==
    LET live == {w.gen : w \in ws}
    IN /\ queue' = queue \cap live
       /\ waking' = waking \cap live
       /\ byte' = (byte \/ waking \ live # {})

(* What is missing. *)
AllRegistered(ws) == \A r \in Desired : \E w \in ws : Registration(w) = r

NextRevision == loop' = "start" /\ UNCHANGED <<input, phase, tries, due, base, retry>>

(* The root comes before what lies below it. *)
Ordered(ds) == <<[path |-> "root", reg |-> Root]>>
             \o [i \in 1..Cardinality(ds) |-> [path |-> "sub", reg |-> CHOOSE d \in ds : TRUE]]

Desire ==
    /\ loop = "desire"
    /\ LET old == IF tentative THEN Compacted(watches) ELSE watches
       IN IF Stopped
            THEN /\ loop' = "ending"
                 /\ UNCHANGED <<wakeVars, registryVars, input, phase, tries, due, base, retry>>
          ELSE IF Cardinality(Dirs) > 1
            THEN NextRevision /\ UNCHANGED <<wakeVars, registryVars>>
          ELSE /\ watches' = old
               /\ tentative' = FALSE
               /\ IF tentative THEN DropBackends(old) ELSE UNCHANGED <<queue, waking, byte>>
               /\ IF AllRegistered(old)
                    THEN loop' = "look" /\ adds' = <<>> /\ UNCHANGED gen
                    ELSE loop' = "add" /\ adds' = Ordered(Dirs) /\ gen' = gen + 1
               /\ phase' = "added" /\ input' = 1
               /\ UNCHANGED <<dirty, control, tries, due, base, retry>>
    /\ UNCHANGED <<diskVars, buildVars>>

(* inotify_add_watch attaches to whatever has the path now. *)
Add ==
    /\ loop = "add"
    /\ LET r == Head(adds)
           g == gen - 1
       IN IF Stopped THEN loop' = "ending" /\ UNCHANGED <<wakeVars, registryVars, phase>>
          ELSE IF r.path = "sub" /\ disk.dir = 0
            THEN LET rest == {w \in watches : w.gen # g}       \* lost: rolled back
                 IN /\ watches' = rest /\ DropBackends(rest)
                    /\ adds' = <<>> /\ phase' = "lost" /\ loop' = "look"
                    /\ UNCHANGED <<dirty, control, gen, tentative>>
          ELSE /\ watches' = watches \cup
                     {[gen |-> g, path |-> r.path, reg |-> r.reg,
                       on |-> IF r.path = "root" THEN Root ELSE disk.dir]}
               /\ adds' = Tail(adds)
               /\ loop' = IF Len(adds) = 1 THEN "look" ELSE "add"
               /\ UNCHANGED <<wakeVars, gen, tentative, phase>>
    /\ UNCHANGED <<diskVars, buildVars, input, tries, due, base, retry>>

Compact ==
    /\ loop = "compact"
    /\ IF Stopped THEN loop' = "ending" /\ UNCHANGED <<wakeVars, watches, input, phase>>
       ELSE /\ watches' = Compacted(watches)
            /\ DropBackends(Compacted(watches))
            /\ loop' = "look" /\ input' = 1 /\ phase' = "compacted"
            /\ UNCHANGED <<dirty, control>>
    /\ UNCHANGED <<diskVars, buildVars, adds, gen, tentative, tries, due, base, retry>>

(* A transition ends: an attempt whose inputs changed is repeated.         *)
(* Mutant: it is not.                                                      *)
NeverAgain == FALSE
Again == changed

Transition(again) ==
    /\ loop' = IF Again THEN "start" ELSE "top"
    /\ retry' = again
    /\ due' = FALSE

(* observed_change, one path after the other, and what depends on it.      *)
(* Mutant: what happened before the watches were added is not looked for.  *)
DiffersInLoop(f) == phase = "loop" /\ Look(f) # base[f]
Differs(f) == Look(f) # base[f]

NextFile(f) == IF \E g \in DOMAIN base : g > f
               THEN CHOOSE g \in DOMAIN base : g > f /\ \A h \in DOMAIN base : h > f => g <= h
               ELSE 0

Observe ==
    /\ loop = "look"
    /\ IF Differs(input)
         THEN /\ loop' = "start"
              /\ tentative' = (tentative \/ phase \in {"added", "compacted"})
              /\ UNCHANGED <<input, phase, tries, due, retry>>
         ELSE /\ UNCHANGED tentative
              /\ IF NextFile(input) # 0
                   THEN input' = NextFile(input) /\ UNCHANGED <<loop, phase, tries, due, retry>>
                   ELSE /\ input' = 1
                        /\ \/ /\ phase = "added" /\ loop' = "compact"
                              /\ UNCHANGED <<phase, tries, due, retry>>
                           \/ phase = "compacted" /\ Transition(FALSE) /\ UNCHANGED <<phase, tries>>
                           \/ /\ phase = "lost" /\ tries' = tries + 1
                              /\ IF tries' = MaxTries THEN Transition(TRUE)
                                 ELSE loop' = "desire" /\ UNCHANGED <<due, retry>>
                              /\ UNCHANGED phase
                           \/ /\ phase = "loop" /\ tries' = 0 /\ loop' = "desire"
                              /\ UNCHANGED <<phase, due, retry>>
    /\ UNCHANGED <<diskVars, wakeVars, buildVars, watches, adds, gen, base>>
-----------------------------------------------------------------------------
(* The wait: the byte is drained, and only then are the flags swapped.     *)

Drain ==
    /\ loop \in {"wait", "quiet"}
    /\ byte
    /\ byte' = FALSE
    /\ loop' = IF loop = "wait" THEN "swap" ELSE "reswap"
    /\ UNCHANGED <<diskVars, queue, waking, dirty, control, buildVars, registryVars,
                   input, phase, tries, due, base, retry>>

Top ==
    /\ loop = "top" /\ ~Stopped
    /\ loop' = "wait"
    /\ UNCHANGED <<diskVars, wakeVars, buildVars, registryVars, input, phase, tries, due, base, retry>>

Stop ==
    /\ loop \in {"top", "swap", "reswap"} /\ Stopped
    /\ loop' = "ending"
    /\ UNCHANGED <<diskVars, wakeVars, buildVars, registryVars, input, phase, tries, due, base, retry>>

(* The 50 ms of a transition to repeat, and the audit every two seconds. *)
Timer ==
    /\ loop = "wait"
    /\ due' = TRUE
    /\ loop' = "swap"
    /\ UNCHANGED <<diskVars, wakeVars, buildVars, registryVars, input, phase, tries, base, retry>>
RetryTimer == retry /\ Timer
Audit == ~retry /\ Timer

Swap ==
    /\ loop = "swap" /\ ~Stopped
    /\ dirty' = FALSE
    /\ loop' = IF dirty THEN "quiet" ELSE IF due THEN "look" ELSE "top"
    /\ input' = 1 /\ phase' = "loop"
    /\ UNCHANGED <<diskVars, queue, waking, byte, control, buildVars, registryVars,
                   tries, due, base, retry>>

Reswap ==
    /\ loop = "reswap" /\ ~Stopped
    /\ dirty' = FALSE
    /\ loop' = "quiet"
    /\ UNCHANGED <<diskVars, queue, waking, byte, control, buildVars, registryVars,
                   input, phase, tries, due, base, retry>>

QuietOver ==
    /\ loop = "quiet"
    /\ loop' = "look"
    /\ UNCHANGED <<diskVars, wakeVars, buildVars, registryVars, input, phase, tries, due, base, retry>>

(* finish_terminal joins the backends; a call that fails ends the watch.   *)
EndWatch ==
    /\ loop = "ending"
    /\ loop' = "exited"
    /\ watches' = {} /\ queue' = {} /\ waking' = {}
    /\ UNCHANGED <<diskVars, dirty, byte, control, buildVars, adds, gen, tentative,
                   input, phase, tries, due, base, retry>>
Fails ==
    /\ "call" \in Faults
    /\ loop \in {"start", "read", "final", "mark", "add", "compact", "look", "wait", "quiet"}
    /\ loop' = "ending"
    /\ UNCHANGED <<diskVars, wakeVars, buildVars, registryVars, input, phase, tries, due, base, retry>>
-----------------------------------------------------------------------------
Editor == \/ \E f \in Files, ok \in BOOLEAN : Write(f, ok)
          \/ Remove \/ Restore
          \/ \E d \in Inodes : Replace(d)
Backend == \E g \in queue \cup waking : Classify(g) \/ Wake(g)
Build == Start \/ Read \/ Finalize \/ MarkRevision \/ \E ok \in BOOLEAN : Link(ok)
Controller == \/ Build \/ Desire \/ Add \/ Compact \/ Observe
              \/ Top \/ Drain \/ Stop \/ RetryTimer \/ Swap \/ Reswap \/ QuietOver \/ EndWatch

WatchNext == \/ Editor \/ Backend \/ Controller \/ Audit \/ LinkStops \/ Fails
             \/ \E c \in {"signal", "fatal"} : Control(c)

WatchSpec == WatchInit /\ [][WatchNext]_watchVars

(* Threads run; the audit's time need not come.  With WatchFairSpec it does. *)
EventSpec == WatchSpec /\ WF_watchVars(Backend) /\ WF_watchVars(Controller)
WatchFairSpec == EventSpec /\ WF_watchVars(Audit)
-----------------------------------------------------------------------------
(* Properties *)

Txt == [v : 0..MaxChanges, ok : BOOLEAN]
Looks == [dir : {0} \cup Inodes, txt : Txt]
Registrations == [path : {"root", "sub"}, reg : {Root} \cup Inodes]

DiskType ==
    /\ disk \in [dir : {0} \cup Inodes, was : Inodes, txt : [Files -> Txt]]
    /\ disk.dir \in {0, disk.was} /\ changes \in 0..MaxChanges
RegistryType ==
    /\ watches \subseteq [gen : Nat, path : {"root", "sub"}, reg : {Root} \cup Inodes, on : {Root} \cup Inodes]
    /\ gen \in Nat \ {0} /\ (\A w \in watches : w.gen < gen)
    /\ adds \in Seq(Registrations) /\ tentative \in BOOLEAN
WakeType ==
    /\ queue \subseteq 0..gen /\ waking \subseteq 0..gen
    /\ dirty \in BOOLEAN /\ byte \in BOOLEAN /\ control \in {"none", "signal", "fatal"}
LoopType ==
    /\ loop \in {"start", "read", "final", "link", "mark", "desire", "add", "compact", "look",
                 "top", "wait", "swap", "quiet", "reswap", "ending", "exited"}
    /\ phase \in {"none", "added", "compacted", "lost", "loop"}
    /\ input \in Files /\ tries \in 0..MaxTries /\ due \in BOOLEAN /\ retry \in BOOLEAN
    /\ DOMAIN base \subseteq Files /\ \A f \in DOMAIN base : base[f] \in Looks
BuildType ==
    /\ known \in Seq(Looks) /\ Len(known) <= Inputs /\ final \in Seq(Looks) /\ Len(final) <= Len(known)
    /\ seen \in Seq(Looks) /\ (mid = <<>> \/ mid \in [Files -> Txt]) /\ last \subseteq Files
    /\ changed \in BOOLEAN /\ success \in BOOLEAN /\ broken \in BOOLEAN

(* Every variable keeps its type. *)
WatchTypeOK == DiskType /\ RegistryType /\ WakeType /\ LoopType /\ BuildType

(* A revision that links has consumed one state of the disk: what it read  *)
(* file by file is what the files held together when the verification      *)
(* began.                                                                  *)
OneSnapshot == success => \A f \in Files : known[f].txt = mid[f]

(* While the controller waits without a transition to repeat, an input     *)
(* that is as the baseline has it lies in a directory with a live watch on *)
(* it, and so does the directory itself: the next change makes an event.   *)
NoBlindSpot ==
    loop = "wait" /\ ~retry =>
        \A f \in DOMAIN base :
            Look(f) = base[f] => {disk.dir, Root} \ {0} \subseteq {w.on : w \in watches}

(* A change to what the last revision read is on its way while the         *)
(* controller sleeps: an unread event, a flag with its byte, or a byte     *)
(* about to be written.                                                    *)
ChangeIsSignalled ==
    loop = "wait" /\ ~retry /\ (\E f \in DOMAIN base : Look(f) # base[f]) =>
        queue # {} \/ waking # {} \/ (dirty /\ byte)

(* A revision that links has consumed one state of the disk; while the     *)
(* controller waits the inputs lie under live watches, and a change to     *)
(* what the last revision read is on its way to it, unless a directory     *)
(* came back under its old identity (watch.rs).                            *)
WatchRight ==
    /\ WatchTypeOK /\ OneSnapshot
    /\ ~MoveBack => NoBlindSpot /\ ChangeIsSignalled

Current == \A f \in 1..Len(seen) : seen[f] = Look(f)

(* When the editors stop, the last revision has read what is on the disk. *)
EndsCurrent == <>[](loop = "exited" \/ Current)

(* A signal ends the watch, also while it sleeps. *)
SignalStops == (control # "none") ~> (loop = "exited")
=============================================================================
