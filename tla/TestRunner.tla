----------------------------- MODULE TestRunner -----------------------------
(***************************************************************************)
(* The test runner of crates/align_driver/src/test_runner.rs: one thread   *)
(* runs the catalog's rows, each in a child process, and every graceful    *)
(* signal is arbitrated against its writes by one atomic word.             *)
(*                                                                         *)
(* Handlers interrupt the runner's thread and nest (sa_mask is empty).     *)
(* Time is the row's two deadlines: clock is 0 before the work deadline,   *)
(* 1 until the row deadline, then 2.  One capture stream stands for two.   *)
(***************************************************************************)
EXTENDS Naturals, Sequences, SequencesExt

CONSTANTS Signals,     \* graceful signals, each raised at most once
          NoSignal,
          Rows,        \* rows of the catalog
          Chunks,      \* raw writes a report may take
          MaxRecords,  \* bound on the datagrams of one child
          Datagrams,   \* what they may say: "ack", "ok", "err", "bad"
          Deeds        \* what else a child may do: "flood", "move", "fork"

(* What the constants must be. *)
TestRunnerAssumption ==
    /\ NoSignal \notin Signals
    /\ Rows \in Nat /\ Chunks \in Nat \ {0} /\ MaxRecords \in Nat
    /\ Datagrams \subseteq {"ack", "ok", "err", "bad"}
    /\ Deeds \subseteq {"flood", "move", "fork"}

VARIABLES
    (* SIGNAL_STATE, the self-pipe and the kernel's view of signals *)
    state,       \* [at : "idle", "writing", "pending" or "selected", sig]
    pipe,        \* a byte is in the self-pipe
    sent,        \* signals delivered so far
    masked,
    frames,      \* handlers in progress, innermost last
    first,       \* history: the first signal a handler accepted
    (* the row's child process *)
    clock,
    kid,
    foreign,     \* the child's id names somebody else's group
    hit,         \* history: a signal was sent to somebody else
    (* run_row and run_and_exit *)
    pc, row, local, armed, failed,
    verdict, why, stage,
    purpose, left, exit

signalVars == <<state, pipe, sent, masked, frames, first>>
childVars == <<clock, kid, foreign, hit>>
rowVars == <<row, local, armed, failed, verdict>>
endVars == <<why, stage, purpose, left, exit>>
vars == <<signalVars, childVars, pc, rowVars, endVars>>

Idle == [at |-> "idle", sig |-> NoSignal]
NoKid == [st |-> "none", code |-> "none", kin |-> "none", moved |-> FALSE,
          launched |-> FALSE, control |-> <<>>, records |-> <<>>, excess |-> FALSE]
Fresh == [verified |-> FALSE, acked |-> FALSE, completion |-> "none", defect |-> FALSE,
          eof |-> FALSE, exceeded |-> FALSE, timedout |-> FALSE, interrupted |-> NoSignal,
          event |-> FALSE, killerror |-> FALSE, cleanup |-> FALSE, terminal |-> FALSE,
          status |-> "none", reason |-> "none"]

Init == /\ state = Idle /\ pipe = FALSE
        /\ sent = {} /\ masked = TRUE /\ frames = <<>> /\ first = NoSignal
        /\ clock = 0 /\ kid = NoKid /\ foreign = FALSE /\ hit = FALSE
        /\ pc = "acquire" /\ row = 0 /\ local = Fresh /\ armed = FALSE /\ failed = 0
        /\ verdict = "none" /\ why = "none" /\ stage = TRUE
        /\ purpose = "none" /\ left = 0 /\ exit = "none"
-----------------------------------------------------------------------------
(* graceful_signal_handler *)

(* While unmasked a signal is delivered when it is raised. *)
Deliver(s) ==
    /\ s \notin sent /\ ~masked /\ pc # "exited"
    /\ sent' = sent \cup {s}
    /\ frames' = Append(frames, [sig |-> s, at |-> "load", seen |-> Idle])
    /\ UNCHANGED <<state, pipe, masked, first, childVars, pc, rowVars, endVars>>

Top == frames[Len(frames)]

(* The state a handler asks for.  Mutant: a later signal replaces the      *)
(* selected one.                                                           *)
ArbitrateLatest(old, s) ==
    CASE old.at \in {"idle", "selected"} -> [at |-> "selected", sig |-> s]
      [] old.at \in {"writing", "pending"} -> [at |-> "pending", sig |-> s]
Arbitrate(old, s) ==
    CASE old.at = "idle" -> [at |-> "selected", sig |-> s]
      [] old.at = "writing" -> [at |-> "pending", sig |-> s]
      [] OTHER -> old

Load ==
    /\ frames # <<>> /\ Top.at = "load"
    /\ frames' = [frames EXCEPT ![Len(frames)].seen = state,
                                ![Len(frames)].at = IF Arbitrate(state, Top.sig) = state
                                                    THEN "pipe" ELSE "swap"]
    /\ UNCHANGED <<state, pipe, sent, masked, first, childVars, pc, rowVars, endVars>>

Swap ==
    /\ frames # <<>> /\ Top.at = "swap"
    /\ IF state = Top.seen
         THEN /\ state' = Arbitrate(state, Top.sig)
              /\ first' = IF first = NoSignal THEN Top.sig ELSE first
              /\ frames' = [frames EXCEPT ![Len(frames)].at = "pipe"]
         ELSE /\ frames' = [frames EXCEPT ![Len(frames)].at = "load"]
              /\ UNCHANGED <<state, first>>
    /\ UNCHANGED <<pipe, sent, masked, childVars, pc, rowVars, endVars>>

(* The self-pipe byte.  Mutant: it is not written. *)
WakesNobody == pipe
Wakes == TRUE

PipeWrite ==
    /\ frames # <<>> /\ Top.at = "pipe"
    /\ pipe' = Wakes
    /\ frames' = Front(frames)
    /\ UNCHANGED <<state, sent, masked, first, childVars, pc, rowVars, endVars>>
-----------------------------------------------------------------------------
(* The child: the generated harness, the test and what it leaves behind.   *)

InRow == pc \in {"verify", "launch", "drain", "select", "pump", "control", "stream", "observe",
                 "poll", "quiesce", "kill", "wait", "settle", "reap", "group"}

(* What other processes do commutes with a handler on the runner's thread, *)
(* and is not followed outside the row.                                    *)
Elsewhere == InRow /\ frames = <<>>
Child == /\ Elsewhere
         /\ UNCHANGED <<signalVars, clock, foreign, hit, pc, rowVars, endVars>>

(* Nothing but the harness runs before the launch record; the runner's end *)
(* of the socket is closed before the reap.                                *)
Record(d) ==
    /\ kid.st = "run" /\ kid.launched
    /\ Len(kid.records) < MaxRecords /\ pc \notin {"reap", "group"}
    /\ kid' = [kid EXCEPT !.control = Append(@, d), !.records = Append(@, d)]
    /\ Child

(* Output past the capture bound; less than that decides nothing. *)
Flood ==
    /\ "flood" \in Deeds
    /\ kid.st = "run" \/ kid.kin = "run"
    /\ ~kid.excess /\ pc \notin {"reap", "group"}
    /\ kid' = [kid EXCEPT !.excess = TRUE]
    /\ Child

(* The child leaves its process group, or leaves a process in it. *)
Move ==
    /\ "move" \in Deeds
    /\ kid.st = "run" /\ kid.launched /\ ~kid.moved
    /\ kid' = [kid EXCEPT !.moved = TRUE]
    /\ Child

Fork ==
    /\ "fork" \in Deeds
    /\ kid.st = "run" /\ kid.launched /\ ~kid.moved /\ kid.kin = "none"
    /\ kid' = [kid EXCEPT !.kin = "run"]
    /\ Child

Exit(c) ==
    /\ \/ kid.st = "run" /\ c \in {"zero", "one", "unsent"}
       \/ kid.st = "dying" /\ c = "killed"
    /\ kid' = [kid EXCEPT !.st = "zombie", !.code = c]
    /\ Child

(* A descendant has exited and its own parent has reaped it. *)
KinEnds == kid.kin # "none" /\ kid' = [kid EXCEPT !.kin = "none"] /\ Child

(* Once the leader is reaped and its group is empty the id can be reused.  *)
Reuse ==
    /\ Elsewhere
    /\ kid.st = "reaped" /\ kid.kin = "none" /\ ~foreign
    /\ foreign' = TRUE
    /\ UNCHANGED <<signalVars, clock, kid, hit, pc, rowVars, endVars>>

Tick ==
    /\ Elsewhere /\ clock < 2
    /\ clock' = clock + 1
    /\ UNCHANGED <<signalVars, kid, foreign, hit, pc, rowVars, endVars>>

GroupExists == \/ kid.st \in {"run", "dying", "zombie"} /\ ~kid.moved
               \/ kid.kin # "none" \/ foreign

(* kill(-pid, SIGKILL) when the group was verified, then kill(pid). *)
Dying(st) == IF st = "run" THEN "dying" ELSE st
Killed(k) == [k EXCEPT !.st = Dying(@), !.kin = IF local.verified THEN Dying(@) ELSE @]
-----------------------------------------------------------------------------
(* The runner's own steps wait for the handlers on its stack. *)

Run(at) == pc = at /\ frames = <<>>
Selected == IF state.at \in {"selected", "pending"} THEN state.sig ELSE NoSignal

Acquire ==
    /\ Run("acquire")
    /\ \/ masked' = FALSE /\ pc' = "between" /\ UNCHANGED <<purpose, left, exit>>
       \/ /\ masked' = FALSE /\ pc' = "permit" /\ purpose' = "cache" /\ left' = Chunks
          /\ UNCHANGED exit
       \/ pc' = "exited" /\ exit' = "error" /\ UNCHANGED <<masked, purpose, left>>
    /\ stage' = (pc' # "exited")
    /\ UNCHANGED <<state, pipe, sent, frames, first, childVars, rowVars, why>>

Between ==
    /\ Run("between")
    /\ \/ row = Rows /\ pc' = "remove" /\ why' = "final"
       \/ row < Rows /\ Selected # NoSignal /\ pc' = "remove" /\ why' = Selected
       \/ row < Rows /\ Selected = NoSignal /\ pc' = "spawn" /\ UNCHANGED why
    /\ UNCHANGED <<signalVars, childVars, rowVars, stage, purpose, left, exit>>

Spawn ==
    /\ Run("spawn")
    /\ local' = Fresh /\ clock' = 0 /\ foreign' = FALSE
    /\ \/ kid' = [NoKid EXCEPT !.st = "run"] /\ armed' = TRUE /\ pc' = "verify" /\ UNCHANGED why
       \/ kid' = NoKid /\ UNCHANGED armed /\ pc' = "remove" /\ why' = "infra"
    /\ UNCHANGED <<signalVars, hit, row, failed, verdict, stage, purpose, left, exit>>

(* Descriptor closes and the getpgid proof. *)
Verify(verified, event) ==
    /\ Run("verify")
    /\ verified \/ event
    /\ local' = [local EXCEPT !.verified = verified, !.event = event]
    /\ pc' = "launch"
    /\ UNCHANGED <<signalVars, childVars, row, armed, failed, verdict, endVars>>

Launch(ok) ==
    /\ Run("launch")
    /\ IF local.event \/ Selected # NoSignal
         THEN /\ local' = [local EXCEPT !.interrupted = IF local.event THEN @ ELSE Selected]
              /\ pc' = "quiesce" /\ UNCHANGED kid
         ELSE IF ok
         THEN pc' = "drain" /\ kid' = [kid EXCEPT !.launched = TRUE] /\ UNCHANGED local
         ELSE /\ pc' = "quiesce" /\ local' = [local EXCEPT !.event = TRUE] /\ UNCHANGED kid
    /\ UNCHANGED <<signalVars, clock, foreign, hit, row, armed, failed, verdict, endVars>>
-----------------------------------------------------------------------------
(* The event loop of run_row *)

(* One datagram of drain_control; the wording of a defect is left out. *)
Absorb(r, d) ==
    IF ~r.acked /\ ~r.defect /\ d = "ack" THEN [r EXCEPT !.acked = TRUE]
    ELSE IF r.acked /\ r.completion = "none" /\ d \in {"ok", "err"}
    THEN [r EXCEPT !.completion = d]
    ELSE [r EXCEPT !.defect = TRUE]
DrainControl(r) == FoldLeft(Absorb, r, kid.control)

(* drain_stream: to the end of file, to an empty pipe, or past the bound. *)
Hangup == kid.st \notin {"run", "dying"} /\ kid.kin = "none"
DrainStream(r) ==
    IF r.eof \/ r.exceeded THEN r
    ELSE [r EXCEPT !.exceeded = kid.excess, !.eof = ~kid.excess /\ Hangup]

(* controller.drain(), then selected(): the byte that is drained belongs to *)
(* a signal that is then seen.                                             *)
DrainPipe ==
    /\ Run("drain")
    /\ pipe' = FALSE
    /\ pc' = "select"
    /\ UNCHANGED <<state, sent, masked, frames, first, childVars, rowVars, endVars>>

Select ==
    /\ Run("select")
    /\ IF Selected # NoSignal
         THEN local' = [local EXCEPT !.interrupted = Selected] /\ pc' = "quiesce"
         ELSE pc' = "pump" /\ UNCHANGED local
    /\ UNCHANGED <<signalVars, childVars, row, armed, failed, verdict, endVars>>

(* Before the acknowledgement control drains first, afterwards the stream. *)
PumpControl ==
    /\ Run("control") \/ (Run("pump") /\ ~local.acked)
    /\ local' = DrainControl(local)
    /\ kid' = [kid EXCEPT !.control = <<>>]
    /\ pc' = IF pc = "pump" THEN "stream" ELSE "observe"
    /\ UNCHANGED <<signalVars, clock, foreign, hit, row, armed, failed, verdict, endVars>>

PumpStream ==
    /\ Run("stream") \/ (Run("pump") /\ local.acked)
    /\ local' = DrainStream(local)
    /\ pc' = IF pc = "pump" THEN "control" ELSE "observe"
    /\ UNCHANGED <<signalVars, childVars, row, armed, failed, verdict, endVars>>

(* What ends the loop: a refused launch, excess output, the child's end,   *)
(* and only then the deadline.                                             *)
Observe ==
    /\ Run("observe")
    /\ IF (~local.acked /\ local.defect) \/ local.exceeded \/ kid.st = "zombie"
         THEN pc' = "quiesce" /\ UNCHANGED local
         ELSE IF clock > 0
         THEN pc' = "quiesce" /\ local' = [local EXCEPT !.timedout = TRUE]
         ELSE pc' = "poll" /\ UNCHANGED local
    /\ UNCHANGED <<signalVars, childVars, row, armed, failed, verdict, endVars>>

(* poll_row wakes for a byte, a datagram, output or a hangup, the deadline *)
(* and, with the stream at its end, within ten milliseconds.               *)
Poll ==
    /\ Run("poll")
    /\ \/ pipe \/ kid.control # <<>> \/ clock > 0
       \/ local.eof \/ kid.excess \/ Hangup
    /\ pc' = "drain"
    /\ UNCHANGED <<signalVars, childVars, rowVars, endVars>>

(* Any read, wait or poll of the loop may fail. *)
LoopFails ==
    /\ \E at \in {"drain", "pump", "control", "stream", "observe", "poll"} : Run(at)
    /\ local' = [local EXCEPT !.event = TRUE]
    /\ pc' = "quiesce"
    /\ UNCHANGED <<signalVars, childVars, row, armed, failed, verdict, endVars>>
-----------------------------------------------------------------------------
(* quiesce_child *)

(* The signal that stops the row, if there is one, is forwarded and the    *)
(* child given 250 ms; the child may ignore it.                            *)
Quiesce ==
    /\ Run("quiesce")
    /\ local' = [local EXCEPT !.interrupted = IF @ = NoSignal THEN Selected ELSE @]
    /\ pc' = "kill"
    /\ UNCHANGED <<signalVars, childVars, row, armed, failed, verdict, endVars>>

SendsToOther == kid.st = "reaped" /\ foreign

Kill(ok) ==
    /\ Run("kill")
    /\ kid' = IF ok THEN Killed(kid) ELSE kid
    /\ local' = [local EXCEPT !.killerror = ~ok]
    /\ hit' = (hit \/ SendsToOther)
    /\ pc' = "wait"
    /\ UNCHANGED <<signalVars, clock, foreign, row, armed, failed, verdict, endVars>>

PatienceOver == clock = 2

WaitTerminal ==
    /\ Run("wait")
    /\ \/ kid.st = "zombie" /\ local' = [local EXCEPT !.terminal = TRUE] /\ pc' = "settle"
       \/ /\ kid.st # "zombie" /\ PatienceOver
          /\ local' = [local EXCEPT !.cleanup = TRUE] /\ pc' = "settle"
       \/ /\ kid.st # "zombie" /\ ~PatienceOver
          /\ local.interrupted = NoSignal /\ Selected # NoSignal
          /\ local' = [local EXCEPT !.interrupted = Selected] /\ UNCHANGED pc
    /\ UNCHANGED <<signalVars, childVars, row, armed, failed, verdict, endVars>>

(* The terminal barrier: control, stream, control again, then the closes.  *)
(* Mutant: what was drained before the child ended is taken for all.       *)
SettledEarly(r) == DrainStream(r)
Settled(r) == DrainControl(DrainStream(r))

Settle(ok) ==
    /\ Run("settle")
    /\ pipe' = FALSE
    /\ local' = [Settled(local) EXCEPT !.cleanup = @ \/ ~ok]
    /\ kid' = [kid EXCEPT !.control = <<>>]
    /\ pc' = "reap"
    /\ UNCHANGED <<state, sent, masked, frames, first, clock, foreign, hit, row,
                   armed, failed, verdict, endVars>>

(* ChildGuard after a reap. *)
ArmedAfterReap == FALSE

Reap(ok) ==
    /\ Run("reap")
    /\ IF local.terminal /\ ok
         THEN /\ kid' = [kid EXCEPT !.st = "reaped"]
              /\ armed' = ArmedAfterReap
              /\ local' = [local EXCEPT !.status = kid.code]
              /\ pc' = IF local.verified THEN "group" ELSE "judge"
         ELSE /\ armed' = FALSE                                 \* abandon()
              /\ local' = [local EXCEPT !.cleanup = @ \/ local.terminal]
              /\ pc' = "judge"
              /\ UNCHANGED kid
    /\ UNCHANGED <<signalVars, clock, foreign, hit, row, failed, verdict, endVars>>

(* wait_process_group_empty. *)
GroupGone == ~GroupExists

WaitGroup ==
    /\ Run("group")
    /\ \/ GroupGone /\ UNCHANGED local
       \/ ~GroupGone /\ PatienceOver /\ local' = [local EXCEPT !.cleanup = TRUE]
    /\ pc' = "judge"
    /\ UNCHANGED <<signalVars, childVars, row, armed, failed, verdict, endVars>>

(* The wait, its poll or the look at the group may fail. *)
WaitFails ==
    /\ Run("wait") \/ Run("group")
    /\ local' = [local EXCEPT !.cleanup = TRUE]
    /\ pc' = IF pc = "wait" THEN "settle" ELSE "judge"
    /\ UNCHANGED <<signalVars, childVars, row, armed, failed, verdict, endVars>>
-----------------------------------------------------------------------------
(* The row's result *)

(* The reason of an acknowledged row, in the order of run_row's tests. *)
Reason(r) ==
    IF r.exceeded THEN "output"
    ELSE IF r.timedout THEN "timeout"
    ELSE IF r.defect THEN "record"
    ELSE IF r.completion = "none" THEN "missing"
    ELSE IF r.completion = "ok" /\ r.status = "zero" THEN "none"
    ELSE IF r.completion = "err" /\ r.status = "one" THEN "returned"
    ELSE "mismatch"

Judge ==
    /\ Run("judge")
    /\ LET sig == IF local.interrupted = NoSignal THEN Selected ELSE local.interrupted
           broken == local.cleanup \/ local.killerror
       IN IF sig # NoSignal
            THEN why' = sig /\ verdict' = "error" /\ UNCHANGED local
          ELSE IF local.event \/ local.status = "none"
            THEN why' = "infra" /\ verdict' = "error" /\ UNCHANGED local
          ELSE IF ~local.acked
            THEN /\ why' = "infra" /\ verdict' = "error"
                 /\ local' = [local EXCEPT !.reason = IF broken THEN "none" ELSE "launch"]
          ELSE IF local.status = "unsent"
            THEN why' = "infra" /\ verdict' = "error" /\ UNCHANGED local
          ELSE /\ local' = [local EXCEPT !.reason = Reason(local)]
               /\ IF broken
                    THEN /\ why' = "infra"
                         /\ verdict' = IF Reason(local) = "none" THEN "error" ELSE "evidence"
                    ELSE /\ verdict' = IF Reason(local) = "none" THEN "pass" ELSE "fail"
                         /\ UNCHANGED why
    /\ pc' = "drop"
    /\ UNCHANGED <<signalVars, childVars, row, armed, failed, stage, purpose, left, exit>>

(* A failing row counts after its report. *)
RowAfter(v) == IF v = "pass" THEN row + 1 ELSE row

(* ChildGuard::drop on the way out, then the caller's dispatch.  What is   *)
(* left of a row that ends the suite is not followed any further.          *)
Drop ==
    /\ Run("drop")
    /\ hit' = (hit \/ (armed /\ SendsToOther))
    /\ armed' = FALSE /\ verdict' = "none" /\ local' = Fresh /\ clock' = 0 /\ foreign' = FALSE
    /\ kid' = IF verdict \in {"pass", "fail"}
                THEN [NoKid EXCEPT !.kin = kid.kin,
                                   !.st = IF kid.st = "reaped" THEN "none" ELSE kid.st]
                ELSE NoKid
    /\ row' = RowAfter(verdict)
    /\ \/ verdict = "pass" /\ pc' = "between" /\ UNCHANGED <<purpose, left>>
       \/ /\ verdict \in {"fail", "evidence"}
          /\ pc' = "permit" /\ purpose' = verdict /\ left' = Chunks
       \/ verdict = "error" /\ pc' = "remove" /\ UNCHANGED <<purpose, left>>
    /\ UNCHANGED <<signalVars, failed, why, stage, exit>>
-----------------------------------------------------------------------------
(* controlled_write and what follows it *)

Leave(code) == pc' = "exited" /\ exit' = code
GiveUp == pc' = "die" /\ UNCHANGED exit

(* terminal_write_error after a report; the diagnostics exit by themselves. *)
WriteStops(cause) ==
    \/ /\ purpose \in {"cache", "fail", "evidence"}
       /\ pc' = "remove" /\ why' = cause /\ UNCHANGED <<purpose, left, exit>>
    \/ /\ purpose \in {"diagnostic", "stage"}
       /\ IF cause \in Signals THEN Leave(cause) ELSE GiveUp
       /\ UNCHANGED <<why, purpose, left>>
    \/ /\ purpose = "summary"
       /\ IF cause \in Signals THEN Leave(cause) /\ UNCHANGED <<purpose, left>>
          ELSE pc' = "permit" /\ purpose' = "last" /\ left' = Chunks /\ UNCHANGED exit
       /\ UNCHANGED why
    \/ purpose = "last" /\ GiveUp /\ UNCHANGED <<why, purpose, left>>

WriteDone ==
    \/ purpose = "cache" /\ pc' = "between" /\ UNCHANGED <<row, failed, exit>>
    \/ /\ purpose = "fail" /\ pc' = "between" /\ row' = row + 1 /\ failed' = failed + 1
       /\ UNCHANGED exit
    \/ purpose = "evidence" /\ pc' = "remove" /\ UNCHANGED <<row, failed, exit>>
    \/ purpose \in {"diagnostic", "stage", "last"} /\ GiveUp /\ UNCHANGED <<row, failed>>
    \/ purpose = "summary" /\ pc' = "block" /\ UNCHANGED <<row, failed, exit>>

(* raw_exit(1) after a diagnostic. *)
Die ==
    /\ Run("die")
    /\ Leave("error")
    /\ UNCHANGED <<signalVars, childVars, rowVars, why, stage, purpose, left>>

(* begin_write. *)
PermitFree == state.at = "idle"

Permit ==
    /\ Run("permit")
    /\ IF PermitFree
         THEN /\ state' = [state EXCEPT !.at = "writing"]
              /\ pc' = "write"
              /\ UNCHANGED <<why, purpose, left, exit>>
         ELSE WriteStops(Selected) /\ UNCHANGED state
    /\ UNCHANGED <<pipe, sent, masked, frames, first, childVars, rowVars, stage>>

(* The raw write, short, complete or failing, and finish_write. *)
Finish(n) ==
    /\ Run("write")
    /\ n \in 0..left
    /\ IF state.at = "pending"
         THEN /\ state' = [state EXCEPT !.at = "selected"]
              /\ WriteStops(state.sig)
              /\ UNCHANGED <<row, failed>>
         ELSE /\ state' = Idle
              /\ \/ n = 0 /\ WriteStops("io") /\ UNCHANGED <<row, failed>>
                 \/ /\ n > 0 /\ n < left /\ left' = left - n /\ pc' = "permit"
                    /\ UNCHANGED <<why, purpose, exit, row, failed>>
                 \/ n = left /\ n > 0 /\ WriteDone /\ left' = 0 /\ UNCHANGED <<why, purpose>>
    /\ UNCHANGED <<pipe, sent, masked, frames, first, childVars, local, armed,
                   verdict, stage>>

(* remove_stage_or_exit, and the diagnostic or summary after it. *)
RemoveStage(ok) ==
    /\ Run("remove")
    /\ stage' = ~ok
    /\ IF ok /\ why \in Signals THEN Leave(why) /\ UNCHANGED <<purpose, left>>
       ELSE /\ pc' = "permit" /\ left' = Chunks /\ UNCHANGED exit
            /\ purpose' = IF ~ok THEN "stage"
                          ELSE IF why = "final" THEN "summary" ELSE "diagnostic"
    /\ UNCHANGED <<signalVars, childVars, rowVars, why>>

Block(ok) ==
    /\ Run("block")
    /\ IF ok THEN masked' = TRUE /\ pc' = "leave" /\ UNCHANGED exit
       ELSE Leave("error") /\ UNCHANGED masked
    /\ UNCHANGED <<state, pipe, sent, frames, first, childVars, rowVars, why, stage, purpose, left>>

(* The last look at the arbitration word. *)
SuiteStatus == IF failed = 0 THEN "passed" ELSE "failed"
LastStatus == IF Selected # NoSignal THEN Selected ELSE SuiteStatus

Finalize ==
    /\ Run("leave")
    /\ Leave(LastStatus)
    /\ UNCHANGED <<signalVars, childVars, rowVars, why, stage, purpose, left>>
-----------------------------------------------------------------------------
Handler == Load \/ Swap \/ PipeWrite

Process == \/ \E d \in Datagrams : Record(d)
           \/ \E c \in {"zero", "one", "unsent", "killed"} : Exit(c)
           \/ Flood \/ Move \/ Fork \/ KinEnds \/ Reuse

Loop == DrainPipe \/ Select \/ PumpControl \/ PumpStream \/ Observe \/ Poll

Row == \/ Spawn \/ Loop \/ Quiesce \/ WaitTerminal \/ WaitGroup \/ Judge \/ Drop
       \/ \E verified, event \in BOOLEAN : Verify(verified, event)
       \/ \E ok \in BOOLEAN : Launch(ok) \/ Kill(ok) \/ Settle(ok) \/ Reap(ok)

Runner == \/ Acquire \/ Between \/ Row \/ Permit \/ Die \/ Finalize
          \/ \E n \in 0..Chunks : Finish(n)
          \/ \E ok \in BOOLEAN : RemoveStage(ok) \/ Block(ok)

FailingCall == LoopFails \/ WaitFails

Next == \/ \E s \in Signals : Deliver(s)
        \/ Handler \/ Process \/ Tick \/ Runner \/ FailingCall

Spec == Init /\ [][Next]_vars

(* The runner's thread runs, with the handlers on it; nothing is assumed   *)
(* of the child, nor of time, nor that a call fails.                       *)
ThreadRuns == WF_vars(Handler) /\ WF_vars(Runner)
WakeSpec == Spec /\ ThreadRuns

(* With time passing as well. *)
FairSpec == WakeSpec /\ WF_vars(Tick)
-----------------------------------------------------------------------------
(* Properties *)

(* Every variable keeps its type. *)
TypeOK ==
    /\ state \in [at : {"idle", "writing", "pending", "selected"}, sig : Signals \cup {NoSignal}]
    /\ pipe \in BOOLEAN /\ masked \in BOOLEAN
    /\ sent \subseteq Signals
    /\ first \in Signals \cup {NoSignal}
    /\ clock \in 0..2 /\ foreign \in BOOLEAN /\ hit \in BOOLEAN
    /\ row \in 0..Rows /\ failed \in 0..Rows /\ armed \in BOOLEAN
    /\ verdict \in {"none", "pass", "fail", "evidence", "error"}
    /\ why \in {"none", "final", "infra", "io"} \cup Signals
    /\ purpose \in {"none", "cache", "fail", "evidence", "summary", "diagnostic", "stage", "last"}
    /\ left \in 0..Chunks /\ stage \in BOOLEAN
    /\ exit \in {"none", "passed", "failed", "error"} \cup Signals

(* A raw write is made only under a permit that no selected signal can     *)
(* take away: while bytes may still be emitted a signal is pending, never  *)
(* selected, and outside a write nothing stays pending.                    *)
PermitHeld ==
    /\ pc = "write" <=> state.at \in {"writing", "pending"}
    /\ state.at \in {"selected", "pending"} <=> state.sig # NoSignal

(* The first accepted signal decides: neither a later one nor a nested     *)
(* handler replaces it, in the row, in the arbitration or in the exit      *)
(* status, and a suite status means that none was accepted.                *)
FirstSignalWins ==
    /\ state.at \in {"selected", "pending"} => state.sig = first
    /\ {local.interrupted, why, exit} \cap Signals \subseteq {first}
    /\ exit \in {"passed", "failed"} => first = NoSignal

(* A row passes only if its child acknowledged, reported success once,     *)
(* exited with 0 by itself, kept its output bound, and is reaped.          *)
PassIsEarned ==
    verdict = "pass" /\ pc = "drop" =>
        /\ kid.records = <<"ack", "ok">>
        /\ kid.code = "zero" /\ kid.st = "reaped"
        /\ ~local.exceeded

(* A record that the child sent before it ended is never reported as       *)
(* missing, however late it arrived: the drain after the terminal          *)
(* observation is a barrier.                                               *)
NothingMissed ==
    pc = "drop" =>
        /\ local.reason = "missing" => kid.records = <<"ack">>
        /\ local.reason = "launch" => Len(kid.records) = 0 \/ kid.records[1] # "ack"

(* The next row starts, and the summary is written, only when nothing of   *)
(* the last row is left: neither the child nor a member of its group.      *)
RowsAreClean ==
    pc \in {"between", "spawn"} => kid.st = "none" /\ kid.kin = "none" /\ ~armed

(* A killed row's signals reach the child and its group while the child's  *)
(* id is pinned, never a process that got the id later.                    *)
NeverSignalsOthers == ~hit

(* A row that gives its child up has at least killed it, and its group     *)
(* with it, even when the leader moved out of the group: what survives the *)
(* deadline is dying.                                                      *)
AbandonedIsDoomed ==
    pc = "drop" /\ ~local.killerror =>
        kid.st # "run" /\ (kid.kin = "run" => ~local.verified)

(* A signal that arrives while the runner sleeps in poll, or between its   *)
(* last look at the word and the poll, wakes it without any help of time   *)
(* or of the child.                                                        *)
SignalWakes == (first # NoSignal /\ pc = "poll") ~> (pc # "poll" /\ local.interrupted = first)

(* The runner ends although the child never does. *)
RunnerExits == <>(pc = "exited")
=============================================================================
