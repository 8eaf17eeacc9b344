---------------------------- MODULE LinkPublish ----------------------------
(***************************************************************************)
(* A captured link: the driver runs the linker (and strip) in a process    *)
(* group of its own, pumps its output into a sink, always kills and reaps  *)
(* it, then isolates what the tool wrote and renames the copy over the     *)
(* executable.                                                             *)
(*                                                                         *)
(* The sink may fail, panic or ask for a stop at every call; a descendant  *)
(* of the tool may still be writing its output file; somebody else may put *)
(* a file under a private stage name.  Output is a count of chunks per     *)
(* stream, a file a short sequence of block versions.                      *)
(***************************************************************************)
EXTENDS Naturals, Sequences, FiniteSets

CONSTANTS
    Calls,       \* threads that call link_objects_with_output
    Streams,     \* stdout, stderr
    Chunks,      \* chunks the tools of a call may write
    PipeCap,     \* chunks a pipe holds
    Tools,       \* tools run in a row: cc, or cc and strip
    MaxWrites,   \* writes by descendants that outlive their tool
    Foreign,     \* files others put under stage names
    Faults,      \* may the sink fail, panic or ask for a stop, and the checks of the child fail?
    ReadsFail    \* may a read of a pipe fail for good?

\* Any number of calls, streams and chunks; one tool, or two.
ASSUME LinkAssumption ==
    /\ IsFiniteSet(Calls) /\ Calls \cap {"none", "foreign"} = {}
    /\ Chunks \in Nat /\ PipeCap \in Nat \ {0} /\ Tools \in 1..2 /\ MaxWrites \in Nat /\ Foreign \in Nat
    /\ Faults \in BOOLEAN /\ ReadsFail \in BOOLEAN

VARIABLES
    lease,      \* CAPTURED_CHILD_ACTIVE and its holder
    call,       \* call -> where link_captured stands, and run_captured's locals
    child,      \* call -> its current tool: none, run, dying, zombie, reaped; exit code; wrote its output?
    pipe,       \* call -> stream -> chunks written, chunks the sink took, polled?
    stage,      \* call -> the names of the tool and the publication stage, the known identity
    iso,        \* call -> isolate_and_publish: the open output, the passes over it, the copy
    exe,        \* the executable
    contents,   \* history: call -> contents its output had since it was reclaimed
    budget      \* descendants' writes and foreign files left

linkVars == <<lease, call, child, pipe, stage, iso, exe, contents, budget>>

None == "none"
Idle == [pc |-> "idle", tools |-> Tools, err |-> FALSE, panic |-> FALSE, stop |-> FALSE, pump |-> FALSE, result |-> None]
NewPipe == [put |-> 0, out |-> 0, open |-> TRUE]
NoFile == [kind |-> "gone", ino |-> 0]

LinkInit ==
    /\ lease = None
    /\ call = [c \in Calls |-> Idle]
    /\ child = [c \in Calls |-> [st |-> None, code |-> None, wrote |-> FALSE]]
    /\ pipe = [c \in Calls |-> [s \in Streams |-> NewPipe]]
    /\ stage = [c \in Calls |-> [tool |-> NoFile, pub |-> NoFile, known |-> 0]]
    /\ iso = [c \in Calls |-> [src |-> <<>>, len |-> 0, first |-> <<>>, copy |-> <<>>, again |-> <<>>]]
    /\ exe = [by |-> None, data |-> <<>>]
    /\ contents = [c \in Calls |-> {}]
    /\ budget = [writes |-> MaxWrites, foreign |-> Foreign]

CallAt(c, pc) == call[c].pc = pc
Go(c, r) == call' = [call EXCEPT ![c] = r]
To(c, pc) == Go(c, [call[c] EXCEPT !.pc = pc])

File(ino) == [kind |-> "file", ino |-> ino]
Symlink == [kind |-> "link", ino |-> 0]
ReservedIno == 1
ReplacedIno == 2
PubIno == 3
ForeignIno == 4

\* remove_name: the name goes only if it is still the regular file of that identity.
RemoveName(n, ino) == IF n.kind = "file" /\ n.ino = ino THEN NoFile ELSE n

(***************************************************************************)
(* Setting up.                                                             *)
(***************************************************************************)

\* ChildLease::acquire fails: another child is captured, or SIGCHLD is not at its default.
Refused(c) ==
    /\ CallAt(c, "idle")
    /\ Go(c, [call[c] EXCEPT !.pc = "done", !.result = "err"])
    /\ UNCHANGED <<lease, child, pipe, stage, iso, exe, contents, budget>>

\* The lease and the tool stage are taken.
Acquire(c) ==
    /\ CallAt(c, "idle") /\ lease = None
    /\ lease' = c
    /\ stage' = [stage EXCEPT ![c].tool = File(ReservedIno), ![c].known = ReservedIno]
    /\ To(c, "spawn")
    /\ UNCHANGED <<child, pipe, iso, exe, contents, budget>>

\* The pipes or the spawn fail: run_captured returns before there is a child.
SpawnFails(c) ==
    /\ CallAt(c, "spawn")
    /\ lease' = None
    /\ Go(c, [call[c] EXCEPT !.pc = "discard", !.err = TRUE])
    /\ UNCHANGED <<child, pipe, stage, iso, exe, contents, budget>>

Spawn(c) ==
    /\ CallAt(c, "spawn")
    /\ child' = [child EXCEPT ![c] = [st |-> "run", code |-> None, wrote |-> FALSE]]
    /\ pipe' = [pipe EXCEPT ![c] = [s \in Streams |-> NewPipe]]
    /\ To(c, "pump")
    /\ UNCHANGED <<lease, stage, iso, exe, contents, budget>>

(***************************************************************************)
(* The tool.                                                               *)
(***************************************************************************)
Written(c) == Cardinality({x \in Streams \X (1..Chunks) : x[2] <= pipe[c][x[1]].put})

\* The tool prints a chunk; a full pipe blocks it.
ToolPrints(c, s) ==
    /\ child[c].st = "run" /\ Written(c) < Chunks /\ pipe[c][s].put - pipe[c][s].out < PipeCap
    /\ pipe' = [pipe EXCEPT ![c][s].put = @ + 1]
    /\ UNCHANGED <<lease, call, child, stage, iso, exe, contents, budget>>

\* It writes its output: in place, to a new inode, or leaves a link or nothing.
ToolWrites(c) ==
    /\ child[c].st = "run" /\ ~child[c].wrote
    /\ child' = [child EXCEPT ![c].wrote = TRUE]
    /\ \E n \in {stage[c].tool, File(ReplacedIno), Symlink, NoFile} : stage' = [stage EXCEPT ![c].tool = n]
    /\ UNCHANGED <<lease, call, pipe, iso, exe, contents, budget>>

\* It ends, or the kill takes effect.
ToolExits(c) ==
    /\ child[c].st \in {"run", "dying"}
    /\ \E code \in IF child[c].st = "run" THEN {"ok", "fail"} ELSE {"fail"} :
         child' = [child EXCEPT ![c].st = "zombie", ![c].code = code]
    /\ UNCHANGED <<lease, call, pipe, stage, iso, exe, contents, budget>>

(***************************************************************************)
(* run_captured: the pump.                                                 *)
(***************************************************************************)

\* stop_signal answers: the signal is forwarded to the group, then the grace period runs.
StopAsked(c) ==
    /\ Faults /\ (CallAt(c, "pump") \/ CallAt(c, "poll"))
    /\ Go(c, [call[c] EXCEPT !.pc = "grace", !.stop = TRUE])
    /\ UNCHANGED <<lease, child, pipe, stage, iso, exe, contents, budget>>

\* stop_signal panics.
StopPanics(c) ==
    /\ Faults /\ (CallAt(c, "pump") \/ CallAt(c, "poll"))
    /\ Go(c, [call[c] EXCEPT !.pc = "kill", !.panic = TRUE])
    /\ UNCHANGED <<lease, child, pipe, stage, iso, exe, contents, budget>>

\* The group check or the status query fails: the loop is left with the error.
CheckFails(c) ==
    /\ Faults /\ CallAt(c, "pump")
    /\ Go(c, [call[c] EXCEPT !.pc = IF call[c].pump THEN "grace" ELSE "kill", !.err = TRUE])
    /\ UNCHANGED <<lease, child, pipe, stage, iso, exe, contents, budget>>

\* The child is observed, without reaping it.
AfterExit == "drain"
Observe(c) ==
    /\ CallAt(c, "pump")
    /\ To(c, IF child[c].st = "zombie" THEN AfterExit ELSE "poll")
    /\ UNCHANGED <<lease, child, pipe, stage, iso, exe, contents, budget>>

\* poll fails, or reports a broken descriptor: TERM, grace, kill.
PollFails(c) ==
    /\ Faults /\ CallAt(c, "poll")
    /\ Go(c, [call[c] EXCEPT !.pc = "grace", !.err = TRUE, !.pump = TRUE])
    /\ UNCHANGED <<lease, child, pipe, stage, iso, exe, contents, budget>>

\* The streams poll reports.
Polled(c) == {s \in Streams : pipe[c][s].open /\ pipe[c][s].put > pipe[c][s].out}
Serviced(c, S) == [pipe EXCEPT ![c] = [s \in Streams |-> IF s \in S THEN [pipe[c][s] EXCEPT !.out = @ + 1] ELSE pipe[c][s]]]

\* One chunk of every ready stream goes to the sink, which may refuse it or panic.
Service(c) ==
    /\ CallAt(c, "poll")
    /\ pipe' = Serviced(c, Polled(c))
    /\ \/ To(c, "pump")
       \/ Faults /\ Polled(c) # {} /\ Go(c, [call[c] EXCEPT !.pc = "pump", !.err = TRUE])
       \/ Faults /\ Polled(c) # {} /\ ~call[c].err /\ Go(c, [call[c] EXCEPT !.pc = "kill", !.panic = TRUE])
    /\ UNCHANGED <<lease, child, stage, iso, exe, contents, budget>>

\* A read fails for good: the stream is not polled again, and the loop goes on.
ReadFails(c, s) ==
    /\ ReadsFail /\ CallAt(c, "poll") /\ s \in Polled(c)
    /\ pipe' = [Serviced(c, Polled(c) \ {s}) EXCEPT ![c][s].open = FALSE]
    /\ Go(c, [call[c] EXCEPT !.pc = "pump", !.err = TRUE, !.pump = TRUE])
    /\ UNCHANGED <<lease, child, stage, iso, exe, contents, budget>>

\* drain_queued of both streams.
Drain(c) ==
    /\ CallAt(c, "drain")
    /\ pipe' = [pipe EXCEPT ![c] = [s \in Streams |-> [pipe[c][s] EXCEPT !.out = pipe[c][s].put]]]
    /\ LET next == IF call[c].pump THEN "grace" ELSE "kill" IN
         \/ To(c, next)
         \/ Faults /\ Go(c, [call[c] EXCEPT !.pc = next, !.err = TRUE])
         \/ Faults /\ ~call[c].err /\ Go(c, [call[c] EXCEPT !.pc = "kill", !.panic = TRUE])
    /\ UNCHANGED <<lease, child, stage, iso, exe, contents, budget>>

\* wait_grace: the child exits in time or not.
Grace(c) ==
    /\ CallAt(c, "grace")
    /\ To(c, "kill")
    /\ UNCHANGED <<lease, child, pipe, stage, iso, exe, contents, budget>>

(***************************************************************************)
(* CapturedChildGuard::finish, and what link_captured does next.           *)
(***************************************************************************)
\* cleanup_child: SIGKILL to the group and the child.  Mutant: it is left to exit by itself.
LeftAlone(st) == st
Killed(st) == IF st = "run" THEN "dying" ELSE st

Kill(c) ==
    /\ CallAt(c, "kill")
    /\ child' = [child EXCEPT ![c].st = Killed(@)]
    /\ To(c, "reap")
    /\ UNCHANGED <<lease, pipe, stage, iso, exe, contents, budget>>

Reap(c) ==
    /\ CallAt(c, "reap") /\ child[c].st = "zombie"
    /\ child' = [child EXCEPT ![c].st = "reaped"]
    /\ To(c, "after")
    /\ UNCHANGED <<lease, pipe, stage, iso, exe, contents, budget>>

\* What run_captured returns.
Outcome(r, code) == IF r.panic THEN "panic" ELSE IF r.err \/ r.stop \/ code # "ok" THEN "err" ELSE "ok"

\* A resumed panic drops the stage, by the identity it was created with, and the lease.
Unwind(c) ==
    /\ CallAt(c, "after") /\ Outcome(call[c], child[c].code) = "panic"
    /\ stage' = [stage EXCEPT ![c].tool = RemoveName(@, stage[c].known)]
    /\ lease' = None
    /\ Go(c, [call[c] EXCEPT !.pc = "done", !.result = "panic"])
    /\ UNCHANGED <<child, pipe, iso, exe, contents, budget>>

\* The next tool, or the lease is given back.
Holder(c, more) == IF more THEN c ELSE None
Follow(c) ==
    /\ CallAt(c, "after")
    /\ LET o == Outcome(call[c], child[c].code)
           more == o = "ok" /\ call[c].tools > 1
       IN  /\ o # "panic"
           /\ lease' = Holder(c, more)
           /\ Go(c, IF more THEN [call[c] EXCEPT !.pc = "spawn", !.tools = @ - 1]
                    ELSE [call[c] EXCEPT !.pc = IF o = "ok" THEN "reclaim" ELSE "discard"])
    /\ UNCHANGED <<child, pipe, stage, iso, exe, contents, budget>>

\* The identity reclaim establishes.  Mutant: the one the stage was created with.
Original(n, known) == known
Current(n, known) == IF n.kind = "file" THEN n.ino ELSE known

\* discard_after_tool: whatever regular file the tool left goes, a link stays.
Discard(c) ==
    /\ CallAt(c, "discard")
    /\ stage' = [stage EXCEPT ![c].tool = RemoveName(@, Current(@, stage[c].known))]
    /\ Go(c, [call[c] EXCEPT !.pc = "done", !.result = "err"])
    /\ UNCHANGED <<lease, child, pipe, iso, exe, contents, budget>>

(***************************************************************************)
(* reclaim, isolate_and_publish.                                           *)
(***************************************************************************)

\* The owners are dropped on every way out: each removes its own file and nothing else.
Cleanup(c, names) ==
    stage' = [stage EXCEPT ![c].tool = RemoveName(names.tool, names.known), ![c].pub = RemoveName(names.pub, PubIno)]

Fail(c) ==
    /\ Cleanup(c, stage[c])
    /\ Go(c, [call[c] EXCEPT !.pc = "done", !.result = "err"])

\* The output is opened without following a link and must be a regular file; its identity is taken.
\* Whatever the tool wrote is one block of version 1 and one of version 2.
Reclaim(c) ==
    /\ CallAt(c, "reclaim")
    /\ IF stage[c].tool.kind # "file" THEN Fail(c) /\ UNCHANGED <<iso, contents>>
       ELSE /\ stage' = [stage EXCEPT ![c].known = stage[c].tool.ino]
            /\ iso' = [iso EXCEPT ![c].src = <<1, 2>>, ![c].len = 2]
            /\ contents' = [contents EXCEPT ![c] = {<<1, 2>>}]
            /\ To(c, "hash")
    /\ UNCHANGED <<lease, child, pipe, exe, budget>>

Passes == {"hash", "copy", "rehash"}
Buffer == [hash |-> "first", copy |-> "copy", rehash |-> "again"]
NextPass == [hash |-> "copy", copy |-> "rehash", rehash |-> "check"]

\* One read of a pass: a block, the end after the probe for an extra byte, or a changed length.
ReadBlock(c, pass) ==
    /\ CallAt(c, pass)
    /\ LET f == Buffer[pass]
           i == Len(iso[c][f]) + 1
           n == IF pass = "rehash" /\ i = 1 THEN Len(iso[c].src) ELSE iso[c].len
       IN  IF i <= n
           THEN IF i > Len(iso[c].src) THEN Fail(c) /\ UNCHANGED iso
                ELSE /\ iso' = [iso EXCEPT ![c][f] = Append(@, iso[c].src[i]), ![c].len = n]
                     /\ UNCHANGED <<call, stage>>
           ELSE IF Len(iso[c].src) > n THEN Fail(c) /\ UNCHANGED iso
                ELSE /\ To(c, NextPass[pass])
                     /\ stage' = IF pass = "hash" THEN [stage EXCEPT ![c].pub = File(PubIno)] ELSE stage
                     /\ iso' = [iso EXCEPT ![c].len = n]
    /\ UNCHANGED <<lease, child, pipe, exe, contents, budget>>

\* The comparison of the three readings.
Unchanged(v) == v.first = v.copy /\ v.first = v.again
Compare(c) ==
    /\ CallAt(c, "check")
    /\ IF Unchanged(iso[c]) THEN To(c, "remove") /\ UNCHANGED stage ELSE Fail(c)
    /\ UNCHANGED <<lease, child, pipe, iso, exe, contents, budget>>

\* The tool's name goes, if it is still the file that was read.
RemoveTool(c) ==
    /\ CallAt(c, "remove")
    /\ IF stage[c].tool.kind = "gone" \/ stage[c].tool = File(stage[c].known)
       THEN stage' = [stage EXCEPT ![c].tool = NoFile] /\ To(c, "verify")
       ELSE Fail(c)
    /\ UNCHANGED <<lease, child, pipe, iso, exe, contents, budget>>

\* The publication name must still be the copy.
PubIsOurs(n) == n = File(PubIno)
VerifyPub(c) ==
    /\ CallAt(c, "verify")
    /\ IF PubIsOurs(stage[c].pub) THEN To(c, "rename") /\ UNCHANGED stage ELSE Fail(c)
    /\ UNCHANGED <<lease, child, pipe, iso, exe, contents, budget>>

\* The rename: done, or failed with the stages dropped.
Rename(c) ==
    /\ CallAt(c, "rename")
    /\ \/ /\ exe' = IF stage[c].pub = File(PubIno) THEN [by |-> c, data |-> iso[c].copy]
                    ELSE [by |-> "foreign", data |-> <<>>]
          /\ stage' = [stage EXCEPT ![c].pub = NoFile]
          /\ Go(c, [call[c] EXCEPT !.pc = "done", !.result = "ok"])
       \/ Fail(c) /\ UNCHANGED exe
    /\ UNCHANGED <<lease, child, pipe, iso, contents, budget>>

(***************************************************************************)
(* Others.                                                                 *)
(***************************************************************************)
Isolating(c) == call[c].pc \in Passes \cup {"check", "remove"}

\* A descendant that outlived its tool rewrites, adds or cuts a block, always with new bytes.
StrayWrites(c) ==
    /\ Isolating(c) /\ budget.writes > 0
    /\ budget' = [budget EXCEPT !.writes = @ - 1]
    /\ LET d == iso[c].src
           v == 2 + budget.writes
       IN  \E e \in {[d EXCEPT ![i] = v] : i \in DOMAIN d} \cup {Append(d, v)} \cup (IF d = <<>> THEN {} ELSE {SubSeq(d, 1, Len(d) - 1)}) :
             iso' = [iso EXCEPT ![c].src = e] /\ contents' = [contents EXCEPT ![c] = @ \cup {e}]
    /\ UNCHANGED <<lease, call, child, pipe, stage, exe>>

\* Somebody puts a file of theirs under a stage's name, except between its check and its use.
ForeignFile(c) ==
    /\ Isolating(c) \/ CallAt(c, "verify")
    /\ budget.foreign > 0
    /\ budget' = [budget EXCEPT !.foreign = @ - 1]
    /\ \/ stage[c].tool = File(stage[c].known) /\ stage' = [stage EXCEPT ![c].tool = File(ForeignIno)]
       \/ stage[c].pub = File(PubIno) /\ stage' = [stage EXCEPT ![c].pub = File(ForeignIno)]
    /\ UNCHANGED <<lease, call, child, pipe, iso, exe, contents>>

CallerStep(c) ==
    \/ Refused(c) \/ Acquire(c) \/ SpawnFails(c) \/ Spawn(c) \/ StopAsked(c) \/ StopPanics(c) \/ CheckFails(c)
    \/ Observe(c) \/ PollFails(c) \/ Service(c) \/ (\E s \in Streams : ReadFails(c, s)) \/ Drain(c) \/ Grace(c)
    \/ Kill(c) \/ Reap(c) \/ Unwind(c) \/ Follow(c) \/ Discard(c) \/ Reclaim(c)
    \/ (\E pass \in Passes : ReadBlock(c, pass)) \/ Compare(c) \/ RemoveTool(c) \/ VerifyPub(c) \/ Rename(c)

\* What a tool does unless its output blocks it: it prints what it has to, then exits.
ToolStep(c) ==
    \/ ToolWrites(c)
    \/ \E s \in Streams : ToolPrints(c, s)
    \/ (child[c].st = "dying" \/ Written(c) = Chunks) /\ ToolExits(c)

\* The calls are over.
AllReturned == (\A c \in Calls : CallAt(c, "done")) /\ UNCHANGED linkVars

LinkNext ==
    \/ \E c \in Calls : CallerStep(c) \/ ToolWrites(c) \/ (\E s \in Streams : ToolPrints(c, s)) \/ ToolExits(c)
                        \/ StrayWrites(c) \/ ForeignFile(c)
    \/ AllReturned

LinkSpec == LinkInit /\ [][LinkNext]_linkVars
LinkFairSpec == LinkSpec /\ \A c \in Calls : WF_linkVars(CallerStep(c)) /\ WF_linkVars(ToolStep(c))

-----------------------------------------------------------------------------
(***************************************************************************)
(* Properties.                                                             *)
(***************************************************************************)
Capturing == {"spawn", "pump", "poll", "drain", "grace", "kill", "reap", "after"}
Isolated(c) == call[c].pc \in Passes \cup {"reclaim", "check", "remove", "verify", "rename"}

CallType ==
    [pc : Capturing \cup Passes \cup {"idle", "discard", "reclaim", "check", "remove", "verify", "rename", "done"},
     tools : 1..Tools, err : BOOLEAN, panic : BOOLEAN, stop : BOOLEAN, pump : BOOLEAN,
     result : {None, "ok", "err", "panic"}]
ChildType == [st : {None, "run", "dying", "zombie", "reaped"}, code : {None, "ok", "fail"}, wrote : BOOLEAN]
PipeType == [put : Nat, out : Nat, open : BOOLEAN]
NameType == [kind : {"file", "link", "gone"}, ino : Nat]
StageType == [tool : NameType, pub : NameType, known : Nat]
IsoType == [src : Seq(Nat), len : Nat, first : Seq(Nat), copy : Seq(Nat), again : Seq(Nat)]

\* Types; the sink never has more of a stream than the tool wrote.
LinkTypeOK ==
    /\ lease \in Calls \cup {None}
    /\ call \in [Calls -> CallType]
    /\ child \in [Calls -> ChildType]
    /\ pipe \in [Calls -> [Streams -> PipeType]]
    /\ \A c \in Calls, s \in Streams : pipe[c][s].out <= pipe[c][s].put
    /\ stage \in [Calls -> StageType]
    /\ iso \in [Calls -> IsoType]
    /\ exe \in [by : Calls \cup {None, "foreign"}, data : Seq(Nat)]
    /\ contents \in [Calls -> SUBSET Seq(Nat)]
    /\ budget \in [writes : 0..MaxWrites, foreign : 0..Foreign]

\* A captured child lives only under its call's lease, and it is reaped before the call goes on to
\* its output or returns, by whatever way the pump was left.
ChildIsLeased ==
    \A c \in Calls : /\ child[c].st \in {"run", "dying", "zombie"} => lease = c
                     /\ call[c].pc \notin Capturing => child[c].st \in {None, "reaped"}
                     /\ call[c].pc \in {"grace", "kill"} => child[c].st # "reaped"

\* The executable changes only by a link whose last tool succeeded, that was not stopped, and whose
\* sink took all of the output.
OnlyOnSuccess ==
    \A c \in Calls : Isolated(c) \/ call[c].result = "ok" =>
        /\ child[c].code = "ok" /\ ~call[c].stop /\ ~call[c].err /\ ~call[c].panic
        /\ \A s \in Streams : pipe[c][s].out = pipe[c][s].put

\* A published executable is what the tool's output was at one moment, whoever wrote to it
\* while it was copied.
PublishedIsSnapshot == exe.by \in Calls => exe.data \in contents[exe.by]

\* A file others put under a stage's name is neither removed nor published.
ForeignKept ==
    /\ exe.by # "foreign"
    /\ Foreign - budget.foreign = Cardinality({x \in Calls \X {"tool", "pub"} : stage[x[1]][x[2]].kind = "file" /\ stage[x[1]][x[2]].ino = ForeignIno})

\* A call that failed or succeeded leaves no stage behind, save a link or a foreign file.
StagesCleaned ==
    \A c \in Calls : call[c].result \in {"ok", "err"} =>
        \A n \in {stage[c].tool, stage[c].pub} : n.kind = "file" => n.ino = ForeignIno

\* A captured child lives under its call's lease and is reaped before the call goes on; the executable
\* changes only after success, with all output taken; a call leaves no stage behind.  A published
\* executable is what the tool's output was at one moment, whoever wrote to it during the copy, and a
\* file others put under a stage's name is neither removed nor published (run_captured, link_captured,
\* isolate_and_publish).
LinkRight ==
    /\ LinkTypeOK
    /\ ChildIsLeased
    /\ OnlyOnSuccess
    /\ PublishedIsSnapshot
    /\ ForeignKept
    /\ StagesCleaned

\* A link returns: no pipe, child or lease is waited for in vain.
CallsReturn == \A c \in Calls : <>CallAt(c, "done")
=============================================================================
