------------------------------ MODULE MCDriver ------------------------------
(***************************************************************************)
(* The migration commands, watch mode and instances of the test runner for *)
(* TLC.  They share no state, so their interleavings say nothing: each     *)
(* behaviour runs one part and leaves the others in their initial states.  *)
(***************************************************************************)
EXTENDS Migrations, WatchLoop, TLC

CONSTANTS Parts,        \* the parts a run covers
          s1, s2,       \* graceful signals
          x1, x2,       \* processes that run db migrate
          NoSignal

VARIABLES
    part,
    state, pipe, sent, masked, frames, first, clock, kid, foreign, hit, step, row, local, armed,
    failed, verdict, why, stage, purpose, left, exit                               \* TestRunner

testVars == <<state, pipe, sent, masked, frames, first, clock, kid, foreign, hit, step, row, local,
              armed, failed, verdict, why, stage, purpose, left, exit>>
migrateVars == vars
driverVars == <<part, testVars, watchVars, migrateVars>>

(***************************************************************************)
(* The test runner: all a child can do to a row; all it can say; two       *)
(* signals; and the two small ones for liveness.                           *)
(***************************************************************************)
Row == INSTANCE TestRunner WITH
    pc <- step,
    Signals <- {}, Rows <- 1, Chunks <- 1, MaxRecords <- 2,
    Datagrams <- {"ack", "ok"}, Deeds <- {"flood", "move", "fork"}
Chatter == INSTANCE TestRunner WITH
    pc <- step,
    Signals <- {}, Rows <- 1, Chunks <- 1, MaxRecords <- 3,
    Datagrams <- {"ack", "ok", "err", "bad"}, Deeds <- {}
Interrupted == INSTANCE TestRunner WITH
    pc <- step,
    Signals <- {s1, s2}, Rows <- 1, Chunks <- 2, MaxRecords <- 2, Datagrams <- {"ack", "ok"},
    Deeds <- {}
Waking == INSTANCE TestRunner WITH
    pc <- step,
    Signals <- {s1}, Rows <- 1, Chunks <- 1, MaxRecords <- 1, Datagrams <- {"ack"}, Deeds <- {}
Exiting == INSTANCE TestRunner WITH
    pc <- step,
    Signals <- {s1}, Rows <- 2, Chunks <- 1, MaxRecords <- 1, Datagrams <- {"ack"},
    Deeds <- {"fork"}

(***************************************************************************)
(* Watch mode for liveness.  In Audited a directory may return under its   *)
(* old identity, which no event reports.                                   *)
(***************************************************************************)
Events == INSTANCE WatchLoop WITH
    Inputs <- 1, MaxChanges <- 2, Faults <- {"signal", "fatal"}
Audited == INSTANCE WatchLoop WITH
    Inputs <- 1, MaxChanges <- 2, MaxTries <- 1, MoveBack <- TRUE, Faults <- {}

(***************************************************************************)
(* db migrate: two commands at a time on either database, over the files   *)
(* of Mixed; files that tamper with the history; and one file only.        *)
(***************************************************************************)
Mixed == <<"forbidden", "required", "forbidden">>
OneFile == <<"forbidden">>

Tampered == INSTANCE Migrations WITH
    Drivers <- {"sqlite"}, Tampers <- {"erase", "forge", "drop"}, MaxFaults <- 0, MaxEdits <- 0

ASSUME DriverConstants ==
    /\ Row!TestRunnerAssumption /\ Chatter!TestRunnerAssumption /\ Interrupted!TestRunnerAssumption
    /\ Waking!TestRunnerAssumption /\ Exiting!TestRunnerAssumption
    /\ Events!WatchAssumption /\ Audited!WatchAssumption
    /\ Tampered!MigrationsConstants

(***************************************************************************)
(* Each part on its own.                                                   *)
(***************************************************************************)
DriverInit ==
    /\ part \in Parts
    /\ Row!Init
    /\ IF part \in {"events", "audit"} THEN Events!WatchInit ELSE WatchInit
    /\ IF part = "migrate" THEN Init ELSE Tampered!Init

(* No call of the runner fails in chatter; row has the failing calls.      *)
TestStep ==
    /\ \/ part = "row" /\ Row!Next
       \/ part = "chatter" /\ (Chatter!Process \/ Chatter!Runner \/ Chatter!Tick)
       \/ part = "interrupted" /\ Interrupted!Next
       \/ part = "waking" /\ Waking!Next
       \/ part = "exiting" /\ Exiting!Next
    /\ UNCHANGED <<part, watchVars, migrateVars>>

WatchStep ==
    /\ \/ part = "watch" /\ WatchNext
       \/ part = "events" /\ Events!WatchNext
       \/ part = "audit" /\ Audited!WatchNext
    /\ UNCHANGED <<part, testVars, migrateVars>>

MigrateStep ==
    /\ \/ part = "migrate" /\ Next
       \/ part = "tampered" /\ Tampered!Next
    /\ UNCHANGED <<part, testVars, watchVars>>

DriverNext == TestStep \/ WatchStep \/ MigrateStep

DriverSpec == DriverInit /\ [][DriverNext]_driverVars

\* The fairness of each part.  Threads run; time passes only where a property needs it: the row's
\* clock in "exiting", the audit's in "audit".
DriverFairSpec ==
    /\ DriverSpec
    /\ WF_testVars(part = "waking" /\ Waking!Handler)
    /\ WF_testVars(part = "waking" /\ Waking!Runner)
    /\ WF_testVars(part = "exiting" /\ Exiting!Handler)
    /\ WF_testVars(part = "exiting" /\ Exiting!Runner)
    /\ WF_testVars(part = "exiting" /\ Exiting!Tick)
    /\ WF_watchVars(part = "events" /\ Events!Backend)
    /\ WF_watchVars(part = "events" /\ Events!Controller)
    /\ WF_watchVars(part = "audit" /\ Audited!Backend)
    /\ WF_watchVars(part = "audit" /\ Audited!Controller)
    /\ WF_watchVars(part = "audit" /\ Audited!Audit)

Symmetric == Permutations({s1, s2}) \cup Permutations({x1, x2})

-----------------------------------------------------------------------------
(***************************************************************************)
(* Properties.  A part that does not run is in its initial state.          *)
(***************************************************************************)

\* A row passes only if its child earned it; no record sent before the child's end is reported
\* missing; the next row starts with nothing of the last one left; no signal reaches a process that
\* got the id later, and a child that is given up has been killed with its group (run_row, quiesce).
RowsRight ==
    /\ part = "row" => /\ Row!TypeOK /\ Row!PassIsEarned /\ Row!NothingMissed /\ Row!RowsAreClean
                       /\ Row!NeverSignalsOthers /\ Row!AbandonedIsDoomed
    /\ part = "chatter" => Chatter!PassIsEarned /\ Chatter!NothingMissed

\* The first accepted signal decides the row, the arbitration and the exit status, whatever handlers
\* nest, and no raw write is made without a permit that no selected signal can take away
\* (graceful_signal_handler, controlled_write).
SignalsArbitrated == part = "interrupted" => Interrupted!PermitHeld /\ Interrupted!FirstSignalWins

\* The runner ends although the child never does, and a signal that arrives while it sleeps in poll,
\* or just before, wakes it without any help of time or of the child.
RunnerExits ==
    /\ part = "exiting" => Exiting!RunnerExits
    /\ part = "waking" => Waking!SignalWakes

\* When the editors stop, the last revision has read what is on the disk: by events alone, and through
\* the audit where a directory came back under its old identity.  A signal ends the watch.
EventuallyCurrent ==
    /\ part = "events" => Events!EndsCurrent /\ Events!SignalStops
    /\ part = "audit" => Audited!EndsCurrent
=============================================================================
