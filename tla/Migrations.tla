----------------------------- MODULE Migrations -----------------------------
(***************************************************************************)
(* `alignc db migrate`, `check` and `repair` for SQLite and PostgreSQL     *)
(* (crates/align_driver/src/db_migrate.rs and db_migrate_native.rs).       *)
(* Commands on one database take the operation lock: a file lock that      *)
(* survives a new connection (SQLite), or a lock of the session            *)
(* (PostgreSQL), lost with it.  A Required file runs in the transaction    *)
(* that records it; a Forbidden one is recorded as Applying, runs outside  *)
(* any transaction and is then recorded as Applied or Failed.  A commit    *)
(* whose answer is lost is reconciled once over a new connection.          *)
(*                                                                         *)
(* A transaction is one step with its commit: it holds the native history  *)
(* lock, and only a command with the operation lock starts one.  Name,     *)
(* checksum and policy of a file are one identity.                         *)
(***************************************************************************)
EXTENDS Naturals, Sequences

CONSTANTS Procs, NoProc,
          Drivers,          \* the databases: "sqlite", "postgres"
          Policy,           \* sequence: "required" or "forbidden"
          Tampers,          \* what a Forbidden file may do to the history
          MaxFaults, MaxEdits

Versions == DOMAIN Policy

(* What the constants must be. *)
MigrationsConstants ==
    /\ NoProc \notin Procs
    /\ Drivers \subseteq {"sqlite", "postgres"}
    /\ Policy \in Seq({"required", "forbidden"})
    /\ Tampers \subseteq {"erase", "forge", "drop"}
    /\ MaxFaults \in Nat /\ MaxEdits \in Nat

ASSUME MigrationsAssumption == MigrationsConstants

VARIABLES
    driver,     \* the project's database
    table,      \* the history table exists
    rows,       \* [st, id] of each version
    effects,    \* how often each file took effect
    cat,        \* the files: their identity, 0 when there is none
    lock,
    pc, op, mine,   \* the catalog a command loaded
    at,         \* its current version
    snap,       \* applying_history
    native,     \* native_result
    session,    \* the history connection is alive
    wait,       \* expectation and continuation of a lost commit
    faults, edits

dbVars == <<table, rows, effects>>
procVars == <<pc, op, mine, at, snap, native, session, wait>>
vars == <<driver, dbVars, cat, lock, procVars, faults, edits>>

NoRow == [st |-> "none", id |-> 0]
NoRows == [v \in Versions |-> NoRow]
Migrate == [do |-> "migrate", v |-> 0]
Check == [do |-> "check", v |-> 0]
Repair == [do : {"accept", "clear"}, v : Versions]
NoWait == [for |-> "none", then |-> "idle"]

Init == /\ driver \in Drivers
        /\ table = FALSE /\ rows = NoRows
        /\ effects = [v \in Versions |-> 0]
        /\ cat = [v \in Versions |-> 1]
        /\ lock = NoProc
        /\ pc = [p \in Procs |-> "idle"] /\ op = [p \in Procs |-> Check]
        /\ mine = [p \in Procs |-> cat] /\ at = [p \in Procs |-> 0]
        /\ snap = [p \in Procs |-> NoRows] /\ native = [p \in Procs |-> "none"]
        /\ session = [p \in Procs |-> TRUE] /\ wait = [p \in Procs |-> NoWait]
        /\ faults = 0 /\ edits = 0

Fault == faults < MaxFaults /\ faults' = faults + 1
-----------------------------------------------------------------------------
(* reconcile: the status of each version against the command's catalog *)

(* The state of a row as it is reported.  Mutant: a dirty row passes for   *)
(* one that is applied.                                                    *)
ShownDone(s) == IF s \in {"applying", "failed"} THEN "applied" ELSE s
Shown(s) == CASE s = "applying" -> "dirty_applying"
              [] s = "failed" -> "dirty_failed"
              [] OTHER -> s

Status(p, v) ==
    LET r == rows[v]
        c == mine[p][v]
    IN CASE c = 0 /\ r.st = "none" -> "absent"
         [] c = 0 /\ r.st # "none" -> "history_only"
         [] c # 0 /\ r.st = "none" -> "pending"
         [] c # 0 /\ r.st # "none" /\ r.id # c -> "mismatch"
         [] OTHER -> Shown(r.st)

Present(p) == {v \in Versions : Status(p, v) # "absent"}

(* can_migrate: Applied rows, then Pending ones. *)
CanMigrate(p) ==
    /\ \A v \in Present(p) : Status(p, v) \in {"applied", "pending"}
    /\ \A v, w \in Present(p) : v < w /\ Status(p, v) = "pending" => Status(p, w) = "pending"

(* ensure_ready *)
Ready(p, v) ==
    /\ \A w \in Present(p) : Status(p, w) = IF w < v THEN "applied" ELSE "pending"
    /\ v \in Present(p)

(* is_current. *)
IsCurrent(p) == \A v \in Present(p) : Status(p, v) = "applied"
-----------------------------------------------------------------------------
(* Commands.  The operator starts a repair after looking at the database   *)
(* while no migration is under way: accept what took effect, clear what    *)
(* did not.                                                                *)

Operator(o) ==
    /\ \A q \in Procs : pc[q] = "idle" \/ (pc[q] = "lock" /\ op[q] \in {Migrate, Check})
    /\ rows[o.v].st \in {"applying", "failed"}
    /\ o.do = IF effects[o.v] > 0 THEN "accept" ELSE "clear"

Begin(p, o) ==
    /\ pc[p] = "idle"
    /\ o \in Repair => Operator(o)
    /\ pc' = [pc EXCEPT ![p] = "lock"]
    /\ op' = [op EXCEPT ![p] = o]
    /\ mine' = [mine EXCEPT ![p] = cat]
    /\ session' = [session EXCEPT ![p] = TRUE]
    /\ UNCHANGED <<dbVars, cat, lock, at, snap, native, wait, faults, edits>>

Goto(p, l) == pc' = [pc EXCEPT ![p] = l]

Acquire(p) ==
    /\ pc[p] = "lock" /\ lock = NoProc
    /\ lock' = p
    /\ Goto(p, IF op[p] = Migrate THEN "start" ELSE IF op[p] = Check THEN "final" ELSE "repair")
    /\ UNCHANGED <<dbVars, cat, op, mine, at, snap, native, session, wait, faults, edits>>

(* The command ends: its locks, its session and what it knew are gone. *)
End(p) ==
    /\ Goto(p, "idle")
    /\ lock' = IF lock = p THEN NoProc ELSE lock
    /\ at' = [at EXCEPT ![p] = 0] /\ snap' = [snap EXCEPT ![p] = NoRows]
    /\ native' = [native EXCEPT ![p] = "none"] /\ wait' = [wait EXCEPT ![p] = NoWait]
    /\ session' = [session EXCEPT ![p] = TRUE]
    /\ op' = [op EXCEPT ![p] = Check] /\ mine' = [mine EXCEPT ![p] = [v \in Versions |-> 1]]

Refuse(p) == End(p) /\ UNCHANGED <<dbVars, cat, faults, edits>>

(* sqlite_commit, postgres_commit: the answer arrives, or the connection   *)
(* is lost before or after the change.  The lock of the session goes with  *)
(* it.                                                                     *)
LockKept == driver = "sqlite"

Lost(p, for, then) ==
    /\ wait' = [wait EXCEPT ![p] = [for |-> for, then |-> then]]
    /\ Goto(p, IF LockKept THEN "compare" ELSE "relock")
    /\ lock' = IF LockKept THEN lock ELSE NoProc

Commit(p, newRows, newEffects, for, then) ==
    /\ UNCHANGED <<cat, op, mine, session, edits>>
    /\ \/ /\ table' = TRUE /\ rows' = newRows /\ effects' = newEffects
          /\ Goto(p, then)
          /\ UNCHANGED <<lock, wait, faults>>
       \/ /\ Fault
          /\ \/ table' = TRUE /\ rows' = newRows /\ effects' = newEffects
             \/ UNCHANGED dbVars
          /\ Lost(p, for, then)

Relock(p) ==
    /\ pc[p] = "relock" /\ lock = NoProc
    /\ lock' = p /\ Goto(p, "compare")
    /\ UNCHANGED <<dbVars, cat, op, mine, at, snap, native, session, wait, faults, edits>>

(* sqlite_reconcile_commit, postgres_reconcile_commit *)
Reconciled(p) ==
    CASE wait[p].for = "bootstrap" -> CanMigrate(p)
      [] wait[p].for = "applied" -> Status(p, at[p]) = "applied"
      [] wait[p].for = "applying" -> rows = snap[p]
      [] wait[p].for = "failed" -> Status(p, at[p]) = "dirty_failed"
      [] wait[p].for = "cleared" -> Status(p, at[p]) = "pending"

Compare(p) ==
    /\ pc[p] = "compare"
    /\ IF table /\ Reconciled(p)
         THEN /\ Goto(p, wait[p].then)
              /\ wait' = [wait EXCEPT ![p] = NoWait]
              /\ UNCHANGED <<dbVars, cat, lock, op, mine, at, snap, native, session, faults, edits>>
         ELSE Refuse(p)
-----------------------------------------------------------------------------
(* migrate *)

Bootstrap(p) ==
    /\ pc[p] = "start" /\ ~table
    /\ Commit(p, rows, effects, "bootstrap", "snapshot")
    /\ UNCHANGED <<at, snap, native>>

Snapshot(p) ==
    /\ pc[p] \in {"start", "snapshot"} /\ table
    /\ IF CanMigrate(p)
         THEN LET pending == {v \in Present(p) : Status(p, v) = "pending"}
              IN /\ at' = [at EXCEPT ![p] = IF pending = {} THEN 0
                                            ELSE CHOOSE v \in pending : \A w \in pending : v <= w]
                 /\ Goto(p, IF pending = {} THEN "final" ELSE "next")
                 /\ UNCHANGED <<dbVars, cat, lock, op, mine, snap, native, session, wait, faults, edits>>
         ELSE Refuse(p)

NotReady(p) ==
    /\ pc[p] = "next" /\ ~Ready(p, at[p])
    /\ Refuse(p)

(* The file that follows, while the catalog has one. *)
Following(p) == IF at[p] + 1 \in Versions /\ mine[p][at[p] + 1] # 0 THEN "following" ELSE "final"
Advance(p) ==
    /\ pc[p] = "following"
    /\ Goto(p, "next")
    /\ at' = [at EXCEPT ![p] = @ + 1]
    /\ UNCHANGED <<dbVars, cat, lock, op, mine, snap, native, session, wait, faults, edits>>

Recorded(p, s) == [rows EXCEPT ![at[p]] = [st |-> s, id |-> mine[p][at[p]]]]
Once(v) == [effects EXCEPT ![v] = IF @ < 2 THEN @ + 1 ELSE 2]

(* sqlite_required, postgres_required; a failing statement rolls back. *)
Required(p) ==
    /\ pc[p] = "next" /\ Policy[at[p]] = "required" /\ Ready(p, at[p])
    /\ Commit(p, Recorded(p, "applied"), Once(at[p]), "applied", Following(p))
    /\ UNCHANGED <<at, snap, native>>

(* sqlite_forbidden, postgres_forbidden: Applying first. *)
Mark(p) ==
    /\ pc[p] = "next" /\ Policy[at[p]] = "forbidden" /\ Ready(p, at[p])
    /\ snap' = [snap EXCEPT ![p] = Recorded(p, "applying")]
    /\ Commit(p, Recorded(p, "applying"), effects, "applying", "work")
    /\ UNCHANGED <<at, native>>

(* The worker connection: it may fail, with or without an effect. *)
Work(p) ==
    /\ pc[p] = "work"
    /\ \/ native' = [native EXCEPT ![p] = "ok"] /\ UNCHANGED faults
       \/ native' = [native EXCEPT ![p] = "err"] /\ Fault
    /\ \/ /\ effects' = Once(at[p])
          /\ \/ UNCHANGED <<table, rows>>
             \/ "erase" \in Tampers /\ rows' = [rows EXCEPT ![at[p]] = NoRow] /\ UNCHANGED table
             \/ "forge" \in Tampers /\ rows' = Recorded(p, "applied") /\ UNCHANGED table
             \/ "drop" \in Tampers /\ rows' = NoRows /\ table' = FALSE
       \/ native'[p] = "err" /\ UNCHANGED dbVars
    /\ Goto(p, "record")
    /\ UNCHANGED <<cat, lock, op, mine, at, snap, session, wait, edits>>

(* The final transaction: a changed history is restored and the command    *)
(* fails; otherwise the row is updated.                                    *)
HistoryUnchanged(p) == table /\ rows = snap[p]
Restored(p) == snap[p]
Outcome(p) == IF native[p] = "ok" THEN "applied" ELSE "failed"

Record(p) ==
    /\ pc[p] = "record" /\ session[p]
    /\ IF HistoryUnchanged(p)
         THEN Commit(p, Recorded(p, Outcome(p)), effects, Outcome(p),
                     IF native[p] = "ok" THEN Following(p) ELSE "failed")
         ELSE Commit(p, Restored(p), effects, "applying", "failed")
    /\ UNCHANGED <<at, snap, native>>

(* PostgreSQL: the history session dies while the worker runs. *)
LoseSession(p) ==
    /\ driver = "postgres" /\ pc[p] \in {"work", "record"} /\ session[p]
    /\ Fault
    /\ session' = [session EXCEPT ![p] = FALSE]
    /\ lock' = NoProc
    /\ UNCHANGED <<dbVars, cat, pc, op, mine, at, snap, native, wait, edits>>
CannotRecord(p) == pc[p] = "record" /\ ~session[p] /\ Refuse(p)

Fail(p) == pc[p] = "failed" /\ Refuse(p)

(* The last snapshot of migrate, the only one of check. *)
Final(p) ==
    /\ pc[p] = "final"
    /\ IF IsCurrent(p) /\ (table \/ op[p] = Check)
         THEN /\ Goto(p, "current")
              /\ UNCHANGED <<dbVars, cat, lock, op, mine, at, snap, native, session, wait, faults, edits>>
         ELSE Refuse(p)
Done(p) == pc[p] \in {"current", "repaired"} /\ Refuse(p)
-----------------------------------------------------------------------------
(* repair changes one dirty row whose checksum is the catalog's. *)
Repairable(s) == s \in {"dirty_applying", "dirty_failed"}

RepairRow(p) ==
    /\ pc[p] = "repair"
    /\ LET v == op[p].v
           accept == op[p].do = "accept"
       IN IF table /\ Repairable(Status(p, v))
            THEN /\ at' = [at EXCEPT ![p] = v]
                 /\ Commit(p, [rows EXCEPT ![v] = IF accept THEN [@ EXCEPT !.st = "applied"] ELSE NoRow],
                           effects, IF accept THEN "applied" ELSE "cleared", "repaired")
                 /\ UNCHANGED <<snap, native>>
            ELSE Refuse(p)
-----------------------------------------------------------------------------
(* The process dies, or a call before a commit fails. *)
Crash(p) ==
    /\ Fault /\ pc[p] # "idle"
    /\ End(p)
    /\ UNCHANGED <<dbVars, cat, edits>>

(* Somebody edits a file, adds one at the end or removes the last. *)
Edit(v, id) ==
    /\ edits < MaxEdits /\ edits' = edits + 1
    /\ cat[v] # id
    /\ id = 0 => \A w \in Versions : w > v => cat[w] = 0
    /\ cat[v] = 0 => \A w \in Versions : w < v => cat[w] # 0
    /\ cat' = [cat EXCEPT ![v] = id]
    /\ UNCHANGED <<dbVars, lock, procVars, faults>>
-----------------------------------------------------------------------------
Step(p) == \/ Compare(p) \/ Bootstrap(p) \/ Snapshot(p) \/ NotReady(p) \/ Advance(p)
           \/ Required(p) \/ Mark(p) \/ Work(p) \/ Record(p) \/ CannotRecord(p)
           \/ Fail(p) \/ Final(p) \/ Done(p) \/ RepairRow(p)
Locks(p) == Acquire(p) \/ Relock(p)

Next == /\ \/ \E p \in Procs : \/ Begin(p, Migrate) \/ Begin(p, Check)
                               \/ \E o \in Repair : Begin(p, o)
                               \/ Step(p) \/ Locks(p) \/ LoseSession(p) \/ Crash(p)
           \/ \E v \in Versions, id \in 0..2 : Edit(v, id)
        /\ UNCHANGED driver

Spec == Init /\ [][Next]_vars
-----------------------------------------------------------------------------
(* Properties *)

Statuses == {"none", "applying", "applied", "failed"}
Histories == [Versions -> [st : Statuses, id : 0..2]]

(* Every variable keeps its type; a command waits exactly for the commits  *)
(* whose answers were lost.                                                *)
TypeOK ==
    /\ driver \in Drivers
    /\ table \in BOOLEAN /\ rows \in Histories
    /\ effects \in [Versions -> 0..2] /\ cat \in [Versions -> 0..2]
    /\ lock \in Procs \cup {NoProc}
    /\ pc \in [Procs -> {"idle", "lock", "start", "snapshot", "next", "following", "work", "record",
                         "failed", "final", "current", "repair", "repaired", "relock", "compare"}]
    /\ op \in [Procs -> {Migrate, Check} \cup Repair]
    /\ mine \in [Procs -> [Versions -> 0..2]]
    /\ at \in [Procs -> Versions \cup {0}]
    /\ snap \in [Procs -> Histories]
    /\ native \in [Procs -> {"none", "ok", "err"}] /\ session \in [Procs -> BOOLEAN]
    /\ wait \in [Procs -> [for : {"none", "bootstrap", "applied", "applying", "failed", "cleared"},
                           then : {"idle", "snapshot", "work", "following", "final", "failed", "repaired"}]]
    /\ \A p \in Procs : wait[p].then # "idle" <=> pc[p] \in {"relock", "compare"}
    /\ faults \in 0..MaxFaults /\ edits \in 0..MaxEdits

(* The tool never retries a file by itself: with an operator who clears    *)
(* only what did not take effect, nothing takes effect twice.              *)
OnlyOnce == \A v \in Versions : effects[v] <= 1

(* The history never claims what is not in the database. *)
AppliedIsReal == \A v \in Versions : rows[v].st = "applied" => effects[v] > 0

(* A file takes effect after all the earlier ones, also when catalogs      *)
(* change, commits are lost and commands overlap.                          *)
InOrder == \A v, w \in Versions : v < w /\ effects[w] > 0 => effects[v] > 0

(* A dirty row is the last one: it stopped every later migration. *)
DirtyBlocks == \A v, w \in Versions :
    v < w /\ rows[v].st \in {"applying", "failed"} => effects[w] = 0

(* A command that reports the catalog as current has every file of it in   *)
(* the database.                                                           *)
CurrentIsTrue == \A p \in Procs : pc[p] = "current" =>
    \A v \in Versions : mine[p][v] # 0 => effects[v] > 0 /\ rows[v] = [st |-> "applied", id |-> mine[p][v]]

(* What the history calls applied took effect; files take effect in order; *)
(* a dirty row stops every later file; a command that reports the catalog  *)
(* as current is right; and on SQLite, where the lock is held until the    *)
(* end of the command, no file takes effect twice.                         *)
HistoryTrue ==
    /\ TypeOK /\ AppliedIsReal /\ InOrder /\ DirtyBlocks /\ CurrentIsTrue
    /\ driver = "sqlite" => OnlyOnce
=============================================================================
