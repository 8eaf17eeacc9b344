---------------------------- MODULE DriverProofs ----------------------------
(***************************************************************************)
(* Proofs about Migrations for every set of commands, every catalog of     *)
(* Required and Forbidden files and any number of faults and edits, on     *)
(* both databases.  Locking says who may write the history; History        *)
(* relates its rows to what took effect; Working and Repairing say what a  *)
(* command that is between two transactions may still rely on, also when   *)
(* its lock went with its session; Once is what SQLite's file lock adds.   *)
(*                                                                         *)
(* And about WatchLoop for any number of inputs, changes and rounds of     *)
(* reinstall_watches.  Reading and Versioned carry what a revision read to *)
(* its link; Attached, Registered and Noticed say which watch, event or    *)
(* flag still stands for an input that the controller has looked at.       *)
(***************************************************************************)
EXTENDS Migrations, WatchLoop, FiniteSetTheorems, SequenceTheorems, WellFoundedInduction, TLAPS

(* The lock is held from its acquisition to the end, and lost with the     *)
(* session or the connection only on PostgreSQL.                           *)
Locking ==
    \A p \in Procs :
        /\ lock = p <=> pc[p] \notin {"idle", "lock", "relock"} /\ session[p]
        /\ ~session[p] => pc[p] \in {"work", "record"} /\ driver = "postgres"
        /\ pc[p] = "relock" => driver = "postgres"
        /\ pc[p] = "repair" => op[p] \in Repair

(* Catalogs have no gaps. *)
Prefix(c) == \A v, w \in Versions : v < w /\ c[v] = 0 => c[w] = 0
Catalogs == Prefix(cat) /\ \A p \in Procs : Prefix(mine[p])

(* The history: what took effect has a row, what is applied took effect,   *)
(* and the files before a row are applied.                                 *)
History ==
    /\ ~table => rows = NoRows
    /\ \A v \in Versions : effects[v] > 0 => rows[v].st # "none"
    /\ AppliedIsReal
    /\ \A v, w \in Versions : v < w /\ rows[w].st # "none" => rows[v].st = "applied"

(* The commit of p's Applying row was lost. *)
Marked(p) == pc[p] \in {"relock", "compare"} /\ wait[p].then = "work"

(* A command that runs a Forbidden file finds its row; with its session    *)
(* the history is the one it recorded.                                     *)
WorkingAt(p) ==
    /\ pc[p] = "next" => at[p] \in Versions
    /\ pc[p] = "following" \/ wait[p].then = "following" => at[p] + 1 \in Versions
    /\ pc[p] \in {"work", "record"} \/ Marked(p)
         => at[p] \in Versions /\ snap[p][at[p]].st = "applying"
    /\ pc[p] \in {"work", "record"} => rows[at[p]].st # "none"
    /\ pc[p] \in {"work", "record"} /\ session[p] => table /\ rows = snap[p]
    /\ pc[p] = "record" /\ native[p] = "ok" => effects[at[p]] > 0
    /\ Marked(p) => wait[p].for = "applying"

(* A command that has not seen a history it may migrate. *)
Early(p) ==
    \/ pc[p] \in {"idle", "start", "snapshot", "final"}
    \/ pc[p] = "lock" /\ op[p] \notin Repair
    \/ pc[p] \in {"relock", "compare"} /\ wait[p].for = "bootstrap"

Dirty == {"applying", "failed"}
Repairs(p) == pc[p] \in {"lock", "repair"} /\ op[p] \in Repair

(* What the operator saw is still so when the repair runs: its row is      *)
(* dirty and no command is beyond the check that a dirty row fails.        *)
RepairingAt(p) ==
    Repairs(p) =>
        /\ rows[op[p].v].st \in Dirty
        /\ op[p].do = "accept" <=> effects[op[p].v] > 0
        /\ \A q \in Procs : q # p => Early(q)

(* A command that reports the catalog as current is right. *)
CurrentAt(p) ==
    pc[p] = "current" => \A v \in Versions :
        mine[p][v] # 0 => effects[v] > 0 /\ rows[v] = [st |-> "applied", id |-> mine[p][v]]

(* With the file lock a file that is about to run has had no effect. *)
OnceAt(p) == driver = "sqlite" /\ (pc[p] = "work" \/ Marked(p)) => effects[at[p]] = 0

Commands == \A p \in Procs : WorkingAt(p) /\ RepairingAt(p) /\ CurrentAt(p) /\ OnceAt(p)

HistoryInv == /\ Locking /\ Catalogs /\ History /\ Commands
              /\ driver = "sqlite" => OnlyOnce

-----------------------------------------------------------------------------
(* Facts about the operators *)

(* What the proofs need of the constants. *)
LEMMA Facts ==
    /\ Versions \subseteq Nat /\ 0 \notin Versions
    /\ NoProc \notin Procs /\ MaxFaults \in Nat /\ MaxEdits \in Nat
    /\ NoRow \in [st : Statuses, id : 0..2] /\ NoRows \in Histories
    /\ Migrate \notin Repair /\ Check \notin Repair
    /\ \A o \in Repair : o.v \in Versions /\ o.do \in {"accept", "clear"}
<1>1. Versions = 1..Len(Policy) /\ Len(Policy) \in Nat
  BY MigrationsAssumption DEF MigrationsConstants, Versions
<1>2. NoRow \in [st : Statuses, id : 0..2]
  BY DEF NoRow, Statuses
<1>3. NoRows \in Histories
  BY <1>2 DEF NoRows, Histories
<1>4. Migrate \notin Repair /\ Check \notin Repair /\ \A o \in Repair : o.v \in Versions /\ o.do \in {"accept", "clear"}
  BY DEF Migrate, Check, Repair
<1> QED BY <1>1, <1>2, <1>3, <1>4, MigrationsAssumption DEF MigrationsConstants

(* What TypeOK says of a row and of a command. *)
LEMMA Typed ==
    ASSUME TypeOK
    PROVE  /\ \A v \in Versions : /\ rows[v] \in [st : Statuses, id : 0..2]
                                  /\ rows[v].st \in Statuses /\ effects[v] \in 0..2
           /\ \A p \in Procs : /\ at[p] \in Versions \cup {0} /\ snap[p] \in Histories
                               /\ \A v \in Versions : mine[p][v] \in 0..2 /\ snap[p][v].st \in Statuses
  BY DEF TypeOK, Histories

(* reconcile. *)
LEMMA StatusIs ==
    ASSUME TypeOK, NEW p \in Procs, NEW v \in Versions
    PROVE  /\ Status(p, v) = "absent" <=> mine[p][v] = 0 /\ rows[v].st = "none"
           /\ Status(p, v) = "pending" <=> mine[p][v] # 0 /\ rows[v].st = "none"
           /\ Status(p, v) = "applied"
                <=> mine[p][v] # 0 /\ rows[v] = [st |-> "applied", id |-> mine[p][v]]
           /\ Repairable(Status(p, v))
                <=> mine[p][v] # 0 /\ rows[v].st \in Dirty /\ rows[v].id = mine[p][v]
<1>1. rows[v] \in [st : Statuses, id : 0..2] /\ rows[v].st \in {"none", "applying", "applied", "failed"}
  BY Typed DEF Statuses
<1>2. rows[v] = [st |-> "applied", id |-> mine[p][v]] <=> rows[v].st = "applied" /\ rows[v].id = mine[p][v]
  BY <1>1
<1> QED BY <1>1, <1>2 DEF Status, Shown, Repairable, Dirty

(* ensure_ready: the files before v are applied, v and the later ones have *)
(* no row.                                                                 *)
LEMMA ReadyIs ==
    ASSUME TypeOK, Catalogs, NEW p \in Procs, NEW v \in Versions, Ready(p, v)
    PROVE  /\ mine[p][v] # 0 /\ rows[v].st = "none"
           /\ \A u \in Versions : u < v => rows[u].st = "applied"
           /\ \A w \in Versions : v < w => rows[w].st = "none"
<1>1. \A w \in Versions : Status(p, w) = "absent" \/ Status(p, w) = IF w < v THEN "applied" ELSE "pending"
  BY DEF Ready, Present
<1>2. Status(p, v) = "pending"
  BY <1>1, Facts DEF Ready, Present
<1>3. mine[p][v] # 0 /\ rows[v].st = "none"
  BY <1>2, StatusIs
<1>4. ASSUME NEW u \in Versions, u < v PROVE rows[u].st = "applied"
  <2>1. mine[p][u] # 0
    BY <1>3, <1>4 DEF Catalogs, Prefix
  <2>2. Status(p, u) = "applied"
    BY <1>1, <1>4, <2>1, StatusIs
  <2>3. rows[u] = [st |-> "applied", id |-> mine[p][u]]
    BY <2>2, StatusIs
  <2> QED BY <2>3
<1>5. ASSUME NEW w \in Versions, v < w PROVE rows[w].st = "none"
  <2>1. ~(w < v)
    BY <1>5, Facts
  <2>2. Status(p, w) \in {"absent", "pending"}
    BY <1>1, <2>1
  <2> QED BY <2>2, StatusIs
<1> QED BY <1>3, <1>4, <1>5

(* A dirty row stops a migration and a report that the catalog is current. *)
LEMMA DirtyStops ==
    ASSUME TypeOK, NEW p \in Procs, NEW v \in Versions, rows[v].st \in Dirty
    PROVE  ~CanMigrate(p) /\ ~IsCurrent(p)
<1>1. rows[v].st # "none" /\ rows[v].st # "applied"
  BY DEF Dirty
<1>2. Status(p, v) \notin {"absent", "pending", "applied"}
  <2>1. Status(p, v) # "absent" /\ Status(p, v) # "pending"
    BY <1>1, StatusIs
  <2>2. rows[v] # [st |-> "applied", id |-> mine[p][v]]
    BY <1>1
  <2> QED BY <2>1, <2>2, StatusIs
<1> QED BY <1>2 DEF CanMigrate, IsCurrent, Present

(* A catalog that is current is in the history, file by file. *)
LEMMA CurrentIs ==
    ASSUME TypeOK, NEW p \in Procs, IsCurrent(p)
    PROVE  \A v \in Versions : mine[p][v] # 0 => rows[v] = [st |-> "applied", id |-> mine[p][v]]
<1> SUFFICES ASSUME NEW v \in Versions, mine[p][v] # 0
             PROVE  rows[v] = [st |-> "applied", id |-> mine[p][v]]
  OBVIOUS
<1>1. Status(p, v) # "absent"
  BY StatusIs
<1>2. Status(p, v) = "applied"
  BY <1>1 DEF IsCurrent, Present
<1> QED BY <1>2, StatusIs

(* The first pending file, and the state a snapshot leads to. *)
LEMMA SnapshotAt ==
    ASSUME NEW p
    PROVE  LET pending == {v \in Present(p) : Status(p, v) = "pending"}
           IN  pending # {} => (CHOOSE v \in pending : \A w \in pending : v <= w) \in Versions
<1> DEFINE pending == {v \in Present(p) : Status(p, v) = "pending"}
           R == {ss \in Nat \X Nat : ss[1] < ss[2]}
<1> SUFFICES ASSUME pending # {}
             PROVE  (CHOOSE v \in pending : \A w \in pending : v <= w) \in Versions
  OBVIOUS
<1>1. pending \subseteq Versions /\ pending \subseteq Nat
  BY Facts DEF Present
<1> HIDE DEF pending
<1>2. IsWellFoundedOn(R, Nat)
  BY NatLessThanWellFounded DEF OpToRel
<1>3. PICK x \in pending : \A y \in pending : <<y, x>> \notin R
  BY <1>1, <1>2, WFMin
<1>4. ASSUME NEW y \in pending PROVE x <= y
  <2>1. x \in Nat /\ y \in Nat /\ <<y, x>> \notin R
    BY <1>1, <1>3
  <2>2. y < x => <<y, x>> \in R
    BY <2>1
  <2> HIDE DEF R
  <2> QED BY ONLY <2>1, <2>2
<1> QED BY <1>1, <1>4

(* The ways a commit may go. *)
LEMMA CommitIs ==
    ASSUME NEW p, NEW nr, NEW ne, NEW f, NEW t, Commit(p, nr, ne, f, t)
    PROVE  /\ UNCHANGED <<cat, op, mine, session, edits>>
           /\ \/ table' = TRUE /\ rows' = nr /\ effects' = ne
              \/ UNCHANGED <<table, rows, effects>>
           /\ \/ /\ table' = TRUE /\ rows' = nr /\ effects' = ne
                 /\ pc' = [pc EXCEPT ![p] = t] /\ UNCHANGED <<lock, wait, faults>>
              \/ /\ faults < MaxFaults /\ faults' = faults + 1
                 /\ wait' = [wait EXCEPT ![p] = [for |-> f, then |-> t]]
                 /\ \/ driver = "sqlite" /\ pc' = [pc EXCEPT ![p] = "compare"] /\ lock' = lock
                    \/ driver # "sqlite" /\ pc' = [pc EXCEPT ![p] = "relock"] /\ lock' = NoProc
  BY DEF Commit, Lost, LockKept, Fault, Goto, dbVars

-----------------------------------------------------------------------------
(* Typing *)

Waits == [for : {"none", "bootstrap", "applied", "applying", "failed", "cleared"},
          then : {"idle", "snapshot", "work", "following", "final", "failed", "repaired"}]

(* The initial state is well typed. *)
LEMMA TypeInit == Init => TypeOK
<1> SUFFICES ASSUME Init PROVE TypeOK
  OBVIOUS
<1>1. table \in BOOLEAN /\ session \in [Procs -> BOOLEAN] /\ rows \in Histories /\ snap \in [Procs -> Histories]
  BY Facts DEF Init
<1>2. cat \in [Versions -> 0..2] /\ mine \in [Procs -> [Versions -> 0..2]] /\ effects \in [Versions -> 0..2]
  BY DEF Init
<1>3. NoWait \in Waits /\ NoWait.then = "idle"
  BY DEF NoWait, Waits
<1>4. wait \in [Procs -> Waits] /\ \A p \in Procs : wait[p].then = "idle" /\ pc[p] = "idle"
  BY <1>3 DEF Init
<1> QED BY <1>1, <1>2, <1>4, Facts DEF Init, TypeOK, Waits

(* A commit keeps typing. *)
LEMMA CommitType ==
    ASSUME TypeOK, driver' = driver, NEW p \in Procs, NEW nr \in Histories,
           NEW ne \in [Versions -> 0..2],
           NEW f \in {"bootstrap", "applied", "applying", "failed", "cleared"},
           NEW t \in {"snapshot", "work", "following", "final", "failed", "repaired"},
           Commit(p, nr, ne, f, t), pc[p] \notin {"relock", "compare"},
           at' \in [Procs -> Versions \cup {0}], snap' \in [Procs -> Histories],
           native' \in [Procs -> {"none", "ok", "err"}]
    PROVE  TypeOK'
<1>1. /\ UNCHANGED <<cat, op, mine, session, edits>>
      /\ table' = TRUE \/ table' = table
      /\ rows' = nr \/ rows' = rows
      /\ effects' = ne \/ effects' = effects
  BY CommitIs, Zenon
<1>2. \/ pc' = [pc EXCEPT ![p] = t] /\ UNCHANGED <<lock, wait, faults>>
      \/ /\ faults < MaxFaults /\ faults' = faults + 1
         /\ wait' = [wait EXCEPT ![p] = [for |-> f, then |-> t]]
         /\ \/ pc' = [pc EXCEPT ![p] = "compare"] /\ lock' = lock
            \/ pc' = [pc EXCEPT ![p] = "relock"] /\ lock' = NoProc
  BY DEF Commit, Lost, LockKept, Fault, Goto
<1>3. table' \in BOOLEAN /\ rows' \in Histories /\ effects' \in [Versions -> 0..2]
  BY <1>1 DEF TypeOK
<1>4. lock' \in Procs \cup {NoProc} /\ faults' \in 0..MaxFaults
  BY <1>2, Facts DEF TypeOK
<1>5. /\ pc' \in [Procs -> {"idle", "lock", "start", "snapshot", "next", "following", "work", "record",
                            "failed", "final", "current", "repair", "repaired", "relock", "compare"}]
      /\ wait' \in [Procs -> Waits]
      /\ \A q \in Procs : wait'[q].then # "idle" <=> pc'[q] \in {"relock", "compare"}
  <2>1. [for |-> f, then |-> t] \in Waits /\ t # "idle"
    BY DEF Waits
  <2>2. CASE pc' = [pc EXCEPT ![p] = t] /\ wait' = wait
    BY <2>2 DEF TypeOK, Waits
  <2>3. CASE /\ pc' = [pc EXCEPT ![p] = "compare"] \/ pc' = [pc EXCEPT ![p] = "relock"]
             /\ wait' = [wait EXCEPT ![p] = [for |-> f, then |-> t]]
    <3> DEFINE y == [for |-> f, then |-> t]
    <3>1. y \in Waits /\ y.then # "idle" /\ wait \in [Procs -> Waits]
      BY <2>1 DEF TypeOK, Waits
    <3>2. wait' = [wait EXCEPT ![p] = y]
      BY <2>3
    <3>3. pc' = [pc EXCEPT ![p] = "compare"] \/ pc' = [pc EXCEPT ![p] = "relock"]
      BY <2>3
    <3> HIDE DEF y
    <3>4. wait' \in [Procs -> Waits] /\ wait'[p].then # "idle" /\ \A q \in Procs : q # p => wait'[q] = wait[q]
      BY <3>1, <3>2
    <3> QED BY <3>3, <3>4 DEF TypeOK
  <2> QED BY <1>2, <2>2, <2>3
<1> QED BY <1>1, <1>3, <1>4, <1>5 DEF TypeOK, Waits

(* The end of a command keeps typing. *)
LEMMA EndType ==
    ASSUME TypeOK, driver' = driver, NEW p \in Procs, Refuse(p) \/ Crash(p)
    PROVE  TypeOK'
<1>1. End(p) /\ UNCHANGED <<table, rows, effects, cat, edits>> /\ faults' \in 0..MaxFaults
  BY Facts DEF Refuse, Crash, Fault, dbVars, TypeOK
<1>2. [v \in Versions |-> 1] \in [Versions -> 0..2] /\ NoWait \in Waits /\ NoWait.then = "idle"
  BY DEF NoWait, Waits
<1>3. /\ lock' \in Procs \cup {NoProc} /\ at' \in [Procs -> Versions \cup {0}]
      /\ snap' \in [Procs -> Histories] /\ native' \in [Procs -> {"none", "ok", "err"}]
      /\ session' \in [Procs -> BOOLEAN] /\ op' \in [Procs -> {Migrate, Check} \cup Repair]
      /\ mine' \in [Procs -> [Versions -> 0..2]]
  BY <1>1, <1>2, Facts DEF End, TypeOK
<1>4. /\ pc' = [pc EXCEPT ![p] = "idle"] /\ wait' = [wait EXCEPT ![p] = NoWait]
  BY <1>1 DEF End, Goto
<1>5. /\ wait' \in [Procs -> Waits]
      /\ \A q \in Procs : wait'[q].then # "idle" <=> pc'[q] \in {"relock", "compare"}
  BY <1>2, <1>4 DEF TypeOK, Waits
<1> QED BY <1>1, <1>3, <1>4, <1>5 DEF TypeOK, Waits

(* A history with one row changed is one; effects are counted up to 2. *)
LEMMA RowType ==
    ASSUME TypeOK, NEW p \in Procs, NEW v \in Versions
    PROVE  /\ \A r \in [st : Statuses, id : 0..2] : [rows EXCEPT ![v] = r] \in Histories
           /\ Once(v) \in [Versions -> 0..2]
           /\ at[p] = v => \A x \in Statuses : Recorded(p, x) \in Histories
<1>1. \A r \in [st : Statuses, id : 0..2] : [rows EXCEPT ![v] = r] \in Histories
  BY DEF TypeOK, Histories
<1>2. effects[v] \in 0..2 /\ (IF effects[v] < 2 THEN effects[v] + 1 ELSE 2) \in 0..2
  BY DEF TypeOK
<1>3. \A x \in Statuses : [st |-> x, id |-> mine[p][v]] \in [st : Statuses, id : 0..2]
  BY DEF TypeOK
<1> QED BY <1>1, <1>2, <1>3 DEF Once, Recorded, TypeOK

(* Steps that leave the database alone keep typing. *)
LEMMA ControlType ==
    ASSUME TypeOK, driver' = driver, NEW p \in Procs, WorkingAt(p),
           \/ Begin(p, Migrate) \/ Begin(p, Check) \/ (\E o \in Repair : Begin(p, o))
           \/ Acquire(p) \/ Relock(p) \/ Advance(p) \/ LoseSession(p)
    PROVE  TypeOK'
<1> USE Facts DEF Goto, dbVars
<1>1. ASSUME NEW o \in {Migrate, Check} \cup Repair, Begin(p, o) PROVE TypeOK'
  BY <1>1 DEF Begin, TypeOK
<1>2. CASE Acquire(p)
  BY <1>2 DEF Acquire, TypeOK
<1>3. CASE Relock(p)
  BY <1>3 DEF Relock, TypeOK
<1>4. CASE Advance(p)
  BY <1>4 DEF Advance, TypeOK, WorkingAt
<1>5. CASE LoseSession(p)
  <2>1. faults' \in 0..MaxFaults
    BY <1>5 DEF LoseSession, Fault, TypeOK
  <2> QED BY <1>5, <2>1 DEF LoseSession, TypeOK
<1> QED BY <1>1, <1>2, <1>3, <1>4, <1>5

(* The same for those that look at the history. *)
LEMMA LookType ==
    ASSUME TypeOK, driver' = driver, NEW p \in Procs, Compare(p) \/ Snapshot(p) \/ Final(p)
    PROVE  TypeOK'
<1> USE Facts DEF Goto, dbVars
<1>1. CASE Refuse(p)
  BY <1>1, EndType
<1>2. CASE Compare(p) /\ ~Refuse(p)
  <2>1. /\ pc[p] = "compare" /\ pc' = [pc EXCEPT ![p] = wait[p].then]
        /\ wait' = [wait EXCEPT ![p] = NoWait]
        /\ UNCHANGED <<table, rows, effects, cat, lock, op, mine, at, snap, native, session, faults, edits>>
    BY <1>2 DEF Compare
  <2>2. wait[p].then \in {"snapshot", "work", "following", "final", "failed", "repaired"}
    BY <2>1 DEF TypeOK
  <2>3. NoWait \in Waits /\ NoWait.then = "idle"
    BY DEF NoWait, Waits
  <2>4. wait' \in [Procs -> Waits] /\ \A q \in Procs : wait'[q].then # "idle" <=> pc'[q] \in {"relock", "compare"}
    BY <2>1, <2>2, <2>3 DEF TypeOK, Waits
  <2> QED BY <2>1, <2>2, <2>4 DEF TypeOK, Waits
<1>3. CASE Snapshot(p) /\ ~Refuse(p)
  <2> DEFINE pending == {v \in Present(p) : Status(p, v) = "pending"}
             x == IF pending = {} THEN 0 ELSE CHOOSE v \in pending : \A w \in pending : v <= w
  <2>1. /\ pc[p] \in {"start", "snapshot"} /\ at' = [at EXCEPT ![p] = x]
        /\ pc' = [pc EXCEPT ![p] = "final"] \/ pc' = [pc EXCEPT ![p] = "next"]
        /\ UNCHANGED <<table, rows, effects, cat, lock, op, mine, snap, native, session, wait, faults, edits>>
    BY <1>3 DEF Snapshot
  <2>2. x \in Versions \cup {0}
    BY SnapshotAt
  <2> HIDE DEF x
  <2> QED BY <2>1, <2>2 DEF TypeOK
<1>4. CASE Final(p) /\ ~Refuse(p)
  BY <1>4 DEF Final, TypeOK
<1> QED BY <1>1, <1>2, <1>3, <1>4

(* The transactions and the worker keep typing. *)
LEMMA WriteType ==
    ASSUME TypeOK, Tampers = {}, driver' = driver, NEW p \in Procs, WorkingAt(p), Locking,
           Bootstrap(p) \/ Required(p) \/ Mark(p) \/ Work(p) \/ Record(p) \/ RepairRow(p)
    PROVE  TypeOK'
<1> USE Facts
<1>0. at' = at /\ snap' = snap /\ native' = native =>
        /\ at' \in [Procs -> Versions \cup {0}] /\ snap' \in [Procs -> Histories]
        /\ native' \in [Procs -> {"none", "ok", "err"}]
  BY DEF TypeOK
<1>1. CASE Bootstrap(p)
  <2>1. pc[p] = "start" /\ Commit(p, rows, effects, "bootstrap", "snapshot") /\ UNCHANGED <<at, snap, native>>
    BY <1>1 DEF Bootstrap
  <2>2. rows \in Histories /\ effects \in [Versions -> 0..2]
    BY DEF TypeOK
  <2> QED BY <1>0, <2>1, <2>2, CommitType
<1>2. CASE Required(p)
  <2>1. /\ pc[p] = "next" /\ UNCHANGED <<at, snap, native>>
        /\ Commit(p, Recorded(p, "applied"), Once(at[p]), "applied", Following(p))
    BY <1>2 DEF Required
  <2>2. at[p] \in Versions
    BY <2>1 DEF WorkingAt
  <2>3. Recorded(p, "applied") \in Histories /\ Once(at[p]) \in [Versions -> 0..2]
    BY <2>2, RowType DEF Statuses
  <2>4. Following(p) \in {"following", "final"}
    BY DEF Following
  <2> QED BY <1>0, <2>1, <2>3, <2>4, CommitType
<1>3. CASE Mark(p)
  <2>1. /\ pc[p] = "next" /\ UNCHANGED <<at, native>>
        /\ snap' = [snap EXCEPT ![p] = Recorded(p, "applying")]
        /\ Commit(p, Recorded(p, "applying"), effects, "applying", "work")
    BY <1>3 DEF Mark
  <2>2. at[p] \in Versions
    BY <2>1 DEF WorkingAt
  <2>3. Recorded(p, "applying") \in Histories /\ effects \in [Versions -> 0..2]
    BY <2>2, RowType DEF Statuses, TypeOK
  <2>4. snap' \in [Procs -> Histories]
    BY <2>1, <2>3 DEF TypeOK
  <2> QED BY <1>0, <2>1, <2>3, <2>4, CommitType DEF TypeOK
<1>4. CASE Work(p)
  <2>1. at[p] \in Versions
    BY <1>4 DEF WorkingAt, Work
  <2>2. Once(at[p]) \in [Versions -> 0..2]
    BY <2>1, RowType
  <2>3. /\ pc[p] = "work" /\ pc' = [pc EXCEPT ![p] = "record"] /\ UNCHANGED <<table, rows>>
        /\ effects' = Once(at[p]) \/ effects' = effects
        /\ UNCHANGED <<cat, lock, op, mine, at, snap, session, wait, edits>>
        /\ native' = [native EXCEPT ![p] = "ok"] \/ native' = [native EXCEPT ![p] = "err"]
        /\ faults' = faults \/ (faults < MaxFaults /\ faults' = faults + 1)
    BY <1>4 DEF Work, Fault, Goto, dbVars
  <2>4. faults' \in 0..MaxFaults
    BY <2>3 DEF TypeOK
  <2> QED BY <2>2, <2>3, <2>4 DEF TypeOK
<1>5. CASE Record(p)
  <2>1. /\ pc[p] = "record" /\ UNCHANGED <<at, snap, native>>
        /\ \/ \E t \in {"following", "final", "failed"} :
                Commit(p, Recorded(p, Outcome(p)), effects, Outcome(p), t)
           \/ Commit(p, snap[p], effects, "applying", "failed")
    BY <1>5 DEF Record, Restored, Following
  <2>2. at[p] \in Versions /\ Outcome(p) \in {"applied", "failed"}
    BY <2>1 DEF WorkingAt, Outcome
  <2>3. /\ Recorded(p, Outcome(p)) \in Histories /\ snap[p] \in Histories
        /\ effects \in [Versions -> 0..2]
    BY <2>2, RowType DEF Statuses, TypeOK
  <2> QED BY <1>0, <2>1, <2>2, <2>3, CommitType
<1>6. CASE RepairRow(p)
  <2>1. CASE Refuse(p)
    BY <2>1, EndType
  <2>2. CASE ~Refuse(p)
    <3> DEFINE v == op[p].v
               r == IF op[p].do = "accept" THEN [rows[v] EXCEPT !.st = "applied"] ELSE NoRow
               f == IF op[p].do = "accept" THEN "applied" ELSE "cleared"
    <3>1. /\ pc[p] = "repair" /\ at' = [at EXCEPT ![p] = v] /\ UNCHANGED <<snap, native>>
          /\ Commit(p, [rows EXCEPT ![v] = r], effects, f, "repaired")
      BY <1>6, <2>2 DEF RepairRow
    <3>2. v \in Versions
      BY <3>1 DEF Locking
    <3>3. r \in [st : Statuses, id : 0..2]
      <4>1. rows[v] \in [st : Statuses, id : 0..2]
        BY <3>2, Typed
      <4> QED BY <4>1 DEF Statuses
    <3> HIDE DEF v, r
    <3>4. [rows EXCEPT ![v] = r] \in Histories /\ effects \in [Versions -> 0..2]
      BY <3>2, <3>3, RowType DEF TypeOK
    <3>5. /\ at' \in [Procs -> Versions \cup {0}] /\ snap' \in [Procs -> Histories]
          /\ native' \in [Procs -> {"none", "ok", "err"}]
      BY <3>1, <3>2 DEF TypeOK
    <3>6. f \in {"applied", "cleared"}
      OBVIOUS
    <3> HIDE DEF f
    <3> QED BY <3>1, <3>4, <3>5, <3>6, CommitType
  <2> QED BY <2>1, <2>2
<1> QED BY <1>1, <1>2, <1>3, <1>4, <1>5, <1>6

-----------------------------------------------------------------------------
(* The invariant *)

(* The step of a command leaves the others' variables alone. *)
OnlyCommand(p) ==
    \A q \in Procs : q # p =>
        /\ pc'[q] = pc[q] /\ op'[q] = op[q] /\ mine'[q] = mine[q] /\ at'[q] = at[q]
        /\ snap'[q] = snap[q] /\ native'[q] = native[q] /\ session'[q] = session[q]
        /\ wait'[q] = wait[q]

(* The history starts empty. *)
LEMMA InvInit == Init => HistoryInv
<1> SUFFICES ASSUME Init PROVE HistoryInv
  OBVIOUS
<1>1. /\ \A p \in Procs : pc[p] = "idle" /\ session[p] = TRUE /\ wait[p].then = "idle" /\ op[p] = Check
                          /\ mine[p] = cat
      /\ \A v \in Versions : rows[v].st = "none" /\ effects[v] = 0 /\ cat[v] = 1
  BY DEF Init, NoWait, NoRows, NoRow
<1>2. Locking
  BY <1>1, Facts DEF Init, Locking
<1>3. Catalogs
  BY <1>1 DEF Catalogs, Prefix
<1>4. History
  BY <1>1 DEF History, AppliedIsReal, Init
<1>5. Commands
  BY <1>1 DEF Commands, WorkingAt, RepairingAt, CurrentAt, OnceAt, Repairs, Marked
<1>6. OnlyOnce
  BY <1>1 DEF OnlyOnce
<1> QED BY <1>2, <1>3, <1>4, <1>5, <1>6 DEF HistoryInv

(* A step that leaves rows and effects alone keeps the invariant when it   *)
(* keeps it for the command that takes it.                                 *)
LEMMA QuietStep ==
    ASSUME TypeOK, HistoryInv, NEW p \in Procs, OnlyCommand(p),
           UNCHANGED <<driver, rows, effects>>, table => table',
           Locking', Catalogs',
           WorkingAt(p)', CurrentAt(p)', OnceAt(p)', RepairingAt(p)',
           \A q \in Procs : q # p /\ Repairs(q) => Early(p)'
    PROVE  HistoryInv'
<1>1. History' /\ (driver = "sqlite" => OnlyOnce)'
  BY DEF HistoryInv, History, AppliedIsReal, OnlyOnce
<1>2. ASSUME NEW q \in Procs, q # p
      PROVE  (WorkingAt(q) /\ RepairingAt(q) /\ CurrentAt(q) /\ OnceAt(q))'
  <2>1. WorkingAt(q) /\ RepairingAt(q) /\ CurrentAt(q) /\ OnceAt(q)
    BY DEF HistoryInv, Commands
  <2>2. /\ pc'[q] = pc[q] /\ op'[q] = op[q] /\ mine'[q] = mine[q] /\ at'[q] = at[q]
        /\ snap'[q] = snap[q] /\ native'[q] = native[q] /\ session'[q] = session[q]
        /\ wait'[q] = wait[q]
    BY <1>2 DEF OnlyCommand
  <2>3. WorkingAt(q)'
    BY <2>1, <2>2 DEF WorkingAt, Marked
  <2>4. CurrentAt(q)' /\ OnceAt(q)'
    BY <2>1, <2>2 DEF CurrentAt, OnceAt, Marked
  <2>5. RepairingAt(q)'
    <3>1. \A r \in Procs : r # q /\ r # p => (Early(r) <=> Early(r)')
      BY DEF OnlyCommand, Early
    <3>2. Repairs(q)' <=> Repairs(q)
      BY <2>2 DEF Repairs
    <3> QED BY <1>2, <2>1, <2>2, <3>1, <3>2 DEF RepairingAt
  <2> QED BY <2>3, <2>4, <2>5
<1>3. Commands'
  BY <1>2 DEF Commands
<1> QED BY <1>1, <1>3 DEF HistoryInv

(* The end of a command. *)
LEMMA EndInv ==
    ASSUME TypeOK, HistoryInv, driver' = driver, NEW p \in Procs, Refuse(p) \/ Crash(p)
    PROVE  HistoryInv'
<1>1. End(p) /\ UNCHANGED <<table, rows, effects, cat>>
  BY DEF Refuse, Crash, dbVars
<1>2. /\ pc'[p] = "idle" /\ session'[p] = TRUE /\ wait'[p].then = "idle" /\ mine'[p] = [v \in Versions |-> 1]
      /\ lock' = IF lock = p THEN NoProc ELSE lock
      /\ OnlyCommand(p)
  BY <1>1 DEF End, Goto, OnlyCommand, TypeOK, NoWait
<1>3. Locking'
  BY <1>2, Facts DEF HistoryInv, Locking, OnlyCommand
<1>4. Catalogs'
  <2>1. Prefix(mine'[p])
    BY <1>2 DEF Prefix
  <2> QED BY <1>1, <1>2, <2>1 DEF HistoryInv, Catalogs, OnlyCommand, Prefix
<1>5. WorkingAt(p)' /\ CurrentAt(p)' /\ OnceAt(p)' /\ RepairingAt(p)' /\ Early(p)'
  BY <1>2 DEF WorkingAt, CurrentAt, OnceAt, RepairingAt, Repairs, Early, Marked
<1> QED BY <1>1, <1>2, <1>3, <1>4, <1>5, QuietStep

(* A command begins.  An operator's repair finds its row dirty and nobody  *)
(* at work.                                                                *)
LEMMA BeginInv ==
    ASSUME TypeOK, HistoryInv, driver' = driver, NEW p \in Procs,
           NEW o \in {Migrate, Check} \cup Repair, Begin(p, o)
    PROVE  HistoryInv'
<1>1. /\ pc[p] = "idle" /\ UNCHANGED <<table, rows, effects, cat, lock, at, snap, native, wait>>
      /\ pc' = [pc EXCEPT ![p] = "lock"] /\ op' = [op EXCEPT ![p] = o]
      /\ mine' = [mine EXCEPT ![p] = cat] /\ session' = [session EXCEPT ![p] = TRUE]
      /\ o \in Repair => Operator(o)
  BY DEF Begin, dbVars
<1>2. /\ pc'[p] = "lock" /\ op'[p] = o /\ mine'[p] = cat /\ session'[p] = TRUE
      /\ wait'[p].then = "idle" /\ OnlyCommand(p)
  BY <1>1 DEF OnlyCommand, TypeOK
<1>3. Locking'
  BY <1>1, <1>2 DEF HistoryInv, Locking, OnlyCommand
<1>4. Catalogs'
  BY <1>1, <1>2 DEF HistoryInv, Catalogs, OnlyCommand, Prefix
<1>5. WorkingAt(p)' /\ CurrentAt(p)' /\ OnceAt(p)'
  BY <1>2 DEF WorkingAt, CurrentAt, OnceAt, Marked
<1>6. RepairingAt(p)'
  <2> SUFFICES ASSUME o \in Repair
               PROVE  /\ rows[o.v].st \in Dirty
                      /\ o.do = "accept" <=> effects[o.v] > 0
                      /\ \A q \in Procs : q # p => Early(q)'
    BY <1>1, <1>2 DEF RepairingAt, Repairs
  <2>1. Operator(o)
    BY <1>1
  <2>2. rows[o.v].st \in Dirty /\ (o.do = "accept" <=> effects[o.v] > 0)
    BY <2>1 DEF Operator, Dirty
  <2>3. ASSUME NEW q \in Procs, q # p PROVE Early(q)'
    BY <1>2, <2>1, <2>3, Facts DEF Operator, Early, OnlyCommand
  <2> QED BY <2>2, <2>3
<1>7. ASSUME NEW q \in Procs, q # p, Repairs(q) PROVE Early(p)'
  <2>1. o \notin Repair
    BY <1>1, <1>7, Facts DEF Operator, Repairs
  <2> QED BY <1>2, <2>1 DEF Early
<1> QED BY <1>1, <1>2, <1>3, <1>4, <1>5, <1>6, <1>7, QuietStep

(* The locks are taken, and lost with the session. *)
LEMMA LockInv ==
    ASSUME TypeOK, HistoryInv, driver' = driver, NEW p \in Procs,
           Acquire(p) \/ Relock(p) \/ LoseSession(p)
    PROVE  HistoryInv'
<1> DEFINE x == IF op[p] = Migrate THEN "start" ELSE IF op[p] = Check THEN "final" ELSE "repair"
<1>1. /\ UNCHANGED <<table, rows, effects, cat, op, mine, at, snap, native, wait>>
      /\ \/ /\ pc[p] = "lock" /\ lock = NoProc /\ lock' = p /\ pc' = [pc EXCEPT ![p] = x] /\ session' = session
         \/ /\ pc[p] = "relock" /\ lock = NoProc /\ lock' = p /\ pc' = [pc EXCEPT ![p] = "compare"] /\ session' = session
         \/ /\ driver = "postgres" /\ pc[p] \in {"work", "record"} /\ session[p] /\ lock' = NoProc /\ pc' = pc
            /\ session' = [session EXCEPT ![p] = FALSE]
  BY DEF Acquire, Relock, LoseSession, Goto, dbVars
<1>2. /\ OnlyCommand(p)
      /\ \/ pc[p] = "lock" /\ lock = NoProc /\ lock' = p /\ pc'[p] = x /\ session'[p] = session[p]
         \/ pc[p] = "relock" /\ lock = NoProc /\ lock' = p /\ pc'[p] = "compare" /\ session'[p] = session[p]
         \/ /\ driver = "postgres" /\ pc[p] \in {"work", "record"} /\ session[p] /\ lock' = NoProc /\ pc'[p] = pc[p]
            /\ ~session'[p]
  BY <1>1 DEF OnlyCommand, TypeOK
<1>3. op'[p] = op[p] /\ at'[p] = at[p] /\ snap'[p] = snap[p] /\ native'[p] = native[p] /\ wait'[p] = wait[p]
      /\ mine'[p] = mine[p]
  BY <1>1
<1>4. /\ x \in {"start", "final", "repair"}
      /\ x = "repair" <=> op[p] \in Repair
  BY Facts DEF TypeOK
<1> HIDE DEF x
<1>5. Locking'
  BY <1>1, <1>2, <1>3, <1>4, Facts DEF HistoryInv, Locking, OnlyCommand
<1>6. Catalogs'
  BY <1>1 DEF HistoryInv, Catalogs, Prefix
<1>7. WorkingAt(p) /\ CurrentAt(p) /\ OnceAt(p) /\ RepairingAt(p)
  BY DEF HistoryInv, Commands
<1>8. WorkingAt(p)'
  BY <1>1, <1>2, <1>3, <1>4, <1>7 DEF WorkingAt, Marked
<1>9. CurrentAt(p)' /\ OnceAt(p)'
  BY <1>1, <1>2, <1>3, <1>4, <1>7 DEF CurrentAt, OnceAt, Marked
<1>10. RepairingAt(p)'
  <2>1. \A q \in Procs : q # p => (Early(q) <=> Early(q)')
    BY <1>2 DEF OnlyCommand, Early
  <2>2. Repairs(p)' => Repairs(p)
    BY <1>2, <1>3, <1>4 DEF Repairs
  <2> QED BY <1>1, <1>3, <1>7, <2>1, <2>2 DEF RepairingAt
<1>11. ASSUME NEW q \in Procs, q # p, Repairs(q) PROVE Early(p)'
  <2>1. Early(p)
    BY <1>11 DEF HistoryInv, Commands, RepairingAt
  <2> QED BY <1>2, <1>3, <1>4, <2>1 DEF Early
<1> QED BY <1>1, <1>2, <1>5, <1>6, <1>8, <1>9, <1>10, <1>11, QuietStep

(* While a repair is under way a command that looks at the history is      *)
(* refused.                                                                *)
LEMMA RepairRefuses ==
    ASSUME TypeOK, HistoryInv, NEW p \in Procs, NEW q \in Procs, q # p, Repairs(q)
    PROVE  Early(p) /\ ~CanMigrate(p) /\ ~IsCurrent(p)
<1>1. /\ Early(p) /\ op[q] \in Repair /\ rows[op[q].v].st \in Dirty
  BY DEF HistoryInv, Commands, RepairingAt, Repairs
<1> QED BY <1>1, DirtyStops, Facts

(* Looking at the history: a snapshot, a lost commit, the final report. *)
LEMMA LookInv ==
    ASSUME TypeOK, HistoryInv, driver' = driver, NEW p \in Procs,
           Compare(p) \/ Snapshot(p) \/ Final(p) \/ Advance(p)
    PROVE  HistoryInv'
<1> USE DEF Goto, dbVars
<1>1. CASE Refuse(p)
  BY <1>1, EndInv
<1>2. CASE ~Refuse(p)
  <2> DEFINE S == {v \in Present(p) : Status(p, v) = "pending"}
  <2>1. UNCHANGED <<table, rows, effects, cat, lock, op, mine, snap, native, session>>
    BY <1>2 DEF Compare, Snapshot, Final, Advance
  <2>2. \/ /\ pc[p] = "compare" /\ table /\ Reconciled(p) /\ pc' = [pc EXCEPT ![p] = wait[p].then]
           /\ wait' = [wait EXCEPT ![p] = NoWait] /\ at' = at
        \/ /\ pc[p] \in {"start", "snapshot"} /\ CanMigrate(p) /\ wait' = wait
           /\ \/ pc' = [pc EXCEPT ![p] = "final"] /\ at' = [at EXCEPT ![p] = 0]
              \/ /\ pc' = [pc EXCEPT ![p] = "next"] /\ S # {}
                 /\ at' = [at EXCEPT ![p] = CHOOSE v \in S : \A w \in S : v <= w]
        \/ pc[p] = "final" /\ IsCurrent(p) /\ pc' = [pc EXCEPT ![p] = "current"] /\ wait' = wait /\ at' = at
        \/ pc[p] = "following" /\ pc' = [pc EXCEPT ![p] = "next"] /\ at' = [at EXCEPT ![p] = @ + 1] /\ wait' = wait
    BY <1>2 DEF Compare, Snapshot, Final, Advance
  <2>3. S # {} => (CHOOSE v \in S : \A w \in S : v <= w) \in Versions
    BY SnapshotAt
  <2>4. DOMAIN pc = Procs /\ DOMAIN wait = Procs /\ DOMAIN at = Procs /\ NoWait.then = "idle"
    BY DEF TypeOK, NoWait
  <2> HIDE DEF S
  <2>5. OnlyCommand(p)
    <3>1. /\ \E x : pc' = [pc EXCEPT ![p] = x]
          /\ at' = at \/ \E x : at' = [at EXCEPT ![p] = x]
          /\ wait' = wait \/ wait' = [wait EXCEPT ![p] = NoWait]
      BY <2>2, Zenon
    <3>2. \A q \in Procs : q # p => pc'[q] = pc[q] /\ at'[q] = at[q] /\ wait'[q] = wait[q]
      BY <2>4, <3>1
    <3> QED BY <2>1, <3>2 DEF OnlyCommand
  <2>6. \/ /\ pc[p] = "compare" /\ table /\ Reconciled(p) /\ pc'[p] = wait[p].then
           /\ wait'[p].then = "idle" /\ at'[p] = at[p]
        \/ /\ pc[p] \in {"start", "snapshot"} /\ CanMigrate(p) /\ wait'[p] = wait[p]
           /\ pc'[p] = "final" \/ (pc'[p] = "next" /\ at'[p] \in Versions)
        \/ pc[p] = "final" /\ IsCurrent(p) /\ pc'[p] = "current" /\ wait'[p] = wait[p] /\ at'[p] = at[p]
        \/ pc[p] = "following" /\ pc'[p] = "next" /\ at'[p] = at[p] + 1 /\ wait'[p] = wait[p]
    <3>1. CASE /\ pc[p] = "compare" /\ table /\ Reconciled(p) /\ pc' = [pc EXCEPT ![p] = wait[p].then]
               /\ wait' = [wait EXCEPT ![p] = NoWait] /\ at' = at
      <4>1. pc'[p] = wait[p].then /\ wait'[p] = NoWait /\ at'[p] = at[p]
        BY <2>4, <3>1
      <4> QED BY <2>4, <3>1, <4>1
    <3>2. CASE /\ pc[p] \in {"start", "snapshot"} /\ CanMigrate(p) /\ wait' = wait
               /\ \/ pc' = [pc EXCEPT ![p] = "final"] /\ at' = [at EXCEPT ![p] = 0]
                  \/ /\ pc' = [pc EXCEPT ![p] = "next"] /\ S # {}
                     /\ at' = [at EXCEPT ![p] = CHOOSE v \in S : \A w \in S : v <= w]
      BY <2>4, <2>3, <3>2
    <3>3. CASE pc[p] = "final" /\ IsCurrent(p) /\ pc' = [pc EXCEPT ![p] = "current"] /\ wait' = wait /\ at' = at
      BY <2>4, <3>3
    <3>4. CASE pc[p] = "following" /\ pc' = [pc EXCEPT ![p] = "next"] /\ at' = [at EXCEPT ![p] = @ + 1] /\ wait' = wait
      BY <2>4, <3>4
    <3> QED BY <2>2, <3>1, <3>2, <3>3, <3>4
  <2>7. wait[p].then \in {"idle", "snapshot", "work", "following", "final", "failed", "repaired"}
        /\ (pc[p] # "compare" /\ pc[p] # "relock" => wait[p].then = "idle")
        /\ (pc[p] = "compare" => wait[p].then # "idle")
    BY DEF TypeOK
  <2>8. Locking'
    BY <2>1, <2>5, <2>6, <2>7 DEF HistoryInv, Locking, OnlyCommand
  <2>9. Catalogs'
    BY <2>1 DEF HistoryInv, Catalogs, Prefix
  <2>10. WorkingAt(p) /\ CurrentAt(p) /\ OnceAt(p) /\ RepairingAt(p)
    BY DEF HistoryInv, Commands
  <2>11. pc'[p] = "work" => /\ Marked(p) /\ table /\ rows = snap[p] /\ at'[p] = at[p]
    BY <2>5, <2>6, <2>7, <2>10 DEF Reconciled, WorkingAt, Marked
  <2>12. WorkingAt(p)'
    <3>1. pc'[p] # "record" /\ ~Marked(p)'
      BY <2>5, <2>6, <2>7 DEF Marked
    <3>2. pc'[p] = "next" => at'[p] \in Versions
      BY <2>5, <2>6, <2>7, <2>10 DEF WorkingAt
    <3>3. pc'[p] = "following" \/ wait'[p].then = "following" => at'[p] + 1 \in Versions
      BY <2>5, <2>6, <2>7, <2>10 DEF WorkingAt
    <3>4. pc'[p] = "work" => /\ at'[p] \in Versions /\ snap'[p][at'[p]].st = "applying"
                             /\ rows'[at'[p]].st # "none" /\ table' /\ rows' = snap'[p]
      BY <2>1, <2>10, <2>11 DEF WorkingAt
    <3> QED BY <3>1, <3>2, <3>3, <3>4 DEF WorkingAt
  <2>13. CurrentAt(p)'
    <3>1. CASE pc'[p] # "current"
      BY <3>1 DEF CurrentAt
    <3>2. CASE pc'[p] = "current"
      <4>1. IsCurrent(p)
        BY <2>5, <2>6, <2>7, <3>2
      <4>2. \A v \in Versions : mine[p][v] # 0 => rows[v] = [st |-> "applied", id |-> mine[p][v]]
        BY <4>1, CurrentIs
      <4>3. \A v \in Versions : mine[p][v] # 0 => effects[v] > 0
        <5>1. AppliedIsReal
          BY DEF HistoryInv, History
        <5>2. \A v \in Versions : mine[p][v] # 0 => rows[v].st = "applied"
          <6> SUFFICES ASSUME NEW v \in Versions, mine[p][v] # 0 PROVE rows[v].st = "applied"
            OBVIOUS
          <6>1. rows[v] = [st |-> "applied", id |-> mine[p][v]]
            BY <4>2
          <6> QED BY <6>1
        <5> QED BY <5>1, <5>2 DEF AppliedIsReal
      <4> QED BY <2>1, <4>2, <4>3 DEF CurrentAt
    <3> QED BY <3>1, <3>2
  <2>14. OnceAt(p)'
    <3>1. ~Marked(p)'
      BY <2>5, <2>6, <2>7 DEF Marked
    <3> QED BY <2>1, <2>10, <2>11, <3>1 DEF OnceAt
  <2>15. RepairingAt(p)'
    BY <2>5, <2>6, <2>7 DEF RepairingAt, Repairs
  <2>16. ASSUME NEW q \in Procs, q # p, Repairs(q) PROVE Early(p)'
    <3>1. Early(p) /\ ~CanMigrate(p) /\ ~IsCurrent(p)
      BY <2>16, RepairRefuses
    <3>2. pc[p] # "compare"
      BY <2>5, <2>6, <3>1 DEF Early, Reconciled
    <3> QED BY <2>5, <2>6, <3>1, <3>2 DEF Early
  <2> QED BY <2>1, <2>5, <2>6, <2>8, <2>9, <2>12, <2>13, <2>14, <2>15, <2>16, QuietStep
<1> QED BY <1>1, <1>2

(* Edits of the catalog reach a command only when it begins. *)
LEMMA EditInv ==
    ASSUME TypeOK, HistoryInv, driver' = driver, NEW v \in Versions, NEW id \in 0..2, Edit(v, id)
    PROVE  HistoryInv' /\ TypeOK'
<1>1. /\ UNCHANGED <<table, rows, effects, lock, pc, op, mine, at, snap, native, session, wait, faults>>
      /\ cat' = [cat EXCEPT ![v] = id] /\ edits < MaxEdits /\ edits' = edits + 1
      /\ id = 0 => \A w \in Versions : w > v => cat[w] = 0
      /\ cat[v] = 0 => \A w \in Versions : w < v => cat[w] # 0
  BY DEF Edit, dbVars, procVars
<1>2. Prefix(cat')
  <2> SUFFICES ASSUME NEW u \in Versions, NEW w \in Versions, u < w, cat'[u] = 0 PROVE cat'[w] = 0
    BY DEF Prefix
  <2>1. Prefix(cat) /\ \A x \in Versions : cat'[x] = IF x = v THEN id ELSE cat[x]
    BY <1>1 DEF HistoryInv, Catalogs, TypeOK
  <2>2. CASE u = v
    BY <1>1, <2>1, <2>2, Facts
  <2>3. CASE w = v
    BY <1>1, <2>1, <2>3, Facts DEF Prefix
  <2>4. CASE u # v /\ w # v
    BY <2>1, <2>4 DEF Prefix
  <2> QED BY <2>2, <2>3, <2>4
<1>3. TypeOK'
  <2>1. edits' \in 0..MaxEdits /\ cat' \in [Versions -> 0..2]
    BY <1>1, Facts DEF TypeOK
  <2> QED BY <1>1, <2>1 DEF TypeOK
<1>4. Locking' /\ History'
  BY <1>1 DEF HistoryInv, Locking, History, AppliedIsReal
<1>5. Catalogs'
  BY <1>1, <1>2 DEF HistoryInv, Catalogs, Prefix
<1>6. Commands' /\ (driver = "sqlite" => OnlyOnce)'
  <2>1. ASSUME NEW p \in Procs PROVE (WorkingAt(p) /\ RepairingAt(p) /\ CurrentAt(p) /\ OnceAt(p))'
    <3>1. WorkingAt(p) /\ RepairingAt(p) /\ CurrentAt(p) /\ OnceAt(p)
      BY DEF HistoryInv, Commands
    <3>2. WorkingAt(p)' /\ CurrentAt(p)' /\ OnceAt(p)'
      BY <1>1, <3>1 DEF WorkingAt, CurrentAt, OnceAt, Marked
    <3>3. RepairingAt(p)'
      BY <1>1, <3>1 DEF RepairingAt, Repairs, Early
    <3> QED BY <3>2, <3>3
  <2> QED BY <1>1, <2>1 DEF Commands, HistoryInv, OnlyOnce
<1> QED BY <1>3, <1>4, <1>5, <1>6 DEF HistoryInv

-----------------------------------------------------------------------------
(* Steps that write the history *)

(* A row that is not applied may be written when the files before it are   *)
(* applied: the later ones have no rows.                                   *)
LEMMA HistoryStep ==
    ASSUME TypeOK, History, NEW v \in Versions, table', effects'[v] \in Nat,
           \A w \in Versions : w # v => rows'[w] = rows[w] /\ effects'[w] = effects[w],
           rows[v].st # "applied",
           rows[v].st = "none" => \A u \in Versions : u < v => rows[u].st = "applied",
           effects'[v] > 0 => rows'[v].st # "none",
           rows'[v].st = "applied" => effects'[v] > 0
    PROVE  History'
<1>1. \A u, w \in Versions : u < w /\ rows[w].st # "none" => rows[u].st = "applied"
  BY DEF History
<1>2. \A w \in Versions : effects[w] > 0 => rows[w].st # "none"
  BY DEF History
<1>3. \A w \in Versions : rows[w].st = "applied" => effects[w] > 0
  BY DEF History, AppliedIsReal
<1>4. \A w \in Versions : effects'[w] > 0 => rows'[w].st # "none"
  BY <1>2
<1>5. \A w \in Versions : rows'[w].st = "applied" => effects'[w] > 0
  BY <1>3
<1>6. ASSUME NEW u \in Versions, NEW w \in Versions, u < w, rows'[w].st # "none"
      PROVE  rows'[u].st = "applied"
  <2>1. u # w /\ u \in Nat /\ w \in Nat
    BY <1>6, Facts
  <2>2. CASE w = v
    BY <1>1, <1>6, <2>1, <2>2
  <2>3. CASE w # v
    <3>1. rows[u].st = "applied"
      BY <1>1, <1>6, <2>3
    <3> QED BY <3>1
  <2> QED BY <2>2, <2>3
<1> QED BY <1>4, <1>5, <1>6 DEF History, AppliedIsReal

(* What a commit does to the command that makes it. *)
LEMMA CommitFrame ==
    ASSUME TypeOK, HistoryInv, driver' = driver, NEW p \in Procs, NEW nr, NEW ne,
           NEW f, f \in {"bootstrap", "applied", "applying", "failed", "cleared"},
           NEW t, t \in {"snapshot", "work", "following", "final", "failed", "repaired"},
           Commit(p, nr, ne, f, t), pc[p] \in {"start", "next", "record", "repair"}, session[p],
           \A q \in Procs : q # p => at'[q] = at[q] /\ snap'[q] = snap[q] /\ native'[q] = native[q]
    PROVE  /\ lock = p /\ OnlyCommand(p) /\ Locking' /\ Catalogs' /\ CurrentAt(p)' /\ RepairingAt(p)'
           /\ op'[p] = op[p] /\ mine'[p] = mine[p] /\ session'[p] = session[p]
           /\ \/ table' = TRUE /\ rows' = nr /\ effects' = ne
              \/ UNCHANGED <<table, rows, effects>>
           /\ \/ pc'[p] = t /\ wait'[p].then = "idle" /\ table' = TRUE /\ rows' = nr /\ effects' = ne
              \/ pc'[p] \in {"relock", "compare"} /\ wait'[p].for = f /\ wait'[p].then = t
<1>1. /\ UNCHANGED <<cat, op, mine, session>>
      /\ \/ table' = TRUE /\ rows' = nr /\ effects' = ne
         \/ UNCHANGED <<table, rows, effects>>
      /\ \/ /\ table' = TRUE /\ rows' = nr /\ effects' = ne
            /\ pc' = [pc EXCEPT ![p] = t] /\ UNCHANGED <<lock, wait>>
         \/ /\ wait' = [wait EXCEPT ![p] = [for |-> f, then |-> t]]
            /\ \/ driver = "sqlite" /\ pc' = [pc EXCEPT ![p] = "compare"] /\ lock' = lock
               \/ driver # "sqlite" /\ pc' = [pc EXCEPT ![p] = "relock"] /\ lock' = NoProc
  BY DEF Commit, Lost, LockKept, Goto, dbVars
<1>2. DOMAIN pc = Procs /\ DOMAIN wait = Procs /\ wait[p].then = "idle" /\ lock = p
  BY DEF TypeOK, HistoryInv, Locking
<1>3. driver = "sqlite" \/ driver = "postgres"
  BY MigrationsAssumption DEF MigrationsConstants, TypeOK
<1>4. OnlyCommand(p)
  <2>1. \E x : pc' = [pc EXCEPT ![p] = x]
    BY <1>1, Zenon
  <2>2. wait' = wait \/ \E x : wait' = [wait EXCEPT ![p] = x]
    BY <1>1, Zenon
  <2>3. \A q \in Procs : q # p => pc'[q] = pc[q] /\ wait'[q] = wait[q]
    BY <1>2, <2>1, <2>2
  <2> QED BY <1>1, <2>3 DEF OnlyCommand
<1>5. \/ /\ pc'[p] = t /\ wait'[p].then = "idle" /\ table' = TRUE /\ rows' = nr /\ effects' = ne
         /\ lock' = lock
      \/ /\ pc'[p] = "compare" /\ driver = "sqlite" /\ lock' = lock /\ wait'[p].for = f /\ wait'[p].then = t
      \/ /\ pc'[p] = "relock" /\ driver = "postgres" /\ lock' = NoProc /\ wait'[p].for = f /\ wait'[p].then = t
  <2>1. CASE /\ table' = TRUE /\ rows' = nr /\ effects' = ne
             /\ pc' = [pc EXCEPT ![p] = t] /\ UNCHANGED <<lock, wait>>
    BY <1>2, <2>1
  <2>2. CASE /\ wait' = [wait EXCEPT ![p] = [for |-> f, then |-> t]]
             /\ \/ driver = "sqlite" /\ pc' = [pc EXCEPT ![p] = "compare"] /\ lock' = lock
                \/ driver # "sqlite" /\ pc' = [pc EXCEPT ![p] = "relock"] /\ lock' = NoProc
    <3>1. wait'[p] = [for |-> f, then |-> t]
      BY <1>2, <2>2
    <3>2. wait'[p].for = f /\ wait'[p].then = t
      BY <3>1
    <3>3. \/ driver = "sqlite" /\ pc'[p] = "compare" /\ lock' = lock
          \/ driver # "sqlite" /\ pc'[p] = "relock" /\ lock' = NoProc
      BY <1>2, <2>2
    <3> QED BY <1>3, <3>2, <3>3
  <2> QED BY <1>1, <2>1, <2>2
<1>6. Locking'
  BY <1>1, <1>2, <1>4, <1>5, Facts DEF HistoryInv, Locking, OnlyCommand
<1>7. Catalogs'
  BY <1>1 DEF HistoryInv, Catalogs, Prefix
<1>8. CurrentAt(p)' /\ RepairingAt(p)'
  BY <1>5 DEF CurrentAt, RepairingAt, Repairs
<1> QED BY <1>1, <1>2, <1>4, <1>5, <1>6, <1>7, <1>8

(* A command that writes one row, or whose file takes effect, disturbs     *)
(* nobody else: the others lost their lock or wait for it, and a repair    *)
(* has nobody at work beside it.                                           *)
LEMMA WriteStep ==
    ASSUME TypeOK, HistoryInv, driver' = driver, NEW p \in Procs, NEW v \in Versions, OnlyCommand(p),
           table => table', ~Early(p),
           \A w \in Versions : w # v => rows'[w] = rows[w] /\ effects'[w] = effects[w],
           effects[v] > 0 => effects'[v] > 0,
           lock = p \/ driver = "postgres",
           \/ rows' = rows
           \/ /\ lock = p /\ rows[v].st # "applied"
              /\ rows'[v].st # "none" \/ \A q \in Procs : q # p => Early(q),
           Locking', Catalogs', History', WorkingAt(p)', CurrentAt(p)', OnceAt(p)', RepairingAt(p)',
           (driver = "sqlite" => OnlyOnce)'
    PROVE  HistoryInv'
<1>1. ASSUME NEW q \in Procs, q # p
      PROVE  (WorkingAt(q) /\ RepairingAt(q) /\ CurrentAt(q) /\ OnceAt(q))'
  <2>1. WorkingAt(q) /\ RepairingAt(q) /\ CurrentAt(q) /\ OnceAt(q) /\ Locking
    BY DEF HistoryInv, Commands
  <2>2. /\ pc'[q] = pc[q] /\ op'[q] = op[q] /\ mine'[q] = mine[q] /\ at'[q] = at[q]
        /\ snap'[q] = snap[q] /\ native'[q] = native[q] /\ session'[q] = session[q]
        /\ wait'[q] = wait[q]
    BY <1>1 DEF OnlyCommand
  <2>3. pc[q] \in {"work", "record"} => at[q] \in Versions /\ rows[at[q]].st # "none" /\ ~Early(q)
    BY <2>1 DEF WorkingAt, Early
  <2>4. pc[q] \in {"work", "record"} => rows'[at[q]].st # "none"
    BY <1>1, <2>3
  <2>5. pc[q] \in {"work", "record"} /\ session[q] => table' /\ rows' = snap[q]
    BY <1>1, <2>1 DEF WorkingAt, Locking
  <2>6. pc[q] = "record" /\ native[q] = "ok" => effects'[at[q]] > 0
    BY <2>1, <2>3 DEF WorkingAt
  <2>7. WorkingAt(q)'
    BY <2>1, <2>2, <2>4, <2>5, <2>6 DEF WorkingAt, Marked
  <2>8. RepairingAt(q)'
    <3>1. ~Repairs(q)
      BY <1>1, <2>1 DEF RepairingAt
    <3> QED BY <2>2, <3>1 DEF RepairingAt, Repairs
  <2>9. CurrentAt(q)'
    <3> SUFFICES ASSUME pc[q] = "current", NEW w \in Versions, mine[q][w] # 0
                 PROVE  effects'[w] > 0 /\ rows'[w] = [st |-> "applied", id |-> mine[q][w]]
      BY <2>2 DEF CurrentAt
    <3>1. effects[w] > 0 /\ rows[w] = [st |-> "applied", id |-> mine[q][w]]
      BY <2>1 DEF CurrentAt
    <3>2. rows[w].st = "applied"
      BY <3>1
    <3>3. rows'[w] = rows[w] /\ effects'[w] > 0
      BY <3>1, <3>2
    <3> QED BY <3>1, <3>3
  <2>10. OnceAt(q)'
    <3>1. driver = "sqlite" => lock = p
      OBVIOUS
    <3>2. driver = "sqlite" => ~(pc[q] = "work" \/ Marked(q))
      BY <1>1, <2>1, <3>1 DEF Locking, Marked
    <3> QED BY <2>2, <3>2 DEF OnceAt, Marked
  <2> QED BY <2>7, <2>8, <2>9, <2>10
<1>2. Commands'
  BY <1>1 DEF Commands
<1> QED BY <1>2 DEF HistoryInv

(* The history table is created. *)
LEMMA BootstrapInv ==
    ASSUME TypeOK, HistoryInv, driver' = driver, NEW p \in Procs, Bootstrap(p)
    PROVE  HistoryInv'
<1>1. /\ pc[p] = "start" /\ Commit(p, rows, effects, "bootstrap", "snapshot")
      /\ UNCHANGED <<at, snap, native>> /\ session[p]
  BY DEF Bootstrap, HistoryInv, Locking
<1>2. /\ OnlyCommand(p) /\ Locking' /\ Catalogs' /\ CurrentAt(p)' /\ RepairingAt(p)'
      /\ UNCHANGED <<rows, effects>> /\ (table => table')
      /\ \/ pc'[p] = "snapshot" /\ wait'[p].then = "idle"
         \/ pc'[p] \in {"relock", "compare"} /\ wait'[p].for = "bootstrap" /\ wait'[p].then = "snapshot"
  BY <1>1, CommitFrame
<1>3. WorkingAt(p)' /\ OnceAt(p)' /\ Early(p)'
  BY <1>2 DEF WorkingAt, OnceAt, Marked, Early
<1> QED BY <1>2, <1>3, QuietStep

(* A Required file and its row are one transaction. *)
LEMMA RequiredInv ==
    ASSUME TypeOK, HistoryInv, driver' = driver, NEW p \in Procs, Required(p)
    PROVE  HistoryInv'
<1> DEFINE v == at[p]
           r == [st |-> "applied", id |-> mine[p][at[p]]]
<1>1. /\ pc[p] = "next" /\ Ready(p, v) /\ UNCHANGED <<at, snap, native>>
      /\ Commit(p, Recorded(p, "applied"), Once(v), "applied", Following(p))
  BY DEF Required
<1>2. session[p] /\ v \in Versions
  BY <1>1 DEF HistoryInv, Commands, Locking, WorkingAt
<1>3. Following(p) \in {"following", "final"} /\ (Following(p) = "following" => v + 1 \in Versions)
  BY DEF Following
<1>4. /\ rows[v].st = "none" /\ \A u \in Versions : u < v => rows[u].st = "applied"
  BY <1>1, <1>2, ReadyIs DEF HistoryInv
<1>5. effects[v] = 0
  BY <1>2, <1>4, Typed DEF HistoryInv, History
<1>6. /\ lock = p /\ OnlyCommand(p) /\ Locking' /\ Catalogs' /\ CurrentAt(p)' /\ RepairingAt(p)'
      /\ \/ table' = TRUE /\ rows' = Recorded(p, "applied") /\ effects' = Once(v)
         \/ UNCHANGED <<table, rows, effects>>
      /\ \/ pc'[p] = Following(p) /\ wait'[p].then = "idle"
         \/ pc'[p] \in {"relock", "compare"} /\ wait'[p].for = "applied" /\ wait'[p].then = Following(p)
  BY <1>1, <1>2, <1>3, CommitFrame
<1>7. WorkingAt(p)' /\ OnceAt(p)'
  BY <1>1, <1>3, <1>6 DEF WorkingAt, OnceAt, Marked
<1>8. \/ UNCHANGED <<table, rows, effects>>
      \/ /\ table' /\ rows'[v].st = "applied" /\ effects'[v] = 1
         /\ \A w \in Versions : w # v => rows'[w] = rows[w] /\ effects'[w] = effects[w]
  <2>1. rows \in [Versions -> [st : Statuses, id : 0..2]] /\ effects \in [Versions -> 0..2]
    BY DEF TypeOK, Histories
  <2>2. r.st = "applied"
    OBVIOUS
  <2>3. CASE table' = TRUE /\ rows' = [rows EXCEPT ![v] = r] /\ effects' = [effects EXCEPT ![v] = 1]
    BY <1>2, <2>1, <2>2, <2>3
  <2>4. Once(v) = [effects EXCEPT ![v] = 1]
    BY <1>5 DEF Once
  <2>5. Recorded(p, "applied") = [rows EXCEPT ![v] = r]
    BY DEF Recorded
  <2> HIDE DEF v, r
  <2> QED BY <1>6, <2>3, <2>4, <2>5
<1> HIDE DEF r
<1>9. History'
  <2>1. CASE UNCHANGED <<table, rows, effects>>
    BY <2>1 DEF HistoryInv, History, AppliedIsReal
  <2>2. CASE ~UNCHANGED <<table, rows, effects>>
    BY <1>2, <1>4, <1>8, <2>2, HistoryStep DEF HistoryInv
  <2> QED BY <2>1, <2>2
<1>10. (driver = "sqlite" => OnlyOnce)'
  BY <1>2, <1>8 DEF HistoryInv, OnlyOnce
<1>11. ~Early(p)
  BY <1>1 DEF Early
<1> HIDE DEF v
<1>12. /\ \A w \in Versions : w # v => rows'[w] = rows[w] /\ effects'[w] = effects[w]
       /\ (table => table') /\ (effects[v] > 0 => effects'[v] > 0)
       /\ \/ rows' = rows
          \/ lock = p /\ rows[v].st # "applied" /\ rows'[v].st # "none"
  BY <1>4, <1>6, <1>8
<1> QED BY <1>2, <1>6, <1>7, <1>9, <1>10, <1>11, <1>12, WriteStep

(* A Forbidden file is recorded as Applying before it runs. *)
LEMMA MarkInv ==
    ASSUME TypeOK, HistoryInv, driver' = driver, NEW p \in Procs, Mark(p)
    PROVE  HistoryInv'
<1> DEFINE v == at[p]
           r == [st |-> "applying", id |-> mine[p][at[p]]]
<1>1. /\ pc[p] = "next" /\ Ready(p, v) /\ UNCHANGED <<at, native>>
      /\ snap' = [snap EXCEPT ![p] = Recorded(p, "applying")]
      /\ Commit(p, Recorded(p, "applying"), effects, "applying", "work")
  BY DEF Mark
<1>2. session[p] /\ v \in Versions
  BY <1>1 DEF HistoryInv, Commands, Locking, WorkingAt
<1>3. /\ \A q \in Procs : q # p => at'[q] = at[q] /\ snap'[q] = snap[q] /\ native'[q] = native[q]
      /\ snap'[p] = Recorded(p, "applying") /\ at'[p] = v /\ native'[p] = native[p]
  BY <1>1 DEF TypeOK
<1>4. /\ rows[v].st = "none" /\ \A u \in Versions : u < v => rows[u].st = "applied"
  BY <1>1, <1>2, ReadyIs DEF HistoryInv
<1>5. effects[v] = 0
  BY <1>2, <1>4, Typed DEF HistoryInv, History
<1>6. /\ lock = p /\ OnlyCommand(p) /\ Locking' /\ Catalogs' /\ CurrentAt(p)' /\ RepairingAt(p)'
      /\ \/ table' = TRUE /\ rows' = Recorded(p, "applying") /\ effects' = effects
         \/ UNCHANGED <<table, rows, effects>>
      /\ \/ /\ pc'[p] = "work" /\ wait'[p].then = "idle" /\ table' = TRUE
            /\ rows' = Recorded(p, "applying")
         \/ pc'[p] \in {"relock", "compare"} /\ wait'[p].for = "applying" /\ wait'[p].then = "work"
  BY <1>1, <1>2, <1>3, CommitFrame
<1>7. /\ Recorded(p, "applying")[v].st = "applying"
      /\ \A w \in Versions : w # v => Recorded(p, "applying")[w] = rows[w]
  <2>1. rows \in [Versions -> [st : Statuses, id : 0..2]] /\ r.st = "applying"
    BY DEF TypeOK, Histories
  <2>2. [rows EXCEPT ![v] = r][v] = r /\ \A w \in Versions : w # v => [rows EXCEPT ![v] = r][w] = rows[w]
    BY <1>2, <2>1
  <2> QED BY <2>1, <2>2 DEF Recorded
<1>8. WorkingAt(p)'
  BY <1>2, <1>3, <1>6, <1>7 DEF WorkingAt, Marked
<1>9. OnceAt(p)'
  BY <1>3, <1>5, <1>6 DEF OnceAt
<1>10. /\ effects' = effects
       /\ \/ UNCHANGED <<table, rows>>
          \/ table' /\ rows'[v].st = "applying" /\ \A w \in Versions : w # v => rows'[w] = rows[w]
  BY <1>6, <1>7
<1>11. History'
  <2>1. CASE UNCHANGED <<table, rows>>
    BY <1>10, <2>1 DEF HistoryInv, History, AppliedIsReal
  <2>2. CASE ~UNCHANGED <<table, rows>>
    BY <1>2, <1>4, <1>5, <1>10, <2>2, HistoryStep DEF HistoryInv
  <2> QED BY <2>1, <2>2
<1>12. (driver = "sqlite" => OnlyOnce)'
  BY <1>10 DEF HistoryInv, OnlyOnce
<1>13. ~Early(p)
  BY <1>1 DEF Early
<1> HIDE DEF v
<1>14. /\ \A w \in Versions : w # v => rows'[w] = rows[w] /\ effects'[w] = effects[w]
       /\ (table => table') /\ (effects[v] > 0 => effects'[v] > 0)
       /\ \/ rows' = rows
          \/ lock = p /\ rows[v].st # "applied" /\ rows'[v].st # "none"
  BY <1>4, <1>6, <1>10
<1> QED BY <1>2, <1>6, <1>8, <1>9, <1>11, <1>12, <1>13, <1>14, WriteStep

(* The outcome of a Forbidden file replaces its Applying row: with its     *)
(* session the command finds the history it recorded.                      *)
LEMMA RecordInv ==
    ASSUME TypeOK, HistoryInv, driver' = driver, NEW p \in Procs, Record(p)
    PROVE  HistoryInv'
<1> DEFINE v == at[p]
<1>1. WorkingAt(p)
  BY DEF HistoryInv, Commands
<1>2. /\ pc[p] = "record" /\ session[p] /\ UNCHANGED <<at, snap, native>> /\ v \in Versions
      /\ rows = snap[p] /\ table /\ rows[v].st = "applying"
      /\ native[p] = "ok" => effects[v] > 0
  BY <1>1 DEF Record, WorkingAt
<1>3. \/ /\ Commit(p, Recorded(p, "applied"), effects, "applied", Following(p))
         /\ effects[v] > 0
      \/ Commit(p, Recorded(p, "failed"), effects, "failed", "failed")
  BY <1>2 DEF Record, HistoryUnchanged, Outcome
<1>4. PICK s \in {"applied", "failed"}, after \in {"following", "final", "failed"} :
        /\ s = "applied" => effects[v] > 0
        /\ after = "following" => v + 1 \in Versions
        /\ lock = p /\ OnlyCommand(p) /\ Locking' /\ Catalogs' /\ CurrentAt(p)' /\ RepairingAt(p)'
        /\ \/ table' = TRUE /\ rows' = Recorded(p, s) /\ effects' = effects
           \/ UNCHANGED <<table, rows, effects>>
        /\ \/ pc'[p] = after /\ wait'[p].then = "idle"
           \/ pc'[p] \in {"relock", "compare"} /\ wait'[p].then = after
  <2>1. Following(p) \in {"following", "final"} /\ (Following(p) = "following" => v + 1 \in Versions)
    BY DEF Following
  <2>2. CASE Commit(p, Recorded(p, "applied"), effects, "applied", Following(p)) /\ effects[v] > 0
    <3>1. /\ lock = p /\ OnlyCommand(p) /\ Locking' /\ Catalogs' /\ CurrentAt(p)' /\ RepairingAt(p)'
          /\ \/ table' = TRUE /\ rows' = Recorded(p, "applied") /\ effects' = effects
             \/ UNCHANGED <<table, rows, effects>>
          /\ \/ pc'[p] = Following(p) /\ wait'[p].then = "idle"
             \/ pc'[p] \in {"relock", "compare"} /\ wait'[p].then = Following(p)
      <4>1. CASE Following(p) = "following"
        BY <1>2, <2>2, <4>1, CommitFrame
      <4>2. CASE Following(p) = "final"
        BY <1>2, <2>2, <4>2, CommitFrame
      <4> QED BY <2>1, <4>1, <4>2
    <3> QED BY <2>1, <2>2, <3>1
  <2>3. CASE Commit(p, Recorded(p, "failed"), effects, "failed", "failed")
    <3>1. /\ lock = p /\ OnlyCommand(p) /\ Locking' /\ Catalogs' /\ CurrentAt(p)' /\ RepairingAt(p)'
          /\ \/ table' = TRUE /\ rows' = Recorded(p, "failed") /\ effects' = effects
             \/ UNCHANGED <<table, rows, effects>>
          /\ \/ pc'[p] = "failed" /\ wait'[p].then = "idle"
             \/ pc'[p] \in {"relock", "compare"} /\ wait'[p].then = "failed"
      BY <1>2, <2>3, CommitFrame
    <3> QED BY <3>1
  <2> QED BY <1>3, <2>2, <2>3
<1> DEFINE r == [st |-> s, id |-> mine[p][at[p]]]
<1>6. WorkingAt(p)' /\ OnceAt(p)'
  BY <1>2, <1>4 DEF WorkingAt, OnceAt, Marked
<1>7. /\ effects' = effects
      /\ \/ UNCHANGED <<table, rows>>
         \/ table' /\ rows'[v].st = s /\ \A w \in Versions : w # v => rows'[w] = rows[w]
  <2>1. rows \in [Versions -> [st : Statuses, id : 0..2]] /\ r.st = s
    BY DEF TypeOK, Histories
  <2>2. [rows EXCEPT ![v] = r][v] = r /\ \A w \in Versions : w # v => [rows EXCEPT ![v] = r][w] = rows[w]
    BY <1>2, <2>1
  <2>3. Recorded(p, s) = [rows EXCEPT ![v] = r]
    BY DEF Recorded
  <2> HIDE DEF v, r
  <2> QED BY <1>4, <2>1, <2>2, <2>3
<1>8. History'
  <2>1. CASE UNCHANGED <<table, rows>>
    BY <1>7, <2>1 DEF HistoryInv, History, AppliedIsReal
  <2>2. CASE ~UNCHANGED <<table, rows>>
    <3>1. effects[v] \in Nat
      BY <1>2, Typed
    <3> HIDE DEF v
    <3> QED BY <1>2, <1>4, <1>7, <2>2, <3>1, HistoryStep DEF HistoryInv
  <2> QED BY <2>1, <2>2
<1>9. (driver = "sqlite" => OnlyOnce)'
  BY <1>7 DEF HistoryInv, OnlyOnce
<1>10. ~Early(p)
  BY <1>2 DEF Early
<1> HIDE DEF v
<1>11. /\ \A w \in Versions : w # v => rows'[w] = rows[w] /\ effects'[w] = effects[w]
       /\ (table => table') /\ (effects[v] > 0 => effects'[v] > 0)
       /\ \/ rows' = rows
          \/ lock = p /\ rows[v].st # "applied" /\ rows'[v].st # "none"
  BY <1>2, <1>4, <1>7
<1> QED BY <1>2, <1>4, <1>6, <1>8, <1>9, <1>10, <1>11, WriteStep

(* A repair accepts what took effect and clears what did not; nobody else  *)
(* is beyond the check its dirty row fails.                                *)
LEMMA RepairInv ==
    ASSUME TypeOK, HistoryInv, driver' = driver, NEW p \in Procs, RepairRow(p)
    PROVE  HistoryInv'
<1>0. CASE Refuse(p)
  BY <1>0, EndInv
<1>1. CASE ~Refuse(p)
  <2> DEFINE v == op[p].v
             r == IF op[p].do = "accept" THEN [rows[v] EXCEPT !.st = "applied"] ELSE NoRow
  <2>1. /\ pc[p] = "repair" /\ at' = [at EXCEPT ![p] = v] /\ UNCHANGED <<snap, native>>
        /\ Commit(p, [rows EXCEPT ![v] = r], effects, IF op[p].do = "accept" THEN "applied" ELSE "cleared", "repaired")
    BY <1>1 DEF RepairRow
  <2>2. session[p] /\ op[p] \in Repair /\ v \in Versions
    BY <2>1, Facts DEF HistoryInv, Locking
  <2>3. /\ rows[v].st \in Dirty
        /\ op[p].do = "accept" <=> effects[v] > 0
        /\ \A q \in Procs : q # p => Early(q)
    BY <2>1, <2>2 DEF HistoryInv, Commands, RepairingAt, Repairs
  <2>4. \A q \in Procs : q # p => at'[q] = at[q] /\ snap'[q] = snap[q] /\ native'[q] = native[q]
    BY <2>1 DEF TypeOK
  <2>6. /\ effects[v] > 0 => r.st = "applied"
        /\ ~(effects[v] > 0) => r.st = "none"
    <3>1. rows[v] \in [st : Statuses, id : 0..2]
      BY <2>2, Typed
    <3> QED BY <2>3, <3>1 DEF NoRow
  <2> HIDE DEF r
  <2>5. PICK expected \in {"applied", "cleared"} : Commit(p, [rows EXCEPT ![v] = r], effects, expected, "repaired")
    BY <2>1
  <2>7. /\ lock = p /\ OnlyCommand(p) /\ Locking' /\ Catalogs' /\ CurrentAt(p)' /\ RepairingAt(p)'
        /\ \/ table' = TRUE /\ rows' = [rows EXCEPT ![v] = r] /\ effects' = effects
           \/ UNCHANGED <<table, rows, effects>>
        /\ \/ pc'[p] = "repaired" /\ wait'[p].then = "idle"
           \/ pc'[p] \in {"relock", "compare"} /\ wait'[p].for = expected /\ wait'[p].then = "repaired"
    <3>1. /\ expected \in {"bootstrap", "applied", "applying", "failed", "cleared"}
          /\ pc[p] \in {"start", "next", "record", "repair"}
      BY <2>1
    <3> HIDE DEF v
    <3>2. CASE expected = "applied"
      BY <2>1, <2>2, <2>4, <2>5, <3>1, <3>2, CommitFrame
    <3>3. CASE expected = "cleared"
      BY <2>1, <2>2, <2>4, <2>5, <3>1, <3>3, CommitFrame
    <3> QED BY <3>2, <3>3
  <2>8. WorkingAt(p)' /\ OnceAt(p)'
    BY <2>7 DEF WorkingAt, OnceAt, Marked
  <2> HIDE DEF v
  <2>9. /\ effects' = effects /\ effects[v] \in Nat
        /\ \/ UNCHANGED <<table, rows>>
           \/ table' /\ rows'[v] = r /\ \A w \in Versions : w # v => rows'[w] = rows[w]
    <3>1. rows \in [Versions -> [st : Statuses, id : 0..2]] /\ effects[v] \in Nat
      <4>1. effects[v] \in 0..2
        BY <2>2, Typed
      <4> QED BY <4>1 DEF TypeOK, Histories
    <3> QED BY <2>2, <2>7, <3>1
  <2>10. rows[v].st # "none" /\ rows[v].st # "applied"
    BY <2>3 DEF Dirty
  <2>11. History'
    <3>1. CASE UNCHANGED <<table, rows>>
      BY <2>9, <3>1 DEF HistoryInv, History, AppliedIsReal
    <3>2. CASE ~UNCHANGED <<table, rows>>
      BY <2>2, <2>6, <2>9, <2>10, <3>2, HistoryStep DEF HistoryInv
    <3> QED BY <3>1, <3>2
  <2>12. (driver = "sqlite" => OnlyOnce)'
    BY <2>9 DEF HistoryInv, OnlyOnce
  <2>13. ~Early(p)
    BY <2>1 DEF Early
  <2>14. /\ \A w \in Versions : w # v => rows'[w] = rows[w] /\ effects'[w] = effects[w]
         /\ (table => table') /\ (effects[v] > 0 => effects'[v] > 0)
    BY <2>9
  <2> QED BY <2>2, <2>3, <2>7, <2>8, <2>10, <2>11, <2>12, <2>13, <2>14, WriteStep
<1> QED BY <1>0, <1>1

(* The worker runs the file: its row is there, also when the session that  *)
(* recorded it has died and another command has the lock.                  *)
LEMMA WorkInv ==
    ASSUME TypeOK, HistoryInv, Tampers = {}, driver' = driver, NEW p \in Procs, Work(p)
    PROVE  HistoryInv'
<1> DEFINE v == at[p]
<1>1. WorkingAt(p) /\ OnceAt(p) /\ Locking /\ History
  BY DEF HistoryInv, Commands
<1>2. /\ pc[p] = "work" /\ pc' = [pc EXCEPT ![p] = "record"] /\ UNCHANGED <<table, rows>>
      /\ \/ native' = [native EXCEPT ![p] = "ok"] /\ effects' = Once(v)
         \/ native' = [native EXCEPT ![p] = "err"] /\ (effects' = Once(v) \/ effects' = effects)
      /\ UNCHANGED <<cat, lock, op, mine, at, snap, session, wait>>
  <2>1. native' = [native EXCEPT ![p] = "ok"] => native'[p] # "err"
    BY DEF TypeOK
  <2> QED BY <2>1 DEF Work, Goto, dbVars
<1>3. v \in Versions /\ rows[v].st # "none" /\ effects[v] \in 0..2 /\ wait[p].then = "idle"
  BY <1>1, <1>2, Typed DEF WorkingAt, TypeOK
<1>4. /\ Once(v)[v] > 0 /\ (effects[v] = 0 => Once(v)[v] = 1) /\ Once(v)[v] \in Nat
      /\ \A w \in Versions : w # v => Once(v)[w] = effects[w]
  BY <1>3 DEF Once, TypeOK
<1> HIDE DEF v
<1>5. /\ OnlyCommand(p) /\ pc'[p] = "record"
      /\ (native'[p] = "ok" /\ effects' = Once(v)) \/ (native'[p] = "err" /\ (effects' = Once(v) \/ effects' = effects))
  BY <1>2 DEF OnlyCommand, TypeOK
<1>6. Locking' /\ Catalogs' /\ CurrentAt(p)' /\ RepairingAt(p)'
  <2>1. Locking'
    BY <1>1, <1>2, <1>5 DEF Locking, OnlyCommand
  <2>2. Catalogs'
    BY <1>2 DEF HistoryInv, Catalogs, Prefix
  <2> QED BY <1>5, <2>1, <2>2 DEF CurrentAt, RepairingAt, Repairs
<1>7. WorkingAt(p)' /\ OnceAt(p)'
  BY <1>1, <1>2, <1>3, <1>4, <1>5 DEF WorkingAt, OnceAt, Marked, v
<1>8. /\ \A w \in Versions : w # v => rows'[w] = rows[w] /\ effects'[w] = effects[w]
      /\ effects'[v] = effects[v] \/ effects'[v] > 0
      /\ (table => table') /\ rows' = rows
  BY <1>2, <1>4, <1>5
<1>9. History'
  <2>1. \A w \in Versions : effects[w] > 0 => effects'[w] > 0
    BY <1>8
  <2>2. \A w \in Versions : effects'[w] > 0 => rows[w].st # "none"
    BY <1>1, <1>3, <1>8 DEF History
  <2> QED BY <1>1, <1>2, <2>1, <2>2 DEF History, AppliedIsReal
<1>10. (driver = "sqlite" => OnlyOnce)'
  <2>1. driver = "sqlite" => effects[v] = 0
    BY <1>1, <1>2 DEF OnceAt, v
  <2>2. driver = "sqlite" => effects'[v] = 0 \/ effects'[v] = 1
    BY <1>4, <1>5, <2>1
  <2> QED BY <1>8, <2>2 DEF HistoryInv, OnlyOnce
<1>11. ~Early(p) /\ (lock = p \/ driver = "postgres")
  BY <1>1, <1>2 DEF Early, Locking
<1> QED BY <1>3, <1>5, <1>6, <1>7, <1>8, <1>9, <1>10, <1>11, WriteStep

-----------------------------------------------------------------------------
(* The theorems *)

(* Every step keeps typing and the invariant. *)
LEMMA InvStep ==
    ASSUME TypeOK, HistoryInv, Tampers = {}, [Next]_vars
    PROVE  TypeOK' /\ HistoryInv'
<1>1. CASE Next
  <2>1. driver' = driver
    BY <1>1 DEF Next
  <2>2. CASE \E v \in Versions, id \in 0..2 : Edit(v, id)
    BY <2>1, <2>2, EditInv
  <2>3. ASSUME NEW p \in Procs,
               \/ Begin(p, Migrate) \/ Begin(p, Check)
               \/ \E o \in Repair : Begin(p, o)
               \/ Step(p) \/ Locks(p) \/ LoseSession(p) \/ Crash(p)
        PROVE  TypeOK' /\ HistoryInv'
    <3>1. WorkingAt(p) /\ Locking
      BY DEF HistoryInv, Commands
    <3>2. CASE Begin(p, Migrate) \/ Begin(p, Check) \/ (\E o \in Repair : Begin(p, o))
      <4>1. TypeOK'
        BY <2>1, <3>1, <3>2, ControlType
      <4>2. PICK o \in {Migrate, Check} \cup Repair : Begin(p, o)
        BY <3>2
      <4>3. HistoryInv'
        BY <2>1, <4>2, BeginInv
      <4> QED BY <4>1, <4>3
    <3>3. CASE Acquire(p) \/ Relock(p) \/ LoseSession(p)
      BY <2>1, <3>1, <3>3, ControlType, LockInv
    <3>4. CASE Refuse(p) \/ Crash(p)
      BY <2>1, <3>4, EndType, EndInv
    <3>5. CASE Compare(p) \/ Snapshot(p) \/ Final(p)
      BY <2>1, <3>5, LookType, LookInv
    <3>6. CASE Advance(p)
      BY <2>1, <3>1, <3>6, ControlType, LookInv
    <3>7. CASE Bootstrap(p) \/ Required(p) \/ Mark(p) \/ Work(p) \/ Record(p) \/ RepairRow(p)
      <4>1. TypeOK'
        BY <2>1, <3>1, <3>7, WriteType
      <4>2. HistoryInv'
        BY <2>1, <3>7, BootstrapInv, RequiredInv, MarkInv, WorkInv, RecordInv, RepairInv
      <4> QED BY <4>1, <4>2
    <3> QED BY <2>3, <3>2, <3>3, <3>4, <3>5, <3>6, <3>7
         DEF Step, Locks, NotReady, CannotRecord, Fail, Done
  <2> QED BY <1>1, <2>2, <2>3 DEF Next
<1>2. CASE UNCHANGED vars
  <2>1. UNCHANGED <<driver, table, rows, effects, cat, lock, pc, op, mine, at, snap, native, session, wait, faults, edits>>
    BY <1>2 DEF vars, dbVars, procVars
  <2>2. TypeOK'
    BY <2>1 DEF TypeOK
  <2>3. Locking' /\ Catalogs' /\ History' /\ (driver = "sqlite" => OnlyOnce)'
    BY <2>1 DEF HistoryInv, Locking, Catalogs, Prefix, History, AppliedIsReal, OnlyOnce
  <2>4. Commands'
    BY <2>1 DEF HistoryInv, Commands, WorkingAt, RepairingAt, CurrentAt, OnceAt, Marked, Repairs, Early
  <2> QED BY <2>2, <2>3, <2>4 DEF HistoryInv
<1> QED BY <1>1, <1>2

(* When no file touches the history table, HistoryInv is an invariant of   *)
(* `alignc db migrate`, `check` and `repair` on both databases.            *)
THEOREM HistoryInvariant ==
    ASSUME Tampers = {}
    PROVE  Spec => [](TypeOK /\ HistoryInv)
<1>1. Init => TypeOK /\ HistoryInv
  BY TypeInit, InvInit
<1>2. TypeOK /\ HistoryInv /\ [Next]_vars => (TypeOK /\ HistoryInv)'
  BY InvStep
<1> QED BY <1>1, <1>2, PTL DEF Spec

(* What the history calls applied took effect, files take effect in order, *)
(* a dirty row stops every later file, a report that the catalog is        *)
(* current is right, and on SQLite no file takes effect twice: whatever    *)
(* commits are lost, processes die, sessions end and catalogs change.      *)
THEOREM HistoryIsTrue ==
    ASSUME Tampers = {}
    PROVE  Spec => []HistoryTrue
<1>1. TypeOK /\ HistoryInv => HistoryTrue
  <2> SUFFICES ASSUME TypeOK, HistoryInv PROVE HistoryTrue
    OBVIOUS
  <2>1. History /\ AppliedIsReal /\ Commands /\ (driver = "sqlite" => OnlyOnce)
    BY DEF HistoryInv, History
  <2>2. InOrder
    BY <2>1 DEF InOrder, History, AppliedIsReal
  <2>3. DirtyBlocks
    <3> SUFFICES ASSUME NEW v \in Versions, NEW w \in Versions, v < w, rows[v].st \in Dirty
                 PROVE  effects[w] = 0
      BY DEF DirtyBlocks, Dirty
    <3>1. rows[v].st # "applied" /\ effects[w] \in 0..2
      BY Typed DEF Dirty
    <3>2. ~(effects[w] > 0)
      BY <2>1, <3>1 DEF History
    <3> QED BY <3>1, <3>2
  <2>4. CurrentIsTrue
    BY <2>1 DEF Commands, CurrentAt, CurrentIsTrue
  <2> QED BY <2>1, <2>2, <2>3, <2>4 DEF HistoryTrue
<1> QED BY <1>1, HistoryInvariant, PTL

-----------------------------------------------------------------------------
(***************************************************************************)
(* Watch mode.  OneSnapshot rests on versions that never come back;        *)
(* NoBlindSpot and ChangeIsSignalled on what the controller has looked at  *)
(* since its watches are attached.                                         *)
(***************************************************************************)

(* What a revision has read and verified so far. *)
Reading ==
    /\ loop \notin {"read", "final", "link", "mark", "ending", "exited"} => known = <<>> /\ final = <<>>
    /\ loop = "read" => Len(known) = input - 1 /\ final = <<>> /\ \A f \in DOMAIN known : known[f].txt.ok
    /\ loop \in {"final", "link", "mark"} => Len(known) >= 1 /\ mid \in [Files -> Txt]
    /\ loop \in {"final", "link", "mark"} /\ ~broken =>
         Len(known) = Inputs /\ \A f \in DOMAIN known : known[f].txt.ok
    /\ loop = "final" => Len(final) = input - 1 /\ input <= Len(known)
    /\ loop \in {"link", "mark"} => Len(final) = Len(known)
    /\ loop = "link" => ~broken
    /\ success => loop \in {"mark", "ending", "exited"}

(* A version is never written again, so an input that is as it was read    *)
(* was so when the verification began.                                     *)
Versioned ==
    /\ \A f \in Files : disk.txt[f].v <= changes
    /\ \A f \in DOMAIN known : known[f].txt.v <= changes
    /\ loop \in {"final", "link"} =>
         \A f \in DOMAIN known : known[f].txt.ok =>
             /\ disk.txt[f] = known[f].txt => mid[f] = known[f].txt
             /\ f \in DOMAIN final /\ ~changed => mid[f] = known[f].txt

(* Inodes come in order; a watch that was attached to another directory    *)
(* than the one it is registered for came after that one was gone.         *)
Attached ==
    /\ disk.was <= changes + 2
    /\ \A f \in DOMAIN known : known[f].dir <= changes + 2
    /\ \A f \in DOMAIN final : final[f].dir <= changes + 2
    /\ \A f \in DOMAIN base : base[f].dir <= changes + 2
    /\ \A w \in watches : w.path = "root" => w.reg = Root /\ w.on = Root
    /\ \A w \in watches : w.path = "sub" =>
         w.reg <= changes + 2 /\ (~MoveBack => w.on = w.reg \/ disk.dir # w.reg)

(* Between the additions and the next revision every directory of the      *)
(* baseline is registered, and a round of reinstall_watches is left.       *)
Settling == \/ loop \in {"top", "wait", "swap"} /\ ~retry
            \/ loop = "look" /\ phase = "compacted"
Registered ==
    /\ loop \in {"read", "final", "link", "mark", "desire", "add"} \/ (loop = "look" /\ phase = "lost") =>
         tries < MaxTries
    /\ Settling \/ loop = "compact" \/ (loop = "look" /\ phase = "added") => AllRegistered(watches)
    /\ loop = "add" =>
         /\ adds # <<>> /\ phase = "added"
         /\ \A r \in Desired : \/ \E w \in watches : Registration(w) = r
                               \/ \E i \in DOMAIN adds : adds[i] = r
         /\ \A i \in DOMAIN adds : /\ adds[i].path = "root" => adds[i].reg = Root
                                   /\ adds[i].path = "sub" => adds[i].reg <= changes + 2 /\ adds[i].reg # Root

(* What was looked at after that and has changed since has left an event   *)
(* or the flag.                                                            *)
Noticed ==
    /\ loop \in {"desire", "add", "compact", "look", "top", "wait", "swap", "quiet", "reswap"} => 1 \in DOMAIN base
    /\ loop \in {"add", "quiet", "reswap"} => input = 1
    /\ loop \in {"quiet", "reswap"} => phase = "loop"
    /\ loop = "look" => input \in DOMAIN base
    /\ loop \notin {"swap", "reswap", "ending", "exited"} => (dirty => byte \/ waking # {})
    /\ ~MoveBack /\ Settling =>
         \A f \in DOMAIN base : Look(f) # base[f] => (loop = "look" /\ f >= input) \/ queue # {} \/ dirty

WatchInv == WatchTypeOK /\ Reading /\ Versioned /\ OneSnapshot /\ Attached /\ Registered /\ Noticed

-----------------------------------------------------------------------------
LEMMA Sets ==
    /\ Inputs \in Nat \ {0} /\ MaxChanges \in Nat /\ MaxTries \in Nat \ {0} /\ MoveBack \in BOOLEAN
    /\ Files = 1..Inputs /\ Root = 1 /\ Inodes = 2..(MaxChanges + 2)
    /\ Faults \subseteq {"signal", "fatal", "call"}
BY WatchAssumption DEF Files, Root, Inodes

(* What is found at a path. *)
LEMMA LookIs ==
    ASSUME DiskType, NEW f \in Files
    PROVE  /\ Look(f) \in Looks
           /\ Look(f).dir = disk.dir
           /\ Look(f).txt.ok => Look(f).txt = disk.txt[f]
           /\ Look(f).txt.v = 0 \/ Look(f).txt = disk.txt[f]
BY Sets DEF DiskType, Look, Looks, Txt

(* A sequence of rows grows by one. *)
LEMMA Appended ==
    ASSUME NEW s \in Seq(Looks), NEW x \in Looks
    PROVE  /\ Append(s, x) \in Seq(Looks)
           /\ Len(Append(s, x)) = Len(s) + 1 /\ Len(s) \in Nat
           /\ DOMAIN s = 1..Len(s) /\ DOMAIN Append(s, x) = 1..(Len(s) + 1)
           /\ \A i \in 1..Len(s) : Append(s, x)[i] = s[i] /\ s[i] \in Looks
           /\ Append(s, x)[Len(s) + 1] = x
<1>1. Append(s, x) \in Seq(Looks) /\ Len(Append(s, x)) = Len(s) + 1
  BY AppendProperties
<1>. QED BY <1>1, AppendProperties

(* The directories of the baseline are finitely many. *)
LEMMA DirsAre ==
    ASSUME WatchTypeOK
    PROVE  /\ Dirs \subseteq Inodes /\ IsFiniteSet(Dirs) /\ Cardinality(Dirs) \in Nat
           /\ Cardinality(Dirs) = 0 => Dirs = {}
           /\ Cardinality(Dirs) = 1 => \E d : Dirs = {d}
<1>1. Dirs \subseteq Inodes
  BY Sets DEF WatchTypeOK, LoopType, Dirs, Looks
<1>2. IsFiniteSet(Inodes)
  BY Sets, FS_Interval
<1>3. IsFiniteSet(Dirs)
  BY <1>1, <1>2, FS_Subset
<1>. QED BY <1>1, <1>3, FS_EmptySet, FS_Singleton, FS_CardinalityType

(* The additions are what is desired. *)
LEMMA OrderedIs ==
    ASSUME WatchTypeOK, ~(Cardinality(Dirs) > 1)
    PROVE  /\ Ordered(Dirs) \in Seq(Registrations) /\ Ordered(Dirs) # <<>>
           /\ \A r \in Desired : \E i \in DOMAIN Ordered(Dirs) : Ordered(Dirs)[i] = r
           /\ \A i \in DOMAIN Ordered(Dirs) : Ordered(Dirs)[i] \in Desired
<1>. DEFINE root == <<[path |-> "root", reg |-> Root]>>
            sub == [i \in 1..Cardinality(Dirs) |-> [path |-> "sub", reg |-> CHOOSE d \in Dirs : TRUE]]
<1>1. Root \in {Root} \cup Inodes /\ [path |-> "root", reg |-> Root] \in Registrations
  BY DEF Registrations
<1>2. root \in Seq(Registrations) /\ Len(root) = 1 /\ root[1] = [path |-> "root", reg |-> Root]
  BY <1>1
<1>3. Cardinality(Dirs) \in {0, 1}
  BY DirsAre
<1>4. CASE Cardinality(Dirs) = 0
  <2>1. Dirs = {}
    BY <1>4, DirsAre
  <2>2. sub = <<>>
    BY <1>4
  <2>3. Ordered(Dirs) = root
    BY <1>2, <2>2, ConcatEmptySeq DEF Ordered
  <2>4. Desired = {[path |-> "root", reg |-> Root]}
    BY <2>1 DEF Desired
  <2>. QED BY <1>2, <2>3, <2>4
<1>5. CASE Cardinality(Dirs) = 1
  <2>1. PICK d : Dirs = {d}
    BY <1>5, DirsAre
  <2>2. d \in Inodes /\ (CHOOSE x \in Dirs : TRUE) = d
    BY <2>1, DirsAre
  <2>3. sub \in Seq(Registrations) /\ Len(sub) = 1 /\ sub[1] = [path |-> "sub", reg |-> d]
    <3>1. [path |-> "sub", reg |-> d] \in Registrations
      BY <2>2 DEF Registrations
    <3>2. sub = [i \in 1..1 |-> [path |-> "sub", reg |-> d]]
      BY <1>5, <2>2
    <3>3. sub \in [1..1 -> Registrations] /\ sub[1] = [path |-> "sub", reg |-> d]
      BY <3>1, <3>2
    <3>. HIDE DEF sub
    <3>4. sub \in Seq(Registrations)
      BY <3>3, SeqDef
    <3>. QED BY <3>3, <3>4
  <2>4. Desired = {[path |-> "root", reg |-> Root], [path |-> "sub", reg |-> d]}
    BY <2>1 DEF Desired
  <2>5. Ordered(Dirs) = root \o sub
    BY DEF Ordered
  <2>. HIDE DEF root, sub
  <2>6. /\ Ordered(Dirs) \in Seq(Registrations) /\ Len(Ordered(Dirs)) = 2
        /\ Ordered(Dirs)[1] = root[1] /\ Ordered(Dirs)[2] = sub[1]
    BY <1>2, <2>3, <2>5, ConcatProperties
  <2>7. DOMAIN Ordered(Dirs) = 1..2
    BY <2>6
  <2>. QED BY <1>2, <2>3, <2>4, <2>6, <2>7
<1>. QED BY <1>3, <1>4, <1>5

(* A desired entry that is registered keeps its newest registration. *)
LEMMA CompactedKeeps ==
    ASSUME RegistryType, AllRegistered(watches)
    PROVE  AllRegistered(Compacted(watches))
<1>. SUFFICES ASSUME NEW r \in Desired
              PROVE  \E w \in Compacted(watches) : Registration(w) = r
  BY DEF AllRegistered
<1>. DEFINE R == {ss \in Nat \X Nat : ss[1] < ss[2]}
            M == {gen - w.gen : w \in {x \in watches : Registration(x) = r}}
<1>1. PICK v \in watches : Registration(v) = r
  BY DEF AllRegistered
<1>2. M \subseteq Nat /\ gen - v.gen \in M
  BY <1>1 DEF RegistryType
<1>3. IsWellFoundedOn(R, Nat)
  BY NatLessThanWellFounded DEF OpToRel
<1>4. PICK m \in M : \A n \in M : <<n, m>> \notin R
  BY <1>2, <1>3, WFMin
<1>5. PICK w \in watches : Registration(w) = r /\ m = gen - w.gen
  BY <1>4
<1>6. Newest(watches, w)
  <2>. SUFFICES ASSUME NEW x \in watches, Registration(x) = Registration(w)
                PROVE  x.gen <= w.gen
    BY DEF Newest
  <2>1. gen - x.gen \in M
    BY <1>5
  <2>2. <<gen - x.gen, m>> \notin R
    BY <1>4, <2>1
  <2>3. gen - x.gen \in Nat /\ m \in Nat
    BY <1>2, <1>4, <2>1
  <2>4. gen - x.gen < m => <<gen - x.gen, m>> \in R
    BY <2>3
  <2>5. gen \in Nat /\ x.gen \in Nat /\ w.gen \in Nat
    BY DEF RegistryType
  <2>. HIDE DEF R, M
  <2>. QED BY <1>5, <2>2, <2>3, <2>4, <2>5
<1>. QED BY <1>5, <1>6 DEF Compacted

(* A generation that is dropped takes its events; what its thread had      *)
(* flagged it still wakes for.                                             *)
LEMMA Dropped ==
    ASSUME WakeType, NEW ws, DropBackends(ws)
    PROVE  /\ queue' \subseteq queue /\ waking' \subseteq waking /\ byte' \in BOOLEAN
           /\ byte \/ waking # {} => byte' \/ waking' # {}
BY DEF WakeType, DropBackends

(* While the controller waits, what is as the baseline has it lies under   *)
(* a watch, and so does the root.                                          *)
LEMMA Watched ==
    ASSUME WatchInv, ~MoveBack, AllRegistered(watches), NEW f \in DOMAIN base, Look(f) = base[f]
    PROVE  /\ \E w \in watches : w.on = Root
           /\ disk.dir # 0 => \E w \in watches : w.on = disk.dir
<1>1. \E w \in watches : w.on = Root
  <2>1. [path |-> "root", reg |-> Root] \in Desired
    BY DEF Desired
  <2>2. PICK w \in watches : Registration(w) = [path |-> "root", reg |-> Root]
    BY <2>1 DEF AllRegistered
  <2>3. w.path = "root"
    BY <2>2 DEF Registration
  <2>. QED BY <2>3 DEF WatchInv, Attached
<1>2. ASSUME disk.dir # 0 PROVE \E w \in watches : w.on = disk.dir
  <2>1. base[f].dir = disk.dir
    BY DEF Look
  <2>2. [path |-> "sub", reg |-> disk.dir] \in Desired
    BY <1>2, <2>1 DEF Desired, Dirs
  <2>3. PICK w \in watches : Registration(w) = [path |-> "sub", reg |-> disk.dir]
    BY <2>2 DEF AllRegistered
  <2>4. w.path = "sub" /\ w.reg = disk.dir
    BY <2>3 DEF Registration
  <2>. QED BY <2>4 DEF WatchInv, Attached
<1>. QED BY <1>1, <1>2

(* What reinstall_watches does first. *)
LEMMA DesireIs ==
    ASSUME Desire
    PROVE  /\ loop = "desire" /\ UNCHANGED <<diskVars, buildVars, dirty, control, tries, due, base, retry>>
           /\ \/ /\ loop' \in {"ending", "start"}
                 /\ UNCHANGED <<queue, waking, byte, watches, adds, gen, tentative, input, phase>>
              \/ /\ \/ watches' = watches /\ UNCHANGED <<queue, waking, byte>>
                    \/ watches' = Compacted(watches) /\ DropBackends(watches')
                 /\ tentative' = FALSE /\ phase' = "added" /\ input' = 1
                 /\ \/ AllRegistered(watches') /\ loop' = "look" /\ adds' = <<>> /\ gen' = gen
                    \/ /\ ~(Cardinality(Dirs) > 1)
                       /\ loop' = "add" /\ adds' = Ordered(Dirs) /\ gen' = gen + 1
BY DEF Desire, NextRevision, diskVars, buildVars, wakeVars, registryVars

(* What one look at a path leads to. *)
LEMMA ObserveIs ==
    ASSUME WatchTypeOK, Observe
    PROVE  /\ loop = "look" /\ UNCHANGED <<diskVars, wakeVars, buildVars, watches, adds, gen, base>>
           /\ tentative' \in {tentative, TRUE} /\ due' \in {due, FALSE}
           /\ \/ loop' = "start" /\ UNCHANGED <<input, phase, tries, due, retry>>
              \/ /\ Look(input) = base[input] /\ NextFile(input) # 0
                 /\ input' = NextFile(input) /\ UNCHANGED <<loop, phase, tries, due, retry>>
              \/ /\ Look(input) = base[input] /\ NextFile(input) = 0
                 /\ input' = 1 /\ phase' = phase
                 /\ \/ phase = "added" /\ loop' = "compact" /\ UNCHANGED <<tries, retry>>
                    \/ /\ phase = "compacted" /\ loop' \in {"start", "top"} /\ retry' = FALSE
                       /\ tries' = tries
                    \/ /\ phase = "lost" /\ tries' = tries + 1
                       /\ \/ tries' = MaxTries /\ loop' \in {"start", "top"} /\ retry' = TRUE
                          \/ tries' # MaxTries /\ loop' = "desire" /\ retry' = retry
                    \/ phase = "loop" /\ tries' = 0 /\ loop' = "desire" /\ retry' = retry
<1>1. tentative' \in {tentative, TRUE}
  BY DEF Observe, WatchTypeOK, RegistryType
<1>2. CASE Differs(input)
  BY <1>1, <1>2 DEF Observe
<1>3. CASE ~Differs(input) /\ NextFile(input) # 0
  BY <1>1, <1>3 DEF Observe, Differs
<1>4. CASE ~Differs(input) /\ NextFile(input) = 0
  <2>1. CASE phase = "added"
    BY <1>1, <1>4, <2>1 DEF Observe, Differs
  <2>2. CASE phase = "compacted"
    BY <1>1, <1>4, <2>2 DEF Observe, Differs, Transition
  <2>3. CASE phase = "lost"
    BY <1>1, <1>4, <2>3 DEF Observe, Differs, Transition
  <2>4. CASE phase = "loop"
    BY <1>1, <1>4, <2>4 DEF Observe, Differs
  <2>. QED BY <1>4, <2>1, <2>2, <2>3, <2>4 DEF Observe
<1>. QED BY <1>2, <1>3, <1>4

(* The file after f, if there is one. *)
LEMMA NextFileIs ==
    ASSUME LoopType, NEW f \in Files
    PROVE  /\ NextFile(f) # 0 => /\ NextFile(f) \in DOMAIN base /\ NextFile(f) \in Files
                                 /\ \A h \in DOMAIN base : h > f => NextFile(f) <= h
           /\ NextFile(f) = 0 => \A h \in DOMAIN base : h <= f
<1>. DEFINE G == {g \in DOMAIN base : g > f}
            R == {ss \in Nat \X Nat : ss[1] < ss[2]}
<1>1. G \subseteq Nat /\ DOMAIN base \subseteq Files /\ Files \subseteq Nat \ {0}
  BY Sets DEF LoopType
<1>2. CASE G = {}
  BY <1>1, <1>2, Sets DEF NextFile
<1>3. CASE G # {}
  <2>1. PICK x \in G : \A y \in G : <<y, x>> \notin R
    <3>1. IsWellFoundedOn(R, Nat)
      BY NatLessThanWellFounded DEF OpToRel
    <3>. QED BY <1>1, <1>3, <3>1, WFMin
  <2>2. ASSUME NEW y \in G PROVE x <= y
    <3>1. x \in Nat /\ y \in Nat /\ <<y, x>> \notin R
      BY <1>1, <2>1
    <3>2. y < x => <<y, x>> \in R
      BY <3>1
    <3>. HIDE DEF R
    <3>. QED BY ONLY <3>1, <3>2
  <2>3. \E g \in DOMAIN base : g > f /\ \A h \in DOMAIN base : h > f => g <= h
    BY <2>1, <2>2
  <2>4. /\ NextFile(f) \in DOMAIN base
        /\ \A h \in DOMAIN base : h > f => NextFile(f) <= h
    BY <2>3 DEF NextFile
  <2>. QED BY <1>1, <2>4
<1>. QED BY <1>2, <1>3

LEMMA InitIs ==
    ASSUME WatchInit
    PROVE  WatchInv
<1>1. <<>> \in Seq(Looks) /\ Len(<<>>) = 0 /\ DOMAIN <<>> = {} /\ <<>> \in Seq(Registrations)
  OBVIOUS
<1>2. 2 \in Inodes /\ 1 \in Files /\ 0 \in 0..MaxChanges /\ 0 \in 0..MaxTries
  BY Sets
<1>3. DiskType
  <2>1. [v |-> 0, ok |-> TRUE] \in Txt
    BY <1>2 DEF Txt
  <2>. QED BY <1>2, <2>1 DEF WatchInit, DiskType
<1>4. RegistryType /\ WakeType
  <2>1. adds \in Seq(Registrations) /\ watches = {} /\ gen = 1 /\ tentative = FALSE
    BY <1>1 DEF WatchInit
  <2>2. RegistryType
    <3>1. gen \in Nat \ {0} /\ watches \subseteq {} /\ \A w \in watches : w.gen < gen
      BY <2>1
    <3>. QED BY <2>1, <3>1 DEF RegistryType
  <2>3. WakeType
    BY DEF WatchInit, WakeType
  <2>. QED BY <2>2, <2>3
<1>5. LoopType
  BY <1>1, <1>2 DEF WatchInit, LoopType
<1>6. BuildType
  <2>1. known = <<>> /\ final = <<>> /\ seen = <<>> /\ mid = <<>> /\ last = {}
    BY DEF WatchInit
  <2>2. Len(known) = 0 /\ Len(final) = 0 /\ 0 <= Inputs
    BY <1>1, <2>1, Sets
  <2>3. /\ known \in Seq(Looks) /\ final \in Seq(Looks) /\ seen \in Seq(Looks)
        /\ Len(known) <= Inputs /\ Len(final) <= Len(known)
    BY <1>1, <2>1, <2>2
  <2>4. changed \in BOOLEAN /\ success \in BOOLEAN /\ broken \in BOOLEAN
    BY DEF WatchInit
  <2>. QED BY <2>1, <2>3, <2>4 DEF BuildType
<1>7. Reading /\ OneSnapshot
  BY DEF WatchInit, Reading, OneSnapshot
<1>8. Versioned
  BY <1>1 DEF WatchInit, Versioned
<1>9. Attached
  BY <1>1 DEF WatchInit, Attached
<1>10. Registered /\ Noticed
  BY DEF WatchInit, Registered, Noticed, Settling
<1>. QED BY <1>3, <1>4, <1>5, <1>6, <1>7, <1>8, <1>9, <1>10 DEF WatchInv, WatchTypeOK

(* Whatever an editor does, versions and inodes are new and the event      *)
(* reaches the watches of the directory, or of the root if it was gone.    *)
LEMMA ChangeKeeps ==
    ASSUME WatchInv, NEW new, NEW inodes, Change(new, inodes),
           new \in [dir : {0} \cup Inodes, was : Inodes, txt : [Files -> Txt]],
           new.dir \in {0, new.was}, new.was <= changes + 3,
           \A f \in Files : new.txt[f] = disk.txt[f] \/ new.txt[f].v = changes + 1,
           ~MoveBack => new.dir \in {0, disk.dir, changes + 3},
           IF disk.dir = 0 THEN Root \in inodes ELSE disk.dir \in inodes
    PROVE  WatchInv'
<1>1. /\ changes < MaxChanges /\ changes' = changes + 1 /\ disk' = new
      /\ queue' = queue \cup Notified(inodes)
      /\ UNCHANGED <<waking, dirty, byte, control, known, final, changed, success, broken, last, seen, mid,
                     watches, adds, gen, tentative, loop, input, phase, tries, due, base, retry>>
  BY DEF Change, buildVars, registryVars, loopVars
<1>2. changes \in Nat /\ changes' \in 0..MaxChanges /\ changes + 3 = changes' + 2
  BY <1>1, Sets DEF WatchInv, WatchTypeOK, DiskType
<1>3. DiskType' /\ RegistryType' /\ LoopType' /\ BuildType'
  BY <1>1, <1>2 DEF WatchInv, WatchTypeOK, DiskType, RegistryType, LoopType, BuildType
<1>4. WakeType'
  <2>1. Notified(inodes) \subseteq 0..gen
    BY DEF Notified, WatchInv, WatchTypeOK, RegistryType
  <2>. QED BY <1>1, <2>1 DEF WatchInv, WatchTypeOK, WakeType
<1>5. Reading' /\ OneSnapshot'
  BY <1>1 DEF WatchInv, Reading, OneSnapshot
<1>6. Versioned'
  <2>1. \A f \in Files : disk.txt[f].v \in Nat /\ disk.txt[f].v <= changes /\ new.txt[f].v \in Nat
    BY DEF WatchInv, WatchTypeOK, DiskType, Versioned, Txt
  <2>2. \A f \in Files : disk'.txt[f].v <= changes'
    BY <1>1, <1>2, <2>1
  <2>3. \A f \in DOMAIN known : known[f] \in Looks /\ known[f].txt.v <= changes /\ f \in Files
    BY Sets DEF WatchInv, WatchTypeOK, BuildType, Versioned
  <2>4. \A f \in DOMAIN known : known[f].txt.v \in Nat /\ known[f].txt.v <= changes'
    BY <1>1, <1>2, <2>3 DEF Looks, Txt
  <2>5. \A f \in DOMAIN known : new.txt[f] = known[f].txt => disk.txt[f] = known[f].txt
    BY <1>2, <2>3, <2>4
  <2>. QED BY <1>1, <2>2, <2>4, <2>5 DEF WatchInv, Versioned
<1>7. Attached'
  <2>1. disk'.was <= changes' + 2 /\ disk.dir \in Nat
    BY <1>1, <1>2, Sets DEF WatchInv, WatchTypeOK, DiskType
  <2>2. /\ \A f \in DOMAIN known : known[f].dir \in Nat
        /\ \A f \in DOMAIN final : final[f].dir \in Nat
        /\ \A f \in DOMAIN base : base[f].dir \in Nat
    <3>1. /\ \A f \in DOMAIN known : known[f] \in Looks
          /\ \A f \in DOMAIN final : final[f] \in Looks
          /\ \A f \in DOMAIN base : base[f] \in Looks
      BY DEF WatchInv, WatchTypeOK, BuildType, LoopType
    <3>2. \A l \in Looks : l.dir \in Nat
      BY Sets DEF Looks
    <3>. QED BY <3>1, <3>2
  <2>3. \A x \in Nat : x <= changes + 2 => x <= changes' + 2
    BY <1>1, <1>2
  <2>4. ASSUME NEW w \in watches, w.path = "sub"
        PROVE  w.reg <= changes' + 2 /\ (~MoveBack => w.on = w.reg \/ disk'.dir # w.reg)
    <3>1. w.reg \in Nat /\ w.reg # 0
      BY Sets DEF WatchInv, WatchTypeOK, RegistryType
    <3>2. w.reg <= changes + 2 /\ (~MoveBack => w.on = w.reg \/ disk.dir # w.reg)
      BY <2>4 DEF WatchInv, Attached
    <3>. QED BY <1>1, <1>2, <3>1, <3>2
  <2>. QED BY <1>1, <2>1, <2>2, <2>3, <2>4 DEF WatchInv, Attached
<1>8. Registered'
  <2>1. Desired' = Desired /\ (Settling' <=> Settling) /\ (AllRegistered(watches)' <=> AllRegistered(watches))
    BY <1>1 DEF Desired, Dirs, Settling, AllRegistered
  <2>2. \A i \in DOMAIN adds : adds[i].reg \in Nat
    <3>1. \A i \in DOMAIN adds : adds[i] \in Registrations
      BY DEF WatchInv, WatchTypeOK, RegistryType
    <3>2. \A r \in Registrations : r.reg \in Nat
      BY Sets DEF Registrations
    <3>. QED BY <3>1, <3>2
  <2>3. \A x \in Nat : x <= changes + 2 => x <= changes' + 2
    BY <1>1, <1>2
  <2>. QED BY <1>1, <2>1, <2>2, <2>3 DEF WatchInv, Registered
<1>9. ASSUME ~MoveBack, Settling', NEW f \in DOMAIN base', Look(f)' # base'[f]
      PROVE  (loop' = "look" /\ f >= input') \/ queue' # {} \/ dirty'
  <2>1. Settling /\ f \in DOMAIN base
    BY <1>1, <1>9 DEF Settling
  <2>2. CASE Look(f) # base[f]
    <3>1. (loop = "look" /\ f >= input) \/ queue # {} \/ dirty
      BY <1>9, <2>1, <2>2 DEF WatchInv, Noticed
    <3>. QED BY <1>1, <3>1
  <2>3. CASE Look(f) = base[f]
    <3>1. AllRegistered(watches)
      BY <2>1 DEF WatchInv, Registered
    <3>2. PICK w \in watches : w.on \in inodes
      BY <1>9, <2>1, <2>3, <3>1, Watched
    <3>3. w.gen \in Notified(inodes)
      BY <3>2 DEF Notified
    <3>. QED BY <1>1, <3>3
  <2>. QED BY <2>2, <2>3
<1>10. Noticed'
  BY <1>1, <1>9 DEF WatchInv, Noticed
<1>. QED BY <1>3, <1>4, <1>5, <1>6, <1>7, <1>8, <1>10 DEF WatchInv, WatchTypeOK

LEMMA EditorKeeps ==
    ASSUME WatchInv, Editor
    PROVE  WatchInv'
<1>1. /\ disk \in [dir : {0} \cup Inodes, was : Inodes, txt : [Files -> Txt]] /\ disk.dir \in {0, disk.was}
      /\ disk.was <= changes + 2 /\ changes \in Nat /\ changes <= MaxChanges
  BY Sets DEF WatchInv, WatchTypeOK, DiskType, Attached
<1>2. disk.was \in Nat /\ disk.was <= changes + 3
  BY <1>1, Sets
<1>3. ASSUME NEW f \in Files, NEW ok \in BOOLEAN, Write(f, ok)
      PROVE  WatchInv'
  <2>. DEFINE new == [disk EXCEPT !.txt[f] = [v |-> changes + 1, ok |-> ok]]
  <2>1. Change(new, {disk.dir}) /\ disk.dir # 0 /\ changes < MaxChanges
    BY <1>3 DEF Write, Change
  <2>2. [v |-> changes + 1, ok |-> ok] \in Txt
    BY <1>1, <2>1, Sets DEF Txt
  <2>3. /\ new \in [dir : {0} \cup Inodes, was : Inodes, txt : [Files -> Txt]]
        /\ new.dir = disk.dir /\ new.was = disk.was
        /\ \A g \in Files : new.txt[g] = disk.txt[g] \/ new.txt[g].v = changes + 1
    BY <1>1, <2>2
  <2>. HIDE DEF new
  <2>. QED BY <1>1, <1>2, <2>1, <2>3, ChangeKeeps
<1>4. ASSUME Remove PROVE WatchInv'
  <2>. DEFINE new == [disk EXCEPT !.dir = 0]
  <2>1. Change(new, {Root, disk.dir}) /\ disk.dir # 0
    BY <1>4 DEF Remove
  <2>2. /\ new \in [dir : {0} \cup Inodes, was : Inodes, txt : [Files -> Txt]]
        /\ new.dir = 0 /\ new.was = disk.was /\ new.txt = disk.txt
    BY <1>1
  <2>. HIDE DEF new
  <2>. QED BY <1>1, <1>2, <2>1, <2>2, ChangeKeeps
<1>5. ASSUME NEW d \in Inodes, Replace(d) PROVE WatchInv'
  <2>. DEFINE new == [dir |-> d, was |-> d, txt |-> [f \in Files |-> [v |-> changes + 1, ok |-> TRUE]]]
  <2>1. /\ Change(new, {Root, d, disk.dir}) /\ changes < MaxChanges
        /\ d = changes + 3 \/ (MoveBack /\ d < changes + 3)
    BY <1>5 DEF Replace, Change
  <2>2. [v |-> changes + 1, ok |-> TRUE] \in Txt /\ d <= changes + 3
    BY <1>1, <2>1, Sets DEF Txt
  <2>3. /\ new \in [dir : {0} \cup Inodes, was : Inodes, txt : [Files -> Txt]]
        /\ new.dir = d /\ new.was = d /\ \A f \in Files : new.txt[f].v = changes + 1
    BY <2>2
  <2>. HIDE DEF new
  <2>. QED BY <1>1, <2>1, <2>2, <2>3, ChangeKeeps
<1>6. ASSUME Restore PROVE WatchInv'
  <2>. DEFINE new == [disk EXCEPT !.dir = disk.was]
  <2>1. Change(new, {Root, disk.was}) /\ disk.dir = 0 /\ MoveBack
    BY <1>6 DEF Restore
  <2>2. /\ new \in [dir : {0} \cup Inodes, was : Inodes, txt : [Files -> Txt]]
        /\ new.dir = disk.was /\ new.was = disk.was /\ new.txt = disk.txt
    BY <1>1
  <2>. HIDE DEF new
  <2>. QED BY <1>1, <1>2, <2>1, <2>2, ChangeKeeps
<1>. QED BY <1>3, <1>4, <1>5, <1>6 DEF Editor

LEMMA ClassifyKeeps ==
    ASSUME WatchInv, NEW g, Classify(g)
    PROVE  WatchInv'
<1>1. WatchTypeOK'
  BY DEF WatchInv, WatchTypeOK, DiskType, RegistryType, WakeType, LoopType, BuildType, Classify,
       diskVars, buildVars, registryVars, loopVars
<1>2. Reading' /\ Versioned' /\ OneSnapshot' /\ Attached'
  BY DEF WatchInv, Reading, Versioned, OneSnapshot, Attached, Classify, diskVars, buildVars,
       registryVars, loopVars
<1>3. Registered'
  BY DEF WatchInv, Registered, Settling, AllRegistered, Desired, Dirs, Classify, diskVars, buildVars,
       registryVars, loopVars
<1>4. Noticed'
  BY DEF WatchInv, Noticed, Settling, Look, Classify, diskVars, buildVars, registryVars, loopVars
<1>. QED BY <1>1, <1>2, <1>3, <1>4 DEF WatchInv

LEMMA WakeKeeps ==
    ASSUME WatchInv, NEW g, Wake(g)
    PROVE  WatchInv'
<1>1. WatchTypeOK'
  BY DEF WatchInv, WatchTypeOK, DiskType, RegistryType, WakeType, LoopType, BuildType, Wake, diskVars,
       buildVars, registryVars, loopVars
<1>2. Reading' /\ Versioned' /\ OneSnapshot' /\ Attached'
  BY DEF WatchInv, Reading, Versioned, OneSnapshot, Attached, Wake, diskVars, buildVars, registryVars,
       loopVars
<1>3. Registered'
  BY DEF WatchInv, Registered, Settling, AllRegistered, Desired, Dirs, Wake, diskVars, buildVars,
       registryVars, loopVars
<1>4. Noticed'
  BY DEF WatchInv, Noticed, Settling, Look, Wake, diskVars, buildVars, registryVars, loopVars
<1>. QED BY <1>1, <1>2, <1>3, <1>4 DEF WatchInv

LEMMA ControlKeeps ==
    ASSUME WatchInv, NEW c \in {"signal", "fatal"}, Control(c)
    PROVE  WatchInv'
<1>1. WatchTypeOK'
  BY DEF WatchInv, WatchTypeOK, DiskType, RegistryType, WakeType, LoopType, BuildType, ControlWakes,
       Control, diskVars, buildVars, registryVars, loopVars
<1>2. Reading' /\ Versioned' /\ OneSnapshot' /\ Attached'
  BY DEF WatchInv, Reading, Versioned, OneSnapshot, Attached, ControlWakes, Control, diskVars, buildVars,
       registryVars, loopVars
<1>3. Registered'
  BY DEF WatchInv, Registered, Settling, AllRegistered, Desired, Dirs, ControlWakes, Control, diskVars,
       buildVars, registryVars, loopVars
<1>4. Noticed'
  BY DEF WatchInv, Noticed, Settling, Look, ControlWakes, Control, diskVars, buildVars, registryVars,
       loopVars
<1>. QED BY <1>1, <1>2, <1>3, <1>4 DEF WatchInv

LEMMA StartKeeps ==
    ASSUME WatchInv, Start
    PROVE  WatchInv'
<1>1. WatchTypeOK'
  <2>1. DOMAIN base' = {}
    BY DEF Start
  <2>2. input' = 1 /\ tries' = 0 /\ phase' = "none" /\ due' = FALSE /\ retry' = FALSE /\ loop' \in {"ending", "read"}
    BY DEF Start
  <2>3. 1 \in Files /\ 0 \in 0..MaxTries
    BY Sets
  <2>4. LoopType'
    BY <2>1, <2>2, <2>3 DEF LoopType
  <2>. QED BY <2>4 DEF WatchInv, WatchTypeOK, DiskType, RegistryType, WakeType, BuildType, Start,
       diskVars, wakeVars, registryVars
<1>2. Reading' /\ Versioned' /\ OneSnapshot' /\ Attached'
  BY DEF WatchInv, Reading, Versioned, OneSnapshot, Attached, Start, diskVars, wakeVars, registryVars
<1>3. Registered'
  BY Sets DEF Registered, Settling, Start
<1>4. Noticed'
  BY DEF WatchInv, Noticed, Settling, Look, Start, diskVars, wakeVars, registryVars
<1>. QED BY <1>1, <1>2, <1>3, <1>4 DEF WatchInv

LEMMA ReadKeeps ==
    ASSUME WatchInv, Read
    PROVE  WatchInv'
<1>1. /\ input \in Files /\ loop = "read" /\ Len(known) = input - 1 /\ final = <<>> /\ known \in Seq(Looks)
      /\ \A f \in DOMAIN known : known[f].txt.ok
  BY DEF WatchInv, WatchTypeOK, BuildType, LoopType, Reading, Read
<1>2. /\ known' = Append(known, Look(input))
      /\ broken' = ~Look(input).txt.ok
      /\ \/ (broken' \/ LastInput(input)) /\ loop' = "final" /\ input' = 1 /\ mid' = disk.txt
         \/ ~broken' /\ ~LastInput(input) /\ input' = input + 1 /\ loop' = loop /\ mid' = mid
      /\ UNCHANGED <<diskVars, wakeVars, final, changed, success, last, seen, registryVars,
                     phase, tries, due, base, retry>>
  BY DEF Read
<1>3. /\ Look(input) \in Looks /\ Look(input).dir = disk.dir
      /\ Look(input).txt.ok \in BOOLEAN
      /\ Look(input).txt.v = 0 \/ Look(input).txt = disk.txt[input]
  BY <1>1, LookIs DEF WatchInv, WatchTypeOK, Looks, Txt
<1>4. /\ known' \in Seq(Looks) /\ Len(known') = input /\ DOMAIN known' = 1..input
      /\ DOMAIN known = 1..(input - 1)
      /\ \A f \in 1..(input - 1) : known'[f] = known[f]
      /\ known'[input] = Look(input)
  <2>1. Len(known) + 1 = input /\ input \in Nat
    BY <1>1, Sets
  <2>. QED BY <1>1, <1>2, <1>3, <2>1, Appended
<1>5. WatchTypeOK'
  <2>1. DiskType' /\ RegistryType' /\ WakeType'
    BY <1>2, Sets DEF WatchInv, WatchTypeOK, DiskType, RegistryType, WakeType, diskVars, wakeVars,
         registryVars
  <2>2. LoopType'
    BY <1>1, <1>2, Sets DEF WatchInv, WatchTypeOK, LoopType, LastInput
  <2>3. BuildType'
    <3>1. mid' = <<>> \/ mid' \in [Files -> Txt]
      BY <1>2 DEF WatchInv, WatchTypeOK, BuildType, DiskType
    <3>2. Len(known') <= Inputs /\ Len(final') <= Len(known')
      BY <1>1, <1>2, <1>4, Sets
    <3>3. broken' \in BOOLEAN
      BY <1>2, <1>3
    <3>. QED BY <1>2, <1>4, <3>1, <3>2, <3>3 DEF WatchInv, WatchTypeOK, BuildType
  <2>. QED BY <2>1, <2>2, <2>3 DEF WatchTypeOK
<1>6. Reading'
  <2>1. \A f \in DOMAIN known' : f # input => known'[f].txt.ok
    BY <1>1, <1>4, Sets
  <2>2. ~broken' => known'[input].txt.ok
    BY <1>2, <1>3, <1>4
  <2>3. ~success
    BY <1>1 DEF WatchInv, Reading
  <2>4. CASE loop' = "final"
    <3>1. input' = 1 /\ mid' = disk.txt /\ Len(final') = 0 /\ (broken' \/ input = Inputs)
      BY <1>1, <1>2, <2>4 DEF LastInput
    <3>2. mid' \in [Files -> Txt]
      BY <3>1 DEF WatchInv, WatchTypeOK, DiskType
    <3>. QED BY <1>1, <1>2, <1>4, <2>1, <2>2, <2>3, <2>4, <3>1, <3>2, Sets DEF Reading
  <2>5. CASE loop' = "read"
    BY <1>1, <1>2, <1>4, <2>1, <2>2, <2>3, <2>5, Sets DEF Reading
  <2>. QED BY <1>1, <1>2, <2>4, <2>5
<1>7. Versioned'
  <2>1. Look(input).txt.v <= changes
    BY <1>1, <1>3 DEF WatchInv, WatchTypeOK, DiskType, Versioned
  <2>2. \A f \in DOMAIN known' : known'[f].txt.v <= changes
    BY <1>1, <1>4, <2>1, Sets DEF WatchInv, Versioned
  <2>3. DOMAIN final' = {}
    BY <1>1, <1>2
  <2>. QED BY <1>1, <1>2, <2>2, <2>3 DEF WatchInv, Versioned, diskVars
<1>8. OneSnapshot'
  BY <1>1, <1>2 DEF WatchInv, Reading, OneSnapshot
<1>9. Attached'
  <2>1. disk.dir <= changes + 2
    BY Sets DEF WatchInv, WatchTypeOK, DiskType, Attached
  <2>2. \A f \in DOMAIN known' : known'[f].dir <= changes + 2
    BY <1>1, <1>3, <1>4, <2>1, Sets DEF WatchInv, Attached
  <2>. QED BY <1>2, <2>2 DEF WatchInv, Attached, diskVars, registryVars
<1>10. Registered' /\ Noticed'
  <2>1. Registered'
    BY <1>1, <1>2 DEF WatchInv, Registered, Settling
  <2>2. Noticed'
    BY <1>1, <1>2 DEF WatchInv, Noticed, Settling, wakeVars
  <2>. QED BY <2>1, <2>2
<1>. QED BY <1>5, <1>6, <1>7, <1>8, <1>9, <1>10 DEF WatchInv

LEMMA FinalizeKeeps ==
    ASSUME WatchInv, Finalize
    PROVE  WatchInv'
<1>1. /\ input \in Files /\ loop = "final" /\ Len(final) = input - 1 /\ input <= Len(known)
      /\ final \in Seq(Looks) /\ known \in Seq(Looks) /\ Len(known) <= Inputs /\ Len(known) \in Nat
      /\ DOMAIN known = 1..Len(known)
  BY DEF WatchInv, WatchTypeOK, BuildType, LoopType, Reading, Finalize
<1>0. /\ 1 \in Files /\ 1 <= Len(known) /\ input \in Nat
      /\ input # Len(known) => input + 1 \in Files /\ input + 1 <= Len(known)
  <2>1. input \in Nat /\ input >= 1 /\ Len(known) \in Nat /\ input <= Len(known) /\ Len(known) <= Inputs /\ Inputs \in Nat
    BY <1>1, Sets
  <2>2. 1 \in 1..Inputs /\ 1 <= Len(known) /\ (input # Len(known) => input + 1 \in 1..Inputs /\ input + 1 <= Len(known))
    BY ONLY <2>1
  <2>. QED BY <2>1, <2>2, Sets
<1>2. /\ final' = Append(final, Look(input))
      /\ changed' = (changed \/ Look(input) # known[input])
      /\ \/ /\ input = Len(known) /\ input' = 1
            /\ \/ broken /\ loop' = "mark"
               \/ ~broken /\ loop' = "link"
         \/ input # Len(known) /\ input' = input + 1 /\ loop' = loop
      /\ UNCHANGED <<diskVars, wakeVars, known, success, broken, last, seen, mid, registryVars,
                     phase, tries, due, base, retry>>
  BY DEF Finalize, Moved
<1>3. /\ Look(input) \in Looks /\ Look(input).dir = disk.dir
      /\ Look(input).txt.ok => Look(input).txt = disk.txt[input]
  BY <1>1, LookIs DEF WatchInv, WatchTypeOK
<1>4. /\ final' \in Seq(Looks) /\ Len(final') = input /\ DOMAIN final' = 1..input
      /\ DOMAIN final = 1..(input - 1)
      /\ \A f \in 1..(input - 1) : final'[f] = final[f]
      /\ final'[input] = Look(input)
  <2>1. Len(final) + 1 = input /\ input \in Nat
    BY <1>1, Sets
  <2>2. /\ final' \in Seq(Looks) /\ Len(final') = Len(final) + 1 /\ DOMAIN final' = 1..(Len(final) + 1)
        /\ DOMAIN final = 1..Len(final)
        /\ \A f \in 1..Len(final) : final'[f] = final[f]
        /\ final'[Len(final) + 1] = Look(input)
    BY <1>1, <1>2, <1>3, Appended
  <2>3. Len(final) = input - 1
    BY <1>1
  <2>. QED BY <2>1, <2>2, <2>3
<1>5. WatchTypeOK'
  <2>1. DiskType' /\ RegistryType' /\ WakeType'
    BY <1>2, Sets DEF WatchInv, WatchTypeOK, DiskType, RegistryType, WakeType, diskVars, wakeVars,
         registryVars
  <2>2. LoopType'
    <3>1. input' \in Files /\ loop' \in {"mark", "link", "final"}
      BY <1>0, <1>1, <1>2, Sets
    <3>. QED BY <1>2, <3>1 DEF WatchInv, WatchTypeOK, LoopType
  <2>3. BuildType'
    BY <1>1, <1>2, <1>4, Sets DEF WatchInv, WatchTypeOK, BuildType
  <2>. QED BY <2>1, <2>2, <2>3 DEF WatchTypeOK
<1>6. Reading'
  <2>1. /\ Len(known') >= 1 /\ mid' \in [Files -> Txt] /\ ~success'
        /\ ~broken' => Len(known') = Inputs /\ \A f \in DOMAIN known' : known'[f].txt.ok
    BY <1>1, <1>2 DEF WatchInv, Reading
  <2>2. loop' = "final" => Len(final') = input' - 1 /\ input' <= Len(known')
    BY <1>0, <1>1, <1>2, <1>4
  <2>3. loop' # "final" => loop' \in {"link", "mark"} /\ Len(final') = Len(known') /\ (loop' = "link" => ~broken')
    BY <1>1, <1>2, <1>4
  <2>. HIDE <1>2
  <2>. QED BY <2>1, <2>2, <2>3 DEF Reading
<1>7. Versioned'
  <2>1. ASSUME NEW f \in DOMAIN known, known[f].txt.ok
        PROVE  /\ disk.txt[f] = known[f].txt => mid[f] = known[f].txt
               /\ f \in DOMAIN final' /\ ~changed' => mid[f] = known[f].txt
    <3>1. /\ disk.txt[f] = known[f].txt => mid[f] = known[f].txt
          /\ f \in DOMAIN final /\ ~changed => mid[f] = known[f].txt
      BY <1>1, <2>1 DEF WatchInv, Versioned
    <3>2. ASSUME f = input, ~changed' PROVE disk.txt[f] = known[f].txt
      BY <1>2, <1>3, <2>1, <3>2
    <3>3. f # input /\ f \in DOMAIN final' => f \in DOMAIN final
      BY <1>1, <1>4, Sets
    <3>. QED BY <1>2, <3>1, <3>2, <3>3
  <2>. QED BY <1>2, <2>1 DEF WatchInv, Versioned, diskVars
<1>8. OneSnapshot'
  BY <1>1, <1>2 DEF WatchInv, Reading, OneSnapshot
<1>9. Attached'
  <2>1. disk.dir <= changes + 2
    BY Sets DEF WatchInv, WatchTypeOK, DiskType, Attached
  <2>2. \A f \in DOMAIN final' : final'[f].dir <= changes + 2
    BY <1>1, <1>3, <1>4, <2>1, Sets DEF WatchInv, Attached
  <2>. QED BY <1>2, <2>2 DEF WatchInv, Attached, diskVars, registryVars
<1>10. Registered'
  BY <1>1, <1>2 DEF WatchInv, Registered, Settling
<1>11. Noticed'
  BY <1>1, <1>2 DEF WatchInv, Noticed, Settling, wakeVars
<1>. QED BY <1>5, <1>6, <1>7, <1>8, <1>9, <1>10, <1>11 DEF WatchInv

LEMMA LinkKeeps ==
    ASSUME WatchInv, NEW ok \in BOOLEAN, Link(ok)
    PROVE  WatchInv'
<1>1. WatchTypeOK'
  BY DEF WatchInv, WatchTypeOK, DiskType, RegistryType, WakeType, LoopType, BuildType, Link, diskVars,
       wakeVars, registryVars
<1>2. Reading' /\ Versioned' /\ OneSnapshot' /\ Attached'
  <2>1. ASSUME success', NEW f \in Files PROVE known'[f].txt = mid'[f]
    <3>1. ~changed /\ known' = known /\ mid' = mid /\ loop = "link"
      BY <2>1 DEF Link
    <3>2. f \in DOMAIN known /\ f \in DOMAIN final /\ known[f].txt.ok
      BY <3>1, Sets DEF WatchInv, WatchTypeOK, BuildType, Reading
    <3>. QED BY <3>1, <3>2 DEF WatchInv, Versioned
  <2>2. Reading' /\ Versioned' /\ Attached'
    BY DEF WatchInv, Reading, Versioned, Attached, Link, diskVars, registryVars
  <2>. QED BY <2>1, <2>2 DEF OneSnapshot
<1>3. Registered'
  BY DEF WatchInv, Registered, Settling, AllRegistered, Desired, Dirs, Link, diskVars, wakeVars,
       registryVars
<1>4. Noticed'
  BY DEF WatchInv, Noticed, Settling, Look, Link, diskVars, wakeVars, registryVars
<1>. QED BY <1>1, <1>2, <1>3, <1>4 DEF WatchInv

LEMMA LinkStopsKeeps ==
    ASSUME WatchInv, LinkStops
    PROVE  WatchInv'
<1>1. WatchTypeOK'
  BY DEF WatchInv, WatchTypeOK, DiskType, RegistryType, WakeType, LoopType, BuildType, LinkStops,
       diskVars, wakeVars, buildVars, registryVars
<1>2. Reading' /\ Versioned' /\ OneSnapshot' /\ Attached'
  BY DEF WatchInv, Reading, Versioned, OneSnapshot, Attached, LinkStops, diskVars, wakeVars, buildVars,
       registryVars
<1>3. Registered'
  BY DEF WatchInv, Registered, Settling, AllRegistered, Desired, Dirs, LinkStops, diskVars, wakeVars,
       buildVars, registryVars
<1>4. Noticed'
  BY DEF WatchInv, Noticed, Settling, Look, LinkStops, diskVars, wakeVars, buildVars, registryVars
<1>. QED BY <1>1, <1>2, <1>3, <1>4 DEF WatchInv

LEMMA MarkRevisionKeeps ==
    ASSUME WatchInv, MarkRevision
    PROVE  WatchInv'
<1>. DEFINE read == 1..Len(final)
            kept == IF success THEN {} ELSE last \ read
<1>1. /\ loop = "mark" /\ Len(final) = Len(known) /\ Len(known) \in 1..Inputs
      /\ final \in Seq(Looks) /\ known \in Seq(Looks) /\ last \subseteq Files
  BY Sets DEF WatchInv, WatchTypeOK, BuildType, Reading, MarkRevision
<1>2. /\ seen' = known /\ known' = <<>> /\ final' = <<>> /\ mid' = <<>> /\ success' = FALSE /\ broken' = FALSE
      /\ \/ loop' = "ending" /\ UNCHANGED <<last, base>>
         \/ /\ base' = [f \in read \cup kept |-> IF f \in read THEN final[f] ELSE Look(f)]
            /\ last' \in {read, last}
            /\ loop' = "desire"
      /\ UNCHANGED <<diskVars, wakeVars, changed, registryVars, input, phase, tries, due, retry>>
  BY DEF MarkRevision
<1>3. read \subseteq Files /\ kept \subseteq Files /\ 1 \in read
  <2>1. Len(final) \in Nat /\ Len(final) >= 1 /\ Len(final) <= Inputs
    BY <1>1, Sets
  <2>2. read \subseteq Files /\ 1 \in read
    BY <2>1, Sets
  <2>. QED BY <1>1, <2>2
<1>. HIDE DEF read, kept
<1>4. \A f \in read : final[f] \in Looks /\ final[f].dir <= changes + 2
  BY <1>1 DEF read, WatchInv, Attached
<1>5. \A f \in Files : Look(f) \in Looks /\ Look(f).dir <= changes + 2
  BY LookIs, Sets DEF WatchInv, WatchTypeOK, DiskType, Attached
<1>6. ASSUME loop' = "desire"
      PROVE  /\ DOMAIN base' \subseteq Files /\ 1 \in DOMAIN base'
             /\ \A f \in DOMAIN base' : base'[f] \in Looks /\ base'[f].dir <= changes + 2
  BY <1>2, <1>3, <1>4, <1>5, <1>6
<1>7. loop' \in {"desire", "ending"} /\ (loop' # "desire" => base' = base)
  BY <1>2
<1>8. WatchTypeOK'
  <2>1. DiskType' /\ RegistryType' /\ WakeType'
    BY <1>2, Sets DEF WatchInv, WatchTypeOK, DiskType, RegistryType, WakeType, diskVars, wakeVars,
         registryVars
  <2>2. LoopType'
    BY <1>1, <1>2, <1>6, <1>7 DEF WatchInv, WatchTypeOK, LoopType
  <2>3. BuildType'
    <3>1. <<>> \in Seq(Looks) /\ Len(<<>>) = 0
      OBVIOUS
    <3>2. last' \subseteq Files
      BY <1>1, <1>2, <1>3
    <3>3. /\ known' \in Seq(Looks) /\ Len(known') = 0 /\ final' \in Seq(Looks) /\ Len(final') = 0
          /\ seen' \in Seq(Looks)
      BY <1>1, <1>2, <3>1
    <3>4. Len(known') <= Inputs /\ Len(final') <= Len(known')
      BY <3>3, Sets
    <3>. QED BY <1>2, <3>2, <3>3, <3>4 DEF WatchInv, WatchTypeOK, BuildType
  <2>. QED BY <2>1, <2>2, <2>3 DEF WatchTypeOK
<1>9. Reading'
  BY <1>2, <1>7 DEF Reading
<1>10. Versioned'
  BY <1>2, <1>7 DEF WatchInv, Versioned, diskVars
<1>11. OneSnapshot'
  BY <1>2 DEF OneSnapshot
<1>12. Attached'
  BY <1>2, <1>6, <1>7 DEF WatchInv, Attached, diskVars, registryVars
<1>13. Registered'
  BY <1>1, <1>2, <1>7 DEF WatchInv, Registered, Settling
<1>14. Noticed'
  BY <1>1, <1>2, <1>6, <1>7 DEF WatchInv, Noticed, Settling, wakeVars
<1>. QED BY <1>8, <1>9, <1>10, <1>11, <1>12, <1>13, <1>14 DEF WatchInv

LEMMA DesireKeeps ==
    ASSUME WatchInv, Desire
    PROVE  WatchInv'
<1>1. /\ loop = "desire" /\ UNCHANGED <<disk, changes, known, final, changed, success, broken, last, seen, mid>>
      /\ UNCHANGED <<dirty, control, tries, due, base, retry>>
  BY DesireIs DEF diskVars, buildVars
<1>2. CASE loop' \in {"ending", "start"} /\ UNCHANGED <<queue, waking, byte, watches, adds, gen, tentative, input, phase>>
  <2>1. WatchTypeOK'
    BY <1>1, <1>2 DEF WatchInv, WatchTypeOK, DiskType, RegistryType, WakeType, LoopType, BuildType
  <2>2. Reading' /\ Versioned' /\ OneSnapshot' /\ Attached'
    BY <1>1, <1>2 DEF WatchInv, Reading, Versioned, OneSnapshot, Attached
  <2>3. Registered'
    BY <1>1, <1>2 DEF WatchInv, Registered, Settling
  <2>4. Noticed'
    BY <1>1, <1>2 DEF WatchInv, Noticed, Settling
  <2>. QED BY <2>1, <2>2, <2>3, <2>4 DEF WatchInv
<1>3. CASE /\ \/ watches' = watches /\ UNCHANGED <<queue, waking, byte>>
              \/ watches' = Compacted(watches) /\ DropBackends(watches')
           /\ tentative' = FALSE /\ phase' = "added" /\ input' = 1
           /\ \/ AllRegistered(watches') /\ loop' = "look" /\ adds' = <<>> /\ gen' = gen
              \/ /\ ~(Cardinality(Dirs) > 1)
                 /\ loop' = "add" /\ adds' = Ordered(Dirs) /\ gen' = gen + 1
  <2>1. /\ watches' \subseteq watches /\ queue' \subseteq queue /\ waking' \subseteq waking /\ byte' \in BOOLEAN
        /\ byte \/ waking # {} => byte' \/ waking' # {}
    BY <1>3, Dropped DEF Compacted, WatchInv, WatchTypeOK, WakeType
  <2>2. gen' \in Nat \ {0} /\ gen <= gen' /\ loop' \in {"look", "add"}
    BY <1>3 DEF WatchInv, WatchTypeOK, RegistryType
  <2>3. /\ adds' \in Seq(Registrations)
        /\ loop' = "add" => adds' # <<>> /\ Desired \subseteq {adds'[i] : i \in DOMAIN adds'}
        /\ loop' = "add" => \A i \in DOMAIN adds' : adds'[i] \in Desired
    <3>1. CASE loop' = "look"
      BY <1>3, <3>1
    <3>2. CASE loop' = "add"
      <4>1. adds' = Ordered(Dirs) /\ ~(Cardinality(Dirs) > 1)
        BY <1>3, <3>2
      <4>2. /\ Ordered(Dirs) \in Seq(Registrations) /\ Ordered(Dirs) # <<>>
            /\ \A e \in Desired : \E i \in DOMAIN Ordered(Dirs) : Ordered(Dirs)[i] = e
            /\ \A i \in DOMAIN Ordered(Dirs) : Ordered(Dirs)[i] \in Desired
        BY <4>1, OrderedIs DEF WatchInv
      <4>. QED BY <4>1, <4>2
    <3>. QED BY <2>2, <3>1, <3>2
  <2>4. WatchTypeOK'
    <3>1. DiskType' /\ BuildType'
      BY <1>1 DEF WatchInv, WatchTypeOK, DiskType, BuildType
    <3>2. RegistryType'
      <4>1. watches' \subseteq [gen : Nat, path : {"root", "sub"}, reg : {Root} \cup Inodes, on : {Root} \cup Inodes]
        BY <2>1 DEF WatchInv, WatchTypeOK, RegistryType
      <4>2. \A w \in watches' : w.gen < gen'
        <5>. SUFFICES ASSUME NEW w \in watches' PROVE w.gen < gen'
          OBVIOUS
        <5>1. w.gen < gen /\ w.gen \in Nat /\ gen \in Nat
          BY <2>1 DEF WatchInv, WatchTypeOK, RegistryType
        <5>. QED BY <2>2, <5>1
      <4>. QED BY <1>3, <2>2, <2>3, <4>1, <4>2 DEF RegistryType
    <3>3. WakeType'
      <4>1. 0..gen \subseteq 0..gen'
        BY <2>2 DEF WatchInv, WatchTypeOK, RegistryType
      <4>. QED BY <1>1, <2>1, <4>1 DEF WatchInv, WatchTypeOK, WakeType
    <3>4. LoopType'
      BY <1>1, <1>3, <2>2, Sets DEF WatchInv, WatchTypeOK, LoopType
    <3>. QED BY <3>1, <3>2, <3>3, <3>4 DEF WatchTypeOK
  <2>5. Reading' /\ Versioned' /\ OneSnapshot'
    BY <1>1, <2>2 DEF WatchInv, Reading, Versioned, OneSnapshot
  <2>6. Attached'
    BY <1>1, <2>1 DEF WatchInv, Attached
  <2>7. Registered'
    <3>1. Desired' = Desired /\ tries' < MaxTries /\ ~Settling'
      BY <1>1, <1>3, <2>2 DEF Desired, Dirs, Settling, WatchInv, Registered
    <3>2. loop' = "look" => AllRegistered(watches)'
      BY <1>3, <3>1 DEF AllRegistered
    <3>3. ASSUME loop' = "add", NEW i \in DOMAIN adds'
          PROVE  /\ adds'[i].path = "root" => adds'[i].reg = Root
                 /\ adds'[i].path = "sub" => adds'[i].reg <= changes + 2 /\ adds'[i].reg # Root
      <4>1. adds'[i] \in Desired
        BY <2>3, <3>3
      <4>2. \A d \in Dirs : d <= changes + 2 /\ d # Root
        BY DirsAre, Sets DEF WatchInv, Attached, Dirs
      <4>. QED BY <4>1, <4>2 DEF Desired
    <3>4. loop' = "add" => \A r \in Desired' : \E i \in DOMAIN adds' : adds'[i] = r
      BY <2>3, <3>1
    <3>5. loop' # "compact" /\ phase' = "added"
      BY <1>3, <2>2
    <3>. QED BY <1>1, <2>3, <3>1, <3>2, <3>3, <3>4, <3>5 DEF Registered
  <2>8. Noticed'
    <3>1. 1 \in DOMAIN base' /\ ~Settling' /\ input' = 1
      BY <1>1, <1>3, <2>2 DEF Settling, WatchInv, Noticed
    <3>2. dirty' => byte' \/ waking' # {}
      BY <1>1, <2>1 DEF WatchInv, Noticed
    <3>. QED BY <2>2, <3>1, <3>2 DEF Noticed
  <2>. QED BY <2>4, <2>5, <2>6, <2>7, <2>8 DEF WatchInv
<1>. QED BY <1>2, <1>3, DesireIs

LEMMA AddKeeps ==
    ASSUME WatchInv, Add
    PROVE  WatchInv'
<1>. DEFINE r == Head(adds)
            on == IF r.path = "root" THEN Root ELSE disk.dir
            new == [gen |-> gen - 1, path |-> r.path, reg |-> r.reg, on |-> on]
            rest == {w \in watches : w.gen # gen - 1}
<1>1. /\ loop = "add" /\ UNCHANGED <<disk, changes, known, final, changed, success, broken, last, seen, mid>>
      /\ UNCHANGED <<dirty, control, gen, tentative, input, tries, due, base, retry>>
  BY DEF Add, diskVars, buildVars, wakeVars, registryVars
<1>2. /\ adds # <<>> /\ adds \in Seq(Registrations) /\ r = adds[1] /\ r \in Registrations /\ phase = "added"
      /\ input = 1 /\ Len(adds) \in Nat /\ Len(adds) >= 1 /\ DOMAIN adds = 1..Len(adds)
  <2>1. adds # <<>> /\ adds \in Seq(Registrations) /\ phase = "added" /\ input = 1
    BY <1>1 DEF WatchInv, WatchTypeOK, RegistryType, Registered, Noticed
  <2>2. r \in Registrations /\ r = adds[1]
    BY <2>1, HeadTailProperties
  <2>. QED BY <2>1, <2>2
<1>3. CASE loop' = "ending" /\ UNCHANGED <<queue, waking, byte, watches, adds, phase>>
  <2>1. WatchTypeOK'
    BY <1>1, <1>3 DEF WatchInv, WatchTypeOK, DiskType, RegistryType, WakeType, LoopType, BuildType
  <2>2. Reading' /\ Versioned' /\ OneSnapshot' /\ Attached'
    BY <1>1, <1>3 DEF WatchInv, Reading, Versioned, OneSnapshot, Attached
  <2>3. Registered'
    BY <1>3 DEF Registered, Settling
  <2>4. Noticed'
    BY <1>3 DEF Noticed, Settling
  <2>. QED BY <2>1, <2>2, <2>3, <2>4 DEF WatchInv
<1>4. CASE watches' = rest /\ DropBackends(rest) /\ adds' = <<>> /\ phase' = "lost" /\ loop' = "look"
  <2>1. /\ watches' \subseteq watches /\ queue' \subseteq queue /\ waking' \subseteq waking /\ byte' \in BOOLEAN
        /\ byte \/ waking # {} => byte' \/ waking' # {}
    BY <1>4, Dropped DEF WatchInv, WatchTypeOK
  <2>2. WatchTypeOK'
    <3>1. DiskType' /\ BuildType' /\ LoopType'
      BY <1>1, <1>4 DEF WatchInv, WatchTypeOK, DiskType, BuildType, LoopType
    <3>2. RegistryType' /\ WakeType'
      BY <1>1, <1>4, <2>1 DEF WatchInv, WatchTypeOK, RegistryType, WakeType
    <3>. QED BY <3>1, <3>2 DEF WatchTypeOK
  <2>3. Reading' /\ Versioned' /\ OneSnapshot'
    BY <1>1, <1>4 DEF WatchInv, Reading, Versioned, OneSnapshot
  <2>4. Attached'
    BY <1>1, <2>1 DEF WatchInv, Attached
  <2>5. Registered'
    BY <1>1, <1>4 DEF WatchInv, Registered, Settling
  <2>6. Noticed'
    BY <1>1, <1>2, <1>4, <2>1 DEF WatchInv, Noticed, Settling
  <2>. QED BY <2>2, <2>3, <2>4, <2>5, <2>6 DEF WatchInv
<1>5. CASE /\ watches' = watches \cup {new} /\ (r.path = "sub" => disk.dir # 0)
           /\ adds' = Tail(adds) /\ loop' = IF Len(adds) = 1 THEN "look" ELSE "add"
           /\ UNCHANGED <<queue, waking, byte, phase>>
  <2>1. /\ adds' \in Seq(Registrations) /\ Len(adds') = Len(adds) - 1 /\ DOMAIN adds' = 1..(Len(adds) - 1)
        /\ \A i \in 1..(Len(adds) - 1) : adds'[i] = adds[i + 1]
    <3>1. /\ Tail(adds) \in Seq(Registrations) /\ Len(Tail(adds)) = Len(adds) - 1
          /\ \A i \in 1..Len(Tail(adds)) : Tail(adds)[i] = adds[i + 1]
      BY <1>2, HeadTailProperties
    <3>. QED BY <1>2, <1>5, <3>1
  <2>2. /\ r.path = "root" => r.reg = Root
        /\ r.path = "sub" => r.reg <= changes + 2 /\ r.reg # Root
    BY <1>1, <1>2 DEF WatchInv, Registered
  <2>3. r.path \in {"root", "sub"} /\ r.reg \in {Root} \cup Inodes /\ Registration(new) = r
    BY <1>2 DEF Registrations, Registration
  <2>4. on \in {Root} \cup Inodes
    BY <1>5, <2>3 DEF WatchInv, WatchTypeOK, DiskType
  <2>5. /\ new.gen = gen - 1 /\ new.path = r.path /\ new.reg = r.reg /\ new.on = on
        /\ new \in [gen : Nat, path : {"root", "sub"}, reg : {Root} \cup Inodes, on : {Root} \cup Inodes]
        /\ gen - 1 < gen
    BY <2>3, <2>4 DEF WatchInv, WatchTypeOK, RegistryType
  <2>6. loop' \in {"look", "add"} /\ (loop' = "look" => Len(adds) = 1) /\ (loop' = "add" => Len(adds) # 1)
    BY <1>5
  <2>. HIDE DEF new
  <2>7. WatchTypeOK'
    <3>1. DiskType' /\ BuildType' /\ LoopType' /\ WakeType'
      BY <1>1, <1>5, <2>6 DEF WatchInv, WatchTypeOK, DiskType, BuildType, LoopType, WakeType
    <3>2. RegistryType'
      BY <1>1, <1>5, <2>1, <2>5 DEF WatchInv, WatchTypeOK, RegistryType
    <3>. QED BY <3>1, <3>2 DEF WatchTypeOK
  <2>8. Reading' /\ Versioned' /\ OneSnapshot'
    BY <1>1, <2>6 DEF WatchInv, Reading, Versioned, OneSnapshot
  <2>9. Attached'
    <3>1. /\ new.path = "root" => new.reg = Root /\ new.on = Root
          /\ new.path = "sub" => new.reg <= changes + 2 /\ (new.on = new.reg \/ disk.dir # new.reg)
      BY <2>2, <2>5
    <3>. QED BY <1>1, <1>5, <3>1 DEF WatchInv, Attached
  <2>10. Registered'
    <3>1. Desired' = Desired /\ tries' < MaxTries /\ ~Settling' /\ phase' = "added"
      BY <1>1, <1>2, <1>5, <2>6 DEF Desired, Dirs, Settling, WatchInv, Registered
    <3>2. \A e \in Desired : \/ \E w \in watches' : Registration(w) = e
                             \/ \E i \in DOMAIN adds' : adds'[i] = e
      <4>. TAKE e \in Desired
      <4>1. CASE \E w \in watches : Registration(w) = e
        BY <1>5, <4>1
      <4>2. CASE \E i \in DOMAIN adds : adds[i] = e
        <5>1. PICK i \in 1..Len(adds) : adds[i] = e
          BY <1>2, <4>2
        <5>2. CASE i = 1
          BY <1>2, <1>5, <2>3, <5>1, <5>2
        <5>3. CASE i # 1
          <6>1. i - 1 \in 1..(Len(adds) - 1) /\ (i - 1) + 1 = i
            BY <1>2, <5>3
          <6>. QED BY <2>1, <5>1, <6>1
        <5>. QED BY <5>2, <5>3
      <4>. QED BY <1>1, <4>1, <4>2 DEF WatchInv, Registered
    <3>3. loop' = "look" => AllRegistered(watches)'
      <4>1. Len(adds) = 1 => DOMAIN adds' = {}
        BY <2>1
      <4>. QED BY <2>6, <3>1, <3>2, <4>1 DEF AllRegistered
    <3>4. loop' = "add" => adds' # <<>>
      BY <1>2, <2>1, <2>6
    <3>5. ASSUME NEW i \in DOMAIN adds'
          PROVE  /\ adds'[i].path = "root" => adds'[i].reg = Root
                 /\ adds'[i].path = "sub" => adds'[i].reg <= changes + 2 /\ adds'[i].reg # Root
      <4>1. i + 1 \in DOMAIN adds /\ adds'[i] = adds[i + 1]
        BY <1>2, <2>1
      <4>. QED BY <1>1, <4>1 DEF WatchInv, Registered
    <3>6. loop' # "compact"
      BY <2>6
    <3>. QED BY <1>1, <3>1, <3>2, <3>3, <3>4, <3>5, <3>6 DEF Registered
  <2>11. Noticed'
    <3>1. 1 \in DOMAIN base' /\ ~Settling' /\ input' = 1
      BY <1>1, <1>2, <1>5, <2>6 DEF Settling, WatchInv, Noticed
    <3>2. dirty' => byte' \/ waking' # {}
      BY <1>1, <1>5 DEF WatchInv, Noticed
    <3>. QED BY <2>6, <3>1, <3>2 DEF Noticed
  <2>. QED BY <2>7, <2>8, <2>9, <2>10, <2>11 DEF WatchInv
<1>. QED BY <1>3, <1>4, <1>5 DEF Add, wakeVars, registryVars

LEMMA CompactKeeps ==
    ASSUME WatchInv, Compact
    PROVE  WatchInv'
<1>1. /\ loop = "compact" /\ UNCHANGED <<disk, changes, known, final, changed, success, broken, last, seen, mid>>
      /\ UNCHANGED <<dirty, control, adds, gen, tentative, tries, due, base, retry>>
  BY DEF Compact, diskVars, buildVars, wakeVars
<1>2. CASE loop' = "ending" /\ UNCHANGED <<queue, waking, byte, watches, input, phase>>
  <2>1. WatchTypeOK'
    BY <1>1, <1>2 DEF WatchInv, WatchTypeOK, DiskType, RegistryType, WakeType, LoopType, BuildType
  <2>2. Reading' /\ Versioned' /\ OneSnapshot' /\ Attached'
    BY <1>1, <1>2 DEF WatchInv, Reading, Versioned, OneSnapshot, Attached
  <2>3. Registered'
    BY <1>2 DEF Registered, Settling
  <2>4. Noticed'
    BY <1>2 DEF Noticed, Settling
  <2>. QED BY <2>1, <2>2, <2>3, <2>4 DEF WatchInv
<1>3. CASE /\ watches' = Compacted(watches) /\ DropBackends(Compacted(watches))
           /\ loop' = "look" /\ input' = 1 /\ phase' = "compacted"
  <2>1. /\ watches' \subseteq watches /\ queue' \subseteq queue /\ waking' \subseteq waking /\ byte' \in BOOLEAN
        /\ byte \/ waking # {} => byte' \/ waking' # {}
    BY <1>3, Dropped DEF WatchInv, WatchTypeOK, Compacted
  <2>2. WatchTypeOK'
    <3>1. DiskType' /\ BuildType'
      BY <1>1 DEF WatchInv, WatchTypeOK, DiskType, BuildType
    <3>2. RegistryType' /\ WakeType'
      BY <1>1, <2>1 DEF WatchInv, WatchTypeOK, RegistryType, WakeType
    <3>3. LoopType'
      BY <1>1, <1>3, Sets DEF WatchInv, WatchTypeOK, LoopType
    <3>. QED BY <3>1, <3>2, <3>3 DEF WatchTypeOK
  <2>3. Reading' /\ Versioned' /\ OneSnapshot'
    BY <1>1, <1>3 DEF WatchInv, Reading, Versioned, OneSnapshot
  <2>4. Attached'
    BY <1>1, <2>1 DEF WatchInv, Attached
  <2>5. Registered'
    <3>1. AllRegistered(Compacted(watches))
      BY <1>1, CompactedKeeps DEF WatchInv, WatchTypeOK, Registered
    <3>2. AllRegistered(watches)'
      BY <1>1, <1>3, <3>1 DEF AllRegistered, Desired, Dirs
    <3>. QED BY <1>3, <3>2 DEF Registered
  <2>6. Noticed'
    <3>1. 1 \in DOMAIN base' /\ \A f \in DOMAIN base' : f >= 1
      BY <1>1, Sets DEF WatchInv, WatchTypeOK, LoopType, Noticed
    <3>2. dirty' => byte' \/ waking' # {}
      BY <1>1, <2>1 DEF WatchInv, Noticed
    <3>. QED BY <1>3, <3>1, <3>2 DEF Noticed
  <2>. QED BY <2>2, <2>3, <2>4, <2>5, <2>6 DEF WatchInv
<1>. QED BY <1>2, <1>3 DEF Compact, wakeVars

LEMMA ObserveKeeps ==
    ASSUME WatchInv, Observe
    PROVE  WatchInv'
<1>1. /\ loop = "look" /\ UNCHANGED <<disk, changes, known, final, changed, success, broken, last, seen, mid>>
      /\ UNCHANGED <<queue, waking, dirty, byte, control, watches, adds, gen, base>>
      /\ tentative' \in BOOLEAN /\ due' \in BOOLEAN
  BY ObserveIs DEF WatchInv, WatchTypeOK, RegistryType, LoopType, diskVars, buildVars, wakeVars
<1>2. /\ input \in DOMAIN base /\ input \in Files /\ 1 \in DOMAIN base
      /\ \A f \in DOMAIN base : f \in Nat
  BY <1>1, Sets DEF WatchInv, WatchTypeOK, LoopType, Noticed
<1>3. DiskType' /\ RegistryType' /\ WakeType' /\ BuildType'
  BY <1>1 DEF WatchInv, WatchTypeOK, DiskType, RegistryType, WakeType, BuildType
<1>4. dirty' => byte' \/ waking' # {}
  BY <1>1 DEF WatchInv, Noticed
<1>5. AllRegistered(watches)' <=> AllRegistered(watches)
  BY <1>1 DEF Desired, Dirs, AllRegistered
<1>6. CASE loop' = "start" /\ UNCHANGED <<input, phase, tries, retry>>
  <2>1. LoopType' /\ Reading' /\ Versioned' /\ OneSnapshot' /\ Attached'
    BY <1>1, <1>6 DEF WatchInv, WatchTypeOK, LoopType, Reading, Versioned, OneSnapshot, Attached
  <2>2. Registered' /\ Noticed'
    BY <1>4, <1>6 DEF Registered, Noticed, Settling
  <2>. QED BY <1>3, <2>1, <2>2 DEF WatchInv, WatchTypeOK
<1>7. CASE /\ Look(input) = base[input] /\ NextFile(input) # 0
           /\ input' = NextFile(input) /\ UNCHANGED <<loop, phase, tries, retry>>
  <2>1. /\ input' \in DOMAIN base /\ input' \in Files
        /\ \A h \in DOMAIN base : h > input => input' <= h
    BY <1>2, <1>7, NextFileIs DEF WatchInv, WatchTypeOK
  <2>2. LoopType' /\ Reading' /\ Versioned' /\ OneSnapshot' /\ Attached'
    BY <1>1, <1>7, <2>1 DEF WatchInv, WatchTypeOK, LoopType, Reading, Versioned, OneSnapshot, Attached
  <2>3. Registered'
    BY <1>1, <1>5, <1>7 DEF WatchInv, Registered, Settling
  <2>4. ASSUME ~MoveBack, Settling', NEW f \in DOMAIN base', Look(f)' # base'[f]
        PROVE  f >= input' \/ queue' # {} \/ dirty'
    <3>1. Settling /\ f \in DOMAIN base /\ Look(f) # base[f] /\ f # input
      BY <1>1, <1>7, <2>4 DEF Settling, Look
    <3>2. f >= input \/ queue # {} \/ dirty
      BY <1>1, <2>4, <3>1 DEF WatchInv, Noticed
    <3>3. f > input => f >= input'
      BY <1>2, <2>1, <3>1, Sets
    <3>. QED BY <1>1, <1>2, <3>1, <3>2, <3>3, Sets
  <2>5. Noticed'
    BY <1>1, <1>2, <1>4, <1>7, <2>1, <2>4 DEF Noticed
  <2>. QED BY <1>3, <2>2, <2>3, <2>5 DEF WatchInv, WatchTypeOK
<1>8. CASE /\ Look(input) = base[input] /\ NextFile(input) = 0
           /\ input' = 1 /\ phase' = phase
           /\ \/ phase = "added" /\ loop' = "compact" /\ UNCHANGED <<tries, retry>>
              \/ /\ phase = "compacted" /\ loop' \in {"start", "top"} /\ retry' = FALSE
                 /\ tries' = tries
              \/ /\ phase = "lost" /\ tries' = tries + 1
                 /\ \/ tries' = MaxTries /\ loop' \in {"start", "top"} /\ retry' = TRUE
                    \/ tries' # MaxTries /\ loop' = "desire" /\ retry' = retry
              \/ phase = "loop" /\ tries' = 0 /\ loop' = "desire" /\ retry' = retry
  <2>1. /\ tries' \in 0..MaxTries /\ loop' \in {"compact", "start", "top", "desire"} /\ retry' \in BOOLEAN
        /\ loop' = "desire" => tries' < MaxTries
    <3>1. tries \in Nat /\ tries <= MaxTries /\ MaxTries \in Nat \ {0} /\ retry \in BOOLEAN
      BY Sets DEF WatchInv, WatchTypeOK, LoopType
    <3>2. phase = "lost" => tries < MaxTries
      BY <1>1 DEF WatchInv, Registered
    <3>3. loop' \in {"compact", "start", "top", "desire"}
      BY <1>8
    <3>4. retry' \in BOOLEAN
      BY <1>8, <3>1
    <3>5. \/ phase = "lost" /\ tries' = tries + 1 /\ (loop' = "desire" => tries' # MaxTries)
          \/ tries' = 0
          \/ tries' = tries /\ loop' # "desire"
      BY <1>8
    <3>6. tries' \in 0..MaxTries /\ (loop' = "desire" => tries' < MaxTries)
      BY ONLY <3>1, <3>2, <3>5
    <3>. QED BY <3>3, <3>4, <3>6
  <2>2. LoopType'
    BY <1>1, <1>8, <2>1, Sets DEF WatchInv, WatchTypeOK, LoopType
  <2>3. Reading' /\ Versioned' /\ OneSnapshot' /\ Attached'
    BY <1>1, <2>1 DEF WatchInv, Reading, Versioned, OneSnapshot, Attached
  <2>4. Settling' => Settling /\ phase = "compacted" /\ loop' = "top"
    BY <1>1, <1>8, <2>1 DEF Settling
  <2>5. Registered'
    <3>1. Settling' \/ loop' = "compact" => AllRegistered(watches)'
      BY <1>1, <1>5, <1>8, <2>1, <2>4 DEF WatchInv, Registered
    <3>. QED BY <2>1, <3>1 DEF Registered
  <2>6. ASSUME ~MoveBack, Settling', NEW f \in DOMAIN base', Look(f)' # base'[f]
        PROVE  queue' # {} \/ dirty'
    <3>1. f \in DOMAIN base /\ Look(f) # base[f] /\ f # input
      BY <1>1, <1>8, <2>6 DEF Look
    <3>2. f >= input \/ queue # {} \/ dirty
      BY <1>1, <2>4, <2>6, <3>1 DEF WatchInv, Noticed
    <3>3. f <= input
      BY <1>2, <1>8, <3>1, NextFileIs DEF WatchInv, WatchTypeOK
    <3>. QED BY <1>1, <1>2, <3>1, <3>2, <3>3, Sets
  <2>7. Noticed'
    BY <1>1, <1>2, <1>4, <2>1, <2>6 DEF Noticed
  <2>. QED BY <1>3, <2>2, <2>3, <2>5, <2>7 DEF WatchInv, WatchTypeOK
<1>. QED BY <1>6, <1>7, <1>8, ObserveIs DEF WatchInv

LEMMA DrainKeeps ==
    ASSUME WatchInv, Drain
    PROVE  WatchInv'
<1>1. WatchTypeOK'
  <2>1. DiskType' /\ RegistryType' /\ BuildType'
    BY DEF WatchInv, WatchTypeOK, DiskType, RegistryType, BuildType, Drain, diskVars, buildVars,
         registryVars
  <2>2. WakeType'
    BY DEF WatchInv, WatchTypeOK, WakeType, Drain, registryVars
  <2>3. LoopType'
    BY Sets DEF WatchInv, WatchTypeOK, LoopType, Drain
  <2>. QED BY <2>1, <2>2, <2>3 DEF WatchTypeOK
<1>2. Reading' /\ Versioned' /\ OneSnapshot' /\ Attached'
  BY DEF WatchInv, Reading, Versioned, OneSnapshot, Attached, Drain, diskVars, buildVars, registryVars
<1>3. Registered'
  BY DEF WatchInv, Registered, Settling, AllRegistered, Desired, Dirs, Drain, diskVars, buildVars,
       registryVars
<1>4. Noticed'
  BY DEF WatchInv, Noticed, Settling, Look, Drain, diskVars, buildVars, registryVars
<1>. QED BY <1>1, <1>2, <1>3, <1>4 DEF WatchInv

LEMMA TopKeeps ==
    ASSUME WatchInv, Top
    PROVE  WatchInv'
<1>1. WatchTypeOK'
  BY DEF WatchInv, WatchTypeOK, DiskType, RegistryType, WakeType, LoopType, BuildType, Top, diskVars,
       wakeVars, buildVars, registryVars
<1>2. Reading' /\ Versioned' /\ OneSnapshot' /\ Attached'
  BY DEF WatchInv, Reading, Versioned, OneSnapshot, Attached, Top, diskVars, wakeVars, buildVars,
       registryVars
<1>3. Registered'
  BY DEF WatchInv, Registered, Settling, AllRegistered, Desired, Dirs, Top, diskVars, wakeVars,
       buildVars, registryVars
<1>4. Noticed'
  BY DEF WatchInv, Noticed, Settling, Look, Top, diskVars, wakeVars, buildVars, registryVars
<1>. QED BY <1>1, <1>2, <1>3, <1>4 DEF WatchInv

LEMMA StopKeeps ==
    ASSUME WatchInv, Stop
    PROVE  WatchInv'
<1>1. WatchTypeOK'
  BY DEF WatchInv, WatchTypeOK, DiskType, RegistryType, WakeType, LoopType, BuildType, Stop, diskVars,
       wakeVars, buildVars, registryVars
<1>2. Reading' /\ Versioned' /\ OneSnapshot' /\ Attached'
  BY DEF WatchInv, Reading, Versioned, OneSnapshot, Attached, Stop, diskVars, wakeVars, buildVars,
       registryVars
<1>3. Registered'
  BY DEF WatchInv, Registered, Settling, AllRegistered, Desired, Dirs, Stop, diskVars, wakeVars,
       buildVars, registryVars
<1>4. Noticed'
  BY DEF WatchInv, Noticed, Settling, Look, Stop, diskVars, wakeVars, buildVars, registryVars
<1>. QED BY <1>1, <1>2, <1>3, <1>4 DEF WatchInv

LEMMA TimerKeeps ==
    ASSUME WatchInv, Timer
    PROVE  WatchInv'
<1>1. WatchTypeOK'
  BY DEF WatchInv, WatchTypeOK, DiskType, RegistryType, WakeType, LoopType, BuildType, Timer, diskVars,
       wakeVars, buildVars, registryVars
<1>2. Reading' /\ Versioned' /\ OneSnapshot' /\ Attached'
  BY DEF WatchInv, Reading, Versioned, OneSnapshot, Attached, Timer, diskVars, wakeVars, buildVars,
       registryVars
<1>3. Registered'
  BY DEF WatchInv, Registered, Settling, AllRegistered, Desired, Dirs, Timer, diskVars, wakeVars,
       buildVars, registryVars
<1>4. Noticed'
  BY DEF WatchInv, Noticed, Settling, Look, Timer, diskVars, wakeVars, buildVars, registryVars
<1>. QED BY <1>1, <1>2, <1>3, <1>4 DEF WatchInv

LEMMA SwapKeeps ==
    ASSUME WatchInv, Swap
    PROVE  WatchInv'
<1>1. WatchTypeOK'
  <2>1. DiskType' /\ RegistryType' /\ BuildType'
    BY DEF WatchInv, WatchTypeOK, DiskType, RegistryType, BuildType, Swap, diskVars, buildVars, registryVars
  <2>2. WakeType'
    BY DEF WatchInv, WatchTypeOK, WakeType, Swap, registryVars
  <2>3. LoopType'
    BY Sets DEF WatchInv, WatchTypeOK, LoopType, Swap
  <2>. QED BY <2>1, <2>2, <2>3 DEF WatchTypeOK
<1>2. Reading' /\ Versioned' /\ OneSnapshot' /\ Attached'
  BY DEF WatchInv, Reading, Versioned, OneSnapshot, Attached, Swap, diskVars, buildVars, registryVars
<1>3. Registered'
  BY DEF WatchInv, Registered, Settling, AllRegistered, Desired, Dirs, Swap, diskVars, buildVars,
       registryVars
<1>4. Noticed'
  BY DEF WatchInv, Noticed, Settling, Look, Swap, diskVars, buildVars, registryVars
<1>. QED BY <1>1, <1>2, <1>3, <1>4 DEF WatchInv

LEMMA ReswapKeeps ==
    ASSUME WatchInv, Reswap
    PROVE  WatchInv'
<1>1. WatchTypeOK'
  <2>1. DiskType' /\ RegistryType' /\ BuildType'
    BY DEF WatchInv, WatchTypeOK, DiskType, RegistryType, BuildType, Reswap, diskVars, buildVars,
         registryVars
  <2>2. WakeType'
    BY DEF WatchInv, WatchTypeOK, WakeType, Reswap, registryVars
  <2>3. LoopType'
    BY Sets DEF WatchInv, WatchTypeOK, LoopType, Reswap
  <2>. QED BY <2>1, <2>2, <2>3 DEF WatchTypeOK
<1>2. Reading' /\ Versioned' /\ OneSnapshot' /\ Attached'
  BY DEF WatchInv, Reading, Versioned, OneSnapshot, Attached, Reswap, diskVars, buildVars, registryVars
<1>3. Registered'
  BY DEF WatchInv, Registered, Settling, AllRegistered, Desired, Dirs, Reswap, diskVars, buildVars,
       registryVars
<1>4. Noticed'
  BY DEF WatchInv, Noticed, Settling, Look, Reswap, diskVars, buildVars, registryVars
<1>. QED BY <1>1, <1>2, <1>3, <1>4 DEF WatchInv

LEMMA QuietOverKeeps ==
    ASSUME WatchInv, QuietOver
    PROVE  WatchInv'
<1>1. WatchTypeOK'
  BY DEF WatchInv, WatchTypeOK, DiskType, RegistryType, WakeType, LoopType, BuildType, QuietOver,
       diskVars, wakeVars, buildVars, registryVars
<1>2. Reading' /\ Versioned' /\ OneSnapshot' /\ Attached'
  BY DEF WatchInv, Reading, Versioned, OneSnapshot, Attached, QuietOver, diskVars, wakeVars, buildVars,
       registryVars
<1>3. Registered'
  BY DEF WatchInv, Registered, Settling, AllRegistered, Desired, Dirs, Noticed, QuietOver, diskVars,
       wakeVars, buildVars, registryVars
<1>4. Noticed'
  BY DEF WatchInv, Noticed, Settling, Look, QuietOver, diskVars, wakeVars, buildVars, registryVars
<1>. QED BY <1>1, <1>2, <1>3, <1>4 DEF WatchInv

LEMMA EndWatchKeeps ==
    ASSUME WatchInv, EndWatch
    PROVE  WatchInv'
<1>1. WatchTypeOK'
  BY DEF WatchInv, WatchTypeOK, DiskType, RegistryType, WakeType, LoopType, BuildType, EndWatch,
       diskVars, buildVars
<1>2. Reading' /\ Versioned' /\ OneSnapshot' /\ Attached'
  BY DEF WatchInv, Reading, Versioned, OneSnapshot, Attached, EndWatch, diskVars, buildVars
<1>3. Registered'
  BY DEF WatchInv, Registered, Settling, AllRegistered, Desired, Dirs, EndWatch, diskVars, buildVars
<1>4. Noticed'
  BY DEF WatchInv, Noticed, Settling, Look, EndWatch, diskVars, buildVars
<1>. QED BY <1>1, <1>2, <1>3, <1>4 DEF WatchInv

LEMMA FailsKeeps ==
    ASSUME WatchInv, Fails
    PROVE  WatchInv'
<1>1. WatchTypeOK'
  BY DEF WatchInv, WatchTypeOK, DiskType, RegistryType, WakeType, LoopType, BuildType, Fails, diskVars,
       wakeVars, buildVars, registryVars
<1>2. Reading' /\ Versioned' /\ OneSnapshot' /\ Attached'
  BY DEF WatchInv, Reading, Versioned, OneSnapshot, Attached, Fails, diskVars, wakeVars, buildVars,
       registryVars
<1>3. Registered'
  BY DEF WatchInv, Registered, Settling, AllRegistered, Desired, Dirs, Fails, diskVars, wakeVars,
       buildVars, registryVars
<1>4. Noticed'
  BY DEF WatchInv, Noticed, Settling, Look, Fails, diskVars, wakeVars, buildVars, registryVars
<1>. QED BY <1>1, <1>2, <1>3, <1>4 DEF WatchInv

LEMMA WatchStepKeeps ==
    ASSUME WatchInv, [WatchNext]_watchVars
    PROVE  WatchInv'
<1>1. CASE UNCHANGED watchVars
  <2>. USE <1>1 DEF watchVars, diskVars, wakeVars, buildVars, registryVars, loopVars
  <2>1. WatchTypeOK'
    BY DEF WatchInv, WatchTypeOK, DiskType, RegistryType, WakeType, LoopType, BuildType
  <2>2. Reading' /\ Versioned' /\ OneSnapshot' /\ Attached'
    BY DEF WatchInv, Reading, Versioned, OneSnapshot, Attached
  <2>3. Registered'
    BY DEF WatchInv, Registered, Settling, AllRegistered, Desired, Dirs
  <2>4. Noticed'
    BY DEF WatchInv, Noticed, Settling, Look
  <2>. QED BY <2>1, <2>2, <2>3, <2>4 DEF WatchInv
<1>2. CASE Editor
  BY <1>2, EditorKeeps
<1>3. CASE Backend
  BY <1>3, ClassifyKeeps, WakeKeeps DEF Backend
<1>4. CASE Build
  BY <1>4, StartKeeps, ReadKeeps, FinalizeKeeps, MarkRevisionKeeps, LinkKeeps DEF Build
<1>5. CASE Desire \/ Add \/ Compact \/ Observe
  BY <1>5, DesireKeeps, AddKeeps, CompactKeeps, ObserveKeeps
<1>6. CASE Top \/ Drain \/ Stop \/ RetryTimer \/ Audit
  BY <1>6, TopKeeps, DrainKeeps, StopKeeps, TimerKeeps DEF RetryTimer, Audit
<1>7. CASE Swap \/ Reswap \/ QuietOver \/ EndWatch \/ LinkStops \/ Fails
  BY <1>7, SwapKeeps, ReswapKeeps, QuietOverKeeps, EndWatchKeeps, LinkStopsKeeps, FailsKeeps
<1>8. CASE \E c \in {"signal", "fatal"} : Control(c)
  BY <1>8, ControlKeeps
<1>. QED BY <1>1, <1>2, <1>3, <1>4, <1>5, <1>6, <1>7, <1>8 DEF WatchNext, Controller

(* Watch mode keeps its invariant for every number of inputs, changes and  *)
(* rounds of reinstall_watches, whatever may end the watch (watch.rs).     *)
THEOREM WatchInvariant == WatchSpec => []WatchInv
<1>1. WatchInit => WatchInv
  BY InitIs
<1>2. WatchInv /\ [WatchNext]_watchVars => WatchInv'
  BY WatchStepKeeps
<1>. QED BY <1>1, <1>2, PTL DEF WatchSpec

LEMMA WatchInvRight ==
    ASSUME WatchInv
    PROVE  WatchRight
<1>1. ASSUME ~MoveBack PROVE NoBlindSpot
  <2>. SUFFICES ASSUME loop = "wait", ~retry, NEW f \in DOMAIN base, Look(f) = base[f]
                PROVE  {disk.dir, Root} \ {0} \subseteq {w.on : w \in watches}
    BY DEF NoBlindSpot
  <2>1. AllRegistered(watches)
    BY DEF WatchInv, Registered, Settling
  <2>. QED BY <1>1, <2>1, Watched
<1>2. ASSUME ~MoveBack PROVE ChangeIsSignalled
  BY <1>2 DEF ChangeIsSignalled, WatchInv, Noticed, Settling
<1>. QED BY <1>1, <1>2 DEF WatchInv, WatchRight

(* A revision of watch mode that links has consumed one state of the disk; *)
(* while the controller waits its inputs lie under live watches and a      *)
(* change to what it read is on its way to it (watch.rs, watch_native.rs). *)
THEOREM WatchIsRight == WatchSpec => []WatchRight
<1>1. WatchInv => WatchRight
  BY WatchInvRight
<1>. QED BY <1>1, WatchInvariant, PTL
=============================================================================
