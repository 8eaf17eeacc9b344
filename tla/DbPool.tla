------------------------------- MODULE DbPool -------------------------------
(***************************************************************************)
(* pkg.db's fixed-capacity pool and the connections, transactions and rows *)
(* whose Drop hooks return to it: who owns a connection's state and its    *)
(* native handle, when a connection may be used again, and when the memory *)
(* of a pool that was dropped before its connections is freed.             *)
(*                                                                         *)
(* Every operation is one call of one thread.  What the database answers   *)
(* is nondeterministic; a native connection is idle, in a transaction, in  *)
(* a failed transaction, or has lost its server.                           *)
(***************************************************************************)
EXTENDS Naturals, Sequences, FiniteSets, SequencesExt

CONSTANTS
    Conns,      \* connection states that may be allocated
    Capacity    \* of the pool

\* What the constants must be.
ASSUME PoolConstants == IsFiniteSet(Conns) /\ Capacity \in Nat \ {0}

Databases == {"sqlite", "postgres"}

VARIABLES
    pool,       \* the pool image: life, driver, slots (the idle ones, a stack) and checked_out
    conn,       \* the connection images, with their native connection
    wrap,       \* conn -> the resource the program holds it by: none, conn or tx
    rows        \* conn -> whether an active rows value depends on it

poolVars == <<pool, conn, wrap, rows>>

Fresh == [mem |-> "none", driver |-> "none", native |-> "closed", lease |-> FALSE, tx |-> FALSE,
          origin |-> FALSE, closes |-> 0]

PoolInit ==
    /\ pool = [life |-> "none", driver |-> "none", slots |-> <<>>, out |-> 0]
    /\ conn = [c \in Conns |-> Fresh]
    /\ wrap = [c \in Conns |-> "none"]
    /\ rows = [c \in Conns |-> FALSE]

(***************************************************************************)
(* Connection images.                                                      *)
(***************************************************************************)
Live(r) == r.mem = "live" /\ r.native # "closed"

\* new_conn_state.
Connected(d) == [Fresh EXCEPT !.mem = "live", !.driver = d, !.native = "idle"]

\* poison_conn_state: mark it closed and close the handle.
Poisoned(r) ==
    IF ~Live(r) THEN r
    ELSE [r EXCEPT !.native = "closed", !.lease = FALSE, !.tx = FALSE, !.closes = @ + 1]

\* drop_state: close what is open, free the image.
Dropped(r) == [r EXCEPT !.mem = "freed", !.native = "closed", !.closes = IF Live(r) THEN @ + 1 ELSE @]

\* What pool_state_valid asks of an idle connection.
FlagsIdle(r) == Live(r) /\ ~r.lease /\ ~r.tx

\* conn_native_idle.  Mutant: the flags alone are trusted.
TrustsFlags(r) == FlagsIdle(r)
NativeIdle(r) == Live(r) /\ ~r.lease /\ ~r.tx /\ r.native = "idle"

\* rollback_state: what it may leave behind, and whether the rollback is proved.
CanRollback(r) == r.native \in {"tx", "error"} \/ (r.native = "idle" /\ r.driver = "postgres")
Rollbacks(r) ==
    IF ~Live(r) \/ ~r.tx THEN {<<r, FALSE>>}
    ELSE {<<[Poisoned(r) EXCEPT !.tx = FALSE], FALSE>>}
         \cup (IF CanRollback(r) THEN {<<[r EXCEPT !.native = "idle", !.tx = FALSE], TRUE>>} ELSE {})

(***************************************************************************)
(* The pool image.                                                         *)
(***************************************************************************)

\* pool_open_valid, the part that is not a shape.
OpenValid(p) ==
    /\ p.life \in {"building", "open"}
    /\ \A i \in DOMAIN p.slots :
          LET r == conn[p.slots[i]] IN FlagsIdle(r) /\ r.driver = p.driver /\ r.origin

\* retire_conn_state's accounting.
Retired(p) ==
    IF p.out = 0 THEN p
    ELSE [p EXCEPT !.out = @ - 1, !.life = IF @ = "closing" /\ p.out = 1 THEN "freed" ELSE @]

\* The push of release_conn_state.
Pushed(p, c) == [p EXCEPT !.slots = Append(@, c), !.out = @ - 1]

\* The pop of pool_try_acquire.
Popped(p) == [p EXCEPT !.slots = Front(@), !.out = @ + 1]

(***************************************************************************)
(* The Drop hooks.                                                         *)
(***************************************************************************)

\* retire_conn_state of an image r in place of c's.
Retire(c, r) ==
    /\ pool' = Retired(pool)
    /\ conn' = [conn EXCEPT ![c] = [Dropped(r) EXCEPT !.origin = FALSE]]

\* release_conn_state of an image r in place of c's.
ReleaseConn(c, r) ==
    IF ~r.origin
    THEN conn' = [conn EXCEPT ![c] = Dropped(r)] /\ UNCHANGED pool
    ELSE IF pool.life # "open" \/ pool.out = 0 \/ Len(pool.slots) >= Capacity \/ ~NativeIdle(r)
    THEN Retire(c, IF pool.life = "open" THEN Poisoned(r) ELSE r)
    ELSE /\ conn' = [conn EXCEPT ![c] = r]
         /\ pool' = Pushed(pool, c)

\* drop_tx of an image r: back to the pool only if the rollback is proved.
Abandon(c, r) ==
    \E x \in Rollbacks(r) :
        IF ~r.origin THEN conn' = [conn EXCEPT ![c] = Dropped(x[1])] /\ UNCHANGED pool
        ELSE IF x[2] THEN ReleaseConn(c, x[1]) ELSE Retire(c, x[1])

Let(c) == wrap' = [wrap EXCEPT ![c] = "none"]

DropConn(c) ==
    /\ wrap[c] = "conn" /\ ~rows[c]
    /\ ReleaseConn(c, conn[c])
    /\ Let(c)
    /\ UNCHANGED rows

DropTx(c) ==
    /\ wrap[c] = "tx" /\ ~rows[c]
    /\ Abandon(c, conn[c])
    /\ Let(c)
    /\ UNCHANGED rows

\* drop_pool_state: the idle connections are closed; the image lives on while others are out.
AfterDrop(p) == IF p.out = 0 THEN "freed" ELSE "closing"
DropPool ==
    /\ pool.life \in {"building", "open"}
    /\ IF OpenValid(pool)
       THEN /\ pool' = [pool EXCEPT !.life = AfterDrop(pool), !.slots = <<>>]
            /\ conn' = [c \in Conns |-> IF c \in Range(pool.slots) THEN [Dropped(conn[c]) EXCEPT !.origin = FALSE] ELSE conn[c]]
       ELSE pool' = [pool EXCEPT !.life = "freed"] /\ UNCHANGED conn
    /\ UNCHANGED <<wrap, rows>>

(***************************************************************************)
(* Opening and acquiring.                                                  *)
(***************************************************************************)
OpenPool(d) ==
    /\ pool.life = "none"
    /\ pool' = [pool EXCEPT !.life = "building", !.driver = d]
    /\ UNCHANGED <<conn, wrap, rows>>

\* One turn of the constructor's loop: connect, then pool_attach_initial.  A failed connect drops
\* the unfinished pool, which is DropPool while it is building.
Attach(c) ==
    /\ pool.life = "building" /\ conn[c].mem = "none" /\ OpenValid(pool)
    /\ conn' = [conn EXCEPT ![c] = [Connected(pool.driver) EXCEPT !.origin = TRUE]]
    /\ pool' = [pool EXCEPT !.slots = Append(@, c), !.life = IF Len(pool.slots) + 1 = Capacity THEN "open" ELSE @]
    /\ UNCHANGED <<wrap, rows>>

\* A connection opened by its driver, without a pool.
Connect(c, d) ==
    /\ conn[c].mem = "none" /\ pool.life # "building"
    /\ conn' = [conn EXCEPT ![c] = Connected(d)]
    /\ wrap' = [wrap EXCEPT ![c] = "conn"]
    /\ UNCHANGED <<pool, rows>>

TryAcquire ==
    /\ pool.life = "open" /\ OpenValid(pool) /\ pool.slots # <<>>
    /\ pool' = Popped(pool)
    /\ wrap' = [wrap EXCEPT ![Last(pool.slots)] = "conn"]
    /\ UNCHANGED <<conn, rows>>

(***************************************************************************)
(* Using a connection.                                                     *)
(***************************************************************************)
Usable(c) == wrap[c] # "none" /\ Live(conn[c])

\* A statement runs: its SQL may itself begin, end or fail a transaction, and the server may be
\* lost, which closes the connection or is not noticed yet.
Run(c) ==
    /\ Usable(c) /\ ~conn[c].lease /\ conn[c].native # "lost"
    /\ \/ \E n \in {"idle", "tx", "lost"} \cup (IF conn[c].driver = "postgres" /\ conn[c].native # "idle" THEN {"error"} ELSE {}) :
            conn' = [conn EXCEPT ![c].native = n]
       \/ conn' = [conn EXCEPT ![c] = Poisoned(@)]
    /\ UNCHANGED <<pool, wrap, rows>>

\* An execution that returns rows takes the connection's lease.
OpenRows(c) ==
    /\ Usable(c) /\ ~conn[c].lease /\ ~rows[c]
    /\ conn' = [conn EXCEPT ![c].lease = TRUE]
    /\ rows' = [rows EXCEPT ![c] = TRUE]
    /\ UNCHANGED <<pool, wrap>>

\* close_rows, also from Drop: the lease is given back or the connection closed.
CloseRows(c) ==
    /\ rows[c]
    /\ rows' = [rows EXCEPT ![c] = FALSE]
    /\ conn' = [conn EXCEPT ![c] = [@ EXCEPT !.lease = FALSE]] \/ conn' = [conn EXCEPT ![c] = Poisoned(@)]
    /\ UNCHANGED <<pool, wrap>>

\* close_stmt fails: the connection is closed, for PostgreSQL only if no rows hold it.
StmtFails(c) ==
    /\ Usable(c) /\ (conn[c].driver = "postgres" => ~conn[c].lease)
    /\ conn' = [conn EXCEPT ![c] = Poisoned(@)]
    /\ UNCHANGED <<pool, wrap, rows>>

\* Can transaction_control's command succeed?  A failed PostgreSQL transaction answers COMMIT with
\* ROLLBACK, which counts as a failure.
Accepts(r, sql) ==
    CASE sql = "BEGIN" -> r.native = "idle" \/ (r.driver = "postgres" /\ r.native = "tx")
      [] sql = "COMMIT" -> r.native = "tx" \/ (r.driver = "postgres" /\ r.native = "idle")
      [] sql = "ROLLBACK" -> CanRollback(r)

\* What it may leave behind when it fails.
Failures(r, sql) ==
    {r} \cup (IF r.driver = "postgres" THEN {Poisoned(r)} ELSE {})
        \cup (IF sql = "COMMIT" /\ r.native \in {"tx", "error"} THEN {[r EXCEPT !.native = "idle"]} ELSE {})

\* begin consumes the connection: a transaction takes it, or the error path drops it.
Begin(c) ==
    /\ wrap[c] = "conn" /\ ~rows[c]
    /\ LET ready == Live(conn[c]) /\ ~conn[c].lease /\ ~conn[c].tx IN
         \/ /\ ready /\ Accepts(conn[c], "BEGIN")
            /\ conn' = [conn EXCEPT ![c].native = "tx", ![c].tx = TRUE]
            /\ wrap' = [wrap EXCEPT ![c] = "tx"]
            /\ UNCHANGED pool
         \/ /\ \E r \in IF ready THEN Failures(conn[c], "BEGIN") ELSE {conn[c]} : ReleaseConn(c, r)
            /\ Let(c)
    /\ UNCHANGED rows

\* commit and rollback consume the transaction.
EndTx(c, sql) ==
    /\ wrap[c] = "tx" /\ ~rows[c]
    /\ LET ready == Live(conn[c]) /\ ~conn[c].lease /\ conn[c].tx IN
         \/ /\ ready /\ Accepts(conn[c], sql)
            /\ conn' = [conn EXCEPT ![c].native = "idle", ![c].tx = FALSE]
            /\ wrap' = [wrap EXCEPT ![c] = "conn"]
            /\ UNCHANGED pool
         \/ /\ \E r \in IF ready THEN Failures(conn[c], sql) ELSE {conn[c]} : Abandon(c, r)
            /\ Let(c)
    /\ UNCHANGED rows

Commit(c) == EndTx(c, "COMMIT")
Rollback(c) == EndTx(c, "ROLLBACK")

PoolNext ==
    \/ DropPool \/ TryAcquire
    \/ \E d \in Databases : OpenPool(d) \/ \E c \in Conns : Connect(c, d)
    \/ \E c \in Conns :
         \/ Attach(c) \/ DropConn(c) \/ DropTx(c) \/ Run(c) \/ OpenRows(c) \/ CloseRows(c)
         \/ StmtFails(c) \/ Begin(c) \/ Commit(c) \/ Rollback(c)

PoolSpec == PoolInit /\ [][PoolNext]_poolVars

-----------------------------------------------------------------------------
(***************************************************************************)
(* Properties.                                                             *)
(***************************************************************************)
Pooled == {c \in Conns : conn[c].mem = "live" /\ conn[c].origin}
OutOfPool == {c \in Pooled : wrap[c] # "none"}

\* Types of the images, with the pool's scalars in the range pool_scalar_valid accepts.
PoolTypeOK ==
    /\ pool \in [life : {"none", "building", "open", "closing", "freed"},
                driver : Databases \cup {"none"}, slots : Seq(Conns), out : Nat]
    /\ Len(pool.slots) <= Capacity /\ pool.out <= Capacity - Len(pool.slots)
    /\ conn \in [Conns -> [mem : {"none", "live", "freed"}, driver : Databases \cup {"none"},
                           native : {"idle", "tx", "error", "lost", "closed"},
                           lease : BOOLEAN, tx : BOOLEAN, origin : BOOLEAN, closes : Nat]]
    /\ wrap \in [Conns -> {"none", "conn", "tx"}] /\ rows \in [Conns -> BOOLEAN]

\* A connection of the pool never outlives the pool's image, which its Drop reads.
PoolAlive == Pooled # {} => pool.life \notin {"none", "freed"}

\* checked_out counts the pool's connections the program holds, through poisoning, failed
\* transactions and the pool's own Drop.
CheckedOut == pool.life # "freed" => pool.out = Cardinality(OutOfPool)

\* A dropped pool's image stays only while a connection may still come back to it.
ClosingIsNeeded == pool.life = "closing" => OutOfPool # {}

\* A live connection image has one owner: a slot of the pool or a resource of the program.
OneOwner ==
    \A c \in Conns : conn[c].mem = "live" =>
        Cardinality({i \in DOMAIN pool.slots : pool.slots[i] = c}) + (IF wrap[c] = "none" THEN 0 ELSE 1) = 1

\* Every native handle is closed once, with its image at the latest.
ClosedOnce ==
    \A c \in Conns : /\ conn[c].mem # "none" => conn[c].closes = IF conn[c].native = "closed" THEN 1 ELSE 0
                     /\ conn[c].mem = "freed" => conn[c].native = "closed"

\* No transaction, no result set and no closed handle is handed to the next user of a connection.
IdleIsClean ==
    \A i \in DOMAIN pool.slots :
        LET r == conn[pool.slots[i]] IN r.mem = "live" /\ r.native = "idle" /\ ~r.lease /\ ~r.tx

\* What the pool promises: its image outlives its connections and no longer; checked_out counts what
\* the program holds; a connection has one owner and its handle is closed once; and no transaction,
\* result set or closed handle is handed to the next user (pool_acquire, drop_conn, drop_tx).
PoolSound ==
    /\ PoolTypeOK /\ PoolAlive /\ CheckedOut /\ ClosingIsNeeded
    /\ OneOwner /\ ClosedOnce /\ IdleIsClean
=============================================================================
