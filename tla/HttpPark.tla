------------------------------ MODULE HttpPark ------------------------------
(***************************************************************************)
(* The server half of std.http: srv.accept with its parked keep-alive      *)
(* connections, the readiness scan with its rotating start, the valve for  *)
(* an exhausted descriptor table, and the operations of a request context  *)
(* that park, hand over or close the connection.                           *)
(*                                                                         *)
(* A server handle and its contexts belong to one thread, so every step of *)
(* accept and respond is the program's; clients, sibling workers that use  *)
(* the same descriptor table and the clock move between them.  A closed    *)
(* descriptor number is given out again.                                   *)
(***************************************************************************)
EXTENDS Naturals, Sequences, FiniteSets, SequencesExt

CONSTANTS
    Fds,            \* descriptor numbers of this worker's connections
    MaxParked,      \* HTTP_MAX_PARKED_CONNS
    Limit,          \* size of the descriptor table the workers share
    MaxOthers,      \* bound: descriptors the sibling workers may use
    MaxBacklog,     \* bound: connections waiting on the listener
    MaxHeld,        \* bound: contexts the program holds when it calls accept, plus one
    MaxFaults,      \* bound: failed poll and accept calls
    Timed,          \* whether an accept call has a positive budget: a subset of BOOLEAN
    TimedReply,     \* whether a reply has a positive budget: a subset of BOOLEAN
    Verdicts,       \* what the request on a connection may be: a subset of VerdictSet
    None

VARIABLES
    park,           \* ParkSlot: the parked descriptors, coldest first
    dead,           \* ParkSlot::Dead
    conn,           \* descriptor -> what its peer has done: free, quiet, ready or hup
    ctx,            \* descriptor -> none, keep or shut: the context that owns it, and its keep_alive
    streams,        \* descriptors lifted into a stream or an upgraded transport
    backlog,        \* connections waiting on the listener
    others,         \* descriptors the siblings use
    acc,            \* the accept call in progress
    mode,           \* listener_mode: blocking, nonblocking or unknown
    cursor,         \* poll_cursor
    faults,         \* failed calls so far
    promised        \* history: descriptors whose last response promised to stay open

vars == <<park, dead, conn, ctx, streams, backlog, others, acc, mode, cursor, faults, promised>>

VerdictSet == {"keep", "shut", "malformed", "toobig"}

\* What the constants must be.
HttpParkConstants ==
    /\ MaxParked \in Nat \ {0} /\ Limit \in Nat /\ MaxHeld \in Nat
    /\ Timed \subseteq BOOLEAN /\ TimedReply \subseteq BOOLEAN
    /\ Verdicts \subseteq VerdictSet

Idle == [pc |-> "idle", budget |-> FALSE, spent |-> FALSE, revs |-> {}, sel |-> None]

Init ==
    /\ park = <<>> /\ dead = FALSE
    /\ conn = [f \in Fds |-> "free"]
    /\ ctx = [f \in Fds |-> "none"]
    /\ streams = {}
    /\ backlog = 0 /\ others = 0
    /\ acc = Idle
    /\ mode = "blocking"
    /\ cursor = 0
    /\ faults = 0
    /\ promised = {}

Open == {f \in Fds : conn[f] # "free"}
Held == {f \in Fds : ctx[f] # "none"}
Full == Cardinality(Open) + others >= Limit \/ Open = Fds
Close(f) == [conn EXCEPT ![f] = "free"]

(***************************************************************************)
(* accept.                                                                 *)
(***************************************************************************)

Nonblocking == mode = "nonblocking"

\* Entry: the budget is snapshotted; the first positive one latches the listener (http_listener_nonblocking).
Latches(b) == mode = "unknown" \/ (mode = "blocking" /\ b)
Accept(b) ==
    /\ ~dead /\ acc.pc = "idle" /\ Cardinality(Held) < MaxHeld
    /\ acc' = [Idle EXCEPT !.pc = "wait", !.budget = b]
    /\ mode' = IF Latches(b) THEN "nonblocking" ELSE mode
    /\ UNCHANGED <<park, dead, conn, ctx, streams, backlog, others, cursor, faults, promised>>

\* The listener's flags cannot be read, or cannot be set: the call returns.
LatchFails(b) ==
    /\ ~dead /\ acc.pc = "idle" /\ Latches(b) /\ faults < MaxFaults
    /\ faults' = faults + 1
    /\ mode' \in {mode, "unknown"}
    /\ UNCHANGED <<park, dead, conn, ctx, streams, backlog, others, acc, cursor, promised>>

\* A checkpoint finds the budget spent: what was selected and not published is closed.
Expire ==
    /\ acc.pc # "idle" /\ acc.budget
    /\ acc' = Idle
    /\ conn' = IF acc.pc = "read" THEN Close(acc.sel) ELSE conn
    /\ UNCHANGED <<park, dead, ctx, streams, backlog, others, mode, cursor, faults, promised>>

\* With nothing parked a listener that was never configured is just accepted on.
Direct ==
    /\ acc.pc = "wait" /\ park = <<>> /\ ~Nonblocking
    /\ acc' = [acc EXCEPT !.pc = "accept", !.revs = {}]
    /\ UNCHANGED <<park, dead, conn, ctx, streams, backlog, others, mode, cursor, faults, promised>>

\* Readiness of the poll set: the parked descriptors, then the listener.
Ready(i) == IF i <= Len(park) THEN conn[park[i]] \in {"ready", "hup"} ELSE backlog > 0

\* The scan's start.
Start(c, n) == (c + 1) % n

\* The first ready entry from the start on, wrapping around.
Picked(c, n) ==
    LET At(k) == (c + k) % n
        k0    == CHOOSE k \in 0..(n - 1) :
                    Ready(At(k) + 1) /\ \A j \in 0..(k - 1) : ~Ready(At(j) + 1)
    IN At(k0) + 1

\* poll returns: POLLIN is recorded for the valve, then one ready entry is selected.
Poll ==
    /\ acc.pc = "wait" /\ (park # <<>> \/ Nonblocking)
    /\ LET n == Len(park) + 1
           c == Start(cursor, n)
       IN /\ \E i \in 1..n : Ready(i)
          /\ cursor' = c
          /\ acc' = [acc EXCEPT !.revs = {f \in Range(park) : conn[f] \in {"ready", "hup"}},
                        !.pc = IF Picked(c, n) = n THEN "accept" ELSE "claim",
                        !.sel = IF Picked(c, n) = n THEN None ELSE park[Picked(c, n)]]
    /\ UNCHANGED <<park, dead, conn, ctx, streams, backlog, others, mode, faults, promised>>

\* poll fails: an error on a nonblocking listener, a plain accept otherwise.
PollFails ==
    /\ acc.pc = "wait" /\ (park # <<>> \/ Nonblocking) /\ faults < MaxFaults
    /\ faults' = faults + 1
    /\ acc' = IF Nonblocking THEN Idle ELSE [acc EXCEPT !.pc = "accept", !.revs = {}, !.sel = None]
    /\ UNCHANGED <<park, dead, conn, ctx, streams, backlog, others, mode, cursor, promised>>

\* The selected descriptor leaves the set under its lock.
Unparked(f) == SelectSeq(park, LAMBDA g : g # f)
Left(f) == Unparked(f)
Claim ==
    /\ acc.pc = "claim"
    /\ park' = Left(acc.sel)
    /\ promised' = promised \ {acc.sel}
    /\ acc' = [acc EXCEPT !.pc = "read"]
    /\ UNCHANGED <<dead, conn, ctx, streams, backlog, others, mode, cursor, faults>>

\* accept(2) gives a descriptor.
Admit ==
    /\ acc.pc = "accept" /\ backlog > 0 /\ ~Full
    /\ \E f \in Fds \ Open :
          /\ conn' = [conn EXCEPT ![f] = "quiet"]
          /\ acc' = [acc EXCEPT !.pc = "read", !.sel = f]
    /\ backlog' = backlog - 1
    /\ UNCHANGED <<park, dead, ctx, streams, others, mode, cursor, faults, promised>>

\* Noise, or a nonblocking listener that lost its readiness: back to the wait.
Again ==
    /\ acc.pc = "accept" /\ Nonblocking /\ backlog = 0
    /\ acc' = [acc EXCEPT !.pc = "wait"]
    /\ UNCHANGED <<park, dead, conn, ctx, streams, backlog, others, mode, cursor, faults, promised>>

\* The client vanished between its SYN and the accept.
Aborted ==
    /\ acc.pc = "accept" /\ backlog > 0 /\ faults < MaxFaults
    /\ faults' = faults + 1 /\ backlog' = backlog - 1
    /\ acc' = [acc EXCEPT !.pc = "wait"]
    /\ UNCHANGED <<park, dead, conn, ctx, streams, others, mode, cursor, promised>>

\* A listener-level failure is returned, and a failure to configure the accepted socket, which is closed.
Fatal ==
    /\ acc.pc = "accept" /\ faults < MaxFaults
    /\ faults' = faults + 1
    /\ acc' = Idle
    /\ \/ backlog' = backlog
       \/ backlog > 0 /\ ~Full /\ backlog' = backlog - 1
    /\ UNCHANGED <<park, dead, conn, ctx, streams, others, mode, cursor, promised>>

\* Which parked connection is spent: the coldest with no readable request at this wait, else the
\* coldest.  Mutants: always the coldest; none when all are readable.
SpendColdest(revs) == IF park = <<>> THEN None ELSE park[1]
SpendIdleOnly(revs) ==
    LET idle == SelectSeq(park, LAMBDA f : f \notin revs) IN IF idle = <<>> THEN None ELSE idle[1]
Spend(revs) ==
    LET idle == SelectSeq(park, LAMBDA f : f \notin revs)
    IN IF park = <<>> THEN None ELSE IF idle = <<>> THEN park[1] ELSE idle[1]

\* EMFILE, ENFILE: one parked connection per backoff interval, then the wait again.
Relieve ==
    /\ acc.pc = "accept" /\ backlog > 0 /\ Full
    /\ LET f == Spend(acc.revs) IN
         IF ~acc.spent /\ f # None
         THEN /\ conn' = Close(f) /\ park' = Unparked(f) /\ promised' = promised \ {f}
              /\ acc' = [acc EXCEPT !.pc = "wait", !.spent = TRUE]
         ELSE /\ acc' = [acc EXCEPT !.pc = "wait", !.spent = FALSE]
              /\ UNCHANGED <<conn, park, promised>>
    /\ UNCHANGED <<dead, ctx, streams, backlog, others, mode, cursor, faults>>

\* http_read_request: a complete request is published as a context with its keep-alive verdict.
Publish(v) ==
    /\ acc.pc = "read" /\ conn[acc.sel] = "ready" /\ v \in {"keep", "shut"}
    /\ conn' = [conn EXCEPT ![acc.sel] = "quiet"]
    /\ ctx' = [ctx EXCEPT ![acc.sel] = v]
    /\ acc' = Idle
    /\ UNCHANGED <<park, dead, streams, backlog, others, mode, cursor, faults, promised>>

\* A malformed request, or end of file before a complete one: close it and look again.
Skip(v) ==
    /\ acc.pc = "read"
    /\ conn[acc.sel] = "hup" \/ (conn[acc.sel] = "ready" /\ v = "malformed")
    /\ conn' = Close(acc.sel)
    /\ acc' = [acc EXCEPT !.pc = "wait", !.sel = None]
    /\ UNCHANGED <<park, dead, ctx, streams, backlog, others, mode, cursor, faults, promised>>

\* A declared body over the configured cap is returned, closing the selected connection.
Refuse(v) ==
    /\ acc.pc = "read" /\ conn[acc.sel] = "ready" /\ v = "toobig"
    /\ conn' = Close(acc.sel)
    /\ acc' = Idle
    /\ UNCHANGED <<park, dead, ctx, streams, backlog, others, mode, cursor, faults, promised>>

(***************************************************************************)
(* The request context.                                                    *)
(***************************************************************************)

\* Persistent: an eligible request, a final response, a live server; decided before the bytes are
\* written.
Persistent(f, final) == ctx[f] = "keep" /\ final /\ ~dead

\* Parking into a full set evicts the coldest first.
Room == IF Len(park) >= MaxParked THEN Tail(park) ELSE park
Evicted == Range(park) \ Range(Room)

\* respond with a complete write: park into a live set, or close.
Respond(f, final) ==
    /\ acc.pc = "idle" /\ ctx[f] # "none"
    /\ ctx' = [ctx EXCEPT ![f] = "none"]
    /\ LET persistent == Persistent(f, final)
           parks      == persistent /\ ~dead
           lost       == IF parks THEN Evicted ELSE {}
       IN /\ park' = IF parks THEN Append(Room, f) ELSE park
          /\ conn' = [g \in Fds |-> IF g \in lost \/ (g = f /\ ~parks) THEN "free" ELSE conn[g]]
          /\ promised' = (IF persistent THEN promised \cup {f} ELSE promised) \ lost
    /\ UNCHANGED <<dead, streams, backlog, others, acc, mode, cursor, faults>>

\* A failed or timed-out write, an unserializable response, a context that is dropped: close.
Abandon(f) ==
    /\ acc.pc = "idle" /\ ctx[f] # "none"
    /\ ctx' = [ctx EXCEPT ![f] = "none"]
    /\ conn' = Close(f)
    /\ UNCHANGED <<park, dead, streams, backlog, others, acc, mode, cursor, faults, promised>>

\* respond_timeout_ns whose budget is found spent after the complete write: before the eviction of
\* the coldest, or after it.  The connection is closed.
RespondLate(f, evict) ==
    /\ acc.pc = "idle" /\ TRUE \in TimedReply /\ Persistent(f, TRUE)
    /\ ctx' = [ctx EXCEPT ![f] = "none"]
    /\ park' = IF evict THEN Room ELSE park
    /\ conn' = [g \in Fds |-> IF g = f \/ (evict /\ g \in Evicted) THEN "free" ELSE conn[g]]
    /\ promised' = (promised \cup {f}) \ (IF evict THEN Evicted ELSE {})
    /\ UNCHANGED <<dead, streams, backlog, others, acc, mode, cursor, faults>>

\* respond_stream and respond_upgrade lift the descriptor out of the context.
Lift(f) ==
    /\ acc.pc = "idle" /\ ctx[f] # "none"
    /\ ctx' = [ctx EXCEPT ![f] = "none"]
    /\ streams' = streams \cup {f}
    /\ UNCHANGED <<park, dead, conn, backlog, others, acc, mode, cursor, faults, promised>>

\* finish, reject and drop of a stream or an upgraded transport close it.
EndStream(f) ==
    /\ acc.pc = "idle" /\ f \in streams
    /\ streams' = streams \ {f}
    /\ conn' = Close(f)
    /\ UNCHANGED <<park, dead, ctx, backlog, others, acc, mode, cursor, faults, promised>>

\* Drop of the server, which contexts and streams may outlive.
FreeServer ==
    /\ ~dead /\ acc.pc = "idle"
    /\ dead' = TRUE
    /\ conn' = [f \in Fds |-> IF f \in Range(park) THEN "free" ELSE conn[f]]
    /\ promised' = promised \ Range(park)
    /\ park' = <<>> /\ backlog' = 0
    /\ UNCHANGED <<ctx, streams, others, acc, mode, cursor, faults>>

(***************************************************************************)
(* Clients and siblings.                                                   *)
(***************************************************************************)

Dial ==
    /\ ~dead /\ backlog < MaxBacklog
    /\ backlog' = backlog + 1
    /\ UNCHANGED <<park, dead, conn, ctx, streams, others, acc, mode, cursor, faults, promised>>

\* A client sends its next request after its last answer, or the first one.
Send(f) ==
    /\ conn[f] = "quiet" /\ f \notin Held \cup streams
    /\ conn' = [conn EXCEPT ![f] = "ready"]
    /\ UNCHANGED <<park, dead, ctx, streams, backlog, others, acc, mode, cursor, faults, promised>>

HangUp(f) ==
    /\ conn[f] = "quiet" /\ f \notin Held \cup streams
    /\ conn' = [conn EXCEPT ![f] = "hup"]
    /\ UNCHANGED <<park, dead, ctx, streams, backlog, others, acc, mode, cursor, faults, promised>>

\* A client in the backlog gives up.
GiveUp ==
    /\ backlog > 0
    /\ backlog' = backlog - 1
    /\ UNCHANGED <<park, dead, conn, ctx, streams, others, acc, mode, cursor, faults, promised>>

Siblings ==
    /\ others' \in {n \in 0..MaxOthers : n = others + 1 \/ n + 1 = others}
    /\ Cardinality(Open) + others' <= Limit
    /\ UNCHANGED <<park, dead, conn, ctx, streams, backlog, acc, mode, cursor, faults, promised>>

AcceptStep ==
    \/ Direct \/ Poll \/ PollFails \/ Claim \/ Admit \/ Again \/ Aborted \/ Fatal \/ Relieve
    \/ \E v \in Verdicts : Publish(v) \/ Skip(v) \/ Refuse(v)

Program ==
    \/ \E b \in Timed : Accept(b) \/ LatchFails(b)
    \/ \E f \in Fds :
         \/ \E final \in BOOLEAN : Respond(f, final)
         \/ \E evict \in BOOLEAN : RespondLate(f, evict)
         \/ Abandon(f) \/ Lift(f) \/ EndStream(f)
    \/ FreeServer

Environment == Dial \/ GiveUp \/ Siblings \/ \E f \in Fds : Send(f) \/ HangUp(f)

Next == AcceptStep \/ Expire \/ Program \/ Environment

Spec == Init /\ [][Next]_vars

(***************************************************************************)
(* A server that only serves: every request is kept alive and answered,    *)
(* clients send again as soon as they are answered.                        *)
(***************************************************************************)
ServeThread ==
    \/ Accept(FALSE)
    \/ Direct \/ Poll \/ Claim \/ Admit \/ Relieve \/ Publish("keep")
    \/ \E f \in Fds : Respond(f, TRUE)

ServeNext == ServeThread \/ Dial \/ \E f \in Fds : Send(f)

\* The thread runs, clients send.
ServeSpec ==
    /\ Init /\ [][ServeNext]_vars
    /\ WF_vars(ServeThread)
    /\ \A f \in Fds : WF_vars(Send(f))

-----------------------------------------------------------------------------
(***************************************************************************)
(* Properties.                                                             *)
(***************************************************************************)

\* Types of the parked set, the descriptors and the accept call.
TypeOK ==
    /\ park \in Seq(Fds) /\ dead \in BOOLEAN
    /\ conn \in [Fds -> {"free", "quiet", "ready", "hup"}]
    /\ ctx \in [Fds -> {"none", "keep", "shut"}]
    /\ streams \subseteq Fds /\ promised \subseteq Fds
    /\ backlog \in 0..MaxBacklog /\ others \in 0..MaxOthers
    /\ mode \in {"blocking", "nonblocking", "unknown"}
    /\ acc.pc \in {"idle", "wait", "accept", "claim", "read"}
    /\ acc.sel \in Fds \cup {None} /\ acc.revs \subseteq Fds
    /\ cursor \in 0..Cardinality(Fds)

\* How many owners a descriptor has: places in the parked set, the accept call, a context, a stream.
Owners(f) ==
    Cardinality({i \in DOMAIN park : park[i] = f})
    + (IF acc.pc = "read" /\ acc.sel = f THEN 1 ELSE 0)
    + (IF ctx[f] # "none" THEN 1 ELSE 0)
    + (IF f \in streams THEN 1 ELSE 0)

\* Every open connection has exactly one owner and every owner an open one, also when contexts and
\* streams outlive the server: nothing parks into a dropped one, nothing leaks, nothing is closed
\* twice (respond, HttpServer::drop, http_relieve_fd_pressure).
OneOwner == \A f \in Fds : Owners(f) = IF conn[f] = "free" THEN 0 ELSE 1

\* The parked set is bounded where it grows, and a dropped server keeps none.
ParkedBounded == Len(park) <= IF dead THEN 0 ELSE MaxParked

\* Out of descriptors, a connection whose request had arrived at this wait is closed only if every
\* parked connection's had (http_relieve_fd_pressure).
SparesArrived ==
    acc.pc = "accept" =>
        \A f \in Range(park) \ Range(park') : f \in acc.revs => Range(park) \subseteq acc.revs

\* A connection whose last complete response promised persistence stays open until it is claimed,
\* evicted, spent or its server dropped (the comment in http_respond_impl: "there is no window in
\* which the response promises persistence and the fd is then closed").
PromiseKept == promised \subseteq Range(park)

\* A connection waiting on the listener is admitted, however busy the parked clients are (the
\* rotating start of http_wait_parked_or_listener) and however full the descriptor table is of them.
ListenerServed == (backlog = MaxBacklog) ~> (backlog < MaxBacklog)

\* A parked client whose request has arrived is served or loses its place to descriptor pressure.
ParkedServed == \A f \in Fds : (f \in Range(park) /\ conn[f] = "ready") ~> f \notin Range(park)
=============================================================================
