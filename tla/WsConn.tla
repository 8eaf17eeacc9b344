------------------------------- MODULE WsConn -------------------------------
(***************************************************************************)
(* One upgraded connection: pkg.ws's receive, send and close over the      *)
(* runtime's http_upgrade transport, which is live, spent (shut down) or   *)
(* poisoned (failed).  The peer sends any frames, well formed or not, and  *)
(* may hang up anywhere; a read, a write or a deadline may fail any call.  *)
(*                                                                         *)
(* A frame is a header token and one token per payload byte.  Bytes "L"    *)
(* and "T" are the two halves of one character, so a text is well formed   *)
(* only as a whole.  A close's payload is one token that says what it is.  *)
(***************************************************************************)
EXTENDS Integers, Sequences, FiniteSets, SequencesExt, FiniteSetsExt

CONSTANTS
    MaxCalls,       \* calls the pump makes
    MaxFrames,      \* frames the peer sends
    Ahead,          \* tokens the peer may be ahead of the reader
    Ops,            \* opcodes the peer uses
    Payloads,       \* payloads of its data frames
    MaxMessage,     \* max_message_bytes
    Work,           \* SOURCE_WORK_BYTES, in units of a header
    Scratch,        \* SCRATCH_BYTES
    Endless         \* the peer sends for ever, and no history is kept

\* What the constants must be.
WsConstants ==
    /\ MaxCalls \in Nat \ {0} /\ MaxFrames \in Nat /\ Ahead \in Nat /\ MaxMessage \in Nat
    /\ Work \in Nat \ {0, 1} /\ Scratch \in Nat \ {0} /\ Endless \in BOOLEAN
    /\ Ops \subseteq {"text", "binary", "cont", "ping", "pong", "close"}

VARIABLES
    conn,       \* HttpUpgrade: is the descriptor open, is a failure recorded, how often was it closed
    deadline,   \* none, armed or over
    call,       \* the call in progress, with the local variables of receive or close
    wire,       \* tokens sent by the peer and not read
    peer,       \* is it there, frames left
    calls,      \* calls left
    sent,       \* history: the frames written, the last one possibly in part
    read,       \* history: the frames read, and by which call
    got         \* history: the messages receive returned

vars == <<conn, deadline, call, wire, peer, calls, sent, read, got>>

\* Frames of the peer: ext is an extended length, bad what is wrong with the header and when it shows.
ControlOps == {"ping", "pong", "close"}
Plain(op, fin, data) == [op |-> op, fin |-> fin, data |-> data, ext |-> 0, bad |-> "no"]
ClosePayloads == {<<>>, <<"one">>, <<"code">>, <<"clientonly">>, <<"badcode">>, <<"badtext">>}
Frames ==
    {Plain(op, fin, data) : op \in Ops \ ControlOps, fin \in BOOLEAN, data \in Payloads}
    \cup {Plain(op, TRUE, data) : op \in Ops \cap {"ping", "pong"}, data \in {<<>>, <<"p">>, <<"q">>}}
    \cup {Plain("close", TRUE, data) : data \in IF "close" \in Ops THEN ClosePayloads ELSE {}}
    \cup {Plain(op, FALSE, <<>>) : op \in Ops \cap {"ping"}}
    \cup {[Plain(op, TRUE, data) EXCEPT !.ext = 1, !.bad = b] : op \in Ops \cap {"binary"}, data \in Payloads, b \in {"no", "first", "second"}}
Tokens(f) ==
    <<[k |-> "head", op |-> f.op, fin |-> f.fin, n |-> Len(f.data), ext |-> f.ext, bad |-> f.bad]>>
    \o [i \in DOMAIN f.data |-> [k |-> "byte", b |-> f.data[i]]]

NoHead == [k |-> "none", op |-> "none", fin |-> TRUE, n |-> 0, ext |-> 0, bad |-> "no"]
NoFrame == [op |-> "none", data |-> <<>>]
NoCall == [op |-> "none", pc |-> "idle", started |-> FALSE, text |-> FALSE, msg |-> <<>>, left |-> Work,
           head |-> NoHead, data |-> <<>>, out |-> NoFrame, then |-> "none"]

Init ==
    /\ conn = [open |-> TRUE, sticky |-> FALSE, owned |-> TRUE, closes |-> 0]
    /\ deadline = "none"
    /\ call = NoCall
    /\ wire = <<>>
    /\ peer = [there |-> TRUE, left |-> MaxFrames]
    /\ calls = MaxCalls
    /\ sent = <<>> /\ read = <<>> /\ got = <<>>

Note(history, entry) == IF Endless THEN history ELSE Append(history, entry)

(***************************************************************************)
(* The transport.                                                          *)
(***************************************************************************)

\* HttpUpgrade::fail.
Fail(c) == [c EXCEPT !.open = FALSE, !.sticky = TRUE, !.closes = @ + (IF c.open THEN 1 ELSE 0)]

\* align_rt_http_upgrade_shutdown.
Shutdown(c) == [c EXCEPT !.open = FALSE, !.closes = @ + (IF c.open THEN 1 ELSE 0)]

\* HttpUpgrade::drop.
Dropped(c) == [c EXCEPT !.open = FALSE, !.owned = FALSE, !.closes = @ + (IF c.open THEN 1 ELSE 0)]

\* arm_remaining: no read and no write is begun when the budget is used up.
MayTransfer == deadline # "over"

\* A call returns; close took the connection by value and drops it.
Return(c) == /\ call' = NoCall
             /\ conn' = IF call.op = "close" THEN Dropped(c) ELSE c

(***************************************************************************)
(* receive, send and close begin.                                          *)
(***************************************************************************)
Callable == call.pc = "idle" /\ conn.owned /\ calls > 0

Receive ==
    /\ Callable
    /\ calls' = calls - 1
    /\ call' = IF conn.open THEN [NoCall EXCEPT !.op = "receive", !.pc = "head"] ELSE call
    /\ UNCHANGED <<conn, deadline, wire, peer, sent, read, got>>

Writing(c, op, data, then) == [c EXCEPT !.pc = "write", !.out = [op |-> op, data |-> data], !.then = then]

Send(op) ==
    /\ Callable
    /\ calls' = calls - 1
    /\ call' = IF conn.open THEN Writing([NoCall EXCEPT !.op = "send"], op, <<"a">>, "return") ELSE call
    /\ UNCHANGED <<conn, deadline, wire, peer, sent, read, got>>

\* The deadline of a call to close.  Mutant: the one the connection had is kept.
KeptDeadline == deadline
CloseDeadline == "armed"

Close ==
    /\ Callable
    /\ calls' = calls - 1
    /\ IF conn.open
       THEN /\ deadline' = CloseDeadline
            /\ call' = Writing([NoCall EXCEPT !.op = "close"], "close", <<"code">>, "head")
            /\ UNCHANGED conn
       ELSE conn' = Dropped(conn) /\ UNCHANGED <<deadline, call>>
    /\ UNCHANGED <<wire, peer, sent, read, got>>

SetDeadline ==
    /\ Callable
    /\ calls' = calls - 1
    /\ deadline' = IF conn.open THEN "armed" ELSE deadline
    /\ UNCHANGED <<conn, call, wire, peer, sent, read, got>>

\* The pump returns without close.
Drop ==
    /\ call.pc = "idle" /\ conn.owned
    /\ conn' = Dropped(conn)
    /\ UNCHANGED <<deadline, call, wire, peer, calls, sent, read, got>>

(***************************************************************************)
(* Failures in a call.                                                     *)
(***************************************************************************)
Transferring == call.pc \in {"head", "payload", "write"}

\* What reaches the peer of a frame whose writing fails.
Cut == IF call.pc = "write" THEN {sent, Note(sent, [op |-> call.out.op, data |-> call.out.data, whole |-> FALSE])} ELSE {sent}

TransferFails ==
    /\ Transferring
    /\ Return(Fail(conn))
    /\ sent' \in Cut
    /\ UNCHANGED <<deadline, wire, peer, calls, read, got>>

TimedOut ==
    /\ Transferring /\ ~MayTransfer
    /\ Return(Fail(conn))
    /\ sent' \in Cut
    /\ UNCHANGED <<deadline, wire, peer, calls, read, got>>

(***************************************************************************)
(* Frames read.                                                            *)
(***************************************************************************)

\* terminal_error: a close frame, and the connection is shut down whether it could be sent or not.
TerminalError(code) == call' = Writing(call, "close", <<code>>, "invalid") /\ UNCHANGED conn

\* shutdown_invalid, for close; its own close frame is out already.
Refuse(code) == IF call.op = "receive" THEN TerminalError(code) ELSE Return(Shutdown(conn))

\* read_header on a header that has arrived.
HeaderRead(h, left) ==
    CASE h.bad = "first" -> "Protocol"
      [] left - 1 < h.ext -> "Limit"
      [] h.bad = "second" \/ (h.op \in ControlOps /\ ~h.fin) -> "Protocol"
      [] OTHER -> "Ready"

\* The message would pass its cap.
TooBig(n, msg) == n > MaxMessage - Len(msg)

\* receive and close on a well formed header, before the payload is read.
Admit(h, left) ==
    LET fresh == h.op \in {"text", "binary"}
        next == [call EXCEPT !.pc = "payload", !.head = h, !.data = <<>>, !.left = left]
    IN  CASE h.op \in ControlOps /\ left < h.n /\ call.op = "receive" -> TerminalError("1009")
          [] h.op \in ControlOps -> call' = [next EXCEPT !.left = left - h.n] /\ UNCHANGED conn
          [] h.op \notin ControlOps /\ fresh = call.started -> Refuse("1002")
          [] h.op \notin ControlOps /\ call.op = "receive" /\ TooBig(h.n, call.msg) -> TerminalError("1009")
          [] OTHER -> /\ call' = [next EXCEPT !.started = IF call.op = "receive" THEN TRUE ELSE IF fresh THEN ~h.fin ELSE @,
                                              !.text = IF fresh THEN h.op = "text" ELSE @]
                      /\ UNCHANGED conn

\* read_header gives up before it reads; close starts every frame with the whole allowance.
HeaderLimit ==
    /\ call.pc = "head" /\ call.op = "receive" /\ call.left < 1
    /\ TerminalError("1009")
    /\ UNCHANGED <<deadline, wire, peer, calls, sent, read, got>>

ReadHeader ==
    /\ call.pc = "head" /\ MayTransfer /\ wire # <<>>
    /\ call.op = "receive" => call.left >= 1
    /\ LET h == Head(wire)
           left == IF call.op = "receive" THEN call.left ELSE Work
       IN  CASE h.k = "byte" \/ HeaderRead(h, left) = "Protocol" -> Refuse("1002")
             [] h.k = "head" /\ HeaderRead(h, left) = "Limit" -> Refuse("1009")
             [] OTHER -> Admit(h, left - 1 - h.ext)
    /\ wire' = Tail(wire)
    /\ UNCHANGED <<deadline, peer, calls, sent, read, got>>

\* read_data_payload, read_control_payload, discard_payload: the next chunk.
Chunk == LET left == call.head.n - Len(call.data) IN
         IF call.head.op \in ControlOps \/ left < Scratch THEN left ELSE Scratch
ReadPayload ==
    /\ call.pc = "payload" /\ Len(call.data) < call.head.n /\ MayTransfer
    /\ Len(wire) >= Chunk
    /\ call' = [call EXCEPT !.data = @ \o [i \in 1..Chunk |-> wire[i].b]]
    /\ wire' = SubSeq(wire, Chunk + 1, Len(wire))
    /\ UNCHANGED <<conn, deadline, peer, calls, sent, read, got>>

Utf8(s) ==
    \A i \in DOMAIN s :
        /\ s[i] = "L" => i < Len(s) /\ s[i + 1] = "T"
        /\ s[i] = "T" => i > 1 /\ s[i - 1] = "L"

\* The control frames that are answered with their payload.
Answers(op) == op = "ping"

\* The message assembled so far, behind a control frame.  Mutant: it is started anew.
Forgotten(msg) == <<>>
Kept(msg) == msg

Control(data) ==
    LET next == [call EXCEPT !.pc = "head", !.head = NoHead, !.data = <<>>, !.msg = Kept(@)] IN
    CASE Answers(call.head.op) -> call' = Writing(next, "pong", data, "head") /\ UNCHANGED conn
      [] ~Answers(call.head.op) /\ call.head.op = "pong" -> call' = next /\ UNCHANGED conn
      [] data \in {<<"one">>, <<"badcode">>} -> Refuse("1002")
      [] data = <<"badtext">> -> Refuse("1007")
      [] OTHER -> IF call.op = "close"
                  THEN Return(Shutdown(conn))
                  ELSE call' = Writing(next, "close", IF data = <<"clientonly">> THEN <<>> ELSE data, "closed") /\ UNCHANGED conn

Data(data) ==
    LET msg == call.msg \o data
        next == [call EXCEPT !.pc = "head", !.head = NoHead, !.data = <<>>]
    IN  CASE call.op = "close" ->
                /\ call' = [next EXCEPT !.started = @ /\ ~(call.head.op = "cont" /\ call.head.fin)]
                /\ UNCHANGED <<conn, got>>
          [] call.op = "receive" /\ ~call.head.fin -> call' = [next EXCEPT !.msg = msg] /\ UNCHANGED <<conn, got>>
          [] call.op = "receive" /\ call.head.fin /\ call.text /\ ~Utf8(msg) -> TerminalError("1007") /\ UNCHANGED got
          [] OTHER -> Return(conn) /\ got' = Note(got, [text |-> call.text, data |-> msg])

\* A frame has been read to its end.
FrameDone ==
    /\ call.pc = "payload" /\ Len(call.data) = call.head.n
    /\ read' = Note(read, [op |-> call.head.op, fin |-> call.head.fin, data |-> call.data, by |-> call.op])
    /\ IF call.head.op \in ControlOps THEN Control(call.data) /\ UNCHANGED got ELSE Data(call.data)
    /\ UNCHANGED <<deadline, wire, peer, calls, sent>>

\* write_frame and send_close_frame, and what follows them in the call.
Write ==
    /\ call.pc = "write" /\ MayTransfer
    /\ sent' = Note(sent, [op |-> call.out.op, data |-> call.out.data, whole |-> TRUE])
    /\ CASE call.then = "head" -> call' = [call EXCEPT !.pc = "head", !.out = NoFrame, !.then = "none"] /\ UNCHANGED conn
         [] call.then = "return" -> Return(conn)
         [] call.then \in {"invalid", "closed"} -> Return(Shutdown(conn))
    /\ UNCHANGED <<deadline, wire, peer, calls, read, got>>

(***************************************************************************)
(* The peer and the clock.                                                 *)
(***************************************************************************)
PeerSends(f) ==
    /\ peer.there /\ peer.left > 0 /\ Len(wire) <= Ahead
    /\ wire' = wire \o Tokens(f)
    /\ peer' = [peer EXCEPT !.left = IF Endless THEN @ ELSE @ - 1]
    /\ UNCHANGED <<conn, deadline, call, calls, sent, read, got>>

\* The peer goes, with what it sent last perhaps cut off.
PeerLeaves ==
    /\ peer.there
    /\ peer' = [peer EXCEPT !.there = FALSE]
    /\ \E n \in 0..Len(wire) : wire' = SubSeq(wire, 1, n)
    /\ UNCHANGED <<conn, deadline, call, calls, sent, read, got>>

Expire ==
    /\ deadline = "armed"
    /\ deadline' = "over"
    /\ UNCHANGED <<conn, call, wire, peer, calls, sent, read, got>>

Over == ~conn.owned /\ UNCHANGED vars

Local == HeaderLimit \/ FrameDone

Next ==
    \/ Receive \/ Close \/ SetDeadline \/ Drop \/ TransferFails \/ TimedOut
    \/ \E op \in {"text", "binary"} : Send(op)
    \/ Local \/ ReadHeader \/ ReadPayload \/ Write
    \/ PeerLeaves \/ Expire \/ Over
    \/ \E f \in Frames : PeerSends(f)

\* The clock runs, a call whose time is over gives up, and a call computes; no read and no write is
\* assumed to succeed.
Fairness == WF_vars(Expire) /\ WF_vars(TimedOut) /\ WF_vars(Local)

Spec == Init /\ [][Next]_vars
FairSpec == Spec /\ Fairness

-----------------------------------------------------------------------------
(***************************************************************************)
(* Properties.                                                             *)
(***************************************************************************)

\* Types; a call transfers on an open connection only.
TypeOK ==
    /\ call.pc \in {"idle", "head", "payload", "write"} /\ call.op \in {"none", "receive", "send", "close"}
    /\ deadline \in {"none", "armed", "over"}
    /\ call.pc # "idle" => conn.open /\ conn.owned
    /\ conn.sticky => ~conn.open

\* What receive returns is what the peer sent: message by message, fragments joined in order across
\* the control frames between them, text only if it is well formed as a whole.
Received == SelectSeq(read, LAMBDA f : f.by = "receive" /\ f.op \notin ControlOps)
Ends == SetToSortSeq({i \in DOMAIN Received : Received[i].fin}, <)
Begin(e) == Max({i \in 0..(e - 1) : i = 0 \/ Received[i].fin}) + 1
Message(e) ==
    [text |-> Received[Begin(e)].op = "text",
     data |-> FlattenSeq([i \in 1..(e - Begin(e) + 1) |-> Received[Begin(e) + i - 1].data])]
MessageIntact ==
    got = SelectSeq([i \in DOMAIN Ends |-> Message(Ends[i])], LAMBDA m : m.text => Utf8(m.data))

\* No call leaves a connection usable in the middle of a frame or of a message: what comes next is
\* a header, and the data read so far has all been returned.
InSync ==
    conn.open /\ call.pc = "idle" =>
        /\ wire # <<>> => Head(wire).k = "head"
        /\ Received # <<>> => Last(Received).fin
        /\ MessageIntact /\ Len(got) = Len(Ends)

\* Every ping that was read is answered once, in order and with its payload, and nothing else is.
PongsMatch ==
    LET pings == SelectSeq(read, LAMBDA f : f.op = "ping")
        pongs == SelectSeq(sent, LAMBDA f : f.op = "pong")
    IN  /\ Len(pongs) <= Len(pings) /\ \A i \in DOMAIN pongs : pongs[i].data = pings[i].data
        /\ conn.open /\ call.pc \in {"idle", "head"} => Len(pongs) = Len(pings)

\* The peer can parse what it gets: no frame follows a part of a frame, and only pongs follow our close
\* frame.  No frame is read after the peer's close frame.
SentWellFormed ==
    /\ \A i \in DOMAIN sent : i < Len(sent) => sent[i].whole
    /\ \A i, j \in DOMAIN sent : i < j /\ sent[i].op = "close" => sent[j].op = "pong"
    /\ \A i \in DOMAIN read : read[i].op = "close" => i = Len(read)

\* However a message is cut into frames, receive stays within its cap and its allowance.
AllowanceKept ==
    /\ call.left >= 0 /\ Len(call.msg) <= MaxMessage
    /\ \A i \in DOMAIN got : Len(got[i].data) <= MaxMessage

\* The descriptor is closed once, by the failure, the shutdown or the drop, whichever comes first.
ClosedOnce == conn.closes = (IF conn.open THEN 0 ELSE 1) /\ (~conn.owned => ~conn.open)

\* close returns within its deadline, whatever the peer sends and for however long.
CloseReturns == (call.op = "close") ~> (call.pc = "idle")
=============================================================================
