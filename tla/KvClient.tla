------------------------------ MODULE KvClient ------------------------------
(***************************************************************************)
(* pkg.kv's client: one request and one reply at a time on one connection. *)
(* The question is when the connection may be used again: an operation     *)
(* that fails in the middle of a request or a reply must retire it, one    *)
(* that has read its reply to the last byte need not.                      *)
(*                                                                         *)
(* A reply is a few tokens (marker, line, payload with its end) of one     *)
(* request; the server answers requests in order, late, cut off, wrongly   *)
(* or twice; a read returns any part of what has arrived.                  *)
(***************************************************************************)
EXTENDS Naturals, Sequences

CONSTANTS
    MaxOps,     \* operations of the program
    Extras      \* replies nobody asked for

\* What the constants must be.
KvConstants == MaxOps \in Nat \ {0} /\ Extras \in Nat

ASSUME KvAssumption == KvConstants

VARIABLES
    client,     \* the client state: none, live, closed, freed; closes of its connection
    op,         \* the operation in progress: command, number, phase, parser position
    input,      \* the tokens of the current read that are not parsed yet
    wire,       \* tokens the server has sent and the client has not read
    served,     \* the server: whole requests to answer, a partial request seen?, connection open?
    count,      \* operations begun, extra replies left
    answers     \* history: operation -> the request whose reply it returned, or its error

vars == <<client, op, input, wire, served, count, answers>>

Commands == {"get", "set", "setnx", "del"}
NoOp == [cmd |-> "none", q |-> 0, pc |-> "idle", first |-> TRUE]

\* Kinds of reply and their tokens: a bulk that is text, not UTF-8 or over the cap, a null bulk,
\* +OK, an error that is text, not UTF-8 or over the cap, an integer that is 0 or 1, another or over
\* the cap, and bytes that are no reply.  A kind over the cap is refused at its second token.
Kinds == {"text", "binary", "big", "null", "ok", "error", "errbin", "errbig", "bit", "more", "long", "junk"}
Size == [k \in Kinds |-> IF k \in {"text", "binary", "big", "errbig", "long"} THEN 3 ELSE IF k = "junk" THEN 1 ELSE 2]
Bulk == {"text", "binary", "big", "null"}
Errors == {"error", "errbin", "errbig"}
Integer == {"bit", "more", "long"}
OverCap(t) == t.kind \in {"big", "errbig", "long"} /\ t.i = 2
ReplyTokens(q, k) == [i \in 1..Size[k] |-> [q |-> q, kind |-> k, i |-> i]]

Init ==
    /\ client = [st |-> "none", closes |-> 0]
    /\ op = NoOp
    /\ input = <<>> /\ wire = <<>>
    /\ served = [todo |-> <<>>, partial |-> FALSE, open |-> TRUE]
    /\ count = [ops |-> 0, extras |-> Extras]
    /\ answers = <<>>

(***************************************************************************)
(* The parsers: what one more token means.  "go" is: read on.              *)
(***************************************************************************)

\* trailing_in_current_read.
Trailing(rest) == rest # <<>>

\* A complete reply, with what is left of the read.
Complete(rest, verdict) == IF Trailing(rest) THEN "Protocol" ELSE verdict

ParseError(t, rest) ==
    CASE OverCap(t) -> "ResponseTooLarge"
      [] t.i < Size[t.kind] -> "go"
      [] OTHER -> Complete(rest, IF t.kind = "error" THEN "Server" ELSE "Decode")

ParseGet(t, rest) ==
    CASE t.kind \notin Bulk -> "Protocol"
      [] OverCap(t) -> "ResponseTooLarge"
      [] t.i < Size[t.kind] -> "go"
      [] OTHER -> Complete(rest, IF t.kind = "binary" THEN "Decode" ELSE "Ok")

ParseSet(t, rest, conditional) ==
    CASE t.kind \notin Bulk \cup {"ok"} -> "Protocol"
      [] t.kind \in Bulk \ {"null"} /\ t.i = 2 -> "Protocol"
      [] t.i < Size[t.kind] -> "go"
      [] OTHER -> Complete(rest, IF t.kind = "ok" \/ conditional THEN "Ok" ELSE "Protocol")

ParseDelete(t, rest) ==
    CASE t.kind \notin Integer -> "Protocol"
      [] OverCap(t) -> "ResponseTooLarge"
      [] t.i < Size[t.kind] -> "go"
      [] OTHER -> Complete(rest, IF t.kind = "more" THEN "Protocol" ELSE "Ok")

Parse(cmd, t, rest) ==
    CASE t.kind \in Errors -> ParseError(t, rest)
      [] cmd = "get" -> ParseGet(t, rest)
      [] cmd = "set" -> ParseSet(t, rest, FALSE)
      [] cmd = "setnx" -> ParseSet(t, rest, TRUE)
      [] cmd = "del" -> ParseDelete(t, rest)

(***************************************************************************)
(* The client.                                                             *)
(***************************************************************************)
Close(s) == [s EXCEPT !.st = "closed", !.closes = @ + 1]

\* finish_get, finish_bool: which results retire the client.  Mutant: a timeout does not.
SparesTimeout(result) == result \in {"Protocol", "ResponseTooLarge", "Closed"}
Retires(result) == result \in {"Io", "Protocol", "ResponseTooLarge", "Closed"}

\* retire_client.
RetireClient(s) == IF s.st = "live" THEN Close(s) ELSE s

\* The operation returns; its input buffer is freed with whatever it holds.
Finish(result, q) ==
    /\ client' = IF Retires(result) THEN RetireClient(client) ELSE client
    /\ answers' = Append(answers, [op |-> op.q, result |-> result, reply |-> q])
    /\ op' = NoOp
    /\ input' = <<>>

Connect ==
    /\ client.st = "none"
    /\ client' = [client EXCEPT !.st = "live"]
    /\ UNCHANGED <<op, input, wire, served, count, answers>>

\* drop_client.
Drop ==
    /\ client.st \in {"live", "closed"} /\ op.pc = "idle"
    /\ client' = [RetireClient(client) EXCEPT !.st = "freed"]
    /\ UNCHANGED <<op, input, wire, served, count, answers>>

\* get, set, delete: a closed client answers Closed and bad arguments Invalid, both without I/O.
Started(cmd) == [cmd |-> cmd, q |-> count.ops + 1, pc |-> "send", first |-> TRUE]
Answered(result) == answers' = Append(answers, [op |-> count.ops + 1, result |-> result, reply |-> 0])
Begin(cmd) ==
    /\ client.st \in {"live", "closed"} /\ op.pc = "idle" /\ count.ops < MaxOps
    /\ count' = [count EXCEPT !.ops = @ + 1]
    /\ \/ client.st = "closed" /\ Answered("Closed") /\ UNCHANGED op
       \/ client.st = "live" /\ Answered("Invalid") /\ UNCHANGED op
       \/ client.st = "live" /\ op' = Started(cmd) /\ UNCHANGED answers
    /\ UNCHANGED <<client, input, wire, served>>

\* send_get, send_set, send_delete, which write the request part by part.
Send ==
    /\ op.pc = "send"
    /\ served' = [served EXCEPT !.todo = IF served.open /\ ~served.partial THEN Append(@, op.q) ELSE @]
    /\ op' = [op EXCEPT !.pc = "read"]
    /\ UNCHANGED <<client, input, wire, count, answers>>

\* A write fails, with a part of the request sent or none.
SendRetires(s) == RetireClient(s)
SendFails ==
    /\ op.pc = "send"
    /\ \E part \in BOOLEAN : served' = [served EXCEPT !.partial = @ \/ part]
    /\ client' = SendRetires(client)
    /\ answers' = Append(answers, [op |-> op.q, result |-> "Io", reply |-> 0])
    /\ op' = NoOp
    /\ UNCHANGED <<input, wire, count>>

\* refill: some of what has arrived.
Refill ==
    /\ op.pc = "read" /\ input = <<>> /\ wire # <<>>
    /\ \E n \in 1..Len(wire) : input' = SubSeq(wire, 1, n) /\ wire' = SubSeq(wire, n + 1, Len(wire))
    /\ UNCHANGED <<client, op, served, count, answers>>

\* refill: the timeout or an error, before or after the server's answer has left.
ReadFails ==
    /\ op.pc = "read" /\ input = <<>>
    /\ Finish("Io", 0)
    /\ UNCHANGED <<wire, served, count>>

\* refill: end of file, before the first byte of the reply or in it.
EndOfFile ==
    /\ op.pc = "read" /\ input = <<>> /\ wire = <<>> /\ ~served.open
    /\ Finish(IF op.first THEN "Closed" ELSE "Protocol", 0)
    /\ UNCHANGED <<wire, served, count>>

\* The next token of the reply.
Token ==
    /\ op.pc = "read" /\ input # <<>>
    /\ LET t == Head(input)
           result == Parse(op.cmd, t, Tail(input))
       IN  IF result = "go"
           THEN input' = Tail(input) /\ op' = [op EXCEPT !.first = FALSE] /\ UNCHANGED <<client, answers>>
           ELSE Finish(result, IF result \in {"Ok", "Server", "Decode"} THEN t.q ELSE 0)
    /\ UNCHANGED <<wire, served, count>>

(***************************************************************************)
(* The server.                                                             *)
(***************************************************************************)
Reply(k) ==
    /\ served.open /\ served.todo # <<>>
    /\ wire' = wire \o ReplyTokens(Head(served.todo), k)
    /\ served' = [served EXCEPT !.todo = Tail(@)]
    /\ UNCHANGED <<client, op, input, count, answers>>

\* A reply is repeated.
Extra(k) ==
    /\ served.open /\ count.extras > 0
    /\ count' = [count EXCEPT !.extras = @ - 1]
    /\ wire' = wire \o ReplyTokens(0, k)
    /\ UNCHANGED <<client, op, input, served, answers>>

\* The server closes, having sent what it sent or losing a part of it.
Hangup ==
    /\ served.open
    /\ served' = [served EXCEPT !.open = FALSE]
    /\ \E n \in 0..Len(wire) : wire' = SubSeq(wire, 1, n)
    /\ UNCHANGED <<client, op, input, count, answers>>

Over == op.pc = "idle" /\ client.st = "freed" /\ UNCHANGED vars

Next ==
    \/ Connect \/ Drop \/ Send \/ SendFails \/ Refill \/ ReadFails \/ EndOfFile \/ Token \/ Hangup \/ Over
    \/ \E cmd \in Commands : Begin(cmd)
    \/ \E k \in Kinds : Reply(k) \/ Extra(k)

Spec == Init /\ [][Next]_vars

-----------------------------------------------------------------------------
(***************************************************************************)
(* Properties.                                                             *)
(***************************************************************************)

Results == {"Ok", "Server", "Decode", "Invalid", "Io", "Protocol", "ResponseTooLarge", "Closed"}
Tokens == {t \in [q : Nat, kind : Kinds, i : 1..3] : t.i <= Size[t.kind]}

\* Every variable keeps its type; an operation runs on a live client, and every operation is answered
\* at most once.
TypeOK ==
    /\ client \in [st : {"none", "live", "closed", "freed"}, closes : Nat]
    /\ op \in [cmd : Commands \cup {"none"}, q : Nat, pc : {"idle", "send", "read"}, first : BOOLEAN]
    /\ op.pc # "idle" => op.cmd \in Commands /\ client.st = "live"
    /\ input \in Seq(Tokens) /\ wire \in Seq(Tokens)
    /\ served \in [todo : Seq(Nat), partial : BOOLEAN, open : BOOLEAN]
    /\ count \in [ops : 0..MaxOps, extras : 0..Extras]
    /\ answers \in Seq([op : Nat, result : Results, reply : Nat])
    /\ Len(answers) + (IF op.pc = "idle" THEN 0 ELSE 1) = count.ops

\* A client that can be used again stands between two replies: what comes next from the server is
\* the first byte of a reply, and nothing that was read has been thrown away.
InSync == client.st = "live" /\ op.pc = "idle" /\ wire # <<>> => wire[1].i = 1

\* The server sees no request behind a part of another.
RequestsWhole == client.st = "live" => ~served.partial

\* An operation answers with its own reply, however late the replies of earlier ones arrive: whatever
\* ends an operation before the end of its reply also ends the connection.
AnswerIsMine ==
    \A i \in DOMAIN answers : answers[i].result \in {"Ok", "Server", "Decode"} => answers[i].reply = answers[i].op

\* The connection is closed once, when the client is retired or dropped.
ClosedOnce == client.closes = IF client.st \in {"closed", "freed"} THEN 1 ELSE 0

\* The Redis client: the server never sees a request behind a part of another, a client left usable
\* stands between two replies, the connection is closed once, and, until the server repeats a reply, an
\* operation answers with its own (execute, refill, retire_client).
RepliesMatched ==
    /\ TypeOK /\ RequestsWhole /\ InSync /\ ClosedOnce
    /\ count.extras = Extras => AnswerIsMine
=============================================================================
