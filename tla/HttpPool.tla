------------------------------ MODULE HttpPool ------------------------------
(***************************************************************************)
(* The client half of std.http: the keepalive connection pool of one       *)
(* HttpClient, the exchange with its single retry (http_client_perform and *)
(* http_client_perform_stream), the workers of get_many that share the     *)
(* pool, and the response streams that keep a connection checked out.      *)
(*                                                                         *)
(* pool[e] is NoBucket when the map has no key for the endpoint e (scheme, *)
(* host and port), else the bucket: idle connections, coldest first.  A    *)
(* lock region of the source is one step; what runs after the lock is      *)
(* released (closing what was reaped) is a step of its own.  sock is the   *)
(* kernel's descriptor table with the peer behind each socket: a closed    *)
(* number is given out again, so closing twice would hit a stranger.       *)
(***************************************************************************)
EXTENDS Naturals, Sequences, FiniteSets, SequencesExt

CONSTANTS
    Endpoints,      \* (scheme, host, port) keys
    Workers,        \* the threads of get_many (one of them serves get and request)
    Streams,        \* the response streams the program can hold
    Fds,            \* descriptor numbers
    Batches,        \* the URL lists a call may be given, as sequences of endpoints
    Deadlines,      \* whether a call's effective timeout is positive: a subset of BOOLEAN
    Kinds,          \* how the server answers: a subset of AnswerKinds
    MaxIdle,        \* HTTP_POOL_MAX_IDLE_PER_HOST
    MaxCalls,       \* bound: calls the program makes
    NoBucket, Free, None

VARIABLES
    pool,           \* HttpClient.idle
    sock,           \* descriptor -> Free or the socket: its peer, its unread bytes, its timeout
    wk,             \* the exchange each worker or stream handle is in
    call,           \* the call in progress: its URLs, the shared index, its timeout
    slots,          \* per URL of the call: the response or the failure
    alive,          \* the client has not been dropped
    heard,          \* history: requests of whose answer a byte was read
    acted           \* history: how often the server acted on each request

vars == <<pool, sock, wk, call, slots, alive, heard, acted>>

Actors == Workers \cup Streams
Ids == (1..MaxCalls) \X (1..2)
AnswerKinds == {"keep", "bye", "over", "eof", "bad"}

\* What the constants must be.
HttpPoolConstants ==
    /\ MaxIdle \in Nat \ {0}
    /\ MaxCalls \in Nat
    /\ Deadlines \subseteq BOOLEAN
    /\ Kinds \subseteq AnswerKinds
    /\ \A b \in Batches : Len(b) \in 1..2 /\ \A i \in DOMAIN b : b[i] \in Endpoints

(***************************************************************************)
(* Bytes on a connection, by the part of an answer they are: its head, the *)
(* rest of it, and an overshoot past the framed end.                       *)
(***************************************************************************)
Tokens == [part : {"head", "tail", "extra"}, id : Ids \cup {None}, kind : AnswerKinds]
Part(p, id, k) == [part |-> p, id |-> id, kind |-> k]

Off == [pc |-> "off", id |-> None, ep |-> None, dl |-> FALSE, att |-> 0, fd |-> None,
        reused |-> FALSE, buf |-> <<>>, reap |-> {}, then |-> "off"]

Init ==
    /\ pool = [e \in Endpoints |-> NoBucket]
    /\ sock = [f \in Fds |-> Free]
    /\ wk = [w \in Actors |-> Off]
    /\ call = [n |-> 0, urls |-> <<>>, next |-> 1, dl |-> FALSE, busy |-> FALSE]
    /\ slots = <<>>
    /\ alive = TRUE
    /\ heard = {}
    /\ acted = [i \in Ids |-> 0]

(***************************************************************************)
(* The pool, each operation under its lock.                                *)
(***************************************************************************)

\* take_idle: pop from the back; what is past the idle timeout is reaped, the first live one found.
TakeIdle(b) ==
    LET live == {i \in DOMAIN b : ~b[i].old}
        k    == IF live = {} THEN 0 ELSE CHOOSE i \in live : \A j \in live : j <= i
    IN [found |-> IF k = 0 THEN None ELSE b[k].fd,
        stale |-> {b[i].fd : i \in (k + 1)..Len(b)},
        left  |-> SubSeq(b, 1, k - 1)]

\* put_idle: reap what is past the idle timeout first, then the capacity check.
PutIdle(e, f) ==
    LET b    == IF pool[e] = NoBucket THEN <<>> ELSE pool[e]
        kept == SelectSeq(b, LAMBDA c : ~c.old)
        full == Len(kept) >= MaxIdle
    IN [bucket |-> IF full THEN kept ELSE Append(kept, [fd |-> f, old |-> FALSE]),
        close  |-> {b[i].fd : i \in {j \in DOMAIN b : b[j].old}} \cup (IF full THEN {f} ELSE {})]

\* remove_empty: the key goes only if its bucket is still empty.
RemoveEmpty(e) == IF pool[e] = <<>> THEN [pool EXCEPT ![e] = NoBucket] ELSE pool

\* close(2): the number is free, whoever holds it.
Close(fs) == [f \in Fds |-> IF f \in fs THEN Free ELSE sock[f]]

(***************************************************************************)
(* Calls.                                                                  *)
(***************************************************************************)

\* The program runs: no call is in progress and no stream operation either.
Idle == alive /\ ~call.busy /\ \A w \in Actors : wk[w].pc \in {"off", "body"}
StreamOpen(s) == s \in Streams /\ wk[s].pc = "body"

\* An exchange starts with attempt 0.
Begin(id, e, d) == [Off EXCEPT !.pc = "take", !.id = id, !.ep = e, !.dl = d]

\* get_many (get and request are the batch of one): min(max_concurrency, n) workers.
GetMany(urls, ws, d) ==
    /\ Idle /\ call.n < MaxCalls
    /\ Cardinality(ws) <= Len(urls)
    /\ call' = [n |-> call.n + 1, urls |-> urls, next |-> 1, dl |-> d, busy |-> TRUE]
    /\ slots' = [i \in DOMAIN urls |-> None]
    /\ wk' = [w \in Actors |-> IF w \in ws THEN [Off EXCEPT !.pc = "claim"] ELSE wk[w]]
    /\ UNCHANGED <<pool, sock, alive, heard, acted>>

\* request_stream: the constructor runs the exchange up to the final head.
RequestStream(s, e, d) ==
    /\ Idle /\ call.n < MaxCalls /\ wk[s].pc = "off"
    /\ call' = [n |-> call.n + 1, urls |-> <<e>>, next |-> 2, dl |-> d, busy |-> TRUE]
    /\ slots' = <<None>>
    /\ wk' = [wk EXCEPT ![s] = Begin(<<call.n + 1, 1>>, e, d)]
    /\ UNCHANGED <<pool, sock, alive, heard, acted>>

\* fetch_add on the shared index; past the end the worker leaves the scope.
Claim(w) ==
    /\ wk[w].pc = "claim"
    /\ call' = [call EXCEPT !.next = @ + 1]
    /\ wk' = [wk EXCEPT ![w] =
                IF call.next > Len(call.urls) THEN Off
                ELSE Begin(<<call.n, call.next>>, call.urls[call.next], call.dl)]
    /\ UNCHANGED <<pool, sock, slots, alive, heard, acted>>

\* The scope joins its workers; on any failure every response is freed and the call fails.
Join ==
    /\ call.busy
    /\ \A w \in Actors : wk[w].pc \in {"off", "body"}
    /\ call' = [call EXCEPT !.busy = FALSE]
    /\ UNCHANGED <<pool, sock, wk, slots, alive, heard, acted>>

(***************************************************************************)
(* The exchange.                                                           *)
(***************************************************************************)

After(w) == IF w \in Streams THEN "off" ELSE "claim"

\* The result of the call's URL; a stream read or dropped later is no part of a call.
Record(w, ok, b) ==
    IF call.busy
    THEN [slots EXCEPT ![wk[w].id[2]] =
            [ok |-> ok, id |-> IF b = <<>> THEN None ELSE b[1].id,
             unheard |-> b = <<>>, reused |-> wk[w].reused]]
    ELSE slots

\* Attempt 0 asks the pool; the retry never does.
Take(w) ==
    /\ wk[w].pc = "take"
    /\ LET e == wk[w].ep
           t == TakeIdle(IF pool[e] = NoBucket THEN <<>> ELSE pool[e])
           n == IF t.found = None THEN "connect" ELSE "write"
       IN /\ pool' = IF pool[e] = NoBucket THEN pool ELSE [pool EXCEPT ![e] = t.left]
          /\ wk' = [wk EXCEPT ![w].fd = t.found, ![w].reused = t.found # None,
                              ![w].reap = t.stale, ![w].then = n,
                              ![w].pc = IF t.stale = {} THEN n ELSE "reap"]
    /\ UNCHANGED <<sock, call, slots, alive, heard, acted>>

\* Teardown of what was collected under the lock, after the lock.
Reap(w) ==
    /\ wk[w].pc = "reap"
    /\ sock' = Close(wk[w].reap)
    /\ wk' = [wk EXCEPT ![w] = IF wk[w].then = "claim" THEN [Off EXCEPT !.pc = "claim"]
                               ELSE IF wk[w].then = "off" THEN Off
                               ELSE [@ EXCEPT !.reap = {}, !.pc = wk[w].then]]
    /\ UNCHANGED <<pool, call, slots, alive, heard, acted>>

\* http_connect_fd, http_tls_connect: a new socket with no timeout on it.
Connect(w) ==
    /\ wk[w].pc = "connect"
    /\ \E f \in {x \in Fds : sock[x] = Free} :
          /\ sock' = [sock EXCEPT ![f] =
                [ep |-> wk[w].ep, open |-> TRUE, armed |-> FALSE, inq |-> <<>>, rx |-> <<>>]]
          /\ wk' = [wk EXCEPT ![w].fd = f, ![w].reused = FALSE, ![w].pc = "write"]
    /\ UNCHANGED <<pool, call, slots, alive, heard, acted>>

\* A refused connection, a failed handshake, no descriptor left.
ConnectFails(w) ==
    /\ wk[w].pc = "connect"
    /\ wk' = [wk EXCEPT ![w].fd = None, ![w].reused = FALSE, ![w].pc = "fail"]
    /\ UNCHANGED <<pool, sock, call, slots, alive, heard, acted>>

\* http_arm_conn_timeout: a reused socket is always set, a fresh one only for a deadline.
\* Mutant: a reused socket is left as it is.
ArmedFreshOnly(w) == IF wk[w].reused THEN sock[wk[w].fd].armed ELSE wk[w].dl
Armed(w) == IF wk[w].dl \/ wk[w].reused THEN wk[w].dl ELSE sock[wk[w].fd].armed

\* One write of the request; a socket the peer has closed may still take it.
Write(w) ==
    /\ wk[w].pc = "write"
    /\ LET f == wk[w].fd IN
         sock' = [sock EXCEPT ![f].armed = Armed(w),
                    ![f].inq = IF sock[f].open THEN Append(@, [owes |-> "all", id |-> wk[w].id, kind |-> "keep"])
                               ELSE @]
    /\ wk' = [wk EXCEPT ![w].pc = "read"]
    /\ UNCHANGED <<pool, call, slots, alive, heard, acted>>

\* EPIPE or a reset on a socket the peer closed, or the send deadline.
WriteFails(w) ==
    /\ wk[w].pc = "write"
    /\ ~sock[wk[w].fd].open \/ Armed(w)
    /\ sock' = [sock EXCEPT ![wk[w].fd].armed = Armed(w)]
    /\ wk' = [wk EXCEPT ![w].pc = "close"]
    /\ UNCHANGED <<pool, call, slots, alive, heard, acted>>

\* What the decoder makes of the bytes read so far.
Malformed(b) == b[1].kind = "bad" \/ b[1].part = "tail"
Complete(b) == b[1].part = "extra" \/ \E i \in DOMAIN b : b[i].part = "tail"
Residual(b) == Len(b) > 1 /\ b[Len(b)].part = "extra"
Reusable(b) == b[1].kind \in {"keep", "over"} /\ ~Residual(b)

\* Where the exchange may go once it has bytes: an answer is settled; a stream opens once its head has
\* been read, and is settled at once if the head is all there is.
NextPc(w, b) ==
    IF Malformed(b) THEN {"close"}
    ELSE (IF w \in Streams /\ wk[w].pc = "read" THEN {"body"} ELSE {})
         \cup {IF Complete(b) THEN "settle" ELSE wk[w].pc}

\* One read of what has arrived, up to the framed end and one byte of an overshoot behind it; the rest
\* of the overshoot stays in the socket.
Readable(f) == {n \in 1..Len(sock[f].rx) : n > 1 => sock[f].rx[n].part # "extra"}
Glimpse(f, n) == IF n < Len(sock[f].rx) /\ sock[f].rx[n + 1].part = "extra"
                 THEN <<sock[f].rx[n + 1]>> ELSE <<>>

\* A stream's body is read when the program asks, between its calls.
MayRead(w) == wk[w].pc = "read" \/ (StreamOpen(w) /\ Idle)

ReadData(w) ==
    /\ MayRead(w)
    /\ LET f == wk[w].fd IN
         \E n \in Readable(f) :
            LET b == wk[w].buf \o SubSeq(sock[f].rx, 1, n) \o Glimpse(f, n)
            IN /\ ~(StreamOpen(w) /\ Complete(wk[w].buf))
               /\ sock' = [sock EXCEPT ![f].rx = SubSeq(@, n + 1, Len(@))]
               /\ \E next \in NextPc(w, b) :
                    /\ wk' = [wk EXCEPT ![w].buf = b, ![w].pc = next]
                    /\ slots' = IF next = "body" THEN Record(w, TRUE, b) ELSE slots
    /\ heard' = heard \cup {wk[w].id}
    /\ UNCHANGED <<pool, call, alive, acted>>

\* The rest of the body was read with the head: the next read completes from the scratch.
ReadScratch(w) ==
    /\ StreamOpen(w) /\ Idle /\ Complete(wk[w].buf)
    /\ wk' = [wk EXCEPT ![w].pc = "settle"]
    /\ UNCHANGED <<pool, sock, call, slots, alive, heard, acted>>

\* End of stream: it completes a close-delimited answer, and cuts any other.
ReadEof(w) ==
    /\ MayRead(w)
    /\ sock[wk[w].fd].rx = <<>> /\ ~sock[wk[w].fd].open
    /\ ~(StreamOpen(w) /\ Complete(wk[w].buf))
    /\ wk' = [wk EXCEPT ![w].pc =
                IF wk[w].buf # <<>> /\ wk[w].buf[1].kind = "eof" THEN "settle" ELSE "close"]
    /\ UNCHANGED <<pool, sock, call, slots, alive, heard, acted>>

\* The receive deadline of the socket, whoever set it.
ReadTimeout(w) ==
    /\ MayRead(w)
    /\ sock[wk[w].fd].rx = <<>> /\ sock[wk[w].fd].armed
    /\ ~(StreamOpen(w) /\ Complete(wk[w].buf))
    /\ wk' = [wk EXCEPT ![w].pc = "close"]
    /\ UNCHANGED <<pool, sock, call, slots, alive, heard, acted>>

\* Drop of a stream that is not complete: no hidden drain.
DropStream(s) ==
    /\ StreamOpen(s) /\ Idle
    /\ wk' = [wk EXCEPT ![s].pc = "close"]
    /\ UNCHANGED <<pool, sock, call, slots, alive, heard, acted>>

\* The answer is complete: put_idle when the connection is clean, else close.
Settle(w) ==
    /\ wk[w].pc = "settle"
    /\ IF Reusable(wk[w].buf)
       THEN LET p == PutIdle(wk[w].ep, wk[w].fd)
            IN /\ pool' = [pool EXCEPT ![wk[w].ep] = p.bucket]
               /\ wk' = [wk EXCEPT ![w] =
                    IF p.close = {} THEN [Off EXCEPT !.pc = After(w)]
                    ELSE [@ EXCEPT !.fd = None, !.reap = p.close, !.then = After(w), !.pc = "reap"]]
               /\ sock' = sock
       ELSE /\ sock' = Close({wk[w].fd})
            /\ wk' = [wk EXCEPT ![w].fd = None, ![w].pc = "drop"]
            /\ pool' = pool
    /\ slots' = Record(w, TRUE, wk[w].buf)
    /\ UNCHANGED <<call, alive, heard, acted>>

\* A reused connection that failed before any byte is retried once, on a fresh one.
\* Mutant: the retry asks the pool again.
RetryFromPool == "take"
RetryFrom == "connect"
Retryable(w) == wk[w].reused /\ wk[w].buf = <<>> /\ wk[w].att = 0

Failed(w) ==
    /\ wk[w].pc = "close"
    /\ sock' = Close({wk[w].fd})
    /\ wk' = [wk EXCEPT ![w] = IF Retryable(w)
                               THEN [@ EXCEPT !.fd = None, !.att = 1, !.buf = <<>>, !.pc = RetryFrom]
                               ELSE [@ EXCEPT !.fd = None, !.pc = "fail"]]
    /\ UNCHANGED <<pool, call, slots, alive, heard, acted>>

\* Every terminal path that pools nothing drops an empty bucket.
Drop(w) ==
    /\ wk[w].pc \in {"drop", "fail"}
    /\ pool' = RemoveEmpty(wk[w].ep)
    /\ slots' = IF wk[w].pc = "fail" THEN Record(w, FALSE, wk[w].buf) ELSE slots
    /\ wk' = [wk EXCEPT ![w] = [Off EXCEPT !.pc = After(w)]]
    /\ UNCHANGED <<sock, call, alive, heard, acted>>

\* Drop of the client: no call runs and no stream borrows it.
FreeClient ==
    /\ Idle
    /\ \A w \in Actors : wk[w].pc = "off"
    /\ sock' = Close(UNION {{pool[e][i].fd : i \in DOMAIN pool[e]} :
                              e \in {x \in Endpoints : pool[x] # NoBucket}})
    /\ pool' = [e \in Endpoints |-> NoBucket]
    /\ alive' = FALSE
    /\ UNCHANGED <<wk, call, slots, heard, acted>>

(***************************************************************************)
(* The environment: time and the server.                                   *)
(***************************************************************************)

\* The idle timeout passes for the coldest connection of a bucket that is not past it.
Age(e) ==
    /\ pool[e] # NoBucket
    /\ \E i \in DOMAIN pool[e] :
          /\ ~pool[e][i].old
          /\ \A j \in 1..(i - 1) : pool[e][j].old
          /\ pool' = [pool EXCEPT ![e][i].old = TRUE]
    /\ UNCHANGED <<sock, wk, call, slots, alive, heard, acted>>

\* The server answers the first request it was sent, starting with the head.
SendHead(f, k) ==
    /\ sock[f] # Free /\ sock[f].open
    /\ sock[f].inq # <<>> /\ Head(sock[f].inq).owes = "all"
    /\ LET q == Head(sock[f].inq) IN
         /\ acted' = [acted EXCEPT ![q.id] = @ + 1]
         /\ sock' = [sock EXCEPT ![f].rx = Append(@, Part("head", q.id, k)),
                ![f].inq = IF k \in {"eof", "bad"} THEN <<>>
                           ELSE <<[owes |-> "rest", id |-> q.id, kind |-> k]>> \o Tail(@),
                ![f].open = k \notin {"eof", "bad"}]
    /\ UNCHANGED <<pool, wk, call, slots, alive, heard>>

SendRest(f) ==
    /\ sock[f] # Free /\ sock[f].open
    /\ sock[f].inq # <<>> /\ Head(sock[f].inq).owes = "rest"
    /\ LET q == Head(sock[f].inq) IN
         sock' = [sock EXCEPT ![f].rx = @ \o <<Part("tail", q.id, q.kind)>>
                        \o (IF q.kind = "over" THEN <<Part("extra", None, "keep")>> ELSE <<>>),
                    ![f].inq = Tail(@), ![f].open = q.kind # "bye"]
    /\ UNCHANGED <<pool, wk, call, slots, alive, heard, acted>>

\* The server goes away or drops the connection, before or after acting on what it read.
Hangup(f) ==
    /\ sock[f] # Free /\ sock[f].open
    /\ \E did \in BOOLEAN :
          /\ did => sock[f].inq # <<>> /\ Head(sock[f].inq).owes = "all"
          /\ acted' = IF did THEN [acted EXCEPT ![Head(sock[f].inq).id] = @ + 1] ELSE acted
    /\ sock' = [sock EXCEPT ![f].open = FALSE, ![f].inq = <<>>]
    /\ UNCHANGED <<pool, wk, call, slots, alive, heard>>

\* The program has made its calls.
Finished ==
    /\ ~alive
    /\ UNCHANGED vars

Exchange(w) ==
    \/ Claim(w) \/ Take(w) \/ Reap(w) \/ Connect(w) \/ ConnectFails(w)
    \/ Write(w) \/ WriteFails(w) \/ ReadData(w) \/ ReadScratch(w) \/ ReadEof(w)
    \/ ReadTimeout(w) \/ Settle(w) \/ Failed(w) \/ Drop(w)

Program ==
    \/ \E u \in Batches, d \in Deadlines :
          \E ws \in (SUBSET Workers) \ {{}} : GetMany(u, ws, d)
    \/ \E s \in Streams, e \in Endpoints, d \in Deadlines : RequestStream(s, e, d)
    \/ \E s \in Streams : DropStream(s)
    \/ FreeClient

Server == \E f \in Fds : SendRest(f) \/ Hangup(f) \/ \E k \in Kinds : SendHead(f, k)

Next ==
    \/ \E w \in Actors : Exchange(w)
    \/ Join
    \/ Program
    \/ Server
    \/ \E e \in Endpoints : Age(e)
    \/ Finished

Spec == Init /\ [][Next]_vars

\* Threads run; the socket's own deadline passes.  Nothing is assumed of the server.
Runs(w) == wk[w].pc \notin {"off", "body"} /\ Exchange(w)

FairSpec == Spec /\ WF_vars(Join) /\ \A w \in Actors : WF_vars(Runs(w))

-----------------------------------------------------------------------------
(***************************************************************************)
(* Properties.                                                             *)
(***************************************************************************)

IdleConns == [fd : Fds, old : BOOLEAN]
Sockets == [ep : Endpoints, open : BOOLEAN, armed : BOOLEAN,
            inq : Seq([owes : {"all", "rest"}, id : Ids, kind : AnswerKinds]), rx : Seq(Tokens)]

\* Types of the pool, the descriptor table and the exchanges.
TypeOK ==
    /\ \A e \in Endpoints : pool[e] = NoBucket \/ pool[e] \in Seq(IdleConns)
    /\ \A f \in Fds : sock[f] = Free \/ sock[f] \in Sockets
    /\ \A w \in Actors :
         /\ wk[w].pc \in {"off", "claim", "take", "reap", "connect", "write", "read", "body",
                          "settle", "close", "fail", "drop"}
         /\ wk[w].id \in Ids \cup {None} /\ wk[w].ep \in Endpoints \cup {None}
         /\ wk[w].fd \in Fds \cup {None} /\ wk[w].reap \subseteq Fds
         /\ wk[w].att \in 0..1 /\ wk[w].buf \in Seq(Tokens)
    /\ call.n \in 0..MaxCalls /\ call.busy \in BOOLEAN /\ call.urls \in Seq(Endpoints)
    /\ heard \subseteq Ids /\ alive \in BOOLEAN

\* How many places own the descriptor f: pool entries, exchanges, and what awaits its close.
Owners(f) ==
    Cardinality({<<e, i>> \in Endpoints \X (1..Cardinality(Fds)) :
                    pool[e] # NoBucket /\ i \in DOMAIN pool[e] /\ pool[e][i].fd = f})
    + Cardinality({w \in Actors : wk[w].fd = f})
    + Cardinality({w \in Actors : f \in wk[w].reap})

\* Every open descriptor has exactly one owner and every owned one is open, while workers take, put,
\* reap and close at once: no connection serves two requests, none leaks, none is closed twice, and
\* after the client's drop none is left (take_idle, put_idle, align_rt_http_client_free).
OneOwner == \A f \in Fds : Owners(f) = IF sock[f] = Free THEN 0 ELSE 1

\* A bucket never holds more than its limit, whoever returns connections at once (put_idle).
IdleBounded == \A e \in Endpoints : pool[e] # NoBucket => Len(pool[e]) <= MaxIdle

\* A key with an empty bucket exists only while an exchange with that endpoint is in flight
\* (remove_empty on every terminal path that does not put).
EmptyBucketInFlight ==
    \A e \in Endpoints : pool[e] = <<>> =>
        \E w \in Actors : wk[w].ep = e /\ wk[w].pc # "take"

\* When a call has returned, each of its URLs has its result, and what it was handed is the answer to
\* that URL, whatever was left on a connection used before (the reuse verdict; get_many's shared index).
ResponseMatches ==
    /\ ~call.busy => \A i \in DOMAIN slots : slots[i] # None
    /\ \A i \in DOMAIN slots : slots[i] # None /\ slots[i].ok => slots[i].id = <<call.n, i>>

\* An exchange waits under its own request's deadline, never one an earlier user of the pooled
\* socket left on it (http_arm_conn_timeout on a reused connection).
DeadlineIsOwn ==
    \A w \in Actors : wk[w].pc \in {"read", "body"} => sock[wk[w].fd].armed = wk[w].dl

\* A connection the server dropped while it was idle never fails a request by itself: a request that
\* fails without one byte heard has failed on a connection made for it (the retry bypasses the pool).
StaleNeverSurfaces ==
    \A i \in DOMAIN slots :
        slots[i] # None /\ ~slots[i].ok /\ slots[i].unheard => ~slots[i].reused

\* A request of whose answer a byte was read is never sent again (received_any).
NoResend ==
    \A w \in Actors : wk[w].pc = "write" /\ wk'[w].pc = "read" => wk[w].id \notin heard

\* A call with a deadline returns, whatever the server does: no pooled socket left without a timeout
\* can hold it for ever.
CallReturns == call.busy /\ call.dl ~> ~call.busy

\* The comment on http_client_perform: the retried failure is "not a server-side effect", so the
\* server acts on a request at most once.
ActedOnce == \A i \in Ids : acted[i] <= 1
=============================================================================
