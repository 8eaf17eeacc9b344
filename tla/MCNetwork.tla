------------------------------ MODULE MCNetwork -----------------------------
(***************************************************************************)
(* Instances of the HTTP client pool, the HTTP server's parked set, the    *)
(* Redis client and the WebSocket connection for TLC.  The four share no   *)
(* state, so their interleavings say nothing: each behaviour runs one part *)
(* and leaves the others in their initial states.  The Redis client is     *)
(* extended, with its constants from the configuration.                    *)
(***************************************************************************)
EXTENDS KvClient, Integers, TLC

CONSTANTS Parts,                            \* the parts a run covers
          e1, e2, w1, w2, s1, f1, f2, f3,   \* endpoints, threads, a stream, descriptors
          NoBucket, Free, None

VARIABLES
    part,
    pool, sock, wk, call, slots, alive, heard, acted,                            \* HttpPool
    park, dead, conn, ctx, streams, backlog, others, acc, mode, cursor, faults,
    promised,                                                                    \* HttpPark
    upgrade, deadline, pump, frames, peer, calls, sent, read, got                \* WsConn

poolVars == <<pool, sock, wk, call, slots, alive, heard, acted>>
parkVars == <<park, dead, conn, ctx, streams, backlog, others, acc, mode, cursor, faults, promised>>
wsVars == <<upgrade, deadline, pump, frames, peer, calls, sent, read, got>>
netVars == <<part, poolVars, parkVars, vars, wsVars>>

Pairs == {<<e1>>, <<e1, e1>>}
BytePayloads == {<<"a">>}
TextPayloads == {<<"a", "L">>, <<"T">>}

(***************************************************************************)
(* The HTTP client.  MaxIdle stands for HTTP_POOL_MAX_IDLE_PER_HOST (8).   *)
(***************************************************************************)
Pool == INSTANCE HttpPool WITH
    Endpoints <- {e1}, Workers <- {w1, w2}, Streams <- {}, Fds <- {f1, f2, f3}, Batches <- Pairs,
    Deadlines <- {TRUE}, Kinds <- {"keep"}, MaxIdle <- 2, MaxCalls <- 2
Stream == INSTANCE HttpPool WITH
    Endpoints <- {e1, e2}, Workers <- {w1}, Streams <- {s1}, Fds <- {f1, f2},
    Batches <- {<<e1>>, <<e1, e2>>}, Deadlines <- BOOLEAN,
    Kinds <- {"keep", "bye", "over", "eof", "bad"}, MaxIdle <- 1, MaxCalls <- 2
Single == INSTANCE HttpPool WITH
    Endpoints <- {e1}, Workers <- {w1}, Streams <- {s1}, Fds <- {f1, f2}, Batches <- Pairs,
    Deadlines <- BOOLEAN, Kinds <- {"keep"}, MaxIdle <- 1, MaxCalls <- 2

(***************************************************************************)
(* The HTTP server.  MaxParked stands for HTTP_MAX_PARKED_CONNS (256).     *)
(***************************************************************************)
Park == INSTANCE HttpPark WITH
    Fds <- {f1, f2, f3}, MaxParked <- 2, Limit <- 3, MaxOthers <- 1, MaxBacklog <- 1, MaxHeld <- 2,
    MaxFaults <- 1, Timed <- BOOLEAN, TimedReply <- BOOLEAN,
    Verdicts <- {"keep", "shut", "malformed", "toobig"}
Promise == INSTANCE HttpPark WITH
    Fds <- {f1, f2, f3}, MaxParked <- 2, Limit <- 3, MaxOthers <- 1, MaxBacklog <- 1, MaxHeld <- 2,
    MaxFaults <- 1, Timed <- BOOLEAN, TimedReply <- {FALSE}, Verdicts <- {"keep", "shut"}
Serve == INSTANCE HttpPark WITH
    Fds <- {f1, f2, f3}, MaxParked <- 3, Limit <- 3, MaxOthers <- 0, MaxBacklog <- 1, MaxHeld <- 1,
    MaxFaults <- 0, Timed <- {FALSE}, TimedReply <- {FALSE}, Verdicts <- {"keep"}
Crowd == INSTANCE HttpPark WITH
    Fds <- {f1, f2, f3}, MaxParked <- 2, Limit <- 3, MaxOthers <- 0, MaxBacklog <- 1, MaxHeld <- 1,
    MaxFaults <- 0, Timed <- {FALSE}, TimedReply <- {FALSE}, Verdicts <- {"keep"}

(***************************************************************************)
(* The WebSocket connection.                                               *)
(***************************************************************************)
Messages == INSTANCE WsConn WITH
    conn <- upgrade, call <- pump, wire <- frames,
    MaxCalls <- 2, MaxFrames <- 3, Ahead <- 0, Ops <- {"text", "cont", "ping"},
    Payloads <- TextPayloads, MaxMessage <- 3, Work <- 3, Scratch <- 1, Endless <- FALSE
Control == INSTANCE WsConn WITH
    conn <- upgrade, call <- pump, wire <- frames,
    MaxCalls <- 3, MaxFrames <- 2, Ahead <- 1, Ops <- {"text", "ping", "pong", "close"},
    Payloads <- BytePayloads, MaxMessage <- 2, Work <- 5, Scratch <- 1, Endless <- FALSE
Flood == INSTANCE WsConn WITH
    conn <- upgrade, call <- pump, wire <- frames,
    MaxCalls <- 2, MaxFrames <- 1, Ahead <- 1, Ops <- {"text", "binary", "cont", "ping", "close"},
    Payloads <- BytePayloads, MaxMessage <- 2, Work <- 3, Scratch <- 1, Endless <- TRUE

ASSUME NetworkConstants ==
    /\ Pool!HttpPoolConstants /\ Stream!HttpPoolConstants
    /\ Single!HttpPoolConstants /\ Park!HttpParkConstants /\ Promise!HttpParkConstants
    /\ Serve!HttpParkConstants /\ Crowd!HttpParkConstants
    /\ Messages!WsConstants /\ Control!WsConstants /\ Flood!WsConstants

(***************************************************************************)
(* Each part on its own.                                                   *)
(***************************************************************************)
NetInit ==
    /\ part \in Parts
    /\ CASE part = "stream" -> Stream!Init
         [] part = "single" -> Single!Init
         [] OTHER -> Pool!Init
    /\ Park!Init
    /\ Init
    /\ CASE part = "control" -> Control!Init [] part = "flood" -> Flood!Init [] OTHER -> Messages!Init

PoolStep ==
    /\ \/ part = "pool" /\ Pool!Next
       \/ part = "stream" /\ Stream!Next
       \/ part = "single" /\ Single!Next
    /\ UNCHANGED <<part, parkVars, vars, wsVars>>

ParkStep ==
    /\ \/ part = "park" /\ Park!Next
       \/ part = "promise" /\ Promise!Next
       \/ part = "serve" /\ Serve!ServeNext
       \/ part = "crowd" /\ Crowd!ServeNext
    /\ UNCHANGED <<part, poolVars, vars, wsVars>>

KvStep ==
    /\ part = "kv" /\ Next
    /\ UNCHANGED <<part, poolVars, parkVars, wsVars>>

WsStep ==
    /\ \/ part = "messages" /\ Messages!Next
       \/ part = "control" /\ Control!Next
       \/ part = "flood" /\ Flood!Next
    /\ UNCHANGED <<part, poolVars, parkVars, vars>>

NetNext == PoolStep \/ ParkStep \/ KvStep \/ WsStep

NetSpec == NetInit /\ [][NetNext]_netVars

\* The fairness of each part: the client's threads, the serving thread and its clients, and the
\* deadline and the local steps of a WebSocket call.
NetFairSpec ==
    /\ NetSpec
    /\ WF_poolVars(part = "single" /\ Single!Join)
    /\ \A w \in {w1, s1} : WF_poolVars(part = "single" /\ Single!Runs(w))
    /\ WF_parkVars(part = "serve" /\ Serve!ServeThread)
    /\ WF_parkVars(part = "crowd" /\ Crowd!ServeThread)
    /\ \A f \in {f1, f2, f3} : WF_parkVars(part \in {"serve", "crowd"} /\ Serve!Send(f))
    /\ WF_wsVars(part = "flood" /\ Flood!Expire)
    /\ WF_wsVars(part = "flood" /\ Flood!TimedOut)
    /\ WF_wsVars(part = "flood" /\ Flood!Local)

Symmetric == Permutations({w1, w2}) \cup Permutations({f1, f2, f3})

-----------------------------------------------------------------------------
(***************************************************************************)
(* Properties.  A part that does not run is in its initial state.          *)
(***************************************************************************)

\* The client: an open descriptor has one owner; buckets are bounded, and exist empty only while an
\* exchange is in flight; a URL gets its own answer, under its own deadline; a connection that went
\* stale in the pool never fails a request, and a request with a byte of its answer read is never
\* sent again (http_client_perform, take_idle, put_idle, get_many).
ConnectionsRight ==
    /\ [](part = "pool" => /\ Pool!TypeOK /\ Pool!OneOwner /\ Pool!EmptyBucketInFlight
                           /\ Pool!ResponseMatches /\ Pool!StaleNeverSurfaces)
    /\ [](part = "stream" => /\ Stream!OneOwner /\ Stream!ResponseMatches /\ Stream!IdleBounded
                             /\ Stream!EmptyBucketInFlight /\ Stream!DeadlineIsOwn)
    /\ [][part = "pool" => Pool!NoResend]_poolVars

\* The server: an open connection has one owner, also when contexts outlive the server; the parked set
\* is bounded; descriptor pressure spares connections whose request has arrived; and, where no reply
\* has a budget, a connection that was promised persistence stays parked (HttpServer, http_respond_impl).
ParkedRight ==
    /\ [](part = "park" => Park!TypeOK /\ Park!OneOwner /\ Park!ParkedBounded)
    /\ [](part = "promise" => Promise!PromiseKept)
    /\ [][part = "park" => Park!SparesArrived]_parkVars

\* The WebSocket connection: a message is its fragments, whole and in order, within the cap and the
\* allowance; no call leaves it usable inside a frame; every ping is answered once; the peer can parse
\* what it is sent; the descriptor is closed once (receive, send, close).
FramesRight ==
    /\ part = "messages" => /\ Messages!TypeOK /\ Messages!MessageIntact /\ Messages!InSync
                            /\ Messages!AllowanceKept
    /\ part = "control" => Control!PongsMatch /\ Control!SentWellFormed /\ Control!ClosedOnce

\* A call of the client with a deadline returns, whatever the server does and whichever connection of
\* the pool it is given (http_arm_conn_timeout on a reused connection).
CallReturns == Single!CallReturns

\* A connection waiting on the listener is admitted however busy the parked clients are, and a parked
\* client whose request has arrived is served, or loses its place to descriptor pressure
\* (http_wait_parked_or_listener; the program responds to a request before it accepts the next).
ClientsServed ==
    /\ part = "serve" => Serve!ListenerServed
    /\ part = "crowd" => Crowd!ParkedServed

\* close returns within its deadline, whatever the peer sends and for however long.
CloseReturns == Flood!CloseReturns

\* The comment on http_client_perform: the retried failure is "not a server-side effect", so the
\* server acts on a request at most once.
ActedOnce == Single!ActedOnce
=============================================================================
