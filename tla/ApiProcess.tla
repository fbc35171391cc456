----------------------------- MODULE ApiProcess -----------------------------
(***************************************************************************)
(* The API process as a whole (server.js): its connections, the requests   *)
(* on them, and the database pool, the receipt queue and the Redis client  *)
(* they share, up to the orderly stop on a signal.  A request is what its  *)
(* handler awaits, stage by stage; what it computes is in HttpApi and      *)
(* TransferService.                                                        *)
(***************************************************************************)
EXTENDS Redis, Sequences, FiniteSets

CONSTANTS Conn,         \* HTTP connections
          MaxRequests   \* bound: requests taken

ASSUME RequestsAssumption == MaxRequests \in Nat

VARIABLES conn,       \* "closed", "idle" (kept alive), "busy" (a request), or
                      \* "gone": closed by the client while its handler goes on
          asked,      \* the kind of the last request of each connection
          todo,       \* what its handler still awaits, stage by stage
          client,     \* connections whose handler holds a client of the pool
          listening,  \* whether the HTTP server accepts connections
          queueOpen, poolOpen,
          stopping,   \* shuttingDown
          stop,       \* what the shutdown call of each signal awaits
          exit,       \* "none", "clean" (0), "error" (1) or "killed"
          requests

handling == <<conn, asked, todo, client>>
resources == <<listening, queueOpen, poolOpen, stopping, stop>>
api == <<handling, resources, exit, requests>>

\* What the handler of a request awaits, stage by stage: a query; the CALL, the
\* transfer's row and the enqueue; or both probes of the health check at once.
Read == <<{"pool"}>>
Transfer == <<{"pool"}, {"pool"}, {"redis"}>>
HealthCheck == <<{"pool", "redis"}>>
Program == [read |-> Read, transfer |-> Transfer, health |-> HealthCheck]

Kind == DOMAIN Program
Running == exit = "none"

\* The requests whose client waits for the answer.
Busy == {c \in Conn : conn[c] = "busy"}

ApiInit ==
    /\ conn = [c \in Conn |-> "closed"]
    /\ asked = [c \in Conn |-> "read"]
    /\ todo = [c \in Conn |-> <<>>]
    /\ client = {}
    /\ listening = TRUE
    /\ queueOpen = TRUE /\ poolOpen = TRUE
    /\ stopping = FALSE
    /\ stop = [s \in Signal |-> "none"]
    /\ exit \in {"none", "killed"}
    /\ requests = 0

\* A request, on a new connection or on one that was kept alive.
Request(c, kind) ==
    /\ Running
    /\ conn[c] = "idle" \/ (conn[c] = "closed" /\ listening)
    /\ requests < MaxRequests
    /\ requests' = requests + 1
    /\ conn' = [conn EXCEPT ![c] = "busy"]
    /\ asked' = [asked EXCEPT ![c] = kind]
    /\ todo' = [todo EXCEPT ![c] = Program[kind]]
    /\ UNCHANGED <<client, resources, exit>>

Awaits(c, need) == todo[c] # <<>> /\ need \in Head(todo[c])

\* The await of one need is over: the stage is, when it was the last of it.
Done(c, need) ==
    todo' = [todo EXCEPT ![c] =
               IF Head(@) = {need} THEN Tail(@)
                                   ELSE <<Head(@) \ {need}>> \o Tail(@)]

\* pool.connect, also that of a pool.query: a free client, or a new one.
Connect(c) ==
    /\ Running
    /\ Awaits(c, "pool") /\ c \notin client
    /\ poolOpen /\ Cardinality(client) < PoolMax
    /\ client' = client \union {c}
    /\ UNCHANGED <<conn, asked, todo, resources, exit, requests>>

\* Mutant of QueryEnds: the client is released on success only.
QueryEndsLeaky(c) ==
    /\ Running
    /\ c \in client /\ Awaits(c, "pool")
    /\ \/ Done(c, "pool") /\ client' = client \ {c}
       \/ /\ asked[c] # "health"
          /\ todo' = [todo EXCEPT ![c] = <<>>]
          /\ UNCHANGED client
    /\ UNCHANGED <<conn, asked, resources, exit, requests>>

\* The query is answered, or fails: the client goes back either way.  A
\* failure ends the handler with an error, the health check's it only notes.
QueryEnds(c) ==
    /\ Running
    /\ c \in client
    /\ client' = client \ {c}
    /\ \/ Done(c, "pool")
       \/ /\ asked[c] # "health"
          /\ todo' = [todo EXCEPT ![c] = <<>>]
    /\ UNCHANGED <<conn, asked, resources, exit, requests>>

\* No client: none came in DB_CONNECTION_TIMEOUT_MS, the database cannot be
\* reached, or the pool is being ended.
ConnectFails(c) ==
    /\ Running
    /\ Awaits(c, "pool") /\ c \notin client
    /\ \/ asked[c] = "health" /\ Done(c, "pool")
       \/ asked[c] # "health" /\ todo' = [todo EXCEPT ![c] = <<>>]
    /\ UNCHANGED <<conn, asked, client, resources, exit, requests>>

\* PING.  With maxRetriesPerRequest null it waits while Redis is away.
Pong(c) ==
    /\ Running
    /\ asked[c] = "health" /\ Awaits(c, "redis") /\ ~redisAway
    /\ Done(c, "redis")
    /\ UNCHANGED <<conn, asked, client, resources, exit, requests>>

\* ADD: the job of the transfer's receipt is in the queue, and the enqueue over.
AddJob(c) ==
    /\ Running
    /\ asked[c] = "transfer" /\ Awaits(c, "redis") /\ ~redisAway
    /\ Done(c, "redis")
    /\ UNCHANGED <<conn, asked, client, resources, exit, requests>>

\* The enqueue of a handler that outlived the queue may be refused; the transfer
\* service logs that and goes on.
AddRefused(c) ==
    /\ Running
    /\ asked[c] = "transfer" /\ Awaits(c, "redis") /\ ~queueOpen
    /\ Done(c, "redis")
    /\ UNCHANGED <<conn, asked, client, resources, exit, requests>>

\* The response; the connection is kept alive, unless nobody is there any more.
Respond(c) ==
    /\ Running
    /\ conn[c] \in {"busy", "gone"} /\ todo[c] = <<>>
    /\ conn' = [conn EXCEPT ![c] = IF c \in Busy THEN "idle" ELSE "closed"]
    /\ UNCHANGED <<asked, todo, client, resources, exit, requests>>

\* The client, or nginx when its 60 s are over, closes the connection before the
\* answer: the handler is not told and goes on.
ClientAborts(c) ==
    /\ Running
    /\ c \in Busy
    /\ conn' = [conn EXCEPT ![c] = "gone"]
    /\ UNCHANGED <<asked, todo, client, resources, exit, requests>>

\* keepAliveTimeout, or the client closes its end between two requests.
IdleCloses(c) ==
    /\ Running
    /\ conn[c] = "idle"
    /\ conn' = [conn EXCEPT ![c] = "closed"]
    /\ UNCHANGED <<asked, todo, client, resources, exit, requests>>

\* io.close: the server stops listening and idle connections are closed.  The
\* callback waits for the connections that are busy, not for the handlers of those
\* that are gone, and for nothing if the server was closed before.
CloseServer(s) ==
    /\ stopping' = TRUE
    /\ listening' = FALSE
    /\ conn' = [c \in Conn |-> IF conn[c] = "idle" THEN "closed" ELSE conn[c]]
    /\ stop' = [stop EXCEPT ![s] = IF listening THEN "server" ELSE "queue"]

\* Mutant of Deliver: without the test of shuttingDown.
DeliverAnew(s) ==
    /\ Running
    /\ stop[s] = "none"
    /\ CloseServer(s)
    /\ UNCHANGED <<asked, todo, client, queueOpen, poolOpen, exit, requests>>

\* Mutant of Deliver: io.close is not awaited.
DeliverHastily(s) ==
    /\ Running
    /\ stop[s] = "none" /\ ~stopping
    /\ stopping' = TRUE /\ listening' = FALSE
    /\ stop' = [stop EXCEPT ![s] = "queue"]
    /\ UNCHANGED <<handling, queueOpen, poolOpen, exit, requests>>

\* SIGTERM or SIGINT: the first starts the shutdown, a second one is ignored.
Deliver(s) ==
    /\ Running
    /\ stop[s] = "none"
    /\ \/ ~stopping /\ CloseServer(s)
       \/ /\ stopping
          /\ stop' = [stop EXCEPT ![s] = "ignored"]
          /\ UNCHANGED <<conn, stopping, listening>>
    /\ UNCHANGED <<asked, todo, client, queueOpen, poolOpen, exit, requests>>

ServerClosed(s) ==
    /\ Running
    /\ stop[s] = "server"
    /\ \A c \in Conn : conn[c] \in {"closed", "gone"}
    /\ stop' = [stop EXCEPT ![s] = "queue"]
    /\ UNCHANGED <<handling, listening, queueOpen, poolOpen, stopping, exit, requests>>

\* receiptQueue.close() is over and pool.end() called, which rejects when it is
\* called again: nothing catches that, and the process dies of it.
EndPool(s) ==
    /\ Running
    /\ stop[s] = "queue"
    /\ stop' = [stop EXCEPT ![s] = "pool"]
    /\ queueOpen' = FALSE
    /\ poolOpen' = FALSE
    /\ exit' = IF poolOpen THEN exit ELSE "error"
    /\ UNCHANGED <<handling, listening, stopping, requests>>

\* Every client of the pool is back: redis.disconnect(), process.exit(0).
Exit(s) ==
    /\ Running
    /\ stop[s] = "pool" /\ client = {}
    /\ exit' = "clean"
    /\ UNCHANGED <<handling, resources, requests>>

\* SIGKILL when the grace period of the container is over, or a crash.
Kill == /\ Running
        /\ exit' = "killed"
        /\ UNCHANGED <<handling, resources, requests>>

Handle(c) == \/ Connect(c) \/ QueryEnds(c) \/ ConnectFails(c)
             \/ Pong(c) \/ AddRefused(c) \/ Respond(c) \/ IdleCloses(c)

Shutdown(s) == ServerClosed(s) \/ EndPool(s) \/ Exit(s)

\* Every step but AddJob, which is the worker's concern, too.
ApiNext == \/ \E c \in Conn : \/ Handle(c) \/ ClientAborts(c)
                            \/ \E kind \in Kind : Request(c, kind)
           \/ \E s \in Signal : Deliver(s) \/ Shutdown(s)
           \/ Kill
=============================================================================
