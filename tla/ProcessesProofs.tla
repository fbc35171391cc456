-------------------------- MODULE ProcessesProofs ---------------------------
(***************************************************************************)
(* Proofs about Processes, for any numbers of connections, requests, jobs, *)
(* recovery runs, signals and outages, with both processes up.             *)
(***************************************************************************)
EXTENDS Processes, Integers, FiniteSetTheorems, SequenceTheorems, TLAPS

Under == {"server", "queue", "pool"}

\* One signal at most has a shutdown under way.  Once that is past the closing
\* of the server no connection is left that its client did not give up, and none
\* can come any more; the pool and the queue are open until then.
ApiInv ==
    /\ exit \in {"none", "clean", "killed"}
    /\ conn \in [Conn -> {"closed", "idle", "busy", "gone"}]
    /\ stop \in [Signal -> Under \union {"none", "ignored"}]
    /\ stopping \in BOOLEAN
    /\ listening = ~stopping
    /\ ~stopping => \A s \in Signal : stop[s] = "none"
    /\ \A s, t \in Signal : stop[s] \in Under /\ stop[t] \in Under => s = t
    /\ \A s \in Signal : stop[s] \in {"queue", "pool"} => \A c \in Conn : conn[c] \in {"closed", "gone"}
    /\ (\A s \in Signal : stop[s] # "pool") => poolOpen = TRUE /\ queueOpen = TRUE

LEMMA ApiInitInvariant == ApiInit => ApiInv
  BY DEF ApiInit, ApiInv, Under

\* The steps of a handler and of a shutdown, one by one.
LEMMA HandleInvariant ==
  ASSUME ApiInv, NEW c \in Conn,
         Handle(c) \/ ClientAborts(c) \/ AddJob(c) \/ \E kind \in Kind : Request(c, kind)
  PROVE  ApiInv'
<1>1. CASE Connect(c) \/ QueryEnds(c) \/ ConnectFails(c) \/ Pong(c) \/ AddJob(c) \/ AddRefused(c)
  BY <1>1 DEF ApiInv, Connect, QueryEnds, ConnectFails, Pong, AddJob, AddRefused, resources
<1>2. CASE Respond(c) \/ ClientAborts(c)
  BY <1>2 DEF ApiInv, Respond, ClientAborts, Busy, resources
<1>3. CASE IdleCloses(c)
  BY <1>3 DEF ApiInv, IdleCloses, resources
<1>4. CASE \E kind \in Kind : Request(c, kind)
  <2> PICK kind \in Kind : Request(c, kind)
    BY <1>4
  <2>1. \A s \in Signal : stop[s] \notin {"queue", "pool"}
    BY DEF ApiInv, Request, Under
  <2> QED
    BY <2>1 DEF ApiInv, Request, resources
<1> QED
  BY <1>1, <1>2, <1>3, <1>4 DEF Handle

LEMMA DeliverInvariant ==
  ASSUME ApiInv, NEW s \in Signal, Deliver(s)
  PROVE  ApiInv'
<1>1. CASE ~stopping /\ CloseServer(s)
  <2>1. stop' = [stop EXCEPT ![s] = "server"]
    BY <1>1 DEF CloseServer, ApiInv
  <2>2. /\ conn' \in [Conn -> {"closed", "idle", "busy", "gone"}]
        /\ stopping' = TRUE /\ listening' = FALSE
        /\ UNCHANGED <<poolOpen, queueOpen, exit>>
    BY <1>1 DEF CloseServer, ApiInv, Deliver
  <2>3. \A t \in Signal : t # s => stop'[t] = "none"
    BY <1>1, <2>1 DEF ApiInv
  <2>4. stop'[s] = "server"
    BY <2>1 DEF ApiInv
  <2> QED
    BY <1>1, <2>1, <2>2, <2>3, <2>4 DEF ApiInv, Under
<1>2. CASE stopping /\ stop' = [stop EXCEPT ![s] = "ignored"]
           /\ UNCHANGED <<conn, stopping, listening>>
  BY <1>2 DEF ApiInv, Deliver, Under
<1> QED
  BY <1>1, <1>2 DEF Deliver

LEMMA ShutdownInvariant ==
  ASSUME ApiInv, NEW s \in Signal, Shutdown(s)
  PROVE  ApiInv'
<1>1. CASE ServerClosed(s)
  BY <1>1 DEF ApiInv, ServerClosed, handling, Under
<1>2. CASE EndPool(s)
  <2>1. \A t \in Signal : stop[t] # "pool"
    BY <1>2 DEF ApiInv, EndPool, Under
  <2>2. exit' = exit
    BY <1>2, <2>1 DEF ApiInv, EndPool
  <2>3. stop'[s] = "pool" /\ stop' \in [Signal -> Under \union {"none", "ignored"}]
    BY <1>2 DEF ApiInv, EndPool, Under
  <2> QED
    BY <1>2, <2>2, <2>3 DEF ApiInv, EndPool, handling, Under
<1>3. CASE Exit(s)
  BY <1>3 DEF ApiInv, Exit, handling, resources
<1> QED
  BY <1>1, <1>2, <1>3 DEF Shutdown

LEMMA ApiInvariant == Spec => []ApiInv
<1>1. Init => ApiInv
  BY ApiInitInvariant DEF Init
<1>2. ApiInv /\ [Next]_vars => ApiInv'
  <2> SUFFICES ASSUME ApiInv, [Next]_vars PROVE ApiInv'
    OBVIOUS
  <2>1. CASE ApiNext
    <3>1. CASE Kill
      BY <3>1 DEF Kill, ApiInv, handling, resources
    <3> QED
      BY <2>1, <3>1, HandleInvariant, DeliverInvariant, ShutdownInvariant DEF ApiNext
  <2>2. CASE \E c \in Conn : EnqueueReceipt(c)
    BY <2>2, HandleInvariant DEF EnqueueReceipt
  <2>3. CASE UNCHANGED api
    BY <2>3 DEF ApiInv, api, handling, resources
  <2> QED
    BY <2>1, <2>2, <2>3 DEF Next, vars
<1> QED
  BY <1>1, <1>2, PTL DEF Spec

\* The pool and the queue of the API are open as long as a client waits for its
\* answer (server.js:47-49), however many signals come and whatever the handlers
\* wait for.  Nothing is said of a handler whose client closed its connection.
THEOREM ResourcesTheorem == Spec => []ResourcesOutliveRequests
<1>1. ApiInv => ResourcesOutliveRequests
  BY DEF ApiInv, ResourcesOutliveRequests, Busy
<1> QED
  BY <1>1, ApiInvariant, PTL

\* How each step of the API looks from outside.
LEMMA ApiStutters ==
  UNCHANGED <<exit, stopping, conn>> => UNCHANGED ApiPromise!vars
  BY DEF ApiPromise!vars, Phase, Busy

LEMMA HandleImplements ==
  ASSUME ApiInv, NEW c \in Conn,
         Handle(c) \/ ClientAborts(c) \/ AddJob(c) \/ \E kind \in Kind : Request(c, kind)
  PROVE  [ApiPromise!Next]_ApiPromise!vars
<1>1. exit = "none" /\ UNCHANGED <<exit, stopping>>
  BY DEF Handle, Connect, QueryEnds, ConnectFails, Pong, AddJob, AddRefused, Respond,
         ClientAborts, IdleCloses, Request, Running, resources
<1>2. UNCHANGED Phase(exit, stopping) /\ Phase(exit, stopping) \in {"running", "draining"}
  BY <1>1 DEF Phase, ApiInv
<1>3. CASE Busy' \subseteq Busy
  BY <1>2, <1>3 DEF ApiPromise!Finish, ApiPromise!Next
<1>4. CASE \E kind \in Kind : Request(c, kind)
  <2>1. Busy' \in SUBSET (Busy \union Conn) /\ Busy' \in SUBSET Conn
    BY DEF Busy
  <2> QED
    BY <1>2, <2>1 DEF ApiPromise!Start, ApiPromise!Next
<1>5. CASE Handle(c) \/ ClientAborts(c) \/ AddJob(c)
  <2>1. Busy' \subseteq Busy
    BY <1>5 DEF ApiInv, Busy, Handle, Connect, QueryEnds, ConnectFails, Pong, AddJob,
                AddRefused, Respond, ClientAborts, IdleCloses
  <2> QED
    BY <1>3, <2>1
<1> QED
  BY <1>4, <1>5

LEMMA DeliverImplements ==
  ASSUME ApiInv, NEW s \in Signal, Deliver(s)
  PROVE  [ApiPromise!Next]_ApiPromise!vars
<1>1. exit = "none" /\ UNCHANGED exit
  BY DEF Deliver, Running
<1>2. CASE ~stopping /\ CloseServer(s)
  <2>1. Phase(exit, stopping) = "running" /\ Phase(exit, stopping)' = "draining"
    BY <1>1, <1>2 DEF Phase, CloseServer
  <2>2. Busy' = Busy
    BY <1>2 DEF CloseServer, Busy, ApiInv
  <2> QED
    BY <2>1, <2>2 DEF ApiPromise!AskToStop, ApiPromise!Next
<1>3. CASE UNCHANGED <<conn, stopping>>
  BY <1>1, <1>3, ApiStutters
<1> QED
  BY <1>2, <1>3 DEF Deliver

LEMMA ShutdownImplements ==
  ASSUME ApiInv, NEW s \in Signal, Shutdown(s)
  PROVE  [ApiPromise!Next]_ApiPromise!vars
<1>1. CASE ServerClosed(s)
  BY <1>1, ApiStutters DEF ServerClosed, handling
<1>2. CASE EndPool(s)
  <2>1. \A t \in Signal : stop[t] # "pool"
    BY <1>2 DEF ApiInv, EndPool, Under
  <2> QED
    BY <1>2, <2>1, ApiStutters DEF ApiInv, EndPool, handling
<1>3. CASE Exit(s)
  <2>1. stopping /\ Busy = {} /\ Busy' = {} /\ UNCHANGED stopping
    BY <1>3 DEF ApiInv, Exit, Busy, handling, resources
  <2>2. Phase(exit, stopping) = "draining" /\ Phase(exit, stopping)' = "stopped"
    BY <1>3, <2>1 DEF Exit, Running, Phase
  <2> QED
    BY <2>1, <2>2 DEF ApiPromise!Stop, ApiPromise!Next
<1> QED
  BY <1>1, <1>2, <1>3 DEF Shutdown

\* The API keeps what GracefulStop promises: it ends by itself only when every
\* request was answered or given up by its client, and with no error.
THEOREM ApiStopsTheorem == Spec => ApiStopsGracefully
<1>1. Init => ApiPromise!Init
  BY DEF Init, ApiInit, ApiPromise!Init, Phase, Busy
<1>2. ApiInv /\ [Next]_vars => [ApiPromise!Next]_ApiPromise!vars
  <2> SUFFICES ASSUME ApiInv, [Next]_vars PROVE [ApiPromise!Next]_ApiPromise!vars
    OBVIOUS
  <2>1. CASE ApiNext
    <3>1. CASE Kill
      <4>1. /\ Phase(exit, stopping) \in {"running", "draining"}
            /\ Phase(exit, stopping)' = "killed" /\ Busy' = Busy
        BY <3>1 DEF Kill, Running, ApiInv, Phase, Busy, handling, resources
      <4> QED
        BY <4>1 DEF ApiPromise!Kill, ApiPromise!Next
    <3> QED
      BY <2>1, <3>1, HandleImplements, DeliverImplements, ShutdownImplements DEF ApiNext
  <2>2. CASE \E c \in Conn : EnqueueReceipt(c)
    BY <2>2, HandleImplements DEF EnqueueReceipt
  <2>3. CASE UNCHANGED api
    BY <2>3, ApiStutters DEF api, handling, resources
  <2> QED
    BY <2>1, <2>2, <2>3 DEF Next, vars
<1> QED
  BY <1>1, <1>2, ApiInvariant, PTL DEF Spec, ApiStopsGracefully, ApiPromise!Spec

-----------------------------------------------------------------------------
\* The worker takes jobs between its boot and a signal; a shutdown past
\* worker.close() has none active.
WorkerInv ==
    /\ boot \in {"bucket", "recovery", "up"}
    /\ job \in [Job -> {"none", "waiting", "active", "completed", "failed"}]
    /\ verdict \in [Job -> {"none", "queued", "sent", "refused", "answered"}]
    /\ workerStop \in [Signal -> {"none", "ignored", "jobs", "queue", "pool"}]
    /\ workerStopping \in BOOLEAN
    /\ workerExit \in {"none", "clean", "error", "killed"}
    /\ workerStopping => boot = "up"
    /\ ~workerStopping => \A s \in Signal : workerStop[s] \in {"none", "ignored"}
    /\ boot = "bucket" => \A j \in Job : job[j] # "active" /\ verdict[j] # "sent"
    /\ boot = "bucket" => \A j \in Job : verdict[j] # "queued"
    /\ \A s \in Signal : workerStop[s] \in {"queue", "pool"} => \A j \in Job : job[j] # "active"

LEMMA WorkerInvariant == Spec => []WorkerInv
<1>1. Init => WorkerInv
  BY DEF Init, WorkerInit, WorkerInv
<1>2. WorkerInv /\ [Next]_vars => WorkerInv'
  <2> SUFFICES ASSUME WorkerInv, [Next]_vars PROVE WorkerInv'
    OBVIOUS
  <2>1. CASE EnsureBucket \/ BucketFails \/ KillWorker
    BY <2>1 DEF WorkerInv, EnsureBucket, BucketFails, KillWorker, work
  <2>2. ASSUME NEW r \in Run, StartRecovery(r) \/ RecoveryStep(r) PROVE WorkerInv'
    BY <2>2 DEF WorkerInv, StartRecovery, RecoveryStep
  <2>3. ASSUME NEW j \in Job, Take(j) \/ Enqueue(j) PROVE WorkerInv'
    BY <2>3 DEF WorkerInv, Take, Enqueue
  <2>4. ASSUME NEW j \in Job, JobStep(j) PROVE WorkerInv'
    <3>1. CASE Settle(j)
      BY <3>1 DEF WorkerInv, Settle
    <3>2. CASE FailFinally(j)
      BY <3>2 DEF WorkerInv, FailFinally, SendVerdict
    <3>3. CASE Dequeue(j) \/ VerdictEnds(j)
      BY <3>3 DEF WorkerInv, Dequeue, VerdictEnds
    <3> QED
      BY <2>4, <3>1, <3>2, <3>3 DEF JobStep
  <2>5. ASSUME NEW s \in Signal, DeliverWorker(s) PROVE WorkerInv'
    <3>1. CASE boot = "up"
      BY <2>5, <3>1 DEF WorkerInv, DeliverWorker, work
    <3>2. CASE boot # "up"
      BY <2>5, <3>2 DEF WorkerInv, DeliverWorker, work
    <3> QED
      BY <3>1, <3>2
  <2>6. ASSUME NEW s \in Signal, ShutdownWorker(s) PROVE WorkerInv'
    BY <2>6 DEF WorkerInv, ShutdownWorker, JobsOver, EndWorkerPool, ExitWorker, Active, work
  <2>7. CASE UNCHANGED worker
    BY <2>7 DEF WorkerInv, worker, work
  <2> QED
    BY <2>1, <2>2, <2>3, <2>4, <2>5, <2>6, <2>7 DEF Next, WorkerNext, EnqueueReceipt, vars
<1> QED
  BY <1>1, <1>2, PTL DEF Spec

\* What the worker has under way.
UnderWay == ({"job"} \X Active) \union ({"verdict"} \X Sending)

LEMMA WorkerStutters ==
  UNCHANGED <<workerExit, workerStopping, Active, Sending>> => UNCHANGED WorkerPromise!vars
  BY DEF WorkerPromise!vars, Phase

\* A step of the running worker that asks for no stop.
LEMMA RunningPhase ==
  ASSUME WorkerInv, WorkerRuns, UNCHANGED <<workerExit, workerStopping>>
  PROVE  /\ Phase(workerExit, workerStopping) = IF workerStopping THEN "draining" ELSE "running"
         /\ UNCHANGED Phase(workerExit, workerStopping)
  BY DEF WorkerRuns, Phase

LEMMA LessIsFinish ==
  ASSUME WorkerInv, WorkerRuns, UNCHANGED <<workerExit, workerStopping>>,
         Active' \subseteq Active, Sending' \subseteq Sending
  PROVE  WorkerPromise!Next
<1>1. UnderWay' \in SUBSET UnderWay
  BY DEF UnderWay
<1> QED
  BY <1>1, RunningPhase DEF WorkerPromise!Finish, WorkerPromise!Next, UnderWay

\* More verdicts and no more jobs: that may also start while it stops.
LEMMA VerdictMayStart ==
  ASSUME WorkerInv, WorkerRuns, UNCHANGED <<workerExit, workerStopping>>,
         Active' \subseteq Active
  PROVE  WorkerPromise!Next
<1>1. UnderWay' \in SUBSET ({"job", "verdict"} \X Job)
  BY DEF UnderWay, Active, Sending
<1>2. UnderWay' \in SUBSET (UnderWay \union ({"verdict"} \X Job))
  BY DEF UnderWay, Sending
<1> QED
  BY <1>1, <1>2, RunningPhase DEF WorkerPromise!Start, WorkerPromise!Next, UnderWay

LEMMA JobImplements ==
  ASSUME WorkerInv, NEW j \in Job, Take(j) \/ JobStep(j)
  PROVE  WorkerPromise!Next
<1>1. WorkerRuns /\ UNCHANGED <<workerExit, workerStopping>>
  BY DEF Take, JobStep, Settle, FailFinally, Dequeue, VerdictEnds
<1>2. CASE Take(j)
  <2>1. UnderWay' \in SUBSET ({"job", "verdict"} \X Job)
    BY DEF UnderWay, Active, Sending
  <2>2. ~workerStopping
    BY <1>2 DEF Take
  <2> QED
    BY <1>1, <2>1, <2>2, RunningPhase DEF WorkerPromise!Start, WorkerPromise!Next, UnderWay
<1>3. CASE Settle(j) \/ VerdictEnds(j)
  <2>1. Active' \subseteq Active /\ Sending' \subseteq Sending
    BY <1>3 DEF WorkerInv, Settle, VerdictEnds, Active, Sending
  <2> QED
    BY <1>1, <2>1, LessIsFinish
<1>4. CASE FailFinally(j) \/ Dequeue(j)
  <2>1. Active' \subseteq Active
    BY <1>4 DEF WorkerInv, FailFinally, Dequeue, Active
  <2> QED
    BY <1>1, <2>1, VerdictMayStart
<1> QED
  BY <1>2, <1>3, <1>4 DEF JobStep

LEMMA WorkerShutdownImplements ==
  ASSUME WorkerInv, NEW s \in Signal, DeliverWorker(s) \/ ShutdownWorker(s)
  PROVE  [WorkerPromise!Next]_WorkerPromise!vars
<1>1. WorkerRuns /\ UNCHANGED <<Active, Sending>>
  BY DEF DeliverWorker, ShutdownWorker, JobsOver, EndWorkerPool, ExitWorker, work, Active, Sending
<1>2. CASE DeliverWorker(s) /\ boot = "up" /\ ~workerStopping
  <2>1. /\ Phase(workerExit, workerStopping) = "running"
        /\ Phase(workerExit, workerStopping)' = "draining"
    BY <1>1, <1>2 DEF DeliverWorker, WorkerRuns, Phase
  <2> QED
    BY <1>1, <2>1 DEF WorkerPromise!AskToStop, WorkerPromise!Next
<1>3. CASE DeliverWorker(s) /\ boot # "up" /\ workerExit' = "killed"
  <2>1. /\ Phase(workerExit, workerStopping) \in {"running", "draining"}
        /\ Phase(workerExit, workerStopping)' = "killed"
    BY <1>1, <1>3 DEF WorkerRuns, Phase
  <2> QED
    BY <1>1, <2>1 DEF WorkerPromise!Kill, WorkerPromise!Next
<1>4. CASE ExitWorker(s)
  <2>1. Sending = {}
    <3>1. IsFiniteSet(Sending) /\ IsFiniteSet(Querying)
      BY FiniteAssumption, FS_Subset DEF Sending, Querying
    <3>2. Cardinality(Sending) \in Nat /\ Cardinality(Querying) \in Nat
      BY <3>1, FS_CardinalityType
    <3>3. Cardinality(Sending) = 0
      BY <1>4, <3>2 DEF ExitWorker, Clients
    <3> QED
      BY <3>1, <3>3, FS_EmptySet
  <2>2. workerStopping /\ Active = {} /\ UNCHANGED workerStopping
    BY <1>4 DEF WorkerInv, ExitWorker, Active
  <2>3. /\ Phase(workerExit, workerStopping) = "draining"
        /\ Phase(workerExit, workerStopping)' = "stopped"
    BY <1>1, <1>4, <2>2 DEF ExitWorker, WorkerRuns, Phase
  <2>4. UnderWay = {} /\ UNCHANGED UnderWay
    BY <1>1, <2>1, <2>2 DEF UnderWay
  <2> QED
    BY <2>3, <2>4 DEF WorkerPromise!Stop, WorkerPromise!Next, UnderWay
<1>5. CASE UNCHANGED <<workerExit, workerStopping>>
  BY <1>1, <1>5, WorkerStutters
<1>6. QED
  BY <1>1, <1>2, <1>3, <1>4, <1>5
     DEF WorkerInv, WorkerRuns, DeliverWorker, ShutdownWorker, JobsOver, EndWorkerPool

\* The worker keeps what GracefulStop promises: asked to stop it takes no job,
\* and it ends by itself only when no job is active and no UPDATE of a failed
\* receipt is on its way (worker.js:54-59).  An UPDATE that still waits for a
\* client when the pool is ended is dropped.
THEOREM WorkerStopsTheorem == Spec => WorkerStopsGracefully
<1>1. Init => WorkerPromise!Init
  BY DEF Init, WorkerInit, WorkerPromise!Init, Phase, Active, Sending
<1>2. WorkerInv /\ [Next]_vars => [WorkerPromise!Next]_WorkerPromise!vars
  <2> SUFFICES ASSUME WorkerInv, [Next]_vars PROVE [WorkerPromise!Next]_WorkerPromise!vars
    OBVIOUS
  <2>1. CASE EnsureBucket \/ \E r \in Run : StartRecovery(r) \/ RecoveryStep(r)
    BY <2>1, WorkerStutters DEF EnsureBucket, StartRecovery, RecoveryStep, Active, Sending
  <2>2. CASE BucketFails
    <3>1. /\ Phase(workerExit, workerStopping) = "running"
          /\ Phase(workerExit, workerStopping)' = "failed"
      BY <2>2 DEF WorkerInv, BucketFails, WorkerRuns, Phase
    <3>2. UnderWay = {} /\ UNCHANGED UnderWay
      BY <2>2 DEF WorkerInv, BucketFails, UnderWay, Active, Sending, work
    <3> QED
      BY <3>1, <3>2 DEF WorkerPromise!FailToStart, WorkerPromise!Next, UnderWay
  <2>3. CASE KillWorker
    <3>1. /\ Phase(workerExit, workerStopping) \in {"running", "draining"}
          /\ Phase(workerExit, workerStopping)' = "killed"
      BY <2>3 DEF KillWorker, WorkerRuns, Phase
    <3>2. UNCHANGED UnderWay
      BY <2>3 DEF KillWorker, UnderWay, Active, Sending, work
    <3> QED
      BY <3>1, <3>2 DEF WorkerPromise!Kill, WorkerPromise!Next, UnderWay
  <2>4. CASE \E c \in Conn : EnqueueReceipt(c)
    <3>1. UNCHANGED <<workerExit, workerStopping, Active, Sending>>
      BY <2>4 DEF WorkerInv, EnqueueReceipt, Enqueue, Active, Sending
    <3> QED
      BY <3>1, WorkerStutters
  <2>5. CASE UNCHANGED worker
    BY <2>5, WorkerStutters DEF worker, work, Active, Sending
  <2> QED
    BY <2>1, <2>2, <2>3, <2>4, <2>5, JobImplements, WorkerShutdownImplements
       DEF Next, WorkerNext, vars
<1> QED
  BY <1>1, <1>2, WorkerInvariant, PTL DEF Spec, WorkerStopsGracefully, WorkerPromise!Spec
-----------------------------------------------------------------------------
(* The end of the API: what ApiShutdownEnds rests on besides fairness.      *)

Stage == (SUBSET {"pool", "redis"}) \ {{}}

\* A handler awaits something only until it has responded, Redis only in a
\* transfer or a health check, and holds a client only while its query is
\* under way.  A shutdown that has begun is under way until the process ends.
HandlerInv ==
    /\ todo \in [Conn -> Seq(Stage)] /\ asked \in [Conn -> Kind]
    /\ \A c \in Conn :
          /\ Len(todo[c]) <= 3
          /\ todo[c] # <<>> => conn[c] \in {"busy", "gone"}
          /\ \A i \in DOMAIN todo[c] : "redis" \in todo[c][i] => asked[c] \in {"health", "transfer"}
    /\ \A c \in client : c \in Conn /\ Awaits(c, "pool")
    /\ Running /\ stopping => \E s \in Signal : stop[s] \in Under

\* Something a connection does next without waiting for another connection or
\* for Redis: its client's query can end, or the pool refuse it one in time.
MovesOn(c) ==
    \/ conn[c] = "idle" \/ (conn[c] \in {"busy", "gone"} /\ todo[c] = <<>>)
    \/ Awaits(c, "pool")
    \/ Awaits(c, "redis") /\ asked[c] \in {"health", "transfer"} /\ ~redisAway

\* An API that was asked to stop has a step of its shutdown or of a connection to
\* take, unless it waits for Redis: nobody holds a client of the pool for ever.
ApiGoesOn ==
    Running /\ stopping /\ ~redisAway =>
       \/ \E s \in Signal : \/ stop[s] = "server" /\ \A c \in Conn : conn[c] \in {"closed", "gone"}
                            \/ stop[s] = "queue"
                            \/ stop[s] = "pool" /\ client = {}
       \/ \E c \in Conn : MovesOn(c)

ConnLeft(state) == IF state = "busy" THEN 2 ELSE IF state \in {"idle", "gone"} THEN 1 ELSE 0

\* What a connection has left: the awaits of its handler, its response, its end.
HandlerLeft(c) ==
    4 * Len(todo[c])
       + (IF Awaits(c, "pool") THEN 2 ELSE 0) + (IF Awaits(c, "redis") THEN 1 ELSE 0)
       - (IF c \in client THEN 1 ELSE 0)
       + ConnLeft(conn[c])

\* A connection gets nearer to its end with every step of its own, and only a
\* request on it takes it further away.
HandlersShorten ==
    \A c \in Conn :
       /\ Handle(c) \/ EnqueueReceipt(c) => HandlerLeft(c)' < HandlerLeft(c)
       /\ (\A kind \in Kind : ~Request(c, kind)) => HandlerLeft(c)' <= HandlerLeft(c)

\* The handler of connection c has awaited one of the needs of its stage.
LEMMA StageDone ==
  ASSUME todo \in [Conn -> Seq(Stage)], NEW c \in Conn, NEW need \in {"pool", "redis"},
         Awaits(c, need), Done(c, need)
  PROVE  /\ todo' \in [Conn -> Seq(Stage)]
         /\ \A d \in Conn \ {c} : todo'[d] = todo[d]
         /\ \/ Len(todo'[c]) = Len(todo[c]) - 1 /\ Head(todo[c]) = {need}
            \/ /\ Len(todo'[c]) = Len(todo[c]) /\ todo'[c] # <<>>
               /\ Head(todo'[c]) = Head(todo[c]) \ {need}
         /\ \A i \in DOMAIN todo'[c] : \E k \in DOMAIN todo[c] : todo'[c][i] \subseteq todo[c][k]
<1> DEFINE q == todo[c]
<1>1. q \in Seq(Stage) /\ q # <<>> /\ need \in Head(q)
  BY DEF Awaits
<1>2. Head(q) \in Stage /\ Tail(q) \in Seq(Stage) /\ Len(Tail(q)) = Len(q) - 1
        /\ Head(q) = q[1] /\ 1 \in DOMAIN q
        /\ \A i \in 1 .. Len(q) - 1 : Tail(q)[i] = q[i + 1] /\ i + 1 \in DOMAIN q
  BY <1>1, HeadTailProperties, LenProperties
<1>3. \A d \in Conn \ {c} : todo'[d] = todo[d]
  BY DEF Done
<1>4. CASE Head(q) = {need}
  <2>1. todo'[c] = Tail(q) /\ todo' \in [Conn -> Seq(Stage)]
    BY <1>2, <1>4 DEF Done
  <2>2. DOMAIN todo'[c] = 1 .. Len(q) - 1
    BY <1>2, <2>1, LenProperties
  <2> QED
    BY <1>2, <1>3, <1>4, <2>1, <2>2
<1>5. CASE Head(q) # {need}
  <2> DEFINE h == Head(q) \ {need}
             r == <<h>> \o Tail(q)
  <2>1. h \in Stage
    BY <1>1, <1>2, <1>5 DEF Stage
  <2>2. todo'[c] = r
    BY <1>5 DEF Done
  <2>3. <<h>> \in Seq(Stage) /\ Len(<<h>>) = 1 /\ <<h>>[1] = h
    BY <2>1
  <2> HIDE DEF h
  <2>4. /\ r \in Seq(Stage) /\ Len(r) = Len(q)
        /\ r[1] = h
        /\ \A i \in 2 .. Len(q) : r[i] = Tail(q)[i - 1]
    BY <1>1, <1>2, <2>3, ConcatProperties
  <2> HIDE DEF r
  <2>5. r # <<>> /\ Head(r) = h /\ DOMAIN r = 1 .. Len(q)
    BY <1>1, <1>2, <2>4, HeadTailProperties, LenProperties
  <2>6. todo' \in [Conn -> Seq(Stage)]
    BY <1>5, <2>2, <2>4 DEF Done, r, h
  <2>7. ASSUME NEW i \in DOMAIN r PROVE \E k \in DOMAIN q : r[i] \subseteq q[k]
    <3>1. CASE i = 1
      BY <1>2, <2>4, <3>1 DEF h
    <3>2. CASE i \in 2 .. Len(q)
      <4>1. i - 1 \in 1 .. Len(q) - 1 /\ (i - 1) + 1 = i
        BY <1>1, <3>2
      <4> QED
        BY <1>2, <2>4, <3>2, <4>1
    <3> QED
      BY <1>1, <2>5, <3>1, <3>2
  <2>8. Head(todo'[c]) = Head(todo[c]) \ {need}
    BY <2>2, <2>5 DEF h
  <2> QED
    BY <1>3, <2>2, <2>4, <2>5, <2>6, <2>7, <2>8
<1> QED
  BY <1>4, <1>5

LEMMA ProgramStages ==
  ASSUME NEW kind \in Kind
  PROVE  /\ Program[kind] \in Seq(Stage) /\ Len(Program[kind]) <= 3
         /\ \A i \in DOMAIN Program[kind] :
               "redis" \in Program[kind][i] => kind \in {"health", "transfer"}
<1>1. {"pool"} \in Stage /\ {"redis"} \in Stage /\ {"pool", "redis"} \in Stage
  <2>1. "pool" \in {"pool"} /\ "redis" \in {"redis"} /\ "pool" \in {"pool", "redis"}
    OBVIOUS
  <2> QED
    BY <2>1, Zenon DEF Stage
<1>2. CASE kind = "read"
  <2>1. Program[kind] = <<{"pool"}>>
    BY <1>2 DEF Program, Read
  <2> QED
    BY <1>1, <2>1
<1>3. CASE kind = "transfer"
  <2>1. Program[kind] = <<{"pool"}, {"pool"}, {"redis"}>>
    BY <1>3 DEF Program, Transfer
  <2> QED
    BY <1>1, <1>3, <2>1
<1>4. CASE kind = "health"
  <2>1. Program[kind] = <<{"pool", "redis"}>>
    BY <1>4 DEF Program, HealthCheck
  <2> QED
    BY <1>1, <1>4, <2>1
<1>5. kind \in {"read", "transfer", "health"}
  BY DEF Kind, Program
<1> QED
  BY <1>2, <1>3, <1>4, <1>5

LEMMA HandlerLeftBounds ==
  ASSUME HandlerInv, NEW c \in Conn
  PROVE  HandlerLeft(c) \in 0 .. 17
<1>1. Len(todo[c]) \in 0 .. 3
  <2>1. todo[c] \in Seq(Stage) /\ Len(todo[c]) <= 3
    BY DEF HandlerInv
  <2> DEFINE n == Len(todo[c])
  <2>2. n \in Nat /\ n <= 3
    BY <2>1, LenProperties
  <2> HIDE DEF n
  <2>3. n \in 0 .. 3
    BY <2>2
  <2> QED
    BY <2>3 DEF n
<1>2. Awaits(c, "pool") \/ Awaits(c, "redis") => Len(todo[c]) # 0
  BY EmptySeq DEF HandlerInv, Awaits
<1>3. c \in client => Awaits(c, "pool")
  BY DEF HandlerInv
<1> DEFINE n == Len(todo[c])
<1>4. n \in 0 .. 3 /\ (Awaits(c, "pool") \/ Awaits(c, "redis") => n # 0)
  BY <1>1, <1>2
<1> DEFINE p == IF Awaits(c, "pool") THEN 2 ELSE 0
           r == IF Awaits(c, "redis") THEN 1 ELSE 0
           k == IF c \in client THEN 1 ELSE 0
           w == ConnLeft(conn[c])
<1>5. HandlerLeft(c) = 4 * n + p + r - k + w
  BY DEF HandlerLeft
<1>6. /\ p \in {0, 2} /\ r \in {0, 1} /\ k \in {0, 1} /\ w \in {0, 1, 2}
      /\ (n = 0 => p = 0 /\ r = 0) /\ (k = 1 => p = 2)
  BY <1>3, <1>4 DEF ConnLeft
<1>7. n \in 0 .. 3
  BY <1>4
<1> HIDE DEF n, p, r, k, w
<1> QED
  BY <1>5, <1>6, <1>7

LEMMA HandlerLeftNext ==
  ASSUME NEW c \in Conn, HandlerInv'
  PROVE  HandlerLeft(c)' \in Int
<1> DEFINE m == Len(todo'[c])
<1>1. m \in Nat
  BY LenProperties DEF HandlerInv
<1>2. HandlerLeft(c)' = 4 * m
        + (IF Awaits(c, "pool")' THEN 2 ELSE 0) + (IF Awaits(c, "redis")' THEN 1 ELSE 0)
        - (IF c \in client' THEN 1 ELSE 0)
        + ConnLeft(conn'[c])
  BY DEF HandlerLeft, ConnLeft
<1> HIDE DEF m
<1> QED
  BY <1>1, <1>2 DEF ConnLeft

\* The other connections are as they were.
LEMMA OthersKeep ==
  ASSUME HandlerInv, NEW d \in Conn, todo'[d] = todo[d], conn'[d] = conn[d], asked'[d] = asked[d],
         d \in client' <=> d \in client
  PROVE  HandlerLeft(d)' = HandlerLeft(d)
  BY DEF HandlerLeft, ConnLeft, Awaits

\* What an await of connection c that is over leaves, its client given back when it
\* was a query.
LEMMA AwaitEnds ==
  ASSUME ApiInv, HandlerInv, NEW c \in Conn, NEW need \in {"pool", "redis"},
         Awaits(c, need), Done(c, need),
         client' = IF need = "pool" THEN client \ {c} ELSE client,
         UNCHANGED <<conn, asked, resources, exit>>
  PROVE  /\ HandlerInv'
         /\ HandlerLeft(c)' < HandlerLeft(c)
         /\ \A d \in Conn \ {c} : HandlerLeft(d)' = HandlerLeft(d)
<1>1. /\ todo' \in [Conn -> Seq(Stage)]
      /\ \A d \in Conn \ {c} : todo'[d] = todo[d]
      /\ \/ Len(todo'[c]) = Len(todo[c]) - 1 /\ Head(todo[c]) = {need}
         \/ /\ Len(todo'[c]) = Len(todo[c]) /\ todo'[c] # <<>>
            /\ Head(todo'[c]) = Head(todo[c]) \ {need}
      /\ \A i \in DOMAIN todo'[c] : \E k \in DOMAIN todo[c] : todo'[c][i] \subseteq todo[c][k]
  BY StageDone DEF HandlerInv
<1> DEFINE n == Len(todo[c])
           m == Len(todo'[c])
<1>2. n \in 1 .. 3 /\ m <= 3 /\ conn[c] \in {"busy", "gone"} /\ (m = n - 1 \/ m = n)
  <2>1. n \in Nat /\ n # 0 /\ n <= 3 /\ conn[c] \in {"busy", "gone"}
    BY EmptySeq, LenProperties DEF HandlerInv, Awaits
  <2>2. m = n - 1 \/ m = n
    BY <1>1
  <2> HIDE DEF n, m
  <2> QED
    BY <2>1, <2>2
<1>3. \A d \in client' : d \in Conn /\ Awaits(d, "pool")'
  <2> SUFFICES ASSUME NEW d \in client' PROVE d \in Conn /\ Awaits(d, "pool")'
    OBVIOUS
  <2>1. d \in client /\ d \in Conn /\ Awaits(d, "pool") /\ (need = "pool" => d # c)
    BY DEF HandlerInv
  <2>2. CASE d # c
    BY <1>1, <2>1, <2>2 DEF Awaits
  <2>3. CASE d = c
    BY <1>1, <2>1, <2>3 DEF Awaits
  <2> QED
    BY <2>2, <2>3
<1>4. \A d \in Conn : /\ Len(todo'[d]) <= 3
                      /\ todo'[d] # <<>> => conn[d] \in {"busy", "gone"}
                      /\ \A i \in DOMAIN todo'[d] :
                            "redis" \in todo'[d][i] => asked[d] \in {"health", "transfer"}
  <2> TAKE d \in Conn
  <2>1. CASE d # c
    BY <1>1, <2>1 DEF HandlerInv
  <2>2. CASE d = c
    <3>1. \A i \in DOMAIN todo'[c] : "redis" \in todo'[c][i] => asked[c] \in {"health", "transfer"}
      BY <1>1 DEF HandlerInv
    <3> QED
      BY <1>2, <2>2, <3>1
  <2> QED
    BY <2>1, <2>2
<1>5. HandlerInv'
  BY <1>1, <1>3, <1>4 DEF HandlerInv, resources, Running
<1>6. HandlerLeft(c)' < HandlerLeft(c)
  <2> DEFINE w == ConnLeft(conn[c])
  <2>1. /\ HandlerLeft(c) = 4 * n + (IF Awaits(c, "pool") THEN 2 ELSE 0)
             + (IF Awaits(c, "redis") THEN 1 ELSE 0) - (IF c \in client THEN 1 ELSE 0) + w
        /\ HandlerLeft(c)' = 4 * m + (IF Awaits(c, "pool")' THEN 2 ELSE 0)
             + (IF Awaits(c, "redis")' THEN 1 ELSE 0) - (IF c \in client' THEN 1 ELSE 0) + w
        /\ w \in {1, 2}
    BY <1>2 DEF HandlerLeft, ConnLeft
  <2> HIDE DEF w
  <2>2. CASE m = n - 1 /\ Head(todo[c]) = {need}
    <3>1. need = "redis" => c \notin client
      BY <2>2 DEF HandlerInv, Awaits
    <3>2. Awaits(c, need)
      OBVIOUS
    <3> HIDE DEF n, m
    <3> QED
      BY <1>2, <2>1, <2>2, <3>1, <3>2
  <2>3. CASE m = n /\ todo'[c] # <<>> /\ Head(todo'[c]) = Head(todo[c]) \ {need}
    <3>1. /\ ~Awaits(c, need)'
          /\ \A other \in {"pool", "redis"} \ {need} : Awaits(c, other)' <=> Awaits(c, other)
      BY <2>3 DEF Awaits
    <3>2. need = "redis" => (c \in client' <=> c \in client)
      OBVIOUS
    <3>3. Awaits(c, need)
      OBVIOUS
    <3> HIDE DEF n, m
    <3>4. CASE need = "pool"
      BY <1>2, <2>1, <2>3, <3>1, <3>3, <3>4
    <3>5. CASE need = "redis"
      BY <1>2, <2>1, <2>3, <3>1, <3>2, <3>3, <3>5
    <3> QED
      BY <3>4, <3>5
  <2> QED
    BY <1>1, <2>2, <2>3
<1>7. \A d \in Conn \ {c} : HandlerLeft(d)' = HandlerLeft(d)
  BY <1>1, OthersKeep
<1> QED
  BY <1>5, <1>6, <1>7

\* A handler that a query failed, or that got no client, awaits nothing more.
LEMMA HandlerGivesUp ==
  ASSUME ApiInv, HandlerInv, NEW c \in Conn, Awaits(c, "pool"),
         todo' = [todo EXCEPT ![c] = <<>>], client' = client \ {c},
         UNCHANGED <<conn, asked, resources, exit>>
  PROVE  /\ HandlerInv'
         /\ HandlerLeft(c)' < HandlerLeft(c)
         /\ \A d \in Conn \ {c} : HandlerLeft(d)' = HandlerLeft(d)
<1>1. /\ todo' \in [Conn -> Seq(Stage)] /\ todo'[c] = <<>> /\ Len(todo'[c]) = 0
      /\ \A d \in Conn \ {c} : todo'[d] = todo[d]
  BY EmptySeq DEF HandlerInv
<1>2. Len(todo[c]) \in 1 .. 3 /\ conn[c] \in {"busy", "gone"}
  <2>1. todo[c] \in Seq(Stage) /\ todo[c] # <<>> /\ Len(todo[c]) <= 3 /\ conn[c] \in {"busy", "gone"}
    BY DEF HandlerInv, Awaits
  <2> DEFINE n == Len(todo[c])
  <2>2. n \in Nat \ {0} /\ n <= 3
    BY <2>1, EmptySeq
  <2> HIDE DEF n
  <2>3. n \in 1 .. 3
    BY <2>2
  <2> QED
    BY <2>1, <2>3 DEF n
<1>3. \A d \in client' : d \in Conn /\ Awaits(d, "pool")'
  BY <1>1 DEF HandlerInv, Awaits
<1>4. HandlerInv'
  BY <1>1, <1>3 DEF HandlerInv, resources, Running
<1>5. HandlerLeft(c)' < HandlerLeft(c)
  <2>1. ~Awaits(c, "pool")' /\ ~Awaits(c, "redis")'
    BY <1>1 DEF Awaits
  <2> QED
    BY <1>1, <1>2, <2>1 DEF HandlerLeft, ConnLeft
<1>6. \A d \in Conn \ {c} : HandlerLeft(d)' = HandlerLeft(d)
  BY <1>1, OthersKeep
<1> QED
  BY <1>4, <1>5, <1>6

LEMMA HandlerStep ==
  ASSUME ApiInv, HandlerInv, NEW c \in Conn, Handle(c) \/ AddJob(c)
  PROVE  /\ HandlerInv'
         /\ HandlerLeft(c)' < HandlerLeft(c)
         /\ \A d \in Conn \ {c} : HandlerLeft(d)' = HandlerLeft(d)
<1>1. CASE Connect(c)
  <2>1. HandlerInv'
    BY <1>1 DEF HandlerInv, Connect, Awaits, resources, Running
  <2>2. \A d \in Conn \ {c} : HandlerLeft(d)' = HandlerLeft(d)
    BY <1>1, OthersKeep DEF Connect
  <2>3. HandlerLeft(c)' = HandlerLeft(c) - 1 /\ HandlerLeft(c) \in Int
    <3> DEFINE rest == 4 * Len(todo[c]) + (IF Awaits(c, "pool") THEN 2 ELSE 0)
                         + (IF Awaits(c, "redis") THEN 1 ELSE 0)
               w == ConnLeft(conn[c])
    <3>1. rest \in Int /\ w \in Int
      BY LenProperties DEF ConnLeft, HandlerInv
    <3>2. HandlerLeft(c) = rest - 0 + w /\ HandlerLeft(c)' = rest - 1 + w
      BY <1>1 DEF Connect, HandlerLeft, Awaits
    <3> HIDE DEF rest, w
    <3> QED
      BY <3>1, <3>2
  <2>4. HandlerLeft(c)' < HandlerLeft(c)
    BY <2>3
  <2> QED
    BY <2>1, <2>2, <2>4
<1>2. CASE QueryEnds(c)
  <2>1. Awaits(c, "pool") /\ client' = client \ {c} /\ UNCHANGED <<conn, asked, resources, exit>>
    BY <1>2 DEF QueryEnds, HandlerInv
  <2>2. CASE Done(c, "pool")
    BY <2>1, <2>2, AwaitEnds
  <2>3. CASE todo' = [todo EXCEPT ![c] = <<>>]
    BY <2>1, <2>3, HandlerGivesUp
  <2> QED
    BY <1>2, <2>2, <2>3 DEF QueryEnds
<1>3. CASE ConnectFails(c)
  <2>1. Awaits(c, "pool") /\ client' = client \ {c} /\ UNCHANGED <<conn, asked, resources, exit>>
    BY <1>3 DEF ConnectFails
  <2>2. CASE Done(c, "pool")
    BY <2>1, <2>2, AwaitEnds
  <2>3. CASE todo' = [todo EXCEPT ![c] = <<>>]
    BY <2>1, <2>3, HandlerGivesUp
  <2> QED
    BY <1>3, <2>2, <2>3 DEF ConnectFails
<1>4. CASE Pong(c) \/ AddJob(c) \/ AddRefused(c)
  <2>1. Awaits(c, "redis") /\ Done(c, "redis") /\ UNCHANGED <<conn, asked, client, resources, exit>>
    BY <1>4 DEF Pong, AddJob, AddRefused
  <2>2. client' = IF "redis" = "pool" THEN client \ {c} ELSE client
    BY <2>1
  <2> QED
    BY <2>1, <2>2, AwaitEnds
<1>5. CASE Respond(c) \/ IdleCloses(c)
  <2>1. /\ UNCHANGED <<asked, todo, client, resources, exit>> /\ todo[c] = <<>>
        /\ \A d \in Conn \ {c} : conn'[d] = conn[d]
        /\ \/ conn[c] = "busy" /\ conn'[c] = "idle"
           \/ conn[c] \in {"idle", "gone"} /\ conn'[c] = "closed"
    BY <1>5 DEF Respond, IdleCloses, Busy, ApiInv, HandlerInv
  <2>2. \A d \in Conn : todo[d] # <<>> => conn'[d] \in {"busy", "gone"}
    BY <2>1 DEF HandlerInv
  <2>3. HandlerInv'
    BY <2>1, <2>2 DEF HandlerInv, Awaits, resources, Running
  <2>4. \A d \in Conn \ {c} : HandlerLeft(d)' = HandlerLeft(d)
    BY <2>1, OthersKeep
  <2>5. Len(todo[c]) \in Nat
    BY LenProperties DEF HandlerInv
  <2>6. HandlerLeft(c)' < HandlerLeft(c)
    BY <2>1, <2>5 DEF HandlerLeft, ConnLeft, Awaits
  <2> QED
    BY <2>3, <2>4, <2>6
<1> QED
  BY <1>1, <1>2, <1>3, <1>4, <1>5 DEF Handle

\* A request puts its handler's awaits on its connection, and disturbs no other.
LEMMA RequestStep ==
  ASSUME ApiInv, HandlerInv, NEW c \in Conn, NEW kind \in Kind, Request(c, kind)
  PROVE  HandlerInv' /\ \A d \in Conn \ {c} : HandlerLeft(d)' = HandlerLeft(d)
<1>1. /\ todo' = [todo EXCEPT ![c] = Program[kind]] /\ todo'[c] = Program[kind]
      /\ conn'[c] = "busy" /\ asked'[c] = kind
      /\ \A d \in Conn \ {c} : todo'[d] = todo[d] /\ conn'[d] = conn[d] /\ asked'[d] = asked[d]
      /\ UNCHANGED <<client, stop, stopping, exit>>
  <2>1. asked'[c] = kind /\ \A d \in Conn \ {c} : asked'[d] = asked[d]
    BY DEF HandlerInv, Request
  <2> QED
    BY <2>1 DEF ApiInv, HandlerInv, Request, resources
<1>2. c \notin client
  BY DEF ApiInv, HandlerInv, Request, Awaits
<1>3. todo' \in [Conn -> Seq(Stage)] /\ asked' \in [Conn -> Kind]
  BY <1>1, ProgramStages DEF HandlerInv, Request
<1>4. \A d \in Conn : /\ Len(todo'[d]) <= 3
                      /\ todo'[d] # <<>> => conn'[d] \in {"busy", "gone"}
                      /\ \A i \in DOMAIN todo'[d] :
                            "redis" \in todo'[d][i] => asked'[d] \in {"health", "transfer"}
  <2> TAKE d \in Conn
  <2>1. CASE d = c
    BY <1>1, <2>1, ProgramStages
  <2>2. CASE d # c
    BY <1>1, <2>2 DEF HandlerInv
  <2> QED
    BY <2>1, <2>2
<1>5. \A d \in client' : d \in Conn /\ Awaits(d, "pool")'
  BY <1>1, <1>2 DEF HandlerInv, Awaits
<1>6. HandlerInv'
  BY <1>1, <1>3, <1>4, <1>5 DEF HandlerInv, Running
<1> QED
  BY <1>1, <1>6, OthersKeep

\* A client that closes its connection leaves the handler what it awaits.
LEMMA AbortStep ==
  ASSUME ApiInv, HandlerInv, NEW c \in Conn, ClientAborts(c)
  PROVE  HandlerInv' /\ \A d \in Conn : HandlerLeft(d)' <= HandlerLeft(d)
<1>1. /\ UNCHANGED <<asked, todo, client, resources, exit>>
      /\ conn[c] = "busy" /\ conn'[c] = "gone"
      /\ \A d \in Conn \ {c} : conn'[d] = conn[d]
  BY DEF ClientAborts, Busy, ApiInv
<1>2. HandlerInv'
  BY <1>1 DEF HandlerInv, Awaits, resources, Running
<1>3. ASSUME NEW d \in Conn PROVE HandlerLeft(d)' <= HandlerLeft(d)
  <2>1. HandlerLeft(d) \in Int
    BY HandlerLeftBounds
  <2>2. CASE d = c
    <3>1. HandlerLeft(c)' = HandlerLeft(c) - 1
      BY <1>1, <2>1, <2>2 DEF HandlerLeft, ConnLeft, Awaits
    <3> QED
      BY <2>1, <2>2, <3>1
  <2>3. CASE d # c
    BY <1>1, <2>1, <2>3, OthersKeep
  <2> QED
    BY <2>2, <2>3
<1> QED
  BY <1>2, <1>3

\* A signal closes idle connections at most, and after it a shutdown is under way.
LEMMA DeliverStep ==
  ASSUME ApiInv, HandlerInv, NEW s \in Signal, Deliver(s)
  PROVE  HandlerInv' /\ \A c \in Conn : HandlerLeft(c)' <= HandlerLeft(c)
<1>1. /\ UNCHANGED <<asked, todo, client, exit>>
      /\ \A c \in Conn : conn'[c] = conn[c] \/ (conn[c] = "idle" /\ conn'[c] = "closed")
  BY DEF Deliver, CloseServer, ApiInv
<1>2. \E t \in Signal : stop'[t] \in Under
  <2>1. CASE ~stopping
    <3>1. stop'[s] = "server" \/ stop'[s] = "queue"
      BY <2>1 DEF Deliver, CloseServer, ApiInv
    <3> QED
      BY <3>1 DEF Under
  <2>2. CASE stopping
    <3>1. PICK t \in Signal : stop[t] \in Under
      BY <2>2 DEF HandlerInv, Deliver
    <3>2. stop'[t] = stop[t]
      BY <2>2, <3>1 DEF Deliver, ApiInv, Under
    <3> QED
      BY <3>1, <3>2
  <2> QED
    BY <2>1, <2>2 DEF ApiInv
<1>3. HandlerInv'
  BY <1>1, <1>2 DEF HandlerInv, Awaits
<1>4. ASSUME NEW c \in Conn PROVE HandlerLeft(c)' <= HandlerLeft(c)
  <2>1. HandlerLeft(c) \in Int
    BY HandlerLeftBounds
  <2>2. CASE conn'[c] = conn[c]
    BY <1>1, <2>1, <2>2, OthersKeep
  <2>3. CASE conn[c] = "idle" /\ conn'[c] = "closed"
    <3>1. HandlerLeft(c)' = HandlerLeft(c) - 1
      BY <1>1, <2>1, <2>3 DEF HandlerLeft, ConnLeft, Awaits
    <3> QED
      BY <2>1, <3>1
  <2> QED
    BY <1>1, <2>2, <2>3
<1> QED
  BY <1>3, <1>4

LEMMA ShutdownStep ==
  ASSUME ApiInv, HandlerInv, NEW s \in Signal, Shutdown(s)
  PROVE  HandlerInv' /\ \A c \in Conn : HandlerLeft(c)' = HandlerLeft(c)
<1>1. UNCHANGED handling
  BY DEF Shutdown, ServerClosed, EndPool, Exit
<1>2. Running' /\ stopping' => \E t \in Signal : stop'[t] \in Under
  BY DEF Shutdown, ServerClosed, EndPool, Exit, ApiInv, Under, Running
<1>3. HandlerInv'
  BY <1>1, <1>2 DEF HandlerInv, Awaits, handling
<1> QED
  BY <1>1, <1>3, OthersKeep DEF handling

LEMMA HandlerNext ==
  ASSUME ApiInv, HandlerInv, [Next]_vars
  PROVE  HandlerInv' /\ HandlersShorten
<1> DEFINE Kept == \A c \in Conn : HandlerLeft(c)' <= HandlerLeft(c)
<1>0. \A c \in Conn : HandlerLeft(c) \in Int
  BY HandlerLeftBounds
<1>1. ASSUME NEW c \in Conn, Handle(c) \/ AddJob(c) PROVE HandlerInv' /\ Kept
  <2>1. HandlerInv' /\ HandlerLeft(c)' < HandlerLeft(c)
          /\ \A d \in Conn \ {c} : HandlerLeft(d)' = HandlerLeft(d)
    BY <1>1, HandlerStep
  <2>2. HandlerLeft(c)' \in Int
    BY <2>1, HandlerLeftNext
  <2> QED
    BY <1>0, <2>1, <2>2
<1>2. ASSUME NEW c \in Conn, NEW kind \in Kind, Request(c, kind)
      PROVE  HandlerInv' /\ \A d \in Conn \ {c} : HandlerLeft(d)' <= HandlerLeft(d)
  BY <1>0, <1>2, RequestStep
<1>3. ASSUME NEW s \in Signal, Deliver(s) \/ Shutdown(s) PROVE HandlerInv' /\ Kept
  BY <1>0, <1>3, DeliverStep, ShutdownStep
<1>4. ASSUME NEW c \in Conn, ClientAborts(c) PROVE HandlerInv' /\ Kept
  BY <1>4, AbortStep
<1>5. ASSUME Kill \/ UNCHANGED api PROVE HandlerInv' /\ Kept
  <2>1. UNCHANGED <<handling, stop, stopping>> /\ (Running' => Running)
    BY <1>5 DEF Kill, api, resources, Running
  <2>2. HandlerInv'
    BY <2>1 DEF HandlerInv, Awaits, handling
  <2> QED
    BY <1>0, <2>1, <2>2, OthersKeep DEF handling
<1> HIDE DEF Kept
<1>6. \/ \E c \in Conn : Handle(c) \/ AddJob(c) \/ ClientAborts(c)
      \/ \E c \in Conn, kind \in Kind : Request(c, kind)
      \/ \E s \in Signal : Deliver(s) \/ Shutdown(s)
      \/ Kill \/ UNCHANGED api
  BY DEF Next, ApiNext, EnqueueReceipt, vars
<1>7. HandlerInv'
  BY <1>1, <1>2, <1>3, <1>4, <1>5, <1>6
<1>8. ASSUME NEW c \in Conn
      PROVE  /\ Handle(c) \/ EnqueueReceipt(c) => HandlerLeft(c)' < HandlerLeft(c)
             /\ (\A kind \in Kind : ~Request(c, kind)) => HandlerLeft(c)' <= HandlerLeft(c)
  <2>1. Handle(c) \/ EnqueueReceipt(c) => HandlerLeft(c)' < HandlerLeft(c)
    BY HandlerStep DEF EnqueueReceipt
  <2>2. ASSUME \A kind \in Kind : ~Request(c, kind) PROVE HandlerLeft(c)' <= HandlerLeft(c)
    BY <1>1, <1>2, <1>3, <1>4, <1>5, <1>6, <2>2 DEF Kept
  <2> QED
    BY <2>1, <2>2
<1> QED
  BY <1>7, <1>8 DEF HandlersShorten

\* Asked to stop, the API is not held up by anything but Redis, and everything that is
\* under way gets nearer to its end: what ApiShutdownEnds adds is fairness.
THEOREM ApiDrainsTheorem ==
  Spec => /\ []ApiGoesOn
          /\ [](\A c \in Conn : HandlerLeft(c) \in 0 .. 17)
          /\ [][HandlersShorten]_vars
<1>1. Init => HandlerInv
  <2>1. "read" \in Kind
    BY DEF Kind, Program
  <2> QED
    BY <2>1, EmptySeq DEF Init, ApiInit, HandlerInv
<1>2. ApiInv /\ HandlerInv /\ [Next]_vars => HandlerInv' /\ [HandlersShorten]_vars
  BY HandlerNext
<1>3. HandlerInv => \A c \in Conn : HandlerLeft(c) \in 0 .. 17
  BY HandlerLeftBounds
<1>4. ApiInv /\ HandlerInv => ApiGoesOn
  <2> SUFFICES ASSUME ApiInv, HandlerInv, Running, stopping, ~redisAway,
                      \A c \in Conn : ~MovesOn(c)
               PROVE  \E s \in Signal : \/ /\ stop[s] = "server"
                                           /\ \A c \in Conn : conn[c] \in {"closed", "gone"}
                                        \/ stop[s] = "queue"
                                        \/ stop[s] = "pool" /\ client = {}
    BY DEF ApiGoesOn
  <2>1. PICK s \in Signal : stop[s] \in Under
    BY DEF HandlerInv
  <2>2. ASSUME NEW c \in Conn PROVE conn[c] = "closed"
    <3>1. conn[c] \in {"closed", "idle", "busy", "gone"} /\ conn[c] # "idle"
      BY DEF ApiInv, MovesOn
    <3>2. CASE todo[c] # <<>>
      <4>1. todo[c] \in Seq(Stage)
        BY DEF HandlerInv
      <4>2. Head(todo[c]) \in Stage /\ Head(todo[c]) = todo[c][1] /\ 1 \in DOMAIN todo[c]
        BY <3>2, <4>1, HeadTailProperties, LenProperties, EmptySeq
      <4>3. "pool" \in Head(todo[c]) \/ "redis" \in Head(todo[c])
        BY <4>2 DEF Stage
      <4>4. "redis" \in Head(todo[c]) => asked[c] \in {"health", "transfer"}
        BY <4>2 DEF HandlerInv
      <4> QED
        BY <3>2, <4>3, <4>4 DEF MovesOn, Awaits
    <3> QED
      BY <3>1, <3>2 DEF MovesOn
  <2>3. client = {}
    BY <2>2 DEF HandlerInv, MovesOn
  <2> QED
    BY <2>1, <2>2, <2>3 DEF Under
<1> QED
  BY <1>1, <1>2, <1>3, <1>4, ApiInvariant, PTL DEF Spec

-----------------------------------------------------------------------------
(* The end of the worker: what WorkerShutdownEnds rests on besides          *)
(* fairness.                                                                *)

\* An active job is to be settled, and may leave a verdict that waits for a client
\* and is sent; a recovery run asks and enqueues.
JobLeft(j) ==
    IF job[j] = "active" THEN 3
    ELSE CASE verdict[j] = "queued" -> 2 [] verdict[j] = "sent" -> 1 [] OTHER -> 0

RunLeft(r) == CASE recovery[r] = "query" -> 2 [] recovery[r] = "enqueue" -> 1 [] OTHER -> 0

\* Once the worker was asked to stop there is less and less to be done, and nothing
\* comes back: no job is taken, no run started, no verdict asked for anew.
WorkShortens ==
    workerStopping =>
       /\ \A j \in Job : /\ JobLeft(j)' <= JobLeft(j)
                         /\ JobStep(j) => JobLeft(j)' < JobLeft(j)
       /\ \A r \in Run : /\ RunLeft(r)' <= RunLeft(r)
                         /\ RecoveryStep(r) => RunLeft(r)' < RunLeft(r)

\* A worker that was asked to stop has a step of its shutdown, of a job, a verdict
\* or a recovery run to take, unless it waits for Redis.
WorkerGoesOn ==
    WorkerRuns /\ workerStopping /\ ~redisAway =>
       \/ \E s \in Signal : \/ workerStop[s] = "jobs" /\ Active = {}
                            \/ workerStop[s] = "queue"
                            \/ workerStop[s] = "pool" /\ Clients = 0
       \/ \E j \in Job : job[j] = "active" \/ verdict[j] = "sent"
       \/ \E r \in Run : recovery[r] = "query"

\* A verdict is sent or waits to be only for a job that is over.  A shutdown of the
\* worker that has begun is under way until the process ends.
DrainInv ==
    /\ \A j \in Job : verdict[j] # "none" => job[j] = "failed"
    /\ recovery \in [Run -> {"none", "query", "enqueue"}]
    /\ WorkerRuns /\ workerStopping => \E s \in Signal : workerStop[s] \in {"jobs", "queue", "pool"}

LEMMA DrainStep == WorkerInv /\ DrainInv /\ [Next]_vars => DrainInv' /\ [WorkShortens]_vars
<1> SUFFICES ASSUME WorkerInv, DrainInv, [Next]_vars PROVE DrainInv' /\ WorkShortens
  OBVIOUS
<1>1. ASSUME NEW j \in Job, JobStep(j)
      PROVE  /\ DrainInv' /\ recovery' = recovery
             /\ JobLeft(j)' < JobLeft(j)
             /\ \A i \in Job \ {j} : JobLeft(i)' = JobLeft(i)
  <2>0. \A i \in Job : verdict'[i] # "none" => job'[i] = "failed"
    <3>1. CASE Settle(j)
      BY <3>1 DEF WorkerInv, DrainInv, Settle
    <3>2. CASE FailFinally(j)
      BY <3>2 DEF WorkerInv, DrainInv, FailFinally, SendVerdict
    <3>3. CASE Dequeue(j) \/ VerdictEnds(j)
      BY <3>3 DEF WorkerInv, DrainInv, Dequeue, VerdictEnds
    <3> QED
      BY <1>1, <3>1, <3>2, <3>3 DEF JobStep
  <2>1. UNCHANGED <<recovery, workerStopping, workerStop, workerExit>>
    BY <1>1 DEF JobStep, Settle, FailFinally, Dequeue, VerdictEnds
  <2>2. \A i \in Job \ {j} : job'[i] = job[i] /\ verdict'[i] = verdict[i]
    BY <1>1 DEF WorkerInv, JobStep, Settle, FailFinally, SendVerdict, Dequeue, VerdictEnds
  <2>3. ASSUME Settle(j) \/ FailFinally(j) PROVE JobLeft(j)' < JobLeft(j)
    <3>1. job[j] = "active" /\ job'[j] \in {"completed", "waiting", "failed"}
      BY <2>3 DEF WorkerInv, Settle, FailFinally
    <3>2. JobLeft(j) = 3 /\ JobLeft(j)' \in 0 .. 2
      BY <3>1 DEF JobLeft
    <3> QED
      BY <3>2
  <2>4. ASSUME Dequeue(j) \/ VerdictEnds(j) PROVE JobLeft(j)' < JobLeft(j)
    <3>1. \/ verdict[j] = "queued" /\ verdict'[j] = "sent"
          \/ verdict[j] = "sent" /\ verdict'[j] = "answered"
      BY <2>4 DEF WorkerInv, Dequeue, VerdictEnds
    <3>2. job'[j] = job[j]
      BY <2>4 DEF Dequeue, VerdictEnds
    <3>3. job[j] # "active"
      BY <2>4 DEF DrainInv, Dequeue, VerdictEnds
    <3>4. \/ JobLeft(j) = 2 /\ JobLeft(j)' = 1
          \/ JobLeft(j) = 1 /\ JobLeft(j)' = 0
      BY <3>1, <3>2, <3>3 DEF JobLeft
    <3> QED
      BY <3>4
  <2>6. JobLeft(j)' < JobLeft(j)
    BY <1>1, <2>3, <2>4 DEF JobStep
  <2>7. \A i \in Job \ {j} : JobLeft(i)' = JobLeft(i)
    BY <2>2 DEF JobLeft
  <2> QED
    BY <2>0, <2>1, <2>6, <2>7 DEF DrainInv, WorkerRuns
<1>2. ASSUME NEW r \in Run, RecoveryStep(r)
      PROVE  /\ DrainInv' /\ UNCHANGED <<job, verdict>>
             /\ RunLeft(r)' < RunLeft(r)
             /\ \A q \in Run \ {r} : RunLeft(q)' = RunLeft(q)
  BY <1>2 DEF DrainInv, RecoveryStep, RunLeft, WorkerRuns
<1>3. \A j \in Job : JobLeft(j) \in Int /\ JobLeft(j)' \in Int
  BY DEF JobLeft
<1>4. \A r \in Run : RunLeft(r) \in Int /\ RunLeft(r)' \in Int
  BY DEF RunLeft
<1>5. UNCHANGED <<job, verdict>> => \A j \in Job : JobLeft(j)' = JobLeft(j)
  BY DEF JobLeft
<1>6. UNCHANGED recovery => \A r \in Run : RunLeft(r)' = RunLeft(r)
  BY DEF RunLeft
<1>7. DrainInv'
  <2>1. CASE EnsureBucket \/ BucketFails \/ KillWorker \/ UNCHANGED worker
             \/ (\E j \in Job : Take(j) \/ Enqueue(j)) \/ (\E r \in Run : StartRecovery(r))
    BY <2>1 DEF DrainInv, WorkerInv, WorkerRuns, EnsureBucket, BucketFails, KillWorker, Take, Enqueue,
                StartRecovery, worker, work
  <2>2. ASSUME NEW s \in Signal, DeliverWorker(s) PROVE DrainInv'
    <3>1. CASE boot = "up" /\ workerStopping
      <4>1. PICK t \in Signal : workerStop[t] \in {"jobs", "queue", "pool"}
        BY <2>2, <3>1 DEF DrainInv, DeliverWorker
      <4>2. workerStop'[t] = workerStop[t]
        BY <2>2, <3>1, <4>1 DEF WorkerInv, DeliverWorker
      <4> QED
        BY <2>2, <4>1, <4>2 DEF DrainInv, DeliverWorker, work
    <3>2. CASE boot = "up" /\ ~workerStopping
      <4>1. workerStop'[s] = "jobs"
        BY <2>2, <3>2 DEF WorkerInv, DeliverWorker
      <4> QED
        BY <2>2, <4>1 DEF DrainInv, DeliverWorker, work
    <3>3. CASE boot # "up"
      BY <2>2, <3>3 DEF DrainInv, WorkerInv, DeliverWorker, work
    <3> QED
      BY <3>1, <3>2, <3>3
  <2>3. ASSUME NEW s \in Signal, ShutdownWorker(s) PROVE DrainInv'
    BY <2>3 DEF DrainInv, WorkerInv, WorkerRuns, ShutdownWorker, JobsOver, EndWorkerPool, ExitWorker, work
  <2> QED
    BY <1>1, <1>2, <2>1, <2>2, <2>3 DEF Next, WorkerNext, EnqueueReceipt, vars
<1>8. ASSUME workerStopping, NEW j \in Job PROVE JobLeft(j)' <= JobLeft(j)
  <2>1. CASE \E i \in Job : JobStep(i)
    BY <1>1, <1>3, <2>1
  <2>2. ASSUME NEW i \in Job, Enqueue(i) PROVE JobLeft(j)' <= JobLeft(j)
    <3>1. JobLeft(j)' = JobLeft(j)
      BY <2>2 DEF WorkerInv, Enqueue, JobLeft
    <3> QED
      BY <1>3, <3>1
  <2>3. CASE UNCHANGED <<job, verdict>>
    BY <1>3, <1>5, <2>3
  <2> QED
    BY <1>8, <2>1, <2>2, <2>3 DEF Next, WorkerNext, EnqueueReceipt, EnsureBucket, BucketFails,
       StartRecovery, RecoveryStep, Take, DeliverWorker, ShutdownWorker, JobsOver, EndWorkerPool,
       ExitWorker, KillWorker, vars, worker, work
<1>9. ASSUME workerStopping, NEW r \in Run PROVE RunLeft(r)' <= RunLeft(r)
  <2>1. CASE \E q \in Run : RecoveryStep(q)
    BY <1>2, <1>4, <2>1
  <2>2. CASE UNCHANGED recovery
    BY <1>4, <1>6, <2>2
  <2> QED
    BY <1>1, <1>9, <2>1, <2>2 DEF WorkerInv, Next, WorkerNext, EnqueueReceipt, Enqueue, EnsureBucket,
       BucketFails, StartRecovery, Take, DeliverWorker, ShutdownWorker, JobsOver, EndWorkerPool,
       ExitWorker, KillWorker, vars, worker, work
<1> QED
  BY <1>1, <1>2, <1>7, <1>8, <1>9 DEF WorkShortens

LEMMA NoClients == Clients = 0 \/ Sending # {} \/ Querying # {}
  BY FS_EmptySet DEF Clients

\* Asked to stop, the worker is not held up by anything but Redis, and what it has under
\* way only gets less: what WorkerShutdownEnds adds is fairness.
THEOREM WorkerDrainsTheorem == Spec => []WorkerGoesOn /\ [][WorkShortens]_vars
<1>1. Init => DrainInv
  BY DEF Init, WorkerInit, DrainInv
<1>2. WorkerInv /\ DrainInv /\ [Next]_vars => DrainInv' /\ [WorkShortens]_vars
  BY DrainStep
<1>3. DrainInv => WorkerGoesOn
  <2> SUFFICES ASSUME DrainInv, WorkerRuns, workerStopping,
                      \A j \in Job : job[j] # "active" /\ verdict[j] # "sent",
                      \A r \in Run : recovery[r] # "query"
               PROVE  \E s \in Signal : \/ workerStop[s] = "jobs" /\ Active = {}
                                        \/ workerStop[s] = "queue"
                                        \/ workerStop[s] = "pool" /\ Clients = 0
    BY DEF WorkerGoesOn
  <2>1. PICK s \in Signal : workerStop[s] \in {"jobs", "queue", "pool"}
    BY DEF DrainInv
  <2>2. Active = {} /\ Sending = {} /\ Querying = {}
    BY DEF Active, Sending, Querying
  <2> QED
    BY <2>1, <2>2, NoClients
<1> QED
  BY <1>1, <1>2, <1>3, WorkerInvariant, PTL DEF Spec
=============================================================================
