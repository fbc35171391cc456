----------------------------- MODULE Processes ------------------------------
(***************************************************************************)
(* The API process and the worker process side by side: the API's enqueue  *)
(* makes the worker's jobs, and both wait for one Redis.  Each is asked to *)
(* stop by signals of its own.                                             *)
(***************************************************************************)
EXTENDS ApiProcess, WorkerProcess

vars == <<api, worker, redis>>

\* Either container may be down.
Init == ApiInit /\ WorkerInit /\ RedisInit

\* The enqueue of a transfer: its job is new.
EnqueueReceipt(c) == AddJob(c) /\ (\E j \in Job : Enqueue(j)) /\ UNCHANGED redis

Next == \/ ApiNext /\ UNCHANGED <<worker, redis>>
        \/ \E c \in Conn : EnqueueReceipt(c)
        \/ WorkerNext /\ UNCHANGED <<api, redis>>
        \/ (RedisFails \/ RedisReturns) /\ UNCHANGED <<api, worker>>

Spec == Init /\ [][Next]_vars

\* Node runs its callbacks, PostgreSQL and the object store answer, jobs end,
\* and an idle connection is closed in the end.  A queue closes while Redis is
\* there.  Nothing promises that Redis comes back.
ApiFairness ==
    /\ \A c \in Conn :
          WF_vars(EnqueueReceipt(c) \/ (Handle(c) /\ UNCHANGED <<worker, redis>>))
    /\ \A s \in Signal :
          WF_vars((~redisAway \/ stop[s] # "queue") /\ Shutdown(s) /\ UNCHANGED <<worker, redis>>)

WorkerFairness ==
    /\ WF_vars(EnsureBucket /\ UNCHANGED <<api, redis>>)
    /\ \A r \in Run : WF_vars(RecoveryStep(r) /\ UNCHANGED <<api, redis>>)
    /\ \A j \in Job : WF_vars(JobStep(j) /\ UNCHANGED <<api, redis>>)
    /\ \A s \in Signal :
          WF_vars((~redisAway \/ workerStop[s] # "queue") /\ ShutdownWorker(s)
                     /\ UNCHANGED <<api, redis>>)

FairSpec == Spec /\ ApiFairness /\ WorkerFairness

-----------------------------------------------------------------------------
\* While a client waits for its answer the API's pool and queue are open: its
\* shutdown never takes them away from a request that somebody still waits for,
\* whatever its handler awaits.  Of a handler whose client has gone nothing is
\* promised: the server's close does not wait for it.
ResourcesOutliveRequests == exit # "killed" /\ Busy # {} => poolOpen /\ queueOpen

\* What the outside sees of a process: running, draining after a signal, or how
\* it ended.
Phase(ended, stops) ==
    CASE ended = "none" -> IF stops THEN "draining" ELSE "running"
      [] ended = "clean" -> "stopped"
      [] ended = "error" -> "failed"
      [] ended = "killed" -> "killed"

ApiPromise == INSTANCE GracefulStop
              WITH Work <- Conn, Late <- Conn,
                   phase <- Phase(exit, stopping), active <- Busy

\* The API ends by itself only when every request it took was answered or given up
\* by its client, one signal or two, and never with an error.  Unless it is killed,
\* a stop cuts off no transfer that somebody waits for; one whose client has gone
\* may end between its commit and its enqueue, and its receipt is the recovery's.
ApiStopsGracefully == ApiPromise!Spec

WorkerPromise == INSTANCE GracefulStop
                 WITH Work <- {"job", "verdict"} \X Job,
                      Late <- {"verdict"} \X Job,
                      phase <- Phase(workerExit, workerStopping),
                      active <- ({"job"} \X Active) \union ({"verdict"} \X Sending)

\* Asked to stop, the worker takes no job, and ends by itself only when no job
\* is active and every verdict it has sent is answered, though nobody awaits the
\* listener: the end of the pool waits for its client.  A verdict that has no
\* client yet when the pool is ended is not waited for: it is dropped, and the
\* receipt of its exhausted job stays PENDING.
WorkerStopsGracefully == WorkerPromise!Spec

\* The API asked to stop does stop, unless Redis stays away: then a handler
\* waits for it - a health check, too - and the shutdown for the handler.
ApiShutdownEnds == stopping ~> (exit # "none" \/ redisAway)

\* So does the worker: while Redis is away an active job cannot be settled.
WorkerShutdownEnds == workerStopping ~> (workerExit # "none" \/ redisAway)
=============================================================================
