--------------------------- MODULE WorkerProcess ----------------------------
(***************************************************************************)
(* The worker process as a whole (worker.js): from its start to its        *)
(* orderly stop.  What a job writes is in ReceiptWorker; here a job is a   *)
(* slot that is taken, and a final failure whose UPDATE the 'failed'       *)
(* listener sends without anybody awaiting it.                             *)
(***************************************************************************)
EXTENDS Redis, FiniteSets

CONSTANTS Job,    \* jobs of the queue
          Slots,  \* WORKER_CONCURRENCY
          Run     \* runs of the recovery that can overlap

ASSUME SlotsAssumption == Slots \in Nat \ {0}
ASSUME FiniteAssumption == IsFiniteSet(Job) /\ IsFiniteSet(Run)

VARIABLES boot,            \* what start awaits: "bucket", "recovery", then "up"
          job,             \* "none", "waiting", "active", "completed" or "failed"
          verdict,         \* the UPDATE to FAILED of each failed job
          recovery,        \* what each run of the recovery awaits
          workerPool,      \* whether its pool is open
          workerStopping,  \* shuttingDown
          workerStop,      \* what the shutdown call of each signal awaits
          workerExit       \* "none", "clean" (0), "error" (1) or "killed"

work == <<job, verdict, recovery>>
worker == <<boot, work, workerPool, workerStopping, workerStop, workerExit>>

WorkerRuns == workerExit = "none"
Active == {j \in Job : job[j] = "active"}
Sending == {j \in Job : verdict[j] = "sent"}
Querying == {r \in Run : recovery[r] = "query"}
Clients == Cardinality(Sending) + Cardinality(Querying)

\* The queue may hold jobs of earlier days.
WorkerInit ==
    /\ boot = "bucket"
    /\ job \in [Job -> {"none", "waiting"}]
    /\ verdict = [j \in Job |-> "none"]
    /\ recovery = [r \in Run |-> "none"]
    /\ workerPool = TRUE
    /\ workerStopping = FALSE
    /\ workerStop = [s \in Signal |-> "none"]
    /\ workerExit \in {"none", "killed"}

\* The bucket exists, is made, or was made by another process meanwhile.  From
\* here on the Worker takes jobs, and the first recovery is awaited.
EnsureBucket ==
    /\ WorkerRuns
    /\ boot = "bucket"
    /\ boot' = "recovery"
    /\ \E r \in Run : recovery' = [recovery EXCEPT ![r] = "query"]
    /\ UNCHANGED <<job, verdict, workerPool, workerStopping, workerStop, workerExit>>

\* The object store cannot be asked: start rejects, process.exit(1).
BucketFails ==
    /\ WorkerRuns
    /\ boot = "bucket"
    /\ workerExit' = "error"
    /\ UNCHANGED <<boot, work, workerPool, workerStopping, workerStop>>

\* The interval timer, cleared by the shutdown, asks about no earlier run.  Its
\* query is sent when the pool has a client for it.
StartRecovery(r) ==
    /\ WorkerRuns
    /\ boot = "up" /\ ~workerStopping
    /\ recovery[r] = "none"
    /\ Clients < PoolMax
    /\ recovery' = [recovery EXCEPT ![r] = "query"]
    /\ UNCHANGED <<boot, job, verdict, workerPool, workerStopping, workerStop, workerExit>>

\* findPendingReceiptIds answers or fails, then each enqueue waits for Redis;
\* an error is logged.  The end of the first run completes the start: only now
\* are the timer set and the signal handlers installed.
RecoveryStep(r) ==
    /\ WorkerRuns
    /\ \/ /\ recovery[r] = "query"
          /\ \E next \in {"enqueue", "none"} : recovery' = [recovery EXCEPT ![r] = next]
       \/ /\ recovery[r] = "enqueue" /\ ~redisAway
          /\ recovery' = [recovery EXCEPT ![r] = "none"]
    /\ boot' = IF recovery'[r] = "none" THEN "up" ELSE boot
    /\ UNCHANGED <<job, verdict, workerPool, workerStopping, workerStop, workerExit>>

\* The API's ADD, whether the worker is there or not.
Enqueue(j) ==
    /\ job[j] = "none"
    /\ job' = [job EXCEPT ![j] = "waiting"]
    /\ UNCHANGED <<boot, verdict, recovery, workerPool, workerStopping, workerStop, workerExit>>

\* The Worker runs from its construction on, and takes nothing once worker.close
\* was called.
Take(j) ==
    /\ WorkerRuns
    /\ boot # "bucket" /\ ~workerStopping
    /\ job[j] = "waiting" /\ Cardinality(Active) < Slots
    /\ ~redisAway
    /\ job' = [job EXCEPT ![j] = "active"]
    /\ UNCHANGED <<boot, verdict, recovery, workerPool, workerStopping, workerStop, workerExit>>

\* moveToCompleted, or moveToFailed with an attempt left.
Settle(j) ==
    /\ WorkerRuns
    /\ job[j] = "active" /\ ~redisAway
    /\ \E to \in {"completed", "waiting"} : job' = [job EXCEPT ![j] = to]
    /\ UNCHANGED <<boot, verdict, recovery, workerPool, workerStopping, workerStop, workerExit>>

\* A query is given to the pool: it has a client at once, or waits for one, or
\* is refused by a pool that is being ended.
SendVerdict(j) ==
    verdict' = [verdict EXCEPT ![j] = IF ~workerPool THEN "refused"
                                      ELSE IF Clients < PoolMax THEN "sent"
                                      ELSE "queued"]

\* moveToFailed with no attempt left, which emits 'failed': the listener calls
\* markReceiptFailed before the job counts as finished, but is not awaited.
FailFinally(j) ==
    /\ WorkerRuns
    /\ job[j] = "active" /\ ~redisAway
    /\ job' = [job EXCEPT ![j] = "failed"]
    /\ SendVerdict(j)
    /\ UNCHANGED <<boot, recovery, workerPool, workerStopping, workerStop, workerExit>>

\* A client came free for a query that waits.  A pool being ended serves none.
Dequeue(j) ==
    /\ WorkerRuns
    /\ verdict[j] = "queued" /\ workerPool /\ Clients < PoolMax
    /\ verdict' = [verdict EXCEPT ![j] = "sent"]
    /\ UNCHANGED <<boot, job, recovery, workerPool, workerStopping, workerStop, workerExit>>

\* The UPDATE is acknowledged, or fails and is logged.
VerdictEnds(j) ==
    /\ WorkerRuns
    /\ verdict[j] = "sent"
    /\ verdict' = [verdict EXCEPT ![j] = "answered"]
    /\ UNCHANGED <<boot, job, recovery, workerPool, workerStopping, workerStop, workerExit>>

\* SIGTERM or SIGINT.  Before the handlers are installed it kills the process,
\* or is lost on one that runs as PID 1.  Then the first starts the shutdown,
\* with clearInterval and worker.close(), and a second one is ignored.
DeliverWorker(s) ==
    /\ WorkerRuns
    /\ workerStop[s] = "none"
    /\ IF boot = "up"
         THEN /\ workerStopping' = TRUE
              /\ workerStop' = [workerStop EXCEPT ![s] = IF workerStopping THEN "ignored" ELSE "jobs"]
              /\ UNCHANGED workerExit
         ELSE /\ workerExit' \in {"none", "killed"}
              /\ workerStop' = [workerStop EXCEPT ![s] = "ignored"]
              /\ UNCHANGED workerStopping
    /\ UNCHANGED <<boot, work, workerPool>>

\* Mutant of JobsOver: the jobs still waiting are waited for, too.
JobsOverAll(s) ==
    /\ WorkerRuns
    /\ workerStop[s] = "jobs" /\ \A j \in Job : job[j] \notin {"waiting", "active"}
    /\ workerStop' = [workerStop EXCEPT ![s] = "queue"]
    /\ UNCHANGED <<boot, work, workerPool, workerStopping, workerExit>>

\* worker.close() is over: the jobs that were active are settled.
JobsOver(s) ==
    /\ WorkerRuns
    /\ workerStop[s] = "jobs" /\ Active = {}
    /\ workerStop' = [workerStop EXCEPT ![s] = "queue"]
    /\ UNCHANGED <<boot, work, workerPool, workerStopping, workerExit>>

\* receiptQueue.close() is over, and pool.end() called.
EndWorkerPool(s) ==
    /\ WorkerRuns
    /\ workerStop[s] = "queue"
    /\ workerStop' = [workerStop EXCEPT ![s] = "pool"]
    /\ workerPool' = FALSE
    /\ UNCHANGED <<boot, work, workerStopping, workerExit>>

\* Mutant of ExitWorker: pool.end() is not awaited.
ExitWorkerAtOnce(s) ==
    /\ WorkerRuns
    /\ workerStop[s] = "pool"
    /\ workerExit' = "clean"
    /\ UNCHANGED <<boot, work, workerPool, workerStopping, workerStop>>

\* Every client of the pool is back: redis.disconnect(), process.exit(0).
ExitWorker(s) ==
    /\ WorkerRuns
    /\ workerStop[s] = "pool" /\ Clients = 0
    /\ workerExit' = "clean"
    /\ UNCHANGED <<boot, work, workerPool, workerStopping, workerStop>>

KillWorker ==
    /\ WorkerRuns
    /\ workerExit' = "killed"
    /\ UNCHANGED <<boot, work, workerPool, workerStopping, workerStop>>

JobStep(j) == \/ Settle(j) \/ FailFinally(j) \/ Dequeue(j) \/ VerdictEnds(j)

ShutdownWorker(s) == JobsOver(s) \/ EndWorkerPool(s) \/ ExitWorker(s)

WorkerNext == \/ EnsureBucket \/ BucketFails
              \/ \E r \in Run : StartRecovery(r) \/ RecoveryStep(r)
              \/ \E j \in Job : Take(j) \/ JobStep(j)
              \/ \E s \in Signal : DeliverWorker(s) \/ ShutdownWorker(s)
              \/ KillWorker
=============================================================================
