-------------------------- MODULE TransferService ---------------------------
(***************************************************************************)
(* transferService.transfer in the API process, from the commit of         *)
(* transfer_funds on: read the row back, enqueue the receipt job, notify   *)
(* the recipient, answer.  The three are separate awaits: the process, the *)
(* database and Redis can fail between any two.                            *)
(***************************************************************************)
EXTENDS ReceiptStores

VARIABLES request,  \* where the request that made each transfer is
          redisUp   \* whether the API reaches Redis

service == <<request, redisUp>>

InFlight == {"find", "enqueue", "notify"}
Request == {"none", "answered", "errored", "dropped"} \union InFlight

ServiceInit == /\ request = [t \in Txn |-> "none"]
               /\ redisUp = TRUE

ServiceTypeOK == /\ request \in [Txn -> Request]
                 /\ redisUp \in BOOLEAN

\* CALL transfer_funds commits, with its verdict on the receipt.
CommitTransfer(t) ==
    /\ status[t] = "NONE"
    /\ \E receiptStatus \in {"NOT_REQUIRED", "PENDING"} :
          status' = [status EXCEPT ![t] = receiptStatus]
    /\ request' = [request EXCEPT ![t] = "find"]
    /\ UNCHANGED <<object, queue, faults, redisUp>>

\* Mutant of FindById: a job for every transfer.
FindByIdAlwaysEnqueues(t) ==
    /\ request[t] = "find"
    /\ request' = [request EXCEPT ![t] = "enqueue"]
    /\ UNCHANGED <<stores, redisUp>>

\* findById.  What decides on the enqueue is the status the CALL returned,
\* PENDING for every transfer whose status is not NOT_REQUIRED, whatever the
\* worker has made of it since.
FindById(t) ==
    /\ request[t] = "find"
    /\ request' = [request EXCEPT
          ![t] = IF status[t] = "NOT_REQUIRED" THEN "notify" ELSE "enqueue"]
    /\ UNCHANGED <<stores, redisUp>>

\* The database fails before findById answers, or before it acknowledged the
\* COMMIT: the service throws, the caller gets a 500 for a transfer that was
\* made, and nothing is enqueued.
FindFails(t) ==
    /\ request[t] = "find"
    /\ Fault
    /\ request' = [request EXCEPT ![t] = "errored"]
    /\ UNCHANGED <<status, object, queue, redisUp>>

\* Mutant of EnqueueReceipt: it waits for the job's result, not for the add.
EnqueueReceiptAndWait(t) ==
    /\ request[t] = "enqueue"
    /\ redisUp
    /\ \/ job[t] = "none" /\ Enqueue(t) /\ UNCHANGED request
       \/ /\ job[t] = "completed"
          /\ request' = [request EXCEPT ![t] = "notify"]
          /\ UNCHANGED queue
    /\ UNCHANGED <<status, object, faults, redisUp>>

\* receiptQueue.enqueue.  The connection is created with
\* maxRetriesPerRequest: null, so the command waits for Redis to come back.
EnqueueReceipt(t) ==
    /\ request[t] = "enqueue"
    /\ redisUp
    /\ Enqueue(t)
    /\ request' = [request EXCEPT ![t] = "notify"]
    /\ UNCHANGED <<status, object, faults, redisUp>>

\* Redis refuses the command: logged, and left to the worker's recovery.
EnqueueErrs(t) ==
    /\ request[t] = "enqueue"
    /\ Fault
    /\ request' = [request EXCEPT ![t] = "notify"]
    /\ UNCHANGED <<status, object, queue, redisUp>>

\* notifyTransferReceived (an error is logged) and the answer to the caller.
NotifyAndAnswer(t) ==
    /\ request[t] = "notify"
    /\ request' = [request EXCEPT ![t] = "answered"]
    /\ UNCHANGED <<stores, redisUp>>

\* The API process dies, with its requests.
CrashApi ==
    /\ \E t \in Txn : request[t] \in InFlight
    /\ Fault
    /\ request' = [t \in Txn |-> IF request[t] \in InFlight THEN "dropped" ELSE request[t]]
    /\ UNCHANGED <<status, object, queue, redisUp>>

RedisGoesDown == redisUp /\ Fault /\ redisUp' = FALSE
                 /\ UNCHANGED <<status, object, queue, request>>
RedisComesBack == ~ redisUp /\ redisUp' = TRUE /\ UNCHANGED <<stores, request>>

Progress(t) == \/ FindById(t)
               \/ EnqueueReceipt(t)
               \/ NotifyAndAnswer(t)

ServiceNext ==
    \/ \E t \in Txn : \/ CommitTransfer(t)
                      \/ Progress(t)
                      \/ FindFails(t)
                      \/ EnqueueErrs(t)
    \/ CrashApi
    \/ RedisGoesDown
    \/ RedisComesBack

serviceVars == <<stores, service>>

\* The service alone.  Its awaits settle and its process is scheduled; nothing
\* is owed by Redis.
ServiceSpec == /\ StoresInit /\ ServiceInit
               /\ [][ServiceNext]_serviceVars
               /\ \A t \in Txn : WF_serviceVars(Progress(t))

\* What the README says of a transfer made while Redis is unavailable: it
\* still succeeds, that is, its caller is answered.
TransferAnswered ==
    \A t \in Txn : request[t] \in InFlight ~> request[t] \notin InFlight
=============================================================================
