----------------------- MODULE ReceiptPipelineProofs ------------------------
(***************************************************************************)
(* Proofs about ReceiptPipeline, for every number of transfers, slots,     *)
(* recovery runs, attempts and failures, and every batch size.             *)
(***************************************************************************)
EXTENDS ReceiptPipeline, TLAPS

\* A slot has a transfer while it works, has stored the object before it
\* marks the row, and has seen the row GENERATED before it finishes.
SlotInv ==
    \A w \in Slot :
        /\ slotTxn[w] = 0 <=> slotPc[w] = "idle"
        /\ slotPc[w] = "mark" => object[slotTxn[w]]
        /\ slotPc[w] = "finish" => status[slotTxn[w]] = "GENERATED"

\* A job under a lock is active, a live job has an attempt left, and one that is not
\* there has made none.
JobInv ==
    \A t \in Txn :
        /\ owner[t] # NoSlot => job[t] = "active"
        /\ job[t] \in {"waiting", "active"} => attempts[t] < Attempts
        /\ job[t] = "none" => attempts[t] = 0

\* A request that enqueues is for a transfer that asked for a receipt.
RequestInv ==
    \A t \in Txn :
        /\ request[t] # "none" => status[t] # "NONE"
        /\ request[t] = "enqueue" => t \in Receipted

IInv == /\ TypeOK /\ SlotInv /\ JobInv /\ RequestInv
        /\ GeneratedHasObject /\ CompletedMeansGenerated
        /\ OnlyReceiptedWork /\ PendingIsCovered

-----------------------------------------------------------------------------
\* The invariant holds at the start.
LEMMA InitInvariant == Init => IInv
<1> SUFFICES ASSUME Init PROVE IInv
  OBVIOUS
<1> USE StoresAssumption, BatchAssumption DEF Init, StoresInit, ServiceInit, WorkerInit
<1>1. TypeOK
  BY DEF TypeOK, StoresTypeOK, ServiceTypeOK, WorkerTypeOK, Status, JobState, Request, InFlight, SlotPc
<1>2. SlotInv /\ JobInv /\ RequestInv
  BY DEF SlotInv, JobInv, RequestInv
<1>3. GeneratedHasObject /\ CompletedMeansGenerated /\ OnlyReceiptedWork /\ PendingIsCovered
  BY DEF GeneratedHasObject, CompletedMeansGenerated, OnlyReceiptedWork, PendingIsCovered
<1> QED
  BY <1>1, <1>2, <1>3 DEF IInv

\* A step that leaves the row, the bucket, the queue and the work alone keeps
\* the invariant, if it keeps the types and the requests in order.
LEMMA StoresUntouched ==
  ASSUME IInv, UNCHANGED <<status, object, queue, slotPc, slotTxn, failing, todo, stranded>>,
         TypeOK', RequestInv'
  PROVE  IInv'
<1> USE DEF IInv, queue
<1>1. SlotInv' /\ JobInv'
  BY DEF SlotInv, JobInv
<1>2. GeneratedHasObject' /\ CompletedMeansGenerated'
  BY DEF GeneratedHasObject, CompletedMeansGenerated
<1>3. OnlyReceiptedWork' /\ PendingIsCovered'
  BY DEF OnlyReceiptedWork, Receipted, PendingIsCovered
<1> QED
  BY <1>1, <1>2, <1>3

\* A new transfer is known to no job, slot or run yet.
LEMMA CommitTransferInvariant ==
  ASSUME IInv, NEW t \in Txn, CommitTransfer(t), UNCHANGED worker
  PROVE  IInv'
<1> USE StoresAssumption
    DEF CommitTransfer, IInv, queue, worker,
        TypeOK, StoresTypeOK, ServiceTypeOK, WorkerTypeOK
<1>1. TypeOK'
  BY DEF Status, Request, InFlight
<1>2. SlotInv' /\ JobInv'
  BY DEF SlotInv, JobInv, SlotPc
<1>3. RequestInv'
  BY DEF RequestInv, Receipted
<1>4. GeneratedHasObject' /\ CompletedMeansGenerated'
  BY DEF GeneratedHasObject, CompletedMeansGenerated
<1>5. OnlyReceiptedWork' /\ PendingIsCovered'
  BY DEF OnlyReceiptedWork, Receipted, PendingIsCovered
<1> QED
  BY <1>1, <1>2, <1>3, <1>4, <1>5

\* The API adds a job for a receipt, unless there is one.
LEMMA EnqueueReceiptInvariant ==
  ASSUME IInv, NEW t \in Txn, EnqueueReceipt(t), UNCHANGED worker
  PROVE  IInv'
<1> USE StoresAssumption
    DEF EnqueueReceipt, Enqueue, IInv, queue, worker,
        TypeOK, StoresTypeOK, ServiceTypeOK, WorkerTypeOK
<1>1. TypeOK'
  BY DEF JobState, Request, InFlight
<1>2. SlotInv' /\ JobInv'
  BY DEF SlotInv, JobInv
<1>3. RequestInv'
  BY DEF RequestInv, Receipted
<1>4. GeneratedHasObject' /\ CompletedMeansGenerated'
  BY DEF GeneratedHasObject, CompletedMeansGenerated
<1>5. OnlyReceiptedWork' /\ PendingIsCovered'
  BY DEF OnlyReceiptedWork, RequestInv, Receipted, PendingIsCovered
<1> QED
  BY <1>1, <1>2, <1>3, <1>4, <1>5

\* The other steps of a request, and the outages of Redis, touch no store.
LEMMA RequestStepInvariant ==
  ASSUME IInv, UNCHANGED worker,
         \/ \E t \in Txn : FindById(t) \/ NotifyAndAnswer(t) \/ FindFails(t) \/ EnqueueErrs(t)
         \/ CrashApi \/ RedisGoesDown \/ RedisComesBack
  PROVE  IInv'
<1> USE StoresAssumption
    DEF FindById, NotifyAndAnswer, FindFails, EnqueueErrs, CrashApi, RedisGoesDown,
        RedisComesBack, Fault, IInv, stores, queue, worker
<1>1. faults' \in 0 .. MaxFaults
  BY DEF TypeOK, StoresTypeOK
<1>2. /\ request' \in [Txn -> Request] /\ redisUp' \in BOOLEAN
  BY DEF TypeOK, ServiceTypeOK, Request, InFlight
<1>3. UNCHANGED <<status, object, queue, worker>>
  OBVIOUS
<1>4. RequestInv'
  BY DEF RequestInv, TypeOK, StoresTypeOK, ServiceTypeOK, Receipted, Status, InFlight
<1> HIDE DEF FindById, NotifyAndAnswer, FindFails, EnqueueErrs, CrashApi, RedisGoesDown,
        RedisComesBack, Fault, IInv
<1>5. TypeOK'
  BY <1>1, <1>2, <1>3 DEF IInv, TypeOK, StoresTypeOK, ServiceTypeOK, WorkerTypeOK
<1> QED
  BY <1>3, <1>4, <1>5, StoresUntouched

\* A slot takes a job of a transfer that asked for a receipt.
LEMMA TakeJobInvariant ==
  ASSUME IInv, NEW w \in Slot, NEW t \in Txn, TakeJob(w, t), UNCHANGED service
  PROVE  IInv'
<1> USE StoresAssumption
    DEF TakeJob, Fetch, GoTo, IInv, stores, queue, service, worker,
        TypeOK, StoresTypeOK, ServiceTypeOK, WorkerTypeOK
<1>1. TypeOK'
  BY DEF Status, JobState, SlotPc, SlotInv, JobInv
<1>2. SlotInv' /\ JobInv' /\ RequestInv'
  BY DEF SlotInv, JobInv, RequestInv, Receipted, OnlyReceiptedWork, SlotPc
<1>3. GeneratedHasObject' /\ CompletedMeansGenerated'
  BY DEF SlotInv, SlotPc, GeneratedHasObject, CompletedMeansGenerated
<1>4. OnlyReceiptedWork'
  BY DEF SlotInv, SlotPc, OnlyReceiptedWork, RequestInv, Receipted
<1>5. PendingIsCovered'
  BY DEF SlotInv, SlotPc, OnlyReceiptedWork, Receipted, PendingIsCovered
<1> QED
  BY <1>1, <1>2, <1>3, <1>4, <1>5

\* A slot skips the upload only when the receipt is GENERATED.
LEMMA LoadTransactionInvariant ==
  ASSUME IInv, NEW w \in Slot, LoadTransaction(w), UNCHANGED service
  PROVE  IInv'
<1> USE StoresAssumption
    DEF LoadTransaction, GoTo, IInv, stores, queue, service, worker,
        TypeOK, StoresTypeOK, ServiceTypeOK, WorkerTypeOK
<1>1. TypeOK'
  BY DEF Status, JobState, SlotPc, SlotInv, JobInv
<1>2. SlotInv' /\ JobInv' /\ RequestInv'
  BY DEF SlotInv, JobInv, RequestInv, Receipted, OnlyReceiptedWork, SlotPc
<1>3. GeneratedHasObject' /\ CompletedMeansGenerated'
  BY DEF SlotInv, SlotPc, GeneratedHasObject, CompletedMeansGenerated
<1>4. OnlyReceiptedWork'
  BY DEF SlotInv, SlotPc, OnlyReceiptedWork, RequestInv, Receipted
<1>5. PendingIsCovered'
  BY DEF SlotInv, SlotPc, OnlyReceiptedWork, Receipted, PendingIsCovered
<1> QED
  BY <1>1, <1>2, <1>3, <1>4, <1>5

\* After the upload the object is there.
LEMMA UploadReceiptInvariant ==
  ASSUME IInv, NEW w \in Slot, UploadReceipt(w), UNCHANGED service
  PROVE  IInv'
<1> USE StoresAssumption
    DEF UploadReceipt, Upload, GoTo, IInv, stores, queue, service, worker,
        TypeOK, StoresTypeOK, ServiceTypeOK, WorkerTypeOK
<1>1. TypeOK'
  BY DEF Status, JobState, SlotPc, SlotInv, JobInv
<1>2. SlotInv' /\ JobInv' /\ RequestInv'
  BY DEF SlotInv, JobInv, RequestInv, Receipted, OnlyReceiptedWork, SlotPc
<1>3. GeneratedHasObject' /\ CompletedMeansGenerated'
  BY DEF SlotInv, SlotPc, GeneratedHasObject, CompletedMeansGenerated
<1>4. OnlyReceiptedWork'
  BY DEF SlotInv, SlotPc, OnlyReceiptedWork, RequestInv, Receipted
<1>5. PendingIsCovered'
  BY DEF SlotInv, SlotPc, OnlyReceiptedWork, Receipted, PendingIsCovered
<1> QED
  BY <1>1, <1>2, <1>3, <1>4, <1>5

\* The row is marked with the object in the bucket.
LEMMA MarkReceiptInvariant ==
  ASSUME IInv, NEW w \in Slot, MarkReceipt(w), UNCHANGED service
  PROVE  IInv'
<1> USE StoresAssumption
    DEF MarkReceipt, MarkGenerated, GoTo, IInv, stores, queue, service, worker,
        TypeOK, StoresTypeOK, ServiceTypeOK, WorkerTypeOK
<1>1. TypeOK'
  BY DEF Status, JobState, SlotPc, SlotInv, JobInv
<1>2. SlotInv' /\ JobInv' /\ RequestInv'
  BY DEF SlotInv, JobInv, RequestInv, Receipted, OnlyReceiptedWork, SlotPc
<1>3. GeneratedHasObject' /\ CompletedMeansGenerated'
  BY DEF SlotInv, SlotPc, GeneratedHasObject, CompletedMeansGenerated
<1>4. OnlyReceiptedWork'
  BY DEF SlotInv, SlotPc, OnlyReceiptedWork, RequestInv, Receipted
<1>5. PendingIsCovered'
  BY DEF SlotInv, SlotPc, OnlyReceiptedWork, Receipted, PendingIsCovered
<1> QED
  BY <1>1, <1>2, <1>3, <1>4, <1>5

\* A job completes with its receipt GENERATED.
LEMMA FinishJobInvariant ==
  ASSUME IInv, NEW w \in Slot, FinishJob(w), UNCHANGED service
  PROVE  IInv'
<1> USE StoresAssumption
    DEF FinishJob, Complete, EndAttempt, GoTo, IInv, stores, queue, service, worker,
        TypeOK, StoresTypeOK, ServiceTypeOK, WorkerTypeOK
<1>1. TypeOK'
  BY DEF Status, JobState, SlotPc, SlotInv, JobInv
<1>2. SlotInv' /\ JobInv' /\ RequestInv'
  BY DEF SlotInv, JobInv, RequestInv, Receipted, OnlyReceiptedWork, SlotPc
<1>3. GeneratedHasObject' /\ CompletedMeansGenerated'
  BY DEF SlotInv, SlotPc, GeneratedHasObject, CompletedMeansGenerated
<1>4. OnlyReceiptedWork'
  BY DEF SlotInv, SlotPc, OnlyReceiptedWork, RequestInv, Receipted
<1>5. PendingIsCovered'
  BY DEF SlotInv, SlotPc, OnlyReceiptedWork, Receipted, PendingIsCovered
<1> QED
  BY <1>1, <1>2, <1>3, <1>4, <1>5

LEMMA FaultsBounded == StoresTypeOK /\ Fault => faults' \in 0 .. MaxFaults
  BY StoresAssumption DEF StoresTypeOK, Fault

\* A job handed out again keeps its attempts.
LEMMA LockLostInvariant ==
  ASSUME IInv, NEW w \in Slot, LockLost(w), UNCHANGED service
  PROVE  IInv'
<1> USE StoresAssumption
    DEF LockLost, Stall, IInv, stores, queue, service, worker,
        TypeOK, StoresTypeOK, ServiceTypeOK, WorkerTypeOK
<1>1. TypeOK'
  <2> PICK t \in Txn : t = slotTxn[w] /\ Stall(t)
    BY DEF SlotInv
  <2>1. faults' \in 0 .. MaxFaults
    BY FaultsBounded
  <2>2. /\ job' \in [Txn -> JobState] /\ owner' \in [Txn -> Slot \union {NoSlot}]
        /\ stalls' \in [Txn -> Nat]
    BY DEF JobState
  <2> QED
    BY <2>1, <2>2
<1>2. SlotInv' /\ JobInv' /\ RequestInv'
  BY DEF SlotInv, JobInv, RequestInv, Receipted, OnlyReceiptedWork, SlotPc
<1>3. GeneratedHasObject' /\ CompletedMeansGenerated'
  BY DEF SlotInv, SlotPc, GeneratedHasObject, CompletedMeansGenerated
<1>4. OnlyReceiptedWork'
  BY DEF SlotInv, SlotPc, OnlyReceiptedWork, RequestInv, Receipted
<1>5. PendingIsCovered'
  BY DEF SlotInv, SlotPc, OnlyReceiptedWork, Receipted, PendingIsCovered
<1> QED
  BY <1>1, <1>2, <1>3, <1>4, <1>5

\* So does one whose slot died.
LEMMA RecoverStalledInvariant ==
  ASSUME IInv, NEW t \in Txn, RecoverStalled(t), UNCHANGED service
  PROVE  IInv'
<1> USE StoresAssumption
    DEF RecoverStalled, Stall, IInv, stores, queue, service, worker,
        TypeOK, StoresTypeOK, ServiceTypeOK, WorkerTypeOK
<1>1. TypeOK'
  BY DEF Status, JobState, SlotPc, SlotInv, JobInv
<1>2. SlotInv' /\ JobInv' /\ RequestInv'
  BY DEF SlotInv, JobInv, RequestInv, Receipted, OnlyReceiptedWork, SlotPc
<1>3. GeneratedHasObject' /\ CompletedMeansGenerated'
  BY DEF SlotInv, SlotPc, GeneratedHasObject, CompletedMeansGenerated
<1>4. OnlyReceiptedWork'
  BY DEF SlotInv, SlotPc, OnlyReceiptedWork, RequestInv, Receipted
<1>5. PendingIsCovered'
  BY DEF SlotInv, SlotPc, OnlyReceiptedWork, Receipted, PendingIsCovered
<1> QED
  BY <1>1, <1>2, <1>3, <1>4, <1>5

\* A job that stalled too often fails, with its handler under way.
LEMMA DropStalledInvariant ==
  ASSUME IInv, NEW w \in Slot, NEW t \in Txn, DropStalled(w, t), UNCHANGED service
  PROVE  IInv'
<1> USE StoresAssumption
    DEF DropStalled, FailStalled, IInv, stores, queue, service, worker,
        TypeOK, StoresTypeOK, ServiceTypeOK, WorkerTypeOK
<1>1. TypeOK'
  BY DEF Status, JobState, SlotPc, SlotInv, JobInv
<1>2. SlotInv' /\ JobInv' /\ RequestInv'
  BY DEF SlotInv, JobInv, RequestInv, Receipted, OnlyReceiptedWork, SlotPc
<1>3. GeneratedHasObject' /\ CompletedMeansGenerated'
  BY DEF GeneratedHasObject, CompletedMeansGenerated
<1>4. OnlyReceiptedWork'
  BY DEF OnlyReceiptedWork, Receipted
<1>5. PendingIsCovered'
  BY DEF PendingIsCovered
<1> QED
  BY <1>1, <1>2, <1>3, <1>4, <1>5

\* The handler takes the receipt out of PENDING.
LEMMA MarkReceiptFailedInvariant ==
  ASSUME IInv, NEW t \in Txn, MarkReceiptFailed(t), UNCHANGED service
  PROVE  IInv'
<1> USE StoresAssumption
    DEF MarkReceiptFailed, MarkFailed, IInv, stores, queue, service, worker,
        TypeOK, StoresTypeOK, ServiceTypeOK, WorkerTypeOK
<1>1. TypeOK'
  BY DEF Status, JobState, SlotPc, SlotInv, JobInv
<1>2. SlotInv' /\ JobInv' /\ RequestInv'
  BY DEF SlotInv, JobInv, RequestInv, Receipted, OnlyReceiptedWork, SlotPc
<1>3. GeneratedHasObject' /\ CompletedMeansGenerated'
  BY DEF SlotInv, SlotPc, GeneratedHasObject, CompletedMeansGenerated
<1>4. OnlyReceiptedWork'
  BY DEF SlotInv, SlotPc, OnlyReceiptedWork, RequestInv, Receipted
<1>5. PendingIsCovered'
  BY DEF SlotInv, SlotPc, OnlyReceiptedWork, Receipted, PendingIsCovered
<1> QED
  BY <1>1, <1>2, <1>3, <1>4, <1>5

\* A lost handler is remembered.
LEMMA MarkReceiptFailedErrsInvariant ==
  ASSUME IInv, NEW t \in Txn, MarkReceiptFailedErrs(t), UNCHANGED service
  PROVE  IInv'
<1> USE StoresAssumption
    DEF MarkReceiptFailedErrs, Fault, IInv, stores, queue, service, worker,
        TypeOK, StoresTypeOK, ServiceTypeOK, WorkerTypeOK
<1>1. TypeOK'
  BY DEF Status, JobState, SlotPc, SlotInv, JobInv
<1>2. SlotInv' /\ JobInv' /\ RequestInv'
  BY DEF SlotInv, JobInv, RequestInv, Receipted, OnlyReceiptedWork, SlotPc
<1>3. GeneratedHasObject' /\ CompletedMeansGenerated'
  BY DEF SlotInv, SlotPc, GeneratedHasObject, CompletedMeansGenerated
<1>4. OnlyReceiptedWork'
  BY DEF SlotInv, SlotPc, OnlyReceiptedWork, RequestInv, Receipted
<1>5. PendingIsCovered'
  BY DEF SlotInv, SlotPc, OnlyReceiptedWork, Receipted, PendingIsCovered
<1> QED
  BY <1>1, <1>2, <1>3, <1>4, <1>5

\* A recovery run adds jobs for receipts only.
LEMMA ReenqueueNextInvariant ==
  ASSUME IInv, NEW r \in Run, NEW t \in Txn, ReenqueueNext(r, t), UNCHANGED service
  PROVE  IInv'
<1> USE StoresAssumption
    DEF ReenqueueNext, Enqueue, IInv, stores, queue, service, worker,
        TypeOK, StoresTypeOK, ServiceTypeOK, WorkerTypeOK
<1>1. TypeOK'
  BY DEF Status, JobState, SlotPc, SlotInv, JobInv
<1>2. SlotInv' /\ JobInv' /\ RequestInv'
  BY DEF SlotInv, JobInv, RequestInv, Receipted, OnlyReceiptedWork, SlotPc
<1>3. GeneratedHasObject' /\ CompletedMeansGenerated'
  BY DEF SlotInv, SlotPc, GeneratedHasObject, CompletedMeansGenerated
<1>4. OnlyReceiptedWork'
  BY DEF SlotInv, SlotPc, OnlyReceiptedWork, RequestInv, Receipted
<1>5. PendingIsCovered'
  BY DEF SlotInv, SlotPc, OnlyReceiptedWork, Receipted, PendingIsCovered
<1> QED
  BY <1>1, <1>2, <1>3, <1>4, <1>5

\* A job that ended leaves nothing behind.
LEMMA ExpireJobInvariant ==
  ASSUME IInv, NEW t \in Txn, ExpireJob(t), UNCHANGED service
  PROVE  IInv'
<1> USE StoresAssumption
    DEF ExpireJob, Remove, IInv, stores, queue, service, worker,
        TypeOK, StoresTypeOK, ServiceTypeOK, WorkerTypeOK
<1>1. TypeOK'
  BY DEF Status, JobState, SlotPc, SlotInv, JobInv
<1>2. SlotInv' /\ JobInv' /\ RequestInv'
  BY DEF SlotInv, JobInv, RequestInv, Receipted, OnlyReceiptedWork, SlotPc
<1>3. GeneratedHasObject' /\ CompletedMeansGenerated'
  BY DEF SlotInv, SlotPc, GeneratedHasObject, CompletedMeansGenerated
<1>4. OnlyReceiptedWork'
  BY DEF SlotInv, SlotPc, OnlyReceiptedWork, RequestInv, Receipted
<1>5. PendingIsCovered'
  BY DEF SlotInv, SlotPc, OnlyReceiptedWork, Receipted, PendingIsCovered
<1> QED
  BY <1>1, <1>2, <1>3, <1>4, <1>5

\* A job Redis forgets was not yet used up.
LEMMA RedisForgetsInvariant ==
  ASSUME IInv, NEW t \in Txn, RedisForgets(t), UNCHANGED <<service, worker>>
  PROVE  IInv'
<1> USE StoresAssumption
    DEF RedisForgets, Fault, Remove, IInv, stores, queue, service, worker,
        TypeOK, StoresTypeOK, ServiceTypeOK, WorkerTypeOK
<1>1. TypeOK'
  BY DEF Status, JobState, SlotPc, SlotInv, JobInv
<1>2. SlotInv' /\ JobInv' /\ RequestInv'
  BY DEF SlotInv, JobInv, RequestInv, Receipted, OnlyReceiptedWork, SlotPc
<1>3. GeneratedHasObject' /\ CompletedMeansGenerated'
  BY DEF SlotInv, SlotPc, GeneratedHasObject, CompletedMeansGenerated
<1>4. OnlyReceiptedWork'
  BY DEF SlotInv, SlotPc, OnlyReceiptedWork, RequestInv, Receipted
<1>5. PendingIsCovered'
  BY DEF SlotInv, SlotPc, OnlyReceiptedWork, Receipted, PendingIsCovered
<1> QED
  BY <1>1, <1>2, <1>3, <1>4, <1>5

\* A failed attempt that was the last one has its handler, and what it did
\* before it failed is as good as if it had not failed.
LEMMA AttemptFailsInvariant ==
  ASSUME IInv, NEW w \in Slot, AttemptFails(w), UNCHANGED service
  PROVE  IInv'
<1> USE StoresAssumption DEF IInv
<1>0. PICK t \in Txn : t = slotTxn[w]
  BY DEF AttemptFails, SlotInv, TypeOK, StoresTypeOK, ServiceTypeOK, WorkerTypeOK
<1> DEFINE last == owner[t] = w /\ IsFinal(t)
<1>1. /\ slotPc' = [slotPc EXCEPT ![w] = "idle"] /\ slotTxn' = [slotTxn EXCEPT ![w] = 0]
      /\ faults' \in 0 .. MaxFaults
      /\ failing' = IF last THEN failing \union {t} ELSE failing
      /\ UNCHANGED <<running, todo, horizon, stranded, service>>
  BY <1>0 DEF AttemptFails, IsFinal, IsFinalFailure, EndAttempt, GoTo, Fault, TypeOK, StoresTypeOK
<1>2. \/ UNCHANGED <<status, object>>
      \/ object' = [object EXCEPT ![t] = TRUE] /\ UNCHANGED status
      \/ /\ object[t] /\ status' = [status EXCEPT ![t] = "GENERATED"]
         /\ UNCHANGED object
  BY <1>0 DEF AttemptFails, Upload, MarkGenerated, SlotInv
<1>3. owner[t] = w => attempts[t] < Attempts /\ attempts[t] \in Nat
  BY DEF JobInv, TypeOK, StoresTypeOK
<1>4. \/ ~ last /\ UNCHANGED <<job, attempts, owner>>
      \/ /\ owner[t] = w
         /\ attempts' = [attempts EXCEPT ![t] = @ + 1]
         /\ job' = [job EXCEPT ![t] = IF last THEN "failed" ELSE "waiting"]
         /\ owner' = [owner EXCEPT ![t] = NoSlot]
         /\ ~ last => attempts[t] + 1 < Attempts
  BY <1>0, <1>3 DEF AttemptFails, FailAttempt, IsFinal, IsFinalFailure, queue, TypeOK, StoresTypeOK
<1>5. t \in Receipted
  BY <1>0 DEF AttemptFails, SlotInv, OnlyReceiptedWork
<1>6. /\ slotPc \in [Slot -> SlotPc] /\ slotTxn \in [Slot -> Txn \union {0}]
      /\ status \in [Txn -> Status] /\ object \in [Txn -> BOOLEAN]
      /\ job \in [Txn -> JobState] /\ attempts \in [Txn -> 0 .. Attempts]
      /\ owner \in [Txn -> Slot \union {NoSlot}]
  BY DEF TypeOK, StoresTypeOK, ServiceTypeOK, WorkerTypeOK
<1> HIDE DEF last
<1>7. TypeOK'
  <2>1. attempts' \in [Txn -> 0 .. Attempts]
    BY <1>3, <1>4, <1>6
  <2>2. /\ job' \in [Txn -> JobState] /\ owner' \in [Txn -> Slot \union {NoSlot}]
        /\ stalls' \in [Txn -> Nat]
    <3>1. stalls' = stalls
      BY <1>0 DEF AttemptFails, FailAttempt, queue
    <3> QED
      BY <1>4, <1>6, <3>1 DEF JobState, TypeOK, StoresTypeOK
  <2>3. /\ status' \in [Txn -> Status] /\ object' \in [Txn -> BOOLEAN]
    BY <1>2, <1>6 DEF Status
  <2>4. /\ slotPc' \in [Slot -> SlotPc] /\ slotTxn' \in [Slot -> Txn \union {0}]
        /\ failing' \subseteq Txn
    BY <1>1, <1>6 DEF SlotPc, TypeOK, WorkerTypeOK
  <2> QED
    BY <1>1, <2>1, <2>2, <2>3, <2>4
       DEF service, TypeOK, StoresTypeOK, ServiceTypeOK, WorkerTypeOK
<1>8. SlotInv'
  <2>1. \A x \in Txn : /\ object[x] => object'[x]
                       /\ status[x] = "GENERATED" => status'[x] = "GENERATED"
    BY <1>2, <1>6
  <2>2. slotPc'[w] = "idle" /\ slotTxn'[w] = 0
    BY <1>1, <1>6
  <2>3. ASSUME NEW v \in Slot \ {w}
        PROVE  /\ slotPc'[v] = slotPc[v] /\ slotTxn'[v] = slotTxn[v]
    BY <1>1, <1>6
  <2>4. ASSUME NEW v \in Slot \ {w}
        PROVE  /\ slotTxn'[v] = 0 <=> slotPc'[v] = "idle"
               /\ slotPc'[v] = "mark" => object'[slotTxn'[v]]
               /\ slotPc'[v] = "finish" => status'[slotTxn'[v]] = "GENERATED"
    <3>1. slotTxn[v] \in Txn \union {0}
      BY <1>6
    <3> QED
      BY <2>1, <2>3, <3>1 DEF SlotInv
  <2> QED
    BY <2>2, <2>4 DEF SlotInv
<1>9. JobInv'
  BY <1>3, <1>4, <1>6 DEF JobInv
<1>10. RequestInv'
  BY <1>1, <1>2, <1>6 DEF RequestInv, Receipted, service
<1>11. GeneratedHasObject' /\ CompletedMeansGenerated'
  BY <1>2, <1>4, <1>6 DEF GeneratedHasObject, CompletedMeansGenerated
<1>12. OnlyReceiptedWork'
  <2>1. Receipted \subseteq Receipted'
    BY <1>2, <1>6 DEF Receipted
  <2>2. \A x \in Txn : job'[x] # "none" => x \in Receipted
    BY <1>4, <1>5, <1>6 DEF OnlyReceiptedWork
  <2>3. \A v \in Slot : slotTxn'[v] # 0 => slotTxn'[v] \in Receipted
    BY <1>1, <1>6 DEF OnlyReceiptedWork
  <2>4. failing' \union UNION {todo'[q] : q \in Run} \subseteq Receipted
    BY <1>1, <1>5 DEF OnlyReceiptedWork
  <2> QED
    BY <2>1, <2>2, <2>3, <2>4 DEF OnlyReceiptedWork
<1>13. PendingIsCovered'
  BY <1>1, <1>2, <1>4, <1>6 DEF PendingIsCovered
<1> QED
  BY <1>7, <1>8, <1>9, <1>10, <1>11, <1>12, <1>13

\* A recovery run sees PENDING receipts only.
LEMMA ScanPendingInvariant ==
  ASSUME IInv, NEW r \in Run, ScanPending(r), UNCHANGED service
  PROVE  IInv'
<1> USE StoresAssumption DEF ScanPending, IInv, stores, queue, service
<1>1. OldestBatch \subseteq Txn /\ OldestBatch \subseteq Receipted
  BY DEF OldestBatch, Overdue, Receipted
<1>2. todo' = [todo EXCEPT ![r] = OldestBatch]
  OBVIOUS
<1>3. TypeOK'
  BY <1>1 DEF TypeOK, StoresTypeOK, ServiceTypeOK, WorkerTypeOK
<1>4. SlotInv' /\ JobInv' /\ RequestInv'
  BY DEF SlotInv, JobInv, RequestInv, Receipted
<1>5. GeneratedHasObject' /\ CompletedMeansGenerated' /\ PendingIsCovered'
  BY DEF GeneratedHasObject, CompletedMeansGenerated, PendingIsCovered
<1>6. OnlyReceiptedWork'
  <2>1. todo \in [Run -> SUBSET Txn] /\ Receipted' = Receipted
    BY DEF TypeOK, WorkerTypeOK, Receipted
  <2>2. \A q \in Run : todo'[q] = todo[q] \/ todo'[q] = OldestBatch
    BY <1>2, <2>1
  <2> QED
    BY <1>1, <2>1, <2>2 DEF OnlyReceiptedWork
<1> QED
  BY <1>3, <1>4, <1>5, <1>6

\* A recovery run that fails, the clock and a start leave every store alone.
LEMMA IdleStepInvariant ==
  ASSUME IInv, UNCHANGED service,
         (\E r \in Run : RecoveryRunFails(r)) \/ TimePasses \/ StartWorker
  PROVE  IInv'
<1> USE StoresAssumption
    DEF RecoveryRunFails, TimePasses, StartWorker, Fault, IInv, stores, queue, service
<1>1. TypeOK'
  <2>1. /\ faults' \in 0 .. MaxFaults /\ horizon' \in Nat /\ running' \in BOOLEAN
        /\ todo' \in [Run -> SUBSET Txn]
    <3>1. faults' \in 0 .. MaxFaults
      BY DEF TypeOK, StoresTypeOK
    <3>2. horizon' \in Nat
      BY DEF TypeOK, WorkerTypeOK
    <3>4. running' \in BOOLEAN
      <4>1. running' = running \/ running' = TRUE
        OBVIOUS
      <4> HIDE DEF RecoveryRunFails, TimePasses, StartWorker, Fault
      <4> QED
        BY <4>1, Zenon DEF TypeOK, WorkerTypeOK
    <3>3. todo' \in [Run -> SUBSET Txn]
      BY DEF TypeOK, WorkerTypeOK
    <3> QED
      BY <3>1, <3>2, <3>3, <3>4
  <2>2. UNCHANGED <<status, object, queue, slotPc, slotTxn, failing, stranded, service>>
    OBVIOUS
  <2> HIDE DEF RecoveryRunFails, TimePasses, StartWorker, Fault
  <2> QED
    BY <2>1, <2>2 DEF TypeOK, StoresTypeOK, ServiceTypeOK, WorkerTypeOK
<1>2. SlotInv' /\ JobInv' /\ RequestInv'
  BY DEF SlotInv, JobInv, RequestInv, Receipted
<1>3. GeneratedHasObject' /\ CompletedMeansGenerated' /\ PendingIsCovered'
  BY DEF GeneratedHasObject, CompletedMeansGenerated, PendingIsCovered
<1>4. OnlyReceiptedWork'
  BY DEF TypeOK, WorkerTypeOK, OnlyReceiptedWork, Receipted
<1> QED
  BY <1>1, <1>2, <1>3, <1>4

\* A crash of the worker loses handlers, and they are remembered.
LEMMA CrashWorkerInvariant ==
  ASSUME IInv, CrashWorker, UNCHANGED service
  PROVE  IInv'
<1> USE StoresAssumption DEF CrashWorker, Fault, IInv, queue, service
<1>1. TypeOK'
  <2>1. faults' \in 0 .. MaxFaults
    BY DEF TypeOK, StoresTypeOK
  <2>2. slotPc' \in [Slot -> SlotPc] /\ slotTxn' \in [Slot -> Txn \union {0}]
    BY DEF SlotPc
  <2>3. todo' \in [Run -> SUBSET Txn] /\ failing' \subseteq Txn /\ stranded' \subseteq Txn
    BY DEF TypeOK, WorkerTypeOK
  <2>4. running' \in BOOLEAN /\ UNCHANGED <<status, object, job, attempts, stalls, owner, horizon>>
    OBVIOUS
  <2> HIDE DEF CrashWorker
  <2> QED
    BY <2>1, <2>2, <2>3, <2>4 DEF TypeOK, StoresTypeOK, ServiceTypeOK, WorkerTypeOK
<1>2. SlotInv' /\ JobInv' /\ RequestInv'
  BY DEF SlotInv, JobInv, RequestInv, Receipted
<1>3. GeneratedHasObject' /\ CompletedMeansGenerated' /\ PendingIsCovered'
  BY DEF GeneratedHasObject, CompletedMeansGenerated, PendingIsCovered
<1>4. OnlyReceiptedWork'
  BY DEF OnlyReceiptedWork, Receipted
<1> QED
  BY <1>1, <1>2, <1>3, <1>4

\* Every step keeps the invariant.
LEMMA NextInvariant == IInv /\ [Next]_vars => IInv'
<1> SUFFICES ASSUME IInv, [Next]_vars PROVE IInv'
  OBVIOUS
<1>1. CASE ServiceNext /\ UNCHANGED worker
  BY <1>1, CommitTransferInvariant, EnqueueReceiptInvariant, RequestStepInvariant
     DEF ServiceNext, Progress
<1>2. CASE WorkerNext /\ UNCHANGED service
  <2>1. ASSUME NEW w \in Slot, NEW t \in Txn, TakeJob(w, t) \/ DropStalled(w, t) PROVE IInv'
    BY <1>2, <2>1, TakeJobInvariant, DropStalledInvariant
  <2>2. ASSUME NEW w \in Slot, SlotProgress(w) PROVE IInv'
    BY <1>2, <2>2, LoadTransactionInvariant, UploadReceiptInvariant,
       MarkReceiptInvariant, FinishJobInvariant DEF SlotProgress
  <2>3. ASSUME NEW w \in Slot, AttemptFails(w) \/ LockLost(w) PROVE IInv'
    BY <1>2, <2>3, AttemptFailsInvariant, LockLostInvariant
  <2>4. ASSUME NEW t \in Txn, RecoverStalled(t) \/ MarkReceiptFailed(t) PROVE IInv'
    BY <1>2, <2>4, RecoverStalledInvariant, MarkReceiptFailedInvariant
  <2>5. ASSUME NEW t \in Txn, MarkReceiptFailedErrs(t) \/ ExpireJob(t) PROVE IInv'
    BY <1>2, <2>5, MarkReceiptFailedErrsInvariant, ExpireJobInvariant
  <2>6. ASSUME NEW r \in Run, ScanPending(r) PROVE IInv'
    BY <1>2, <2>6, ScanPendingInvariant
  <2>7. ASSUME NEW r \in Run, NEW t \in Txn, ReenqueueNext(r, t) PROVE IInv'
    BY <1>2, <2>7, ReenqueueNextInvariant
  <2>8. CASE (\E r \in Run : RecoveryRunFails(r)) \/ TimePasses \/ StartWorker
    BY <1>2, <2>8, IdleStepInvariant
  <2>9. CASE CrashWorker
    BY <1>2, <2>9, CrashWorkerInvariant
  <2> QED
    BY <1>2, <2>1, <2>2, <2>3, <2>4, <2>5, <2>6, <2>7, <2>8, <2>9 DEF WorkerNext
<1>3. CASE (\E t \in Txn : RedisForgets(t)) /\ UNCHANGED <<service, worker>>
  BY <1>3, RedisForgetsInvariant
<1>4. CASE UNCHANGED vars
  <2>1. TypeOK'
    BY <1>4 DEF vars, stores, queue, service, worker, IInv,
                TypeOK, StoresTypeOK, ServiceTypeOK, WorkerTypeOK
  <2>2. RequestInv'
    BY <1>4 DEF vars, stores, service, IInv, RequestInv, Receipted
  <2> QED
    BY <1>4, <2>1, <2>2, StoresUntouched DEF vars, stores, worker
<1> QED
  BY <1>1, <1>2, <1>3, <1>4 DEF Next

\* The inductive invariant holds in every reachable state.
THEOREM Invariant == Spec => []IInv
<1>1. Init => IInv
  BY InitInvariant
<1>2. IInv /\ [Next]_vars => IInv'
  BY NextInvariant
<1> QED
  BY <1>1, <1>2, PTL DEF Spec

\* Type correctness: in particular no job is attempted more than Attempts times.
THEOREM TypeCorrect == Spec => []TypeOK
<1>1. IInv => TypeOK
  BY DEF IInv
<1> QED
  BY <1>1, Invariant, PTL

\* A GENERATED receipt always has its object, whatever attempts overlap.
THEOREM GeneratedHasObjectTheorem == Spec => []GeneratedHasObject
<1>1. IInv => GeneratedHasObject
  BY DEF IInv
<1> QED
  BY <1>1, Invariant, PTL

\* A completed job always means a GENERATED receipt.
THEOREM CompletedMeansGeneratedTheorem == Spec => []CompletedMeansGenerated
<1>1. IInv => CompletedMeansGenerated
  BY DEF IInv
<1> QED
  BY <1>1, Invariant, PTL

\* Jobs, slots, handlers and recovery runs only ever see transfers that asked
\* for a receipt.
THEOREM OnlyReceiptedWorkTheorem == Spec => []OnlyReceiptedWork
<1>1. IInv => OnlyReceiptedWork
  BY DEF IInv
<1> QED
  BY <1>1, Invariant, PTL

\* A PENDING receipt behind a failed job has its handler under way, or lost it.
THEOREM PendingIsCoveredTheorem == Spec => []PendingIsCovered
<1>1. IInv => PendingIsCovered
  BY DEF IInv
<1> QED
  BY <1>1, Invariant, PTL

-----------------------------------------------------------------------------
\* The abstract life of a receipt.

\* A step that leaves rows and objects alone is a stutter of the lifecycle.
LEMMA Stutters == UNCHANGED <<status, object>> => UNCHANGED Lifecycle!vars
  BY DEF Lifecycle!vars

\* A transfer that commits issues its receipt.
LEMMA CommitTransferImplements ==
  ASSUME NEW t \in Txn, CommitTransfer(t)
  PROVE  Lifecycle!Issue(t)
  BY DEF CommitTransfer, Lifecycle!Issue

\* A slot's step stores the object, or marks the row behind the object, or
\* repeats what was done before.
LEMMA SlotImplements ==
  ASSUME IInv, NEW w \in Slot, SlotProgress(w) \/ AttemptFails(w)
  PROVE  \/ \E t \in Txn : Lifecycle!Store(t) \/ Lifecycle!Generate(t)
         \/ UNCHANGED <<status, object>>
<1> USE DEF IInv
<1> DEFINE Goal == \/ \E t \in Txn : Lifecycle!Store(t) \/ Lifecycle!Generate(t)
                   \/ UNCHANGED <<status, object>>
<1> SUFFICES Goal
  OBVIOUS
<1>1. ASSUME status' = status, object' = object
      PROVE  Goal
  BY <1>1
<1>2. ASSUME slotPc[w] = "upload", Upload(slotTxn[w]), status' = status
      PROVE  Goal
  <2>1. PICK t \in Txn : t = slotTxn[w]
    BY <1>2 DEF SlotInv, TypeOK, WorkerTypeOK
  <2>2. status[t] \notin {"NONE", "NOT_REQUIRED"}
    BY <1>2, <2>1 DEF OnlyReceiptedWork, SlotInv, Receipted
  <2>3. Lifecycle!Store(t)
    BY <1>2, <2>1, <2>2 DEF Upload, Lifecycle!Store
  <2> QED
    BY <2>3
<1>3. ASSUME slotPc[w] = "mark", MarkGenerated(slotTxn[w]), object' = object
      PROVE  Goal
  <2>1. PICK t \in Txn : t = slotTxn[w]
    BY <1>3 DEF SlotInv, TypeOK, WorkerTypeOK
  <2>2. object[t] /\ status[t] \in {"PENDING", "GENERATED", "FAILED"}
    BY <1>3, <2>1 DEF OnlyReceiptedWork, SlotInv, Receipted
  <2>3. CASE status[t] = "GENERATED"
    BY <1>3, <2>1, <2>3 DEF MarkGenerated, TypeOK, StoresTypeOK
  <2>4. CASE status[t] # "GENERATED"
    <3>1. Lifecycle!Generate(t)
      BY <1>3, <2>1, <2>2, <2>4 DEF MarkGenerated, Lifecycle!Generate
    <3> QED
      BY <3>1
  <2> QED
    BY <2>3, <2>4
<1> HIDE DEF Goal
<1>4. CASE AttemptFails(w)
  <2> HIDE DEF IInv
  <2>1. \/ status' = status /\ object' = object
        \/ slotPc[w] = "upload" /\ Upload(slotTxn[w]) /\ status' = status
        \/ slotPc[w] = "mark" /\ MarkGenerated(slotTxn[w]) /\ object' = object
    BY <1>4 DEF AttemptFails
  <2> QED
    BY <1>1, <1>2, <1>3, <2>1
<1>5. CASE LoadTransaction(w) \/ FinishJob(w)
  BY <1>1, <1>5 DEF LoadTransaction, FinishJob, stores
<1>6. CASE UploadReceipt(w)
  BY <1>2, <1>6 DEF UploadReceipt
<1>7. CASE MarkReceipt(w)
  BY <1>3, <1>7 DEF MarkReceipt
<1> QED
  BY <1>4, <1>5, <1>6, <1>7 DEF SlotProgress

\* The failure handler gives up a PENDING receipt and no other.
LEMMA MarkReceiptFailedImplements ==
  ASSUME NEW t \in Txn, MarkReceiptFailed(t)
  PROVE  Lifecycle!GiveUp(t) \/ UNCHANGED <<status, object>>
  BY DEF MarkReceiptFailed, MarkFailed, Lifecycle!GiveUp

\* The API, the queue and the worker implement the life of a receipt: FAILED
\* comes from PENDING only, GENERATED is final, and the object comes first.
THEOREM LifecycleTheorem == Spec => ImplementsLifecycle
<1>1. Init => Lifecycle!Init
  BY DEF Init, StoresInit, Lifecycle!Init
<1>2. IInv /\ [Next]_vars => [Lifecycle!Next]_Lifecycle!vars
  <2> SUFFICES ASSUME IInv, [Next]_vars PROVE [Lifecycle!Next]_Lifecycle!vars
    OBVIOUS
  <2>1. ASSUME NEW t \in Txn, CommitTransfer(t) PROVE Lifecycle!Next
    BY <2>1, CommitTransferImplements DEF Lifecycle!Next
  <2>2. ASSUME NEW w \in Slot, SlotProgress(w) \/ AttemptFails(w)
        PROVE  Lifecycle!Next \/ UNCHANGED <<status, object>>
    BY <2>2, SlotImplements DEF Lifecycle!Next
  <2>3. ASSUME NEW t \in Txn, MarkReceiptFailed(t)
        PROVE  Lifecycle!Next \/ UNCHANGED <<status, object>>
    BY <2>3, MarkReceiptFailedImplements DEF Lifecycle!Next
  <2>4. CASE ServiceNext
    <3>1. \/ \E t \in Txn : CommitTransfer(t)
          \/ UNCHANGED <<status, object>>
      BY <2>4 DEF ServiceNext, Progress, FindById, EnqueueReceipt, NotifyAndAnswer,
                  FindFails, EnqueueErrs, CrashApi, RedisGoesDown, RedisComesBack, stores
    <3> QED
      BY <2>1, <3>1, Stutters
  <2>5. CASE WorkerNext
    <3>1. \/ \E w \in Slot : SlotProgress(w) \/ AttemptFails(w)
          \/ \E t \in Txn : MarkReceiptFailed(t)
          \/ UNCHANGED <<status, object>>
      BY <2>5 DEF WorkerNext, TakeJob, DropStalled, LockLost, RecoverStalled, MarkReceiptFailedErrs,
                  ExpireJob, ScanPending, ReenqueueNext, RecoveryRunFails, TimePasses,
                  CrashWorker, StartWorker, stores
    <3> QED
      BY <2>2, <2>3, <3>1, Stutters
  <2>6. CASE \E t \in Txn : RedisForgets(t)
    BY <2>6, Stutters DEF RedisForgets
  <2>7. CASE UNCHANGED vars
    BY <2>7, Stutters DEF vars, stores
  <2> QED
    BY <2>4, <2>5, <2>6, <2>7 DEF Next
<1> QED
  BY <1>1, <1>2, Invariant, PTL DEF Spec, ImplementsLifecycle, Lifecycle!Spec
=============================================================================
