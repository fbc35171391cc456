-------------------------- MODULE ReceiptPipeline ---------------------------
(***************************************************************************)
(* The API's transfer service and the receipt worker over the stores they  *)
(* share: the path of a receipt from the commit of its transfer to a       *)
(* download link, or to FAILED.                                            *)
(***************************************************************************)
EXTENDS TransferService, ReceiptWorker

vars == <<stores, service, worker>>

Init == StoresInit /\ ServiceInit /\ WorkerInit

Next == \/ ServiceNext /\ UNCHANGED worker
        \/ WorkerNext /\ UNCHANGED service
        \/ (\E t \in Txn : RedisForgets(t)) /\ UNCHANGED <<service, worker>>

Spec == Init /\ [][Next]_vars

\* What the running system keeps doing: BullMQ hands waiting jobs to free
\* slots and returns stalled ones, awaits settle, the clock moves, the timer
\* fires, Redis comes back and the worker's container is restarted (restart:
\* unless-stopped).  No fault, and no retention period, is ever owed.
WorkerFairness ==
    /\ \A w \in Slot : WF_vars((\E t \in Txn : TakeJob(w, t) \/ DropStalled(w, t))
                                /\ UNCHANGED service)
    /\ \A w \in Slot : WF_vars(SlotProgress(w) /\ UNCHANGED service)
    /\ \A t \in Txn : WF_vars(RecoverStalled(t) /\ UNCHANGED service)
    /\ \A t \in Txn : WF_vars(MarkReceiptFailed(t) /\ UNCHANGED service)
    /\ \A r \in Run : WF_vars(ScanPending(r) /\ UNCHANGED service)
    /\ \A r \in Run : WF_vars((\E t \in Txn : ReenqueueNext(r, t)) /\ UNCHANGED service)
    /\ WF_vars(TimePasses /\ UNCHANGED service)
    /\ WF_vars(StartWorker /\ UNCHANGED service)

ServiceFairness ==
    /\ \A t \in Txn : WF_vars(Progress(t) /\ UNCHANGED worker)
    /\ WF_vars(RedisComesBack /\ UNCHANGED worker)

FairSpec == Spec /\ WorkerFairness /\ ServiceFairness

-----------------------------------------------------------------------------
(* Properties.                                                              *)

\* Every variable holds values of its kind.
TypeOK == StoresTypeOK /\ ServiceTypeOK /\ WorkerTypeOK

\* A receipt shown as GENERATED has its object in the bucket, whatever
\* attempts ran twice, side by side or died half-way: the download link
\* that the API signs leads somewhere.
GeneratedHasObject == \A t \in Txn : status[t] = "GENERATED" => object[t]

\* A completed job means a generated receipt.  A kept completed job turns
\* every later enqueue of that transfer into a no-op, so a receipt left
\* PENDING behind one would never be generated.
CompletedMeansGenerated ==
    \A t \in Txn : job[t] = "completed" => status[t] = "GENERATED"

\* Work is only ever done for transfers that asked for a receipt: jobs,
\* slots, handlers and recovery runs never see any other transfer.  It is
\* what makes the processor's "not found" branch unreachable.
OnlyReceiptedWork ==
    /\ \A t \in Txn : job[t] # "none" => t \in Receipted
    /\ \A w \in Slot : slotTxn[w] # 0 => slotTxn[w] \in Receipted
    /\ failing \union UNION {todo[r] : r \in Run} \subseteq Receipted

\* A receipt whose job is used up does not stay PENDING, except while the
\* handler that marks it is under way or if that handler was lost.
PendingIsCovered ==
    \A t \in Txn :
        status[t] = "PENDING" /\ job[t] = "failed" => t \in failing \union stranded

\* The path of each receipt is the abstract one: FAILED comes from PENDING
\* only, GENERATED is final, and the object is there first.
Lifecycle == INSTANCE ReceiptLifecycle WITH receipt <- status, stored <- object
ImplementsLifecycle == Lifecycle!Spec

\* Every receipt that is asked for is eventually generated or failed, when
\* failures stop: through lost enqueues, API and worker crashes, lost locks
\* and lost jobs, however few a recovery run takes.  The exceptions are a receipt
\* whose failure handler was lost and those that a batch of such receipts, older
\* than they are, keeps out of every recovery.
Resolved(t) == status[t] \in {"GENERATED", "FAILED"}
KeptOut(t) == Cardinality({x \in stranded : x < t}) >= BatchSize
ReceiptsResolve ==
    \A t \in Txn : status[t] = "PENDING" ~> Resolved(t) \/ t \in stranded \/ KeptOut(t)

\* Every request ends: answered, or dropped with its process.
RequestsSettle == \A t \in Txn : request[t] \in InFlight ~> request[t] \notin InFlight

\* What the README says of the recovery, of the receipts that nothing else
\* looks after any more: a PENDING receipt whose failure handler was lost (its
\* UPDATE failed, or the worker died before it) is re-enqueued, that is, the
\* enqueue leaves it a job that will run.
RecoveryRevives ==
    [][\A r \in Run, t \in stranded :
          ReenqueueNext(r, t) /\ status[t] = "PENDING"
             => job'[t] \in {"waiting", "active"}]_vars
=============================================================================
