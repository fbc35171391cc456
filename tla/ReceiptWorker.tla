--------------------------- MODULE ReceiptWorker ----------------------------
(***************************************************************************)
(* The receipt worker process (src/worker.js): its concurrent job slots    *)
(* running processReceiptJob, the 'failed' event handler that marks a      *)
(* receipt FAILED, and the periodic recovery of PENDING receipts.  Every   *)
(* await is a step, and the process can die between any two.               *)
(***************************************************************************)
EXTENDS ReceiptStores

CONSTANTS Run,        \* recovery runs that can overlap (setInterval awaits none)
          BatchSize   \* batchSize of a recovery run

ASSUME BatchAssumption == BatchSize \in Nat \ {0}

VARIABLES running,   \* whether the process is up
          slotPc,    \* the await each slot is in
          slotTxn,   \* the transfer it works on, 0 for none
          failing,   \* 'failed' handlers of final failures not yet finished
          todo,      \* what each recovery run has still to enqueue
          horizon,   \* the transfers older than olderThanSeconds: 1 .. horizon
          stranded   \* history: final failures whose handler was lost

worker == <<running, slotPc, slotTxn, failing, todo, horizon, stranded>>

SlotPc == {"idle", "load", "upload", "mark", "finish"}

WorkerInit ==
    /\ running = TRUE
    /\ slotPc = [w \in Slot |-> "idle"]
    /\ slotTxn = [w \in Slot |-> 0]
    /\ failing = {}
    /\ todo = [r \in Run |-> {}]
    /\ horizon = 0
    /\ stranded = {}

WorkerTypeOK ==
    /\ running \in BOOLEAN
    /\ slotPc \in [Slot -> SlotPc]
    /\ slotTxn \in [Slot -> Txn \union {0}]
    /\ failing \subseteq Txn
    /\ todo \in [Run -> SUBSET Txn]
    /\ horizon \in Nat
    /\ stranded \subseteq Txn

-----------------------------------------------------------------------------
(* A job slot.                                                              *)

GoTo(w, next) == slotPc' = [slotPc EXCEPT ![w] = next]

EndAttempt(w) == GoTo(w, "idle") /\ slotTxn' = [slotTxn EXCEPT ![w] = 0]

\* The Worker fetches a waiting job for a free slot.
TakeJob(w, t) ==
    /\ running
    /\ slotPc[w] = "idle"
    /\ Fetch(w, t)
    /\ GoTo(w, "load")
    /\ slotTxn' = [slotTxn EXCEPT ![w] = t]
    /\ UNCHANGED <<status, object, faults, running, failing, todo, horizon, stranded>>

\* findById: an already generated receipt is skipped.
LoadTransaction(w) ==
    /\ slotPc[w] = "load"
    /\ GoTo(w, IF status[slotTxn[w]] = "GENERATED" THEN "finish" ELSE "upload")
    /\ UNCHANGED <<stores, running, slotTxn, failing, todo, horizon, stranded>>

\* Mutant of UploadReceipt: the upload is not awaited, and may not have landed.
UploadReceiptNotAwaited(w) ==
    /\ slotPc[w] = "upload"
    /\ GoTo(w, "mark")
    /\ UNCHANGED <<stores, running, slotTxn, failing, todo, horizon, stranded>>

\* The receipt goes to the bucket; signing its URL is local.
UploadReceipt(w) ==
    /\ slotPc[w] = "upload"
    /\ Upload(slotTxn[w])
    /\ GoTo(w, "mark")
    /\ UNCHANGED <<status, queue, faults, running, slotTxn, failing, todo, horizon, stranded>>

MarkReceipt(w) ==
    /\ slotPc[w] = "mark"
    /\ MarkGenerated(slotTxn[w])
    /\ GoTo(w, "finish")
    /\ UNCHANGED <<object, queue, faults, running, slotTxn, failing, todo, horizon, stranded>>

\* The processor returned: BullMQ completes the job.
FinishJob(w) ==
    /\ slotPc[w] = "finish"
    /\ Complete(w, slotTxn[w])
    /\ EndAttempt(w)
    /\ UNCHANGED <<status, object, faults, running, failing, todo, horizon, stranded>>

\* Mutant of IsFinalFailure: > for >=.
IsFinalFailureLate(t) == attempts[t] + 1 > Attempts

\* isFinalFailure, on the attemptsMade that includes the attempt just failed.
IsFinalFailure(t) == attempts[t] + 1 >= Attempts

\* An await of the processor rejects, before its effect or after it (the
\* acknowledgement is lost).  BullMQ records the failed attempt and emits
\* 'failed'; the handler acts on the last one only.
AttemptFails(w) ==
    /\ slotPc[w] \in {"load", "upload", "mark"}
    /\ Fault
    /\ LET t == slotTxn[w]
       IN  /\ \/ UNCHANGED <<status, object>>
              \/ slotPc[w] = "upload" /\ Upload(t) /\ UNCHANGED status
              \/ slotPc[w] = "mark" /\ MarkGenerated(t) /\ UNCHANGED object
           /\ FailAttempt(w, t)
           /\ failing' = IF owner[t] = w /\ IsFinalFailure(t) THEN failing \union {t} ELSE failing
    /\ EndAttempt(w)
    /\ UNCHANGED <<running, todo, horizon, stranded>>

\* A live slot's lock expires under it (a blocked event loop, Redis out of
\* reach): the job is handed out again while the slot works on.
LockLost(w) ==
    /\ slotPc[w] # "idle"
    /\ owner[slotTxn[w]] = w
    /\ Fault
    /\ Stall(slotTxn[w])
    /\ UNCHANGED <<status, object, worker>>

\* A job that stalled too often is handed to a slot only to be failed, with an
\* UnrecoverableError: a final failure for isFinalFailure, whatever its attempts.
DropStalled(w, t) ==
    /\ running
    /\ slotPc[w] = "idle"
    /\ FailStalled(t)
    /\ failing' = failing \union {t}
    /\ UNCHANGED <<status, object, faults, running, slotPc, slotTxn, todo, horizon, stranded>>

\* The stalled-jobs check finds a job whose slot died with its process.
RecoverStalled(t) ==
    /\ running
    /\ owner[t] \in Slot => slotTxn[owner[t]] # t
    /\ Stall(t)
    /\ UNCHANGED <<status, object, faults, worker>>

-----------------------------------------------------------------------------
(* The 'failed' handler: final failures only.                               *)

MarkReceiptFailed(t) ==
    /\ t \in failing
    /\ MarkFailed(t)
    /\ failing' = failing \ {t}
    /\ UNCHANGED <<object, queue, faults, running, slotPc, slotTxn, todo, horizon, stranded>>

\* The UPDATE fails: caught and logged, and never tried again.
MarkReceiptFailedErrs(t) ==
    /\ t \in failing
    /\ Fault
    /\ failing' = failing \ {t}
    /\ stranded' = stranded \union {t}
    /\ UNCHANGED <<status, object, queue, running, slotPc, slotTxn, todo, horizon>>

-----------------------------------------------------------------------------
(* The recovery of PENDING receipts, at start and every minute.             *)

\* Mutant of Overdue: the comparison with the age is the wrong way round.
Underdue == {t \in Txn : status[t] = "PENDING" /\ t > horizon}

Overdue == {t \in Txn : status[t] = "PENDING" /\ t <= horizon}

\* findPendingReceiptIds: ORDER BY created_at LIMIT batchSize.
OldestBatch ==
    {t \in Overdue : Cardinality({x \in Overdue : x < t}) < BatchSize}

ScanPending(r) ==
    /\ running
    /\ todo[r] = {}
    /\ OldestBatch # {}
    /\ todo' = [todo EXCEPT ![r] = OldestBatch]
    /\ UNCHANGED <<stores, running, slotPc, slotTxn, failing, horizon, stranded>>

\* One turn of the loop.  The receipt may have left PENDING since the scan.
ReenqueueNext(r, t) ==
    /\ t \in todo[r]
    /\ \A x \in todo[r] : t <= x
    /\ Enqueue(t)
    /\ todo' = [todo EXCEPT ![r] = @ \ {t}]
    /\ UNCHANGED <<status, object, faults, running, slotPc, slotTxn, failing, horizon, stranded>>

\* An enqueue of the loop rejects: the rest of the batch is dropped.
RecoveryRunFails(r) ==
    /\ todo[r] # {}
    /\ Fault
    /\ todo' = [todo EXCEPT ![r] = {}]
    /\ UNCHANGED <<status, object, queue, running, slotPc, slotTxn, failing, horizon, stranded>>

-----------------------------------------------------------------------------
(* Time and the process.                                                    *)

\* The next transfer, committed or not, becomes older than olderThanSeconds.
TimePasses ==
    /\ \E t \in Txn : t > horizon
    /\ horizon' = horizon + 1
    /\ UNCHANGED <<stores, running, slotPc, slotTxn, failing, todo, stranded>>

\* removeOnComplete and removeOnFail: an ended job is dropped after a day or a
\* week, and its id is free again.
ExpireJob(t) ==
    /\ job[t] \in {"completed", "failed"}
    /\ Remove(t)
    /\ stranded' = stranded \ {t}
    /\ UNCHANGED <<status, object, faults, running, slotPc, slotTxn, failing, todo, horizon>>

\* The process dies: its slots, handlers and recovery runs with it.  A
\* graceful shutdown is the case in which the slots are idle.
CrashWorker ==
    /\ running
    /\ Fault
    /\ running' = FALSE
    /\ slotPc' = [w \in Slot |-> "idle"]
    /\ slotTxn' = [w \in Slot |-> 0]
    /\ failing' = {}
    /\ stranded' = stranded \union failing
    /\ todo' = [r \in Run |-> {}]
    /\ UNCHANGED <<status, object, queue, horizon>>

StartWorker ==
    /\ ~ running
    /\ running' = TRUE
    /\ UNCHANGED <<stores, slotPc, slotTxn, failing, todo, horizon, stranded>>

SlotProgress(w) == \/ LoadTransaction(w)
                   \/ UploadReceipt(w)
                   \/ MarkReceipt(w)
                   \/ FinishJob(w)

WorkerNext ==
    \/ \E w \in Slot : \/ \E t \in Txn : TakeJob(w, t) \/ DropStalled(w, t)
                       \/ SlotProgress(w)
                       \/ AttemptFails(w)
                       \/ LockLost(w)
    \/ \E t \in Txn : \/ RecoverStalled(t)
                      \/ MarkReceiptFailed(t)
                      \/ MarkReceiptFailedErrs(t)
                      \/ ExpireJob(t)
    \/ \E r \in Run : \/ ScanPending(r)
                      \/ \E t \in Txn : ReenqueueNext(r, t)
                      \/ RecoveryRunFails(r)
    \/ TimePasses
    \/ CrashWorker
    \/ StartWorker
=============================================================================
