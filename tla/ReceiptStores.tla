--------------------------- MODULE ReceiptStores ----------------------------
(***************************************************************************)
(* The stores the API and the receipt worker share: the receipt columns of *)
(* `transactions` (PostgreSQL), the receipt objects (MinIO) and the        *)
(* transaction-receipts queue (BullMQ over Redis), with the statements     *)
(* each side runs against them.                                            *)
(*                                                                         *)
(* Transfers are numbered in the order of their created_at.  BullMQ is     *)
(* modelled from how src/ uses it; a job waiting out its backoff counts as *)
(* waiting.                                                                *)
(***************************************************************************)
EXTENDS Integers, FiniteSets

CONSTANTS Txn,        \* the transfers, as their positions in created_at order
          Slot,       \* the worker's concurrent job slots
          Attempts,   \* attempts of a job
          MaxStalls,  \* maxStalledCount: how often a job may lose its lock
          MaxFaults,  \* bound: failures of stores and processes in a behaviour
          NoSlot

ASSUME StoresAssumption ==
    /\ Txn \subseteq Nat \ {0}
    /\ Attempts \in Nat \ {0} /\ MaxStalls \in Nat /\ MaxFaults \in Nat
    /\ NoSlot \notin Slot

VARIABLES status,    \* receipt_status of each transfer, "NONE" before it commits
          object,    \* whether receipts/<id>.txt is in the bucket
          job,       \* the state of the job with jobId = id, "none" when absent
          attempts,  \* its attemptsMade
          stalls,    \* its stalledCounter
          owner,     \* the slot whose lock it carries
          faults     \* failures so far

queue == <<job, attempts, stalls, owner>>
stores == <<status, object, queue, faults>>

Status == {"NONE", "NOT_REQUIRED", "PENDING", "GENERATED", "FAILED"}
JobState == {"none", "waiting", "active", "completed", "failed"}

\* The transfers that asked for a receipt.
Receipted == {t \in Txn : status[t] \in {"PENDING", "GENERATED", "FAILED"}}

StoresInit ==
    /\ status = [t \in Txn |-> "NONE"]
    /\ object = [t \in Txn |-> FALSE]
    /\ job = [t \in Txn |-> "none"]
    /\ attempts = [t \in Txn |-> 0]
    /\ stalls = [t \in Txn |-> 0]
    /\ owner = [t \in Txn |-> NoSlot]
    /\ faults = 0

StoresTypeOK ==
    /\ status \in [Txn -> Status]
    /\ object \in [Txn -> BOOLEAN]
    /\ job \in [Txn -> JobState]
    /\ attempts \in [Txn -> 0 .. Attempts]
    /\ stalls \in [Txn -> Nat]
    /\ owner \in [Txn -> Slot \union {NoSlot}]
    /\ faults \in 0 .. MaxFaults

\* One more failure of a store or a process.
Fault == faults < MaxFaults /\ faults' = faults + 1

-----------------------------------------------------------------------------
(* PostgreSQL and MinIO.                                                    *)

\* markReceiptGenerated: unconditional.
MarkGenerated(t) == status' = [status EXCEPT ![t] = "GENERATED"]

\* markReceiptFailed: only a PENDING receipt.
MarkFailed(t) ==
    status' = IF status[t] = "PENDING" THEN [status EXCEPT ![t] = "FAILED"] ELSE status

\* upload: the object key is a function of the id, so a second upload replaces
\* the first.
Upload(t) == object' = [object EXCEPT ![t] = TRUE]

-----------------------------------------------------------------------------
(* The queue.                                                               *)

\* add with jobId = id: a job with that id, live or kept after it ended, makes
\* this a no-op.
Enqueue(t) ==
    IF job[t] = "none"
    THEN /\ job' = [job EXCEPT ![t] = "waiting"]
         /\ UNCHANGED <<attempts, stalls, owner>>
    ELSE UNCHANGED queue

\* A slot takes a waiting job, under a lock of its own.
Fetch(w, t) ==
    /\ job[t] = "waiting"
    /\ stalls[t] <= MaxStalls
    /\ job' = [job EXCEPT ![t] = "active"]
    /\ owner' = [owner EXCEPT ![t] = w]
    /\ UNCHANGED <<attempts, stalls>>

\* The result of an attempt counts only while the slot still has the lock.
Complete(w, t) ==
    IF owner[t] = w
    THEN /\ job' = [job EXCEPT ![t] = "completed"]
         /\ owner' = [owner EXCEPT ![t] = NoSlot]
         /\ UNCHANGED <<attempts, stalls>>
    ELSE UNCHANGED queue

IsFinal(t) == attempts[t] + 1 >= Attempts

\* A failed attempt is retried until none is left.
FailAttempt(w, t) ==
    IF owner[t] = w
    THEN /\ attempts' = [attempts EXCEPT ![t] = @ + 1]
         /\ job' = [job EXCEPT ![t] = IF IsFinal(t) THEN "failed" ELSE "waiting"]
         /\ owner' = [owner EXCEPT ![t] = NoSlot]
         /\ UNCHANGED stalls
    ELSE UNCHANGED queue

\* A job whose lock expired goes back to the waiting list.
Stall(t) ==
    /\ job[t] = "active"
    /\ job' = [job EXCEPT ![t] = "waiting"]
    /\ owner' = [owner EXCEPT ![t] = NoSlot]
    /\ stalls' = [stalls EXCEPT ![t] = @ + 1]
    /\ UNCHANGED attempts

\* One whose lock expired too often is not processed again: the worker that
\* fetches it fails it for good, with attempts left.
FailStalled(t) ==
    /\ job[t] = "waiting"
    /\ stalls[t] > MaxStalls
    /\ job' = [job EXCEPT ![t] = "failed"]
    /\ UNCHANGED <<attempts, stalls, owner>>

\* A job is removed with its counters.
Remove(t) ==
    /\ job' = [job EXCEPT ![t] = "none"]
    /\ attempts' = [attempts EXCEPT ![t] = 0]
    /\ stalls' = [stalls EXCEPT ![t] = 0]
    /\ UNCHANGED owner

\* Redis restarts from an append-only file that lacks the last second: the
\* job just added is gone.
RedisForgets(t) ==
    /\ Fault
    /\ job[t] = "waiting"
    /\ Remove(t)
    /\ UNCHANGED <<status, object>>
=============================================================================
