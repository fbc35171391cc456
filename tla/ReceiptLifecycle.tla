-------------------------- MODULE ReceiptLifecycle --------------------------
(***************************************************************************)
(* What a transfer's receipt goes through, seen from its row and from the  *)
(* object store only: no queue, no worker, no retries.  ReceiptPipeline    *)
(* implements this module.                                                 *)
(***************************************************************************)
CONSTANT Txn

VARIABLES receipt,  \* transactions.receipt_status, "NONE" before the transfer
          stored    \* whether the receipt's object is in the bucket

vars == <<receipt, stored>>

Init == /\ receipt = [t \in Txn |-> "NONE"]
        /\ stored = [t \in Txn |-> FALSE]

\* The transfer commits, with or without a receipt to generate.
Issue(t) ==
    /\ receipt[t] = "NONE"
    /\ \E first \in {"NOT_REQUIRED", "PENDING"} :
          receipt' = [receipt EXCEPT ![t] = first]
    /\ UNCHANGED stored

\* The object is written, for a transfer that asked for it.
Store(t) ==
    /\ receipt[t] \notin {"NONE", "NOT_REQUIRED"}
    /\ stored' = [stored EXCEPT ![t] = TRUE]
    /\ UNCHANGED receipt

\* The row points to the object.  A late success overrides a failure.
Generate(t) ==
    /\ receipt[t] \in {"PENDING", "FAILED"}
    /\ stored[t]
    /\ receipt' = [receipt EXCEPT ![t] = "GENERATED"]
    /\ UNCHANGED stored

\* Every attempt failed.  A generated receipt is never given up.
GiveUp(t) ==
    /\ receipt[t] = "PENDING"
    /\ receipt' = [receipt EXCEPT ![t] = "FAILED"]
    /\ UNCHANGED stored

Next == \E t \in Txn : Issue(t) \/ Store(t) \/ Generate(t) \/ GiveUp(t)

Spec == Init /\ [][Next]_vars
=============================================================================
