-------------------------- MODULE MCTransferFunds ---------------------------
(* Instances of TransferFunds for TLC: two wallets, two sessions. *)
EXTENDS TransferFunds
=============================================================================
