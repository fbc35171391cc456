--------------------------- MODULE MCTransferForm ---------------------------
(* An instance of TransferForm for TLC: three names, one of them unknown. *)
EXTENDS TransferForm
=============================================================================
