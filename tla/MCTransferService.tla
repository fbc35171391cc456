------------------------- MODULE MCTransferService --------------------------
(* TransferService alone, for TLC. *)
EXTENDS TransferService
=============================================================================
