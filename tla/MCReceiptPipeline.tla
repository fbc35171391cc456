------------------------- MODULE MCReceiptPipeline --------------------------
(* Instances of ReceiptPipeline for TLC. *)
EXTENDS ReceiptPipeline, TLC

SlotSymmetry == Permutations(Slot)
=============================================================================
