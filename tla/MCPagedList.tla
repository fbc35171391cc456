---------------------------- MODULE MCPagedList -----------------------------
(* An instance of PagedList for TLC: up to three overlapping loads. *)
EXTENDS PagedList
=============================================================================
