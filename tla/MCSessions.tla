----------------------------- MODULE MCSessions -----------------------------
(* Instances of Sessions for TLC: two users, one browser tab. *)
EXTENDS Sessions
=============================================================================
