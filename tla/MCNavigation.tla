---------------------------- MODULE MCNavigation ----------------------------
(* An instance of Navigation for TLC: two logins at once, five steps of the user. *)
EXTENDS Navigation
=============================================================================
