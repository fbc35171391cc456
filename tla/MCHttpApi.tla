----------------------------- MODULE MCHttpApi ------------------------------
(* An instance of HttpApi for TLC.  Transfers below the threshold are        *)
(* interchangeable, and so are the places of requests; the users are not,    *)
(* as one is an admin and one has no account at first.                       *)
EXTENDS HttpApi, TLC

Symmetry == Permutations(Txn \ Large) \union Permutations(Request)
=============================================================================
