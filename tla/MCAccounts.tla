----------------------------- MODULE MCAccounts -----------------------------
(* Instances of Accounts for TLC. *)
EXTENDS Accounts

CONSTANTS admin, demo  \* usernames

\* runSeed's accounts, with SEED_DEMO_USERS on.
MCSeedNames == <<admin, demo>>
=============================================================================
