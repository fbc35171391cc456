---------------------------- MODULE MCProcesses -----------------------------
(***************************************************************************)
(* An instance of Processes for TLC: the API while the worker is down, or  *)
(* the worker over a queue of any length while the API is down.  Side by   *)
(* side they make a product of states that no property relates.            *)
(***************************************************************************)
EXTENDS Processes

OneIsDown == /\ Init
             /\ \/ workerExit = "killed" /\ \A j \in Job : job[j] = "none"
                \/ exit = "killed"

MCSpec == OneIsDown /\ [][Next]_vars /\ ApiFairness /\ WorkerFairness
=============================================================================
