---------------------------- MODULE GracefulStop ----------------------------
(***************************************************************************)
(* What a process promises of its end: asked to stop it may finish what it *)
(* has, and what that work still entails, and ends of its own accord only  *)
(* with nothing under way.  ApiProcess and WorkerProcess implement it.     *)
(***************************************************************************)
CONSTANTS Work,  \* what the process can have under way
           Late   \* the part of Work that may still start while it stops

VARIABLES phase,  \* "running", "draining", "stopped", "failed" or "killed"
          active  \* the work under way

vars == <<phase, active>>

\* A process that is not there promises nothing.
Init == phase \in {"running", "killed"} /\ active = {}

Start == /\ \/ phase = "running" /\ active' \in SUBSET Work
            \/ phase = "draining" /\ active' \in SUBSET (active \union Late)
         /\ UNCHANGED phase

Finish == /\ phase \in {"running", "draining"}
          /\ active' \in SUBSET active
          /\ UNCHANGED phase

AskToStop == phase = "running" /\ phase' = "draining" /\ UNCHANGED active

Stop == phase = "draining" /\ active = {} /\ phase' = "stopped" /\ UNCHANGED active

\* It cannot start: nothing was begun.
FailToStart == /\ phase = "running" /\ active = {}
               /\ phase' = "failed"
               /\ UNCHANGED active

\* From outside, at any moment: SIGKILL, a power cut.
Kill == phase \in {"running", "draining"} /\ phase' = "killed" /\ UNCHANGED active

Next == Start \/ Finish \/ AskToStop \/ Stop \/ FailToStart \/ Kill

Spec == Init /\ [][Next]_vars
=============================================================================
