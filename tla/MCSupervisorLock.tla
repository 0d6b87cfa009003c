-------------------------- MODULE MCSupervisorLock --------------------------
(* Small instances of SupervisorLock for TLC.                              *)
EXTENDS SupervisorLock

CONSTANTS p1, p2, p3

\* One user runs every program.
MCUserOf == [p \in Process |-> "agent"]
=============================================================================
