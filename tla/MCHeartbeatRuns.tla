--------------------------- MODULE MCHeartbeatRuns ---------------------------
(* Constants for checking HeartbeatRuns with TLC. *)
EXTENDS HeartbeatRuns, TLC

\* Agents and issues are interchangeable (safety runs only).
Symmetry == Permutations(Agent) \cup Permutations(Issue)
=============================================================================
