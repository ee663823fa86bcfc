---------------------------- MODULE MCAgentStart ----------------------------
(* Small instances of AgentStart for TLC. *)
EXTENDS AgentStart, TLC

CONSTANT a1

\* The runs compete for the slots of one agent; a promoted run is its own as well.
OneAgent == [r \in Runs |-> a1]

\* The start calls are interchangeable.
CallSymmetry == Permutations(Calls)
=============================================================================
