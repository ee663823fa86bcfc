-------------------------- MODULE MCIssueExecution --------------------------
(* Small instances of IssueExecution for TLC. *)
EXTENDS IssueExecution, TLC

\* Everything that can go wrong, without cancellations, pauses and the reconciler.
UnaskedFaults == FaultKinds \ {"cancel", "pause", "reconcile"}

\* No agent runs a local child process.
NoLocalAgent == {}

\* The agents are interchangeable: the one Init writes down for a run that has not
\* been created is never read.
AgentSymmetry == Permutations(Agents)
=============================================================================
