------------------------------ MODULE RunPool ------------------------------
(***************************************************************************)
(* What the heartbeat engine promises about runs, and nothing about how:   *)
(* an agent's runs are created queued, at most MaxConcurrent of them are   *)
(* running at a time, a run starts once, and a run that has ended stays    *)
(* as it ended, unless it is a success that is rejected (Spec).  Where     *)
(* several writers end a run at once, the last one's outcome is kept       *)
(* (LateSpec): still, no run that has ended starts again.  IssueExecution  *)
(* (the issue lock, the reapers and cancellation) is checked against the   *)
(* first, AgentStart (the start lock) against the second.                  *)
(***************************************************************************)
EXTENDS Naturals, FiniteSets

CONSTANTS Runs,           \* run identities, numbered in creation order
          Agents,
          MaxConcurrent   \* heartbeat.maxConcurrentRuns of every agent

VARIABLES runStatus,      \* heartbeat_runs.status, "none" before the insert
          runAgent        \* heartbeat_runs.agent_id

Ended == {"succeeded", "failed", "cancelled"}
Active == {"queued", "running"}

RunningOf(a) == {r \in Runs : runStatus[r] = "running" /\ runAgent[r] = a}

Init == /\ runStatus = [r \in Runs |-> "none"]
        /\ runAgent \in [Runs -> Agents]

\* A run row is inserted; its agent is fixed from then on.
Create(r, a) == /\ runStatus[r] = "none"
                /\ runStatus' = [runStatus EXCEPT ![r] = "queued"]
                /\ runAgent' = [runAgent EXCEPT ![r] = a]

\* A queued run starts, and only while its agent has a free slot.
Start(r) == /\ runStatus[r] = "queued"
            /\ Cardinality(RunningOf(runAgent[r])) < MaxConcurrent
            /\ runStatus' = [runStatus EXCEPT ![r] = "running"]
            /\ UNCHANGED runAgent

End(r) == /\ runStatus[r] \in Active
          /\ \E s \in Ended : runStatus' = [runStatus EXCEPT ![r] = s]
          /\ UNCHANGED runAgent

\* The terminal-state policy rejects a success.
Reject(r) == /\ runStatus[r] = "succeeded"
             /\ runStatus' = [runStatus EXCEPT ![r] = "failed"]
             /\ UNCHANGED runAgent

Next == \E r \in Runs : Start(r) \/ End(r) \/ Reject(r) \/ \E a \in Agents : Create(r, a)

\* Another writer's outcome replaces the one that was recorded.
Replace(r) == /\ runStatus[r] \in Ended
              /\ \E s \in Ended : runStatus' = [runStatus EXCEPT ![r] = s]
              /\ UNCHANGED runAgent

LateNext == Next \/ \E r \in Runs : Replace(r)

vars == <<runStatus, runAgent>>
Spec == Init /\ [][Next]_vars
LateSpec == Init /\ [][LateNext]_vars
=============================================================================
