----------------------------- MODULE IssueCheckout -----------------------------
(***************************************************************************)
(* Who works on an issue.  Its row holds two locks: checkoutRunId, which a *)
(* run takes for itself, and executionRunId, which the heartbeat gives to  *)
(* the run it started for the issue.  Agents and the board check it out,   *)
(* patch it and release it; wakeups, ends of runs, reads that converge it, *)
(* the stale-lease reaper, the reconciler, repairs and pauses write the    *)
(* same row.  One action is one awaited statement or one transaction.      *)
(***************************************************************************)
EXTENDS FiniteSets

CONSTANTS Agents,
          Runs,
          AgentOf,    \* the agent of each run
          Linked,     \* the runs whose context is this issue
          Requests,   \* handlers that may be at work at once
          Expected,   \* the sets of statuses a checkout may expect
          Features,   \* which of FeatureKinds happen
          None

FeatureKinds == {"pause",    \* the company is paused and resumed
                 "unblock",  \* the board unblocks the issue by hand
                 "lease",    \* wakeups grant the issue a lease, which keeps the sweep off
                 "reap",     \* leases expire and the reaper ends their runs
                 "resume"}   \* a company is resumed while it is still being quiesced

Statuses == {"todo", "in_progress", "done"}
Keep == "keep"

ASSUME CheckoutAssumption ==
  /\ AgentOf \in [Runs -> Agents]
  /\ Linked \subseteq Runs
  /\ Expected \subseteq SUBSET Statuses
  /\ Features \subseteq FeatureKinds
  /\ None \notin Agents \cup Runs /\ Keep \notin Agents /\ None # Keep

VARIABLES issue,     \* the row: status, assignee, checkout, execution
          run,       \* heartbeat_runs.status: waiting (not there yet), active, ended
          req,       \* the request under way in each handler
          lease,     \* whether the issue has a lease that is granted or renewed
          ghost,     \* whether clearGhostProjections has found the issue a ghost
          reaping,   \* the run whose lease the reaper is clearing up after
          unblock,   \* the runs a manual unblock has yet to cancel, and its step
          paused,    \* companies.status
          quiesce    \* the runs a pause has yet to cancel, and its step

sweeps == <<ghost, reaping, unblock, paused, quiesce>>
others == <<lease, sweeps>>
vars == <<issue, run, req, others>>

Idle == [pc |-> "idle", op |-> "patch", run |-> None, agent |-> None, seen |-> None]
Still == [pc |-> "idle", runs |-> {}]

Ops == {"checkout", "patch", "release"}
Steps == {"idle", "reread", "free", "owner", "stale", "adopt", "read", "write"}
Request == [pc : Steps, op : Ops, run : Runs \cup {None}, agent : Agents \cup {None},
            seen : Runs \cup Agents \cup {None}]
Sweep == [pc : {"idle", "cancel"}, runs : SUBSET Runs]

TypeOK ==
  /\ issue \in [status : Statuses, assignee : Agents \cup {None},
                checkout : Runs \cup {None}, execution : Runs \cup {None}]
  /\ run \in [Runs -> {"waiting", "active", "ended"}]
  /\ req \in [Requests -> Request]
  /\ lease \in {"none", "active"}
  /\ ghost \in BOOLEAN /\ paused \in BOOLEAN
  /\ reaping \in Runs \cup {None}
  /\ unblock \in Sweep /\ quiesce \in Sweep

Init ==
  /\ issue = [status |-> "todo", assignee |-> None, checkout |-> None, execution |-> None]
  /\ run = [r \in Runs |-> "waiting"]
  /\ req = [q \in Requests |-> Idle]
  /\ lease = "none" /\ ghost = FALSE /\ reaping = None /\ paused = FALSE
  /\ unblock = Still /\ quiesce = Still

-----------------------------------------------------------------------------
(* Requests.  A process may outlive its run, so ended runs ask as well.  A  *)
(* person on the board asks without a run (None).                           *)

Asker(q, r, a, op) ==
  /\ req[q].pc = "idle"
  /\ IF r = None THEN op # "checkout" => a = None ELSE run[r] # "waiting" /\ a = AgentOf[r]
Holds(row, a, r) == row.status = "in_progress" /\ row.assignee = a /\ row.checkout = r
\* A checkout by another run, which may turn out to have ended.
MaybeStale(row, a, r) ==
  /\ r # None /\ row.status = "in_progress" /\ row.assignee = a
  /\ row.checkout \notin {None, r}

GoTo(q, pc) == req' = [req EXCEPT ![q].pc = pc]
Proceed(q) == req' = [req EXCEPT ![q].pc = "read", ![q].seen = None]
Answer(q) == req' = [req EXCEPT ![q] = Idle]
Suspect(q) == req' = [req EXCEPT ![q].pc = "stale", ![q].seen = issue.checkout]

\* The conditional update of checkout.
Takeable(a, r, statuses) ==
  /\ issue.status \in statuses
  /\ \/ issue.assignee = None
     \/ issue.assignee = a /\ issue.checkout \in {None, r}
  /\ issue.execution \in {None, r}

Checkout(q, a, r, statuses) ==
  /\ Asker(q, r, a, "checkout") /\ a # None
  /\ IF Takeable(a, r, statuses)
     THEN /\ issue' = [status |-> "in_progress", assignee |-> a, checkout |-> r, execution |-> r]
          /\ UNCHANGED req
     ELSE /\ req' = [req EXCEPT ![q] = [Idle EXCEPT !.pc = "reread", !.op = "checkout",
                                                     !.run = r, !.agent = a]]
          /\ UNCHANGED issue
  /\ UNCHANGED <<run, others>>

\* The update found no row: what does the row say?
Reread(q) ==
  LET a == req[q].agent
      r == req[q].run IN
  /\ req[q].pc = "reread"
  /\ CASE /\ r # None /\ Holds(issue, a, None)
          /\ issue.execution \in {None, r}   -> GoTo(q, "free")
       [] MaybeStale(issue, a, r)            -> Suspect(q)
       [] OTHER                              -> Answer(q)
  /\ UNCHANGED <<issue, run, others>>

\* Mutated: only the checkout goes to the run that asks.
TakenCheckout(q) == [issue EXCEPT !.checkout = req[q].run]
\* Both locks go to it.
Taken(q) == [issue EXCEPT !.checkout = req[q].run, !.execution = req[q].run]

\* The assignee's issue is in progress and held by no run.
TakeFree(q) ==
  /\ req[q].pc = "free"
  /\ issue' = IF Holds(issue, req[q].agent, None) /\ issue.execution \in {None, req[q].run}
              THEN Taken(q) ELSE issue
  /\ Answer(q)
  /\ UNCHANGED <<run, others>>

\* isTerminalOrMissingHeartbeatRun, asked of the run that was seen.
CheckStale(q) ==
  /\ req[q].pc = "stale"
  /\ IF run[req[q].seen] = "ended" THEN GoTo(q, "adopt") ELSE Answer(q)
  /\ UNCHANGED <<issue, run, others>>

\* Mutated: an update without the checkout it expects.
AdoptableByAssignee(q) == issue.status = "in_progress" /\ issue.assignee = req[q].agent
\* adoptStaleCheckoutRun's update; a patch or a release goes on behind it.
Adoptable(q) == Holds(issue, req[q].agent, req[q].seen)

Adopt(q) ==
  /\ req[q].pc = "adopt"
  /\ IF Adoptable(q)
     THEN /\ issue' = Taken(q)
          /\ IF req[q].op = "checkout" THEN Answer(q) ELSE Proceed(q)
     ELSE UNCHANGED issue /\ Answer(q)
  /\ UNCHANGED <<run, others>>

\* A patch or a release begins: the handler reads the row, and checks the
\* ownership only when the asking agent has the issue in progress.
Ask(q, a, r, op) ==
  /\ Asker(q, r, a, op) /\ op # "checkout"
  /\ req' = [req EXCEPT ![q] =
       [pc |-> IF r # None /\ issue.status = "in_progress" /\ issue.assignee = a
               THEN "owner" ELSE "read",
        op |-> op, run |-> r, agent |-> a, seen |-> None]]
  /\ UNCHANGED <<issue, run, others>>

\* assertCheckoutOwner.
AssertOwner(q) ==
  /\ req[q].pc = "owner"
  /\ CASE Holds(issue, req[q].agent, req[q].run)         -> Proceed(q)
       [] MaybeStale(issue, req[q].agent, req[q].run)    -> Suspect(q)
       [] OTHER                                          -> Answer(q)
  /\ UNCHANGED <<issue, run, others>>

\* The service reads the row again; a release refuses other agents and other runs.
ReadRow(q) ==
  LET a == req[q].agent IN
  /\ req[q].pc = "read"
  /\ IF /\ req[q].op = "release" /\ a # None
        /\ \/ issue.assignee \notin {None, a}
           \/ MaybeStale(issue, a, req[q].run)
     THEN Answer(q)
     ELSE req' = [req EXCEPT ![q] = [Idle EXCEPT !.pc = "write", !.op = req[q].op,
            !.seen = IF req[q].op = "patch" THEN issue.assignee ELSE None]]
  /\ UNCHANGED <<issue, run, others>>

\* Mutated: a patch that also writes the fields it was not given.
PatchedBlindly(q, status, assignee) ==
  LET freed == status \notin {Keep, "in_progress"} \/ assignee \notin {Keep, req[q].seen} IN
  [issue EXCEPT !.status = IF status = Keep THEN @ ELSE status,
                !.assignee = assignee,
                !.checkout = IF freed THEN None ELSE @]
\* Mutated: a patch that leaves the checkout to a finished issue.
PatchedFields(q, status, assignee) ==
  [issue EXCEPT !.status = IF status = Keep THEN @ ELSE status,
                !.assignee = IF assignee = Keep THEN @ ELSE assignee,
                !.checkout = IF assignee \notin {Keep, req[q].seen} THEN None ELSE @]
\* The update of a patch, of the status, the assignee or both, is made on the row as it
\* is now; whether the assignee changes is decided by the row that was read.
Patched(q, status, assignee) ==
  LET freed == status \notin {Keep, "in_progress"} \/ assignee \notin {Keep, req[q].seen} IN
  [issue EXCEPT !.status = IF status = Keep THEN @ ELSE status,
                !.assignee = IF assignee = Keep THEN @ ELSE assignee,
                !.checkout = IF freed THEN None ELSE @]

Patch(q, status, assignee) ==
  /\ req[q].pc = "write" /\ req[q].op = "patch"
  /\ issue' = Patched(q, status, assignee)
  /\ Answer(q)
  /\ UNCHANGED <<run, others>>

\* The update of a release leaves the execution lock alone.
Release(q) ==
  /\ req[q].pc = "write" /\ req[q].op = "release"
  /\ issue' = [issue EXCEPT !.status = "todo", !.assignee = None, !.checkout = None]
  /\ Answer(q)
  /\ UNCHANGED <<run, others>>

-----------------------------------------------------------------------------
(* Runs and the execution lock. *)

Active(r) == r \in Runs /\ run[r] = "active"
Activate(r) == run' = [run EXCEPT ![r] = "active"]
LinkedActive == {r \in Linked : run[r] = "active"}

\* A run for another issue, which may still work on this one.
Start(r) ==
  /\ run[r] = "waiting" /\ r \notin Linked /\ ~paused
  /\ Activate(r)
  /\ UNCHANGED <<issue, req, others>>

\* enqueueWakeup: the lock goes to an active run of the issue, else to a new one, with
\* a lease in place of those the issue has.
Wake(r) ==
  /\ run[r] = "waiting" /\ r \in Linked /\ ~paused /\ ~Active(issue.execution)
  /\ \/ /\ LinkedActive = {} /\ Activate(r) /\ issue' = [issue EXCEPT !.execution = r]
        /\ lease' = IF "lease" \in Features THEN "active" ELSE lease
     \/ \E n \in LinkedActive : issue' = [issue EXCEPT !.execution = n] /\ UNCHANGED <<run, lease>>
  /\ UNCHANGED <<req, sweeps>>

\* It runs out, or whoever ends its run, closes the issue or empties the company
\* releases it.
LeaseEnds ==
  /\ lease = "active" /\ lease' = "none"
  /\ UNCHANGED <<issue, run, req, sweeps>>

End(r) ==
  /\ run[r] = "active"
  /\ run' = [run EXCEPT ![r] = "ended"]
  /\ UNCHANGED <<issue, req, others>>

\* releaseIssueExecutionAndPromote, and enqueueProcessLossRetry: the lock of an ended
\* run is cleared or goes to a new run.  The first releases the lease the issue names,
\* which is perhaps not the one it has.
ReleaseExecution(r) ==
  /\ run[r] = "ended" /\ issue.execution = r
  /\ \/ issue' = [issue EXCEPT !.execution = None] /\ UNCHANGED run
     \/ \E n \in Linked : /\ run[n] = "waiting" /\ ~paused /\ Activate(n)
                          /\ issue' = [issue EXCEPT !.execution = n]
  /\ lease' \in {lease, "none"}
  /\ UNCHANGED <<req, sweeps>>

\* convergeExecutionState, on every read of the issue.
Converge ==
  /\ ~Active(issue.execution)
  /\ \/ LinkedActive = {} /\ issue' = [issue EXCEPT !.execution = None]
     \/ \E n \in LinkedActive : issue' = [issue EXCEPT !.execution = n]
  /\ UNCHANGED <<run, req, others>>

\* reapStaleLeaseRuns: it reads that the run has the lock, fails the run ...
ReapRun(r) ==
  /\ "reap" \in Features /\ reaping = None
  /\ run[r] = "active" /\ issue.execution = r
  /\ run' = [run EXCEPT ![r] = "ended"]
  /\ reaping' = r
  /\ UNCHANGED <<issue, req, lease, ghost, unblock, paused, quiesce>>

\* ... and clears the lock of the issue, whoever has it by now.
ReapLock ==
  /\ reaping # None
  /\ issue' = [issue EXCEPT !.execution = None]
  /\ reaping' = None
  /\ UNCHANGED <<run, req, lease, ghost, unblock, paused, quiesce>>

-----------------------------------------------------------------------------
(* Repairs. *)

Recovered == [status |-> IF issue.status = "in_progress" THEN "todo" ELSE issue.status,
              assignee |-> issue.assignee, checkout |-> None, execution |-> None]

\* Mutated: a reconciler that trusts any lock it finds.
GhostUnlocked == issue.status = "in_progress" /\ issue.execution = None /\ lease = "none"
\* clearGhostProjections: an issue in progress without an active run and without a lease.
Ghost == issue.status = "in_progress" /\ ~Active(issue.execution) /\ lease = "none"

FindGhost ==
  /\ ~ghost /\ Ghost
  /\ ghost' = TRUE
  /\ UNCHANGED <<issue, run, req, lease, reaping, unblock, paused, quiesce>>

ClearGhost ==
  /\ ghost
  /\ issue' = IF issue.status = "in_progress" THEN Recovered ELSE issue
  /\ ghost' = FALSE
  /\ UNCHANGED <<run, req, lease, reaping, unblock, paused, quiesce>>

\* The cleanup of stale runs: recoverIssueForRun, after cancelRun.
RecoverForRun(r) ==
  /\ run[r] = "ended" /\ r \in {issue.execution, issue.checkout}
  /\ issue' = Recovered
  /\ UNCHANGED <<run, req, others>>

\* recoverIssueForManualUnblock: read the runs, cancel them one by one, clear.
ReadUnblock ==
  /\ "unblock" \in Features /\ unblock.pc = "idle"
  /\ unblock' = [pc |-> "cancel",
                 runs |-> {r \in Linked \cup {issue.execution, issue.checkout} : Active(r)}]
  /\ UNCHANGED <<issue, run, req, lease, ghost, reaping, paused, quiesce>>

CancelUnblocked(r) ==
  /\ r \in unblock.runs
  /\ run' = [run EXCEPT ![r] = "ended"]
  /\ unblock' = [unblock EXCEPT !.runs = @ \ {r}]
  /\ UNCHANGED <<issue, req, lease, ghost, reaping, paused, quiesce>>

ClearUnblocked ==
  /\ unblock.pc = "cancel" /\ unblock.runs = {}
  /\ issue' = Recovered
  /\ unblock' = Still
  /\ UNCHANGED <<run, req, lease, ghost, reaping, paused, quiesce>>

\* A pause: the status, then quiesceCompanyWork reads the runs ...
Pause ==
  /\ "pause" \in Features /\ ~paused /\ quiesce.pc = "idle"
  /\ paused' = TRUE
  /\ quiesce' = [pc |-> "cancel", runs |-> {r \in Runs : run[r] = "active"}]
  /\ UNCHANGED <<issue, run, req, lease, ghost, reaping, unblock>>

\* ... cancels them one after the other ...
CancelQuiesced(r) ==
  /\ r \in quiesce.runs
  /\ run' = [run EXCEPT ![r] = "ended"]
  /\ quiesce' = [quiesce EXCEPT !.runs = @ \ {r}]
  /\ UNCHANGED <<issue, req, lease, ghost, reaping, unblock, paused>>

\* ... and clears every execution lock of the company.
ClearQuiesced ==
  /\ quiesce.pc = "cancel" /\ quiesce.runs = {}
  /\ issue' = [issue EXCEPT !.execution = None]
  /\ quiesce' = Still
  /\ UNCHANGED <<run, req, lease, ghost, reaping, unblock, paused>>

Resume ==
  /\ paused /\ (quiesce.pc = "idle" \/ "resume" \in Features)
  /\ paused' = FALSE
  /\ UNCHANGED <<issue, run, req, lease, ghost, reaping, unblock, quiesce>>

-----------------------------------------------------------------------------

Askers == Runs \cup {None}
NextRequest(q) ==
  \/ \E r \in Askers, a \in Agents, statuses \in Expected : Checkout(q, a, r, statuses)
  \/ \E r \in Askers, a \in Agents \cup {None}, op \in {"patch", "release"} : Ask(q, a, r, op)
  \/ \E s \in Statuses \cup {Keep}, b \in Agents \cup {None, Keep} : Patch(q, s, b)
  \/ Reread(q) \/ TakeFree(q) \/ CheckStale(q) \/ Adopt(q)
  \/ AssertOwner(q) \/ ReadRow(q) \/ Release(q)

NextRun(r) ==
  \/ Start(r) \/ Wake(r) \/ End(r) \/ ReleaseExecution(r)
  \/ ReapRun(r) \/ RecoverForRun(r) \/ CancelUnblocked(r) \/ CancelQuiesced(r)

Next ==
  \/ \E q \in Requests : NextRequest(q)
  \/ \E r \in Runs : NextRun(r)
  \/ LeaseEnds \/ Converge \/ ReapLock \/ FindGhost \/ ClearGhost
  \/ ReadUnblock \/ ClearUnblocked \/ Pause \/ ClearQuiesced \/ Resume

Spec == Init /\ [][Next]_vars

\* The reconciler runs every five minutes and a lease that is not renewed runs out;
\* nobody else has to do anything.
FairSpec == Spec /\ WF_vars(LeaseEnds) /\ WF_vars(FindGhost) /\ WF_vars(ClearGhost)

-----------------------------------------------------------------------------

\* Only an issue in progress is checked out: whoever moves it on, however old the row
\* it looked at, takes the checkout from it in the same statement.
CheckoutMeansInProgress == issue.checkout # None => issue.status = "in_progress"

\* As long as the run that has checked the issue out is active, it has the execution
\* lock too: the lock is what keeps others out once the assignee is lost.
CheckoutHoldsExecution ==
  issue.checkout # None /\ Active(issue.checkout) => issue.execution = issue.checkout

\* A checkout goes from one run to another only when the first has ended: whether the
\* run that is asked about ended was read earlier than the row is written.
AdoptsOnlyEnded ==
  [][\A r \in Runs : issue.checkout = r /\ issue'.checkout \notin {r, None} => run[r] = "ended"]_vars

\* An issue that says it is in progress without a run does not stay so, whatever lease a
\* run that is over has left it.
GhostsCleared == []<>(issue.status = "in_progress" => Active(issue.execution))
================================================================================
