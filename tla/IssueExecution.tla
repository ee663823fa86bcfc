--------------------------- MODULE IssueExecution ---------------------------
(***************************************************************************)
(* Who works on an issue, as server/src/services/heartbeat.ts decides it.  *)
(*                                                                         *)
(* An issue row names the run that owns its execution (executionRunId),    *)
(* the lease of that ownership and the name of the owning agent.  A wakeup *)
(* for the issue becomes the owner's run, is merged into it, or is         *)
(* deferred until the owner lets go; letting go promotes the oldest        *)
(* deferred wakeup.  Runs are executed in memory, end in several awaited   *)
(* steps, and can be taken away from their execution by a cancellation, by *)
(* the two reapers and by the reconciler, each of which reads first and    *)
(* writes later.                                                           *)
(*                                                                         *)
(* One action is one database statement or transaction, with the           *)
(* synchronous code around it; a wakeup's transaction is two where it      *)
(* relies on a row that it has not locked.  AgentStart details the start   *)
(* lock that Claim abstracts.                                              *)
(***************************************************************************)
EXTENDS Naturals, FiniteSets, Sequences

CONSTANTS Runs,           \* run identities: naturals, in creation order (bound)
          Agents,
          LocalAgents,    \* agents whose adapter runs a local child process
          Issues,
          MaxConcurrent,  \* heartbeat.maxConcurrentRuns of every agent
          Reapers,        \* orphan-reaper passes that can be under way at once
          Faults,         \* what can go wrong, a subset of FaultKinds
          MaxCrashes,     \* bound: server restarts
          None

FaultKinds ==
  {"crash",      \* the server restarts
   "silent",     \* an execution leaves its run row alone for five minutes
   "expire",     \* a lease expires
   "throw",      \* a statement of executeRun fails once the adapter is done
   "cancel",     \* runs are cancelled
   "pause",      \* agents are paused
   "mention",    \* a comment mentions an agent
   "reconcile"}  \* the reconciler runs

ASSUME ExecutionAssumption ==
  /\ Runs \subseteq Nat /\ IsFiniteSet(Runs)
  /\ Agents # {} /\ Issues # {}
  /\ LocalAgents \subseteq Agents
  /\ MaxConcurrent \in Nat \ {0}
  /\ Faults \subseteq FaultKinds
  /\ MaxCrashes \in Nat
  /\ None \notin Runs \cup Agents \cup Issues

VARIABLES
  \* heartbeat_runs, and the execution lease granted with a run
  status, agent, issue,
  retryOf,     \* retryOfRunId; processLossRetryCount is 1 where it is set
  detached,    \* runs with errorCode "process_detached"
  lease,
  \* issues
  lock,        \* executionRunId
  lockLease,   \* executionLeaseId, as the run whose lease it is
  lockKey,     \* executionAgentNameKey, as the agent
  deferred,    \* deferred_issue_execution wakeups, oldest first, by agent
  adopting,    \* the wakeup transaction that holds the row, if one is under way
  invokable,   \* agents that are not paused
  \* memory of the server, and its children
  exec,        \* how far executeRun is
  child,       \* the adapter's child process; its pid is recorded from then on
  pass,        \* the orphan reaper's passes
  stale,       \* per run: the stale-lease reaper's progress
  canc,        \* per run: cancelRunInternal's progress
  closing,     \* runs the reconciler found without a lease
  crashes

rows == <<status, agent, issue, retryOf, detached, lease>>
locks == <<lock, lockLease, lockKey, deferred, adopting>>
memory == <<exec, child, pass, stale, canc, closing>>
vars == <<rows, locks, invokable, memory, crashes>>

Ended == {"succeeded", "failed", "cancelled"}
Active == {"queued", "running"}
Statuses == {"none"} \cup Active \cup Ended
\* An active lease is granted or renewed.  A renewal finds the row by those two states
\* (renewLeaseForIssueActivity, renewLeaseForRunActivity), so it keeps a lease active and
\* brings none back; renewLease, which finds it by its id alone, has no caller.
Leases == {"none", "active", "released", "expired"}
\* Where an execution is: about to write its outcome (wr...), to release its issue
\* (rel...) or to apply the terminal-state policy; ...Thrown and ...Last are those
\* of the inner and the outer catch block.
Releasing == {"relOk", "relBad", "relThrown", "relLast"}
Returned == {"exit", "wrOk", "wrFail", "wrCancel", "relOk", "relBad", "policy"}
ExecPcs == {"none", "claimed", "setup", "adapter", "wrThrown", "wrLast"}
           \cup Returned \cup Releasing

\* A transaction takes the run for the issue's owner, and defers a wakeup of waiter.
NotAdopting == [run |-> None, waiter |-> None]

IdlePass == [pc |-> "idle", todo |-> {}, pids |-> {}, known |-> {},
             run |-> None, retry |-> FALSE]

Init == /\ status = [r \in Runs |-> "none"]
        /\ agent = [r \in Runs |-> CHOOSE a \in Agents : TRUE]
        /\ issue = [r \in Runs |-> CHOOSE i \in Issues : TRUE]
        /\ retryOf = [r \in Runs |-> None]
        /\ detached = {}
        /\ lease = [r \in Runs |-> "none"]
        /\ lock = [i \in Issues |-> None]
        /\ lockLease = [i \in Issues |-> None]
        /\ lockKey = [i \in Issues |-> None]
        /\ deferred = [i \in Issues |-> <<>>]
        /\ adopting = [i \in Issues |-> NotAdopting]
        /\ invokable = Agents
        /\ exec = [r \in Runs |-> "none"]
        /\ child = [r \in Runs |-> "none"]
        /\ pass = [p \in Reapers |-> IdlePass]
        /\ stale = [r \in Runs |-> "none"]
        /\ canc = [r \in Runs |-> "none"]
        /\ closing = {}
        /\ crashes = 0

-----------------------------------------------------------------------------
(* Runs and the issue lock. *)

ActiveOn(i) == {r \in Runs : issue[r] = i /\ status[r] \in Active}
RunningOf(a) == {r \in Runs : agent[r] = a /\ status[r] = "running"}
IsLocal(r) == agent[r] \in LocalAgents

\* Run ids are given out in creation order.
Unused == {r \in Runs : status[r] = "none"}
IsNext(r) == r \in Unused /\ \A q \in Unused : r <= q

\* Bound: a wakeup takes a run id only while every promotion and retry that may
\* still come has its own.
Deferrals == UNION {{i} \X (1..Len(deferred[i])) : i \in Issues}
             \cup {<<i, 0>> : i \in {j \in Issues : adopting[j].waiter # None}}
MayRetry == {r \in Runs : retryOf[r] = None /\ \/ status[r] \in Active
                                               \/ \E p \in Reapers : pass[p].run = r}
IdLeft == LET perWake == IF "crash" \in Faults /\ LocalAgents # {} THEN 2 ELSE 1
          IN  Cardinality(Unused) >= perWake * (Cardinality(Deferrals) + 1)
                                     + (perWake - 1) * Cardinality(MayRetry)

\* A queued run n is inserted for agent a on issue i, to retry the run lost or none.
Insert(n, a, i, lost) ==
  /\ IsNext(n)
  /\ status' = [status EXCEPT ![n] = "queued"]
  /\ agent' = [agent EXCEPT ![n] = a]
  /\ issue' = [issue EXCEPT ![n] = i]
  /\ retryOf' = [retryOf EXCEPT ![n] = lost]

\* setRunStatus writes whatever the row holds.  Only a detached run is "running"
\* with an errorCode.
SetRunStatus(r, s) ==
  /\ status' = [status EXCEPT ![r] = s]
  /\ detached' = IF s = "running" THEN detached \cup {r} ELSE detached \ {r}
  /\ UNCHANGED <<agent, issue, retryOf, lease>>

\* The transaction of releaseIssueExecutionAndPromote: nothing unless r owns an
\* issue; else its lease is released, the lock is cleared, the deferred wakeups
\* of agents that cannot be invoked are dropped, and the oldest other one becomes
\* a queued run that owns the issue, without a lease.
ReleaseLease(i) ==
  LET r == lockLease[i]
  IN  IF r # None /\ lease[r] = "active"
      THEN [lease EXCEPT ![r] = "released"] ELSE lease

Unlock(i) == /\ lock' = [lock EXCEPT ![i] = None]
             /\ lockLease' = [lockLease EXCEPT ![i] = None]
             /\ lockKey' = [lockKey EXCEPT ![i] = None]

\* Mutated: the promoted run does not become the named owner.
PromoteKeepingKey(i, n, a) ==
  /\ Insert(n, a, i, None)
  /\ lock' = [lock EXCEPT ![i] = n]
  /\ lockLease' = [lockLease EXCEPT ![i] = None]
  /\ UNCHANGED lockKey

Promote(i, n, a) ==
  /\ Insert(n, a, i, None)
  /\ lock' = [lock EXCEPT ![i] = n]
  /\ lockLease' = [lockLease EXCEPT ![i] = None]
  /\ lockKey' = [lockKey EXCEPT ![i] = a]

FirstInvokable(i, k) == /\ k \in DOMAIN deferred[i]
                        /\ deferred[i][k] \in invokable
                        /\ \A j \in 1..(k - 1) : deferred[i][j] \notin invokable

\* No transaction holds the row of i.
Free(i) == adopting[i] = NotAdopting

\* Mutated: the deferred wakeups are forgotten.
ReleaseOnly(r) ==
  /\ UNCHANGED <<status, agent, issue, retryOf, detached, deferred, adopting>>
  /\ \/ (\A i \in Issues : lock[i] # r) /\ UNCHANGED <<lease, locks>>
     \/ \E i \in Issues : lock[i] = r /\ lease' = ReleaseLease(i) /\ Unlock(i)

ReleaseAndPromote(r) ==
  /\ detached' = detached
  /\ \/ /\ \A i \in Issues : lock[i] # r
        /\ UNCHANGED <<status, agent, issue, retryOf, lease, locks>>
     \/ \E i \in Issues :
          /\ lock[i] = r /\ Free(i)
          /\ lease' = ReleaseLease(i)
          /\ adopting' = adopting
          /\ \/ /\ \A k \in DOMAIN deferred[i] : deferred[i][k] \notin invokable
                /\ Unlock(i)
                /\ deferred' = [deferred EXCEPT ![i] = <<>>]
                /\ UNCHANGED <<status, agent, issue, retryOf>>
             \/ \E k \in DOMAIN deferred[i], n \in Runs :
                  /\ FirstInvokable(i, k)
                  /\ Promote(i, n, deferred[i][k])
                  /\ deferred' = [deferred EXCEPT ![i] = SubSeq(@, k + 1, Len(@))]

-----------------------------------------------------------------------------
(* enqueueWakeup, for an issue. *)

\* The active run the wakeup finds: the one the lock names, else, with the lock
\* cleared, a running and then a queued run of the issue, the oldest first.
Held(i) == lock[i] # None /\ status[lock[i]] \in Active
Precedes(r, q) == IF status[r] = status[q] THEN r <= q ELSE status[r] = "running"
\* Mutated: a queued run does not count.
IsRunningOwner(i, r) ==
  /\ r \in ActiveOn(i) /\ status[r] = "running"
  /\ \A q \in ActiveOn(i) : Precedes(r, q)

IsOwner(i, r) ==
  \/ Held(i) /\ lock[i] = r
  \/ /\ ~Held(i)
     /\ r \in ActiveOn(i)
     /\ \A q \in ActiveOn(i) : Precedes(r, q)

\* The agent it takes for the owner: the lock's key as read, even of a cleared lock.
OwnerKey(i, r) == IF lockKey[i] # None THEN lockKey[i] ELSE agent[r]

\* Mutated: the key names the run.
AdoptNamingRun(i, r) ==
  /\ lock' = [lock EXCEPT ![i] = r]
  /\ lockKey' = [lockKey EXCEPT ![i] = r]
  /\ lockLease' = [lockLease EXCEPT ![i] = IF lock[i] = None THEN @ ELSE None]

Adopt(i, r) ==
  /\ lock' = [lock EXCEPT ![i] = r]
  /\ lockKey' = [lockKey EXCEPT ![i] = agent[r]]
  /\ lockLease' = [lockLease EXCEPT ![i] = IF lock[i] = None THEN @ ELSE None]

\* Mutated: the leases of earlier runs are left active.
WakeNewKeepingLeases(a, i) ==
  /\ a \in invokable /\ IdLeft
  /\ Free(i)
  /\ \A r \in Runs : ~IsOwner(i, r)
  /\ \E n \in Runs : /\ Insert(n, a, i, None)
                     /\ lease' = [lease EXCEPT ![n] = "active"]
                     /\ lock' = [lock EXCEPT ![i] = n]
                     /\ lockLease' = [lockLease EXCEPT ![i] = n]
  /\ lockKey' = [lockKey EXCEPT ![i] = a]
  /\ UNCHANGED <<detached, deferred, adopting, invokable, memory, crashes>>

\* Nobody works on the issue: a new run gets its lock and the only active lease.
WakeNew(a, i) ==
  /\ a \in invokable /\ IdLeft
  /\ Free(i)
  /\ \A r \in Runs : ~IsOwner(i, r)
  /\ \E n \in Runs :
       /\ Insert(n, a, i, None)
       /\ lease' = [r \in Runs |->
                      IF r = n THEN "active"
                      ELSE IF issue[r] = i /\ lease[r] = "active" THEN "released"
                      ELSE lease[r]]
       /\ lock' = [lock EXCEPT ![i] = n]
       /\ lockLease' = [lockLease EXCEPT ![i] = n]
  /\ lockKey' = [lockKey EXCEPT ![i] = a]
  /\ UNCHANGED <<detached, deferred, adopting, invokable, memory, crashes>>

\* A wakeup for the owner's agent is merged into the owner, except a comment's
\* while the owner is running; any other is deferred.
Merges(a, i, r, comment) == OwnerKey(i, r) = a /\ ~(comment /\ status[r] = "running")

\* A wakeup that is deferred is merged into the agent's deferred one, if it has one.
Waits(i, a) == \E k \in DOMAIN deferred[i] : deferred[i][k] = a
Defer(i, a) == deferred' = IF Waits(i, a) THEN deferred
                           ELSE [deferred EXCEPT ![i] = Append(@, a)]

\* The owner is the run that the lock names: should it end at once, its release still
\* waits for the issue's row, and then finds the wakeup.  (One that is merged changes
\* nothing.)
WakeDeferred(a, i, comment) ==
  /\ a \in invokable
  /\ Waits(i, a) \/ IdLeft
  /\ Free(i) /\ Held(i)
  /\ ~Merges(a, i, lock[i], comment)
  /\ Defer(i, a)
  /\ UNCHANGED <<rows, lock, lockLease, lockKey, adopting, invokable, memory, crashes>>

\* The owner is another active run of the issue.  Its row is not locked, and as long
\* as the transaction is under way its release finds no issue that names it.
WakeFind(a, i, comment) ==
  /\ a \in invokable
  /\ Free(i) /\ ~Held(i)
  /\ \E r \in Runs :
       /\ IsOwner(i, r)
       /\ Merges(a, i, r, comment) \/ IdLeft
       /\ adopting' = [adopting EXCEPT ![i] =
            [run |-> r, waiter |-> IF Merges(a, i, r, comment) THEN None ELSE a]]
  /\ UNCHANGED <<rows, lock, lockLease, lockKey, deferred, invokable, memory, crashes>>

\* The transaction commits.
WakeAdopt(i) ==
  /\ ~Free(i)
  /\ Adopt(i, adopting[i].run)
  /\ IF adopting[i].waiter = None THEN UNCHANGED deferred ELSE Defer(i, adopting[i].waiter)
  /\ adopting' = [adopting EXCEPT ![i] = NotAdopting]
  /\ UNCHANGED <<rows, invokable, memory, crashes>>

\* A mention leaves the issue lock alone: unless the agent has a queued run on
\* the issue, it gets a new one, with neither lock nor lease.
WakeMention(a, i) ==
  /\ "mention" \in Faults
  /\ a \in invokable /\ IdLeft
  /\ \A r \in ActiveOn(i) : ~(agent[r] = a /\ status[r] = "queued")
  /\ \E n \in Runs : Insert(n, a, i, None)
  /\ UNCHANGED <<lease, detached, locks, invokable, memory, crashes>>

-----------------------------------------------------------------------------
(* A run's execution: claimQueuedRun and executeRun. *)

\* Mutated: one run too many.
ClaimOneMore(r) ==
  /\ status[r] = "queued"
  /\ agent[r] \in invokable
  /\ Cardinality(RunningOf(agent[r])) <= MaxConcurrent
  /\ status' = [status EXCEPT ![r] = "running"]
  /\ exec' = [exec EXCEPT ![r] = "claimed"]
  /\ UNCHANGED <<agent, issue, retryOf, lease, detached, locks, invokable, child, pass,
                 stale, canc, closing, crashes>>

Claim(r) ==
  /\ status[r] = "queued"
  /\ agent[r] \in invokable
  /\ Cardinality(RunningOf(agent[r])) < MaxConcurrent
  /\ \A q \in Runs : agent[q] = agent[r] /\ status[q] = "queued" => r <= q
  /\ status' = [status EXCEPT ![r] = "running"]
  /\ exec' = [exec EXCEPT ![r] = "claimed"]
  /\ UNCHANGED <<agent, issue, retryOf, lease, detached, locks, invokable, child, pass,
                 stale, canc, closing, crashes>>

Goes(r, from, to) ==
  /\ exec[r] = from
  /\ exec' = [exec EXCEPT ![r] = to]

EXEC_UNCHANGED == UNCHANGED <<rows, locks, invokable, pass, stale, canc, closing, crashes>>

\* executeRun reads the run and goes on only if it is still active.
Launch(r) ==
  /\ Goes(r, "claimed", IF status[r] \in Active THEN "setup" ELSE "none")
  /\ EXEC_UNCHANGED /\ UNCHANGED child

\* Either catch block ends the run alike; this is the inner one's.
SetupFails(r) == Goes(r, "setup", "wrThrown") /\ EXEC_UNCHANGED /\ UNCHANGED child

\* The status is not read again before the adapter is called.
CallAdapter(r) ==
  /\ Goes(r, "setup", "adapter")
  /\ child' = IF IsLocal(r) THEN [child EXCEPT ![r] = "alive"] ELSE child
  /\ EXEC_UNCHANGED

ChildExits(r) == /\ child[r] = "alive"
                 /\ child' = [child EXCEPT ![r] = "dead"]
                 /\ EXEC_UNCHANGED /\ UNCHANGED exec

\* The adapter returns a result or throws.
AdapterEnds(r) ==
  /\ child[r] # "alive"
  /\ \E to \in {"exit", "wrThrown"} : Goes(r, "adapter", to)
  /\ EXEC_UNCHANGED /\ UNCHANGED child

\* A cancellation read now is kept, any other status is about to be overwritten.
ReadLatest(r) ==
  /\ IF status[r] = "cancelled" THEN Goes(r, "exit", "wrCancel")
     ELSE \E to \in {"wrOk", "wrFail"} : Goes(r, "exit", to)
  /\ EXEC_UNCHANGED /\ UNCHANGED child

WriteOutcome(r) ==
  /\ \/ Goes(r, "wrOk", "relOk") /\ SetRunStatus(r, "succeeded")
     \/ Goes(r, "wrCancel", "relBad") /\ SetRunStatus(r, "cancelled")
     \/ /\ \/ Goes(r, "wrFail", "relBad")
           \/ Goes(r, "wrThrown", "relThrown")
           \/ Goes(r, "wrLast", "relLast")
        /\ SetRunStatus(r, "failed")
  /\ UNCHANGED <<locks, invokable, child, pass, stale, canc, closing, crashes>>

Release(r) ==
  /\ \/ Goes(r, "relOk", "policy")
     \/ \E from \in Releasing \ {"relOk"} : Goes(r, from, "none")
  /\ ReleaseAndPromote(r)
  /\ UNCHANGED <<invokable, child, pass, stale, canc, closing, crashes>>

\* The terminal-state policy fails a success that left the issue it had checked
\* out as it was, without a comment and without a keepalive.
ApplyPolicy(r) ==
  /\ Goes(r, "policy", "none")
  /\ UNCHANGED rows \/ SetRunStatus(r, "failed")
  /\ UNCHANGED <<locks, invokable, child, pass, stale, canc, closing, crashes>>

\* A statement fails: the rest is left to the inner catch block, from there to the
\* outer one, which goes on after a failure of its own.
Throw(r) ==
  /\ "throw" \in Faults
  /\ \/ \E from \in Returned : Goes(r, from, "wrThrown")
     \/ \E from \in {"wrThrown", "relThrown"} : Goes(r, from, "wrLast")
     \/ Goes(r, "wrLast", "relLast")
     \/ Goes(r, "relLast", "none")
  /\ EXEC_UNCHANGED /\ UNCHANGED child

\* clearDetachedRunWarning: a child that lives on reports the run's activity.
ReportActivity(r) ==
  /\ r \in detached /\ status[r] = "running"
  /\ child[r] = "alive"
  /\ detached' = detached \ {r}
  /\ UNCHANGED <<status, agent, issue, retryOf, lease, locks, invokable, memory, crashes>>

Execute(r) == \/ Launch(r) \/ SetupFails(r) \/ CallAdapter(r) \/ AdapterEnds(r)
              \/ ReadLatest(r) \/ WriteOutcome(r) \/ Release(r) \/ ApplyPolicy(r)

-----------------------------------------------------------------------------
(* reapOrphanedRuns. *)

\* Mutated: no staleness threshold.
AnyRunning == {r \in Runs : status[r] = "running"}

\* The running rows of a pass that are stale.  A run just claimed never is; one
\* that executes is only if it has been silent for the threshold.
StaleRunning == {r \in Runs : /\ status[r] = "running"
                              /\ exec[r] # "claimed"
                              /\ "silent" \in Faults \/ exec[r] = "none"}

\* The run is in the activeRunExecutions of the heartbeatService that launched it,
\* which is not always the reaper's; runningProcesses is common to all of them, but
\* a run that was ended may have been taken out of it.
Launched(r) == exec[r] \notin {"none", "claimed"}
HasProcess(r) == exec[r] = "adapter" /\ child[r] = "alive" /\ status[r] \in Active

REAPER_UNCHANGED == UNCHANGED <<invokable, exec, child, stale, canc, closing, crashes>>

ReapStart(p) ==
  /\ pass[p].pc = "idle"
  /\ StaleRunning # {}
  /\ pass' = [pass EXCEPT ![p] =
       [pc |-> "scan", todo |-> StaleRunning,
        pids |-> {r \in StaleRunning : child[r] # "none"},
        known |-> StaleRunning \cap detached, run |-> None, retry |-> FALSE]]
  /\ REAPER_UNCHANGED /\ UNCHANGED <<rows, locks>>

\* The pass has dealt with the runs of the snapshot up to those left to do.
GoOn(p, left) ==
  pass' = [pass EXCEPT ![p] =
             IF left = {} THEN IdlePass
             ELSE [@ EXCEPT !.pc = "scan", !.todo = left, !.run = None, !.retry = FALSE]]

ReapSkip(p, r) ==
  /\ r \in pass[p].todo /\ pass[p].pc = "scan"
  /\ Launched(r)
  /\ GoOn(p, pass[p].todo \ {r})
  /\ REAPER_UNCHANGED /\ UNCHANGED <<rows, locks>>

Detachable(p, r) == IsLocal(r) /\ r \in pass[p].pids /\ child[r] = "alive"

\* Its child lives on: unless that was known, the row is marked, and running.
ReapDetached(p, r) ==
  /\ r \in pass[p].todo /\ pass[p].pc = "scan"
  /\ ~HasProcess(r)
  /\ Detachable(p, r)
  /\ IF r \in pass[p].known
     THEN UNCHANGED rows
     ELSE SetRunStatus(r, "running")
  /\ GoOn(p, pass[p].todo \ {r})
  /\ REAPER_UNCHANGED /\ UNCHANGED locks

\* Mutated: the failure is not written.
ReapFailUnwritten(p, r) ==
  /\ r \in pass[p].todo /\ pass[p].pc = "scan"
  /\ ~HasProcess(r)
  /\ ~Detachable(p, r)
  /\ pass' = [pass EXCEPT ![p].pc = "failed", ![p].todo = @ \ {r}, ![p].run = r,
                ![p].retry = IsLocal(r) /\ r \in pass[p].pids /\ retryOf[r] = None]
  /\ REAPER_UNCHANGED /\ UNCHANGED <<rows, locks>>

\* Mutated: a local run whose pid was never recorded is waited for.
ReapFailWithPid(p, r) ==
  /\ r \in pass[p].todo /\ pass[p].pc = "scan"
  /\ ~HasProcess(r)
  /\ ~Detachable(p, r) /\ r \in pass[p].pids
  /\ SetRunStatus(r, "failed")
  /\ pass' = [pass EXCEPT ![p].pc = "failed", ![p].todo = @ \ {r}, ![p].run = r,
                ![p].retry = IsLocal(r) /\ retryOf[r] = None]
  /\ REAPER_UNCHANGED /\ UNCHANGED locks

ReapFail(p, r) ==
  /\ r \in pass[p].todo /\ pass[p].pc = "scan"
  /\ ~HasProcess(r)
  /\ ~Detachable(p, r)
  /\ SetRunStatus(r, "failed")
  /\ pass' = [pass EXCEPT ![p].pc = "failed", ![p].todo = @ \ {r}, ![p].run = r,
                ![p].retry = IsLocal(r) /\ r \in pass[p].pids /\ retryOf[r] = None]
  /\ REAPER_UNCHANGED /\ UNCHANGED locks

\* enqueueProcessLossRetry: the retry takes the lock over if it still is r's.
ReapRetry(p) ==
  LET r == pass[p].run
  IN  /\ pass[p].pc = "failed" /\ pass[p].retry
      /\ \E n \in Runs :
           /\ Insert(n, agent[r], issue[r], r)
           /\ lock' = [i \in Issues |-> IF lock[i] = r THEN n ELSE lock[i]]
           /\ lockKey' = [i \in Issues |-> IF lock[i] = r THEN agent[r] ELSE lockKey[i]]
      /\ \A i \in Issues : lock[i] = r => Free(i)
      /\ GoOn(p, pass[p].todo)
      /\ REAPER_UNCHANGED /\ UNCHANGED <<detached, lease, lockLease, deferred, adopting>>

ReapRelease(p) ==
  /\ pass[p].pc = "failed" /\ ~pass[p].retry
  /\ ReleaseAndPromote(pass[p].run)
  /\ GoOn(p, pass[p].todo)
  /\ REAPER_UNCHANGED

Reap(p) == \/ ReapStart(p) \/ ReapRetry(p) \/ ReapRelease(p)
           \/ \E r \in Runs : ReapSkip(p, r) \/ ReapDetached(p, r) \/ ReapFail(p, r)

-----------------------------------------------------------------------------
(* reapStaleLeaseRuns. *)

STALE_UNCHANGED == UNCHANGED <<deferred, adopting, invokable, exec, child, pass, canc,
                               closing, crashes>>

LeaseExpires(r) ==
  /\ "expire" \in Faults
  /\ lease[r] = "active"
  /\ lease' = [lease EXCEPT ![r] = "expired"]
  /\ UNCHANGED <<status, agent, issue, retryOf, detached, lock, lockLease, lockKey, stale>>
  /\ STALE_UNCHANGED

StaleFind(r) ==
  /\ lease[r] = "expired" /\ status[r] \in Active
  /\ stale[r] = "none"
  /\ stale' = [stale EXCEPT ![r] = "found"]
  /\ UNCHANGED <<rows, lock, lockLease, lockKey>>
  /\ STALE_UNCHANGED

\* It looks for the issue the run owns and fails the run, whatever its status.
StaleFail(r) ==
  /\ stale[r] = "found"
  /\ stale' = [stale EXCEPT ![r] = IF \E i \in Issues : lock[i] = r
                                   THEN "unlock" ELSE "none"]
  /\ SetRunStatus(r, "failed")
  /\ UNCHANGED <<lock, lockLease, lockKey>>
  /\ STALE_UNCHANGED

\* It clears that issue's lock, whoever owns it now, and promotes nothing.
StaleUnlock(r) ==
  /\ stale[r] = "unlock"
  /\ Free(issue[r])
  /\ stale' = [stale EXCEPT ![r] = "none"]
  /\ Unlock(issue[r])
  /\ UNCHANGED rows
  /\ STALE_UNCHANGED

StaleReap(r) == StaleFind(r) \/ StaleFail(r) \/ StaleUnlock(r)

-----------------------------------------------------------------------------
(* Cancellation, by an operator (cancelRunInternal) or with the agent's pause. *)

CANC_UNCHANGED == UNCHANGED <<exec, child, pass, stale, closing, crashes>>

CancelRead(r) ==
  /\ "cancel" \in Faults
  /\ status[r] \in Active
  /\ canc[r] = "none"
  /\ canc' = [canc EXCEPT ![r] = "read"]
  /\ CANC_UNCHANGED /\ UNCHANGED <<rows, locks, invokable>>

CancelWrite(r) ==
  /\ canc[r] = "read"
  /\ canc' = [canc EXCEPT ![r] = "written"]
  /\ SetRunStatus(r, "cancelled")
  /\ CANC_UNCHANGED /\ UNCHANGED <<locks, invokable>>

CancelRelease(r) ==
  /\ canc[r] = "written"
  /\ canc' = [canc EXCEPT ![r] = "none"]
  /\ ReleaseAndPromote(r)
  /\ CANC_UNCHANGED /\ UNCHANGED invokable

\* Pausing an agent cancels the runs it has then.
Pause(a) ==
  /\ "pause" \in Faults
  /\ a \in invokable
  /\ invokable' = invokable \ {a}
  /\ canc' = [r \in Runs |-> IF agent[r] = a /\ status[r] \in Active /\ canc[r] = "none"
                             THEN "read" ELSE canc[r]]
  /\ CANC_UNCHANGED /\ UNCHANGED <<rows, locks>>

Unpause(a) ==
  /\ a \notin invokable
  /\ invokable' = invokable \cup {a}
  /\ CANC_UNCHANGED /\ UNCHANGED <<rows, locks, canc>>

-----------------------------------------------------------------------------
(* The reconciler's closeOrphanedRuns. *)

Unleased == {r \in Runs : status[r] = "running" /\ lease[r] # "active"}

CloseFind ==
  /\ "reconcile" \in Faults
  /\ closing = {}
  /\ Unleased # {}
  /\ closing' = Unleased
  /\ UNCHANGED <<rows, locks, invokable, exec, child, pass, stale, canc, crashes>>

\* A run found is failed if it still is running, and the lock of an issue it owns
\* is cleared in any case, but for its executionAgentNameKey.
Close(r) ==
  /\ r \in closing
  /\ \A i \in Issues : lock[i] = r => Free(i)
  /\ closing' = closing \ {r}
  /\ IF status[r] = "running" THEN SetRunStatus(r, "failed") ELSE UNCHANGED rows
  /\ lock' = [i \in Issues |-> IF lock[i] = r THEN None ELSE lock[i]]
  /\ lockLease' = [i \in Issues |-> IF lock[i] = r THEN None ELSE lockLease[i]]
  /\ UNCHANGED <<lockKey, deferred, adopting, invokable, exec, child, pass, stale, canc,
                 crashes>>

-----------------------------------------------------------------------------
\* The server restarts: its memory is gone, its transactions are rolled back; the rows
\* and the children stay.
Crash ==
  /\ "crash" \in Faults
  /\ crashes < MaxCrashes
  /\ crashes' = crashes + 1
  /\ exec' = [r \in Runs |-> "none"]
  /\ pass' = [p \in Reapers |-> IdlePass]
  /\ stale' = [r \in Runs |-> "none"]
  /\ canc' = [r \in Runs |-> "none"]
  /\ closing' = {}
  /\ adopting' = [i \in Issues |-> NotAdopting]
  /\ UNCHANGED <<rows, lock, lockLease, lockKey, deferred, invokable, child>>

Wake(a, i) ==
  \/ WakeNew(a, i) \/ WakeMention(a, i) \/ WakeAdopt(i)
  \/ \E comment \in BOOLEAN : WakeDeferred(a, i, comment) \/ WakeFind(a, i, comment)

Cancel(r) == CancelRead(r) \/ CancelWrite(r) \/ CancelRelease(r)

Next == \/ \E a \in Agents, i \in Issues : Wake(a, i)
        \/ \E r \in Runs : Claim(r) \/ Execute(r) \/ Throw(r)
        \/ \E r \in Runs : ChildExits(r) \/ ReportActivity(r)
        \/ \E p \in Reapers : Reap(p)
        \/ \E r \in Runs : LeaseExpires(r) \/ StaleReap(r) \/ Cancel(r) \/ Close(r)
        \/ \E a \in Agents : Pause(a) \/ Unpause(a)
        \/ CloseFind \/ Crash

Spec == Init /\ [][Next]_vars

\* Promises that can settle do: executions, cancellations, transactions and passes go on,
\* the scheduler tick starts runs and passes.  Two assumptions are about the environment:
\* a paused agent is resumed, and an adapter without a local child gets an answer.  That a
\* child exits is not assumed: by default no timeout makes it.
Fairness == /\ \A r \in Runs : WF_vars(Claim(r)) /\ WF_vars(Execute(r))
            /\ \A r \in Runs : WF_vars(StaleReap(r))
            /\ \A i \in Issues : WF_vars(WakeAdopt(i))
            /\ \A r \in Runs : WF_vars(CancelWrite(r) \/ CancelRelease(r))
            /\ \A p \in Reapers : WF_vars(Reap(p))
            /\ \A a \in Agents : WF_vars(Unpause(a))

FairSpec == Spec /\ Fairness

-----------------------------------------------------------------------------
(* Properties. *)

TypeOK ==
  /\ status \in [Runs -> Statuses] /\ lease \in [Runs -> Leases]
  /\ agent \in [Runs -> Agents] /\ issue \in [Runs -> Issues]
  /\ retryOf \in [Runs -> Runs \cup {None}] /\ detached \subseteq Runs
  /\ lock \in [Issues -> Runs \cup {None}] /\ lockLease \in [Issues -> Runs \cup {None}]
  /\ lockKey \in [Issues -> Agents \cup {None}]
  /\ deferred \in [Issues -> Seq(Agents)]
  /\ adopting \in [Issues -> {NotAdopting}
                               \cup [run : Runs, waiter : Agents \cup {None}]]
  /\ invokable \subseteq Agents
  /\ exec \in [Runs -> ExecPcs] /\ child \in [Runs -> {"none", "alive", "dead"}]
  /\ pass \in [Reapers -> [pc : {"idle", "scan", "failed"}, todo : SUBSET Runs,
                           pids : SUBSET Runs, known : SUBSET Runs,
                           run : Runs \cup {None}, retry : BOOLEAN]]
  /\ stale \in [Runs -> {"none", "found", "unlock"}]
  /\ canc \in [Runs -> {"none", "read", "written"}]
  /\ closing \subseteq Runs
  /\ crashes \in 0..MaxCrashes

\* "One issue gets at most one active execution lease at a time" (README.md:119),
\* whatever fails: WakeNew alone grants one, and releases the others; a renewal finds
\* only active ones (lease-manager.ts:302-339, 363-405).
LeaseUnique ==
  \A r, q \in Runs :
    lease[r] = "active" /\ lease[q] = "active" /\ issue[r] = issue[q] => r = q

\* "A single issue never has more than one active execution owner run
\* (queued|running) at once" (doc/plans/2026-02-20-issue-run-orchestration-plan.md:133).
OneActivePath == \A i \in Issues : Cardinality(ActiveOn(i)) <= 1

\* At most one execution works on an issue, whatever the rows say.
Working(r) == exec[r] \in {"setup", "adapter"} \/ child[r] = "alive"
OneExecutor ==
  \A r, q \in Runs : Working(r) /\ Working(q) /\ issue[r] = issue[q] => r = q

\* An ended run stays as it ended: no late answer, cancellation or reaper
\* overwrites its outcome, and only the terminal-state policy rejects a success
\* (setRunStatus has no condition on the status it replaces).
EndedStaysEnded ==
  [][\A r \in Runs : status[r] \in Ended =>
       \/ status'[r] = status[r]
       \/ status[r] = "succeeded" /\ exec[r] = "policy" /\ status'[r] = "failed"]_vars

\* A lost run is retried at most once (enqueueProcessLossRetry;
\* server/src/__tests__/heartbeat-process-recovery.test.ts:179).
RetryOnce ==
  \A r, q \in Runs : retryOf[r] # None /\ retryOf[r] = retryOf[q] => r = q

\* "When the active issue run finishes, promote the oldest deferred request"
\* (doc/plans/2026-02-20-issue-run-orchestration-plan.md:62): a deferred wakeup
\* always has an owner that is active or is being ended.
WillRelease(r) == \/ status[r] \in Active
                  \/ exec[r] \in Releasing \cup {"wrThrown", "wrLast"}
                  \/ canc[r] = "written" \/ stale[r] = "unlock"
                  \/ \E p \in Reapers : pass[p].run = r
DeferredIsHeld ==
  \A i \in Issues :
    deferred[i] # <<>> => lock[i] # None /\ WillRelease(lock[i])

\* A wakeup is only ever merged into a run of its own agent
\* (doc/plans/2026-02-20-issue-run-orchestration-plan.md:135).
MergedIntoOwn ==
  \A i \in Issues, r \in Runs : IsOwner(i, r) => OwnerKey(i, r) = agent[r]

\* A deferred wakeup is served in the end.
DeferredServed ==
  \A i \in Issues, a \in Agents :
    (\E k \in DOMAIN deferred[i] : deferred[i][k] = a)
      ~> ~(\E k \in DOMAIN deferred[i] : deferred[i][k] = a)

\* Every run ends, whatever the server loses, unless a run of its agent that has a child
\* that never exits keeps running, or is set running again and again (no timeout ends it
\* by default: adapter-utils' runChildProcess sets a timer only for a timeoutSec above
\* zero).
Hung(a) == \E q \in Runs : agent[q] = a /\ status[q] = "running" /\ child[q] = "alive"
RunsEnd ==
  \A r \in Runs : \/ status[r] \in Active ~> status[r] \in Ended
                  \/ []<>Hung(agent[r])

Pool == INSTANCE RunPool WITH runStatus <- status, runAgent <- agent
\* Issue execution implements the run pool.
ImplementsPool == Pool!Spec
=============================================================================
