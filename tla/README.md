# A TLA+ model of Papierklammer's execution engine

Papierklammer is a control plane for teams of software agents. Companies own
agents and issues; the server decides which agent runs when, on which issue, and
records every run. Its core is `server/src/services/heartbeat.ts`: 4400 lines in
which wakeups become runs, runs are started under a limit, executed, ended,
cancelled, reaped and retried, and in which an issue is given to one run at a
time. Everything there is `async` code over PostgreSQL: between any two awaited
statements other handlers, timers and reapers run, and the server may restart.

Around it stand the issue row with its checkout lock, the queue of dispatch intents
with its scheduler, issue dependencies, the routines and the lifecycle of a company.

This directory models them, checks them with TLC on small instances and proves the
properties that matter most with TLAPS for every size.

## 1. Inventory

### 1.1 The parts and their state

| Part (under `server/src`) | State | Operations | Modelled in |
|---|---|---|---|
| run start (`services/heartbeat.ts`) | `heartbeat_runs.status`; `startLocksByAgent`, a chain of promises per agent, in memory; `activeRunExecutions` | `withAgentStartLock`, `startNextQueuedRunForAgent`, `claimQueuedRun`, `resumeQueuedRuns`, the end of `cancelRunInternal` | `AgentStart` |
| issue execution (same file) | `issues.executionRunId`, `executionLeaseId`, `executionAgentNameKey`; `agent_wakeup_requests` (`deferred_issue_execution`); `execution_leases` | `enqueueWakeup`, `executeRun`, `releaseIssueExecutionAndPromote`, `cancelRunInternal`, `cancelActiveForAgentInternal` | `IssueExecution` |
| orphan reaper and retry (same file) | the rows; `runningProcesses`, `activeRunExecutions`, the children | `reapOrphanedRuns`, `enqueueProcessLossRetry`, `clearDetachedRunWarning` | `IssueExecution` |
| stale-lease reaper (same file) | runs, leases, the issue lock | `reapStaleLeaseRuns` | `IssueExecution` |
| reconciler (`services/reconciler.ts`) | runs, leases, intents, issues | `closeOrphanedRuns`, `invalidateStaleIntents`, `clearGhostProjections` | `IssueExecution`, `IntentDispatch`, `IssueCheckout`, in this order |
| terminal-state policy | runs, comments, events | `enforceOnRunCompletion` | `IssueExecution` (`ApplyPolicy`) |
| bootstrap and tick (`index.ts`) | timers | startup recovery, the tick's passes | fairness and `Crash` of both modules |
| budgets | policies, incidents | hard stop and resume | the admission block, in `AgentStart` |
| company lifecycle (`services/company-lifecycle.ts`) | company status | `pause`, `resume`, `quiesceCompanyWork` | `IntentDispatch`, `IssueCheckout` |
| issue checkout (`services/issues.ts`) | issue status, assignee, `checkoutRunId`, `executionRunId` | `checkout`, `adoptStaleCheckoutRun`, `assertCheckoutOwner`, `release`, `update`, `convergeExecutionState` | `IssueCheckout` |
| lease manager | `execution_leases` | grant, renew, release, expire | in part, `IssueExecution` and `IntentDispatch` |
| intents: queue, scheduler, dispatcher, envelopes, timer bridge | `dispatch_intents`, `execution_envelopes` | create, admit, reject, defer, invalidate; lease, run and envelope of an admitted one | `IntentLife`, `IntentDispatch` |
| dependencies | `issue_dependencies` | add (with a cycle check), remove; blocked, unblock | the last two in `IntentDispatch` |
| routines (`services/routines.ts`) | triggers, `routine_runs`, the connection pool | `tickScheduledTriggers`, `dispatchRoutineRun`, `updateTrigger`, `syncRunStatusForIssue` | `RoutineDispatch` |
| warm workspace pool | a map and an index in memory | register, lookup, evict | not modelled, see section 7 |
| orchestrator (`services/orchestrator.ts`) | | `recoverIssueForManualUnblock`, `recoverIssueForRun` | `IssueCheckout` |
| projections, escalation, event log | derived or append-only | `invalidateOnDone` | that one in `IntentDispatch` |
| plugin workers and jobs, adapters, workspaces, UI, CLI, portability, access, costs | | | not modelled, see section 7 |

### 1.2 How they interact

* A wakeup (a timer, an assignment, a comment, an API call) makes a queued run and
  the issue's lock in one transaction, or is merged into the owner, or is deferred.
* Everything that may have made work startable calls `startNextQueuedRunForAgent`,
  which claims runs and calls `executeRun` for each without waiting for it.
* `executeRun` prepares a workspace, calls the adapter, writes the outcome, releases
  the issue, which promotes a deferred wakeup to a run and starts *its* agent, then
  applies the terminal-state policy and starts its own agent again.
* Cancellations, the two reapers and the reconciler end runs behind the back of
  their execution, each by reading rows first and writing them later.
* Independently of the heartbeat's lock, an agent's run takes `checkoutRunId` of an
  issue; taking it takes `executionRunId` too, and every other writer of that row
  (patches, releases, reads that converge, repairs, reapers, pauses) writes the same
  fields by conditions of its own.
* Assignments, timers and finished dependencies create intents; a scheduler pass turns
  an admitted intent into a lease, a run and an envelope. Two intents with one dedupe
  key replace each other; a finished issue, the reconciler and a pause reject them.
* A due trigger is claimed by a pass and dispatched under the lock of its routine's row
  into an issue with an intent, while calls of the API dispatch the same routine.
* A restart loses the chains, the executions and the passes under way, and keeps the
  rows and those child processes that live on.

### 1.3 What is hard, and what would be correct

The hard behaviours are the hazards of `PROJECT.json`, each at its line: counts and
claims that race, snapshots that are stale when they are used, an end of a run that
is two statements with a restart in between, late answers of cancelled runs, passes
that overlap, a lock awaited by its own holder, catch blocks that write again.
The properties, by component:

* start: the limit of running runs holds; the oldest queued run starts first; a run
  starts only from queued; queued work does not stay queued.
* issue execution: one active run and one execution per issue, one active lease,
  nothing ended is overwritten, a wakeup merges only into its own agent's run, a
  deferred wakeup always has an owner that will end, and is served.
* recovery: every lost run is ended and retried at most once.
* issue checkout: only an issue in progress is checked out, its run has the execution
  lock, a checkout is taken over only from a run that has ended, and an issue without a
  run does not stay in progress.
* intents: one run per intent, nothing lost to deduplication, and an issue deferred for
  its dependencies is woken when they are done.
* routines: an occurrence is dispatched at most once, a routine has one execution, and a
  key makes one run. That dispatches do not wait for each other's connections would be
  another, but nothing in the code makes it so (section 4).

## 2. The modules

| Module | What it is |
|---|---|
| `RunPool` | The abstract specification: runs are created queued, start once and only into a free slot of their agent, end, and stay as they ended unless a success is rejected (`Spec`) or another writer's outcome replaces theirs (`LateSpec`). No lock, no wakeup, no memory. |
| `AgentStart` | The start lock, statement by statement. Implements `RunPool` with late writers (`LateSpec`). |
| `IssueExecution` | Wakeups, the issue lock, executions, reapers, cancellation, reconciler. Implements `RunPool` when nothing fails but the server. |
| `IssueCheckout` | The issue row under all of its writers: requests, wakeups, repairs, pauses. |
| `IntentLife` | The abstract specification of the queue: an intent leaves it once, and gets one run at most. |
| `IntentDispatch` | Creators, scheduler passes, finished issues and whoever clears the queue. Implements `IntentLife`. |
| `RoutineDispatch` | Scheduler passes, calls and the dispatch transaction of one routine. |
| `MC...` | Values of the constants of the module that follows, for TLC. |
| `..._proofs` | Theorems about the module before it, and their proofs. |
| `IssueRuns_proofs`, `IssueLock_proofs` | More about `IssueExecution`: the runs by themselves, and the runs with the lock of their issue. |
| `IntentQueue_proofs` | More about `IntentDispatch`: the refinement of `IntentLife`, deduplication, wakes. |

### 2.1 `AgentStart` and the code

`call[c]` is the local state of one `startNextQueuedRunForAgent`; its `pc` names the
statement it has come to. `chain[a]` is `startLocksByAgent.get(a)`: a call runs only
as the head of its agent's chain, and `Leave` is the `finally` that settles the
promise. `CountSlots`, `SelectQueued`, `CheckAdmission`, `Claim` and `Launch` are the
awaited statements in between; `Claim` is the update `where status = 'queued'`.
`ReadRefused`, `CancelRefused`, `PromoteRefused` and `RestartOwnAgent` are
`cancelRunInternal` as called from `claimQueuedRun`, still under the lock;
`call[c].inner` is the start call that `c` awaits. `due` is the set of agents for which
some handler is about to make a start call: one that was made and has not joined the
chain. `Enqueue` and `Resume` are the callers without a run of their own.

Whoever ends a run reads its row and writes it later by its id, whatever it holds by
then, and each of them is two steps here: `Decide` and `Finish` (an execution whose
adapter has returned), `StopReads` and `StopWrites` (`cancelRunInternal`,
`cancelActiveForAgentInternal` and `reapStaleLeaseRuns`, which differ in what they do
next), and a pass of the orphan reaper, which takes its snapshot (`ReapSelect`) and then
passes each row over (`ReapSkip`), fails it (`ReapLost`) or, if its child lives
(`orphan`), writes it back to running with a note (`ReapDetached`). `revived` records the
runs that had ended when a pass did the last; they are the exception in
`MaxConcurrentRespected`. `block` is the company's or the budget's admission block.
`Crash` loses everything but the rows, the block and some of the children.

Abstracted: the agent's own status is folded into the block; `timed_out` is failed;
the `createdAt` order is the order of the run ids; with a promoted run only its
insertion and the start call of its agent are kept.

### 2.2 `IssueExecution` and the code

One action is one statement or one transaction.

* Wakeups: `WakeNew` and `WakeDeferred` are ends of `enqueueWakeup`'s transaction when
  there is no owner and when the lock names one (a wakeup merged into that one changes
  nothing), `WakeMention` the path that bypasses the lock. `IsOwner` is the search for
  the active run (the lock's, else a running and then a queued run of the issue),
  `OwnerKey` the name it compares with, `Adopt` what it does to the lock.
  Where the owner is found beyond the lock the transaction is two steps, `WakeFind` and
  `WakeAdopt`: it holds the issue's row (`adopting`, and `Free` in every other writer of
  that row) but not the run's, which may end, and release nothing, before the commit.
  A release that finds the row's lock naming its run waits for the row instead.
* Execution: `exec[r]` is the place of `executeRun`. `Claim` stands for the start lock
  of `AgentStart`; `Launch` is the status check at its top; `CallAdapter` does not look
  at the status again; `ReadLatest` decides the outcome; `WriteOutcome`, `Release` and
  `ApplyPolicy` are three statements later. `Throw` is a failing statement after the
  adapter returned, which leads to the inner and then to the outer catch block.
* `ReleaseAndPromote` is the transaction of `releaseIssueExecutionAndPromote`, used by
  four handlers.
* `pass[p]` is one `reapOrphanedRuns` pass: its snapshot (`todo`, `pids`, `known`) and
  the run it has failed and will retry (`ReapRetry`) or release (`ReapRelease`). Two
  elements of `Reapers` are two overlapping passes.
  `Launched` and `HasProcess` differ because `activeRunExecutions` belongs to one
  `heartbeatService(db)`, of which the server makes one in each of nine places, and `runningProcesses` to all.
* `stale[r]`, `canc[r]` and `closing` are the progress of the stale-lease reaper, of a
  cancellation and of the reconciler.

`Faults` says which of these may happen at all: `crash`, `silent` (an execution leaves
its row alone for five minutes, the reaper's threshold), `expire`, `throw`, `cancel`,
`pause`, `mention`, `reconcile`. Each run of section 3 names its own.

Abstracted: names of agents are the agents (two agents with one normalised name are one
owner); the time a lease has left is a step that may come at any time; a wakeup without
an issue takes no lock and is not here.

### 2.3 `IssueCheckout` and the code

One issue. `issue` is its row, cut down to status, assignee and the two locks; `run` says
whether a heartbeat run is there, active or ended; `req[q]` is one request under way.

* `Checkout` is the conditional update of `checkout`; when it changes nothing, `Reread`
  reads the row and either takes a free issue (`TakeFree`), suspects the checkout of
  being stale (`CheckStale`, `Adopt`), or answers with a conflict.
* `Ask` is the start of a PATCH or a release in the route, which reads the row and asks
  for the ownership only when the asking agent has the issue in progress
  (`AssertOwner`). `ReadRow` and `Patch` or `Release` are the two halves of the service:
  the update is made on whatever the row is by then.
* `Wake`, `End`, `ReleaseExecution`, `ReapRun` and `ReapLock` are what `heartbeat.ts` does
  to the row, `Converge` what a read of the issue does; `FindGhost` and `ClearGhost` are
  the reconciler, `ReadUnblock` to `ClearUnblocked` and `RecoverForRun` the orchestrator,
  `Pause` to `Resume` the company.

Abstracted: people assigned to an issue are `None`; the statuses with no rule of their
own (backlog, blocked, in review, cancelled) are `todo` or `done`; queued and running are
both active, so that a queued run a pause cancels in one statement and a running one it
cancels by `cancelRun` are both `CancelQuiesced`, the locks they leave being
`ReleaseExecution`; what a patch changes is chosen when it writes; a process may
outlive its run, so ended runs ask as well. `lease` says whether the issue has an active
lease, which keeps the reconciler from taking it for a ghost (`Ghost`): a wakeup grants
one, and `LeaseEnds` is its release or expiry. Renewals are not steps: they only put the
expiry off.

### 2.4 `IntentDispatch` and the code

`call[c]` is a handler that creates intents: `createIntent` from its admission check to
its insert (`CheckCompany`, `CheckOutranked`, `Bury`, `Supersede`, `InsertQueued`), once
for an assignment or a timer hint, or once for each dependent of a finished issue
(`FindDependents`, `NextDependent`, `ReadDependent`). `pass[p]` is one
`processQueuedIntents`: `Fetch` and the reads of `checkAdmission` in their order, the
conditional update that admits, rejects or defers (`Resolve`), and the three inserts of
an admitted intent. A row made by pass p for intent n is named <<n, p>>, so that two
passes that handled one intent would show as two rows.

A PATCH of an issue's status is two steps: `ReadPatch` reads the row, `Close` writes the
status whatever it has become and compares it with the one that was read. When they
differ it starts the two handlers that the route does not await: the dependents (in
`call`) and `invalidateOnDone` (in `closing`). When they are the same it tells nobody,
and an issue that was opened in between (`Reopen`, `Release`) and is closed in this way
is in `silent`. `Reassign` gives an issue to an agent or to nobody, `Release` takes it
from its agent and opens it; `given` records the issues that were given an agent when
nothing blocked them any more, which the dependency handler has passed over.
`quiesce` is a pause, `stale` what the reconciler has read.

Abstracted: `notBefore`, workspaces, budgets and unknown agents, which are further
reasons to reject; the five other intent types, which differ in their priority; what an
envelope says; a route that throws between its update and the handlers. `Reassign` has
no intent because the route makes none (it wakes the agent by `enqueueWakeup`). `Claim`,
`Refuse` and `Finish` are the part of `heartbeat.ts` that meets these runs.

`IntentLife` states what the rest of the system may rely on. It allows a run for a
rejected intent because a pause may reject one that a pass has just admitted.

### 2.5 `RoutineDispatch` and the code

One routine with one schedule trigger. `pass[p]` is `tickScheduledTriggers` (read, claim,
one dispatch per claimed occurrence), `disp[p]` the `dispatchRoutineRun` that a pass or a
call is in; its `pc` names the next statement. `lock` is the row lock that `for update`
takes, and whoever is between `Begin` and its commit has one of `Connections`; `Admit`,
`Create` and `Queue` go through `db` and need a second one. `Commit` is the end of every
path: `finalizeRun`, and `updateRoutineTouchedState`, which writes `nextRunAt` without a
condition. `issue[r]` is what run r has created: live while the execution that the
dispatch has queued is pending, woken when somebody has started another.

Time is counted in occurrences of the cron expression, so `NextTick` is the successor.
Abstracted: a company or budget block is a free choice at each of its two reads; the
source of a run is part of its trigger; the retry on a unique index (`create` failing
with 23505) is left out because the index only covers issues with an `executionRunId`,
which a new one does not have; statements of the pass itself and the activity log take
connections only for a moment and outside transactions.

### 2.6 Mutated definitions

Definitions under a comment that begins with "Mutated:" are plausible mistakes (an
update without its condition, a lookup that forgets the queued runs, a release that
does not promote). No specification uses them: each shows that a property notices.

## 3. The runs

Distinct states are those TLC reports. In `AgentStart` two runs and three start calls,
one of which only nested ones may use, are enough for a start call nested in another while
a third waits, and for a run to take the slot of one that is then brought back (a promoted
run of another agent is left to the proofs, which hold for any number of agents and runs).
In `IssueExecution` two agents and one issue give an owner, a waiting agent and the end of
the owner, and a third run the one promoted behind it.

| Run | Instance | Checks | Shows |
|---|---|---|---|
| `start_lock` | 2 runs, 1 agent with local children, 3 calls, 1 reaper pass, 1 block, 1 restart; 649 040 states (calls symmetric) | `TypeOK`, `MaxConcurrentRespected`, `OldestStartsFirst`, `ImplementsPool` | The limit and the order hold although count, selection, checks, claims and every end of a run are separate statements; a reaper that brings a run back is the one exception. |
| `start_resume` | 2 runs, 1 agent, 2 calls, 1 reaper pass, 1 restart, no block, fair; 49 438 | `QueuedWorkDrivenForward` | Without a block every queued run leaves the queue, whatever a restart loses. |
| `issue_orderly` | 3 runs, 2 issues, 1 restart; 208 522 | `OneExecutor`, `EndedStaysEnded`, `ImplementsPool` | With executions that keep their row fresh and no child, a restart leaves every promise intact. |
| `issue_cancel` | 3 runs, 1 issue, cancellations; 1 329 885 (agents symmetric) | `OneActivePath`, `DeferredIsHeld`, `MergedIntoOwn` | Runs cancelled at every point, also while they end by themselves. |
| `issue_faults` | 2 runs without local children, every fault but `cancel`, `pause` and `reconcile`; 661 880 (agents symmetric) | `TypeOK`, `LeaseUnique` | The state stays well formed and one lease per issue stays active. |
| `issue_recover` | 4 runs, local agents, 1 restart, the reconciler, fair; 276 954 | `RetryOnce`, `RunsEnd` | Children that live on, die, or were never started, and a reconciler that closes runs behind the reaper's back: each run ends unless a child of its agent hangs, each lost one is retried once. |
| `issue_served` | 2 runs, cancellations and pauses, fair; 69 160 | `DeferredServed` | A deferred wakeup is promoted or dropped. |
| `checkout_locks` | 3 runs of 2 agents, one linked to the issue, 2 requests; 902 593 (requests symmetric) | `CheckoutHoldsExecution`, `AdoptsOnlyEnded` | Both hold although every check is a read before the write. |
| `checkout_ghosts` | 2 runs of one agent, 1 request, every feature, fair; 666 457 | `TypeOK`, `CheckoutMeansInProgress`, `GhostsCleared` | Against all writers of the row, with leases that keep the reconciler off. |
| `dispatch_passes` | 2 intents, 1 issue, 1 agent, 2 passes, 1 pause, 1 timer hint, expiring leases, the reconciler; 1 190 489 (passes symmetric) | `OneRunPerIntent`, `ImplementsLife` | Overlapping passes, with everything that takes an intent out of the queue behind them. |
| `dispatch_wake` | 2 intents, 2 issues in a chain, 1 agent, 2 creators; the dependency may be opened again, the dependent lose its agent; fair; 399 795 | `TypeOK`, `SupersededHasSuccessor`, `WakeIsOwed`, `Woken` | Deduplication loses nothing, and a dependency wakes its dependent. |
| `routine_once` | 2 passes, 2 calls with one key, 2 kinds of routine, 2 occurrences, 4 runs, 3 connections, 1 restart; 734 870 (passes and calls symmetric) | `TypeOK`, `OccurrenceOnce`, `OneExecution`, `KeyOnce` | Claims and dispatches that overlap, repeat, wait for connections and are cut off. |

Two scheduler passes with two intents, or two requests with a third run that appears in
between, are what the races of the other modules need: each is between one read and one
write of another actor. Four dispatches are two passes in their loop and two calls that
repeat each other; three connections are fewer than that, so that dispatches wait for one.

Bounds, all in the modules: `Runs`, `Intents`, `MaxRuns` (rows ever inserted), `Calls` with
`Spare` kept for nested calls, `MaxBlocks`, `MaxPauses`, `MaxTimers`, `MaxClock`,
`MaxCrashes`, `Reapers`. `IdLeft` and `IdsFor` keep ids free for the promotions, retries
and inserts still to come, so that no step under way is refused for want of one.
`CHECK_DEADLOCK FALSE` because a bounded system ends when its ids are used up, and because
the dispatches of a routine do stop each other (`NotAllWaiting`, section 4). The runs with
a symmetry check only safety.

### Fairness

`FairSpec` assumes weak fairness, action by action, of what the process does without
anyone's help: promises that can settle do (`Step`, `Execute`, the steps of a
cancellation once begun, `WakeAdopt`, `Create`, `Schedule`, `Handle`), the tick calls the
reapers and `resumeQueuedRuns` again and again (`Reap`, `StaleReap`, `Resume`, `Join`),
the reconciler comes every five minutes (`FindGhost`, `ClearGhost`).

The others are assumptions about the environment. A block is lifted (`Unblock`), a paused
agent resumed (`Unpause`), a company resumed. A lease that is not renewed runs out
(`LeaseEnds`): an issue that somebody keeps writing to keeps its lease. Adapters return
(`Decide`, and `AdapterEnds` for those without a local child): the code has a timeout for
them but none by default (`timeoutSec` is 0, `execute.ts:249`, `server-utils.ts:822-833`),
so `QueuedWorkDrivenForward` and `DeferredServed` depend on it. `RunsEnd` does not: it
leaves out the agents of which a child hangs, since such a child keeps its run running and
the agent's slot taken. Nothing is assumed of wakeups, cancellations, pauses, expiries of
leases in `IssueExecution`, the exit of children or restarts.

## 4. Where the code and its documents disagree

None of the passing runs includes them: each names the constants under which its
properties hold, and the tables name those under which they do not, with the property
TLC then finds violated. The first four, and those marked with *, are findings of
`PROJECT.json`.

`AgentStart` (two runs of one agent, one block, fair, for the first row; the instance of
`start_lock` for the second) and `IssueExecution` (two agents, one issue, four runs,
`MaxConcurrent = 1` and one reaper unless said otherwise):

| Constants | Violated | What happens |
|---|---|---|
| `MaxBlocks = 1` | `QueuedWorkDrivenForward` | A start call that waits for itself: `claimQueuedRun` cancels a run that a budget or a pause refuses, and `cancelRunInternal` awaits `startNextQueuedRunForAgent` for the same agent, chained behind the call it was made from. The agent starts nothing until the server restarts. |
| `LocalChildren = TRUE` * | the limit without the exception for `revived` | The reaper notes that the child of a run lives on by writing the run's status running, from a snapshot: a run that was cancelled meanwhile runs again beside the one that took its slot. |
| `Faults = {"cancel"}` | `OneExecutor` | Nothing looks at the status between the top of `executeRun` and the adapter; a run cancelled during its setup works on the issue beside its successor. |
| `Faults = {"crash"}`, local agents | `OneActivePath`, `OneExecutor` | Failing a lost run and inserting its retry are two steps; a wakeup in between becomes the owner. |
| `Faults = {"expire"}` | `DeferredIsHeld` | `reapStaleLeaseRuns` clears the lock without promoting, so a deferred wakeup is left without an owner. |
| `Faults = {"mention"}` | `OneExecutor` | A mention starts a second run on the issue (plan of 2026-02-20, line 136, says it does not). |
| `Faults = {"mention"}` * | `DeferredIsHeld` | A wakeup finds a mention's run by its context and waits behind it; the run ends before the wakeup's transaction commits the lock, and releases nothing. |
| `Faults = {"silent"}` | `OneExecutor`, `EndedStaysEnded` | A run without news for five minutes, launched by another `heartbeatService`, is failed while it executes; a run that ended after the snapshot is overwritten. |
| `Faults = {"crash"}`, local agents, 2 reapers | `RetryOnce` | Two overlapping passes retry one run twice. |
| `Faults = {"crash"}`, 1 restart | `DeferredIsHeld` | A restart between outcome and release. |
| `Faults = {"crash"}`, local agents | `MergedIntoOwn` | The name of a stale lock is compared after another agent's run was adopted. |
| `Faults = {"crash", "cancel"}`, local agents | `ImplementsPool` | The reaper writes a cancelled run back to running. |
| `Faults = {"cancel"}` | `EndedStaysEnded` | A cancellation between the reading of the status and the write of the outcome is overwritten. |
| `Faults = {"expire"}` | `EndedStaysEnded` | A run that succeeded after the lease reaper found it is failed. |
| `Faults = {"reconcile"}` | `OneExecutor` | Runs without a lease of their own (promoted ones) are closed while they execute. |
| `Faults = {"throw"}` | `EndedStaysEnded`, `DeferredIsHeld`, `OneActivePath` | Catch blocks write over outcomes and swallow the failure of their own statements. |

The theorems of section 5 exclude the following for the same kind of reason; TLC violates,
with three or four runs and each fault alone, `OneExecutor` under `expire` (an execution goes on
after its lease has cost it the lock) and under `pause` (as under `cancel`),
`DeferredIsHeld` under `reconcile`, `MergedIntoOwn` under `mention` and under `throw`, and
`EndedStaysEnded` under `pause` and under `reconcile`; with local children, also
`OneActivePath` and `MergedIntoOwn` under `silent`, and `OneExecutor` under `throw`.

The other modules, with the instances of their runs:

| Constants | Violated | What happens |
|---|---|---|
| `IssueCheckout`, `Features = {"reap"}` * | `CheckoutHoldsExecution` | The reaper clears the lock of the issue it read earlier, by the issue's id alone, and takes it from a run that has checked the issue out since. |
| `IssueCheckout`, `Features = {"pause", "resume"}` | `CheckoutHoldsExecution` | So does a pause that is resumed before its last statement, which clears every lock of the company. |
| `RoutineDispatch`, `Connections = 3` or 4 * | `NotAllWaiting` | Each connection is held by a dispatch, and the one that has the routine's row waits for another. The server makes its pool with the driver's default size. |
| `RoutineDispatch`, `Features = {"slow"}` * | `OccurrenceOnce` | A dispatch or an edit that outlasts an occurrence writes `nextRunAt` back behind another pass's claim. |
| `IntentDispatch`, `Forgotten` without the clause on `silent` * | `WakeIsOwed` | A PATCH has read the dependency as done; somebody opens it again and its dependent is deferred; the PATCH writes done, sees no change and tells nobody. |
| `IntentDispatch`, `Forgotten` without the clause on `given` | `WakeIsOwed` | The handler passes over a dependent that has just been released; whoever gives it to an agent later is to wake that agent (and a PATCH compares with the assignee it read before, `routes/issues.ts:1057`). |

The same reading of the code showed what the properties leave room for, and a reader may
want to settle: two creations with one dedupe key may leave two queued intents; a timer
hint that looked before an assignment was inserted supersedes it; two passes may grant two
leases on one issue for two intents; a run that is claimed before its envelope is inserted
is failed; an intent deferred for a busy agent, or whose dependency was removed, is never
queued again; a project-less dependent cannot be woken (its `projectId` is empty); a
restart between superseding and inserting loses the request; an issue that is closed when
its dependency finishes, and opened again, is not woken, which is why `Woken` leaves
`Reopenable` issues out. A PATCH or a release decides
on a row it read before, so it may unassign or free an issue that another run has checked
out since; a release leaves `executionRunId`, so other agents get a conflict until the
next read or wakeup; an agent may adopt the execution lock of an active run by adopting an
ended run's checkout. A dispatch whose company is paused between its two admission reads
leaves an issue without an intent; a restart after the issue was created leaves the issue
without a run, and one after a claim loses the occurrence; a manual run that names the
schedule trigger, or any edit of it, moves `nextRunAt` past an occurrence that is due.

## 5. What is proved

`AgentStart_proofs`, from `StartAssumption` alone (run ids are naturals and finitely
many, the limit is positive, at least one agent):

* `TypeCorrect`: `[]TypeOK`.
* `MaxConcurrentHolds`: `[]MaxConcurrentRespected`. The limit alone is not inductive: a
  claim is safe only because of what the call counted earlier. The invariant adds that
  whoever is past its count is the head of its chain (`HolderIsHead`, mutual exclusion)
  and that the running runs plus the slots it counted, and later plus the runs it
  selected, fit the limit (`SlotsFit`), the runs that a reaper has brought back (`revived`)
  left out. Other handlers only end runs, so the sum only shrinks; only the holder's own
  claim moves a run from one side to the other, and the write-back puts its run on neither.
* `RemoteAgentsAreCapped`: without local children nothing is brought back, and the limit
  holds as documented.
* `OldestFirst`: `OldestStartsFirst`, from `SelectsOldest` (no older queued run of the
  agent is outside the selection) and `CreatedInOrder` (new runs have greater ids).
* `PoolImplemented`: `ImplementsPool`. Every step is a creation, a start, an end, another
  end of an ended run (`Replace`) or a stutter of `RunPool` (`StatusStep`), a run that was
  brought back being the ended run it was.

`IssueExecution_proofs`, from `ExecutionAssumption`, for every `Faults` unless said otherwise:

* `TypeCorrect`: `[]TypeOK`; it needs that a pass that has failed a run knows it.
* `LeaseIsUnique`: `[]LeaseUnique`; the strengthening is that only existing runs hold
  active leases, so that a new run cannot come to an issue with one already. A renewal
  is no step: the two that are called (`renewLeaseForIssueActivity` and
  `renewLeaseForRunActivity`, `lease-manager.ts:302-339` and `363-405`) repeat the condition
  that the lease is active in their update, so they change only when it expires.
  `renewLease` (`133-155`) checks first and updates by the id alone, which would revive a
  lease, but nothing calls it.
* `OneActivePathHolds`: `[]OneActivePath`, assuming that neither `mention` nor `throw` is
  among the faults, and that no agent has a local child or neither `crash` nor `silent` is
  (`ChildrenUnmet`). The exclusions are needed (section 4). Invariant `PathInv`: an issue's
  lock names a run of that issue; an active run of the issue is the one the lock names, or
  the lock is empty; there is at most one, and a wakeup's transaction under way is adopting
  no other; whoever is about to release has ended its run;
  no pass will retry. With local children it also says that no pass ever begins (`Quiet`):
  a running row is being executed until its outcome is written, whatever else ends rows,
  so there is nothing for a reaper to find. The case of an empty lock with an active run
  is real (the stale-lease reaper and the reconciler clear locks of others) and is why
  `enqueueWakeup` must search beyond the lock.

`IssueRuns_proofs`, on top of it, about runs without regard to the lock. `Uneventful` says
what cannot have happened when a fault is excluded, and is part of every invariant:

* `EndedRunsStayEnded` (`EndedStaysEnded`) and `PoolImplemented` (`ImplementsPool`), with
  restarts and mentions as the only faults, for any number of overlapping reaper passes
  and with children that outlive the server. The property says nothing of executions;
  the invariant `RunInv` ties them to the rows (`RunOk`): what an execution is about to
  write is possible only while its row is running, a child lives only for a running run,
  and a run on the list of a pass is executed by nobody and has, if its child lives, a pid
  the pass knows. That is what makes the snapshot of a pass, however old, harmless.
  With any other fault the property fails (section 4).
* `RetriedOnce`: for every `Faults`, a run is retried at most as often as there are reaper
  passes at once, and so `[]RetryOnce` holds when there is one. (The tick does not await its
  passes, so there may be two, and then `RetryOnce` fails, section 4.) `RetryInv`: a run
  with a retry is lost for good (`Lost`), a pass about to retry has it no longer on its
  list (`RetryDue`), and the retries of a run and the passes that still hold it are
  together no more than the passes there are, since no pass takes a lost run up again.

`IssueLock_proofs`, on top of that:

* `MergesIntoOwn` (`MergedIntoOwn`) under the assumptions of `OneActivePathHolds`:
  `PathInv` and `KeyOfActive`, which says that the name in an issue's lock is that of the
  agent of every active run of the issue, or is missing. It need not be that of the run in
  the lock: the reconciler clears the lock and leaves the name.
* `DeferredAreHeld` (`[]DeferredIsHeld`) under the same assumptions on local children, with
  `silent`, `cancel` and `pause` as the only faults and any number of overlapping passes.
  `HoldInv`: an active run has its issue's lock and no transaction is adopting another
  (`OwnersLocked`), so that no wakeup waits for a run that may end unlocked, which a
  mention or a cleared lock would allow (section 4); the run in the lock of an issue with
  deferred wakeups is active or somebody will release it (an execution, a cancellation or
  a reaper pass past its first write). A pass that takes a detached child for a sign of
  life may bring an ended run back, so `EndsInv` says which: while the server lives only a
  run in its adapter has a living child (`EndedKept`), so an execution past its adapter
  has ended its run for good. Each step then serves the wakeups, gives them an active
  owner (a promoted run or a retry), or keeps the owner and its releaser (`HoldMoves`).

Each fault that the two exclude, with or without local children, is one that its
property fails under (section 4).

`IssueCheckout_proofs`, from `CheckoutAssumption`:

* `TypeCorrect`, and `InProgress`: `[]CheckoutMeansInProgress`, with every feature and any
  number of requests. No strengthening beyond the types is needed because every statement
  that moves the status on clears the checkout itself, however old what it read.
* `HoldsExecution` and `AdoptsEnded`: `[]CheckoutHoldsExecution` and `AdoptsOnlyEnded`,
  without `reap` and `resume` (section 4). Both follow from `LockInv`: a request that has
  found a checkout stale has seen an ended run (`RequestInv`, and runs never start again),
  a pause that is not over has every active run on its list (`QuiesceInv`), and whoever is
  checked out or asks has been started.

`IntentDispatch_proofs`, from `DispatchAssumption`, for every `Features`:

* `TypeCorrect`, and `OneRun`: `[]OneRunPerIntent`. The invariant (`OneHolder`) says who may be
  past the admission of an intent: of the passes about to grant, run or write an envelope,
  one at most is for n, it is the first to make anything for n, and an intent for which
  something was made is not queued any more. Nothing puts an intent back into the queue,
  so no other pass can admit it.

`IntentQueue_proofs`, on top of it, again for every `Features`, any dependency graph and any
number of creators and passes:

* `LifeImplemented` (`ImplementsLife`). `LifeMoves` lists what a step may do to `status` and to
  the set of intents with a run, each being a step of `IntentLife`; that a run is made
  only for an intent without one is `OneHolder`, and that a pause which cancels the runs it
  has read makes no new one is `SnapshotMade`.
* `NoRequestLost` (`[]SupersededHasSuccessor`), from `DedupInv`: rows are made in the order of
  their ids (`InOrder`), so that the row a superseding creator inserts later is younger
  than what it superseded; and a hint about to be buried still has work of higher priority
  in the table, because rows never leave it and never change their key.
* `WakeOwed` (`[]WakeIsOwed`), from `WakeInv`. The property begins with a deferred intent; the
  invariant must begin earlier, with a pass that has found the dependencies unresolved and
  has not written its verdict (`Waiting`), and is about the issues that `Expects` names, those
  `Forgotten` does not leave out. The last dependency becomes done only by a `Close`, which
  starts a handler in the same step or leaves the dependency in `silent` (`CloseMoves`,
  `DoneMoves`), and an issue that can start has the agent it had before or is in `given`
  (`GivenMoves`). That handler keeps the issue on its list, in hand, or has inserted the
  intent (`OwesStep`), because nothing stops it: the company has not been paused, the issue
  has an agent and is there (`RowsKnown`, `CallFine`), and a handler's request is never a
  timer hint, hence never buried.

`RoutineDispatch_proofs`, from `ConstantsAssumption`:

* `TypeCorrect`, `OneAtOnce` (`[]OneExecution`) and `KeysOnce` (`[]KeyOnce`). `RowInv` says
  that whoever is past `LockRoutine` is the holder of the row (`Holds`), what the holder
  has found still is so: no run has its key (`Searched`), no execution is live (`Clear`).
* `OccurrencesOnce`: `[]OccurrenceOnce` without `slow`. `OccurrenceInv` says that what is at
  or after `nextRunAt` has not been dispatched (`Unfired`), and that a dispatch that has
  stamped its run has stamped it with the present occurrence, so that its unconditional
  write cannot set `nextRunAt` back.

Every invariant, action property and refinement that a run checks is stated by one of
these theorems, those of `IssueExecution` under the faults named, except `OneExecutor`.
Only model-checked are that one, which any event but a restart breaks, and
the liveness properties, `QueuedWorkDrivenForward`, `RunsEnd`, `DeferredServed`, `Woken` and
`GhostsCleared`: they need fairness, and so `ENABLED`, which the prover does not treat.
`DeferredAreHeld` and `WakeOwed` are their safety halves: whatever waits has somebody on
its way to it.

## 6. Limits of the model

* The modules meet in the rows they share and not in one composition: `IssueExecution` has
  the lock without checkouts, `IssueCheckout` the lock with the heartbeat cut down to
  what it writes. Their product is out of TLC's reach.
* Production code creates intents, but nothing constructs `schedulerService`: the passes
  of `IntentDispatch` are those the tests and the exports of the server make.
* A statement fails only in `executeRun` (`throw`) and where a dispatch catches it;
  elsewhere a failing statement ends the handler, which a restart covers only when nothing
  is left in memory.
* `IntentDispatch` and `IssueCheckout` have no restart: what one would lose is named in
  section 4.

## 7. Not modelled

Adapters, workspaces and the file system (external I/O; what they return is a choice in
`AdapterEnds`), the UI, the CLI and the terminal console (clients), portability and
skills (sequential import and export), access and secrets (checks local to a request),
costs, finance, dashboard, goals, documents (records), escalation and the event log
(nothing waits for them). The warm workspace pool is a sequential map with an index;
`register` overwrites an entry's project before it compares it, so the index is never
moved: a finding, and nothing a model would add to. The plugin host is a subsystem of its
own, and the next candidate. These are most of the repository's lines and little of its
concurrency. `PROJECT.json` lists each with its reason.

## 8. Plan

Done, in this order: `RunPool`, `AgentStart`, its proofs, `IssueExecution`, its runs and
first proofs; `IntentLife` and `IntentDispatch`, `IssueCheckout`, `RoutineDispatch`, each
with its runs and proofs. Next:

1. Proofs: the safety halves of `QueuedWorkDrivenForward` (whoever is queued has a start call
   or a tick on its way) and of `DeferredServed` (a deferred wakeup only moves forward).
2. `PluginJobs` (`plugin-job-scheduler.ts`): a job runs once at a time under ticks, manual
   triggers and unregistrations; the restarts of `plugin-worker-manager.ts`.
3. `IssueDependency`: what concurrent insertions do to the cycle check.
4. `ExecutionLease`: renewal and release as reads and writes, with `leaseManager.grantLease`.
