----------------------------- MODULE AgentStart -----------------------------
(***************************************************************************)
(* How server/src/services/heartbeat.ts starts an agent's queued runs.     *)
(*                                                                         *)
(* Every path that may have made work startable (a wakeup, the end of a    *)
(* run, a cancellation, a reaper, the periodic resume) calls               *)
(* startNextQueuedRunForAgent.  The calls for one agent are serialised by  *)
(* withAgentStartLock, a chain of promises held in memory: the head of the *)
(* chain counts the running runs, selects as many of the oldest queued     *)
(* runs as there are free slots, and claims them one by one with a         *)
(* conditional update.  Each of those is a database statement that other   *)
(* code runs between, so each is an action here.                           *)
(*                                                                         *)
(* claimQueuedRun refuses a run whose company or budget blocks work and    *)
(* cancels it, and cancelRunInternal ends by awaiting a start call for the *)
(* same agent: that nested call joins the chain behind its own caller.     *)
(*                                                                         *)
(* Whoever ends a run (its execution, a cancellation, a reaper) reads its  *)
(* row first and writes it later by its id, whatever it holds by then.     *)
(***************************************************************************)
EXTENDS Naturals, FiniteSets, Sequences

CONSTANTS Runs,           \* run identities: naturals, in creation order
          Agents,
          AgentOf,        \* the agent each run is created for
          Calls,          \* identities of concurrent start calls (bound)
          Spare,          \* bound: how many of them only nested calls may use
          MaxConcurrent,  \* heartbeat.maxConcurrentRuns of every agent
          Passes,         \* orphan-reaper passes that can be under way at once
          LocalChildren,  \* whether adapters run local child processes
          MaxBlocks,      \* bound: times company work is blocked
          MaxCrashes,     \* bound: server restarts
          NoCall

ASSUME StartAssumption ==
  /\ Runs \subseteq Nat /\ IsFiniteSet(Runs)
  /\ Agents # {} /\ AgentOf \in [Runs -> Agents]
  /\ MaxConcurrent \in Nat \ {0}
  /\ LocalChildren \in BOOLEAN
  /\ MaxBlocks \in Nat /\ MaxCrashes \in Nat /\ Spare \in Nat
  /\ NoCall \notin Calls

VARIABLES status,   \* heartbeat_runs.status
          live,     \* runs with an execution in this server process
          outcome,  \* what an execution has decided to write, else "none"
          stop,     \* runs that somebody has read active, to end them
          seen,     \* per reaper pass: the rows of its snapshot it has left
          orphan,   \* runs whose child has outlived the server
          revived,  \* history: ended runs that a reaper has set running again
          chain,    \* startLocksByAgent: the promise chain, head = holder
          call,     \* the local state of each start call
          due,      \* agents for which some code is about to call startNext
          block,    \* "company" (paused), "budget" (hard stop) or "none"
          blocks, crashes

memory == <<live, outcome, stop, seen>>
children == <<orphan, revived>>
vars == <<status, memory, children, chain, call, due, block, blocks, crashes>>
budget == <<blocks, crashes>>

Statuses == {"none", "queued", "running", "succeeded", "failed", "cancelled"}
Ended == {"succeeded", "failed", "cancelled"}

RunsOf(a) == {r \in Runs : AgentOf[r] = a}
RunningOf(a) == {r \in RunsOf(a) : status[r] = "running"}
QueuedOf(a) == {r \in RunsOf(a) : status[r] = "queued"}
Oldest(S) == CHOOSE r \in S : \A q \in S : r <= q

\* Mutated: the selection forgets the order.
UnorderedSelection(S, Q, k) == /\ S \subseteq Q
                               /\ Cardinality(S) <= k
                               /\ S = Q \/ Cardinality(S) = k

\* The S that "order by createdAt limit k" returns from the rows Q.
IsOldest(S, Q, k) == /\ S \subseteq Q
                     /\ Cardinality(S) <= k
                     /\ S = Q \/ Cardinality(S) = k
                     /\ \A r \in S, q \in Q \ S : r < q

\* waiting: in the chain; counted: slots known; claiming: about to look at the
\* next selected run; admitted: its admission checks passed; refused: they did
\* not; cancelling: it has been read and is active; releasing: it is cancelled and
\* lets its issue go; promoting and nested: awaiting one of the two start calls
\* that cancelRunInternal makes.
Holding == {"counted", "claiming", "admitted", "refused", "cancelling",
            "releasing", "promoting", "nested"}
CallPcs == Holding \cup {"idle", "waiting"}
CallType == [pc : CallPcs, agent : Agents, slots : 0..MaxConcurrent,
             todo : SUBSET Runs, got : SUBSET Runs, inner : Calls \cup {NoCall}]

Idle == [pc |-> "idle", agent |-> CHOOSE a \in Agents : TRUE,
         slots |-> 0, todo |-> {}, got |-> {}, inner |-> NoCall]

Entered(a) == [Idle EXCEPT !.pc = "waiting", !.agent = a]

Init == /\ status = [r \in Runs |-> "none"]
        /\ live = {} /\ stop = {} /\ orphan = {} /\ revived = {}
        /\ outcome = [r \in Runs |-> "none"]
        /\ seen = [p \in Passes |-> {}]
        /\ chain = [a \in Agents |-> <<>>]
        /\ call = [c \in Calls |-> Idle]
        /\ due = {}
        /\ block = "none"
        /\ blocks = 0 /\ crashes = 0

-----------------------------------------------------------------------------
(* The callers. *)

\* Run ids are given out in creation order.
IsNext(r) == status[r] = "none" /\ \A q \in Runs : q < r => status[q] # "none"

\* Mutated: the start call is given the run's id for the agent's.
EnqueueDueByRun(r) ==
  /\ IsNext(r)
  /\ block # "company"
  /\ status' = [status EXCEPT ![r] = "queued"]
  /\ due' = due \cup {r}
  /\ UNCHANGED <<memory, children, chain, call, block, budget>>

\* enqueueWakeup inserts a queued run, or a promotion does, and goes on to start
\* the agent.  A wakeup is refused under either block, a promotion only under
\* the company's.
Enqueue(r) ==
  /\ IsNext(r)
  /\ block # "company"
  /\ status' = [status EXCEPT ![r] = "queued"]
  /\ due' = due \cup {AgentOf[r]}
  /\ UNCHANGED <<memory, children, chain, call, block, budget>>

\* The adapter has returned, and executeRun reads the status: a cancellation it
\* finds is kept, any other status is about to be overwritten by the outcome; an
\* exception is a failure whatever the status.
Decide(r) ==
  /\ r \in live /\ outcome[r] = "none"
  /\ \E s \in {"failed", IF status[r] = "cancelled" THEN "cancelled" ELSE "succeeded"} :
       outcome' = [outcome EXCEPT ![r] = s]
  /\ UNCHANGED <<status, live, stop, seen, children, chain, call, due, block, budget>>

\* It writes what it has decided, releases its issue and is over.
Finish(r) ==
  /\ outcome[r] # "none"
  /\ status' = [status EXCEPT ![r] = outcome[r]]
  /\ live' = live \ {r}
  /\ outcome' = [outcome EXCEPT ![r] = "none"]
  /\ due' = due \cup {AgentOf[r]}
  /\ UNCHANGED <<stop, seen, children, chain, call, block, budget>>

\* cancelRunInternal for an operator or a budget, cancelActiveForAgentInternal for
\* a pause, reapStaleLeaseRuns for an expired lease: a run found active ...
StopReads(r) ==
  /\ status[r] \in {"queued", "running"}
  /\ r \notin stop
  /\ stop' = stop \cup {r}
  /\ UNCHANGED <<status, live, outcome, seen, children, chain, call, due, block, budget>>

\* ... is ended, whatever it has become meanwhile.  Not all of them go on to a
\* start call.
StopWrites(r) ==
  /\ r \in stop
  /\ \E s \in {"cancelled", "failed"} : status' = [status EXCEPT ![r] = s]
  /\ stop' = stop \ {r}
  /\ due' \in {due, due \cup {AgentOf[r]}}
  /\ UNCHANGED <<live, outcome, seen, children, chain, call, block, budget>>

-----------------------------------------------------------------------------
(* reapOrphanedRuns. *)

ReapSelect(p) ==
  /\ seen[p] = {}
  /\ seen' = [seen EXCEPT ![p] = {r \in Runs : status[r] = "running"}]
  /\ UNCHANGED <<status, live, outcome, stop, children, chain, call, due, block, budget>>

\* The pass goes on to its next row.
Past(p, r) == /\ r \in seen[p]
              /\ seen' = [seen EXCEPT ![p] = @ \ {r}]
              /\ UNCHANGED <<live, outcome, stop, orphan, chain, call, block, budget>>

\* Its execution is known, its row is fresh, or its child is known to live on.
ReapSkip(p, r) ==
  /\ r \in live \cup orphan
  /\ Past(p, r)
  /\ UNCHANGED <<status, due, revived>>

\* The row is of a run whose child lives on: "running" is written with the note that
\* it is detached.  The child of a run that executes lives too, and the pass may not
\* know its execution (IssueExecution tells why).
ReapDetached(p, r) ==
  /\ LocalChildren
  /\ r \in orphan \/ (r \in live /\ outcome[r] = "none")
  /\ Past(p, r)
  /\ status' = [status EXCEPT ![r] = "running"]
  /\ revived' = IF status[r] = "running" THEN revived ELSE revived \cup {r}
  /\ UNCHANGED due

\* Any other is failed: it is not executed, or by nobody the pass knows of, or it has
\* been claimed and is not yet launched, or it has ended since the snapshot.
ReapLost(p, r) ==
  /\ r \notin orphan
  /\ Past(p, r)
  /\ status' = [status EXCEPT ![r] = "failed"]
  /\ due' = due \cup {AgentOf[r]}
  /\ UNCHANGED revived

Reap(p) == \/ ReapSelect(p)
           \/ \E r \in Runs : ReapSkip(p, r) \/ ReapDetached(p, r) \/ ReapLost(p, r)

-----------------------------------------------------------------------------
(* The start calls. *)

\* Mutated: agents with nothing running are passed over.
ResumeBusyOnly(a) ==
  /\ QueuedOf(a) # {}
  /\ RunningOf(a) # {}
  /\ due' = due \cup {a}
  /\ UNCHANGED <<status, memory, children, chain, call, block, budget>>

\* resumeQueuedRuns, on every scheduler tick.
Resume(a) ==
  /\ QueuedOf(a) # {}
  /\ due' = due \cup {a}
  /\ UNCHANGED <<status, memory, children, chain, call, block, budget>>

\* withAgentStartLock: the call joins the end of the agent's promise chain.
Join(c, a) ==
  /\ a \in due
  /\ call[c].pc = "idle"
  /\ Cardinality({d \in Calls : call[d].pc = "idle"}) > Spare
  /\ due' = due \ {a}
  /\ chain' = [chain EXCEPT ![a] = Append(@, c)]
  /\ call' = [call EXCEPT ![c] = Entered(a)]
  /\ UNCHANGED <<status, memory, children, block, budget>>

-----------------------------------------------------------------------------
(* startNextQueuedRunForAgent, under the lock. *)

HasLock(c) == /\ chain[call[c].agent] # <<>>
              /\ Head(chain[call[c].agent]) = c

\* The promise settles: the next call of the chain may run, and a call that
\* awaited this one goes on.
Leave(c) ==
  /\ chain' = [chain EXCEPT ![call[c].agent] = Tail(@)]
  /\ call' = [d \in Calls |->
                IF d = c THEN Idle
                ELSE IF call[d].inner = c THEN [call[d] EXCEPT !.inner = NoCall]
                ELSE call[d]]

\* Between two selected runs; after a cancellation, once its last start call has
\* settled.
BetweenRuns(c) == \/ call[c].pc = "claiming"
                  \/ call[c].pc = "nested" /\ call[c].inner = NoCall

\* Mutated: the count does not wait for the promise chain.
CountSlotsUnlocked(c) ==
  LET running == Cardinality(RunningOf(call[c].agent))
  IN  /\ call[c].pc = "waiting"
      /\ running < MaxConcurrent
      /\ call' = [call EXCEPT ![c].pc = "counted",
                              ![c].slots = MaxConcurrent - running]
      /\ UNCHANGED <<status, memory, children, chain, due, block, budget>>

CountSlots(c) ==
  LET running == Cardinality(RunningOf(call[c].agent))
  IN  /\ call[c].pc = "waiting"
      /\ HasLock(c)
      /\ \/ /\ running >= MaxConcurrent
            /\ Leave(c)
         \/ /\ running < MaxConcurrent
            /\ call' = [call EXCEPT ![c].pc = "counted",
                                    ![c].slots = MaxConcurrent - running]
            /\ UNCHANGED chain
      /\ UNCHANGED <<status, memory, children, due, block, budget>>

SelectQueued(c) ==
  /\ call[c].pc = "counted"
  /\ \E S \in SUBSET QueuedOf(call[c].agent) :
       /\ IsOldest(S, QueuedOf(call[c].agent), call[c].slots)
       /\ call' = [call EXCEPT ![c].pc = "claiming", ![c].todo = S]
  /\ UNCHANGED <<status, memory, children, chain, due, block, budget>>

\* claimQueuedRun, its reads: the company's and the budget's admission checks.
CheckAdmission(c) ==
  /\ BetweenRuns(c)
  /\ call[c].todo # {}
  /\ call' = [call EXCEPT ![c].pc = IF block # "none" THEN "refused" ELSE "admitted"]
  /\ UNCHANGED <<status, memory, children, chain, due, block, budget>>

\* Mutated: the claim updates the row whatever its status.
ClaimUnconditionally(c) ==
  LET r == Oldest(call[c].todo)
  IN  /\ call[c].pc = "admitted"
      /\ status' = [status EXCEPT ![r] = "running"]
      /\ call' = [call EXCEPT ![c].pc = "claiming",
                              ![c].todo = @ \ {r},
                              ![c].got = @ \cup {r}]
      /\ UNCHANGED <<memory, children, chain, due, block, budget>>

\* claimQueuedRun, its write: update ... where status = 'queued'.
Claim(c) ==
  LET r == Oldest(call[c].todo)
      won == status[r] = "queued"
  IN  /\ call[c].pc = "admitted"
      /\ status' = IF won THEN [status EXCEPT ![r] = "running"] ELSE status
      /\ call' = [call EXCEPT ![c].pc = "claiming",
                              ![c].todo = @ \ {r},
                              ![c].got = IF won THEN @ \cup {r} ELSE @]
      /\ UNCHANGED <<memory, children, chain, due, block, budget>>

\* c, still holding its lock, awaits a new start call for agent a.
Await(c, a, pc) ==
  \E d \in Calls :
    /\ call[d].pc = "idle"
    /\ chain' = [chain EXCEPT ![a] = Append(@, d)]
    /\ call' = [call EXCEPT ![d] = Entered(a), ![c].pc = pc, ![c].inner = d]

\* cancelRunInternal(run) from inside the lock: an ended run is left alone, one
\* that it reads active ...
ReadRefused(c) ==
  LET r == Oldest(call[c].todo)
      active == status[r] \in {"queued", "running"}
  IN  /\ call[c].pc = "refused"
      /\ call' = [call EXCEPT ![c].pc = IF active THEN "cancelling" ELSE "claiming",
                              ![c].todo = IF active THEN @ ELSE @ \ {r}]
      /\ UNCHANGED <<status, memory, children, chain, due, block, budget>>

\* ... is cancelled, whatever it has become meanwhile ...
CancelRefused(c) ==
  LET r == Oldest(call[c].todo)
  IN  /\ call[c].pc = "cancelling"
      /\ status' = [status EXCEPT ![r] = "cancelled"]
      /\ call' = [call EXCEPT ![c].pc = "releasing", ![c].todo = @ \ {r}]
      /\ UNCHANGED <<memory, children, chain, due, block, budget>>

\* ... if that frees the issue for a deferred wakeup, the promoted run is
\* inserted and the start call of its agent awaited ...
PromoteRefused(c) ==
  /\ call[c].pc = "releasing"
  /\ block # "company"
  /\ \E p \in Runs : /\ IsNext(p)
                     /\ status' = [status EXCEPT ![p] = "queued"]
                     /\ Await(c, AgentOf[p], "promoting")
  /\ UNCHANGED <<memory, children, due, block, budget>>

\* ... and in the end the start call of the cancelled run's own agent.
RestartOwnAgent(c) ==
  /\ \/ call[c].pc = "releasing"
     \/ call[c].pc = "promoting" /\ call[c].inner = NoCall
  /\ Await(c, call[c].agent, "nested")
  /\ UNCHANGED <<status, memory, children, due, block, budget>>

\* All selected runs are dealt with: each claimed run that is still active gets
\* an executeRun of its own, and the lock is released.
Launch(c) ==
  /\ BetweenRuns(c)
  /\ call[c].todo = {}
  /\ live' = live \cup {r \in call[c].got : status[r] = "running"}
  /\ Leave(c)
  /\ UNCHANGED <<status, outcome, stop, seen, children, due, block, budget>>

-----------------------------------------------------------------------------
(* The environment. *)

\* The company is paused, or its budget hard stop is reached; and resumed.
Block(kind) == /\ block = "none"
               /\ blocks < MaxBlocks
               /\ block' = kind
               /\ blocks' = blocks + 1
               /\ UNCHANGED <<status, memory, children, chain, call, due, crashes>>

Unblock == /\ block # "none"
           /\ block' = "none"
           /\ UNCHANGED <<status, memory, children, chain, call, due, budget>>

\* A child that has outlived the server exits; nothing tells the server.
ChildExits(r) == /\ r \in orphan
                 /\ orphan' = orphan \ {r}
                 /\ UNCHANGED <<status, memory, revived, chain, call, due, block, budget>>

\* The server restarts: the chains, the calls, the executions and all else it has in
\* memory are gone; the rows stay, and some of the children.
Crash == /\ crashes < MaxCrashes
         /\ crashes' = crashes + 1
         /\ live' = {} /\ stop' = {} /\ due' = {}
         /\ outcome' = [r \in Runs |-> "none"]
         /\ seen' = [p \in Passes |-> {}]
         /\ chain' = [a \in Agents |-> <<>>]
         /\ call' = [c \in Calls |-> Idle]
         /\ \E S \in SUBSET {r \in live : LocalChildren /\ outcome[r] = "none"} :
              orphan' = orphan \cup S
         /\ UNCHANGED <<status, revived, block, blocks>>

-----------------------------------------------------------------------------
Step(c) == \/ CountSlots(c) \/ SelectQueued(c) \/ CheckAdmission(c) \/ Claim(c)
           \/ ReadRefused(c) \/ CancelRefused(c) \/ PromoteRefused(c)
           \/ RestartOwnAgent(c) \/ Launch(c)

Next == \/ \E r \in Runs : Enqueue(r) \/ Decide(r) \/ Finish(r)
        \/ \E r \in Runs : StopReads(r) \/ StopWrites(r) \/ ChildExits(r)
        \/ \E p \in Passes : Reap(p)
        \/ \E a \in Agents : Resume(a)
        \/ \E c \in Calls, a \in Agents : Join(c, a)
        \/ \E c \in Calls : Step(c)
        \/ \E kind \in {"company", "budget"} : Block(kind)
        \/ Unblock \/ Crash

Spec == Init /\ [][Next]_vars

\* Promises that can settle do settle; the scheduler tick resumes queued runs and
\* reaps orphans; a block is lifted.  That adapters return is an assumption about
\* the environment: by default no timeout makes them.
Fairness == /\ \A c \in Calls : WF_vars(Step(c))
            /\ \A r \in Runs : WF_vars(Decide(r)) /\ WF_vars(Finish(r))
            /\ \A p \in Passes : WF_vars(Reap(p))
            /\ \A a \in Agents : WF_vars(Resume(a))
            /\ \A a \in Agents : WF_vars(\E c \in Calls : Join(c, a))
            /\ WF_vars(Unblock)

FairSpec == Spec /\ Fairness

-----------------------------------------------------------------------------
(* Properties. *)

TypeOK ==
  /\ status \in [Runs -> Statuses]
  /\ live \subseteq Runs /\ stop \subseteq Runs
  /\ orphan \subseteq Runs /\ revived \subseteq Runs
  /\ outcome \in [Runs -> Ended \cup {"none"}]
  /\ seen \in [Passes -> SUBSET Runs]
  /\ chain \in [Agents -> Seq(Calls)]
  /\ call \in [Calls -> CallType]
  /\ due \subseteq Agents
  /\ block \in {"none", "company", "budget"}
  /\ blocks \in 0..MaxBlocks
  /\ crashes \in 0..MaxCrashes

\* The runs of an agent in status running, but for those that ended and that a
\* reaper has set running again (the write of heartbeat.ts:1896 has no condition).
CappedOf(a) == RunningOf(a) \ revived

\* An agent never has more runs in status running than its maxConcurrentRuns
\* (PAPERCLIP_FORK_SPEC.md:106), although the count, the selection and each claim are
\* separate statements and every end of a run overwrites its row (countRunningRunsForAgent,
\* claimQueuedRun).  A run that a reaper brings back is the one exception, and not a
\* leave for the claims to exceed the limit any further.
MaxConcurrentRespected ==
  \A a \in Agents : Cardinality(CappedOf(a)) <= MaxConcurrent

\* A run is never started over an older queued run of the same agent
\* (startNextQueuedRunForAgent orders by createdAt).
OldestStartsFirst ==
  [][\A r, q \in Runs :
       /\ AgentOf[q] = AgentOf[r] /\ q < r
       /\ status[r] = "queued" /\ status'[r] = "running"
       => status[q] # "queued"]_vars

\* The periodic resume "make[s] sure persisted queued work is still being driven
\* forward" (index.ts:617): a queued run does not stay queued.
QueuedWorkDrivenForward ==
  \A r \in Runs : status[r] = "queued" ~> status[r] # "queued"

\* The status of a run as the pool sees it: one that a reaper has brought back is
\* the ended run it was.
poolStatus == [r \in Runs |-> IF r \in revived THEN "cancelled" ELSE status[r]]

Pool == INSTANCE RunPool WITH runStatus <- poolStatus, runAgent <- AgentOf

\* The start lock implements the run pool in which late writers replace outcomes: a
\* start always takes a queued run and a free slot of its agent, a run starts once,
\* and the only way back from an end is that of the reaper (the conditional update of
\* claimQueuedRun, beside the unconditional ones of setRunStatus).
ImplementsPool == Pool!LateSpec
=============================================================================
