--------------------------- MODULE RoutineDispatch ---------------------------
(***************************************************************************)
(* One routine with a schedule trigger (server/src/services/routines.ts):  *)
(* the scheduler's passes that claim due occurrences, the calls of the API *)
(* that run the routine by hand or by webhook, and dispatchRoutineRun, the *)
(* transaction that turns each into an issue with a queued intent, a       *)
(* coalesced run or a failed one.                                          *)
(*                                                                         *)
(* The transaction holds one connection of the pool from its begin, and    *)
(* takes the routine's row `for update`; the company's admission, the new  *)
(* issue and its intent go through `db`, on a second connection, and are   *)
(* visible before the transaction commits.                                 *)
(*                                                                         *)
(* Time is counted in cron occurrences: occurrence s is due once the clock *)
(* is at s, and the first occurrence after t is t + 1.                     *)
(***************************************************************************)
EXTENDS Integers, FiniteSets

CONSTANTS
    Routines,     \* the settings the routine may have
    Passes,       \* scheduler passes that may overlap (index.ts never awaits one)
    Callers,      \* calls of runRoutine and of the webhook, each made once
    Key,          \* Key[c]: the idempotency key of call c, or None
    Named,        \* the calls that name the schedule trigger
    Connections,  \* size of the database's connection pool
    Cap,          \* MAX_CATCH_UP_RUNS
    MaxClock,     \* bound: occurrences that come due
    MaxRuns,      \* bound: routine_runs rows
    MaxCrashes,   \* bound: restarts of the server
    Features,     \* "slow": a transaction or an edit may outlast an occurrence
    None

ASSUME ConstantsAssumption ==
    /\ Routines \subseteq [policy : {"coalesce_if_active", "skip_if_active", "always_enqueue"},
                           catchUp : BOOLEAN]
    /\ Passes \cap Callers = {}
    /\ Named \subseteq Callers
    /\ None \notin Passes \cup Callers \cup Nat
    /\ Cap \in Nat \ {0}
    /\ MaxClock \in Nat /\ MaxRuns \in Nat /\ MaxCrashes \in Nat
    /\ Connections \in Nat

VARIABLES
    routine,   \* its concurrencyPolicy and whether it catches up
    clock,     \* the last occurrence that has come due
    nextRunAt, \* the trigger's nextRunAt
    pass,      \* the state of each scheduler pass
    disp,      \* the dispatchRoutineRun each pass or call is in
    lock,      \* who holds the routine's row
    run,       \* the committed routine_runs rows
    issue,     \* the execution issue each run has created
    lastRun,   \* the last id given to a run
    fired,     \* how often each occurrence was claimed
    crashes

vars == <<routine, clock, nextRunAt, pass, disp, lock, run, issue,
          lastRun, fired, crashes>>

Procs == Passes \cup Callers
Keys == {Key[c] : c \in Callers} \ {None}
Slots == 1..MaxClock
Runs == 1..MaxRuns

\* Where a dispatch is.  From "insert" to "finalize" it holds the row.
Locked == {"insert", "admit", "find", "create", "queue", "finalize"}
InTransaction == Locked \cup {"lock"}
Stamped == Locked \ {"insert"}

NoDispatch == [pc |-> "none", at |-> 0, run |-> 0, key |-> None, trigger |-> FALSE]
IdlePass == [pc |-> "idle", due |-> 0, now |-> 0, left |-> 0]
NoRun == [status |-> "none", key |-> None, trigger |-> FALSE]

Init ==
    /\ routine \in Routines
    /\ clock = 0
    /\ nextRunAt = 1
    /\ pass = [p \in Passes |-> IdlePass]
    /\ disp = [p \in Procs |-> NoDispatch]
    /\ lock = None
    /\ run = [r \in Runs |-> NoRun]
    /\ issue = [r \in Runs |-> "none"]
    /\ lastRun = 0
    /\ fired = [s \in Slots |-> 0]
    /\ crashes = 0

-----------------------------------------------------------------------------
(* The scheduler's passes *)

\* nextCronTickInTimeZone: the first occurrence after t.
NextTick(t) == t + 1

\* How many occurrences a claim of `due' at `now' dispatches.
RunCount(due, now) ==
    IF ~routine.catchUp THEN 1
    ELSE IF now - due + 1 < Cap THEN now - due + 1 ELSE Cap

\* Mutated: the catch-up skips one occurrence.
ClaimedNextSkipping(due, now) ==
    IF routine.catchUp THEN due + RunCount(due, now) + 1 ELSE NextTick(now)

\* The nextRunAt a claim writes: after the last occurrence it catches up with,
\* or after now.
ClaimedNext(due, now) ==
    IF routine.catchUp THEN due + RunCount(due, now) ELSE NextTick(now)

\* A pass reads the due trigger, and counts.
ReadDue(p) ==
    /\ pass[p].pc = "idle"
    /\ nextRunAt <= clock
    /\ pass' = [pass EXCEPT ![p] = [pc |-> "claim", due |-> nextRunAt, now |-> clock,
                                    left |-> RunCount(nextRunAt, clock)]]
    /\ UNCHANGED <<routine, clock, nextRunAt, disp, lock, run, issue,
                   lastRun, fired, crashes>>

\* Mutated: the claim only looks for the trigger.
ClaimableAlways(p) == pass[p].pc = "claim"

\* The claim only succeeds on the nextRunAt the pass has read.
Claimable(p) == nextRunAt = pass[p].due

Claim(p) ==
    /\ pass[p].pc = "claim"
    /\ IF Claimable(p)
       THEN /\ nextRunAt' = ClaimedNext(pass[p].due, pass[p].now)
            /\ fired' = [s \in Slots |->
                            IF s \in pass[p].due..(pass[p].due + pass[p].left - 1)
                            THEN fired[s] + 1 ELSE fired[s]]
            /\ pass' = [pass EXCEPT ![p] = [IdlePass EXCEPT !.pc = "dispatch", !.left = pass[p].left]]
       ELSE /\ pass' = [pass EXCEPT ![p] = IdlePass]
            /\ UNCHANGED <<nextRunAt, fired>>
    /\ UNCHANGED <<routine, clock, disp, lock, run, issue, lastRun, crashes>>

\* The loop over the claimed occurrences, one dispatch after the other.
NextDispatch(p) ==
    /\ pass[p].pc = "dispatch"
    /\ disp[p].pc = "none"
    /\ IF pass[p].left = 0
       THEN /\ pass' = [pass EXCEPT ![p] = IdlePass]
            /\ UNCHANGED disp
       ELSE /\ pass' = [pass EXCEPT ![p].left = @ - 1]
            /\ disp' = [disp EXCEPT ![p] = [NoDispatch EXCEPT !.pc = "begin", !.trigger = TRUE]]
    /\ UNCHANGED <<routine, clock, nextRunAt, lock, run, issue, lastRun,
                   fired, crashes>>

-----------------------------------------------------------------------------
(* Calls *)

\* runRoutine, with the schedule trigger named or without, and the call of a
\* webhook, which has a trigger without a schedule.
Call(c) ==
    /\ disp[c].pc = "none"
    /\ disp' = [disp EXCEPT ![c] = [NoDispatch EXCEPT !.pc = "begin", !.key = Key[c],
                                                   !.trigger = c \in Named]]
    /\ UNCHANGED <<routine, clock, nextRunAt, pass, lock, run, issue, lastRun,
                   fired, crashes>>

\* updateTrigger: any edit of a schedule trigger recomputes nextRunAt from the
\* time at which it computes it, whatever is written before it is stored.
Edit ==
    /\ \E t \in IF "slow" \in Features THEN 0..clock ELSE {clock} : nextRunAt' = NextTick(t)
    /\ UNCHANGED <<routine, clock, pass, disp, lock, run, issue, lastRun, fired, crashes>>

-----------------------------------------------------------------------------
(* dispatchRoutineRun *)

FreeConnection == Cardinality({p \in Procs : disp[p].pc \in InTransaction}) < Connections

\* db.transaction takes a connection for the whole transaction.
Begin(p) ==
    /\ disp[p].pc = "begin"
    /\ FreeConnection
    /\ disp' = [disp EXCEPT ![p].pc = "lock"]
    /\ UNCHANGED <<routine, clock, nextRunAt, pass, lock, run, issue, lastRun,
                   fired, crashes>>

\* Mutated: the row is read without `for update'.
UnlockedAlways(p) == disp[p].pc = "lock"

\* select ... for update
Unlocked(p) == lock = None

LockRoutine(p) ==
    /\ disp[p].pc = "lock"
    /\ Unlocked(p)
    /\ lock' = p
    /\ disp' = [disp EXCEPT ![p].pc = "insert"]
    /\ UNCHANGED <<routine, clock, nextRunAt, pass, run, issue, lastRun, fired,
                   crashes>>

\* What is left of a dispatch: a call is made once, a pass goes on.
Ended(p) == IF p \in Callers THEN [NoDispatch EXCEPT !.pc = "done"] ELSE NoDispatch

\* finalizeRun and updateRoutineTouchedState, and the commit: the row appears,
\* the trigger's nextRunAt is written again, from this run's triggeredAt.
Commit(p, status) ==
    /\ run' = [run EXCEPT ![disp[p].run] =
                  [status |-> status, key |-> disp[p].key, trigger |-> disp[p].trigger]]
    /\ nextRunAt' = IF disp[p].trigger THEN NextTick(disp[p].at) ELSE nextRunAt
    /\ lock' = None
    /\ disp' = [disp EXCEPT ![p] = Ended(p)]
    /\ UNCHANGED <<routine, clock, pass, lastRun, fired, crashes>>

\* Mutated: the transaction commits before the intent is queued.
AdvancedEarly(p, pc) ==
    /\ disp' = [disp EXCEPT ![p].pc = pc]
    /\ lock' = IF pc = "queue" THEN None ELSE lock
    /\ UNCHANGED <<routine, clock, nextRunAt, pass, run, lastRun, fired, crashes>>

\* The transaction goes on to its next statement.
Advanced(p, pc) ==
    /\ disp' = [disp EXCEPT ![p].pc = pc]
    /\ UNCHANGED <<routine, clock, nextRunAt, pass, lock, run, lastRun, fired,
                   crashes>>

\* The run a call with this key and trigger has already made.
Made(p, r) ==
    /\ disp[p].key # None
    /\ run[r].status # "none"
    /\ run[r].key = disp[p].key
    /\ run[r].trigger = disp[p].trigger

\* The key is looked up; without an existing run one is inserted and stamped.
Insert(p) ==
    /\ disp[p].pc = "insert"
    /\ IF \E r \in Runs : Made(p, r)
       THEN /\ disp' = [disp EXCEPT ![p] = Ended(p)]
            /\ lock' = None
            /\ UNCHANGED lastRun
       ELSE /\ lastRun < MaxRuns
            /\ lastRun' = lastRun + 1
            /\ disp' = [disp EXCEPT ![p].pc = "admit", ![p].at = clock,
                                    ![p].run = lastRun + 1]
            /\ UNCHANGED lock
    /\ UNCHANGED <<routine, clock, nextRunAt, pass, run, issue, fired, crashes>>

\* getWorkAdmissionBlock, on another connection: the company or its budget may
\* block work at any time, and admit it again.
Admit(p) ==
    /\ disp[p].pc = "admit"
    /\ FreeConnection
    /\ Commit(p, "failed") \/ Advanced(p, "find")
    /\ UNCHANGED issue

\* findLiveExecutionIssue: an open issue with a live run or a pending intent.
LiveIssue == \E r \in Runs : issue[r] \in {"live", "woken"}

Find(p) ==
    /\ disp[p].pc = "find"
    /\ IF LiveIssue /\ routine.policy # "always_enqueue"
       THEN Commit(p, IF routine.policy = "skip_if_active" THEN "skipped" ELSE "coalesced")
       ELSE Advanced(p, "create")
    /\ UNCHANGED issue

\* issueSvc.create, in a transaction of its own; it may throw.
Create(p) ==
    /\ disp[p].pc = "create"
    /\ FreeConnection
    /\ \/ /\ issue' = [issue EXCEPT ![disp[p].run] = "idle"]
          /\ Advanced(p, "queue")
       \/ /\ Commit(p, "failed")
          /\ UNCHANGED issue

\* queueIssueAssignmentIntent: when the company is blocked by now nothing is
\* queued and the dispatch goes on; when it throws, the issue is deleted.
Queue(p) ==
    /\ disp[p].pc = "queue"
    /\ FreeConnection
    /\ \/ /\ issue' = IF issue[disp[p].run] = "closed" THEN issue
                      ELSE [issue EXCEPT ![disp[p].run] = "live"]
          /\ Advanced(p, "finalize")
       \/ /\ Advanced(p, "finalize")
          /\ UNCHANGED issue
       \/ /\ issue' = [issue EXCEPT ![disp[p].run] = "none"]
          /\ Commit(p, "failed")

Finalize(p) ==
    /\ disp[p].pc = "finalize"
    /\ Commit(p, "issue_created")
    /\ UNCHANGED issue

-----------------------------------------------------------------------------
(* The rest of the system *)

\* "live": the execution the dispatch has queued; "woken": one that somebody
\* has started on the open issue after it.
ExecutionEnds(r) ==
    /\ issue[r] \in {"live", "woken"}
    /\ issue' = [issue EXCEPT ![r] = "idle"]
    /\ UNCHANGED <<routine, clock, nextRunAt, pass, disp, lock, run, lastRun,
                   fired, crashes>>

Wake(r) ==
    /\ issue[r] = "idle"
    /\ issue' = [issue EXCEPT ![r] = "woken"]
    /\ UNCHANGED <<routine, clock, nextRunAt, pass, disp, lock, run, lastRun,
                   fired, crashes>>

\* The issue is closed and syncRunStatusForIssue settles the run (completed or
\* failed), if its row is there to be seen.
CloseIssue(r) ==
    /\ issue[r] \in {"idle", "live", "woken"}
    /\ issue' = [issue EXCEPT ![r] = "closed"]
    /\ run' = IF run[r].status = "none" THEN run ELSE [run EXCEPT ![r].status = "settled"]
    /\ UNCHANGED <<routine, clock, nextRunAt, pass, disp, lock, lastRun, fired,
                   crashes>>

\* No transaction that has stamped its run, and no edit, outlasts an occurrence.
Timely == \A p \in Procs : disp[p].pc \notin Stamped

Tick ==
    /\ clock < MaxClock
    /\ Timely \/ "slow" \in Features
    /\ clock' = clock + 1
    /\ UNCHANGED <<routine, nextRunAt, pass, disp, lock, run, issue, lastRun,
                   fired, crashes>>

\* The server restarts: transactions roll back, what went through db stays.
Crash ==
    /\ crashes < MaxCrashes
    /\ crashes' = crashes + 1
    /\ pass' = [p \in Passes |-> IdlePass]
    /\ disp' = [p \in Procs |-> IF disp[p].pc = "none" THEN disp[p] ELSE Ended(p)]
    /\ lock' = None
    /\ UNCHANGED <<routine, clock, nextRunAt, run, issue, lastRun, fired>>

-----------------------------------------------------------------------------
Dispatch(p) ==
    \/ Begin(p) \/ LockRoutine(p) \/ Insert(p) \/ Admit(p) \/ Find(p)
    \/ Create(p) \/ Queue(p) \/ Finalize(p)

PassStep(p) == ReadDue(p) \/ Claim(p) \/ NextDispatch(p)

Next ==
    \/ \E p \in Passes : PassStep(p)
    \/ \E p \in Procs : Dispatch(p)
    \/ \E c \in Callers : Call(c)
    \/ \E r \in Runs : ExecutionEnds(r) \/ Wake(r) \/ CloseIssue(r)
    \/ Edit \/ Tick \/ Crash

Spec == Init /\ [][Next]_vars

-----------------------------------------------------------------------------
(* Properties *)

Pending(p) == disp[p].pc \notin {"none", "done"}

Waits(p) ==
    \/ disp[p].pc \in {"begin", "admit", "create", "queue"} /\ ~FreeConnection
    \/ disp[p].pc = "lock" /\ lock # None

TypeOK ==
    /\ routine \in Routines
    /\ clock \in 0..MaxClock
    /\ nextRunAt \in 1..(MaxClock + 1)
    /\ pass \in [Passes -> [pc : {"idle", "claim", "dispatch"}, due : 0..MaxClock,
                            now : 0..MaxClock, left : 0..Cap]]
    /\ disp \in [Procs -> [pc : {"none", "begin", "done"} \cup InTransaction,
                           at : 0..MaxClock, run : 0..MaxRuns, key : {None} \cup Keys,
                           trigger : BOOLEAN]]
    /\ lock \in Procs \cup {None}
    /\ run \in [Runs -> [status : {"none", "failed", "skipped", "coalesced",
                                   "issue_created", "settled"},
                         key : {None} \cup Keys, trigger : BOOLEAN]]
    /\ issue \in [Runs -> {"none", "idle", "live", "woken", "closed"}]
    /\ lastRun \in 0..MaxRuns
    /\ fired \in [Slots -> Nat]
    /\ crashes \in 0..MaxCrashes

\* However passes overlap, and whatever a call or an edit writes to the trigger
\* meanwhile, an occurrence is dispatched at most once: nextRunAt is written
\* unconditionally by every dispatch (updateRoutineTouchedState) and every edit
\* (updateTrigger), and conditionally by the claims of the passes
\* (tickScheduledTriggers).  It rests on transactions shorter than the period.
OccurrenceOnce == \A s \in Slots : fired[s] <= 1

\* A routine that does not enqueue always never has two executions at once that
\* its dispatches have started: the row is locked from the look for a live
\* execution until the new issue has its intent (dispatchRoutineRun).
OneExecution ==
    routine.policy # "always_enqueue" =>
        \A r, s \in Runs : issue[r] = "live" /\ issue[s] = "live" => r = s

\* Calls that repeat an idempotency key make one run, also when they overlap and
\* when the server restarts between them.
KeyOnce ==
    \A r, s \in Runs :
        run[r].status # "none" /\ run[s].status # "none" /\ run[r].key # None
            /\ run[r].key = run[s].key /\ run[r].trigger = run[s].trigger => r = s

\* The dispatches never all wait for each other.  Nothing in the code makes it so,
\* and no run checks it: a dispatch asks for a second connection while it holds one
\* and the routine's row (dispatchRoutineRun queries db inside its transaction), so
\* that as many dispatches as the pool has connections stop each other.
NotAllWaiting ==
    (\E p \in Procs : Pending(p)) => \E p \in Procs : Pending(p) /\ ~Waits(p)
=============================================================================
