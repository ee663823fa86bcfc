---------------------------- MODULE IntentDispatch ----------------------------
(***************************************************************************)
(* From an event to a run through the intent queue: handlers create        *)
(* intents, scheduler passes admit, defer or reject them and make a lease, *)
(* a run and an envelope for each admitted one, finished issues wake their *)
(* dependents, and a pausing company, the reconciler and finished issues   *)
(* clear the queue.  One action is one awaited statement (or a few reads   *)
(* that nothing can tell apart); actors interleave between them.  The two  *)
(* loops that end runs or leases one by one are one action each.           *)
(***************************************************************************)
EXTENDS Naturals, FiniteSets, FiniteSetsExt

CONSTANTS Intents,        \* intent ids, numbered in creation order
          Issues,         \* issues of one company, each in a project
          Agents,
          Deps,           \* issue_dependencies: <<issue, the issue it depends on>>
          Creators,       \* handlers that may be creating intents at once
          Passes,         \* scheduler passes that may be under way at once
          MaxConcurrent,  \* heartbeat.maxConcurrentRuns of every agent
          MaxPauses,      \* bound: how often the company is paused
          MaxTimers,      \* bound: timer hints asked for
          Features,       \* which of FeatureKinds happen
          Reopenable,     \* the issues that may be opened again once finished
          Releasable,     \* the issues that may be without an agent for a while
          Existing,       \* the issues that are there at the start, without an agent
          None

FeatureKinds == {"reconcile",  \* the reconciler looks for stale intents
                 "expire",     \* leases run out
                 "cancel"}     \* issues are cancelled, not only done

ASSUME DispatchAssumption ==
  /\ Intents \subseteq Nat /\ IsFiniteSet(Intents)
  /\ Deps \subseteq Issues \X Issues
  /\ MaxConcurrent \in Nat \ {0}
  /\ MaxPauses \in Nat /\ MaxTimers \in Nat
  /\ Features \subseteq FeatureKinds
  /\ UNION {Reopenable, Releasable, Existing} \subseteq Issues
  /\ None \notin Issues \cup Agents \cup Intents /\ None # "dependency"

VARIABLES
  status, about, target, kind,   \* dispatch_intents: status, issue_id, target_agent_id, intent_type
  reason,                        \* why it was deferred (source_event_id)
  issueStatus, assignee,         \* issues; "new" before the row is there
  paused, pauses,                \* companies.status, and how often it was paused
  timers,                        \* timer hints asked for so far
  patch,                         \* the row a PATCH handler has read, per creator
  given,                         \* issues that had no agent and got one while they could start
  silent,                        \* issues closed by a PATCH that took them for closed already
  call,                          \* createIntent / onDependencyCompleted under way, per creator
  pass,                          \* processQueuedIntents under way, per pass
  runs, leases, envelopes,       \* rows a pass made for an intent, named <<intent, pass>>
  quiesce,                       \* quiesceCompanyWork under way
  stale,                         \* ids invalidateStaleIntents is about to reject
  closing                        \* the step of invalidateOnDone, per issue

intents == <<status, about, target, kind, reason>>
requests == <<patch, given, silent>>
work == <<issueStatus, assignee, paused, pauses, timers, requests>>
made == <<runs, leases, envelopes>>
cleanup == <<quiesce, stale, closing>>
vars == <<intents, work, call, pass, made, cleanup>>

Kinds == {"issue_assigned", "dependency_unblocked", "timer_hint"}
Made == Intents \X Passes
Closed == {"done", "cancelled"}
ActiveRun == {"queued", "running"}

Idle == [pc |-> "idle", of |-> None, todo |-> {}, issue |-> None,
         agent |-> None, kind |-> "timer_hint"]
NoPatch == [issue |-> None, seen |-> "todo"]
IdlePass == [pc |-> "idle", todo |-> {}, intent |-> None, stranger |-> FALSE]
Quiet == [pc |-> "idle", queued |-> {}, running |-> {}]

Init ==
  /\ status = [n \in Intents |-> "absent"]
  /\ about = [n \in Intents |-> None]
  /\ target = [n \in Intents |-> None]
  /\ kind = [n \in Intents |-> "timer_hint"]
  /\ reason = [n \in Intents |-> None]
  /\ issueStatus = [i \in Issues |-> IF i \in Existing THEN "todo" ELSE "new"]
  /\ assignee = [i \in Issues |-> None]
  /\ paused = FALSE /\ pauses = 0 /\ timers = 0
  /\ patch = [c \in Creators |-> NoPatch] /\ given = {} /\ silent = {}
  /\ call = [c \in Creators |-> Idle]
  /\ pass = [p \in Passes |-> IdlePass]
  /\ runs = [x \in Made |-> "none"]
  /\ leases = [x \in Made |-> "none"]
  /\ envelopes = {}
  /\ quiesce = Quiet /\ stale = {} /\ closing = [i \in Issues |-> "idle"]

-----------------------------------------------------------------------------
(* createIntent, and who calls it. *)

\* INTENT_PRIORITY_MAP.
Priority(k) == CASE k = "issue_assigned" -> 40
                 [] k = "dependency_unblocked" -> 30
                 [] k = "timer_hint" -> 0

\* Timer hints and assignments share the key of their issue.
Key(k, i) == <<k = "dependency_unblocked", i>>
\* Mutated: a key that forgets the kind of event.
SameIssue(k, i) == {n \in Intents : status[n] # "absent" /\ about[n] = i}
SameKey(k, i) == {n \in Intents : status[n] # "absent" /\ Key(kind[n], about[n]) = Key(k, i)}
Queued == {n \in Intents : status[n] = "queued"}

Absent == {n \in Intents : status[n] = "absent"}
Dependents(i) == {j \in Issues : <<j, i>> \in Deps}
Blocked(i) == \E d \in Issues : <<i, d>> \in Deps /\ issueStatus[d] # "done"

\* Bound: a call begins only while every call under way keeps ids for its inserts.
Owed(c) == CASE call[c].pc = "idle" -> 0
             [] call[c].pc = "dependents" -> Cardinality(Dependents(call[c].of))
             [] OTHER -> Cardinality(call[c].todo) + 1
IdsFor(k) == Cardinality(Absent) >= k + MapThenSumSet(Owed, Creators)

Insert(n, c, s) ==
  /\ n \in Absent /\ \A m \in Absent : n <= m
  /\ status' = [status EXCEPT ![n] = s]
  /\ about' = [about EXCEPT ![n] = call[c].issue]
  /\ target' = [target EXCEPT ![n] = call[c].agent]
  /\ kind' = [kind EXCEPT ![n] = call[c].kind]
  /\ UNCHANGED reason

\* A creator goes on: a handler with its next dependent, any other is done.
GoOn(c) == call' = [call EXCEPT ![c] = IF @.todo = {} THEN Idle ELSE [@ EXCEPT !.pc = "next"]]
GoTo(c, pc) == call' = [call EXCEPT ![c].pc = pc]

CALL_UNCHANGED == UNCHANGED <<work, pass, made, cleanup>>

\* Bound: a creator does one thing at a time.
Free(c) == call[c].pc = "idle" /\ patch[c].issue = None

Ask(c, i, a, k) ==
  /\ Free(c) /\ IdsFor(1)
  /\ call' = [call EXCEPT ![c] = [Idle EXCEPT !.pc = "admission", !.issue = i,
                                              !.agent = a, !.kind = k]]

\* An issue is created with an assignee: queueIssueAssignmentIntent gets the row.
Assign(c, i, a) ==
  /\ issueStatus[i] = "new"
  /\ issueStatus' = [issueStatus EXCEPT ![i] = "todo"]
  /\ assignee' = [assignee EXCEPT ![i] = a]
  /\ Ask(c, i, a, "issue_assigned")
  /\ UNCHANGED <<intents, paused, pauses, timers, requests, pass, made, cleanup>>

\* The PATCH handler takes it from its agent, or gives it to another, which it wakes
\* without an intent.
Reassign(i, a) ==
  /\ issueStatus[i] # "new" /\ assignee[i] # a
  /\ None \in {a, assignee[i]} => i \in Releasable
  /\ assignee' = [assignee EXCEPT ![i] = a]
  /\ given' = IF a = None THEN given \ {i}
              ELSE IF assignee[i] = None /\ ~Blocked(i) THEN given \cup {i} ELSE given
  /\ UNCHANGED <<intents, issueStatus, paused, pauses, timers, patch, silent, call, pass, made,
                 cleanup>>

\* The timer has found an open issue of an agent whose interval has elapsed.
TimerHint(c, i) ==
  /\ assignee[i] # None /\ issueStatus[i] \notin Closed
  /\ timers < MaxTimers /\ timers' = timers + 1
  /\ Ask(c, i, assignee[i], "timer_hint")
  /\ UNCHANGED <<intents, issueStatus, assignee, paused, pauses, requests, pass, made, cleanup>>

\* createIntent looks at the company first.
CheckCompany(c) ==
  /\ call[c].pc = "admission"
  /\ IF paused THEN GoOn(c)
     ELSE GoTo(c, IF call[c].kind = "timer_hint" THEN "outranked" ELSE "supersede")
  /\ UNCHANGED intents /\ CALL_UNCHANGED

\* Only a timer hint asks whether queued work of its key has a higher priority.
CheckOutranked(c) ==
  /\ call[c].pc = "outranked"
  /\ GoTo(c, IF \E n \in SameKey(call[c].kind, call[c].issue) \cap Queued :
                  Priority(kind[n]) > Priority(call[c].kind)
             THEN "bury" ELSE "supersede")
  /\ UNCHANGED intents /\ CALL_UNCHANGED

Bury(c) == /\ call[c].pc = "bury"
           /\ \E n \in Intents : Insert(n, c, "superseded")
           /\ GoOn(c)
           /\ CALL_UNCHANGED

\* Mutated: whatever has the key is superseded, queued or not.
SupersedeAll(c) ==
  /\ call[c].pc = "supersede"
  /\ status' = [n \in Intents |-> IF n \in SameKey(call[c].kind, call[c].issue)
                                  THEN "superseded" ELSE status[n]]
  /\ GoTo(c, "insert")
  /\ UNCHANGED <<about, target, kind, reason>> /\ CALL_UNCHANGED

\* The queued intents of the key are superseded, in a statement of their own.
Supersede(c) ==
  /\ call[c].pc = "supersede"
  /\ status' = [n \in Intents |->
                  IF n \in SameKey(call[c].kind, call[c].issue) \cap Queued
                  THEN "superseded" ELSE status[n]]
  /\ GoTo(c, "insert")
  /\ UNCHANGED <<about, target, kind, reason>> /\ CALL_UNCHANGED

InsertQueued(c) == /\ call[c].pc = "insert"
                   /\ \E n \in Intents : Insert(n, c, "queued")
                   /\ GoOn(c)
                   /\ CALL_UNCHANGED

-----------------------------------------------------------------------------
(* A finished issue: onDependencyCompleted and invalidateOnDone, both of which *)
(* the PATCH handler starts without waiting for them.                          *)

\* The PATCH handler reads the row, and much later writes what it was asked to.
\* Bounds: one PATCH at a time; a finished issue is read only where it may be opened again.
ReadPatch(c, i) ==
  /\ Free(c) /\ issueStatus[i] # "new" /\ \A d \in Creators : patch[d].issue = None
  /\ issueStatus[i] \in Closed => i \in Reopenable
  /\ patch' = [patch EXCEPT ![c] = [issue |-> i, seen |-> issueStatus[i]]]
  /\ UNCHANGED <<intents, issueStatus, assignee, paused, pauses, timers, given, silent, call,
                 pass, made, cleanup>>

\* The status is written whatever it is by now, and compared with the one that was
\* read: when they are the same the handler tells nobody.
\* Bound: an issue is closed again only after its last invalidation is over.
Close(c, s) ==
  LET i == patch[c].issue
  IN  /\ i # None
      /\ s = "done" \/ "cancel" \in Features
      /\ issueStatus' = [issueStatus EXCEPT ![i] = s]
      /\ patch' = [patch EXCEPT ![c] = NoPatch]
      /\ given' = IF s = "done" THEN given ELSE given \ Dependents(i)
      /\ IF patch[c].seen = s
         THEN /\ silent' = IF issueStatus[i] = s THEN silent ELSE silent \cup {i}
              /\ UNCHANGED <<call, closing>>
         ELSE /\ silent' = silent \ {i}
              /\ closing[i] = "idle" /\ closing' = [closing EXCEPT ![i] = "reject"]
              /\ IF s = "done"
                 THEN /\ call[c].pc = "idle" /\ IdsFor(Cardinality(Dependents(i)))
                      /\ call' = [call EXCEPT ![c] = [Idle EXCEPT !.pc = "dependents", !.of = i]]
                 ELSE UNCHANGED call
      /\ UNCHANGED <<intents, assignee, paused, pauses, timers, pass, made, quiesce, stale>>

OpenAgain(i) ==
  /\ issueStatus' = [issueStatus EXCEPT ![i] = "todo"]
  /\ silent' = silent \ {i}
  /\ UNCHANGED <<intents, paused, pauses, timers, patch, call, pass, made, cleanup>>

\* A comment, or a PATCH, opens a finished issue again.
Reopen(i) ==
  /\ i \in Reopenable /\ issueStatus[i] \in Closed
  /\ given' = given \ Dependents(i)
  /\ OpenAgain(i)
  /\ UNCHANGED assignee

\* release takes an issue from its agent and opens it, whatever its status is.
Release(i) ==
  /\ i \in Releasable /\ issueStatus[i] # "new"
  /\ issueStatus[i] \in Closed => i \in Reopenable
  /\ assignee' = [assignee EXCEPT ![i] = None]
  /\ given' = given \ (Dependents(i) \cup {i})
  /\ OpenAgain(i)

FindDependents(c) ==
  /\ call[c].pc = "dependents"
  /\ call' = [call EXCEPT ![c] = IF paused \/ Dependents(@.of) = {} THEN Idle
                                 ELSE [@ EXCEPT !.pc = "next", !.todo = Dependents(call[c].of)]]
  /\ UNCHANGED intents /\ CALL_UNCHANGED

\* A dependent with another unresolved dependency is passed over.
NextDependent(c) ==
  /\ call[c].pc = "next"
  /\ \E j \in call[c].todo :
       call' = [call EXCEPT ![c] = IF ~Blocked(j)
                                   THEN [call[c] EXCEPT !.pc = "dependent", !.issue = j, !.todo = @ \ {j}]
                                   ELSE IF @.todo = {j} THEN Idle
                                   ELSE [call[c] EXCEPT !.todo = @ \ {j}]]
  /\ UNCHANGED intents /\ CALL_UNCHANGED

\* Mutated: an issue that has an intent in waiting is not given another.
ReadDependentUnlessWaiting(c) ==
  /\ call[c].pc = "dependent"
  /\ LET j == call[c].issue
     IN  IF \/ issueStatus[j] \in Closed \/ assignee[j] = None
            \/ \E n \in Intents : about[n] = j /\ status[n] \in {"queued", "deferred"}
         THEN GoOn(c)
         ELSE call' = [call EXCEPT ![c].pc = "admission", ![c].agent = assignee[j],
                                   ![c].kind = "dependency_unblocked"]
  /\ UNCHANGED intents /\ CALL_UNCHANGED

\* Mutated: whether the issue has an assignee is not asked.
ReadDependentUnassigned(c) ==
  /\ call[c].pc = "dependent"
  /\ LET j == call[c].issue
     IN  IF issueStatus[j] \in Closed THEN GoOn(c)
         ELSE call' = [call EXCEPT ![c].pc = "admission", ![c].agent = assignee[j],
                                   ![c].kind = "dependency_unblocked"]
  /\ UNCHANGED intents /\ CALL_UNCHANGED

ReadDependent(c) ==
  /\ call[c].pc = "dependent"
  /\ LET j == call[c].issue
     IN  IF issueStatus[j] \in Closed \/ assignee[j] = None THEN GoOn(c)
         ELSE call' = [call EXCEPT ![c].pc = "admission", ![c].agent = assignee[j],
                                   ![c].kind = "dependency_unblocked"]
  /\ UNCHANGED intents /\ CALL_UNCHANGED

Create(c) == \/ CheckCompany(c) \/ CheckOutranked(c) \/ Bury(c) \/ Supersede(c)
             \/ InsertQueued(c) \/ FindDependents(c) \/ NextDependent(c) \/ ReadDependent(c)

\* invalidateForClosedIssue: a batch update, then the active leases of the issue.
InvalidateIntents(i) ==
  /\ closing[i] = "reject"
  /\ status' = [n \in Intents |->
                  IF about[n] = i /\ status[n] = "queued" THEN "rejected" ELSE status[n]]
  /\ closing' = [closing EXCEPT ![i] = "release"]
  /\ UNCHANGED <<about, target, kind, reason, work, call, pass, made, quiesce, stale>>

InvalidateLeases(i) ==
  /\ closing[i] = "release"
  /\ leases' = [x \in Made |-> IF about[x[1]] = i /\ leases[x] = "active"
                               THEN "over" ELSE leases[x]]
  /\ closing' = [closing EXCEPT ![i] = "idle"]
  /\ UNCHANGED <<intents, work, call, pass, runs, envelopes, quiesce, stale>>

-----------------------------------------------------------------------------
(* The scheduler: processQueuedIntents, with processIntent and checkAdmission. *)

PASS_UNCHANGED == UNCHANGED <<about, target, kind, work, call, cleanup>>
PassTo(p, pc) == pass' = [pass EXCEPT ![p].pc = pc]
\* A pass turns to the intents left, or it is over.
With(left) == IF left = {} THEN IdlePass ELSE [IdlePass EXCEPT !.pc = "fetch", !.todo = left]
PassOn(p) == pass' = [pass EXCEPT ![p] = With(@.todo)]

\* Highest priority first, then oldest first.
Before(m, n) == \/ Priority(kind[m]) > Priority(kind[n])
                \/ Priority(kind[m]) = Priority(kind[n]) /\ m < n
ActiveLease(i) == \E x \in Made : about[x[1]] = i /\ leases[x] = "active"
Running(a) == {x \in Made : target[x[1]] = a /\ runs[x] = "running"}

PassStart(p) ==
  /\ pass[p].pc = "idle" /\ Queued # {}
  /\ pass' = [pass EXCEPT ![p].pc = "fetch", ![p].todo = Queued]
  /\ UNCHANGED <<status, reason, made>> /\ PASS_UNCHANGED

\* getIntent: one that has left the queue meanwhile is skipped.
Fetch(p) ==
  /\ pass[p].pc = "fetch"
  /\ \E n \in pass[p].todo :
       /\ \A m \in pass[p].todo \ {n} : Before(n, m)
       /\ pass' = [pass EXCEPT ![p] =
                     IF status[n] = "queued"
                     THEN [@ EXCEPT !.pc = "company", !.todo = pass[p].todo \ {n}, !.intent = n]
                     ELSE With(@.todo \ {n})]
  /\ UNCHANGED <<status, reason, made>> /\ PASS_UNCHANGED

\* checkAdmission, one read after the other: `from` goes on to `to` when ok.
Verdict(p, from, ok, to, otherwise) ==
  /\ pass[p].pc = from
  /\ PassTo(p, IF ok THEN to ELSE otherwise)
  /\ UNCHANGED <<status, reason, made>> /\ PASS_UNCHANGED

ReadCompany(p) == Verdict(p, "company", ~paused, "issue", "reject")
\* One row: the assignee is compared after the dependencies, so a blocked intent of
\* a former assignee is deferred.
ReadIssue(p) ==
  LET n == pass[p].intent
  IN  /\ pass[p].pc = "issue"
      /\ pass' = [pass EXCEPT ![p].pc = IF issueStatus[about[n]] \in Closed THEN "reject" ELSE "deps",
                              ![p].stranger = assignee[about[n]] # target[n]]
      /\ UNCHANGED <<status, reason, made>> /\ PASS_UNCHANGED
ReadDeps(p) == Verdict(p, "deps", ~Blocked(about[pass[p].intent]),
                       IF pass[p].stranger THEN "reject" ELSE "lease", "blocked")
ReadLease(p) == Verdict(p, "lease", ~ActiveLease(about[pass[p].intent]), "slots", "reject")
ReadSlots(p) ==
  Verdict(p, "slots", Cardinality(Running(target[pass[p].intent])) < MaxConcurrent,
          "admit", "busy")

\* Mutated: the update has no condition on the status.
ResolveAnyway(p, pc, s, why) ==
  LET n == pass[p].intent
  IN  /\ pass[p].pc = pc
      /\ status' = [status EXCEPT ![n] = s]
      /\ reason' = [reason EXCEPT ![n] = why]
      /\ IF s = "admitted" THEN PassTo(p, "grant") ELSE PassOn(p)
      /\ UNCHANGED made /\ PASS_UNCHANGED

\* admitIntent, deferIntent, rejectIntent: an update where status is queued. When it
\* changes nothing it throws, nothing catches, and the whole pass ends.
Resolve(p, pc, s, why) ==
  LET n == pass[p].intent
  IN  /\ pass[p].pc = pc
      /\ IF status[n] = "queued"
         THEN /\ status' = [status EXCEPT ![n] = s]
              /\ reason' = [reason EXCEPT ![n] = why]
              /\ IF s = "admitted" THEN PassTo(p, "grant") ELSE PassOn(p)
         ELSE /\ UNCHANGED <<status, reason>>
              /\ pass' = [pass EXCEPT ![p] = IdlePass]
      /\ UNCHANGED made /\ PASS_UNCHANGED

GrantLease(p) ==
  /\ pass[p].pc = "grant"
  /\ leases' = [leases EXCEPT ![<<pass[p].intent, p>>] = "active"]
  /\ PassTo(p, "run")
  /\ UNCHANGED <<status, reason, runs, envelopes>> /\ PASS_UNCHANGED

CreateRun(p) ==
  /\ pass[p].pc = "run"
  /\ runs' = [runs EXCEPT ![<<pass[p].intent, p>>] = "queued"]
  /\ PassTo(p, "envelope")
  /\ UNCHANGED <<status, reason, leases, envelopes>> /\ PASS_UNCHANGED

CreateEnvelope(p) ==
  /\ pass[p].pc = "envelope"
  /\ envelopes' = envelopes \cup {<<pass[p].intent, p>>}
  /\ PassOn(p)
  /\ UNCHANGED <<status, reason, runs, leases>> /\ PASS_UNCHANGED

Schedule(p) ==
  \/ Fetch(p) \/ ReadCompany(p) \/ ReadIssue(p) \/ ReadDeps(p) \/ ReadLease(p) \/ ReadSlots(p)
  \/ Resolve(p, "admit", "admitted", None) \/ Resolve(p, "reject", "rejected", None)
  \/ Resolve(p, "blocked", "deferred", "dependency") \/ Resolve(p, "busy", "deferred", "busy")
  \/ GrantLease(p) \/ CreateRun(p) \/ CreateEnvelope(p)

-----------------------------------------------------------------------------
(* What becomes of the rows.  A run that has finished, failed or been cancelled is   *)
(* over, and so is a lease that has been released or has expired: nobody asks which. *)

MADE_UNCHANGED == UNCHANGED <<intents, work, call, pass, envelopes, cleanup>>

\* claimQueuedRun cancels a run that its company refuses.
Claim(x) ==
  /\ runs[x] = "queued"
  /\ \/ paused /\ runs' = [runs EXCEPT ![x] = "over"]
     \/ /\ ~paused /\ Cardinality(Running(target[x[1]])) < MaxConcurrent
        /\ runs' = [runs EXCEPT ![x] = "running"]
  /\ UNCHANGED leases /\ MADE_UNCHANGED

\* executeRun fails a scheduler's run that has no envelope (yet).
Refuse(x) ==
  /\ runs[x] = "running" /\ x \notin envelopes
  /\ runs' = [runs EXCEPT ![x] = "over"]
  /\ UNCHANGED leases /\ MADE_UNCHANGED

\* The lease of a scheduler's run is not the issue's executionLeaseId: it stays.
Finish(x) ==
  /\ runs[x] = "running" /\ x \in envelopes
  /\ runs' = [runs EXCEPT ![x] = "over"]
  /\ UNCHANGED leases /\ MADE_UNCHANGED

Expire(x) ==
  /\ "expire" \in Features
  /\ leases[x] = "active"
  /\ leases' = [leases EXCEPT ![x] = "over"]
  /\ UNCHANGED runs /\ MADE_UNCHANGED

-----------------------------------------------------------------------------
(* Who else empties the queue: a pausing company and the reconciler. *)

QUIESCE_UNCHANGED == UNCHANGED <<about, target, kind, reason, issueStatus, assignee, timers,
                                 requests, call, pass, envelopes, stale, closing>>

Pause ==
  /\ ~paused /\ pauses < MaxPauses /\ quiesce.pc = "idle"
  /\ paused' = TRUE /\ pauses' = pauses + 1
  /\ quiesce' = [quiesce EXCEPT !.pc = "read"]
  /\ UNCHANGED <<status, runs, leases>> /\ QUIESCE_UNCHANGED

Resume ==
  /\ paused /\ paused' = FALSE
  /\ UNCHANGED <<status, pauses, runs, leases, quiesce>> /\ QUIESCE_UNCHANGED

\* quiesceCompanyWork: a snapshot of the active runs, the queued ones by id, the
\* running ones by cancelRun, the intents, the leases.
QuiesceRead ==
  /\ quiesce.pc = "read"
  /\ quiesce' = [pc |-> "runs", queued |-> {x \in Made : runs[x] = "queued"},
                 running |-> {x \in Made : runs[x] = "running"}]
  /\ UNCHANGED <<status, paused, pauses, runs, leases>> /\ QUIESCE_UNCHANGED

QuiesceRuns ==
  /\ quiesce.pc = "runs"
  /\ runs' = [x \in Made |-> IF \/ x \in quiesce.queued
                                \/ x \in quiesce.running /\ runs[x] \in ActiveRun
                             THEN "over" ELSE runs[x]]
  /\ quiesce' = [Quiet EXCEPT !.pc = "intents"]
  /\ UNCHANGED <<status, paused, pauses, leases>> /\ QUIESCE_UNCHANGED

QuiesceIntents ==
  /\ quiesce.pc = "intents"
  /\ status' = [n \in Intents |-> IF status[n] \in {"queued", "admitted", "deferred"}
                                  THEN "rejected" ELSE status[n]]
  /\ quiesce' = [quiesce EXCEPT !.pc = "leases"]
  /\ UNCHANGED <<paused, pauses, runs, leases>> /\ QUIESCE_UNCHANGED

QuiesceLeases ==
  /\ quiesce.pc = "leases"
  /\ leases' = [x \in Made |-> IF leases[x] = "active" THEN "over" ELSE leases[x]]
  /\ quiesce' = Quiet
  /\ UNCHANGED <<status, paused, pauses, runs>> /\ QUIESCE_UNCHANGED

\* invalidateStaleIntents: the queued intents and their issues are read first.
FindStale ==
  /\ "reconcile" \in Features /\ stale = {}
  /\ stale' = {n \in Queued : \/ issueStatus[about[n]] \in Closed
                              \/ assignee[about[n]] \notin {None, target[n]}}
  /\ stale' # {}
  /\ UNCHANGED <<intents, work, call, pass, made, quiesce, closing>>

RejectStale ==
  /\ stale # {}
  /\ status' = [n \in Intents |-> IF n \in stale \cap Queued THEN "rejected" ELSE status[n]]
  /\ stale' = {}
  /\ UNCHANGED <<about, target, kind, reason, work, call, pass, made, quiesce, closing>>

-----------------------------------------------------------------------------
Handle(i) == InvalidateIntents(i) \/ InvalidateLeases(i)
QuiesceOn == QuiesceRead \/ QuiesceRuns \/ QuiesceIntents \/ QuiesceLeases

Next ==
  \/ \E c \in Creators, i \in Issues : \/ \E a \in Agents : Assign(c, i, a)
                                       \/ TimerHint(c, i)
                                       \/ ReadPatch(c, i)
  \/ \E c \in Creators : Create(c) \/ \E s \in Closed : Close(c, s)
  \/ \E i \in Issues : \/ Handle(i) \/ Reopen(i) \/ Release(i)
                      \/ \E a \in Agents \cup {None} : Reassign(i, a)
  \/ \E p \in Passes : PassStart(p) \/ Schedule(p)
  \/ \E x \in Made : Claim(x) \/ Refuse(x) \/ Finish(x) \/ Expire(x)
  \/ Pause \/ Resume \/ QuiesceOn \/ FindStale \/ RejectStale

Spec == Init /\ [][Next]_vars

\* Promises that can settle do: handlers and passes under way go on.
Fairness == /\ \A c \in Creators : WF_vars(Create(c))
            /\ \A p \in Passes : WF_vars(Schedule(p))
            /\ \A i \in Issues : WF_vars(Handle(i))
            /\ WF_vars(QuiesceOn) /\ WF_vars(RejectStale)

FairSpec == Spec /\ Fairness

-----------------------------------------------------------------------------
(* What must hold. *)

\* Every row, call and pass is well formed, and a call that is to insert a row knows
\* its issue and its agent.
TypeOK ==
  /\ status \in [Intents -> {"absent", "queued", "admitted", "rejected", "superseded", "deferred"}]
  /\ about \in [Intents -> Issues \cup {None}]
  /\ target \in [Intents -> Agents \cup {None}]
  /\ kind \in [Intents -> Kinds]
  /\ reason \in [Intents -> {None, "dependency", "busy"}]
  /\ issueStatus \in [Issues -> {"new", "todo"} \cup Closed]
  /\ assignee \in [Issues -> Agents \cup {None}]
  /\ paused \in BOOLEAN /\ pauses \in 0..MaxPauses /\ timers \in 0..MaxTimers
  /\ patch \in [Creators -> [issue : Issues \cup {None}, seen : {"todo"} \cup Closed]]
  /\ given \subseteq Issues /\ silent \subseteq Issues
  /\ call \in [Creators ->
       [pc : {"idle", "admission", "outranked", "bury", "supersede", "insert",
              "dependents", "next", "dependent"},
        of : Issues \cup {None}, todo : SUBSET Issues, issue : Issues \cup {None},
        agent : Agents \cup {None}, kind : Kinds]]
  /\ pass \in [Passes ->
       [pc : {"idle", "fetch", "company", "issue", "deps", "lease", "slots",
              "admit", "reject", "blocked", "busy", "grant", "run", "envelope"},
        todo : SUBSET Intents, intent : Intents \cup {None}, stranger : BOOLEAN]]
  /\ runs \in [Made -> {"none", "queued", "running", "over"}]
  /\ leases \in [Made -> {"none", "active", "over"}]
  /\ envelopes \subseteq Made
  /\ quiesce \in [pc : {"idle", "read", "runs", "intents", "leases"},
                  queued : SUBSET Made, running : SUBSET Made]
  /\ stale \subseteq Intents
  /\ closing \in [Issues -> {"idle", "reject", "release"}]
  /\ \A c \in Creators : call[c].pc \in {"bury", "supersede", "insert"} =>
                           call[c].issue # None /\ call[c].agent # None

\* Two overlapping passes never make two runs (or two leases) for one intent:
\* the update of admitIntent alone decides between them.
OneRunPerIntent ==
  \A n \in Intents, p, q \in Passes :
    (leases[<<n, p>>] # "none" /\ leases[<<n, q>>] # "none") => p = q

\* No request is lost to deduplication: what was superseded has a successor of its
\* key, younger or of higher priority, in the table or just about to be inserted.
SupersededHasSuccessor ==
  \A n \in Intents : status[n] = "superseded" =>
    \/ \E m \in Intents : /\ status[m] # "absent" /\ Key(kind[m], about[m]) = Key(kind[n], about[n])
                          /\ (m > n \/ Priority(kind[m]) > Priority(kind[n]))
    \/ \E c \in Creators : /\ call[c].pc = "insert"
                           /\ Key(call[c].kind, call[c].issue) = Key(kind[n], about[n])

\* Issue i can start, it has an agent, its latest word in the table is still an intent
\* that was deferred for its dependencies, and nothing has paused the company.  Left
\* out is an issue that got its agent when it could start already (whoever gives it is
\* to wake the agent), and one with a dependency that was done again unnoticed (the
\* PATCH handler had read it before somebody opened it again).
Forgotten(i) ==
  /\ ~Blocked(i) /\ issueStatus[i] \notin Closed /\ pauses = 0
  /\ assignee[i] # None /\ i \notin given
  /\ \A d \in Issues : <<i, d>> \in Deps => d \notin silent
  /\ \E n \in Intents : /\ about[n] = i /\ reason[n] = "dependency"
                        /\ \A m \in Intents : about[m] = i /\ m > n =>
                              kind[m] # "dependency_unblocked"

\* A blocked issue is woken: once the dependencies of an issue whose intent was
\* deferred for them are done, a dependency_unblocked intent follows it, unless the
\* issue loses its agent first, is closed (for good: an issue that is finished while it
\* waits and then opened again is not woken) or the company has been paused.
Woken == \A i \in Issues \ Reopenable : []<>~Forgotten(i)

\* As long as that intent is missing somebody is about to create it: a handler
\* of a dependency that has not passed the issue over yet.
WakeIsOwed ==
  \A i \in Issues \ Reopenable : Forgotten(i) =>
    \E c \in Creators : /\ call[c].of # None /\ <<i, call[c].of>> \in Deps
                        /\ \/ call[c].pc = "dependents" \/ i \in call[c].todo
                           \/ call[c].pc # "next" /\ call[c].issue = i

\* Every step is one the abstract queue allows.
Life == INSTANCE IntentLife WITH ran <- {n \in Intents : \E p \in Passes : runs[<<n, p>>] # "none"}
ImplementsLife == Life!Spec
=============================================================================
