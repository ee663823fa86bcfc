-------------------------- MODULE IntentQueue_proofs --------------------------
(* Theorems about the intent queue: it refines the abstract life of an intent,  *)
(* deduplication loses no request, and a blocked issue is woken.                 *)
EXTENDS IntentDispatch_proofs

-----------------------------------------------------------------------------
(* The refinement.  A step that makes no run row leaves `ran` of the abstract   *)
(* queue as it is, and changes `status` in one of the ways that queue allows.   *)

Ran == {n \in Intents : \E p \in Passes : runs[<<n, p>>] # "none"}

RunsKept == \A x \in Made : (runs'[x] = "none") = (runs[x] = "none")

LEMMA RanKept == ASSUME RunsKept PROVE Ran' = Ran
BY DEF RunsKept, Ran, Made

LEMMA RanSame == UNCHANGED runs => RunsKept
BY DEF RunsKept

LifeMoves ==
  \/ UNCHANGED status /\ RunsKept
  \/ \E n \in Intents, s \in {"queued", "superseded"} :
       status[n] = "absent" /\ status' = [status EXCEPT ![n] = s] /\ RunsKept
  \/ \E n \in Intents :
       status[n] = "queued" /\ status' = [status EXCEPT ![n] = "admitted"] /\ RunsKept
  \/ \E S \in SUBSET Intents, s \in {"rejected", "superseded", "deferred"} :
       /\ \A n \in S : status[n] = "queued"
       /\ status' = [n \in Intents |-> IF n \in S THEN s ELSE status[n]]
       /\ RunsKept
  \/ /\ status' = [n \in Intents |-> IF status[n] \in {"queued", "admitted", "deferred"}
                                     THEN "rejected" ELSE status[n]]
     /\ RunsKept
  \/ \E n \in Intents : /\ n \notin Ran /\ status[n] \in {"admitted", "rejected"}
                        /\ Ran' = Ran \cup {n} /\ UNCHANGED status

LEMMA MovesRefine == LifeMoves => [Life!Next]_(Life!vars)
<1> SUFFICES ASSUME LifeMoves PROVE [Life!Next]_(Life!vars)
  OBVIOUS
<1>1. CASE UNCHANGED status /\ RunsKept
  BY <1>1, RanKept DEF Ran, Life!vars
<1>2. CASE \E n \in Intents, s \in {"queued", "superseded"} :
             status[n] = "absent" /\ status' = [status EXCEPT ![n] = s] /\ RunsKept
  BY <1>2, RanKept, Zenon DEF Ran, Life!Next, Life!Create
<1>3. CASE \E n \in Intents :
             status[n] = "queued" /\ status' = [status EXCEPT ![n] = "admitted"] /\ RunsKept
  BY <1>3, RanKept, Zenon DEF Ran, Life!Next, Life!Admit
<1>4. CASE \E S \in SUBSET Intents, s \in {"rejected", "superseded", "deferred"} :
             /\ \A n \in S : status[n] = "queued"
             /\ status' = [n \in Intents |-> IF n \in S THEN s ELSE status[n]]
             /\ RunsKept
  BY <1>4, RanKept, Zenon DEF Ran, Life!Next, Life!Resolve, Life!Resolved
<1>5. CASE /\ status' = [n \in Intents |-> IF status[n] \in {"queued", "admitted", "deferred"}
                                           THEN "rejected" ELSE status[n]]
           /\ RunsKept
  BY <1>5, RanKept, Zenon DEF Ran, Life!Next, Life!Quiesce, Life!Live
<1>6. CASE \E n \in Intents : /\ n \notin Ran /\ status[n] \in {"admitted", "rejected"}
                              /\ Ran' = Ran \cup {n} /\ UNCHANGED status
  BY <1>6, Zenon DEF Ran, Life!Next, Life!Run
<1> QED
  BY <1>1, <1>2, <1>3, <1>4, <1>5, <1>6 DEF LifeMoves

LEMMA InsertMoves ==
  ASSUME NEW c \in Creators, NEW n \in Intents, NEW s \in {"queued", "superseded"},
         Insert(n, c, s), UNCHANGED runs
  PROVE  LifeMoves
BY RanSame DEF Insert, Absent, LifeMoves

LEMMA ResolvedMoves ==
  ASSUME NEW S \in SUBSET Queued, NEW s \in {"rejected", "superseded", "deferred"},
         status' = [n \in Intents |-> IF n \in S THEN s ELSE status[n]], UNCHANGED runs
  PROVE  LifeMoves
<1>1. S \in SUBSET Intents /\ \A n \in S : status[n] = "queued"
  BY DEF Queued
<1> QED
  BY <1>1, RanSame DEF LifeMoves

LEMMA CreateMoves ==
  ASSUME TypeInv, NEW c \in Creators, Create(c) PROVE LifeMoves
<1>0. UNCHANGED runs
  BY DEF Create, CheckCompany, CheckOutranked, Bury, Supersede, InsertQueued, FindDependents,
         NextDependent, ReadDependent, CALL_UNCHANGED, made
<1>1. CASE Bury(c) \/ InsertQueued(c)
  BY <1>0, <1>1, InsertMoves DEF Bury, InsertQueued
<1>2. CASE Supersede(c)
  <2> DEFINE S == SameKey(call[c].kind, call[c].issue) \cap Queued
  <2>1. S \in SUBSET Queued
    OBVIOUS
  <2>2. status' = [n \in Intents |-> IF n \in S THEN "superseded" ELSE status[n]]
    BY <1>2 DEF Supersede
  <2> QED
    BY <1>0, <2>1, <2>2, ResolvedMoves
<1>3. CASE CheckCompany(c) \/ CheckOutranked(c) \/ FindDependents(c) \/ NextDependent(c)
           \/ ReadDependent(c)
  <2>1. UNCHANGED status
    BY <1>3 DEF CheckCompany, CheckOutranked, FindDependents, NextDependent, ReadDependent, intents
  <2> QED
    BY <1>0, <2>1, RanSame DEF LifeMoves
<1> QED
  BY <1>1, <1>2, <1>3 DEF Create

LEMMA ResolveMoves ==
  ASSUME TypeInv, NEW p \in Passes, NEW pc \in {"admit", "reject", "blocked", "busy"},
         NEW s \in {"admitted", "rejected", "deferred"}, NEW why, Resolve(p, pc, s, why)
  PROVE  LifeMoves
<1> DEFINE n == pass[p].intent
<1>0. n \in Intents /\ UNCHANGED runs
  BY DEF Resolve, TypeInv, PassTypes, PassKnows, made
<1>1. CASE status[n] # "queued"
  BY <1>0, <1>1, RanSame DEF Resolve, LifeMoves
<1>2. CASE status[n] = "queued" /\ s = "admitted"
  BY <1>0, <1>2, RanSame DEF Resolve, LifeMoves
<1>3. CASE status[n] = "queued" /\ s # "admitted"
  <2>1. status' = [m \in Intents |-> IF m \in {n} THEN s ELSE status[m]]
    BY <1>0, <1>3 DEF Resolve, TypeInv, RowTypes
  <2>2. {n} \in SUBSET Queued
    BY <1>0, <1>3 DEF Queued
  <2> QED
    BY <1>0, <1>3, <2>1, <2>2, ResolvedMoves
<1> QED
  BY <1>1, <1>2, <1>3

LEMMA ScheduleMoves ==
  ASSUME TypeInv, OneHolder, NEW p \in Passes, PassStart(p) \/ Schedule(p) PROVE LifeMoves
<1>1. CASE \/ Resolve(p, "admit", "admitted", None) \/ Resolve(p, "reject", "rejected", None)
           \/ Resolve(p, "blocked", "deferred", "dependency") \/ Resolve(p, "busy", "deferred", "busy")
  BY <1>1, ResolveMoves
<1>2. CASE CreateRun(p)
  <2> DEFINE n == pass[p].intent
  <2>1. n \in Intents /\ p \in Holding /\ HeldIsNew(p)
    BY <1>2 DEF CreateRun, TypeInv, PassTypes, PassKnows, Holding, OneHolder
  <2>2. n \notin Ran /\ status[n] \in {"admitted", "rejected"}
    BY <2>1 DEF HeldIsNew, Ran
  <2>3. /\ runs'[<<n, p>>] = "queued"
        /\ \A x \in Made : x # <<n, p>> => runs'[x] = runs[x]
    BY <1>2, <2>1 DEF CreateRun, TypeInv, MadeTypes, Made
  <2>4. Ran' = Ran \cup {n}
    BY <2>1, <2>3 DEF Ran, Made
  <2> QED
    BY <1>2, <2>1, <2>2, <2>4 DEF CreateRun, LifeMoves
<1>3. CASE PassStart(p) \/ Fetch(p) \/ ReadCompany(p) \/ ReadIssue(p) \/ ReadDeps(p)
           \/ ReadLease(p) \/ ReadSlots(p) \/ GrantLease(p) \/ CreateEnvelope(p)
  <2>1. UNCHANGED <<status, runs>>
    BY <1>3 DEF PassStart, Fetch, ReadCompany, ReadIssue, ReadDeps, ReadLease, ReadSlots,
                Verdict, GrantLease, CreateEnvelope, made
  <2> QED
    BY <2>1, RanSame DEF LifeMoves
<1> QED
  BY <1>1, <1>2, <1>3 DEF Schedule

LEMMA StepLifeMoves ==
  ASSUME TypeInv, SnapshotMade, OneHolder, [Next]_vars PROVE LifeMoves
<1>0. UNCHANGED <<status, runs>> => LifeMoves
  BY RanSame DEF LifeMoves
<1>1. CASE UNCHANGED vars
  BY <1>0, <1>1 DEF vars, intents, made
<1>2. CASE \E c \in Creators : Create(c)
  BY <1>2, CreateMoves
<1>3. CASE \E p \in Passes : PassStart(p) \/ Schedule(p)
  BY <1>3, ScheduleMoves
<1>4. ASSUME NEW i \in Issues, InvalidateIntents(i) PROVE LifeMoves
  <2> DEFINE S == {n \in Intents : about[n] = i /\ status[n] = "queued"}
  <2>1. S \in SUBSET Queued
    BY DEF Queued
  <2>2. status' = [n \in Intents |-> IF n \in S THEN "rejected" ELSE status[n]] /\ UNCHANGED runs
    BY <1>4 DEF InvalidateIntents, made
  <2> QED
    BY <2>1, <2>2, ResolvedMoves
<1>5. CASE RejectStale
  <2>1. stale \cap Queued \in SUBSET Queued
    OBVIOUS
  <2>2. status' = [n \in Intents |-> IF n \in stale \cap Queued THEN "rejected" ELSE status[n]]
        /\ UNCHANGED runs
    BY <1>5 DEF RejectStale, made
  <2> QED
    BY <2>1, <2>2, ResolvedMoves
<1>6. CASE QuiesceIntents
  BY <1>6, RanSame DEF QuiesceIntents, LifeMoves
<1>7. CASE \/ \E c \in Creators, i \in Issues : \/ \E a \in Agents : Assign(c, i, a)
                                                \/ TimerHint(c, i)
                                                \/ ReadPatch(c, i)
           \/ \E i \in Issues : InvalidateLeases(i) \/ Reopen(i) \/ Release(i)
           \/ \E i \in Issues, a \in Agents \cup {None} : Reassign(i, a)
           \/ \E c \in Creators, s \in Closed : Close(c, s)
           \/ Resume \/ Pause \/ QuiesceRead \/ QuiesceLeases \/ FindStale
  <2>1. UNCHANGED <<status, runs>>
    BY <1>7 DEF Assign, TimerHint, Close, ReadPatch, InvalidateLeases, Reopen, Release, OpenAgain,
       Reassign, Pause, Resume, QuiesceRead, QuiesceLeases, FindStale, intents, made
  <2> QED
    BY <1>0, <2>1
<1>8. CASE \/ \E x \in Made : Claim(x) \/ Refuse(x) \/ Finish(x) \/ Expire(x)
           \/ QuiesceRuns
  <2>1. UNCHANGED status
    BY <1>8 DEF Claim, Refuse, Finish, Expire, MADE_UNCHANGED, intents, QuiesceRuns
  <2>2. RunsKept
    <3>1. CASE \E x \in Made : Claim(x) \/ Refuse(x) \/ Finish(x) \/ Expire(x)
      BY <3>1 DEF Claim, Refuse, Finish, Expire, RunsKept, TypeInv, MadeTypes
    <3>2. CASE QuiesceRuns
      BY <3>2 DEF SnapshotMade, QuiesceRuns, ActiveRun, RunsKept, TypeInv, MadeTypes
    <3> QED
      BY <1>8, <3>1, <3>2
  <2> QED
    BY <2>1, <2>2 DEF LifeMoves
<1> QED
  BY <1>1, <1>2, <1>3, <1>4, <1>5, <1>6, <1>7, <1>8 DEF Next, Handle, QuiesceOn

\* The dispatch queue is an implementation of IntentLife: whatever handlers, passes,
\* the reconciler and a pausing company do at once, an intent leaves the queue once, a
\* run is made only for one that was admitted (or that a pausing company rejected
\* behind the pass), and never a second one.
THEOREM LifeImplemented == Spec => ImplementsLife
<1>1. Init => Life!Init
  <2> SUFFICES ASSUME Init PROVE Life!Init
    OBVIOUS
  <2>1. Ran = {}
    BY DEF Init, Ran, Made
  <2> QED
    BY <2>1, Zenon DEF Init, Life!Init, Ran
<1>2. TypeInv /\ SnapshotMade /\ OneHolder /\ [Next]_vars => [Life!Next]_(Life!vars)
  BY StepLifeMoves, MovesRefine
<1>3. Init => SnapshotMade
  BY DEF Init, SnapshotMade, Quiet
<1> QED
  BY <1>1, <1>2, <1>3, TypeInit, TypeStep, SnapshotStep, HolderInit, HolderStep, PTL
  DEF Spec, ImplementsLife, Life!Spec

-----------------------------------------------------------------------------
(* Rows are made by Bury and InsertQueued, in the order of their ids, and are    *)
(* superseded by Supersede; any other step settles what was in the table.        *)

Settles ==
  /\ UNCHANGED <<about, target, kind>>
  /\ \A n \in Intents : \/ status'[n] = status[n]
                        \/ status[n] # "absent" /\ status'[n] \in {"admitted", "rejected", "deferred"}

RowStep == \/ \E c \in Creators : Bury(c) \/ InsertQueued(c) \/ Supersede(c)
           \/ Settles

LEMMA ScheduleSettles ==
  ASSUME TypeInv, NEW p \in Passes, PassStart(p) \/ Schedule(p) PROVE Settles
<1>1. ASSUME NEW pc \in {"admit", "reject", "blocked", "busy"},
             NEW s \in {"admitted", "rejected", "deferred"}, NEW why, Resolve(p, pc, s, why)
      PROVE  Settles
  BY <1>1 DEF Resolve, PASS_UNCHANGED, Settles, TypeInv, RowTypes
<1>2. CASE \/ Resolve(p, "admit", "admitted", None) \/ Resolve(p, "reject", "rejected", None)
           \/ Resolve(p, "blocked", "deferred", "dependency") \/ Resolve(p, "busy", "deferred", "busy")
  BY <1>1, <1>2
<1>3. CASE PassStart(p) \/ Fetch(p) \/ ReadCompany(p) \/ ReadIssue(p) \/ ReadDeps(p)
           \/ ReadLease(p) \/ ReadSlots(p) \/ GrantLease(p) \/ CreateRun(p) \/ CreateEnvelope(p)
  BY <1>3 DEF PassStart, Fetch, ReadCompany, ReadIssue, ReadDeps, ReadLease, ReadSlots,
              Verdict, GrantLease, CreateRun, CreateEnvelope, PASS_UNCHANGED, Settles
<1> QED
  BY <1>2, <1>3 DEF Schedule

LEMMA StepOfRows == ASSUME TypeInv, [Next]_vars PROVE RowStep
<1>0. UNCHANGED <<status, about, target, kind>> => Settles
  BY DEF Settles
<1>1. CASE UNCHANGED vars
  BY <1>0, <1>1 DEF vars, intents, RowStep
<1>2. ASSUME NEW c \in Creators, Create(c) PROVE RowStep
  <2>1. CASE CheckCompany(c) \/ CheckOutranked(c) \/ FindDependents(c) \/ NextDependent(c)
             \/ ReadDependent(c)
    <3>1. UNCHANGED intents
      BY <2>1 DEF CheckCompany, CheckOutranked, FindDependents, NextDependent, ReadDependent
    <3> QED
      BY <1>0, <3>1 DEF intents, RowStep
  <2> QED
    BY <1>2, <2>1 DEF Create, RowStep
<1>3. CASE \E p \in Passes : PassStart(p) \/ Schedule(p)
  BY <1>3, ScheduleSettles DEF RowStep
<1>4. CASE \/ \E i \in Issues : InvalidateIntents(i)
           \/ QuiesceIntents \/ RejectStale
  <2>1. Settles
    BY <1>4 DEF InvalidateIntents, QuiesceIntents, QUIESCE_UNCHANGED, RejectStale, Queued,
                Settles, TypeInv, RowTypes
  <2> QED
    BY <2>1 DEF RowStep
<1>5. CASE \/ \E c \in Creators, i \in Issues : \/ \E a \in Agents : Assign(c, i, a)
                                                \/ TimerHint(c, i)
                                                \/ ReadPatch(c, i)
           \/ \E i \in Issues : InvalidateLeases(i) \/ Reopen(i) \/ Release(i)
           \/ \E i \in Issues, a \in Agents \cup {None} : Reassign(i, a)
           \/ \E c \in Creators, s \in Closed : Close(c, s)
           \/ \E x \in Made : Claim(x) \/ Refuse(x) \/ Finish(x) \/ Expire(x)
           \/ Resume \/ Pause \/ QuiesceRead \/ QuiesceRuns \/ QuiesceLeases \/ FindStale
  <2>1. UNCHANGED <<status, about, target, kind>>
    BY <1>5 DEF Assign, TimerHint, Close, ReadPatch, InvalidateLeases, Reopen, Release, OpenAgain,
       Reassign, Claim, Refuse, Finish, Expire, MADE_UNCHANGED, Pause, Resume, QuiesceRead, QuiesceRuns, QuiesceLeases,
       QUIESCE_UNCHANGED, FindStale, intents
  <2> QED
    BY <1>0, <2>1 DEF RowStep
<1> QED
  BY <1>1, <1>2, <1>3, <1>4, <1>5 DEF Next, Handle, QuiesceOn

\* A call under way takes its own steps, and another begins with a question or with
\* the dependents of a finished issue.
Asks(i, a, k) == [Idle EXCEPT !.pc = "admission", !.issue = i, !.agent = a, !.kind = k]
Finished(i) == [Idle EXCEPT !.pc = "dependents", !.of = i]

CallMoves(c) ==
  \/ call'[c] = call[c]
  \/ Create(c)
  \/ /\ call[c].pc = "idle"
     /\ \E i \in Issues : \/ /\ issueStatus'[i] # "new"
                             /\ \E a \in Agents, k \in Kinds : call'[c] = Asks(i, a, k)
                          \/ call'[c] = Finished(i)

LEMMA StepCalls ==
  ASSUME TypeInv, [Next]_vars, NEW c \in Creators PROVE CallMoves(c)
<1>0. call \in [Creators -> Calls]
  BY DEF TypeInv, CallTypes
<1>1. UNCHANGED call => CallMoves(c)
  BY DEF CallMoves
<1>2. CASE UNCHANGED vars
  BY <1>1, <1>2 DEF vars
<1>3. ASSUME NEW d \in Creators, Create(d) PROVE CallMoves(c)
  <2>1. CASE d = c
    BY <1>3, <2>1 DEF CallMoves
  <2>2. CASE d # c
    <3>1. \E x : call' = [call EXCEPT ![d] = x]
      BY <1>3, Zenon DEF Create, CheckCompany, CheckOutranked, Bury, Supersede, InsertQueued,
         FindDependents, NextDependent, ReadDependent, GoOn, GoTo
    <3> QED
      BY <1>0, <2>2, <3>1 DEF CallMoves
  <2> QED
    BY <2>1, <2>2
<1>4. ASSUME NEW d \in Creators, NEW i \in Issues, NEW a \in Agents, NEW k \in Kinds, Ask(d, i, a, k),
             issueStatus'[i] # "new"
      PROVE  CallMoves(c)
  <2>1. call' = [call EXCEPT ![d] = Asks(i, a, k)] /\ call[d].pc = "idle"
    BY <1>4 DEF Ask, Asks, Free
  <2> QED
    BY <1>0, <1>4, <2>1 DEF CallMoves
<1>5. CASE \E d \in Creators, i \in Issues : \/ \E a \in Agents : Assign(d, i, a)
                                             \/ TimerHint(d, i)
  <2>1. PICK d \in Creators, i \in Issues : \/ \E a \in Agents : Assign(d, i, a)
                                            \/ TimerHint(d, i)
    BY <1>5
  <2>2. ASSUME NEW a \in Agents, Assign(d, i, a) PROVE CallMoves(c)
    <3>1. issueStatus'[i] # "new" /\ Ask(d, i, a, "issue_assigned")
      BY <2>2 DEF Assign, TypeInv, WorkTypes
    <3> QED
      BY <1>4, <3>1 DEF Kinds
  <2>3. CASE TimerHint(d, i)
    <3>1. issueStatus'[i] # "new" /\ Ask(d, i, assignee[i], "timer_hint") /\ assignee[i] \in Agents
      BY <2>3 DEF TimerHint, TypeInv, WorkTypes
    <3> QED
      BY <1>4, <3>1 DEF Kinds
  <2> QED
    BY <2>1, <2>2, <2>3
<1>6. CASE \E d \in Creators, s \in Closed : Close(d, s)
  <2>1. PICK d \in Creators, s \in Closed : Close(d, s)
    BY <1>6
  <2>2. \/ \E i \in Issues : call' = [call EXCEPT ![d] = Finished(i)] /\ call[d].pc = "idle"
        \/ UNCHANGED call
    BY <2>1, CloseFacts DEF TypeInv, Finished
  <2> QED
    BY <1>0, <1>1, <2>2 DEF CallMoves
<1>7. CASE \/ \E i \in Issues : Handle(i) \/ Reopen(i) \/ Release(i)
           \/ \E i \in Issues, a \in Agents \cup {None} : Reassign(i, a)
           \/ \E d \in Creators, i \in Issues : ReadPatch(d, i)
           \/ \E x \in Made : Claim(x) \/ Refuse(x) \/ Finish(x) \/ Expire(x)
           \/ Resume \/ Pause \/ QuiesceOn \/ FindStale \/ RejectStale
  <2>1. UNCHANGED call
    BY <1>7 DEF Handle, InvalidateIntents, InvalidateLeases, Reopen, Release, OpenAgain, Reassign,
       ReadPatch, Claim, Refuse, Finish, Expire, MADE_UNCHANGED, Pause, Resume, QuiesceOn,
       QuiesceRead, QuiesceRuns, QuiesceIntents, QuiesceLeases, QUIESCE_UNCHANGED, FindStale,
       RejectStale
  <2> QED
    BY <1>1, <2>1
<1>8. CASE \E p \in Passes : PassStart(p) \/ Schedule(p)
  <2>1. UNCHANGED call
    BY <1>8 DEF PassStart, Schedule, Fetch, ReadCompany, ReadIssue, ReadDeps, ReadLease, ReadSlots,
                Verdict, Resolve, GrantLease, CreateRun, CreateEnvelope, PASS_UNCHANGED
  <2> QED
    BY <1>1, <2>1
<1> QED
  BY <1>2, <1>3, <1>5, <1>6, <1>7, <1>8 DEF Next

\* Where the steps of a call lead.
LEMMA NextPc ==
  ASSUME TypeInv, NEW c \in Creators
  PROVE  /\ GoOn(c) => call'[c].pc \in {"idle", "next"}
         /\ \A pc : GoTo(c, pc) => call'[c] = [call[c] EXCEPT !.pc = pc] /\ call'[c].pc = pc
         /\ FindDependents(c) \/ NextDependent(c) \/ ReadDependent(c) =>
              call'[c].pc \in {"idle", "next", "dependent", "admission"}
<1>0. call \in [Creators -> Calls] /\ call[c] \in Calls
  BY DEF TypeInv, CallTypes
<1>1. GoOn(c) => call'[c].pc \in {"idle", "next"}
  BY <1>0 DEF GoOn, Idle, Calls
<1>2. \A pc : GoTo(c, pc) => call'[c] = [call[c] EXCEPT !.pc = pc] /\ call'[c].pc = pc
  BY <1>0 DEF GoTo, Calls
<1>3. FindDependents(c) => call'[c].pc \in {"idle", "next"}
  BY <1>0 DEF FindDependents, Idle, Calls
<1>4. NextDependent(c) => call'[c].pc \in {"idle", "next", "dependent"}
  BY <1>0 DEF NextDependent, Idle, Calls
<1>5. ReadDependent(c) => call'[c].pc \in {"idle", "next", "admission"}
  BY <1>0, <1>1 DEF ReadDependent, Calls
<1> QED
  BY <1>1, <1>2, <1>3, <1>4, <1>5

-----------------------------------------------------------------------------
(* Deduplication loses no request.  Inductive is that rows are made in the order *)
(* of their ids, and that a hint is only buried under work of higher priority.   *)

InOrder == \A n, m \in Intents : status[n] # "absent" /\ status[m] = "absent" => n < m

\* A row in the table that is of the key of a call, or of another row.
OfKey(m, k, i) == status[m] # "absent" /\ Key(kind[m], about[m]) = Key(k, i)

Outranked(c) == \E m \in Intents : /\ OfKey(m, call[c].kind, call[c].issue)
                                   /\ Priority(kind[m]) > Priority(call[c].kind)

Successor(n) ==
  \/ \E m \in Intents : /\ OfKey(m, kind[n], about[n])
                        /\ m > n \/ Priority(kind[m]) > Priority(kind[n])
  \/ \E c \in Creators : /\ call[c].pc = "insert"
                         /\ Key(call[c].kind, call[c].issue) = Key(kind[n], about[n])

DedupInv ==
  /\ InOrder
  /\ \A c \in Creators : call[c].pc = "bury" => Outranked(c)
  /\ \A n \in Intents : status[n] = "superseded" => Successor(n)

LEMMA OrderInit == Init => InOrder
BY DEF Init, InOrder

\* What an insert makes, and what it leaves.
LEMMA InsertRow ==
  ASSUME TypeInv, NEW c \in Creators, NEW n \in Intents, NEW s, Insert(n, c, s)
  PROVE  /\ status[n] = "absent" /\ status'[n] = s
         /\ about'[n] = call[c].issue /\ kind'[n] = call[c].kind
         /\ \A m \in Intents : status[m] = "absent" => n <= m
         /\ \A m \in Intents \ {n} : status'[m] = status[m] /\ about'[m] = about[m] /\ kind'[m] = kind[m]
BY DEF Insert, Absent, TypeInv, RowTypes

LEMMA OrderStep == ASSUME TypeInv, InOrder, [Next]_vars PROVE InOrder'
<1>0. Intents \subseteq Nat
  BY DispatchAssumption DEF DispatchAssumption
<1>1. ASSUME NEW c \in Creators, NEW n \in Intents, NEW s, Insert(n, c, s), s # "absent"
      PROVE  InOrder'
  <2>1. /\ status[n] = "absent" /\ status'[n] = s
        /\ \A m \in Intents : status[m] = "absent" => n <= m
        /\ \A m \in Intents \ {n} : status'[m] = status[m]
    BY <1>1, InsertRow
  <2>2. ASSUME NEW k \in Intents, NEW m \in Intents, status'[k] # "absent", status'[m] = "absent"
        PROVE  k < m
    <3>1. m # n /\ status[m] = "absent"
      BY <1>1, <2>1, <2>2
    <3>2. CASE k = n
      <4>1. n <= m /\ n # m /\ n \in Nat /\ m \in Nat
        BY <1>0, <2>1, <3>1
      <4> QED
        BY <3>2, <4>1
    <3>3. CASE k # n
      BY <2>1, <2>2, <3>1, <3>3 DEF InOrder
    <3> QED
      BY <3>2, <3>3
  <2> QED
    BY <2>2 DEF InOrder
<1>2. CASE \E c \in Creators : Bury(c) \/ InsertQueued(c)
  BY <1>1, <1>2 DEF Bury, InsertQueued
<1>3. CASE \/ \E c \in Creators : Supersede(c)
           \/ Settles
  <2>1. \A n \in Intents : status'[n] = "absent" <=> status[n] = "absent"
    BY <1>3 DEF Supersede, Queued, Settles, TypeInv, RowTypes
  <2> QED
    BY <2>1 DEF InOrder
<1> QED
  BY <1>2, <1>3, StepOfRows DEF RowStep

\* Only CheckOutranked decides that a hint is to be buried.
LEMMA ToBury ==
  ASSUME TypeInv, [Next]_vars, NEW c \in Creators, call'[c].pc = "bury"
  PROVE  \/ call'[c] = call[c]
         \/ /\ Outranked(c)
            /\ call'[c].kind = call[c].kind /\ call'[c].issue = call[c].issue
<1>0. CallMoves(c)
  BY StepCalls
<1>1. CASE Create(c) /\ ~ CheckOutranked(c)
  <2>1. call'[c].pc # "bury"
    <3>1. CASE CheckCompany(c)
      <4>1. \/ GoOn(c)
            \/ \E pc \in {"outranked", "supersede"} : GoTo(c, pc)
        BY <3>1 DEF CheckCompany
      <4>2. \A pc \in {"outranked", "supersede"} : GoTo(c, pc) => call'[c].pc = pc
        BY NextPc
      <4> QED
        BY <4>1, <4>2, NextPc
    <3>2. CASE Bury(c) \/ InsertQueued(c)
      BY <3>2, NextPc DEF Bury, InsertQueued
    <3>3. CASE Supersede(c)
      <4>1. GoTo(c, "insert")
        BY <3>3 DEF Supersede
      <4>2. call'[c].pc = "insert"
        BY <4>1, NextPc
      <4> QED
        BY <4>2
    <3>4. CASE FindDependents(c) \/ NextDependent(c) \/ ReadDependent(c)
      BY <3>4, NextPc
    <3> QED
      BY <1>1, <3>1, <3>2, <3>3, <3>4 DEF Create
  <2> QED
    BY <1>1, <2>1
<1>2. CASE CheckOutranked(c)
  <2>1. GoTo(c, IF \E n \in SameKey(call[c].kind, call[c].issue) \cap Queued :
                     Priority(kind[n]) > Priority(call[c].kind)
                THEN "bury" ELSE "supersede")
    BY <1>2 DEF CheckOutranked
  <2>2. call'[c] = [call[c] EXCEPT !.pc =
           IF \E n \in SameKey(call[c].kind, call[c].issue) \cap Queued :
                Priority(kind[n]) > Priority(call[c].kind)
           THEN "bury" ELSE "supersede"]
    BY <2>1, NextPc
  <2>3. call[c] \in Calls
    BY DEF TypeInv, CallTypes
  <2>4. /\ call'[c].kind = call[c].kind /\ call'[c].issue = call[c].issue
        /\ \E n \in SameKey(call[c].kind, call[c].issue) \cap Queued :
             Priority(kind[n]) > Priority(call[c].kind)
    BY <2>2, <2>3 DEF Calls
  <2> QED
    BY <2>4 DEF Outranked, SameKey, OfKey
<1> QED
  BY <1>0, <1>1, <1>2 DEF CallMoves, Asks, Finished, Idle

LEMMA OutrankedStays ==
  ASSUME TypeInv, [Next]_vars, NEW c \in Creators, Outranked(c),
         call'[c].kind = call[c].kind, call'[c].issue = call[c].issue
  PROVE  Outranked(c)'
<1>1. PICK m \in Intents : /\ OfKey(m, call[c].kind, call[c].issue)
                           /\ Priority(kind[m]) > Priority(call[c].kind)
  BY DEF Outranked
<1>2. status'[m] # "absent" /\ about'[m] = about[m] /\ kind'[m] = kind[m] /\ status[m] # "absent"
  BY <1>1, StepRows DEF RowMoves, OfKey
<1>3. /\ status'[m] # "absent" /\ Key(kind'[m], about'[m]) = Key(call'[c].kind, call'[c].issue)
      /\ Priority(kind'[m]) > Priority(call'[c].kind)
  BY <1>1, <1>2 DEF OfKey
<1> QED
  BY <1>3 DEF Outranked, OfKey

\* A call about to insert a row does that next.
LEMMA AtInsert ==
  ASSUME TypeInv, [Next]_vars, NEW c \in Creators, call[c].pc = "insert"
  PROVE  call'[c] = call[c] \/ InsertQueued(c)
BY StepCalls DEF CallMoves, Create, CheckCompany, CheckOutranked, Bury, Supersede, FindDependents,
                 NextDependent, ReadDependent

\* What has a successor keeps one.
LEMMA SuccessorStays ==
  ASSUME TypeInv, InOrder, [Next]_vars, NEW n \in Intents, status[n] # "absent", Successor(n)
  PROVE  Successor(n)'
<1>0. about'[n] = about[n] /\ kind'[n] = kind[n]
  BY StepRows DEF RowMoves
<1>1. ASSUME NEW m \in Intents, OfKey(m, kind[n], about[n]),
             m > n \/ Priority(kind[m]) > Priority(kind[n])
      PROVE  Successor(n)'
  <2>1. status'[m] # "absent" /\ about'[m] = about[m] /\ kind'[m] = kind[m]
    BY <1>1, StepRows DEF RowMoves, OfKey
  <2> QED
    BY <1>0, <1>1, <2>1 DEF Successor, OfKey
<1>2. ASSUME NEW c \in Creators, call[c].pc = "insert",
             Key(call[c].kind, call[c].issue) = Key(kind[n], about[n])
      PROVE  Successor(n)'
  <2>1. CASE call'[c] = call[c]
    BY <1>0, <1>2, <2>1 DEF Successor
  <2>2. CASE InsertQueued(c)
    <3>1. PICK m \in Intents : Insert(m, c, "queued")
      BY <2>2 DEF InsertQueued
    <3>2. /\ status[m] = "absent" /\ status'[m] = "queued"
          /\ about'[m] = call[c].issue /\ kind'[m] = call[c].kind
      BY <3>1, InsertRow
    <3>3. n < m /\ n \in Nat /\ m \in Nat
      BY <3>2, DispatchAssumption DEF InOrder, DispatchAssumption
    <3>4. m > n
      BY <3>3
    <3> QED
      BY <1>0, <1>2, <3>2, <3>4 DEF Successor, OfKey
  <2> QED
    BY <1>2, <2>1, <2>2, AtInsert
<1> QED
  BY <1>1, <1>2 DEF Successor

\* What is superseded has a successor at once.
LEMMA SuccessorNew ==
  ASSUME TypeInv, DedupInv, [Next]_vars, NEW n \in Intents,
         status[n] # "superseded", status'[n] = "superseded"
  PROVE  Successor(n)'
<1>1. ASSUME NEW c \in Creators, Bury(c) PROVE Successor(n)'
  <2>1. PICK k \in Intents : Insert(k, c, "superseded")
    BY <1>1 DEF Bury
  <2>2. k = n
    BY <2>1, InsertRow
  <2>3. about'[n] = call[c].issue /\ kind'[n] = call[c].kind
    BY <2>1, <2>2, InsertRow
  <2>4. PICK m \in Intents : /\ OfKey(m, call[c].kind, call[c].issue)
                             /\ Priority(kind[m]) > Priority(call[c].kind)
    BY <1>1 DEF Bury, DedupInv, Outranked
  <2>5. status'[m] # "absent" /\ about'[m] = about[m] /\ kind'[m] = kind[m]
    BY <2>4, StepRows DEF RowMoves, OfKey
  <2> QED
    BY <2>3, <2>4, <2>5 DEF Successor, OfKey
<1>2. ASSUME NEW c \in Creators, InsertQueued(c) PROVE FALSE
  <2>1. PICK k \in Intents : Insert(k, c, "queued")
    BY <1>2 DEF InsertQueued
  <2> QED
    BY <2>1, InsertRow
<1>3. ASSUME NEW c \in Creators, Supersede(c) PROVE Successor(n)'
  <2>1. n \in SameKey(call[c].kind, call[c].issue)
    BY <1>3 DEF Supersede
  <2>2. UNCHANGED <<about, kind>>
    BY <1>3 DEF Supersede
  <2>3. call'[c] = [call[c] EXCEPT !.pc = "insert"] /\ call[c] \in Calls
    BY <1>3, NextPc DEF Supersede, TypeInv, CallTypes
  <2>4. call'[c].pc = "insert" /\ call'[c].kind = call[c].kind /\ call'[c].issue = call[c].issue
    BY <2>3 DEF Calls
  <2>5. Key(call'[c].kind, call'[c].issue) = Key(kind'[n], about'[n])
    BY <2>1, <2>2, <2>4 DEF SameKey
  <2> QED
    BY <2>4, <2>5 DEF Successor
<1>4. CASE Settles
  BY <1>4 DEF Settles
<1> QED
  BY <1>1, <1>2, <1>3, <1>4, StepOfRows DEF RowStep

LEMMA DedupStep == TypeInv /\ DedupInv /\ [Next]_vars => DedupInv'
<1> SUFFICES ASSUME TypeInv, DedupInv, [Next]_vars PROVE DedupInv'
  OBVIOUS
<1>1. InOrder'
  BY OrderStep DEF DedupInv
<1>2. ASSUME NEW c \in Creators, call'[c].pc = "bury" PROVE Outranked(c)'
  <2>1. Outranked(c) /\ call'[c].kind = call[c].kind /\ call'[c].issue = call[c].issue
    BY <1>2, ToBury DEF DedupInv
  <2> QED
    BY <2>1, OutrankedStays
<1>3. ASSUME NEW n \in Intents, status'[n] = "superseded" PROVE Successor(n)'
  BY <1>3, SuccessorNew, SuccessorStays DEF DedupInv
<1> QED
  BY <1>1, <1>2, <1>3 DEF DedupInv

\* Deduplication loses no request: whatever was superseded, by a statement of its own
\* or at birth, has a successor of its key, younger or of higher priority, in the
\* table or just about to be inserted, however many handlers create intents at once.
THEOREM NoRequestLost == Spec => []SupersededHasSuccessor
<1>1. Init => DedupInv
  BY OrderInit DEF Init, DedupInv, Idle
<1>2. DedupInv => SupersededHasSuccessor
  BY DEF DedupInv, Successor, OfKey, SupersededHasSuccessor
<1> QED
  BY <1>1, <1>2, TypeInit, TypeStep, DedupStep, PTL DEF Spec

-----------------------------------------------------------------------------
(* A blocked issue is woken.  Inductive is that somebody owes the wake as soon as *)
(* an intent of the issue has been deferred for its dependencies, or is about to  *)
(* be, and nothing blocks the issue any more; and what keeps the handler that     *)
(* owes it on its way: rows, calls and passes know an issue that is there.        *)

RowsKnown ==
  \A n \in Intents : IF status[n] = "absent" THEN about[n] = None /\ reason[n] = None
                     ELSE about[n] \in Issues /\ issueStatus[about[n]] # "new"

PassHasRow ==
  \A p \in Passes : pass[p].pc \notin {"idle", "fetch"} => status[pass[p].intent] # "absent"

CallFine(c) ==
  /\ call[c].pc = "idle" => call[c].of = None
  /\ call[c].pc \in Asking => issueStatus[call[c].issue] # "new"
  /\ call[c].pc \in {"outranked", "bury"} => call[c].kind = "timer_hint"
  /\ call[c].pc \in Asking /\ call[c].of # None => call[c].kind = "dependency_unblocked"

\* An intent that was deferred for its dependencies, or that a pass is about to defer.
Waiting(n) == \/ reason[n] = "dependency"
              \/ \E p \in Passes : pass[p].pc = "blocked" /\ pass[p].intent = n

\* A handler of a finished dependency of i that has not passed i over.
Owes(c, i) == /\ call[c].of # None /\ <<i, call[c].of>> \in Deps
              /\ \/ call[c].pc = "dependents" \/ i \in call[c].todo
                 \/ call[c].pc # "next" /\ call[c].issue = i

Followed(n, i) == \E m \in Intents : about[m] = i /\ m > n /\ kind[m] = "dependency_unblocked"

CanStart(i) == ~Blocked(i) /\ issueStatus[i] \notin Closed /\ pauses = 0

\* Issue i has an agent that it had before it could start, and was told of each of
\* its dependencies.
Expects(i) == /\ assignee[i] # None /\ i \notin given
              /\ \A d \in Issues : <<i, d>> \in Deps => d \notin silent

WakeInv ==
  /\ RowsKnown /\ PassHasRow
  /\ \A c \in Creators : CallFine(c)
  /\ paused => pauses # 0
  /\ \A i \in Issues \ Reopenable, n \in Intents :
       about[n] = i /\ Waiting(n) /\ CanStart(i) /\ Expects(i) =>
         Followed(n, i) \/ \E c \in Creators : Owes(c, i)

LEMMA WakeInit == Init => WakeInv
<1> SUFFICES ASSUME Init PROVE WakeInv
  OBVIOUS
<1>1. RowsKnown /\ PassHasRow
  BY DEF Init, RowsKnown, PassHasRow, IdlePass
<1>2. \A c \in Creators : CallFine(c)
  BY DEF Init, CallFine, Idle, Asking
<1>3. ~paused
  BY Zenon DEF Init
<1>4. \A n \in Intents : ~Waiting(n)
  BY DispatchAssumption DEF Init, Waiting, IdlePass, DispatchAssumption
<1> QED
  BY <1>1, <1>2, <1>3, <1>4, Zenon DEF WakeInv

\* An issue is closed by Close, which starts a handler for it or leaves it in `silent`
\* until it is opened again, and is opened again only where that is allowed.
StatusMoves(i) ==
  \/ issueStatus'[i] = issueStatus[i]
  \/ i \in Reopenable \/ issueStatus[i] \notin Closed
  \/ issueStatus'[i] \in Closed

Told(i) == \E c \in Creators : call'[c] = Finished(i)

DoneMoves(i) ==
  issueStatus'[i] = "done" => \/ issueStatus[i] = "done" /\ (i \in silent' <=> i \in silent)
                              \/ i \in silent'
                              \/ Told(i)

\* Who gets an agent when he can start is in `given`, until he cannot or has none.
GivenMoves(i) ==
  /\ assignee'[i] # None => \/ assignee[i] # None \/ issueStatus[i] = "new"
                            \/ i \in given' \/ Blocked(i)'
  /\ i \in given => i \in given' \/ assignee'[i] = None \/ Blocked(i)'

IssueMoves(i) ==
  /\ issueStatus[i] # "new" => issueStatus'[i] # "new"
  /\ StatusMoves(i) /\ DoneMoves(i) /\ GivenMoves(i)

LEMMA CloseMoves ==
  ASSUME TypeInv, NEW c \in Creators, NEW s \in Closed, Close(c, s), NEW i \in Issues
  PROVE  IssueMoves(i)
<1>0. PICK j \in Issues :
        /\ issueStatus' = [issueStatus EXCEPT ![j] = s]
        /\ patch' = [patch EXCEPT ![c] = NoPatch]
        /\ given' = IF s = "done" THEN given ELSE given \ Dependents(j)
        /\ \/ /\ silent' = IF issueStatus[j] = s THEN silent ELSE silent \cup {j}
              /\ UNCHANGED <<call, closing>>
           \/ /\ silent' = silent \ {j} /\ closing' = [closing EXCEPT ![j] = "reject"]
              /\ s = "done" => /\ call[c].pc = "idle"
                               /\ call' = [call EXCEPT ![c] =
                                             [Idle EXCEPT !.pc = "dependents", !.of = j]]
              /\ s # "done" => UNCHANGED call
        /\ UNCHANGED <<intents, assignee, paused, pauses, timers, pass, made, quiesce, stale>>
  BY CloseFacts DEF TypeInv
<1>1. /\ issueStatus'[j] = s
      /\ \A k \in Issues \ {j} : issueStatus'[k] = issueStatus[k]
  BY <1>0 DEF TypeInv, WorkTypes
<1>2. StatusMoves(i) /\ (issueStatus[i] # "new" => issueStatus'[i] # "new")
  BY <1>1 DEF StatusMoves, Closed
<1>3. DoneMoves(i)
  <2>1. CASE i # j
    BY <1>0, <1>1, <2>1 DEF DoneMoves
  <2>2. CASE i = j /\ s = "done"
    <3>1. CASE silent' = IF issueStatus[j] = s THEN silent ELSE silent \cup {j}
      BY <2>2, <3>1 DEF DoneMoves
    <3>2. CASE call' = [call EXCEPT ![c] = [Idle EXCEPT !.pc = "dependents", !.of = j]]
      <4>1. call'[c] = Finished(j)
        BY <3>2 DEF Finished, TypeInv, CallTypes
      <4> QED
        BY <2>2, <4>1 DEF DoneMoves, Told
    <3> QED
      BY <1>0, <2>2, <3>1, <3>2
  <2>3. CASE i = j /\ s # "done"
    BY <1>1, <2>3 DEF DoneMoves
  <2> QED
    BY <2>1, <2>2, <2>3
<1>4. GivenMoves(i)
  <2>1. CASE i \in given'
    BY <1>0, <2>1 DEF GivenMoves
  <2>2. CASE i \in given /\ i \notin given'
    <3>1. s # "done" /\ <<i, j>> \in Deps
      BY <1>0, <2>2 DEF Dependents
    <3>2. Blocked(i)'
      BY <1>1, <3>1 DEF Blocked
    <3> QED
      BY <3>2 DEF GivenMoves
  <2>3. CASE i \notin given
    BY <1>0, <2>3 DEF GivenMoves
  <2> QED
    BY <2>1, <2>2, <2>3
<1> QED
  BY <1>2, <1>3, <1>4 DEF IssueMoves

LEMMA OpenMoves ==
  ASSUME TypeInv, NEW j \in Issues, Reopen(j) \/ Release(j), NEW i \in Issues PROVE IssueMoves(i)
<1>1. /\ issueStatus'[j] = "todo" /\ silent' = silent \ {j}
      /\ issueStatus[j] \in Closed => j \in Reopenable
      /\ \A k \in Issues \ {j} : issueStatus'[k] = issueStatus[k]
  BY DEF Reopen, Release, OpenAgain, TypeInv, WorkTypes
<1>2. StatusMoves(i) /\ DoneMoves(i) /\ (issueStatus[i] # "new" => issueStatus'[i] # "new")
  BY <1>1 DEF StatusMoves, DoneMoves
<1>3. /\ assignee'[i] # None => assignee'[i] = assignee[i]
      /\ i \in given /\ i \notin given' => <<i, j>> \in Deps \/ assignee'[i] = None
  BY DEF Reopen, Release, Dependents, TypeInv, WorkTypes
<1>4. <<i, j>> \in Deps => Blocked(i)'
  BY <1>1 DEF Blocked
<1> QED
  BY <1>2, <1>3, <1>4 DEF IssueMoves, GivenMoves

LEMMA StepIssues ==
  ASSUME TypeInv, [Next]_vars, NEW i \in Issues PROVE IssueMoves(i)
<1>0. ASSUME UNCHANGED <<issueStatus, assignee, given, silent>> PROVE IssueMoves(i)
  BY <1>0 DEF IssueMoves, StatusMoves, DoneMoves, GivenMoves
<1>1. CASE UNCHANGED vars
  BY <1>0, <1>1 DEF vars, work, requests
<1>2. ASSUME NEW c \in Creators, NEW j \in Issues, NEW a \in Agents, Assign(c, j, a)
      PROVE  IssueMoves(i)
  <2>1. /\ issueStatus[j] = "new" /\ issueStatus' = [issueStatus EXCEPT ![j] = "todo"]
        /\ assignee' = [assignee EXCEPT ![j] = a] /\ UNCHANGED <<given, silent>>
    BY <1>2 DEF Assign, requests
  <2> QED
    BY <2>1 DEF IssueMoves, StatusMoves, DoneMoves, GivenMoves, Closed, TypeInv, WorkTypes
<1>3. ASSUME NEW j \in Issues, NEW a \in Agents \cup {None}, Reassign(j, a) PROVE IssueMoves(i)
  <2>1. /\ UNCHANGED <<issueStatus, silent>> /\ assignee' = [assignee EXCEPT ![j] = a]
        /\ given' = IF a = None THEN given \ {j}
                    ELSE IF assignee[j] = None /\ ~Blocked(j) THEN given \cup {j} ELSE given
    BY <1>3 DEF Reassign
  <2>2. Blocked(i)' <=> Blocked(i)
    BY <2>1 DEF Blocked
  <2> QED
    BY <2>1, <2>2 DEF IssueMoves, StatusMoves, DoneMoves, GivenMoves, TypeInv, WorkTypes
<1>4. CASE \/ \E c \in Creators : Create(c) \/ \E j \in Issues : TimerHint(c, j) \/ ReadPatch(c, j)
           \/ \E j \in Issues : Handle(j)
           \/ \E x \in Made : Claim(x) \/ Refuse(x) \/ Finish(x) \/ Expire(x)
           \/ Resume \/ Pause \/ QuiesceOn \/ FindStale \/ RejectStale
  <2>1. UNCHANGED <<issueStatus, assignee, given, silent>>
    BY <1>4 DEF Create, CheckCompany, CheckOutranked, Bury, Supersede, InsertQueued, FindDependents,
       NextDependent, ReadDependent, CALL_UNCHANGED, TimerHint, ReadPatch, Handle, InvalidateIntents,
       InvalidateLeases, Claim, Refuse, Finish, Expire, MADE_UNCHANGED, Pause, Resume, QuiesceOn,
       QuiesceRead, QuiesceRuns, QuiesceIntents, QuiesceLeases, QUIESCE_UNCHANGED, FindStale,
       RejectStale, work, requests
  <2> QED
    BY <1>0, <2>1
<1>5. CASE \E p \in Passes : PassStart(p) \/ Schedule(p)
  <2>1. UNCHANGED <<issueStatus, assignee, given, silent>>
    BY <1>5 DEF PassStart, Schedule, Fetch, ReadCompany, ReadIssue, ReadDeps, ReadLease, ReadSlots,
                Verdict, Resolve, GrantLease, CreateRun, CreateEnvelope, PASS_UNCHANGED, work, requests
  <2> QED
    BY <1>0, <2>1
<1> QED
  BY <1>1, <1>2, <1>3, <1>4, <1>5, CloseMoves, OpenMoves DEF Next

\* A company that has been paused once has been paused for good, as far as we count.
LEMMA StepPause ==
  ASSUME TypeInv, [Next]_vars, paused => pauses # 0
  PROVE  /\ paused' => pauses' # 0
         /\ pauses' = 0 => pauses = 0
<1>1. CASE Pause
  <2>1. pauses \in Nat /\ pauses' = pauses + 1
    BY <1>1, DispatchAssumption DEF Pause, TypeInv, WorkTypes, DispatchAssumption
  <2>2. pauses' # 0
    BY <2>1
  <2> QED
    BY <2>2
<1>2. CASE Resume
  <2>1. ~paused' /\ UNCHANGED pauses
    BY <1>2, Zenon DEF Resume
  <2> QED
    BY <2>1, Zenon
<1>3. ASSUME UNCHANGED <<paused, pauses>> PROVE (paused' => pauses' # 0) /\ (pauses' = 0 => pauses = 0)
  <2>1. paused' = paused /\ pauses' = pauses
    BY <1>3
  <2> QED
    BY <2>1, Zenon
<1>4. CASE \/ UNCHANGED vars
           \/ \E c \in Creators, i \in Issues : \/ \E a \in Agents : Assign(c, i, a)
                                                \/ TimerHint(c, i)
                                                \/ ReadPatch(c, i)
           \/ \E c \in Creators : Create(c)
           \/ \E i \in Issues : Handle(i) \/ Reopen(i) \/ Release(i)
           \/ \E i \in Issues, a \in Agents \cup {None} : Reassign(i, a)
           \/ \E c \in Creators, s \in Closed : Close(c, s)
           \/ \E x \in Made : Claim(x) \/ Refuse(x) \/ Finish(x) \/ Expire(x)
           \/ QuiesceOn \/ FindStale \/ RejectStale
  <2>1. UNCHANGED <<paused, pauses>>
    BY <1>4 DEF vars, Assign, Reassign, Close, ReadPatch, Reopen, Release, OpenAgain, Create,
       CheckCompany, CheckOutranked, Bury, Supersede, InsertQueued, FindDependents, NextDependent, ReadDependent, CALL_UNCHANGED,
       TimerHint, Handle, InvalidateIntents, InvalidateLeases, Claim, Refuse, Finish, Expire,
       MADE_UNCHANGED, QuiesceOn, QuiesceRead, QuiesceRuns, QuiesceIntents, QuiesceLeases,
       QUIESCE_UNCHANGED, FindStale, RejectStale, work
  <2> QED
    BY <1>3, <2>1
<1>5. CASE \E p \in Passes : PassStart(p) \/ Schedule(p)
  <2>1. UNCHANGED <<paused, pauses>>
    BY <1>5 DEF PassStart, Schedule, Fetch, ReadCompany, ReadIssue, ReadDeps, ReadLease, ReadSlots,
                Verdict, Resolve, GrantLease, CreateRun, CreateEnvelope, PASS_UNCHANGED, work
  <2> QED
    BY <1>3, <2>1
<1> QED
  BY <1>1, <1>2, <1>4, <1>5 DEF Next

\* A pass turns to an intent that is queued, keeps it, and is to defer it for its
\* dependencies only when it has found them unresolved.
PassMoves(p) ==
  \/ pass'[p] = pass[p]
  \/ pass'[p].pc \in {"idle", "fetch"}
  \/ pass'[p].pc = "company" /\ status[pass'[p].intent] = "queued"
  \/ /\ pass[p].pc \notin {"idle", "fetch", "blocked"} /\ pass'[p].intent = pass[p].intent
     /\ pass'[p].pc = "blocked" => Blocked(about[pass[p].intent]) /\ UNCHANGED issueStatus

LEMMA ToMoves ==
  ASSUME TypeInv, NEW p \in Passes, pass[p].pc \notin {"idle", "fetch", "blocked"},
         NEW pc, PassTo(p, pc), pc # "blocked"
  PROVE  PassMoves(p)
BY DEF PassTo, PassMoves, TypeInv, PassTypes, PassRecords

LEMMA OnMoves == ASSUME TypeInv, NEW p \in Passes, PassOn(p) PROVE PassMoves(p)
BY DEF PassOn, With, IdlePass, PassMoves, TypeInv, PassTypes, PassRecords

LEMMA ResolvePass ==
  ASSUME TypeInv, NEW p \in Passes, NEW pc \in {"admit", "reject", "blocked", "busy"}, NEW s, NEW why,
         s = "admitted" => pc # "blocked", Resolve(p, pc, s, why)
  PROVE  PassMoves(p)
<1>1. CASE status[pass[p].intent] # "queued"
  BY <1>1 DEF Resolve, IdlePass, PassMoves, TypeInv, PassTypes
<1>2. CASE status[pass[p].intent] = "queued" /\ s = "admitted"
  BY <1>2, ToMoves DEF Resolve
<1>3. CASE status[pass[p].intent] = "queued" /\ s # "admitted"
  BY <1>3, OnMoves DEF Resolve
<1> QED
  BY <1>1, <1>2, <1>3

LEMMA OnePassMoves ==
  ASSUME TypeInv, NEW p \in Passes, PassStart(p) \/ Schedule(p) PROVE PassMoves(p)
<1>0. pass \in [Passes -> PassRecords] /\ pass[p] \in PassRecords
  BY DEF TypeInv, PassTypes
<1>1. CASE PassStart(p)
  BY <1>0, <1>1 DEF PassStart, PassMoves, PassRecords
<1>2. CASE Fetch(p)
  BY <1>0, <1>2 DEF Fetch, With, IdlePass, PassMoves, PassRecords
<1>3. CASE ReadCompany(p) \/ ReadLease(p) \/ ReadSlots(p)
  BY <1>3, ToMoves DEF ReadCompany, ReadLease, ReadSlots, Verdict
<1>4. CASE ReadIssue(p)
  BY <1>0, <1>4 DEF ReadIssue, PassMoves, PassRecords
<1>5. CASE ReadDeps(p)
  <2>1. UNCHANGED issueStatus /\ pass[p].pc = "deps"
    BY <1>5 DEF ReadDeps, Verdict, PASS_UNCHANGED, work
  <2>2. CASE Blocked(about[pass[p].intent])
    BY <1>0, <1>5, <2>1, <2>2 DEF ReadDeps, Verdict, PassTo, PassMoves, PassRecords
  <2>3. CASE ~Blocked(about[pass[p].intent])
    <3>1. \E pc \in {"reject", "lease"} : PassTo(p, pc)
      BY <1>5, <2>3 DEF ReadDeps, Verdict
    <3> QED
      BY <2>1, <3>1, ToMoves
  <2> QED
    BY <2>2, <2>3
<1>6. CASE \/ Resolve(p, "admit", "admitted", None) \/ Resolve(p, "reject", "rejected", None)
           \/ Resolve(p, "blocked", "deferred", "dependency") \/ Resolve(p, "busy", "deferred", "busy")
  BY <1>6, ResolvePass
<1>7. CASE GrantLease(p) \/ CreateRun(p)
  BY <1>7, ToMoves DEF GrantLease, CreateRun
<1>8. CASE CreateEnvelope(p)
  BY <1>8, OnMoves DEF CreateEnvelope
<1> QED
  BY <1>1, <1>2, <1>3, <1>4, <1>5, <1>6, <1>7, <1>8 DEF Schedule

LEMMA StepPasses == ASSUME TypeInv, [Next]_vars, NEW p \in Passes PROVE PassMoves(p)
<1>0. UNCHANGED pass => PassMoves(p)
  BY DEF PassMoves
<1>1. ASSUME NEW q \in Passes, PassStart(q) \/ Schedule(q) PROVE PassMoves(p)
  <2>1. CASE q = p
    BY <1>1, <2>1, OnePassMoves
  <2>2. CASE q # p
    <3>1. \E x : pass' = [pass EXCEPT ![q] = x]
      <4>1. CASE PassStart(q)
        <5>1. pass' = [pass EXCEPT ![q] = [pass[q] EXCEPT !.pc = "fetch", !.todo = Queued]]
          BY <4>1 DEF PassStart
        <5> QED
          BY <5>1
      <4>2. CASE Fetch(q)
        BY <4>2, Zenon DEF Fetch
      <4>3. CASE ReadCompany(q) \/ ReadDeps(q) \/ ReadLease(q) \/ ReadSlots(q)
        BY <4>3, Zenon DEF ReadCompany, ReadDeps, ReadLease, ReadSlots, Verdict, PassTo
      <4>4. CASE ReadIssue(q)
        <5> DEFINE n == pass[q].intent
        <5>1. pass' = [pass EXCEPT ![q] =
                 [pass[q] EXCEPT !.pc = IF issueStatus[about[n]] \in Closed THEN "reject" ELSE "deps",
                                 !.stranger = assignee[about[n]] # target[n]]]
          BY <4>4 DEF ReadIssue
        <5> QED
          BY <5>1
      <4>5. ASSUME NEW pc, NEW s, NEW why, Resolve(q, pc, s, why)
            PROVE  \E x : pass' = [pass EXCEPT ![q] = x]
        BY <4>5, Zenon DEF Resolve, PassTo, PassOn
      <4>6. CASE GrantLease(q) \/ CreateRun(q) \/ CreateEnvelope(q)
        BY <4>6, Zenon DEF GrantLease, CreateRun, CreateEnvelope, PassTo, PassOn
      <4> QED
        BY <1>1, <4>1, <4>2, <4>3, <4>4, <4>5, <4>6 DEF Schedule
    <3> QED
      BY <1>0, <2>2, <3>1 DEF PassMoves, TypeInv, PassTypes
  <2> QED
    BY <2>1, <2>2
<1>2. CASE \/ UNCHANGED vars
           \/ \E c \in Creators, i \in Issues : \/ \E a \in Agents : Assign(c, i, a)
                                                \/ TimerHint(c, i)
                                                \/ ReadPatch(c, i)
           \/ \E c \in Creators : Create(c)
           \/ \E i \in Issues : Handle(i) \/ Reopen(i) \/ Release(i)
           \/ \E i \in Issues, a \in Agents \cup {None} : Reassign(i, a)
           \/ \E c \in Creators, s \in Closed : Close(c, s)
           \/ \E x \in Made : Claim(x) \/ Refuse(x) \/ Finish(x) \/ Expire(x)
           \/ Pause \/ Resume \/ QuiesceOn \/ FindStale \/ RejectStale
  <2>1. UNCHANGED pass
    BY <1>2 DEF vars, Assign, Reassign, Close, ReadPatch, Reopen, Release, OpenAgain, Create,
       CheckCompany, CheckOutranked, Bury, Supersede, InsertQueued, FindDependents, NextDependent, ReadDependent, CALL_UNCHANGED,
       TimerHint, Handle, InvalidateIntents, InvalidateLeases, Claim, Refuse, Finish, Expire,
       MADE_UNCHANGED, Pause, Resume, QuiesceOn, QuiesceRead, QuiesceRuns, QuiesceIntents,
       QuiesceLeases, QUIESCE_UNCHANGED, FindStale, RejectStale
  <2> QED
    BY <1>0, <2>1
<1> QED
  BY <1>1, <1>2 DEF Next

LEMMA PassRowStep ==
  ASSUME TypeInv, PassHasRow, [Next]_vars PROVE PassHasRow'
<1> SUFFICES ASSUME NEW p \in Passes, pass'[p].pc \notin {"idle", "fetch"}
             PROVE  status'[pass'[p].intent] # "absent"
  BY DEF PassHasRow
<1>0. TypeInv'
  BY TypeStep
<1>1. pass'[p].intent \in Intents
  BY <1>0 DEF TypeInv, PassTypes, PassKnows
<1>2. status[pass'[p].intent] # "absent"
  BY StepPasses DEF PassMoves, PassHasRow
<1> QED
  BY <1>1, <1>2, StepRows DEF RowMoves

\* The reason of an intent is written by the pass that has it.
ReasonMoves(n) ==
  \/ reason'[n] = reason[n]
  \/ \E p \in Passes : /\ pass[p].intent = n /\ pass[p].pc \notin {"idle", "fetch"}
                       /\ reason'[n] = "dependency" => pass[p].pc = "blocked"

LEMMA StepReasons == ASSUME TypeInv, [Next]_vars, NEW n \in Intents PROVE ReasonMoves(n)
<1>0. UNCHANGED reason => ReasonMoves(n)
  BY DEF ReasonMoves
<1>1. CASE \E p \in Passes : PassStart(p) \/ Schedule(p)
  <2>1. PICK p \in Passes : PassStart(p) \/ Schedule(p)
    BY <1>1
  <2>2. ASSUME NEW pc \in {"admit", "reject", "blocked", "busy"}, NEW s, NEW why,
               why = "dependency" => pc = "blocked", Resolve(p, pc, s, why)
        PROVE  ReasonMoves(n)
    BY <2>2 DEF Resolve, ReasonMoves, TypeInv, RowTypes
  <2>3. CASE \/ Resolve(p, "admit", "admitted", None) \/ Resolve(p, "reject", "rejected", None)
             \/ Resolve(p, "blocked", "deferred", "dependency") \/ Resolve(p, "busy", "deferred", "busy")
    BY <2>2, <2>3, DispatchAssumption DEF DispatchAssumption
  <2>4. CASE PassStart(p) \/ Fetch(p) \/ ReadCompany(p) \/ ReadIssue(p) \/ ReadDeps(p)
             \/ ReadLease(p) \/ ReadSlots(p) \/ GrantLease(p) \/ CreateRun(p) \/ CreateEnvelope(p)
    <3>1. UNCHANGED reason
      BY <2>4 DEF PassStart, Fetch, ReadCompany, ReadIssue, ReadDeps, ReadLease, ReadSlots,
                  Verdict, GrantLease, CreateRun, CreateEnvelope
    <3> QED
      BY <1>0, <3>1
  <2> QED
    BY <2>1, <2>3, <2>4 DEF Schedule
<1>2. CASE \/ UNCHANGED vars
           \/ \E c \in Creators, i \in Issues : \/ \E a \in Agents : Assign(c, i, a)
                                                \/ TimerHint(c, i)
                                                \/ ReadPatch(c, i)
           \/ \E c \in Creators : Create(c)
           \/ \E i \in Issues : Handle(i) \/ Reopen(i) \/ Release(i)
           \/ \E i \in Issues, a \in Agents \cup {None} : Reassign(i, a)
           \/ \E c \in Creators, s \in Closed : Close(c, s)
           \/ \E x \in Made : Claim(x) \/ Refuse(x) \/ Finish(x) \/ Expire(x)
           \/ Pause \/ Resume \/ QuiesceOn \/ FindStale \/ RejectStale
  <2>1. UNCHANGED reason
    BY <1>2 DEF vars, intents, Assign, Reassign, Close, ReadPatch, Reopen, Release, OpenAgain,
       Create, CheckCompany, CheckOutranked, Bury, Supersede, InsertQueued, Insert, FindDependents, NextDependent, ReadDependent,
       TimerHint, Handle, InvalidateIntents, InvalidateLeases, Claim, Refuse, Finish, Expire,
       MADE_UNCHANGED, Pause, Resume, QuiesceOn, QuiesceRead, QuiesceRuns, QuiesceIntents,
       QuiesceLeases, QUIESCE_UNCHANGED, FindStale, RejectStale
  <2> QED
    BY <1>0, <2>1
<1> QED
  BY <1>1, <1>2 DEF Next

\* What is known of the rows, and of the calls that make them.
LEMMA KnownStep ==
  ASSUME TypeInv, RowsKnown, PassHasRow, \A c \in Creators : CallFine(c), [Next]_vars
  PROVE  RowsKnown'
<1> SUFFICES ASSUME NEW n \in Intents
             PROVE  IF status'[n] = "absent" THEN about'[n] = None /\ reason'[n] = None
                    ELSE about'[n] \in Issues /\ issueStatus'[about'[n]] # "new"
  BY DEF RowsKnown
<1>1. CASE status[n] # "absent"
  <2>1. status'[n] # "absent" /\ about'[n] = about[n]
    BY <1>1, StepRows DEF RowMoves
  <2>2. about[n] \in Issues /\ issueStatus[about[n]] # "new"
    BY <1>1 DEF RowsKnown
  <2> QED
    BY <2>1, <2>2, StepIssues DEF IssueMoves
<1>2. CASE status[n] = "absent"
  <2>0. about[n] = None /\ reason[n] = None
    BY <1>2 DEF RowsKnown
  <2>1. reason'[n] = None
    BY <1>2, <2>0, StepReasons DEF ReasonMoves, PassHasRow
  <2>2. ASSUME NEW c \in Creators, NEW m \in Intents, NEW s, s # "absent", Insert(m, c, s),
               call[c].pc \in Asking
        PROVE  IF status'[n] = "absent" THEN about'[n] = None /\ reason'[n] = None
               ELSE about'[n] \in Issues /\ issueStatus'[about'[n]] # "new"
    <3>1. call[c].issue \in Issues /\ issueStatus[call[c].issue] # "new"
      BY <2>2 DEF CallFine, TypeInv, CallTypes, CallKnows
    <3>2. CASE m = n
      BY <2>2, <3>1, <3>2, InsertRow, StepIssues DEF IssueMoves
    <3>3. CASE m # n
      BY <1>2, <2>0, <2>1, <2>2, <3>3, InsertRow
    <3> QED
      BY <3>2, <3>3
  <2>3. CASE \E c \in Creators : Bury(c) \/ InsertQueued(c)
    BY <2>2, <2>3 DEF Bury, InsertQueued, Asking
  <2>4. CASE \/ \E c \in Creators : Supersede(c)
             \/ Settles
    <3>1. status'[n] = "absent" /\ about'[n] = about[n]
      BY <1>2, <2>4 DEF Supersede, Queued, Settles
    <3> QED
      BY <2>0, <2>1, <3>1
  <2> QED
    BY <2>3, <2>4, StepOfRows DEF RowStep
<1> QED
  BY <1>1, <1>2

LEMMA CallFineStep ==
  ASSUME TypeInv, [Next]_vars, NEW c \in Creators, CallFine(c) PROVE CallFine(c)'
<1>0. /\ call \in [Creators -> Calls] /\ call[c] \in Calls /\ CallKnows(call[c])
      /\ None \notin Issues
  BY DispatchAssumption DEF TypeInv, CallTypes, DispatchAssumption
<1>1. CASE call'[c] = call[c]
  <2>1. call[c].pc \in Asking => issueStatus'[call[c].issue] # "new"
    BY <1>0, StepIssues DEF CallFine, CallKnows, IssueMoves
  <2> QED
    BY <1>1, <2>1 DEF CallFine
<1>2. ASSUME NEW i \in Issues, issueStatus'[i] # "new", NEW a, NEW k, call'[c] = Asks(i, a, k)
      PROVE  CallFine(c)'
  BY <1>2 DEF Asks, Idle, Asking, CallFine
<1>3. ASSUME NEW i \in Issues, call'[c] = Finished(i) PROVE CallFine(c)'
  BY <1>3 DEF Finished, Idle, Asking, CallFine
<1>4. ASSUME GoOn(c) PROVE CallFine(c)'
  <2>1. \/ call'[c] = Idle
        \/ call'[c] = [call[c] EXCEPT !.pc = "next"]
    BY <1>0, <1>4 DEF GoOn
  <2> QED
    BY <1>0, <2>1 DEF Idle, Asking, CallFine, Calls
<1>5. ASSUME NEW pc \in Asking, GoTo(c, pc), call[c].pc \in Asking,
             pc \in {"outranked", "bury"} => call[c].kind = "timer_hint"
      PROVE  CallFine(c)'
  <2>1. call'[c] = [call[c] EXCEPT !.pc = pc]
    BY <1>0, <1>5 DEF GoTo
  <2>2. /\ call'[c].pc = pc /\ call'[c].issue = call[c].issue /\ call'[c].of = call[c].of
        /\ call'[c].kind = call[c].kind
    BY <1>0, <2>1 DEF Calls
  <2>3. issueStatus'[call[c].issue] # "new"
    BY <1>0, <1>5, StepIssues DEF CallFine, CallKnows, IssueMoves
  <2> QED
    BY <1>5, <2>2, <2>3 DEF CallFine, Asking
<1>6. ASSUME call'[c] = Idle \/ call'[c].pc \in {"next", "dependent"} PROVE CallFine(c)'
  BY <1>6 DEF Idle, Asking, CallFine
<1>7. CASE Create(c)
  <2>1. CASE CheckCompany(c)
    BY <1>4, <1>5, <2>1 DEF CheckCompany, Asking
  <2>2. CASE CheckOutranked(c)
    <3>1. \E pc \in {"bury", "supersede"} : GoTo(c, pc)
      BY <2>2 DEF CheckOutranked
    <3> QED
      BY <1>5, <2>2, <3>1 DEF CheckOutranked, CallFine, Asking
  <2>3. CASE Bury(c) \/ InsertQueued(c)
    BY <1>4, <2>3 DEF Bury, InsertQueued
  <2>4. CASE Supersede(c)
    BY <1>5, <2>4 DEF Supersede, Asking
  <2>5. CASE FindDependents(c)
    <3>1. \/ call'[c] = Idle
          \/ call'[c] = [call[c] EXCEPT !.pc = "next", !.todo = Dependents(call[c].of)]
      BY <1>0, <2>5 DEF FindDependents
    <3> QED
      BY <1>0, <1>6, <3>1 DEF Calls
  <2>6. CASE NextDependent(c)
    <3>1. PICK j \in call[c].todo :
            call' = [call EXCEPT ![c] = IF ~Blocked(j)
                                        THEN [call[c] EXCEPT !.pc = "dependent", !.issue = j, !.todo = @ \ {j}]
                                        ELSE IF @.todo = {j} THEN Idle
                                        ELSE [call[c] EXCEPT !.todo = @ \ {j}]]
      BY <2>6 DEF NextDependent
    <3>2. \/ call'[c] = [call[c] EXCEPT !.pc = "dependent", !.issue = j, !.todo = @ \ {j}]
          \/ call'[c] = Idle
          \/ call'[c] = [call[c] EXCEPT !.todo = @ \ {j}]
      BY <1>0, <3>1
    <3>3. call[c].pc = "next"
      BY <2>6 DEF NextDependent
    <3> QED
      BY <1>0, <1>6, <3>2, <3>3 DEF Calls
  <2>7. CASE ReadDependent(c)
    <3>1. CASE issueStatus[call[c].issue] \in Closed \/ assignee[call[c].issue] = None
      BY <1>4, <2>7, <3>1 DEF ReadDependent
    <3>2. CASE ~(issueStatus[call[c].issue] \in Closed \/ assignee[call[c].issue] = None)
      <4>1. call'[c] = [call[c] EXCEPT !.pc = "admission", !.agent = assignee[call[c].issue],
                                       !.kind = "dependency_unblocked"]
        BY <1>0, <2>7, <3>2 DEF ReadDependent
      <4>2. call[c].issue \in Issues
        BY <1>0, <2>7 DEF ReadDependent, CallKnows
      <4>3. issueStatus'[call[c].issue] # "new"
        BY <3>2, <4>2, StepIssues DEF IssueMoves, TypeInv, WorkTypes
      <4>4. /\ call'[c].pc = "admission" /\ call'[c].issue = call[c].issue
            /\ call'[c].kind = "dependency_unblocked"
        BY <1>0, <4>1 DEF Calls
      <4> QED
        BY <4>3, <4>4 DEF CallFine, Asking
    <3> QED
      BY <3>1, <3>2
  <2> QED
    BY <1>7, <2>1, <2>2, <2>3, <2>4, <2>5, <2>6, <2>7 DEF Create
<1> QED
  BY <1>1, <1>2, <1>3, <1>7, StepCalls DEF CallMoves

\* The handler that owes issue i a wake goes on owing it, or pays.
Paid(i) == \E m \in Intents : /\ status[m] = "absent"
                              /\ about'[m] = i /\ kind'[m] = "dependency_unblocked"

LEMMA OwesStep ==
  ASSUME TypeInv, [Next]_vars, NEW c \in Creators, NEW i \in Issues, CallFine(c), Owes(c, i),
         ~paused, CanStart(i), assignee[i] # None
  PROVE  Owes(c, i)' \/ Paid(i)
<1>0. call \in [Creators -> Calls] /\ call[c] \in Calls
  BY DEF TypeInv, CallTypes
<1>1. CASE call'[c] = call[c]
  BY <1>1 DEF Owes
<1>2. ASSUME NEW pc, pc # "next", call[c].pc # "dependents", call[c].pc # "next", GoTo(c, pc)
      PROVE  Owes(c, i)'
  <2>1. call'[c] = [call[c] EXCEPT !.pc = pc]
    BY <1>0, <1>2 DEF GoTo
  <2>2. /\ call'[c].pc = pc /\ call'[c].issue = call[c].issue /\ call'[c].of = call[c].of
        /\ call'[c].todo = call[c].todo
    BY <1>0, <2>1 DEF Calls
  <2> QED
    BY <1>2, <2>2 DEF Owes
<1>3. ASSUME i \in call[c].todo, GoOn(c) PROVE Owes(c, i)'
  <2>1. call'[c] = [call[c] EXCEPT !.pc = "next"]
    BY <1>0, <1>3 DEF GoOn
  <2>2. call'[c].of = call[c].of /\ call'[c].todo = call[c].todo
    BY <1>0, <2>1 DEF Calls
  <2> QED
    BY <1>3, <2>2 DEF Owes
<1>4. CASE Create(c)
  <2>1. CASE CheckCompany(c)
    <3>1. \E pc \in {"outranked", "supersede"} : GoTo(c, pc)
      BY <2>1, Zenon DEF CheckCompany
    <3> QED
      BY <1>2, <2>1, <3>1 DEF CheckCompany
  <2>2. CASE CheckOutranked(c)
    <3>1. \E pc \in {"bury", "supersede"} : GoTo(c, pc)
      BY <2>2 DEF CheckOutranked
    <3> QED
      BY <1>2, <2>2, <3>1 DEF CheckOutranked
  <2>3. CASE Bury(c)
    BY <2>3 DEF Bury, CallFine, Owes, Asking
  <2>4. CASE Supersede(c)
    BY <1>2, <2>4 DEF Supersede
  <2>5. CASE InsertQueued(c)
    <3>1. PICK m \in Intents : Insert(m, c, "queued")
      BY <2>5 DEF InsertQueued
    <3>2. CASE call[c].issue = i
      <4>1. call[c].kind = "dependency_unblocked"
        BY <2>5 DEF InsertQueued, CallFine, Owes, Asking
      <4> QED
        BY <3>1, <3>2, <4>1, InsertRow DEF Paid
    <3>3. CASE call[c].issue # i
      BY <1>3, <2>5, <3>3 DEF InsertQueued, Owes
    <3> QED
      BY <3>2, <3>3
  <2>6. CASE FindDependents(c)
    <3>1. i \in Dependents(call[c].of)
      BY DEF Owes, Dependents
    <3>2. call'[c] = [call[c] EXCEPT !.pc = "next", !.todo = Dependents(call[c].of)]
      <4>1. ~(paused \/ Dependents(call[c].of) = {})
        BY <3>1, Zenon
      <4> QED
        BY <1>0, <2>6, <4>1 DEF FindDependents
    <3>3. call'[c].of = call[c].of /\ call'[c].todo = Dependents(call[c].of)
      BY <1>0, <3>2 DEF Calls
    <3> QED
      BY <3>1, <3>3 DEF Owes
  <2>7. CASE NextDependent(c)
    <3>0. i \in call[c].todo
      BY <2>7 DEF NextDependent, Owes
    <3>1. PICK j \in call[c].todo :
            call' = [call EXCEPT ![c] = IF ~Blocked(j)
                                        THEN [call[c] EXCEPT !.pc = "dependent", !.issue = j, !.todo = @ \ {j}]
                                        ELSE IF @.todo = {j} THEN Idle
                                        ELSE [call[c] EXCEPT !.todo = @ \ {j}]]
      BY <2>7 DEF NextDependent
    <3>2. CASE ~Blocked(j)
      <4>1. call'[c] = [call[c] EXCEPT !.pc = "dependent", !.issue = j, !.todo = @ \ {j}]
        BY <1>0, <3>1, <3>2
      <4>2. /\ call'[c].pc = "dependent" /\ call'[c].issue = j /\ call'[c].of = call[c].of
            /\ call'[c].todo = call[c].todo \ {j}
        BY <1>0, <4>1 DEF Calls
      <4> QED
        BY <3>0, <4>2 DEF Owes
    <3>3. CASE Blocked(j)
      <4>1. i # j /\ call[c].todo # {j}
        BY <3>0, <3>3 DEF CanStart
      <4>2. call'[c] = [call[c] EXCEPT !.todo = @ \ {j}]
        BY <1>0, <3>1, <3>3, <4>1
      <4>3. call'[c].of = call[c].of /\ call'[c].todo = call[c].todo \ {j}
        BY <1>0, <4>2 DEF Calls
      <4> QED
        BY <3>0, <4>1, <4>3 DEF Owes
    <3> QED
      BY <3>2, <3>3
  <2>8. CASE ReadDependent(c)
    <3>1. CASE issueStatus[call[c].issue] \in Closed \/ assignee[call[c].issue] = None
      <4>1. call[c].issue # i
        BY <3>1 DEF CanStart
      <4> QED
        BY <1>3, <2>8, <3>1, <4>1 DEF ReadDependent, Owes
    <3>2. CASE ~(issueStatus[call[c].issue] \in Closed \/ assignee[call[c].issue] = None)
      <4>1. call'[c] = [call[c] EXCEPT !.pc = "admission", !.agent = assignee[call[c].issue],
                                       !.kind = "dependency_unblocked"]
        BY <1>0, <2>8, <3>2 DEF ReadDependent
      <4>2. /\ call'[c].pc = "admission" /\ call'[c].issue = call[c].issue
            /\ call'[c].of = call[c].of /\ call'[c].todo = call[c].todo
        BY <1>0, <4>1 DEF Calls
      <4> QED
        BY <2>8, <4>2 DEF Owes, ReadDependent
    <3> QED
      BY <3>1, <3>2
  <2> QED
    BY <1>4, <2>1, <2>2, <2>3, <2>4, <2>5, <2>6, <2>7, <2>8 DEF Create
<1>5. call[c].pc # "idle"
  BY DEF CallFine, Owes
<1> QED
  BY <1>1, <1>4, <1>5, StepCalls DEF CallMoves

\* Only an intent in the table waits, and one that begins to wait waits for a
\* dependency that is still unresolved.
LEMMA WaitingBefore ==
  ASSUME TypeInv, RowsKnown, PassHasRow, [Next]_vars, NEW n \in Intents, Waiting(n)'
  PROVE  /\ status[n] # "absent"
         /\ Waiting(n) \/ Blocked(about[n])'
<1>1. CASE reason'[n] = "dependency"
  <2>1. CASE reason'[n] = reason[n]
    BY <1>1, <2>1, DispatchAssumption DEF Waiting, RowsKnown, DispatchAssumption
  <2>2. ASSUME NEW p \in Passes, pass[p].intent = n, pass[p].pc = "blocked"
        PROVE  status[n] # "absent" /\ Waiting(n)
    BY <2>2 DEF Waiting, PassHasRow
  <2> QED
    BY <1>1, <2>1, <2>2, StepReasons DEF ReasonMoves
<1>2. ASSUME NEW p \in Passes, pass'[p].pc = "blocked", pass'[p].intent = n
      PROVE  /\ status[n] # "absent"
             /\ Waiting(n) \/ Blocked(about[n])'
  <2>1. CASE pass'[p] = pass[p]
    BY <1>2, <2>1 DEF Waiting, PassHasRow
  <2>2. CASE /\ pass[p].pc \notin {"idle", "fetch"} /\ pass[p].intent = n
             /\ Blocked(about[n]) /\ UNCHANGED issueStatus
    <3>1. status[n] # "absent"
      BY <2>2 DEF PassHasRow
    <3>2. about'[n] = about[n]
      BY <3>1, StepRows DEF RowMoves
    <3> QED
      BY <2>2, <3>1, <3>2 DEF Blocked
  <2> QED
    BY <1>2, <2>1, <2>2, StepPasses DEF PassMoves
<1> QED
  BY <1>1, <1>2 DEF Waiting

LEMMA FollowedStays ==
  ASSUME TypeInv, RowsKnown, [Next]_vars, NEW n \in Intents, NEW i \in Issues, Followed(n, i)
  PROVE  Followed(n, i)'
<1>1. PICK m \in Intents : about[m] = i /\ m > n /\ kind[m] = "dependency_unblocked"
  BY DEF Followed
<1>2. status[m] # "absent"
  BY <1>1, DispatchAssumption DEF RowsKnown, DispatchAssumption
<1>3. about'[m] = about[m] /\ kind'[m] = kind[m]
  BY <1>2, StepRows DEF RowMoves
<1> QED
  BY <1>1, <1>3 DEF Followed

LEMMA WakeStep == TypeInv /\ InOrder /\ WakeInv /\ [Next]_vars => WakeInv'
<1> SUFFICES ASSUME TypeInv, InOrder, WakeInv, [Next]_vars PROVE WakeInv'
  OBVIOUS
<1>0. /\ RowsKnown /\ PassHasRow /\ \A c \in Creators : CallFine(c)
      /\ paused => pauses # 0
  BY Zenon DEF WakeInv
<1>1. RowsKnown' /\ PassHasRow'
  BY <1>0, KnownStep, PassRowStep
<1>2. ASSUME NEW c \in Creators PROVE CallFine(c)'
  BY <1>0, CallFineStep
<1>3. (paused' => pauses' # 0) /\ (pauses' = 0 => pauses = 0)
  BY <1>0, StepPause
<1>4. ASSUME NEW i \in Issues \ Reopenable, NEW n \in Intents,
             about'[n] = i, Waiting(n)', CanStart(i)', Expects(i)'
      PROVE  Followed(n, i)' \/ \E c \in Creators : Owes(c, i)'
  <2>0. IssueMoves(i) /\ ~Blocked(i)'
    BY <1>4, StepIssues DEF CanStart
  <2>1. status[n] # "absent" /\ (Waiting(n) \/ Blocked(about[n])')
    BY <1>0, <1>4, WaitingBefore
  <2>2. about[n] = i
    BY <1>4, <2>1, StepRows DEF RowMoves
  <2>3. Waiting(n)
    BY <1>4, <2>0, <2>1, <2>2 DEF Blocked
  <2>4. issueStatus[i] \notin Closed /\ pauses = 0 /\ assignee[i] # None /\ i \notin given
    <3>1. issueStatus[i] # "new"
      BY <1>0, <2>1, <2>2 DEF RowsKnown
    <3>2. issueStatus'[i] \notin Closed /\ pauses' = 0 /\ assignee'[i] # None /\ i \notin given'
      BY <1>4 DEF CanStart, Expects
    <3> QED
      BY <1>3, <2>0, <3>1, <3>2 DEF IssueMoves, StatusMoves, GivenMoves
  <2>5. ASSUME NEW d \in Issues, <<i, d>> \in Deps, Told(d) PROVE \E c \in Creators : Owes(c, i)'
    <3>1. PICK c \in Creators : call'[c] = Finished(d)
      BY <2>5 DEF Told
    <3>2. call'[c].pc = "dependents" /\ call'[c].of = d /\ d # None
      BY <3>1, DispatchAssumption DEF Finished, Idle, DispatchAssumption
    <3> QED
      BY <2>5, <3>2 DEF Owes
  <2>6. CASE \E d \in Issues : <<i, d>> \in Deps /\ Told(d)
    BY <2>5, <2>6
  <2>7. CASE \A d \in Issues : <<i, d>> \in Deps => ~Told(d)
    <3>0. ASSUME NEW d \in Issues, <<i, d>> \in Deps PROVE issueStatus[d] = "done" /\ d \notin silent
      <4>1. issueStatus'[d] = "done" /\ d \notin silent' /\ ~Told(d)
        BY <1>4, <2>0, <2>7, <3>0 DEF Blocked, Expects
      <4> QED
        BY <4>1, StepIssues DEF IssueMoves, DoneMoves
    <3>5. CanStart(i) /\ Expects(i)
      BY <2>4, <3>0 DEF CanStart, Expects, Blocked
    <3>6. ~paused
      BY <1>0, <2>4, Zenon
    <3>1. Followed(n, i) \/ \E c \in Creators : Owes(c, i)
      BY <2>2, <2>3, <3>5 DEF WakeInv
    <3>2. CASE Followed(n, i)
      BY <1>0, <3>2, FollowedStays
    <3>3. ASSUME NEW c \in Creators, Owes(c, i) PROVE Followed(n, i)' \/ Owes(c, i)'
      <4>1. Owes(c, i)' \/ Paid(i)
        BY <1>0, <2>4, <3>3, <3>5, <3>6, OwesStep
      <4>2. ASSUME Paid(i) PROVE Followed(n, i)'
        <5>1. PICK m \in Intents : /\ status[m] = "absent"
                                   /\ about'[m] = i /\ kind'[m] = "dependency_unblocked"
          BY <4>2 DEF Paid
        <5>2. n < m /\ n \in Nat /\ m \in Nat
          BY <2>1, <5>1, DispatchAssumption DEF InOrder, DispatchAssumption
        <5>3. m > n
          BY <5>2
        <5> QED
          BY <5>1, <5>3 DEF Followed
      <4> QED
        BY <4>1, <4>2
    <3> QED
      BY <3>1, <3>2, <3>3
  <2> QED
    BY <2>6, <2>7
<1> QED
  BY <1>1, <1>2, <1>3, <1>4, Zenon DEF WakeInv

\* Nobody forgets a blocked issue: from the moment its last dependency is done until
\* the dependency_unblocked intent is in the table, the handler of a dependency is on
\* its way to that issue, for any dependency graph, any number of handlers and passes,
\* and whatever becomes of the rows meanwhile.  The exceptions are those of Forgotten:
\* the issue is closed or without an agent, it got its agent only when it could start,
\* a dependency was done again unnoticed, or the company has been paused.
THEOREM WakeOwed == Spec => []WakeIsOwed
<1>1. Init => InOrder
  BY OrderInit
<1>2. TypeInv /\ InOrder /\ [Next]_vars => InOrder'
  BY OrderStep
<1>3. WakeInv => WakeIsOwed
  <2> SUFFICES ASSUME WakeInv, NEW i \in Issues \ Reopenable, Forgotten(i)
               PROVE  \E c \in Creators : Owes(c, i)
    BY DEF WakeIsOwed, Owes
  <2>1. PICK n \in Intents : /\ about[n] = i /\ reason[n] = "dependency"
                             /\ \A m \in Intents : about[m] = i /\ m > n =>
                                   kind[m] # "dependency_unblocked"
    BY DEF Forgotten
  <2>2. Waiting(n) /\ CanStart(i) /\ Expects(i) /\ ~Followed(n, i)
    BY <2>1 DEF Waiting, CanStart, Expects, Forgotten, Followed
  <2> QED
    BY <2>1, <2>2 DEF WakeInv
<1> QED
  BY <1>1, <1>2, <1>3, WakeInit, WakeStep, TypeInit, TypeStep, PTL DEF Spec
=============================================================================
