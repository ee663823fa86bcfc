------------------------ MODULE IntentDispatch_proofs ------------------------
(* Theorems about the way from an event through the intent queue to a run. *)
EXTENDS IntentDispatch, TLAPS

-----------------------------------------------------------------------------
(* Type correctness. *)

Statuses == {"absent", "queued", "admitted", "rejected", "superseded", "deferred"}
CallPcs == {"idle", "admission", "outranked", "bury", "supersede", "insert",
            "dependents", "next", "dependent"}
PassPcs == {"idle", "fetch", "company", "issue", "deps", "lease", "slots",
            "admit", "reject", "blocked", "busy", "grant", "run", "envelope"}
Calls == [pc : CallPcs, of : Issues \cup {None}, todo : SUBSET Issues,
          issue : Issues \cup {None}, agent : Agents \cup {None}, kind : Kinds]
PassRecords == [pc : PassPcs, todo : SUBSET Intents, intent : Intents \cup {None},
                stranger : BOOLEAN]

RowTypes == /\ status \in [Intents -> Statuses]
            /\ about \in [Intents -> Issues \cup {None}]
            /\ target \in [Intents -> Agents \cup {None}]
            /\ kind \in [Intents -> Kinds]
            /\ reason \in [Intents -> {None, "dependency", "busy"}]

\* An issue that is not there yet has no agent.
WorkTypes == /\ issueStatus \in [Issues -> {"new", "todo"} \cup Closed]
             /\ assignee \in [Issues -> Agents \cup {None}]
             /\ \A i \in Issues : issueStatus[i] = "new" => assignee[i] = None
             /\ paused \in BOOLEAN /\ pauses \in 0..MaxPauses /\ timers \in 0..MaxTimers

PatchTypes == /\ patch \in [Creators -> [issue : Issues \cup {None}, seen : {"todo"} \cup Closed]]
              /\ given \subseteq Issues /\ silent \subseteq Issues

MadeTypes == /\ runs \in [Made -> {"none", "queued", "running", "over"}]
             /\ leases \in [Made -> {"none", "active", "over"}]
             /\ envelopes \subseteq Made

CleanupTypes == /\ quiesce \in [pc : {"idle", "read", "runs", "intents", "leases"},
                                queued : SUBSET Made, running : SUBSET Made]
                /\ stale \subseteq Intents
                /\ closing \in [Issues -> {"idle", "reject", "release"}]

\* A call that asks for an intent knows its issue and its agent, a handler its issue.
Asking == {"admission", "outranked", "bury", "supersede", "insert"}
CallKnows(x) == /\ x.pc \in Asking => x.issue \in Issues /\ x.agent \in Agents
                /\ x.pc = "dependent" => x.issue \in Issues
                /\ x.pc = "dependents" => x.of \in Issues
CallTypes == /\ call \in [Creators -> Calls]
             /\ \A c \in Creators : CallKnows(call[c])

\* A pass past its fetch knows its intent.
PassKnows(x) == x.pc \notin {"idle", "fetch"} => x.intent \in Intents
PassTypes == /\ pass \in [Passes -> PassRecords]
             /\ \A p \in Passes : PassKnows(pass[p])

TypeInv ==
  RowTypes /\ WorkTypes /\ PatchTypes /\ MadeTypes /\ CleanupTypes /\ CallTypes /\ PassTypes

LEMMA TypeInvType == TypeInv => TypeOK
<1> SUFFICES ASSUME TypeInv PROVE TypeOK
  OBVIOUS
<1>1. \A c \in Creators : call[c].pc \in {"bury", "supersede", "insert"} =>
                           call[c].issue # None /\ call[c].agent # None
  BY DispatchAssumption DEF DispatchAssumption, TypeInv, CallTypes, CallKnows, Asking
<1>2. RowTypes /\ WorkTypes /\ PatchTypes /\ MadeTypes /\ CleanupTypes
      /\ call \in [Creators -> Calls] /\ pass \in [Passes -> PassRecords]
  BY DEF TypeInv, CallTypes, PassTypes
<1> QED
  BY <1>1, <1>2, Zenon DEF TypeOK, RowTypes, WorkTypes, PatchTypes, MadeTypes, CleanupTypes,
                           Calls, PassRecords, Statuses, CallPcs, PassPcs

LEMMA TypeInit == Init => TypeInv
<1> SUFFICES ASSUME Init PROVE TypeInv
  OBVIOUS
<1>1. RowTypes
  BY DEF Init, RowTypes, Statuses, Kinds
<1>2. WorkTypes
  <2>1. paused \in BOOLEAN
    BY Zenon DEF Init
  <2>2. pauses \in 0..MaxPauses /\ timers \in 0..MaxTimers
    BY DispatchAssumption DEF Init, DispatchAssumption
  <2>3. /\ issueStatus \in [Issues -> {"new", "todo"} \cup Closed]
        /\ assignee \in [Issues -> Agents \cup {None}]
        /\ \A i \in Issues : assignee[i] = None
    BY DEF Init
  <2> QED
    BY <2>1, <2>2, <2>3 DEF WorkTypes
<1>3. MadeTypes
  BY DEF Init, MadeTypes
<1>4. CleanupTypes
  BY DEF Init, CleanupTypes, Quiet
<1>5. Idle \in Calls /\ CallKnows(Idle)
  BY DEF Idle, Calls, CallPcs, Kinds, CallKnows, Asking
<1>6. CallTypes
  BY <1>5 DEF Init, CallTypes
<1>7. IdlePass \in PassRecords /\ PassKnows(IdlePass)
  BY DEF IdlePass, PassRecords, PassPcs, PassKnows
<1>8. PassTypes
  BY <1>7 DEF Init, PassTypes
<1>9. PatchTypes
  BY DEF Init, PatchTypes, NoPatch
<1> QED
  BY <1>1, <1>2, <1>3, <1>4, <1>6, <1>8, <1>9 DEF TypeInv

\* What the steps of calls and passes do to their records.
LEMMA IdleType == Idle \in Calls /\ CallKnows(Idle)
BY DEF Idle, Calls, CallPcs, Kinds, CallKnows, Asking

LEMMA CallStep ==
  ASSUME CallTypes, NEW c \in Creators, NEW x \in Calls, CallKnows(x),
         call' = [call EXCEPT ![c] = x]
  PROVE  CallTypes'
BY DEF CallTypes

LEMMA GoOnType == ASSUME CallTypes, NEW c \in Creators, GoOn(c) PROVE CallTypes'
<1>1. call[c] \in Calls
  BY DEF CallTypes
<1>2. CASE call[c].todo = {}
  BY <1>2, IdleType, CallStep DEF GoOn
<1>3. CASE call[c].todo # {}
  <2> DEFINE x == [call[c] EXCEPT !.pc = "next"]
  <2>1. x \in Calls /\ CallKnows(x)
    BY <1>1 DEF Calls, CallPcs, CallKnows, Asking
  <2>2. call' = [call EXCEPT ![c] = x]
    BY <1>3 DEF GoOn
  <2> QED
    BY <2>1, <2>2, CallStep
<1> QED
  BY <1>2, <1>3

LEMMA GoToType ==
  ASSUME CallTypes, NEW c \in Creators, call[c].pc \in Asking, NEW pc \in Asking, GoTo(c, pc)
  PROVE  CallTypes'
<1> DEFINE x == [call[c] EXCEPT !.pc = pc]
<1>1. call[c] \in Calls /\ CallKnows(call[c])
  BY DEF CallTypes
<1>2. x \in Calls /\ CallKnows(x)
  BY <1>1 DEF Calls, CallPcs, CallKnows, Asking
<1>3. call' = [call EXCEPT ![c] = x]
  BY DEF GoTo
<1> QED
  BY <1>2, <1>3, CallStep

LEMMA InsertType ==
  ASSUME RowTypes, CallTypes, NEW c \in Creators, call[c].pc \in Asking,
         NEW n \in Intents, NEW s \in Statuses, Insert(n, c, s)
  PROVE  RowTypes'
<1>1. /\ call[c].issue \in Issues /\ call[c].agent \in Agents /\ call[c].kind \in Kinds
  BY DEF CallTypes, CallKnows, Calls
<1> QED
  BY <1>1 DEF Insert, RowTypes

LEMMA PassStep ==
  ASSUME PassTypes, NEW p \in Passes, NEW x \in PassRecords, PassKnows(x),
         pass' = [pass EXCEPT ![p] = x]
  PROVE  PassTypes'
BY DEF PassTypes

LEMMA WithType ==
  ASSUME NEW S \in SUBSET Intents PROVE With(S) \in PassRecords /\ PassKnows(With(S))
BY DEF With, IdlePass, PassRecords, PassPcs, PassKnows

LEMMA PassOnType == ASSUME PassTypes, NEW p \in Passes, PassOn(p) PROVE PassTypes'
<1>1. pass[p].todo \in SUBSET Intents
  BY DEF PassTypes, PassRecords
<1>2. pass' = [pass EXCEPT ![p] = With(pass[p].todo)]
  BY DEF PassOn
<1> QED
  BY <1>1, <1>2, WithType, PassStep

LEMMA PassToType ==
  ASSUME PassTypes, NEW p \in Passes, pass[p].pc \notin {"idle", "fetch"},
         NEW pc \in PassPcs, PassTo(p, pc)
  PROVE  PassTypes'
<1> DEFINE x == [pass[p] EXCEPT !.pc = pc]
<1>1. pass[p] \in PassRecords /\ PassKnows(pass[p])
  BY DEF PassTypes
<1>2. x \in PassRecords /\ PassKnows(x)
  BY <1>1 DEF PassRecords, PassKnows
<1>3. pass' = [pass EXCEPT ![p] = x]
  BY DEF PassTo
<1> QED
  BY <1>2, <1>3, PassStep

\* What the steps leave alone.
LEMMA RowFrame == RowTypes /\ UNCHANGED intents => RowTypes'
BY DEF RowTypes, intents
LEMMA PatchFrame == PatchTypes /\ UNCHANGED requests => PatchTypes'
BY DEF PatchTypes, requests
LEMMA WorkFrame == WorkTypes /\ PatchTypes /\ UNCHANGED work => WorkTypes' /\ PatchTypes'
<1> SUFFICES ASSUME WorkTypes, PatchTypes, UNCHANGED work PROVE WorkTypes' /\ PatchTypes'
  OBVIOUS
<1>1. /\ issueStatus' = issueStatus /\ assignee' = assignee /\ paused' = paused
      /\ pauses' = pauses /\ timers' = timers /\ UNCHANGED requests
  BY DEF work
<1>2. WorkTypes'
  BY <1>1, Zenon DEF WorkTypes
<1> QED
  BY <1>1, <1>2, PatchFrame
LEMMA MadeFrame == MadeTypes /\ UNCHANGED made => MadeTypes'
BY DEF MadeTypes, made
LEMMA CleanupFrame == CleanupTypes /\ UNCHANGED cleanup => CleanupTypes'
BY DEF CleanupTypes, cleanup
LEMMA CallFrame == CallTypes /\ UNCHANGED call => CallTypes'
BY DEF CallTypes
LEMMA PassFrame == PassTypes /\ UNCHANGED pass => PassTypes'
BY DEF PassTypes

LEMMA CallFrames ==
  ASSUME TypeInv, CALL_UNCHANGED
  PROVE  WorkTypes' /\ PatchTypes' /\ MadeTypes' /\ CleanupTypes' /\ PassTypes'
BY WorkFrame, MadeFrame, CleanupFrame, PassFrame DEF TypeInv, CALL_UNCHANGED

LEMMA PassFrames ==
  ASSUME TypeInv, PASS_UNCHANGED PROVE WorkTypes' /\ PatchTypes' /\ CleanupTypes' /\ CallTypes'
BY WorkFrame, CleanupFrame, CallFrame DEF TypeInv, PASS_UNCHANGED

LEMMA AskType ==
  ASSUME CallTypes, NEW c \in Creators, NEW i \in Issues, NEW a \in Agents, NEW k \in Kinds,
         Ask(c, i, a, k)
  PROVE  CallTypes'
<1> DEFINE x == [Idle EXCEPT !.pc = "admission", !.issue = i, !.agent = a, !.kind = k]
<1>1. x \in Calls /\ CallKnows(x)
  BY DEF Idle, Calls, CallPcs, CallKnows, Asking
<1> QED
  BY <1>1, CallStep DEF Ask

LEMMA AssignType ==
  ASSUME TypeInv, NEW c \in Creators, NEW i \in Issues, NEW a \in Agents, Assign(c, i, a)
  PROVE  TypeInv'
<1>1. CallTypes'
  BY AskType DEF Assign, TypeInv, Kinds
<1>2. /\ assignee' \in [Issues -> Agents \cup {None}]
      /\ issueStatus' \in [Issues -> {"new", "todo"} \cup Closed]
      /\ \A j \in Issues : issueStatus'[j] = "new" => assignee'[j] = None
  BY DEF Assign, TypeInv, WorkTypes
<1>3. WorkTypes'
  BY <1>2, Zenon DEF Assign, TypeInv, WorkTypes
<1> QED
  BY <1>1, <1>3, RowFrame, PatchFrame, MadeFrame, CleanupFrame, PassFrame DEF Assign, TypeInv

LEMMA TimerHintType ==
  ASSUME TypeInv, NEW c \in Creators, NEW i \in Issues, TimerHint(c, i)
  PROVE  TypeInv'
<1>1. assignee[i] \in Agents
  BY DEF TimerHint, TypeInv, WorkTypes
<1>2. CallTypes'
  BY <1>1, AskType DEF TimerHint, TypeInv, Kinds
<1>3. timers' \in 0..MaxTimers
  BY DispatchAssumption DEF TimerHint, TypeInv, WorkTypes, DispatchAssumption
<1>4. WorkTypes'
  BY <1>3, Zenon DEF TimerHint, TypeInv, WorkTypes
<1> QED
  BY <1>2, <1>4, RowFrame, PatchFrame, MadeFrame, CleanupFrame, PassFrame DEF TimerHint, TypeInv

LEMMA ReadPatchType ==
  ASSUME TypeInv, NEW c \in Creators, NEW i \in Issues, ReadPatch(c, i) PROVE TypeInv'
<1>1. PatchTypes'
  BY DEF ReadPatch, TypeInv, WorkTypes, PatchTypes
<1>2. WorkTypes'
  BY Zenon DEF ReadPatch, TypeInv, WorkTypes
<1> QED
  BY <1>1, <1>2, RowFrame, MadeFrame, CleanupFrame, CallFrame, PassFrame DEF ReadPatch, TypeInv

\* What Close does, with the issue of the request named.
LEMMA CloseFacts ==
  ASSUME NEW c \in Creators, NEW s \in Closed, Close(c, s), PatchTypes
  PROVE  \E i \in Issues :
           /\ issueStatus' = [issueStatus EXCEPT ![i] = s]
           /\ patch' = [patch EXCEPT ![c] = NoPatch]
           /\ given' = IF s = "done" THEN given ELSE given \ Dependents(i)
           /\ \/ /\ silent' = IF issueStatus[i] = s THEN silent ELSE silent \cup {i}
                 /\ UNCHANGED <<call, closing>>
              \/ /\ silent' = silent \ {i} /\ closing' = [closing EXCEPT ![i] = "reject"]
                 /\ s = "done" => /\ call[c].pc = "idle"
                                  /\ call' = [call EXCEPT ![c] =
                                                [Idle EXCEPT !.pc = "dependents", !.of = i]]
                 /\ s # "done" => UNCHANGED call
           /\ UNCHANGED <<intents, assignee, paused, pauses, timers, pass, made, quiesce, stale>>
<1>1. patch[c].issue \in Issues
  BY DEF Close, PatchTypes
<1> QED
  BY <1>1 DEF Close

LEMMA CloseType ==
  ASSUME TypeInv, NEW c \in Creators, NEW s \in Closed, Close(c, s)
  PROVE  TypeInv'
<1>0. PICK i \in Issues :
        /\ issueStatus' = [issueStatus EXCEPT ![i] = s]
        /\ patch' = [patch EXCEPT ![c] = NoPatch]
        /\ given' = IF s = "done" THEN given ELSE given \ Dependents(i)
        /\ \/ /\ silent' = IF issueStatus[i] = s THEN silent ELSE silent \cup {i}
              /\ UNCHANGED <<call, closing>>
           \/ /\ silent' = silent \ {i} /\ closing' = [closing EXCEPT ![i] = "reject"]
              /\ s = "done" => /\ call[c].pc = "idle"
                               /\ call' = [call EXCEPT ![c] =
                                             [Idle EXCEPT !.pc = "dependents", !.of = i]]
              /\ s # "done" => UNCHANGED call
        /\ UNCHANGED <<intents, assignee, paused, pauses, timers, pass, made, quiesce, stale>>
  BY CloseFacts DEF TypeInv
<1>1. CallTypes'
  <2> DEFINE x == [Idle EXCEPT !.pc = "dependents", !.of = i]
  <2>1. x \in Calls /\ CallKnows(x)
    BY DEF Idle, Calls, CallPcs, CallKnows, Asking, Kinds
  <2>2. UNCHANGED call \/ call' = [call EXCEPT ![c] = x]
    BY <1>0
  <2> QED
    BY <2>1, <2>2, CallStep, CallFrame DEF TypeInv
<1>2. /\ issueStatus' \in [Issues -> {"new", "todo"} \cup Closed]
      /\ \A j \in Issues : issueStatus'[j] = "new" => assignee'[j] = None
  BY <1>0 DEF TypeInv, WorkTypes, Closed
<1>3. WorkTypes'
  BY <1>0, <1>2, Zenon DEF TypeInv, WorkTypes
<1>4. CleanupTypes'
  BY <1>0 DEF TypeInv, CleanupTypes
<1>5. PatchTypes'
  BY <1>0 DEF TypeInv, PatchTypes, NoPatch
<1> QED
  BY <1>0, <1>1, <1>3, <1>4, <1>5, RowFrame, MadeFrame, PassFrame DEF TypeInv

LEMMA ReassignType ==
  ASSUME TypeInv, NEW i \in Issues, NEW a \in Agents \cup {None}, Reassign(i, a) PROVE TypeInv'
<1>1. /\ assignee' \in [Issues -> Agents \cup {None}]
      /\ \A j \in Issues : issueStatus'[j] = "new" => assignee'[j] = None
  BY DEF Reassign, TypeInv, WorkTypes
<1>2. WorkTypes'
  BY <1>1, Zenon DEF Reassign, TypeInv, WorkTypes
<1>3. PatchTypes'
  BY DEF Reassign, TypeInv, PatchTypes
<1> QED
  BY <1>2, <1>3, RowFrame, MadeFrame, CleanupFrame, CallFrame, PassFrame DEF Reassign, TypeInv

LEMMA OpenType ==
  ASSUME TypeInv, NEW i \in Issues, Reopen(i) \/ Release(i) PROVE TypeInv'
<1>1. /\ issueStatus' \in [Issues -> {"new", "todo"} \cup Closed]
      /\ assignee' \in [Issues -> Agents \cup {None}]
      /\ \A j \in Issues : issueStatus'[j] = "new" => assignee'[j] = None
  BY DEF Reopen, Release, OpenAgain, TypeInv, WorkTypes
<1>2. WorkTypes'
  BY <1>1, Zenon DEF Reopen, Release, OpenAgain, TypeInv, WorkTypes
<1>3. PatchTypes'
  BY DEF Reopen, Release, OpenAgain, TypeInv, PatchTypes
<1> QED
  BY <1>2, <1>3, RowFrame, MadeFrame, CleanupFrame, CallFrame, PassFrame
  DEF Reopen, Release, OpenAgain, TypeInv

LEMMA CreateType == ASSUME TypeInv, NEW c \in Creators, Create(c) PROVE TypeInv'
<1>0. call[c] \in Calls /\ CallKnows(call[c]) /\ CallTypes /\ RowTypes
  BY DEF TypeInv, CallTypes
<1>1. CASE CheckCompany(c)
  <2>1. CallTypes'
    BY <1>0, <1>1, GoOnType, GoToType DEF CheckCompany, Asking
  <2> QED
    BY <1>1, <2>1, CallFrames, RowFrame DEF CheckCompany, TypeInv
<1>2. CASE CheckOutranked(c)
  <2>1. CallTypes'
    BY <1>0, <1>2, GoToType DEF CheckOutranked, Asking
  <2> QED
    BY <1>2, <2>1, CallFrames, RowFrame DEF CheckOutranked, TypeInv
<1>3. CASE Bury(c)
  <2>1. CallTypes'
    BY <1>0, <1>3, GoOnType DEF Bury
  <2>2. RowTypes'
    BY <1>0, <1>3, InsertType DEF Bury, Asking, Statuses
  <2> QED
    BY <1>3, <2>1, <2>2, CallFrames DEF Bury, TypeInv
<1>4. CASE Supersede(c)
  <2>1. CallTypes'
    BY <1>0, <1>4, GoToType DEF Supersede, Asking
  <2>2. status' \in [Intents -> Statuses]
    BY <1>0, <1>4 DEF Supersede, RowTypes, Statuses
  <2>3. RowTypes'
    BY <1>0, <1>4, <2>2 DEF Supersede, RowTypes
  <2> QED
    BY <1>4, <2>1, <2>3, CallFrames DEF Supersede, TypeInv
<1>5. CASE InsertQueued(c)
  <2>1. CallTypes'
    BY <1>0, <1>5, GoOnType DEF InsertQueued
  <2>2. RowTypes'
    BY <1>0, <1>5, InsertType DEF InsertQueued, Asking, Statuses
  <2> QED
    BY <1>5, <2>1, <2>2, CallFrames DEF InsertQueued, TypeInv
<1>6. CASE FindDependents(c)
  <2>1. CallTypes'
    <3>1. CASE paused \/ Dependents(call[c].of) = {}
      BY <1>0, <1>6, <3>1, IdleType, CallStep DEF FindDependents
    <3>2. CASE ~(paused \/ Dependents(call[c].of) = {})
      <4> DEFINE x == [call[c] EXCEPT !.pc = "next", !.todo = Dependents(call[c].of)]
      <4>1. Dependents(call[c].of) \in SUBSET Issues
        BY DEF Dependents
      <4>2. x \in Calls /\ CallKnows(x)
        BY <1>0, <4>1 DEF Calls, CallPcs, CallKnows, Asking
      <4>3. call' = [call EXCEPT ![c] = x]
        BY <1>6, <3>2 DEF FindDependents
      <4> QED
        BY <1>0, <4>2, <4>3, CallStep
    <3> QED
      BY <3>1, <3>2
  <2> QED
    BY <1>6, <2>1, CallFrames, RowFrame DEF FindDependents, TypeInv
<1>7. CASE NextDependent(c)
  <2>0. PICK j \in call[c].todo :
          call' = [call EXCEPT ![c] =
                     IF ~Blocked(j)
                     THEN [call[c] EXCEPT !.pc = "dependent", !.issue = j, !.todo = @ \ {j}]
                     ELSE IF @.todo = {j} THEN Idle
                     ELSE [call[c] EXCEPT !.todo = @ \ {j}]]
    BY <1>7 DEF NextDependent
  <2>1. CallTypes'
    <3>0. j \in Issues /\ call[c].todo \ {j} \in SUBSET Issues /\ call[c].pc = "next"
      BY <1>0, <1>7 DEF Calls, NextDependent
    <3>1. CASE ~Blocked(j)
      <4> DEFINE x == [call[c] EXCEPT !.pc = "dependent", !.issue = j, !.todo = @ \ {j}]
      <4>1. x \in Calls /\ CallKnows(x)
        BY <1>0, <3>0 DEF Calls, CallPcs, CallKnows, Asking
      <4> QED
        BY <1>0, <2>0, <3>1, <4>1, CallStep
    <3>2. CASE Blocked(j) /\ call[c].todo = {j}
      BY <1>0, <2>0, <3>2, IdleType, CallStep
    <3>3. CASE Blocked(j) /\ call[c].todo # {j}
      <4> DEFINE x == [call[c] EXCEPT !.todo = @ \ {j}]
      <4>1. x \in Calls /\ CallKnows(x)
        BY <1>0, <3>0 DEF Calls, CallPcs, CallKnows, Asking
      <4> QED
        BY <1>0, <2>0, <3>3, <4>1, CallStep
    <3> QED
      BY <3>1, <3>2, <3>3
  <2> QED
    BY <1>7, <2>1, CallFrames, RowFrame DEF NextDependent, TypeInv
<1>8. CASE ReadDependent(c)
  <2>0. call[c].issue \in Issues
    BY <1>0, <1>8 DEF ReadDependent, CallKnows
  <2>1. CallTypes'
    <3>1. CASE issueStatus[call[c].issue] \in Closed \/ assignee[call[c].issue] = None
      BY <1>0, <1>8, <3>1, GoOnType DEF ReadDependent
    <3>2. CASE ~(issueStatus[call[c].issue] \in Closed \/ assignee[call[c].issue] = None)
      <4> DEFINE x == [call[c] EXCEPT !.pc = "admission", !.agent = assignee[call[c].issue],
                                      !.kind = "dependency_unblocked"]
      <4>1. assignee[call[c].issue] \in Agents
        BY <2>0, <3>2 DEF TypeInv, WorkTypes
      <4>2. x \in Calls /\ CallKnows(x)
        BY <1>0, <2>0, <4>1 DEF Calls, CallPcs, CallKnows, Asking, Kinds
      <4>3. call' = [call EXCEPT ![c] = x]
        BY <1>8, <3>2 DEF ReadDependent
      <4> QED
        BY <1>0, <4>2, <4>3, CallStep
    <3> QED
      BY <3>1, <3>2
  <2> QED
    BY <1>8, <2>1, CallFrames, RowFrame DEF ReadDependent, TypeInv
<1> QED
  BY <1>1, <1>2, <1>3, <1>4, <1>5, <1>6, <1>7, <1>8 DEF Create

LEMMA HandleType == ASSUME TypeInv, NEW i \in Issues, Handle(i) PROVE TypeInv'
<1>1. CASE InvalidateIntents(i)
  <2>1. RowTypes'
    BY <1>1 DEF InvalidateIntents, TypeInv, RowTypes, Statuses
  <2>2. CleanupTypes'
    BY <1>1 DEF InvalidateIntents, TypeInv, CleanupTypes
  <2> QED
    BY <1>1, <2>1, <2>2, WorkFrame, MadeFrame, CallFrame, PassFrame DEF InvalidateIntents, TypeInv
<1>2. CASE InvalidateLeases(i)
  <2>1. MadeTypes'
    BY <1>2 DEF InvalidateLeases, TypeInv, MadeTypes
  <2>2. CleanupTypes'
    BY <1>2 DEF InvalidateLeases, TypeInv, CleanupTypes
  <2> QED
    BY <1>2, <2>1, <2>2, WorkFrame, RowFrame, CallFrame, PassFrame DEF InvalidateLeases, TypeInv
<1> QED
  BY <1>1, <1>2 DEF Handle

LEMMA PassStartType == ASSUME TypeInv, NEW p \in Passes, PassStart(p) PROVE TypeInv'
<1> DEFINE x == [pass[p] EXCEPT !.pc = "fetch", !.todo = Queued]
<1>1. x \in PassRecords /\ PassKnows(x)
  BY DEF TypeInv, PassTypes, PassRecords, PassPcs, PassKnows, Queued
<1>2. pass' = [pass EXCEPT ![p] = x]
  BY DEF PassStart
<1>3. PassTypes'
  BY <1>1, <1>2, PassStep DEF TypeInv
<1>4. RowTypes'
  BY DEF PassStart, PASS_UNCHANGED, TypeInv, RowTypes
<1> QED
  BY <1>3, <1>4, MadeFrame, PassFrames DEF PassStart, TypeInv

LEMMA ResolveType ==
  ASSUME TypeInv, NEW p \in Passes, NEW pc \in {"admit", "reject", "blocked", "busy"},
         NEW s \in Statuses, NEW why \in {None, "dependency", "busy"}, Resolve(p, pc, s, why)
  PROVE  TypeInv'
<1>1. pass[p].intent \in Intents
  BY DEF Resolve, TypeInv, PassTypes, PassKnows
<1>2. PassTypes'
  <2>1. CASE status[pass[p].intent] = "queued" /\ s = "admitted"
    BY <2>1, PassToType DEF Resolve, TypeInv, PassPcs
  <2>2. CASE status[pass[p].intent] = "queued" /\ s # "admitted"
    BY <2>2, PassOnType DEF Resolve, TypeInv
  <2>3. CASE status[pass[p].intent] # "queued"
    <3>1. IdlePass \in PassRecords /\ PassKnows(IdlePass)
      BY DEF IdlePass, PassRecords, PassPcs, PassKnows
    <3> QED
      BY <2>3, <3>1, PassStep DEF Resolve, TypeInv
  <2> QED
    BY <2>1, <2>2, <2>3
<1>3. RowTypes'
  BY <1>1 DEF Resolve, PASS_UNCHANGED, TypeInv, RowTypes
<1> QED
  BY <1>2, <1>3, MadeFrame, PassFrames DEF Resolve, TypeInv

\* A read of checkAdmission changes the pass alone.
LEMMA VerdictType ==
  ASSUME TypeInv, NEW p \in Passes, NEW from \in PassPcs \ {"idle", "fetch"}, NEW ok,
         NEW to \in PassPcs, NEW otherwise \in PassPcs, Verdict(p, from, ok, to, otherwise)
  PROVE  TypeInv'
<1>1. PassTypes'
  BY PassToType DEF Verdict, TypeInv
<1>2. RowTypes'
  BY DEF Verdict, PASS_UNCHANGED, TypeInv, RowTypes
<1> QED
  BY <1>1, <1>2, MadeFrame, PassFrames DEF Verdict, TypeInv

LEMMA ReadsType ==
  ASSUME TypeInv, NEW p \in Passes,
         ReadCompany(p) \/ ReadIssue(p) \/ ReadDeps(p) \/ ReadLease(p) \/ ReadSlots(p)
  PROVE  TypeInv'
<1>1. CASE ReadCompany(p)
  BY <1>1, VerdictType DEF ReadCompany, PassPcs
<1>2. CASE ReadIssue(p)
  <2> DEFINE n == pass[p].intent
             x == [pass[p] EXCEPT
                     !.pc = IF issueStatus[about[n]] \in Closed THEN "reject" ELSE "deps",
                     !.stranger = assignee[about[n]] # target[n]]
  <2>0. pass[p] \in PassRecords /\ PassKnows(pass[p]) /\ pass[p].pc = "issue"
    BY <1>2 DEF TypeInv, PassTypes, ReadIssue
  <2>1. x \in PassRecords /\ PassKnows(x)
    BY <2>0 DEF PassRecords, PassPcs, PassKnows
  <2>2. pass' = [pass EXCEPT ![p] = x]
    BY <1>2 DEF ReadIssue
  <2>3. PassTypes'
    BY <2>1, <2>2, PassStep DEF TypeInv
  <2>4. RowTypes'
    BY <1>2 DEF ReadIssue, PASS_UNCHANGED, TypeInv, RowTypes
  <2> QED
    BY <1>2, <2>3, <2>4, MadeFrame, PassFrames DEF ReadIssue, TypeInv
<1>3. CASE ReadDeps(p)
  BY <1>3, VerdictType DEF ReadDeps, PassPcs
<1>4. CASE ReadLease(p)
  BY <1>4, VerdictType DEF ReadLease, PassPcs
<1>5. CASE ReadSlots(p)
  BY <1>5, VerdictType DEF ReadSlots, PassPcs
<1> QED
  BY <1>1, <1>2, <1>3, <1>4, <1>5

LEMMA ScheduleType == ASSUME TypeInv, NEW p \in Passes, Schedule(p) PROVE TypeInv'
<1>0. pass[p] \in PassRecords /\ PassKnows(pass[p]) /\ PassTypes
  BY DEF TypeInv, PassTypes
<1>1. CASE Fetch(p)
  <2>0. PICK n \in pass[p].todo :
          pass' = [pass EXCEPT ![p] =
                     IF status[n] = "queued"
                     THEN [@ EXCEPT !.pc = "company", !.todo = pass[p].todo \ {n}, !.intent = n]
                     ELSE With(@.todo \ {n})]
    BY <1>1 DEF Fetch
  <2>1. n \in Intents /\ pass[p].todo \ {n} \in SUBSET Intents
    BY <1>0 DEF PassRecords
  <2>2. CASE status[n] = "queued"
    <3> DEFINE x == [pass[p] EXCEPT !.pc = "company", !.todo = pass[p].todo \ {n}, !.intent = n]
    <3>1. x \in PassRecords /\ PassKnows(x)
      BY <1>0, <2>1 DEF PassRecords, PassPcs, PassKnows
    <3>2. PassTypes'
      BY <1>0, <2>0, <2>2, <3>1, PassStep
    <3> QED
      BY <1>1, <3>2, MadeFrame, PassFrames DEF Fetch, PASS_UNCHANGED, TypeInv, RowTypes
  <2>3. CASE status[n] # "queued"
    <3>1. PassTypes'
      BY <1>0, <2>0, <2>1, <2>3, PassStep, WithType
    <3> QED
      BY <1>1, <3>1, MadeFrame, PassFrames DEF Fetch, PASS_UNCHANGED, TypeInv, RowTypes
  <2> QED
    BY <2>2, <2>3
<1>2. CASE ReadCompany(p) \/ ReadIssue(p) \/ ReadDeps(p) \/ ReadLease(p) \/ ReadSlots(p)
  BY <1>2, ReadsType
<1>3. CASE \/ Resolve(p, "admit", "admitted", None) \/ Resolve(p, "reject", "rejected", None)
           \/ Resolve(p, "blocked", "deferred", "dependency") \/ Resolve(p, "busy", "deferred", "busy")
  BY <1>3, ResolveType DEF Statuses
<1>4. CASE GrantLease(p)
  <2>1. PassTypes'
    BY <1>0, <1>4, PassToType DEF GrantLease, PassPcs
  <2>2. MadeTypes'
    BY <1>4 DEF GrantLease, TypeInv, MadeTypes
  <2> QED
    BY <1>4, <2>1, <2>2, PassFrames DEF GrantLease, PASS_UNCHANGED, TypeInv, RowTypes
<1>5. CASE CreateRun(p)
  <2>1. PassTypes'
    BY <1>0, <1>5, PassToType DEF CreateRun, PassPcs
  <2>2. MadeTypes'
    BY <1>5 DEF CreateRun, TypeInv, MadeTypes
  <2> QED
    BY <1>5, <2>1, <2>2, PassFrames DEF CreateRun, PASS_UNCHANGED, TypeInv, RowTypes
<1>6. CASE CreateEnvelope(p)
  <2>1. PassTypes'
    BY <1>0, <1>6, PassOnType DEF CreateEnvelope
  <2>2. pass[p].intent \in Intents
    BY <1>0, <1>6 DEF CreateEnvelope, PassKnows
  <2>3. MadeTypes'
    BY <1>6, <2>2 DEF CreateEnvelope, TypeInv, MadeTypes, Made
  <2> QED
    BY <1>6, <2>1, <2>3, PassFrames DEF CreateEnvelope, PASS_UNCHANGED, TypeInv, RowTypes
<1> QED
  BY <1>1, <1>2, <1>3, <1>4, <1>5, <1>6 DEF Schedule

LEMMA RunStepType ==
  ASSUME TypeInv, NEW x \in Made, Claim(x) \/ Refuse(x) \/ Finish(x) \/ Expire(x)
  PROVE  TypeInv'
<1>1. MADE_UNCHANGED
  BY DEF Claim, Refuse, Finish, Expire
<1>2. MadeTypes'
  BY DEF Claim, Refuse, Finish, Expire, MADE_UNCHANGED, TypeInv, MadeTypes
<1> QED
  BY <1>1, <1>2, RowFrame, WorkFrame, CleanupFrame, CallFrame, PassFrame DEF MADE_UNCHANGED, TypeInv

LEMMA CleanupType ==
  ASSUME TypeInv, Pause \/ Resume \/ QuiesceOn \/ FindStale \/ RejectStale
  PROVE  TypeInv'
<1>1. ASSUME QUIESCE_UNCHANGED PROVE CallTypes' /\ PassTypes' /\ PatchTypes'
  BY <1>1, CallFrame, PassFrame, PatchFrame DEF QUIESCE_UNCHANGED, TypeInv
<1>2. CASE Pause
  <2>1. pauses' \in 0..MaxPauses
    BY <1>2, DispatchAssumption DEF Pause, TypeInv, WorkTypes, DispatchAssumption
  <2>2. WorkTypes'
    BY <1>2, <2>1, Zenon DEF Pause, QUIESCE_UNCHANGED, TypeInv, WorkTypes
  <2>3. CleanupTypes'
    BY <1>2 DEF Pause, QUIESCE_UNCHANGED, TypeInv, CleanupTypes
  <2> QED
    BY <1>1, <1>2, <2>2, <2>3 DEF Pause, QUIESCE_UNCHANGED, TypeInv, RowTypes, MadeTypes
<1>3. CASE Resume
  <2>1. WorkTypes'
    BY <1>3, Zenon DEF Resume, QUIESCE_UNCHANGED, TypeInv, WorkTypes
  <2> QED
    BY <1>1, <1>3, <2>1 DEF Resume, QUIESCE_UNCHANGED, TypeInv, RowTypes, MadeTypes, CleanupTypes
<1>4. CASE QuiesceOn
  <2>1. QUIESCE_UNCHANGED /\ UNCHANGED <<paused, pauses>>
    BY <1>4 DEF QuiesceOn, QuiesceRead, QuiesceRuns, QuiesceIntents, QuiesceLeases
  <2>2. WorkTypes'
    BY <2>1, Zenon DEF QUIESCE_UNCHANGED, TypeInv, WorkTypes
  <2>3. CleanupTypes'
    BY <1>4, <2>1 DEF QuiesceOn, QuiesceRead, QuiesceRuns, QuiesceIntents, QuiesceLeases, Quiet,
                      QUIESCE_UNCHANGED, TypeInv, CleanupTypes
  <2>4. MadeTypes'
    BY <1>4, <2>1 DEF QuiesceOn, QuiesceRead, QuiesceRuns, QuiesceIntents, QuiesceLeases,
                      QUIESCE_UNCHANGED, TypeInv, MadeTypes
  <2>5. status' \in [Intents -> Statuses]
    BY <1>4 DEF QuiesceOn, QuiesceRead, QuiesceRuns, QuiesceIntents, QuiesceLeases,
                TypeInv, RowTypes, Statuses
  <2>6. RowTypes'
    BY <2>1, <2>5 DEF QUIESCE_UNCHANGED, TypeInv, RowTypes
  <2> QED
    BY <1>1, <2>1, <2>2, <2>3, <2>4, <2>6 DEF TypeInv
<1>5. CASE FindStale
  <2>1. CleanupTypes'
    BY <1>5 DEF FindStale, TypeInv, CleanupTypes, Queued
  <2> QED
    BY <1>5, <2>1, RowFrame, WorkFrame, MadeFrame, CallFrame, PassFrame DEF FindStale, TypeInv
<1>6. CASE RejectStale
  <2>1. CleanupTypes'
    BY <1>6 DEF RejectStale, TypeInv, CleanupTypes
  <2>2. RowTypes'
    BY <1>6 DEF RejectStale, TypeInv, RowTypes, Statuses
  <2> QED
    BY <1>6, <2>1, <2>2, WorkFrame, MadeFrame, CallFrame, PassFrame DEF RejectStale, TypeInv
<1> QED
  BY <1>2, <1>3, <1>4, <1>5, <1>6

LEMMA TypeStep == TypeInv /\ [Next]_vars => TypeInv'
<1> SUFFICES ASSUME TypeInv, [Next]_vars PROVE TypeInv'
  OBVIOUS
<1>1. CASE UNCHANGED vars
  BY <1>1, RowFrame, WorkFrame, MadeFrame, CleanupFrame, CallFrame, PassFrame DEF vars, TypeInv
<1>2. CASE Next
  BY <1>2, AssignType, TimerHintType, ReadPatchType, CloseType, CreateType, HandleType, OpenType,
     ReassignType, PassStartType, ScheduleType, RunStepType, CleanupType DEF Next
<1> QED
  BY <1>1, <1>2

LEMMA TypeAlways == Spec => []TypeInv
BY TypeInit, TypeStep, PTL DEF Spec

\* Every row, call and pass of the dispatch queue is well formed at all times, and a
\* call that is to insert a row knows its issue and its agent.
THEOREM TypeCorrect == Spec => []TypeOK
BY TypeAlways, TypeInvType, PTL

-----------------------------------------------------------------------------
(* What a step does to the rows of dispatch_intents: a row keeps what it says,   *)
(* leaves the queue once, and is changed afterwards only by a pausing company.   *)

RowMoves(n) ==
  status[n] # "absent" =>
    /\ about'[n] = about[n] /\ target'[n] = target[n] /\ kind'[n] = kind[n]
    /\ \/ status'[n] = status[n]
       \/ status[n] = "queued" /\ status'[n] # "absent"
       \/ status[n] \in {"admitted", "deferred"} /\ status'[n] = "rejected"

LEMMA RowsKept ==
  ASSUME TypeInv, UNCHANGED <<status, about, target, kind>>, NEW n \in Intents PROVE RowMoves(n)
BY DEF RowMoves

LEMMA CreateRows ==
  ASSUME TypeInv, NEW c \in Creators, Create(c), NEW n \in Intents PROVE RowMoves(n)
<1>1. ASSUME NEW m \in Intents, NEW s, Insert(m, c, s) PROVE RowMoves(n)
  BY <1>1 DEF Insert, Absent, RowMoves, TypeInv, RowTypes
<1>2. CASE Bury(c) \/ InsertQueued(c)
  BY <1>1, <1>2 DEF Bury, InsertQueued
<1>3. CASE Supersede(c)
  BY <1>3 DEF Supersede, Queued, RowMoves, TypeInv, RowTypes
<1>4. CASE CheckCompany(c) \/ CheckOutranked(c) \/ FindDependents(c) \/ NextDependent(c)
           \/ ReadDependent(c)
  <2>1. UNCHANGED intents
    BY <1>4 DEF CheckCompany, CheckOutranked, FindDependents, NextDependent, ReadDependent
  <2> QED
    BY <2>1, RowsKept DEF intents
<1> QED
  BY <1>2, <1>3, <1>4 DEF Create

LEMMA ResolveRows ==
  ASSUME TypeInv, NEW p \in Passes, NEW pc \in {"admit", "reject", "blocked", "busy"},
         NEW s \in Statuses \ {"absent"}, NEW why, Resolve(p, pc, s, why), NEW n \in Intents
  PROVE  RowMoves(n)
BY DEF Resolve, PASS_UNCHANGED, RowMoves, TypeInv, RowTypes

LEMMA StepRows ==
  ASSUME TypeInv, [Next]_vars, NEW n \in Intents PROVE RowMoves(n)
<1>1. CASE UNCHANGED vars
  BY <1>1, RowsKept DEF vars, intents
<1>2. CASE \E c \in Creators, i \in Issues : \/ \E a \in Agents : Assign(c, i, a)
                                             \/ TimerHint(c, i)
                                             \/ ReadPatch(c, i)
  BY <1>2, RowsKept DEF Assign, TimerHint, ReadPatch, intents
<1>3. CASE \E c \in Creators : Create(c)
  BY <1>3, CreateRows
<1>4. CASE \/ \E i \in Issues : Handle(i) \/ Reopen(i) \/ Release(i)
           \/ \E i \in Issues, a \in Agents \cup {None} : Reassign(i, a)
           \/ \E c \in Creators, s \in Closed : Close(c, s)
  <2>1. CASE \E i \in Issues : InvalidateIntents(i)
    BY <2>1 DEF InvalidateIntents, RowMoves, TypeInv, RowTypes
  <2>2. CASE \/ \E i \in Issues : InvalidateLeases(i) \/ Reopen(i) \/ Release(i)
             \/ \E i \in Issues, a \in Agents \cup {None} : Reassign(i, a)
             \/ \E c \in Creators, s \in Closed : Close(c, s)
    BY <2>2, RowsKept DEF InvalidateLeases, Reopen, Release, OpenAgain, Reassign, Close, intents
  <2> QED
    BY <1>4, <2>1, <2>2 DEF Handle
<1>5. CASE \E p \in Passes : PassStart(p) \/ Schedule(p)
  <2>1. PICK p \in Passes : PassStart(p) \/ Schedule(p)
    BY <1>5
  <2>2. CASE \/ Resolve(p, "admit", "admitted", None) \/ Resolve(p, "reject", "rejected", None)
             \/ Resolve(p, "blocked", "deferred", "dependency") \/ Resolve(p, "busy", "deferred", "busy")
    BY <2>2, ResolveRows DEF Statuses
  <2>3. CASE ~ \/ Resolve(p, "admit", "admitted", None) \/ Resolve(p, "reject", "rejected", None)
               \/ Resolve(p, "blocked", "deferred", "dependency") \/ Resolve(p, "busy", "deferred", "busy")
    <3>1. UNCHANGED <<status, about, target, kind>>
      BY <2>1, <2>3 DEF PassStart, Schedule, Fetch, ReadCompany, ReadIssue, ReadDeps, ReadLease,
                        ReadSlots, Verdict, GrantLease, CreateRun, CreateEnvelope, PASS_UNCHANGED
    <3> QED
      BY <3>1, RowsKept
  <2> QED
    BY <2>2, <2>3
<1>6. CASE \E x \in Made : Claim(x) \/ Refuse(x) \/ Finish(x) \/ Expire(x)
  BY <1>6, RowsKept DEF Claim, Refuse, Finish, Expire, MADE_UNCHANGED, intents
<1>7. CASE Pause \/ Resume \/ QuiesceOn \/ FindStale \/ RejectStale
  <2>1. CASE QuiesceIntents
    BY <2>1 DEF QuiesceIntents, QUIESCE_UNCHANGED, RowMoves, TypeInv, RowTypes
  <2>2. CASE RejectStale
    BY <2>2 DEF RejectStale, Queued, RowMoves, TypeInv, RowTypes
  <2>3. CASE Pause \/ Resume \/ QuiesceRead \/ QuiesceRuns \/ QuiesceLeases \/ FindStale
    BY <2>3, RowsKept DEF Pause, Resume, QuiesceRead, QuiesceRuns, QuiesceLeases, FindStale,
                          QUIESCE_UNCHANGED, intents
  <2> QED
    BY <1>7, <2>1, <2>2, <2>3 DEF QuiesceOn
<1> QED
  BY <1>1, <1>2, <1>3, <1>4, <1>5, <1>6, <1>7 DEF Next

-----------------------------------------------------------------------------
(* One run per intent.  Inductive is that an intent leaves the queue before its   *)
(* first lease and run, and that from there the pass that admitted it is alone.   *)

Holding == {p \in Passes : pass[p].pc \in {"grant", "run"}}

HeldIsNew(p) ==
  LET n == pass[p].intent
  IN  /\ status[n] \in {"admitted", "rejected"}
      /\ \A q \in Passes : /\ runs[<<n, q>>] = "none"
                           /\ q # p \/ pass[p].pc = "grant" => leases[<<n, q>>] = "none"

MadeIsSettled ==
  \A n \in Intents, p \in Passes :
    (leases[<<n, p>>] # "none" \/ runs[<<n, p>>] # "none") => status[n] \notin {"absent", "queued"}

OneHolder ==
  /\ MadeIsSettled /\ OneRunPerIntent
  /\ \A p \in Holding : HeldIsNew(p)
  /\ \A p, q \in Holding : pass[p].intent = pass[q].intent => p = q

\* A step that makes no row and lets no pass begin to hold an intent.
Quietly ==
  /\ \A x \in Made : (leases'[x] = "none" <=> leases[x] = "none") /\ (runs'[x] = "none" <=> runs[x] = "none")
  /\ Holding' \subseteq Holding
  /\ \A p \in Holding' : pass'[p].pc = pass[p].pc /\ pass'[p].intent = pass[p].intent

LEMMA QuietHolder ==
  ASSUME TypeInv, OneHolder, [Next]_vars, Quietly PROVE OneHolder'
<1>0. \A n \in Intents : RowMoves(n)
  BY StepRows
<1>1. MadeIsSettled'
  BY <1>0 DEF OneHolder, MadeIsSettled, Quietly, RowMoves, Made
<1>2. OneRunPerIntent'
  BY DEF OneHolder, OneRunPerIntent, Quietly, Made
<1>3. ASSUME NEW p \in Holding' PROVE HeldIsNew(p)'
  <2>1. p \in Holding /\ HeldIsNew(p) /\ pass'[p].pc = pass[p].pc /\ pass'[p].intent = pass[p].intent
    BY <1>3 DEF Quietly, OneHolder
  <2>2. p \in Passes /\ pass[p].intent \in Intents
    BY <2>1 DEF Holding, TypeInv, PassTypes, PassKnows
  <2>3. status'[pass[p].intent] \in {"admitted", "rejected"}
    BY <1>0, <2>1, <2>2 DEF HeldIsNew, RowMoves
  <2>4. \A q \in Passes : /\ runs'[<<pass[p].intent, q>>] = "none"
                          /\ q # p \/ pass[p].pc = "grant" => leases'[<<pass[p].intent, q>>] = "none"
    <3> TAKE q \in Passes
    <3>1. <<pass[p].intent, q>> \in Made
      BY <2>2 DEF Made
    <3>2. (runs'[<<pass[p].intent, q>>] = "none" <=> runs[<<pass[p].intent, q>>] = "none")
          /\ (leases'[<<pass[p].intent, q>>] = "none" <=> leases[<<pass[p].intent, q>>] = "none")
      BY <3>1 DEF Quietly
    <3> QED
      BY <2>1, <3>2 DEF HeldIsNew
  <2> QED
    BY <2>1, <2>3, <2>4 DEF HeldIsNew
<1>4. \A p, q \in Holding' : pass'[p].intent = pass'[q].intent => p = q
  BY DEF Quietly, OneHolder
<1> QED
  BY <1>1, <1>2, <1>3, <1>4 DEF OneHolder

LEMMA AdmitHolder ==
  ASSUME TypeInv, OneHolder, NEW p \in Passes, Resolve(p, "admit", "admitted", None)
  PROVE  OneHolder'
<1> DEFINE n == pass[p].intent
<1>0. n \in Intents /\ p \notin Holding /\ Next
  BY DEF Resolve, TypeInv, PassTypes, PassKnows, Holding, Next, Schedule
<1>1. CASE status[n] # "queued"
  <2>1. Quietly
    BY <1>0, <1>1 DEF Resolve, Quietly, Holding, TypeInv, PassTypes, made, IdlePass
  <2> QED
    BY <1>0, <2>1, QuietHolder
<1>2. CASE status[n] = "queued"
  <2>1. /\ status' = [status EXCEPT ![n] = "admitted"] /\ UNCHANGED <<leases, runs>>
        /\ pass' = [pass EXCEPT ![p].pc = "grant"]
    BY <1>2 DEF Resolve, PassTo, made
  <2>2. \A q \in Passes : leases[<<n, q>>] = "none" /\ runs[<<n, q>>] = "none"
    BY <1>0, <1>2 DEF OneHolder, MadeIsSettled
  <2>3. \A q \in Holding : pass[q].intent # n
    BY <1>2 DEF OneHolder, HeldIsNew
  <2>4. /\ Holding' = Holding \cup {p} /\ pass'[p].intent = n /\ pass'[p].pc = "grant"
        /\ \A q \in Holding : pass'[q] = pass[q] /\ q # p /\ q \in Passes
    BY <1>0, <2>1 DEF Holding, TypeInv, PassTypes, PassRecords
  <2>5. status'[n] = "admitted" /\ \A m \in Intents : m # n => status'[m] = status[m]
    BY <1>0, <2>1 DEF TypeInv, RowTypes
  <2>6. MadeIsSettled' /\ OneRunPerIntent'
    BY <2>1, <2>5 DEF OneHolder, MadeIsSettled, OneRunPerIntent
  <2>7. HeldIsNew(p)'
    BY <2>1, <2>2, <2>4, <2>5 DEF HeldIsNew
  <2>8. ASSUME NEW q \in Holding PROVE HeldIsNew(q)'
    <3>1. HeldIsNew(q) /\ pass'[q] = pass[q] /\ pass[q].intent \in Intents /\ pass[q].intent # n
      BY <2>3, <2>4 DEF OneHolder, Holding, TypeInv, PassTypes, PassKnows
    <3> QED
      BY <2>1, <2>5, <3>1 DEF HeldIsNew
  <2>9. \A q, r \in Holding' : pass'[q].intent = pass'[r].intent => q = r
    BY <2>3, <2>4 DEF OneHolder
  <2> QED
    BY <2>4, <2>6, <2>7, <2>8, <2>9 DEF OneHolder
<1> QED
  BY <1>1, <1>2

LEMMA GrantHolder ==
  ASSUME TypeInv, OneHolder, NEW p \in Passes, GrantLease(p) PROVE OneHolder'
<1> DEFINE n == pass[p].intent
<1>0. n \in Intents /\ p \in Holding /\ HeldIsNew(p) /\ pass[p].pc = "grant"
  BY DEF GrantLease, TypeInv, PassTypes, PassKnows, Holding, OneHolder
<1>1. /\ leases' = [leases EXCEPT ![<<n, p>>] = "active"] /\ UNCHANGED <<status, runs>>
      /\ pass' = [pass EXCEPT ![p].pc = "run"]
  BY DEF GrantLease, PassTo
<1>2. \A x \in Made : x # <<n, p>> => leases'[x] = leases[x]
  BY <1>1 DEF TypeInv, MadeTypes
<1>3. /\ Holding' = Holding /\ pass'[p].intent = n /\ pass'[p].pc = "run"
      /\ \A q \in Passes : q # p => pass'[q] = pass[q]
  BY <1>0, <1>1 DEF Holding, TypeInv, PassTypes, PassRecords
<1>4. MadeIsSettled'
  BY <1>0, <1>1, <1>2 DEF OneHolder, MadeIsSettled, HeldIsNew, Made
<1>5. OneRunPerIntent'
  BY <1>0, <1>1, <1>2 DEF OneHolder, OneRunPerIntent, HeldIsNew, Made
<1>6. ASSUME NEW q \in Holding PROVE HeldIsNew(q)'
  <2>1. HeldIsNew(q) /\ q \in Passes /\ pass[q].intent \in Intents
    BY DEF OneHolder, Holding, TypeInv, PassTypes, PassKnows
  <2>2. CASE q = p
    BY <1>0, <1>1, <1>2, <1>3, <2>1, <2>2 DEF HeldIsNew, Made
  <2>3. CASE q # p
    <3>1. pass[q].intent # n
      BY <1>0, <2>3 DEF OneHolder
    <3> QED
      BY <1>1, <1>2, <1>3, <2>1, <2>3, <3>1 DEF HeldIsNew, Made
  <2> QED
    BY <2>2, <2>3
<1>7. \A q, r \in Holding' : pass'[q].intent = pass'[r].intent => q = r
  BY <1>3 DEF OneHolder, Holding
<1> QED
  BY <1>3, <1>4, <1>5, <1>6, <1>7 DEF OneHolder

LEMMA RunHolder ==
  ASSUME TypeInv, OneHolder, NEW p \in Passes, CreateRun(p) PROVE OneHolder'
<1> DEFINE n == pass[p].intent
<1>0. n \in Intents /\ p \in Holding /\ HeldIsNew(p)
  BY DEF CreateRun, TypeInv, PassTypes, PassKnows, Holding, OneHolder
<1>1. /\ runs' = [runs EXCEPT ![<<n, p>>] = "queued"] /\ UNCHANGED <<status, leases>>
      /\ pass' = [pass EXCEPT ![p].pc = "envelope"]
  BY DEF CreateRun, PassTo
<1>2. \A x \in Made : x # <<n, p>> => runs'[x] = runs[x]
  BY <1>1 DEF TypeInv, MadeTypes
<1>3. Holding' = Holding \ {p} /\ \A q \in Passes : q # p => pass'[q] = pass[q]
  BY <1>0, <1>1 DEF Holding, TypeInv, PassTypes, PassRecords
<1>4. MadeIsSettled' /\ OneRunPerIntent'
  BY <1>0, <1>1, <1>2 DEF OneHolder, MadeIsSettled, OneRunPerIntent, HeldIsNew, Made
<1>6. ASSUME NEW q \in Holding' PROVE HeldIsNew(q)'
  <2>1. HeldIsNew(q) /\ q \in Passes /\ pass[q].intent \in Intents /\ q # p /\ q \in Holding
    BY <1>3 DEF OneHolder, Holding, TypeInv, PassTypes, PassKnows
  <2>2. pass[q].intent # n
    BY <1>0, <2>1 DEF OneHolder
  <2> QED
    BY <1>1, <1>2, <1>3, <2>1, <2>2 DEF HeldIsNew, Made
<1>7. \A q, r \in Holding' : pass'[q].intent = pass'[r].intent => q = r
  BY <1>3 DEF OneHolder, Holding
<1> QED
  BY <1>4, <1>6, <1>7 DEF OneHolder

LEMMA HolderInit == Init => OneHolder
BY DEF Init, OneHolder, MadeIsSettled, OneRunPerIntent, Holding, IdlePass, Made

\* The queued runs a quiesce has read are rows of the table.
SnapshotMade == \A x \in quiesce.queued : runs[x] # "none"

LEMMA SnapshotStep == TypeInv /\ SnapshotMade /\ [Next]_vars => SnapshotMade'
<1> SUFFICES ASSUME TypeInv, SnapshotMade, [Next]_vars PROVE SnapshotMade'
  OBVIOUS
<1>0. quiesce.queued \subseteq Made
  BY DEF TypeInv, CleanupTypes
<1>1. ASSUME UNCHANGED quiesce, \A x \in Made : runs'[x] = "none" => runs[x] = "none"
      PROVE  SnapshotMade'
  BY <1>0, <1>1 DEF SnapshotMade
<1>2. CASE UNCHANGED vars
  BY <1>1, <1>2 DEF vars, made, cleanup
<1>3. CASE \/ \E c \in Creators, i \in Issues : \/ \E a \in Agents : Assign(c, i, a)
                                                \/ TimerHint(c, i)
                                                \/ ReadPatch(c, i)
           \/ \E c \in Creators : Create(c)
           \/ \E i \in Issues : Handle(i) \/ Reopen(i) \/ Release(i)
           \/ \E i \in Issues, a \in Agents \cup {None} : Reassign(i, a)
           \/ \E c \in Creators, s \in Closed : Close(c, s)
           \/ Resume \/ FindStale \/ RejectStale
  <2>1. UNCHANGED <<quiesce, runs>>
    BY <1>3 DEF Assign, TimerHint, Close, ReadPatch, Create, CheckCompany, CheckOutranked, Bury,
       Supersede, InsertQueued, FindDependents, NextDependent, ReadDependent, CALL_UNCHANGED, Handle,
       InvalidateIntents, InvalidateLeases, Reopen, Release, OpenAgain, Reassign, Resume,
       QUIESCE_UNCHANGED, FindStale, RejectStale, made, cleanup
  <2> QED
    BY <1>1, <2>1
<1>4. CASE \E p \in Passes : PassStart(p) \/ Schedule(p)
  <2>1. PICK p \in Passes : PassStart(p) \/ Schedule(p)
    BY <1>4
  <2>2. UNCHANGED quiesce
    BY <2>1 DEF PassStart, Schedule, Fetch, ReadCompany, ReadIssue, ReadDeps, ReadLease, ReadSlots,
                Verdict, Resolve, GrantLease, CreateRun, CreateEnvelope, PASS_UNCHANGED, cleanup
  <2>3. CASE CreateRun(p)
    BY <1>1, <2>2, <2>3 DEF CreateRun, TypeInv, MadeTypes
  <2>4. CASE ~CreateRun(p)
    <3>1. UNCHANGED runs
      BY <2>1, <2>4 DEF PassStart, Schedule, Fetch, ReadCompany, ReadIssue, ReadDeps, ReadLease,
                        ReadSlots, Verdict, Resolve, GrantLease, CreateEnvelope, made
    <3> QED
      BY <1>1, <2>2, <3>1
  <2> QED
    BY <2>3, <2>4
<1>5. CASE \E x \in Made : Claim(x) \/ Refuse(x) \/ Finish(x) \/ Expire(x)
  <2>1. UNCHANGED quiesce
    BY <1>5 DEF Claim, Refuse, Finish, Expire, MADE_UNCHANGED, cleanup
  <2>2. \A x \in Made : runs'[x] = "none" => runs[x] = "none"
    BY <1>5 DEF Claim, Refuse, Finish, Expire, TypeInv, MadeTypes
  <2> QED
    BY <1>1, <2>1, <2>2
<1>6. CASE Pause \/ QuiesceOn
  BY <1>6 DEF Pause, QuiesceOn, QuiesceRead, QuiesceRuns, QuiesceIntents, QuiesceLeases, Quiet,
              QUIESCE_UNCHANGED, SnapshotMade, TypeInv, CleanupTypes, MadeTypes
<1> QED
  BY <1>2, <1>3, <1>4, <1>5, <1>6 DEF Next

LEMMA HolderStep == TypeInv /\ SnapshotMade /\ OneHolder /\ [Next]_vars => OneHolder'
<1> SUFFICES ASSUME TypeInv, SnapshotMade, OneHolder, [Next]_vars PROVE OneHolder'
  OBVIOUS
<1>1. ASSUME UNCHANGED <<pass, leases, runs>> PROVE Quietly
  BY <1>1 DEF Quietly, Holding
<1>2. CASE UNCHANGED vars
  BY <1>1, <1>2, QuietHolder DEF vars, made
<1>3. CASE \/ \E c \in Creators, i \in Issues : \/ \E a \in Agents : Assign(c, i, a)
                                                \/ TimerHint(c, i)
                                                \/ ReadPatch(c, i)
           \/ \E c \in Creators : Create(c)
           \/ \E i \in Issues : InvalidateIntents(i) \/ Reopen(i) \/ Release(i)
           \/ \E i \in Issues, a \in Agents \cup {None} : Reassign(i, a)
           \/ \E c \in Creators, s \in Closed : Close(c, s)
           \/ Resume \/ Pause \/ QuiesceRead \/ QuiesceIntents \/ FindStale \/ RejectStale
  <2>1. UNCHANGED <<pass, leases, runs>>
    BY <1>3 DEF Assign, TimerHint, Close, ReadPatch, Create, CheckCompany, CheckOutranked, Bury,
       Supersede, InsertQueued, FindDependents, NextDependent, ReadDependent, CALL_UNCHANGED,
       InvalidateIntents, Reopen, Release, OpenAgain, Reassign, Pause, Resume, QuiesceRead,
       QuiesceIntents, QUIESCE_UNCHANGED, FindStale, RejectStale, made
  <2> QED
    BY <1>1, <2>1, QuietHolder
<1>4. CASE \/ \E i \in Issues : InvalidateLeases(i)
           \/ \E x \in Made : Claim(x) \/ Refuse(x) \/ Finish(x) \/ Expire(x)
           \/ QuiesceLeases
  <2>1. Quietly
    BY <1>4 DEF InvalidateLeases, Claim, Refuse, Finish, Expire, MADE_UNCHANGED, QuiesceLeases,
                QUIESCE_UNCHANGED, Quietly, Holding, TypeInv, MadeTypes
  <2> QED
    BY <2>1, QuietHolder
<1>5. CASE QuiesceRuns
  <2>0. UNCHANGED <<pass, leases>> /\ Holding' = Holding
    BY <1>5 DEF QuiesceRuns, QUIESCE_UNCHANGED, Holding
  <2>2. ASSUME NEW x \in Made PROVE (runs'[x] = "none") = (runs[x] = "none")
    BY <1>5 DEF SnapshotMade, QuiesceRuns, ActiveRun, TypeInv, MadeTypes
  <2>1. Quietly
    BY <2>0, <2>2 DEF Quietly
  <2> QED
    BY <2>1, QuietHolder
<1>6. ASSUME NEW p \in Passes, PassStart(p) \/ Schedule(p),
             ~ (Resolve(p, "admit", "admitted", None) \/ GrantLease(p) \/ CreateRun(p))
      PROVE  Quietly
  <2>1. UNCHANGED <<leases, runs>>
    BY <1>6 DEF PassStart, Schedule, Fetch, ReadCompany, ReadIssue, ReadDeps, ReadLease, ReadSlots,
                Verdict, Resolve, CreateEnvelope, made
  <2>2. pass'[p].pc \notin {"grant", "run"} /\ \A q \in Passes : q # p => pass'[q] = pass[q]
    <3>1. CASE PassStart(p)
      BY <3>1 DEF PassStart, TypeInv, PassTypes, PassRecords
    <3>2. CASE Fetch(p)
      BY <3>2 DEF Fetch, With, IdlePass, TypeInv, PassTypes, PassRecords
    <3>3. CASE ReadCompany(p) \/ ReadDeps(p) \/ ReadLease(p) \/ ReadSlots(p)
      BY <3>3 DEF ReadCompany, ReadDeps, ReadLease, ReadSlots, Verdict, PassTo, TypeInv, PassTypes, PassRecords
    <3>4. CASE ReadIssue(p)
      BY <3>4 DEF ReadIssue, TypeInv, PassTypes, PassRecords
    <3>5. ASSUME NEW pc, NEW s, s # "admitted", NEW why, Resolve(p, pc, s, why)
          PROVE  pass'[p].pc \notin {"grant", "run"} /\ \A q \in Passes : q # p => pass'[q] = pass[q]
      <4>1. \/ pass' = [pass EXCEPT ![p] = With(pass[p].todo)]
            \/ pass' = [pass EXCEPT ![p] = IdlePass]
        BY <3>5 DEF Resolve, PassOn
      <4>2. IdlePass.pc = "idle" /\ With(pass[p].todo).pc \in {"idle", "fetch"}
        BY DEF With, IdlePass
      <4> QED
        BY <4>1, <4>2 DEF TypeInv, PassTypes
    <3>6. CASE CreateEnvelope(p)
      BY <3>6 DEF CreateEnvelope, PassOn, With, IdlePass, TypeInv, PassTypes, PassRecords
    <3> QED
      BY <1>6, <3>1, <3>2, <3>3, <3>4, <3>5, <3>6 DEF Schedule
  <2> QED
    BY <2>1, <2>2 DEF Quietly, Holding, TypeInv, PassTypes
<1>7. CASE \E p \in Passes : PassStart(p) \/ Schedule(p)
  BY <1>6, <1>7, QuietHolder, AdmitHolder, GrantHolder, RunHolder
<1> QED
  BY <1>2, <1>3, <1>4, <1>5, <1>7 DEF Next, Handle, QuiesceOn

LEMMA HolderAlways == Spec => [](TypeInv /\ OneHolder)
<1>1. Init => SnapshotMade
  BY DEF Init, SnapshotMade, Quiet
<1> QED
  BY <1>1, TypeInit, TypeStep, SnapshotStep, HolderInit, HolderStep, PTL DEF Spec

\* However many scheduler passes overlap, two never make a lease or a run for one
\* intent: only admitIntent's conditional update lets a pass go on.
THEOREM OneRun == Spec => []OneRunPerIntent
<1>1. OneHolder => OneRunPerIntent
  BY DEF OneHolder
<1> QED
  BY <1>1, HolderAlways, PTL
=============================================================================
