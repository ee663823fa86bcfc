------------------------ MODULE RoutineDispatch_proofs ------------------------
(* Theorems about the dispatches of a routine. *)
EXTENDS RoutineDispatch, FiniteSetTheorems, TLAPS

-----------------------------------------------------------------------------
(* Type correctness: what a claim writes depends on what its pass has read. *)

PassStates == [pc : {"idle", "claim", "dispatch"}, due : 0..MaxClock, now : 0..MaxClock,
               left : 0..Cap]
Dispatches == [pc : {"none", "begin", "done"} \cup InTransaction, at : 0..MaxClock,
               run : 0..MaxRuns, key : {None} \cup Keys, trigger : BOOLEAN]
RunRows == [status : {"none", "failed", "skipped", "coalesced", "issue_created", "settled"},
            key : {None} \cup Keys, trigger : BOOLEAN]

\* A pass that is about to claim has counted from an occurrence that was due.
PassInv ==
    \A p \in Passes : pass[p].pc = "claim" =>
        /\ pass[p].due \in 1..pass[p].now
        /\ pass[p].left = RunCount(pass[p].due, pass[p].now)

LEMMA Counts ==
  ASSUME NEW now \in 0..MaxClock, NEW due \in 1..now
  PROVE  /\ RunCount(due, now) \in 1..Cap
         /\ ClaimedNext(due, now) \in (due + RunCount(due, now))..(now + 1)
BY ConstantsAssumption DEF ConstantsAssumption, RunCount, ClaimedNext, NextTick

LEMMA NewDispatches ==
  /\ NoDispatch \in Dispatches
  /\ [NoDispatch EXCEPT !.pc = "done"] \in Dispatches
  /\ [NoDispatch EXCEPT !.pc = "begin", !.trigger = TRUE] \in Dispatches
  /\ \A c \in Callers, t \in BOOLEAN :
        [NoDispatch EXCEPT !.pc = "begin", !.key = Key[c], !.trigger = t] \in Dispatches
<1> USE ConstantsAssumption DEF ConstantsAssumption
<1>1. NoDispatch \in Dispatches
  BY DEF NoDispatch, Dispatches
<1>2. [NoDispatch EXCEPT !.pc = "done"] \in Dispatches
  BY <1>1 DEF Dispatches
<1>3. [NoDispatch EXCEPT !.pc = "begin", !.trigger = TRUE] \in Dispatches
  BY <1>1 DEF Dispatches
<1>4. ASSUME NEW c \in Callers, NEW t \in BOOLEAN
      PROVE  [NoDispatch EXCEPT !.pc = "begin", !.key = Key[c], !.trigger = t] \in Dispatches
  <2>1. Key[c] \in {None} \cup Keys
    BY DEF Keys
  <2> QED
    BY <1>1, <2>1 DEF Dispatches
<1> QED
  BY <1>1, <1>2, <1>3, <1>4

LEMMA DispatchChanges ==
  ASSUME disp \in [Procs -> Dispatches], NEW p \in Procs
  PROVE  /\ Ended(p) \in Dispatches
         /\ [disp EXCEPT ![p] = Ended(p)] \in [Procs -> Dispatches]
         /\ \A pc \in InTransaction : [disp EXCEPT ![p].pc = pc] \in [Procs -> Dispatches]
<1>1. Ended(p) \in Dispatches
  BY NewDispatches DEF Ended
<1>2. ASSUME NEW pc \in InTransaction
      PROVE  [disp EXCEPT ![p].pc = pc] \in [Procs -> Dispatches]
  <2>1. [disp[p] EXCEPT !.pc = pc] \in Dispatches
    BY DEF Dispatches
  <2> QED
    BY <2>1
<1> QED
  BY <1>1, <1>2

LEMMA CommitTypes ==
  ASSUME TypeOK, NEW p \in Procs, NEW s, Commit(p, s),
         s \in {"failed", "skipped", "coalesced", "issue_created"}
  PROVE  /\ run' \in [Runs -> RunRows] /\ nextRunAt' \in 1..(MaxClock + 1)
         /\ lock' \in Procs \cup {None} /\ disp' \in [Procs -> Dispatches]
         /\ UNCHANGED <<routine, clock, pass, lastRun, fired, crashes>>
<1>0. disp \in [Procs -> Dispatches] /\ run \in [Runs -> RunRows]
  BY DEF TypeOK, Dispatches, RunRows
<1>1. run' \in [Runs -> RunRows]
  <2> DEFINE x == [status |-> s, key |-> disp[p].key, trigger |-> disp[p].trigger]
  <2>1. x \in RunRows
    BY <1>0 DEF RunRows, Dispatches
  <2>2. run' = [run EXCEPT ![disp[p].run] = x]
    BY DEF Commit
  <2> QED
    BY <2>1, <2>2, <1>0
<1>2. nextRunAt' \in 1..(MaxClock + 1)
  <2>1. disp[p].at \in 0..MaxClock
    BY <1>0 DEF Dispatches
  <2> QED
    BY <2>1, ConstantsAssumption DEF Commit, NextTick, TypeOK, ConstantsAssumption
<1> QED
  BY <1>0, <1>1, <1>2, DispatchChanges DEF Commit

LEMMA TypeDispatch ==
  ASSUME TypeOK, NEW p \in Procs, Dispatch(p)
  PROVE  TypeOK'
<1>0. disp \in [Procs -> Dispatches] /\ run \in [Runs -> RunRows]
      /\ issue \in [Runs -> {"none", "idle", "live", "woken", "closed"}]
  BY DEF TypeOK, Dispatches, RunRows
<1>1. CASE Begin(p) \/ LockRoutine(p)
  <2>1. disp' \in [Procs -> Dispatches]
    <3>1. {"lock", "insert"} \subseteq InTransaction
      BY DEF InTransaction, Locked
    <3> QED
      BY <1>0, <1>1, <3>1, DispatchChanges DEF Begin, LockRoutine
  <2> QED
    BY <1>1, <2>1 DEF Begin, LockRoutine, TypeOK, Dispatches
<1>2. CASE Insert(p)
  <2>1. lastRun' \in 0..MaxRuns /\ lock' \in Procs \cup {None}
    BY <1>2, ConstantsAssumption DEF Insert, TypeOK, ConstantsAssumption
  <2>2. disp' \in [Procs -> Dispatches]
    <3>1. CASE disp' = [disp EXCEPT ![p] = Ended(p)]
      BY <3>1, <1>0, DispatchChanges
    <3>2. CASE disp' = [disp EXCEPT ![p].pc = "admit", ![p].at = clock, ![p].run = lastRun + 1]
               /\ lastRun' = lastRun + 1
      <4>1. clock \in 0..MaxClock /\ lastRun + 1 \in 0..MaxRuns /\ "admit" \in InTransaction
        BY <3>2, <2>1 DEF TypeOK, InTransaction, Locked
      <4>2. [disp[p] EXCEPT !.pc = "admit", !.at = clock, !.run = lastRun + 1] \in Dispatches
        BY <4>1, <1>0 DEF Dispatches
      <4>3. disp' = [disp EXCEPT ![p] = [disp[p] EXCEPT !.pc = "admit", !.at = clock,
                                                        !.run = lastRun + 1]]
        BY <3>2, <1>0
      <4> QED
        BY <4>2, <4>3, <1>0
    <3> QED
      BY <3>1, <3>2, <1>2 DEF Insert
  <2> QED
    BY <1>2, <2>1, <2>2 DEF Insert, TypeOK, Dispatches
<1>3. CASE Admit(p) \/ Find(p) \/ Create(p) \/ Queue(p) \/ Finalize(p)
  <2>1. issue' \in [Runs -> {"none", "idle", "live", "woken", "closed"}]
    BY <1>3, <1>0 DEF Admit, Find, Create, Queue, Finalize
  <2>2. \/ \E s \in {"failed", "skipped", "coalesced", "issue_created"} : Commit(p, s)
        \/ \E pc \in InTransaction : Advanced(p, pc)
    BY <1>3 DEF Admit, Find, Create, Queue, Finalize, InTransaction, Locked
  <2>3. CASE \E s \in {"failed", "skipped", "coalesced", "issue_created"} : Commit(p, s)
    BY <2>1, <2>3, CommitTypes DEF TypeOK, Dispatches, RunRows
  <2>4. CASE \E pc \in InTransaction : Advanced(p, pc)
    <3>1. disp' \in [Procs -> Dispatches]
      BY <2>4, <1>0, DispatchChanges DEF Advanced
    <3> QED
      BY <2>1, <2>4, <3>1 DEF Advanced, TypeOK, Dispatches
  <2> QED
    BY <2>2, <2>3, <2>4
<1> QED
  BY <1>1, <1>2, <1>3 DEF Dispatch

LEMMA TypePass ==
  ASSUME TypeOK, PassInv, NEW p \in Passes, PassStep(p)
  PROVE  TypeOK' /\ PassInv'
<1>0. pass \in [Passes -> PassStates] /\ disp \in [Procs -> Dispatches] /\ p \in Procs
      /\ UNCHANGED routine
  BY DEF TypeOK, PassStates, Dispatches, Procs, PassStep, ReadDue, Claim, NextDispatch
<1>1. CASE ReadDue(p)
  <2> DEFINE x == [pc |-> "claim", due |-> nextRunAt, now |-> clock,
                   left |-> RunCount(nextRunAt, clock)]
  <2>1. clock \in 0..MaxClock /\ nextRunAt \in 1..clock
    BY <1>1 DEF ReadDue, TypeOK
  <2>2. RunCount(nextRunAt, clock) \in 1..Cap
    BY <2>1, Counts
  <2>3. x \in PassStates /\ pass' = [pass EXCEPT ![p] = x]
    BY <1>1, <2>1, <2>2, ConstantsAssumption DEF ReadDue, PassStates, ConstantsAssumption
  <2>4. TypeOK'
    BY <1>0, <1>1, <2>3 DEF ReadDue, TypeOK, PassStates
  <2>5. PassInv'
    BY <1>0, <2>1, <2>3 DEF PassInv, RunCount
  <2> QED
    BY <2>4, <2>5
<1>2. CASE Claim(p)
  <2>1. pass[p].pc = "claim" /\ pass[p].now \in 0..MaxClock /\ pass[p].due \in 1..pass[p].now
    BY <1>0, <1>2 DEF Claim, PassInv, PassStates
  <2>2. nextRunAt' \in 1..(MaxClock + 1)
    <3>1. ClaimedNext(pass[p].due, pass[p].now) \in 1..(MaxClock + 1)
      <4> DEFINE d == pass[p].due
                 n == pass[p].now
      <4>1. RunCount(d, n) \in 1..Cap /\ ClaimedNext(d, n) \in (d + RunCount(d, n))..(n + 1)
        BY <2>1, Counts
      <4> HIDE DEF d, n
      <4>2. n \in 0..MaxClock /\ d \in 1..n
        BY <2>1 DEF d, n
      <4>3. ClaimedNext(d, n) \in 1..(MaxClock + 1)
        BY <4>1, <4>2, ConstantsAssumption DEF ConstantsAssumption
      <4> QED
        BY <4>3 DEF d, n
    <3> QED
      BY <1>2, <3>1 DEF Claim, TypeOK
  <2>3. pass' \in [Passes -> PassStates] /\ pass'[p].pc # "claim"
        /\ \A o \in Passes \ {p} : pass'[o] = pass[o]
    <3>1. IdlePass \in PassStates /\ IdlePass.pc = "idle"
      BY ConstantsAssumption DEF IdlePass, PassStates, ConstantsAssumption
    <3>2. pass[p].left \in 0..Cap
      BY <1>0 DEF PassStates
    <3> DEFINE x == [IdlePass EXCEPT !.pc = "dispatch", !.left = pass[p].left]
    <3>3. x \in PassStates /\ x.pc = "dispatch"
      BY <3>1, <3>2 DEF PassStates
    <3>4. pass' = [pass EXCEPT ![p] = x] \/ pass' = [pass EXCEPT ![p] = IdlePass]
      BY <1>2 DEF Claim
    <3> QED
      BY <3>1, <3>3, <3>4, <1>0
  <2>4. fired' \in [Slots -> Nat]
    BY <1>2 DEF Claim, TypeOK
  <2>5. PassInv'
    BY <1>0, <2>3 DEF PassInv, RunCount
  <2> QED
    BY <1>2, <2>2, <2>3, <2>4, <2>5 DEF Claim, TypeOK, PassStates
<1>3. CASE NextDispatch(p)
  <2>1. pass' \in [Passes -> PassStates] /\ pass'[p].pc # "claim"
        /\ \A o \in Passes \ {p} : pass'[o] = pass[o]
    BY <1>0, <1>3, ConstantsAssumption
       DEF NextDispatch, IdlePass, PassStates, ConstantsAssumption
  <2>2. disp' \in [Procs -> Dispatches]
    BY <1>0, <1>3, NewDispatches DEF NextDispatch
  <2>3. PassInv'
    BY <1>0, <2>1 DEF PassInv, RunCount
  <2> QED
    BY <1>3, <2>1, <2>2, <2>3 DEF NextDispatch, TypeOK, PassStates, Dispatches
<1> QED
  BY <1>1, <1>2, <1>3 DEF PassStep

LEMMA TypeOther ==
  ASSUME TypeOK, PassInv,
         \/ \E c \in Callers : Call(c)
         \/ \E r \in Runs : ExecutionEnds(r) \/ Wake(r) \/ CloseIssue(r)
         \/ Edit \/ Tick \/ Crash \/ UNCHANGED vars
  PROVE  TypeOK' /\ PassInv'
<1>0. disp \in [Procs -> Dispatches] /\ run \in [Runs -> RunRows] /\ clock \in 0..MaxClock
  BY DEF TypeOK, Dispatches, RunRows
<1>1. CASE \E c \in Callers : Call(c)
  <2>1. PICK c \in Callers : Call(c)
    BY <1>1
  <2> DEFINE x == [NoDispatch EXCEPT !.pc = "begin", !.key = Key[c], !.trigger = c \in Named]
  <2>2. (c \in Named) \in BOOLEAN
    OBVIOUS
  <2>3. x \in Dispatches
    BY <2>2, NewDispatches
  <2>4. disp' = [disp EXCEPT ![c] = x]
    BY <2>1 DEF Call
  <2>5. disp' \in [Procs -> Dispatches]
    BY <1>0, <2>3, <2>4
  <2> QED
    BY <2>1, <2>5 DEF Call, TypeOK, Dispatches, PassInv, RunCount
<1>2. CASE \E r \in Runs : ExecutionEnds(r) \/ Wake(r) \/ CloseIssue(r)
  <2>1. run' \in [Runs -> RunRows]
    BY <1>0, <1>2 DEF ExecutionEnds, Wake, CloseIssue, RunRows
  <2> QED
    BY <1>2, <2>1 DEF ExecutionEnds, Wake, CloseIssue, TypeOK, RunRows, PassInv, RunCount
<1>3. CASE Edit
  <2>1. nextRunAt' \in 1..(MaxClock + 1)
    BY <1>0, <1>3, ConstantsAssumption DEF Edit, NextTick, ConstantsAssumption
  <2> QED
    BY <1>3, <2>1 DEF Edit, TypeOK, PassInv, RunCount
<1>4. CASE Tick
  BY <1>4, ConstantsAssumption DEF Tick, TypeOK, PassInv, RunCount, ConstantsAssumption
<1>5. CASE Crash
  <2>1. disp' \in [Procs -> Dispatches]
    BY <1>0, <1>5, DispatchChanges DEF Crash
  <2>2. pass' \in [Passes -> PassStates] /\ \A p \in Passes : pass'[p].pc = "idle"
    BY <1>5, ConstantsAssumption DEF Crash, IdlePass, PassStates, ConstantsAssumption
  <2>3. crashes' \in 0..MaxCrashes
    BY <1>5, ConstantsAssumption DEF Crash, TypeOK, ConstantsAssumption
  <2> QED
    BY <1>5, <2>1, <2>2, <2>3 DEF Crash, TypeOK, PassStates, Dispatches, PassInv
<1>6. CASE UNCHANGED vars
  BY <1>6 DEF vars, TypeOK, PassInv, RunCount
<1> QED
  BY <1>1, <1>2, <1>3, <1>4, <1>5, <1>6

LEMMA TypeInit == Init => TypeOK /\ PassInv
<1> SUFFICES ASSUME Init PROVE TypeOK /\ PassInv
  OBVIOUS
<1> USE ConstantsAssumption DEF ConstantsAssumption
<1>1. disp \in [Procs -> Dispatches] /\ run \in [Runs -> RunRows] /\ pass \in [Passes -> PassStates]
  BY DEF Init, NoDispatch, NoRun, IdlePass, Dispatches, RunRows, PassStates
<1>2. PassInv
  BY DEF Init, PassInv, IdlePass
<1> QED
  BY <1>1, <1>2 DEF Init, TypeOK, Dispatches, RunRows, PassStates

LEMMA TypeNext == TypeOK /\ PassInv /\ [Next]_vars => TypeOK' /\ PassInv'
<1> SUFFICES ASSUME TypeOK, PassInv, [Next]_vars PROVE TypeOK' /\ PassInv'
  OBVIOUS
<1>1. CASE \E p \in Passes : PassStep(p)
  BY <1>1, TypePass
<1>2. CASE \E p \in Procs : Dispatch(p)
  <2>1. UNCHANGED <<pass, routine>>
    BY <1>2 DEF Dispatch, Begin, LockRoutine, Insert, Admit, Find, Create, Queue, Finalize,
                Commit, Advanced
  <2> QED
    BY <1>2, <2>1, TypeDispatch DEF PassInv, RunCount
<1>3. CASE \/ \E c \in Callers : Call(c)
           \/ \E r \in Runs : ExecutionEnds(r) \/ Wake(r) \/ CloseIssue(r)
           \/ Edit \/ Tick \/ Crash \/ UNCHANGED vars
  BY <1>3, TypeOther
<1> QED
  BY <1>1, <1>2, <1>3 DEF Next

\* Every state is well formed; in particular a claim never writes a nextRunAt
\* beyond the occurrence after the clock (tickScheduledTriggers).
THEOREM TypeCorrect == Spec => []TypeOK
<1>1. Spec => [](TypeOK /\ PassInv)
  BY TypeInit, TypeNext, PTL DEF Spec
<1> QED
  BY <1>1, PTL

-----------------------------------------------------------------------------
(* What the routine's row protects.  The inductive invariant says who holds    *)
(* the row, and what its holder knows: that no run has its key, and, once it   *)
(* has looked, that no execution is live.                                      *)

Holds == \A p \in Procs : disp[p].pc \in Locked <=> lock = p

Searched == \A p \in Procs, r \in Runs : disp[p].pc \in Stamped => ~Made(p, r)

Clear ==
    \A p \in Procs, r \in Runs :
        disp[p].pc \in {"create", "queue"} /\ routine.policy # "always_enqueue" =>
            issue[r] # "live"

RowInv == TypeOK /\ Holds /\ Searched /\ Clear /\ OneExecution /\ KeyOnce

LEMMA Nobody == None \notin Procs
BY ConstantsAssumption DEF Procs, ConstantsAssumption

\* A transaction that ends gives the row back.
LEMMA RowEnds ==
  ASSUME RowInv, NEW p \in Procs, disp[p].pc \in Locked,
         disp' = [disp EXCEPT ![p] = Ended(p)], lock' = None
  PROVE  Holds' /\ \A q \in Procs : disp'[q].pc \notin Locked
<1>1. disp \in [Procs -> Dispatches] /\ lock = p
  BY DEF RowInv, TypeOK, Dispatches, Holds
<1>2. Ended(p).pc \notin Locked
  BY DEF Ended, NoDispatch, Locked
<1>3. \A q \in Procs : disp'[q].pc \notin Locked
  <2>1. disp'[p] = Ended(p) /\ \A q \in Procs \ {p} : disp'[q] = disp[q]
    BY <1>1
  <2>2. \A q \in Procs \ {p} : disp[q].pc \notin Locked
    BY <1>1 DEF RowInv, Holds
  <2> QED
    BY <1>2, <2>1, <2>2
<1> QED
  BY <1>3, Nobody DEF Holds

LEMMA RowCommits ==
  ASSUME RowInv, NEW p \in Procs, disp[p].pc \in Stamped, NEW s, Commit(p, s)
  PROVE  Holds' /\ Searched' /\ Clear' /\ KeyOnce'
<1>1. disp \in [Procs -> Dispatches] /\ run \in [Runs -> RunRows]
  BY DEF RowInv, TypeOK, Dispatches, RunRows
<1>2. Holds' /\ \A q \in Procs : disp'[q].pc \notin Locked
  BY RowEnds DEF Stamped, Commit
<1>3. Searched' /\ Clear'
  BY <1>2 DEF Searched, Clear, Stamped, Locked
<1>4. KeyOnce'
  <2> DEFINE d == disp[p].run
             x == [status |-> s, key |-> disp[p].key, trigger |-> disp[p].trigger]
  <2>1. run' = [run EXCEPT ![d] = x]
    BY DEF Commit
  <2>2. \A r \in Runs : run'[r] = IF r = d THEN x ELSE run[r]
    BY <2>1, <1>1
  <2>3. \A r \in Runs : ~Made(p, r)
    BY DEF RowInv, Searched
  <2>4. x.key = disp[p].key /\ x.trigger = disp[p].trigger
    OBVIOUS
  <2> HIDE DEF d, x
  <2> QED
    BY <2>2, <2>3, <2>4 DEF RowInv, KeyOnce, Made
<1> QED
  BY <1>2, <1>3, <1>4

LEMMA RowAdvances ==
  ASSUME RowInv, NEW p \in Procs, NEW pc \in Stamped, disp[p].pc \in Stamped, Advanced(p, pc)
  PROVE  Holds' /\ Searched' /\ KeyOnce'
         /\ \A q \in Procs \ {p} : disp'[q].pc \notin Locked
<1>1. disp \in [Procs -> Dispatches] /\ lock = p
  BY DEF RowInv, TypeOK, Dispatches, Holds, Stamped
<1>2. /\ \A q \in Procs \ {p} : disp'[q] = disp[q] /\ disp[q].pc \notin Locked
      /\ disp'[p].pc = pc /\ disp'[p].key = disp[p].key /\ disp'[p].trigger = disp[p].trigger
  BY <1>1 DEF Advanced, RowInv, Holds, Dispatches
<1>3. UNCHANGED <<lock, run>>
  BY DEF Advanced
<1>4. Holds'
  BY <1>1, <1>2, <1>3 DEF Holds, Stamped
<1>5. Searched'
  BY <1>2, <1>3 DEF RowInv, Searched, Made, Stamped
<1>6. KeyOnce'
  BY <1>3 DEF RowInv, KeyOnce
<1> QED
  BY <1>2, <1>4, <1>5, <1>6

LEMMA RowDispatch ==
  ASSUME RowInv, NEW p \in Procs, Dispatch(p)
  PROVE  Holds' /\ Searched' /\ Clear' /\ OneExecution' /\ KeyOnce'
<1>0. disp \in [Procs -> Dispatches] /\ UNCHANGED routine
      /\ issue \in [Runs -> {"none", "idle", "live", "woken", "closed"}]
  BY DEF RowInv, TypeOK, Dispatches, Dispatch, Begin, LockRoutine, Insert, Admit, Find, Create,
         Queue, Finalize, Commit, Advanced
<1>1. CASE Begin(p)
  <2>1. /\ \A q \in Procs \ {p} : disp'[q] = disp[q]
        /\ disp[p].pc = "begin" /\ disp'[p].pc = "lock"
    BY <1>0, <1>1 DEF Begin, Dispatches
  <2>2. UNCHANGED <<lock, run, issue, routine>>
    BY <1>1 DEF Begin
  <2> QED
    BY <2>1, <2>2
       DEF RowInv, Holds, Searched, Clear, OneExecution, KeyOnce, Made, Locked, Stamped
<1>2. CASE LockRoutine(p)
  <2>1. /\ \A q \in Procs \ {p} : disp'[q] = disp[q] /\ disp[q].pc \notin Locked
        /\ disp'[p].pc = "insert" /\ lock' = p
    BY <1>0, <1>2, Nobody DEF LockRoutine, Unlocked, Dispatches, RowInv, Holds
  <2>2. UNCHANGED <<run, issue, routine>>
    BY <1>2 DEF LockRoutine
  <2> QED
    BY <2>1, <2>2
       DEF RowInv, Holds, Searched, Clear, OneExecution, KeyOnce, Made, Locked, Stamped
<1>3. CASE Insert(p)
  <2>0. UNCHANGED <<run, issue, routine>> /\ disp[p].pc \in Locked
    BY <1>3 DEF Insert, Locked
  <2>1. OneExecution' /\ KeyOnce'
    BY <2>0 DEF RowInv, OneExecution, KeyOnce
  <2>2. CASE \E r \in Runs : Made(p, r)
    <3>1. Holds' /\ \A q \in Procs : disp'[q].pc \notin Locked
      BY <1>3, <2>0, <2>2, RowEnds DEF Insert
    <3> QED
      BY <2>1, <3>1 DEF Searched, Clear, Locked, Stamped
  <2>3. CASE ~\E r \in Runs : Made(p, r)
    <3>1. /\ disp' = [disp EXCEPT ![p].pc = "admit", ![p].at = clock, ![p].run = lastRun + 1]
          /\ UNCHANGED lock /\ lock = p
      BY <1>3, <2>0, <2>3 DEF Insert, RowInv, Holds
    <3>2. /\ \A q \in Procs \ {p} : disp'[q] = disp[q] /\ disp[q].pc \notin Locked
          /\ disp'[p].pc = "admit" /\ disp'[p].key = disp[p].key
          /\ disp'[p].trigger = disp[p].trigger
      BY <1>0, <3>1 DEF Dispatches, RowInv, Holds
    <3>3. Holds' /\ Clear'
      BY <3>1, <3>2 DEF Holds, Clear, Locked
    <3>4. Searched'
      BY <2>0, <2>3, <3>2 DEF Searched, Made, Stamped, Locked
    <3> QED
      BY <2>1, <3>3, <3>4
  <2> QED
    BY <2>2, <2>3
<1>4. CASE Admit(p) \/ Finalize(p)
  <2>0. UNCHANGED issue /\ disp[p].pc \in Stamped
    BY <1>4 DEF Admit, Finalize, Stamped, Locked
  <2>1. OneExecution'
    BY <1>0, <2>0 DEF RowInv, OneExecution
  <2>2. CASE \E s : Commit(p, s)
    BY <2>0, <2>1, <2>2, RowCommits
  <2>3. CASE Advanced(p, "find")
    <3>1. /\ Holds' /\ Searched' /\ KeyOnce'
          /\ \A q \in Procs \ {p} : disp'[q].pc \notin Locked
      BY <2>0, <2>3, RowAdvances DEF Stamped, Locked
    <3>2. disp'[p].pc = "find"
      BY <1>0, <2>3 DEF Advanced, Dispatches
    <3>3. Clear'
      BY <3>1, <3>2 DEF Clear, Locked
    <3> QED
      BY <2>1, <3>1, <3>3
  <2> QED
    BY <1>4, <2>2, <2>3 DEF Admit, Finalize
<1>5. CASE Find(p)
  <2>0. UNCHANGED issue /\ disp[p].pc \in Stamped
    BY <1>5 DEF Find, Stamped, Locked
  <2>1. OneExecution'
    BY <1>0, <2>0 DEF RowInv, OneExecution
  <2>2. CASE LiveIssue /\ routine.policy # "always_enqueue"
    <3>1. \E s : Commit(p, s)
      BY <1>5, <2>2 DEF Find
    <3> QED
      BY <2>0, <2>1, <3>1, RowCommits
  <2>3. CASE ~(LiveIssue /\ routine.policy # "always_enqueue")
    <3>0. Advanced(p, "create")
      BY <1>5, <2>3 DEF Find
    <3>1. /\ Holds' /\ Searched' /\ KeyOnce'
          /\ \A q \in Procs \ {p} : disp'[q].pc \notin Locked
      BY <2>0, <3>0, RowAdvances DEF Stamped, Locked
    <3>2. routine.policy # "always_enqueue" => \A r \in Runs : issue[r] # "live"
      BY <2>3 DEF LiveIssue
    <3>3. Clear'
      BY <1>0, <2>0, <3>1, <3>2 DEF Clear, Locked
    <3> QED
      BY <2>1, <3>1, <3>3
  <2> QED
    BY <2>2, <2>3
<1>6. CASE Create(p)
  <2>0. disp[p].pc \in Stamped /\ disp[p].pc = "create"
    BY <1>6 DEF Create, Stamped, Locked
  <2>1. issue' = [issue EXCEPT ![disp[p].run] = "idle"] \/ UNCHANGED issue
    BY <1>6 DEF Create
  <2>2. \A r \in Runs : issue'[r] = "live" => issue[r] = "live"
    BY <1>0, <2>1
  <2>3. OneExecution'
    BY <1>0, <2>2 DEF RowInv, OneExecution
  <2>4. CASE \E s : Commit(p, s)
    BY <2>0, <2>3, <2>4, RowCommits
  <2>5. CASE Advanced(p, "queue")
    <3>1. /\ Holds' /\ Searched' /\ KeyOnce'
          /\ \A q \in Procs \ {p} : disp'[q].pc \notin Locked
      BY <2>0, <2>5, RowAdvances DEF Stamped, Locked
    <3>2. routine.policy # "always_enqueue" => \A r \in Runs : issue[r] # "live"
      BY <2>0 DEF RowInv, Clear
    <3>3. Clear'
      BY <1>0, <2>2, <3>1, <3>2 DEF Clear, Locked
    <3> QED
      BY <2>3, <3>1, <3>3
  <2> QED
    BY <1>6, <2>4, <2>5 DEF Create
<1>7. CASE Queue(p)
  <2>0. disp[p].pc \in Stamped /\ disp[p].pc = "queue"
    BY <1>7 DEF Queue, Stamped, Locked
  <2>1. routine.policy # "always_enqueue" => \A r \in Runs : issue[r] # "live"
    BY <2>0 DEF RowInv, Clear
  <2>2. \A r \in Runs : issue'[r] = "live" => issue[r] = "live" \/ r = disp[p].run
    BY <1>0, <1>7 DEF Queue
  <2>3. OneExecution'
    BY <1>0, <2>1, <2>2 DEF OneExecution
  <2>4. CASE \E s : Commit(p, s)
    BY <2>0, <2>3, <2>4, RowCommits
  <2>5. CASE Advanced(p, "finalize")
    <3>1. /\ Holds' /\ Searched' /\ KeyOnce'
          /\ \A q \in Procs \ {p} : disp'[q].pc \notin Locked
      BY <2>0, <2>5, RowAdvances DEF Stamped, Locked
    <3>2. disp'[p].pc = "finalize"
      BY <1>0, <2>5 DEF Advanced, Dispatches
    <3>3. Clear'
      BY <3>1, <3>2 DEF Clear, Locked
    <3> QED
      BY <2>3, <3>1, <3>3
  <2> QED
    BY <1>7, <2>4, <2>5 DEF Queue
<1> QED
  BY <1>1, <1>2, <1>3, <1>4, <1>5, <1>6, <1>7 DEF Dispatch

LEMMA RowOther ==
  ASSUME RowInv,
         \/ \E p \in Passes : PassStep(p)
         \/ \E c \in Callers : Call(c)
         \/ \E r \in Runs : ExecutionEnds(r) \/ Wake(r) \/ CloseIssue(r)
         \/ Edit \/ Tick \/ Crash \/ UNCHANGED vars
  PROVE  Holds' /\ Searched' /\ Clear' /\ OneExecution' /\ KeyOnce'
<1>0. /\ disp \in [Procs -> Dispatches] /\ run \in [Runs -> RunRows]
      /\ issue \in [Runs -> {"none", "idle", "live", "woken", "closed"}]
  BY DEF RowInv, TypeOK, Dispatches, RunRows
\* Dispatches that begin, or do nothing.
<1>1. CASE /\ UNCHANGED <<routine, lock, run, issue>>
           /\ \E p \in Procs : /\ \A q \in Procs \ {p} : disp'[q] = disp[q]
                              /\ disp[p].pc \notin Locked /\ disp'[p].pc \notin Locked
  BY <1>1 DEF RowInv, Holds, Searched, Clear, OneExecution, KeyOnce, Made, Locked, Stamped
<1>2. CASE UNCHANGED <<routine, lock, run, issue, disp>>
  BY <1>2 DEF RowInv, Holds, Searched, Clear, OneExecution, KeyOnce, Made
<1>3. CASE \E r \in Runs : ExecutionEnds(r) \/ Wake(r) \/ CloseIssue(r)
  <2>1. PICK r \in Runs : ExecutionEnds(r) \/ Wake(r) \/ CloseIssue(r)
    BY <1>3
  <2>2. UNCHANGED <<routine, lock, disp>>
    BY <2>1 DEF ExecutionEnds, Wake, CloseIssue
  <2>3. \A s \in Runs : issue'[s] = "live" => issue[s] = "live"
    BY <1>0, <2>1 DEF ExecutionEnds, Wake, CloseIssue
  <2>4. \A s \in Runs : run'[s].key = run[s].key /\ run'[s].trigger = run[s].trigger
                        /\ (run'[s].status = "none" <=> run[s].status = "none")
    BY <1>0, <2>1 DEF ExecutionEnds, Wake, CloseIssue, RunRows
  <2> QED
    BY <2>2, <2>3, <2>4 DEF RowInv, Holds, Searched, Clear, OneExecution, KeyOnce, Made
<1>4. CASE Crash
  <2>1. \A q \in Procs : disp'[q].pc \notin Locked
    <3>1. \A q \in Procs : Ended(q).pc \notin Locked /\ "none" \notin Locked
      BY DEF Ended, NoDispatch, Locked
    <3> QED
      BY <1>4, <3>1 DEF Crash
  <2>2. lock' = None /\ UNCHANGED <<routine, run, issue>>
    BY <1>4 DEF Crash
  <2> QED
    BY <2>1, <2>2, Nobody
       DEF RowInv, Holds, Searched, Clear, OneExecution, KeyOnce, Locked, Stamped
<1>5. CASE \E p \in Passes : PassStep(p)
  <2>1. PICK p \in Passes : PassStep(p)
    BY <1>5
  <2>2. UNCHANGED <<routine, lock, run, issue>> /\ p \in Procs
    BY <2>1 DEF PassStep, ReadDue, Claim, NextDispatch, Procs
  <2>3. CASE UNCHANGED disp
    BY <2>2, <2>3, <1>2
  <2>4. CASE disp[p].pc = "none"
             /\ disp' = [disp EXCEPT ![p] = [NoDispatch EXCEPT !.pc = "begin", !.trigger = TRUE]]
    <3>1. disp'[p].pc = "begin" /\ \A q \in Procs \ {p} : disp'[q] = disp[q]
      BY <1>0, <2>2, <2>4 DEF NoDispatch
    <3> QED
      BY <1>1, <2>2, <2>4, <3>1 DEF Locked
  <2> QED
    BY <2>1, <2>3, <2>4 DEF PassStep, ReadDue, Claim, NextDispatch
<1>6. CASE \E c \in Callers : Call(c)
  <2>1. PICK c \in Callers : Call(c)
    BY <1>6
  <2>2. UNCHANGED <<routine, lock, run, issue>> /\ c \in Procs /\ disp[c].pc = "none"
    BY <2>1 DEF Call, Procs
  <2>3. disp'[c].pc = "begin" /\ \A q \in Procs \ {c} : disp'[q] = disp[q]
    BY <1>0, <2>1, <2>2 DEF Call, NoDispatch
  <2> QED
    BY <1>1, <2>2, <2>3 DEF Locked
<1>7. CASE Edit \/ Tick \/ UNCHANGED vars
  <2>1. UNCHANGED <<routine, lock, run, issue, disp>>
    BY <1>7 DEF Edit, Tick, vars
  <2> QED
    BY <1>2, <2>1
<1> QED
  BY <1>3, <1>4, <1>5, <1>6, <1>7

LEMMA RowKept == Spec => []RowInv
<1>1. Init => Holds /\ Searched /\ Clear /\ OneExecution /\ KeyOnce
  BY Nobody DEF Init, Holds, Searched, Clear, OneExecution, KeyOnce, NoDispatch, NoRun, Locked,
                Stamped
<1>2. ASSUME RowInv, [Next]_vars
      PROVE  Holds' /\ Searched' /\ Clear' /\ OneExecution' /\ KeyOnce'
  BY <1>2, RowDispatch, RowOther DEF Next
<1>3. TypeOK' /\ RowInv /\ [Next]_vars => RowInv'
  BY <1>2 DEF RowInv
<1>4. Init /\ TypeOK => RowInv
  BY <1>1 DEF RowInv
<1> QED
  BY <1>3, <1>4, TypeCorrect, PTL DEF Spec

\* For any number of passes and calls, with restarts: a routine that does not
\* enqueue always never has two executions started by its dispatches at once
\* (dispatchRoutineRun holds the routine's row until the intent is queued).
THEOREM OneAtOnce == Spec => []OneExecution
<1>1. RowInv => OneExecution
  BY DEF RowInv
<1> QED
  BY <1>1, RowKept, PTL

\* Calls that repeat an idempotency key make one run, for any number of calls
\* and restarts (dispatchRoutineRun looks the key up under the routine's row).
THEOREM KeysOnce == Spec => []KeyOnce
<1>1. RowInv => KeyOnce
  BY DEF RowInv
<1> QED
  BY <1>1, RowKept, PTL

-----------------------------------------------------------------------------
(* Occurrences.  nextRunAt has three kinds of writers, and only the claims      *)
(* compare it.  As long as transactions and edits do not outlast an occurrence, *)
(* all of them write an occurrence that nobody has claimed yet.                 *)

Orderly == "slow" \notin Features

Unfired == \A s \in Slots : s >= nextRunAt => fired[s] = 0

OccurrenceInv ==
    /\ TypeOK
    /\ PassInv
    /\ nextRunAt <= clock + 1
    /\ Unfired
    /\ OccurrenceOnce
    /\ \A p \in Procs : disp[p].pc \in Stamped => disp[p].at = clock
    /\ \A p \in Passes : pass[p].pc = "claim" => pass[p].now <= clock

\* A write of the occurrence after the clock never brings one back.
LEMMA LaterWrites ==
  ASSUME OccurrenceInv, nextRunAt' = clock + 1, UNCHANGED <<clock, fired>>
  PROVE  nextRunAt' <= clock' + 1 /\ Unfired' /\ OccurrenceOnce'
<1>1. clock \in Nat /\ nextRunAt \in Nat /\ nextRunAt <= clock + 1
  BY ConstantsAssumption DEF OccurrenceInv, TypeOK, ConstantsAssumption
<1>2. \A s \in Slots : s \in Int
  BY ConstantsAssumption DEF Slots, ConstantsAssumption
<1> QED
  BY <1>1, <1>2 DEF OccurrenceInv, Unfired, OccurrenceOnce

LEMMA OccurrenceDispatch ==
  ASSUME OccurrenceInv, NEW p \in Procs, Dispatch(p)
  PROVE  /\ nextRunAt' <= clock' + 1 /\ Unfired' /\ OccurrenceOnce'
         /\ \A q \in Procs : disp'[q].pc \in Stamped => disp'[q].at = clock'
<1>0. disp \in [Procs -> Dispatches] /\ UNCHANGED <<clock, fired, pass>>
  BY DEF OccurrenceInv, TypeOK, Dispatches, Dispatch, Begin, LockRoutine, Insert, Admit, Find,
         Create, Queue, Finalize, Commit, Advanced
<1>1. /\ \A q \in Procs \ {p} : disp'[q] = disp[q]
      /\ disp'[p].pc \in Stamped => disp'[p].at = clock
  <2>1. CASE Begin(p) \/ LockRoutine(p)
    BY <1>0, <2>1 DEF Begin, LockRoutine, Stamped, Locked, Dispatches
  <2>2. Ended(p).pc \notin Stamped
    BY DEF Ended, NoDispatch, Stamped, Locked
  <2>3. CASE Insert(p)
    BY <1>0, <2>2, <2>3 DEF Insert, Dispatches
  <2>4. CASE Admit(p) \/ Find(p) \/ Create(p) \/ Queue(p) \/ Finalize(p)
    <3>1. disp[p].at = clock
      BY <2>4 DEF OccurrenceInv, Admit, Find, Create, Queue, Finalize, Stamped, Locked
    <3>2. \/ disp' = [disp EXCEPT ![p] = Ended(p)]
          \/ \E pc : disp' = [disp EXCEPT ![p].pc = pc]
      BY <2>4 DEF Admit, Find, Create, Queue, Finalize, Commit, Advanced
    <3> QED
      BY <1>0, <2>2, <3>1, <3>2 DEF Dispatches
  <2> QED
    BY <2>1, <2>3, <2>4 DEF Dispatch
<1>2. UNCHANGED nextRunAt \/ nextRunAt' = clock + 1
  <2>1. CASE Begin(p) \/ LockRoutine(p) \/ Insert(p)
    BY <2>1 DEF Begin, LockRoutine, Insert
  <2>2. CASE Admit(p) \/ Find(p) \/ Create(p) \/ Queue(p) \/ Finalize(p)
    <3>1. disp[p].at = clock
      BY <2>2 DEF OccurrenceInv, Admit, Find, Create, Queue, Finalize, Stamped, Locked
    <3> QED
      BY <2>2, <3>1 DEF Admit, Find, Create, Queue, Finalize, Commit, Advanced, NextTick
  <2> QED
    BY <2>1, <2>2 DEF Dispatch
<1>3. nextRunAt' <= clock' + 1 /\ Unfired' /\ OccurrenceOnce'
  BY <1>0, <1>2, LaterWrites DEF OccurrenceInv, Unfired, OccurrenceOnce
<1> QED
  BY <1>0, <1>1, <1>3 DEF OccurrenceInv

LEMMA OccurrenceClaim ==
  ASSUME OccurrenceInv, NEW p \in Passes, Claim(p)
  PROVE  nextRunAt' <= clock' + 1 /\ Unfired' /\ OccurrenceOnce'
<1>1. CASE Claimable(p)
  <2> DEFINE d == pass[p].due
             n == pass[p].now
             c == pass[p].left
  <2>1. n \in 0..clock /\ d \in 1..n /\ c = RunCount(d, n) /\ nextRunAt = d
    BY <1>1 DEF OccurrenceInv, PassInv, TypeOK, Claim, Claimable
  <2>2. clock \in 0..MaxClock /\ fired \in [Slots -> Nat] /\ UNCHANGED clock
    BY DEF OccurrenceInv, TypeOK, Claim
  <2>3. c \in 1..Cap /\ ClaimedNext(d, n) \in (d + c)..(n + 1)
    BY <2>1, <2>2, Counts, ConstantsAssumption DEF ConstantsAssumption
  <2>4. /\ nextRunAt' = ClaimedNext(d, n)
        /\ fired' = [s \in Slots |-> IF s \in d..(d + c - 1) THEN fired[s] + 1 ELSE fired[s]]
    BY <1>1 DEF Claim
  <2>5. \A s \in Slots : s \in Nat /\ fired[s] <= 1 /\ (s >= d => fired[s] = 0)
    BY <2>1, ConstantsAssumption
       DEF OccurrenceInv, Unfired, OccurrenceOnce, Slots, ConstantsAssumption
  <2>6. \A s \in Slots : fired'[s] = IF s \in d..(d + c - 1) THEN fired[s] + 1 ELSE fired[s]
    BY <2>4
  <2> HIDE DEF d, n, c
  <2>7. nextRunAt' <= clock' + 1
    BY <2>1, <2>2, <2>3, <2>4, ConstantsAssumption DEF ConstantsAssumption
  <2>8. Cap \in Nat /\ clock \in Nat
    BY <2>2, ConstantsAssumption DEF ConstantsAssumption
  <2>9. \A s \in Slots : s >= nextRunAt' => fired'[s] = 0
    BY <2>1, <2>3, <2>4, <2>5, <2>6, <2>8
  <2>10. \A s \in Slots : fired'[s] <= 1
    BY <2>1, <2>2, <2>3, <2>5, <2>6, <2>8
  <2> QED
    BY <2>7, <2>9, <2>10 DEF Unfired, OccurrenceOnce
<1>2. CASE ~Claimable(p)
  BY <1>2 DEF Claim, OccurrenceInv, Unfired, OccurrenceOnce
<1> QED
  BY <1>1, <1>2

LEMMA OccurrenceNext ==
  ASSUME Orderly, OccurrenceInv, TypeOK', PassInv', [Next]_vars
  PROVE  OccurrenceInv'
<1>0. disp \in [Procs -> Dispatches] /\ pass \in [Passes -> PassStates]
  BY DEF OccurrenceInv, TypeOK, Dispatches, PassStates
<1>1. CASE \E p \in Procs : Dispatch(p)
  <2>1. UNCHANGED <<pass, clock>>
    BY <1>1 DEF Dispatch, Begin, LockRoutine, Insert, Admit, Find, Create, Queue, Finalize,
                Commit, Advanced
  <2> QED
    BY <1>1, <2>1, OccurrenceDispatch DEF OccurrenceInv
<1>2. CASE \E p \in Passes : Claim(p)
  <2>1. PICK p \in Passes : Claim(p)
    BY <1>2
  <2>2. UNCHANGED <<disp, clock>> /\ pass'[p].pc # "claim"
        /\ \A o \in Passes \ {p} : pass'[o] = pass[o]
    <3> DEFINE x == [IdlePass EXCEPT !.pc = "dispatch", !.left = pass[p].left]
    <3>1. x.pc # "claim" /\ IdlePass.pc # "claim"
      BY DEF IdlePass
    <3>2. pass' = [pass EXCEPT ![p] = x] \/ pass' = [pass EXCEPT ![p] = IdlePass]
      BY <2>1 DEF Claim
    <3>3. UNCHANGED <<disp, clock>>
      BY <2>1 DEF Claim
    <3> HIDE DEF x
    <3> QED
      BY <1>0, <3>1, <3>2, <3>3
  <2>3. \A o \in Passes : pass'[o].pc = "claim" => pass'[o].now <= clock'
    BY <2>2 DEF OccurrenceInv
  <2>4. \A q \in Procs : disp'[q].pc \in Stamped => disp'[q].at = clock'
    BY <2>2 DEF OccurrenceInv
  <2>5. nextRunAt' <= clock' + 1 /\ Unfired' /\ OccurrenceOnce'
    BY <2>1, OccurrenceClaim
  <2> QED
    BY <2>3, <2>4, <2>5 DEF OccurrenceInv
<1>3. CASE \E p \in Passes : ReadDue(p) \/ NextDispatch(p)
  <2>1. PICK p \in Passes : ReadDue(p) \/ NextDispatch(p)
    BY <1>3
  <2>2. UNCHANGED <<clock, nextRunAt, fired>>
        /\ \A o \in Passes \ {p} : pass'[o] = pass[o]
    BY <1>0, <2>1 DEF ReadDue, NextDispatch
  <2>3. pass'[p].pc = "claim" => pass'[p].now <= clock'
    BY <1>0, <2>1 DEF ReadDue, NextDispatch, IdlePass, OccurrenceInv, TypeOK
  <2>4. \A q \in Procs : disp'[q].pc \in Stamped => disp'[q] = disp[q]
    BY <1>0, <2>1 DEF ReadDue, NextDispatch, NoDispatch, Stamped, Locked, Procs
  <2> QED
    BY <2>2, <2>3, <2>4 DEF OccurrenceInv, Unfired, OccurrenceOnce
<1>4. CASE \E c \in Callers : Call(c)
  <2>1. UNCHANGED <<clock, nextRunAt, fired, pass>>
    BY <1>4 DEF Call
  <2>2. \A q \in Procs : disp'[q].pc \in Stamped => disp'[q] = disp[q]
    BY <1>0, <1>4 DEF Call, NoDispatch, Stamped, Locked, Procs
  <2> QED
    BY <2>1, <2>2 DEF OccurrenceInv, Unfired, OccurrenceOnce
<1>5. CASE \/ \E r \in Runs : ExecutionEnds(r) \/ Wake(r) \/ CloseIssue(r)
           \/ UNCHANGED vars
  <2>1. UNCHANGED <<clock, nextRunAt, fired, pass, disp>>
    BY <1>5 DEF ExecutionEnds, Wake, CloseIssue, vars
  <2> QED
    BY <2>1 DEF OccurrenceInv, Unfired, OccurrenceOnce
<1>6. CASE Edit
  <2>1. nextRunAt' = clock + 1 /\ UNCHANGED <<clock, fired, pass, disp>>
    BY <1>6 DEF Edit, Orderly, NextTick
  <2> QED
    BY <2>1, LaterWrites DEF OccurrenceInv
<1>7. CASE Tick
  <2>1. /\ UNCHANGED <<nextRunAt, fired, pass, disp>> /\ clock' = clock + 1
        /\ \A p \in Procs : disp[p].pc \notin Stamped
    BY <1>7 DEF Tick, Orderly, Timely
  <2>2. clock \in Nat /\ nextRunAt \in Nat /\ \A p \in Passes : pass[p].now \in Nat
    BY <1>0, ConstantsAssumption
       DEF OccurrenceInv, TypeOK, PassStates, ConstantsAssumption
  <2>3. nextRunAt' <= clock' + 1 /\ \A p \in Passes : pass[p].pc = "claim" => pass[p].now <= clock'
    BY <2>1, <2>2 DEF OccurrenceInv
  <2> QED
    BY <2>1, <2>3 DEF OccurrenceInv, Unfired, OccurrenceOnce
<1>8. CASE Crash
  <2>1. UNCHANGED <<clock, nextRunAt, fired>> /\ \A p \in Passes : pass'[p].pc = "idle"
    BY <1>8 DEF Crash, IdlePass
  <2>2. \A q \in Procs : disp'[q].pc \notin Stamped
    <3>1. \A q \in Procs : Ended(q).pc \notin Stamped /\ "none" \notin Stamped
      BY DEF Ended, NoDispatch, Stamped, Locked
    <3> QED
      BY <1>8, <3>1 DEF Crash
  <2> QED
    BY <2>1, <2>2 DEF OccurrenceInv, Unfired, OccurrenceOnce
<1> QED
  BY <1>1, <1>2, <1>3, <1>4, <1>5, <1>6, <1>7, <1>8 DEF Next, PassStep

\* However many passes overlap, and whatever calls and edits write to the trigger
\* meanwhile, an occurrence is dispatched at most once, as long as no transaction
\* and no edit outlasts an occurrence (tickScheduledTriggers,
\* updateRoutineTouchedState, updateTrigger).
THEOREM OccurrencesOnce ==
  ASSUME Orderly
  PROVE  Spec => []OccurrenceOnce
<1>1. Init => OccurrenceInv
  <2> SUFFICES ASSUME Init PROVE OccurrenceInv
    OBVIOUS
  <2>1. TypeOK /\ PassInv
    BY TypeInit
  <2> QED
    BY <2>1
       DEF Init, OccurrenceInv, Unfired, OccurrenceOnce, NoDispatch, IdlePass, Stamped, Locked
<1>2. OccurrenceInv /\ [Next]_vars => OccurrenceInv'
  BY OccurrenceNext, TypeNext DEF OccurrenceInv
<1>3. OccurrenceInv => OccurrenceOnce
  BY DEF OccurrenceInv
<1> QED
  BY <1>1, <1>2, <1>3, PTL DEF Spec
=============================================================================
