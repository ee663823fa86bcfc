------------------------- MODULE IssueCheckout_proofs -------------------------
(* Theorems about the two locks of an issue. *)
EXTENDS IssueCheckout, TLAPS

-----------------------------------------------------------------------------
(* Type correctness. *)

Rows == [status : Statuses, assignee : Agents \cup {None},
         checkout : Runs \cup {None}, execution : Runs \cup {None}]

LEMMA RowChanges ==
  ASSUME issue \in Rows
  PROVE  /\ \A r \in Runs \cup {None} : [issue EXCEPT !.execution = r] \in Rows
         /\ \A r \in Runs \cup {None} : [issue EXCEPT !.checkout = r, !.execution = r] \in Rows
         /\ Recovered \in Rows
         /\ [issue EXCEPT !.status = "todo", !.assignee = None, !.checkout = None] \in Rows
BY DEF Rows, Recovered, Statuses

LEMMA RequestChanges ==
  ASSUME NEW q \in Requests, req \in [Requests -> Request]
  PROVE  /\ \A pc \in Steps : GoTo(q, pc) => req' \in [Requests -> Request]
         /\ Proceed(q) => req' \in [Requests -> Request]
         /\ Answer(q) => req' \in [Requests -> Request]
         /\ issue \in Rows /\ Suspect(q) => req' \in [Requests -> Request]
BY DEF GoTo, Proceed, Answer, Suspect, Idle, Request, Steps, Ops, Rows

LEMMA TypeRequest ==
  ASSUME TypeOK, NEW q \in Requests, NextRequest(q)
  PROVE  TypeOK'
<1> USE CheckoutAssumption DEF CheckoutAssumption
<1>0. issue \in Rows /\ req \in [Requests -> Request]
  BY DEF TypeOK, Rows
<1>1. UNCHANGED <<run, others>>
  BY DEF NextRequest, Checkout, Ask, Patch, Reread, TakeFree, CheckStale, Adopt, AssertOwner, ReadRow, Release
<1>2. issue' \in Rows
  <2>1. CASE \E r \in Askers, a \in Agents, statuses \in Expected : Checkout(q, a, r, statuses)
    BY <2>1, <1>0 DEF Checkout, Rows, Statuses, Askers
  <2>2. CASE TakeFree(q) \/ Adopt(q)
    <3>1. req[q].run \in Runs \cup {None}
      BY <1>0 DEF Request
    <3> QED
      BY <2>2, <3>1, <1>0, RowChanges DEF TakeFree, Adopt, Taken
  <2>3. CASE \E s \in Statuses \cup {Keep}, b \in Agents \cup {None, Keep} : Patch(q, s, b)
    <3>1. PICK s \in Statuses \cup {Keep}, b \in Agents \cup {None, Keep} : Patch(q, s, b)
      BY <2>3
    <3>2. \A s2 \in Statuses, a2 \in Agents \cup {None}, c \in Runs \cup {None} :
             [issue EXCEPT !.status = s2, !.assignee = a2, !.checkout = c] \in Rows
      BY <1>0 DEF Rows
    <3>3. /\ (IF s = Keep THEN issue.status ELSE s) \in Statuses
          /\ (IF b = Keep THEN issue.assignee ELSE b) \in Agents \cup {None}
          /\ issue.checkout \in Runs \cup {None}
      BY <1>0 DEF Rows
    <3> QED
      BY <3>1, <3>2, <3>3 DEF Patch, Patched
  <2>4. CASE Release(q)
    BY <2>4, <1>0, RowChanges DEF Release
  <2>5. CASE \/ \E r \in Askers, a \in Agents \cup {None}, op \in {"patch", "release"} : Ask(q, a, r, op)
             \/ Reread(q) \/ CheckStale(q) \/ AssertOwner(q) \/ ReadRow(q)
    BY <2>5, <1>0 DEF Ask, Reread, CheckStale, AssertOwner, ReadRow
  <2> QED
    BY <2>1, <2>2, <2>3, <2>4, <2>5 DEF NextRequest
<1>3. req' \in [Requests -> Request]
  <2>0. {"idle", "reread", "free", "owner", "stale", "adopt", "read", "write"} \subseteq Steps
    BY DEF Steps
  <2>1. CASE \E r \in Askers, a \in Agents, statuses \in Expected : Checkout(q, a, r, statuses)
    <3>1. PICK r \in Askers, a \in Agents, statuses \in Expected : Checkout(q, a, r, statuses)
      BY <2>1
    <3> DEFINE x == [Idle EXCEPT !.pc = "reread", !.op = "checkout", !.run = r, !.agent = a]
    <3>2. x \in Request
      BY DEF Idle, Request, Steps, Ops, Askers
    <3>3. req' = req \/ req' = [req EXCEPT ![q] = x]
      BY <3>1 DEF Checkout
    <3> QED
      BY <3>2, <3>3, <1>0
  <2>2. CASE \E r \in Askers, a \in Agents \cup {None}, op \in {"patch", "release"} : Ask(q, a, r, op)
    BY <2>2, <1>0 DEF Ask, Request, Steps, Ops, Askers
  <2>3. CASE ReadRow(q)
    <3>1. CASE Answer(q)
      BY <3>1, <1>0, RequestChanges
    <3>2. CASE ~Answer(q)
      <4> DEFINE x == [Idle EXCEPT !.pc = "write", !.op = req[q].op,
                                   !.seen = IF req[q].op = "patch" THEN issue.assignee ELSE None]
      <4>1. req' = [req EXCEPT ![q] = x]
        BY <2>3, <3>2 DEF ReadRow
      <4>2. req[q].op \in Ops /\ issue.assignee \in Agents \cup {None}
        BY <1>0 DEF Request, Rows
      <4>3. x \in Request
        BY <4>2 DEF Idle, Request, Steps
      <4> QED
        BY <4>1, <4>3, <1>0 DEF x
    <3> QED
      BY <3>1, <3>2
  <2>4. CASE Reread(q) \/ CheckStale(q) \/ AssertOwner(q)
    <3>1. \/ \E pc \in {"free", "adopt"} : GoTo(q, pc)
          \/ Proceed(q) \/ Answer(q) \/ Suspect(q)
      BY <2>4 DEF Reread, CheckStale, AssertOwner
    <3> QED
      BY <3>1, <2>0, <1>0, RequestChanges
  <2>5. CASE \/ TakeFree(q) \/ Adopt(q) \/ Release(q)
             \/ \E s \in Statuses \cup {Keep}, b \in Agents \cup {None, Keep} : Patch(q, s, b)
    BY <2>5, <1>0, RequestChanges DEF TakeFree, Adopt, Release, Patch
  <2> QED
    BY <2>1, <2>2, <2>3, <2>4, <2>5 DEF NextRequest
<1> QED
  BY <1>1, <1>2, <1>3 DEF TypeOK, Rows, others, sweeps

LEMMA TypeRun ==
  ASSUME TypeOK, NEW r \in Runs, NextRun(r)
  PROVE  TypeOK'
<1>0. issue \in Rows
  BY DEF TypeOK, Rows
<1>1. UNCHANGED <<req, ghost, paused>> /\ reaping' \in Runs \cup {None}
      /\ lease' \in {"none", "active"}
      /\ unblock' \in Sweep /\ quiesce' \in Sweep
  BY DEF NextRun, Start, Wake, End, ReleaseExecution, ReapRun, RecoverForRun, CancelUnblocked,
         CancelQuiesced, others, sweeps, TypeOK, Sweep
<1>2. run' \in [Runs -> {"waiting", "active", "ended"}]
  BY DEF NextRun, Start, Wake, End, ReleaseExecution, ReapRun, RecoverForRun, CancelUnblocked,
         CancelQuiesced, Activate, TypeOK
<1>3. issue' \in Rows
  <2>1. \A n \in LinkedActive : n \in Runs
    BY CheckoutAssumption DEF LinkedActive, CheckoutAssumption
  <2>2. \A n \in Linked : n \in Runs
    BY CheckoutAssumption DEF CheckoutAssumption
  <2> QED
    BY <1>0, <2>1, <2>2, RowChanges
       DEF NextRun, Start, Wake, End, ReleaseExecution, ReapRun, RecoverForRun, CancelUnblocked,
           CancelQuiesced
<1> QED
  BY <1>1, <1>2, <1>3 DEF TypeOK, Rows

LEMMA TypeRepair ==
  ASSUME TypeOK,
         LeaseEnds \/ Converge \/ ReapLock \/ FindGhost \/ ClearGhost \/ ReadUnblock \/ ClearUnblocked
         \/ Pause \/ ClearQuiesced \/ Resume
  PROVE  TypeOK'
<1>0. issue \in Rows
  BY DEF TypeOK, Rows
<1>1. /\ UNCHANGED <<run, req>> /\ ghost' \in BOOLEAN /\ paused' \in BOOLEAN
      /\ lease' \in {"none", "active"}
  BY DEF LeaseEnds, Converge, ReapLock, FindGhost, ClearGhost, ReadUnblock, ClearUnblocked, Pause,
         ClearQuiesced, Resume, others, sweeps, TypeOK
<1>2. reaping' \in Runs \cup {None} /\ unblock' \in Sweep /\ quiesce' \in Sweep
  BY CheckoutAssumption
     DEF LeaseEnds, Converge, ReapLock, FindGhost, ClearGhost, ReadUnblock, ClearUnblocked, Pause,
         ClearQuiesced, Resume, others, sweeps, TypeOK, Sweep, Still, CheckoutAssumption, Active
<1>3. issue' \in Rows
  <2>1. \A n \in LinkedActive : n \in Runs
    BY CheckoutAssumption DEF LinkedActive, CheckoutAssumption
  <2> QED
    BY <1>0, <2>1, RowChanges
       DEF LeaseEnds, Converge, ReapLock, FindGhost, ClearGhost, ReadUnblock, ClearUnblocked, Pause,
           ClearQuiesced, Resume
<1> QED
  BY <1>1, <1>2, <1>3 DEF TypeOK, Rows

LEMMA TypeInit == Init => TypeOK
<1>0. None \in Agents \cup {None} /\ None \in Runs \cup {None} /\ "todo" \in Statuses
  BY DEF Statuses
<1>1. Idle \in Request /\ Still \in Sweep
  BY DEF Idle, Request, Steps, Ops, Still, Sweep
<1> QED
  <2> SUFFICES ASSUME Init PROVE TypeOK
    OBVIOUS
  <2>1. issue \in Rows
    BY <1>0 DEF Init, Rows
  <2>2. run \in [Runs -> {"waiting", "active", "ended"}] /\ req \in [Requests -> Request]
    BY <1>1 DEF Init
  <2>3. ghost \in BOOLEAN /\ paused \in BOOLEAN
    BY DEF Init
  <2> QED
    BY <1>0, <1>1, <2>1, <2>2, <2>3 DEF Init, TypeOK, Rows

\* The row, the runs and the requests stay well formed.
THEOREM TypeCorrect == Spec => []TypeOK
<1>1. Init => TypeOK
  BY TypeInit
<1>2. TypeOK /\ [Next]_vars => TypeOK'
  <2>1. TypeOK /\ UNCHANGED vars => TypeOK'
    BY DEF TypeOK, vars, others, sweeps
  <2> QED
    BY <2>1, TypeRequest, TypeRun, TypeRepair DEF Next
<1> QED
  BY <1>1, <1>2, PTL DEF Spec

-----------------------------------------------------------------------------
(* Whoever moves the issue on takes the checkout from it. *)

LEMMA ProgressStep ==
  ASSUME TypeOK, CheckoutMeansInProgress, [Next]_vars
  PROVE  CheckoutMeansInProgress'
<1> USE DEF CheckoutMeansInProgress
<1>0. issue \in Rows
  BY DEF TypeOK, Rows
<1>1. ASSUME NEW q \in Requests, NextRequest(q) PROVE CheckoutMeansInProgress'
  <2>1. CASE \E r \in Askers, a \in Agents, statuses \in Expected : Checkout(q, a, r, statuses)
    BY <2>1 DEF Checkout
  <2>2. CASE TakeFree(q) \/ Adopt(q)
    BY <2>2, <1>0 DEF TakeFree, Adopt, Taken, Adoptable, Holds, Rows
  <2>3. CASE \E s \in Statuses \cup {Keep}, b \in Agents \cup {None, Keep} : Patch(q, s, b)
    <3>1. PICK s \in Statuses \cup {Keep}, b \in Agents \cup {None, Keep} : issue' = Patched(q, s, b)
      BY <2>3 DEF Patch
    <3>2. CASE issue'.checkout = issue.checkout
      <4>1. issue.checkout # None => s \in {Keep, "in_progress"} \/ issue'.status = issue.status
        BY <1>0, <3>1, <3>2 DEF Patched, Rows
      <4>2. s \in {Keep, "in_progress"} => issue'.status \in {issue.status, "in_progress"}
        BY <1>0, <3>1 DEF Patched, Rows
      <4> QED
        BY <3>2, <4>1, <4>2
    <3>3. CASE issue'.checkout = None
      BY <3>3
    <3>4. issue'.checkout \in {issue.checkout, None}
      BY <1>0, <3>1 DEF Patched, Rows
    <3> QED
      BY <3>2, <3>3, <3>4
  <2>4. CASE Release(q)
    BY <2>4, <1>0 DEF Release, Rows
  <2>5. CASE \/ \E r \in Askers, a \in Agents \cup {None}, op \in {"patch", "release"} : Ask(q, a, r, op)
             \/ Reread(q) \/ CheckStale(q) \/ AssertOwner(q) \/ ReadRow(q)
    BY <2>5 DEF Ask, Reread, CheckStale, AssertOwner, ReadRow
  <2> QED
    BY <1>1, <2>1, <2>2, <2>3, <2>4, <2>5 DEF NextRequest
<1>2. ASSUME NEW r \in Runs, NextRun(r) PROVE CheckoutMeansInProgress'
  BY <1>0, <1>2 DEF NextRun, Start, Wake, End, ReleaseExecution, ReapRun, RecoverForRun,
                    CancelUnblocked, CancelQuiesced, Recovered, Rows
<1>3. ASSUME LeaseEnds \/ Converge \/ ReapLock \/ FindGhost \/ ClearGhost \/ ReadUnblock \/ ClearUnblocked
             \/ Pause \/ ClearQuiesced \/ Resume
      PROVE  CheckoutMeansInProgress'
  BY <1>0, <1>3 DEF LeaseEnds, Converge, ReapLock, FindGhost, ClearGhost, ReadUnblock, ClearUnblocked,
                    Pause, ClearQuiesced, Resume, Recovered, Rows
<1> QED
  BY <1>1, <1>2, <1>3 DEF Next, vars, others, sweeps

\* Only an issue in progress is checked out, whatever the requests have read before.
THEOREM InProgress == Spec => []CheckoutMeansInProgress
<1>1. Init => CheckoutMeansInProgress
  BY DEF Init, CheckoutMeansInProgress
<1> QED
  BY <1>1, ProgressStep, TypeCorrect, PTL DEF Spec

-----------------------------------------------------------------------------
(* The checkout of an active run and the execution lock.                    *)
(*                                                                          *)
(* The lock follows the checkout as long as two things stay away: a reaper  *)
(* that clears a lock it read before, and a pause whose cancellations meet  *)
(* the runs of a company that is working again.                             *)

Orderly == "reap" \notin Features /\ "resume" \notin Features

\* Who asks has been started, who is suspected is a run, who is adopted from has ended.
RequestInv ==
  \A q \in Requests :
    /\ req[q].run # None => run[req[q].run] # "waiting"
    /\ req[q].pc \in {"stale", "adopt"} => req[q].seen \in Runs
    /\ req[q].pc = "adopt" => run[req[q].seen] = "ended"

\* A pause that is not over keeps the company paused and has every active run on its list.
QuiesceInv ==
  quiesce.pc = "cancel" => paused /\ \A r \in Runs : run[r] = "active" => r \in quiesce.runs

LockInv ==
  /\ TypeOK /\ RequestInv /\ QuiesceInv
  /\ reaping = None
  /\ issue.checkout # None => run[issue.checkout] # "waiting"
  /\ CheckoutHoldsExecution

\* Runs start and end, and never the other way.
Forward ==
  \A r \in Runs : /\ run[r] # "waiting" => run'[r] # "waiting"
                  /\ run[r] = "ended" => run'[r] = "ended"
                  /\ run'[r] = "active" => run[r] \in {"waiting", "active"}

LEMMA RunsForward ==
  ASSUME TypeOK, [Next]_vars
  PROVE  Forward
<1> USE DEF TypeOK, Forward
<1>1. UNCHANGED run => Forward
  OBVIOUS
<1>2. ASSUME NEW q \in Requests, NextRequest(q) PROVE UNCHANGED run
  BY <1>2 DEF NextRequest, Checkout, Ask, Patch, Reread, TakeFree, CheckStale, Adopt, AssertOwner,
              ReadRow, Release
<1>3. ASSUME NEW r \in Runs, NextRun(r) PROVE Forward
  BY <1>3 DEF NextRun, Start, Wake, End, ReleaseExecution, ReapRun, RecoverForRun, CancelUnblocked,
              CancelQuiesced, Activate
<1>4. ASSUME LeaseEnds \/ Converge \/ ReapLock \/ FindGhost \/ ClearGhost \/ ReadUnblock \/ ClearUnblocked
             \/ Pause \/ ClearQuiesced \/ Resume
      PROVE  UNCHANGED run
  BY <1>4 DEF LeaseEnds, Converge, ReapLock, FindGhost, ClearGhost, ReadUnblock, ClearUnblocked, Pause,
              ClearQuiesced, Resume
<1> QED
  BY <1>1, <1>2, <1>3, <1>4 DEF Next, vars, others, sweeps

LEMMA RequestInvStep ==
  ASSUME LockInv, [Next]_vars
  PROVE  RequestInv'
<1>0. TypeOK /\ RequestInv /\ Forward /\ issue \in Rows /\ req \in [Requests -> Request]
      /\ run \in [Runs -> {"waiting", "active", "ended"}]
  BY RunsForward DEF LockInv, TypeOK, Rows
<1>1. ASSUME UNCHANGED req PROVE RequestInv'
  BY <1>0, <1>1 DEF RequestInv, Forward, Request
<1>2. ASSUME NEW q \in Requests, NextRequest(q) PROVE RequestInv'
  <2>0. UNCHANGED run
    BY <1>2 DEF NextRequest, Checkout, Ask, Patch, Reread, TakeFree, CheckStale, Adopt, AssertOwner,
                ReadRow, Release
  <2>1. SUFFICES ASSUME ~UNCHANGED req
                 PROVE  /\ \A p \in Requests : p # q => req'[p] = req[p]
                        /\ req'[q].run # None => run[req'[q].run] # "waiting"
                        /\ req'[q].pc \in {"stale", "adopt"} => req'[q].seen \in Runs
                        /\ req'[q].pc = "adopt" => run[req'[q].seen] = "ended"
    BY <1>0, <1>1, <2>0 DEF RequestInv
  <2>2. CASE Answer(q) \/ Proceed(q) \/ GoTo(q, "free")
    BY <2>2, <1>0 DEF Answer, Proceed, GoTo, Idle, RequestInv, Request
  <2>3. CASE Suspect(q) /\ issue.checkout \notin {None, req[q].run}
    BY <2>3, <1>0 DEF Suspect, RequestInv, Request, Rows
  <2>4. CASE CheckStale(q)
    BY <2>4, <1>0, <2>2 DEF CheckStale, GoTo, RequestInv, Request
  <2>5. CASE \E r \in Askers, a \in Agents, statuses \in Expected : Checkout(q, a, r, statuses)
    <3>1. PICK r \in Askers, a \in Agents, statuses \in Expected : Checkout(q, a, r, statuses)
      BY <2>5
    <3> DEFINE x == [Idle EXCEPT !.pc = "reread", !.op = "checkout", !.run = r, !.agent = a]
    <3>2. req' = [req EXCEPT ![q] = x]
      BY <3>1, <2>1 DEF Checkout
    <3>3. x.pc = "reread" /\ x.run = r
      BY DEF Idle
    <3>4. r # None => run[r] # "waiting"
      BY <3>1 DEF Checkout, Asker
    <3> QED
      BY <3>2, <3>3, <3>4, <1>0
  <2>6. CASE \E r \in Askers, a \in Agents \cup {None}, op \in {"patch", "release"} : Ask(q, a, r, op)
    <3>1. PICK r \in Askers, a \in Agents \cup {None}, op \in {"patch", "release"} : Ask(q, a, r, op)
      BY <2>6
    <3>2. req'[q].run = r /\ req'[q].pc \in {"owner", "read"} /\ \A p \in Requests : p # q => req'[p] = req[p]
      BY <3>1, <1>0 DEF Ask
    <3>3. r # None => run[r] # "waiting"
      BY <3>1 DEF Ask, Asker
    <3> QED
      BY <3>2, <3>3
  <2>7. CASE ReadRow(q)
    BY <2>7, <1>0, <2>2 DEF ReadRow, Idle
  <2>8. CASE Reread(q) \/ AssertOwner(q)
    BY <2>8, <2>2, <2>3 DEF Reread, AssertOwner, MaybeStale
  <2>9. CASE \/ TakeFree(q) \/ Adopt(q) \/ Release(q)
             \/ \E s \in Statuses \cup {Keep}, b \in Agents \cup {None, Keep} : Patch(q, s, b)
    BY <2>9, <2>2 DEF TakeFree, Adopt, Release, Patch
  <2> QED
    BY <1>2, <2>4, <2>5, <2>6, <2>7, <2>8, <2>9 DEF NextRequest
<1>3. ASSUME NEW r \in Runs, NextRun(r) PROVE UNCHANGED req
  BY <1>3 DEF NextRun, Start, Wake, End, ReleaseExecution, ReapRun, RecoverForRun,
              CancelUnblocked, CancelQuiesced
<1>4. ASSUME LeaseEnds \/ Converge \/ ReapLock \/ FindGhost \/ ClearGhost \/ ReadUnblock \/ ClearUnblocked
             \/ Pause \/ ClearQuiesced \/ Resume
      PROVE  UNCHANGED req
  BY <1>4 DEF LeaseEnds, Converge, ReapLock, FindGhost, ClearGhost, ReadUnblock, ClearUnblocked, Pause,
              ClearQuiesced, Resume
<1> QED
  BY <1>1, <1>2, <1>3, <1>4 DEF Next, vars, others, sweeps

LEMMA QuiesceStep ==
  ASSUME LockInv, Orderly, [Next]_vars
  PROVE  QuiesceInv' /\ reaping' = None
<1>0. TypeOK /\ QuiesceInv /\ reaping = None /\ run \in [Runs -> {"waiting", "active", "ended"}]
  BY DEF LockInv, TypeOK
<1>1. ASSUME UNCHANGED <<run, paused, quiesce, reaping>> PROVE QuiesceInv' /\ reaping' = None
  BY <1>0, <1>1 DEF QuiesceInv
<1>2. ASSUME NEW q \in Requests, NextRequest(q) PROVE UNCHANGED <<run, paused, quiesce, reaping>>
  BY <1>2 DEF NextRequest, Checkout, Ask, Patch, Reread, TakeFree, CheckStale, Adopt, AssertOwner,
              ReadRow, Release, others, sweeps
<1>3. ASSUME NEW r \in Runs, NextRun(r) PROVE QuiesceInv' /\ reaping' = None
  <2>1. UNCHANGED paused /\ reaping' = None
    BY <1>0, <1>3 DEF Orderly, NextRun, Start, Wake, End, ReleaseExecution, ReapRun, RecoverForRun,
                      CancelUnblocked, CancelQuiesced, others, sweeps
  <2>2. CASE CancelQuiesced(r)
    BY <1>0, <2>1, <2>2 DEF CancelQuiesced, QuiesceInv, TypeOK, Sweep
  <2>3. CASE End(r) \/ CancelUnblocked(r) \/ RecoverForRun(r)
    BY <1>0, <2>1, <2>3 DEF End, CancelUnblocked, RecoverForRun, QuiesceInv, others, sweeps
  <2>4. CASE Start(r) \/ Wake(r) \/ ReleaseExecution(r)
    <3>1. CASE UNCHANGED run
      BY <1>0, <2>1, <2>4, <3>1 DEF Start, Wake, ReleaseExecution, QuiesceInv, others, sweeps
    <3>2. CASE ~paused
      BY <1>0, <2>1, <2>4, <3>2 DEF Start, Wake, ReleaseExecution, QuiesceInv, others, sweeps
    <3> QED
      BY <2>4, <3>1, <3>2 DEF Start, Wake, ReleaseExecution
  <2> QED
    BY <1>3, <2>1, <2>2, <2>3, <2>4 DEF NextRun, ReapRun, Orderly
<1>4. CASE Pause
  BY <1>0, <1>4 DEF Pause, QuiesceInv
<1>5. CASE ClearQuiesced
  BY <1>0, <1>5 DEF ClearQuiesced, QuiesceInv, Still
<1>6. CASE Resume
  BY <1>0, <1>6 DEF Resume, QuiesceInv, Orderly, TypeOK, Sweep
<1>7. ASSUME LeaseEnds \/ Converge \/ ReapLock \/ FindGhost \/ ClearGhost \/ ReadUnblock \/ ClearUnblocked
      PROVE  UNCHANGED <<run, paused, quiesce, reaping>>
  BY <1>0, <1>7 DEF LeaseEnds, Converge, ReapLock, FindGhost, ClearGhost, ReadUnblock, ClearUnblocked,
                    others, sweeps
<1> QED
  BY <1>1, <1>2, <1>3, <1>4, <1>5, <1>6, <1>7 DEF Next, vars, others, sweeps

Started == issue.checkout # None => run[issue.checkout] # "waiting"

\* A write that moves neither lock away from the checkout, or takes the checkout as well.
LEMMA LockKept ==
  ASSUME LockInv, [Next]_vars,
         \/ issue'.checkout = issue.checkout /\ issue'.execution = issue.execution
         \/ issue'.checkout = issue.checkout /\ ~Active(issue.execution)
         \/ issue'.checkout = None
         \/ /\ issue'.checkout = issue'.execution /\ issue'.checkout \in Runs
            /\ run[issue'.checkout] # "waiting"
  PROVE  Started' /\ CheckoutHoldsExecution'
<1>1. /\ Forward /\ issue.checkout \in Runs \cup {None}
      /\ run \in [Runs -> {"waiting", "active", "ended"}]
      /\ run' \in [Runs -> {"waiting", "active", "ended"}]
  <2>1. TypeOK'
    BY TypeRequest, TypeRun, TypeRepair DEF LockInv, Next, vars, others, sweeps, TypeOK
  <2> QED
    BY <2>1, RunsForward DEF LockInv, TypeOK
<1>2. Started /\ CheckoutHoldsExecution
  BY DEF LockInv, Started
<1>3. None \notin Runs
  BY CheckoutAssumption DEF CheckoutAssumption
<1> QED
  BY <1>1, <1>2, <1>3 DEF Started, CheckoutHoldsExecution, Active, Forward

LEMMA LockStep ==
  ASSUME LockInv, Orderly, [Next]_vars
  PROVE  LockInv'
<1>0. TypeOK /\ RequestInv /\ QuiesceInv /\ reaping = None /\ issue \in Rows
      /\ req \in [Requests -> Request]
  BY DEF LockInv, TypeOK, Rows
<1>1. Started' /\ CheckoutHoldsExecution'
  <2>1. ASSUME NEW q \in Requests, NextRequest(q) PROVE Started' /\ CheckoutHoldsExecution'
    <3>1. CASE \E r \in Askers, a \in Agents, statuses \in Expected : Checkout(q, a, r, statuses)
      <4>1. PICK r \in Askers, a \in Agents, statuses \in Expected : Checkout(q, a, r, statuses)
        BY <3>1
      <4>2. r # None => r \in Runs /\ run[r] # "waiting"
        BY <4>1 DEF Checkout, Asker, Askers
      <4>3. UNCHANGED issue \/ (issue'.checkout = r /\ issue'.execution = r)
        BY <4>1 DEF Checkout
      <4>4. CASE UNCHANGED issue
        BY <4>4, LockKept
      <4>5. CASE r = None /\ issue'.checkout = r
        BY <4>5, LockKept
      <4>6. CASE r # None /\ issue'.checkout = r /\ issue'.execution = r
        BY <4>2, <4>6, LockKept
      <4> QED
        BY <4>3, <4>4, <4>5, <4>6
    <3>2. CASE TakeFree(q) \/ Adopt(q)
      <4>1. UNCHANGED issue \/ (issue'.checkout = req[q].run /\ issue'.execution = req[q].run)
        BY <3>2, <1>0 DEF TakeFree, Adopt, Taken, Rows
      <4>2. req[q].run # None => req[q].run \in Runs /\ run[req[q].run] # "waiting"
        BY <1>0 DEF RequestInv, Request
      <4>3. CASE UNCHANGED issue
        BY <4>3, LockKept
      <4>4. CASE req[q].run = None /\ issue'.checkout = req[q].run
        BY <4>4, LockKept
      <4>5. CASE req[q].run # None /\ issue'.checkout = req[q].run /\ issue'.execution = req[q].run
        BY <4>2, <4>5, LockKept
      <4> QED
        BY <4>1, <4>3, <4>4, <4>5
    <3>3. CASE \E s \in Statuses \cup {Keep}, b \in Agents \cup {None, Keep} : Patch(q, s, b)
      <4>1. PICK s \in Statuses \cup {Keep}, b \in Agents \cup {None, Keep} : issue' = Patched(q, s, b)
        BY <3>3 DEF Patch
      <4>2. issue'.checkout \in {issue.checkout, None} /\ issue'.execution = issue.execution
        BY <4>1, <1>0 DEF Patched, Rows
      <4> QED
        BY <4>2, LockKept
    <3>4. CASE Release(q)
      BY <3>4, <1>0, LockKept DEF Release, Rows
    <3>5. CASE \/ \E r \in Askers, a \in Agents \cup {None}, op \in {"patch", "release"} : Ask(q, a, r, op)
               \/ Reread(q) \/ CheckStale(q) \/ AssertOwner(q) \/ ReadRow(q)
      BY <3>5, LockKept DEF Ask, Reread, CheckStale, AssertOwner, ReadRow
    <3> QED
      BY <2>1, <3>1, <3>2, <3>3, <3>4, <3>5 DEF NextRequest
  <2>2. ASSUME NEW r \in Runs, NextRun(r) PROVE Started' /\ CheckoutHoldsExecution'
    <3>1. CASE Wake(r)
      BY <3>1, <1>0, LockKept DEF Wake, Rows
    <3>2. CASE ReleaseExecution(r)
      BY <3>2, <1>0, LockKept DEF ReleaseExecution, Rows, Active
    <3>3. CASE RecoverForRun(r)
      BY <3>3, LockKept DEF RecoverForRun, Recovered
    <3> QED
      BY <2>2, <3>1, <3>2, <3>3, LockKept
         DEF NextRun, Start, End, ReapRun, Orderly, CancelUnblocked, CancelQuiesced
  <2>3. CASE Converge
    BY <2>3, <1>0, LockKept DEF Converge, Rows
  <2>4. CASE ClearGhost \/ ClearUnblocked
    BY <2>4, LockKept DEF ClearGhost, ClearUnblocked, Recovered
  <2>5. CASE ClearQuiesced
    <3>1. \A r \in Runs : run[r] # "active"
      BY <2>5, <1>0 DEF ClearQuiesced, QuiesceInv
    <3> QED
      BY <2>5, <3>1, <1>0, LockKept DEF ClearQuiesced, Rows, Active
  <2>6. CASE LeaseEnds \/ FindGhost \/ ReadUnblock \/ Pause \/ Resume
    BY <2>6, LockKept DEF LeaseEnds, FindGhost, ReadUnblock, Pause, Resume
  <2>7. CASE UNCHANGED vars
    BY <2>7, LockKept DEF vars, others, sweeps
  <2> QED
    BY <2>1, <2>2, <2>3, <2>4, <2>5, <2>6, <2>7, <1>0 DEF Next, ReapLock
<1>2. TypeOK'
  BY <1>0, TypeRequest, TypeRun, TypeRepair DEF Next, vars, others, sweeps, TypeOK
<1> QED
  BY <1>1, <1>2, RequestInvStep, QuiesceStep DEF LockInv, Started

LEMMA LockAlways == ASSUME Orderly PROVE Spec => []LockInv
<1>1. Init => LockInv
  <2>1. Init => TypeOK
    BY TypeInit
  <2>2. Init => RequestInv
    BY DEF Init, Idle, RequestInv
  <2>3. Init => QuiesceInv /\ reaping = None /\ issue.checkout = None
    BY DEF Init, QuiesceInv, Still
  <2> QED
    BY <2>1, <2>2, <2>3 DEF LockInv, CheckoutHoldsExecution
<1>2. LockInv /\ [Next]_vars => LockInv'
  BY LockStep
<1> QED
  BY <1>1, <1>2, PTL DEF Spec

\* As long as no lease reaper and no interrupted pause comes between, the run that has
\* checked an issue out has its execution lock too, for any number of requests.
THEOREM HoldsExecution == ASSUME Orderly PROVE Spec => []CheckoutHoldsExecution
<1>1. LockInv => CheckoutHoldsExecution
  BY DEF LockInv
<1> QED
  BY <1>1, LockAlways, PTL

LEMMA AdoptStep ==
  ASSUME LockInv, [Next]_vars, NEW r \in Runs,
         issue.checkout = r, issue'.checkout \notin {r, None}
  PROVE  run[r] = "ended"
<1>0. RequestInv /\ issue \in Rows /\ req \in [Requests -> Request]
      /\ run[r] \in {"waiting", "active", "ended"} /\ run[r] # "waiting"
      /\ (run[r] = "active" => issue.execution = r) /\ r # None
  BY CheckoutAssumption DEF LockInv, TypeOK, Rows, CheckoutHoldsExecution, Active, CheckoutAssumption
<1>1. ASSUME NEW q \in Requests, NextRequest(q) PROVE run[r] = "ended"
  <2>1. CASE \E n \in Askers, a \in Agents, statuses \in Expected : Checkout(q, a, n, statuses)
    BY <2>1, <1>0 DEF Checkout, Takeable
  <2>2. CASE TakeFree(q)
    BY <2>2, <1>0 DEF TakeFree, Holds
  <2>3. CASE Adopt(q)
    BY <2>3, <1>0 DEF Adopt, Adoptable, Holds, RequestInv
  <2>4. CASE \E s \in Statuses \cup {Keep}, b \in Agents \cup {None, Keep} : Patch(q, s, b)
    BY <2>4, <1>0 DEF Patch, Patched, Rows
  <2>5. CASE Release(q)
    BY <2>5, <1>0 DEF Release, Rows
  <2>6. CASE \/ \E n \in Askers, a \in Agents \cup {None}, op \in {"patch", "release"} : Ask(q, a, n, op)
             \/ Reread(q) \/ CheckStale(q) \/ AssertOwner(q) \/ ReadRow(q)
    BY <2>6, <1>0 DEF Ask, Reread, CheckStale, AssertOwner, ReadRow
  <2> QED
    BY <1>1, <2>1, <2>2, <2>3, <2>4, <2>5, <2>6 DEF NextRequest
<1>2. ASSUME NEW n \in Runs, NextRun(n) PROVE issue'.checkout \in {issue.checkout, None}
  BY <1>0, <1>2 DEF NextRun, Start, Wake, End, ReleaseExecution, ReapRun, RecoverForRun,
                    CancelUnblocked, CancelQuiesced, Recovered, Rows
<1>3. ASSUME LeaseEnds \/ Converge \/ ReapLock \/ FindGhost \/ ClearGhost \/ ReadUnblock \/ ClearUnblocked
             \/ Pause \/ ClearQuiesced \/ Resume
      PROVE  issue'.checkout \in {issue.checkout, None}
  BY <1>0, <1>3 DEF LeaseEnds, Converge, ReapLock, FindGhost, ClearGhost, ReadUnblock, ClearUnblocked,
                    Pause, ClearQuiesced, Resume, Recovered, Rows
<1> QED
  BY <1>0, <1>1, <1>2, <1>3 DEF Next, vars, others, sweeps

\* A checkout goes straight from one run to another only when the first has ended.
THEOREM AdoptsEnded == ASSUME Orderly PROVE Spec => AdoptsOnlyEnded
<1>1. LockInv /\ [Next]_vars =>
        [\A r \in Runs : issue.checkout = r /\ issue'.checkout \notin {r, None} => run[r] = "ended"]_vars
  BY AdoptStep
<1> QED
  BY <1>1, LockAlways, PTL DEF Spec, AdoptsOnlyEnded
================================================================================
