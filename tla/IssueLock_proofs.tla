-------------------------- MODULE IssueLock_proofs --------------------------
(* Theorems about the issue lock: who is taken for its owner, and who will *)
(* hand it on.                                                             *)
EXTENDS IssueRuns_proofs

-----------------------------------------------------------------------------
(* The lock names a run of its issue, whatever goes wrong. *)

\* The lock of i is kept, cleared, or given to a run of i, and a transaction that begins
\* has found one.
LockMoves(i) ==
  /\ \/ lock'[i] \in {lock[i], None}
     \/ lock'[i] \in Runs /\ issue'[lock'[i]] = i /\ status'[lock'[i]] # "none"
  /\ \/ adopting'[i] \in {adopting[i], NotAdopting}
     \/ /\ adopting'[i].run \in Runs
        /\ issue'[adopting'[i].run] = i /\ status'[adopting'[i].run] # "none"

LEMMA InsertRow ==
  ASSUME TypeInv, NEW n \in Runs, NEW a, NEW i, NEW lost, Insert(n, a, i, lost)
  PROVE  /\ status[n] = "none" /\ status'[n] = "queued" /\ issue'[n] = i /\ agent'[n] = a
         /\ \A q \in Runs \ {n} : /\ status'[q] = status[q] /\ issue'[q] = issue[q]
                                  /\ agent'[q] = agent[q]
BY TypeParts DEF TypeInv, RowTypes, Insert, IsNext, Unused

LEMMA ReleaseMovesLock ==
  ASSUME TypeInv, NEW r \in Runs, ReleaseAndPromote(r), NEW i \in Issues
  PROVE  LockMoves(i)
<1>0. RowTypes /\ LockTypes
  BY TypeParts DEF TypeInv
<1>1. CASE UNCHANGED locks
  BY <1>1 DEF locks, LockMoves
<1>2. ASSUME NEW j \in Issues, Unlock(j), adopting' = adopting PROVE LockMoves(i)
  BY <1>0, <1>2 DEF Unlock, LockMoves, LockTypes
<1>3. ASSUME NEW j \in Issues, NEW k \in DOMAIN deferred[j], NEW n \in Runs,
             Promote(j, n, deferred[j][k]), adopting' = adopting
      PROVE  LockMoves(i)
  BY <1>0, <1>3, InsertRow DEF Promote, LockMoves, LockTypes
<1> QED
  BY <1>1, <1>2, <1>3 DEF ReleaseAndPromote

LEMMA LockOfIssueStep == TypeInv /\ LockOfIssue /\ [Next]_vars => LockOfIssue'
<1> SUFFICES ASSUME TypeInv, LockOfIssue, [Next]_vars PROVE LockOfIssue'
  OBVIOUS
<1>0. RowTypes /\ LockTypes /\ MemoryTypes /\ PassHasRun
  BY TypeParts DEF TypeInv
<1>a. UNCHANGED <<lock, adopting>> => \A i \in Issues : LockMoves(i)
  BY DEF LockMoves
<1>1. ASSUME NEW a \in Agents, NEW i \in Issues, Wake(a, i) PROVE \A j \in Issues : LockMoves(j)
  <2>1. CASE WakeNew(a, i)
    BY <1>0, <2>1, InsertRow DEF WakeNew, LockMoves, LockTypes
  <2>2. CASE WakeMention(a, i)
    BY <1>a, <2>2 DEF WakeMention, locks
  <2>3. CASE \E comment \in BOOLEAN : WakeDeferred(a, i, comment)
    BY <1>a, <2>3 DEF WakeDeferred
  <2>4. ASSUME NEW comment \in BOOLEAN, WakeFind(a, i, comment)
        PROVE  \A j \in Issues : LockMoves(j)
    <3>1. PICK r \in Runs, w \in Agents \cup {None} :
            IsOwner(i, r) /\ adopting' = [adopting EXCEPT ![i] = [run |-> r, waiter |-> w]]
      BY <2>4 DEF WakeFind
    <3>2. r \in ActiveOn(i)
      BY <3>1, OwnerFound
    <3> QED
      BY <1>0, <2>4, <3>1, <3>2 DEF WakeFind, rows, ActiveOn, Active, LockMoves, LockTypes
  <2>5. CASE WakeAdopt(i)
    <3>1. PICK r \in Runs : r = adopting[i].run
      BY <1>0, <2>5 DEF WakeAdopt, Free, LockTypes
    <3>2. issue[r] = i /\ status[r] # "none"
      BY <2>5, <3>1 DEF WakeAdopt, LockOfIssue
    <3>3. /\ lock'[i] = r /\ \A j \in Issues \ {i} : lock'[j] = lock[j]
          /\ \A j \in Issues : adopting'[j] \in {adopting[j], NotAdopting}
          /\ UNCHANGED <<status, issue>>
      BY <1>0, <2>5, <3>1 DEF WakeAdopt, Adopt, rows, LockTypes
    <3> QED
      BY <3>2, <3>3 DEF LockMoves
  <2> QED
    BY <1>1, <2>1, <2>2, <2>3, <2>4, <2>5 DEF Wake
<1>2. ASSUME NEW r \in Runs,
             Claim(r) \/ Execute(r) \/ Throw(r) \/ ChildExits(r) \/ ReportActivity(r)
      PROVE  \A i \in Issues : LockMoves(i)
  <2>1. CASE Release(r)
    BY <2>1, ReleaseMovesLock DEF Release
  <2>2. CASE ~Release(r)
    <3>1. UNCHANGED locks
      BY <1>2, <2>2 DEF Claim, Execute, Launch, SetupFails, CallAdapter, AdapterEnds, ReadLatest,
         WriteOutcome, ApplyPolicy, Throw, ChildExits, ReportActivity, EXEC_UNCHANGED
    <3> QED
      BY <1>a, <3>1 DEF locks
  <2> QED
    BY <2>1, <2>2
<1>3. ASSUME NEW p \in Reapers, Reap(p) PROVE \A i \in Issues : LockMoves(i)
  <2>1. CASE ReapRetry(p)
    <3>1. PICK r \in Runs : r = pass[p].run
      BY <1>0, <2>1 DEF ReapRetry, PassHasRun
    <3>2. PICK n \in Runs : /\ Insert(n, agent[r], issue[r], r)
                            /\ lock' = [i \in Issues |-> IF lock[i] = r THEN n ELSE lock[i]]
      BY <2>1, <3>1 DEF ReapRetry
    <3>3. r # None
      BY ExecutionAssumption DEF ExecutionAssumption
    <3>4. adopting' = adopting
      BY <2>1 DEF ReapRetry
    <3> SUFFICES ASSUME NEW i \in Issues
                 PROVE  \/ lock'[i] \in {lock[i], None}
                        \/ /\ lock'[i] \in Runs
                           /\ issue'[lock'[i]] = i /\ status'[lock'[i]] # "none"
      BY <3>4 DEF LockMoves
    <3>5. CASE lock[i] = r
      <4>1. issue[r] = i /\ lock'[i] = n
        BY <3>2, <3>3, <3>5 DEF LockOfIssue
      <4> QED
        BY <3>2, <4>1, InsertRow
    <3>6. CASE lock[i] # r
      BY <3>2, <3>6
    <3> QED
      BY <3>5, <3>6
  <2>2. CASE ReapRelease(p)
    BY <1>0, <2>2, ReleaseMovesLock DEF ReapRelease, PassHasRun
  <2>3. CASE \/ ReapStart(p)
             \/ \E r \in Runs : ReapSkip(p, r) \/ ReapDetached(p, r) \/ ReapFail(p, r)
    BY <1>a, <2>3 DEF ReapStart, ReapSkip, ReapDetached, ReapFail, locks
  <2> QED
    BY <1>3, <2>1, <2>2, <2>3 DEF Reap
<1>4. ASSUME NEW r \in Runs, LeaseExpires(r) \/ StaleReap(r) \/ Cancel(r) \/ Close(r)
      PROVE  \A i \in Issues : LockMoves(i)
  <2>1. CASE StaleUnlock(r)
    BY <1>0, <2>1 DEF StaleUnlock, STALE_UNCHANGED, Unlock, LockMoves, LockTypes
  <2>2. CASE CancelRelease(r)
    BY <2>2, ReleaseMovesLock DEF CancelRelease
  <2>3. CASE Close(r)
    BY <2>3 DEF Close, LockMoves
  <2>4. CASE \/ LeaseExpires(r) \/ StaleFind(r) \/ StaleFail(r) \/ CancelRead(r) \/ CancelWrite(r)
    BY <1>a, <2>4 DEF LeaseExpires, StaleFind, StaleFail, STALE_UNCHANGED, CancelRead,
       CancelWrite, locks
  <2> QED
    BY <1>4, <2>1, <2>2, <2>3, <2>4 DEF StaleReap, Cancel
<1>5. ASSUME \/ \E a \in Agents : Pause(a) \/ Unpause(a)
             \/ CloseFind \/ Crash \/ UNCHANGED vars
      PROVE  \A i \in Issues : LockMoves(i)
  BY <1>a, <1>5 DEF Pause, Unpause, CloseFind, Crash, vars, locks, LockMoves
<1>6. \A i \in Issues : LockMoves(i)
  BY <1>1, <1>2, <1>3, <1>4, <1>5 DEF Next
<1>7. \A r \in Runs : status[r] # "none" => status'[r] # "none" /\ issue'[r] = issue[r]
  <2>1. ASSUME NEW a \in Agents, NEW i \in Issues, WakeNew(a, i)
        PROVE  \A r \in Runs : status[r] # "none" => status'[r] # "none" /\ issue'[r] = issue[r]
    BY <2>1, InsertRow DEF WakeNew
  <2> QED
    BY <2>1, KeptOrGranted DEF RowsKept
<1>8. ASSUME NEW i \in Issues, lock'[i] # None
      PROVE  issue'[lock'[i]] = i /\ status'[lock'[i]] # "none"
  <2>1. CASE lock'[i] = lock[i]
    <3>1. PICK r \in Runs : r = lock[i]
      BY <1>0, <1>8, <2>1 DEF LockTypes
    <3>2. issue[r] = i /\ status[r] # "none"
      BY <1>8, <2>1, <3>1 DEF LockOfIssue
    <3> QED
      BY <1>7, <2>1, <3>1, <3>2
  <2> QED
    BY <1>6, <1>8, <2>1 DEF LockMoves
<1>9. ASSUME NEW i \in Issues, adopting'[i] # NotAdopting
      PROVE  issue'[adopting'[i].run] = i /\ status'[adopting'[i].run] # "none"
  <2>1. CASE adopting'[i] = adopting[i]
    <3>1. PICK r \in Runs : r = adopting[i].run
      BY <1>0, <1>9, <2>1 DEF LockTypes
    <3>2. issue[r] = i /\ status[r] # "none"
      BY <1>9, <2>1, <3>1 DEF LockOfIssue, Free
    <3> QED
      BY <1>7, <2>1, <3>1, <3>2
  <2> QED
    BY <1>6, <1>9, <2>1 DEF LockMoves
<1> QED
  BY <1>8, <1>9 DEF LockOfIssue, Free

LEMMA LockOfIssueInit == Init => LockOfIssue
BY DEF Init, LockOfIssue, Free

-----------------------------------------------------------------------------
(* The name in the lock, under the faults that leave an issue one active run. *)

\* The lock of an issue with an active run names that run's agent, or nobody.
KeyOfActive == \A i \in Issues : \A r \in ActiveOn(i) : lockKey[i] \in {agent[r], None}

KeyInv == PathInv /\ KeyOfActive

\* No run becomes active and no lock gets a name.
KeyKept ==
  /\ \A r \in Runs : status'[r] \in Active =>
       status[r] \in Active /\ issue'[r] = issue[r] /\ agent'[r] = agent[r]
  /\ \A i \in Issues : lockKey'[i] \in {lockKey[i], None}

LEMMA KeptKey == KeyOfActive /\ KeyKept => KeyOfActive'
<1> SUFFICES ASSUME KeyOfActive, KeyKept, NEW i \in Issues, NEW r \in ActiveOn(i)'
             PROVE  lockKey'[i] \in {agent'[r], None}
  BY DEF KeyOfActive
<1>1. r \in Runs /\ status'[r] \in Active /\ issue'[r] = i
  BY DEF ActiveOn
<1>2. r \in ActiveOn(i) /\ agent'[r] = agent[r] /\ lockKey'[i] \in {lockKey[i], None}
  BY <1>1 DEF KeyKept, ActiveOn
<1> QED
  BY <1>2 DEF KeyOfActive

\* A run inserted where none was active is named.
LEMMA NewKey ==
  ASSUME KeyInv, NEW i \in Issues, ActiveOn(i) = {}, NEW n \in Runs, NEW a,
         Insert(n, a, i, None), lockKey' = [lockKey EXCEPT ![i] = a]
  PROVE  KeyOfActive'
<1>0. TypeInv /\ LockTypes
  BY TypeParts DEF KeyInv, PathInv, TypeInv
<1>1. /\ status'[n] = "queued" /\ issue'[n] = i /\ agent'[n] = a
      /\ \A q \in Runs \ {n} : /\ status'[q] = status[q] /\ issue'[q] = issue[q]
                               /\ agent'[q] = agent[q]
  BY <1>0, InsertRow
<1>2. lockKey'[i] = a /\ \A j \in Issues \ {i} : lockKey'[j] = lockKey[j]
  BY <1>0 DEF LockTypes
<1> SUFFICES ASSUME NEW j \in Issues, NEW q \in ActiveOn(j)'
             PROVE  lockKey'[j] \in {agent'[q], None}
  BY DEF KeyOfActive
<1>3. q \in Runs /\ status'[q] \in Active /\ issue'[q] = j
  BY DEF ActiveOn
<1>4. CASE q = n
  BY <1>1, <1>2, <1>3, <1>4
<1>5. CASE q # n
  <2>1. q \in ActiveOn(j)
    BY <1>1, <1>3, <1>5 DEF ActiveOn
  <2>2. j # i
    BY <2>1
  <2> QED
    BY <1>1, <1>2, <1>3, <1>5, <2>1, <2>2 DEF KeyInv, KeyOfActive
<1> QED
  BY <1>4, <1>5

LEMMA ReleaseKeepsKey ==
  ASSUME KeyInv, NEW r \in Runs, status[r] \in Ended, ReleaseAndPromote(r)
  PROVE  KeyOfActive'
<1>0. TypeInv /\ RowTypes /\ LockTypes
  BY TypeParts DEF KeyInv, PathInv, TypeInv
<1>1. CASE UNCHANGED <<status, agent, issue, retryOf, lease, locks>>
  BY <1>1, KeptKey DEF KeyInv, KeyKept, locks
<1>2. ASSUME NEW i \in Issues, Unlock(i), UNCHANGED <<status, agent, issue>>
      PROVE  KeyOfActive'
  BY <1>0, <1>2, KeptKey DEF KeyInv, KeyKept, Unlock, LockTypes
<1>3. ASSUME NEW i \in Issues, lock[i] = r, NEW k \in DOMAIN deferred[i], NEW n \in Runs,
             Promote(i, n, deferred[i][k])
      PROVE  KeyOfActive'
  <2>1. ActiveOn(i) = {}
    BY <1>3, ExecutionAssumption
       DEF KeyInv, PathInv, ActiveHasLock, ActiveOn, Active, Ended, ExecutionAssumption
  <2> QED
    BY <1>3, <2>1, NewKey DEF Promote
<1> QED
  BY <1>1, <1>2, <1>3 DEF ReleaseAndPromote

LEMMA KeyStep ==
  ASSUME ChildrenUnmet, Faults \cap {"mention", "throw"} = {}, KeyInv, [Next]_vars
  PROVE  KeyInv'
<1>0. /\ PathInv /\ PathInv' /\ TypeInv /\ NothingReturns /\ KeyOfActive
      /\ RowTypes /\ LockTypes /\ MemoryTypes /\ PassHasRun
  BY PathStep, TypeParts DEF KeyInv, PathInv, TypeInv
<1>a. UNCHANGED <<status, agent, issue, lockKey>> => KeyOfActive'
  BY <1>0, KeptKey DEF KeyKept
<1>b. ASSUME NEW r \in Runs, NEW s \in Ended, SetRunStatus(r, s),
             \A i \in Issues : lockKey'[i] \in {lockKey[i], None}
      PROVE  KeyOfActive'
  <2>1. \A q \in Runs : status'[q] \in Active => status[q] \in Active
    BY <1>0, <1>b DEF SetRunStatus, RowTypes, Ended, Active
  <2> QED
    BY <1>0, <1>b, <2>1, KeptKey DEF KeyKept, SetRunStatus
<1>1. ASSUME NEW a \in Agents, NEW i \in Issues, Wake(a, i) PROVE KeyOfActive'
  <2>1. CASE WakeNew(a, i)
    <3>1. ActiveOn(i) = {}
      BY <1>0, <2>1, OwnerFound DEF WakeNew, PathInv
    <3> QED
      BY <2>1, <3>1, NewKey DEF WakeNew
  <2>2. CASE WakeMention(a, i)
    BY <2>2 DEF WakeMention
  <2>3. CASE \E comment \in BOOLEAN : WakeDeferred(a, i, comment) \/ WakeFind(a, i, comment)
    BY <1>a, <2>3 DEF WakeDeferred, WakeFind, rows
  <2>4. CASE WakeAdopt(i)
    <3>1. PICK r \in Runs : r = adopting[i].run
      BY <1>0, <2>4 DEF WakeAdopt, Free, LockTypes
    <3>2. ActiveOn(i) \subseteq {r}
      BY <1>0, <2>4, <3>1 DEF WakeAdopt, PathInv, ActiveHasLock
    <3>3. /\ UNCHANGED <<status, agent, issue>>
          /\ lockKey'[i] = agent[r]
          /\ \A j \in Issues \ {i} : lockKey'[j] = lockKey[j]
      BY <1>0, <2>4, <3>1 DEF WakeAdopt, Adopt, rows, LockTypes
    <3>4. \A j \in Issues : ActiveOn(j)' = ActiveOn(j)
      BY <3>3 DEF ActiveOn
    <3> QED
      BY <1>0, <3>2, <3>3, <3>4 DEF KeyOfActive
  <2> QED
    BY <1>1, <2>1, <2>2, <2>3, <2>4 DEF Wake
<1>2. ASSUME NEW r \in Runs,
             Claim(r) \/ Execute(r) \/ Throw(r) \/ ChildExits(r) \/ ReportActivity(r)
      PROVE  KeyOfActive'
  <2>1. CASE Claim(r)
    <3>1. KeyKept
      BY <1>0, <2>1 DEF Claim, KeyKept, RowTypes, Active, locks
    <3> QED
      BY <1>0, <3>1, KeptKey
  <2>2. CASE \/ Launch(r) \/ SetupFails(r) \/ CallAdapter(r) \/ AdapterEnds(r)
             \/ ReadLatest(r) \/ Throw(r) \/ ChildExits(r) \/ ReportActivity(r)
    BY <1>a, <2>2 DEF Launch, SetupFails, CallAdapter, AdapterEnds, ReadLatest, Throw,
       ChildExits, ReportActivity, EXEC_UNCHANGED, rows, locks
  <2>3. CASE WriteOutcome(r) \/ ApplyPolicy(r)
    BY <1>a, <1>b, <2>3 DEF WriteOutcome, ApplyPolicy, Ended, rows, locks
  <2>4. CASE Release(r)
    <3>1. status[r] \in Ended
      BY <1>0, <2>4 DEF Release, Goes, NothingReturns, Releasing
    <3> QED
      BY <2>4, <3>1, ReleaseKeepsKey DEF Release
  <2> QED
    BY <1>2, <2>1, <2>2, <2>3, <2>4 DEF Execute
<1>3. ASSUME NEW p \in Reapers, Reap(p) PROVE KeyOfActive'
  <2>1. CASE ReapStart(p) \/ \E r \in Runs : ReapSkip(p, r)
    BY <1>a, <2>1 DEF ReapStart, ReapSkip, rows, locks
  <2>2. CASE \E r \in Runs : ReapDetached(p, r)
    <3>1. LocalAgents = {}
      BY <1>0, <1>3, QuietReaper DEF ChildrenUnmet, NothingReturns
    <3> QED
      BY <2>2, <3>1 DEF ReapDetached, Detachable, IsLocal
  <2>3. CASE \E r \in Runs : ReapFail(p, r)
    BY <1>b, <2>3 DEF ReapFail, Ended, locks
  <2>4. CASE ReapRetry(p)
    BY <1>0, <2>4 DEF ReapRetry, NothingReturns
  <2>5. CASE ReapRelease(p)
    BY <1>0, <2>5, ReleaseKeepsKey DEF ReapRelease, NothingReturns, PassHasRun
  <2> QED
    BY <1>3, <2>1, <2>2, <2>3, <2>4, <2>5 DEF Reap
<1>4. ASSUME NEW r \in Runs, LeaseExpires(r) \/ StaleReap(r) \/ Cancel(r) \/ Close(r)
      PROVE  KeyOfActive'
  <2>1. CASE LeaseExpires(r) \/ StaleFind(r) \/ CancelRead(r)
    BY <1>a, <2>1 DEF LeaseExpires, StaleFind, CancelRead, rows, locks
  <2>2. CASE StaleFail(r) \/ CancelWrite(r)
    BY <1>b, <2>2 DEF StaleFail, CancelWrite, Ended, locks
  <2>3. CASE StaleUnlock(r)
    <3>1. KeyKept
      BY <1>0, <2>3 DEF StaleUnlock, Unlock, KeyKept, rows, LockTypes
    <3> QED
      BY <1>0, <3>1, KeptKey
  <2>4. CASE CancelRelease(r)
    BY <1>0, <2>4, ReleaseKeepsKey DEF CancelRelease, NothingReturns
  <2>5. CASE Close(r)
    BY <1>a, <1>b, <2>5 DEF Close, Ended, rows
  <2> QED
    BY <1>4, <2>1, <2>2, <2>3, <2>4, <2>5 DEF StaleReap, Cancel
<1>5. ASSUME \/ \E a \in Agents : Pause(a) \/ Unpause(a)
             \/ CloseFind \/ Crash \/ UNCHANGED vars
      PROVE  KeyOfActive'
  BY <1>a, <1>5 DEF Pause, Unpause, CloseFind, Crash, vars, rows, locks
<1>6. KeyOfActive'
  BY <1>1, <1>2, <1>3, <1>4, <1>5 DEF Next
<1> QED
  BY <1>0, <1>6 DEF KeyInv

\* A wakeup is only ever merged into a run of its own agent, whatever lease expiries,
\* cancellations, pauses and reconciler passes interleave, and, if no adapter runs a
\* local child, whatever restarts and silences: the name read from the lock is that of the
\* run taken for the owner, even where the reconciler has cleared the lock and left the name.
THEOREM MergesIntoOwn ==
  ASSUME ChildrenUnmet, Faults \cap {"mention", "throw"} = {}
  PROVE  Spec => []MergedIntoOwn
<1>1. Init => KeyInv
  <2>1. Init => KeyOfActive
    BY DEF Init, KeyOfActive
  <2> QED
    BY <2>1, PathInit DEF KeyInv
<1>2. KeyInv /\ [Next]_vars => KeyInv'
  BY KeyStep
<1>3. KeyInv => MergedIntoOwn
  BY OwnerFound DEF KeyInv, PathInv, KeyOfActive, MergedIntoOwn, OwnerKey
<1> QED
  BY <1>1, <1>2, <1>3, PTL DEF Spec

-----------------------------------------------------------------------------
(* Ended runs and their releases, while the server lives and no statement   *)
(* of an ending run fails.                                                 *)

Fresh == {"none", "queued"}

\* Nothing executes before it is claimed; only a run that executes has a living child; a
\* run that is being released has ended; and a pass has a run in hand only between its
\* two writes.
EndsInv ==
  /\ TypeInv
  /\ \A r \in Runs : /\ status[r] \in Fresh => exec[r] = "none"
                     /\ child[r] = "alive" => exec[r] = "adapter"
                     /\ exec[r] \in Past => status[r] \in Ended
  /\ \A p \in Reapers : pass[p].pc # "failed" => pass[p].run = None

\* Only a run with a living child comes back.
LEMMA EndedKept ==
  ASSUME TypeInv, [Next]_vars
  PROVE  \A q \in Runs : status[q] \in Ended /\ child[q] # "alive" => status'[q] \in Ended
BY StepMovesRuns DEF Moves, Ended

\* No row is made fresh again.
LEMMA FreshLeft ==
  ASSUME TypeInv, [Next]_vars
  PROVE  \A q \in Runs : status'[q] \in Fresh => status[q] \in Fresh
BY StepMovesRuns DEF Moves, Ended, Fresh

LEMMA EndsStep ==
  ASSUME Faults \cap {"throw", "crash"} = {}, EndsInv, [Next]_vars
  PROVE  EndsInv'
<1> DEFINE ExecOk == \A r \in Runs :
             /\ exec'[r] # "none" => exec[r] # "none" \/ status'[r] \notin Fresh
             /\ child'[r] = "alive" => exec'[r] = "adapter"
             /\ exec'[r] \in Past => exec[r] \in Past \/ status'[r] \in Ended
           PassOk == \A p \in Reapers :
             pass'[p] = pass[p] \/ pass'[p].pc = "failed" \/ pass'[p].run = None
           Goal == ExecOk /\ PassOk
<1>0. /\ TypeInv /\ RowTypes /\ MemoryTypes /\ TypeInv'
      /\ \A r \in Runs : /\ status[r] \in Fresh => exec[r] = "none"
                         /\ child[r] = "alive" => exec[r] = "adapter"
      /\ \A q \in Runs : /\ status[q] \in Ended /\ child[q] # "alive" => status'[q] \in Ended
                         /\ status'[q] \in Fresh => status[q] \in Fresh
  BY EndedKept, FreshLeft, TypeStep, TypeParts DEF EndsInv, TypeInv
<1>a. UNCHANGED <<exec, pass, child>> => Goal
  BY <1>0
<1>1. ASSUME NEW a \in Agents, NEW i \in Issues, Wake(a, i) PROVE Goal
  BY <1>0, <1>1 DEF Wake, WakeNew, WakeMention, WakeDeferred, WakeFind, WakeAdopt, memory
<1>2. ASSUME NEW r \in Runs,
             Claim(r) \/ Execute(r) \/ Throw(r) \/ ChildExits(r) \/ ReportActivity(r)
      PROVE  Goal
  <2>1. CASE ReportActivity(r) \/ Throw(r)
    BY <1>0, <2>1 DEF ReportActivity, Throw, memory
  <2>2. CASE ChildExits(r)
    <3>1. /\ UNCHANGED <<exec, pass>>
          /\ \A q \in Runs : child'[q] = "alive" => child[q] = "alive"
      BY <1>0, <2>2 DEF ChildExits, EXEC_UNCHANGED, MemoryTypes
    <3> QED
      BY <1>0, <3>1
  <2>3. CASE Claim(r) \/ Execute(r)
    <3>1. UNCHANGED pass
      BY <2>3 DEF Claim, Execute, Launch, SetupFails, CallAdapter, AdapterEnds, ReadLatest,
         WriteOutcome, Release, ApplyPolicy, EXEC_UNCHANGED
    <3>2. \A q \in Runs \ {r} : exec'[q] = exec[q] /\ child'[q] = child[q]
      BY <1>0, <2>3 DEF Claim, Execute, Launch, SetupFails, CallAdapter, AdapterEnds, ReadLatest,
         WriteOutcome, Release, ApplyPolicy, Goes, MemoryTypes
    <3>3. exec'[r] \in Past => exec[r] \in Past \/ WriteOutcome(r)
      BY <1>0, <2>3 DEF Claim, Execute, Launch, SetupFails, CallAdapter, AdapterEnds, ReadLatest,
         Release, ApplyPolicy, Goes, MemoryTypes, Releasing, Past
    <3>4. WriteOutcome(r) => status'[r] \in Ended
      BY <1>0 DEF WriteOutcome, SetRunStatus, RowTypes, Ended
    <3>5. child'[r] = "alive" => exec'[r] = "adapter"
      <4>1. CASE CallAdapter(r)
        BY <1>0, <4>1 DEF CallAdapter, Goes, MemoryTypes
      <4>2. CASE Claim(r)
        <5>1. child[r] # "alive"
          BY <1>0, <4>2 DEF Claim, Fresh
        <5> QED
          BY <4>2, <5>1 DEF Claim
      <4>3. CASE \/ Launch(r) \/ SetupFails(r) \/ AdapterEnds(r) \/ ReadLatest(r)
                 \/ WriteOutcome(r) \/ Release(r) \/ ApplyPolicy(r)
        <5>1. UNCHANGED child
          BY <4>3 DEF Launch, SetupFails, AdapterEnds, ReadLatest, WriteOutcome, Release,
             ApplyPolicy
        <5>2. child[r] # "alive"
          BY <1>0, <4>3 DEF Launch, SetupFails, AdapterEnds, ReadLatest, WriteOutcome, Release,
             ApplyPolicy, Goes, Releasing
        <5> QED
          BY <5>1, <5>2
      <4> QED
        BY <2>3, <4>1, <4>2, <4>3 DEF Execute
    <3>6. exec'[r] # "none" => exec[r] # "none" \/ status'[r] \notin Fresh
      BY <1>0, <2>3 DEF Claim, Execute, Launch, SetupFails, CallAdapter, AdapterEnds, ReadLatest,
         WriteOutcome, Release, ApplyPolicy, Goes, RowTypes, Releasing, Fresh
    <3> QED
      BY <1>0, <3>1, <3>2, <3>3, <3>4, <3>5, <3>6
  <2> QED
    BY <1>2, <2>1, <2>2, <2>3
<1>3. ASSUME NEW p \in Reapers, Reap(p) PROVE Goal
  <2>1. UNCHANGED <<exec, child>>
    BY <1>3 DEF Reap, ReapStart, ReapSkip, ReapDetached, ReapFail, ReapRetry, ReapRelease,
       REAPER_UNCHANGED
  <2>2. \A o \in Reapers \ {p} : pass'[o] = pass[o]
    BY <1>0, <1>3 DEF Reap, ReapStart, ReapSkip, ReapDetached, ReapFail, ReapRetry, ReapRelease,
       GoOn, MemoryTypes
  <2>3. \A left : GoOn(p, left) => pass'[p].run = None
    BY <1>0 DEF GoOn, IdlePass, MemoryTypes, PassType
  <2>4. ReapStart(p) => pass'[p].run = None
    BY <1>0 DEF ReapStart, MemoryTypes
  <2>5. ASSUME NEW r \in Runs, ReapFail(p, r) PROVE pass'[p].pc = "failed"
    BY <1>0, <2>5 DEF ReapFail, MemoryTypes, PassType
  <2>6. pass'[p].pc = "failed" \/ pass'[p].run = None
    BY <1>3, <2>3, <2>4, <2>5 DEF Reap, ReapRelease, ReapRetry, ReapSkip, ReapDetached
  <2> QED
    BY <1>0, <2>1, <2>2, <2>6
<1>4. ASSUME NEW r \in Runs, LeaseExpires(r) \/ StaleReap(r) \/ Cancel(r) \/ Close(r) PROVE Goal
  BY <1>a, <1>4 DEF LeaseExpires, StaleReap, StaleFind, StaleFail, StaleUnlock, Close,
     STALE_UNCHANGED, Cancel, CancelRead, CancelWrite, CancelRelease, CANC_UNCHANGED
<1>5. ASSUME \/ \E a \in Agents : Pause(a) \/ Unpause(a)
             \/ CloseFind \/ Crash \/ UNCHANGED vars
      PROVE  Goal
  BY <1>a, <1>5 DEF Pause, Unpause, CANC_UNCHANGED, CloseFind, Crash, vars, memory
<1>6. Goal
  <2> HIDE DEF Goal
  <2> QED
    BY <1>1, <1>2, <1>3, <1>4, <1>5 DEF Next
<1>7. \A r \in Runs : exec'[r] \in Past => status'[r] \in Ended
  BY <1>0, <1>6 DEF EndsInv, Past, Releasing
<1>8. \A r \in Runs : status'[r] \in Fresh => exec'[r] = "none"
  BY <1>0, <1>6
<1>9. \A p \in Reapers : pass'[p].pc # "failed" => pass'[p].run = None
  BY <1>6 DEF EndsInv
<1> QED
  BY <1>0, <1>6, <1>7, <1>8, <1>9 DEF EndsInv

LEMMA EndsInit == Init => EndsInv
BY TypeInit DEF Init, EndsInv, Past, IdlePass, Releasing

-----------------------------------------------------------------------------
(* Deferred wakeups: their issue has an owner that will promote them. *)

\* An active run owns its issue's lock, so no transaction takes another run for the owner.
OwnersLocked == \A i \in Issues : Free(i) /\ \A r \in ActiveOn(i) : lock[i] = r

\* A lock is given to a run, or is kept or cleared where no run becomes active.
OwnMoves(i) ==
  /\ adopting'[i] = adopting[i]
  /\ \/ lock'[i] # None
     \/ /\ ActiveOn(i)' \subseteq ActiveOn(i)
        /\ lock'[i] = lock[i] \/ ActiveOn(i) = {}

LEMMA MovesOwn ==
  ASSUME OwnersLocked, PathInv', \A i \in Issues : OwnMoves(i)
  PROVE  OwnersLocked'
<1> SUFFICES ASSUME NEW i \in Issues
             PROVE  Free(i)' /\ \A r \in ActiveOn(i)' : lock'[i] = r
  BY DEF OwnersLocked
<1>1. Free(i)'
  BY DEF OwnersLocked, OwnMoves, Free
<1>2. ASSUME NEW r \in ActiveOn(i)' PROVE lock'[i] = r
  <2>1. lock'[i] \in {r, None}
    BY <1>2 DEF PathInv, ActiveHasLock
  <2>2. lock'[i] # None \/ (r \in ActiveOn(i) /\ lock'[i] = lock[i])
    BY <1>2 DEF OwnMoves
  <2> QED
    BY <2>1, <2>2 DEF OwnersLocked
<1> QED
  BY <1>1, <1>2

LEMMA NobodyFound ==
  ASSUME TypeInv, LockOfIssue, OwnersLocked,
         NEW a \in Agents, NEW i \in Issues, NEW comment \in BOOLEAN
  PROVE  ~WakeFind(a, i, comment)
<1> SUFFICES ASSUME ~Held(i), NEW r \in Runs, IsOwner(i, r) PROVE FALSE
  BY DEF WakeFind
<1>1. r \in ActiveOn(i)
  BY OwnerFound
<1>2. lock[i] = r /\ status[r] \in Active
  BY <1>1 DEF OwnersLocked, ActiveOn
<1> QED
  BY <1>2, ExecutionAssumption DEF Held, ExecutionAssumption

LEMMA InsertOwns ==
  ASSUME TypeInv, NEW i \in Issues, NEW n \in Runs, NEW a, NEW lost, Insert(n, a, i, lost),
         lock' = [lock EXCEPT ![i] = n], adopting' = adopting
  PROVE  \A j \in Issues : OwnMoves(j)
<1>0. LockTypes /\ None \notin Runs
  BY TypeParts, ExecutionAssumption DEF TypeInv, ExecutionAssumption
<1>1. lock'[i] = n /\ \A j \in Issues \ {i} : lock'[j] = lock[j]
  BY <1>0 DEF LockTypes
<1>2. \A j \in Issues \ {i} : ActiveOn(j)' \subseteq ActiveOn(j)
  BY InsertRow DEF ActiveOn
<1> QED
  BY <1>0, <1>1, <1>2 DEF OwnMoves

LEMMA ReleaseOwns ==
  ASSUME TypeInv, OwnersLocked, NEW r \in Runs, status[r] \in Ended, ReleaseAndPromote(r)
  PROVE  \A i \in Issues : OwnMoves(i)
<1>0. LockTypes
  BY TypeParts DEF TypeInv
<1>1. CASE UNCHANGED <<status, agent, issue, retryOf, lease, locks>>
  BY <1>1 DEF OwnMoves, ActiveOn, locks
<1>2. ASSUME NEW j \in Issues, lock[j] = r, Unlock(j), UNCHANGED <<status, issue, adopting>>
      PROVE  \A i \in Issues : OwnMoves(i)
  <2>1. ActiveOn(j) = {}
    BY <1>2 DEF OwnersLocked, ActiveOn, Active, Ended
  <2>2. \A i \in Issues \ {j} : lock'[i] = lock[i]
    BY <1>0, <1>2 DEF Unlock, LockTypes
  <2>3. \A i \in Issues : ActiveOn(i)' = ActiveOn(i)
    BY <1>2 DEF ActiveOn
  <2> QED
    BY <1>2, <2>1, <2>2, <2>3 DEF OwnMoves
<1>3. ASSUME NEW j \in Issues, NEW k \in DOMAIN deferred[j], NEW n \in Runs,
             Promote(j, n, deferred[j][k]), adopting' = adopting
      PROVE  \A i \in Issues : OwnMoves(i)
  BY <1>3, InsertOwns DEF Promote
<1> QED
  BY <1>1, <1>2, <1>3 DEF ReleaseAndPromote

LEMMA OwnStep ==
  ASSUME ChildrenUnmet, Faults \subseteq {"silent", "cancel", "pause"},
         PathInv, Uneventful, OwnersLocked, [Next]_vars
  PROVE  OwnersLocked'
<1> DEFINE Goal == \A i \in Issues : OwnMoves(i)
<1>0. /\ PathInv' /\ TypeInv /\ NothingReturns
      /\ RowTypes /\ LockTypes /\ MemoryTypes /\ PassHasRun
  BY PathStep, TypeParts DEF PathInv, TypeInv
<1>a. ASSUME UNCHANGED <<issue, locks>>,
             \A q \in Runs : status'[q] \in Active => status[q] \in Active
      PROVE  Goal
  BY <1>a DEF OwnMoves, ActiveOn, locks
<1>b. UNCHANGED <<rows, locks>> => Goal
  BY DEF OwnMoves, ActiveOn, rows, locks
<1>c. ASSUME NEW r \in Runs, NEW s \in Ended, SetRunStatus(r, s), UNCHANGED locks PROVE Goal
  BY <1>0, <1>a, <1>c DEF SetRunStatus, RowTypes, Ended, Active
<1>d. ASSUME NEW r \in Runs, status[r] \in Ended, ReleaseAndPromote(r) PROVE Goal
  BY <1>0, <1>d, ReleaseOwns
<1>1. ASSUME NEW a \in Agents, NEW i \in Issues, Wake(a, i) PROVE Goal
  <2>1. CASE WakeNew(a, i)
    BY <1>0, <2>1, InsertOwns DEF WakeNew
  <2>2. CASE WakeMention(a, i)
    BY <2>2 DEF WakeMention
  <2>3. CASE \E comment \in BOOLEAN : WakeDeferred(a, i, comment)
    BY <2>3 DEF WakeDeferred, OwnMoves, ActiveOn, rows
  <2>4. CASE \E comment \in BOOLEAN : WakeFind(a, i, comment)
    BY <1>0, <2>4, NobodyFound DEF PathInv
  <2>5. CASE WakeAdopt(i)
    BY <2>5 DEF WakeAdopt, OwnersLocked
  <2> HIDE DEF Goal
  <2> QED
    BY <1>1, <2>1, <2>2, <2>3, <2>4, <2>5 DEF Wake
<1>2. ASSUME NEW r \in Runs,
             Claim(r) \/ Execute(r) \/ Throw(r) \/ ChildExits(r) \/ ReportActivity(r)
      PROVE  Goal
  <2>1. CASE Claim(r)
    <3>1. \A q \in Runs : status'[q] \in Active => status[q] \in Active
      BY <1>0, <2>1 DEF Claim, RowTypes, Active
    <3> QED
      BY <1>a, <2>1, <3>1 DEF Claim
  <2>2. CASE ReportActivity(r)
    BY <1>a, <2>2 DEF ReportActivity
  <2> HIDE DEF Goal
  <2>3. CASE \/ Launch(r) \/ SetupFails(r) \/ CallAdapter(r) \/ AdapterEnds(r)
             \/ ReadLatest(r) \/ Throw(r) \/ ChildExits(r)
    BY <1>b, <2>3 DEF Launch, SetupFails, CallAdapter, AdapterEnds, ReadLatest, Throw,
       ChildExits, EXEC_UNCHANGED
  <2>4. CASE WriteOutcome(r) \/ ApplyPolicy(r)
    BY <1>b, <1>c, <2>4 DEF WriteOutcome, ApplyPolicy, Ended
  <2>5. CASE Release(r)
    BY <1>0, <1>d, <2>5 DEF Release, Goes, NothingReturns, Releasing
  <2> QED
    BY <1>2, <2>1, <2>2, <2>3, <2>4, <2>5 DEF Execute
<1>3. ASSUME NEW p \in Reapers, Reap(p) PROVE Goal
  <2> HIDE DEF Goal
  <2>1. CASE ReapStart(p) \/ \E r \in Runs : ReapSkip(p, r)
    BY <1>b, <2>1 DEF ReapStart, ReapSkip
  <2>2. CASE \E r \in Runs : ReapDetached(p, r)
    <3>1. LocalAgents = {}
      BY <1>0, <1>3, QuietReaper DEF ChildrenUnmet, PathInv, NothingReturns
    <3> QED
      BY <2>2, <3>1 DEF ReapDetached, Detachable, IsLocal
  <2>3. CASE \E r \in Runs : ReapFail(p, r)
    BY <1>c, <2>3 DEF ReapFail, Ended
  <2>4. CASE ReapRetry(p)
    BY <2>4 DEF ReapRetry, PathInv, NothingReturns
  <2>5. CASE ReapRelease(p)
    BY <1>0, <1>d, <2>5 DEF ReapRelease, PathInv, NothingReturns, PassHasRun
  <2> QED
    BY <1>3, <2>1, <2>2, <2>3, <2>4, <2>5 DEF Reap
<1>4. ASSUME NEW r \in Runs, LeaseExpires(r) \/ StaleReap(r) \/ Close(r) PROVE FALSE
  BY <1>4 DEF Uneventful, LeaseExpires, StaleReap, StaleFind, StaleFail, StaleUnlock, Close
<1>5. ASSUME NEW r \in Runs, Cancel(r) PROVE Goal
  <2> HIDE DEF Goal
  <2>1. CASE CancelRead(r)
    BY <1>b, <2>1 DEF CancelRead
  <2>2. CASE CancelWrite(r)
    BY <1>c, <2>2 DEF CancelWrite, Ended
  <2>3. CASE CancelRelease(r)
    BY <1>d, <2>3 DEF CancelRelease, PathInv, NothingReturns
  <2> QED
    BY <1>5, <2>1, <2>2, <2>3 DEF Cancel
<1>6. ASSUME (\E a \in Agents : Pause(a) \/ Unpause(a)) \/ UNCHANGED vars PROVE Goal
  <2> HIDE DEF Goal
  <2> QED
    BY <1>b, <1>6 DEF Pause, Unpause, vars
<1>7. ASSUME CloseFind \/ Crash PROVE FALSE
  BY <1>7 DEF CloseFind, Crash
<1>8. Goal
  <2> HIDE DEF Goal
  <2> QED
    BY <1>1, <1>2, <1>3, <1>4, <1>5, <1>6, <1>7 DEF Next
<1> QED
  BY <1>0, <1>8, MovesOwn

HoldInv == EndsInv /\ Uneventful /\ PathInv /\ OwnersLocked /\ DeferredIsHeld

WillKept(q) == WillRelease(q) => WillRelease(q)'

\* The wakeups of i are served, get an active owner, or keep the owner they have.
HoldMoves(i) ==
  \/ deferred'[i] = <<>>
  \/ lock'[i] \in Runs /\ status'[lock'[i]] \in Active
  \/ /\ lock'[i] = lock[i] /\ deferred'[i] = deferred[i]
     /\ \A q \in Runs : lock[i] = q => WillKept(q)

LEMMA MovesHold ==
  ASSUME TypeInv, DeferredIsHeld, \A i \in Issues : HoldMoves(i)
  PROVE  DeferredIsHeld'
<1> SUFFICES ASSUME NEW i \in Issues, deferred'[i] # <<>>
             PROVE  lock'[i] # None /\ WillRelease(lock[i])'
  BY DEF DeferredIsHeld
<1>0. LockTypes /\ None \notin Runs
  BY TypeParts, ExecutionAssumption DEF TypeInv, ExecutionAssumption
<1>1. CASE lock'[i] \in Runs /\ status'[lock'[i]] \in Active
  BY <1>0, <1>1 DEF WillRelease
<1>2. CASE /\ lock'[i] = lock[i] /\ deferred'[i] = deferred[i]
           /\ \A q \in Runs : lock[i] = q => WillKept(q)
  <2>1. lock[i] # None /\ WillRelease(lock[i])
    BY <1>2 DEF DeferredIsHeld
  <2>2. PICK q \in Runs : lock[i] = q /\ lock'[i] = q
    BY <1>0, <1>2, <2>1 DEF LockTypes
  <2>3. WillRelease(q)
    BY <2>1, <2>2 DEF WillRelease
  <2>4. WillRelease(q)'
    BY <1>2, <2>2, <2>3 DEF WillKept
  <2> QED
    BY <1>0, <2>2, <2>4 DEF WillRelease
<1> QED
  BY <1>1, <1>2 DEF HoldMoves

\* Letting r go leaves no issue with r for its owner and wakeups to serve.
LEMMA ReleaseHolds ==
  ASSUME TypeInv, LockOfIssue, NEW r \in Runs, ReleaseAndPromote(r),
         \A q \in Runs \ {r} : WillKept(q), NEW i \in Issues
  PROVE  HoldMoves(i)
<1>0. RowTypes /\ LockTypes /\ None \notin Runs
  BY TypeParts, ExecutionAssumption DEF TypeInv, ExecutionAssumption
<1>1. CASE UNCHANGED locks /\ \A j \in Issues : lock[j] # r
  BY <1>1 DEF HoldMoves, locks
<1>2. ASSUME NEW j \in Issues, lock[j] = r,
             \/ deferred'[j] = <<>>
             \/ lock'[j] \in Runs /\ status'[lock'[j]] = "queued",
             \A k \in Issues \ {j} : lock'[k] = lock[k] /\ deferred'[k] = deferred[k]
      PROVE  HoldMoves(i)
  <2>1. CASE i = j
    BY <1>2, <2>1 DEF HoldMoves, Active
  <2>2. CASE i # j
    <3>1. lock[i] # r
      BY <1>0, <1>2, <2>2 DEF LockOfIssue
    <3> QED
      BY <1>2, <2>2, <3>1 DEF HoldMoves
  <2> QED
    BY <2>1, <2>2
<1>3. ASSUME NEW j \in Issues, lock[j] = r, Unlock(j), deferred' = [deferred EXCEPT ![j] = <<>>]
      PROVE  HoldMoves(i)
  BY <1>0, <1>2, <1>3 DEF Unlock, LockTypes
<1>4. ASSUME NEW j \in Issues, lock[j] = r, NEW k \in DOMAIN deferred[j], NEW n \in Runs,
             Promote(j, n, deferred[j][k]),
             deferred' = [deferred EXCEPT ![j] = SubSeq(@, k + 1, Len(@))]
      PROVE  HoldMoves(i)
  <2>1. status'[n] = "queued"
    BY <1>4, InsertRow DEF Promote
  <2>2. lock'[j] = n /\ \A m \in Issues \ {j} : lock'[m] = lock[m] /\ deferred'[m] = deferred[m]
    BY <1>0, <1>4 DEF Promote, LockTypes
  <2> QED
    BY <1>2, <1>4, <2>1, <2>2
<1> QED
  BY <1>1, <1>3, <1>4 DEF ReleaseAndPromote

\* A step of the execution of r, or with r in hand, leaves the other owners alone.
LEMMA OthersWillRelease ==
  ASSUME NEW q \in Runs,
         status[q] \in Active => status'[q] \in Active,
         exec'[q] = exec[q], stale'[q] = stale[q],
         canc[q] = "written" => canc'[q] = "written",
         \A p \in Reapers : pass[p].run = q => pass'[p].run = q
  PROVE  WillKept(q)
BY DEF WillKept, WillRelease

LEMMA HoldStep ==
  ASSUME ChildrenUnmet, Faults \subseteq {"silent", "cancel", "pause"},
         HoldInv, [Next]_vars
  PROVE  HoldInv'
<1>0. /\ TypeInv /\ RowTypes /\ LockTypes /\ MemoryTypes /\ PassHasRun
      /\ EndsInv /\ Uneventful /\ LockOfIssue /\ OwnersLocked /\ DeferredIsHeld
      /\ EndsInv' /\ Uneventful' /\ PathInv' /\ OwnersLocked'
      /\ None \notin Runs
  BY EndsStep, UneventfulStep, PathStep, OwnStep, TypeParts, ExecutionAssumption
     DEF HoldInv, EndsInv, PathInv, TypeInv, ExecutionAssumption
<1>a. ASSUME UNCHANGED locks, \A q \in Runs : WillKept(q)
      PROVE  \A i \in Issues : HoldMoves(i)
  BY <1>a DEF HoldMoves, locks
<1>b. ASSUME \A q \in Runs : status[q] \in Active => status'[q] \in Active,
             UNCHANGED <<exec, stale, canc, pass>>
      PROVE  \A q \in Runs : WillKept(q)
  BY <1>b, OthersWillRelease
<1>c. UNCHANGED rows => \A q \in Runs : status'[q] = status[q]
  BY DEF rows
<1>d. ASSUME NEW r \in Runs, NEW s, SetRunStatus(r, s)
      PROVE  status'[r] = s /\ \A q \in Runs \ {r} : status'[q] = status[q]
  BY <1>0, <1>d DEF SetRunStatus, RowTypes
<1>e. ASSUME NEW r \in Runs, ReleaseAndPromote(r)
      PROVE  \A q \in Runs : status[q] \in Active => status'[q] \in Active
  BY <1>0, <1>e, ReleaseKeepsRow DEF RowKept, Active
<1>1. ASSUME NEW a \in Agents, NEW i \in Issues, Wake(a, i) PROVE \A j \in Issues : HoldMoves(j)
  <2>1. ASSUME NEW n \in Runs, Insert(n, a, i, None)
        PROVE  /\ status'[n] = "queued"
               /\ \A q \in Runs : status[q] \in Active => status'[q] \in Active
    BY <1>0, <2>1, InsertRow DEF Active
  <2>2. CASE WakeNew(a, i)
    <3>1. PICK n \in Runs : Insert(n, a, i, None) /\ lock' = [lock EXCEPT ![i] = n]
      BY <2>2 DEF WakeNew
    <3>2. \A q \in Runs : WillKept(q)
      BY <1>b, <2>1, <2>2, <3>1 DEF WakeNew, memory
    <3>3. lock'[i] = n /\ \A j \in Issues \ {i} : lock'[j] = lock[j]
      BY <1>0, <3>1 DEF LockTypes
    <3> QED
      BY <2>1, <2>2, <3>1, <3>2, <3>3 DEF WakeNew, HoldMoves, Active
  <2>3. CASE WakeMention(a, i)
    BY <2>3 DEF WakeMention
  <2>4. ASSUME NEW comment \in BOOLEAN, WakeDeferred(a, i, comment)
        PROVE  \A j \in Issues : HoldMoves(j)
    <3>1. PICK r \in Runs : r = lock[i] /\ status[r] \in Active
      BY <1>0, <2>4 DEF WakeDeferred, Held, LockTypes
    <3>2. \A q \in Runs : WillKept(q)
      BY <1>b, <1>c, <2>4 DEF WakeDeferred, memory
    <3>3. \A j \in Issues \ {i} : deferred'[j] = deferred[j]
      BY <1>0, <2>4 DEF WakeDeferred, Defer, LockTypes
    <3> QED
      BY <2>4, <3>1, <3>2, <3>3 DEF WakeDeferred, HoldMoves, rows
  <2>5. CASE \E comment \in BOOLEAN : WakeFind(a, i, comment)
    BY <1>0, <2>5, NobodyFound
  <2>6. CASE WakeAdopt(i)
    BY <1>0, <2>6 DEF WakeAdopt, OwnersLocked
  <2> QED
    BY <1>1, <2>2, <2>3, <2>4, <2>5, <2>6 DEF Wake
<1>2. ASSUME NEW r \in Runs,
             Claim(r) \/ Execute(r) \/ Throw(r) \/ ChildExits(r) \/ ReportActivity(r)
      PROVE  \A i \in Issues : HoldMoves(i)
  <2>1. CASE Throw(r) \/ ChildExits(r) \/ ReportActivity(r)
    <3>1. UNCHANGED <<status, locks, exec, stale, canc, pass>>
      BY <2>1 DEF Throw, ChildExits, ReportActivity, EXEC_UNCHANGED, rows, memory
    <3> QED
      BY <1>a, <1>b, <3>1
  <2>2. /\ UNCHANGED <<stale, canc, pass>>
        /\ \A q \in Runs \ {r} : exec'[q] = exec[q]
    BY <1>0, <1>2 DEF Claim, Execute, Launch, SetupFails, CallAdapter, AdapterEnds, ReadLatest,
       WriteOutcome, Release, ApplyPolicy, Throw, ChildExits, ReportActivity, Goes,
       EXEC_UNCHANGED, memory, MemoryTypes
  <2>3. ASSUME \A q \in Runs \ {r} : status[q] \in Active => status'[q] \in Active
        PROVE  \A q \in Runs \ {r} : WillKept(q)
    BY <2>2, <2>3, OthersWillRelease
  <2>4. CASE Claim(r)
    <3>1. \A q \in Runs : status[q] \in Active => status'[q] \in Active
      BY <1>0, <2>4 DEF Claim, Active, RowTypes
    <3>2. WillKept(r)
      BY <3>1, <2>4 DEF Claim, WillKept, WillRelease, Active
    <3> QED
      BY <1>a, <2>3, <2>4, <3>1, <3>2 DEF Claim
  <2>5. CASE Launch(r) \/ SetupFails(r) \/ CallAdapter(r) \/ AdapterEnds(r) \/ ReadLatest(r)
    <3>1. UNCHANGED rows /\ UNCHANGED locks
      BY <2>5 DEF Launch, SetupFails, CallAdapter, AdapterEnds, ReadLatest, EXEC_UNCHANGED
    <3>2. exec[r] \notin Releasing \cup {"wrThrown", "wrLast"}
      BY <2>5 DEF Launch, SetupFails, CallAdapter, AdapterEnds, ReadLatest, Goes, Releasing
    <3>3. WillKept(r)
      BY <1>c, <2>2, <3>1, <3>2 DEF WillKept, WillRelease
    <3> QED
      BY <1>a, <1>c, <2>3, <3>1, <3>3
  <2>6. CASE WriteOutcome(r)
    <3>1. \A q \in Runs \ {r} : status'[q] = status[q]
      BY <1>d, <2>6 DEF WriteOutcome
    <3>2. exec'[r] \in Releasing
      BY <1>0, <2>6 DEF WriteOutcome, Goes, MemoryTypes, Releasing
    <3>3. WillKept(r)
      BY <3>2 DEF WillKept, WillRelease
    <3> QED
      BY <1>a, <2>3, <2>6, <3>1, <3>3 DEF WriteOutcome
  <2>7. CASE Release(r)
    BY <1>0, <1>e, <2>3, <2>7, ReleaseHolds DEF Release
  <2>8. CASE ApplyPolicy(r)
    <3>1. \A q \in Runs \ {r} : status'[q] = status[q]
      BY <1>c, <1>d, <2>8 DEF ApplyPolicy
    <3>2. exec[r] = "policy" /\ status[r] \notin Active
      BY <1>0, <2>8 DEF ApplyPolicy, Goes, EndsInv, Past, Ended, Active
    <3>3. WillKept(r)
      BY <2>2, <3>2 DEF WillKept, WillRelease, Releasing
    <3> QED
      BY <1>a, <2>3, <2>8, <3>1, <3>3 DEF ApplyPolicy
  <2> QED
    BY <1>2, <2>1, <2>4, <2>5, <2>6, <2>7, <2>8 DEF Execute
<1>3. ASSUME NEW p \in Reapers, Reap(p) PROVE \A i \in Issues : HoldMoves(i)
  <2>1. UNCHANGED <<exec, stale, canc>>
    BY <1>3 DEF Reap, ReapStart, ReapSkip, ReapDetached, ReapFail, ReapRetry, ReapRelease,
       REAPER_UNCHANGED
  <2>2. \A o \in Reapers \ {p} : pass'[o] = pass[o]
    BY <1>0, <1>3 DEF Reap, ReapStart, ReapSkip, ReapDetached, ReapFail, ReapRetry, ReapRelease,
       GoOn, MemoryTypes
  <2>3. pass[p].pc # "failed" => pass[p].run = None
    BY <1>0 DEF EndsInv
  <2>4. ASSUME NEW q \in Runs, pass[p].run # q, status[q] \in Active => status'[q] \in Active
        PROVE  WillKept(q)
    BY <2>1, <2>2, <2>4, OthersWillRelease
  <2>5. CASE ReapStart(p) \/ \E r \in Runs : ReapSkip(p, r)
    BY <1>0, <1>a, <1>c, <2>3, <2>4, <2>5 DEF ReapStart, ReapSkip
  <2>6. CASE \E r \in Runs : ReapDetached(p, r)
    <3>1. \A q \in Runs : status[q] \in Active => status'[q] \in Active
      BY <1>0, <1>c, <1>d, <2>6 DEF ReapDetached, Active
    <3> QED
      BY <1>0, <1>a, <2>3, <2>4, <2>6, <3>1 DEF ReapDetached
  <2>7. ASSUME NEW r \in Runs, ReapFail(p, r) PROVE \A i \in Issues : HoldMoves(i)
    <3>1. \A q \in Runs \ {r} : status'[q] = status[q]
      BY <1>d, <2>7 DEF ReapFail
    <3>2. pass[p].run = None /\ pass'[p].run = r
      BY <1>0, <2>3, <2>7 DEF ReapFail, MemoryTypes, PassType
    <3>3. WillKept(r)
      BY <3>2 DEF WillKept, WillRelease
    <3> QED
      BY <1>0, <1>a, <2>4, <2>7, <3>1, <3>2, <3>3 DEF ReapFail
  <2>8. CASE ReapRetry(p)
    <3>1. PICK r \in Runs, n \in Runs :
            /\ pass[p].run = r /\ Insert(n, agent[r], issue[r], r)
            /\ lock' = [i \in Issues |-> IF lock[i] = r THEN n ELSE lock[i]]
            /\ UNCHANGED deferred
      BY <1>0, <2>8 DEF ReapRetry, PassHasRun
    <3>2. /\ status'[n] = "queued"
          /\ \A q \in Runs : status[q] \in Active => status'[q] \in Active
      BY <1>0, <3>1, InsertRow DEF Active
    <3>3. \A q \in Runs : q # r => WillKept(q)
      BY <2>4, <3>1, <3>2
    <3> QED
      BY <3>1, <3>2, <3>3 DEF HoldMoves, Active
  <2>9. CASE ReapRelease(p)
    <3>1. PICK r \in Runs : pass[p].run = r /\ ReapRelease(p)
      BY <1>0, <2>9 DEF ReapRelease, PassHasRun
    <3> QED
      BY <1>0, <1>e, <2>4, <3>1, ReleaseHolds DEF ReapRelease
  <2> QED
    BY <1>3, <2>5, <2>6, <2>7, <2>8, <2>9 DEF Reap
<1>4. ASSUME NEW r \in Runs, LeaseExpires(r) \/ StaleReap(r) \/ Close(r) PROVE FALSE
  BY <1>0, <1>4 DEF Uneventful, LeaseExpires, StaleReap, StaleFind, StaleFail, StaleUnlock, Close
<1>5. ASSUME NEW r \in Runs, Cancel(r) PROVE \A i \in Issues : HoldMoves(i)
  <2>1. UNCHANGED <<exec, stale, pass>> /\ \A q \in Runs \ {r} : canc'[q] = canc[q]
    BY <1>0, <1>5 DEF Cancel, CancelRead, CancelWrite, CancelRelease, CANC_UNCHANGED, MemoryTypes
  <2>2. ASSUME NEW q \in Runs, q # r, status[q] \in Active => status'[q] \in Active
        PROVE  WillKept(q)
    BY <2>1, <2>2, OthersWillRelease
  <2>3. CASE CancelRead(r)
    <3>1. WillKept(r)
      BY <1>c, <2>1, <2>3 DEF CancelRead, WillKept, WillRelease
    <3> QED
      BY <1>a, <1>c, <2>2, <2>3, <3>1 DEF CancelRead
  <2>4. CASE CancelWrite(r)
    <3>1. \A q \in Runs \ {r} : status'[q] = status[q]
      BY <1>d, <2>4 DEF CancelWrite
    <3>2. canc'[r] = "written"
      BY <1>0, <2>4 DEF CancelWrite, MemoryTypes
    <3>3. WillKept(r)
      BY <3>2 DEF WillKept, WillRelease
    <3> QED
      BY <1>a, <2>2, <2>4, <3>1, <3>3 DEF CancelWrite
  <2>5. CASE CancelRelease(r)
    BY <1>0, <1>e, <2>2, <2>5, ReleaseHolds DEF CancelRelease
  <2> QED
    BY <1>5, <2>3, <2>4, <2>5 DEF Cancel
<1>6. ASSUME NEW a \in Agents, Pause(a) \/ Unpause(a) PROVE \A i \in Issues : HoldMoves(i)
  <2>1. /\ UNCHANGED <<exec, stale, pass, rows, locks>>
        /\ \A q \in Runs : canc[q] = "written" => canc'[q] = "written"
    BY <1>6 DEF Pause, Unpause, CANC_UNCHANGED
  <2> QED
    BY <1>a, <1>c, <2>1, OthersWillRelease
<1>7. ASSUME CloseFind \/ Crash PROVE FALSE
  BY <1>7 DEF CloseFind, Crash
<1>8. ASSUME UNCHANGED vars PROVE \A i \in Issues : HoldMoves(i)
  BY <1>a, <1>b, <1>c, <1>8 DEF vars, memory
<1>9. \A i \in Issues : HoldMoves(i)
  BY <1>1, <1>2, <1>3, <1>4, <1>5, <1>6, <1>7, <1>8 DEF Next
<1> QED
  BY <1>0, <1>9, MovesHold DEF HoldInv

\* A deferred wakeup always has an owner that is active or is being ended, and will
\* promote it: whatever cancellations and pauses and, if no adapter runs a local child,
\* whatever silences interleave.  No run is active then without its issue's lock, so no
\* wakeup is deferred for a run that may be ending unlocked.  Restarts, failing statements,
\* mentions, the stale-lease reaper and the reconciler do leave wakeups without an owner.
THEOREM DeferredAreHeld ==
  ASSUME ChildrenUnmet, Faults \subseteq {"silent", "cancel", "pause"}
  PROVE  Spec => []DeferredIsHeld
<1>1. Init => HoldInv
  <2>1. Init => DeferredIsHeld /\ OwnersLocked
    BY DEF Init, DeferredIsHeld, OwnersLocked, Free, ActiveOn, Active
  <2> QED
    BY <2>1, EndsInit, UneventfulInit, PathInit DEF HoldInv
<1>2. HoldInv /\ [Next]_vars => HoldInv'
  BY HoldStep
<1>3. HoldInv => DeferredIsHeld
  BY DEF HoldInv
<1> QED
  BY <1>1, <1>2, <1>3, PTL DEF Spec

=============================================================================
