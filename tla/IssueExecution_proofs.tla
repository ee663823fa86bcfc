------------------------ MODULE IssueExecution_proofs ------------------------
(* Theorems about the execution of issues. *)
EXTENDS IssueExecution, FiniteSetTheorems, SequenceTheorems, WellFoundedInduction, TLAPS

-----------------------------------------------------------------------------
(* Type correctness. *)

\* A pass between its two writes knows which run it has failed.
PassHasRun == \A p \in Reapers : pass[p].pc = "failed" => pass[p].run \in Runs

TypeInv == TypeOK /\ PassHasRun

PassType == [pc : {"idle", "scan", "failed"}, todo : SUBSET Runs,
             pids : SUBSET Runs, known : SUBSET Runs,
             run : Runs \cup {None}, retry : BOOLEAN]

RowTypes == /\ status \in [Runs -> Statuses] /\ lease \in [Runs -> Leases]
            /\ agent \in [Runs -> Agents] /\ issue \in [Runs -> Issues]
            /\ retryOf \in [Runs -> Runs \cup {None}] /\ detached \subseteq Runs

LockTypes == /\ lock \in [Issues -> Runs \cup {None}]
             /\ lockLease \in [Issues -> Runs \cup {None}]
             /\ lockKey \in [Issues -> Agents \cup {None}]
             /\ deferred \in [Issues -> Seq(Agents)]
             /\ adopting \in [Issues -> {NotAdopting}
                                         \cup [run : Runs, waiter : Agents \cup {None}]]

MemoryTypes == /\ exec \in [Runs -> ExecPcs] /\ child \in [Runs -> {"none", "alive", "dead"}]
               /\ pass \in [Reapers -> PassType]
               /\ stale \in [Runs -> {"none", "found", "unlock"}]
               /\ canc \in [Runs -> {"none", "read", "written"}]
               /\ closing \subseteq Runs

LEMMA TypeParts ==
  /\ TypeOK <=> /\ RowTypes /\ LockTypes /\ MemoryTypes
                /\ invokable \subseteq Agents /\ crashes \in 0..MaxCrashes
  /\ TypeOK' <=> /\ RowTypes' /\ LockTypes' /\ MemoryTypes'
                 /\ invokable' \subseteq Agents /\ crashes' \in 0..MaxCrashes
BY DEF TypeOK, RowTypes, LockTypes, MemoryTypes, PassType

\* The operations that several actions share.
LEMMA InsertType ==
  ASSUME RowTypes, NEW n \in Runs, NEW a \in Agents, NEW i \in Issues,
         NEW lost \in Runs \cup {None}, Insert(n, a, i, lost),
         lease' \in [Runs -> Leases], detached' = detached
  PROVE  RowTypes'
BY DEF RowTypes, Insert, Statuses, Active

LEMMA SetRunStatusType ==
  ASSUME RowTypes, NEW r \in Runs, NEW s \in Statuses, SetRunStatus(r, s)
  PROVE  RowTypes'
<1>1. status' \in [Runs -> Statuses]
  BY DEF RowTypes, SetRunStatus
<1>2. detached' \subseteq Runs
  BY DEF RowTypes, SetRunStatus
<1> QED
  BY <1>1, <1>2 DEF RowTypes, SetRunStatus

LEMMA UnlockType ==
  ASSUME LockTypes, NEW i \in Issues, Unlock(i), deferred' \in [Issues -> Seq(Agents)],
         adopting' = adopting
  PROVE  LockTypes'
BY DEF LockTypes, Unlock

LEMMA ReleaseLeaseType ==
  ASSUME RowTypes, LockTypes, NEW i \in Issues
  PROVE  ReleaseLease(i) \in [Runs -> Leases]
BY DEF RowTypes, LockTypes, ReleaseLease, Leases

\* What is left of the deferred wakeups after the k-th.
LEMMA RestType ==
  ASSUME LockTypes, NEW i \in Issues, NEW k \in DOMAIN deferred[i]
  PROVE  /\ deferred[i][k] \in Agents
         /\ SubSeq(deferred[i], k + 1, Len(deferred[i])) \in Seq(Agents)
<1>1. deferred[i] \in Seq(Agents)
  BY DEF LockTypes
<1>2. k \in 1..Len(deferred[i]) /\ Len(deferred[i]) \in Nat
  BY <1>1
<1>3. \A j \in (k + 1)..Len(deferred[i]) : deferred[i][j] \in Agents
  BY <1>1, <1>2
<1> QED
  BY <1>1, <1>2, <1>3, SubSeqProperties

LEMMA ReleaseAndPromoteType ==
  ASSUME RowTypes, LockTypes, NEW r \in Runs, ReleaseAndPromote(r)
  PROVE  RowTypes' /\ LockTypes'
<1>1. CASE UNCHANGED <<status, agent, issue, retryOf, lease, locks, detached>>
  BY <1>1 DEF RowTypes, LockTypes, locks
<1>2. ASSUME NEW i \in Issues, lease' = ReleaseLease(i), Unlock(i),
             deferred' = [deferred EXCEPT ![i] = <<>>], adopting' = adopting,
             UNCHANGED <<status, agent, issue, retryOf, detached>>
      PROVE  RowTypes' /\ LockTypes'
  <2>1. RowTypes'
    BY <1>2, ReleaseLeaseType DEF RowTypes
  <2>2. deferred' \in [Issues -> Seq(Agents)]
    BY <1>2 DEF LockTypes
  <2> QED
    BY <1>2, <2>1, <2>2, UnlockType
<1>3. ASSUME NEW i \in Issues, NEW k \in DOMAIN deferred[i], NEW n \in Runs,
             lease' = ReleaseLease(i), Promote(i, n, deferred[i][k]), detached' = detached,
             deferred' = [deferred EXCEPT ![i] = SubSeq(@, k + 1, Len(@))], adopting' = adopting
      PROVE  RowTypes' /\ LockTypes'
  <2>1. PICK a \in Agents : a = deferred[i][k]
    BY RestType
  <2>2. PICK s \in Seq(Agents) : s = SubSeq(deferred[i], k + 1, Len(deferred[i]))
    BY RestType
  <2>3. RowTypes'
    BY <1>3, <2>1, ReleaseLeaseType, InsertType DEF Promote
  <2>4. deferred' = [deferred EXCEPT ![i] = s]
    BY <1>3, <2>2
  <2>5. LockTypes'
    BY <1>3, <2>1, <2>4, Zenon DEF LockTypes, Promote
  <2> QED
    BY <2>3, <2>5
<1> QED
  BY <1>1, <1>2, <1>3 DEF ReleaseAndPromote

LEMMA IdlePassType == IdlePass \in PassType
BY DEF IdlePass, PassType

LEMMA TypeInit == Init => TypeInv
<1> SUFFICES ASSUME Init PROVE TypeInv
  OBVIOUS
<1>1. (CHOOSE a \in Agents : TRUE) \in Agents /\ (CHOOSE i \in Issues : TRUE) \in Issues
  BY ExecutionAssumption DEF ExecutionAssumption
<1>2. RowTypes
  BY <1>1 DEF Init, RowTypes, Statuses, Leases
<1>3. LockTypes
  BY DEF Init, LockTypes
<1>4. MemoryTypes
  BY IdlePassType DEF Init, MemoryTypes, ExecPcs, Returned
<1>5. PassHasRun
  BY DEF Init, PassHasRun, IdlePass
<1>6. invokable \subseteq Agents /\ crashes \in 0..MaxCrashes
  BY ExecutionAssumption DEF Init, ExecutionAssumption
<1> QED
  BY <1>2, <1>3, <1>4, <1>5, <1>6, TypeParts DEF TypeInv

LEMMA WakeType ==
  ASSUME TypeInv, NEW a \in Agents, NEW i \in Issues, Wake(a, i)
  PROVE  TypeInv'
<1>0. RowTypes /\ LockTypes /\ MemoryTypes /\ PassHasRun
      /\ invokable \subseteq Agents /\ crashes \in 0..MaxCrashes
  BY TypeParts DEF TypeInv
<1>1. ASSUME RowTypes', LockTypes', UNCHANGED <<invokable, memory, crashes>>
      PROVE  TypeInv'
  BY <1>0, <1>1, TypeParts DEF TypeInv, memory, MemoryTypes, PassHasRun
<1>2. CASE WakeNew(a, i)
  <2>1. PICK n \in Runs :
          /\ Insert(n, a, i, None)
          /\ lease' = [r \in Runs |->
                         IF r = n THEN "active"
                         ELSE IF issue[r] = i /\ lease[r] = "active" THEN "released"
                         ELSE lease[r]]
          /\ lock' = [lock EXCEPT ![i] = n]
          /\ lockLease' = [lockLease EXCEPT ![i] = n]
    BY <1>2 DEF WakeNew
  <2>2. lease' \in [Runs -> Leases]
    BY <1>0, <2>1 DEF RowTypes, Leases
  <2>3. RowTypes'
    BY <1>0, <1>2, <2>1, <2>2, InsertType DEF WakeNew
  <2>4. LockTypes'
    BY <1>0, <1>2, <2>1 DEF LockTypes, WakeNew
  <2> QED
    BY <1>1, <1>2, <2>3, <2>4 DEF WakeNew
<1>3. CASE WakeMention(a, i)
  <2>1. RowTypes'
    BY <1>0, <1>3, InsertType DEF WakeMention, RowTypes
  <2>2. LockTypes'
    BY <1>0, <1>3 DEF WakeMention, LockTypes, locks
  <2> QED
    BY <1>1, <1>3, <2>1, <2>2 DEF WakeMention
<1>4. ASSUME NEW b \in Agents, Defer(i, b) PROVE deferred' \in [Issues -> Seq(Agents)]
  <2>1. Append(deferred[i], b) \in Seq(Agents)
    BY <1>0 DEF LockTypes
  <2>2. CASE deferred' = deferred
    BY <1>0, <2>2 DEF LockTypes
  <2>3. CASE deferred' = [deferred EXCEPT ![i] = Append(deferred[i], b)]
    BY <1>0, <2>1, <2>3, Zenon DEF LockTypes
  <2> QED
    BY <1>4, <2>2, <2>3 DEF Defer
<1>5. ASSUME NEW comment \in BOOLEAN, WakeDeferred(a, i, comment) PROVE TypeInv'
  <2>1. deferred' \in [Issues -> Seq(Agents)]
    BY <1>4, <1>5 DEF WakeDeferred
  <2>2. RowTypes' /\ LockTypes'
    BY <1>0, <1>5, <2>1 DEF WakeDeferred, rows, RowTypes, LockTypes
  <2> QED
    BY <1>1, <1>5, <2>2 DEF WakeDeferred
<1>6. ASSUME NEW comment \in BOOLEAN, WakeFind(a, i, comment) PROVE TypeInv'
  <2>1. RowTypes' /\ LockTypes'
    BY <1>0, <1>6 DEF WakeFind, rows, RowTypes, LockTypes
  <2> QED
    BY <1>1, <1>6, <2>1 DEF WakeFind
<1>7. CASE WakeAdopt(i)
  <2>1. PICK r \in Runs : r = adopting[i].run
    BY <1>0, <1>7 DEF WakeAdopt, Free, LockTypes
  <2>2. adopting[i].waiter \in Agents \cup {None}
    BY <1>0, <1>7 DEF WakeAdopt, Free, LockTypes
  <2>3. deferred' \in [Issues -> Seq(Agents)]
    BY <1>0, <1>4, <1>7, <2>2 DEF WakeAdopt, LockTypes
  <2>4. /\ lock' \in [Issues -> Runs \cup {None}]
        /\ lockLease' \in [Issues -> Runs \cup {None}]
        /\ lockKey' \in [Issues -> Agents \cup {None}]
    BY <1>0, <1>7, <2>1 DEF WakeAdopt, Adopt, LockTypes, RowTypes
  <2>5. adopting' \in [Issues -> {NotAdopting} \cup [run : Runs, waiter : Agents \cup {None}]]
    BY <1>0, <1>7 DEF WakeAdopt, LockTypes
  <2>6. RowTypes' /\ LockTypes'
    BY <1>0, <1>7, <2>3, <2>4, <2>5 DEF WakeAdopt, rows, RowTypes, LockTypes
  <2> QED
    BY <1>1, <1>7, <2>6 DEF WakeAdopt
<1> QED
  BY <1>2, <1>3, <1>5, <1>6, <1>7 DEF Wake

LEMMA ExecuteType ==
  ASSUME TypeInv, NEW r \in Runs,
         Claim(r) \/ Execute(r) \/ Throw(r) \/ ChildExits(r) \/ ReportActivity(r)
  PROVE  TypeInv'
<1>0. RowTypes /\ LockTypes /\ MemoryTypes /\ PassHasRun
      /\ invokable \subseteq Agents /\ crashes \in 0..MaxCrashes
  BY TypeParts DEF TypeInv
<1>1. ASSUME RowTypes', LockTypes', exec' \in [Runs -> ExecPcs],
             child' \in [Runs -> {"none", "alive", "dead"}],
             UNCHANGED <<invokable, pass, stale, canc, closing, crashes>>
      PROVE  TypeInv'
  BY <1>0, <1>1, TypeParts DEF TypeInv, MemoryTypes, PassHasRun
<1>2. UNCHANGED rows => RowTypes'
  BY <1>0 DEF rows, RowTypes
<1>3. UNCHANGED locks => LockTypes'
  BY <1>0 DEF locks, LockTypes
<1>4. \A from, to : Goes(r, from, to) /\ to \in ExecPcs => exec' \in [Runs -> ExecPcs]
  BY <1>0 DEF Goes, MemoryTypes
<1>5. CASE Claim(r)
  <2>1. RowTypes'
    BY <1>0, <1>5 DEF Claim, RowTypes, Statuses, Active
  <2> QED
    BY <1>0, <1>1, <1>3, <1>5, <2>1 DEF Claim, MemoryTypes, ExecPcs, Returned
<1>6. CASE Launch(r)
  BY <1>0, <1>1, <1>2, <1>3, <1>4, <1>6 DEF Launch, EXEC_UNCHANGED, MemoryTypes, ExecPcs, Returned
<1>7. CASE SetupFails(r)
  BY <1>0, <1>1, <1>2, <1>3, <1>4, <1>7
     DEF SetupFails, EXEC_UNCHANGED, MemoryTypes, ExecPcs, Returned
<1>8. CASE CallAdapter(r)
  BY <1>0, <1>1, <1>2, <1>3, <1>4, <1>8
     DEF CallAdapter, EXEC_UNCHANGED, MemoryTypes, ExecPcs, Returned
<1>9. CASE AdapterEnds(r)
  BY <1>0, <1>1, <1>2, <1>3, <1>4, <1>9
     DEF AdapterEnds, EXEC_UNCHANGED, MemoryTypes, ExecPcs, Returned
<1>10. CASE ReadLatest(r)
  BY <1>0, <1>1, <1>2, <1>3, <1>4, <1>10
     DEF ReadLatest, EXEC_UNCHANGED, MemoryTypes, ExecPcs, Returned
<1>11. CASE WriteOutcome(r)
  <2>1. RowTypes'
    BY <1>0, <1>11, SetRunStatusType DEF WriteOutcome, Statuses, Ended
  <2> QED
    BY <1>0, <1>1, <1>3, <1>4, <1>11, <2>1 DEF WriteOutcome, MemoryTypes, ExecPcs, Returned, Releasing
<1>12. CASE Release(r)
  <2>1. RowTypes' /\ LockTypes'
    BY <1>0, <1>12, ReleaseAndPromoteType DEF Release
  <2> QED
    BY <1>0, <1>1, <1>4, <1>12, <2>1 DEF Release, MemoryTypes, ExecPcs, Returned
<1>13. CASE ChildExits(r)
  BY <1>0, <1>1, <1>2, <1>3, <1>13 DEF ChildExits, EXEC_UNCHANGED, MemoryTypes
<1>14. CASE ReportActivity(r)
  <2>1. RowTypes'
    BY <1>0, <1>14 DEF ReportActivity, RowTypes
  <2> QED
    BY <1>0, <1>1, <1>3, <1>14, <2>1 DEF ReportActivity, memory, MemoryTypes
<1>15. CASE ApplyPolicy(r)
  <2>1. RowTypes'
    BY <1>0, <1>2, <1>15, SetRunStatusType DEF ApplyPolicy, Statuses, Ended
  <2> QED
    BY <1>0, <1>1, <1>3, <1>4, <1>15, <2>1 DEF ApplyPolicy, MemoryTypes, ExecPcs
<1>16. CASE Throw(r)
  BY <1>0, <1>1, <1>2, <1>3, <1>4, <1>16
     DEF Throw, EXEC_UNCHANGED, MemoryTypes, ExecPcs, Releasing
<1> QED
  BY <1>5, <1>6, <1>7, <1>8, <1>9, <1>10, <1>11, <1>12, <1>13, <1>14, <1>15, <1>16
     DEF Execute

LEMMA ReapType ==
  ASSUME TypeInv, NEW p \in Reapers, Reap(p)
  PROVE  TypeInv'
<1>0. RowTypes /\ LockTypes /\ MemoryTypes /\ PassHasRun
      /\ invokable \subseteq Agents /\ crashes \in 0..MaxCrashes
  BY TypeParts DEF TypeInv
<1>1. ASSUME RowTypes', LockTypes', pass' \in [Reapers -> PassType], PassHasRun',
             REAPER_UNCHANGED
      PROVE  TypeInv'
  BY <1>0, <1>1, TypeParts DEF TypeInv, MemoryTypes, REAPER_UNCHANGED
<1>2. UNCHANGED rows => RowTypes'
  BY <1>0 DEF rows, RowTypes
<1>3. UNCHANGED locks => LockTypes'
  BY <1>0 DEF locks, LockTypes
<1>4. ASSUME NEW left \in SUBSET Runs, GoOn(p, left)
      PROVE  pass' \in [Reapers -> PassType] /\ PassHasRun'
  BY <1>0, <1>4, IdlePassType DEF GoOn, MemoryTypes, PassType, PassHasRun, IdlePass
<1>5. pass[p] \in PassType /\ pass[p].todo \subseteq Runs
  BY <1>0 DEF MemoryTypes, PassType
<1>6. CASE ReapStart(p)
  <2>1. pass' \in [Reapers -> PassType] /\ PassHasRun'
    BY <1>0, <1>6 DEF ReapStart, MemoryTypes, PassType, PassHasRun, StaleRunning
  <2> QED
    BY <1>1, <1>2, <1>3, <1>6, <2>1 DEF ReapStart
<1>7. CASE ReapRetry(p)
  <2>1. PICK r \in Runs : r = pass[p].run
    BY <1>0, <1>7 DEF ReapRetry, PassHasRun
  <2>2. PICK n \in Runs :
           /\ Insert(n, agent[r], issue[r], r)
           /\ lock' = [i \in Issues |-> IF lock[i] = r THEN n ELSE lock[i]]
           /\ lockKey' = [i \in Issues |-> IF lock[i] = r THEN agent[r] ELSE lockKey[i]]
    BY <1>7, <2>1 DEF ReapRetry
  <2>3. RowTypes'
    BY <1>0, <1>7, <2>2, InsertType DEF ReapRetry, RowTypes
  <2>4. LockTypes'
    BY <1>0, <1>7, <2>2 DEF ReapRetry, LockTypes, RowTypes
  <2>5. pass' \in [Reapers -> PassType] /\ PassHasRun'
    BY <1>4, <1>5, <1>7 DEF ReapRetry
  <2> QED
    BY <1>1, <1>7, <2>3, <2>4, <2>5 DEF ReapRetry
<1>8. CASE ReapRelease(p)
  <2>1. RowTypes' /\ LockTypes'
    BY <1>0, <1>8, ReleaseAndPromoteType DEF ReapRelease, PassHasRun
  <2>2. pass' \in [Reapers -> PassType] /\ PassHasRun'
    BY <1>4, <1>5, <1>8 DEF ReapRelease
  <2> QED
    BY <1>1, <1>8, <2>1, <2>2 DEF ReapRelease
<1>9. ASSUME NEW r \in Runs, ReapSkip(p, r) PROVE TypeInv'
  BY <1>1, <1>2, <1>3, <1>4, <1>5, <1>9 DEF ReapSkip
<1>10. ASSUME NEW r \in Runs, ReapDetached(p, r) PROVE TypeInv'
  <2>1. RowTypes'
    BY <1>0, <1>2, <1>10, SetRunStatusType DEF ReapDetached, Statuses, Active
  <2> QED
    BY <1>1, <1>3, <1>4, <1>5, <1>10, <2>1 DEF ReapDetached
<1>11. ASSUME NEW r \in Runs, ReapFail(p, r) PROVE TypeInv'
  <2>1. RowTypes'
    BY <1>0, <1>11, SetRunStatusType DEF ReapFail, Statuses, Ended
  <2>2. pass' \in [Reapers -> PassType] /\ PassHasRun'
    BY <1>0, <1>11 DEF ReapFail, MemoryTypes, PassType, PassHasRun
  <2> QED
    BY <1>1, <1>3, <1>11, <2>1, <2>2 DEF ReapFail
<1> QED
  BY <1>6, <1>7, <1>8, <1>9, <1>10, <1>11 DEF Reap

\* The stale-lease reaper, cancellation, the reconciler and a restart.
LEMMA EndingsType ==
  ASSUME TypeInv,
         \/ \E r \in Runs : LeaseExpires(r) \/ StaleReap(r) \/ Cancel(r) \/ Close(r)
         \/ \E a \in Agents : Pause(a) \/ Unpause(a)
         \/ CloseFind \/ Crash \/ UNCHANGED vars
  PROVE  TypeInv'
<1>0. RowTypes /\ LockTypes /\ MemoryTypes /\ PassHasRun
      /\ invokable \subseteq Agents /\ crashes \in 0..MaxCrashes
  BY TypeParts DEF TypeInv
<1>1. ASSUME RowTypes', LockTypes', MemoryTypes', PassHasRun', invokable' \subseteq Agents,
             crashes' \in 0..MaxCrashes
      PROVE  TypeInv'
  BY <1>1, TypeParts DEF TypeInv
<1>2. UNCHANGED rows => RowTypes'
  BY <1>0 DEF rows, RowTypes
<1>3. UNCHANGED locks => LockTypes'
  BY <1>0 DEF locks, LockTypes
<1>4. UNCHANGED pass => PassHasRun'
  BY <1>0 DEF PassHasRun
<1>5. ASSUME NEW r \in Runs, LeaseExpires(r) PROVE TypeInv'
  <2>1. RowTypes' /\ LockTypes' /\ MemoryTypes'
    BY <1>0, <1>5
       DEF LeaseExpires, STALE_UNCHANGED, RowTypes, LockTypes, MemoryTypes, Leases
  <2> QED
    BY <1>0, <1>1, <1>4, <1>5, <2>1 DEF LeaseExpires, STALE_UNCHANGED
<1>6. ASSUME NEW r \in Runs, StaleFind(r) PROVE TypeInv'
  <2>1. LockTypes' /\ MemoryTypes'
    BY <1>0, <1>6 DEF StaleFind, STALE_UNCHANGED, LockTypes, MemoryTypes
  <2> QED
    BY <1>0, <1>1, <1>2, <1>4, <1>6, <2>1 DEF StaleFind, STALE_UNCHANGED
<1>7. ASSUME NEW r \in Runs, StaleFail(r) PROVE TypeInv'
  <2>1. RowTypes'
    BY <1>0, <1>7, SetRunStatusType DEF StaleFail, Statuses, Ended
  <2>2. LockTypes' /\ MemoryTypes'
    BY <1>0, <1>7 DEF StaleFail, STALE_UNCHANGED, LockTypes, MemoryTypes
  <2> QED
    BY <1>0, <1>1, <1>4, <1>7, <2>1, <2>2 DEF StaleFail, STALE_UNCHANGED
<1>8. ASSUME NEW r \in Runs, StaleUnlock(r) PROVE TypeInv'
  <2>1. LockTypes'
    BY <1>0, <1>8 DEF StaleUnlock, STALE_UNCHANGED, LockTypes, Unlock
  <2>2. MemoryTypes'
    BY <1>0, <1>8 DEF StaleUnlock, STALE_UNCHANGED, MemoryTypes
  <2> QED
    BY <1>0, <1>1, <1>2, <1>4, <1>8, <2>1, <2>2 DEF StaleUnlock, STALE_UNCHANGED
<1>9. ASSUME NEW r \in Runs, CancelRead(r) PROVE TypeInv'
  <2>1. MemoryTypes'
    BY <1>0, <1>9 DEF CancelRead, CANC_UNCHANGED, MemoryTypes
  <2> QED
    BY <1>0, <1>1, <1>2, <1>3, <1>4, <1>9, <2>1 DEF CancelRead, CANC_UNCHANGED
<1>10. ASSUME NEW r \in Runs, CancelWrite(r) PROVE TypeInv'
  <2>1. RowTypes'
    BY <1>0, <1>10, SetRunStatusType DEF CancelWrite, Statuses, Ended
  <2>2. MemoryTypes'
    BY <1>0, <1>10 DEF CancelWrite, CANC_UNCHANGED, MemoryTypes
  <2> QED
    BY <1>0, <1>1, <1>3, <1>4, <1>10, <2>1, <2>2 DEF CancelWrite, CANC_UNCHANGED
<1>11. ASSUME NEW r \in Runs, CancelRelease(r) PROVE TypeInv'
  <2>1. RowTypes' /\ LockTypes'
    BY <1>0, <1>11, ReleaseAndPromoteType DEF CancelRelease
  <2>2. MemoryTypes'
    BY <1>0, <1>11 DEF CancelRelease, CANC_UNCHANGED, MemoryTypes
  <2> QED
    BY <1>0, <1>1, <1>4, <1>11, <2>1, <2>2 DEF CancelRelease, CANC_UNCHANGED
<1>12. ASSUME NEW a \in Agents, Pause(a) PROVE TypeInv'
  <2>1. MemoryTypes'
    BY <1>0, <1>12 DEF Pause, CANC_UNCHANGED, MemoryTypes
  <2> QED
    BY <1>0, <1>1, <1>2, <1>3, <1>4, <1>12, <2>1 DEF Pause, CANC_UNCHANGED
<1>13. ASSUME NEW a \in Agents, Unpause(a) PROVE TypeInv'
  <2>1. MemoryTypes'
    BY <1>0, <1>13 DEF Unpause, CANC_UNCHANGED, MemoryTypes
  <2> QED
    BY <1>0, <1>1, <1>2, <1>3, <1>4, <1>13, <2>1 DEF Unpause, CANC_UNCHANGED
<1>14. CASE CloseFind
  <2>1. MemoryTypes'
    BY <1>0, <1>14 DEF CloseFind, MemoryTypes, Unleased
  <2> QED
    BY <1>0, <1>1, <1>2, <1>3, <1>4, <1>14, <2>1 DEF CloseFind
<1>15. ASSUME NEW r \in Runs, Close(r) PROVE TypeInv'
  <2>1. RowTypes'
    BY <1>0, <1>2, <1>15, SetRunStatusType DEF Close, Statuses, Ended
  <2>2. LockTypes' /\ MemoryTypes'
    BY <1>0, <1>15 DEF Close, LockTypes, MemoryTypes
  <2> QED
    BY <1>0, <1>1, <1>4, <1>15, <2>1, <2>2 DEF Close
<1>16. CASE Crash
  <2>1. MemoryTypes' /\ PassHasRun'
    BY <1>0, <1>16, IdlePassType DEF Crash, MemoryTypes, PassHasRun, IdlePass, ExecPcs, Returned
  <2>2. crashes' \in 0..MaxCrashes
    BY <1>0, <1>16, ExecutionAssumption DEF Crash, ExecutionAssumption
  <2>3. LockTypes'
    BY <1>0, <1>16 DEF Crash, LockTypes
  <2> QED
    BY <1>0, <1>1, <1>2, <1>16, <2>1, <2>2, <2>3 DEF Crash
<1>17. CASE UNCHANGED vars
  BY <1>0, <1>1, <1>2, <1>3, <1>4, <1>17 DEF vars, memory, MemoryTypes
<1> QED
  BY <1>5, <1>6, <1>7, <1>8, <1>9, <1>10, <1>11, <1>12, <1>13, <1>14, <1>15, <1>16, <1>17
     DEF StaleReap, Cancel

LEMMA TypeStep == TypeInv /\ [Next]_vars => TypeInv'
BY WakeType, ExecuteType, ReapType, EndingsType DEF Next

\* The state of issue execution is always well formed, whatever goes wrong.
THEOREM TypeCorrect == Spec => []TypeOK
<1>1. TypeInv => TypeOK
  BY DEF TypeInv
<1> QED
  BY <1>1, TypeInit, TypeStep, PTL DEF Spec

-----------------------------------------------------------------------------
(* Leases. *)

\* A lease is granted with its run's row.
LeaseHasRun == \A r \in Runs : lease[r] = "active" => status[r] # "none"

\* The issue of a run that exists is fixed, and no lease becomes active again.
RowsKept == \A r \in Runs : /\ status[r] # "none" => /\ status'[r] # "none"
                                                     /\ issue'[r] = issue[r]
                            /\ lease'[r] = "active" => lease[r] = "active"

LEMMA ReleaseKeepsRows ==
  ASSUME TypeInv, NEW r \in Runs, ReleaseAndPromote(r)
  PROVE  RowsKept
<1>0. RowTypes /\ LockTypes
  BY TypeParts DEF TypeInv
<1>1. \A i \in Issues, q \in Runs : ReleaseLease(i)[q] = "active" => lease[q] = "active"
  BY <1>0 DEF ReleaseLease, RowTypes
<1> QED
  BY <1>0, <1>1 DEF ReleaseAndPromote, Promote, Insert, IsNext, Unused, RowsKept, RowTypes

LEMMA SetStatusKeepsRows ==
  ASSUME TypeInv, NEW r \in Runs, NEW s \in Statuses \ {"none"}, SetRunStatus(r, s)
  PROVE  RowsKept
BY TypeParts DEF TypeInv, RowTypes, SetRunStatus, RowsKept

\* Only a wakeup for an issue that nobody works on grants a lease.
LEMMA KeptOrGranted ==
  ASSUME TypeInv, [Next]_vars
  PROVE  RowsKept \/ \E a \in Agents, i \in Issues : WakeNew(a, i)
<1>0. RowTypes /\ LockTypes /\ PassHasRun
  BY TypeParts DEF TypeInv
<1>1. UNCHANGED rows => RowsKept
  BY DEF rows, RowsKept
<1>2. ASSUME NEW a \in Agents, NEW i \in Issues, Wake(a, i), ~WakeNew(a, i)
      PROVE  RowsKept
  <2>1. CASE WakeMention(a, i)
    BY <1>0, <2>1 DEF WakeMention, Insert, IsNext, Unused, RowsKept, RowTypes
  <2>2. CASE \/ WakeAdopt(i)
             \/ \E comment \in BOOLEAN : WakeDeferred(a, i, comment) \/ WakeFind(a, i, comment)
    BY <1>1, <2>2 DEF WakeDeferred, WakeFind, WakeAdopt
  <2> QED
    BY <1>2, <2>1, <2>2 DEF Wake
<1>3. ASSUME NEW r \in Runs,
             Claim(r) \/ Execute(r) \/ Throw(r) \/ ChildExits(r) \/ ReportActivity(r)
      PROVE  RowsKept
  <2>1. CASE Claim(r)
    BY <1>0, <2>1 DEF Claim, RowsKept, RowTypes
  <2>2. CASE WriteOutcome(r)
    BY <2>2, SetStatusKeepsRows DEF WriteOutcome, Statuses, Ended
  <2>3. CASE Release(r)
    BY <2>3, ReleaseKeepsRows DEF Release
  <2>4. CASE \/ Launch(r) \/ SetupFails(r) \/ CallAdapter(r) \/ AdapterEnds(r)
             \/ ReadLatest(r) \/ Throw(r) \/ ChildExits(r)
    BY <1>1, <2>4 DEF Launch, SetupFails, CallAdapter, AdapterEnds, ReadLatest, Throw,
       ChildExits, EXEC_UNCHANGED
  <2>5. CASE ReportActivity(r)
    BY <2>5 DEF ReportActivity, RowsKept
  <2>6. CASE ApplyPolicy(r)
    BY <1>1, <2>6, SetStatusKeepsRows DEF ApplyPolicy, Statuses, Ended
  <2> QED
    BY <1>3, <2>1, <2>2, <2>3, <2>4, <2>5, <2>6 DEF Execute
<1>4. ASSUME NEW p \in Reapers, Reap(p) PROVE RowsKept
  <2>1. CASE ReapStart(p) \/ \E r \in Runs : ReapSkip(p, r)
    BY <1>1, <2>1 DEF ReapStart, ReapSkip
  <2>2. CASE ReapRetry(p)
    BY <1>0, <2>2 DEF ReapRetry, Insert, IsNext, Unused, RowsKept, RowTypes
  <2>3. CASE ReapRelease(p)
    BY <1>0, <2>3, ReleaseKeepsRows DEF ReapRelease, PassHasRun
  <2>4. CASE \E r \in Runs : ReapDetached(p, r) \/ ReapFail(p, r)
    BY <1>1, <2>4, SetStatusKeepsRows DEF ReapDetached, ReapFail, Statuses, Active, Ended
  <2> QED
    BY <1>4, <2>1, <2>2, <2>3, <2>4 DEF Reap
<1>5. ASSUME NEW r \in Runs, LeaseExpires(r) \/ StaleReap(r) \/ Cancel(r) \/ Close(r)
      PROVE  RowsKept
  <2>1. CASE LeaseExpires(r)
    BY <1>0, <2>1 DEF LeaseExpires, RowsKept, RowTypes
  <2>2. CASE StaleFind(r) \/ StaleUnlock(r) \/ CancelRead(r)
    BY <1>1, <2>2 DEF StaleFind, StaleUnlock, CancelRead
  <2>3. CASE StaleFail(r) \/ CancelWrite(r)
    BY <2>3, SetStatusKeepsRows DEF StaleFail, CancelWrite, Statuses, Ended
  <2>4. CASE Close(r)
    BY <1>1, <2>4, SetStatusKeepsRows DEF Close, Statuses, Ended
  <2>5. CASE CancelRelease(r)
    BY <2>5, ReleaseKeepsRows DEF CancelRelease
  <2> QED
    BY <1>5, <2>1, <2>2, <2>3, <2>4, <2>5 DEF StaleReap, Cancel
<1>6. CASE \/ \E a \in Agents : Pause(a) \/ Unpause(a)
           \/ CloseFind \/ Crash \/ UNCHANGED vars
  BY <1>1, <1>6 DEF Pause, Unpause, CloseFind, Crash, vars
<1> QED
  BY <1>2, <1>3, <1>4, <1>5, <1>6 DEF Next

LeaseInv == TypeInv /\ LeaseHasRun /\ LeaseUnique

LEMMA LeaseStep == LeaseInv /\ [Next]_vars => LeaseInv'
<1> SUFFICES ASSUME LeaseInv, [Next]_vars PROVE LeaseInv'
  OBVIOUS
<1>0. TypeInv /\ TypeInv' /\ RowTypes
  BY TypeStep, TypeParts DEF LeaseInv, TypeInv
<1>1. CASE RowsKept
  BY <1>0, <1>1 DEF RowsKept, LeaseInv, LeaseHasRun, LeaseUnique
<1>2. ASSUME NEW a \in Agents, NEW i \in Issues, WakeNew(a, i) PROVE LeaseInv'
  <2>1. PICK n \in Runs :
          /\ Insert(n, a, i, None)
          /\ lease' = [r \in Runs |->
                         IF r = n THEN "active"
                         ELSE IF issue[r] = i /\ lease[r] = "active" THEN "released"
                         ELSE lease[r]]
    BY <1>2 DEF WakeNew
  <2>2. /\ status'[n] = "queued" /\ issue'[n] = i
        /\ \A r \in Runs \ {n} : status'[r] = status[r] /\ issue'[r] = issue[r]
    BY <1>0, <2>1 DEF Insert, RowTypes
  <2>3. \A r \in Runs \ {n} : lease'[r] = "active" => lease[r] = "active" /\ issue[r] # i
    BY <1>0, <2>1 DEF RowTypes
  <2>4. LeaseHasRun'
    BY <2>2, <2>3 DEF LeaseInv, LeaseHasRun
  <2>5. LeaseUnique'
    BY <2>2, <2>3 DEF LeaseInv, LeaseUnique
  <2> QED
    BY <1>0, <2>4, <2>5 DEF LeaseInv
<1> QED
  BY <1>0, <1>1, <1>2, KeptOrGranted

\* An issue never has two active leases, whatever is lost, expires, is cancelled or
\* restarted.
THEOREM LeaseIsUnique == Spec => []LeaseUnique
<1>1. Init => LeaseInv
  <2>1. Init => LeaseHasRun /\ LeaseUnique
    BY DEF Init, LeaseHasRun, LeaseUnique
  <2> QED
    BY <2>1, TypeInit DEF LeaseInv
<1>2. LeaseInv => LeaseUnique
  BY DEF LeaseInv
<1> QED
  BY <1>1, <1>2, LeaseStep, PTL DEF Spec

-----------------------------------------------------------------------------
(* One active run per issue, when no reaper pass meets a run with a child      *)
(* process, and mentions are not used.                                         *)

\* There are no local children, or no pass ever has a run to look at: the server
\* lives and every execution reports in time.
ChildrenUnmet == LocalAgents = {} \/ Faults \cap {"crash", "silent"} = {}

Past == Releasing \cup {"policy"}

\* No pass has begun, for whatever is running is being executed.
Quiet == /\ \A p \in Reapers : pass[p].pc = "idle"
         /\ \A r \in Runs : status[r] = "running" => exec[r] \notin Past \cup {"none"}

LEMMA QuietReaper ==
  ASSUME "silent" \notin Faults, Quiet, NEW p \in Reapers
  PROVE  ~Reap(p)
BY DEF Quiet, Reap, ReapStart, StaleRunning, ReapSkip, ReapDetached, ReapFail, ReapRetry,
   ReapRelease

LEMMA QuietStep ==
  ASSUME Faults \cap {"crash", "silent", "throw"} = {}, TypeInv, Quiet, [Next]_vars
  PROVE  Quiet'
<1> DEFINE Running == \A r \in Runs : status'[r] = "running" =>
                        /\ status[r] = "running" \/ Claim(r)
                        /\ exec'[r] = exec[r] \/ exec'[r] \notin Past \cup {"none"}
           Goal == UNCHANGED pass /\ Running
<1>0. RowTypes /\ MemoryTypes
  BY TypeParts DEF TypeInv
<1>a. ASSUME UNCHANGED <<status, exec, pass>> PROVE Goal
  BY <1>a
<1>b. ASSUME NEW r \in Runs, NEW s \in Ended, SetRunStatus(r, s)
      PROVE  \A q \in Runs : status'[q] = "running" => q # r /\ status[q] = "running"
  BY <1>0, <1>b DEF SetRunStatus, RowTypes, Ended
<1>c. ASSUME NEW n \in Runs, NEW a, NEW i, NEW lost, Insert(n, a, i, lost)
      PROVE  \A q \in Runs : status'[q] = "running" => status[q] = "running"
  BY <1>0, <1>c DEF Insert, RowTypes
<1>d. ASSUME NEW r \in Runs, ReleaseAndPromote(r)
      PROVE  \A q \in Runs : status'[q] = "running" => status[q] = "running"
  BY <1>0, <1>c, <1>d DEF ReleaseAndPromote, Promote
<1>e. UNCHANGED rows => UNCHANGED status
  BY DEF rows
<1>1. ASSUME NEW a \in Agents, NEW i \in Issues, Wake(a, i) PROVE Goal
  <2>1. UNCHANGED <<exec, pass>>
    BY <1>1 DEF Wake, WakeNew, WakeMention, WakeDeferred, WakeFind, WakeAdopt, memory
  <2>2. \A q \in Runs : status'[q] = "running" => status[q] = "running"
    BY <1>c, <1>e, <1>1 DEF Wake, WakeNew, WakeMention, WakeDeferred, WakeFind, WakeAdopt
  <2> QED
    BY <2>1, <2>2
<1>2. ASSUME NEW r \in Runs,
             Claim(r) \/ Execute(r) \/ Throw(r) \/ ChildExits(r) \/ ReportActivity(r)
      PROVE  Goal
  <2>1. CASE Throw(r) \/ ChildExits(r) \/ ReportActivity(r)
    BY <1>a, <1>e, <2>1 DEF Throw, ChildExits, ReportActivity, EXEC_UNCHANGED, memory
  <2>2. /\ UNCHANGED pass
        /\ \A q \in Runs \ {r} : exec'[q] = exec[q]
    BY <1>0, <1>2 DEF Claim, Execute, Launch, SetupFails, CallAdapter, AdapterEnds, ReadLatest,
       WriteOutcome, Release, ApplyPolicy, Throw, ChildExits, ReportActivity, EXEC_UNCHANGED,
       Goes, memory, MemoryTypes
  <2>3. CASE Claim(r)
    <3>1. /\ exec'[r] = "claimed"
          /\ \A q \in Runs \ {r} : status'[q] = status[q]
      BY <1>0, <2>3 DEF Claim, RowTypes, MemoryTypes
    <3> QED
      BY <2>2, <2>3, <3>1 DEF Past, Releasing
  <2>4. CASE Launch(r) \/ SetupFails(r) \/ CallAdapter(r) \/ AdapterEnds(r) \/ ReadLatest(r)
    <3>1. UNCHANGED status
      BY <1>e, <2>4 DEF Launch, SetupFails, CallAdapter, AdapterEnds, ReadLatest, EXEC_UNCHANGED
    <3>2. status[r] = "running" => exec'[r] \notin Past \cup {"none"}
      BY <1>0, <2>4 DEF Launch, SetupFails, CallAdapter, AdapterEnds, ReadLatest, Goes,
         MemoryTypes, Active, Past, Releasing
    <3> QED
      BY <2>2, <3>1, <3>2
  <2>5. CASE WriteOutcome(r)
    BY <1>b, <2>2, <2>5 DEF WriteOutcome, Ended
  <2>6. CASE ApplyPolicy(r) \/ Release(r)
    <3>1. status[r] # "running"
      BY <2>6 DEF ApplyPolicy, Release, Goes, Quiet, Past, Releasing
    <3>2. \A q \in Runs : status'[q] = "running" => status[q] = "running"
      BY <1>b, <1>d, <1>e, <2>6 DEF ApplyPolicy, Release, Ended
    <3> QED
      BY <2>2, <3>1, <3>2
  <2> QED
    BY <1>2, <2>1, <2>3, <2>4, <2>5, <2>6 DEF Execute
<1>3. ASSUME NEW p \in Reapers, Reap(p) PROVE FALSE
  BY <1>3, QuietReaper
<1>4. ASSUME NEW r \in Runs, LeaseExpires(r) \/ StaleReap(r) \/ Cancel(r) \/ Close(r) PROVE Goal
  <2>1. UNCHANGED <<exec, pass>>
    BY <1>4 DEF LeaseExpires, StaleReap, StaleFind, StaleFail, StaleUnlock, STALE_UNCHANGED,
       Cancel, CancelRead, CancelWrite, CancelRelease, CANC_UNCHANGED, Close
  <2>2. CASE LeaseExpires(r) \/ StaleFind(r) \/ StaleUnlock(r) \/ CancelRead(r)
    BY <1>e, <2>1, <2>2 DEF LeaseExpires, StaleFind, StaleUnlock, CancelRead
  <2>3. CASE StaleFail(r) \/ CancelWrite(r) \/ CancelRelease(r) \/ Close(r)
    <3>1. \A q \in Runs : status'[q] = "running" => status[q] = "running"
      BY <1>b, <1>d, <1>e, <2>3 DEF StaleFail, CancelWrite, CancelRelease, Close, Ended
    <3> QED
      BY <2>1, <3>1
  <2> QED
    BY <1>4, <2>2, <2>3 DEF StaleReap, Cancel
<1>5. ASSUME \/ \E a \in Agents : Pause(a) \/ Unpause(a)
             \/ CloseFind \/ Crash \/ UNCHANGED vars
      PROVE  Goal
  BY <1>a, <1>e, <1>5 DEF Pause, Unpause, CANC_UNCHANGED, CloseFind, Crash, vars, memory
<1>6. Goal
  <2> HIDE DEF Goal
  <2> QED
    BY <1>1, <1>2, <1>3, <1>4, <1>5 DEF Next
<1>7. ASSUME NEW r \in Runs, Claim(r) PROVE exec'[r] = "claimed"
  BY <1>0, <1>7 DEF Claim, MemoryTypes
<1> QED
  BY <1>6, <1>7 DEF Quiet, Past, Releasing

\* No run is taken back from its end, and no lost run is retried.
NothingReturns ==
  /\ LocalAgents # {} => Quiet
  /\ \A p \in Reapers : pass[p].pc = "failed" => /\ status[pass[p].run] \in Ended
                                                 /\ ~pass[p].retry
  /\ \A r \in Runs : exec[r] \in Releasing => status[r] \in Ended
  /\ \A r \in Runs : canc[r] = "written" => status[r] \in Ended

\* An issue's lock names a run of that issue, and so does a transaction that is about to
\* set it.
LockOfIssue ==
  \A i \in Issues :
    /\ lock[i] # None => issue[lock[i]] = i /\ status[lock[i]] # "none"
    /\ ~Free(i) => issue[adopting[i].run] = i /\ status[adopting[i].run] # "none"

\* An issue with an active run is locked by it or by none, and only that run is about
\* to be adopted.
ActiveHasLock ==
  \A i \in Issues : \A r \in ActiveOn(i) : /\ lock[i] \in {r, None}
                                           /\ Free(i) \/ adopting[i].run = r

\* OneActivePath, without the cardinality.
AtMostOneActive == \A i \in Issues : \A r, q \in ActiveOn(i) : r = q

PathInv == TypeInv /\ NothingReturns /\ LockOfIssue /\ ActiveHasLock /\ AtMostOneActive

\* A step that ends runs and clears locks.
PathKept ==
  /\ \A r \in Runs : status[r] # "none" => status'[r] # "none" /\ issue'[r] = issue[r]
  /\ \A r \in Runs : status'[r] \in Active => status[r] \in Active
  /\ \A i \in Issues : lock'[i] \in {lock[i], None}
  /\ \A i \in Issues : adopting'[i] \in {adopting[i], NotAdopting}

LEMMA KeptPath ==
  ASSUME PathInv, PathKept
  PROVE  LockOfIssue' /\ ActiveHasLock' /\ AtMostOneActive'
<1>0. RowTypes /\ LockTypes
  BY TypeParts DEF PathInv, TypeInv
<1>1. \A i \in Issues : ActiveOn(i)' \subseteq ActiveOn(i)
  BY <1>0 DEF PathKept, ActiveOn, Active
<1>2. LockOfIssue'
  <2>1. ASSUME NEW i \in Issues, lock'[i] # None
        PROVE  issue'[lock'[i]] = i /\ status'[lock'[i]] # "none"
    <3>1. lock'[i] = lock[i] /\ lock[i] \in Runs
      BY <1>0, <2>1 DEF PathKept, LockTypes
    <3> QED
      BY <2>1, <3>1 DEF PathInv, PathKept, LockOfIssue
  <2>2. ASSUME NEW i \in Issues, adopting'[i] # NotAdopting
        PROVE  issue'[adopting'[i].run] = i /\ status'[adopting'[i].run] # "none"
    <3>1. adopting'[i] = adopting[i] /\ ~Free(i)
      BY <2>2 DEF PathKept, Free
    <3>2. adopting[i].run \in Runs
      BY <1>0, <3>1 DEF LockTypes, Free
    <3> QED
      BY <3>1, <3>2 DEF PathInv, PathKept, LockOfIssue
  <2> QED
    BY <2>1, <2>2 DEF LockOfIssue, Free
<1>3. ActiveHasLock'
  BY <1>1 DEF PathInv, PathKept, ActiveHasLock, Free
<1>4. AtMostOneActive'
  BY <1>1 DEF PathInv, AtMostOneActive
<1> QED
  BY <1>2, <1>3, <1>4

\* A new run owns an issue that had no active run.
LEMMA NewOwner ==
  ASSUME PathInv, NEW i \in Issues, ActiveOn(i) = {}, NEW n \in Runs, NEW a \in Agents,
         Insert(n, a, i, None), lock' = [lock EXCEPT ![i] = n], Free(i), adopting' = adopting
  PROVE  LockOfIssue' /\ ActiveHasLock' /\ AtMostOneActive'
<1>0. RowTypes /\ LockTypes
  BY TypeParts DEF PathInv, TypeInv
<1>1. /\ status[n] = "none" /\ status'[n] = "queued" /\ issue'[n] = i
      /\ \A r \in Runs \ {n} : status'[r] = status[r] /\ issue'[r] = issue[r]
      /\ lock'[i] = n /\ \A j \in Issues \ {i} : lock'[j] = lock[j]
  BY <1>0 DEF Insert, IsNext, Unused, RowTypes, LockTypes
<1>2. /\ ActiveOn(i)' = {n}
      /\ \A j \in Issues \ {i} : ActiveOn(j)' = ActiveOn(j)
  BY <1>1 DEF ActiveOn, Active
<1>3. LockOfIssue'
  <2>0. ASSUME NEW j \in Issues, ~Free(j)
        PROVE  issue'[adopting[j].run] = j /\ status'[adopting[j].run] # "none"
    <3>1. issue[adopting[j].run] = j /\ status[adopting[j].run] # "none"
      BY <2>0 DEF PathInv, LockOfIssue
    <3>2. adopting[j].run \in Runs
      BY <1>0, <2>0 DEF LockTypes, Free
    <3> QED
      BY <1>1, <3>1, <3>2
  <2> SUFFICES ASSUME NEW j \in Issues, lock'[j] # None
               PROVE  issue'[lock'[j]] = j /\ status'[lock'[j]] # "none"
    BY <2>0 DEF LockOfIssue, Free
  <2>1. CASE j = i
    BY <1>1, <2>1
  <2>2. CASE j # i
    <3>1. lock'[j] = lock[j] /\ lock[j] \in Runs
      BY <1>0, <1>1, <2>2 DEF LockTypes
    <3>2. issue[lock[j]] = j /\ status[lock[j]] # "none"
      BY <3>1 DEF PathInv, LockOfIssue
    <3> QED
      BY <1>1, <3>1, <3>2
  <2> QED
    BY <2>1, <2>2
<1>4. ActiveHasLock' /\ AtMostOneActive'
  BY <1>1, <1>2 DEF PathInv, ActiveHasLock, AtMostOneActive, Free
<1> QED
  BY <1>3, <1>4

\* A nonempty set of run ids has a least one.
LEMMA LeastRun ==
  ASSUME NEW S \in SUBSET Runs, S # {}
  PROVE  \E r \in S : \A q \in S : r <= q
<1>1. S \subseteq Nat
  BY ExecutionAssumption DEF ExecutionAssumption
<1>2. PICK r \in S : \A q \in S : ~(<<q, r>> \in OpToRel(<, Nat))
  BY <1>1, WFMin, NatLessThanWellFounded
<1>3. \A q \in S : ~(q < r)
  BY <1>1, <1>2, Zenon DEF OpToRel
<1> QED
  BY <1>1, <1>3

\* enqueueWakeup overlooks no active run.
LEMMA OwnerFound ==
  ASSUME TypeInv, LockOfIssue, NEW i \in Issues
  PROVE  /\ \A r \in Runs : IsOwner(i, r) => r \in ActiveOn(i)
         /\ (\A r \in Runs : ~IsOwner(i, r)) => ActiveOn(i) = {}
<1>0. RowTypes /\ LockTypes
  BY TypeParts DEF TypeInv
<1>1. Held(i) => lock[i] \in ActiveOn(i)
  BY <1>0 DEF LockOfIssue, Held, ActiveOn, LockTypes
<1>2. ASSUME ~Held(i), ActiveOn(i) # {} PROVE \E r \in Runs : IsOwner(i, r)
  <2> DEFINE running == {r \in ActiveOn(i) : status[r] = "running"}
  <2>1. CASE running # {}
    <3>1. PICK r \in running : \A q \in running : r <= q
      BY <2>1, LeastRun DEF ActiveOn
    <3> QED
      BY <1>2, <3>1 DEF IsOwner, Precedes, ActiveOn
  <2>2. CASE running = {}
    <3>1. PICK r \in ActiveOn(i) : \A q \in ActiveOn(i) : r <= q
      BY <1>2, LeastRun DEF ActiveOn
    <3>2. \A q \in ActiveOn(i) : status[q] = "queued"
      BY <2>2 DEF ActiveOn, Active
    <3> QED
      BY <1>2, <3>1, <3>2 DEF IsOwner, Precedes, ActiveOn
  <2> QED
    BY <2>1, <2>2
<1> QED
  BY <1>1, <1>2 DEF IsOwner, ActiveOn

\* Letting go of an ended run leaves its issue without an active run, and gives it
\* at most one.
LEMMA ReleaseKeepsPath ==
  ASSUME PathInv, NEW r \in Runs, status[r] \in Ended, ReleaseAndPromote(r)
  PROVE  /\ LockOfIssue' /\ ActiveHasLock' /\ AtMostOneActive'
         /\ \A q \in Runs : status[q] \in Ended => status'[q] \in Ended
<1>0. RowTypes /\ LockTypes
  BY TypeParts DEF PathInv, TypeInv
<1>1. CASE UNCHANGED <<status, agent, issue, retryOf, lease, locks>>
  BY <1>1, KeptPath DEF PathKept, locks
<1>2. ASSUME NEW i \in Issues, Unlock(i), UNCHANGED <<status, issue, adopting>>
      PROVE  /\ LockOfIssue' /\ ActiveHasLock' /\ AtMostOneActive'
             /\ \A q \in Runs : status[q] \in Ended => status'[q] \in Ended
  BY <1>0, <1>2, KeptPath DEF PathKept, Unlock, LockTypes
<1>3. ASSUME NEW i \in Issues, lock[i] = r, NEW k \in DOMAIN deferred[i], NEW n \in Runs,
             Promote(i, n, deferred[i][k]), Free(i), adopting' = adopting
      PROVE  /\ LockOfIssue' /\ ActiveHasLock' /\ AtMostOneActive'
             /\ \A q \in Runs : status[q] \in Ended => status'[q] \in Ended
  <2>1. ActiveOn(i) = {}
    BY <1>3, ExecutionAssumption
       DEF PathInv, ActiveHasLock, ActiveOn, Active, Ended, ExecutionAssumption
  <2>2. deferred[i][k] \in Agents
    BY <1>0, RestType
  <2>3. LockOfIssue' /\ ActiveHasLock' /\ AtMostOneActive'
    BY <1>3, <2>1, <2>2, NewOwner DEF Promote
  <2>4. \A q \in Runs : status[q] \in Ended => status'[q] \in Ended
    BY <1>0, <1>3 DEF Promote, Insert, IsNext, Unused, Ended, RowTypes
  <2> QED
    BY <2>3, <2>4
<1> QED
  BY <1>1, <1>2, <1>3 DEF ReleaseAndPromote

\* A run that ends stays out of the way.
LEMMA EndKeepsPath ==
  ASSUME PathInv, NEW r \in Runs, NEW s \in Ended, SetRunStatus(r, s),
         \A i \in Issues : lock'[i] \in {lock[i], None}, adopting' = adopting
  PROVE  /\ LockOfIssue' /\ ActiveHasLock' /\ AtMostOneActive'
         /\ \A q \in Runs : status[q] \in Ended => status'[q] \in Ended
         /\ status'[r] \in Ended
<1>0. RowTypes
  BY TypeParts DEF PathInv, TypeInv
<1>1. /\ PathKept
      /\ \A q \in Runs : status[q] \in Ended => status'[q] \in Ended
      /\ status'[r] \in Ended
  BY <1>0 DEF PathKept, SetRunStatus, RowTypes, Ended, Active
<1> QED
  BY <1>1, KeptPath

LEMMA PathStep ==
  ASSUME ChildrenUnmet, Faults \cap {"mention", "throw"} = {}, PathInv, [Next]_vars
  PROVE  PathInv'
<1> DEFINE Goal == NothingReturns' /\ LockOfIssue' /\ ActiveHasLock' /\ AtMostOneActive'
           EndedKept == \A q \in Runs : status[q] \in Ended => status'[q] \in Ended
<1>0. /\ TypeInv /\ NothingReturns /\ LockOfIssue /\ ActiveHasLock /\ AtMostOneActive
      /\ RowTypes /\ LockTypes /\ MemoryTypes /\ PassHasRun
      /\ TypeInv' /\ RowTypes' /\ LockTypes' /\ MemoryTypes' /\ PassHasRun'
  BY TypeStep, TypeParts DEF PathInv, TypeInv
<1>q. LocalAgents # {} => Quiet /\ Quiet'
  BY <1>0, QuietStep DEF ChildrenUnmet, NothingReturns
<1>a. ASSUME EndedKept, UNCHANGED <<pass, exec, canc>> PROVE NothingReturns'
  BY <1>0, <1>q, <1>a DEF NothingReturns, PassHasRun
<1>b. ASSUME status' = status, issue' = issue, lock' = lock,
             \A i \in Issues : adopting'[i] \in {adopting[i], NotAdopting}
      PROVE  EndedKept /\ LockOfIssue' /\ ActiveHasLock' /\ AtMostOneActive'
  BY <1>b, KeptPath DEF PathKept
<1>1. ASSUME NEW a \in Agents, NEW i \in Issues, Wake(a, i) PROVE Goal
  <2>1. CASE WakeNew(a, i)
    <3>1. PICK n \in Runs : Insert(n, a, i, None) /\ lock' = [lock EXCEPT ![i] = n]
      BY <2>1 DEF WakeNew
    <3>2. ActiveOn(i) = {}
      BY <1>0, <2>1, OwnerFound DEF WakeNew
    <3>3. EndedKept
      BY <1>0, <3>1 DEF Insert, IsNext, Unused, Ended, RowTypes
    <3> QED
      BY <1>a, <2>1, <3>1, <3>2, <3>3, NewOwner DEF WakeNew, memory
  <2>2. CASE WakeMention(a, i)
    BY <2>2 DEF WakeMention
  <2>3. ASSUME NEW comment \in BOOLEAN, WakeDeferred(a, i, comment) PROVE Goal
    BY <1>a, <1>b, <2>3 DEF WakeDeferred, rows, memory
  <2>4. ASSUME NEW comment \in BOOLEAN, WakeFind(a, i, comment) PROVE Goal
    <3>1. PICK r \in Runs, w \in Agents \cup {None} : IsOwner(i, r) /\ adopting' = [adopting EXCEPT ![i] =
                                                [run |-> r, waiter |-> w]]
      BY <2>4 DEF WakeFind
    <3>2. r \in ActiveOn(i)
      BY <1>0, <3>1, OwnerFound
    <3>3. /\ UNCHANGED <<status, issue, lock>>
          /\ adopting'[i].run = r /\ \A j \in Issues \ {i} : adopting'[j] = adopting[j]
      BY <1>0, <2>4, <3>1 DEF WakeFind, rows, LockTypes
    <3>4. \A j \in Issues : ActiveOn(j)' = ActiveOn(j)
      BY <3>3 DEF ActiveOn
    <3>5. LockOfIssue'
      BY <1>0, <3>2, <3>3 DEF LockOfIssue, ActiveOn, Active, Free
    <3>6. ActiveHasLock' /\ AtMostOneActive'
      BY <1>0, <3>2, <3>3, <3>4 DEF ActiveHasLock, AtMostOneActive, Free
    <3>7. NothingReturns'
      BY <1>a, <2>4, <3>3 DEF WakeFind, memory
    <3> QED
      BY <3>5, <3>6, <3>7
  <2>5. CASE WakeAdopt(i)
    <3>1. PICK r \in Runs : r = adopting[i].run
      BY <1>0, <2>5 DEF WakeAdopt, Free, LockTypes
    <3>2. /\ UNCHANGED <<status, issue>>
          /\ lock'[i] = r /\ \A j \in Issues \ {i} : lock'[j] = lock[j]
          /\ Free(i)' /\ \A j \in Issues \ {i} : adopting'[j] = adopting[j]
      BY <1>0, <2>5, <3>1 DEF WakeAdopt, Adopt, rows, LockTypes, Free
    <3>3. \A j \in Issues : ActiveOn(j)' = ActiveOn(j)
      BY <3>2 DEF ActiveOn
    <3>4. LockOfIssue'
      BY <1>0, <2>5, <3>1, <3>2 DEF LockOfIssue, WakeAdopt, Free
    <3>5. ActiveHasLock' /\ AtMostOneActive'
      BY <1>0, <2>5, <3>1, <3>2, <3>3 DEF ActiveHasLock, AtMostOneActive, WakeAdopt, Free
    <3>6. NothingReturns'
      BY <1>a, <2>5, <3>2 DEF WakeAdopt, memory
    <3> QED
      BY <3>4, <3>5, <3>6
  <2> QED
    BY <1>1, <2>1, <2>2, <2>3, <2>4, <2>5 DEF Wake
<1>2. ASSUME NEW r \in Runs,
             Claim(r) \/ Execute(r) \/ Throw(r) \/ ChildExits(r) \/ ReportActivity(r)
      PROVE  Goal
  <2>a. ASSUME UNCHANGED <<status, issue, lock, adopting, pass, canc>>,
               exec'[r] \notin Releasing, \A q \in Runs \ {r} : exec'[q] = exec[q]
        PROVE  Goal
    BY <1>0, <1>q, <1>b, <2>a DEF NothingReturns, PassHasRun
  <2>1. CASE Claim(r)
    <3>1. PathKept /\ EndedKept
      BY <1>0, <2>1 DEF Claim, PathKept, RowTypes, Active, Ended, locks
    <3>2. NothingReturns'
      BY <1>0, <1>q, <2>1, <3>1 DEF Claim, NothingReturns, PassHasRun, MemoryTypes, Releasing
    <3> QED
      BY <3>1, <3>2, KeptPath
  <2>2. CASE Launch(r) \/ SetupFails(r) \/ AdapterEnds(r) \/ ReadLatest(r)
    <3>1. UNCHANGED <<status, issue, lock, adopting, pass, canc>>
      BY <2>2 DEF Launch, SetupFails, AdapterEnds, ReadLatest, EXEC_UNCHANGED, rows, locks
    <3>2. exec'[r] \notin Releasing /\ \A q \in Runs \ {r} : exec'[q] = exec[q]
      BY <1>0, <2>2 DEF Launch, SetupFails, AdapterEnds, ReadLatest, Goes, MemoryTypes,
         Releasing
    <3> QED
      BY <2>a, <3>1, <3>2
  <2>3. CASE CallAdapter(r)
    BY <1>0, <2>3, <2>a
       DEF CallAdapter, Goes, EXEC_UNCHANGED, rows, locks, MemoryTypes, Releasing
  <2>4. CASE WriteOutcome(r)
    <3>1. PICK s \in Ended : SetRunStatus(r, s)
      BY <2>4 DEF WriteOutcome, Ended
    <3>2. /\ LockOfIssue' /\ ActiveHasLock' /\ AtMostOneActive'
          /\ EndedKept /\ status'[r] \in Ended
      BY <2>4, <3>1, EndKeepsPath DEF WriteOutcome, locks
    <3>3. \A q \in Runs \ {r} : exec'[q] = exec[q]
      BY <1>0, <2>4 DEF WriteOutcome, Goes, MemoryTypes
    <3>4. NothingReturns'
      BY <1>0, <1>q, <2>4, <3>2, <3>3 DEF WriteOutcome, NothingReturns, PassHasRun
    <3> QED
      BY <3>2, <3>4
  <2>5. CASE Release(r)
    <3>1. status[r] \in Ended
      BY <1>0, <2>5 DEF Release, Goes, NothingReturns, Releasing
    <3>2. LockOfIssue' /\ ActiveHasLock' /\ AtMostOneActive' /\ EndedKept
      BY <2>5, <3>1, ReleaseKeepsPath DEF Release
    <3>3. exec'[r] \notin Releasing /\ \A q \in Runs \ {r} : exec'[q] = exec[q]
      BY <1>0, <2>5 DEF Release, Goes, MemoryTypes, Releasing
    <3>4. NothingReturns'
      BY <1>0, <1>q, <2>5, <3>2, <3>3 DEF Release, NothingReturns, PassHasRun
    <3> QED
      BY <3>2, <3>4
  <2>6. CASE ApplyPolicy(r)
    <3>1. exec'[r] \notin Releasing /\ \A q \in Runs \ {r} : exec'[q] = exec[q]
      BY <1>0, <2>6 DEF ApplyPolicy, Goes, MemoryTypes, Releasing
    <3>2. CASE UNCHANGED rows
      BY <2>6, <2>a, <3>1, <3>2 DEF ApplyPolicy, rows, locks
    <3>3. CASE SetRunStatus(r, "failed")
      <4>1. LockOfIssue' /\ ActiveHasLock' /\ AtMostOneActive' /\ EndedKept
        BY <2>6, <3>3, EndKeepsPath DEF ApplyPolicy, locks, Ended
      <4>2. NothingReturns'
        BY <1>0, <1>q, <2>6, <3>1, <4>1 DEF ApplyPolicy, NothingReturns, PassHasRun
      <4> QED
        BY <4>1, <4>2
    <3> QED
      BY <2>6, <3>2, <3>3 DEF ApplyPolicy
  <2>7. CASE ChildExits(r) \/ ReportActivity(r) \/ Throw(r)
    BY <1>a, <1>b, <2>7 DEF ChildExits, ReportActivity, Throw, EXEC_UNCHANGED, rows, locks, memory
  <2> QED
    BY <1>2, <2>1, <2>2, <2>3, <2>4, <2>5, <2>6, <2>7 DEF Execute
<1>3. ASSUME NEW p \in Reapers, Reap(p) PROVE Goal
  <2>l. \A r \in Runs : ~IsLocal(r)
    BY <1>q, <1>3, QuietReaper DEF ChildrenUnmet, IsLocal
  <2>a. ASSUME EndedKept, REAPER_UNCHANGED,
               \A o \in Reapers \ {p} : pass'[o] = pass[o],
               pass'[p].pc = "failed" => status'[pass'[p].run] \in Ended /\ ~pass'[p].retry
        PROVE  NothingReturns'
    BY <1>0, <1>q, <2>a DEF NothingReturns, PassHasRun, REAPER_UNCHANGED
  <2>b. ASSUME NEW left, GoOn(p, left)
        PROVE  pass'[p].pc # "failed" /\ \A o \in Reapers \ {p} : pass'[o] = pass[o]
    BY <1>0, <2>b DEF GoOn, IdlePass, MemoryTypes, PassType
  <2>1. CASE ReapStart(p)
    <3>1. pass'[p].pc # "failed" /\ \A o \in Reapers \ {p} : pass'[o] = pass[o]
      BY <1>0, <2>1 DEF ReapStart, MemoryTypes
    <3> QED
      BY <1>b, <2>1, <2>a, <3>1 DEF ReapStart, rows, locks
  <2>2. ASSUME NEW r \in Runs, ReapSkip(p, r) PROVE Goal
    BY <1>b, <2>2, <2>a, <2>b DEF ReapSkip, rows, locks
  <2>3. ASSUME NEW r \in Runs, ReapDetached(p, r) PROVE Goal
    BY <2>l, <2>3 DEF ReapDetached, Detachable
  <2>4. ASSUME NEW r \in Runs, ReapFail(p, r) PROVE Goal
    <3>1. /\ LockOfIssue' /\ ActiveHasLock' /\ AtMostOneActive'
          /\ EndedKept /\ status'[r] \in Ended
      BY <2>4, EndKeepsPath DEF ReapFail, locks, Ended
    <3>2. pass'[p].run = r /\ pass'[p].retry = FALSE
      BY <1>0, <2>l, <2>4 DEF ReapFail, MemoryTypes, PassType
    <3>3. \A o \in Reapers \ {p} : pass'[o] = pass[o]
      BY <1>0, <2>4 DEF ReapFail, MemoryTypes
    <3>4. NothingReturns'
      BY <2>4, <2>a, <3>1, <3>2, <3>3 DEF ReapFail
    <3> QED
      BY <3>1, <3>4
  <2>5. CASE ReapRetry(p)
    BY <1>0, <2>5 DEF ReapRetry, NothingReturns
  <2>6. CASE ReapRelease(p)
    <3>1. PICK r \in Runs : r = pass[p].run /\ status[r] \in Ended
      BY <1>0, <2>6 DEF ReapRelease, NothingReturns, PassHasRun
    <3>2. LockOfIssue' /\ ActiveHasLock' /\ AtMostOneActive' /\ EndedKept
      BY <2>6, <3>1, ReleaseKeepsPath DEF ReapRelease
    <3>3. NothingReturns'
      BY <2>6, <2>a, <2>b, <3>2 DEF ReapRelease
    <3> QED
      BY <3>2, <3>3
  <2> QED
    BY <1>3, <2>1, <2>2, <2>3, <2>4, <2>5, <2>6 DEF Reap
<1>4. ASSUME NEW r \in Runs, LeaseExpires(r) \/ StaleReap(r) PROVE Goal
  <2>1. CASE LeaseExpires(r) \/ StaleFind(r)
    BY <1>a, <1>b, <2>1 DEF LeaseExpires, StaleFind, STALE_UNCHANGED, rows
  <2>2. CASE StaleFail(r)
    <3>1. LockOfIssue' /\ ActiveHasLock' /\ AtMostOneActive' /\ EndedKept
      BY <2>2, EndKeepsPath DEF StaleFail, STALE_UNCHANGED, Ended
    <3> QED
      BY <1>a, <2>2, <3>1 DEF StaleFail, STALE_UNCHANGED
  <2>3. CASE StaleUnlock(r)
    <3>1. PathKept /\ EndedKept
      BY <1>0, <2>3 DEF StaleUnlock, STALE_UNCHANGED, Unlock, PathKept, rows, RowTypes, LockTypes
    <3> QED
      BY <1>a, <2>3, <3>1, KeptPath DEF StaleUnlock, STALE_UNCHANGED
  <2> QED
    BY <1>4, <2>1, <2>2, <2>3 DEF StaleReap
<1>5. ASSUME NEW r \in Runs, Cancel(r) PROVE Goal
  <2>a. ASSUME EndedKept, UNCHANGED <<exec, pass>>,
               canc'[r] = "written" => status'[r] \in Ended,
               \A q \in Runs \ {r} : canc'[q] = canc[q]
        PROVE  NothingReturns'
    BY <1>0, <1>q, <2>a DEF NothingReturns, PassHasRun
  <2>0. canc' = [canc EXCEPT ![r] = canc'[r]]
    BY <1>0, <1>5 DEF Cancel, CancelRead, CancelWrite, CancelRelease, MemoryTypes
  <2>b. \A q \in Runs \ {r} : canc'[q] = canc[q]
    BY <1>0, <2>0 DEF MemoryTypes
  <2>1. CASE CancelRead(r)
    BY <1>0, <1>b, <2>1, <2>a, <2>b DEF CancelRead, CANC_UNCHANGED, rows, locks, MemoryTypes
  <2>2. CASE CancelWrite(r)
    <3>1. /\ LockOfIssue' /\ ActiveHasLock' /\ AtMostOneActive'
          /\ EndedKept /\ status'[r] \in Ended
      BY <2>2, EndKeepsPath DEF CancelWrite, locks, Ended
    <3> QED
      BY <2>2, <2>a, <2>b, <3>1 DEF CancelWrite, CANC_UNCHANGED
  <2>3. CASE CancelRelease(r)
    <3>1. status[r] \in Ended
      BY <1>0, <2>3 DEF CancelRelease, NothingReturns
    <3>2. LockOfIssue' /\ ActiveHasLock' /\ AtMostOneActive' /\ EndedKept
      BY <2>3, <3>1, ReleaseKeepsPath DEF CancelRelease
    <3>3. canc'[r] = "none"
      BY <1>0, <2>3 DEF CancelRelease, MemoryTypes
    <3> QED
      BY <2>3, <2>a, <2>b, <3>2, <3>3 DEF CancelRelease, CANC_UNCHANGED
  <2> QED
    BY <1>5, <2>1, <2>2, <2>3 DEF Cancel
<1>6. ASSUME NEW r \in Runs, Close(r) PROVE Goal
  <2>1. adopting' = adopting /\ \A i \in Issues : lock'[i] \in {lock[i], None}
    BY <1>6 DEF Close
  <2>2. CASE SetRunStatus(r, "failed")
    <3>1. LockOfIssue' /\ ActiveHasLock' /\ AtMostOneActive' /\ EndedKept
      BY <2>1, <2>2, EndKeepsPath DEF Ended
    <3> QED
      BY <1>6, <1>a, <3>1 DEF Close
  <2>3. CASE UNCHANGED rows
    <3>1. PathKept /\ EndedKept
      BY <2>1, <2>3 DEF PathKept, rows
    <3> QED
      BY <1>6, <1>a, <3>1, KeptPath DEF Close
  <2> QED
    BY <1>6, <2>2, <2>3 DEF Close
<1>7. ASSUME NEW a \in Agents, Pause(a) \/ Unpause(a) PROVE Goal
  <2>1. UNCHANGED <<status, issue, lock, adopting, exec, child, pass>>
    BY <1>7 DEF Pause, Unpause, CANC_UNCHANGED, rows, locks
  <2>2. \A r \in Runs : canc'[r] = "written" => canc[r] = "written"
    BY <1>7 DEF Pause, Unpause
  <2> QED
    BY <1>0, <1>q, <1>b, <2>1, <2>2 DEF NothingReturns, PassHasRun
<1>8. ASSUME CloseFind \/ UNCHANGED vars PROVE Goal
  BY <1>a, <1>b, <1>8 DEF CloseFind, vars, rows, locks, memory
<1>9. ASSUME Crash PROVE Goal
  <2>1. /\ UNCHANGED <<status, issue, lock, child>>
        /\ \A i \in Issues : adopting'[i] \in {adopting[i], NotAdopting}
    BY <1>9 DEF Crash, rows, locks
  <2>2. NothingReturns'
    BY <1>0, <1>q, <1>9, <2>1 DEF Crash, NothingReturns, IdlePass, Releasing
  <2> QED
    BY <1>b, <2>1, <2>2
<1>10. Goal
  <2> HIDE DEF Goal
  <2> QED
    BY <1>1, <1>2, <1>3, <1>4, <1>5, <1>6, <1>7, <1>8, <1>9 DEF Next
<1> QED
  BY <1>0, <1>10 DEF PathInv

LEMMA PathInit == Init => PathInv
<1> SUFFICES ASSUME Init PROVE PathInv
  OBVIOUS
<1>1. NothingReturns /\ LockOfIssue /\ ActiveHasLock /\ AtMostOneActive
  BY DEF Init, NothingReturns, LockOfIssue, ActiveHasLock, AtMostOneActive, ActiveOn,
         Active, IdlePass, Releasing, Quiet, Free
<1> QED
  BY <1>1, TypeInit DEF PathInv

\* A set of runs with no two elements has at most one.
LEMMA PathIsCardinality == PathInv => OneActivePath
<1> SUFFICES ASSUME PathInv, NEW i \in Issues PROVE Cardinality(ActiveOn(i)) <= 1
  BY DEF OneActivePath
<1>1. CASE ActiveOn(i) = {}
  BY <1>1, FS_EmptySet
<1>2. ASSUME NEW r \in ActiveOn(i) PROVE Cardinality(ActiveOn(i)) <= 1
  <2>1. ActiveOn(i) = {r}
    BY <1>2 DEF PathInv, AtMostOneActive
  <2>2. Cardinality({r}) = 1
    BY FS_Singleton, Zenon
  <2> QED
    BY <2>1, <2>2
<1> QED
  BY <1>1, <1>2

\* An issue never has two active runs, whatever lease expiries, cancellations, pauses
\* and reconciler passes interleave, and, if no adapter runs a local child, whatever
\* restarts and silences, as long as no mention bypasses the lock and no statement of
\* an ending run fails.
THEOREM OneActivePathHolds ==
  ASSUME ChildrenUnmet, Faults \cap {"mention", "throw"} = {}
  PROVE  Spec => []OneActivePath
<1>1. Init => PathInv
  BY PathInit
<1>2. PathInv /\ [Next]_vars => PathInv'
  BY PathStep
<1>3. PathInv => OneActivePath
  BY PathIsCardinality
<1> QED
  BY <1>1, <1>2, <1>3, PTL DEF Spec
=============================================================================
