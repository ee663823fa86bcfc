-------------------------- MODULE IssueRuns_proofs --------------------------
(* Theorems about the runs of issues: what ends stays as it ended, the run *)
(* pool is implemented, and how often a lost run is retried.                *)
EXTENDS IssueExecution_proofs

-----------------------------------------------------------------------------
(* What is not among the faults does not happen. *)

Uneventful ==
  /\ Faults \cap {"cancel", "pause"} = {} => \A r \in Runs : canc[r] = "none"
  /\ "expire" \notin Faults => \A r \in Runs : stale[r] = "none" /\ lease[r] # "expired"
  /\ "reconcile" \notin Faults => closing = {}

\* What a step can do to what only faults bring about.
NothingBegins == /\ UNCHANGED <<canc, stale, closing>>
                 /\ \A r \in Runs : lease'[r] = "expired" => lease[r] = "expired"

LEMMA ReleaseExpiresNothing ==
  ASSUME TypeInv, NEW r \in Runs, ReleaseAndPromote(r)
  PROVE  \A q \in Runs : lease'[q] = "expired" => lease[q] = "expired"
<1>0. RowTypes /\ LockTypes
  BY TypeParts DEF TypeInv
<1>1. \A i \in Issues, q \in Runs : ReleaseLease(i)[q] = "expired" => lease[q] = "expired"
  BY <1>0 DEF ReleaseLease, RowTypes
<1> QED
  BY <1>1 DEF ReleaseAndPromote

LEMMA UneventfulStep == TypeInv /\ Uneventful /\ [Next]_vars => Uneventful'
<1> SUFFICES ASSUME TypeInv, Uneventful, [Next]_vars PROVE Uneventful'
  OBVIOUS
<1>0. RowTypes /\ LockTypes /\ MemoryTypes /\ PassHasRun
  BY TypeParts DEF TypeInv
<1>a. NothingBegins => Uneventful'
  BY DEF NothingBegins, Uneventful
<1>b. UNCHANGED rows => \A r \in Runs : lease'[r] = "expired" => lease[r] = "expired"
  BY DEF rows
<1>1. ASSUME NEW a \in Agents, NEW i \in Issues, Wake(a, i) PROVE NothingBegins
  <2>1. CASE WakeNew(a, i)
    BY <1>0, <2>1 DEF WakeNew, NothingBegins, RowTypes, memory
  <2>2. CASE WakeMention(a, i)
    BY <2>2 DEF WakeMention, NothingBegins, memory
  <2>3. CASE \/ WakeAdopt(i)
             \/ \E comment \in BOOLEAN : WakeDeferred(a, i, comment) \/ WakeFind(a, i, comment)
    BY <1>b, <2>3 DEF WakeDeferred, WakeFind, WakeAdopt, NothingBegins, memory
  <2> QED
    BY <1>1, <2>1, <2>2, <2>3 DEF Wake
<1>2. ASSUME NEW r \in Runs,
             Claim(r) \/ Execute(r) \/ Throw(r) \/ ChildExits(r) \/ ReportActivity(r)
      PROVE  NothingBegins
  <2>1. CASE Claim(r) \/ ReportActivity(r)
    BY <2>1 DEF Claim, ReportActivity, NothingBegins, memory
  <2>2. CASE \/ Launch(r) \/ SetupFails(r) \/ CallAdapter(r) \/ AdapterEnds(r)
             \/ ReadLatest(r) \/ Throw(r) \/ ChildExits(r)
    BY <1>b, <2>2 DEF Launch, SetupFails, CallAdapter, AdapterEnds, ReadLatest, Throw,
       ChildExits, EXEC_UNCHANGED, NothingBegins
  <2>3. CASE WriteOutcome(r) \/ ApplyPolicy(r)
    BY <1>b, <2>3 DEF WriteOutcome, ApplyPolicy, SetRunStatus, NothingBegins
  <2>4. CASE Release(r)
    BY <2>4, ReleaseExpiresNothing DEF Release, NothingBegins
  <2> QED
    BY <1>2, <2>1, <2>2, <2>3, <2>4 DEF Execute
<1>3. ASSUME NEW p \in Reapers, Reap(p) PROVE NothingBegins
  <2>1. CASE ReapStart(p) \/ \E r \in Runs : ReapSkip(p, r)
    BY <1>b, <2>1 DEF ReapStart, ReapSkip, REAPER_UNCHANGED, NothingBegins
  <2>2. CASE ReapRetry(p)
    BY <2>2 DEF ReapRetry, REAPER_UNCHANGED, NothingBegins
  <2>3. CASE ReapRelease(p)
    BY <1>0, <2>3, ReleaseExpiresNothing
       DEF ReapRelease, PassHasRun, REAPER_UNCHANGED, NothingBegins
  <2>4. CASE \E r \in Runs : ReapDetached(p, r) \/ ReapFail(p, r)
    BY <1>b, <2>4 DEF ReapDetached, ReapFail, SetRunStatus, REAPER_UNCHANGED, NothingBegins
  <2> QED
    BY <1>3, <2>1, <2>2, <2>3, <2>4 DEF Reap
<1>4. ASSUME NEW r \in Runs, LeaseExpires(r) \/ StaleReap(r) PROVE Uneventful'
  <2>1. "expire" \in Faults
    BY <1>4 DEF Uneventful, LeaseExpires, StaleReap, StaleFind, StaleFail, StaleUnlock
  <2>2. UNCHANGED <<canc, closing>>
    BY <1>4 DEF LeaseExpires, StaleReap, StaleFind, StaleFail, StaleUnlock, STALE_UNCHANGED
  <2> QED
    BY <2>1, <2>2 DEF Uneventful
<1>5. ASSUME \/ \E r \in Runs : Cancel(r)
             \/ \E a \in Agents : Pause(a)
      PROVE  Uneventful'
  <2>1. Faults \cap {"cancel", "pause"} # {}
    BY <1>5 DEF Uneventful, Cancel, CancelRead, CancelWrite, CancelRelease, Pause
  <2>2. UNCHANGED <<stale, closing>>
    BY <1>5 DEF Cancel, CancelRead, CancelWrite, CancelRelease, Pause, CANC_UNCHANGED
  <2>3. \A r \in Runs : lease'[r] = "expired" => lease[r] = "expired"
    BY <1>b, <1>5, ReleaseExpiresNothing
       DEF Cancel, CancelRead, CancelWrite, CancelRelease, Pause, SetRunStatus
  <2> QED
    BY <2>1, <2>2, <2>3 DEF Uneventful
<1>6. ASSUME CloseFind \/ \E r \in Runs : Close(r) PROVE Uneventful'
  <2>1. "reconcile" \in Faults
    BY <1>6 DEF Uneventful, CloseFind, Close
  <2>2. UNCHANGED <<canc, stale>> /\ \A r \in Runs : lease'[r] = "expired" => lease[r] = "expired"
    BY <1>b, <1>6 DEF CloseFind, Close, SetRunStatus
  <2> QED
    BY <2>1, <2>2 DEF Uneventful
<1>7. ASSUME Crash PROVE Uneventful'
  BY <1>7 DEF Crash, Uneventful, rows
<1>8. ASSUME UNCHANGED vars \/ \E a \in Agents : Unpause(a) PROVE NothingBegins
  BY <1>b, <1>8 DEF Unpause, CANC_UNCHANGED, vars, memory, NothingBegins
<1> QED
  BY <1>a, <1>1, <1>2, <1>3, <1>4, <1>5, <1>6, <1>7, <1>8 DEF Next

LEMMA UneventfulInit == Init => Uneventful
BY DEF Init, Uneventful

-----------------------------------------------------------------------------
(* The rows of runs, when the server may restart and agents may be mentioned, *)
(* and nothing else goes wrong.                                               *)

Unwritten == {"claimed", "setup", "adapter", "exit", "wrOk", "wrFail", "wrThrown"}

\* An execution and its row agree; a living child belongs to a running run; a run
\* on a pass's list is executed by nobody, and failed only if its child was dead.
RunOk(r) ==
  /\ exec[r] \in Unwritten => status[r] = "running"
  /\ exec[r] \in {"relOk", "policy"} => status[r] = "succeeded"
  /\ exec[r] \in {"relBad", "relThrown"} => status[r] = "failed"
  /\ exec[r] \notin {"wrCancel", "wrLast", "relLast"}
  /\ child[r] = "alive" => /\ IsLocal(r) /\ status[r] = "running"
                           /\ exec[r] \in {"adapter", "none"}
  /\ \A p \in Reapers : r \in pass[p].todo =>
       /\ exec[r] = "none" /\ status[r] \in {"running", "failed"}
       /\ child[r] = "alive" => r \in pass[p].pids

RunInv == TypeInv /\ Uneventful /\ \A r \in Runs : RunOk(r)

\* The row of r is inserted or left alone.
RowKept(r) == /\ status'[r] = status[r] \/ (status[r] = "none" /\ status'[r] = "queued")
              /\ status[r] # "none" => agent'[r] = agent[r]

PassesShrink == \A p \in Reapers : /\ pass'[p].todo \subseteq pass[p].todo
                                   /\ pass'[p].todo # {} => pass'[p].pids = pass[p].pids

\* What happens to other runs leaves a run as it should be.
LEMMA KeptOk ==
  ASSUME NEW r \in Runs, RunOk(r), RowKept(r), exec'[r] = exec[r], child'[r] = child[r],
         PassesShrink
  PROVE  RunOk(r)'
BY DEF RunOk, RowKept, PassesShrink, Unwritten, IsLocal

LEMMA ReleaseKeepsRow ==
  ASSUME TypeInv, NEW r \in Runs, ReleaseAndPromote(r)
  PROVE  \A q \in Runs : RowKept(q)
<1>0. RowTypes
  BY TypeParts DEF TypeInv
<1> QED
  BY <1>0 DEF ReleaseAndPromote, Promote, Insert, IsNext, Unused, RowKept, RowTypes

LEMMA SetStatusKeepsOthers ==
  ASSUME TypeInv, NEW r \in Runs, NEW s, SetRunStatus(r, s)
  PROVE  /\ \A q \in Runs \ {r} : RowKept(q)
         /\ status'[r] = s /\ agent'[r] = agent[r]
BY TypeParts DEF TypeInv, RowTypes, SetRunStatus, RowKept

\* One step of the execution of r.
LEMMA ExecuteOk ==
  ASSUME RunInv, Faults \subseteq {"crash", "mention"}, NEW r \in Runs,
         Claim(r) \/ Execute(r) \/ Throw(r) \/ ChildExits(r) \/ ReportActivity(r)
  PROVE  \A q \in Runs : RunOk(q)'
<1>0. /\ TypeInv /\ RowTypes /\ MemoryTypes /\ RunOk(r)
  BY TypeParts DEF RunInv, TypeInv
<1>a. UNCHANGED rows => \A q \in Runs : RowKept(q)
  BY DEF rows, RowKept
<1>b. UNCHANGED pass
  BY DEF Claim, Execute, Launch, SetupFails, CallAdapter, AdapterEnds, ReadLatest, WriteOutcome,
     Release, ApplyPolicy, Throw, ChildExits, ReportActivity, EXEC_UNCHANGED, memory
<1>c. \A q \in Runs \ {r} : exec'[q] = exec[q] /\ child'[q] = child[q]
  BY <1>0 DEF Claim, Execute, Launch, SetupFails, CallAdapter, AdapterEnds, ReadLatest, WriteOutcome,
     Release, ApplyPolicy, Throw, ChildExits, ReportActivity, EXEC_UNCHANGED, Goes, memory,
     MemoryTypes
<1>d. ASSUME \A q \in Runs \ {r} : RowKept(q), RunOk(r)' PROVE \A q \in Runs : RunOk(q)'
  <2>1. PassesShrink
    BY <1>b DEF PassesShrink
  <2> QED
    BY <1>c, <1>d, <2>1, KeptOk DEF RunInv
<1>1. CASE Claim(r)
  <2>1. /\ \A q \in Runs \ {r} : RowKept(q)
        /\ status[r] = "queued" /\ status'[r] = "running" /\ exec'[r] = "claimed"
        /\ child'[r] = child[r]
    BY <1>0, <1>1 DEF Claim, RowKept, RowTypes, MemoryTypes
  <2>2. RunOk(r)'
    BY <1>0, <1>b, <2>1 DEF RunOk, Unwritten
  <2> QED
    BY <1>d, <2>1, <2>2
<1>2. CASE Launch(r) \/ SetupFails(r) \/ CallAdapter(r) \/ AdapterEnds(r) \/ ReadLatest(r)
           \/ ChildExits(r)
  <2>1. UNCHANGED rows
    BY <1>2 DEF Launch, SetupFails, CallAdapter, AdapterEnds, ReadLatest, ChildExits, EXEC_UNCHANGED
  <2>2. /\ exec[r] \in Unwritten \cup {"none"} /\ exec'[r] \in Unwritten \cup {"none"}
        /\ exec[r] = "none" <=> exec'[r] = "none"
        /\ child'[r] = "alive" => \/ child[r] = "alive" /\ exec'[r] = exec[r]
                                  \/ IsLocal(r) /\ exec'[r] = "adapter"
    BY <1>0, <1>2 DEF Launch, SetupFails, CallAdapter, AdapterEnds, ReadLatest, ChildExits,
       EXEC_UNCHANGED, Goes, MemoryTypes, RunOk, Unwritten, Active
  <2>3. RunOk(r)'
    BY <1>0, <1>b, <2>1, <2>2 DEF RunOk, Unwritten, rows, IsLocal
  <2> QED
    BY <1>a, <1>d, <2>1, <2>3
<1>3. CASE WriteOutcome(r)
  <2>1. PICK s \in Ended : SetRunStatus(r, s)
    BY <1>3 DEF WriteOutcome, Ended
  <2>2. /\ \A q \in Runs \ {r} : RowKept(q)
        /\ status'[r] = s /\ child'[r] = child[r]
    BY <1>0, <1>3, <2>1, SetStatusKeepsOthers DEF WriteOutcome
  <2>3. \/ exec'[r] = "relOk" /\ status'[r] = "succeeded"
        \/ exec'[r] \in {"relBad", "relThrown"} /\ status'[r] = "failed"
    BY <1>0, <1>3 DEF WriteOutcome, Goes, SetRunStatus, RowTypes, MemoryTypes, RunOk
  <2>4. child[r] # "alive" /\ exec[r] # "none"
    BY <1>0, <1>3 DEF WriteOutcome, Goes, RunOk
  <2>5. RunOk(r)'
    BY <1>0, <1>b, <2>2, <2>3, <2>4 DEF RunOk, Unwritten
  <2> QED
    BY <1>d, <2>2, <2>5
<1>4. CASE Release(r)
  <2>1. /\ \A q \in Runs : RowKept(q)
        /\ child'[r] = child[r]
    BY <1>0, <1>4, ReleaseKeepsRow DEF Release
  <2>2. \/ exec[r] = "relOk" /\ exec'[r] = "policy"
        \/ exec[r] \in {"relBad", "relThrown"} /\ exec'[r] = "none"
    BY <1>0, <1>4 DEF Release, Goes, MemoryTypes, Releasing, RunOk
  <2>3. RunOk(r)'
    BY <1>0, <1>b, <2>1, <2>2 DEF RunOk, RowKept, Unwritten
  <2> QED
    BY <1>d, <2>1, <2>3
<1>5. CASE ApplyPolicy(r)
  <2>1. /\ exec[r] = "policy" /\ exec'[r] = "none" /\ child'[r] = child[r]
    BY <1>0, <1>5 DEF ApplyPolicy, Goes, MemoryTypes
  <2>2. \A q \in Runs \ {r} : RowKept(q)
    BY <1>0, <1>a, <1>5, SetStatusKeepsOthers DEF ApplyPolicy
  <2>3. RunOk(r)'
    BY <1>0, <1>b, <2>1 DEF RunOk, Unwritten
  <2> QED
    BY <1>d, <2>2, <2>3
<1>6. CASE Throw(r)
  BY <1>6 DEF Throw
<1>7. CASE ReportActivity(r)
  <2>1. \A q \in Runs : RowKept(q)
    BY <1>7 DEF ReportActivity, RowKept
  <2> QED
    BY <1>0, <1>b, <1>d, <1>7, <2>1, KeptOk DEF ReportActivity, memory, PassesShrink
<1> QED
  BY <1>1, <1>2, <1>3, <1>4, <1>5, <1>6, <1>7 DEF Execute

LEMMA ReapOk ==
  ASSUME RunInv, Faults \subseteq {"crash", "mention"}, NEW p \in Reapers, Reap(p)
  PROVE  \A q \in Runs : RunOk(q)'
<1>0. TypeInv /\ RowTypes /\ MemoryTypes /\ PassHasRun /\ \A q \in Runs : RunOk(q)
  BY TypeParts DEF RunInv, TypeInv
<1>a. UNCHANGED <<exec, child>>
  BY DEF Reap, ReapStart, ReapSkip, ReapDetached, ReapFail, ReapRetry, ReapRelease, REAPER_UNCHANGED
<1>b. \A left : GoOn(p, left) /\ left \subseteq pass[p].todo => PassesShrink
  BY <1>0 DEF GoOn, IdlePass, PassesShrink, MemoryTypes, PassType
<1>c. (\A q \in Runs : RowKept(q)) /\ PassesShrink => \A q \in Runs : RunOk(q)'
  BY <1>0, <1>a, KeptOk
<1>1. CASE ReapStart(p)
  <2>1. /\ UNCHANGED rows
        /\ pass'[p].todo = StaleRunning
        /\ pass'[p].pids = {r \in StaleRunning : child[r] # "none"}
        /\ \A o \in Reapers \ {p} : pass'[o] = pass[o]
    BY <1>0, <1>1 DEF ReapStart, MemoryTypes
  <2>2. \A r \in StaleRunning : status[r] = "running" /\ exec[r] = "none"
    BY DEF StaleRunning
  <2> QED
    BY <1>0, <1>a, <2>1, <2>2 DEF RunOk, rows, IsLocal
<1>2. ASSUME NEW r \in Runs, ReapSkip(p, r) PROVE \A q \in Runs : RunOk(q)'
  BY <1>b, <1>c, <1>2 DEF ReapSkip, rows, RowKept
<1>3. ASSUME NEW r \in Runs, ReapDetached(p, r) PROVE \A q \in Runs : RunOk(q)'
  <2>1. status[r] = "running"
    BY <1>0, <1>3 DEF ReapDetached, Detachable, RunOk
  <2>2. \A q \in Runs : RowKept(q)
    BY <1>0, <1>3, <2>1, SetStatusKeepsOthers DEF ReapDetached, rows, RowKept
  <2> QED
    BY <1>b, <1>c, <1>3, <2>2 DEF ReapDetached
<1>4. ASSUME NEW r \in Runs, ReapFail(p, r) PROVE \A q \in Runs : RunOk(q)'
  <2>1. exec[r] = "none" /\ status[r] \in {"running", "failed"} /\ child[r] # "alive"
    BY <1>0, <1>4 DEF ReapFail, Detachable, RunOk
  <2>2. status'[r] = "failed" /\ \A q \in Runs \ {r} : RowKept(q)
    BY <1>0, <1>4, SetStatusKeepsOthers DEF ReapFail
  <2>3. PassesShrink
    BY <1>0, <1>4 DEF ReapFail, PassesShrink, MemoryTypes, PassType
  <2>4. RunOk(r)'
    BY <1>0, <1>a, <2>1, <2>2, <2>3 DEF RunOk, PassesShrink, Unwritten
  <2> QED
    BY <1>0, <1>a, <2>2, <2>3, <2>4, KeptOk
<1>5. CASE ReapRetry(p)
  <2>1. \A q \in Runs : RowKept(q)
    BY <1>0, <1>5 DEF ReapRetry, Insert, IsNext, Unused, RowKept, RowTypes
  <2> QED
    BY <1>b, <1>c, <1>5, <2>1 DEF ReapRetry
<1>6. CASE ReapRelease(p)
  <2>1. \A q \in Runs : RowKept(q)
    BY <1>0, <1>6, ReleaseKeepsRow DEF ReapRelease, PassHasRun
  <2> QED
    BY <1>b, <1>c, <1>6, <2>1 DEF ReapRelease
<1> QED
  BY <1>1, <1>2, <1>3, <1>4, <1>5, <1>6 DEF Reap

LEMMA RunStep ==
  ASSUME Faults \subseteq {"crash", "mention"}, RunInv, [Next]_vars
  PROVE  RunInv'
<1>0. /\ TypeInv /\ RowTypes /\ Uneventful /\ (\A q \in Runs : RunOk(q))
      /\ TypeInv' /\ Uneventful'
  BY TypeStep, TypeParts, UneventfulStep DEF RunInv, TypeInv
<1>a. ASSUME \A q \in Runs : RowKept(q), UNCHANGED <<exec, child, pass>>
      PROVE  \A q \in Runs : RunOk(q)'
  BY <1>0, <1>a, KeptOk DEF PassesShrink
<1>1. ASSUME NEW a \in Agents, NEW i \in Issues, Wake(a, i) PROVE \A q \in Runs : RunOk(q)'
  <2>1. \A q \in Runs : RowKept(q)
    BY <1>0, <1>1 DEF Wake, WakeNew, WakeMention, WakeDeferred, WakeFind, WakeAdopt, Insert, IsNext,
       Unused, rows, RowKept, RowTypes
  <2> QED
    BY <1>a, <1>1, <2>1 DEF Wake, WakeNew, WakeMention, WakeDeferred, WakeFind, WakeAdopt, memory
<1>2. ASSUME NEW r \in Runs, LeaseExpires(r) \/ StaleReap(r) \/ Cancel(r) \/ Close(r) PROVE FALSE
  BY <1>0, <1>2 DEF Uneventful, LeaseExpires, StaleReap, StaleFind, StaleFail, StaleUnlock,
     Cancel, CancelRead, CancelWrite, CancelRelease, Close
<1>3. ASSUME (\E a \in Agents : Pause(a)) \/ CloseFind PROVE FALSE
  BY <1>3 DEF Pause, CloseFind
<1>4. ASSUME UNCHANGED vars \/ \E a \in Agents : Unpause(a) PROVE \A q \in Runs : RunOk(q)'
  BY <1>a, <1>4 DEF Unpause, CANC_UNCHANGED, vars, memory, rows, RowKept
<1>5. ASSUME Crash PROVE \A q \in Runs : RunOk(q)'
  <2>1. UNCHANGED <<status, agent, child>> /\ \A q \in Runs : exec'[q] = "none"
    BY <1>5 DEF Crash, rows
  <2>2. \A p \in Reapers : pass'[p].todo = {}
    BY <1>5 DEF Crash, IdlePass
  <2> QED
    BY <1>0, <2>1, <2>2 DEF RunOk, IsLocal, Unwritten
<1>6. \A q \in Runs : RunOk(q)'
  BY <1>1, <1>2, <1>3, <1>4, <1>5, ExecuteOk, ReapOk DEF Next
<1> QED
  BY <1>0, <1>6 DEF RunInv

LEMMA RunInit == Init => RunInv
<1> SUFFICES ASSUME Init PROVE RunInv
  OBVIOUS
<1>1. \A r \in Runs : RunOk(r)
  BY DEF Init, RunOk, Unwritten, IdlePass
<1> QED
  BY <1>1, TypeInit, UneventfulInit DEF RunInv

-----------------------------------------------------------------------------
(* What a step does to the rows' statuses is what the run pool allows. *)

\* The instance of RunPool has a Cardinality of its own, with the same definition.
LEMMA PoolCardinality == \A S : Pool!Cardinality(S) = Cardinality(S)
BY DEF Pool!Cardinality, Cardinality

\* A success is rejected by the terminal-state policy alone.
PoolMoves ==
  \/ UNCHANGED <<status, agent>>
  \/ \E r \in Runs : \/ \E a \in Agents : Pool!Create(r, a)
                     \/ Pool!Start(r) \/ Pool!End(r)
                     \/ exec[r] = "policy" /\ Pool!Reject(r)

LEMMA InsertCreates ==
  ASSUME NEW n \in Runs, NEW a \in Agents, NEW i, NEW lost, Insert(n, a, i, lost)
  PROVE  PoolMoves
BY DEF Insert, IsNext, Unused, Pool!Create, PoolMoves

LEMMA EndEnds ==
  ASSUME NEW r \in Runs, NEW s \in Ended, SetRunStatus(r, s), status[r] \in {"running", s}, TypeInv
  PROVE  PoolMoves
<1>1. CASE status[r] = "running"
  BY <1>1 DEF SetRunStatus, Ended, PoolMoves, Pool!End, Pool!Ended, Pool!Active
<1>2. CASE status[r] = s
  BY <1>2, TypeParts DEF SetRunStatus, PoolMoves, TypeInv, RowTypes
<1> QED
  BY <1>1, <1>2

LEMMA ReleaseMoves ==
  ASSUME TypeInv, NEW r \in Runs, ReleaseAndPromote(r)
  PROVE  PoolMoves
<1>1. LockTypes
  BY TypeParts DEF TypeInv
<1>2. ASSUME NEW i \in Issues, NEW k \in DOMAIN deferred[i], NEW n \in Runs,
             Promote(i, n, deferred[i][k])
      PROVE  PoolMoves
  BY <1>1, <1>2, RestType, InsertCreates DEF Promote
<1>3. CASE UNCHANGED <<status, agent>>
  BY <1>3 DEF PoolMoves
<1> QED
  BY <1>2, <1>3 DEF ReleaseAndPromote

LEMMA StepMoves ==
  ASSUME Faults \subseteq {"crash", "mention"}, RunInv, [Next]_vars
  PROVE  PoolMoves
<1>0. /\ TypeInv /\ RowTypes /\ MemoryTypes /\ PassHasRun /\ Uneventful
      /\ \A q \in Runs : RunOk(q)
  BY TypeParts DEF RunInv, TypeInv
<1>a. UNCHANGED rows => PoolMoves
  BY DEF rows, PoolMoves
<1>1. ASSUME NEW a \in Agents, NEW i \in Issues, Wake(a, i) PROVE PoolMoves
  BY <1>a, <1>1, InsertCreates DEF Wake, WakeNew, WakeMention, WakeDeferred, WakeFind, WakeAdopt
<1>2. ASSUME NEW r \in Runs,
             Claim(r) \/ Execute(r) \/ Throw(r) \/ ChildExits(r) \/ ReportActivity(r)
      PROVE  PoolMoves
  <2>1. CASE Claim(r)
    <3>1. Pool!RunningOf(agent[r]) = RunningOf(agent[r])
      BY DEF Pool!RunningOf, RunningOf
    <3>2. Pool!Cardinality(Pool!RunningOf(agent[r])) < MaxConcurrent
      BY <2>1, <3>1, PoolCardinality DEF Claim
    <3>3. Pool!Start(r)
      BY <2>1, <3>2, Zenon DEF Claim, Pool!Start
    <3> QED
      BY <3>3 DEF PoolMoves
  <2>2. CASE WriteOutcome(r)
    <3>1. PICK s \in Ended : SetRunStatus(r, s)
      BY <2>2 DEF WriteOutcome, Ended
    <3>2. status[r] = "running"
      BY <1>0, <2>2 DEF WriteOutcome, Goes, RunOk, Unwritten
    <3> QED
      BY <1>0, <3>1, <3>2, EndEnds
  <2>3. CASE ApplyPolicy(r)
    <3>1. exec[r] = "policy" /\ status[r] = "succeeded"
      BY <1>0, <2>3 DEF ApplyPolicy, Goes, RunOk
    <3>2. CASE SetRunStatus(r, "failed")
      BY <3>1, <3>2 DEF SetRunStatus, PoolMoves, Pool!Reject
    <3> QED
      BY <1>a, <2>3, <3>2 DEF ApplyPolicy
  <2>4. CASE Release(r)
    BY <1>0, <2>4, ReleaseMoves DEF Release
  <2>5. CASE \/ Launch(r) \/ SetupFails(r) \/ CallAdapter(r) \/ AdapterEnds(r)
             \/ ReadLatest(r) \/ Throw(r) \/ ChildExits(r)
    BY <1>a, <2>5 DEF Launch, SetupFails, CallAdapter, AdapterEnds, ReadLatest, Throw,
       ChildExits, EXEC_UNCHANGED
  <2>6. CASE ReportActivity(r)
    BY <2>6 DEF ReportActivity, PoolMoves
  <2> QED
    BY <1>2, <2>1, <2>2, <2>3, <2>4, <2>5, <2>6 DEF Execute
<1>3. ASSUME NEW p \in Reapers, Reap(p) PROVE PoolMoves
  <2>1. CASE ReapStart(p) \/ \E r \in Runs : ReapSkip(p, r)
    BY <1>a, <2>1 DEF ReapStart, ReapSkip
  <2>2. ASSUME NEW r \in Runs, ReapDetached(p, r) PROVE PoolMoves
    <3>1. status[r] = "running"
      BY <1>0, <2>2 DEF ReapDetached, Detachable, RunOk
    <3> QED
      BY <1>0, <1>a, <2>2, <3>1 DEF ReapDetached, SetRunStatus, PoolMoves, RowTypes
  <2>3. ASSUME NEW r \in Runs, ReapFail(p, r) PROVE PoolMoves
    <3>1. status[r] \in {"running", "failed"}
      BY <1>0, <2>3 DEF ReapFail, RunOk
    <3> QED
      BY <1>0, <2>3, <3>1, EndEnds DEF ReapFail, Ended
  <2>4. CASE ReapRetry(p)
    BY <1>0, <2>4, InsertCreates DEF ReapRetry, PassHasRun, RowTypes
  <2>5. CASE ReapRelease(p)
    BY <1>0, <2>5, ReleaseMoves DEF ReapRelease, PassHasRun
  <2> QED
    BY <1>3, <2>1, <2>2, <2>3, <2>4, <2>5 DEF Reap
<1>4. ASSUME NEW r \in Runs, LeaseExpires(r) \/ StaleReap(r) \/ Cancel(r) \/ Close(r) PROVE FALSE
  BY <1>0, <1>4 DEF Uneventful, LeaseExpires, StaleReap, StaleFind, StaleFail, StaleUnlock,
     Cancel, CancelRead, CancelWrite, CancelRelease, Close
<1>5. ASSUME \/ \E a \in Agents : Pause(a) \/ Unpause(a)
             \/ CloseFind \/ Crash \/ UNCHANGED vars
      PROVE  PoolMoves
  BY <1>a, <1>5 DEF Pause, Unpause, CloseFind, Crash, vars
<1> QED
  BY <1>1, <1>2, <1>3, <1>4, <1>5 DEF Next

\* An ended run stays as it ended, however many restarts, orphan-reaper passes, living
\* children and mentions there are: no late answer and no reaper overwrites an outcome
\* with another, but for the terminal-state policy.  (With any other fault one does.)
THEOREM EndedRunsStayEnded ==
  ASSUME Faults \subseteq {"crash", "mention"}
  PROVE  Spec => EndedStaysEnded
<1>1. ASSUME RunInv, PoolMoves, NEW r \in Runs, status[r] \in Ended
      PROVE  \/ status'[r] = status[r]
             \/ status[r] = "succeeded" /\ exec[r] = "policy" /\ status'[r] = "failed"
  <2>1. RowTypes
    BY <1>1, TypeParts DEF RunInv, TypeInv
  <2>2. PICK q \in Runs : \/ UNCHANGED status
                          \/ \E a \in Agents : Pool!Create(q, a)
                          \/ Pool!Start(q) \/ Pool!End(q)
                          \/ exec[q] = "policy" /\ Pool!Reject(q)
    BY <1>1 DEF PoolMoves
  <2> QED
    BY <1>1, <2>1, <2>2 DEF RowTypes, Ended, Pool!Create, Pool!Start, Pool!End, Pool!Reject,
       Pool!Active
<1>2. RunInv /\ [Next]_vars => RunInv'
  BY RunStep
<1>3. RunInv /\ [Next]_vars =>
        [\A r \in Runs : status[r] \in Ended =>
           \/ status'[r] = status[r]
           \/ status[r] = "succeeded" /\ exec[r] = "policy" /\ status'[r] = "failed"]_vars
  BY <1>1, StepMoves
<1> QED
  BY <1>2, <1>3, RunInit, PTL DEF Spec, EndedStaysEnded

\* Under the same faults issue execution implements the run pool: an agent's running
\* runs keep to its limit, a run starts once, and is over once.
THEOREM PoolImplemented ==
  ASSUME Faults \subseteq {"crash", "mention"}
  PROVE  Spec => ImplementsPool
<1>1. Init => Pool!Init
  BY ExecutionAssumption DEF Init, Pool!Init, ExecutionAssumption
<1>2. RunInv /\ [Next]_vars => [Pool!Next]_(Pool!vars)
  BY StepMoves DEF PoolMoves, Pool!Next, Pool!vars
<1>3. RunInv /\ [Next]_vars => RunInv'
  BY RunStep
<1> QED
  BY <1>1, <1>2, <1>3, RunInit, PTL DEF Spec, ImplementsPool, Pool!Spec

-----------------------------------------------------------------------------
(* Retries, however many passes of the orphan reaper overlap. *)

\* What any step does to a run's status, its execution and its child: only a queued run
\* or one with a living child is set running, and a child is started once.
Moves(r) ==
  /\ \/ status'[r] = status[r] \/ status'[r] \in Ended
     \/ status[r] = "none" /\ status'[r] = "queued"
     \/ status'[r] = "running" /\ (status[r] = "queued" \/ child[r] = "alive")
  /\ \/ exec'[r] \in {exec[r], "none"}
     \/ status[r] = "queued" /\ status'[r] = "running" /\ exec'[r] = "claimed"
     \/ exec[r] = "claimed" /\ exec'[r] = "setup"
     \/ exec[r] # "none" /\ exec'[r] \notin {"claimed", "setup"}
  /\ \/ child'[r] = child[r]
     \/ exec[r] = "setup" /\ exec'[r] = "adapter" /\ child'[r] = "alive"
     \/ child[r] = "alive" /\ child'[r] = "dead"

\* No run is inserted that retries another.
NoRetry == \A r \in Runs : retryOf'[r] \in {retryOf[r], None}

LEMMA RowsMove ==
  ASSUME TypeInv, UNCHANGED <<exec, child>>, NEW r \in Runs,
         \/ ReleaseAndPromote(r)
         \/ \E s \in Ended : SetRunStatus(r, s)
         \/ child[r] = "alive" /\ SetRunStatus(r, "running")
         \/ \E a \in Agents, i \in Issues : Insert(r, a, i, None)
         \/ UNCHANGED rows
  PROVE  NoRetry /\ \A q \in Runs : Moves(q)
<1>0. RowTypes /\ LockTypes
  BY TypeParts DEF TypeInv
<1>1. ASSUME NEW n \in Runs, NEW a, NEW i, Insert(n, a, i, None)
      PROVE  NoRetry /\ \A q \in Runs : Moves(q)
  BY <1>0, <1>1 DEF Insert, IsNext, Unused, NoRetry, Moves, RowTypes
<1>2. ASSUME NEW s, SetRunStatus(r, s), s \in Ended \/ (child[r] = "alive" /\ s = "running")
      PROVE  NoRetry /\ \A q \in Runs : Moves(q)
  BY <1>0, <1>2 DEF SetRunStatus, NoRetry, Moves, RowTypes
<1>3. UNCHANGED <<status, retryOf>> => NoRetry /\ \A q \in Runs : Moves(q)
  BY DEF NoRetry, Moves
<1> QED
  BY <1>1, <1>2, <1>3 DEF ReleaseAndPromote, Promote, rows

LEMMA ExecuteMoves ==
  ASSUME TypeInv, NEW r \in Runs,
         Claim(r) \/ Execute(r) \/ Throw(r) \/ ChildExits(r) \/ ReportActivity(r)
  PROVE  NoRetry /\ \A q \in Runs : Moves(q)
<1>0. RowTypes /\ MemoryTypes
  BY TypeParts DEF TypeInv
<1>1. CASE Claim(r)
  BY <1>0, <1>1 DEF Claim, NoRetry, Moves, RowTypes, MemoryTypes
<1>2. CASE ReportActivity(r)
  BY <1>2 DEF ReportActivity, memory, NoRetry, Moves
<1>3. CASE Launch(r) \/ SetupFails(r) \/ CallAdapter(r) \/ AdapterEnds(r) \/ ReadLatest(r)
           \/ Throw(r) \/ ChildExits(r)
  <2>1. UNCHANGED <<status, retryOf>>
    BY <1>3 DEF Launch, SetupFails, CallAdapter, AdapterEnds, ReadLatest, Throw, ChildExits,
       EXEC_UNCHANGED, rows
  <2>2. \A q \in Runs \ {r} : exec'[q] = exec[q] /\ child'[q] = child[q]
    BY <1>0, <1>3 DEF Launch, SetupFails, CallAdapter, AdapterEnds, ReadLatest, Throw,
       ChildExits, EXEC_UNCHANGED, Goes, MemoryTypes
  <2>3. Moves(r)
    BY <1>0, <1>3, <2>1 DEF Launch, SetupFails, CallAdapter, AdapterEnds, ReadLatest, Throw,
       ChildExits, EXEC_UNCHANGED, Goes, MemoryTypes, Moves, Returned, Releasing
  <2> QED
    BY <2>1, <2>2, <2>3 DEF NoRetry, Moves
<1>4. CASE WriteOutcome(r) \/ Release(r) \/ ApplyPolicy(r)
  <2>1. \/ ReleaseAndPromote(r) \/ UNCHANGED rows
        \/ \E s \in Ended : SetRunStatus(r, s)
    BY <1>4 DEF WriteOutcome, Release, ApplyPolicy, Ended
  <2>2. /\ \A q \in Runs \ {r} : exec'[q] = exec[q]
        /\ child' = child
        /\ exec[r] # "none" /\ exec'[r] \notin {"claimed", "setup"}
    BY <1>0, <1>4 DEF WriteOutcome, Release, ApplyPolicy, Goes, MemoryTypes, Releasing
  <2>3. CASE UNCHANGED rows
    BY <2>2, <2>3 DEF rows, NoRetry, Moves
  <2>4. CASE \E s \in Ended : SetRunStatus(r, s)
    BY <1>0, <2>2, <2>4 DEF SetRunStatus, RowTypes, NoRetry, Moves
  <2>5. CASE ReleaseAndPromote(r)
    <3>1. \A q \in Runs : status'[q] = status[q] \/ (status[q] = "none" /\ status'[q] = "queued")
      BY <2>5, ReleaseKeepsRow DEF RowKept
    <3>2. NoRetry
      BY <1>0, <2>5 DEF ReleaseAndPromote, Promote, Insert, NoRetry, RowTypes
    <3> QED
      BY <2>2, <3>1, <3>2 DEF Moves
  <2> QED
    BY <2>1, <2>3, <2>4, <2>5
<1> QED
  BY <1>1, <1>2, <1>3, <1>4 DEF Execute

\* All steps but one.
LEMMA StepMovesRuns ==
  ASSUME TypeInv, [Next]_vars
  PROVE  /\ \A q \in Runs : Moves(q)
         /\ NoRetry \/ \E p \in Reapers : ReapRetry(p)
<1> DEFINE Goal == NoRetry /\ \A q \in Runs : Moves(q)
<1>0. RowTypes /\ LockTypes /\ MemoryTypes /\ PassHasRun
  BY TypeParts DEF TypeInv
<1>a. UNCHANGED <<rows, exec, child>> => Goal
  BY DEF rows, NoRetry, Moves
<1>1. ASSUME NEW a \in Agents, NEW i \in Issues, Wake(a, i) PROVE Goal
  <2>1. UNCHANGED <<exec, child>>
    BY <1>1 DEF Wake, WakeNew, WakeMention, WakeDeferred, WakeFind, WakeAdopt, memory
  <2>2. UNCHANGED rows \/ \E n \in Runs : Insert(n, a, i, None)
    BY <1>1 DEF Wake, WakeNew, WakeMention, WakeDeferred, WakeFind, WakeAdopt
  <2> QED
    BY <1>a, <2>1, <2>2, RowsMove
<1>2. ASSUME NEW r \in Runs,
             Claim(r) \/ Execute(r) \/ Throw(r) \/ ChildExits(r) \/ ReportActivity(r)
      PROVE  Goal
  BY <1>2, ExecuteMoves
<1>3. ASSUME NEW p \in Reapers, Reap(p), ~ReapRetry(p) PROVE Goal
  <2>1. UNCHANGED <<exec, child>>
    BY <1>3 DEF Reap, ReapStart, ReapSkip, ReapDetached, ReapFail, ReapRelease,
       REAPER_UNCHANGED
  <2>2. CASE ReapStart(p) \/ \E r \in Runs : ReapSkip(p, r)
    BY <1>a, <2>1, <2>2 DEF ReapStart, ReapSkip
  <2>3. ASSUME NEW r \in Runs, ReapDetached(p, r) \/ ReapFail(p, r) PROVE Goal
    <3>1. UNCHANGED rows \/ (child[r] = "alive" /\ SetRunStatus(r, "running"))
            \/ SetRunStatus(r, "failed")
      BY <2>3 DEF ReapDetached, ReapFail, Detachable
    <3> QED
      BY <2>1, <3>1, RowsMove DEF Ended
  <2>4. CASE ReapRelease(p)
    BY <1>0, <2>1, <2>4, RowsMove DEF ReapRelease, PassHasRun
  <2> QED
    BY <1>3, <2>2, <2>3, <2>4 DEF Reap
<1>4. ASSUME NEW p \in Reapers, ReapRetry(p) PROVE \A q \in Runs : Moves(q)
  <2>1. UNCHANGED <<exec, child>>
    BY <1>4 DEF ReapRetry, REAPER_UNCHANGED
  <2>2. PICK n \in Runs, a \in Agents, i \in Issues, lost \in Runs : Insert(n, a, i, lost)
    BY <1>0, <1>4 DEF ReapRetry, PassHasRun, RowTypes
  <2> QED
    BY <1>0, <2>1, <2>2 DEF Insert, IsNext, Unused, Moves, RowTypes
<1>5. ASSUME NEW r \in Runs, LeaseExpires(r) \/ StaleReap(r) \/ Cancel(r) \/ Close(r) PROVE Goal
  <2>1. UNCHANGED <<exec, child>>
    BY <1>5 DEF LeaseExpires, StaleReap, StaleFind, StaleFail, StaleUnlock, STALE_UNCHANGED,
       Cancel, CancelRead, CancelWrite, CancelRelease, CANC_UNCHANGED, Close
  <2>2. CASE LeaseExpires(r)
    BY <2>1, <2>2 DEF LeaseExpires, NoRetry, Moves
  <2>3. CASE StaleReap(r) \/ Cancel(r) \/ Close(r)
    <3>1. \/ UNCHANGED rows \/ ReleaseAndPromote(r)
          \/ \E s \in Ended : SetRunStatus(r, s)
      BY <2>3 DEF StaleReap, StaleFind, StaleFail, StaleUnlock, Cancel, CancelRead, CancelWrite,
         CancelRelease, Close, Ended
    <3> QED
      BY <2>1, <3>1, RowsMove
  <2> QED
    BY <1>5, <2>2, <2>3
<1>6. ASSUME \/ \E a \in Agents : Pause(a) \/ Unpause(a)
             \/ CloseFind \/ UNCHANGED vars
      PROVE  Goal
  BY <1>a, <1>6 DEF Pause, Unpause, CANC_UNCHANGED, CloseFind, vars, memory
<1>7. ASSUME Crash PROVE Goal
  BY <1>7 DEF Crash, rows, NoRetry, Moves
<1>8. (\A q \in Runs : Moves(q)) /\ (NoRetry \/ \E p \in Reapers : ReapRetry(p))
  <2> HIDE DEF Goal
  <2>1. Goal \/ \E p \in Reapers : ReapRetry(p)
    BY <1>1, <1>2, <1>3, <1>5, <1>6, <1>7 DEF Next
  <2> QED
    BY <1>4, <2>1 DEF Goal
<1> QED
  BY <1>8

\* A run that is lost for good: it has ended, and the child it had is dead.
Lost(r) == status[r] \in Ended /\ child[r] = "dead"

RetriesOf(r) == {n \in Runs : retryOf[n] = r}

\* The pass is about to retry its run.
Retrying(p) == pass[p].pc = "failed" /\ pass[p].retry

\* The passes that have r on their list or are about to retry it.
Holding(r) == {p \in Reapers : r \in pass[p].todo \/ (Retrying(p) /\ pass[p].run = r)}

\* A run about to be retried is lost, and done with.
RetryDue(p) == Retrying(p) => Lost(pass[p].run) /\ pass[p].run \notin pass[p].todo

\* A child is the first and last of its run, which was claimed before; the children that a
\* pass has a pid of exist.
ChildOnce ==
  /\ \A r \in Runs : /\ child[r] # "none" => exec[r] \notin {"claimed", "setup"}
                     /\ child[r] # "none" \/ exec[r] # "none"
                          => status[r] \notin {"none", "queued"}
  /\ \A p \in Reapers : \A r \in pass[p].pids : child[r] # "none"

\* Each overlapping pass adds a retry to a run at most, and no pass takes up a run that
\* was retried.
RetryInv ==
  /\ TypeInv /\ ChildOnce
  /\ \A r \in Runs : RetriesOf(r) # {} => Lost(r)
  /\ \A p \in Reapers : RetryDue(p)
  /\ \A r \in Runs :
       Cardinality(RetriesOf(r)) + Cardinality(Holding(r)) <= Cardinality(Reapers)

\* A lost run is retried at most as often as passes overlap.
RetriesBounded == \A r \in Runs : Cardinality(RetriesOf(r)) <= Cardinality(Reapers)

\* A lost run stays lost, and a child stays known.
LEMMA MovesKeep ==
  ASSUME ChildOnce, NEW r \in Runs, Moves(r)
  PROVE  /\ Lost(r) => Lost(r)'
         /\ child[r] # "none" => child'[r] # "none"
         /\ child'[r] # "none" => exec'[r] \notin {"claimed", "setup"}
         /\ child'[r] # "none" \/ exec'[r] # "none" => status'[r] \notin {"none", "queued"}
<1>1. Lost(r) => Lost(r)'
  BY DEF ChildOnce, Moves, Lost, Ended
<1>2. child[r] # "none" => child'[r] # "none"
  BY DEF Moves
<1>3. child'[r] # "none" => exec'[r] \notin {"claimed", "setup"}
  BY DEF ChildOnce, Moves
<1>4. child'[r] # "none" \/ exec'[r] # "none" => status'[r] \notin {"none", "queued"}
  BY DEF ChildOnce, Moves, Ended
<1> QED
  BY <1>1, <1>2, <1>3, <1>4

\* Another step than those of a pass keeps the passes, or forgets them.
PassesStay ==
  \A p \in Reapers : pass'[p] = pass[p] \/ pass'[p] = IdlePass

LEMMA OthersKeepPasses ==
  ASSUME [Next]_vars, \A p \in Reapers : ~Reap(p)
  PROVE  PassesStay
BY DEF Next, Wake, WakeNew, WakeMention, WakeDeferred, WakeFind, WakeAdopt, Claim, Execute,
   Launch, SetupFails, CallAdapter, AdapterEnds, ReadLatest, WriteOutcome, Release, ApplyPolicy,
   Throw, ChildExits, ReportActivity, EXEC_UNCHANGED, LeaseExpires, StaleReap, StaleFind,
   StaleFail, StaleUnlock, STALE_UNCHANGED, Cancel, CancelRead, CancelWrite, CancelRelease,
   Pause, Unpause, CANC_UNCHANGED, Close, CloseFind, Crash, vars, memory, PassesStay

LEMMA RetrySets ==
  ASSUME IsFiniteSet(Reapers), TypeInv, NEW r \in Runs
  PROVE  /\ IsFiniteSet(RetriesOf(r)) /\ Cardinality(RetriesOf(r)) \in Nat
         /\ IsFiniteSet(Holding(r)) /\ Cardinality(Holding(r)) \in Nat
         /\ Cardinality(Holding(r)) <= Cardinality(Reapers) /\ Cardinality(Reapers) \in Nat
<1>1. IsFiniteSet(Runs)
  BY ExecutionAssumption DEF ExecutionAssumption
<1>2. RetriesOf(r) \in SUBSET Runs /\ Holding(r) \in SUBSET Reapers
  BY DEF RetriesOf, Holding
<1> QED
  BY <1>1, <1>2, FS_Subset, FS_CardinalityType

\* A pass only loses runs, and retries none that it has not just found lost.
LEMMA KeptRetries ==
  ASSUME IsFiniteSet(Reapers), RetryInv, TypeInv', ChildOnce', NoRetry, \A q \in Runs : Moves(q),
         \A r \in Runs : Holding(r)' \subseteq Holding(r),
         \A p \in Reapers : RetryDue(p)'
  PROVE  RetryInv'
<1>0. RowTypes /\ None \notin Runs
  BY TypeParts, ExecutionAssumption DEF RetryInv, TypeInv, ExecutionAssumption
<1>1. \A r \in Runs : RetriesOf(r)' \subseteq RetriesOf(r)
  BY <1>0 DEF NoRetry, RetriesOf
<1>2. \A r \in Runs : RetriesOf(r)' # {} => Lost(r)'
  BY <1>1, MovesKeep DEF RetryInv
<1>3. ASSUME NEW r \in Runs
      PROVE  Cardinality(RetriesOf(r)') + Cardinality(Holding(r)') <= Cardinality(Reapers)
  <2>1. /\ Cardinality(RetriesOf(r)') <= Cardinality(RetriesOf(r))
        /\ Cardinality(Holding(r)') <= Cardinality(Holding(r))
        /\ Cardinality(RetriesOf(r)') \in Nat /\ Cardinality(Holding(r)') \in Nat
    <3>1. IsFiniteSet(RetriesOf(r)) /\ IsFiniteSet(Holding(r))
      BY RetrySets DEF RetryInv
    <3> QED
      BY <1>1, <3>1, FS_Subset, FS_CardinalityType
  <2> QED
    BY <2>1, RetrySets DEF RetryInv
<1> QED
  BY <1>2, <1>3 DEF RetryInv

LEMMA RetryStep ==
  ASSUME IsFiniteSet(Reapers), RetryInv, [Next]_vars
  PROVE  RetryInv'
<1>0. /\ TypeInv /\ RowTypes /\ MemoryTypes /\ PassHasRun /\ TypeInv' /\ ChildOnce
      /\ \A q \in Runs : Moves(q)
  BY TypeStep, TypeParts, StepMovesRuns DEF RetryInv, TypeInv
<1>n. None \notin Runs
  BY ExecutionAssumption DEF ExecutionAssumption
<1>k. \A r \in Runs : /\ Lost(r) => Lost(r)'
                      /\ child[r] # "none" => child'[r] # "none"
                      /\ child'[r] # "none" => exec'[r] \notin {"claimed", "setup"}
                      /\ child'[r] # "none" \/ exec'[r] # "none"
                           => status'[r] \notin {"none", "queued"}
  BY <1>0, MovesKeep
<1>p. ASSUME \A p \in Reapers : \/ pass'[p].pids \subseteq pass[p].pids
                                \/ \A r \in pass'[p].pids : child'[r] # "none"
      PROVE  ChildOnce'
  <2>1. \A p \in Reapers : pass[p].pids \subseteq Runs
    BY <1>0 DEF MemoryTypes, PassType
  <2>2. \A p \in Reapers : \A r \in pass'[p].pids : child'[r] # "none"
    BY <1>0, <1>k, <1>p, <2>1 DEF ChildOnce
  <2> QED
    BY <1>k, <2>2 DEF ChildOnce
<1>d. ASSUME NEW p \in Reapers, pass'[p] = pass[p] PROVE RetryDue(p)'
  <2>1. CASE Retrying(p)
    <3>1. PICK r \in Runs : r = pass[p].run
      BY <1>0, <2>1 DEF Retrying, PassHasRun
    <3>2. Lost(r) /\ r \notin pass[p].todo
      BY <2>1, <3>1 DEF RetryInv, RetryDue
    <3> QED
      BY <1>d, <1>k, <3>1, <3>2 DEF RetryDue, Lost
  <2>2. CASE ~Retrying(p)
    BY <1>d, <2>2 DEF RetryDue, Retrying
  <2> QED
    BY <2>1, <2>2
<1>1. CASE \A p \in Reapers : ~Reap(p)
  <2>1. PassesStay /\ NoRetry
    <3>1. \A p \in Reapers : ~ReapRetry(p)
      BY <1>1 DEF Reap
    <3> QED
      BY <1>0, <1>1, <3>1, OthersKeepPasses, StepMovesRuns
  <2>2. ChildOnce'
    BY <1>p, <2>1 DEF PassesStay, IdlePass
  <2>3. \A r \in Runs : Holding(r)' \subseteq Holding(r)
    BY <2>1 DEF PassesStay, Holding, Retrying, IdlePass
  <2>4. ASSUME NEW p \in Reapers PROVE RetryDue(p)'
    <3>1. CASE pass'[p] = IdlePass
      BY <3>1 DEF RetryDue, Retrying, IdlePass
    <3>2. CASE pass'[p] = pass[p]
      BY <1>d, <3>2
    <3> QED
      BY <2>1, <3>1, <3>2 DEF PassesStay
  <2> QED
    BY <1>0, <2>1, <2>2, <2>3, <2>4, KeptRetries
<1>2. ASSUME NEW p \in Reapers, Reap(p) PROVE RetryInv'
  <2>r. UNCHANGED <<exec, child>> /\ \A o \in Reapers \ {p} : pass'[o] = pass[o]
    BY <1>0, <1>2 DEF Reap, ReapStart, ReapSkip, ReapDetached, ReapFail, ReapRetry, ReapRelease,
       REAPER_UNCHANGED, GoOn, MemoryTypes
  <2>g. ASSUME NEW left \in SUBSET pass[p].todo, GoOn(p, left)
        PROVE  /\ pass'[p].todo \subseteq pass[p].todo /\ ~Retrying(p)'
               /\ pass'[p].pids \subseteq pass[p].pids
    BY <1>0, <2>g DEF GoOn, IdlePass, Retrying, MemoryTypes, PassType
  <2>o. \A o \in Reapers \ {p} : RetryDue(o)'
    BY <1>d, <2>r
  <2>n. ~Retrying(p)' => RetryDue(p)'
    BY DEF RetryDue
  <2>s. ASSUME NEW left \in SUBSET pass[p].todo, GoOn(p, left), NoRetry PROVE RetryInv'
    <3>1. ChildOnce'
      BY <1>p, <2>r, <2>g, <2>s
    <3>2. \A r \in Runs : Holding(r)' \subseteq Holding(r)
      BY <2>r, <2>g, <2>s DEF Holding, Retrying
    <3> QED
      BY <1>0, <2>n, <2>o, <2>g, <2>s, <3>1, <3>2, KeptRetries
  <2>1. CASE ReapStart(p)
    <3>1. /\ UNCHANGED rows /\ pass'[p].todo = StaleRunning /\ pass'[p].pc = "scan"
          /\ pass'[p].pids = {r \in StaleRunning : child[r] # "none"}
      BY <1>0, <2>1 DEF ReapStart, MemoryTypes
    <3>2. ChildOnce'
      BY <1>p, <2>r, <3>1
    <3>3. ASSUME NEW r \in Runs
          PROVE  /\ RetriesOf(r)' # {} => Lost(r)'
                 /\ Cardinality(RetriesOf(r)') + Cardinality(Holding(r)') <= Cardinality(Reapers)
      <4>1. RetriesOf(r)' = RetriesOf(r)
        BY <3>1 DEF RetriesOf, rows
      <4>2. CASE RetriesOf(r) = {}
        <5>1. Cardinality(Holding(r)') \in Nat /\ Cardinality(Holding(r)') <= Cardinality(Reapers)
          <6>1. Holding(r)' \in SUBSET Reapers
            BY DEF Holding
          <6> QED
            BY <6>1, FS_Subset, FS_CardinalityType
        <5>2. Cardinality(RetriesOf(r)') = 0
          BY <4>1, <4>2, FS_EmptySet
        <5> QED
          BY <4>1, <4>2, <5>1, <5>2
      <4>3. CASE RetriesOf(r) # {}
        <5>1. r \notin StaleRunning
          BY <4>3 DEF RetryInv, Lost, StaleRunning, Ended
        <5>2. Holding(r)' \subseteq Holding(r)
          BY <2>r, <3>1, <5>1 DEF Holding, Retrying
        <5>3. Cardinality(Holding(r)') \in Nat /\ Cardinality(Holding(r)') <= Cardinality(Holding(r))
          BY <1>0, <5>2, RetrySets, FS_Subset, FS_CardinalityType
        <5> QED
          BY <1>0, <1>k, <4>1, <4>3, <5>3, RetrySets DEF RetryInv
      <4> QED
        BY <4>2, <4>3
    <3>4. ~Retrying(p)'
      BY <3>1 DEF Retrying
    <3> QED
      BY <1>0, <2>n, <2>o, <3>2, <3>3, <3>4 DEF RetryInv
  <2>2. ASSUME NEW r \in Runs, ReapSkip(p, r) \/ ReapDetached(p, r) PROVE RetryInv'
    <3>1. NoRetry
      BY <2>2 DEF ReapSkip, ReapDetached, SetRunStatus, rows, NoRetry
    <3> QED
      BY <2>2, <2>s, <3>1 DEF ReapSkip, ReapDetached
  <2>3. ASSUME NEW r \in Runs, ReapFail(p, r) PROVE RetryInv'
    <3>1. /\ r \in pass[p].todo /\ pass[p].pc = "scan" /\ UNCHANGED retryOf
          /\ status'[r] = "failed"
      BY <1>0, <2>3 DEF ReapFail, SetRunStatus, RowTypes
    <3>2. /\ pass'[p].todo = pass[p].todo \ {r} /\ pass'[p].run = r
          /\ pass'[p].pids = pass[p].pids
          /\ Retrying(p)' => r \in pass[p].pids /\ IsLocal(r) /\ ~Detachable(p, r)
      BY <1>0, <2>3 DEF ReapFail, Retrying, MemoryTypes, PassType
    <3>3. ChildOnce'
      BY <1>p, <2>r, <3>2
    <3>4. \A q \in Runs : Holding(q)' \subseteq Holding(q)
      BY <2>r, <3>1, <3>2 DEF Holding, Retrying
    <3>5. Retrying(p)' => Lost(r)'
      <4>1. Retrying(p)' => child[r] \notin {"none", "alive"}
        BY <1>0, <3>2 DEF ChildOnce, Detachable
      <4>2. child[r] \in {"none", "alive", "dead"}
        BY <1>0 DEF MemoryTypes
      <4> QED
        BY <2>r, <3>1, <4>1, <4>2 DEF Lost, Ended
    <3>6. NoRetry
      BY <3>1 DEF NoRetry
    <3>7. RetryDue(p)'
      BY <3>2, <3>5 DEF RetryDue, Lost
    <3> QED
      BY <1>0, <2>o, <3>3, <3>4, <3>6, <3>7, KeptRetries
  <2>4. CASE ReapRetry(p)
    <3>1. PICK r \in Runs : r = pass[p].run
      BY <1>0, <2>4 DEF ReapRetry, PassHasRun
    <3>2. PICK n \in Runs : Insert(n, agent[r], issue[r], r)
      BY <2>4, <3>1 DEF ReapRetry
    <3>3. retryOf' = [retryOf EXCEPT ![n] = r] /\ \A q \in Runs : q # n => retryOf'[q] = retryOf[q]
      BY <1>0, <3>2 DEF Insert, RowTypes
    <3>4. Retrying(p) /\ Lost(r) /\ r \notin pass[p].todo
      BY <2>4, <3>1 DEF ReapRetry, RetryInv, RetryDue, Retrying
    <3>5. /\ pass'[p].todo \subseteq pass[p].todo /\ ~Retrying(p)'
          /\ pass'[p].pids \subseteq pass[p].pids
      BY <2>4, <2>g DEF ReapRetry
    <3>6. ChildOnce'
      BY <1>p, <2>r, <3>5
    <3>7. /\ RetriesOf(r)' \subseteq RetriesOf(r) \cup {n}
          /\ \A q \in Runs \ {r} : RetriesOf(q)' \subseteq RetriesOf(q)
      BY <1>0, <3>3 DEF RetriesOf, RowTypes
    <3>8. /\ Holding(r)' \subseteq Holding(r) \ {p} /\ p \in Holding(r)
          /\ \A q \in Runs : Holding(q)' \subseteq Holding(q)
      BY <2>r, <3>1, <3>4, <3>5 DEF Holding, Retrying
    <3>9. ASSUME NEW q \in Runs
          PROVE  /\ RetriesOf(q)' # {} => Lost(q)'
                 /\ Cardinality(RetriesOf(q)') + Cardinality(Holding(q)') <= Cardinality(Reapers)
      <4>0. /\ IsFiniteSet(RetriesOf(q)) /\ IsFiniteSet(Holding(q))
            /\ Cardinality(RetriesOf(q)) \in Nat /\ Cardinality(Holding(q)) \in Nat
            /\ Cardinality(Reapers) \in Nat
            /\ Cardinality(RetriesOf(q)) + Cardinality(Holding(q)) <= Cardinality(Reapers)
        BY <1>0, RetrySets DEF RetryInv
      <4>1. CASE q = r
        <5>1. /\ IsFiniteSet(RetriesOf(r) \cup {n})
              /\ Cardinality(RetriesOf(r) \cup {n}) <= Cardinality(RetriesOf(r)) + 1
          <6>1. IsFiniteSet(RetriesOf(r)) /\ Cardinality(RetriesOf(r)) \in Nat
            BY <4>0, <4>1
          <6>2. /\ IsFiniteSet(RetriesOf(r) \cup {n})
                /\ \/ Cardinality(RetriesOf(r) \cup {n}) = Cardinality(RetriesOf(r))
                   \/ Cardinality(RetriesOf(r) \cup {n}) = Cardinality(RetriesOf(r)) + 1
            BY <6>1, FS_AddElement, Zenon
          <6> QED
            BY <6>1, <6>2
        <5>2. /\ IsFiniteSet(Holding(r) \ {p})
              /\ Cardinality(Holding(r) \ {p}) = Cardinality(Holding(r)) - 1
          BY <3>8, <4>0, <4>1, FS_RemoveElement
        <5>3. /\ Cardinality(RetriesOf(r)') <= Cardinality(RetriesOf(r) \cup {n})
              /\ Cardinality(RetriesOf(r)') \in Nat
              /\ Cardinality(RetriesOf(r) \cup {n}) \in Nat
          BY <3>7, <5>1, FS_Subset, FS_CardinalityType
        <5>4. /\ Cardinality(Holding(r)') <= Cardinality(Holding(r) \ {p})
              /\ Cardinality(Holding(r)') \in Nat
          BY <3>8, <5>2, FS_Subset, FS_CardinalityType
        <5> QED
          BY <1>k, <3>4, <4>0, <4>1, <5>1, <5>2, <5>3, <5>4
      <4>2. CASE q # r
        <5>1. RetriesOf(q)' \subseteq RetriesOf(q) /\ Holding(q)' \subseteq Holding(q)
          BY <3>7, <3>8, <4>2
        <5>2. /\ Cardinality(RetriesOf(q)') <= Cardinality(RetriesOf(q))
              /\ Cardinality(Holding(q)') <= Cardinality(Holding(q))
              /\ Cardinality(RetriesOf(q)') \in Nat /\ Cardinality(Holding(q)') \in Nat
          BY <4>0, <5>1, FS_Subset, FS_CardinalityType
        <5>3. RetriesOf(q)' # {} => Lost(q)'
          BY <1>k, <5>1 DEF RetryInv
        <5> QED
          BY <4>0, <5>2, <5>3
      <4> QED
        BY <4>1, <4>2
    <3> QED
      BY <1>0, <2>n, <2>o, <3>5, <3>6, <3>9 DEF RetryInv
  <2>5. CASE ReapRelease(p)
    <3>1. NoRetry
      <4>1. PICK r \in Runs : ReapRelease(p) /\ ReleaseAndPromote(r)
        BY <1>0, <2>5 DEF ReapRelease, PassHasRun
      <4> QED
        BY <1>0, <2>r, <4>1, RowsMove
    <3> QED
      BY <2>5, <2>s, <3>1 DEF ReapRelease
  <2> QED
    BY <1>2, <2>1, <2>2, <2>3, <2>4, <2>5 DEF Reap
<1> QED
  BY <1>1, <1>2

\* A lost run is retried at most as often as passes of the orphan reaper overlap, whatever
\* else goes wrong: once when the scheduler's passes, which it does not await, do not
\* overlap.
THEOREM RetriedOnce ==
  ASSUME IsFiniteSet(Reapers)
  PROVE  Spec => [](RetriesBounded /\ (Cardinality(Reapers) <= 1 => RetryOnce))
<1>1. ASSUME Init PROVE RetryInv
  <2>1. TypeInv /\ ChildOnce /\ \A p \in Reapers : ~Retrying(p)
    BY <1>1, TypeInit DEF Init, ChildOnce, Retrying, IdlePass
  <2>2. ASSUME NEW r \in Runs
        PROVE  /\ RetriesOf(r) = {}
               /\ Cardinality(RetriesOf(r)) + Cardinality(Holding(r)) <= Cardinality(Reapers)
    <3>1. RetriesOf(r) = {}
      BY <1>1, ExecutionAssumption DEF Init, RetriesOf, ExecutionAssumption
    <3>2. Cardinality(RetriesOf(r)) = 0
      BY <3>1, FS_EmptySet
    <3> QED
      BY <2>1, <3>1, <3>2, RetrySets
  <2> QED
    BY <2>1, <2>2 DEF RetryInv, RetryDue
<1>2. RetryInv /\ [Next]_vars => RetryInv'
  BY RetryStep
<1>3. ASSUME RetryInv PROVE RetriesBounded /\ (Cardinality(Reapers) <= 1 => RetryOnce)
  <2>1. RetriesBounded
    BY <1>3, RetrySets DEF RetryInv, RetriesBounded
  <2>2. ASSUME Cardinality(Reapers) <= 1, NEW r \in Runs, NEW q \in Runs,
               retryOf[r] # None, retryOf[r] = retryOf[q]
        PROVE  r = q
    <3>1. PICK l \in Runs : l = retryOf[r]
      BY <1>3, <2>2, TypeParts DEF RetryInv, TypeInv, RowTypes
    <3>2. r \in RetriesOf(l) /\ q \in RetriesOf(l)
      BY <2>2, <3>1 DEF RetriesOf
    <3>3. /\ IsFiniteSet(RetriesOf(l)) /\ Cardinality(RetriesOf(l)) \in Nat
          /\ Cardinality(RetriesOf(l)) <= 1
      BY <1>3, <2>1, <2>2, RetrySets DEF RetryInv, RetriesBounded
    <3>4. Cardinality(RetriesOf(l)) # 0
      BY <3>2, <3>3, FS_EmptySet
    <3>5. Cardinality(RetriesOf(l)) = 1
      BY <3>3, <3>4
    <3>6. \E x : RetriesOf(l) = {x}
      BY <3>3, <3>5, FS_Singleton, Zenon
    <3> QED
      BY <3>2, <3>6
  <2> QED
    BY <2>1, <2>2 DEF RetryOnce
<1> QED
  BY <1>1, <1>2, <1>3, PTL DEF Spec
=============================================================================
