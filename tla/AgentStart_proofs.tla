-------------------------- MODULE AgentStart_proofs --------------------------
(* Theorems about the start lock. *)
EXTENDS AgentStart, FiniteSetTheorems, WellFoundedInduction, TLAPS

-----------------------------------------------------------------------------
(* The oldest of some runs. *)

\* A nonempty set of run ids has an oldest one, and Oldest returns it.
LEMMA OldestIsLeast ==
  ASSUME NEW S \in SUBSET Runs, S # {}
  PROVE  Oldest(S) \in S /\ \A q \in S : Oldest(S) <= q
<1>1. S \subseteq Nat
  BY StartAssumption DEF StartAssumption
<1>2. PICK r \in S : \A q \in S : ~(<<q, r>> \in OpToRel(<, Nat))
  BY <1>1, WFMin, NatLessThanWellFounded
<1>3. \A q \in S : ~(q < r)
  BY <1>1, <1>2, Zenon DEF OpToRel
<1>4. \A q \in S : r <= q
  BY <1>1, <1>3
<1> QED
  BY <1>4 DEF Oldest

-----------------------------------------------------------------------------
(* Type correctness. *)

LEMMA EnteredType == /\ Idle \in CallType
                     /\ \A a \in Agents : Entered(a) \in CallType
<1>1. (CHOOSE a \in Agents : TRUE) \in Agents
  BY StartAssumption DEF StartAssumption
<1>2. 0 \in 0..MaxConcurrent
  BY StartAssumption DEF StartAssumption
<1>3. Idle \in CallType
  BY <1>1, <1>2 DEF Idle, CallPcs, CallType
<1>4. ASSUME NEW a \in Agents PROVE Entered(a) \in CallType
  BY <1>3 DEF Entered, CallPcs, CallType
<1> QED
  BY <1>3, <1>4

LEMMA TypeInit == Init => TypeOK
  BY EnteredType, StartAssumption DEF Init, TypeOK, Statuses, StartAssumption

\* A call that holds the lock is the head of its agent's chain.
HolderIsHead == \A c \in Calls : call[c].pc \in Holding => HasLock(c)

\* A call looks at one of the runs it has selected.
HasSelected == \A c \in Calls :
  call[c].pc \in {"admitted", "refused", "cancelling"} => call[c].todo # {}

LEMMA TypeStep == TypeOK /\ HolderIsHead /\ HasSelected /\ [Next]_vars => TypeOK'
<1> SUFFICES ASSUME TypeOK, HolderIsHead, HasSelected, [Next]_vars PROVE TypeOK'
  OBVIOUS
<1> USE StartAssumption DEF StartAssumption, TypeOK, budget, memory, children
<1>1. ASSUME NEW r \in Runs, Enqueue(r) PROVE TypeOK'
  BY <1>1 DEF Enqueue, Statuses
<1>2. ASSUME NEW r \in Runs, Decide(r) \/ Finish(r) PROVE TypeOK'
  <2>1. CASE Decide(r)
    BY <2>1 DEF Decide, Ended
  <2>2. CASE Finish(r)
    BY <2>2 DEF Finish, Statuses, Ended
  <2> QED
    BY <1>2, <2>1, <2>2
<1>3. ASSUME NEW r \in Runs, StopReads(r) \/ StopWrites(r) \/ ChildExits(r) PROVE TypeOK'
  <2>1. CASE StopReads(r)
    BY <2>1 DEF StopReads
  <2>2. CASE StopWrites(r)
    BY <2>2 DEF StopWrites, Statuses
  <2>3. CASE ChildExits(r)
    BY <2>3 DEF ChildExits
  <2> QED
    BY <1>3, <2>1, <2>2, <2>3
<1>4. ASSUME NEW p \in Passes, Reap(p) PROVE TypeOK'
  <2>1. CASE ReapSelect(p)
    BY <2>1 DEF ReapSelect
  <2>2. ASSUME NEW r \in Runs, ReapSkip(p, r) PROVE TypeOK'
    BY <2>2 DEF ReapSkip, Past
  <2>3. ASSUME NEW r \in Runs, ReapDetached(p, r) PROVE TypeOK'
    BY <2>3 DEF ReapDetached, Past, Statuses
  <2>4. ASSUME NEW r \in Runs, ReapLost(p, r) PROVE TypeOK'
    BY <2>4 DEF ReapLost, Past, Statuses
  <2> QED
    BY <1>4, <2>1, <2>2, <2>3, <2>4 DEF Reap
<1>5. ASSUME NEW a \in Agents, Resume(a) PROVE TypeOK'
  BY <1>5 DEF Resume
<1>6. ASSUME NEW c \in Calls, NEW a \in Agents, Join(c, a) PROVE TypeOK'
  BY <1>6, EnteredType DEF Join
<1>7. ASSUME NEW c \in Calls, Step(c) PROVE TypeOK'
  <2> DEFINE a == call[c].agent
  <2>0. call[c] \in CallType /\ a \in Agents /\ chain[a] \in Seq(Calls)
    BY DEF CallType
  <2>a. ASSUME Leave(c), HasLock(c)
        PROVE  chain' \in [Agents -> Seq(Calls)] /\ call' \in [Calls -> CallType]
    <3>1. Tail(chain[a]) \in Seq(Calls)
      BY <2>0, <2>a DEF HasLock
    <3>2. \A d \in Calls : [call[d] EXCEPT !.inner = NoCall] \in CallType
      BY DEF CallType
    <3>3. \A d \in Calls :
            (IF d = c THEN Idle
             ELSE IF call[d].inner = c THEN [call[d] EXCEPT !.inner = NoCall]
             ELSE call[d]) \in CallType
      BY <3>2, EnteredType
    <3>4. call' \in [Calls -> CallType]
      BY <2>a, <3>3, Zenon DEF Leave
    <3>5. chain' \in [Agents -> Seq(Calls)]
      <4>1. chain' = [chain EXCEPT ![a] = Tail(chain[a])]
        BY <2>0, <2>a DEF Leave
      <4>2. chain \in [Agents -> Seq(Calls)]
        OBVIOUS
      <4> HIDE DEF a
      <4>3. \A s \in Seq(Calls) : [chain EXCEPT ![a] = s] \in [Agents -> Seq(Calls)]
        BY <4>2, Zenon
      <4> QED
        BY <3>1, <4>1, <4>3
    <3> QED
      BY <3>4, <3>5
  <2>b. ASSUME NEW b \in Agents, NEW pc \in Holding, Await(c, b, pc)
        PROVE  chain' \in [Agents -> Seq(Calls)] /\ call' \in [Calls -> CallType]
    <3>1. PICK d \in Calls : 
            /\ chain' = [chain EXCEPT ![b] = Append(@, d)]
            /\ call' = [call EXCEPT ![d] = Entered(b), ![c].pc = pc, ![c].inner = d]
      BY <2>b DEF Await
    <3>2. \A x \in CallType : [x EXCEPT !.pc = pc, !.inner = d] \in CallType
      BY DEF CallType, CallPcs
    <3>3. call' \in [Calls -> CallType]
      BY <3>1, <3>2, EnteredType
    <3>4. chain[b] \in Seq(Calls) /\ Append(chain[b], d) \in Seq(Calls)
      OBVIOUS
    <3>5. \A s \in Seq(Calls) : [chain EXCEPT ![b] = s] \in [Agents -> Seq(Calls)]
      <4>1. chain \in [Agents -> Seq(Calls)]
        OBVIOUS
      <4> QED
        BY <4>1, Zenon
    <3> QED
      BY <3>1, <3>3, <3>4, <3>5
  <2>c. ASSUME NEW pc \in CallPcs PROVE [call EXCEPT ![c].pc = pc] \in [Calls -> CallType]
    BY <2>0 DEF CallType
  <2>1. CASE CountSlots(c)
    <3> DEFINE running == Cardinality(RunningOf(a))
    <3>1. running \in Nat
      <4>1. RunningOf(a) \subseteq Runs
        BY DEF RunningOf, RunsOf
      <4> QED
        BY <4>1, FS_Subset, FS_CardinalityType
    <3>2. ASSUME running < MaxConcurrent
          PROVE  [call EXCEPT ![c].pc = "counted", ![c].slots = MaxConcurrent - running]
                 \in [Calls -> CallType]
      <4>1. MaxConcurrent - running \in 0..MaxConcurrent
        BY <3>1, <3>2
      <4>2. "counted" \in CallPcs
        BY DEF CallPcs, Holding
      <4> HIDE DEF running
      <4> QED
        BY <2>0, <4>1, <4>2 DEF CallType
    <3> QED
      BY <2>0, <2>1, <2>a, <3>2 DEF CountSlots
  <2>2. CASE SelectQueued(c)
    <3>1. PICK S \in SUBSET QueuedOf(a) :
            call' = [call EXCEPT ![c].pc = "claiming", ![c].todo = S]
      BY <2>2 DEF SelectQueued
    <3>2. S \subseteq Runs
      BY DEF QueuedOf, RunsOf
    <3>3. call' \in [Calls -> CallType]
      BY <2>0, <3>1, <3>2 DEF CallType, CallPcs, Holding
    <3> QED
      BY <2>2, <3>3 DEF SelectQueued
  <2>3. CASE CheckAdmission(c)
    BY <2>3, <2>c DEF CheckAdmission, CallPcs, Holding
  <2>4. CASE Claim(c)
    <3> DEFINE r == Oldest(call[c].todo)
    <3>1. r \in Runs
      BY <2>0, <2>4, OldestIsLeast DEF Claim, HasSelected, CallType
    <3>2. PICK T \in {call[c].got, call[c].got \cup {r}} :
            call' = [call EXCEPT ![c].pc = "claiming", ![c].todo = @ \ {r}, ![c].got = T]
      BY <2>4 DEF Claim
    <3>3. call' \in [Calls -> CallType]
      BY <2>0, <3>1, <3>2 DEF CallType, CallPcs, Holding
    <3>4. status' \in [Runs -> Statuses]
      BY <2>4, <3>1 DEF Claim, Statuses
    <3> QED
      BY <2>4, <3>3, <3>4 DEF Claim
  <2>5. CASE ReadRefused(c)
    <3> DEFINE r == Oldest(call[c].todo)
    <3>1. PICK pc \in CallPcs, T \in {call[c].todo, call[c].todo \ {r}} :
            call' = [call EXCEPT ![c].pc = pc, ![c].todo = T]
      BY <2>5 DEF ReadRefused, CallPcs, Holding
    <3>2. call' \in [Calls -> CallType]
      BY <2>0, <3>1 DEF CallType
    <3> QED
      BY <2>5, <3>2 DEF ReadRefused
  <2>9. CASE CancelRefused(c)
    <3> DEFINE r == Oldest(call[c].todo)
    <3>1. "releasing" \in CallPcs
      BY DEF CallPcs, Holding
    <3>2. call' \in [Calls -> CallType]
      BY <2>0, <2>9, <3>1 DEF CancelRefused, CallType
    <3>3. status' \in [Runs -> Statuses]
      BY <2>9 DEF CancelRefused, Statuses
    <3> QED
      BY <2>9, <3>2, <3>3 DEF CancelRefused
  <2>6. CASE PromoteRefused(c)
    BY <2>6, <2>b DEF PromoteRefused, Holding, Statuses, CallType
  <2>7. CASE RestartOwnAgent(c)
    BY <2>0, <2>7, <2>b DEF RestartOwnAgent, Holding
  <2>8. CASE Launch(c)
    <3>1. HasLock(c)
      BY <2>8 DEF Launch, HolderIsHead, BetweenRuns, Holding
    <3>2. live' \subseteq Runs
      BY <2>0, <2>8 DEF Launch, CallType
    <3> QED
      BY <2>8, <2>a, <3>1, <3>2 DEF Launch
  <2> QED
    BY <1>7, <2>1, <2>2, <2>3, <2>4, <2>5, <2>6, <2>7, <2>8, <2>9 DEF Step
<1>8. ASSUME NEW kind \in {"company", "budget"}, Block(kind) PROVE TypeOK'
  BY <1>8 DEF Block
<1>9. CASE Unblock
  BY <1>9 DEF Unblock
<1>10. CASE Crash
  BY <1>10, EnteredType DEF Crash
<1>11. CASE UNCHANGED vars
  BY <1>11 DEF vars
<1> QED
  BY <1>1, <1>2, <1>3, <1>4, <1>5, <1>6, <1>7, <1>8, <1>9, <1>10, <1>11 DEF Next

-----------------------------------------------------------------------------
(* Mutual exclusion. *)

\* A promise chain grows at its end.
LEMMA HeadOfAppend ==
  ASSUME NEW s \in Seq(Calls), NEW c \in Calls, s # <<>>
  PROVE  Append(s, c) # <<>> /\ Head(Append(s, c)) = Head(s)
OBVIOUS

LEMMA HolderStep ==
  TypeOK /\ HolderIsHead /\ HasSelected /\ [Next]_vars => HolderIsHead' /\ HasSelected'
<1> SUFFICES ASSUME TypeOK, HolderIsHead, HasSelected, [Next]_vars
             PROVE  HolderIsHead' /\ HasSelected'
  OBVIOUS
<1> USE DEF HolderIsHead, HasSelected, HasLock
<1>0. /\ chain \in [Agents -> Seq(Calls)] /\ call \in [Calls -> CallType]
      /\ \A c \in Calls : call[c].agent \in Agents
  BY DEF TypeOK, CallType
<1>a. ASSUME UNCHANGED <<chain, call>> PROVE HolderIsHead' /\ HasSelected'
  BY <1>a
<1>1. ASSUME NEW r \in Runs, Enqueue(r) PROVE HolderIsHead' /\ HasSelected'
  BY <1>a, <1>1 DEF Enqueue
<1>2. ASSUME NEW r \in Runs, Decide(r) \/ Finish(r) PROVE HolderIsHead' /\ HasSelected'
  BY <1>a, <1>2 DEF Decide, Finish
<1>3. ASSUME NEW r \in Runs, StopReads(r) \/ StopWrites(r) \/ ChildExits(r)
      PROVE  HolderIsHead' /\ HasSelected'
  BY <1>a, <1>3 DEF StopReads, StopWrites, ChildExits
<1>4. ASSUME NEW p \in Passes, Reap(p) PROVE HolderIsHead' /\ HasSelected'
  BY <1>a, <1>4 DEF Reap, ReapSelect, ReapSkip, ReapDetached, ReapLost, Past
<1>5. ASSUME NEW a \in Agents, Resume(a) PROVE HolderIsHead' /\ HasSelected'
  BY <1>a, <1>5 DEF Resume
<1>6. ASSUME NEW c \in Calls, NEW a \in Agents, Join(c, a)
      PROVE  HolderIsHead' /\ HasSelected'
  <2>1. call'[c].pc = "waiting" /\ \A d \in Calls \ {c} : call'[d] = call[d]
    BY <1>0, <1>6 DEF Join, Entered, Idle
  <2>2. \A b \in Agents : chain'[b] = IF b = a THEN Append(chain[a], c) ELSE chain[b]
    BY <1>0, <1>6 DEF Join
  <2>3. HasSelected'
    BY <2>1
  <2>4. ASSUME NEW d \in Calls, call'[d].pc \in Holding
        PROVE  chain'[call'[d].agent] # <<>> /\ Head(chain'[call'[d].agent]) = d
    <3>1. d # c /\ call'[d] = call[d]
      BY <2>1, <2>4 DEF Holding
    <3>2. chain[call[d].agent] # <<>> /\ Head(chain[call[d].agent]) = d
      BY <2>4, <3>1
    <3>3. call[d].agent \in Agents /\ chain[call[d].agent] \in Seq(Calls)
      BY <1>0
    <3>4. CASE call[d].agent = a
      <4>1. chain'[a] = Append(chain[a], c)
        BY <2>2
      <4> QED
        BY <3>1, <3>2, <3>3, <3>4, <4>1, HeadOfAppend
    <3>5. CASE call[d].agent # a
      BY <2>2, <3>1, <3>2, <3>3, <3>5
    <3> QED
      BY <3>4, <3>5
  <2> QED
    BY <2>3, <2>4
<1>7. ASSUME NEW c \in Calls, Step(c) PROVE HolderIsHead' /\ HasSelected'
  <2> DEFINE a == call[c].agent
  <2>a. ASSUME Leave(c), HasLock(c) PROVE HolderIsHead' /\ HasSelected'
    <3>1. call'[c].pc = "idle"
      BY <1>0, <2>a DEF Leave, Idle
    <3>2. \A d \in Calls \ {c} : /\ call'[d].pc = call[d].pc
                                 /\ call'[d].agent = call[d].agent
                                 /\ call'[d].todo = call[d].todo
      BY <1>0, <2>a DEF Leave, CallType
    <3>3. \A b \in Agents \ {a} : chain'[b] = chain[b]
      BY <1>0, <2>a DEF Leave
    <3>4. HasSelected'
      BY <3>1, <3>2
    <3>5. HolderIsHead'
      BY <1>0, <2>a, <3>1, <3>2, <3>3 DEF Holding
    <3> QED
      BY <3>4, <3>5
  <2>b. ASSUME NEW b \in Agents, NEW pc \in {"promoting", "nested"}, Await(c, b, pc),
               HasLock(c)
        PROVE  HolderIsHead' /\ HasSelected'
    <3>1. PICK d \in Calls : /\ call[d].pc = "idle"
                             /\ chain' = [chain EXCEPT ![b] = Append(@, d)]
                             /\ call' = [call EXCEPT ![d] = Entered(b),
                                                     ![c].pc = pc, ![c].inner = d]
      BY <2>b DEF Await
    <3>2. \A e \in Calls : chain[call[e].agent] # <<>> =>
             /\ chain'[call[e].agent] # <<>>
             /\ Head(chain'[call[e].agent]) = Head(chain[call[e].agent])
      BY <1>0, <3>1, HeadOfAppend
    <3>3. \A e \in Calls \ {c, d} : call'[e] = call[e]
      BY <1>0, <3>1
    <3>4. CASE c = d
      <4>1. call'[c].pc = pc /\ call'[c].agent = b /\ call'[c].todo = {}
        BY <1>0, <3>1, <3>4 DEF Entered, Idle
      <4> QED
        BY <1>7, <3>1, <3>4, <4>1 DEF Step, CountSlots, SelectQueued, CheckAdmission,
           Claim, ReadRefused, CancelRefused, PromoteRefused, RestartOwnAgent, Launch, BetweenRuns
    <3>5. CASE c # d
      <4>1. call'[d].pc = "waiting"
        BY <1>0, <3>1, <3>5 DEF Entered, Idle
      <4>2. call'[c].pc = pc /\ call'[c].agent = a
        BY <1>0, <3>1, <3>5 DEF CallType
      <4> QED
        BY <1>0, <2>b, <3>2, <3>3, <4>1, <4>2 DEF Holding
    <3> QED
      BY <3>4, <3>5
  <2>c. ASSUME chain' = chain, HasLock(c), 
               call'[c].agent = a, 
               call'[c].pc \in {"admitted", "refused", "cancelling"} => call'[c].todo # {},
               \A d \in Calls \ {c} : call'[d] = call[d]
        PROVE  HolderIsHead' /\ HasSelected'
    BY <1>0, <2>c
  <2>d. call[c].pc \in Holding => HasLock(c)
    OBVIOUS
  <2>1. CASE CountSlots(c)
    BY <1>0, <2>1, <2>a, <2>c DEF CountSlots, CallType
  <2>2. CASE SelectQueued(c)
    BY <1>0, <2>2, <2>c, <2>d DEF SelectQueued, CallType, Holding
  <2>3. CASE CheckAdmission(c)
    BY <1>0, <2>3, <2>c, <2>d DEF CheckAdmission, BetweenRuns, CallType, Holding
  <2>4. CASE Claim(c)
    BY <1>0, <2>4, <2>c, <2>d DEF Claim, CallType, Holding
  <2>5. CASE ReadRefused(c)
    <3>1. call[c].todo # {} /\ HasLock(c) /\ call[c] \in CallType
      BY <1>0, <2>5 DEF ReadRefused, Holding
    <3>2. CASE status[Oldest(call[c].todo)] \in {"queued", "running"}
      BY <1>0, <2>5, <2>c, <3>1, <3>2 DEF ReadRefused, CallType
    <3>3. CASE status[Oldest(call[c].todo)] \notin {"queued", "running"}
      BY <1>0, <2>5, <2>c, <3>1, <3>3 DEF ReadRefused, CallType
    <3> QED
      BY <3>2, <3>3
  <2>9. CASE CancelRefused(c)
    BY <1>0, <2>9, <2>c, <2>d DEF CancelRefused, CallType, Holding
  <2>6. CASE PromoteRefused(c)
    BY <2>6, <2>b, <2>d, StartAssumption DEF PromoteRefused, Holding, StartAssumption
  <2>7. CASE RestartOwnAgent(c)
    BY <1>0, <2>7, <2>b, <2>d DEF RestartOwnAgent, Holding
  <2>8. CASE Launch(c)
    BY <2>8, <2>a, <2>d DEF Launch, BetweenRuns, Holding
  <2> QED
    BY <1>7, <2>1, <2>2, <2>3, <2>4, <2>5, <2>6, <2>7, <2>8, <2>9 DEF Step
<1>8. ASSUME NEW kind \in {"company", "budget"}, Block(kind)
      PROVE  HolderIsHead' /\ HasSelected'
  BY <1>a, <1>8 DEF Block
<1>9. CASE Unblock
  BY <1>a, <1>9 DEF Unblock
<1>10. CASE Crash
  BY <1>10 DEF Crash, Idle, Holding
<1>11. CASE UNCHANGED vars
  BY <1>a, <1>11 DEF vars
<1> QED
  BY <1>1, <1>2, <1>3, <1>4, <1>5, <1>6, <1>7, <1>8, <1>9, <1>10, <1>11 DEF Next

-----------------------------------------------------------------------------
(* What a step does to the runs. *)

Started == {r \in Runs : status[r] \notin {"none", "queued"}}

\* Whoever is about to write a run's row has read that of a run that existed, and all
\* but a cancellation that of one that had started.
Written == /\ live \cup orphan \cup revived \subseteq Started
           /\ \A p \in Passes : seen[p] \subseteq Started
           /\ \A r \in Runs : outcome[r] # "none" => r \in live
           /\ \A r \in stop : status[r] # "none"
           /\ \A c \in Calls : \A r \in call[c].todo : status[r] # "none"

Quiet == UNCHANGED <<status, revived>>

Creates(r) == /\ IsNext(r) /\ status' = [status EXCEPT ![r] = "queued"]
              /\ UNCHANGED revived

\* The run is ended, whether or not it was.
Ends(r) == /\ status[r] # "none"
           /\ \E s \in Ended : status' = [status EXCEPT ![r] = s]
           /\ UNCHANGED revived

Starts(c) == LET r == Oldest(call[c].todo)
             IN  /\ Claim(c)
                 /\ r \in call[c].todo
                 /\ status[r] = "queued"
                 /\ status' = [status EXCEPT ![r] = "running"]
                 /\ UNCHANGED revived

Revives(r) == /\ status[r] \in Ended
              /\ status' = [status EXCEPT ![r] = "running"]
              /\ revived' = revived \cup {r}

\* A step creates a run, ends one, starts one by a claim, brings an ended one back, or
\* leaves all as they are.
LEMMA StatusStep ==
  ASSUME TypeOK, HasSelected, Written, [Next]_vars
  PROVE  \/ Quiet
         \/ \E r \in Runs : Creates(r) \/ Ends(r) \/ Revives(r)
         \/ \E c \in Calls : Starts(c)
<1> DEFINE Goal == \/ Quiet
                   \/ \E r \in Runs : Creates(r) \/ Ends(r) \/ Revives(r)
                   \/ \E c \in Calls : Starts(c)
<1>0. /\ call \in [Calls -> CallType]
      /\ status \in [Runs -> Statuses]
      /\ outcome \in [Runs -> Ended \cup {"none"}]
      /\ \A r \in live \cup orphan \cup revived : status[r] \in Ended \cup {"running"}
      /\ \A p \in Passes : \A r \in seen[p] : status[r] \in Ended \cup {"running"}
  BY DEF TypeOK, Written, Started, Statuses, Ended
<1> USE DEF Quiet, memory, children
<1>1. ASSUME NEW r \in Runs, Enqueue(r) PROVE Goal
  BY <1>1 DEF Enqueue, Creates
<1>2. ASSUME NEW r \in Runs, Decide(r) \/ Finish(r) PROVE Goal
  <2>1. CASE Decide(r)
    BY <2>1 DEF Decide
  <2>2. CASE Finish(r)
    <3>1. outcome[r] \in Ended /\ status[r] # "none"
      BY <1>0, <2>2 DEF Finish, Written, Ended
    <3>2. Ends(r)
      BY <2>2, <3>1 DEF Finish, Ends
    <3> QED
      BY <3>2
  <2> QED
    BY <1>2, <2>1, <2>2
<1>3. ASSUME NEW r \in Runs, StopReads(r) \/ StopWrites(r) \/ ChildExits(r) PROVE Goal
  <2>1. CASE StopReads(r) \/ ChildExits(r)
    BY <2>1 DEF StopReads, ChildExits
  <2>2. CASE StopWrites(r)
    <3>1. Ends(r)
      BY <2>2 DEF StopWrites, Ends, Ended, Written
    <3> QED
      BY <3>1
  <2> QED
    BY <1>3, <2>1, <2>2
<1>4. ASSUME NEW p \in Passes, Reap(p) PROVE Goal
  <2>1. CASE ReapSelect(p)
    BY <2>1 DEF ReapSelect
  <2>2. ASSUME NEW r \in Runs, ReapSkip(p, r) PROVE Goal
    BY <2>2 DEF ReapSkip, Past
  <2>3. ASSUME NEW r \in Runs, ReapDetached(p, r) PROVE Goal
    <3>1. status[r] \in Ended \cup {"running"}
      BY <1>0, <2>3 DEF ReapDetached, Past
    <3>2. CASE status[r] = "running"
      <4>1. status' = status
        BY <1>0, <2>3, <3>2 DEF ReapDetached
      <4> QED
        BY <2>3, <3>2, <4>1 DEF ReapDetached
    <3>3. CASE status[r] \in Ended
      BY <2>3, <3>3 DEF ReapDetached, Revives, Ended
    <3> QED
      BY <3>1, <3>2, <3>3
  <2>4. ASSUME NEW r \in Runs, ReapLost(p, r) PROVE Goal
    <3>1. status[r] # "none"
      BY <1>0, <2>4 DEF ReapLost, Past, Ended
    <3>2. Ends(r)
      BY <2>4, <3>1 DEF ReapLost, Ends, Ended
    <3> QED
      BY <3>2
  <2> QED
    BY <1>4, <2>1, <2>2, <2>3, <2>4 DEF Reap
<1>5. ASSUME NEW a \in Agents, Resume(a) PROVE Goal
  BY <1>5 DEF Resume
<1>6. ASSUME NEW c \in Calls, NEW a \in Agents, Join(c, a) PROVE Goal
  BY <1>6 DEF Join
<1>7. ASSUME NEW c \in Calls, Step(c) PROVE Goal
  <2>0. call[c].todo \subseteq Runs
    BY <1>0 DEF CallType
  <2>a. ASSUME call[c].todo # {} PROVE Oldest(call[c].todo) \in call[c].todo
    BY <2>0, <2>a, OldestIsLeast
  <2>1. CASE CountSlots(c)
    BY <2>1 DEF CountSlots
  <2>2. CASE SelectQueued(c)
    BY <2>2 DEF SelectQueued
  <2>3. CASE CheckAdmission(c)
    BY <2>3 DEF CheckAdmission
  <2>4. CASE Claim(c)
    BY <2>4, <2>a DEF Claim, Starts, HasSelected
  <2>5. CASE ReadRefused(c)
    BY <2>5 DEF ReadRefused
  <2>6. CASE PromoteRefused(c)
    BY <2>6 DEF PromoteRefused, Creates
  <2>7. CASE RestartOwnAgent(c)
    BY <2>7 DEF RestartOwnAgent
  <2>8. CASE Launch(c)
    BY <2>8 DEF Launch
  <2>9. CASE CancelRefused(c)
    <3>1. PICK r \in call[c].todo : r = Oldest(call[c].todo)
      BY <2>9, <2>a DEF CancelRefused, HasSelected
    <3>2. Ends(r)
      BY <2>9, <3>1 DEF CancelRefused, Ends, Ended, Written
    <3> QED
      BY <2>0, <3>2
  <2> QED
    BY <1>7, <2>1, <2>2, <2>3, <2>4, <2>5, <2>6, <2>7, <2>8, <2>9 DEF Step
<1>8. ASSUME NEW kind \in {"company", "budget"}, Block(kind) PROVE Goal
  BY <1>8 DEF Block
<1>9. CASE Unblock
  BY <1>9 DEF Unblock
<1>10. CASE Crash
  BY <1>10 DEF Crash
<1>11. CASE UNCHANGED vars
  BY <1>11 DEF vars
<1> QED
  BY <1>1, <1>2, <1>3, <1>4, <1>5, <1>6, <1>7, <1>8, <1>9, <1>10, <1>11 DEF Next

-----------------------------------------------------------------------------
(* What a step does to the calls. *)

SameCall(c) == /\ call'[c].pc = call[c].pc /\ call'[c].agent = call[c].agent
               /\ call'[c].slots = call[c].slots /\ call'[c].todo = call[c].todo

FreshCall(c) == call'[c].pc \in {"idle", "waiting"} /\ call'[c].todo = {}

Counts(c) == /\ CountSlots(c)
             /\ UNCHANGED status
             /\ call[c].pc = "waiting" /\ call'[c].pc = "counted"
             /\ call'[c].slots = MaxConcurrent - Cardinality(RunningOf(call[c].agent))
             /\ call'[c].todo = call[c].todo
             /\ call'[c].agent = call[c].agent

Selects(c) == /\ UNCHANGED status
              /\ call[c].pc = "counted" /\ call'[c].pc = "claiming"
              /\ call'[c].todo \subseteq QueuedOf(call[c].agent)
              /\ IsOldest(call'[c].todo, QueuedOf(call[c].agent), call[c].slots)
              /\ call'[c].agent = call[c].agent

\* The call goes on to its next run, which it has found ended, cancelled or tried to
\* claim.
Advances(c) == LET r == Oldest(call[c].todo)
               IN  /\ call[c].pc \in {"admitted", "refused", "cancelling"}
                   /\ call'[c].pc \in {"claiming", "releasing"}
                   /\ call'[c].todo = call[c].todo \ {r}
                   /\ call'[c].agent = call[c].agent
                   /\ r \in call[c].todo
                   /\ r \in Runs => status'[r] # "queued"

Moves(c) == /\ call[c].pc \in Holding \ {"counted"}
            /\ call'[c].pc \in Holding \ {"counted"}
            /\ call'[c].todo = call[c].todo
            /\ call'[c].agent = call[c].agent

\* Each call is idle or new, stays as it is, or takes one step of its own.
LEMMA CallStep ==
  ASSUME TypeOK, HolderIsHead, HasSelected, [Next]_vars, NEW d \in Calls
  PROVE  SameCall(d) \/ FreshCall(d) \/ Counts(d) \/ Selects(d) \/ Advances(d) \/ Moves(d)
<1> DEFINE Goal == \/ SameCall(d) \/ FreshCall(d) \/ Counts(d)
                   \/ Selects(d) \/ Advances(d) \/ Moves(d)
<1>0. /\ call \in [Calls -> CallType]
      /\ status \in [Runs -> Statuses]
  BY DEF TypeOK
<1>a. ASSUME UNCHANGED call PROVE Goal
  BY <1>a DEF SameCall
<1>1. ASSUME NEW r \in Runs, Enqueue(r) PROVE Goal
  BY <1>a, <1>1 DEF Enqueue
<1>2. ASSUME NEW r \in Runs, Decide(r) \/ Finish(r) PROVE Goal
  BY <1>a, <1>2 DEF Decide, Finish
<1>3. ASSUME NEW r \in Runs, StopReads(r) \/ StopWrites(r) \/ ChildExits(r)
      PROVE  Goal
  BY <1>a, <1>3 DEF StopReads, StopWrites, ChildExits
<1>4. ASSUME NEW p \in Passes, Reap(p) PROVE Goal
  BY <1>a, <1>4 DEF Reap, ReapSelect, ReapSkip, ReapDetached, ReapLost, Past
<1>5. ASSUME NEW a \in Agents, Resume(a) PROVE Goal
  BY <1>a, <1>5 DEF Resume
<1>6. ASSUME NEW c \in Calls, NEW a \in Agents, Join(c, a) PROVE Goal
  BY <1>0, <1>6 DEF Join, Entered, Idle, SameCall, FreshCall
<1>7. ASSUME NEW c \in Calls, Step(c) PROVE Goal
  <2>a. ASSUME Leave(c) PROVE Goal
    BY <1>0, <2>a DEF Leave, Idle, SameCall, FreshCall, CallType
  <2>b. ASSUME NEW b \in Agents, NEW pc \in {"promoting", "nested"}, Await(c, b, pc),
               call[c].pc \in {"releasing", "promoting"}
        PROVE  Goal
    <3>1. PICK e \in Calls : /\ call[e].pc = "idle"
                             /\ call' = [call EXCEPT ![e] = Entered(b),
                                                     ![c].pc = pc, ![c].inner = e]
      BY <2>b DEF Await
    <3>2. CASE d = c
      BY <1>0, <2>b, <3>1, <3>2 DEF Moves, Holding, CallType
    <3>3. CASE d = e /\ d # c
      BY <1>0, <3>1, <3>3 DEF Entered, Idle, FreshCall
    <3>4. CASE d # e /\ d # c
      BY <1>0, <3>1, <3>4 DEF SameCall
    <3> QED
      BY <3>2, <3>3, <3>4
  <2>c. ASSUME d # c, \A e \in Calls \ {c} : call'[e] = call[e] PROVE Goal
    BY <2>c DEF SameCall
  <2>d. call[c].todo \subseteq Runs
    BY <1>0 DEF CallType
  <2>1. CASE CountSlots(c)
    BY <1>0, <2>1, <2>a, <2>c DEF CountSlots, Counts, CallType
  <2>2. CASE SelectQueued(c)
    BY <1>0, <2>2, <2>c DEF SelectQueued, Selects, CallType
  <2>3. CASE CheckAdmission(c)
    BY <1>0, <2>3, <2>c DEF CheckAdmission, BetweenRuns, Moves, CallType, Holding
  <2>4. CASE Claim(c)
    <3>1. Oldest(call[c].todo) \in call[c].todo
      BY <2>4, <2>d, OldestIsLeast DEF Claim, HasSelected
    <3> QED
      BY <1>0, <2>4, <2>c, <3>1 DEF Claim, Advances, CallType, Holding
  <2>5. CASE ReadRefused(c)
    <3>1. Oldest(call[c].todo) \in call[c].todo
      BY <2>5, <2>d, OldestIsLeast DEF ReadRefused, HasSelected
    <3>2. CASE d # c
      BY <1>0, <2>5, <2>c, <3>2 DEF ReadRefused
    <3>3. CASE d = c /\ status[Oldest(call[c].todo)] \in {"queued", "running"}
      BY <1>0, <2>5, <3>3 DEF ReadRefused, Moves, CallType, Holding
    <3>4. CASE d = c /\ status[Oldest(call[c].todo)] \notin {"queued", "running"}
      BY <1>0, <2>5, <3>1, <3>4 DEF ReadRefused, Advances, CallType
    <3> QED
      BY <3>2, <3>3, <3>4
  <2>9. CASE CancelRefused(c)
    <3>1. Oldest(call[c].todo) \in call[c].todo
      BY <2>9, <2>d, OldestIsLeast DEF CancelRefused, HasSelected
    <3> QED
      BY <1>0, <2>9, <2>c, <3>1 DEF CancelRefused, Advances, CallType
  <2>6. CASE PromoteRefused(c)
    BY <2>6, <2>b, StartAssumption DEF PromoteRefused, StartAssumption
  <2>7. CASE RestartOwnAgent(c)
    BY <1>0, <2>7, <2>b DEF RestartOwnAgent, CallType
  <2>8. CASE Launch(c)
    BY <2>8, <2>a DEF Launch
  <2> QED
    BY <1>7, <2>1, <2>2, <2>3, <2>4, <2>5, <2>6, <2>7, <2>8, <2>9 DEF Step
<1>8. ASSUME NEW kind \in {"company", "budget"}, Block(kind) PROVE Goal
  BY <1>a, <1>8 DEF Block
<1>9. CASE Unblock
  BY <1>a, <1>9 DEF Unblock
<1>10. CASE Crash
  BY <1>10 DEF Crash, Idle, FreshCall
<1>11. CASE UNCHANGED vars
  BY <1>a, <1>11 DEF vars
<1> QED
  BY <1>1, <1>2, <1>3, <1>4, <1>5, <1>6, <1>7, <1>8, <1>9, <1>10, <1>11 DEF Next

-----------------------------------------------------------------------------
(* What the writers have read. *)

LEMMA WrittenStep ==
  TypeOK /\ HolderIsHead /\ HasSelected /\ Written /\ [Next]_vars => Written'
<1> SUFFICES ASSUME TypeOK, HolderIsHead, HasSelected, Written, [Next]_vars
             PROVE  Written'
  OBVIOUS
<1>0. /\ call \in [Calls -> CallType]
      /\ status \in [Runs -> Statuses]
      /\ outcome \in [Runs -> Ended \cup {"none"}]
      /\ seen \in [Passes -> SUBSET Runs]
      /\ stop \subseteq Runs /\ live \subseteq Runs
  BY DEF TypeOK
<1>1. Started \subseteq Started'
  BY <1>0, StatusStep DEF Quiet, Creates, IsNext, Ends, Revives, Starts, Ended, Started
<1>2. \A r \in Runs : status[r] # "none" => status'[r] # "none"
  BY <1>0, StatusStep DEF Quiet, Creates, IsNext, Ends, Revives, Starts, Ended
<1>3. ASSUME NEW c \in Calls PROVE \A r \in call'[c].todo : status'[r] # "none"
  <2>0. call[c].todo \subseteq Runs
    BY <1>0 DEF CallType
  <2>1. CASE SameCall(c) \/ Moves(c) \/ Counts(c) \/ Advances(c)
    <3>1. call'[c].todo \subseteq call[c].todo
      BY <2>1 DEF SameCall, Moves, Counts, Advances
    <3> QED
      BY <1>2, <2>0, <3>1 DEF Written
  <2>2. CASE FreshCall(c)
    BY <2>2 DEF FreshCall
  <2>3. CASE Selects(c)
    BY <2>3 DEF Selects, QueuedOf
  <2> QED
    BY <2>1, <2>2, <2>3, CallStep
<1>a. ASSUME UNCHANGED <<live, orphan, revived, seen, outcome, stop>> PROVE Written'
  BY <1>0, <1>1, <1>2, <1>3, <1>a DEF Written
<1>4. ASSUME NEW r \in Runs, Enqueue(r) PROVE Written'
  BY <1>a, <1>4 DEF Enqueue, memory, children
<1>5. ASSUME NEW r \in Runs, Decide(r) \/ Finish(r) PROVE Written'
  BY <1>0, <1>1, <1>2, <1>3, <1>5 DEF Decide, Finish, Written, children
<1>6. ASSUME NEW r \in Runs, StopReads(r) \/ StopWrites(r) \/ ChildExits(r) PROVE Written'
  BY <1>0, <1>1, <1>2, <1>3, <1>6
     DEF StopReads, StopWrites, ChildExits, Written, children, memory
<1>7. ASSUME NEW p \in Passes, Reap(p) PROVE Written'
  <2>1. CASE ReapSelect(p)
    <3>1. {r \in Runs : status[r] = "running"} \subseteq Started
      BY DEF Started
    <3> QED
      BY <1>0, <1>1, <1>2, <1>3, <2>1, <3>1 DEF ReapSelect, Written, children
  <2>2. ASSUME NEW r \in Runs,
               ReapSkip(p, r) \/ ReapDetached(p, r) \/ ReapLost(p, r)
        PROVE  Written'
    <3>1. /\ r \in seen[p] /\ seen' = [seen EXCEPT ![p] = @ \ {r}]
          /\ UNCHANGED <<live, outcome, stop, orphan>>
          /\ revived' \subseteq revived \cup {r}
      BY <2>2 DEF ReapSkip, ReapDetached, ReapLost, Past
    <3>2. \A q \in Passes : seen'[q] \subseteq seen[q]
      BY <1>0, <3>1
    <3>3. revived' \subseteq Started
      BY <3>1 DEF Written
    <3> QED
      BY <1>0, <1>1, <1>2, <1>3, <3>1, <3>2, <3>3 DEF Written
  <2> QED
    BY <1>7, <2>1, <2>2 DEF Reap
<1>8. ASSUME NEW a \in Agents, Resume(a) PROVE Written'
  BY <1>a, <1>8 DEF Resume, memory, children
<1>9. ASSUME NEW c \in Calls, NEW a \in Agents, Join(c, a) PROVE Written'
  BY <1>a, <1>9 DEF Join, memory, children
<1>10. ASSUME NEW c \in Calls, Step(c) PROVE Written'
  <2>1. CASE Launch(c)
    <3>1. {r \in call[c].got : status[r] = "running"} \subseteq Started
      BY <1>0 DEF Started, CallType
    <3> QED
      BY <1>0, <1>1, <1>2, <1>3, <2>1, <3>1 DEF Launch, Written, children
  <2>2. CASE ~Launch(c)
    BY <1>a, <1>10, <2>2
       DEF Step, CountSlots, SelectQueued, CheckAdmission, Claim, ReadRefused,
           CancelRefused, PromoteRefused, RestartOwnAgent, memory, children
  <2> QED
    BY <2>1, <2>2
<1>11. ASSUME NEW kind \in {"company", "budget"}, Block(kind) PROVE Written'
  BY <1>a, <1>11 DEF Block, memory, children
<1>12. CASE Unblock
  BY <1>a, <1>12 DEF Unblock, memory, children
<1>13. CASE Crash
  BY <1>0, <1>1, <1>2, <1>3, <1>13 DEF Crash, Written
<1>14. CASE UNCHANGED vars
  BY <1>a, <1>14 DEF vars, memory, children
<1> QED
  BY <1>4, <1>5, <1>6, <1>7, <1>8, <1>9, <1>10, <1>11, <1>12, <1>13, <1>14 DEF Next

-----------------------------------------------------------------------------
(* The slots of an agent. *)

\* A holder's free slots, and then its selected runs, fit beside the running runs.
SlotsFit ==
  \A c \in Calls :
    LET running == Cardinality(CappedOf(call[c].agent))
    IN  /\ call[c].todo \subseteq RunsOf(call[c].agent)
        /\ call[c].pc = "counted" => running + call[c].slots <= MaxConcurrent
        /\ call[c].pc \in Holding \ {"counted"} =>
             running + Cardinality(call[c].todo) <= MaxConcurrent

Inv == /\ TypeOK /\ HolderIsHead /\ HasSelected /\ Written
       /\ SlotsFit /\ MaxConcurrentRespected

\* The cardinalities of sets of runs.
LEMMA RunSets ==
  ASSUME NEW S \in SUBSET Runs
  PROVE  /\ IsFiniteSet(S)
         /\ Cardinality(S) \in Nat
         /\ \A T \in SUBSET S : Cardinality(T) <= Cardinality(S)
<1>1. IsFiniteSet(S)
  BY FS_Subset, StartAssumption DEF StartAssumption
<1> QED
  BY <1>1, FS_Subset, FS_CardinalityType

\* A step by which no run starts.
NoStart == Quiet \/ \E r \in Runs : Creates(r) \/ Ends(r) \/ Revives(r)

\* Unless a run starts, no agent has more running runs than before.
LEMMA RunningShrinks ==
  ASSUME TypeOK, NoStart, NEW a \in Agents
  PROVE  CappedOf(a)' \subseteq CappedOf(a)
<1> USE DEF TypeOK, CappedOf, RunningOf, RunsOf
<1>1. CASE Quiet
  BY <1>1 DEF Quiet
<1>2. ASSUME NEW r \in Runs, Creates(r) PROVE CappedOf(a)' \subseteq CappedOf(a)
  BY <1>2 DEF Creates
<1>3. ASSUME NEW r \in Runs, Ends(r) PROVE CappedOf(a)' \subseteq CappedOf(a)
  BY <1>3 DEF Ends, Ended
<1>4. ASSUME NEW r \in Runs, Revives(r) PROVE CappedOf(a)' \subseteq CappedOf(a)
  BY <1>4 DEF Revives
<1> QED
  BY <1>1, <1>2, <1>3, <1>4 DEF NoStart

LEMMA SlotsStep == Inv /\ [Next]_vars => SlotsFit' /\ MaxConcurrentRespected'
<1> SUFFICES ASSUME Inv, [Next]_vars PROVE SlotsFit' /\ MaxConcurrentRespected'
  OBVIOUS
<1> DEFINE Fits(d) ==
      LET running == Cardinality(CappedOf(call[d].agent))
      IN  /\ call[d].todo \subseteq RunsOf(call[d].agent)
          /\ call[d].pc = "counted" => running + call[d].slots <= MaxConcurrent
          /\ call[d].pc \in Holding \ {"counted"} =>
               running + Cardinality(call[d].todo) <= MaxConcurrent
<1>0. /\ TypeOK /\ HolderIsHead /\ HasSelected /\ Written /\ MaxConcurrentRespected
      /\ \A d \in Calls : Fits(d)
      /\ MaxConcurrent \in Nat
      /\ call \in [Calls -> CallType] /\ status \in [Runs -> Statuses]
  BY StartAssumption DEF Inv, SlotsFit, StartAssumption, TypeOK
<1>1. TypeOK'
  BY TypeStep, <1>0
<1>2. \A a : CappedOf(a) \subseteq Runs /\ CappedOf(a)' \subseteq Runs
  BY DEF CappedOf, RunningOf, RunsOf
<1>3. CASE NoStart
  <2>1. \A a \in Agents : Cardinality(CappedOf(a)') <= Cardinality(CappedOf(a))
    BY <1>0, <1>2, <1>3, RunningShrinks, RunSets
  <2>2. \A a : Cardinality(CappedOf(a)) \in Nat /\ Cardinality(CappedOf(a)') \in Nat
    BY <1>2, RunSets
  <2>3. MaxConcurrentRespected'
    BY <1>0, <2>1, <2>2 DEF MaxConcurrentRespected
  <2>4. ASSUME NEW d \in Calls PROVE Fits(d)'
    <3>a. PICK a \in Agents : a = call[d].agent
      BY <1>0 DEF CallType
    <3>0. /\ a = call[d].agent /\ call[d].todo \subseteq Runs /\ call[d].slots \in Nat
          /\ call'[d].agent \in Agents /\ call'[d].todo \subseteq Runs
          /\ call[d].todo \subseteq RunsOf(a)
      BY <1>0, <1>1, <3>a DEF CallType, TypeOK
    <3>1. /\ Cardinality(call[d].todo) \in Nat /\ Cardinality(call'[d].todo) \in Nat
          /\ Cardinality(CappedOf(a)') <= Cardinality(CappedOf(a))
      BY <2>1, <3>0, RunSets
    <3>2. CASE SameCall(d)
      BY <1>0, <2>2, <3>0, <3>1, <3>2 DEF SameCall, RunsOf
    <3>3. CASE FreshCall(d)
      BY <3>0, <3>3 DEF FreshCall, Holding
    <3>4. CASE Counts(d)
      <4>1. CappedOf(a) \subseteq RunningOf(a) /\ RunningOf(a) \subseteq Runs
        BY DEF CappedOf, RunningOf, RunsOf
      <4>2. /\ Cardinality(RunningOf(a)) \in Nat
            /\ Cardinality(CappedOf(a)) <= Cardinality(RunningOf(a))
        BY <4>1, RunSets
      <4>3. /\ call'[d].agent = a /\ call'[d].pc = "counted"
            /\ call'[d].slots = MaxConcurrent - Cardinality(RunningOf(a))
            /\ call'[d].todo \subseteq RunsOf(a)
        BY <3>0, <3>4 DEF Counts
      <4> QED
        BY <1>0, <2>2, <3>1, <4>2, <4>3 DEF RunsOf, Holding
    <3>5. CASE Selects(d)
      <4>1. call'[d].todo \subseteq RunsOf(a) /\ Cardinality(call'[d].todo) <= call[d].slots
        BY <3>0, <3>5 DEF Selects, IsOldest, QueuedOf
      <4>2. call'[d].agent = a /\ call'[d].pc = "claiming" /\ call[d].pc = "counted"
        BY <3>0, <3>5 DEF Selects
      <4> QED
        BY <1>0, <2>2, <3>0, <3>1, <4>1, <4>2 DEF RunsOf
    <3>6. CASE Advances(d)
      <4>1. call'[d].todo \subseteq call[d].todo /\ call'[d].agent = a
        BY <3>0, <3>6 DEF Advances
      <4>2. Cardinality(call'[d].todo) <= Cardinality(call[d].todo)
        BY <3>0, <4>1, RunSets
      <4>3. call[d].pc \in Holding \ {"counted"} /\ call'[d].pc # "counted"
        BY <3>6 DEF Advances, Holding
      <4> QED
        BY <1>0, <2>2, <3>0, <3>1, <4>1, <4>2, <4>3 DEF RunsOf
    <3>7. CASE Moves(d)
      BY <1>0, <2>2, <3>0, <3>1, <3>7 DEF Moves, RunsOf
    <3> QED
      BY <1>0, <3>2, <3>3, <3>4, <3>5, <3>6, <3>7, CallStep
  <2> QED
    BY <2>3, <2>4 DEF SlotsFit
<1>4. ASSUME NEW c \in Calls, Starts(c) PROVE SlotsFit' /\ MaxConcurrentRespected'
  <2>a. PICK a \in Agents, todo \in SUBSET Runs, r \in Runs :
          a = call[c].agent /\ todo = call[c].todo /\ r = Oldest(call[c].todo)
    BY <1>0, <1>4 DEF Starts, CallType
  <2>0. /\ a = call[c].agent /\ todo = call[c].todo /\ r = Oldest(todo) /\ todo \subseteq RunsOf(a) /\ todo \subseteq Runs
        /\ r \in todo /\ r \in Runs /\ AgentOf[r] = a
        /\ status[r] = "queued" /\ status' = [status EXCEPT ![r] = "running"]
        /\ revived' = revived /\ r \notin revived
        /\ call[c].pc = "admitted"
    BY <1>0, <1>4, <2>a DEF Starts, Claim, RunsOf, Written, Started
  <2>1. /\ call'[c].todo = todo \ {r} /\ call'[c].pc = "claiming"
        /\ call'[c].agent = a
        /\ \A d \in Calls \ {c} : call'[d] = call[d]
    BY <1>0, <1>4, <2>0 DEF Starts, Claim, CallType
  <2>2. /\ CappedOf(a)' = CappedOf(a) \cup {r} /\ r \notin CappedOf(a)
        /\ \A b \in Agents \ {a} : CappedOf(b)' = CappedOf(b)
    BY <1>0, <2>0 DEF CappedOf, RunningOf, RunsOf
  <2>3. /\ Cardinality(CappedOf(a)') = Cardinality(CappedOf(a)) + 1
        /\ Cardinality(todo \ {r}) = Cardinality(todo) - 1
        /\ Cardinality(CappedOf(a)) \in Nat /\ Cardinality(todo \ {r}) \in Nat
        /\ Cardinality(todo) \in Nat
    <3>1. IsFiniteSet(CappedOf(a)) /\ IsFiniteSet(todo)
      BY <1>2, <2>0, RunSets
    <3>2. Cardinality(todo \ {r}) \in Nat /\ Cardinality(CappedOf(a)) \in Nat
          /\ Cardinality(todo) \in Nat
      BY <1>2, <2>0, RunSets
    <3>3. Cardinality(CappedOf(a) \cup {r}) = Cardinality(CappedOf(a)) + 1
      BY <2>2, <3>1, FS_AddElement
    <3>4. Cardinality(todo \ {r}) = Cardinality(todo) - 1
      <4>1. Cardinality(todo \ {r}) = IF r \in todo THEN Cardinality(todo) - 1
                                                    ELSE Cardinality(todo)
        BY <3>1, FS_RemoveElement, Zenon
      <4> QED
        BY <2>0, <4>1, Zenon
    <3> QED
      BY <2>2, <3>2, <3>3, <3>4
  <2>4. Cardinality(CappedOf(a)) + Cardinality(todo) <= MaxConcurrent
    BY <1>0, <2>0 DEF Holding
  <2>5. MaxConcurrentRespected'
    <3>1. Cardinality(CappedOf(a)') <= MaxConcurrent
      BY <1>0, <2>3, <2>4
    <3>2. \A b \in Agents \ {a} : Cardinality(CappedOf(b)') <= MaxConcurrent
      BY <1>0, <2>2 DEF MaxConcurrentRespected
    <3> QED
      BY <3>1, <3>2 DEF MaxConcurrentRespected
  <2>6. ASSUME NEW d \in Calls PROVE Fits(d)'
    <3>1. CASE d = c
      <4>1. todo \ {r} \subseteq RunsOf(a)'
        BY <2>0 DEF RunsOf
      <4>2. Cardinality(CappedOf(a)') + Cardinality(todo \ {r}) <= MaxConcurrent
        BY <1>0, <2>3, <2>4
      <4>3. /\ call'[d].agent = a /\ call'[d].todo = todo \ {r}
            /\ call'[d].pc = "claiming"
        BY <2>1, <3>1
      <4> QED
        BY <4>1, <4>2, <4>3 DEF CappedOf, RunningOf, RunsOf
    <3>2. CASE d # c /\ (call[d].agent # a \/ call[d].pc \notin Holding)
      <4>1. call'[d] = call[d] /\ call[d].agent \in Agents
        BY <1>0, <2>1, <3>2 DEF CallType
      <4>2. "counted" \in Holding
        BY DEF Holding
      <4> QED
        BY <1>0, <2>2, <3>2, <4>1, <4>2 DEF RunsOf
    <3>3. CASE d # c /\ call[d].agent = a /\ call[d].pc \in Holding
      BY <1>0, <2>0, <3>3 DEF HolderIsHead, HasLock, Holding
    <3> QED
      BY <3>1, <3>2, <3>3
  <2> QED
    BY <2>5, <2>6 DEF SlotsFit
<1> QED
  BY <1>0, <1>3, <1>4, StatusStep DEF NoStart

-----------------------------------------------------------------------------
(* The order of the starts. *)

\* Runs are created in the order of their ids.
CreatedInOrder ==
  \A r, q \in Runs : q < r /\ status[r] # "none" => status[q] # "none"

\* No queued run of the agent that a call has passed over is older than one it
\* has selected.
SelectsOldest ==
  \A c \in Calls : \A r \in call[c].todo :
    /\ status[r] # "none"
    /\ \A q \in RunsOf(call[c].agent) :
         q < r /\ status[q] = "queued" => q \in call[c].todo

LEMMA CreatedStep == Inv /\ CreatedInOrder /\ [Next]_vars => CreatedInOrder'
<1> SUFFICES ASSUME Inv, CreatedInOrder, [Next]_vars PROVE CreatedInOrder'
  OBVIOUS
<1>0. TypeOK /\ HasSelected /\ Written /\ status \in [Runs -> Statuses]
  BY DEF Inv, TypeOK
<1>1. ASSUME NEW r \in Runs, Creates(r) PROVE CreatedInOrder'
  BY <1>0, <1>1 DEF Creates, IsNext, CreatedInOrder
<1>2. ASSUME NEW r \in Runs, Ends(r) PROVE CreatedInOrder'
  BY <1>0, <1>2 DEF Ends, Ended, CreatedInOrder
<1>3. ASSUME NEW c \in Calls, Starts(c) PROVE CreatedInOrder'
  BY <1>0, <1>3 DEF Starts, CreatedInOrder
<1>4. ASSUME NEW r \in Runs, Revives(r) PROVE CreatedInOrder'
  BY <1>0, <1>4 DEF Revives, Ended, CreatedInOrder
<1>5. CASE Quiet
  BY <1>5 DEF Quiet, CreatedInOrder
<1> QED
  BY <1>0, <1>1, <1>2, <1>3, <1>4, <1>5, StatusStep

LEMMA SelectsStep ==
  Inv /\ CreatedInOrder /\ SelectsOldest /\ [Next]_vars => SelectsOldest'
<1> SUFFICES ASSUME Inv, CreatedInOrder, SelectsOldest, [Next]_vars,
                    NEW d \in Calls, NEW r \in call'[d].todo
             PROVE  /\ status'[r] # "none"
                    /\ \A q \in RunsOf(call'[d].agent) :
                         q < r /\ status'[q] = "queued" => q \in call'[d].todo
  BY DEF SelectsOldest, RunsOf
<1>0. /\ TypeOK /\ HolderIsHead /\ HasSelected /\ Written
      /\ status \in [Runs -> Statuses] /\ call \in [Calls -> CallType]
      /\ status' \in [Runs -> Statuses] /\ Runs \subseteq Nat
      /\ call[d].todo \subseteq Runs
  BY TypeStep, StartAssumption DEF Inv, TypeOK, CallType, StartAssumption
<1>1. \A q \in Runs : status[q] # "none" => status'[q] # "none"
  BY <1>0, StatusStep DEF Quiet, Creates, Ends, Revives, Ended, Starts
<1>2. \A q \in Runs : status[r] # "none" /\ r \in Runs /\ q < r /\ status'[q] = "queued"
                      => status[q] = "queued"
  <2> SUFFICES ASSUME NEW q \in Runs, status[r] # "none", r \in Runs, q < r,
                      status'[q] = "queued"
               PROVE  status[q] = "queued"
    OBVIOUS
  <2>1. status[q] # "none"
    BY DEF CreatedInOrder
  <2>2. ASSUME NEW x \in Runs, Creates(x) \/ Ends(x) \/ Revives(x)
        PROVE  status[q] = "queued"
    BY <1>0, <2>1, <2>2 DEF Creates, IsNext, Ends, Revives, Ended
  <2>3. ASSUME NEW c \in Calls, Starts(c) PROVE status[q] = "queued"
    BY <1>0, <2>3 DEF Starts
  <2> QED
    BY <1>0, <2>2, <2>3, StatusStep DEF Quiet
<1>3. CASE SameCall(d) \/ Moves(d)
  <2>1. call'[d].todo = call[d].todo /\ call'[d].agent = call[d].agent
    BY <1>3 DEF SameCall, Moves
  <2> QED
    BY <1>0, <1>1, <1>2, <2>1 DEF SelectsOldest, RunsOf
<1>4. CASE FreshCall(d)
  BY <1>4 DEF FreshCall
<1>5. CASE Counts(d)
  BY <1>0, <1>1, <1>2, <1>5 DEF Counts, SelectsOldest, RunsOf
<1>6. CASE Selects(d)
  <2>1. /\ r \in Runs /\ status[r] = "queued" /\ status' = status
        /\ \A q \in QueuedOf(call[d].agent) \ call'[d].todo : r < q
        /\ call'[d].agent = call[d].agent
    BY <1>6 DEF Selects, IsOldest, QueuedOf, RunsOf
  <2>2. \A q \in RunsOf(call[d].agent) :
          q < r /\ status[q] = "queued" => q \in call'[d].todo
    <3>1. \A q \in Runs : ~(r < q /\ q < r)
      BY <1>0, <2>1
    <3> QED
      BY <2>1, <3>1 DEF QueuedOf, RunsOf
  <2> QED
    BY <2>1, <2>2
<1>7. CASE Advances(d)
  <2>1. PICK x \in call[d].todo : /\ x = Oldest(call[d].todo)
                                  /\ call'[d].todo = call[d].todo \ {x}
                                  /\ status'[x] # "queued"
                                  /\ call'[d].agent = call[d].agent
    BY <1>0, <1>7 DEF Advances
  <2>2. r \in Runs /\ status[r] # "none"
    BY <1>0, <2>1 DEF SelectsOldest
  <2>3. \A q \in RunsOf(call[d].agent) :
          q < r /\ status'[q] = "queued" => q \in call[d].todo
    BY <1>2, <2>1, <2>2 DEF SelectsOldest, RunsOf
  <2>4. \A q \in RunsOf(call[d].agent) :
          q < r /\ status'[q] = "queued" => q \in call'[d].todo
    BY <2>1, <2>3
  <2> QED
    BY <1>1, <2>1, <2>2, <2>4
<1> QED
  BY <1>0, <1>3, <1>4, <1>5, <1>6, <1>7, CallStep

\* A step that starts a run passes over no older queued run of its agent.
LEMMA OldestStep ==
  ASSUME Inv, SelectsOldest, [Next]_vars,
         NEW r \in Runs, NEW q \in Runs, AgentOf[q] = AgentOf[r], q < r,
         status[r] = "queued", status'[r] = "running"
  PROVE  status[q] # "queued"
<1>0. /\ TypeOK /\ HolderIsHead /\ HasSelected /\ Written /\ SlotsFit
      /\ status \in [Runs -> Statuses] /\ call \in [Calls -> CallType]
      /\ Runs \subseteq Nat
  BY StartAssumption DEF Inv, TypeOK, StartAssumption
<1>1. PICK c \in Calls : Starts(c)
  BY <1>0, StatusStep DEF Quiet, Creates, Ends, Revives, Ended
<1>2. r = Oldest(call[c].todo) /\ r \in call[c].todo
  BY <1>0, <1>1 DEF Starts
<1>3. call[c].todo \subseteq Runs /\ AgentOf[r] = call[c].agent
  BY <1>0, <1>2 DEF SlotsFit, RunsOf, CallType
<1>4. q \notin call[c].todo
  BY <1>0, <1>2, <1>3, OldestIsLeast
<1> QED
  BY <1>2, <1>3, <1>4 DEF SelectsOldest, RunsOf

-----------------------------------------------------------------------------
(* The theorems. *)

\* The invariant of the start lock, with the order.
StartInv == Inv /\ CreatedInOrder /\ SelectsOldest

LEMMA InitStartInv == Init => StartInv
<1> SUFFICES ASSUME Init PROVE StartInv
  OBVIOUS
<1>1. TypeOK
  BY TypeInit
<1>2. /\ \A c \in Calls : call[c].pc = "idle" /\ call[c].todo = {}
      /\ \A r \in Runs : status[r] = "none"
  BY DEF Init, Idle
<1>6. Written
  BY <1>2 DEF Init, Written, Started
<1>3. HolderIsHead /\ HasSelected /\ SlotsFit
  BY <1>2 DEF HolderIsHead, HasSelected, SlotsFit, Holding
<1>4. MaxConcurrentRespected
  <2>1. \A a \in Agents : CappedOf(a) = {}
    BY <1>2 DEF CappedOf, RunningOf, RunsOf
  <2> QED
    BY <2>1, FS_EmptySet, StartAssumption DEF MaxConcurrentRespected, StartAssumption
<1>5. CreatedInOrder /\ SelectsOldest
  BY <1>2 DEF CreatedInOrder, SelectsOldest
<1> QED
  BY <1>1, <1>3, <1>4, <1>5, <1>6 DEF Inv, StartInv

LEMMA NextStartInv == StartInv /\ [Next]_vars => StartInv'
BY TypeStep, HolderStep, WrittenStep, SlotsStep, CreatedStep, SelectsStep DEF StartInv, Inv

\* The start lock keeps its invariant.
THEOREM StartInvariant == Spec => []StartInv
BY InitStartInv, NextStartInv, PTL DEF Spec

\* The state of the start lock is always well formed.
THEOREM TypeCorrect == Spec => []TypeOK
<1>1. StartInv => TypeOK
  BY DEF StartInv, Inv
<1> QED
  BY <1>1, StartInvariant, PTL

\* Whatever start calls, late outcomes, cancellations, reapers and restarts interleave
\* with the count, the selection and the claims, an agent never has more running runs
\* than its maximum, but for those that a reaper has brought back from their end.
THEOREM MaxConcurrentHolds == Spec => []MaxConcurrentRespected
<1>1. StartInv => MaxConcurrentRespected
  BY DEF StartInv, Inv
<1> QED
  BY <1>1, StartInvariant, PTL

\* Where adapters run no child processes of their own no run is brought back, and the
\* limit is that of the documentation.
THEOREM RemoteAgentsAreCapped ==
  ASSUME LocalChildren = FALSE
  PROVE  Spec => [](\A a \in Agents : Cardinality(RunningOf(a)) <= MaxConcurrent)
<1>1. Init => revived = {}
  BY DEF Init
<1>2. revived = {} /\ [Next]_vars => (revived = {})'
  <2> SUFFICES ASSUME revived = {}, [Next]_vars PROVE revived' = {}
    OBVIOUS
  <2>1. ASSUME NEW p \in Passes, Reap(p) PROVE revived' = {}
    BY <2>1 DEF Reap, ReapSelect, ReapSkip, ReapDetached, ReapLost, children
  <2> QED
    BY <2>1 DEF Next, vars, children, Enqueue, Decide, Finish, StopReads, StopWrites,
       ChildExits, Resume, Join, Step, CountSlots, SelectQueued, CheckAdmission, Claim,
       ReadRefused, CancelRefused, PromoteRefused, RestartOwnAgent, Launch, Block,
       Unblock, Crash
<1>3. revived = {} /\ MaxConcurrentRespected =>
        \A a \in Agents : Cardinality(RunningOf(a)) <= MaxConcurrent
  <2>1. ASSUME revived = {} PROVE \A a \in Agents : CappedOf(a) = RunningOf(a)
    BY <2>1 DEF CappedOf
  <2> QED
    BY <2>1 DEF MaxConcurrentRespected
<1> QED
  BY <1>1, <1>2, <1>3, MaxConcurrentHolds, PTL DEF Spec

\* An agent's runs are started in the order of their creation.
THEOREM OldestFirst == Spec => OldestStartsFirst
<1>1. StartInv /\ [Next]_vars =>
        [\A r, q \in Runs :
           /\ AgentOf[q] = AgentOf[r] /\ q < r
           /\ status[r] = "queued" /\ status'[r] = "running"
           => status[q] # "queued"]_vars
  BY OldestStep DEF StartInv
<1> QED
  BY <1>1, StartInvariant, PTL DEF Spec, OldestStartsFirst

-----------------------------------------------------------------------------
(* Refinement. *)

\* The instance of RunPool has a Cardinality of its own, with the same definition.
LEMMA PoolCardinality == \A S : Pool!Cardinality(S) = Cardinality(S)
BY DEF Pool!Cardinality, Cardinality

\* The start lock implements the run pool with late writers.
THEOREM PoolImplemented == Spec => ImplementsPool
<1>1. Init => Pool!Init
  BY StartAssumption DEF Init, Pool!Init, StartAssumption, poolStatus
<1>2. StartInv /\ [Next]_vars => [Pool!LateNext]_(Pool!vars)
  <2> SUFFICES ASSUME StartInv, [Next]_vars PROVE [Pool!LateNext]_(Pool!vars)
    OBVIOUS
  <2>0. /\ TypeOK /\ HasSelected /\ Written /\ SlotsFit /\ AgentOf \in [Runs -> Agents]
        /\ status \in [Runs -> Statuses]
        /\ \A r \in revived : status[r] \notin {"none", "queued"}
    BY StartAssumption DEF StartInv, Inv, StartAssumption, TypeOK, Written, Started
  <2>1. CASE Quiet
    BY <2>1 DEF Quiet, Pool!vars, poolStatus
  <2>2. ASSUME NEW r \in Runs, Creates(r) PROVE Pool!LateNext
    <3>1. AgentOf = [AgentOf EXCEPT ![r] = AgentOf[r]] /\ AgentOf[r] \in Agents
      BY <2>0
    <3>2. r \notin revived
      BY <2>0, <2>2 DEF Creates, IsNext
    <3>3. Pool!Create(r, AgentOf[r])
      BY <2>0, <2>2, <3>1, <3>2 DEF Creates, IsNext, Pool!Create, poolStatus
    <3> QED
      BY <3>1, <3>3 DEF Pool!Next, Pool!LateNext
  <2>3. ASSUME NEW r \in Runs, Ends(r) PROVE Pool!LateNext \/ UNCHANGED Pool!vars
    <3>1. PICK s \in Ended : /\ status' = [status EXCEPT ![r] = s]
                             /\ revived' = revived
      BY <2>3 DEF Ends
    <3>2. CASE r \in revived
      BY <2>0, <3>1, <3>2 DEF Pool!vars, poolStatus
    <3>3. CASE r \notin revived
      <4>1. poolStatus' = [poolStatus EXCEPT ![r] = s] /\ poolStatus[r] = status[r]
        BY <2>0, <3>1, <3>3 DEF poolStatus
      <4>2. status[r] \in Ended \/ status[r] \in Pool!Active
        BY <2>0, <2>3 DEF Ends, Statuses, Ended, Pool!Active
      <4>3. CASE status[r] \in Ended
        BY <4>1, <4>3 DEF Pool!Replace, Pool!LateNext, Ended, Pool!Ended
      <4>4. CASE status[r] \in Pool!Active
        BY <4>1, <4>4 DEF Pool!End, Pool!Next, Pool!LateNext, Ended, Pool!Ended
      <4> QED
        BY <4>2, <4>3, <4>4
    <3> QED
      BY <3>2, <3>3
  <2>4. ASSUME NEW r \in Runs, Revives(r) PROVE Pool!LateNext \/ UNCHANGED Pool!vars
    <3>1. CASE r \in revived
      BY <2>0, <2>4, <3>1 DEF Revives, Pool!vars, poolStatus
    <3>2. CASE r \notin revived
      <4>1. poolStatus' = [poolStatus EXCEPT ![r] = "cancelled"] /\ poolStatus[r] \in Ended
        BY <2>0, <2>4, <3>2 DEF Revives, poolStatus
      <4> QED
        BY <4>1 DEF Pool!Replace, Pool!LateNext, Ended, Pool!Ended
    <3> QED
      BY <3>1, <3>2
  <2>5. ASSUME NEW c \in Calls, Starts(c) PROVE Pool!LateNext
    <3> DEFINE running == Cardinality(CappedOf(call[c].agent))
    <3>1. PICK r \in Runs : /\ r \in call[c].todo /\ status[r] = "queued"
                            /\ status' = [status EXCEPT ![r] = "running"]
                            /\ revived' = revived
                            /\ AgentOf[r] = call[c].agent
      BY <2>0, <2>5 DEF Starts, SlotsFit, RunsOf
    <3>2. running + Cardinality(call[c].todo) <= MaxConcurrent
      BY <2>0, <2>5 DEF SlotsFit, Starts, Claim, Holding
    <3>3. Cardinality(call[c].todo) \in Nat \ {0} /\ running \in Nat
      <4>1. call[c].todo \subseteq Runs /\ CappedOf(call[c].agent) \subseteq Runs
        BY <2>0 DEF SlotsFit, RunsOf, RunningOf, CappedOf
      <4>2. IsFiniteSet(call[c].todo) /\ Cardinality(call[c].todo) \in Nat
            /\ running \in Nat
        BY <4>1, RunSets
      <4>3. Cardinality(call[c].todo) # 0
        BY <3>1, <4>2, FS_EmptySet
      <4> QED
        BY <4>2, <4>3
    <3>4. running < MaxConcurrent
      BY <3>2, <3>3, StartAssumption DEF StartAssumption
    <3>5. Pool!RunningOf(AgentOf[r]) = CappedOf(call[c].agent)
      BY <3>1 DEF Pool!RunningOf, CappedOf, RunningOf, RunsOf, poolStatus
    <3>6. Pool!Start(r)
      <4>1. Pool!Cardinality(Pool!RunningOf(AgentOf[r])) < MaxConcurrent
        BY <3>4, <3>5, PoolCardinality
      <4>2. UNCHANGED AgentOf
        OBVIOUS
      <4>3. r \notin revived
        BY <2>0, <3>1
      <4>4. /\ poolStatus[r] = "queued"
            /\ poolStatus' = [poolStatus EXCEPT ![r] = "running"]
        BY <2>0, <3>1, <4>3 DEF poolStatus
      <4> QED
        BY <4>1, <4>2, <4>4, Zenon DEF Pool!Start
    <3> QED
      BY <3>6 DEF Pool!Next, Pool!LateNext
  <2> QED
    BY <2>0, <2>1, <2>2, <2>3, <2>4, <2>5, StatusStep
<1> QED
  BY <1>1, <1>2, StartInvariant, PTL DEF Spec, ImplementsPool, Pool!LateSpec
=============================================================================
