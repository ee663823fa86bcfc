------------------------------ MODULE IntentLife ------------------------------
(***************************************************************************)
(* What the dispatch queue promises about intents, and nothing about who   *)
(* handles them: an intent leaves the queue once, it is admitted alone, a  *)
(* run is made for an admitted one only (or for one that a pausing company *)
(* rejected behind the scheduler's back), and for each at most once.       *)
(***************************************************************************)
CONSTANT Intents

VARIABLES status,   \* dispatch_intents.status, "absent" before the insert
          ran       \* the intents a run has been made for

Live == {"queued", "admitted", "deferred"}
Resolved == {"rejected", "superseded", "deferred"}

Init == /\ status = [n \in Intents |-> "absent"]
        /\ ran = {}

\* A timer hint behind work of higher priority is born superseded.
Create(n) == /\ status[n] = "absent"
             /\ \E s \in {"queued", "superseded"} : status' = [status EXCEPT ![n] = s]
             /\ UNCHANGED ran

Admit(n) == /\ status[n] = "queued"
            /\ status' = [status EXCEPT ![n] = "admitted"]
            /\ UNCHANGED ran

\* One or many queued intents are resolved without a run.
Resolve(S, s) == /\ \A n \in S : status[n] = "queued"
                 /\ status' = [n \in Intents |-> IF n \in S THEN s ELSE status[n]]
                 /\ UNCHANGED ran

\* A company that is paused, archived or deleted rejects whatever is not consumed.
Quiesce == /\ status' = [n \in Intents |->
                           IF status[n] \in Live THEN "rejected" ELSE status[n]]
           /\ UNCHANGED ran

Run(n) == /\ n \notin ran
          /\ status[n] \in {"admitted", "rejected"}
          /\ ran' = ran \cup {n}
          /\ UNCHANGED status

Next == \/ \E n \in Intents : Create(n) \/ Admit(n) \/ Run(n)
        \/ \E S \in SUBSET Intents, s \in Resolved : Resolve(S, s)
        \/ Quiesce

vars == <<status, ran>>
Spec == Init /\ [][Next]_vars
===============================================================================
