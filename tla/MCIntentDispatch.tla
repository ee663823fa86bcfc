---------------------------- MODULE MCIntentDispatch ----------------------------
(* Small instances of IntentDispatch for TLC. *)
EXTENDS IntentDispatch, TLC

CONSTANTS i1, i2

\* One issue waits for the other.
Chain == {<<i2, i1>>}

NoDeps == {}

\* Passes and agents are alike; only for runs without liveness.
Symmetry == Permutations(Passes) \cup Permutations(Agents)
=================================================================================
