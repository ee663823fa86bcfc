-------------------------- MODULE MCRoutineDispatch --------------------------
(* Values for RoutineDispatch: two calls that share a key, and one routine that *)
(* coalesces and catches up and one that does neither.                          *)
EXTENDS RoutineDispatch, TLC

CONSTANTS p1, p2, c1, c2, k

SameKey == [c \in Callers |-> k]

Mixed == {[policy |-> "coalesce_if_active", catchUp |-> TRUE],
          [policy |-> "always_enqueue", catchUp |-> FALSE]}

Symmetry == Permutations(Passes) \cup Permutations(Callers)
=============================================================================
