---------------------------- MODULE MCIssueCheckout ----------------------------
(* Small instances of IssueCheckout for TLC. *)
EXTENDS IssueCheckout, TLC

CONSTANTS a1, a2, r1, r2, r3

\* Two runs of one agent, without and with one of another.
TwoOfOne == (r1 :> a1) @@ (r2 :> a1)
TwoAndOne == (r1 :> a1) @@ (r2 :> a1) @@ (r3 :> a2)

\* A checkout of what is to be done, and one of any issue.
Usual == {{"todo"}, Statuses}

\* Requests are alike; only for runs without liveness.
Symmetry == Permutations(Requests)
================================================================================
