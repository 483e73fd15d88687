---------------------------- MODULE MCUserState ----------------------------
(* Model values and symmetry for the TLC runs of UserState. *)
EXTENDS UserState, TLC

CONSTANTS u1, r1, r2, m1, m2

OneUser == {u1}
OneRequest == {r1}
OneMutator == {m1}
TwoRequests == {r1, r2}
TwoMutators == {m1, m2}

Symmetry == Permutations(TwoRequests) \cup Permutations(TwoMutators)
=============================================================================
