--------------------------- MODULE MCOneTimeLinks ---------------------------
(* Model values for the TLC runs of OneTimeLinks. *)
EXTENDS OneTimeLinks, TLC

CONSTANTS u1, p1, p2, r1, v1, v2

OneUser == {u1}
TwoProcs == {p1, p2}
OneResetLink == {r1}
TwoVerifyLinks == {v1, v2}

Symmetry == Permutations(TwoProcs) \cup Permutations(TwoVerifyLinks)
=============================================================================
