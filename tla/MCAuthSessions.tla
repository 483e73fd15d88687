--------------------------- MODULE MCAuthSessions ---------------------------
(* Model values and symmetry for the TLC runs of AuthSessions. *)
EXTENDS AuthSessions, TLC

CONSTANTS u1, p1, p2, t1, t2, t3

OneUser == {u1}
NoAdmins == {}
TwoProcs == {p1, p2}
ThreeTokens == {t1, t2, t3}

Symmetry == Permutations(TwoProcs) \cup Permutations(ThreeTokens)
=============================================================================
