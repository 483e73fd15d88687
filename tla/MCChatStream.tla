---------------------------- MODULE MCChatStream ----------------------------
(* Model values for the TLC runs of ChatStream. *)
EXTENDS ChatStream, TLC

CONSTANTS r1, r2

TwoReqs == {r1, r2}

Symmetry == Permutations(TwoReqs)
=============================================================================
