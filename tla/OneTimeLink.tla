----------------------------- MODULE OneTimeLink -----------------------------
(***************************************************************************)
(* What a one-time link promises: it is issued, and then either redeemed   *)
(* by one request or made void, and what happened to it is final.          *)
(***************************************************************************)
CONSTANT Links

VARIABLE fate   \* [Links -> what became of the link]

Init == fate = [l \in Links |-> "unissued"]

Issue(l) ==
    /\ fate[l] = "unissued"
    /\ fate' = [fate EXCEPT ![l] = "open"]

Redeem(l) ==
    /\ fate[l] = "open"
    /\ fate' = [fate EXCEPT ![l] = "redeemed"]

\* A fresh link, or the deletion of the account, voids any number of open links.
Void(S) ==
    /\ \A l \in S : fate[l] = "open"
    /\ fate' = [l \in Links |-> IF l \in S THEN "void" ELSE fate[l]]

Next ==
    \/ \E l \in Links : Issue(l) \/ Redeem(l)
    \/ \E S \in SUBSET Links : Void(S)

Spec == Init /\ [][Next]_fate
=============================================================================
