-------------------------------- MODULE Orders --------------------------------
(***************************************************************************)
(* What ORDER BY makes of the rows a query finds.                          *)
(***************************************************************************)
EXTENDS Naturals, FiniteSets

\* The members of S one after the other, Before being a strict total order of them: at
\* each place the one with so many before it.  This is SetToSortSeq of SequencesExt,
\* whose definition rests on an operator that the provers do not know.
InOrder(S, Before(_, _)) ==
    [i \in 1 .. Cardinality(S) |->
        CHOOSE x \in S : Cardinality({y \in S : Before(y, x)}) = i - 1]

\* Numbers from the least on.
Ascending(S) == InOrder(S, LAMBDA m, n : m < n)
=============================================================================
