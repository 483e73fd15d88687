----------------------------- MODULE MCModelCalls -----------------------------
(* Model values for the TLC runs of ModelCalls. *)
EXTENDS ModelCalls, TLC

CONSTANTS c1, c2, problem, pattern, quiz

TwoCallers == {c1, c2}
TwoTopics == {problem, pattern}
OneLesson == {pattern}
AllLessons == {problem, pattern}
SomeWants == {{}, {quiz}, {Teacher}}
FewWants == {{}, {quiz}}
OneNested == {quiz}

Symmetry == Permutations(TwoCallers)

FairSpec == Spec /\ Fairness
=============================================================================
