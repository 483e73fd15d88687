---------------------------- MODULE MCSessionData ----------------------------
(***************************************************************************)
(* TLC runs of what the AI service stores: ConversationMemory,             *)
(* PromptVersions, LearningProducts and SessionStore.  They share no       *)
(* variable, so a behaviour is one of a single module, chosen at the       *)
(* start.  SessionStore is looked at from three sides, each with a         *)
(* smaller instance: its lists, the marks of messages, and the replay.     *)
(***************************************************************************)
EXTENDS ConversationMemory, PromptVersions, LearningProducts, SessionStore, TLC

CONSTANTS w1, w2, s1, s2, p1, p2, u1

VARIABLE part

vars == <<memoryVars, promptVars, learningVars, storeVars, part>>

\* The writers, requests, administrators and threads of the four modules.
TwoWorkers == {w1, w2}
TwoSessions == {s1, s2}
TwoNames == {p1, p2}
TwoVersions == {"v1", "v2"}
OneUser == {u1}
AllProducts == Practice \cup Lessons
AllFeatures == Problems \cup LessonProducts

Few == {"graph", "cycle", "weather"}
Context == {"graph"}
AnswerOf == {"cycle"}

Asked(offTopic, pedagogical, words) ==
    [offTopic |-> offTopic, pedagogical |-> pedagogical, words |-> words,
     length |-> 5, deictic |-> FALSE]

\* One question is always in context, one never, and one needs the memory.
SomeQuestions == {Asked(FALSE, TRUE, {"graph"}), Asked(TRUE, TRUE, {"weather"}),
                  Asked(FALSE, FALSE, {"cycle", "weather"})}

Symmetry == Permutations(TwoWorkers) \cup Permutations(TwoSessions) \cup Permutations(TwoNames)

-----------------------------------------------------------------------------
(* The instances of SessionStore.                                          *)

Created == {s \in Conversations : session'[s] # Null}
StillThere == {s \in Created : session'[s] # Removed}
Working == {t \in Threads : task'[t].pc # "idle"}
Only(features) == \A s \in StillThere : session'[s].feature \in features
OneConversation ==
    /\ Cardinality(Created) <= 1
    /\ \A s \in StillThere : ~ session'[s].archived /\ ~ session'[s].pinned /\ ~ session'[s].found

\* Two conversations with all their attributes, one request at a time, no marks.
ListsOnly ==
    /\ Only({"leetcode", "course_generator"})
    /\ client' = NoClient
    /\ Cardinality(Working) <= 1 /\ \A t \in Working : task'[t].pc = "drop"

\* One conversation of one turn, two requests that mark or delete its answer.
MarksOnly ==
    /\ Only({"dsa_pattern"})
    /\ OneConversation /\ client' = NoClient /\ Len(message') <= 2
    /\ \A t \in Working : task'[t].target # 1

\* One conversation, and a client that loses its stream.
ReplayOnly ==
    /\ Only({"hackerrank", "dsa_pattern"})
    /\ OneConversation /\ Cardinality(Working) <= 1 /\ wanted' = <<>> /\ Len(message') <= 3

-----------------------------------------------------------------------------
(* LearningProducts, one product at a time: the products do not touch each *)
(* other's rows.  The streaks of a lesson are followed through one request *)
(* more, on a single course that nobody marks or deletes.                  *)

InUse == ({req'[r].prod : r \in Reqs} \cup {ai'[s].prod : s \in Sessions}) \ {None}
OneProduct == Cardinality(InUse) <= 1 /\ starts' < MaxStarts

OneCourse ==
    /\ InUse \subseteq {"course"} /\ Cardinality({s \in Sessions : ai'[s].st # "unborn"}) <= 1
    /\ \A s \in Sessions : ai'[s].st # "gone"
    /\ \A r \in Reqs : req'[r].kind \notin {"delete", "view"} /\ req'[r].mark = "no"
    /\ cut' = {}

Init ==
    /\ part \in {"memory", "prompts", "learning", "streaks", "lists", "marks", "replay"}
    /\ MemoryInit /\ PromptInit /\ LearningInit /\ StoreInit

StoreStep(side, instance) ==
    /\ part = side
    /\ StoreNext
    /\ instance
    /\ UNCHANGED <<memoryVars, promptVars, learningVars, part>>

Next ==
    \/ /\ part = "memory" /\ MemoryNext
       /\ UNCHANGED <<promptVars, learningVars, storeVars, part>>
    \/ /\ part = "prompts" /\ PromptNext
       /\ UNCHANGED <<memoryVars, learningVars, storeVars, part>>
    \/ /\ LearningNext
       /\ \/ part = "learning" /\ OneProduct
          \/ part = "streaks" /\ OneCourse
       /\ UNCHANGED <<memoryVars, promptVars, storeVars, part>>
    \/ StoreStep("lists", ListsOnly)
    \/ StoreStep("marks", MarksOnly)
    \/ StoreStep("replay", ReplayOnly)

Spec == Init /\ [][Next]_vars

\* Every variable of the four modules has its type.
TypeOK == MemoryTypeOK /\ PromptTypeOK /\ LearningTypeOK /\ StoreTypeOK
=============================================================================
