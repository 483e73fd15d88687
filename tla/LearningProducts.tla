-------------------------- MODULE LearningProducts --------------------------
(***************************************************************************)
(* The four learning products of the AI service for one user: the LeetCode *)
(* and HackerRank mentors ("practice"), the DSA pattern coach and the      *)
(* course generator ("lessons").  A product turns a platform chat into     *)
(* rows of its own: a lesson stores a pattern session or a course beside   *)
(* the AI session, and every product keeps one progress row per user.      *)
(*                                                                         *)
(* Generating and analysing are coroutines of one event loop: after the    *)
(* chat they make synchronous database calls, so no two of them interleave *)
(* there.  Everything else is a def handler and runs in a thread, between  *)
(* any two statements of the others.  Sessions use autoflush=False and     *)
(* expire_on_commit=False; a commit UPDATEs only the attributes whose      *)
(* value the handler changed.                                              *)
(*                                                                         *)
(* Counters that are treated alike are one counter: work stands for        *)
(* practice, quizzes, lessons, projects and minutes.  The quiz average,    *)
(* which nothing else reads, is left out.                                  *)
(***************************************************************************)
EXTENDS Naturals, FiniteSets

CONSTANTS
    Products,    \* the products in use
    Sessions,    \* AI sessions, each created at most once
    Names,       \* pattern names, skills, problem categories
    Reqs,        \* concurrent requests of the user
    Works,       \* the deltas a progress update may carry
    MaxStarts,   \* requests started
    MaxDay,      \* days that pass
    None

Practice == {"leetcode", "hackerrank"}
Lessons == {"pattern", "course"}

ASSUME ProductsKnown == Products \subseteq Practice \cup Lessons
ASSUME NoneIsFresh == None \notin Sessions \cup Names \cup Products
\* Names are texts of a bounded length.
ASSUME NamesAreFinite == IsFiniteSet(Names)
ASSUME BoundsAreNat == MaxStarts \in Nat /\ MaxDay \in Nat /\ Works \subseteq Nat

VARIABLES
    ai,        \* [Sessions -> the row of ai_sessions]
    item,      \* [Sessions -> the row of pattern_sessions or courses]
    prog,      \* [Products -> the user's progress row]
    mast,      \* [Names -> the row of pattern_mastery]
    req,       \* [Reqs -> the request being handled]
    day,       \* the date
    starts,    \* requests started so far
    owed,      \* ghost: [Products -> the work of all committed updates]
    crossed,     \* ghost: products two updates of which overlapped
    cut,       \* ghost: sessions a request on which ended between its steps
    active,    \* ghost: [Products -> days with a committed progress change]
    recorded   \* ghost: [Products -> generated or analysed, and recorded]

learningVars == <<ai, item, prog, mast, req, day, starts, owed, crossed, cut, active, recorded>>
learningGhosts == <<owed, crossed, cut, active, recorded>>

AiSession == [st : {"unborn", "active", "manual", "completed", "gone"},
              prod : Products \cup {None}, name : Names \cup {None}]

ItemRow == [on : BOOLEAN, work : Nat, st : {"active", "completed", "mastered"}]

\* made counts what was learned, created or attempted; names are the patterns,
\* skills or strong topics; done counts mastered patterns, completed courses
\* or solved problems; last is 0 before the first activity.
ProgressRow == [on : BOOLEAN, made : Nat, names : SUBSET Names, done : Nat,
                strong : SUBSET Names, work : Nat,
                last : 0..MaxDay + 1, streak : Nat, longest : Nat]

MasteryRow == [on : BOOLEAN, sessions : Nat, work : Nat,
               st : {"learning", "practiced", "mastered"}]

NoItem == [on |-> FALSE, work |-> 0, st |-> "active"]
NoProgress == [on |-> FALSE, made |-> 0, names |-> {}, done |-> 0, strong |-> {},
               work |-> 0, last |-> 0, streak |-> 0, longest |-> 0]
NoMastery == [on |-> FALSE, sessions |-> 0, work |-> 0, st |-> "learning"]

Labels == {"idle", "chat", "item", "update", "drop", "dropSession",
           "load", "create", "mastery", "commit"}

\* agg, mas and its count of mastered rows are what the handler has loaded;
\* over: another request committed this product's progress since.
LearningRequest == [at : Labels, kind : {"none", "generate", "update", "delete", "view"},
            prod : Products \cup {None}, s : Sessions \cup {None},
            work : Nat, mark : {"no", "completed", "mastered"},
            copy : ItemRow, agg : ProgressRow, now : 1..MaxDay + 1,
            mas : MasteryRow, others : Nat, over : BOOLEAN]

Idle == [at |-> "idle", kind |-> "none", prod |-> None, s |-> None, work |-> 0,
         mark |-> "no", copy |-> NoItem, agg |-> NoProgress, now |-> 1,
         mas |-> NoMastery, others |-> 0, over |-> FALSE]

LearningInit ==
    /\ ai = [s \in Sessions |-> [st |-> "unborn", prod |-> None, name |-> None]]
    /\ item = [s \in Sessions |-> NoItem]
    /\ prog = [k \in Products |-> NoProgress]
    /\ mast = [n \in Names |-> NoMastery]
    /\ req = [r \in Reqs |-> Idle]
    /\ day = 1 /\ starts = 0
    /\ owed = [k \in Products |-> 0] /\ crossed = {} /\ cut = {}
    /\ active = [k \in Products |-> {}]
    /\ recorded = [k \in Products |-> 0]

-----------------------------------------------------------------------------
(* Requests. *)

At(r, label) == req[r].at = label
Goto(r, label) == req' = [req EXCEPT ![r].at = label]
EndRequest(r) == req' = [req EXCEPT ![r] = Idle]

BeginRequest(r, new) ==
    /\ At(r, "idle") /\ starts < MaxStarts
    /\ starts' = starts + 1
    /\ req' = [req EXCEPT ![r] = new]

\* A coroutine that runs after its chat has the event loop to itself.
LoopIsFree(r) ==
    \A q \in Reqs \ {r} : req[q].kind = "generate" => req[q].at \in {"idle", "chat"}

SessionExists(s) == ai[s].st \notin {"unborn", "gone"}

\* Mutant of Written: the whole row is written back as the handler holds it.
WrittenWhole(row, old, new) == new

\* The UPDATE of a commit: the attributes whose value the handler changed.
Written(row, old, new) ==
    [f \in DOMAIN row |-> IF new[f] # old[f] THEN new[f] ELSE row[f]]

-----------------------------------------------------------------------------
(* What the handlers do to the rows they loaded. *)

BiggerOf(a, b) == IF a >= b THEN a ELSE b

\* Mutant of Streaked: the activity is dated a day ahead.
StreakedAhead(row, streak, today) ==
    [row EXCEPT !.streak = streak, !.longest = BiggerOf(@, streak), !.last = today + 1]

Streaked(row, streak, today) ==
    [row EXCEPT !.streak = streak, !.longest = BiggerOf(@, streak), !.last = today]

\* Practice: every attempt within a day of the last one adds to the streak.
PracticeStreak(row, today) ==
    Streaked(row, IF row.last # 0 /\ today <= row.last + 1 THEN row.streak + 1 ELSE 1,
             today)

PatternStreak(row, today) ==
    Streaked(row,
             IF row.last = 0 \/ today > row.last + 1 THEN 1
             ELSE IF today # row.last THEN row.streak + 1 ELSE row.streak,
             today)

CourseStreak(row, today) == PatternStreak(row, today)

LeetCodeAttempt(row, n, today) ==
    PracticeStreak([row EXCEPT !.made = @ + 1, !.done = @ + 1, !.names = @ \cup {n}],
                   today)

\* Topics, domains, languages and tags all gain what they lack.
HackerRankAttempt(row, n, today) == LeetCodeAttempt(row, n, today)

PatternLearned(row, n, today) ==
    PatternStreak([row EXCEPT !.names = @ \cup {n},
                              !.made = IF n \in row.names THEN @ ELSE @ + 1], today)

CourseCreated(row, n, today) ==
    CourseStreak([row EXCEPT !.made = @ + 1, !.names = @ \cup {n}], today)

\* The pattern row is counted in the loaded list only if it existed before:
\* the SELECT does not flush a row the handler has just added.
PatternDeltas(q) ==
    LET n == ai[q.s].name
        self == IF q.mas.on THEN 1 ELSE 0
        row == [q.agg EXCEPT !.work = @ + q.work]
    IN  PatternStreak(IF q.mark = "mastered"
                      THEN [row EXCEPT !.done = q.others + self, !.strong = @ \cup {n}]
                      ELSE row, q.now)

\* courses_completed counts every request that marks, a course marked twice too.
CourseDeltas(q) ==
    CourseStreak([q.agg EXCEPT !.work = @ + q.work,
                               !.done = IF q.mark = "completed" THEN @ + 1 ELSE @], q.now)

\* _upsert_mastery: a request without the mark recomputes the status, whatever
\* it was.  The score is 20 per session and 10 per exercise.
Mastery(row, sessions, work, mark) ==
    LET new == [row EXCEPT !.on = TRUE, !.sessions = @ + sessions, !.work = @ + work]
    IN  [new EXCEPT !.st = IF mark \/ 20 * new.sessions + 10 * new.work >= 80
                           THEN "mastered"
                           ELSE IF new.work > 0 THEN "practiced" ELSE "learning"]

\* The progress row of request q after its handler's assignments.
NewProgress(q) ==
    LET n == ai[q.s].name
    IN  IF q.kind = "update"
        THEN IF q.prod = "pattern" THEN PatternDeltas(q) ELSE CourseDeltas(q)
        ELSE CASE q.prod = "leetcode"   -> LeetCodeAttempt(q.agg, n, q.now)
               [] q.prod = "hackerrank" -> HackerRankAttempt(q.agg, n, q.now)
               [] q.prod = "pattern"    -> PatternLearned(q.agg, n, q.now)
               [] q.prod = "course"     -> CourseCreated(q.agg, n, q.now)

NewMastery(q) ==
    IF q.kind = "generate" THEN Mastery(q.mas, 1, 0, FALSE)
    ELSE Mastery(q.mas, 0, q.work, q.mark = "mastered")

-----------------------------------------------------------------------------
(* Generating a lesson, analysing a problem. *)

\* The chat creates the AI session; the request then waits for the model.
StartChat(r, k, s, n) ==
    /\ BeginRequest(r, [Idle EXCEPT !.at = "chat", !.kind = "generate", !.prod = k, !.s = s])
    /\ ai[s].st = "unborn"
    /\ ai' = [ai EXCEPT ![s] = [st |-> "active", prod |-> k, name |-> n]]
    /\ UNCHANGED <<item, prog, mast, day, learningGhosts>>

AnalyzeProblem(r, k, s, n) == k = "leetcode" /\ StartChat(r, k, s, n)
AnalyzeChallenge(r, k, s, n) == k = "hackerrank" /\ StartChat(r, k, s, n)
GeneratePattern(r, k, s, n) == k = "pattern" /\ StartChat(r, k, s, n)
GenerateCourse(r, k, s, n) == k = "course" /\ StartChat(r, k, s, n)

\* The problem could not be fetched: a session that asks for a statement.
ManualRequired(k, s) ==
    /\ ai[s].st = "unborn" /\ starts < MaxStarts
    /\ ai' = [ai EXCEPT ![s] = [@ EXCEPT !.st = "manual", !.prod = k]]
    /\ starts' = starts + 1
    /\ UNCHANGED <<item, prog, mast, req, day, learningGhosts>>

ProblemManual(k, s) == k = "leetcode" /\ ManualRequired(k, s)
ChallengeManual(k, s) == k = "hackerrank" /\ ManualRequired(k, s)

\* update_session of a handler whose chat was usable; a session that was
\* deleted meanwhile is not found.
Accept(r, next) ==
    /\ At(r, "chat") /\ LoopIsFree(r)
    /\ IF SessionExists(req[r].s)
       THEN /\ ai' = [ai EXCEPT ![req[r].s].st = "completed"]
            /\ Goto(r, next)
       ELSE EndRequest(r) /\ UNCHANGED ai
    /\ UNCHANGED <<item, prog, mast, day, starts, learningGhosts>>

ProblemAnalysed(r) == req[r].prod = "leetcode" /\ Accept(r, "load")
ChallengeAnalysed(r) == req[r].prod = "hackerrank" /\ Accept(r, "load")
PatternGenerated(r) == req[r].prod = "pattern" /\ Accept(r, "item")
CourseGenerated(r) == req[r].prod = "course" /\ Accept(r, "item")

\* The workflow failed, or its content is not usable: the request is answered
\* with an error and the AI session stays as the chat left it.
ChatRejected(r) ==
    /\ At(r, "chat") /\ LoopIsFree(r)
    /\ EndRequest(r)
    /\ UNCHANGED <<ai, item, prog, mast, day, starts, learningGhosts>>

\* Foreign key session_id -> ai_sessions.id.
ItemCreate(r, k) ==
    /\ At(r, "item") /\ req[r].prod = k
    /\ IF SessionExists(req[r].s)
       THEN /\ item' = [item EXCEPT ![req[r].s] = [NoItem EXCEPT !.on = TRUE]]
            /\ Goto(r, "load")
       ELSE EndRequest(r) /\ UNCHANGED item
    /\ UNCHANGED <<ai, prog, mast, day, starts, learningGhosts>>

PatternCreate(r) == ItemCreate(r, "pattern")
CourseCreate(r) == ItemCreate(r, "course")

-----------------------------------------------------------------------------
(* Updating the progress of a lesson. *)

StartUpdate(r, s, w, m) ==
    /\ item[s].on
    /\ BeginRequest(r, [Idle EXCEPT !.at = "update", !.kind = "update", !.prod = ai[s].prod,
                             !.s = s, !.work = w, !.mark = m, !.copy = item[s]])
    /\ UNCHANGED <<ai, item, prog, mast, day, learningGhosts>>

UpdatePattern(r, s, w, m) == ai[s].prod = "pattern" /\ StartUpdate(r, s, w, m)
UpdateCourse(r, s, w, m) ==
    ai[s].prod = "course" /\ m # "mastered" /\ StartUpdate(r, s, w, m)

\* An UPDATE that matches no row, or the refresh of a deleted one, fails.
ItemCommit(r, k) ==
    LET q == req[r]
        new == [q.copy EXCEPT !.work = @ + q.work, !.st = IF q.mark = "no" THEN @ ELSE q.mark]
    IN  /\ At(r, "update") /\ q.prod = k
        /\ IF item[q.s].on
           THEN /\ item' = [item EXCEPT ![q.s] = Written(@, q.copy, new)]
                /\ Goto(r, "load")
           ELSE EndRequest(r) /\ UNCHANGED item
        /\ UNCHANGED <<ai, prog, mast, day, starts, learningGhosts>>

PatternCommit(r) == ItemCommit(r, "pattern")
CourseCommit(r) == ItemCommit(r, "course")

-----------------------------------------------------------------------------
(* The progress row: loaded, perhaps created, and committed. *)

ViewProgress(r, k) ==
    /\ BeginRequest(r, [Idle EXCEPT !.at = "load", !.kind = "view", !.prod = k])
    /\ UNCHANGED <<ai, item, prog, mast, day, learningGhosts>>

\* Where a request with its progress row goes on; a view is finished.
Loaded(r, row) ==
    IF req[r].kind = "view" THEN Idle
    ELSE [req[r] EXCEPT !.agg = row, !.now = day, !.over = FALSE,
                        !.at = IF req[r].prod = "pattern" THEN "mastery" ELSE "commit"]

ProgressLoad(r) ==
    /\ At(r, "load")
    /\ LET row == prog[req[r].prod]
       IN  req' = [req EXCEPT ![r] = IF row.on THEN Loaded(r, row)
                                     ELSE [@ EXCEPT !.at = "create"]]
    /\ UNCHANGED <<ai, item, prog, mast, day, starts, learningGhosts>>

\* user_id is unique: the second of two requests that miss the row fails.
ProgressCreate(r) ==
    LET k == req[r].prod
        fresh == [NoProgress EXCEPT !.on = TRUE]
    IN  /\ At(r, "create")
        /\ IF prog[k].on
           THEN EndRequest(r) /\ cut' = cut \cup ({req[r].s} \ {None}) /\ UNCHANGED prog
           ELSE /\ prog' = [prog EXCEPT ![k] = fresh]
                /\ req' = [req EXCEPT ![r] = Loaded(r, fresh)]
                /\ UNCHANGED cut
        /\ UNCHANGED <<ai, item, mast, day, starts, owed, crossed, active, recorded>>

\* get_mastery, and list_mastery of the rows that exist.
MasteryLoad(r) ==
    /\ At(r, "mastery")
    /\ LET n == ai[req[r].s].name
       IN  req' = [req EXCEPT ![r] = [@ EXCEPT
                     !.at = "commit", !.mas = mast[n],
                     !.others = Cardinality({m \in Names \ {n} :
                                               mast[m].on /\ mast[m].st = "mastered"})]]
    /\ UNCHANGED <<ai, item, prog, mast, day, starts, learningGhosts>>

\* One transaction for the progress row and the mastery row.  The time of the last
\* activity is never the one that was loaded, and is always written.
ProgressCommit(r) ==
    LET q == req[r]
        k == q.prod
        n == ai[q.s].name
        clash == k = "pattern" /\ ~q.mas.on /\ mast[n].on
    IN  /\ At(r, "commit")
        /\ IF clash
           THEN /\ EndRequest(r) /\ cut' = cut \cup {q.s}
                /\ UNCHANGED <<prog, mast, owed, crossed, active, recorded>>
           ELSE /\ prog' = [prog EXCEPT ![k] =
                              Written(@, [q.agg EXCEPT !.last = 0], NewProgress(q))]
                /\ mast' = IF k # "pattern" THEN mast
                           ELSE [mast EXCEPT ![n] = Written(@, q.mas, NewMastery(q))]
                /\ req' = [p \in Reqs |->
                             IF p = r THEN Idle
                             ELSE IF req[p].prod = k /\ req[p].at \in {"mastery", "commit"}
                             THEN [req[p] EXCEPT !.over = TRUE] ELSE req[p]]
                /\ owed' = [owed EXCEPT ![k] = @ + q.work]
                /\ crossed' = IF q.over THEN crossed \cup {k} ELSE crossed
                /\ active' = [active EXCEPT ![k] = @ \cup {q.now}]
                /\ recorded' = [recorded EXCEPT ![k] =
                                  @ + (IF q.kind = "generate" THEN 1 ELSE 0)]
                /\ UNCHANGED cut
        /\ UNCHANGED <<ai, item, day, starts>>

-----------------------------------------------------------------------------
(* Deleting. *)

\* Deleting an AI session cascades to the rows of its product.
DropSession(s) ==
    /\ ai' = [ai EXCEPT ![s].st = "gone"]
    /\ item' = [item EXCEPT ![s] = NoItem]

DeletePattern(r, s) ==
    /\ item[s].on /\ ai[s].prod = "pattern"
    /\ BeginRequest(r, [Idle EXCEPT !.at = "drop", !.kind = "delete", !.prod = "pattern", !.s = s])
    /\ UNCHANGED <<ai, item, prog, mast, day, learningGhosts>>

DeleteCourse(r, s) ==
    /\ item[s].on /\ ai[s].prod = "course"
    /\ BeginRequest(r, [Idle EXCEPT !.at = "drop", !.kind = "delete", !.prod = "course", !.s = s])
    /\ UNCHANGED <<ai, item, prog, mast, day, learningGhosts>>

\* Mutant of ItemDelete: the AI session is left behind.
ItemDeleteOnly(r) ==
    /\ At(r, "drop")
    /\ EndRequest(r)
    /\ item' = [item EXCEPT ![req[r].s] = NoItem]
    /\ UNCHANGED <<ai, prog, mast, day, starts, learningGhosts>>

ItemDelete(r) ==
    /\ At(r, "drop")
    /\ IF item[req[r].s].on
       THEN /\ item' = [item EXCEPT ![req[r].s] = NoItem]
            /\ Goto(r, "dropSession")
       ELSE EndRequest(r) /\ UNCHANGED item
    /\ UNCHANGED <<ai, prog, mast, day, starts, learningGhosts>>

SessionDelete(r) ==
    /\ At(r, "dropSession")
    /\ IF SessionExists(req[r].s) THEN DropSession(req[r].s) ELSE UNCHANGED <<ai, item>>
    /\ EndRequest(r)
    /\ UNCHANGED <<prog, mast, day, starts, learningGhosts>>

\* The platform's own delete, which the practice products call.
DeleteAiSession(s) ==
    /\ SessionExists(s)
    /\ DropSession(s)
    /\ UNCHANGED <<prog, mast, req, day, starts, learningGhosts>>

-----------------------------------------------------------------------------

\* A database error, a cancelled coroutine or a stopped process.
Fail(r) ==
    /\ ~At(r, "idle")
    /\ EndRequest(r)
    /\ cut' = cut \cup ({req[r].s} \ {None})
    /\ UNCHANGED <<ai, item, prog, mast, day, starts, owed, crossed, active, recorded>>

Midnight ==
    /\ day <= MaxDay
    /\ day' = day + 1
    /\ UNCHANGED <<ai, item, prog, mast, req, starts, learningGhosts>>

LearningNext ==
    \/ \E r \in Reqs, k \in Products, s \in Sessions, n \in Names :
          \/ AnalyzeProblem(r, k, s, n) \/ AnalyzeChallenge(r, k, s, n)
          \/ GeneratePattern(r, k, s, n) \/ GenerateCourse(r, k, s, n)
    \/ \E k \in Products, s \in Sessions : ProblemManual(k, s) \/ ChallengeManual(k, s)
    \/ \E r \in Reqs, s \in Sessions, w \in Works, m \in {"no", "completed", "mastered"} :
          UpdatePattern(r, s, w, m) \/ UpdateCourse(r, s, w, m)
    \/ \E r \in Reqs, s \in Sessions : DeletePattern(r, s) \/ DeleteCourse(r, s)
    \/ \E r \in Reqs, k \in Products : ViewProgress(r, k)
    \/ \E r \in Reqs :
          \/ ProblemAnalysed(r) \/ ChallengeAnalysed(r)
          \/ PatternGenerated(r) \/ CourseGenerated(r) \/ ChatRejected(r)
          \/ PatternCreate(r) \/ CourseCreate(r)
          \/ PatternCommit(r) \/ CourseCommit(r)
          \/ ProgressLoad(r) \/ ProgressCreate(r) \/ MasteryLoad(r) \/ ProgressCommit(r)
          \/ ItemDelete(r) \/ SessionDelete(r) \/ Fail(r)
    \/ \E s \in Sessions : DeleteAiSession(s)
    \/ Midnight

LearningSpec == LearningInit /\ [][LearningNext]_learningVars

-----------------------------------------------------------------------------
(* Properties. *)

LearningTypeOK ==
    /\ ai \in [Sessions -> AiSession]
    /\ item \in [Sessions -> ItemRow]
    /\ prog \in [Products -> ProgressRow]
    /\ mast \in [Names -> MasteryRow]
    /\ req \in [Reqs -> LearningRequest]
    /\ day \in 1..MaxDay + 1 /\ starts \in 0..MaxStarts

\* What was generated or analysed is never lost from the user's progress,
\* whatever updates, views and deletions run beside it: the counters of
\* attempts and courses are exact, patterns_learned is the length of the list
\* of patterns, and a listed pattern has a mastery row that counted a session.
\* It rests on the event loop (these writers never overlap each other) and on
\* commits that write changed attributes only.
NothingLearnedIsLost ==
    \A k \in Products :
        IF k = "pattern"
        THEN /\ prog[k].made = Cardinality(prog[k].names)
             /\ prog[k].names = {n \in Names : mast[n].sessions > 0}
        ELSE prog[k].made = recorded[k]

\* The work counters of the progress row are short of the committed updates
\* only if two requests on the product overlapped.
WorkLostByOverlap ==
    \A k \in Products : prog[k].work # owed[k] => k \in crossed

\* Unless two requests on the product overlapped, a lesson's streak never exceeds the
\* days on which its user was active, and the longest streak is never below the current
\* one.  (A request that overlapped another sets the last day back, and the day after it
\* is counted again.)
LessonStreaksAreDays ==
    \A k \in (Products \cap Lessons) \ crossed :
        /\ prog[k].streak <= Cardinality(active[k])
        /\ prog[k].longest >= prog[k].streak

\* A completed lesson session without its pattern or course row, which no
\* history shows, only exists after a request on it was cut between its steps.
LostLessonIsExplained ==
    \A s \in Sessions :
        (/\ ai[s].st = "completed" /\ ai[s].prod \in Lessons /\ ~item[s].on
         /\ \A r \in Reqs : req[r].s # s)
        => s \in cut

\* What the progress of a product lacks is explained by requests that overlapped on its
\* row (leetcode_progress_repository.py, course_repository.py, dsa_pattern_repository.py).
LearningIsExplained == NothingLearnedIsLost /\ WorkLostByOverlap

\* The rows of lessons and their streaks say no more than what the user did, and a lesson
\* without its row was cut off between two commits (dsa_pattern/service.py).
LessonsAreExplained == LessonStreaksAreDays /\ LostLessonIsExplained
=============================================================================
