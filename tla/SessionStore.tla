----------------------------- MODULE SessionStore -----------------------------
(***************************************************************************)
(* The AI service's stored conversations, as the chat endpoints and the    *)
(* four products offer them: the sessions with their archive, pin and      *)
(* activity, the course or pattern a lesson keeps beside its session, the  *)
(* messages with the marks in their metadata, the lists, histories and     *)
(* exports read from them, and the replay a client is given that comes     *)
(* back after it lost its stream.                                          *)
(*                                                                         *)
(* Handlers of rows run in threads.  Those that change a message's         *)
(* metadata read it, and later write all of it back; deleting a lesson     *)
(* commits twice; every other change of a row is one statement.  What a    *)
(* turn writes is left to ChatStream: here it adds a question and perhaps  *)
(* an answer.                                                              *)
(***************************************************************************)
EXTENDS Naturals, FiniteSets, FiniteSetsExt, SequencesExt, Orders

CONSTANTS Users, AdminUsers, Conversations, Threads,
          Features,       \* the features in use
          Null,           \* NULL
          MaxMessages     \* bound of the runs

Problems == {"leetcode", "hackerrank"}
LessonProducts == {"course_generator", "dsa_pattern"}

ASSUME StoreAssumption ==
    /\ AdminUsers \subseteq Users
    /\ Features \subseteq Problems \cup LessonProducts
    /\ Null \notin Users \cup Conversations \cup Features
    /\ MaxMessages \in Nat

VARIABLES session,    \* ai_sessions
          lesson,       \* the conversations that have a row in courses or pattern_sessions
          message,    \* ai_messages, numbered as they are created
          recent,     \* the conversations by updated_at, the latest last
          touched,    \* those that have a last_active_at, the latest last
          task,       \* the threads' requests that take two steps
          client,     \* a client with a stream
          erased,     \* ghost: messages whose deletion was answered
          wanted,     \* ghost: the bookmark last answered, for each message
          clashed,    \* ghost: messages two requests were about to mark at once
          bare        \* ghost: lessons that were left without their row

storeVars == <<session, lesson, message, recent, touched, task, client, erased, wanted, clashed, bare>>
Marks == <<erased, wanted, clashed>>
Rows == <<session, lesson, message, recent, touched, bare>>

\* "found": the title has the word that is searched for.
SessionRow == [owner : Users, feature : Features, archived : BOOLEAN, pinned : BOOLEAN,
               found : BOOLEAN]

Metadata == [status : {"none", "completed", "truncated", "failed"},
             deleted : BOOLEAN, bookmarked : BOOLEAN]

\* The session of a message that was deleted with it is Null.
MessageRow == [session : Conversations \cup {Null}, role : {"user", "assistant"},
               meta : Metadata]

\* A request that takes two steps is at its second one; what it is about is a message or,
\* when it drops a lesson, a conversation.
TaskRow == [pc : {"idle", "bookmark", "delete", "drop"},
            target : Conversations \cup {Null} \cup Nat, meta : Metadata]

ClientRow == [pc : {"idle", "open", "lost", "back"}, target : Conversations \cup {Null},
              asked : Nat, answer : Nat, shown : Nat]

Plain(status) == [status |-> status, deleted |-> FALSE, bookmarked |-> FALSE]
NoTask == [pc |-> "idle", target |-> Null, meta |-> Plain("none")]
NoClient == [pc |-> "idle", target |-> Null, asked |-> 0, answer |-> 0, shown |-> 0]

\* A conversation is Null before it is created, and Removed once it was deleted.
Removed == [gone |-> TRUE]

ASSUME NullIsNoRow == Null \notin SessionRow \cup {Removed}

Exists(s) == session[s] \notin {Null, Removed}
Stored == {m \in DOMAIN message : message[m].session # Null}
Of(s) == {m \in Stored : message[m].session = s}
Answers(s) == {m \in Of(s) : message[m].role = "assistant"}
Newest(rows) == IF rows = {} THEN 0 ELSE Max(rows)

-----------------------------------------------------------------------------
(* Access                                                                  *)

CanAccess(u, owner) == u = owner \/ u \in AdminUsers
EnsureAccess(u, s) == Exists(s) /\ CanAccess(u, session[s].owner)
EnsureFeature(u, f, s) == EnsureAccess(u, s) /\ session[s].feature = f

\* A course is found by its own id, or by its session's.
CourseOf(u, s) == s \in lesson /\ EnsureFeature(u, "course_generator", s)

\* A pattern session is found by either id too; when only the row of its session is
\* left there is nothing to be found.
PatternOf(u, s) == EnsureFeature(u, "dsa_pattern", s) /\ s \in lesson

-----------------------------------------------------------------------------
(* Rows of sessions.                                                       *)

StoreInit ==
    /\ session = [s \in Conversations |-> Null]
    /\ lesson = {} /\ message = <<>>
    /\ recent = <<>> /\ touched = <<>>
    /\ task = [t \in Threads |-> NoTask]
    /\ client = NoClient
    /\ erased = {} /\ wanted = <<>> /\ clashed = {} /\ bare = {}

Without(order, s) == RemoveFirst(order, s)
Latest(order, s) == Append(Without(order, s), s)

\* A session is created by the first turn.  The two lesson products add their row
\* afterwards, when the model's answer could be used.
CreateSession(u, s, f, row) ==
    /\ session[s] = Null
    /\ \E found \in BOOLEAN :
          session' = [session EXCEPT ![s] = [owner |-> u, feature |-> f, archived |-> FALSE,
                                             pinned |-> FALSE, found |-> found]]
    /\ lesson' = IF row THEN lesson \cup {s} ELSE lesson
    /\ bare' = IF f \in LessonProducts /\ ~ row THEN bare \cup {s} ELSE bare
    /\ recent' = Latest(recent, s)
    /\ UNCHANGED <<message, touched, task, client, Marks>>

\* An update that changes nothing writes nothing.
UpdateSession(s, column, v) ==
    /\ session' = [session EXCEPT ![s][column] = v]
    /\ recent' = IF session[s][column] = v THEN recent ELSE Latest(recent, s)
    /\ UNCHANGED <<lesson, message, touched, task, client, bare, Marks>>

RenameSession(u, f, s, found) == EnsureFeature(u, f, s) /\ UpdateSession(s, "found", found)

ArchiveSession(u, f, s, archived) ==
    EnsureFeature(u, f, s) /\ UpdateSession(s, "archived", archived)

PinSession(u, f, s, pinned) == EnsureFeature(u, f, s) /\ UpdateSession(s, "pinned", pinned)

\* PATCH of a problem product stores the model and the mode.
SetMode(u, f, s) ==
    /\ EnsureFeature(u, f, s)
    /\ recent' = Latest(recent, s)
    /\ UNCHANGED <<session, lesson, message, touched, task, client, bare, Marks>>

\* The database deletes the messages and the lesson's row with the session.
Drop(s) ==
    /\ session' = [session EXCEPT ![s] = Removed]
    /\ lesson' = lesson \ {s}
    /\ message' = [m \in DOMAIN message |->
           IF message[m].session = s THEN [message[m] EXCEPT !.session = Null] ELSE message[m]]
    /\ recent' = Without(recent, s)
    /\ touched' = Without(touched, s)

\* DELETE through the chat endpoints, or through a problem product, which does not
\* look at the feature of the session.
DeleteConversation(u, s) ==
    /\ EnsureAccess(u, s)
    /\ Drop(s)
    /\ UNCHANGED <<task, client, bare, Marks>>

\* A lesson's row is deleted first, then its session; in between the request can end.
DeleteItem(t, s) ==
    /\ task[t].pc = "idle"
    /\ lesson' = lesson \ {s}
    /\ task' = [task EXCEPT ![t] = [NoTask EXCEPT !.pc = "drop", !.target = s]]
    /\ UNCHANGED <<session, message, recent, touched, client, bare, Marks>>

DropItsSession(t) ==
    /\ task[t].pc = "drop"
    /\ task' = [task EXCEPT ![t] = NoTask]
    /\ IF Exists(task[t].target) THEN Drop(task[t].target)
       ELSE UNCHANGED <<session, lesson, message, recent, touched>>
    /\ UNCHANGED <<client, bare, Marks>>

DropFails(t) ==
    /\ task[t].pc = "drop"
    /\ task' = [task EXCEPT ![t] = NoTask]
    /\ bare' = bare \cup {task[t].target}
    /\ UNCHANGED <<session, lesson, message, recent, touched, client, Marks>>

-----------------------------------------------------------------------------
(* Marks of messages.  Both requests copy the metadata, change one entry   *)
(* and write the copy.                                                     *)

Claimed(m) == \E t \in Threads : task[t].pc \in {"bookmark", "delete"} /\ task[t].target = m

Copy(t, u, f, m, pc, meta) ==
    /\ task[t].pc = "idle"
    /\ m \in Stored /\ EnsureFeature(u, f, message[m].session)
    /\ task' = [task EXCEPT ![t] = [pc |-> pc, target |-> m, meta |-> meta]]
    /\ clashed' = IF Claimed(m) THEN clashed \cup {m} ELSE clashed
    /\ UNCHANGED <<Rows, client, erased, wanted>>

BookmarkMessage(t, u, f, m, bookmarked) ==
    m \in Stored /\ Copy(t, u, f, m, "bookmark", [message[m].meta EXCEPT !.bookmarked = bookmarked])

DeleteMessage(t, u, f, m) ==
    m \in Stored /\ Copy(t, u, f, m, "delete", [message[m].meta EXCEPT !.deleted = TRUE])

WriteMetadata(t) ==
    LET m == task[t].target IN
    /\ task[t].pc \in {"bookmark", "delete"}
    /\ IF m \in Stored
       THEN /\ message' = [message EXCEPT ![m].meta = task[t].meta]
            /\ erased' = IF task[t].pc = "delete" THEN erased \cup {m} ELSE erased
            /\ wanted' = IF task[t].pc = "bookmark"
                         THEN [n \in DOMAIN wanted \cup {m} |->
                                  IF n = m THEN task[t].meta.bookmarked ELSE wanted[n]]
                         ELSE wanted
       ELSE UNCHANGED <<message, erased, wanted>>
    /\ task' = [task EXCEPT ![t] = NoTask]
    /\ UNCHANGED <<session, lesson, recent, touched, client, bare, clashed>>

-----------------------------------------------------------------------------
(* Turns and the client.                                                   *)

\* A stream request is a follow-up when it is short, names no sections and uses one of
\* the words that ask for more.
RoutesToFollowUp(short, sections, marker) == short /\ ~ sections /\ marker

AddMessage(s, role, status) ==
    message' = Append(message, [session |-> s, role |-> role, meta |-> Plain(status)])

OpenStream(u, s) ==
    /\ client.pc = "idle"
    /\ EnsureAccess(u, s)
    /\ Len(message) < MaxMessages
    /\ AddMessage(s, "user", "none")
    /\ client' = [NoClient EXCEPT !.pc = "open", !.target = s, !.asked = Len(message) + 1]
    /\ UNCHANGED <<session, lesson, recent, touched, task, bare, Marks>>

\* A follow-up adds a question and an answer, which is given no status.  The chat
\* endpoints then mark the activity; a product has before stored the mode, if it changed.
AskAgain(u, s, chat) ==
    /\ EnsureAccess(u, s)
    /\ Len(message) + 1 < MaxMessages
    /\ message' = message \o <<[session |-> s, role |-> "user", meta |-> Plain("none")],
                               [session |-> s, role |-> "assistant", meta |-> Plain("none")]>>
    /\ recent' \in IF chat THEN {Latest(recent, s)} ELSE {recent, Latest(recent, s)}
    /\ touched' = IF chat THEN Latest(touched, s) ELSE touched
    /\ UNCHANGED <<session, lesson, task, client, bare, Marks>>

Answer(status) ==
    LET s == client.target IN
    /\ client.pc \in {"open", "lost"} /\ client.answer = 0
    /\ Exists(s)
    /\ Len(message) < MaxMessages
    /\ AddMessage(s, "assistant", status)
    /\ recent' = Latest(recent, s) /\ touched' = Latest(touched, s)
    /\ client' = IF client.pc = "open" THEN NoClient
                 ELSE [client EXCEPT !.answer = Len(message) + 1]
    /\ UNCHANGED <<session, lesson, task, bare, Marks>>

LoseStream ==
    /\ client.pc = "open"
    /\ client' = [client EXCEPT !.pc = "lost"]
    /\ UNCHANGED <<Rows, task, Marks>>

\* Every module that answers stores its payload with the message.
Structured(m) == message[m].role = "assistant"

\* What is replayed is the newest answer of the conversation, hidden or not, when its
\* status or its payload says that it is complete; otherwise the client is told to ask again.
Replayed(s) ==
    LET m == Newest(Answers(s)) IN
    IF m # 0 /\ (message[m].meta.status \in {"completed", "truncated"} \/ Structured(m))
    THEN m ELSE 0

Reconnect(u) ==
    /\ client.pc = "lost"
    /\ EnsureAccess(u, client.target)
    /\ client' = [client EXCEPT !.pc = "back", !.shown = Replayed(client.target)]
    /\ UNCHANGED <<Rows, task, Marks>>

Leave ==
    /\ client.pc \in {"lost", "back"}
    /\ client' = NoClient
    /\ UNCHANGED <<Rows, task, Marks>>

-----------------------------------------------------------------------------
(* What is read.                                                           *)

\* Mutant of ShouldHide: a page shows what was deleted.
ShouldHideFailed(meta, hidden) == ~ hidden /\ meta.status = "failed"

ShouldHide(meta, hidden) == ~ hidden /\ (meta.deleted \/ meta.status = "failed")

PageOf(rows, limit, offset) == SubSeq(rows, offset + 1, Min({offset + limit, Len(rows)}))

\* The messages of a page of the conversation that are shown, ORDER BY created_at; the
\* page is cut first.
SessionDetail(s, limit, offset, hidden) ==
    LET page == PageOf(Ascending(Of(s)), limit, offset) IN
    Ascending({m \in ToSet(page) : ~ ShouldHide(message[m].meta, hidden)})

Exported(s) == {m \in Of(s) : ~ ShouldHide(message[m].meta, FALSE)}

\* The payload an export of a solution or lesson is made of; 0: the memory's context.
ExportedPayload(s) == Newest({m \in Exported(s) : Structured(m)})

\* What an export is made of: the conversation, or the payload, which the report of an
\* interview follows with the conversation unless it is JSON.
ExportShows(s, type, format) ==
    CASE type = "conversation" -> Exported(s)
      [] type = "interview_report" /\ format # "json" -> Exported(s) \cup {ExportedPayload(s)}
      [] OTHER -> {ExportedPayload(s)}

ExportTypes == {"conversation", "solution", "course", "pattern", "interview_report"}
ExportFormats == {"markdown", "json", "txt", "pdf"}

\* The current version among the answers; 0 when the newest one failed.
CurrentVersion(s) ==
    LET m == Newest(Answers(s)) IN
    IF m # 0 /\ message[m].meta.status # "failed" THEN m ELSE 0

Matches(u, f, search, archived) ==
    {s \in Conversations :
        /\ Exists(s) /\ session[s].feature = f
        /\ u \in AdminUsers \/ session[s].owner = u
        /\ archived \/ ~ session[s].archived
        /\ search => session[s].found}

Place(order, s) == IF Contains(order, s) THEN CHOOSE i \in DOMAIN order : order[i] = s ELSE 0

\* ORDER BY is_pinned DESC, last_active_at DESC, updated_at DESC; NULL comes first.
Above(s, t) ==
    LET p == session[s].pinned q == session[t].pinned
        i == Place(touched, s) j == Place(touched, t) IN
    \/ p /\ ~ q
    \/ /\ p = q
       /\ \/ i # j /\ (i = 0 \/ (j # 0 /\ i > j))
          \/ i = j /\ Place(recent, s) > Place(recent, t)

ByActivity(rows) == InOrder(rows, Above)

ListHistory(u, f, search, archived, limit, offset) ==
    LET page == PageOf(ByActivity(Matches(u, f, search, archived)), limit, offset) IN
    [sessions |-> page,
        total |-> IF u \in AdminUsers THEN Len(page) ELSE Cardinality(Matches(u, f, FALSE, archived))]

ProblemHistory(u, search, limit, offset) ==
    ListHistory(u, "leetcode", search, FALSE, limit, offset)

ChallengeHistory(u, search, limit, offset) ==
    ListHistory(u, "hackerrank", search, FALSE, limit, offset)

\* The lists of courses and patterns are made of their rows, of the reader's own only, and
\* do not leave out what is archived.
CourseHistory(u) == {s \in lesson : session[s].owner = u /\ session[s].feature = "course_generator"}
PatternHistory(u) == {s \in lesson : session[s].owner = u /\ session[s].feature = "dsa_pattern"}

\* Whose versions can be listed: a course needs its session, a pattern its row.
CourseVersions(u, s) ==
    IF CourseOf(u, s) \/ EnsureFeature(u, "course_generator", s) THEN {CurrentVersion(s)} ELSE {}
PatternVersions(u, s) == IF PatternOf(u, s) THEN {CurrentVersion(s)} ELSE {}
ProblemVersions(u, f, s) == IF EnsureFeature(u, f, s) THEN {CurrentVersion(s)} ELSE {}

-----------------------------------------------------------------------------
(* The requests of each router.                                            *)

\* What the chat endpoints do to a session of their feature.
ManageSession(u, f, s) ==
    \/ \E b \in BOOLEAN :
          RenameSession(u, f, s, b) \/ ArchiveSession(u, f, s, b) \/ PinSession(u, f, s, b)
    \/ EnsureFeature(u, f, s) /\ DeleteConversation(u, s)

ChatRequests(u) ==
    \/ \E s \in Conversations :
          \/ OpenStream(u, s) \/ AskAgain(u, s, TRUE)
          \/ \E f \in Features : CreateSession(u, s, f, FALSE) \/ ManageSession(u, f, s)
    \/ \E t \in Threads, f \in Features, m \in Stored :
          (\E b \in BOOLEAN : BookmarkMessage(t, u, f, m, b)) \/ DeleteMessage(t, u, f, m)

AskProblem(u, s) == AskAgain(u, s, FALSE)
AskChallenge(u, s) == AskAgain(u, s, FALSE)
AskCourse(u, s) == AskAgain(u, s, FALSE)
AskPattern(u, s) == AskAgain(u, s, FALSE)

SetProblemMode(u, s) == SetMode(u, "leetcode", s)
SetChallengeMode(u, s) == SetMode(u, "hackerrank", s)

LeetCodeRequests(u) ==
    /\ "leetcode" \in Features
    /\ \E s \in Conversations :
        \/ CreateSession(u, s, "leetcode", FALSE)
        \/ AskProblem(u, s) \/ SetProblemMode(u, s)
        \/ DeleteConversation(u, s)

HackerRankRequests(u) ==
    /\ "hackerrank" \in Features
    /\ \E s \in Conversations :
        \/ CreateSession(u, s, "hackerrank", FALSE)
        \/ AskChallenge(u, s) \/ SetChallengeMode(u, s)
        \/ DeleteConversation(u, s)

CourseRequests(u) ==
    /\ "course_generator" \in Features
    /\ \E s \in Conversations :
        \/ CreateSession(u, s, "course_generator", TRUE)
        \/ AskCourse(u, s)
        \/ CourseOf(u, s) /\ \E t \in Threads : DeleteItem(t, s)

PatternRequests(u) ==
    /\ "dsa_pattern" \in Features
    /\ \E s \in Conversations :
        \/ CreateSession(u, s, "dsa_pattern", TRUE)
        \/ AskPattern(u, s)
        \/ PatternOf(u, s) /\ \E t \in Threads : DeleteItem(t, s)

StoreNext ==
    \/ \E u \in Users : \/ ChatRequests(u) \/ Reconnect(u)
                       \/ LeetCodeRequests(u) \/ HackerRankRequests(u)
                       \/ CourseRequests(u) \/ PatternRequests(u)
    \/ \E t \in Threads : WriteMetadata(t) \/ DropItsSession(t) \/ DropFails(t)
    \/ \E status \in {"completed", "truncated", "failed"} : Answer(status)
    \/ LoseStream \/ Leave

StoreSpec == StoreInit /\ [][StoreNext]_storeVars

-----------------------------------------------------------------------------
(* Properties.                                                             *)

StoreTypeOK ==
    /\ session \in [Conversations -> SessionRow \cup {Null, Removed}]
    /\ lesson \subseteq Conversations /\ bare \subseteq Conversations
    /\ message \in Seq(MessageRow) /\ Len(message) <= MaxMessages
    /\ recent \in Seq(Conversations) /\ touched \in Seq(Conversations)
    /\ IsInjective(recent) /\ ToSet(recent) = {s \in Conversations : Exists(s)}
    /\ IsInjective(touched) /\ ToSet(touched) \subseteq ToSet(recent)
    /\ task \in [Threads -> TaskRow] /\ client \in ClientRow
    /\ erased \subseteq DOMAIN message /\ DOMAIN wanted \subseteq DOMAIN message
    /\ wanted \in [DOMAIN wanted -> BOOLEAN]
    /\ clashed \subseteq DOMAIN message

Owners == {session[s].owner : s \in {x \in Conversations : Exists(x)}}

\* A deletion or a bookmark that was answered holds, unless another request was about to
\* mark the same message.
MarksAreKept ==
    \A m \in Stored \ clashed :
        /\ m \in erased => message[m].meta.deleted
        /\ m \in DOMAIN wanted => message[m].meta.bookmarked = wanted[m]

\* A deleted message is in no page of its conversation, and no export is made of anything
\* but what those pages show.
ErasedIsHidden ==
    \A s \in {x \in Conversations : Exists(x)} :
        LET shown == UNION {ToSet(SessionDetail(s, 2, offset, FALSE)) : offset \in 0 .. MaxMessages} IN
        /\ shown \cap erased \subseteq clashed
        /\ \A type \in ExportTypes, format \in ExportFormats :
              ExportShows(s, type, format) \subseteq shown \cup {0}

\* A lesson is in its product's list exactly when it is in its owner's chat list, except
\* those whose row was never added or was deleted without the session.
LessonsAgree ==
    \A u \in Owners \ AdminUsers :
        LET Listed(f) == ToSet(ListHistory(u, f, FALSE, TRUE, Len(recent), 0).sessions)
            halfway == {task[t].target : t \in {x \in Threads : task[x].pc = "drop"}} IN
        /\ CourseHistory(u) \subseteq Listed("course_generator")
        /\ PatternHistory(u) \subseteq Listed("dsa_pattern")
        /\ (Listed("course_generator") \cup Listed("dsa_pattern")) \ (CourseHistory(u) \cup PatternHistory(u))
              \subseteq bare \cup halfway

\* An owner who pages through a history meets every matching conversation once, the pinned
\* ones first, and is told how many there are when nothing is searched for.
ListingsAreSound ==
    \A u \in Owners \ AdminUsers, f \in Features, search, archived \in BOOLEAN :
        LET Page(i) ==
              CASE f = "leetcode" /\ ~ archived -> ProblemHistory(u, search, 1, i)
                [] f = "hackerrank" /\ ~ archived -> ChallengeHistory(u, search, 1, i)
                [] OTHER -> ListHistory(u, f, search, archived, 1, i)
            pages == 0 .. Len(recent)
            Met(i) == ToSet(Page(i).sessions) IN
        /\ UNION {Met(i) : i \in pages} = Matches(u, f, search, archived)
        /\ ~ search => Page(0).total = Cardinality({i \in pages : Met(i) # {}})
        /\ \A i, j \in pages : i < j =>
              \A s \in Met(i), t \in Met(j) :
                  s # t /\ (session[t].pinned => session[s].pinned)

\* A client that comes back is never shown an answer older than the one it missed, nor told
\* to ask again when there is one; and what it is shown is the current version, or failed.
ReplaysAreExplained ==
    /\ client.pc = "back" /\ client.answer # 0 => client.shown >= client.answer
    /\ \A u \in Users, s \in Conversations :
          \A v \in CourseVersions(u, s) \cup PatternVersions(u, s) \cup
                    (UNION {ProblemVersions(u, f, s) : f \in Problems}) :
              v # Replayed(s) => message[Replayed(s)].meta.status = "failed"

\* The stored conversations keep what their users were told (chat_service.py,
\* history_manager.py and the services of the four products).
SessionsAreSound ==
    MarksAreKept /\ ErasedIsHidden /\ LessonsAgree /\ ListingsAreSound /\ ReplaysAreExplained
=============================================================================
