------------------------- MODULE ConversationMemory -------------------------
(***************************************************************************)
(* The memory of one chat session: its row of conversation_memory, with    *)
(* the recent exchanges, the long-term answers, the context of the last    *)
(* turn and the summary, and the messages a follow-up looks through.       *)
(*                                                                         *)
(* Turns, follow-ups and summaries are coroutines of one event loop: what  *)
(* they do between two awaits is one stretch.  Clearing the memory and     *)
(* deleting the session are def handlers and run in a thread, between any  *)
(* two statements of a stretch, so a stretch is here a sequence of actions *)
(* that holds the loop.                                                    *)
(*                                                                         *)
(* An exchange is a number, that of its request: its two entries of        *)
(* recent_messages are written and pruned together.  The list              *)
(* follow_up_questions is written like previous_responses and left out.    *)
(***************************************************************************)
EXTENDS Naturals, FiniteSets, Sequences

CONSTANTS
    Writers,       \* concurrent requests on the session
    Questions,     \* follow-up questions
    Words,         \* that may be in a question or in what the session holds
    ContextWords,  \* those of the session's context
    AnswerWords,   \* those of a turn's answer
    KeepRecent,    \* exchanges kept: half of DEFAULT_MAX_RECENT_MESSAGES
    KeepLong,      \* answers kept in previous_responses
    ListLimit,     \* messages the annotation looks through
    MaxAsked,      \* bound on the requests
    NoWriter

ASSUME LimitsAssumption ==
    /\ KeepRecent \in Nat \ {0} /\ KeepLong \in Nat \ {0}
    /\ ListLimit \in Nat /\ MaxAsked \in Nat
ASSUME NoWriterAssumption == NoWriter \notin Writers

VARIABLES
    alive,      \* the session row exists
    row,        \* the memory row
    said,       \* the session's messages, in the order of their INSERTs
    work,       \* [Writers -> the request]
    loop,       \* the request in a stretch of several statements
    asked,      \* requests started
    log,        \* ghost: exchanges appended since the memory was last cleared
    learned,    \* ghost: the last turn appended since then
    blurred,    \* ghost: exchanges were written back that had changed since
    reverted    \* ghost: a context was written back that had changed

memoryVars == <<alive, row, said, work, loop, asked, log, learned, blurred, reverted>>
ghosts == <<log, learned, blurred, reverted>>

-----------------------------------------------------------------------------
(* Rows *)

\* 0 stands for a column without a value.
MemoryRow == [on : BOOLEAN, recent : Seq(Nat), long : Seq(Nat), context : Nat, summary : Nat]

NoRow == [on |-> FALSE, recent |-> <<>>, long |-> <<>>, context |-> 0, summary |-> 0]

\* at: created_at, the time the transaction of the INSERT opened.
Message == [role : {"user", "turn", "follow_up", "follow_up_rejection"}, at : Nat,
            mark : {"none", "follow_up", "out_of_context"}]

\* seen: the memory as the request first loaded it; row: as append_exchange did.
\* context: what is handed to append_exchange.  Ghost: stale, which of the two
\* has changed since it was loaded.
Request == [at : {"idle", "call", "metering", "load", "select", "write"},
            kind : {"none", "turn", "follow_up", "follow_up_rejection", "summary"},
            n : Nat, txn : Nat, tries : 0..2, seen : MemoryRow, row : MemoryRow,
            found : BOOLEAN, context : Nat, stale : SUBSET {"seen", "row"}]

Resting == [at |-> "idle", kind |-> "none", n |-> 0, txn |-> 0, tries |-> 0, seen |-> NoRow,
            row |-> NoRow, found |-> FALSE, context |-> 0, stale |-> {}]

MemoryInit ==
    /\ alive = TRUE /\ row = NoRow /\ said = <<>>
    /\ work = [w \in Writers |-> Resting]
    /\ loop = NoWriter /\ asked = 0
    /\ log = <<>> /\ learned = 0 /\ blurred = FALSE /\ reverted = FALSE

-----------------------------------------------------------------------------
(* The validator: does a question belong to the session?  A question is    *)
(* what the patterns find in it, and its words.                            *)

Question == [offTopic : BOOLEAN, pedagogical : BOOLEAN, words : SUBSET Words,
             length : Nat, deictic : BOOLEAN]

\* The words of the session's context, and of the last turn in the memory.
Anchors(context) == IF context = 0 THEN ContextWords ELSE ContextWords \cup AnswerWords

\* How many percent of the question's words are anchors.
Overlap(words, anchors) ==
    IF words = {} THEN 0 ELSE (100 * Cardinality(words \cap anchors)) \div Cardinality(words)

AcceptConfidence == 55

AtMost(bound, x) == IF x <= bound THEN x ELSE bound
AtLeast(bound, x) == IF x >= bound THEN x ELSE bound

Verdict(inContext, confidence) == [inContext |-> inContext, confidence |-> confidence]

Validated(q, overlap) ==
    CASE q.offTopic ->
            IF overlap < 25 THEN Verdict(FALSE, 95) ELSE Verdict(TRUE, AtMost(90, 55 + overlap))
      [] ~q.offTopic /\ q.pedagogical -> Verdict(TRUE, AtLeast(75, 60 + (4 * overlap) \div 10))
      [] ~q.offTopic /\ ~q.pedagogical /\ overlap >= 35 -> Verdict(TRUE, AtMost(92, 50 + overlap))
      [] OTHER -> IF q.length <= 8 /\ q.deictic THEN Verdict(TRUE, 70)
                  ELSE IF overlap < 15 /\ q.length >= 3 THEN Verdict(FALSE, 80)
                  ELSE Verdict(FALSE, 40 + overlap)

Accepted(q) ==
    LET verdict == Validated(q, Overlap(q.words, Anchors(row.context)))
    IN  verdict.inContext /\ verdict.confidence >= AcceptConfidence

-----------------------------------------------------------------------------
(* Helpers *)

\* The slice seq[-keep:].
LastOf(seq, keep) == IF Len(seq) <= keep THEN seq ELSE SubSeq(seq, Len(seq) - keep + 1, Len(seq))

\* The time of a transaction opened now; one opened by the refresh of the
\* message stored last is just after it.
Now == 2 * Len(said)

Say(role, at, mark) == Append(said, [role |-> role, at |-> at, mark |-> mark])

Earlier(msgs, i, j) == msgs[i].at < msgs[j].at \/ (msgs[i].at = msgs[j].at /\ i < j)

\* list_by_session: the first ListLimit messages by created_at.
Listed(msgs) ==
    {i \in DOMAIN msgs : Cardinality({j \in DOMAIN msgs : Earlier(msgs, j, i)}) < ListLimit}

LoopFree == loop = NoWriter

Step(w, new) == work' = [work EXCEPT ![w] = new]

End(w) ==
    /\ Step(w, Resting)
    /\ loop' = NoWriter

Begin(w, new) ==
    /\ LoopFree /\ alive /\ work[w].at = "idle" /\ asked < MaxAsked
    /\ asked' = asked + 1
    /\ Step(w, [new EXCEPT !.n = asked + 1])

\* A change of the row makes what others have loaded of it stale.
Outdated(others) ==
    [w \in Writers |->
        IF w \notin others THEN work[w]
        ELSE [work[w] EXCEPT !.stale = @ \cup (IF work[w].seen.on THEN {"seen"} ELSE {})
                                         \cup (IF work[w].row.on THEN {"row"} ELSE {})]]

-----------------------------------------------------------------------------
(* Turns *)

\* The memory goes into the prompt only.
Turn(w) ==
    /\ Begin(w, [Resting EXCEPT !.at = "call", !.kind = "turn"])
    /\ said' = Say("user", Now, "none")
    /\ UNCHANGED <<alive, row, loop, ghosts>>

\* The trace row of the call has closed the transaction the call was made in.
TurnAnswered(w) ==
    /\ LoopFree /\ alive /\ work[w].at = "call" /\ work[w].kind = "turn"
    /\ said' = Say("turn", Now, "none")
    /\ Step(w, [work[w] EXCEPT !.at = "metering", !.context = work[w].n])
    /\ UNCHANGED <<alive, row, loop, asked, ghosts>>

\* The usage report has returned.
Metered(w) ==
    /\ LoopFree /\ work[w].at = "metering"
    /\ Step(w, [work[w] EXCEPT !.at = "load"])
    /\ loop' = w
    /\ UNCHANGED <<alive, row, said, asked, ghosts>>

-----------------------------------------------------------------------------
(* Follow-ups *)

\* The question is stored and committed; refreshing its row opens the
\* transaction in which the answer will be inserted, whenever it comes.
FollowUp(w, q) ==
    /\ Accepted(q)
    /\ Begin(w, [Resting EXCEPT !.at = "call", !.kind = "follow_up", !.seen = row,
                                !.context = row.context, !.tries = 1, !.txn = Now + 1])
    /\ said' = Say("user", Now, "none")
    /\ UNCHANGED <<alive, row, loop, ghosts>>

\* A question out of context is answered and remembered without a model call.
FollowUpRejected(w, q) ==
    /\ ~Accepted(q)
    /\ Begin(w, [Resting EXCEPT !.at = "load", !.kind = "follow_up_rejection"])
    /\ loop' = w
    /\ said' = Append(Say("user", Now, "none"),
                      [role |-> "follow_up_rejection", at |-> Now + 1, mark |-> "out_of_context"])
    /\ UNCHANGED <<alive, row, ghosts>>

\* An answer of fewer than 40 characters is asked for once more.
FollowUpEmpty(w) ==
    /\ LoopFree /\ work[w].at = "call" /\ work[w].kind = "follow_up" /\ work[w].tries < 2
    /\ Step(w, [work[w] EXCEPT !.tries = @ + 1])
    /\ UNCHANGED <<alive, row, said, loop, asked, ghosts>>

\* Mutant of Annotated: the search starts from the front.
AnnotatedFirst(msgs) ==
    LET answers == {i \in Listed(msgs) : msgs[i].role # "user"}
        first == CHOOSE i \in answers : \A j \in answers \ {i} : Earlier(msgs, i, j)
    IN  IF answers = {} THEN msgs ELSE [msgs EXCEPT ![first].mark = "follow_up"]

\* The last assistant message of the list is annotated, whosever it is, unless
\* it is a rejection.
Annotated(msgs) ==
    LET answers == {i \in Listed(msgs) : msgs[i].role # "user"}
        last == CHOOSE i \in answers : \A j \in answers \ {i} : Earlier(msgs, j, i)
    IN  IF answers = {} \/ msgs[last].mark = "out_of_context" THEN msgs
        ELSE [msgs EXCEPT ![last].mark = "follow_up"]

FollowUpAnswered(w) ==
    /\ LoopFree /\ alive /\ work[w].at = "call" /\ work[w].kind = "follow_up"
    /\ said' = Annotated(Say("follow_up", work[w].txn, "none"))
    /\ Step(w, [work[w] EXCEPT !.at = "load"])
    /\ loop' = w
    /\ UNCHANGED <<alive, row, asked, ghosts>>

-----------------------------------------------------------------------------
(* Summaries *)

Summarize(w) ==
    /\ Begin(w, [Resting EXCEPT !.at = "call", !.kind = "summary", !.seen = row])
    /\ UNCHANGED <<alive, row, said, loop, ghosts>>

\* The summary goes to save_snapshot with all that was loaded before the call.
Summarized(w) ==
    /\ LoopFree /\ work[w].at = "call" /\ work[w].kind = "summary"
    /\ Step(w, [work[w] EXCEPT !.at = "select"])
    /\ loop' = w
    /\ UNCHANGED <<alive, row, said, asked, ghosts>>

\* A call, a report or an INSERT into a session that is gone has failed.
Fails(w) ==
    /\ LoopFree /\ work[w].at \in {"call", "metering"}
    /\ End(w)
    /\ UNCHANGED <<alive, row, said, asked, ghosts>>

-----------------------------------------------------------------------------
(* append_exchange and upsert_memory: load, SELECT again, write. *)

AppendLoad(w) ==
    /\ work[w].at = "load"
    /\ Step(w, [work[w] EXCEPT !.at = "select", !.row = row])
    /\ UNCHANGED <<alive, row, said, loop, asked, ghosts>>

UpsertSelect(w) ==
    /\ work[w].at = "select"
    /\ Step(w, [work[w] EXCEPT !.at = "write", !.found = row.on])
    /\ UNCHANGED <<alive, row, said, loop, asked, ghosts>>

IsSummary(q) == q.kind = "summary"

\* An exchange is added to what append_exchange has loaded; a context that is
\* handed over covers the one that was there.
Exchange(q) ==
    [on |-> TRUE, recent |-> LastOf(Append(q.row.recent, q.n), KeepRecent),
     long |-> LastOf(Append(q.row.long, q.n), KeepLong),
     context |-> IF q.context # 0 THEN q.context ELSE q.row.context,
     summary |-> q.row.summary]

\* A summary comes with the memory it was made from.
Snapshot(q) == [q.seen EXCEPT !.on = TRUE, !.summary = q.n]

\* Mutant of Kept: a value without content is written like any other.
KeptNothing(new, old) == new

\* An UPDATE leaves the columns it has no value for; a list that was loaded is
\* a value, for previous_responses also if it is empty.
Kept(new, old) ==
    [new EXCEPT !.recent = IF @ = <<>> THEN old.recent ELSE @,
                !.context = IF @ = 0 THEN old.context ELSE @,
                !.summary = IF @ = 0 THEN old.summary ELSE @]

\* What is written over the row found: previous_responses is no value only for
\* a summary that had loaded no row.
Upserted(q) ==
    LET new == IF IsSummary(q) THEN Snapshot(q) ELSE Exchange(q)
        all == Kept(new, row)
    IN  IF IsSummary(q) /\ ~q.seen.on THEN [all EXCEPT !.long = row.long] ELSE all

\* The row the SELECT found has been deleted, or the session: the request ends
\* with a RepositoryError.
UpsertFails(w) ==
    /\ work[w].at = "write"
    /\ ~alive \/ (work[w].found /\ ~row.on)
    /\ End(w)
    /\ UNCHANGED <<alive, row, said, asked, ghosts>>

UpsertWrite(w) ==
    LET q == work[w]
    IN  /\ q.at = "write" /\ alive /\ (q.found => row.on)
        /\ row' = Upserted(q)
        /\ work' = [Outdated(Writers \ {w}) EXCEPT ![w] = Resting]
        /\ loop' = NoWriter
        /\ log' = IF IsSummary(q) THEN log ELSE Append(log, q.n)
        /\ learned' = IF q.kind = "turn" THEN q.n ELSE learned
        /\ blurred' = (blurred \/ (IF IsSummary(q) THEN "seen" ELSE "row") \in q.stale)
        /\ reverted' = (/\ q.kind # "turn"
                        /\ reverted \/ "row" \in q.stale \/ (q.context # 0 /\ "seen" \in q.stale)
                           \/ (IsSummary(q) /\ "seen" \in q.stale))
        /\ UNCHANGED <<alive, said, asked>>

-----------------------------------------------------------------------------
(* The threads *)

Gone ==
    /\ row' = NoRow
    /\ work' = Outdated(Writers)
    /\ log' = <<>> /\ learned' = 0 /\ blurred' = FALSE /\ reverted' = FALSE

\* Without a row the request is a 404.
ClearMemory ==
    /\ alive /\ row.on
    /\ Gone
    /\ UNCHANGED <<alive, said, loop, asked>>

\* The messages and the memory go with the session.
DeleteSession ==
    /\ alive
    /\ alive' = FALSE /\ said' = <<>>
    /\ Gone
    /\ UNCHANGED <<loop, asked>>

MemoryNext ==
    \/ \E w \in Writers :
          \/ Turn(w) \/ TurnAnswered(w) \/ Metered(w)
          \/ \E q \in Questions : FollowUp(w, q) \/ FollowUpRejected(w, q)
          \/ FollowUpEmpty(w) \/ FollowUpAnswered(w)
          \/ Summarize(w) \/ Summarized(w) \/ Fails(w)
          \/ AppendLoad(w) \/ UpsertSelect(w) \/ UpsertFails(w) \/ UpsertWrite(w)
    \/ ClearMemory \/ DeleteSession

MemorySpec == MemoryInit /\ [][MemoryNext]_memoryVars

-----------------------------------------------------------------------------
(* Properties. *)

\* Only one stretch at a time holds the loop, and the lists keep their bounds.
MemoryTypeOK ==
    /\ alive \in BOOLEAN /\ row \in MemoryRow /\ said \in Seq(Message)
    /\ Len(row.recent) <= KeepRecent /\ Len(row.long) <= KeepLong
    /\ work \in [Writers -> Request] /\ loop \in Writers \cup {NoWriter}
    /\ \A w \in Writers : work[w].at \in {"load", "select", "write"} <=> loop = w
    /\ asked \in 0..MaxAsked
    /\ log \in Seq(Nat) /\ learned \in Nat /\ blurred \in BOOLEAN /\ reverted \in BOOLEAN

\* The memory holds the last exchanges since it was cleared, and the context of
\* the last turn: an exchange is missing, or one that was cleared is back, only
\* where a summary or an interrupted append wrote back what had changed since it
\* was loaded; an older context is back only where a follow-up did so as well.
MemoryIsExplained ==
    /\ ~row.on => log = <<>>
    /\ row.on /\ ~blurred => /\ row.recent = LastOf(log, KeepRecent)
                             /\ row.long = LastOf(log, KeepLong)
    /\ row.on /\ ~reverted => row.context = learned

\* What follow-ups annotate: their own answer and no other, but for one whose
\* transaction was older than another answer's, and sessions longer than the
\* list that is searched.
AnnotationIsExplained ==
    Len(said) <= ListLimit =>
        \A i \in DOMAIN said :
            /\ (said[i].role = "follow_up" /\ said[i].mark = "none") =>
                  \E j \in 1..(i - 1) : said[j].role # "user" /\ Earlier(said, i, j)
            /\ (said[i].role = "turn" /\ said[i].mark = "follow_up") =>
                  \E j \in DOMAIN said : j > i /\ said[j].role = "follow_up" /\ Earlier(said, j, i)
=============================================================================
