----------------------------- MODULE ModelCalls -----------------------------
(***************************************************************************)
(* How a chat request gets its answer: the planner's key, the process-wide *)
(* response cache, the OpenRouter client with its retries and its fallback *)
(* model, the validation of the answer and the sections that are merged    *)
(* into an earlier one.                                                    *)
(*                                                                         *)
(* A request runs as a coroutine; its awaits are the model calls, so every *)
(* action is the stretch up to the next one.  The turns of one session do  *)
(* not overlap here: what happens to its messages then is ChatStream's     *)
(* subject.  There is one session for each topic, opened with its slug,    *)
(* pattern or course as context.                                           *)
(***************************************************************************)
EXTENDS Naturals, FiniteSets

CONSTANTS
    Callers,        \* concurrent requests
    Topics,         \* what a session is about: a problem, a pattern, a course
    LessonTopics,   \* those of them that are patterns or courses
    Teacher,        \* the sections the model writes for every feature
    Explainer,      \* the code explainer, which a module derives from the code
    Nested,         \* sections of a pattern or a course: its quiz, its practice
    Wants,          \* the sets of sections clients ask for, the empty one for all
    MaxEntries,     \* cache_max_entries
    Ttl,            \* the time to live of an entry
    MaxHttp,        \* openrouter_max_retries
    MaxJson,        \* json_validation_max_retries
    Models,         \* 1, and 2 if there is a fallback model
    MaxNow,         \* bound on the clock
    MaxCalls,       \* bound on the requests started
    Nobody          \* no topic: an absent section

ASSUME TopicsAssumption == Nobody \notin Topics
ASSUME SectionsAssumption == Nested \cap {Teacher, Explainer} = {}
ASSUME WantsAssumption == Wants \subseteq SUBSET (Nested \cup {Teacher, Explainer})
ASSUME LimitsAssumption ==
    /\ MaxEntries \in Nat \ {0} /\ Ttl \in Nat \ {0} /\ Models \in {1, 2}
    /\ MaxHttp \in Nat /\ MaxJson \in Nat /\ MaxNow \in Nat /\ MaxCalls \in Nat

VARIABLES
    store,    \* [keys held by the cache -> [pay, born, until]]
    call,     \* [Callers -> the request]
    ans,      \* [Topics -> the session's latest answer, and what its memory holds]
    now,      \* the clock
    calls,    \* requests started
    crossed,  \* ghost: sessions answered from a key that does not name their topic
    stale     \* ghost: age of the oldest entry a request was answered from

vars == <<store, call, ans, now, calls, crossed, stale>>

-----------------------------------------------------------------------------
(* Payloads: which topic each of their sections is about. *)

Tops == {Teacher, Explainer}
Sections == Tops \cup Nested
Payload == [Sections -> Topics \cup {Nobody}]
Empty == [s \in Sections |-> Nobody]

\* A validated answer always has the teacher's keys, if need be without text,
\* and never the code explainer: the envelope has no such field.
About(t, nested) == [s \in Sections |-> IF s \in {Teacher} \cup nested THEN t ELSE Nobody]

Filtered(pay, wanted) ==
    IF wanted = {} THEN pay
    ELSE [s \in Sections |-> IF s \in wanted THEN pay[s] ELSE Nobody]

\* Mutant of Merged: the new payload replaces the earlier one.
MergedOver(prior, pay, wanted) == pay

\* A section that was asked for is taken over if the new payload has it.
Merged(prior, pay, wanted) ==
    IF wanted = {} THEN pay
    ELSE [s \in Sections |-> IF s \in wanted /\ pay[s] # Nobody THEN pay[s] ELSE prior[s]]

\* The planner's objectives fill the teacher's section of a practice answer
\* before it is tested, so only a lesson, or a practice turn without its
\* context, is found empty.
LooksEmpty(q, nested, bare) ==
    q.want = {} /\ IF q.topic \in LessonTopics THEN nested = {} ELSE bare /\ ~q.named

\* The modules a turn runs: all of the feature, those that were asked for, or
\* the teacher for nested sections alone.
ModulesToRun(t, want) ==
    LET modules == IF t \in LessonTopics THEN {Teacher} ELSE Tops
    IN  IF want = {} THEN modules
        ELSE IF want \cap Tops = {} THEN {Teacher} ELSE modules \cap want

Missing(q, pay) == {s \in ModulesToRun(q.topic, q.want) : pay[s] = Nobody}

-----------------------------------------------------------------------------
(* Keys and the cache. *)

\* Without a slug, pattern or topic the key is made of the message.  That of a
\* continue is the same sentence for every session; another message may be
\* typed in two sessions.
CacheKey(q) ==
    IF q.kind = "continue" THEN <<"continue", q.topic \in LessonTopics>>
    ELSE IF q.named THEN <<"topic", q.topic>>
    ELSE <<"words", q.topic \in LessonTopics>>

Keys == ({"continue", "words"} \X BOOLEAN) \cup ({"topic"} \X Topics)

\* Mutant of Hit: the expiry of the key is not looked at.
HitUnexpired(k) == k \in DOMAIN store

\* An entry is served before its own expiry only.
Hit(k) == k \in DOMAIN store /\ now < store[k].until

Entry(pay) == [pay |-> pay, born |-> now, until |-> now + Ttl]

\* Mutant of Put: the size is not looked at.
PutUnbounded(k, pay) ==
    store' = [x \in DOMAIN store \cup {k} |-> IF x = k THEN Entry(pay) ELSE store[x]]

\* A full store evicts one of its entries (the library's choice is the least
\* recently used).
Put(k, pay) ==
    LET full == k \notin DOMAIN store /\ Cardinality(DOMAIN store) >= MaxEntries
    IN  \E out \in IF full THEN {{x} : x \in DOMAIN store} ELSE {{}} :
            store' = [x \in (DOMAIN store \ out) \cup {k} |->
                        IF x = k THEN Entry(pay) ELSE store[x]]

-----------------------------------------------------------------------------
(* Requests. *)

Kinds == {"none", "analyze", "turn", "regenerate", "continue"}

Caller == [at : {"idle", "lookup", "call"}, kind : Kinds,
           topic : Topics \cup {Nobody}, want : SUBSET Sections, named : BOOLEAN,
           prior : Payload, streamed : BOOLEAN,
           model : 1..2, tries : 0..MaxHttp, json : 0..MaxJson]

Free == [at |-> "idle", kind |-> "none", topic |-> Nobody, want |-> {}, named |-> FALSE,
         prior |-> Empty, streamed |-> FALSE, model |-> 1, tries |-> 0, json |-> 0]

\* Whom the latest message is about, the nested sections kept with it, the
\* sections it was found to miss, whether it failed, and whom the teacher's
\* output in the session's memory is about.
Answer == [text : Topics \cup {Nobody}, nest : Payload, missing : SUBSET Tops,
           failed : BOOLEAN, mem : Topics \cup {Nobody}]

Init ==
    /\ store = [k \in {} |-> Empty]
    /\ call = [c \in Callers |-> Free]
    /\ ans = [t \in Topics |-> [text |-> Nobody, nest |-> Empty, missing |-> {},
                                failed |-> FALSE, mem |-> Nobody]]
    /\ now = 0 /\ calls = 0
    /\ crossed = {} /\ stale = 0

Ask(c, kind, t, want, named, prior) ==
    /\ call[c].at = "idle" /\ calls < MaxCalls
    /\ \A d \in Callers : call[d].topic # t
    /\ calls' = calls + 1
    /\ call' = [call EXCEPT ![c] =
                  [Free EXCEPT !.at = "lookup", !.kind = kind, !.topic = t, !.want = want,
                               !.named = named, !.prior = prior, !.streamed = (kind = "turn")]]
    /\ UNCHANGED <<store, ans, now, crossed, stale>>

\* What the memory offers to merge into: the teacher's output.
Remembered(t) == [Empty EXCEPT ![Teacher] = ans[t].mem]

\* A product request for the session's topic.
Analyze(c, t) == Ask(c, "analyze", t, {}, TRUE, Remembered(t))

\* A chat message by the token stream, for some sections or all, with the
\* session's context or without.
ChatTurn(c, t, want, named) == Ask(c, "turn", t, want, named, Remembered(t))

\* The same message again: its key does not tell it from the first time.
Retry(c, t) ==
    /\ ans[t].text # Nobody
    /\ Analyze(c, t)

\* The message is superseded; its structured output is handed over.
Regenerate(c, t, want) ==
    /\ ans[t].text # Nobody
    /\ Ask(c, "regenerate", t, want, TRUE, ans[t].nest)

\* The sections the message was recorded to miss.
Continue(c, t) ==
    /\ ans[t].missing # {}
    /\ Ask(c, "continue", t, ans[t].missing, FALSE, ans[t].nest)

\* A teacher that got nothing writes an empty message of its own.
Text(q, pay) == IF pay[Teacher] = Nobody THEN q.topic ELSE pay[Teacher]

\* The structured output of a message keeps the nested sections of a lesson.
Structured(q, pay) ==
    IF q.topic \in LessonTopics THEN [pay EXCEPT ![Teacher] = Nobody, ![Explainer] = Nobody]
    ELSE Empty

\* The rest of the turn: modules, message, memory.  A stream records the
\* sections its answer lacks; a continue merges its newest message into its
\* target, which it marks completed, also if there is no answer (pay is Empty
\* then and failed is set).
Finish(c, pay, failed) ==
    LET q == call[c]
        told == Text(q, pay)
        kept == Structured(q, pay)
    IN  /\ ans' = [ans EXCEPT ![q.topic] =
                     [text |-> told,
                      nest |-> IF q.kind = "continue" THEN Merged(q.prior, kept, q.want) ELSE kept,
                      missing |-> IF q.kind = "turn" THEN Missing(q, pay) ELSE {},
                      failed |-> failed,
                      mem |-> IF Teacher \in ModulesToRun(q.topic, q.want) \/ pay[Teacher] # Nobody
                              THEN told ELSE @.mem]]
        /\ call' = [call EXCEPT ![c] = Free]

\* A message's structured output is never empty.
HasPrior(q) == q.kind \in {"continue", "regenerate"} \/ q.prior # Empty

\* A cached answer, cut to the sections that were asked for and merged into
\* the prior answer, or into the rest of the entry if there is none.
Served(q, pay) ==
    Merged(IF HasPrior(q) THEN q.prior ELSE pay, Filtered(pay, q.want), q.want)

LookUp(c) ==
    LET q == call[c]
        k == CacheKey(q)
    IN  /\ q.at = "lookup"
        /\ IF Hit(k)
           THEN /\ Finish(c, Served(q, store[k].pay), FALSE)
                /\ crossed' = IF k[1] = "topic" THEN crossed ELSE crossed \cup {q.topic}
                /\ stale' = IF now - store[k].born > stale THEN now - store[k].born ELSE stale
                /\ UNCHANGED store
           ELSE /\ store' = [x \in DOMAIN store \ {k} |-> store[x]]
                /\ call' = [call EXCEPT ![c].at = "call"]
                /\ UNCHANGED <<ans, crossed, stale>>
        /\ UNCHANGED <<now, calls>>

-----------------------------------------------------------------------------
(* The OpenRouter client. *)

\* Out of attempts or answers.  A stream ends with an error and stores nothing;
\* the others go on to their modules without an answer.
NoAnswer(c) ==
    IF call[c].kind = "turn" THEN call' = [call EXCEPT ![c] = Free] /\ UNCHANGED ans
    ELSE Finish(c, Empty, TRUE)

\* Mutant of GiveUp: the fallback falls back to the first model.
GiveUpAround(c) ==
    IF ~call[c].streamed /\ Models = 2
    THEN /\ call' = [call EXCEPT ![c].model = 3 - @, ![c].tries = 0]
         /\ UNCHANGED ans
    ELSE NoAnswer(c)

\* The call has failed for good: the fallback model, if there is one.
GiveUp(c) ==
    IF ~call[c].streamed /\ call[c].model < Models
    THEN /\ call' = [call EXCEPT ![c].model = @ + 1, ![c].tries = 0]
         /\ UNCHANGED ans
    ELSE NoAnswer(c)

\* A retryable status, a transport error or a timeout: another attempt after
\* the backoff.  The token stream makes one attempt only.
Temporary(c) ==
    /\ call[c].at = "call"
    /\ IF call[c].streamed \/ call[c].tries >= MaxHttp THEN GiveUp(c)
       ELSE call' = [call EXCEPT ![c].tries = @ + 1] /\ UNCHANGED ans
    /\ UNCHANGED <<store, now, calls, crossed, stale>>

\* Any other status is not retried.
Refused(c) ==
    /\ call[c].at = "call"
    /\ GiveUp(c)
    /\ UNCHANGED <<store, now, calls, crossed, stale>>

\* An answer that does not validate, or is found empty, is asked for again
\* through the client, also if the first one was streamed.
Rejected(c) ==
    IF call[c].json < MaxJson
    THEN /\ call' = [call EXCEPT ![c].json = @ + 1, ![c].model = 1, ![c].tries = 0,
                                 ![c].streamed = FALSE]
         /\ UNCHANGED ans
    ELSE NoAnswer(c)

Invalid(c) ==
    /\ call[c].at = "call"
    /\ Rejected(c)
    /\ UNCHANGED <<store, now, calls, crossed, stale>>

\* A valid answer with the nested sections the model wrote; bare if it wrote
\* nothing at all.  What is cached is the merge only if there was an earlier
\* answer to merge into.
Delivered(c, nested, bare) ==
    LET q == call[c]
        pay == About(q.topic, nested)
        merged == Merged(q.prior, Filtered(pay, q.want), q.want)
    IN  /\ q.at = "call" /\ (bare => nested = {})
        /\ IF LooksEmpty(q, nested, bare)
           THEN Rejected(c) /\ UNCHANGED store
           ELSE /\ Finish(c, merged, FALSE)
                /\ Put(CacheKey(q), IF q.want # {} /\ HasPrior(q) THEN merged ELSE pay)
        /\ UNCHANGED <<now, calls, crossed, stale>>

Tick ==
    /\ now < MaxNow
    /\ now' = now + 1
    /\ UNCHANGED <<store, call, ans, calls, crossed, stale>>

CallSteps(c) ==
    \/ LookUp(c) \/ Temporary(c) \/ Refused(c) \/ Invalid(c)
    \/ \E nested \in SUBSET Nested, bare \in BOOLEAN : Delivered(c, nested, bare)

Next ==
    \/ \E c \in Callers, t \in Topics :
          \/ Analyze(c, t) \/ Retry(c, t) \/ Continue(c, t)
          \/ \E want \in Wants :
                \/ Regenerate(c, t, want)
                \/ \E named \in BOOLEAN : ChatTurn(c, t, want, named)
    \/ \E c \in Callers : CallSteps(c)
    \/ Tick

Spec == Init /\ [][Next]_vars

\* Every awaited call returns or times out.
Fairness == \A c \in Callers : WF_vars(CallSteps(c))

-----------------------------------------------------------------------------
(* Properties. *)

\* The cache holds at most its maximum of entries, each under one of the keys
\* the services build.
TypeOK ==
    /\ DOMAIN store \subseteq Keys /\ Cardinality(DOMAIN store) <= MaxEntries
    /\ \A k \in DOMAIN store :
          /\ store[k].pay \in Payload
          /\ store[k].born \in 0..MaxNow /\ store[k].until = store[k].born + Ttl
    /\ call \in [Callers -> Caller]
    /\ ans \in [Topics -> Answer]
    /\ now \in 0..MaxNow /\ calls \in 0..MaxCalls
    /\ crossed \subseteq Topics /\ stale \in Nat

Owned(pay, t) == \A s \in Sections : pay[s] \in {Nobody, t}

\* The cache serves nothing older than its time to live, and what is stored for
\* a topic, in its session or under its key, is about that topic, unless the
\* session was once answered from a key that does not name it.
CacheIsSound ==
    /\ stale < Ttl
    /\ \A t \in Topics \ crossed :
          /\ Owned(ans[t].nest, t) /\ {ans[t].text, ans[t].mem} \subseteq {Nobody, t}
          /\ <<"topic", t>> \in DOMAIN store => Owned(store[<<"topic", t>>].pay, t)

\* A continue, and a regeneration of some sections that succeeds, leave every
\* other nested section of the answer as it was, whether the new sections came
\* from the model or from the cache.
OtherSectionsKept ==
    [][\A c \in Callers :
          LET q == call[c]
          IN  (/\ q.kind \in {"continue", "regenerate"} /\ call'[c].kind = "none"
               /\ q.kind = "continue" \/ (q.want # {} /\ ~ans'[q.topic].failed)) =>
                 \A s \in Nested \ q.want : ans'[q.topic].nest[s] = ans[q.topic].nest[s]]_vars

\* Retries, fallbacks and validation retries come to an end: every request does.
EveryCallEnds == \A c \in Callers : call[c].at # "idle" ~> call[c].at = "idle"

\* cache_keys.py names the features whose responses are cached "user-independent
\* content only", and docs/conversation-chat.md says that a continue generates
\* the missing sections of its message: an answer is about its session's topic.
\* The key of a continue, and of a message without context, does not name it.
AnswersStayOnTopic == \A t \in Topics : ans[t].text \in {Nobody, t}
=============================================================================
