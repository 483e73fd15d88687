--------------------------- MODULE ModelCallsProofs ---------------------------
(***************************************************************************)
(* Proofs about ModelCalls, for any requests, topics, sections and sizes   *)
(* of the cache.                                                           *)
(***************************************************************************)
EXTENDS ModelCalls, FiniteSetTheorems, TLAPS

-------------------------------------------------------------------------------
(* Payloads *)

\* What a session keeps of an answer is about its topic.
AnswerOwned(a, t) == Owned(a.nest, t) /\ {a.text, a.mem} \subseteq {Nobody, t}

LEMMA EmptyIsPayload == Empty \in Payload /\ \A t : Owned(Empty, t)
BY DEF Empty, Payload, Owned

LEMMA AboutIsOwned ==
  ASSUME NEW t \in Topics, NEW nested
  PROVE  About(t, nested) \in Payload /\ Owned(About(t, nested), t)
BY DEF About, Payload, Owned

LEMMA FilteredIsPayload ==
  ASSUME NEW pay \in Payload, NEW wanted
  PROVE  /\ Filtered(pay, wanted) \in Payload
         /\ \A t : Owned(pay, t) => Owned(Filtered(pay, wanted), t)
BY DEF Filtered, Payload, Owned

LEMMA MergedIsPayload ==
  ASSUME NEW prior \in Payload, NEW pay \in Payload, NEW wanted
  PROVE  /\ Merged(prior, pay, wanted) \in Payload
         /\ \A t : Owned(prior, t) /\ Owned(pay, t) => Owned(Merged(prior, pay, wanted), t)
         /\ wanted # {} =>
               \A s \in Sections \ wanted : Merged(prior, pay, wanted)[s] = prior[s]
<1>1. CASE wanted = {}
  BY <1>1 DEF Merged
<1>2. CASE wanted # {}
  <2> DEFINE m == [s \in Sections |-> IF s \in wanted /\ pay[s] # Nobody THEN pay[s] ELSE prior[s]]
  <2>1. Merged(prior, pay, wanted) = m
    BY <1>2 DEF Merged
  <2>2. m \in Payload /\ \A s \in Sections : m[s] \in {pay[s], prior[s]}
    BY DEF Payload
  <2>3. \A s \in Sections \ wanted : m[s] = prior[s]
    OBVIOUS
  <2> HIDE DEF m
  <2> QED  BY <2>1, <2>2, <2>3 DEF Owned
<1> QED  BY <1>1, <1>2

\* The structured output of a message: the nested sections of a lesson.
LEMMA StructuredIsPayload ==
  ASSUME NEW q, NEW pay \in Payload
  PROVE  /\ Structured(q, pay) \in Payload
         /\ \A t : Owned(pay, t) => Owned(Structured(q, pay), t)
         /\ q.topic \notin LessonTopics => Structured(q, pay) = Empty
         /\ q.topic \in LessonTopics => \A s \in Nested : Structured(q, pay)[s] = pay[s]
<1>1. CASE q.topic \in LessonTopics
  <2>1. Structured(q, pay) = [[pay EXCEPT ![Teacher] = Nobody] EXCEPT ![Explainer] = Nobody]
    BY <1>1 DEF Structured
  <2> QED  BY <1>1, <2>1, SectionsAssumption DEF Payload, Owned, Sections, Tops
<1>2. CASE q.topic \notin LessonTopics
  BY <1>2, EmptyIsPayload DEF Structured
<1> QED  BY <1>1, <1>2

LEMMA ServedIsPayload ==
  ASSUME NEW q, q.prior \in Payload, NEW pay \in Payload
  PROVE  /\ Served(q, pay) \in Payload
         /\ \A t : Owned(q.prior, t) /\ Owned(pay, t) => Owned(Served(q, pay), t)
         /\ q.want # {} /\ HasPrior(q) =>
               \A s \in Sections \ q.want : Served(q, pay)[s] = q.prior[s]
<1> DEFINE prior == IF HasPrior(q) THEN q.prior ELSE pay
<1>1. Served(q, pay) = Merged(prior, Filtered(pay, q.want), q.want)
  BY DEF Served
<1>2. prior \in Payload /\ Filtered(pay, q.want) \in Payload
  BY FilteredIsPayload
<1>3. \A t : Owned(q.prior, t) /\ Owned(pay, t) =>
                Owned(prior, t) /\ Owned(Filtered(pay, q.want), t)
  BY FilteredIsPayload
<1>4. HasPrior(q) => prior = q.prior
  OBVIOUS
<1> HIDE DEF prior
<1> QED  BY <1>1, <1>2, <1>3, <1>4, MergedIsPayload

-------------------------------------------------------------------------------
(* The inductive invariant *)

\* A request in progress has a topic of its own, and the prior answer it took
\* with it is still its session's: nobody else writes there meanwhile.
CallerOK(q) ==
  /\ q.at = "idle" => q = Free
  /\ q.at # "idle" =>
        /\ q.topic \in Topics /\ q.kind # "none"
        /\ q.kind \in {"continue", "regenerate"} => q.prior = ans[q.topic].nest
        /\ q.kind = "continue" => q.want # {}
        /\ q.topic \notin crossed => Owned(q.prior, q.topic)

Alone == \A c, d \in Callers :
            c # d /\ call[c].topic # Nobody => call[c].topic # call[d].topic

\* Requests and answers are typed, and only a lesson keeps nested sections.
RequestsTyped ==
  /\ call \in [Callers -> Caller] /\ ans \in [Topics -> Answer]
  /\ \A t \in Topics \ LessonTopics : ans[t].nest = Empty

\* Requests, and the answers of the sessions they are for.
RequestsOK ==
  /\ RequestsTyped /\ Alone
  /\ \A c \in Callers : CallerOK(call[c])
  /\ \A t \in Topics \ crossed : AnswerOwned(ans[t], t)

EntryOK(e) == e.pay \in Payload /\ e.born \in 0..MaxNow /\ e.until = e.born + Ttl

\* The cache is bounded and its entries are typed; none is from the future.
StoreTyped ==
  /\ DOMAIN store \subseteq Keys /\ IsFiniteSet(DOMAIN store)
  /\ Cardinality(DOMAIN store) <= MaxEntries
  /\ \A k \in DOMAIN store : EntryOK(store[k]) /\ store[k].born <= now

StoreClean ==
  \A t \in Topics \ crossed :
     <<"topic", t>> \in DOMAIN store => Owned(store[<<"topic", t>>].pay, t)

Counted ==
  /\ now \in 0..MaxNow /\ calls \in 0..MaxCalls
  /\ crossed \subseteq Topics /\ stale \in Nat /\ stale < Ttl

Inv == Counted /\ StoreTyped /\ StoreClean /\ RequestsOK

\* What a step does to the sections a request did not ask for.
SectionsKept ==
  \A c \in Callers :
     LET q == call[c]
     IN  (/\ q.kind \in {"continue", "regenerate"} /\ call'[c].kind = "none"
          /\ q.kind = "continue" \/ (q.want # {} /\ ~ans'[q.topic].failed)) =>
            \A s \in Nested \ q.want : ans'[q.topic].nest[s] = ans[q.topic].nest[s]

-------------------------------------------------------------------------------
(* Keys and the cache *)

LEMMA KeyOfRequest ==
  ASSUME NEW q \in Caller, q.topic \in Topics
  PROVE  /\ CacheKey(q) \in Keys
         /\ CacheKey(q)[1] = "topic" => CacheKey(q) = <<"topic", q.topic>>
<1> DEFINE b == q.topic \in LessonTopics
<1>1. b \in BOOLEAN
  OBVIOUS
<1>2. \/ CacheKey(q) = <<"continue", b>> \/ CacheKey(q) = <<"words", b>>
      \/ CacheKey(q) = <<"topic", q.topic>>
  BY Zenon DEF CacheKey
<1> HIDE DEF b
<1>3. {<<"continue", b>>, <<"words", b>>, <<"topic", q.topic>>} \subseteq Keys
  BY <1>1 DEF Keys
<1> QED  BY <1>2, <1>3

\* An entry is put in; the others stay as they are or are evicted.
LEMMA PutKeeps ==
  ASSUME StoreTyped, Counted, now' = now, NEW k \in Keys, NEW pay \in Payload, Put(k, pay)
  PROVE  /\ StoreTyped'
         /\ k \in DOMAIN store' /\ store'[k].pay = pay
         /\ \A x \in DOMAIN store' : x = k \/ (x \in DOMAIN store /\ store'[x] = store[x])
<1> DEFINE D == DOMAIN store
           full == k \notin D /\ Cardinality(D) >= MaxEntries
<1>1. PICK out \in IF full THEN {{x} : x \in D} ELSE {{}} :
            store' = [x \in (D \ out) \cup {k} |-> IF x = k THEN Entry(pay) ELSE store[x]]
  BY DEF Put
<1>2. DOMAIN store' = (D \ out) \cup {k}
  BY <1>1
<1>3. store'[k] = Entry(pay) /\ \A x \in D \ out : x # k => store'[x] = store[x]
  BY <1>1
<1>4. EntryOK(Entry(pay)) /\ Entry(pay).born = now /\ Entry(pay).pay = pay
  BY DEF EntryOK, Entry, Counted
<1>5. IsFiniteSet(D) /\ Cardinality(D) \in Nat /\ Cardinality(D) <= MaxEntries /\ D \subseteq Keys
  BY FS_CardinalityType DEF StoreTyped
<1>6. IsFiniteSet(D \ out) /\ IsFiniteSet((D \ out) \cup {k})
  BY <1>5, FS_Subset, FS_AddElement
<1>7. Cardinality((D \ out) \cup {k}) <= MaxEntries
  <2>1. CASE full
    <3>1. PICK x \in D : out = {x}
      BY <1>1, <2>1
    <3>2. Cardinality(D \ out) = Cardinality(D) - 1
      BY <1>5, <3>1, FS_RemoveElement
    <3>3. Cardinality((D \ out) \cup {k}) = Cardinality(D \ out) + 1
      BY <1>6, <2>1, FS_AddElement
    <3> QED  BY <1>5, <3>2, <3>3, LimitsAssumption
  <2>2. CASE k \in D /\ ~full
    <3>1. out = {} /\ (D \ out) \cup {k} = D
      BY <1>1, <2>2
    <3> QED  BY <1>5, <3>1
  <2>3. CASE k \notin D /\ ~full
    <3>1. out = {} /\ D \ out = D
      BY <1>1, <2>3
    <3>2. Cardinality(D \cup {k}) = Cardinality(D) + 1
      BY <1>5, <2>3, FS_AddElement
    <3>3. Cardinality(D) < MaxEntries
      BY <1>5, <2>3, LimitsAssumption
    <3> QED  BY <1>5, <3>1, <3>2, <3>3, LimitsAssumption
  <2> QED  BY <2>1, <2>2, <2>3
<1>8. \A x \in DOMAIN store' : x = k \/ (x \in D /\ store'[x] = store[x])
  BY <1>2, <1>3
<1>9. \A x \in DOMAIN store' : EntryOK(store'[x]) /\ store'[x].born <= now
  <2> TAKE x \in DOMAIN store'
  <2>1. CASE x = k
    BY <1>3, <1>4, <2>1 DEF Counted
  <2>2. CASE x \in D /\ store'[x] = store[x]
    BY <2>2 DEF StoreTyped
  <2> QED  BY <1>8, <2>1, <2>2
<1>10. DOMAIN store' \subseteq Keys
  BY <1>2, <1>5
<1> HIDE DEF full
<1> QED  BY <1>2, <1>3, <1>4, <1>6, <1>7, <1>8, <1>9, <1>10 DEF StoreTyped, EntryOK

\* An expired or absent key is dropped.
LEMMA DropKeeps ==
  ASSUME StoreTyped, StoreClean, now' = now, crossed' = crossed, NEW k,
         store' = [x \in DOMAIN store \ {k} |-> store[x]]
  PROVE  StoreTyped' /\ StoreClean'
<1>1. DOMAIN store' \subseteq DOMAIN store /\ \A x \in DOMAIN store' : store'[x] = store[x]
  OBVIOUS
<1>2. IsFiniteSet(DOMAIN store') /\ Cardinality(DOMAIN store') <= Cardinality(DOMAIN store)
  BY <1>1, FS_Subset DEF StoreTyped
<1>3. Cardinality(DOMAIN store') \in Nat /\ Cardinality(DOMAIN store) \in Nat
  BY <1>2, FS_CardinalityType DEF StoreTyped
<1>4. StoreTyped'
  BY <1>1, <1>2, <1>3, LimitsAssumption DEF StoreTyped, EntryOK
<1>5. StoreClean'
  BY <1>1 DEF StoreClean, Owned
<1> QED  BY <1>4, <1>5

-------------------------------------------------------------------------------
(* The requests of a session *)

\* A request that goes on keeps what it was asked, and its session its answer.
LEMMA CallMoves ==
  ASSUME RequestsOK, NEW c \in Callers, NEW m \in Caller,
         call[c].at # "idle", m.at # "idle", m.kind = call[c].kind,
         m.topic = call[c].topic, m.want = call[c].want, m.prior = call[c].prior,
         call' = [call EXCEPT ![c] = m], ans' = ans, crossed' = crossed
  PROVE  RequestsOK' /\ SectionsKept
<1>1. call'[c] = m /\ \A d \in Callers \ {c} : call'[d] = call[d]
  BY DEF RequestsOK, RequestsTyped
<1>2. \A d \in Callers : call'[d].kind = call[d].kind /\ call'[d].topic = call[d].topic
  BY <1>1
<1>3. RequestsTyped'
  BY DEF RequestsOK, RequestsTyped
<1>4. Alone'
  BY <1>2 DEF RequestsOK, Alone
<1>5. \A d \in Callers : CallerOK(call[d])'
  <2> TAKE d \in Callers
  <2>1. CallerOK(call[d]) /\ CallerOK(call[c])
    BY DEF RequestsOK
  <2>2. CASE d = c
    BY <1>1, <2>1, <2>2 DEF CallerOK
  <2>3. CASE d # c
    <3>1. PICK q : q = call[d]
      OBVIOUS
    <3>2. CallerOK(q)'
      BY <2>1, <3>1 DEF CallerOK
    <3> QED  BY <1>1, <2>3, <3>1, <3>2 DEF CallerOK
  <2> QED  BY <2>2, <2>3
<1>6. \A t \in Topics \ crossed' : AnswerOwned(ans'[t], t)
  BY DEF RequestsOK
<1>7. SectionsKept
  BY <1>2 DEF SectionsKept, RequestsOK, CallerOK, Free
<1> QED  BY <1>3, <1>4, <1>5, <1>6, <1>7 DEF RequestsOK

LEMMA FreeIsCaller == Free \in Caller
<1>1. FALSE \in BOOLEAN /\ "idle" \in {"idle", "lookup", "call"} /\ "none" \in Kinds
  BY DEF Kinds
<1>2. Nobody \in Topics \cup {Nobody} /\ {} \in SUBSET Sections /\ 1 \in 1..2
  OBVIOUS
<1>3. 0 \in 0..MaxHttp /\ 0 \in 0..MaxJson
  BY LimitsAssumption
<1> QED  BY <1>1, <1>2, <1>3, EmptyIsPayload DEF Free, Caller

\* A request ends with an answer for its session; the other requests are for
\* other sessions.
LEMMA CallEnds ==
  ASSUME RequestsOK, NEW c \in Callers, NEW q \in Caller, q = call[c], q.at # "idle",
         call' = [call EXCEPT ![c] = Free], crossed \subseteq crossed',
         NEW a \in Answer, ans' = [ans EXCEPT ![q.topic] = a],
         q.topic \notin LessonTopics => a.nest = Empty,
         q.topic \in crossed' \/ AnswerOwned(a, q.topic),
         q.kind = "continue" \/ (q.kind = "regenerate" /\ q.want # {} /\ ~a.failed) =>
            \A s \in Nested \ q.want : a.nest[s] = ans[q.topic].nest[s]
  PROVE  RequestsOK' /\ SectionsKept
<1>1. /\ call'[c] = Free /\ \A d \in Callers \ {c} : call'[d] = call[d]
      /\ call' \in [Callers -> Caller]
  BY FreeIsCaller DEF RequestsOK, RequestsTyped
<1>2. q.topic \in Topics /\ CallerOK(q)
  BY DEF RequestsOK, CallerOK
<1>3. /\ ans' \in [Topics -> Answer] /\ ans'[q.topic] = a
      /\ \A t \in Topics : t # q.topic => ans'[t] = ans[t]
  BY <1>2 DEF RequestsOK, RequestsTyped
<1>4. RequestsTyped'
  BY <1>1, <1>3 DEF RequestsOK, RequestsTyped
<1>5. \A d \in Callers : call'[d].topic # Nobody => d # c /\ call'[d] = call[d]
  BY <1>1 DEF Free
<1>6. Alone'
  BY <1>5 DEF RequestsOK, Alone
<1>7. \A d \in Callers \ {c} : call[d].at # "idle" => call[d].topic # q.topic
  <2> TAKE d \in Callers \ {c}
  <2>1. CallerOK(call[d])
    BY DEF RequestsOK
  <2>2. q.topic # Nobody
    BY <1>2, TopicsAssumption
  <2> QED  BY <2>1, <2>2, <1>2 DEF CallerOK, RequestsOK, Alone
<1>8. \A d \in Callers : CallerOK(call[d])'
  <2> TAKE d \in Callers
  <2>1. CASE d = c
    <3>1. CallerOK(Free)'
      BY DEF CallerOK, Free
    <3> QED  BY <1>1, <2>1, <3>1
  <2>2. CASE d # c
    <3>1. PICK r : r = call[d]
      OBVIOUS
    <3>2. CallerOK(r)
      BY <3>1 DEF RequestsOK
    <3>3. r.at # "idle" => r.topic \in Topics /\ ans'[r.topic] = ans[r.topic]
      BY <1>3, <1>7, <2>2, <3>1, <3>2 DEF CallerOK
    <3>4. CallerOK(r)'
      BY <3>2, <3>3 DEF CallerOK
    <3> QED  BY <1>1, <2>2, <3>1, <3>4
  <2> QED  BY <2>1, <2>2
<1>9. \A t \in Topics \ crossed' : AnswerOwned(ans'[t], t)
  BY <1>3 DEF RequestsOK
<1>10. SectionsKept
  <2> SUFFICES ASSUME NEW d \in Callers, call[d].kind \in {"continue", "regenerate"},
                      call'[d].kind = "none",
                      call[d].kind = "continue"
                         \/ (call[d].want # {} /\ ~ans'[call[d].topic].failed),
                      NEW s \in Nested \ call[d].want
               PROVE  ans'[call[d].topic].nest[s] = ans[call[d].topic].nest[s]
    BY DEF SectionsKept
  <2>1. d = c
    BY <1>1
  <2> QED  BY <1>3, <2>1
<1> QED  BY <1>4, <1>6, <1>8, <1>9, <1>10 DEF RequestsOK

\* The end of a turn: the session's new answer, what of it is its own, and what
\* it keeps of the answer before.
LEMMA FinishEnds ==
  ASSUME RequestsOK, NEW c \in Callers, NEW q \in Caller, q = call[c], q.at # "idle",
         crossed \subseteq crossed',
         NEW pay \in Payload, NEW failed \in BOOLEAN, Finish(c, pay, failed),
         q.topic \in crossed' \/ Owned(pay, q.topic),
         q.kind = "regenerate" /\ q.want # {} /\ ~failed =>
            \A s \in Nested \ q.want : pay[s] = q.prior[s]
  PROVE  RequestsOK' /\ SectionsKept
<1> DEFINE kept == Structured(q, pay)
           told == Text(q, pay)
           nest == IF q.kind = "continue" THEN Merged(q.prior, kept, q.want) ELSE kept
           missing == IF q.kind = "turn" THEN Missing(q, pay) ELSE {}
           mem == IF Teacher \in ModulesToRun(q.topic, q.want) \/ pay[Teacher] # Nobody
                  THEN told ELSE ans[q.topic].mem
           a == [text |-> told, nest |-> nest, missing |-> missing, failed |-> failed,
                 mem |-> mem]
<1>1. /\ CallerOK(q) /\ q.topic \in Topics /\ q.prior \in Payload
      /\ q.kind = "continue" => q.want # {}
      /\ q.kind \in {"continue", "regenerate"} => q.prior = ans[q.topic].nest
      /\ q.topic \notin crossed => Owned(q.prior, q.topic)
  BY DEF RequestsOK, CallerOK, Caller
<1>2. ans[q.topic] \in Answer /\ (q.topic \notin LessonTopics => ans[q.topic].nest = Empty)
  BY <1>1 DEF RequestsOK, RequestsTyped
<1>3. q.topic \notin crossed => AnswerOwned(ans[q.topic], q.topic)
  BY <1>1 DEF RequestsOK
<1>4. ans' = [ans EXCEPT ![q.topic] = a] /\ call' = [call EXCEPT ![c] = Free]
  BY <1>1 DEF Finish, RequestsOK, RequestsTyped
<1>5. /\ kept \in Payload /\ (q.topic \notin LessonTopics => kept = Empty)
      /\ Owned(pay, q.topic) => Owned(kept, q.topic)
      /\ q.topic \in LessonTopics => \A s \in Nested : kept[s] = pay[s]
  BY StructuredIsPayload
<1>6. told \in Topics \cup {Nobody} /\ (Owned(pay, q.topic) => told \in {Nobody, q.topic})
  BY <1>1 DEF Text, Payload, Owned, Sections, Tops
<1>7. missing \in SUBSET Tops
  BY DEF Missing, ModulesToRun, Tops
<1>8. mem \in Topics \cup {Nobody}
  BY <1>2, <1>6 DEF Answer
<1> HIDE DEF kept
<1>9. /\ nest \in Payload
      /\ Owned(q.prior, q.topic) /\ Owned(pay, q.topic) => Owned(nest, q.topic)
      /\ q.kind = "continue" => \A s \in Sections \ q.want : nest[s] = q.prior[s]
  BY <1>1, <1>5, MergedIsPayload
<1>10. q.topic \notin LessonTopics => nest = Empty
  <2>1. CASE q.kind = "continue" /\ q.topic \notin LessonTopics
    <3>1. q.prior = Empty /\ kept = Empty
      BY <1>1, <1>2, <1>5, <2>1
    <3>2. Merged(Empty, Empty, q.want) = Empty
      BY DEF Merged, Empty
    <3> QED  BY <2>1, <3>1, <3>2
  <2>2. CASE q.kind # "continue"
    BY <1>5, <2>2
  <2> QED  BY <2>1, <2>2
<1> HIDE DEF told, missing, mem, nest
<1>11. a \in Answer
  BY <1>6, <1>7, <1>8, <1>9 DEF Answer
<1>12. q.topic \in crossed' \/ AnswerOwned(a, q.topic)
  <2> SUFFICES ASSUME q.topic \notin crossed'  PROVE AnswerOwned(a, q.topic)
    OBVIOUS
  <2>1. Owned(pay, q.topic) /\ q.topic \notin crossed
    OBVIOUS
  <2>2. Owned(nest, q.topic) /\ told \in {Nobody, q.topic}
    BY <1>1, <1>6, <1>9, <2>1
  <2>3. mem \in {Nobody, q.topic}
    BY <1>3, <2>1, <2>2 DEF mem, AnswerOwned
  <2> QED  BY <2>2, <2>3 DEF AnswerOwned
<1>13. \A s \in Nested : s \in Sections
  BY DEF Sections
<1>14. q.kind = "continue" \/ (q.kind = "regenerate" /\ q.want # {} /\ ~a.failed) =>
          \A s \in Nested \ q.want : a.nest[s] = ans[q.topic].nest[s]
  <2>1. CASE q.kind = "continue"
    BY <1>1, <1>9, <1>13, <2>1
  <2>2. CASE q.kind = "regenerate" /\ q.topic \in LessonTopics
    BY <1>1, <1>5, <2>2 DEF nest
  <2>3. CASE q.topic \notin LessonTopics
    BY <1>2, <1>10, <2>3
  <2> QED  BY <2>1, <2>2, <2>3
<1>15. a.nest = nest
  OBVIOUS
<1>16. q.topic \notin LessonTopics => a.nest = Empty
  BY <1>10, <1>15
<1> HIDE DEF a
<1> QED  BY <1>4, <1>11, <1>12, <1>14, <1>16, CallEnds

-------------------------------------------------------------------------------
(* A request starts *)

LEMMA AskStarts ==
  ASSUME RequestsOK, NEW c \in Callers, NEW kind \in Kinds \ {"none"}, NEW t \in Topics,
         NEW want \in SUBSET Sections, NEW named \in BOOLEAN, NEW prior \in Payload,
         kind \in {"continue", "regenerate"} => prior = ans[t].nest,
         kind = "continue" => want # {},
         t \notin crossed => Owned(prior, t),
         Ask(c, kind, t, want, named, prior)
  PROVE  RequestsOK' /\ SectionsKept
<1> DEFINE turn == kind = "turn"
           m == [Free EXCEPT !.at = "lookup", !.kind = kind, !.topic = t, !.want = want,
                             !.named = named, !.prior = prior, !.streamed = turn]
<1>1. call' = [call EXCEPT ![c] = m] /\ ans' = ans /\ crossed' = crossed
      /\ call[c].at = "idle" /\ \A d \in Callers : call[d].topic # t
  BY DEF Ask
<1>2. turn \in BOOLEAN
  OBVIOUS
<1> HIDE DEF turn
<1>3. PICK f \in Caller : f = Free
  BY FreeIsCaller
<1>4. m = [f EXCEPT !.at = "lookup", !.kind = kind, !.topic = t, !.want = want,
                    !.named = named, !.prior = prior, !.streamed = turn]
  BY <1>3
<1> HIDE DEF m
<1>5. /\ m \in Caller
      /\ m.at = "lookup" /\ m.kind = kind /\ m.topic = t /\ m.want = want /\ m.prior = prior
  BY <1>2, <1>4 DEF Caller
<1>6. call'[c] = m /\ \A d \in Callers \ {c} : call'[d] = call[d]
  BY <1>1 DEF RequestsOK, RequestsTyped
<1>7. RequestsTyped'
  BY <1>1, <1>5 DEF RequestsOK, RequestsTyped
<1>8. Alone'
  BY <1>1, <1>5, <1>6 DEF RequestsOK, Alone
<1>9. \A d \in Callers : CallerOK(call[d])'
  <2> TAKE d \in Callers
  <2>1. CASE d = c
    <3>1. CallerOK(m)'
      BY <1>1, <1>5 DEF CallerOK
    <3> QED  BY <1>6, <2>1, <3>1
  <2>2. CASE d # c
    <3>1. PICK q : q = call[d]
      OBVIOUS
    <3>2. CallerOK(q)'
      BY <1>1, <3>1 DEF CallerOK, RequestsOK
    <3> QED  BY <1>6, <2>2, <3>1, <3>2
  <2> QED  BY <2>1, <2>2
<1>10. \A x \in Topics \ crossed' : AnswerOwned(ans'[x], x)
  BY <1>1 DEF RequestsOK
<1>11. \A d \in Callers : call'[d].kind = "none" => call'[d] = call[d] /\ ans' = ans
  BY <1>1, <1>5, <1>6
<1>12. SectionsKept
  BY <1>11 DEF SectionsKept
<1> QED  BY <1>7, <1>8, <1>9, <1>10, <1>12 DEF RequestsOK

LEMMA RememberedIsPayload ==
  ASSUME RequestsOK, NEW t \in Topics
  PROVE  /\ Remembered(t) \in Payload
         /\ t \notin crossed => Owned(Remembered(t), t)
<1>1. ans[t] \in Answer /\ (t \notin crossed => ans[t].mem \in {Nobody, t})
  BY DEF RequestsOK, RequestsTyped, AnswerOwned
<1>2. ans[t].mem \in Topics \cup {Nobody}
  BY <1>1 DEF Answer
<1> QED  BY <1>1, <1>2 DEF Remembered, Empty, Payload, Owned

\* Every way to ask.
LEMMA AskKeeps ==
  ASSUME Inv, NEW c \in Callers, NEW t \in Topics,
         \/ Analyze(c, t) \/ Retry(c, t) \/ Continue(c, t)
         \/ \E want \in Wants :
               \/ Regenerate(c, t, want)
               \/ \E named \in BOOLEAN : ChatTurn(c, t, want, named)
  PROVE  Inv' /\ SectionsKept
<1>1. RequestsOK /\ Counted /\ StoreTyped /\ StoreClean
  BY DEF Inv
<1>2. PICK p \in Payload : p = Remembered(t)
  BY <1>1, RememberedIsPayload
<1>3. t \notin crossed => Owned(p, t)
  BY <1>1, <1>2, RememberedIsPayload
<1>4. ans[t] \in Answer /\ (t \notin crossed => Owned(ans[t].nest, t))
  BY <1>1 DEF RequestsOK, RequestsTyped, AnswerOwned
<1>5. PICK n \in Payload : n = ans[t].nest
  BY <1>4 DEF Answer
<1>6. \A want \in Wants : want \in SUBSET Sections
  BY WantsAssumption DEF Sections, Tops
<1>7. {"analyze", "turn", "regenerate", "continue"} \subseteq Kinds \ {"none"}
  BY DEF Kinds
<1> DEFINE Asked == /\ RequestsOK' /\ SectionsKept
                    /\ calls' = calls + 1 /\ calls < MaxCalls
                    /\ UNCHANGED <<store, now, crossed, stale>>
<1>8. Asked
  <2>1. CASE Analyze(c, t) \/ Retry(c, t)
    <3>1. Ask(c, "analyze", t, {}, TRUE, p)
      BY <1>2, <2>1 DEF Analyze, Retry
    <3>2. TRUE \in BOOLEAN /\ {} \in SUBSET Sections
      OBVIOUS
    <3>3. RequestsOK' /\ SectionsKept
      BY <1>1, <1>3, <1>7, <3>1, <3>2, AskStarts
    <3> QED  BY <3>1, <3>3 DEF Ask
  <2>2. CASE Continue(c, t)
    <3>1. PICK w \in SUBSET Sections : w = ans[t].missing
      BY <1>4 DEF Answer, Sections
    <3>2. w # {} /\ Ask(c, "continue", t, w, FALSE, n)
      BY <1>5, <2>2, <3>1 DEF Continue
    <3>3. FALSE \in BOOLEAN
      OBVIOUS
    <3>4. RequestsOK' /\ SectionsKept
      BY <1>1, <1>4, <1>5, <1>7, <3>2, <3>3, AskStarts
    <3> QED  BY <3>2, <3>4 DEF Ask
  <2>3. ASSUME NEW want \in Wants, Regenerate(c, t, want)
        PROVE  Asked
    <3>1. Ask(c, "regenerate", t, want, TRUE, n)
      BY <1>5, <2>3 DEF Regenerate
    <3>2. TRUE \in BOOLEAN
      OBVIOUS
    <3>3. RequestsOK' /\ SectionsKept
      BY <1>1, <1>4, <1>5, <1>6, <1>7, <3>1, <3>2, AskStarts
    <3> QED  BY <3>1, <3>3 DEF Ask
  <2>4. ASSUME NEW want \in Wants, NEW named \in BOOLEAN, ChatTurn(c, t, want, named)
        PROVE  Asked
    <3>1. Ask(c, "turn", t, want, named, p)
      BY <1>2, <2>4 DEF ChatTurn
    <3>2. RequestsOK' /\ SectionsKept
      BY <1>1, <1>3, <1>6, <1>7, <3>1, AskStarts
    <3> QED  BY <3>1, <3>2 DEF Ask
  <2> QED  BY <2>1, <2>2, <2>3, <2>4
<1>9. Counted' /\ StoreTyped' /\ StoreClean'
  BY <1>1, <1>8, LimitsAssumption DEF Counted, StoreTyped, StoreClean
<1> QED  BY <1>8, <1>9 DEF Inv

-------------------------------------------------------------------------------
(* The OpenRouter client *)

LEMMA NoAnswerEnds ==
  ASSUME RequestsOK, NEW c \in Callers, call[c].at # "idle", crossed' = crossed, NoAnswer(c)
  PROVE  RequestsOK' /\ SectionsKept
<1>1. PICK q \in Caller : q = call[c]
  BY DEF RequestsOK, RequestsTyped
<1>2. q.at # "idle" /\ CallerOK(q)
  BY <1>1 DEF RequestsOK
<1>3. CASE q.kind = "turn"
  <2>1. q.topic \in Topics
    BY <1>2 DEF CallerOK
  <2>2. PICK a \in Answer : a = ans[q.topic]
    BY <2>1 DEF RequestsOK, RequestsTyped
  <2>3. call' = [call EXCEPT ![c] = Free] /\ ans' = ans
    BY <1>1, <1>3 DEF NoAnswer
  <2>4. ans' = [ans EXCEPT ![q.topic] = a]
    BY <2>1, <2>2, <2>3 DEF RequestsOK, RequestsTyped
  <2>5. q.topic \notin LessonTopics => a.nest = Empty
    BY <2>1, <2>2 DEF RequestsOK, RequestsTyped
  <2>6. q.topic \in crossed' \/ AnswerOwned(a, q.topic)
    BY <2>1, <2>2 DEF RequestsOK
  <2>7. /\ crossed \subseteq crossed'
        /\ ~(q.kind = "continue" \/ (q.kind = "regenerate" /\ q.want # {} /\ ~a.failed))
    BY <1>3
  <2> QED  BY <1>1, <1>2, <2>3, <2>4, <2>5, <2>6, <2>7, CallEnds
<1>4. CASE q.kind # "turn"
  <2>1. Finish(c, Empty, TRUE)
    BY <1>1, <1>4 DEF NoAnswer
  <2>2. Empty \in Payload /\ Owned(Empty, q.topic) /\ TRUE \in BOOLEAN
    BY EmptyIsPayload
  <2> QED  BY <1>1, <1>2, <2>1, <2>2, FinishEnds
<1> QED  BY <1>3, <1>4

\* What a request that goes on keeps of it.
SameRequest(m, q) ==
  /\ m \in Caller /\ m.at = q.at /\ m.kind = q.kind /\ m.topic = q.topic
  /\ m.want = q.want /\ m.prior = q.prior

\* Another attempt, another model or another validation.
LEMMA AgainMoves ==
  ASSUME RequestsOK, NEW c \in Callers, NEW q, q = call[c], q.at # "idle",
         NEW m, SameRequest(m, q),
         call' = [call EXCEPT ![c] = m], ans' = ans, crossed' = crossed
  PROVE  RequestsOK' /\ SectionsKept
BY CallMoves DEF SameRequest

LEMMA RejectedKeeps ==
  ASSUME RequestsOK, NEW c \in Callers, call[c].at # "idle", crossed' = crossed, Rejected(c)
  PROVE  RequestsOK' /\ SectionsKept
<1>1. PICK q \in Caller : q = call[c]
  BY DEF RequestsOK, RequestsTyped
<1>2. CASE q.json < MaxJson
  <2>1. q.json \in 0..MaxJson
    BY DEF Caller
  <2>2. PICK json \in 0..MaxJson : json = q.json + 1
    BY <1>2, <2>1, LimitsAssumption
  <2>3. 1 \in 1..2 /\ 0 \in 0..MaxHttp
    BY LimitsAssumption
  <2>4. FALSE \in BOOLEAN
    OBVIOUS
  <2> DEFINE m == [q EXCEPT !.model = 1, !.tries = 0, !.json = json, !.streamed = FALSE]
  <2>5. /\ call' = [call EXCEPT ![c].json = @ + 1, ![c].model = 1, ![c].tries = 0,
                                ![c].streamed = FALSE]
        /\ ans' = ans
    BY <1>1, <1>2 DEF Rejected
  <2>6. \A f \in [Callers -> Caller] : f[c] = q =>
            [f EXCEPT ![c].json = @ + 1, ![c].model = 1, ![c].tries = 0,
                      ![c].streamed = FALSE] = [f EXCEPT ![c] = m]
    <3> TAKE f \in [Callers -> Caller]
    <3> HAVE f[c] = q
    <3> DEFINE g == [f EXCEPT ![c].json = @ + 1, ![c].model = 1]
               h == [g EXCEPT ![c].tries = 0, ![c].streamed = FALSE]
               n == [q EXCEPT !.json = json, !.model = 1]
    <3>1. g = [f EXCEPT ![c] = n]
      BY <2>2
    <3>2. n \in Caller
      BY <2>3 DEF Caller
    <3> HIDE DEF g, n
    <3>3. g \in [Callers -> Caller] /\ g[c] = n
      BY <3>1, <3>2
    <3>4. h = [g EXCEPT ![c] = [n EXCEPT !.tries = 0, !.streamed = FALSE]]
      BY <3>3
    <3>5. [n EXCEPT !.tries = 0, !.streamed = FALSE] = m
      BY <3>2 DEF n, Caller
    <3> HIDE DEF m
    <3>6. h = [f EXCEPT ![c] = m]
      BY <3>1, <3>4, <3>5
    <3> QED  BY <3>6 DEF g
  <2>7. call' = [call EXCEPT ![c] = m]
    BY <1>1, <2>5, <2>6 DEF RequestsOK, RequestsTyped
  <2> HIDE DEF m
  <2>8. SameRequest(m, q)
    BY <2>3, <2>4 DEF m, SameRequest, Caller
  <2>9. q.at # "idle"
    BY <1>1
  <2> QED  BY <1>1, <2>5, <2>7, <2>8, <2>9, AgainMoves
<1>3. CASE ~(q.json < MaxJson)
  BY <1>1, <1>3, NoAnswerEnds DEF Rejected
<1> QED  BY <1>2, <1>3

LEMMA GiveUpKeeps ==
  ASSUME RequestsOK, NEW c \in Callers, call[c].at # "idle", crossed' = crossed, GiveUp(c)
  PROVE  RequestsOK' /\ SectionsKept
<1>1. PICK q \in Caller : q = call[c]
  BY DEF RequestsOK, RequestsTyped
<1>2. CASE ~q.streamed /\ q.model < Models
  <2>1. q.model \in 1..2
    BY DEF Caller
  <2>2. PICK model \in 1..2 : model = q.model + 1
    BY <1>2, <2>1, LimitsAssumption
  <2>3. 0 \in 0..MaxHttp
    BY LimitsAssumption
  <2>5. call' = [call EXCEPT ![c] = [q EXCEPT !.model = model, !.tries = 0]] /\ ans' = ans
    BY <1>1, <1>2, <2>2 DEF GiveUp, RequestsOK, RequestsTyped, Caller
  <2>7. PICK m : m = [q EXCEPT !.model = model, !.tries = 0]
    OBVIOUS
  <2>8. call' = [call EXCEPT ![c] = m] /\ ans' = ans /\ q.at # "idle"
    BY <1>1, <2>5, <2>7
  <2>9. SameRequest(m, q)
    BY <2>3, <2>7 DEF SameRequest, Caller
  <2> QED  BY <1>1, <2>8, <2>9, AgainMoves
<1>3. CASE ~(~q.streamed /\ q.model < Models)
  BY <1>1, <1>3, NoAnswerEnds DEF GiveUp
<1> QED  BY <1>2, <1>3

\* A failed attempt, whatever comes of it.
LEMMA FailureKeeps ==
  ASSUME RequestsOK, NEW c \in Callers, Temporary(c) \/ Refused(c) \/ Invalid(c)
  PROVE  RequestsOK' /\ SectionsKept /\ UNCHANGED <<store, now, calls, crossed, stale>>
<1>1. call[c].at # "idle" /\ UNCHANGED <<store, now, calls, crossed, stale>>
  BY DEF Temporary, Refused, Invalid
<1>2. PICK q \in Caller : q = call[c]
  BY DEF RequestsOK, RequestsTyped
<1>3. \/ GiveUp(c) \/ Rejected(c)
      \/ /\ ~(q.streamed \/ q.tries >= MaxHttp)
         /\ call' = [call EXCEPT ![c].tries = @ + 1] /\ ans' = ans
  BY <1>2 DEF Temporary, Refused, Invalid
<1>4. CASE /\ ~(q.streamed \/ q.tries >= MaxHttp)
           /\ call' = [call EXCEPT ![c].tries = @ + 1] /\ ans' = ans
  <2>1. q.tries \in 0..MaxHttp
    BY DEF Caller
  <2>2. PICK tries \in 0..MaxHttp : tries = q.tries + 1
    BY <1>4, <2>1, LimitsAssumption
  <2>3. PICK m : m = [q EXCEPT !.tries = tries]
    OBVIOUS
  <2>4. call' = [call EXCEPT ![c] = m] /\ q.at # "idle"
    BY <1>1, <1>2, <1>4, <2>2, <2>3 DEF RequestsOK, RequestsTyped, Caller
  <2>5. SameRequest(m, q)
    BY <2>3 DEF SameRequest, Caller
  <2>6. RequestsOK' /\ SectionsKept
    BY <1>1, <1>2, <1>4, <2>4, <2>5, AgainMoves
  <2> QED  BY <1>1, <2>6
<1> QED  BY <1>1, <1>3, <1>4, GiveUpKeeps, RejectedKeeps

-------------------------------------------------------------------------------
(* The cache's answers and the model's *)

LEMMA LookUpKeeps ==
  ASSUME Inv, NEW c \in Callers, LookUp(c)
  PROVE  Inv' /\ SectionsKept
<1>1. RequestsOK /\ Counted /\ StoreTyped /\ StoreClean
  BY DEF Inv
<1>2. PICK q \in Caller : q = call[c]
  BY <1>1 DEF RequestsOK, RequestsTyped
<1>3. q.at = "lookup" /\ now' = now /\ calls' = calls
  BY <1>2 DEF LookUp
<1>4. /\ q.topic \in Topics /\ q.prior \in Payload
      /\ q.topic \notin crossed => Owned(q.prior, q.topic)
  BY <1>1, <1>2, <1>3 DEF RequestsOK, CallerOK, Caller
<1>5. PICK k \in Keys : k = CacheKey(q)
  BY <1>4, KeyOfRequest
<1>6. k[1] = "topic" => k = <<"topic", q.topic>>
  BY <1>4, <1>5, KeyOfRequest
<1>7. CASE Hit(k)
  <2>1. k \in DOMAIN store /\ now < store[k].until /\ EntryOK(store[k]) /\ store[k].born <= now
    BY <1>1, <1>7 DEF Hit, StoreTyped
  <2>2. PICK e : e = store[k]
    OBVIOUS
  <2>3. e.pay \in Payload /\ e.born \in 0..MaxNow /\ now < e.born + Ttl /\ e.born <= now
    BY <2>1, <2>2 DEF EntryOK
  <2>4. PICK pay \in Payload : pay = Served(q, e.pay)
    BY <1>4, <2>3, ServedIsPayload
  <2>5. /\ Finish(c, pay, FALSE) /\ store' = store
        /\ crossed' = IF k[1] = "topic" THEN crossed ELSE crossed \cup {q.topic}
        /\ stale' = IF now - e.born > stale THEN now - e.born ELSE stale
    BY <1>2, <1>5, <1>7, <2>2, <2>4 DEF LookUp
  <2>6. crossed \subseteq crossed' /\ crossed' \subseteq Topics
    BY <1>1, <1>4, <2>5 DEF Counted
  <2>7. q.topic \in crossed' \/ Owned(pay, q.topic)
    <3> SUFFICES ASSUME q.topic \notin crossed'  PROVE Owned(pay, q.topic)
      OBVIOUS
    <3>1. k = <<"topic", q.topic>> /\ q.topic \notin crossed
      BY <1>6, <2>5, <2>6
    <3>2. Owned(e.pay, q.topic)
      BY <1>1, <1>4, <2>1, <2>2, <3>1 DEF StoreClean
    <3> QED  BY <1>4, <2>3, <2>4, <3>1, <3>2, ServedIsPayload
  <2>8. q.kind = "regenerate" /\ q.want # {} => \A s \in Nested \ q.want : pay[s] = q.prior[s]
    <3>1. \A s \in Nested : s \in Sections
      BY DEF Sections
    <3>2. q.kind = "regenerate" => HasPrior(q)
      BY DEF HasPrior
    <3> QED  BY <1>4, <2>3, <2>4, <3>1, <3>2, ServedIsPayload
  <2>9. RequestsOK' /\ SectionsKept
    <3>1. q.at # "idle" /\ FALSE \in BOOLEAN
      BY <1>3
    <3> QED  BY <1>1, <1>2, <2>5, <2>6, <2>7, <2>8, <3>1, FinishEnds
  <2>10. stale' \in Nat /\ stale' < Ttl
    BY <1>1, <2>3, <2>5, LimitsAssumption DEF Counted
  <2>11. Counted' /\ StoreTyped' /\ StoreClean'
    BY <1>1, <1>3, <2>5, <2>6, <2>10 DEF Counted, StoreTyped, StoreClean
  <2> QED  BY <2>9, <2>11 DEF Inv
<1>8. CASE ~Hit(k)
  <2>1. /\ store' = [x \in DOMAIN store \ {k} |-> store[x]]
        /\ call' = [call EXCEPT ![c].at = "call"] /\ UNCHANGED <<ans, crossed, stale>>
    BY <1>2, <1>5, <1>8 DEF LookUp
  <2>2. PICK m : m = [q EXCEPT !.at = "call"]
    OBVIOUS
  <2>3. call' = [call EXCEPT ![c] = m]
    BY <1>1, <1>2, <2>1, <2>2 DEF RequestsOK, RequestsTyped
  <2>4. /\ m \in Caller /\ m.at # "idle" /\ m.kind = q.kind /\ m.topic = q.topic
        /\ m.want = q.want /\ m.prior = q.prior
    BY <2>2 DEF Caller
  <2>5. RequestsOK' /\ SectionsKept
    BY <1>1, <1>2, <1>3, <2>1, <2>3, <2>4, CallMoves
  <2>6. StoreTyped' /\ StoreClean'
    BY <1>1, <1>3, <2>1, DropKeeps
  <2>7. Counted'
    BY <1>1, <1>3, <2>1 DEF Counted
  <2> QED  BY <2>5, <2>6, <2>7 DEF Inv
<1> QED  BY <1>7, <1>8

LEMMA DeliveredKeeps ==
  ASSUME Inv, NEW c \in Callers, NEW nested \in SUBSET Nested, NEW bare \in BOOLEAN,
         Delivered(c, nested, bare)
  PROVE  Inv' /\ SectionsKept
<1>1. RequestsOK /\ Counted /\ StoreTyped /\ StoreClean
  BY DEF Inv
<1>2. PICK q \in Caller : q = call[c]
  BY <1>1 DEF RequestsOK, RequestsTyped
<1>3. q.at = "call" /\ UNCHANGED <<now, calls, crossed, stale>>
  BY <1>2 DEF Delivered
<1>4. /\ q.topic \in Topics /\ q.prior \in Payload
      /\ q.topic \notin crossed => Owned(q.prior, q.topic)
  BY <1>1, <1>2, <1>3 DEF RequestsOK, CallerOK, Caller
<1>5. Counted'
  BY <1>1, <1>3 DEF Counted
<1>6. CASE LooksEmpty(q, nested, bare)
  <2>1. Rejected(c) /\ store' = store
    BY <1>2, <1>6 DEF Delivered
  <2>2. RequestsOK' /\ SectionsKept
    BY <1>1, <1>2, <1>3, <2>1, RejectedKeeps
  <2>3. StoreTyped' /\ StoreClean'
    BY <1>1, <1>3, <2>1 DEF StoreTyped, StoreClean
  <2> QED  BY <1>5, <2>2, <2>3 DEF Inv
<1>7. CASE ~LooksEmpty(q, nested, bare)
  <2>1. PICK pay \in Payload : pay = About(q.topic, nested)
    BY <1>4, AboutIsOwned
  <2>2. Owned(pay, q.topic)
    BY <1>4, <2>1, AboutIsOwned
  <2>3. PICK cut \in Payload : cut = Filtered(pay, q.want)
    BY FilteredIsPayload
  <2>4. Owned(cut, q.topic)
    BY <2>2, <2>3, FilteredIsPayload
  <2>5. PICK merged \in Payload : merged = Merged(q.prior, cut, q.want)
    BY <1>4, MergedIsPayload
  <2>6. /\ q.topic \in crossed \/ Owned(merged, q.topic)
        /\ q.want # {} => \A s \in Sections \ q.want : merged[s] = q.prior[s]
    BY <1>4, <2>4, <2>5, MergedIsPayload
  <2>7. PICK kept \in {merged, pay} : Finish(c, merged, FALSE) /\ Put(CacheKey(q), kept)
    BY <1>2, <1>7, <2>1, <2>3, <2>5 DEF Delivered
  <2>8. PICK k \in Keys : k = CacheKey(q)
    BY <1>4, KeyOfRequest
  <2>9. k[1] = "topic" => k = <<"topic", q.topic>>
    BY <1>4, <2>8, KeyOfRequest
  <2>10. RequestsOK' /\ SectionsKept
    <3>1. \A s \in Nested : s \in Sections
      BY DEF Sections
    <3>2. q.at # "idle" /\ FALSE \in BOOLEAN /\ crossed \subseteq crossed'
      BY <1>3
    <3>3. q.topic \in crossed' \/ Owned(merged, q.topic)
      BY <1>3, <2>6
    <3>4. q.kind = "regenerate" /\ q.want # {} =>
             \A s \in Nested \ q.want : merged[s] = q.prior[s]
      BY <2>6, <3>1
    <3> QED  BY <1>1, <1>2, <2>7, <3>2, <3>3, <3>4, FinishEnds
  <2>11. /\ StoreTyped' /\ k \in DOMAIN store' /\ store'[k].pay = kept
         /\ \A x \in DOMAIN store' : x = k \/ (x \in DOMAIN store /\ store'[x] = store[x])
    <3>1. kept \in Payload /\ Put(k, kept) /\ now' = now
      BY <1>3, <2>7, <2>8
    <3> QED  BY <1>1, <3>1, PutKeeps
  <2>12. StoreClean'
    <3> SUFFICES ASSUME NEW t \in Topics \ crossed, <<"topic", t>> \in DOMAIN store'
                 PROVE  Owned(store'[<<"topic", t>>].pay, t)
      BY <1>3 DEF StoreClean
    <3>1. CASE <<"topic", t>> = k
      <4>1. t = q.topic
        BY <2>9, <3>1
      <4>2. Owned(kept, t)
        BY <2>2, <2>6, <2>7, <4>1
      <4> QED  BY <2>11, <3>1, <4>2
    <3>2. CASE <<"topic", t>> # k
      BY <1>1, <2>11, <3>2 DEF StoreClean
    <3> QED  BY <3>1, <3>2
  <2> QED  BY <1>5, <2>10, <2>11, <2>12 DEF Inv
<1> QED  BY <1>6, <1>7

-------------------------------------------------------------------------------
(* The invariant holds of every behaviour *)

LEMMA InitOK == Init => Inv
<1> SUFFICES ASSUME Init  PROVE Inv
  OBVIOUS
<1>1. Counted
  <2>1. 0 \in 0..MaxNow /\ 0 \in 0..MaxCalls /\ 0 \in Nat /\ 0 < Ttl
    BY LimitsAssumption
  <2> QED  BY <2>1 DEF Init, Counted
<1>2. DOMAIN store = {} /\ IsFiniteSet({}) /\ Cardinality({}) = 0
  BY FS_EmptySet DEF Init
<1>3. StoreTyped /\ StoreClean
  BY <1>2, LimitsAssumption DEF StoreTyped, StoreClean
<1>4. RequestsOK
  <2>1. call \in [Callers -> Caller] /\ \A c \in Callers : call[c] = Free
    BY FreeIsCaller DEF Init
  <2>2. Alone /\ \A c \in Callers : CallerOK(call[c])
    <3>1. Free.at = "idle" /\ Free.topic = Nobody
      BY DEF Free
    <3> QED  BY <2>1, <3>1 DEF Alone, CallerOK
  <2> DEFINE none == [text |-> Nobody, nest |-> Empty, missing |-> {}, failed |-> FALSE,
                      mem |-> Nobody]
  <2>3. ans = [t \in Topics |-> none]
    BY DEF Init
  <2>4. none \in Answer /\ none.nest = Empty
    <3>1. FALSE \in BOOLEAN /\ {} \in SUBSET Tops /\ Nobody \in Topics \cup {Nobody}
      OBVIOUS
    <3> QED  BY <3>1, EmptyIsPayload DEF Answer
  <2>5. \A t : AnswerOwned(none, t)
    BY EmptyIsPayload DEF AnswerOwned
  <2> HIDE DEF none
  <2> QED  BY <2>1, <2>2, <2>3, <2>4, <2>5 DEF RequestsOK, RequestsTyped
<1> QED  BY <1>1, <1>3, <1>4 DEF Inv

LEMMA StutterKeeps == Inv /\ UNCHANGED vars => Inv' /\ SectionsKept
<1> SUFFICES ASSUME Inv, UNCHANGED vars  PROVE Inv' /\ SectionsKept
  OBVIOUS
<1>1. UNCHANGED <<store, call, ans, now, calls, crossed, stale>>
  BY DEF vars
<1>2. Counted' /\ StoreTyped' /\ StoreClean'
  BY <1>1 DEF Inv, Counted, StoreTyped, StoreClean
<1>3. RequestsOK'
  BY <1>1 DEF Inv, RequestsOK, RequestsTyped, Alone, CallerOK
<1>4. SectionsKept
  BY <1>1 DEF SectionsKept
<1> QED  BY <1>2, <1>3, <1>4 DEF Inv

LEMMA TickKeeps == Inv /\ Tick => Inv' /\ SectionsKept
<1> SUFFICES ASSUME Inv, Tick  PROVE Inv' /\ SectionsKept
  OBVIOUS
<1>1. now < MaxNow /\ now' = now + 1 /\ UNCHANGED <<store, call, ans, calls, crossed, stale>>
  BY DEF Tick
<1>2. Counted'
  BY <1>1, LimitsAssumption DEF Inv, Counted
<1>3. \A k \in DOMAIN store : store[k].born <= now'
  <2>1. \A k \in DOMAIN store : store[k].born \in 0..MaxNow /\ store[k].born <= now
    BY DEF Inv, StoreTyped, EntryOK
  <2> QED  BY <1>1, <2>1 DEF Inv, Counted
<1>4. StoreTyped' /\ StoreClean'
  BY <1>1, <1>3 DEF Inv, StoreTyped, EntryOK, StoreClean
<1>5. RequestsOK'
  BY <1>1 DEF Inv, RequestsOK, RequestsTyped, Alone, CallerOK
<1>6. SectionsKept
  BY <1>1 DEF SectionsKept
<1> QED  BY <1>2, <1>4, <1>5, <1>6 DEF Inv

LEMMA NextKeeps == Inv /\ [Next]_vars => Inv' /\ SectionsKept
<1> SUFFICES ASSUME Inv, [Next]_vars  PROVE Inv' /\ SectionsKept
  OBVIOUS
<1>1. ASSUME NEW c \in Callers, NEW t \in Topics,
             \/ Analyze(c, t) \/ Retry(c, t) \/ Continue(c, t)
             \/ \E want \in Wants :
                   \/ Regenerate(c, t, want)
                   \/ \E named \in BOOLEAN : ChatTurn(c, t, want, named)
      PROVE  Inv' /\ SectionsKept
  BY <1>1, AskKeeps
<1>2. ASSUME NEW c \in Callers, CallSteps(c)
      PROVE  Inv' /\ SectionsKept
  <2>1. CASE LookUp(c)
    BY <2>1, LookUpKeeps
  <2>2. CASE Temporary(c) \/ Refused(c) \/ Invalid(c)
    <3>1. RequestsOK' /\ SectionsKept /\ UNCHANGED <<store, now, calls, crossed, stale>>
      BY <2>2, FailureKeeps DEF Inv
    <3>2. Counted' /\ StoreTyped' /\ StoreClean'
      BY <3>1 DEF Inv, Counted, StoreTyped, StoreClean
    <3> QED  BY <3>1, <3>2 DEF Inv
  <2>3. ASSUME NEW nested \in SUBSET Nested, NEW bare \in BOOLEAN, Delivered(c, nested, bare)
        PROVE  Inv' /\ SectionsKept
    BY <2>3, DeliveredKeeps
  <2> QED  BY <1>2, <2>1, <2>2, <2>3 DEF CallSteps
<1> QED  BY <1>1, <1>2, TickKeeps, StutterKeeps DEF Next

LEMMA InvHolds == Spec => []Inv
<1>1. Inv /\ [Next]_vars => Inv'
  BY NextKeeps
<1> QED  BY InitOK, <1>1, PTL DEF Spec

-------------------------------------------------------------------------------
(* The theorems *)

\* The cache holds at most cache_max_entries entries, each a typed payload under
\* a key the services build and with its time to live (AsyncTTLCache); requests
\* and answers are typed, attempts and validations within their limits.
THEOREM TypeCorrect == Spec => []TypeOK
<1>1. Inv => TypeOK
  <2> SUFFICES ASSUME Inv  PROVE TypeOK
    OBVIOUS
  <2>1. \A k \in DOMAIN store :
           /\ store[k].pay \in Payload
           /\ store[k].born \in 0..MaxNow /\ store[k].until = store[k].born + Ttl
    BY DEF Inv, StoreTyped, EntryOK
  <2> QED  BY <2>1 DEF Inv, TypeOK, Counted, StoreTyped, RequestsOK, RequestsTyped
<1> QED  BY <1>1, InvHolds, PTL

\* Nothing is served from the cache past its time to live, and a session whose
\* requests were answered under keys that name its topic holds, in its latest
\* message, in its memory and in the cache, nothing about another topic: merges
\* of partial answers, regenerations and continues included.
THEOREM CacheSound == Spec => []CacheIsSound
<1>1. Inv => CacheIsSound
  BY DEF Inv, CacheIsSound, Counted, StoreClean, RequestsOK, AnswerOwned
<1> QED  BY <1>1, InvHolds, PTL

\* A continue, and a successful regeneration of some sections, never touch the
\* nested sections that were not asked for.
THEOREM OthersKept == Spec => OtherSectionsKept
<1>1. Inv /\ [Next]_vars => SectionsKept
  BY NextKeeps
<1>2. Spec => [][SectionsKept]_vars
  BY InvHolds, <1>1, PTL DEF Spec
<1> QED  BY <1>2 DEF OtherSectionsKept, SectionsKept
=============================================================================
