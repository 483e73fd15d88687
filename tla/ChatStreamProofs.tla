--------------------------- MODULE ChatStreamProofs ---------------------------
(* Proofs about ChatStream, for any finite set of requests and any bounds. *)
EXTENDS ChatStream, FiniteSetTheorems, WellFoundedInduction, TLAPS

-------------------------------------------------------------------------------
(* Finite sets of naturals have a maximum *)

HasMax(X) == \E m \in X : \A n \in X : m >= n

\* A finite, non-empty set of naturals has a greatest element: a smallest set
\* without one has one as soon as any of its elements is taken away.
LEMMA FiniteHasMax ==
  ASSUME NEW T \in SUBSET Nat, IsFiniteSet(T), T # {}
  PROVE  HasMax(T)
<1> DEFINE Bad == {X \in SUBSET T : X # {} /\ ~ HasMax(X)}
<1>1. SUFFICES ASSUME Bad # {} PROVE FALSE
  OBVIOUS
<1>2. Bad \subseteq FiniteSubsetsOf(T)
  BY FS_FiniteSubsetsOfFinite
<1>3. PICK X \in Bad : \A Y \in Bad : ~(<<Y, X>> \in StrictSubsetOrdering(T))
  BY <1>1, <1>2, FS_StrictSubsetOrderingWellFounded, WFMin
<1>4. PICK x \in X : x \in Nat
  BY <1>3
<1>5. X \ {x} \notin Bad
  <2>1. <<X \ {x}, X>> \in StrictSubsetOrdering(T)
    BY <1>3, <1>4 DEF StrictSubsetOrdering
  <2> QED  BY <2>1, <1>3
<1>6. CASE X = {x}
  BY <1>3, <1>4, <1>6 DEF HasMax
<1>7. CASE X # {x}
  <2>1. X \ {x} # {} /\ X \ {x} \in SUBSET T
    BY <1>3, <1>4, <1>7
  <2>2. PICK m \in X \ {x} : \A n \in X \ {x} : m >= n
    BY <1>5, <2>1 DEF HasMax
  <2>3. m \in Nat /\ X \in SUBSET Nat
    BY <1>3, <2>2
  <2>4. CASE m >= x
    BY <2>2, <2>3, <2>4, <1>3 DEF HasMax
  <2>5. CASE x >= m
    <3>1. \A n \in X : x >= n
      BY <2>2, <2>3, <2>5, <1>4
    <3> QED  BY <3>1, <1>3, <1>4 DEF HasMax
  <2> QED  BY <2>3, <2>4, <2>5, <1>4
<1> QED  BY <1>6, <1>7

\* Max of such a set is its greatest element.
LEMMA MaxIsGreatest ==
  ASSUME NEW T \in SUBSET Nat, IsFiniteSet(T), T # {}
  PROVE  Max(T) \in T /\ \A n \in T : n <= Max(T)
<1>1. PICK m \in T : \A n \in T : m >= n
  BY FiniteHasMax DEF HasMax
<1> QED  BY <1>1 DEF Max

\* The values of a function on a finite set are finitely many.
LEMMA ValuesAreFinite ==
  ASSUME NEW S, IsFiniteSet(S), NEW f
  PROVE  IsFiniteSet({f[x] : x \in S})
<1> DEFINE T == {f[x] : x \in S}
<1>1. PICK n \in Nat : ExistsSurjection(1..n, S)
  BY FS_NatSurjection
<1>2. PICK g \in Surjection(1..n, S) : TRUE
  BY <1>1 DEF ExistsSurjection
<1>3. [k \in 1..n |-> f[g[k]]] \in Surjection(1..n, T)
  BY <1>2 DEF Surjection
<1>4. ExistsSurjection(1..n, T)
  BY <1>3 DEF ExistsSurjection
<1>5. IsFiniteSet(T)
  <2> HIDE DEF T
  <2> QED  BY <1>4, FS_NatSurjection
<1> QED  BY <1>5

-------------------------------------------------------------------------------
(* The helpers *)

\* The messages that are left are finitely many, each with its time.
LEMMA LiveIsFinite ==
  ASSUME TypeOK
  PROVE  IsFiniteSet(Live) /\ Live \subseteq DOMAIN rows /\ \A i \in Live : rows[i].at \in Nat
<1>1. PICK n \in Nat : n = Len(rows)
  BY DEF TypeOK
<1>2. DOMAIN rows = 1..n /\ \A i \in 1..n : rows[i] \in Row
  BY <1>1 DEF TypeOK
<1>3. IsFiniteSet(1..n) /\ Live \subseteq 1..n
  BY <1>2, FS_Interval DEF Live
<1>4. IsFiniteSet(Live)
  BY <1>3, FS_Subset
<1> QED  BY <1>2, <1>3, <1>4 DEF Row

\* A transaction that opens now is later than every message left and every
\* transaction that is open.
LEMMA LaterIsLater ==
  ASSUME TypeOK
  PROVE  /\ Later \in Nat
         /\ \A i \in Live : rows[i].at < Later
         /\ \A r \in Reqs : req[r].txn < Later
<1> DEFINE at == [i \in Live |-> rows[i].at]
           txn == [r \in Reqs |-> req[r].txn]
           ats == {at[i] : i \in Live}
           txns == {txn[r] : r \in Reqs}
           T == ats \cup txns \cup {0}
<1>1. IsFiniteSet(ats)
  <2> HIDE DEF at
  <2> QED  BY LiveIsFinite, ValuesAreFinite
<1>2. IsFiniteSet(txns)
  <2> HIDE DEF txn
  <2> QED  BY ReqsAssumption, ValuesAreFinite
<1>3. IsFiniteSet(T)
  <2> HIDE DEF ats, txns
  <2> QED  BY <1>1, <1>2, FS_Union, FS_Singleton
<1>4. /\ \A i \in Live : rows[i].at \in ats /\ rows[i].at \in Nat
      /\ \A r \in Reqs : req[r].txn \in txns /\ req[r].txn \in Nat
  <2>1. ASSUME NEW i \in Live PROVE rows[i].at \in ats /\ rows[i].at \in Nat
    <3>1. rows[i].at = at[i]
      OBVIOUS
    <3> HIDE DEF at
    <3> QED  BY <3>1, LiveIsFinite
  <2>2. ASSUME NEW r \in Reqs PROVE req[r].txn \in txns /\ req[r].txn \in Nat
    <3>1. req[r] \in Request /\ req[r].txn = txn[r]
      BY DEF TypeOK
    <3> HIDE DEF txn
    <3> QED  BY <3>1 DEF Request
  <2> QED  BY <2>1, <2>2
<1>5. ats \subseteq Nat /\ txns \subseteq Nat
  BY <1>4
<1>6. Later = 1 + Max(T)
  BY DEF Later
<1> HIDE DEF ats, txns
<1>7. T \in SUBSET Nat /\ T # {} /\ ats \subseteq T /\ txns \subseteq T
  BY <1>5
<1> HIDE DEF T
<1>8. Max(T) \in Nat /\ \A n \in T : n <= Max(T)
  BY <1>3, <1>7, MaxIsGreatest
<1>9. \A n \in T : n < Later
  <2> HIDE DEF Later
  <2> QED  BY <1>6, <1>7, <1>8
<1> HIDE DEF Later
<1> QED  BY <1>4, <1>6, <1>7, <1>8, <1>9

\* The latest message is one of those left, and none of them is newer.
LEMMA LatestIsNewest ==
  ASSUME TypeOK
  PROVE  /\ Live = {} => Latest = 0
         /\ Live # {} => Latest \in Live /\ \A j \in Live : rows[j].at <= rows[Latest].at
<1>1. CASE Live = {}
  BY <1>1 DEF Latest
<1>2. CASE Live # {}
  <2> DEFINE at == [i \in Live |-> rows[i].at]
             T == {at[i] : i \in Live}
  <2>1. IsFiniteSet(T)
    <3> HIDE DEF at
    <3> QED  BY LiveIsFinite, ValuesAreFinite
  <2>2. \A i \in Live : at[i] = rows[i].at /\ at[i] \in Nat
    BY LiveIsFinite
  <2> HIDE DEF at
  <2>3. T \in SUBSET Nat /\ T # {}
    BY <1>2, <2>2
  <2>4. PICK m \in T : \A n \in T : n <= m
    BY <2>1, <2>3, MaxIsGreatest
  <2>5. PICK i \in Live : at[i] = m
    BY <2>4
  <2>6. \A j \in Live : rows[j].at <= rows[i].at
    BY <2>2, <2>4, <2>5
  <2>7. Latest = CHOOSE k \in Live : \A j \in Live : rows[j].at <= rows[k].at
    BY <1>2 DEF Latest
  <2> QED  BY <1>2, <2>6, <2>7
<1> QED  BY <1>1, <1>2

-------------------------------------------------------------------------------
(* The inductive invariant *)

\* The labels at which a request has not come to write messages yet.
Early == {"idle", "thinking", "planned", "preparing", "hit", "generating",
          "applying", "planning", "calling"}

\* A request that has begun has a kind, so that its end is one of the three.
KindOK(r) == ~At(r, "idle") => ~Is(r, "none")

\* None of the messages a stream remembers is its own, so a rollback spares
\* none of its own.
SnapshotForeign(r) == \A i \in req[r].before : rows[i].by # r

NotYetWritten(r) == req[r].at \in Early => \A i \in DOMAIN rows : rows[i].by # r

CancelledClean(r) ==
  At(r, "cancelled") /\ ~req[r].botched => \A i \in Live : rows[i].by # r

LocalInv(r) ==
  KindOK(r) /\ SnapshotForeign(r) /\ NotYetWritten(r) /\ CancelledClean(r)

IInv == TypeOK /\ \A r \in Reqs : LocalInv(r)

\* What a step of r may do to the messages: add its own, delete, annotate; it
\* brings none back.
Grows(s, r) ==
  /\ s \in Seq(Row)
  /\ DOMAIN rows \subseteq DOMAIN s
  /\ \A i \in DOMAIN rows : /\ s[i].by = rows[i].by
                            /\ rows[i].remover # None => s[i].remover # None
  /\ \A i \in DOMAIN s \ DOMAIN rows : s[i].by = r

\* A step that adds no message.
Keeps(s) ==
  /\ s \in Seq(Row)
  /\ DOMAIN s = DOMAIN rows
  /\ \A i \in DOMAIN rows : /\ s[i].by = rows[i].by
                            /\ rows[i].remover # None => s[i].remover # None

\* What the invariant of a request looks at is as before.
Untouched(q) ==
  /\ req'[q].at = req[q].at /\ req'[q].kind = req[q].kind
  /\ req'[q].before = req[q].before /\ req'[q].botched = req[q].botched

\* A step of others leaves the invariant of a request alone.
LEMMA LocalKept ==
  ASSUME TypeOK, NEW q \in Reqs, LocalInv(q), NEW r, r # q,
         Grows(rows', r), Untouched(q)
  PROVE  LocalInv(q)'
<1>1. req[q].before \subseteq DOMAIN rows
  BY DEF TypeOK
<1>2. KindOK(q)'
  BY DEF LocalInv, KindOK, At, Is, Untouched
<1>3. SnapshotForeign(q)'
  BY <1>1 DEF LocalInv, SnapshotForeign, Untouched, Grows
<1>4. NotYetWritten(q)'
  BY DEF LocalInv, NotYetWritten, Untouched, Grows
<1>5. CancelledClean(q)'
  <2>1. ASSUME At(q, "cancelled")', ~req'[q].botched, NEW i \in Live'
        PROVE  rows'[i].by # q
    <3>1. i \in DOMAIN rows' /\ rows'[i].remover = None
      BY DEF Live
    <3>2. CASE i \in DOMAIN rows
      <4>1. i \in Live
        BY <3>1, <3>2 DEF Live, Grows
      <4>2. rows[i].by # q
        BY <4>1, <2>1 DEF LocalInv, CancelledClean, At, Untouched
      <4> QED  BY <4>2, <3>2 DEF Grows
    <3>3. CASE i \notin DOMAIN rows
      BY <3>1, <3>3 DEF Grows
    <3> QED  BY <3>2, <3>3
  <2> QED  BY <2>1 DEF CancelledClean
<1> QED  BY <1>2, <1>3, <1>4, <1>5 DEF LocalInv

\* What a step of r leaves to be shown.
LEMMA OneMoves ==
  ASSUME IInv, NEW r \in Reqs, Grows(rows', r),
         session' \in {"in_progress", "completed", "failed"},
         faults' \in 0..MaxFaults,
         req' \in [Reqs -> Request],
         \A q \in Reqs \ {r} : Untouched(q),
         req'[r].before \subseteq DOMAIN rows',
         LocalInv(r)'
  PROVE  IInv'
<1>1. TypeOK
  BY DEF IInv
<1>2. ASSUME NEW q \in Reqs PROVE req'[q].before \subseteq DOMAIN rows'
  <2>1. q # r => req'[q].before = req[q].before
    BY DEF Untouched
  <2>2. req[q].before \subseteq DOMAIN rows /\ DOMAIN rows \subseteq DOMAIN rows'
    BY <1>1 DEF TypeOK, Grows
  <2> QED  BY <2>1, <2>2
<1>3. TypeOK'
  BY <1>2 DEF TypeOK, Grows
<1>4. ASSUME NEW q \in Reqs PROVE LocalInv(q)'
  <2>1. CASE q # r
    <3>1. LocalInv(q)
      BY DEF IInv
    <3> QED  BY <3>1, <2>1, <1>1, LocalKept
  <2> QED  BY <2>1
<1> QED  BY <1>3, <1>4 DEF IInv

-------------------------------------------------------------------------------
(* The helpers that change the state of a request *)

\* Messages stay as they are.
LEMMA RowsUnchanged ==
  ASSUME TypeOK, NEW r, rows' = rows
  PROVE  Grows(rows', r) /\ Live' = Live
BY DEF Grows, TypeOK, Live

\* Goto changes the label and nothing else.
LEMMA GotoEffect ==
  ASSUME TypeOK, NEW r \in Reqs, NEW label \in Waiting \cup Ended, Goto(r, label)
  PROVE  /\ req' \in [Reqs -> Request]
         /\ \A q \in Reqs \ {r} : Untouched(q)
         /\ req'[r].at = label /\ req'[r].kind = req[r].kind
         /\ req'[r].before = req[r].before /\ req'[r].botched = req[r].botched
<1> DEFINE n == [req[r] EXCEPT !.at = label]
<1>1. req[r] \in Request
  BY DEF TypeOK
<1>2. n \in Request /\ n.at = label /\ n.kind = req[r].kind
      /\ n.before = req[r].before /\ n.botched = req[r].botched
  BY <1>1 DEF Request
<1>3. req' = [req EXCEPT ![r] = n]
  BY DEF Goto
<1> HIDE DEF n
<1>4. req \in [Reqs -> Request]
  BY DEF TypeOK
<1> QED  BY <1>2, <1>3, <1>4 DEF Untouched

\* ToPipeline forgets no message a rollback must spare.
LEMMA ToPipelineEffect ==
  ASSUME TypeOK, NEW r \in Reqs, NEW label \in Waiting, NEW failed \in BOOLEAN,
         ToPipeline(r, label, failed)
  PROVE  /\ req' \in [Reqs -> Request]
         /\ \A q \in Reqs \ {r} : Untouched(q)
         /\ req'[r].at = label /\ req'[r].kind = req[r].kind
         /\ req'[r].before = req[r].before /\ req'[r].botched = req[r].botched
<1> DEFINE n == [req[r] EXCEPT !.at = label, !.txn = Later, !.errs = failed]
<1>1. req[r] \in Request /\ Later \in Nat
  BY LaterIsLater DEF TypeOK
<1>2. n \in Request /\ n.at = label /\ n.kind = req[r].kind
      /\ n.before = req[r].before /\ n.botched = req[r].botched
  <2> HIDE DEF Later
  <2> QED  BY <1>1 DEF Request
<1>3. req' = [req EXCEPT ![r] = n]
  BY DEF ToPipeline
<1> HIDE DEF n
<1>4. req \in [Reqs -> Request]
  BY DEF TypeOK
<1> QED  BY <1>2, <1>3, <1>4 DEF Untouched

\* End leaves a request that remembers nothing.
LEMMA EndEffect ==
  ASSUME TypeOK, NEW r \in Reqs, NEW label \in Ended, NEW botched \in BOOLEAN,
         End(r, label, botched)
  PROVE  /\ req' \in [Reqs -> Request]
         /\ \A q \in Reqs \ {r} : Untouched(q)
         /\ req'[r].at = label /\ req'[r].kind = req[r].kind
         /\ req'[r].before = {} /\ req'[r].botched = botched
<1> DEFINE n == [req[r] EXCEPT !.at = label, !.gone = FALSE, !.before = {},
                               !.todo = 0, !.txn = 0, !.botched = botched]
<1>1. req[r] \in Request
  BY DEF TypeOK
<1>2. n \in Request /\ n.at = label /\ n.kind = req[r].kind
      /\ n.before = {} /\ n.botched = botched
  <2>1. 0 \in 0..Modules /\ {} \in SUBSET Nat /\ FALSE \in BOOLEAN /\ 0 \in Nat
    BY BoundsAssumption
  <2>2. label \in {"idle"} \cup Waiting \cup Ended
    OBVIOUS
  <2> QED  BY <1>1, <2>1, <2>2 DEF Request
<1>3. req' = [req EXCEPT ![r] = n]
  BY DEF End
<1> HIDE DEF n
<1>4. req \in [Reqs -> Request]
  BY DEF TypeOK
<1> QED  BY <1>2, <1>3, <1>4 DEF Untouched

\* A fault, or none, keeps the count in its range.
LEMMA FaultTyped ==
  ASSUME TypeOK, NoFault \/ Fault \/ faults' = faults
  PROVE  faults' \in 0..MaxFaults
BY BoundsAssumption DEF TypeOK, NoFault, Fault

-------------------------------------------------------------------------------
(* The helpers that change messages *)

\* A function on 1..n is a sequence.
LEMMA SeqOfFunction ==
  ASSUME NEW X, NEW n \in Nat, NEW f, DOMAIN f = 1..n, f = [i \in 1..n |-> f[i]],
         \A i \in 1..n : f[i] \in X
  PROVE  f \in Seq(X)
<1>1. f \in [1..n -> X]
  OBVIOUS
<1> QED  BY <1>1

\* A deletion keeps every message's author.
LEMMA DeletedKeeps ==
  ASSUME TypeOK, NEW r \in Reqs, NEW S
  PROVE  /\ Keeps(Deleted(r, S))
         /\ \A i \in DOMAIN rows \cap S : Deleted(r, S)[i].remover # None
<1>1. rows \in Seq(Row) /\ r # None
  BY AuthorsAssumption DEF TypeOK
<1>2. ASSUME NEW i \in DOMAIN rows
      PROVE  /\ Deleted(r, S)[i] \in Row
             /\ Deleted(r, S)[i].by = rows[i].by
             /\ rows[i].remover # None => Deleted(r, S)[i].remover # None
             /\ i \in S => Deleted(r, S)[i].remover # None
  <2> DEFINE m == [rows[i] EXCEPT !.remover = r]
  <2>1. rows[i] \in Row
    BY <1>1
  <2>2. m \in Row /\ m.by = rows[i].by /\ m.remover = r
    BY <2>1 DEF Row
  <2>3. Deleted(r, S)[i] = IF i \in S THEN m ELSE rows[i]
    BY DEF Deleted
  <2> HIDE DEF m
  <2> QED  BY <2>1, <2>2, <2>3, <1>1
<1>3. DOMAIN Deleted(r, S) = 1..Len(rows) /\ DOMAIN rows = 1..Len(rows)
  BY <1>1 DEF Deleted
<1>4. Deleted(r, S) = [i \in 1..Len(rows) |-> Deleted(r, S)[i]]
  BY <1>1 DEF Deleted
<1>5. Deleted(r, S) \in Seq(Row)
  BY <1>1, <1>2, <1>3, <1>4, SeqOfFunction
<1> QED  BY <1>2, <1>3, <1>5 DEF Keeps

\* So does an annotation.
LEMMA AnnotatedKeeps ==
  ASSUME TypeOK, NEW r \in Reqs, NEW i,
         NEW status \in {"none", "completed", "truncated", "failed"},
         NEW hidden \in BOOLEAN
  PROVE  Keeps(Annotated(r, i, status, hidden))
<1> DEFINE s == Annotated(r, i, status, hidden)
           m == [rows[i] EXCEPT !.status = status, !.hidden = hidden, !.marked = r]
<1>1. rows \in Seq(Row)
  BY DEF TypeOK
<1>2. CASE i \in DOMAIN rows
  <2>1. rows[i] \in Row
    BY <1>1, <1>2
  <2>2. m \in Row /\ m.by = rows[i].by /\ m.remover = rows[i].remover
    BY <2>1 DEF Row
  <2>3. s = [rows EXCEPT ![i] = m]
    BY DEF Annotated
  <2> HIDE DEF s, m
  <2>4. s \in Seq(Row) /\ DOMAIN s = DOMAIN rows
    BY <1>1, <1>2, <2>2, <2>3
  <2>5. \A j \in DOMAIN rows : s[j] = IF j = i THEN m ELSE rows[j]
    BY <1>1, <1>2, <2>3
  <2>6. Keeps(s)
    BY <2>2, <2>4, <2>5 DEF Keeps
  <2> QED  BY <2>6 DEF s
<1>3. CASE i \notin DOMAIN rows
  <2>1. s = rows
    BY <1>1, <1>3 DEF Annotated
  <2> QED  BY <1>1, <2>1 DEF Keeps
<1> QED  BY <1>2, <1>3

\* And so do the transactions that end a turn.
LEMMA EndWritesKeep ==
  ASSUME TypeOK, NEW r \in Reqs, KindOK(r), At(r, "metering"),
         NEW status \in {"completed", "truncated", "failed"}, EndStatus(r, status)
  PROVE  /\ Keeps(Last(EndWrites(r, status)))
         /\ \A s \in Range(EndWrites(r, status)) : Keeps(s)
<1>1. req[r] \in Request /\ Keeps(rows) /\ rows \in Seq(Row)
  BY DEF TypeOK, Keeps
<1>2. req[r].kept \in BOOLEAN /\ req[r].kind \in {"stream", "continue", "redo"}
  BY <1>1 DEF Request, KindOK, At, Is
<1>3. LatestHidden \in BOOLEAN
  BY DEF LatestHidden
<1>4. CASE Is(r, "stream")
  <2>1. Keeps(MarkStream(r, status))
    BY <1>1, <1>3, AnnotatedKeeps DEF MarkStream, Mark
  <2>2. EndWrites(r, status) = <<MarkStream(r, status)>>
    BY <1>4 DEF EndWrites, Is
  <2> QED  BY <2>1, <2>2 DEF Last, Range
<1>5. CASE Is(r, "redo")
  <2>1. Keeps(MarkRedo(r))
    <3> DEFINE h == IF Latest = req[r].target THEN req[r].kept ELSE LatestHidden
    <3>1. h \in BOOLEAN
      BY <1>2, <1>3
    <3>2. MarkRedo(r) = IF Latest = 0 THEN rows ELSE Annotated(r, Latest, "completed", h)
      BY DEF MarkRedo, Mark
    <3> HIDE DEF h
    <3> QED  BY <1>1, <3>1, <3>2, AnnotatedKeeps
  <2>2. EndWrites(r, status) = <<MarkRedo(r)>>
    BY <1>5 DEF EndWrites, Is
  <2> QED  BY <2>1, <2>2 DEF Last, Range
<1>6. CASE Is(r, "continue")
  <2>1. Keeps(Merged(r))
    BY <1>1, <1>2, AnnotatedKeeps DEF Merged
  <2>2. Keeps(MergedAndDeleted(r))
    <3> DEFINE d(i) == Deleted(r, {i})
               s == MergedAndDeleted(r)
    <3>1. \A i : Keeps(d(i))
      BY DeletedKeeps
    <3>2. \A i \in DOMAIN rows : s[i] = Merged(r)[i] \/ s[i] = d(i)[i]
      BY DEF MergedAndDeleted
    <3>3. DOMAIN s = 1..Len(rows) /\ s = [i \in 1..Len(rows) |-> s[i]]
      BY <1>1 DEF MergedAndDeleted
    <3>4. ASSUME NEW i \in DOMAIN rows
          PROVE  /\ s[i] \in Row /\ s[i].by = rows[i].by
                 /\ rows[i].remover # None => s[i].remover # None
      <4> HIDE DEF s, d
      <4>1. ASSUME NEW t, Keeps(t), s[i] = t[i]
            PROVE  /\ s[i] \in Row /\ s[i].by = rows[i].by
                   /\ rows[i].remover # None => s[i].remover # None
        BY <4>1 DEF Keeps
      <4> QED  BY <4>1, <2>1, <3>1, <3>2
    <3> HIDE DEF s, d
    <3>5. s \in Seq(Row)
      BY <1>1, <3>3, <3>4, SeqOfFunction
    <3>6. DOMAIN s = DOMAIN rows
      BY <1>1, <3>3
    <3>7. Keeps(s)
      BY <3>4, <3>5, <3>6 DEF Keeps
    <3> QED  BY <3>7 DEF s
  <2>3. EndWrites(r, status) = <<Merged(r), MergedAndDeleted(r)>>
    BY <1>6 DEF EndWrites, Is
  <2> QED  BY <2>1, <2>2, <2>3 DEF Last, Range
<1> QED  BY <1>2, <1>4, <1>5, <1>6 DEF Is

\* Messages that keep their authors are what a step of anybody may leave.
LEMMA KeepsGrows ==
  ASSUME NEW s, Keeps(s), NEW r
  PROVE  Grows(s, r)
BY DEF Keeps, Grows

-------------------------------------------------------------------------------
(* The actions *)

\* A request in flight that goes on, or ends, without adding a message.
LEMMA MovesOn ==
  ASSUME IInv, NEW r \in Reqs, ~At(r, "idle"), Keeps(rows'),
         session' \in {"in_progress", "completed", "failed"},
         faults' \in 0..MaxFaults,
         req' \in [Reqs -> Request],
         \A q \in Reqs \ {r} : Untouched(q),
         req'[r].kind = req[r].kind,
         req'[r].before = req[r].before \/ req'[r].before = {},
         req'[r].at \in Early => req[r].at \in Early,
         At(r, "cancelled")' /\ ~req'[r].botched => \A i \in Live' : rows'[i].by # r
  PROVE  IInv'
<1>1. TypeOK /\ LocalInv(r) /\ req[r].before \subseteq DOMAIN rows
  BY DEF IInv, TypeOK
<1>2. Grows(rows', r)
  BY KeepsGrows
<1>3. KindOK(r)'
  BY <1>1 DEF LocalInv, KindOK, At, Is
<1>4. SnapshotForeign(r)' /\ req'[r].before \subseteq DOMAIN rows'
  BY <1>1 DEF LocalInv, SnapshotForeign, Keeps
<1>5. NotYetWritten(r)'
  BY <1>1 DEF LocalInv, NotYetWritten, Keeps
<1>6. LocalInv(r)'
  BY <1>3, <1>4, <1>5 DEF LocalInv, CancelledClean
<1> QED  BY <1>2, <1>4, <1>6, OneMoves

\* No message of r is in the session before its pipeline.
LEMMA EarlyIsClean ==
  ASSUME IInv, NEW r \in Reqs, req[r].at \in Early, Keeps(rows')
  PROVE  \A i \in Live' : rows'[i].by # r
BY DEF IInv, LocalInv, NotYetWritten, Live, Keeps

\* A new request has nothing to forget, and those it meets only note that.
LEMMA BeginStep ==
  ASSUME IInv, NEW r \in Reqs, NEW local \in Request,
         local.at \in {"thinking", "planning"}, local.kind # "none",
         local.before = {}, Begin(r, local), UNCHANGED <<rows, session, faults>>
  PROVE  IInv'
<1> DEFINE others == {q \in Reqs \ {r} : InFlight(q)}
           n == [local EXCEPT !.met = others]
           m(q) == [req[q] EXCEPT !.met = @ \cup {r}]
           new(q) == IF q = r THEN n ELSE IF q \in others THEN m(q) ELSE req[q]
<1>1. TypeOK /\ LocalInv(r)
  BY DEF IInv
<1>2. req' = [q \in Reqs |-> new(q)]
  BY DEF Begin
<1>3. n \in Request /\ n.at = local.at /\ n.kind = local.kind /\ n.before = {}
  <2>1. others \in SUBSET Reqs
    OBVIOUS
  <2> HIDE DEF others
  <2> QED  BY <2>1 DEF Request
<1>4. ASSUME NEW q \in Reqs
      PROVE  /\ m(q) \in Request /\ m(q).at = req[q].at /\ m(q).kind = req[q].kind
             /\ m(q).before = req[q].before /\ m(q).botched = req[q].botched
  <2>1. req[q] \in Request
    BY <1>1 DEF TypeOK
  <2> QED  BY <2>1 DEF Request
<1>5. ASSUME NEW q \in Reqs
      PROVE  /\ new(q) \in Request
             /\ q # r => /\ new(q).at = req[q].at /\ new(q).kind = req[q].kind
                         /\ new(q).before = req[q].before
                         /\ new(q).botched = req[q].botched
  <2>1. req[q] \in Request
    BY <1>1 DEF TypeOK
  <2> HIDE DEF n, m, others
  <2> QED  BY <1>3, <1>4, <2>1
<1>6. new(r) = n
  OBVIOUS
<1> HIDE DEF new, n, m
<1>7. req' \in [Reqs -> Request] /\ req'[r] = n
      /\ \A q \in Reqs \ {r} : Untouched(q)
  BY <1>2, <1>5, <1>6 DEF Untouched
<1>8. Grows(rows', r)
  BY <1>1, RowsUnchanged
<1>9. LocalInv(r)'
  <2>1. KindOK(r)'
    BY <1>3, <1>7 DEF KindOK, Is
  <2>2. SnapshotForeign(r)' /\ req'[r].before = {}
    BY <1>3, <1>7 DEF SnapshotForeign
  <2>3. NotYetWritten(r)'
    BY <1>1 DEF LocalInv, NotYetWritten, Begin, At, Early
  <2>4. CancelledClean(r)'
    BY <1>3, <1>7 DEF CancelledClean, At
  <2> QED  BY <2>1, <2>2, <2>3, <2>4 DEF LocalInv
<1>10. /\ session' \in {"in_progress", "completed", "failed"}
       /\ faults' \in 0..MaxFaults
       /\ req'[r].before \subseteq DOMAIN rows'
  BY <1>1, <1>3, <1>7 DEF TypeOK
<1> QED  BY <1>7, <1>8, <1>9, <1>10, OneMoves

LEMMA BeginsStep ==
  ASSUME IInv, NEW r \in Reqs
  PROVE  /\ BeginStream(r) => IInv'
         /\ \A i \in Live, n \in 1..Modules :
              BeginContinue(r, i, n) \/ BeginRedo(r, i, n) => IInv'
<1>1. TypeOK /\ Modules \in Nat \ {0}
  BY BoundsAssumption DEF IInv
<1>2. Idle \in Request
  BY <1>1 DEF Idle, Request
<1>3. ASSUME BeginStream(r) PROVE IInv'
  <2> DEFINE local == [Idle EXCEPT !.at = "thinking", !.kind = "stream"]
  <2>1. local \in Request /\ local.at = "thinking" /\ local.kind = "stream"
        /\ local.before = {}
    BY <1>2 DEF Idle, Request, Waiting
  <2>2. Begin(r, local) /\ UNCHANGED <<rows, session, faults>>
    BY <1>3 DEF BeginStream
  <2> HIDE DEF local
  <2> QED  BY <2>1, <2>2, BeginStep
<1>4. ASSUME NEW i \in Live PROVE i \in Nat /\ rows[i].hidden \in BOOLEAN
  <2>1. rows[i] \in Row /\ i \in Nat
    BY <1>1 DEF TypeOK, Live
  <2> QED  BY <2>1 DEF Row
<1>5. ASSUME NEW i \in Live, NEW n \in 1..Modules, BeginContinue(r, i, n)
      PROVE  IInv'
  <2> DEFINE local == [Idle EXCEPT !.at = "planning", !.kind = "continue",
                                   !.target = i, !.kept = rows[i].hidden,
                                   !.todo = n]
  <2>1. i \in Nat /\ rows[i].hidden \in BOOLEAN /\ n \in 0..Modules
    BY <1>1, <1>4
  <2>2. local \in Request /\ local.at = "planning" /\ local.kind = "continue"
        /\ local.before = {}
    BY <1>2, <2>1 DEF Idle, Request, Waiting
  <2>3. Begin(r, local) /\ UNCHANGED <<rows, session, faults>>
    BY <1>5 DEF BeginContinue
  <2> HIDE DEF local
  <2> QED  BY <2>2, <2>3, BeginStep
<1>6. ASSUME NEW i \in Live, NEW n \in 1..Modules, BeginRedo(r, i, n)
      PROVE  IInv'
  <2> DEFINE local == [Idle EXCEPT !.at = "planning", !.kind = "redo",
                                   !.target = i, !.kept = rows[i].hidden,
                                   !.todo = n]
  <2>1. i \in Nat /\ rows[i].hidden \in BOOLEAN /\ n \in 0..Modules
    BY <1>1, <1>4
  <2>2. local \in Request /\ local.at = "planning" /\ local.kind = "redo"
        /\ local.before = {}
    BY <1>2, <2>1 DEF Idle, Request, Waiting
  <2>3. Begin(r, local) /\ UNCHANGED <<rows, session, faults>>
    BY <1>6 DEF BeginRedo
  <2> HIDE DEF local
  <2> QED  BY <2>2, <2>3, BeginStep
<1> QED  BY <1>3, <1>5, <1>6

LEMMA DisconnectStep ==
  ASSUME IInv, NEW r \in Reqs, Disconnect(r)
  PROVE  IInv'
<1> DEFINE n == [req[r] EXCEPT !.gone = TRUE]
<1>1. TypeOK /\ Keeps(rows') /\ req[r] \in Request /\ req[r].at \in Waiting
  BY DEF IInv, TypeOK, Disconnect, Keeps, InFlight
<1>2. n \in Request /\ n.at = req[r].at /\ n.kind = req[r].kind
      /\ n.before = req[r].before /\ n.botched = req[r].botched
  BY <1>1 DEF Request
<1>3. req' = [req EXCEPT ![r] = n]
  BY DEF Disconnect
<1> HIDE DEF n
<1>4. /\ req' \in [Reqs -> Request] /\ \A q \in Reqs \ {r} : Untouched(q)
      /\ req'[r] = n
  BY <1>1, <1>2, <1>3 DEF TypeOK, Untouched
<1>5. ~At(r, "idle") /\ ~At(r, "cancelled")'
  BY <1>1, <1>2, <1>4 DEF At, Waiting
<1>6. session' \in {"in_progress", "completed", "failed"} /\ faults' \in 0..MaxFaults
  BY <1>1 DEF TypeOK, Disconnect
<1> QED  BY <1>1, <1>2, <1>4, <1>5, <1>6, MovesOn

\* A stream remembers, when its planner has run, messages that are not its own.
LEMMA PlanStreamStep ==
  ASSUME IInv, NEW r \in Reqs, PlanStream(r)
  PROVE  IInv'
<1> DEFINE n == [req[r] EXCEPT !.at = "planned", !.before = Snapshot,
                               !.todo = Modules]
<1>1. TypeOK /\ LocalInv(r) /\ req[r] \in Request /\ Modules \in 0..Modules
      /\ rows' = rows
  BY BoundsAssumption DEF IInv, TypeOK, PlanStream
<1>2. Snapshot \in SUBSET DOMAIN rows /\ Snapshot \in SUBSET Nat
  BY <1>1 DEF Snapshot, Live, TypeOK
<1>3. n \in Request /\ n.at = "planned" /\ n.kind = req[r].kind
      /\ n.before = Snapshot /\ n.botched = req[r].botched
  <2> HIDE DEF Snapshot
  <2> QED  BY <1>1, <1>2 DEF Request, Waiting
<1>4. req' = [req EXCEPT ![r] = n]
  BY DEF PlanStream
<1> HIDE DEF n
<1>5. /\ req' \in [Reqs -> Request] /\ \A q \in Reqs \ {r} : Untouched(q)
      /\ req'[r] = n
  BY <1>1, <1>3, <1>4 DEF TypeOK, Untouched
<1>6. \A i \in DOMAIN rows : rows[i].by # r
  BY <1>1 DEF LocalInv, NotYetWritten, PlanStream, At, Early
<1>7. LocalInv(r)'
  <2>1. KindOK(r)'
    BY <1>1, <1>3, <1>5 DEF LocalInv, KindOK, Is, At, PlanStream
  <2>2. SnapshotForeign(r)'
    BY <1>1, <1>2, <1>3, <1>5, <1>6 DEF SnapshotForeign
  <2>3. NotYetWritten(r)'
    BY <1>1, <1>6 DEF NotYetWritten
  <2>4. CancelledClean(r)'
    BY <1>3, <1>5 DEF CancelledClean, At
  <2> QED  BY <2>1, <2>2, <2>3, <2>4 DEF LocalInv
<1>8. Grows(rows', r) /\ req'[r].before \subseteq DOMAIN rows'
  BY <1>1, <1>2, <1>3, <1>5, RowsUnchanged
<1>9. session' \in {"in_progress", "completed", "failed"} /\ faults' \in 0..MaxFaults
  BY <1>1 DEF TypeOK, PlanStream
<1> QED  BY <1>5, <1>7, <1>8, <1>9, OneMoves

\* The steps that leave every message as it is and end in a Goto or an End.
LEMMA GoesOn ==
  ASSUME IInv, NEW r \in Reqs, ~At(r, "idle"), rows' = rows,
         session' \in {"in_progress", "completed", "failed"},
         faults' \in 0..MaxFaults,
         NEW label \in Waiting, label \in Early => req[r].at \in Early,
         \/ Goto(r, label)
         \/ \E failed \in BOOLEAN : ToPipeline(r, label, failed)
  PROVE  IInv'
<1>1. TypeOK /\ Keeps(rows') /\ label # "cancelled" /\ label \in Waiting \cup Ended
  BY DEF IInv, TypeOK, Keeps, Waiting
<1>2. CASE Goto(r, label)
  <2>1. ~At(r, "cancelled")'
    BY <1>1, <1>2, GotoEffect DEF At
  <2> QED  BY <1>1, <1>2, <2>1, GotoEffect, MovesOn
<1>3. CASE \E failed \in BOOLEAN : ToPipeline(r, label, failed)
  <2>1. ~At(r, "cancelled")'
    BY <1>1, <1>3, ToPipelineEffect DEF At
  <2> QED  BY <1>1, <1>3, <2>1, ToPipelineEffect, MovesOn
<1> QED  BY <1>2, <1>3

LEMMA Ends ==
  ASSUME IInv, NEW r \in Reqs, ~At(r, "idle"), Keeps(rows'),
         session' \in {"in_progress", "completed", "failed"},
         faults' \in 0..MaxFaults,
         NEW label \in Ended, NEW botched \in BOOLEAN, End(r, label, botched),
         label = "cancelled" /\ ~botched => \A i \in Live' : rows'[i].by # r
  PROVE  IInv'
<1>1. TypeOK /\ label \notin Early
  BY DEF IInv, Ended, Early
<1>2. req'[r].at = label /\ req'[r].botched = botched
  BY <1>1, EndEffect
<1>3. At(r, "cancelled")' /\ ~req'[r].botched => \A i \in Live' : rows'[i].by # r
  BY <1>2 DEF At
<1>4. req'[r].at \in Early => req[r].at \in Early
  BY <1>1, <1>2
<1> QED  BY <1>1, <1>3, <1>4, EndEffect, MovesOn

LEMMA PlannerStep ==
  ASSUME IInv, NEW r \in Reqs
  PROVE  /\ Abandon(r) => IInv'
         /\ PlanChat(r) => IInv'
         /\ PlanFails(r) => IInv'
         /\ CheckPlanned(r) => IInv'
<1>1. TypeOK /\ {"abandoned", "failed", "cancelled"} \subseteq Ended
      /\ {"calling", "preparing"} \subseteq Waiting
  BY DEF IInv, Ended, Waiting
<1>2. session \in {"in_progress", "completed", "failed"}
      /\ (rows' = rows => Keeps(rows'))
  BY <1>1 DEF TypeOK, Keeps
<1>3. ASSUME Abandon(r) PROVE IInv'
  <2>1. /\ ~At(r, "idle") /\ rows' = rows /\ session' = session
        /\ End(r, "abandoned", FALSE)
    BY <1>3 DEF Abandon, InFlight, At, Waiting
  <2>2. faults' \in 0..MaxFaults
    BY <1>1, <1>3, FaultTyped DEF Abandon
  <2> QED  BY <1>1, <1>2, <2>1, <2>2, Ends
<1>4. ASSUME PlanChat(r) PROVE IInv'
  <2>1. /\ ~At(r, "idle") /\ rows' = rows /\ session' = "in_progress"
        /\ Goto(r, "calling") /\ req[r].at \in Early
    BY <1>4 DEF PlanChat, At, Early
  <2>2. faults' \in 0..MaxFaults
    BY <1>1, <1>4, FaultTyped DEF PlanChat
  <2> QED  BY <1>1, <2>1, <2>2, GoesOn
<1>5. ASSUME PlanFails(r) PROVE IInv'
  <2>1. /\ ~At(r, "idle") /\ rows' = rows /\ session' \in {session, "in_progress"}
        /\ End(r, "failed", FALSE)
    BY <1>5 DEF PlanFails, At
  <2>2. faults' \in 0..MaxFaults
    BY <1>1, <1>5, FaultTyped DEF PlanFails
  <2> QED  BY <1>1, <1>2, <2>1, <2>2, Ends
<1>6. ASSUME CheckPlanned(r) PROVE IInv'
  <2>1. /\ ~At(r, "idle") /\ rows' = rows /\ session' = session
        /\ req[r].at \in Early
    BY <1>6 DEF CheckPlanned, At, Early
  <2>2. faults' \in 0..MaxFaults
    BY <1>1, <1>6, FaultTyped DEF CheckPlanned
  <2>3. CASE End(r, "cancelled", FALSE)
    <3>1. \A i \in Live' : rows'[i].by # r
      BY <1>2, <2>1, EarlyIsClean
    <3> QED  BY <1>1, <1>2, <2>1, <2>2, <2>3, <3>1, Ends
  <2>4. CASE Goto(r, "preparing")
    BY <1>1, <1>2, <2>1, <2>2, <2>4, GoesOn
  <2> QED  BY <1>6, <2>3, <2>4 DEF CheckPlanned
<1> QED  BY <1>3, <1>4, <1>5, <1>6

LEMMA ModelStep ==
  ASSUME IInv, NEW r \in Reqs
  PROVE  /\ \A hit \in BOOLEAN : TryCache(r, hit) => IInv'
         /\ Checked(r) => IInv'
         /\ Applied(r) => IInv'
         /\ CallFails(r) => IInv'
<1>1. TypeOK /\ "failed" \in Ended
      /\ {"hit", "generating", "applying", "pipeline"} \subseteq Waiting
  BY DEF IInv, Ended, Waiting
<1>2. session \in {"in_progress", "completed", "failed"}
      /\ (rows' = rows => Keeps(rows'))
  BY <1>1 DEF TypeOK, Keeps
<1>3. ASSUME NEW hit \in BOOLEAN, TryCache(r, hit) PROVE IInv'
  <2>1. /\ ~At(r, "idle") /\ rows' = rows /\ session' = session
        /\ req[r].at \in Early
        /\ ToPipeline(r, "hit", FALSE) \/ Goto(r, "generating")
    BY <1>3 DEF TryCache, At, Early
  <2>2. faults' \in 0..MaxFaults
    BY <1>1, <1>3, FaultTyped DEF TryCache
  <2> QED  BY <1>1, <1>2, <2>1, <2>2, GoesOn
<1>4. ASSUME Checked(r) PROVE IInv'
  <2>1. /\ ~At(r, "idle") /\ rows' = rows /\ session' = session
        /\ req[r].at \in Early
        /\ Goto(r, "applying") \/ Goto(r, "pipeline")
    BY <1>4 DEF Checked, At, Early
  <2>2. faults' \in 0..MaxFaults
    BY <1>1, <1>4, FaultTyped DEF Checked
  <2> QED  BY <1>1, <1>2, <2>1, <2>2, GoesOn
<1>5. ASSUME Applied(r) PROVE IInv'
  <2>1. /\ ~At(r, "idle") /\ rows' = rows /\ session' = session
        /\ req[r].at \in Early /\ ToPipeline(r, "pipeline", FALSE)
    BY <1>5 DEF Applied, At, Early
  <2>2. faults' \in 0..MaxFaults
    BY <1>1, <1>5, FaultTyped DEF Applied
  <2> QED  BY <1>1, <1>2, <2>1, <2>2, GoesOn
<1>6. ASSUME CallFails(r) PROVE IInv'
  <2>1. /\ ~At(r, "idle") /\ rows' = rows /\ session' = session
        /\ req[r].at \in Early
    BY <1>6 DEF CallFails, At, Early
  <2>2. faults' \in 0..MaxFaults
    BY <1>1, <1>6, FaultTyped DEF CallFails
  <2>3. CASE End(r, "failed", FALSE)
    BY <1>1, <1>2, <2>1, <2>2, <2>3, Ends
  <2>4. CASE ToPipeline(r, "pipeline", TRUE)
    BY <1>1, <1>2, <2>1, <2>2, <2>4, GoesOn
  <2> QED  BY <1>6, <2>3, <2>4 DEF CallFails
<1> QED  BY <1>3, <1>4, <1>5, <1>6

\* A rollback leaves what the stream remembers, and none of that is its own.
LEMMA CancelStep ==
  ASSUME IInv, NEW r \in Reqs, Cancel(r)
  PROVE  IInv'
<1>1. TypeOK /\ LocalInv(r) /\ ~At(r, "idle") /\ "cancelled" \in Ended
      /\ session' \in {"in_progress", "completed", "failed"}
  BY DEF IInv, Cancel, At, Ended, TypeOK
<1>2. faults' \in 0..MaxFaults
  BY <1>1, FaultTyped DEF Cancel
<1>3. CASE rows' = Deleted(r, Created(r)) /\ End(r, "cancelled", FALSE)
  <2>1. Keeps(rows') /\ \A i \in DOMAIN rows \cap Created(r) : rows'[i].remover # None
    <3> HIDE DEF Created
    <3> QED  BY <1>1, <1>3, DeletedKeeps
  <2>2. ASSUME NEW i \in Live' PROVE rows'[i].by # r
    <3>1. i \in DOMAIN rows /\ rows'[i].remover = None /\ rows'[i].by = rows[i].by
      BY <2>1 DEF Live, Keeps
    <3>2. i \in Live
      BY <3>1, <2>1 DEF Live, Keeps
    <3>3. i \in req[r].before
      BY <3>1, <3>2, <2>1 DEF Created
    <3> QED  BY <3>1, <3>3, <1>1 DEF LocalInv, SnapshotForeign
  <2> QED  BY <1>1, <1>2, <1>3, <2>1, <2>2, Ends
<1>4. CASE \E i \in Created(r) : /\ rows' = Deleted(r, Created(r) \ {i})
                                 /\ End(r, "cancelled", TRUE)
  <2>1. Keeps(rows')
    <3> HIDE DEF Created
    <3> QED  BY <1>1, <1>4, DeletedKeeps
  <2> QED  BY <1>1, <1>2, <1>4, <2>1, Ends
<1> QED  BY <1>3, <1>4 DEF Cancel

\* The message of a module is the only way a request adds one.
LEMMA RunModuleStep ==
  ASSUME IInv, NEW r \in Reqs, NEW stored \in BOOLEAN, NEW ok \in BOOLEAN,
         RunModule(r, stored, ok)
  PROVE  IInv'
<1> DEFINE n == [req[r] EXCEPT !.todo = @ - 1, !.txn = Later, !.errs = @ \/ ~ok]
           m == Message(r, req[r].txn, "none")
<1>1. TypeOK /\ LocalInv(r) /\ req[r] \in Request /\ rows \in Seq(Row)
      /\ Later \in Nat /\ req[r].before \subseteq DOMAIN rows
  BY LaterIsLater DEF IInv, TypeOK
<1>2. n \in Request /\ n.at = req[r].at /\ n.kind = req[r].kind
      /\ n.before = req[r].before /\ n.botched = req[r].botched
  <2>1. req[r].todo - 1 \in 0..Modules
    BY <1>1, BoundsAssumption DEF Request, RunModule
  <2>2. (req[r].errs \/ ~ok) \in BOOLEAN
    OBVIOUS
  <2> HIDE DEF Later
  <2> QED  BY <1>1, <2>1, <2>2 DEF Request
<1>3. req' = [req EXCEPT ![r] = n]
  BY DEF RunModule
<1>4. m \in Row /\ m.by = r
  <2>1. req[r].txn \in Nat
    BY <1>1 DEF Request
  <2> QED  BY <2>1 DEF Message, Row, Authors
<1>5. rows' = rows \/ rows' = Append(rows, m)
  BY DEF RunModule
<1> HIDE DEF n, m
<1>6. /\ req' \in [Reqs -> Request] /\ \A q \in Reqs \ {r} : Untouched(q)
      /\ req'[r] = n
  BY <1>1, <1>2, <1>3 DEF TypeOK, Untouched
<1>7. Grows(rows', r)
  <2>1. CASE rows' = rows
    BY <1>1, <2>1, RowsUnchanged
  <2>2. CASE rows' = Append(rows, m)
    <3>1. rows' \in Seq(Row) /\ DOMAIN rows = 1..Len(rows)
          /\ DOMAIN rows' = 1..(Len(rows) + 1) /\ Len(rows) \in Nat
          /\ rows'[Len(rows) + 1] = m
          /\ \A i \in 1..Len(rows) : rows'[i] = rows[i]
      BY <1>1, <1>4, <2>2
    <3>2. DOMAIN rows \subseteq DOMAIN rows'
          /\ DOMAIN rows' \ DOMAIN rows \subseteq {Len(rows) + 1}
      BY <3>1
    <3> QED  BY <3>1, <3>2, <1>4 DEF Grows
  <2> QED  BY <1>5, <2>1, <2>2
<1>8. req[r].at = "pipeline"
  BY DEF RunModule, Proceeds, At
<1>9. LocalInv(r)'
  <2>1. KindOK(r)'
    BY <1>1, <1>2, <1>6, <1>8 DEF LocalInv, KindOK, At, Is
  <2>2. SnapshotForeign(r)'
    BY <1>1, <1>2, <1>6, <1>7 DEF LocalInv, SnapshotForeign, Grows
  <2>3. NotYetWritten(r)'
    BY <1>2, <1>6, <1>8 DEF NotYetWritten, Early
  <2>4. CancelledClean(r)'
    BY <1>2, <1>6, <1>8 DEF CancelledClean, At
  <2> QED  BY <2>1, <2>2, <2>3, <2>4 DEF LocalInv
<1>10. /\ req'[r].before \subseteq DOMAIN rows'
       /\ session' \in {"in_progress", "completed", "failed"}
  BY <1>1, <1>2, <1>6, <1>7 DEF Grows, RunModule, TypeOK
<1>11. faults' \in 0..MaxFaults
  BY <1>1, FaultTyped DEF RunModule
<1> QED  BY <1>6, <1>7, <1>9, <1>10, <1>11, OneMoves

LEMMA PersistStep ==
  ASSUME IInv, NEW r \in Reqs, Persist(r)
  PROVE  IInv'
<1>1. /\ TypeOK /\ "metering" \in Waiting /\ "metering" \notin Early
      /\ ~At(r, "idle") /\ rows' = rows /\ Keeps(rows') /\ req[r] \in Request
  BY DEF IInv, TypeOK, Waiting, Early, Persist, Proceeds, At, Keeps
<1>2. session' \in {"in_progress", "completed", "failed"}
  BY <1>1 DEF TypeOK, Persist
<1>3. faults' \in 0..MaxFaults
  BY <1>1, FaultTyped DEF Persist
<1>4. CASE Goto(r, "metering")
  BY <1>1, <1>2, <1>3, <1>4, GoesOn
<1>5. CASE req' = [req EXCEPT ![r].at = "metering", ![r].errs = TRUE]
  <2> DEFINE n == [req[r] EXCEPT !.at = "metering", !.errs = TRUE]
  <2>1. n \in Request /\ n.at = "metering" /\ n.kind = req[r].kind
        /\ n.before = req[r].before /\ n.botched = req[r].botched
    BY <1>1 DEF Request
  <2>2. req' = [req EXCEPT ![r] = n]
    BY <1>5
  <2> HIDE DEF n
  <2>3. /\ req' \in [Reqs -> Request] /\ \A q \in Reqs \ {r} : Untouched(q)
        /\ req'[r] = n
    BY <1>1, <2>1, <2>2 DEF TypeOK, Untouched
  <2>4. ~At(r, "cancelled")' /\ (req'[r].at \in Early => req[r].at \in Early)
    BY <1>1, <2>1, <2>3 DEF At
  <2> QED  BY <1>1, <1>2, <1>3, <2>1, <2>3, <2>4, MovesOn
<1> QED  BY <1>4, <1>5 DEF Persist

\* The end of a turn annotates, merges and deletes; it adds nothing.
LEMMA CompleteStep ==
  ASSUME IInv, NEW r \in Reqs, NEW status \in {"completed", "truncated", "failed"}
  PROVE  /\ Complete(r, status) => IInv'
         /\ CompleteFails(r, status) => IInv'
<1>1. /\ TypeOK /\ KindOK(r) /\ {"completed", "failed"} \subseteq Ended
      /\ session \in {"in_progress", "completed", "failed"}
  BY DEF IInv, LocalInv, Ended, TypeOK
<1>2. ASSUME Complete(r, status) PROVE IInv'
  <2>1. /\ At(r, "metering") /\ EndStatus(r, status) /\ session' = session
        /\ rows' = Last(EndWrites(r, status)) /\ End(r, "completed", FALSE)
    BY <1>2 DEF Complete
  <2>2. Keeps(rows')
    BY <1>1, <2>1, EndWritesKeep
  <2>3. faults' \in 0..MaxFaults
    BY <1>1, <1>2, FaultTyped DEF Complete
  <2>4. ~At(r, "idle")
    BY <2>1 DEF At
  <2> QED  BY <1>1, <2>1, <2>2, <2>3, <2>4, Ends
<1>3. ASSUME CompleteFails(r, status) PROVE IInv'
  <2>1. /\ At(r, "metering") /\ EndStatus(r, status) /\ session' = session
        /\ rows' = rows \/ rows' \in Range(EndWrites(r, status))
        /\ End(r, "failed", FALSE)
    BY <1>3 DEF CompleteFails
  <2>2. Keeps(rows')
    <3>1. Keeps(rows)
      BY <1>1 DEF Keeps, TypeOK
    <3> QED  BY <1>1, <2>1, <3>1, EndWritesKeep
  <2>3. faults' \in 0..MaxFaults
    BY <1>1, <1>3, FaultTyped DEF CompleteFails
  <2>4. ~At(r, "idle")
    BY <2>1 DEF At
  <2> QED  BY <1>1, <2>1, <2>2, <2>3, <2>4, Ends
<1> QED  BY <1>2, <1>3

\* The user hides a message; its author stays.
LEMMA DeleteStep ==
  ASSUME IInv, NEW i \in Live, DeleteChatMessage(i)
  PROVE  IInv'
<1> DEFINE m == [rows[i] EXCEPT !.hidden = TRUE, !.erased = TRUE]
<1>1. TypeOK /\ rows \in Seq(Row) /\ i \in DOMAIN rows /\ rows[i] \in Row
  BY DEF IInv, TypeOK, Live
<1>2. m \in Row /\ m.by = rows[i].by /\ m.remover = rows[i].remover
  BY <1>1 DEF Row
<1>3. rows' = [rows EXCEPT ![i] = m] /\ UNCHANGED <<session, req, faults>>
  BY DEF DeleteChatMessage
<1> HIDE DEF m
<1>4. rows' \in Seq(Row) /\ DOMAIN rows' = DOMAIN rows
  BY <1>1, <1>2, <1>3
<1>5. Keeps(rows')
  BY <1>1, <1>2, <1>3, <1>4 DEF Keeps
<1>6. TypeOK'
  BY <1>1, <1>3, <1>4 DEF TypeOK
<1>7. ASSUME NEW q \in Reqs PROVE LocalInv(q)'
  <2>1. LocalInv(q) /\ Untouched(q)
    BY <1>3 DEF IInv, Untouched
  <2>2. PICK r : r # q
    <3>1. TRUE # q \/ FALSE # q
      OBVIOUS
    <3> QED  BY <3>1
  <2>3. Grows(rows', r)
    BY <1>5, KeepsGrows
  <2> QED  BY <1>1, <2>1, <2>2, <2>3, LocalKept
<1> QED  BY <1>6, <1>7 DEF IInv

-------------------------------------------------------------------------------
(* The theorems *)

LEMMA InitEstablishes == Init => IInv
<1> SUFFICES ASSUME Init PROVE IInv
  OBVIOUS
<1>1. rows \in Seq(Row)
  <2>1. ASSUME NEW t \in Nat, NEW s \in {"none", "completed", "truncated", "failed"}
        PROVE  Message(Past, t, s) \in Row
    BY <2>1 DEF Message, Row, Authors
  <2>2. Message(Past, 0, "truncated") \in Row
    BY <2>1
  <2> QED  BY <2>2 DEF Init
<1>2. Idle \in Request
  BY BoundsAssumption DEF Idle, Request
<1>3. req \in [Reqs -> Request]
      /\ \A r \in Reqs : req[r].before = {} /\ req[r].at = "idle"
  BY <1>2 DEF Init, Idle
<1>4. TypeOK
  BY <1>1, <1>3, BoundsAssumption DEF Init, TypeOK
<1>5. \A i \in DOMAIN rows : rows[i].by = Past
  BY DEF Init, Message
<1>6. ASSUME NEW r \in Reqs PROVE LocalInv(r)
  BY <1>3, <1>5, AuthorsAssumption
     DEF LocalInv, KindOK, SnapshotForeign, NotYetWritten, CancelledClean, At
<1> QED  BY <1>4, <1>6 DEF IInv

LEMMA StepPreserves == IInv /\ [Next]_vars => IInv'
<1> SUFFICES ASSUME IInv, [Next]_vars PROVE IInv'
  OBVIOUS
<1>1. ASSUME NEW r \in Reqs, Advance(r) PROVE IInv'
  <2> USE <1>1
  <2>1. CASE PlanStream(r)
    BY <2>1, PlanStreamStep
  <2>2. CASE PlanChat(r) \/ PlanFails(r) \/ CheckPlanned(r)
    BY <2>2, PlannerStep
  <2>3. CASE \/ \E hit \in BOOLEAN : TryCache(r, hit)
             \/ Checked(r) \/ Applied(r) \/ CallFails(r)
    BY <2>3, ModelStep
  <2>4. CASE Cancel(r)
    BY <2>4, CancelStep
  <2>5. CASE \E stored, ok \in BOOLEAN : RunModule(r, stored, ok)
    BY <2>5, RunModuleStep
  <2>6. CASE Persist(r)
    BY <2>6, PersistStep
  <2>7. CASE \E status \in {"completed", "truncated", "failed"} :
               Complete(r, status) \/ CompleteFails(r, status)
    BY <2>7, CompleteStep
  <2> QED  BY <2>1, <2>2, <2>3, <2>4, <2>5, <2>6, <2>7 DEF Advance
<1>2. ASSUME NEW r \in Reqs,
             \/ BeginStream(r)
             \/ \E i \in Live, n \in 1..Modules :
                  BeginContinue(r, i, n) \/ BeginRedo(r, i, n)
      PROVE  IInv'
  BY <1>2, BeginsStep
<1>3. ASSUME NEW r \in Reqs, Disconnect(r) \/ Abandon(r) PROVE IInv'
  BY <1>3, DisconnectStep, PlannerStep
<1>4. ASSUME NEW i \in Live, DeleteChatMessage(i) PROVE IInv'
  BY <1>4, DeleteStep
<1>5. ASSUME UNCHANGED vars PROVE IInv'
  <2>1. TypeOK'
    BY <1>5 DEF vars, IInv, TypeOK
  <2>2. ASSUME NEW q \in Reqs PROVE LocalInv(q)'
    BY <1>5 DEF vars, IInv, LocalInv, KindOK, SnapshotForeign, NotYetWritten,
                CancelledClean, At, Is, Live
  <2> QED  BY <2>1, <2>2 DEF IInv
<1> QED  BY <1>1, <1>2, <1>3, <1>4, <1>5 DEF Next

\* The invariant holds of every reachable state.
LEMMA Invariant == Spec => []IInv
<1> QED  BY InitEstablishes, StepPreserves, PTL DEF Spec

\* Messages, requests and the session's status keep their types.
THEOREM TypeCorrect == Spec => []TypeOK
<1>1. IInv => TypeOK
  BY DEF IInv
<1> QED  BY <1>1, Invariant, PTL

\* For any number of requests, modules and faults: a stream that ended because
\* its client left has no message left in the session, unless a deletion of its
\* rollback failed.
THEOREM CancelledStreamsLeaveNothing == Spec => []CancelledLeavesNothing
<1>1. IInv => CancelledLeavesNothing
  BY DEF IInv, LocalInv, CancelledClean, CancelledLeavesNothing
<1> QED  BY <1>1, Invariant, PTL

-------------------------------------------------------------------------------
(* Overlapping requests *)

\* A stream once its planner has run, and a request whose transaction is open.
AfterPlan == {"planned", "preparing", "hit", "generating", "applying", "pipeline", "metering"}
Timed == {"hit", "pipeline", "metering"}

\* Whose messages a request may touch.
Known(q) == {q} \cup req[q].met

Met == \A q, b \in Reqs : q # b /\ InFlight(q) /\ InFlight(b) => b \in req[q].met

\* Only a stream is told that its client left, and only it takes a snapshot.
StageOK(q) ==
  /\ req[q].gone => Is(q, "stream")
  /\ req[q].at \in {"planning", "calling"} => ~Is(q, "stream")

\* What a rollback would delete is by the stream or by a request it has met.
Spares(q) ==
  Is(q, "stream") /\ req[q].at \in AfterPlan =>
     \A i \in Live : i \in req[q].before \/ rows[i].by \in Known(q)

\* The messages of anybody else are older than those of the request.
Older(q) ==
  InFlight(q) =>
     \A i \in Live : rows[i].by \notin Known(q) =>
        /\ \A j \in Live : rows[j].by = q => rows[i].at < rows[j].at
        /\ req[q].at \in Timed => rows[i].at < req[q].txn

\* A request deletes and annotates in its last step.
Actor(q) ==
  \A i \in DOMAIN rows : q \in {rows[i].remover, rows[i].marked} => req[q].at \in Ended

LossOK(q) ==
  \A i \in DOMAIN rows : rows[i].remover = q /\ rows[i].by # q =>
     rows[i].by \in req[q].met \/ (Is(q, "continue") /\ WroteNothingLeft(q))

MarkOK(q) ==
  \A i \in DOMAIN rows : rows[i].marked = q /\ rows[i].by # q =>
     \/ rows[i].by \in req[q].met
     \/ Is(q, "continue") /\ req[q].target = i
     \/ WroteNothingLeft(q)

Overlap(q) == StageOK(q) /\ Spares(q) /\ Older(q) /\ Actor(q) /\ LossOK(q) /\ MarkOK(q)

\* A request that has still to store the session's status, or never will.
Owes(q) ==
  \/ req[q].at \in (Waiting \ {"metering"}) \cup {"cancelled", "failed", "abandoned"}
  \/ req[q].at # "idle" /\ req[q].errs

StuckInv == session = "in_progress" => \E q \in Reqs : Owes(q)

SInv == Met /\ StuckInv /\ ErasureSticks /\ \A q \in Reqs : Overlap(q)

-------------------------------------------------------------------------------
(* What a step of one request leaves of the others' *)

\* r adds messages of its own, deletes some that are left, annotates some.
Writes(s, r) ==
  /\ DOMAIN rows \subseteq DOMAIN s
  /\ \A i \in DOMAIN rows :
        /\ s[i].by = rows[i].by /\ s[i].at = rows[i].at
        /\ s[i].remover = rows[i].remover \/ (rows[i].remover = None /\ s[i].remover = r)
        /\ s[i].marked \in {rows[i].marked, r}
  /\ \A i \in DOMAIN s \ DOMAIN rows :
        s[i].by = r /\ s[i].remover = None /\ s[i].marked = None /\ ~s[i].erased

\* All a request is, but that it may meet others.
SameButMet(n, q) ==
  /\ n.at = q.at /\ n.kind = q.kind /\ n.gone = q.gone /\ n.before = q.before
  /\ n.txn = q.txn /\ n.errs = q.errs /\ n.target = q.target /\ n.kept = q.kept
  /\ q.met \subseteq n.met

LEMMA WritesLive ==
  ASSUME NEW r, Writes(rows', r)
  PROVE  \A i \in Live' : \/ i \in Live /\ rows'[i].by = rows[i].by /\ rows'[i].at = rows[i].at
                          \/ i \notin DOMAIN rows /\ rows'[i].by = r
BY DEF Writes, Live

LEMMA OverlapKept ==
  ASSUME TypeOK, NEW q \in Reqs, NEW r, q # r, Overlap(q),
         SameButMet(req'[q], req[q]), Writes(rows', r),
         DOMAIN rows' # DOMAIN rows /\ InFlight(q) => r \in req[q].met
  PROVE  Overlap(q)'
<1>1. /\ req'[q].at = req[q].at /\ req'[q].kind = req[q].kind /\ req'[q].gone = req[q].gone
      /\ req'[q].before = req[q].before /\ req'[q].txn = req[q].txn
      /\ req'[q].target = req[q].target /\ req[q].met \subseteq req'[q].met
  BY DEF SameButMet
<1>2. \A i \in Live' : \/ i \in Live /\ rows'[i].by = rows[i].by /\ rows'[i].at = rows[i].at
                       \/ i \notin DOMAIN rows /\ i \in DOMAIN rows' /\ rows'[i].by = r
  BY WritesLive DEF Live
<1>3. StageOK(q)'
  BY <1>1 DEF Overlap, StageOK, Is
<1>4. AfterPlan \subseteq Waiting
  BY DEF AfterPlan, Waiting
<1>5. Spares(q)'
  BY <1>1, <1>2, <1>4 DEF Overlap, Spares, Is, Known, InFlight
<1>6. Older(q)'
  <2> SUFFICES ASSUME InFlight(q)', NEW i \in Live', rows'[i].by \notin Known(q)'
               PROVE  /\ \A j \in Live' : rows'[j].by = q => rows'[i].at < rows'[j].at
                      /\ req'[q].at \in Timed => rows'[i].at < req'[q].txn
    BY DEF Older
  <2>1. InFlight(q) /\ Known(q) \subseteq Known(q)'
    BY <1>1 DEF InFlight, Known
  <2>2. i \in Live /\ rows'[i].by = rows[i].by /\ rows'[i].at = rows[i].at
    BY <1>2, <2>1 DEF Known
  <2>3. /\ \A j \in Live : rows[j].by = q => rows[i].at < rows[j].at
        /\ req[q].at \in Timed => rows[i].at < req[q].txn
    BY <2>1, <2>2 DEF Overlap, Older
  <2> QED  BY <1>1, <1>2, <2>2, <2>3
<1>7. \A i \in DOMAIN rows' : q \in {rows'[i].remover, rows'[i].marked} =>
         /\ i \in DOMAIN rows /\ rows'[i].by = rows[i].by
         /\ rows'[i].remover = q => rows[i].remover = q
         /\ rows'[i].marked = q => rows[i].marked = q
  BY AuthorsAssumption DEF Writes
<1>8. Actor(q)'
  BY <1>1, <1>7 DEF Overlap, Actor
<1>9. WroteNothingLeft(q) => WroteNothingLeft(q)'
  BY <1>2 DEF WroteNothingLeft
<1>10. LossOK(q)'
  BY <1>1, <1>7, <1>9 DEF Overlap, LossOK, Is
<1>11. MarkOK(q)'
  BY <1>1, <1>7, <1>9 DEF Overlap, MarkOK, Is
<1> QED  BY <1>3, <1>5, <1>6, <1>8, <1>10, <1>11 DEF Overlap

\* What a step of r may do to what the user sees: a message shows up as the
\* request had loaded it, when it ends.
Shows(s, r) ==
  \A i \in DOMAIN rows :
     /\ s[i].erased = rows[i].erased
     /\ \/ s[i].hidden = rows[i].hidden
        \/ /\ i = req'[r].target /\ s[i].hidden = req'[r].kept
           /\ req'[r].at \in {"completed", "failed"}

\* The session says "in progress" after a step of r only if r owes its status,
\* or if somebody else does as before.
StuckStep(r) ==
  session' = "in_progress" =>
     Owes(r)' \/ (session = "in_progress" /\ (Owes(r) => Owes(r)'))

\* A request in flight takes a step.
LEMMA OneSteps ==
  ASSUME TypeOK, SInv, NEW r \in Reqs, InFlight(r),
         \A q \in Reqs \ {r} : req'[q] = req[q],
         req'[r].met = req[r].met, Writes(rows', r), Shows(rows', r), StuckStep(r), Overlap(r)'
  PROVE  SInv'
<1>1. Met /\ StuckInv /\ ErasureSticks /\ \A q \in Reqs : Overlap(q)
  BY DEF SInv
<1>2. \A q \in Reqs : InFlight(q)' => InFlight(q)
  BY DEF InFlight
<1>3. \A q \in Reqs : req'[q].met = req[q].met
  OBVIOUS
<1>4. Met'
  BY <1>1, <1>2, <1>3 DEF Met
<1>5. ASSUME NEW q \in Reqs \ {r} PROVE Overlap(q)'
  <2>1. SameButMet(req'[q], req[q])
    BY DEF SameButMet
  <2>2. InFlight(q) => r \in req[q].met
    BY <1>1 DEF Met
  <2> QED  BY <1>1, <2>1, <2>2, OverlapKept
<1>6. StuckInv'
  <2> SUFFICES ASSUME session' = "in_progress", ~Owes(r)'  PROVE \E q \in Reqs : Owes(q)'
    BY DEF StuckInv
  <2>1. PICK q \in Reqs : Owes(q)
    BY <1>1 DEF StuckStep, StuckInv
  <2>2. q # r
    BY <2>1 DEF StuckStep
  <2> QED  BY <2>1, <2>2 DEF Owes
<1>7. ErasureSticks'
  <2> SUFFICES ASSUME NEW i \in Live', rows'[i].erased, ~rows'[i].hidden
               PROVE  \E q \in Reqs : /\ req'[q].target = i /\ ~req'[q].kept
                                      /\ req'[q].at \in {"completed", "failed"}
    BY DEF ErasureSticks
  <2>1. i \in Live /\ rows[i].erased
    BY DEF Live, Writes, Shows
  <2>2. CASE rows'[i].hidden = rows[i].hidden
    <3>1. PICK q \in Reqs : /\ req[q].target = i /\ ~req[q].kept
                            /\ req[q].at \in {"completed", "failed"}
      BY <1>1, <2>1, <2>2 DEF ErasureSticks
    <3>2. q # r
      BY <3>1 DEF InFlight, Waiting
    <3> QED  BY <3>1, <3>2
  <2>3. CASE rows'[i].hidden # rows[i].hidden
    BY <2>1, <2>3 DEF Shows, Live
  <2> QED  BY <2>2, <2>3
<1> QED  BY <1>4, <1>5, <1>6, <1>7 DEF SInv

\* r has not deleted or annotated anything before its end.
LEMMA NoTraceYet ==
  ASSUME NEW r \in Reqs, ~(req[r].at \in Ended), Actor(r)
  PROVE  \A i \in DOMAIN rows : rows[i].remover # r /\ rows[i].marked # r
BY DEF Actor

\* r goes on without touching the messages.
LEMMA GoesKeeps ==
  ASSUME TypeOK, SInv, NEW r \in Reqs, InFlight(r), rows' = rows,
         \A q \in Reqs \ {r} : req'[q] = req[q],
         NEW n, n = req'[r], NEW o, o = req[r],
         n.kind = o.kind, n.met = o.met, n.at \in Waiting,
         n.gone => o.gone \/ o.kind = "stream",
         n.at \in {"planning", "calling"} => o.at \in {"planning", "calling"},
         n.at \in AfterPlan =>
            \/ n.before = Live
            \/ o.at \in AfterPlan \cup {"calling"} /\ n.before = o.before,
         n.at \in Timed => n.txn = Later \/ (o.at \in Timed /\ n.txn = o.txn),
         StuckStep(r)
  PROVE  SInv'
<1>1. Overlap(r) /\ Live' = Live
  BY DEF SInv, Live
<1>2. Writes(rows', r) /\ Shows(rows', r)
  BY DEF Writes, Shows
<1>3. \A i \in DOMAIN rows : rows[i].remover # r /\ rows[i].marked # r
  <2>1. ~(req[r].at \in Ended)
    BY DEF InFlight, Waiting, Ended
  <2> QED  BY <1>1, <2>1, NoTraceYet DEF Overlap
<1>4. Actor(r)' /\ LossOK(r)' /\ MarkOK(r)'
  BY <1>3 DEF Actor, LossOK, MarkOK
<1>5. StageOK(r)'
  BY <1>1 DEF Overlap, StageOK, Is
<1>6. Spares(r)'
  BY <1>1 DEF Overlap, StageOK, Spares, Is, Known
<1>7. Older(r)'
  <2>1. \A i \in Live : rows[i].at < Later
    BY LaterIsLater
  <2> HIDE DEF Later
  <2> QED  BY <1>1, <2>1 DEF Overlap, Older, Known
<1>8. Overlap(r)'
  BY <1>4, <1>5, <1>6, <1>7 DEF Overlap
<1> QED  BY <1>2, <1>8, OneSteps

\* r ends: what it deletes and annotates in this step is all there is.
LEMMA EndKeeps ==
  ASSUME TypeOK, SInv, NEW r \in Reqs, InFlight(r),
         NEW label \in Ended, NEW botched, End(r, label, botched),
         Writes(rows', r), DOMAIN rows' = DOMAIN rows, Shows(rows', r), StuckStep(r),
         LossOK(r)', MarkOK(r)'
  PROVE  SInv'
<1>1. /\ \A q \in Reqs \ {r} : req'[q] = req[q]
      /\ req'[r].at = label /\ ~req'[r].gone /\ req'[r].met = req[r].met
  <2>1. req[r] \in Request /\ req \in [Reqs -> Request]
    BY DEF TypeOK
  <2> DEFINE n == [req[r] EXCEPT !.at = label, !.gone = FALSE, !.before = {},
                               !.todo = 0, !.txn = 0, !.botched = botched]
  <2>2. n.at = label /\ ~n.gone /\ n.met = req[r].met
    BY <2>1 DEF Request
  <2>3. req' = [req EXCEPT ![r] = n]
    BY DEF End
  <2> HIDE DEF n
  <2> QED  BY <2>1, <2>2, <2>3
<1>2. Ended \cap (Waiting \cup AfterPlan \cup {"planning", "calling"}) = {}
  BY DEF Ended, Waiting, AfterPlan
<1>3. StageOK(r)' /\ Spares(r)' /\ Older(r)' /\ Actor(r)'
  BY <1>1, <1>2 DEF StageOK, Spares, Older, Actor, InFlight
<1>4. Overlap(r)'
  BY <1>3 DEF Overlap
<1> QED  BY <1>1, <1>4, OneSteps

-------------------------------------------------------------------------------
(* The steps of a request that leave the messages alone *)

SameErrand(n, o) ==
  /\ n.kind = o.kind /\ n.met = o.met /\ n.target = o.target /\ n.kept = o.kept
  /\ n.gone = o.gone /\ n.before = o.before

LEMMA GotoSets ==
  ASSUME TypeOK, NEW r \in Reqs, NEW label, Goto(r, label)
  PROVE  /\ \A q \in Reqs \ {r} : req'[q] = req[q]
         /\ req'[r].at = label /\ SameErrand(req'[r], req[r])
         /\ req'[r].txn = req[r].txn /\ req'[r].errs = req[r].errs
<1> DEFINE n == [req[r] EXCEPT !.at = label]
<1>1. req[r] \in Request /\ req \in [Reqs -> Request]
  BY DEF TypeOK
<1>2. n.at = label /\ SameErrand(n, req[r]) /\ n.txn = req[r].txn /\ n.errs = req[r].errs
  BY <1>1 DEF Request, SameErrand
<1>3. req' = [req EXCEPT ![r] = n]
  BY DEF Goto
<1> HIDE DEF n
<1> QED  BY <1>1, <1>2, <1>3

LEMMA ToPipelineSets ==
  ASSUME TypeOK, NEW r \in Reqs, NEW label, NEW failed \in BOOLEAN,
         ToPipeline(r, label, failed)
  PROVE  /\ \A q \in Reqs \ {r} : req'[q] = req[q]
         /\ req'[r].at = label /\ SameErrand(req'[r], req[r])
         /\ req'[r].txn = Later
<1> DEFINE n == [req[r] EXCEPT !.at = label, !.txn = Later, !.errs = failed]
<1>1. req[r] \in Request /\ req \in [Reqs -> Request]
  BY DEF TypeOK
<1>2. n.at = label /\ SameErrand(n, req[r]) /\ n.txn = Later
  <2> HIDE DEF Later
  <2> QED  BY <1>1 DEF Request, SameErrand
<1>3. req' = [req EXCEPT ![r] = n]
  BY DEF ToPipeline
<1> HIDE DEF n
<1> QED  BY <1>1, <1>2, <1>3

\* A Goto or the opening of a transaction, before the last stage of a turn.
LEMMA MovesKeep ==
  ASSUME TypeOK, SInv, NEW r \in Reqs, InFlight(r), rows' = rows,
         NEW label \in Waiting \ {"planning", "metering"},
         label \in AfterPlan => req[r].at \in AfterPlan \cup {"calling"},
         label = "calling" => req[r].at = "planning",
         \/ /\ Goto(r, label)
            /\ label \in Timed => req[r].at \in Timed
         \/ \E failed \in BOOLEAN : ToPipeline(r, label, failed)
  PROVE  SInv'
<1>1. /\ \A q \in Reqs \ {r} : req'[q] = req[q]
      /\ req'[r].at = label /\ SameErrand(req'[r], req[r])
      /\ label \in Timed =>
            req'[r].txn = Later \/ (req[r].at \in Timed /\ req'[r].txn = req[r].txn)
  BY GotoSets, ToPipelineSets
<1>2. Owes(r)'
  BY <1>1 DEF Owes
<1>3. PICK n, o : n = req'[r] /\ o = req[r]
  OBVIOUS
<1>4. SameErrand(n, o) /\ n.at = label
  BY <1>1, <1>3
<1>5. StuckStep(r)
  BY <1>2 DEF StuckStep
<1> HIDE DEF Later
<1> QED  BY <1>1, <1>3, <1>4, <1>5, GoesKeeps DEF SameErrand

LEMMA PlanStreamKeeps ==
  ASSUME TypeOK, SInv, NEW r \in Reqs, PlanStream(r)
  PROVE  SInv'
<1> DEFINE n == [req[r] EXCEPT !.at = "planned", !.before = Live, !.todo = Modules]
<1>1. req[r] \in Request /\ req \in [Reqs -> Request]
  BY DEF TypeOK
<1>2. /\ n.at = "planned" /\ n.before = Live /\ n.gone = req[r].gone
      /\ n.kind = req[r].kind /\ n.met = req[r].met
  <2> HIDE DEF Live
  <2> QED  BY <1>1 DEF Request
<1>3. req' = [req EXCEPT ![r] = n] /\ rows' = rows
  BY DEF PlanStream, Snapshot
<1> HIDE DEF n
<1>4. /\ \A q \in Reqs \ {r} : req'[q] = req[q]
      /\ req'[r] = n
  BY <1>1, <1>3
<1>5. StuckStep(r)
  BY <1>2, <1>4 DEF StuckStep, Owes, Waiting
<1>6. "planned" \in Waiting /\ "planned" \notin Timed \cup {"planning", "calling"}
  BY DEF Waiting, Timed
<1>7. InFlight(r)
  BY DEF PlanStream, InFlight, At, Waiting
<1> QED  BY <1>2, <1>3, <1>4, <1>5, <1>6, <1>7, GoesKeeps

LEMMA DisconnectKeeps ==
  ASSUME TypeOK, SInv, NEW r \in Reqs, Disconnect(r)
  PROVE  SInv'
<1> DEFINE n == [req[r] EXCEPT !.gone = TRUE]
<1>1. req[r] \in Request /\ req \in [Reqs -> Request]
  BY DEF TypeOK
<1>2. /\ n.at = req[r].at /\ n.before = req[r].before /\ n.txn = req[r].txn
      /\ n.kind = req[r].kind /\ n.met = req[r].met /\ n.errs = req[r].errs
  BY <1>1 DEF Request
<1>3. req' = [req EXCEPT ![r] = n] /\ rows' = rows /\ session' = session
      /\ InFlight(r) /\ req[r].kind = "stream"
  BY DEF Disconnect, Is
<1> HIDE DEF n
<1>4. /\ \A q \in Reqs \ {r} : req'[q] = req[q]
      /\ req'[r] = n
  BY <1>1, <1>3
<1>5. StuckStep(r)
  BY <1>2, <1>3, <1>4 DEF StuckStep, Owes
<1>6. req[r].at \in Waiting
  BY <1>3 DEF InFlight
<1> QED  BY <1>2, <1>3, <1>4, <1>5, <1>6, GoesKeeps

LEMMA PersistKeeps ==
  ASSUME TypeOK, SInv, NEW r \in Reqs, Persist(r)
  PROVE  SInv'
<1>1. req[r] \in Request /\ req \in [Reqs -> Request]
  BY DEF TypeOK
<1>2. rows' = rows /\ At(r, "pipeline")
  BY DEF Persist, Proceeds
<1>3. /\ \A q \in Reqs \ {r} : req'[q] = req[q]
      /\ req'[r].at = "metering" /\ SameErrand(req'[r], req[r])
      /\ req'[r].txn = req[r].txn
      /\ session' # "in_progress" \/ req'[r].errs
  <2>1. CASE Goto(r, "metering") /\ session' = IF req[r].errs THEN "failed" ELSE "completed"
    BY <2>1, GotoSets
  <2>2. CASE req' = [req EXCEPT ![r].at = "metering", ![r].errs = TRUE]
    <3> DEFINE n == [req[r] EXCEPT !.at = "metering", !.errs = TRUE]
    <3>1. n.at = "metering" /\ SameErrand(n, req[r]) /\ n.txn = req[r].txn /\ n.errs
      BY <1>1 DEF Request, SameErrand
    <3>2. req' = [req EXCEPT ![r] = n]
      BY <2>2
    <3> HIDE DEF n
    <3> QED  BY <1>1, <3>1, <3>2
  <2> QED  BY <2>1, <2>2 DEF Persist
<1>4. StuckStep(r)
  BY <1>3 DEF StuckStep, Owes
<1>5. PICK n, o : n = req'[r] /\ o = req[r]
  OBVIOUS
<1>6. /\ "metering" \in Waiting /\ "metering" \notin {"planning", "calling"}
      /\ o.at \in AfterPlan \cap Timed /\ InFlight(r)
  BY <1>2, <1>5 DEF Waiting, AfterPlan, Timed, At, InFlight
<1>7. SameErrand(n, o) /\ n.at = "metering" /\ n.txn = o.txn
  BY <1>3, <1>5
<1> QED  BY <1>2, <1>3, <1>4, <1>5, <1>6, <1>7, GoesKeeps DEF SameErrand

\* A request that ends without touching the messages.
LEMMA QuietEnd ==
  ASSUME TypeOK, SInv, NEW r \in Reqs, InFlight(r), rows' = rows,
         NEW label \in Ended \ {"completed"}, NEW botched, End(r, label, botched)
  PROVE  SInv'
<1>1. req'[r].at = label
  <2>1. req[r] \in Request /\ req \in [Reqs -> Request]
    BY DEF TypeOK
  <2> DEFINE n == [req[r] EXCEPT !.at = label, !.gone = FALSE, !.before = {},
                               !.todo = 0, !.txn = 0, !.botched = botched]
  <2>2. n.at = label
    BY <2>1 DEF Request
  <2>3. req' = [req EXCEPT ![r] = n]
    BY DEF End
  <2> HIDE DEF n
  <2> QED  BY <2>1, <2>2, <2>3
<1>2. Writes(rows', r) /\ Shows(rows', r) /\ DOMAIN rows' = DOMAIN rows
  BY DEF Writes, Shows
<1>3. \A i \in DOMAIN rows : rows[i].remover # r /\ rows[i].marked # r
  <2>1. ~(req[r].at \in Ended) /\ Actor(r)
    BY DEF InFlight, Waiting, Ended, SInv, Overlap
  <2> QED  BY <2>1, NoTraceYet
<1>4. LossOK(r)' /\ MarkOK(r)'
  BY <1>3 DEF LossOK, MarkOK
<1>5. StuckStep(r)
  BY <1>1 DEF StuckStep, Owes, Ended
<1> QED  BY <1>2, <1>4, <1>5, EndKeeps

\* The steps of the planner and of the model.
LEMMA QuietKeeps ==
  ASSUME TypeOK, SInv, NEW r \in Reqs,
         \/ Abandon(r) \/ PlanChat(r) \/ PlanFails(r) \/ CheckPlanned(r)
         \/ \E hit \in BOOLEAN : TryCache(r, hit)
         \/ Checked(r) \/ Applied(r) \/ CallFails(r)
  PROVE  SInv'
<1>1. /\ {"abandoned", "failed", "cancelled"} \subseteq Ended \ {"completed"}
      /\ {"calling", "preparing", "hit", "generating", "applying", "pipeline"}
            \subseteq Waiting \ {"planning", "metering"}
  BY DEF Ended, Waiting
<1>2. FALSE \in BOOLEAN /\ TRUE \in BOOLEAN
  OBVIOUS
<1>3. CASE Abandon(r) \/ PlanFails(r)
  <2>1. /\ InFlight(r) /\ rows' = rows
        /\ End(r, "abandoned", FALSE) \/ End(r, "failed", FALSE)
    BY <1>3 DEF Abandon, PlanFails, InFlight, Waiting
  <2> QED  BY <1>1, <2>1, QuietEnd
<1>4. CASE PlanChat(r)
  <2>1. /\ InFlight(r) /\ rows' = rows /\ Goto(r, "calling") /\ req[r].at = "planning"
        /\ "calling" \notin AfterPlan \cup Timed
    BY <1>4 DEF PlanChat, InFlight, Waiting, At, AfterPlan, Timed
  <2> QED  BY <1>1, <2>1, MovesKeep
<1>5. CASE CheckPlanned(r)
  <2>1. /\ InFlight(r) /\ rows' = rows /\ req[r].at \in AfterPlan
        /\ "preparing" \notin Timed
        /\ End(r, "cancelled", FALSE) \/ Goto(r, "preparing")
    BY <1>5 DEF CheckPlanned, InFlight, Waiting, At, AfterPlan, Timed
  <2> QED  BY <1>1, <2>1, QuietEnd, MovesKeep
<1>6. CASE \E hit \in BOOLEAN : TryCache(r, hit)
  <2>1. /\ InFlight(r) /\ rows' = rows /\ req[r].at \in AfterPlan
        /\ "generating" \notin Timed
        /\ ToPipeline(r, "hit", FALSE) \/ Goto(r, "generating")
    BY <1>6 DEF TryCache, InFlight, Waiting, At, AfterPlan, Timed
  <2> QED  BY <1>1, <1>2, <2>1, MovesKeep
<1>7. CASE Checked(r)
  <2>1. /\ InFlight(r) /\ rows' = rows /\ req[r].at \in AfterPlan
        /\ "applying" \notin Timed
        /\ Goto(r, "applying") \/ (Goto(r, "pipeline") /\ req[r].at \in Timed)
    BY <1>7 DEF Checked, InFlight, Waiting, At, AfterPlan, Timed
  <2> QED  BY <1>1, <2>1, MovesKeep
<1>8. CASE Applied(r)
  <2>1. /\ InFlight(r) /\ rows' = rows /\ req[r].at \in AfterPlan \cup {"calling"}
        /\ ToPipeline(r, "pipeline", FALSE)
    BY <1>8 DEF Applied, InFlight, Waiting, AfterPlan
  <2> QED  BY <1>1, <1>2, <2>1, MovesKeep
<1>9. CASE CallFails(r)
  <2>1. /\ InFlight(r) /\ rows' = rows /\ req[r].at \in AfterPlan \cup {"calling"}
        /\ End(r, "failed", FALSE) \/ ToPipeline(r, "pipeline", TRUE)
    BY <1>9 DEF CallFails, InFlight, Waiting, AfterPlan
  <2> QED  BY <1>1, <1>2, <2>1, QuietEnd, MovesKeep
<1> QED  BY <1>3, <1>4, <1>5, <1>6, <1>7, <1>8, <1>9

-------------------------------------------------------------------------------
(* The steps of a request that change messages *)

\* A message is added at the time the request's transaction opened, which is
\* later than those of everybody it has not met.
LEMMA RunModuleKeeps ==
  ASSUME TypeOK, SInv, NEW r \in Reqs, NEW stored \in BOOLEAN, NEW ok \in BOOLEAN,
         RunModule(r, stored, ok)
  PROVE  SInv'
<1> DEFINE n == [req[r] EXCEPT !.todo = @ - 1, !.txn = Later, !.errs = @ \/ ~ok]
           m == Message(r, req[r].txn, "none")
<1>1. req[r] \in Request /\ req \in [Reqs -> Request] /\ rows \in Seq(Row)
  BY DEF TypeOK
<1>2. n.at = req[r].at /\ SameErrand(n, req[r]) /\ n.txn = Later
  <2> HIDE DEF Later
  <2> QED  BY <1>1 DEF Request, SameErrand
<1>3. req' = [req EXCEPT ![r] = n] /\ session' = session
      /\ (rows' = rows \/ rows' = Append(rows, m)) /\ req[r].at = "pipeline"
  BY DEF RunModule, Proceeds, At
<1>4. /\ m.by = r /\ m.at = req[r].txn /\ m.remover = None /\ m.marked = None
      /\ ~m.erased
  BY DEF Message
<1> HIDE DEF n, m
<1>5. /\ \A q \in Reqs \ {r} : req'[q] = req[q]
      /\ req'[r] = n /\ InFlight(r)
  BY <1>1, <1>3 DEF InFlight, Waiting
<1>6. /\ DOMAIN rows \subseteq DOMAIN rows'
      /\ \A i \in DOMAIN rows : rows'[i] = rows[i]
      /\ \A i \in DOMAIN rows' \ DOMAIN rows : rows'[i] = m
  <2>1. CASE rows' = rows
    BY <2>1
  <2>2. CASE rows' = Append(rows, m)
    <3>1. /\ Len(rows) \in Nat /\ DOMAIN rows = 1..Len(rows)
          /\ DOMAIN rows' = 1..(Len(rows) + 1)
          /\ rows'[Len(rows) + 1] = m
          /\ \A i \in 1..Len(rows) : rows'[i] = rows[i]
      BY <1>1, <2>2
    <3> QED  BY <3>1
  <2> QED  BY <1>3, <2>1, <2>2
<1>7. Writes(rows', r) /\ Shows(rows', r)
  BY <1>4, <1>6 DEF Writes, Shows
<1>8. \A i \in Live' : \/ i \in Live /\ rows'[i] = rows[i]
                       \/ rows'[i] = m
  BY <1>6 DEF Live
<1>9. Overlap(r)
  BY DEF SInv
<1>10. \A i \in DOMAIN rows : rows[i].remover # r /\ rows[i].marked # r
  <2>1. ~(req[r].at \in Ended) /\ Actor(r)
    BY <1>3, <1>9 DEF Ended, Overlap
  <2> QED  BY <2>1, NoTraceYet
<1>11. \A i \in DOMAIN rows' : rows'[i].remover # r /\ rows'[i].marked # r
  BY <1>4, <1>6, <1>10, AuthorsAssumption
<1>12. Actor(r)' /\ LossOK(r)' /\ MarkOK(r)'
  BY <1>11 DEF Actor, LossOK, MarkOK
<1>13. StageOK(r)'
  BY <1>2, <1>3, <1>5, <1>9 DEF Overlap, StageOK, SameErrand, Is
<1>14. Spares(r)'
  BY <1>2, <1>3, <1>4, <1>5, <1>8, <1>9
     DEF Overlap, Spares, SameErrand, Is, Known, AfterPlan
<1>15. Older(r)'
  <2> SUFFICES ASSUME NEW i \in Live', rows'[i].by \notin Known(r)'
               PROVE  /\ \A j \in Live' : rows'[j].by = r => rows'[i].at < rows'[j].at
                      /\ rows'[i].at < req'[r].txn
    BY DEF Older
  <2>1. i \in Live /\ rows'[i] = rows[i] /\ rows[i].by \notin Known(r)
    BY <1>2, <1>4, <1>5, <1>8 DEF Known, SameErrand
  <2>2. /\ \A j \in Live : rows[j].by = r => rows[i].at < rows[j].at
        /\ rows[i].at < req[r].txn
    BY <1>3, <1>5, <1>9, <2>1 DEF Overlap, Older, Timed
  <2>3. rows[i].at < Later
    BY <2>1, LaterIsLater
  <2> HIDE DEF Later
  <2> QED  BY <1>2, <1>4, <1>5, <1>8, <2>1, <2>2, <2>3
<1>16. Overlap(r)'
  BY <1>12, <1>13, <1>14, <1>15 DEF Overlap
<1>17. StuckStep(r)
  BY <1>2, <1>3, <1>5 DEF StuckStep, Owes, Waiting
<1>18. req'[r].met = req[r].met
  BY <1>2, <1>5 DEF SameErrand
<1> QED  BY <1>5, <1>7, <1>16, <1>17, <1>18, OneSteps

LEMMA DeletedSets ==
  ASSUME TypeOK, NEW r, NEW S
  PROVE  /\ DOMAIN Deleted(r, S) = DOMAIN rows
         /\ \A i \in DOMAIN rows :
               LET x == Deleted(r, S)[i]
               IN  /\ x.by = rows[i].by /\ x.at = rows[i].at /\ x.erased = rows[i].erased
                   /\ x.hidden = rows[i].hidden /\ x.marked = rows[i].marked
                   /\ x.remover = IF i \in S THEN r ELSE rows[i].remover
<1>1. DOMAIN Deleted(r, S) = DOMAIN rows
  BY DEF Deleted
<1>2. ASSUME NEW i \in DOMAIN rows
      PROVE  LET x == Deleted(r, S)[i]
             IN  /\ x.by = rows[i].by /\ x.at = rows[i].at /\ x.erased = rows[i].erased
                 /\ x.hidden = rows[i].hidden /\ x.marked = rows[i].marked
                 /\ x.remover = IF i \in S THEN r ELSE rows[i].remover
  <2>1. PICK m \in Row : m = rows[i]
    BY DEF TypeOK
  <2>2. PICK x : x = [m EXCEPT !.remover = r]
    OBVIOUS
  <2>3. /\ x.by = m.by /\ x.at = m.at /\ x.erased = m.erased
        /\ x.hidden = m.hidden /\ x.marked = m.marked /\ x.remover = r
    BY <2>2 DEF Row
  <2>4. Deleted(r, S)[i] = IF i \in S THEN x ELSE m
    BY <2>1, <2>2 DEF Deleted
  <2> QED  BY <2>1, <2>3, <2>4
<1> QED  BY <1>1, <1>2

LEMMA AnnotatedSets ==
  ASSUME TypeOK, NEW r, NEW i \in DOMAIN rows, NEW status, NEW hidden
  PROVE  /\ DOMAIN Annotated(r, i, status, hidden) = DOMAIN rows
         /\ \A j \in DOMAIN rows :
               LET x == Annotated(r, i, status, hidden)[j]
               IN  /\ x.by = rows[j].by /\ x.at = rows[j].at /\ x.erased = rows[j].erased
                   /\ x.remover = rows[j].remover
                   /\ x.hidden = IF j = i THEN hidden ELSE rows[j].hidden
                   /\ x.marked = IF j = i THEN r ELSE rows[j].marked
<1>1. PICK m \in Row : m = rows[i]
  BY DEF TypeOK
<1>2. PICK x : x = [m EXCEPT !.status = status, !.hidden = hidden, !.marked = r]
  OBVIOUS
<1>3. /\ x.by = m.by /\ x.at = m.at /\ x.erased = m.erased
      /\ x.hidden = hidden /\ x.marked = r /\ x.remover = m.remover
  BY <1>2 DEF Row
<1>4. Annotated(r, i, status, hidden) = [rows EXCEPT ![i] = x]
  BY <1>1, <1>2 DEF Annotated
<1>5. /\ DOMAIN Annotated(r, i, status, hidden) = DOMAIN rows
      /\ \A j \in DOMAIN rows :
            Annotated(r, i, status, hidden)[j] = IF j = i THEN x ELSE rows[j]
  BY <1>4
<1> QED  BY <1>1, <1>3, <1>5

LEMMA EndSets ==
  ASSUME TypeOK, NEW r \in Reqs, NEW label, NEW botched, End(r, label, botched)
  PROVE  /\ req'[r].at = label /\ req'[r].kind = req[r].kind /\ req'[r].met = req[r].met
         /\ req'[r].target = req[r].target /\ req'[r].kept = req[r].kept
         /\ req'[r].errs = req[r].errs
<1> DEFINE n == [req[r] EXCEPT !.at = label, !.gone = FALSE, !.before = {},
                               !.todo = 0, !.txn = 0, !.botched = botched]
<1>1. req[r] \in Request /\ req \in [Reqs -> Request]
  BY DEF TypeOK
<1>2. /\ n.at = label /\ n.kind = req[r].kind /\ n.met = req[r].met
      /\ n.target = req[r].target /\ n.kept = req[r].kept /\ n.errs = req[r].errs
  BY <1>1 DEF Request
<1>3. req' = [req EXCEPT ![r] = n]
  BY DEF End
<1> HIDE DEF n
<1> QED  BY <1>1, <1>2, <1>3

\* A rollback deletes what is not in the stream's snapshot.
LEMMA CancelKeeps ==
  ASSUME TypeOK, SInv, NEW r \in Reqs, Cancel(r)
  PROVE  SInv'
<1>1. Overlap(r) /\ req[r].gone /\ req[r].at \in {"hit", "generating", "pipeline"}
  BY DEF SInv, Cancel
<1>2. PICK S, botched : /\ S \subseteq Created(r) /\ rows' = Deleted(r, S)
                        /\ End(r, "cancelled", botched)
  <2>1. CASE rows' = Deleted(r, Created(r)) /\ End(r, "cancelled", FALSE)
    BY <2>1
  <2>2. ASSUME NEW i \in Created(r), rows' = Deleted(r, Created(r) \ {i}),
               End(r, "cancelled", TRUE)
        PROVE  \E S, botched : /\ S \subseteq Created(r) /\ rows' = Deleted(r, S)
                               /\ End(r, "cancelled", botched)
    <3>1. Created(r) \ {i} \subseteq Created(r)
      OBVIOUS
    <3> QED  BY <2>2, <3>1
  <2> QED  BY <2>1, <2>2 DEF Cancel
<1>3. \A i \in S : i \in Live /\ i \notin req[r].before
  BY <1>2 DEF Created
<1>4. \A i \in S : i \in Live /\ rows[i].by \in Known(r)
  BY <1>1, <1>3 DEF Overlap, StageOK, Spares, AfterPlan
<1>5. /\ DOMAIN rows' = DOMAIN rows
      /\ \A i \in DOMAIN rows :
            /\ rows'[i].by = rows[i].by /\ rows'[i].at = rows[i].at
            /\ rows'[i].erased = rows[i].erased
            /\ rows'[i].hidden = rows[i].hidden /\ rows'[i].marked = rows[i].marked
            /\ rows'[i].remover = IF i \in S THEN r ELSE rows[i].remover
  BY <1>2, DeletedSets
<1>6. Writes(rows', r) /\ Shows(rows', r)
  BY <1>4, <1>5 DEF Writes, Shows, Live
<1>7. req'[r].at = "cancelled" /\ req'[r].met = req[r].met
  BY <1>2, EndSets
<1>8. \A i \in DOMAIN rows : rows[i].remover # r /\ rows[i].marked # r
  <2>1. ~(req[r].at \in Ended)
    BY <1>1 DEF Ended
  <2> QED  BY <1>1, <2>1, NoTraceYet DEF Overlap
<1>9. LossOK(r)'
  BY <1>4, <1>5, <1>7, <1>8 DEF LossOK, Known
<1>10. MarkOK(r)'
  BY <1>5, <1>8 DEF MarkOK
<1>11. StuckStep(r)
  BY <1>7 DEF StuckStep, Owes
<1>12. InFlight(r) /\ "cancelled" \in Ended
  BY <1>1 DEF InFlight, Waiting, Ended
<1> QED  BY <1>2, <1>5, <1>6, <1>9, <1>10, <1>11, <1>12, EndKeeps

\* What the end of a turn commits: it annotates the latest message, or merges it
\* into the target of a continue and deletes it.
LastWrites(s, r) ==
  /\ DOMAIN s = DOMAIN rows
  /\ \A i \in DOMAIN rows :
        /\ s[i].by = rows[i].by /\ s[i].at = rows[i].at /\ s[i].erased = rows[i].erased
        /\ \/ s[i].remover = rows[i].remover
           \/ s[i].remover = r /\ i \in Live /\ i = Latest /\ Is(r, "continue")
        /\ \/ s[i].marked = rows[i].marked
           \/ s[i].marked = r /\ (i = Latest \/ (Is(r, "continue") /\ i = req[r].target))
        /\ \/ s[i].hidden = rows[i].hidden
           \/ i = req[r].target /\ s[i].hidden = req[r].kept

\* The latest message is a known one's if the request has any of its own left.
LEMMA LatestIsKnown ==
  ASSUME TypeOK, NEW r \in Reqs, InFlight(r), Older(r), NEW i \in Live, i = Latest
  PROVE  rows[i].by \in Known(r) \/ WroteNothingLeft(r)
<1> SUFFICES ASSUME rows[i].by \notin Known(r), NEW j \in Live, rows[j].by = r
             PROVE  FALSE
  BY DEF WroteNothingLeft
<1>1. rows[i].at < rows[j].at
  BY DEF Older
<1>2. rows[j].at <= rows[i].at
  BY LatestIsNewest
<1>3. rows[i].at \in Nat /\ rows[j].at \in Nat
  BY LiveIsFinite
<1> QED  BY <1>1, <1>2, <1>3

LEMMA LastStepKeeps ==
  ASSUME TypeOK, SInv, NEW r \in Reqs, At(r, "metering"),
         NEW label \in {"completed", "failed"}, End(r, label, FALSE),
         LastWrites(rows', r), session' = session
  PROVE  SInv'
<1>1. Overlap(r) /\ InFlight(r) /\ ~(req[r].at \in Ended) /\ label \in Ended
  BY DEF SInv, InFlight, At, Waiting, Ended
<1>2. /\ req'[r].at = label /\ req'[r].kind = req[r].kind /\ req'[r].met = req[r].met
      /\ req'[r].target = req[r].target /\ req'[r].kept = req[r].kept
      /\ req'[r].errs = req[r].errs
  BY EndSets
<1>3. Writes(rows', r) /\ Shows(rows', r) /\ DOMAIN rows' = DOMAIN rows
  BY <1>2 DEF LastWrites, Writes, Shows, Live
<1>4. \A i \in DOMAIN rows : rows[i].remover # r /\ rows[i].marked # r
  BY <1>1, NoTraceYet DEF Overlap
<1>5. \A i \in DOMAIN rows : i = Latest => i \in Live
  <2>1. \A i \in DOMAIN rows : i # 0
    BY DEF TypeOK
  <2> QED  BY <2>1, LatestIsNewest
<1>6. \A i \in Live : i = Latest => rows[i].by \in Known(r) \/ WroteNothingLeft(r)
  BY <1>1, LatestIsKnown DEF Overlap
<1>7. WroteNothingLeft(r) => WroteNothingLeft(r)'
  BY <1>3, WritesLive DEF WroteNothingLeft, Live
<1> HIDE DEF Latest
<1>8. LossOK(r)'
  BY <1>2, <1>4, <1>6, <1>7 DEF LossOK, LastWrites, Known, Is
<1>9. MarkOK(r)'
  BY <1>2, <1>4, <1>5, <1>6, <1>7 DEF MarkOK, LastWrites, Known, Is
<1>10. StuckStep(r)
  BY <1>2 DEF StuckStep, Owes, At
<1> QED  BY <1>1, <1>3, <1>8, <1>9, <1>10, EndKeeps

\* An annotation of the latest message, or of the target of a continue.
LEMMA AnnotationIsLast ==
  ASSUME TypeOK, NEW r \in Reqs, NEW i \in Live, NEW status, NEW hidden,
         i = Latest \/ (Is(r, "continue") /\ i = req[r].target),
         hidden = rows[i].hidden \/ (i = req[r].target /\ hidden = req[r].kept)
  PROVE  LastWrites(Annotated(r, i, status, hidden), r)
<1>1. i \in DOMAIN rows
  BY DEF Live
<1>2. PICK s : s = Annotated(r, i, status, hidden)
  OBVIOUS
<1>3. /\ DOMAIN s = DOMAIN rows
      /\ \A j \in DOMAIN rows :
            /\ s[j].by = rows[j].by /\ s[j].at = rows[j].at /\ s[j].erased = rows[j].erased
            /\ s[j].remover = rows[j].remover
            /\ s[j].hidden = IF j = i THEN hidden ELSE rows[j].hidden
            /\ s[j].marked = IF j = i THEN r ELSE rows[j].marked
  BY <1>1, <1>2, AnnotatedSets
<1> HIDE DEF Latest
<1> QED  BY <1>2, <1>3 DEF LastWrites

LEMMA EndWritesAreLast ==
  ASSUME TypeOK, NEW r \in Reqs, KindOK(r), At(r, "metering"),
         NEW status, EndStatus(r, status), Is(r, "continue") => CanMerge(r)
  PROVE  /\ LastWrites(rows, r)
         /\ LastWrites(Last(EndWrites(r, status)), r)
         /\ \A s \in Range(EndWrites(r, status)) : LastWrites(s, r)
<1>1. LastWrites(rows, r)
  BY DEF LastWrites
<1>2. req[r].kind \in {"stream", "continue", "redo"}
  BY DEF TypeOK, Request, KindOK, At, Is
<1>3. Latest # 0 => Latest \in Live
  BY LatestIsNewest
<1>4. ASSUME Latest # 0 PROVE LatestHidden = rows[Latest].hidden
  <2>1. PICK b \in BOOLEAN : b = rows[Latest].hidden
    <3>1. rows[Latest] \in Row
      BY <1>3, <1>4 DEF TypeOK, Live
    <3> QED  BY <3>1 DEF Row
  <2>2. CASE b = TRUE
    BY <1>4, <2>1, <2>2 DEF LatestHidden
  <2>3. CASE b = FALSE
    BY <1>4, <2>1, <2>3 DEF LatestHidden
  <2> QED  BY <2>2, <2>3
<1>5. CASE Is(r, "stream")
  <2>1. LastWrites(MarkStream(r, status), r)
    <3> HIDE DEF Latest
    <3> QED  BY <1>1, <1>3, <1>4, AnnotationIsLast DEF MarkStream, Mark
  <2>2. EndWrites(r, status) = <<MarkStream(r, status)>>
    BY <1>5 DEF EndWrites, Is
  <2> QED  BY <1>1, <2>1, <2>2 DEF Last, Range
<1>6. CASE Is(r, "redo")
  <2>1. LastWrites(MarkRedo(r), r)
    <3> DEFINE h == IF Latest = req[r].target THEN req[r].kept ELSE LatestHidden
    <3>1. MarkRedo(r) = IF Latest = 0 THEN rows ELSE Annotated(r, Latest, "completed", h)
      BY DEF MarkRedo, Mark
    <3>2. Latest # 0 => h = rows[Latest].hidden \/ (Latest = req[r].target /\ h = req[r].kept)
      BY <1>4
    <3> HIDE DEF h, Latest
    <3> QED  BY <1>1, <1>3, <3>1, <3>2, AnnotationIsLast
  <2>2. EndWrites(r, status) = <<MarkRedo(r)>>
    BY <1>6 DEF EndWrites, Is
  <2> QED  BY <1>1, <2>1, <2>2 DEF Last, Range
<1>7. CASE Is(r, "continue")
  <2>1. Latest # 0 => req[r].target \in Live
    BY <1>7 DEF CanMerge
  <2>2. LastWrites(Merged(r), r)
    <3> HIDE DEF Latest
    <3> QED  BY <1>1, <1>7, <2>1, AnnotationIsLast DEF Merged
  <2>3. LastWrites(MergedAndDeleted(r), r)
    <3>1. PICK t : t = Merged(r)
      OBVIOUS
    <3>2. PICK d : d = [i \in DOMAIN rows |-> Deleted(r, {i})[i]]
      OBVIOUS
    <3>3. \A i \in DOMAIN rows :
             /\ d[i].by = rows[i].by /\ d[i].at = rows[i].at /\ d[i].erased = rows[i].erased
             /\ d[i].hidden = rows[i].hidden /\ d[i].marked = rows[i].marked
             /\ d[i].remover = r
      <4> TAKE i \in DOMAIN rows
      <4>1. d[i] = Deleted(r, {i})[i]
        BY <3>2
      <4> QED  BY <4>1, DeletedSets
    <3>4. PICK s : s = MergedAndDeleted(r)
      OBVIOUS
    <3>5. /\ DOMAIN s = DOMAIN rows
          /\ \A i \in DOMAIN rows : s[i] = IF i = Latest /\ i # req[r].target THEN d[i] ELSE t[i]
      BY <3>1, <3>2, <3>4 DEF MergedAndDeleted
    <3>6. \A i \in DOMAIN rows : i = Latest => i \in Live
      <4>1. \A i \in DOMAIN rows : i # 0
        BY DEF TypeOK
      <4> QED  BY <1>3, <4>1
    <3>7. LastWrites(t, r)
      BY <2>2, <3>1
    <3> HIDE DEF Latest
    <3>8. LastWrites(s, r)
      BY <1>7, <3>3, <3>5, <3>6, <3>7 DEF LastWrites
    <3> QED  BY <3>4, <3>8
  <2>4. EndWrites(r, status) = <<Merged(r), MergedAndDeleted(r)>>
    BY <1>7 DEF EndWrites, Is
  <2> QED  BY <1>1, <2>2, <2>3, <2>4 DEF Last, Range
<1> QED  BY <1>1, <1>2, <1>5, <1>6, <1>7 DEF Is

LEMMA CompleteKeeps ==
  ASSUME TypeOK, SInv, NEW r \in Reqs, KindOK(r), NEW status,
         Complete(r, status) \/ CompleteFails(r, status)
  PROVE  SInv'
<1>1. At(r, "metering") /\ EndStatus(r, status) /\ session' = session
  BY DEF Complete, CompleteFails
<1>2. LastWrites(rows, r)
  BY DEF LastWrites
<1>3. /\ LastWrites(rows', r)
      /\ End(r, "completed", FALSE) \/ End(r, "failed", FALSE)
  <2>1. CASE Complete(r, status)
    BY <1>1, <2>1, EndWritesAreLast DEF Complete
  <2>2. CASE CompleteFails(r, status)
    BY <1>1, <1>2, <2>2, EndWritesAreLast DEF CompleteFails
  <2> QED  BY <2>1, <2>2
<1> QED  BY <1>1, <1>3, LastStepKeeps

-------------------------------------------------------------------------------
(* A request begins, a message is deleted *)

LEMMA BeginKeeps ==
  ASSUME TypeOK, SInv, NEW r \in Reqs, NotYetWritten(r), NEW local \in Request,
         local.at \in {"thinking", "planning"}, ~local.gone,
         local.at = "planning" => local.kind # "stream",
         Begin(r, local), UNCHANGED <<rows, session, faults>>
  PROVE  SInv'
<1> DEFINE others == {q \in Reqs \ {r} : InFlight(q)}
           n == [local EXCEPT !.met = others]
           m(q) == [req[q] EXCEPT !.met = @ \cup {r}]
           new(q) == IF q = r THEN n ELSE IF q \in others THEN m(q) ELSE req[q]
<1>1. Met /\ StuckInv /\ ErasureSticks /\ (\A q \in Reqs : Overlap(q)) /\ At(r, "idle")
  BY DEF SInv, Begin
<1>2. req' = [q \in Reqs |-> new(q)]
  BY DEF Begin
<1>3. n.at = local.at /\ n.kind = local.kind /\ ~n.gone /\ n.met = others
  <2> HIDE DEF others
  <2> QED  BY DEF Request
<1>4. ASSUME NEW q \in Reqs
      PROVE  SameButMet(m(q), req[q]) /\ r \in m(q).met
  <2>1. req[q] \in Request
    BY DEF TypeOK
  <2> QED  BY <2>1 DEF Request, SameButMet
<1>5. ASSUME NEW q \in Reqs, q # r
      PROVE  SameButMet(new(q), req[q]) /\ (InFlight(q) => r \in new(q).met)
  <2>1. SameButMet(req[q], req[q])
    BY DEF SameButMet
  <2>2. InFlight(q) => q \in others
    BY <1>5
  <2> HIDE DEF n, m, others
  <2> QED  BY <1>4, <1>5, <2>1, <2>2
<1>6. new(r) = n
  OBVIOUS
<1> HIDE DEF new, n, m
<1>7. /\ req'[r] = n
      /\ \A q \in Reqs \ {r} : SameButMet(req'[q], req[q]) /\ (InFlight(q) => r \in req'[q].met)
  BY <1>2, <1>5, <1>6
<1>8. \A q \in Reqs \ {r} : InFlight(q)' => InFlight(q)
  BY <1>7 DEF InFlight, SameButMet
<1>9. Met'
  <2> SUFFICES ASSUME NEW q \in Reqs, NEW b \in Reqs, q # b, InFlight(q)', InFlight(b)'
               PROVE  b \in req'[q].met
    BY DEF Met
  <2>1. CASE q = r
    BY <1>3, <1>7, <1>8, <2>1
  <2>2. CASE q # r /\ b = r
    BY <1>7, <1>8, <2>2
  <2>3. CASE q # r /\ b # r
    BY <1>1, <1>7, <1>8, <2>3 DEF Met, SameButMet
  <2> QED  BY <2>1, <2>2, <2>3
<1>10. Writes(rows', r)
  BY DEF Writes
<1>11. ASSUME NEW q \in Reqs \ {r} PROVE Overlap(q)'
  BY <1>1, <1>7, <1>10, OverlapKept
<1>12. Overlap(r)'
  <2>1. /\ n.at \notin AfterPlan \cup Timed
        /\ ~(req[r].at \in Ended) /\ req[r].at \in Early
    BY <1>1, <1>3 DEF AfterPlan, Timed, Ended, At, Early
  <2>2. \A i \in DOMAIN rows : rows[i].remover # r /\ rows[i].marked # r /\ rows[i].by # r
    BY <1>1, <2>1, NoTraceYet DEF Overlap, NotYetWritten
  <2>3. Actor(r)' /\ LossOK(r)' /\ MarkOK(r)'
    BY <2>2 DEF Actor, LossOK, MarkOK
  <2>4. StageOK(r)' /\ Spares(r)'
    BY <1>3, <1>7, <2>1 DEF StageOK, Spares, Is
  <2>5. Older(r)'
    BY <1>7, <2>1, <2>2 DEF Older, Live
  <2> QED  BY <2>3, <2>4, <2>5 DEF Overlap
<1>13. StuckInv'
  <2> SUFFICES ASSUME session' = "in_progress"  PROVE \E q \in Reqs : Owes(q)'
    BY DEF StuckInv
  <2>1. Owes(r)'
    BY <1>3, <1>7 DEF Owes, Waiting
  <2> QED  BY <2>1
<1>14. ErasureSticks'
  <2> SUFFICES ASSUME NEW i \in Live', rows'[i].erased, ~rows'[i].hidden
               PROVE  \E q \in Reqs : /\ req'[q].target = i /\ ~req'[q].kept
                                      /\ req'[q].at \in {"completed", "failed"}
    BY DEF ErasureSticks
  <2>1. PICK q \in Reqs : /\ req[q].target = i /\ ~req[q].kept
                          /\ req[q].at \in {"completed", "failed"}
    BY <1>1 DEF ErasureSticks, Live
  <2>2. q # r
    BY <1>1, <2>1 DEF At
  <2> QED  BY <1>7, <2>1, <2>2 DEF SameButMet
<1> QED  BY <1>9, <1>11, <1>12, <1>13, <1>14 DEF SInv

LEMMA BeginsKeep ==
  ASSUME TypeOK, SInv, NEW r \in Reqs, NotYetWritten(r),
         \/ BeginStream(r)
         \/ \E i \in Live, n \in 1..Modules : BeginContinue(r, i, n) \/ BeginRedo(r, i, n)
  PROVE  SInv'
<1>1. Idle \in Request /\ Modules \in Nat
  BY BoundsAssumption DEF Idle, Request
<1>2. CASE BeginStream(r)
  <2>1. PICK local : local = [Idle EXCEPT !.at = "thinking", !.kind = "stream"]
    OBVIOUS
  <2>2. local \in Request /\ local.at = "thinking" /\ ~local.gone
    BY <1>1, <2>1 DEF Idle, Request, Waiting
  <2>3. Begin(r, local) /\ UNCHANGED <<rows, session, faults>>
    BY <1>2, <2>1 DEF BeginStream
  <2> QED  BY <2>2, <2>3, BeginKeeps
<1>3. ASSUME NEW i \in Live, NEW n \in 1..Modules, NEW kind \in {"continue", "redo"},
             Begin(r, [Idle EXCEPT !.at = "planning", !.kind = kind,
                                   !.target = i, !.kept = rows[i].hidden, !.todo = n]),
             UNCHANGED <<rows, session, faults>>
      PROVE  SInv'
  <2>1. i \in Nat /\ n \in 0..Modules
    BY <1>1 DEF Live, TypeOK
  <2>2. PICK kept \in BOOLEAN : kept = rows[i].hidden
    <3>1. rows[i] \in Row
      BY DEF TypeOK, Live
    <3> QED  BY <3>1 DEF Row
  <2>3. PICK local : local = [Idle EXCEPT !.at = "planning", !.kind = kind,
                                          !.target = i, !.kept = kept, !.todo = n]
    OBVIOUS
  <2>4. local \in Request /\ local.at = "planning" /\ local.kind = kind /\ ~local.gone
    BY <1>1, <2>1, <2>3 DEF Idle, Request, Waiting
  <2>5. Begin(r, local)
    BY <1>3, <2>2, <2>3
  <2> QED  BY <1>3, <2>4, <2>5, BeginKeeps
<1> QED  BY <1>2, <1>3 DEF BeginContinue, BeginRedo

LEMMA UserDeletesKeeps ==
  ASSUME TypeOK, SInv, NEW i \in Live, DeleteChatMessage(i)
  PROVE  SInv'
<1>1. PICK m \in Row : m = rows[i]
  BY DEF TypeOK, Live
<1>2. PICK x : x = [m EXCEPT !.hidden = TRUE, !.erased = TRUE]
  OBVIOUS
<1>3. /\ x.by = m.by /\ x.at = m.at /\ x.remover = m.remover /\ x.marked = m.marked
      /\ x.hidden
  BY <1>2 DEF Row
<1>4. rows' = [rows EXCEPT ![i] = x] /\ UNCHANGED <<session, req, faults>>
  BY <1>1, <1>2 DEF DeleteChatMessage
<1>5. /\ DOMAIN rows' = DOMAIN rows /\ i \in DOMAIN rows
      /\ \A j \in DOMAIN rows : rows'[j] = IF j = i THEN x ELSE rows[j]
  BY <1>4 DEF Live
<1>6. \A r : Writes(rows', r)
  BY <1>1, <1>3, <1>5 DEF Writes
<1>7. Met /\ StuckInv /\ ErasureSticks /\ \A q \in Reqs : Overlap(q)
  BY DEF SInv
<1>8. ASSUME NEW q \in Reqs PROVE Overlap(q)'
  <2>1. SameButMet(req'[q], req[q])
    BY <1>4 DEF SameButMet
  <2>2. PICK r : r # q
    <3>1. TRUE # q \/ FALSE # q
      OBVIOUS
    <3> QED  BY <3>1
  <2> QED  BY <1>5, <1>6, <1>7, <2>1, <2>2, OverlapKept
<1>9. Met' /\ StuckInv'
  BY <1>4, <1>7 DEF Met, StuckInv, Owes, InFlight
<1>10. ErasureSticks'
  <2>1. \A j \in Live' : ~rows'[j].hidden => j \in Live /\ rows'[j] = rows[j]
    BY <1>3, <1>5 DEF Live
  <2> QED  BY <1>4, <1>7, <2>1 DEF ErasureSticks
<1> QED  BY <1>8, <1>9, <1>10 DEF SInv

-------------------------------------------------------------------------------
(* The stronger invariant holds of every behaviour *)

LEMMA InitOverlap == Init => SInv
<1> SUFFICES ASSUME Init PROVE SInv
  OBVIOUS
<1>1. \A r \in Reqs : req[r] = Idle
  BY DEF Init
<1>2. Idle.at = "idle" /\ ~Idle.gone /\ Idle.kind = "none"
  BY DEF Idle
<1>3. \A r \in Reqs : req[r].at = "idle" /\ ~req[r].gone
  BY <1>1, <1>2
<1>4. \A i \in DOMAIN rows : /\ rows[i].by = Past /\ rows[i].remover = None
                             /\ rows[i].marked = None /\ ~rows[i].erased
  BY DEF Init, Message
<1>5. Met /\ StuckInv /\ ErasureSticks
  BY <1>3, <1>4 DEF Met, StuckInv, ErasureSticks, InFlight, Waiting, Live, Init
<1>6. ASSUME NEW r \in Reqs PROVE Overlap(r)
  <2>1. "idle" \notin AfterPlan \cup Waiting \cup {"planning", "calling"} /\ r # None
    BY AuthorsAssumption DEF AfterPlan, Waiting
  <2>2. StageOK(r) /\ Spares(r) /\ Older(r)
    BY <1>3, <2>1 DEF StageOK, Spares, Older, InFlight
  <2>3. Actor(r) /\ LossOK(r) /\ MarkOK(r)
    BY <1>4, <2>1 DEF Actor, LossOK, MarkOK
  <2> QED  BY <2>2, <2>3 DEF Overlap
<1> QED  BY <1>5, <1>6 DEF SInv

LEMMA StepKeepsOverlap == IInv /\ SInv /\ [Next]_vars => SInv'
<1> SUFFICES ASSUME IInv, SInv, [Next]_vars PROVE SInv'
  OBVIOUS
<1>1. TypeOK /\ \A r \in Reqs : KindOK(r) /\ NotYetWritten(r)
  BY DEF IInv, LocalInv
<1>2. ASSUME NEW r \in Reqs, Advance(r) PROVE SInv'
  <2>1. CASE PlanStream(r)
    BY <1>1, <2>1, PlanStreamKeeps
  <2>2. CASE \/ PlanChat(r) \/ PlanFails(r) \/ CheckPlanned(r)
             \/ \E hit \in BOOLEAN : TryCache(r, hit)
             \/ Checked(r) \/ Applied(r) \/ CallFails(r)
    BY <1>1, <2>2, QuietKeeps
  <2>3. CASE Cancel(r)
    BY <1>1, <2>3, CancelKeeps
  <2>4. CASE \E stored, ok \in BOOLEAN : RunModule(r, stored, ok)
    BY <1>1, <2>4, RunModuleKeeps
  <2>5. CASE Persist(r)
    BY <1>1, <2>5, PersistKeeps
  <2>6. CASE \E status \in {"completed", "truncated", "failed"} :
               Complete(r, status) \/ CompleteFails(r, status)
    BY <1>1, <2>6, CompleteKeeps
  <2> QED  BY <1>2, <2>1, <2>2, <2>3, <2>4, <2>5, <2>6 DEF Advance
<1>3. ASSUME NEW r \in Reqs,
             \/ BeginStream(r)
             \/ \E i \in Live, n \in 1..Modules :
                  BeginContinue(r, i, n) \/ BeginRedo(r, i, n)
      PROVE  SInv'
  BY <1>1, <1>3, BeginsKeep
<1>4. ASSUME NEW r \in Reqs, Disconnect(r) \/ Abandon(r) PROVE SInv'
  BY <1>1, <1>4, DisconnectKeeps, QuietKeeps
<1>5. ASSUME NEW i \in Live, DeleteChatMessage(i) PROVE SInv'
  BY <1>1, <1>5, UserDeletesKeeps
<1>6. ASSUME UNCHANGED vars PROVE SInv'
  <2>1. UNCHANGED <<rows, session, req>>
    BY <1>6 DEF vars
  <2>2. Met' /\ StuckInv' /\ ErasureSticks'
    BY <2>1 DEF SInv, Met, StuckInv, ErasureSticks, InFlight, Owes, Live
  <2>3. ASSUME NEW q \in Reqs PROVE Overlap(q)'
    BY <2>1 DEF SInv, Overlap, StageOK, Spares, Older, Actor, LossOK, MarkOK,
                WroteNothingLeft, Known, InFlight, Is, Live
  <2> QED  BY <2>2, <2>3 DEF SInv
<1> QED  BY <1>2, <1>3, <1>4, <1>5, <1>6 DEF Next

LEMMA OverlapInvariant == Spec => []SInv
<1> QED  BY InitOverlap, Invariant, StepKeepsOverlap, PTL DEF Spec

\* However many streams, continues and retries share a session: what one of them
\* deletes or annotates is its own, or of a request it overlapped with, or the
\* target of its continue, unless nothing it wrote is left.  A rollback never
\* reaches the messages of an earlier turn (rollback_stream_persistence), and
\* "the latest assistant message" is not a stranger's.
THEOREM OverlapsExplainLosses == Spec => []OverlapIsExplained
<1>1. ASSUME SInv PROVE LossByOverlap
  <2> SUFFICES ASSUME NEW i \in DOMAIN rows, NEW q \in Reqs \ {rows[i].by}, q = rows[i].remover
               PROVE  rows[i].by \in req[q].met \/ (Is(q, "continue") /\ WroteNothingLeft(q))
    BY DEF LossByOverlap
  <2>1. LossOK(q)
    BY <1>1 DEF SInv, Overlap
  <2> QED  BY <2>1 DEF LossOK
<1>2. ASSUME SInv PROVE MarkedByOverlap
  <2> SUFFICES ASSUME NEW i \in DOMAIN rows, NEW q \in Reqs \ {rows[i].by}, q = rows[i].marked
               PROVE  \/ rows[i].by \in req[q].met
                      \/ Is(q, "continue") /\ req[q].target = i
                      \/ WroteNothingLeft(q)
    BY DEF MarkedByOverlap
  <2>1. MarkOK(q)
    BY <1>2 DEF SInv, Overlap
  <2> QED  BY <2>1 DEF MarkOK
<1>3. SInv => OverlapIsExplained
  BY <1>1, <1>2 DEF OverlapIsExplained
<1> QED  BY <1>3, OverlapInvariant, PTL

\* A message the user deleted is seen again only if a continue, retry or
\* regenerate of that very message had loaded it before.
THEOREM DeletedStaysDeleted == Spec => []ErasureSticks
<1>1. SInv => ErasureSticks
  BY DEF SInv
<1> QED  BY <1>1, OverlapInvariant, PTL

\* A session nobody works on says "in progress" only because of a turn that was
\* cut off or had errors (persist_node).
THEOREM NoUnexplainedProgress == Spec => []StuckIsExplained
<1>1. ASSUME SInv, session = "in_progress", \A r \in Reqs : ~InFlight(r)
      PROVE  \E r \in Reqs : \/ req[r].at \in {"cancelled", "failed", "abandoned"}
                             \/ req[r].errs
  <2>1. PICK q \in Reqs : Owes(q)
    BY <1>1 DEF SInv, StuckInv
  <2>2. ~(req[q].at \in Waiting)
    BY <1>1 DEF InFlight
  <2> QED  BY <2>1, <2>2 DEF Owes
<1>2. SInv => StuckIsExplained
  BY <1>1 DEF StuckIsExplained
<1> QED  BY <1>2, OverlapInvariant, PTL

===============================================================================
