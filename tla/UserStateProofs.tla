--------------------------- MODULE UserStateProofs ---------------------------
(***************************************************************************)
(* For any number of users, requests and mutators: a stale snapshot in the *)
(* auth service's cache was missed by an invalidation, and a request that  *)
(* had to be refused is forwarded only on such a snapshot, or when a       *)
(* password change has moved a user's timestamp back.                      *)
(*                                                                         *)
(* A step of a request changes one record of rq; what the invariant says   *)
(* of that record is stated for any value, and RequestStep carries the     *)
(* rest.  The steps of a mutation are the ones that disturb every request. *)
(***************************************************************************)
EXTENDS UserState, TLAPS

\* A request under way has a claim; one that carries a snapshot has an entry.
HeldIn(q) ==
    /\ q.at # "idle" => q.claim \in Claim
    /\ q.at \in {"fill", "answer"} => q.entry \in Entry

\* A snapshot about to be stored is as good as StaleIsExplained asks.
FillIn(q) ==
    q.at = "fill" =>
        \/ q.entry.missed # {}
        \/ ~Stale(q.entry, q.claim.user)
        \/ Pending(q.claim.user)

\* What a request that must be refused knows until the row changes.
OwedIn(q) ==
    q.owed =>
        /\ q.claim \in minted
        /\ ~Pending(q.claim.user)
        /\ ~Usable(q.claim.user) \/ q.claim.ver < row[q.claim.user].ver
        /\ q.at = "answer" => q.entry.missed # {} \/ ~Stale(q.entry, q.claim.user)
        /\ q.at = "forwarded" =>
              q.entry.missed # {} \/ row[q.claim.user].ts < row[q.claim.user].top

CacheExplained ==
    \A u \in Users :
        cache[u] # None /\ Stale(cache[u], u) => cache[u].missed # {} \/ Pending(u)

Held == \A r \in Requests : HeldIn(rq[r])
FillsExplained == \A r \in Requests : FillIn(rq[r])
Owes == \A r \in Requests : OwedIn(rq[r])

\* A timestamp is taken once: no row carries that of a mutation not yet
\* committed, and no two of them took the same.
Clock ==
    /\ \A u \in Users : row[u].ts <= row[u].top /\ row[u].top <= begun
    /\ \A m \in Mutators : mut[m].at # "idle" => mut[m].user \in Users /\ mut[m].ts <= begun
    /\ \A m \in Mutators, u \in Users : mut[m].at = "commit" => mut[m].ts # row[u].top
    /\ \A m, n \in Mutators :
          m # n /\ mut[m].at = "commit" /\ mut[n].at = "commit" => mut[m].ts # mut[n].ts

\* An access token minted before the last password change is older than the
\* row's timestamp, unless that timestamp went back.
Dated(c) ==
    /\ c.ts <= row[c.user].top /\ c.ver <= row[c.user].ver
    /\ c.ver < row[c.user].ver /\ row[c.user].ts = row[c.user].top
          => c.ts < row[c.user].ts

Claims == \A c \in minted : Dated(c)

UInv ==
    /\ TypeOK
    /\ Held
    /\ FillsExplained
    /\ Owes
    /\ CacheExplained
    /\ Clock
    /\ Claims

-----------------------------------------------------------------------------
(* The initial state, and the properties that the invariant implies.       *)

\* The invariant holds of empty caches and idle requests.
LEMMA InitUInv == Init => UInv
<1> SUFFICES ASSUME Init PROVE UInv
  OBVIOUS
<1>1. TypeOK
  BY MaxIsNat DEF Init, TypeOK, RowType, RequestType, Mutation, Quiet, Rest, Kinds
<1>2. Held /\ FillsExplained /\ Owes
  BY DEF Init, Held, FillsExplained, Owes, HeldIn, FillIn, OwedIn, Quiet
<1>3. CacheExplained
  BY DEF Init, CacheExplained
<1>4. Clock /\ Claims
  BY DEF Init, Clock, Claims, Rest
<1> QED
  BY <1>1, <1>2, <1>3, <1>4 DEF UInv

\* CacheExplained and FillsExplained are the two halves of StaleIsExplained.
LEMMA InvStale == UInv => StaleIsExplained
<1> SUFFICES ASSUME UInv, NEW u \in Users
             PROVE /\ cache[u] # None /\ Stale(cache[u], u)
                          => cache[u].missed # {} \/ Pending(u)
                   /\ \A r \in Requests :
                         rq[r].at = "fill" /\ For(r, u) /\ Stale(rq[r].entry, u)
                             => rq[r].entry.missed # {} \/ Pending(u)
  BY DEF StaleIsExplained
<1>1. cache[u] # None /\ Stale(cache[u], u) => cache[u].missed # {} \/ Pending(u)
  BY DEF UInv, CacheExplained
<1>2. ASSUME NEW r \in Requests, rq[r].at = "fill", For(r, u), Stale(rq[r].entry, u)
      PROVE rq[r].entry.missed # {} \/ Pending(u)
  <2>1. FillIn(rq[r]) /\ rq[r].claim.user = u
    BY <1>2 DEF UInv, FillsExplained, For
  <2> QED
    BY <1>2, <2>1 DEF FillIn
<1> QED
  BY <1>1, <1>2

\* What a request knows at "forwarded" is OwedDenialExplained.
LEMMA InvOwed == UInv => OwedDenialExplained
  BY DEF UInv, Owes, OwedIn, OwedDenialExplained

-----------------------------------------------------------------------------
(* What a step leaves alone.                                               *)

\* The conditions on rows and mutations, when neither changes.
LEMMA RowsKept ==
  ASSUME UInv, UNCHANGED <<row, mut, begun>>
  PROVE  /\ Clock'
         /\ \A u \in Users : Pending(u)' = Pending(u) /\ Usable(u)' = Usable(u)
         /\ \A e, u : Stale(e, u)' = Stale(e, u)
<1>1. Clock'
  BY DEF UInv, Clock
<1>2. \A u \in Users : Pending(u)' = Pending(u) /\ Usable(u)' = Usable(u)
  BY DEF Pending, Usable
<1>3. \A e, u : Stale(e, u)' = Stale(e, u)
  BY DEF Stale, SnapOf
<1> QED
  BY <1>1, <1>2, <1>3

\* One request's record changes and the rows do not: only that record and the
\* caches are to be checked.
LEMMA RequestStep ==
  ASSUME UInv, NEW r \in Requests, NEW q \in RequestType,
         rq' = [rq EXCEPT ![r] = q], UNCHANGED <<row, mut, minted, begun>>,
         HeldIn(q), FillIn(q), OwedIn(q),
         cache' \in [Users -> Entry \cup {None}],
         gcache' \in [Users -> Entry \cup {None}],
         CacheExplained'
  PROVE  UInv'
<1>1. TypeOK'
  BY DEF UInv, TypeOK
<1>2. \A s \in Requests : rq'[s] = IF s = r THEN q ELSE rq[s]
  BY DEF UInv, TypeOK
<1>3. Held'
  BY <1>2 DEF UInv, Held, HeldIn
<1>4. FillsExplained'
  <2>1. \A s \in Requests : FillIn(rq'[s])
    BY <1>2 DEF UInv, FillsExplained
  <2>2. ASSUME NEW p, FillIn(p) PROVE FillIn(p)'
    BY <2>2 DEF FillIn, Stale, SnapOf, Pending
  <2>3. ASSUME NEW s \in Requests, NEW p, p = rq'[s] PROVE FillIn(p)'
    BY <2>1, <2>2, <2>3
  <2> QED
    BY <2>3 DEF FillsExplained, FillIn, Stale, SnapOf, Pending
<1>5. Owes'
  <2>1. \A s \in Requests : OwedIn(rq'[s])
    BY <1>2 DEF UInv, Owes
  <2> QED
    BY <2>1 DEF Owes, OwedIn, Stale, SnapOf, Pending, Usable
<1>6. Clock' /\ Claims'
  <2>1. Clock'
    BY RowsKept
  <2>2. Claims'
    BY DEF UInv, Claims, Dated
  <2> QED
    BY <2>1, <2>2
<1> QED
  BY <1>1, <1>3, <1>4, <1>5, <1>6 DEF UInv

\* The caches' part of RequestStep, when the auth cache does not change.
LEMMA CacheKept ==
  ASSUME UInv, UNCHANGED <<row, mut, begun, cache>>
  PROVE  cache' \in [Users -> Entry \cup {None}] /\ CacheExplained'
  BY DEF UInv, TypeOK, CacheExplained, Stale, SnapOf, Pending

-----------------------------------------------------------------------------
(* The steps of a request.                                                 *)

\* What the invariant says of one request, and of the user it is for.
LEMMA RequestFacts ==
  ASSUME UInv, NEW r \in Requests
  PROVE  /\ rq[r] \in RequestType
         /\ rq[r].claim # None => rq[r].claim.user \in Users
         /\ HeldIn(rq[r]) /\ FillIn(rq[r]) /\ OwedIn(rq[r])
         /\ rq[r].at # "idle" => rq[r].claim \in Claim /\ rq[r].claim.user \in Users
  BY DEF UInv, TypeOK, RequestType, Claim, Held, HeldIn, FillsExplained, Owes

\* What a request is owed it stays owed, while it carries no snapshot to judge.
LEMMA OwedSurvives ==
  ASSUME UInv, NEW r \in Requests, NEW q \in RequestType,
         OwedIn(rq[r]), q.claim = rq[r].claim, q.owed = rq[r].owed,
         q.at \notin {"answer", "forwarded"}
  PROVE  OwedIn(q)
  BY DEF OwedIn

\* A request that the guard lets pass although it is owed a refusal carries a
\* snapshot that is stale, or its user's timestamp went back.
LEMMA ForwardedOwed ==
  ASSUME UInv, NEW c \in minted, NEW e \in Entry,
         ~Usable(c.user) \/ c.ver < row[c.user].ver,
         ~Refused(e.snap, c)
  PROVE  Stale(e, c.user) \/ row[c.user].ts < row[c.user].top
<1> SUFFICES ASSUME ~Stale(e, c.user) PROVE row[c.user].ts < row[c.user].top
  OBVIOUS
<1>1. c \in Claim /\ c.user \in Users
  BY DEF UInv, TypeOK, Claim
<1>2. row[c.user].exists /\ e.snap = SnapOf(c.user)
  BY DEF Stale
<1>3. row[c.user].active /\ ~row[c.user].blocked /\ ~(c.ts < row[c.user].ts)
  BY <1>2 DEF Refused, SnapOf
<1>4. c.ver < row[c.user].ver
  BY <1>2, <1>3 DEF Usable
<1>5. Dated(c)
  BY DEF UInv, Claims
<1>6. row[c.user].ts # row[c.user].top
  BY <1>3, <1>4, <1>5 DEF Dated
<1>7. row[c.user].ts <= row[c.user].top /\ row[c.user].ts \in Nat /\ row[c.user].top \in Nat
  BY <1>1, MaxIsNat DEF UInv, Clock, TypeOK, RowType
<1> QED
  BY <1>6, <1>7

\* enforce_session: a cached snapshot decides at once, and nothing is owed.
LEMMA ArriveStep ==
  ASSUME UInv, NEW r \in Requests, NEW c \in minted, Arrive(r, c)
  PROVE  UInv'
<1> DEFINE hit == gcache[c.user]
           q == [at |-> IF hit = None THEN "ask" ELSE Verdict(hit, c),
                 waiting |-> hit = None, claim |-> c, entry |-> hit,
                 owed |-> hit = None /\ ~Pending(c.user)
                             /\ (~Usable(c.user) \/ c.ver < row[c.user].ver)]
<1>1. rq' = [rq EXCEPT ![r] = q] /\ UNCHANGED <<row, cache, gcache, mut, minted, begun>>
  BY DEF Arrive
<1>2. c \in Claim /\ c.user \in Users /\ hit \in Entry \cup {None}
  BY DEF UInv, TypeOK, Claim
<1>3. q.at \in {"ask", "forwarded", "denied"} /\ (q.at = "forwarded" => hit # None)
  BY DEF Verdict
<1>4. q.owed \in BOOLEAN
  BY DEF Pending, Usable
<1>5. q \in RequestType
  BY <1>2, <1>3, <1>4 DEF RequestType
<1>6. HeldIn(q) /\ FillIn(q)
  BY <1>2, <1>3 DEF HeldIn, FillIn
<1>7. OwedIn(q)
  BY <1>3 DEF OwedIn
<1>8. CacheExplained' /\ cache' \in [Users -> Entry \cup {None}]
  BY <1>1, CacheKept
<1>9. gcache' \in [Users -> Entry \cup {None}]
  BY <1>1 DEF UInv, TypeOK
<1> QED
  BY <1>1, <1>5, <1>6, <1>7, <1>8, <1>9, RequestStep

\* get_user_state: nothing is pending for a request that is owed a refusal, so a
\* stale snapshot in the cache was missed by an invalidation.
LEMMA LookupCachedStep ==
  ASSUME UInv, NEW r \in Requests, LookupCached(r)
  PROVE  UInv'
<1> DEFINE hit == cache[rq[r].claim.user]
           q == IF hit = None THEN [rq[r] EXCEPT !.at = "read"]
                ELSE [rq[r] EXCEPT !.at = "answer", !.entry = hit]
<1>1. rq' = [rq EXCEPT ![r] = q] /\ UNCHANGED <<row, cache, gcache, mut, minted, begun>>
  BY DEF LookupCached, UInv, TypeOK
<1>2. /\ rq[r] \in RequestType /\ rq[r].at = "ask"
      /\ rq[r].claim \in Claim /\ rq[r].claim.user \in Users /\ OwedIn(rq[r])
  BY RequestFacts DEF LookupCached
<1>3. hit \in Entry \cup {None}
  BY <1>2 DEF UInv, TypeOK
<1>4. q \in RequestType /\ q.claim = rq[r].claim /\ q.owed = rq[r].owed
  BY <1>2, <1>3 DEF RequestType
<1>5. /\ hit = None => q.at = "read"
      /\ hit # None => q.at = "answer" /\ q.entry = hit
  BY <1>2 DEF RequestType
<1>6. HeldIn(q) /\ FillIn(q)
  BY <1>2, <1>3, <1>4, <1>5 DEF HeldIn, FillIn
<1>7. OwedIn(q)
  <2>1. CASE hit = None
    BY <1>2, <1>4, <1>5, <2>1, OwedSurvives
  <2>2. CASE hit # None
    <3>1. Stale(hit, rq[r].claim.user)
             => hit.missed # {} \/ Pending(rq[r].claim.user)
      BY <1>2, <2>2 DEF UInv, CacheExplained
    <3> QED
      BY <1>2, <1>4, <1>5, <2>2, <3>1 DEF OwedIn
  <2> QED
    BY <2>1, <2>2
<1>8. CacheExplained' /\ cache' \in [Users -> Entry \cup {None}]
  BY <1>1, CacheKept
<1>9. gcache' \in [Users -> Entry \cup {None}]
  BY <1>1 DEF UInv, TypeOK
<1> QED
  BY <1>1, <1>4, <1>6, <1>7, <1>8, <1>9, RequestStep

\* A snapshot just read agrees with the row.
LEMMA LookupReadStep ==
  ASSUME UInv, NEW r \in Requests, LookupRead(r)
  PROVE  UInv'
<1> DEFINE u == rq[r].claim.user
           q == IF row[u].exists
                THEN [rq[r] EXCEPT !.at = "fill",
                                   !.entry = [snap |-> SnapOf(u), missed |-> {}]]
                ELSE [rq[r] EXCEPT !.at = "denied", !.waiting = FALSE]
<1>1. rq' = [rq EXCEPT ![r] = q] /\ UNCHANGED <<row, cache, gcache, mut, minted, begun>>
  BY DEF LookupRead, UInv, TypeOK
<1>2. /\ rq[r] \in RequestType /\ rq[r].at = "read"
      /\ rq[r].claim \in Claim /\ u \in Users /\ OwedIn(rq[r])
  BY RequestFacts DEF LookupRead
<1>3. [snap |-> SnapOf(u), missed |-> {}] \in Entry
  BY <1>2 DEF UInv, TypeOK, RowType, Entry, Snapshot, SnapOf
<1>4. q \in RequestType /\ q.claim = rq[r].claim /\ q.owed = rq[r].owed
  BY <1>2, <1>3 DEF RequestType
<1>5. /\ row[u].exists => q.at = "fill" /\ q.entry = [snap |-> SnapOf(u), missed |-> {}]
      /\ ~row[u].exists => q.at = "denied"
  BY <1>2 DEF RequestType
<1>6. HeldIn(q)
  BY <1>2, <1>3, <1>4, <1>5 DEF HeldIn
<1>7. FillIn(q)
  BY <1>4, <1>5 DEF FillIn, Stale
<1>8. OwedIn(q)
  BY <1>2, <1>4, <1>5, OwedSurvives
<1>9. CacheExplained' /\ cache' \in [Users -> Entry \cup {None}]
  BY <1>1, CacheKept
<1>10. gcache' \in [Users -> Entry \cup {None}]
  BY <1>1 DEF UInv, TypeOK
<1> QED
  BY <1>1, <1>4, <1>6, <1>7, <1>8, <1>9, <1>10, RequestStep

\* set_cached_user_state stores what FillIn says of the snapshot.
LEMMA LookupFillStep ==
  ASSUME UInv, NEW r \in Requests, LookupFill(r)
  PROVE  UInv'
<1> DEFINE u == rq[r].claim.user
           q == [rq[r] EXCEPT !.at = "answer"]
<1>1. /\ rq' = [rq EXCEPT ![r] = q] /\ cache' = [cache EXCEPT ![u] = rq[r].entry]
      /\ UNCHANGED <<row, gcache, mut, minted, begun>>
  BY DEF LookupFill, UInv, TypeOK
<1>2. /\ rq[r] \in RequestType /\ rq[r].at = "fill" /\ rq[r].entry \in Entry
      /\ rq[r].claim \in Claim /\ u \in Users /\ OwedIn(rq[r]) /\ FillIn(rq[r])
  BY RequestFacts DEF LookupFill, HeldIn
<1>3. q \in RequestType /\ q.claim = rq[r].claim /\ q.owed = rq[r].owed
  BY <1>2 DEF RequestType
<1>4. q.at = "answer" /\ q.entry = rq[r].entry
  BY <1>2 DEF RequestType
<1>5. HeldIn(q) /\ FillIn(q)
  BY <1>2, <1>3, <1>4 DEF HeldIn, FillIn
<1>6. OwedIn(q)
  BY <1>2, <1>3, <1>4 DEF OwedIn, FillIn
<1>7. cache' \in [Users -> Entry \cup {None}]
  BY <1>1, <1>2 DEF UInv, TypeOK
<1>8. CacheExplained'
  <2> SUFFICES ASSUME NEW v \in Users, cache'[v] # None, Stale(cache'[v], v)
               PROVE cache'[v].missed # {} \/ Pending(v)
    BY <1>1 DEF CacheExplained, Stale, SnapOf, Pending
  <2>1. CASE v = u
    BY <1>1, <1>2, <2>1 DEF FillIn, UInv, TypeOK
  <2>2. CASE v # u
    BY <1>1, <2>2 DEF UInv, TypeOK, CacheExplained
  <2> QED
    BY <2>1, <2>2
<1>9. gcache' \in [Users -> Entry \cup {None}]
  BY <1>1 DEF UInv, TypeOK
<1> QED
  BY <1>1, <1>3, <1>5, <1>6, <1>7, <1>8, <1>9, RequestStep

\* The guard decides on the snapshot it received.
LEMMA AnswerStep ==
  ASSUME UInv, NEW r \in Requests, Answer(r)
  PROVE  UInv'
<1> DEFINE u == rq[r].claim.user
           q == [rq[r] EXCEPT !.at = Verdict(rq[r].entry, rq[r].claim), !.waiting = FALSE]
<1>1. /\ rq' = [rq EXCEPT ![r] = q]
      /\ gcache' = IF GatewayCaches THEN [gcache EXCEPT ![u] = rq[r].entry] ELSE gcache
      /\ UNCHANGED <<row, cache, mut, minted, begun>>
  BY DEF Answer, UInv, TypeOK
<1>2. /\ rq[r] \in RequestType /\ rq[r].at = "answer" /\ rq[r].entry \in Entry
      /\ rq[r].claim \in Claim /\ u \in Users /\ OwedIn(rq[r])
  BY RequestFacts DEF Answer, HeldIn
<1>3. Verdict(rq[r].entry, rq[r].claim) \in {"forwarded", "denied"}
  BY DEF Verdict
<1>4. q \in RequestType /\ q.claim = rq[r].claim /\ q.owed = rq[r].owed
  BY <1>2, <1>3 DEF RequestType
<1>5. q.at = Verdict(rq[r].entry, rq[r].claim) /\ q.entry = rq[r].entry
  BY <1>2 DEF RequestType
<1>6. HeldIn(q) /\ FillIn(q)
  BY <1>2, <1>3, <1>4, <1>5 DEF HeldIn, FillIn
<1>7. OwedIn(q)
  <2> SUFFICES ASSUME rq[r].owed PROVE OwedIn(q)
    BY <1>4 DEF OwedIn
  <2>1. /\ rq[r].claim \in minted /\ ~Pending(u)
        /\ ~Usable(u) \/ rq[r].claim.ver < row[u].ver
        /\ rq[r].entry.missed # {} \/ ~Stale(rq[r].entry, u)
    BY <1>2 DEF OwedIn
  <2>2. q.at = "forwarded" => q.entry.missed # {} \/ row[u].ts < row[u].top
    <3> SUFFICES ASSUME q.at = "forwarded", rq[r].entry.missed = {}
                 PROVE row[u].ts < row[u].top
      BY <1>5
    <3>1. ~Refused(rq[r].entry.snap, rq[r].claim)
      BY <1>5 DEF Verdict
    <3> QED
      BY <1>2, <2>1, <3>1, ForwardedOwed
  <2> QED
    BY <1>3, <1>4, <1>5, <2>1, <2>2 DEF OwedIn
<1>8. CacheExplained' /\ cache' \in [Users -> Entry \cup {None}]
  BY <1>1, CacheKept
<1>9. gcache' \in [Users -> Entry \cup {None}]
  BY <1>1, <1>2 DEF UInv, TypeOK
<1> QED
  BY <1>1, <1>4, <1>6, <1>7, <1>8, <1>9, RequestStep

\* The gateway gives up; the lookup it left behind goes on.
LEMMA UnavailableStep ==
  ASSUME UInv, NEW r \in Requests, Unavailable(r)
  PROVE  UInv'
<1> DEFINE q == [rq[r] EXCEPT !.waiting = FALSE]
<1>1. rq' = [rq EXCEPT ![r] = q] /\ UNCHANGED <<row, cache, gcache, mut, minted, begun>>
  BY DEF Unavailable
<1>2. rq[r] \in RequestType /\ HeldIn(rq[r]) /\ FillIn(rq[r]) /\ OwedIn(rq[r])
  BY RequestFacts
<1>3. /\ q \in RequestType /\ q.at = rq[r].at /\ q.claim = rq[r].claim
      /\ q.entry = rq[r].entry /\ q.owed = rq[r].owed
  BY <1>2 DEF RequestType
<1>4. HeldIn(q) /\ FillIn(q) /\ OwedIn(q)
  BY <1>2, <1>3 DEF HeldIn, FillIn, OwedIn
<1>5. CacheExplained' /\ cache' \in [Users -> Entry \cup {None}]
  BY <1>1, CacheKept
<1>6. gcache' \in [Users -> Entry \cup {None}]
  BY <1>1 DEF UInv, TypeOK
<1> QED
  BY <1>1, <1>3, <1>4, <1>5, <1>6, RequestStep

\* The request is over.
LEMMA RetireStep ==
  ASSUME UInv, NEW r \in Requests, Retire(r)
  PROVE  UInv'
<1>1. rq' = [rq EXCEPT ![r] = Quiet] /\ UNCHANGED <<row, cache, gcache, mut, minted, begun>>
  BY DEF Retire
<1>2. Quiet \in RequestType
  BY DEF Quiet, RequestType
<1>3. HeldIn(Quiet) /\ FillIn(Quiet) /\ OwedIn(Quiet)
  BY DEF Quiet, HeldIn, FillIn, OwedIn
<1>4. CacheExplained' /\ cache' \in [Users -> Entry \cup {None}]
  BY <1>1, CacheKept
<1>5. gcache' \in [Users -> Entry \cup {None}]
  BY <1>1 DEF UInv, TypeOK
<1> QED
  BY <1>1, <1>2, <1>3, <1>4, <1>5, RequestStep

-----------------------------------------------------------------------------
(* Tokens and expiries.                                                    *)

\* A new claim has the row's timestamp and version.
LEMMA MintStep ==
  ASSUME UInv, NEW u \in Users, Mint(u)
  PROVE  UInv'
<1> DEFINE c == [user |-> u, ts |-> row[u].ts, ver |-> row[u].ver]
<1>1. minted' = minted \cup {c} /\ UNCHANGED <<row, cache, gcache, rq, mut, begun>>
  BY DEF Mint
<1>2. c \in Claim
  BY DEF UInv, TypeOK, RowType, Claim
<1>3. TypeOK'
  BY <1>1, <1>2 DEF UInv, TypeOK
<1>4. Held' /\ FillsExplained' /\ CacheExplained'
  BY <1>1 DEF UInv, Held, HeldIn, FillsExplained, FillIn, CacheExplained, Stale, SnapOf,
              Pending
<1>5. Owes'
  BY <1>1 DEF UInv, Owes, OwedIn, Stale, SnapOf, Pending, Usable
<1>6. Clock'
  BY <1>1, RowsKept
<1>7. Claims'
  <2> SUFFICES ASSUME NEW d \in minted' PROVE Dated(d)'
    BY DEF Claims
  <2>1. CASE d = c
    <3>1. row[u].ts <= row[u].top /\ row[u].ver \in Nat
      BY DEF UInv, Clock, TypeOK, RowType
    <3> QED
      BY <1>1, <2>1, <3>1 DEF Dated
  <2>2. CASE d \in minted
    BY <1>1, <2>2 DEF UInv, Claims, Dated
  <2> QED
    BY <1>1, <2>1, <2>2
<1> QED
  BY <1>3, <1>4, <1>5, <1>6, <1>7 DEF UInv

\* An entry that leaves a cache explains itself.
LEMMA ExpireStep ==
  ASSUME UInv, NEW u \in Users, Expire(u) \/ GatewayExpire(u)
  PROVE  UInv'
<1>1. UNCHANGED <<row, rq, mut, minted, begun>>
  BY DEF Expire, GatewayExpire
<1>2. cache' = cache \/ cache' = [cache EXCEPT ![u] = None]
  BY DEF Expire, GatewayExpire
<1>3. gcache' = gcache \/ gcache' = [gcache EXCEPT ![u] = None]
  BY DEF Expire, GatewayExpire
<1>4. TypeOK'
  BY <1>1, <1>2, <1>3 DEF UInv, TypeOK
<1>5. Held' /\ FillsExplained'
  BY <1>1 DEF UInv, Held, HeldIn, FillsExplained, FillIn, Stale, SnapOf, Pending
<1>6. Owes'
  BY <1>1 DEF UInv, Owes, OwedIn, Stale, SnapOf, Pending, Usable
<1>7. CacheExplained'
  <2> SUFFICES ASSUME NEW v \in Users, cache'[v] # None, Stale(cache'[v], v)
               PROVE cache'[v].missed # {} \/ Pending(v)
    BY <1>1 DEF CacheExplained, Stale, SnapOf, Pending
  <2>1. cache'[v] = cache[v]
    BY <1>2 DEF UInv, TypeOK
  <2> QED
    BY <2>1 DEF UInv, CacheExplained
<1>8. Clock' /\ Claims'
  <2>1. Clock'
    BY <1>1, RowsKept
  <2>2. Claims'
    BY <1>1 DEF UInv, Claims, Dated
  <2> QED
    BY <2>1, <2>2
<1> QED
  BY <1>4, <1>5, <1>6, <1>7, <1>8 DEF UInv

-----------------------------------------------------------------------------
(* The steps of a mutation.                                                *)

\* A mutation's timestamp is newer than every one before it.
LEMMA BeginStep ==
  ASSUME UInv, NEW m \in Mutators, NEW u \in Users, NEW kind \in Kinds, Begin(m, u, kind)
  PROVE  UInv'
<1> DEFINE q == [at |-> "commit", user |-> u, kind |-> kind, ts |-> begun + 1]
<1>1. /\ mut[m] = Rest /\ begun < MaxMutations /\ begun' = begun + 1
      /\ mut' = [mut EXCEPT ![m] = q] /\ UNCHANGED <<row, cache, gcache, rq, minted>>
  BY DEF Begin
<1>2. begun' \in 0..MaxMutations /\ q \in Mutation /\ begun \in Nat
  BY <1>1, MaxIsNat DEF UInv, TypeOK, Mutation
<1>3. TypeOK'
  BY <1>1, <1>2 DEF UInv, TypeOK
<1>4. \A n \in Mutators : mut'[n] = IF n = m THEN q ELSE mut[n]
  BY <1>1 DEF UInv, TypeOK
<1>5. \A v : Pending(v)' <=> Pending(v)
  BY <1>1, <1>4 DEF Pending, Rest
<1>6. Held'
  BY <1>1 DEF UInv, Held, HeldIn
<1>7. FillsExplained'
  BY <1>1, <1>5 DEF UInv, FillsExplained, FillIn, Stale, SnapOf
<1>8. Owes'
  BY <1>1, <1>5 DEF UInv, Owes, OwedIn, Stale, SnapOf, Usable
<1>9. CacheExplained'
  BY <1>1, <1>5 DEF UInv, CacheExplained, Stale, SnapOf
<1>10. Clock'
  <2>1. \A n \in Mutators : mut[n].ts \in Nat
    BY MaxIsNat DEF UInv, TypeOK, Mutation
  <2>2. \A v \in Users : row[v].ts \in Nat /\ row[v].top \in Nat
    BY MaxIsNat DEF UInv, TypeOK, RowType
  <2>3. \A v \in Users : row'[v].ts <= row'[v].top /\ row'[v].top <= begun'
    BY <1>1, <1>2, <2>2 DEF UInv, Clock
  <2>4. \A n \in Mutators : mut'[n].at # "idle" => mut'[n].user \in Users /\ mut'[n].ts <= begun'
    BY <1>1, <1>2, <1>4, <2>1 DEF UInv, Clock
  <2>5. \A n \in Mutators, v \in Users : mut'[n].at = "commit" => mut'[n].ts # row'[v].top
    BY <1>1, <1>2, <1>4, <2>2 DEF UInv, Clock
  <2>6. \A n, k \in Mutators :
           n # k /\ mut'[n].at = "commit" /\ mut'[k].at = "commit" => mut'[n].ts # mut'[k].ts
    BY <1>1, <1>2, <1>4, <2>1 DEF UInv, Clock
  <2> QED
    BY <2>3, <2>4, <2>5, <2>6 DEF Clock
<1>11. Claims'
  BY <1>1 DEF UInv, Claims, Dated
<1> QED
  BY <1>3, <1>6, <1>7, <1>8, <1>9, <1>10, <1>11 DEF UInv

\* A commit excuses every snapshot of its user, for the invalidation is pending,
\* and starts afresh what the requests of the user are owed.
LEMMA CommitStep ==
  ASSUME UInv, NEW m \in Mutators, NEW new \in RowType, Committed(m, new),
         new.ts <= new.top,
         new.top = row[mut[m].user].top \/ new.top = mut[m].ts,
         row[mut[m].user].top <= new.top, row[mut[m].user].ver <= new.ver,
         \A c \in minted :
            c.user = mut[m].user /\ c.ver < new.ver /\ new.ts = new.top => c.ts < new.ts
  PROVE  UInv'
<1> DEFINE u == mut[m].user
<1>1. /\ mut[m].at = "commit" /\ row' = [row EXCEPT ![u] = new]
      /\ mut' = [mut EXCEPT ![m].at = "invalidate"]
      /\ rq' = [r \in Requests |-> IF For(r, u) THEN [rq[r] EXCEPT !.owed = FALSE] ELSE rq[r]]
      /\ UNCHANGED <<cache, gcache, minted, begun>>
  BY DEF Committed
<1>2. u \in Users /\ mut[m].ts <= begun
  BY <1>1 DEF UInv, Clock
<1>3. /\ \A v \in Users : row'[v] = IF v = u THEN new ELSE row[v]
      /\ \A n \in Mutators :
            mut'[n] = IF n = m THEN [mut[m] EXCEPT !.at = "invalidate"] ELSE mut[n]
      /\ \A r \in Requests :
            rq'[r] = IF For(r, u) THEN [rq[r] EXCEPT !.owed = FALSE] ELSE rq[r]
  BY <1>1, <1>2 DEF UInv, TypeOK
<1>4. mut'[m].at = "invalidate" /\ mut'[m].user = u /\ mut'[m] \in Mutation
  BY <1>3 DEF UInv, TypeOK, Mutation
<1>5. TypeOK'
  <2>1. row' \in [Users -> RowType] /\ mut' \in [Mutators -> Mutation]
    BY <1>1, <1>2, <1>3, <1>4 DEF UInv, TypeOK
  <2>2. rq' \in [Requests -> RequestType]
    <3>1. \A q \in RequestType : [q EXCEPT !.owed = FALSE] \in RequestType
      BY DEF RequestType
    <3>2. \A r \in Requests : rq[r] \in RequestType
      BY DEF UInv, TypeOK
    <3> QED
      BY <1>1, <3>1, <3>2
  <2> QED
    BY <1>1, <2>1, <2>2 DEF UInv, TypeOK
<1>6. \A v : Pending(v)' <=> v = u \/ Pending(v)
  BY <1>3, <1>4 DEF Pending
<1>7. \A e, v : v \in Users /\ v # u => (Stale(e, v)' <=> Stale(e, v))
  BY <1>3 DEF Stale, SnapOf
<1>8. \A r \in Requests :
         /\ rq'[r].at = rq[r].at /\ rq'[r].claim = rq[r].claim /\ rq'[r].entry = rq[r].entry
         /\ rq'[r].owed => rq[r].owed /\ ~For(r, u)
  <2> SUFFICES ASSUME NEW r \in Requests
               PROVE  /\ rq'[r].at = rq[r].at /\ rq'[r].claim = rq[r].claim
                      /\ rq'[r].entry = rq[r].entry
                      /\ rq'[r].owed => rq[r].owed /\ ~For(r, u)
    OBVIOUS
  <2>1. rq[r] \in RequestType
    BY DEF UInv, TypeOK
  <2>2. CASE For(r, u)
    <3>1. rq'[r] = [rq[r] EXCEPT !.owed = FALSE]
      BY <1>3, <2>2
    <3> QED
      BY <2>1, <2>2, <3>1 DEF RequestType
  <2>3. CASE ~For(r, u)
    <3>1. rq'[r] = rq[r]
      BY <1>3, <2>3
    <3> QED
      BY <2>3, <3>1
  <2> QED
    BY <2>2, <2>3
<1>9. Held'
  BY <1>8 DEF UInv, Held, HeldIn
<1>10. FillsExplained'
  <2>1. ASSUME NEW r \in Requests, NEW e, NEW v, e = rq[r].entry, v = rq[r].claim.user,
               rq[r].at = "fill"
        PROVE  e.missed # {} \/ ~Stale(e, v)' \/ Pending(v)'
    <3>1. v \in Users /\ (e.missed # {} \/ ~Stale(e, v) \/ Pending(v))
      BY <2>1, RequestFacts DEF FillIn
    <3> QED
      BY <1>6, <1>7, <3>1
  <2> QED
    BY <1>8, <2>1 DEF FillsExplained, FillIn, Stale, SnapOf, Pending
<1>11. Owes'
  <2>1. ASSUME NEW r \in Requests, NEW e, NEW c, NEW v, e = rq[r].entry,
               c = rq[r].claim, v = c.user, rq'[r].owed
        PROVE  /\ c \in minted /\ ~Pending(v)'
               /\ ~Usable(v)' \/ c.ver < row'[v].ver
               /\ rq[r].at = "answer" => e.missed # {} \/ ~Stale(e, v)'
               /\ rq[r].at = "forwarded" => e.missed # {} \/ row'[v].ts < row'[v].top
    <3>1. rq[r].owed /\ OwedIn(rq[r]) /\ c \in Claim
      BY <1>8, <2>1, RequestFacts DEF OwedIn, UInv, TypeOK
    <3>2. v \in Users /\ v # u
      BY <1>8, <2>1, <3>1, NoneIsFresh DEF For, Claim
    <3>3. row'[v] = row[v] /\ (Usable(v)' <=> Usable(v))
      BY <1>3, <3>2 DEF Usable
    <3>4. ~Pending(v)' /\ (Stale(e, v)' <=> Stale(e, v))
      BY <1>6, <1>7, <2>1, <3>1, <3>2 DEF OwedIn
    <3> QED
      BY <2>1, <3>1, <3>3, <3>4 DEF OwedIn
  <2> QED
    <3>1. ASSUME NEW r \in Requests, NEW q, q = rq'[r] PROVE OwedIn(q)'
      <4>1. q.at = rq[r].at /\ q.claim = rq[r].claim /\ q.entry = rq[r].entry
        BY <1>8, <3>1
      <4> QED
        BY <1>1, <2>1, <3>1, <4>1 DEF OwedIn
    <3> QED
      BY <3>1 DEF Owes, OwedIn, Stale, SnapOf, Pending, Usable
<1>12. CacheExplained'
  <2>1. ASSUME NEW v \in Users, NEW e, e = cache[v], e # None, Stale(e, v)'
        PROVE  e.missed # {} \/ Pending(v)'
    BY <1>6, <1>7, <2>1 DEF UInv, CacheExplained
  <2> QED
    BY <1>1, <2>1 DEF CacheExplained, Stale, SnapOf, Pending
<1>13. Clock'
  <2>1. new.top <= begun
    BY <1>2 DEF UInv, Clock
  <2>2. \A v \in Users : row'[v].ts <= row'[v].top /\ row'[v].top <= begun'
    BY <1>1, <1>3, <2>1 DEF UInv, Clock
  <2>3. \A n \in Mutators : mut'[n].at # "idle" => mut'[n].user \in Users /\ mut'[n].ts <= begun'
    <3>1. mut'[m].ts = mut[m].ts
      BY <1>3 DEF UInv, TypeOK, Mutation
    <3> QED
      BY <1>1, <1>2, <1>3, <1>4, <3>1 DEF UInv, Clock
  <2>4. \A n \in Mutators, v \in Users : mut'[n].at = "commit" => mut'[n].ts # row'[v].top
    <3> SUFFICES ASSUME NEW n \in Mutators, NEW v \in Users, mut'[n].at = "commit"
                 PROVE mut'[n].ts # row'[v].top
      OBVIOUS
    <3>1. n # m /\ mut'[n] = mut[n]
      BY <1>3, <1>4
    <3>2. mut[n].ts # mut[m].ts /\ \A w \in Users : mut[n].ts # row[w].top
      BY <1>1, <3>1 DEF UInv, Clock
    <3> QED
      BY <1>2, <1>3, <3>1, <3>2
  <2>5. \A n, k \in Mutators :
           n # k /\ mut'[n].at = "commit" /\ mut'[k].at = "commit" => mut'[n].ts # mut'[k].ts
    BY <1>3, <1>4 DEF UInv, Clock
  <2> QED
    BY <2>2, <2>3, <2>4, <2>5 DEF Clock
<1>14. Claims'
  <2> SUFFICES ASSUME NEW c \in minted PROVE Dated(c)'
    BY <1>1 DEF Claims
  <2>1. c.user \in Users /\ c.ts \in Nat /\ c.ver \in Nat /\ Dated(c)
    BY MaxIsNat DEF UInv, TypeOK, Claim, Claims
  <2>2. CASE c.user = u
    <3>1. row[u].top \in Nat /\ row[u].ver \in Nat /\ new.top \in Nat /\ new.ver \in Nat
      BY <1>2, MaxIsNat DEF UInv, TypeOK, RowType
    <3> QED
      BY <1>3, <2>1, <2>2, <3>1 DEF Dated
  <2>3. CASE c.user # u
    BY <1>3, <2>1, <2>3 DEF Dated
  <2> QED
    BY <2>2, <2>3
<1> QED
  BY <1>5, <1>9, <1>10, <1>11, <1>12, <1>13, <1>14 DEF UInv

\* A row with the old timestamps is as good for the claims as the old row.
LEMMA SameStamp ==
  ASSUME UInv, NEW u, NEW new,
         new.ts = row[u].ts /\ new.top = row[u].top /\ new.ver = row[u].ver
  PROVE  \A c \in minted :
            c.user = u /\ c.ver < new.ver /\ new.ts = new.top => c.ts < new.ts
<1>1. \A c \in minted : Dated(c)
  BY DEF UInv, Claims
<1>2. ASSUME NEW c \in minted, c.user = u, c.ver < new.ver, new.ts = new.top
      PROVE  c.ts < new.ts
  <2>1. Dated(c) /\ row[c.user] = row[u]
    BY <1>1, <1>2
  <2> QED
    BY <1>2, <2>1 DEF Dated
<1> QED
  BY <1>2

\* A flag moves no timestamp.
LEMMA CommitFlagsStep ==
  ASSUME UInv, NEW m \in Mutators, CommitFlags(m)
  PROVE  UInv'
<1> DEFINE u == mut[m].user
<1>1. PICK new \in {[row[u] EXCEPT !.blocked = ~@], [row[u] EXCEPT !.active = ~@]} :
         Committed(m, new)
  BY DEF CommitFlags
<1>2. u \in Users /\ row[u] \in RowType
  BY <1>1 DEF Committed, UInv, Clock, TypeOK
<1>3. new \in RowType /\ new.ts = row[u].ts /\ new.top = row[u].top /\ new.ver = row[u].ver
  <2>1. CASE new = [row[u] EXCEPT !.blocked = ~@]
    BY <1>2, <2>1 DEF RowType
  <2>2. CASE new = [row[u] EXCEPT !.active = ~@]
    BY <1>2, <2>2 DEF RowType
  <2> QED
    BY <1>1, <2>1, <2>2
<1>4. row[u].ts <= row[u].top /\ row[u].top <= row[u].top /\ row[u].ver <= row[u].ver
  BY <1>2, MaxIsNat DEF UInv, Clock, RowType
<1>5. \A c \in minted :
         c.user = u /\ c.ver < new.ver /\ new.ts = new.top => c.ts < new.ts
  BY <1>3, SameStamp
<1> QED
  BY <1>1, <1>3, <1>4, <1>5, CommitStep

\* delete_account moves no timestamp either.
LEMMA CommitDeleteStep ==
  ASSUME UInv, NEW m \in Mutators, CommitDelete(m)
  PROVE  UInv'
<1> DEFINE u == mut[m].user
           new == [row[u] EXCEPT !.exists = FALSE]
<1>1. Committed(m, new)
  BY DEF CommitDelete
<1>2. u \in Users /\ row[u] \in RowType
  BY <1>1 DEF Committed, UInv, Clock, TypeOK
<1>3. new \in RowType /\ new.ts = row[u].ts /\ new.top = row[u].top /\ new.ver = row[u].ver
  BY <1>2 DEF RowType
<1>4. row[u].ts <= row[u].top /\ row[u].top <= row[u].top /\ row[u].ver <= row[u].ver
  BY <1>2, MaxIsNat DEF UInv, Clock, RowType
<1>5. \A c \in minted :
         c.user = u /\ c.ver < new.ver /\ new.ts = new.top => c.ts < new.ts
  BY <1>3, SameStamp
<1> QED
  BY <1>1, <1>3, <1>4, <1>5, CommitStep

\* A row whose password changed is a row.
LEMMA RestampedRow ==
  ASSUME NEW old \in RowType, NEW t \in 0..MaxMutations, NEW w \in 0..MaxMutations
  PROVE  [old EXCEPT !.ts = t, !.ver = @ + 1, !.top = w] \in RowType
<1>1. ASSUME NEW a \in RowType PROVE [a EXCEPT !.ts = t] \in RowType
  BY DEF RowType
<1>2. ASSUME NEW a \in RowType, NEW v \in Nat PROVE [a EXCEPT !.ver = v] \in RowType
  BY DEF RowType
<1>3. ASSUME NEW a \in RowType PROVE [a EXCEPT !.top = w] \in RowType
  BY DEF RowType
<1>4. old.ver + 1 \in Nat
  BY DEF RowType
<1> QED
  BY <1>1, <1>2, <1>3, <1>4, Zenon

\* A password commit either takes the newest timestamp, and then every claim is
\* older, or puts an older one over it.
LEMMA CommitPasswordStep ==
  ASSUME UInv, NEW m \in Mutators, CommitPassword(m)
  PROVE  UInv'
<1> DEFINE u == mut[m].user
           new == [row[u] EXCEPT !.ts = mut[m].ts, !.ver = @ + 1, !.top = Newer(@, mut[m].ts)]
<1>1. Committed(m, new)
  BY DEF CommitPassword
<1>2. u \in Users /\ row[u] \in RowType /\ mut[m].ts \in 0..MaxMutations
  BY <1>1 DEF Committed, UInv, Clock, TypeOK, Mutation
<1>3. /\ row[u].top \in 0..MaxMutations /\ row[u].ver \in Nat
      /\ mut[m].ts \in Nat /\ row[u].top \in Nat
  BY <1>2, MaxIsNat DEF RowType
<1>4. /\ new.ts = mut[m].ts /\ new.ver = row[u].ver + 1
      /\ new.top = Newer(row[u].top, mut[m].ts)
  BY <1>2 DEF RowType
<1>5. /\ Newer(row[u].top, mut[m].ts) \in {row[u].top, mut[m].ts}
      /\ row[u].top <= Newer(row[u].top, mut[m].ts)
      /\ mut[m].ts <= Newer(row[u].top, mut[m].ts)
  BY <1>3 DEF Newer
<1>6. new \in RowType
  <2>1. Newer(row[u].top, mut[m].ts) \in 0..MaxMutations
    BY <1>2, <1>3, <1>5
  <2> QED
    BY <1>2, <2>1, RestampedRow
<1>7. mut[m].ts # row[u].top
  BY <1>1, <1>2 DEF Committed, UInv, Clock
<1>8. \A c \in minted :
         c.user = u /\ c.ver < new.ver /\ new.ts = new.top => c.ts < new.ts
  <2> SUFFICES ASSUME NEW c \in minted, c.user = u, new.ts = new.top
               PROVE c.ts < new.ts
    OBVIOUS
  <2>1. c.ts <= row[u].top /\ c.ts \in Nat
    BY MaxIsNat DEF UInv, TypeOK, Claim, Claims, Dated
  <2>2. row[u].top < mut[m].ts
    BY <1>3, <1>4, <1>5, <1>7
  <2> QED
    BY <1>3, <1>4, <2>1, <2>2
<1>9. row[u].ver <= new.ver
  BY <1>3, <1>4
<1> QED
  BY <1>1, <1>4, <1>5, <1>6, <1>8, <1>9, CommitStep

\* A mutation that ends frees its mutator and takes no timestamp with it.
LEMMA Ended ==
  ASSUME UInv, NEW m \in Mutators, mut' = [mut EXCEPT ![m] = Rest],
         UNCHANGED <<row, begun, minted>>
  PROVE  /\ mut' \in [Mutators -> Mutation] /\ Clock' /\ Claims'
         /\ \A v : Pending(v)' => Pending(v)
         /\ \A v : v # mut[m].user \/ mut[m].at # "invalidate" => (Pending(v)' <=> Pending(v))
<1>1. \A n \in Mutators : mut'[n] = IF n = m THEN Rest ELSE mut[n]
  BY DEF UInv, TypeOK
<1>2. mut' \in [Mutators -> Mutation]
  BY MaxIsNat DEF UInv, TypeOK, Mutation, Rest, Kinds
<1>3. Clock'
  BY <1>1 DEF UInv, Clock, Rest
<1>4. Claims'
  BY DEF UInv, Claims, Dated
<1>5. /\ \A v : Pending(v)' => Pending(v)
      /\ \A v : v # mut[m].user \/ mut[m].at # "invalidate" => (Pending(v)' <=> Pending(v))
  BY <1>1 DEF Pending, Rest
<1> QED
  BY <1>2, <1>3, <1>4, <1>5

\* A snapshot not yet stored takes note of an invalidation that will not see it.
LEMMA MissedStep ==
  ASSUME UInv, NEW m \in Mutators, NEW why \in {"raced", "skipped"},
         mut[m].at = "invalidate", mut' = [mut EXCEPT ![m] = Rest],
         rq' = Missing(mut[m].user, why), UNCHANGED <<row, gcache, minted, begun>>,
         cache' \in [Users -> Entry \cup {None}], CacheExplained'
  PROVE  UInv'
<1> DEFINE u == mut[m].user
           late(r) == rq[r].at = "fill" /\ For(r, u)
<1>1. \A r \in Requests :
         rq'[r] = IF late(r) THEN [rq[r] EXCEPT !.entry.missed = @ \cup {why}] ELSE rq[r]
  BY DEF Missing
<1>2. \A r \in Requests : late(r) => rq[r].entry \in Entry
  BY RequestFacts DEF HeldIn
<1>3. \A r \in Requests :
         /\ rq'[r].at = rq[r].at /\ rq'[r].claim = rq[r].claim /\ rq'[r].owed = rq[r].owed
         /\ ~late(r) => rq'[r].entry = rq[r].entry
  BY <1>1, RequestFacts DEF RequestType
<1>4. ASSUME NEW r \in Requests, late(r)
      PROVE  rq'[r].entry \in Entry /\ rq'[r].entry.missed # {}
  <2>1. rq'[r].entry = [rq[r].entry EXCEPT !.missed = @ \cup {why}]
    BY <1>1, <1>4, RequestFacts DEF RequestType
  <2> QED
    BY <1>2, <1>4, <2>1 DEF Entry
<1>5. TypeOK'
  <2>1. ASSUME NEW r \in Requests PROVE rq'[r] \in RequestType
    <3>1. CASE late(r)
      <4>1. [rq[r].entry EXCEPT !.missed = @ \cup {why}] \in Entry
        BY <1>2, <3>1 DEF Entry
      <4>2. rq'[r] = [rq[r] EXCEPT !.entry = [rq[r].entry EXCEPT !.missed = @ \cup {why}]]
        BY <1>1, <3>1
      <4> QED
        BY <4>1, <4>2, RequestFacts DEF RequestType
    <3>2. CASE ~late(r)
      BY <1>1, <3>2, RequestFacts
    <3> QED
      BY <3>1, <3>2
  <2>2. rq' \in [Requests -> RequestType]
    BY <2>1 DEF Missing
  <2> QED
    BY <2>2, Ended DEF UInv, TypeOK
<1>6. Held'
  BY <1>3, <1>4 DEF UInv, Held, HeldIn
<1>7. FillsExplained'
  <2>1. ASSUME NEW r \in Requests, NEW e, NEW v, e = rq'[r].entry, v = rq[r].claim.user,
               rq[r].at = "fill"
        PROVE  e.missed # {} \/ ~Stale(e, v)' \/ Pending(v)'
    <3>1. CASE late(r)
      BY <1>4, <2>1, <3>1
    <3>2. CASE ~late(r)
      <4>1. v # u
        BY <2>1, <3>2, RequestFacts, NoneIsFresh DEF For
      <4>2. e.missed # {} \/ ~Stale(e, v) \/ Pending(v)
        BY <1>3, <2>1, <3>2, RequestFacts DEF FillIn
      <4>3. (Pending(v)' <=> Pending(v)) /\ (Stale(e, v)' <=> Stale(e, v))
        BY <4>1, Ended DEF Stale, SnapOf
      <4> QED
        BY <4>2, <4>3
    <3> QED
      BY <3>1, <3>2
  <2>2. ASSUME NEW r \in Requests, NEW q, q = rq'[r] PROVE FillIn(q)'
    BY <1>3, <2>1, <2>2 DEF FillIn
  <2> QED
    BY <2>2 DEF FillsExplained, FillIn, Stale, SnapOf, Pending
<1>8. Owes'
  <2>1. ASSUME NEW r \in Requests, NEW v, v = rq[r].claim.user, rq[r].owed
        PROVE  ~Pending(v)'
    BY <2>1, RequestFacts, Ended DEF OwedIn
  <2>2. ASSUME NEW r \in Requests, NEW q, q = rq'[r], rq[r].owed PROVE OwedIn(q)'
    <3>1. q.claim = rq[r].claim /\ q.owed /\ q.at = rq[r].at /\ OwedIn(rq[r])
      BY <1>3, <2>2, RequestFacts
    <3>2. q.at \in {"answer", "forwarded"} => q.entry = rq[r].entry
      BY <1>3, <2>2
    <3>3. ~Pending(q.claim.user)'
      BY <2>1, <2>2, <3>1
    <3> QED
      BY <2>2, <3>1, <3>2, <3>3 DEF OwedIn, Stale, SnapOf, Usable
  <2> QED
    BY <1>3, <2>2 DEF Owes, OwedIn, Stale, SnapOf, Pending, Usable
<1> QED
  BY <1>5, <1>6, <1>7, <1>8, Ended DEF UInv

\* invalidate empties the cache for its user.
LEMMA InvalidateStep ==
  ASSUME UInv, NEW m \in Mutators, Invalidate(m)
  PROVE  UInv'
<1> DEFINE u == mut[m].user
<1>1. /\ mut[m].at = "invalidate" /\ cache' = [cache EXCEPT ![u] = None]
      /\ rq' = Missing(u, "raced") /\ mut' = [mut EXCEPT ![m] = Rest]
      /\ UNCHANGED <<row, gcache, minted, begun>>
  BY DEF Invalidate
<1>2. cache' \in [Users -> Entry \cup {None}]
  BY <1>1 DEF UInv, TypeOK
<1>3. CacheExplained'
  <2>1. ASSUME NEW v \in Users, NEW e, e = cache'[v], e # None, Stale(e, v)'
        PROVE  e.missed # {} \/ Pending(v)'
    <3>1. v # u /\ e = cache[v]
      BY <1>1, <2>1 DEF UInv, TypeOK
    <3>2. (Pending(v)' <=> Pending(v)) /\ Stale(e, v)
      BY <1>1, <2>1, <3>1, Ended DEF Stale, SnapOf
    <3> QED
      BY <2>1, <3>1, <3>2 DEF UInv, CacheExplained
  <2> QED
    BY <2>1 DEF CacheExplained, Stale, SnapOf, Pending
<1> QED
  BY <1>1, <1>2, <1>3, MissedStep

\* A handler that dies before its commit leaves nothing; after it, it leaves the
\* entry that its invalidation would have removed, and the entry says so.
LEMMA FailStep ==
  ASSUME UInv, NEW m \in Mutators, Fail(m)
  PROVE  UInv'
<1> DEFINE u == mut[m].user
<1>1. mut' = [mut EXCEPT ![m] = Rest] /\ UNCHANGED <<row, gcache, minted, begun>>
  BY DEF Fail
<1>2. CASE mut[m].at = "invalidate"
  <2>1. /\ rq' = Missing(u, "skipped")
        /\ cache' = IF cache[u] = None THEN cache
                    ELSE [cache EXCEPT ![u].missed = @ \cup {"skipped"}]
    BY <1>2 DEF Fail
  <2>2. u \in Users
    BY <1>2 DEF UInv, Clock
  <2>3. cache[u] # None => /\ [cache[u] EXCEPT !.missed = @ \cup {"skipped"}] \in Entry
                           /\ cache[u] \in Entry
    BY <2>2 DEF UInv, TypeOK, Entry
  <2>4. cache' \in [Users -> Entry \cup {None}]
    BY <2>1, <2>3 DEF UInv, TypeOK
  <2>5. CacheExplained'
    <3>1. ASSUME NEW v \in Users, NEW e, e = cache'[v], e # None, Stale(e, v)'
          PROVE  e.missed # {} \/ Pending(v)'
      <4>1. CASE v = u
        <5>1. e = [cache[u] EXCEPT !.missed = @ \cup {"skipped"}] /\ cache[u] \in Entry
          BY <2>1, <2>2, <2>3, <3>1, <4>1 DEF UInv, TypeOK
        <5>2. e.missed # {}
          BY <5>1 DEF Entry
        <5> QED
          BY <5>2
      <4>2. CASE v # u
        <5>1. e = cache[v]
          BY <2>1, <3>1, <4>2 DEF UInv, TypeOK
        <5>2. (Pending(v)' <=> Pending(v)) /\ Stale(e, v)
          BY <1>1, <3>1, <4>2, Ended DEF Stale, SnapOf
        <5> QED
          BY <3>1, <5>1, <5>2 DEF UInv, CacheExplained
      <4> QED
        BY <4>1, <4>2
    <3> QED
      BY <3>1 DEF CacheExplained, Stale, SnapOf, Pending
  <2> QED
    BY <1>1, <1>2, <2>1, <2>4, <2>5, MissedStep
<1>3. CASE mut[m].at # "invalidate"
  <2>1. UNCHANGED <<rq, cache>>
    BY <1>3 DEF Fail
  <2>2. \A v : Pending(v)' <=> Pending(v)
    BY <1>1, <1>3, Ended
  <2>3. TypeOK'
    BY <1>1, <2>1, Ended DEF UInv, TypeOK
  <2>4. Held'
    BY <2>1 DEF UInv, Held, HeldIn
  <2>5. FillsExplained' /\ CacheExplained'
    BY <1>1, <2>1, <2>2 DEF UInv, FillsExplained, FillIn, CacheExplained, Stale, SnapOf
  <2>6. Owes'
    BY <1>1, <2>1, <2>2 DEF UInv, Owes, OwedIn, Stale, SnapOf, Usable
  <2> QED
    BY <1>1, <2>3, <2>4, <2>5, <2>6, Ended DEF UInv
<1> QED
  BY <1>2, <1>3

-----------------------------------------------------------------------------
(* The theorems.                                                           *)

\* A step that changes nothing keeps the invariant.
LEMMA StutterStep == UInv /\ UNCHANGED vars => UInv'
<1> SUFFICES ASSUME UInv, UNCHANGED vars PROVE UInv'
  OBVIOUS
<1>1. UNCHANGED <<row, cache, gcache, rq, mut, minted, begun>>
  BY DEF vars
<1>2. TypeOK' /\ Held'
  BY <1>1 DEF UInv, TypeOK, Held, HeldIn
<1>3. FillsExplained' /\ CacheExplained'
  BY <1>1 DEF UInv, FillsExplained, FillIn, CacheExplained, Stale, SnapOf, Pending
<1>4. Owes'
  BY <1>1 DEF UInv, Owes, OwedIn, Stale, SnapOf, Pending, Usable
<1>5. Clock'
  BY <1>1, RowsKept
<1>6. Claims'
  BY <1>1 DEF UInv, Claims, Dated
<1> QED
  BY <1>2, <1>3, <1>4, <1>5, <1>6 DEF UInv

\* Every step keeps the invariant.
LEMMA StepUInv == UInv /\ [Next]_vars => UInv'
<1> SUFFICES ASSUME UInv, [Next]_vars PROVE UInv'
  OBVIOUS
<1>1. ASSUME NEW u \in Users, Mint(u) \/ Expire(u) \/ GatewayExpire(u) PROVE UInv'
  BY <1>1, MintStep, ExpireStep
<1>2. ASSUME NEW r \in Requests, NEW c \in minted, Arrive(r, c) PROVE UInv'
  BY <1>2, ArriveStep
<1>3. ASSUME NEW r \in Requests, Serve(r) \/ Unavailable(r) PROVE UInv'
  BY <1>3, LookupCachedStep, LookupReadStep, LookupFillStep, AnswerStep, RetireStep,
     UnavailableStep DEF Serve
<1>4. ASSUME NEW m \in Mutators, NEW u \in Users, NEW k \in Kinds, Begin(m, u, k) PROVE UInv'
  BY <1>4, BeginStep
<1>5. ASSUME NEW m \in Mutators, Mutate(m) PROVE UInv'
  BY <1>5, CommitFlagsStep, CommitPasswordStep, CommitDeleteStep, InvalidateStep,
     FailStep DEF Mutate
<1>6. CASE UNCHANGED vars
  BY <1>6, StutterStep
<1> QED
  BY <1>1, <1>2, <1>3, <1>4, <1>5, <1>6 DEF Next

\* UInv is inductive.
THEOREM Invariance == Spec => []UInv
  BY InitUInv, StepUInv, PTL DEF Spec

\* Every variable keeps its type; no row, token or snapshot carries a timestamp that
\* no mutation took.
THEOREM TypeCorrect == Spec => []TypeOK
<1>1. UInv => TypeOK
  BY DEF UInv
<1> QED
  BY <1>1, Invariance, PTL

\* UserStateService: a stale snapshot in the cache, or about to be stored, is there
\* because of a pending invalidation or one that missed it.
THEOREM StalenessExplained == Spec => []StaleIsExplained
  BY Invariance, InvStale, PTL

\* enforce_session: a request made after a block, a deactivation or a password change
\* has returned passes only on such a snapshot, or after a timestamp went back.
THEOREM OwedDenials == Spec => []OwedDenialExplained
  BY Invariance, InvOwed, PTL

=============================================================================
