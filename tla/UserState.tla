------------------------------ MODULE UserState ------------------------------
(***************************************************************************)
(* Live user state at the gateway.  A request with an access JWT is        *)
(* forwarded only if the gateway's session guard accepts the claims        *)
(* against a snapshot of the user's row.  The snapshot comes from the      *)
(* gateway's optional cache, from the cache the auth service keeps in its  *)
(* process, or from the database; every mutation of the row invalidates    *)
(* the auth cache after its commit.                                        *)
(*                                                                         *)
(* A cache fill reads the row and stores the snapshot in two steps that no *)
(* lock spans, so an invalidation can fall between them.  The checks that  *)
(* decide whether a mutation may happen are those of AuthSessions; here    *)
(* any change of the row may be committed.  A user's role never changes.   *)
(***************************************************************************)
EXTENDS Naturals, FiniteSets

CONSTANTS
    Users,
    Requests,        \* requests with a bearer token on guarded paths
    Mutators,        \* auth requests that change a row
    MaxMutations,    \* bounds the mutations of a behaviour
    GatewayCaches,   \* GATEWAY_USER_STATE_CACHE_TTL_SECONDS > 0
    None

ASSUME MaxIsNat == MaxMutations \in Nat
ASSUME GatewayFlag == GatewayCaches \in BOOLEAN

VARIABLES
    row,      \* [Users -> the user's row]
    cache,    \* [Users -> entry of the auth service's TTLCache, or None]
    gcache,   \* [Users -> entry of the gateway's cache, or None]
    rq,       \* [Requests -> a guarded request, with the lookup it caused]
    mut,      \* [Mutators -> a mutation]
    minted,   \* claims of the access tokens handed out
    begun     \* mutations begun; also the clock password changes read

vars == <<row, cache, gcache, rq, mut, minted, begun>>

\* Ghosts: ver counts password commits; top is the newest password_changed_at
\* that any of them wrote.
RowType == [exists : BOOLEAN, active : BOOLEAN, blocked : BOOLEAN,
            ts : 0..MaxMutations, ver : Nat, top : 0..MaxMutations]

Snapshot == [active : BOOLEAN, blocked : BOOLEAN, ts : 0..MaxMutations]

\* Ghost missed: why an invalidation that followed the read of this snapshot
\* will not remove it: it ran before the snapshot was stored, or a failure
\* skipped it.
Entry == [snap : Snapshot, missed : SUBSET {"raced", "skipped"}]

Claim == [user : Users, ts : 0..MaxMutations, ver : Nat]

ASSUME NoneIsFresh == None \notin Users \cup Claim \cup Entry

\* Ghost owed: when the gateway asked Auth about the request its token had to be
\* refused and every committed mutation had invalidated the cache or failed;
\* the row has not changed since.
RequestType ==
    [at : {"idle", "ask", "read", "fill", "answer", "forwarded", "denied"},
     waiting : BOOLEAN, claim : Claim \cup {None},
     entry : Entry \cup {None}, owed : BOOLEAN]

Kinds == {"flags", "password", "delete"}
Mutation == [at : {"idle", "commit", "invalidate"}, user : Users \cup {None},
             kind : Kinds, ts : 0..MaxMutations]

Quiet == [at |-> "idle", waiting |-> FALSE, claim |-> None, entry |-> None,
          owed |-> FALSE]
Rest == [at |-> "idle", user |-> None, kind |-> "flags", ts |-> 0]

Init ==
    /\ row = [u \in Users |-> [exists |-> TRUE, active |-> TRUE, blocked |-> FALSE,
                               ts |-> 0, ver |-> 0, top |-> 0]]
    /\ cache = [u \in Users |-> None]
    /\ gcache = [u \in Users |-> None]
    /\ rq = [r \in Requests |-> Quiet]
    /\ mut = [m \in Mutators |-> Rest]
    /\ minted = {}
    /\ begun = 0

-----------------------------------------------------------------------------
SnapOf(u) == [active |-> row[u].active, blocked |-> row[u].blocked, ts |-> row[u].ts]
Usable(u) == row[u].exists /\ row[u].active /\ ~row[u].blocked

Pending(u) == \E m \in Mutators : mut[m].user = u /\ mut[m].at = "invalidate"

\* Whom a request is for.
For(r, u) == rq[r].claim # None /\ rq[r].claim.user = u

\* Mutant of Refused: a blocked user with an active account passes.
RefusedUnlessActive(snap, claim) == ~snap.active \/ claim.ts < snap.ts

\* _evaluate_state: blocked, inactive, or a pwd_ts older than the row's.
Refused(snap, claim) == snap.blocked \/ ~snap.active \/ claim.ts < snap.ts

Verdict(entry, claim) == IF Refused(entry.snap, claim) THEN "denied" ELSE "forwarded"

-----------------------------------------------------------------------------
(* Login and refresh hand out access tokens with the row's timestamp. *)

Mint(u) ==
    /\ Usable(u)
    /\ minted' = minted \cup {[user |-> u, ts |-> row[u].ts, ver |-> row[u].ver]}
    /\ minted' # minted
    /\ UNCHANGED <<row, cache, gcache, rq, mut, begun>>

-----------------------------------------------------------------------------
(* The session guard and the lookup it causes in the auth service. *)

\* enforce_session: the gateway's cache answers, or Auth is asked.
Arrive(r, c) ==
    LET hit  == gcache[c.user]
        owed == hit = None /\ ~Pending(c.user) /\ (~Usable(c.user) \/ c.ver < row[c.user].ver)
    IN  /\ rq[r] = Quiet
        /\ rq' = [rq EXCEPT ![r] =
                    [at |-> IF hit = None THEN "ask" ELSE Verdict(hit, c),
                     waiting |-> hit = None, claim |-> c, entry |-> hit,
                     owed |-> owed]]
        /\ UNCHANGED <<row, cache, gcache, mut, minted, begun>>

\* UserStateService.get_user_state: a cached snapshot is returned as it is.
LookupCached(r) ==
    LET hit == cache[rq[r].claim.user]
    IN  /\ rq[r].at = "ask"
        /\ rq' = IF hit = None THEN [rq EXCEPT ![r].at = "read"]
                 ELSE [rq EXCEPT ![r].at = "answer", ![r].entry = hit]
        /\ UNCHANGED <<row, cache, gcache, mut, minted, begun>>

\* A miss reads the row; a missing user is a 404, which the gateway turns into 401.
LookupRead(r) ==
    LET u == rq[r].claim.user
    IN  /\ rq[r].at = "read"
        /\ rq' = IF row[u].exists
                 THEN [rq EXCEPT ![r].at = "fill",
                                 ![r].entry = [snap |-> SnapOf(u), missed |-> {}]]
                 ELSE [rq EXCEPT ![r].at = "denied", ![r].waiting = FALSE]
        /\ UNCHANGED <<row, cache, gcache, mut, minted, begun>>

\* set_cached_user_state, whatever happened to the row meanwhile.
LookupFill(r) ==
    /\ rq[r].at = "fill"
    /\ cache' = [cache EXCEPT ![rq[r].claim.user] = rq[r].entry]
    /\ rq' = [rq EXCEPT ![r].at = "answer"]
    /\ UNCHANGED <<row, gcache, mut, minted, begun>>

\* The gateway receives the snapshot, caches it if it may, and decides.
Answer(r) ==
    /\ rq[r].at = "answer" /\ rq[r].waiting
    /\ gcache' = IF GatewayCaches
                 THEN [gcache EXCEPT ![rq[r].claim.user] = rq[r].entry] ELSE gcache
    /\ rq' = [rq EXCEPT ![r].at = Verdict(rq[r].entry, rq[r].claim),
                        ![r].waiting = FALSE]
    /\ UNCHANGED <<row, cache, mut, minted, begun>>

\* The lookup fails or times out: the gateway answers 503.  The auth service's
\* thread does not know and goes on to fill its cache.
Unavailable(r) ==
    /\ rq[r].waiting
    /\ rq' = [rq EXCEPT ![r].waiting = FALSE]
    /\ UNCHANGED <<row, cache, gcache, mut, minted, begun>>

\* The request is over, or the auth thread serving a lost lookup finishes or dies.
Retire(r) ==
    /\ rq[r] # Quiet /\ ~rq[r].waiting
    /\ rq' = [rq EXCEPT ![r] = Quiet]
    /\ UNCHANGED <<row, cache, gcache, mut, minted, begun>>

-----------------------------------------------------------------------------
(* Mutations: commit, then UserStateService.invalidate. *)

\* A password change or reset takes its timestamp before its transaction.
Begin(m, u, kind) ==
    /\ mut[m] = Rest /\ begun < MaxMutations /\ row[u].exists
    /\ begun' = begun + 1
    /\ mut' = [mut EXCEPT ![m] = [at |-> "commit", user |-> u, kind |-> kind,
                                  ts |-> begun + 1]]
    /\ UNCHANGED <<row, cache, gcache, rq, minted>>

Committed(m, new) ==
    LET u == mut[m].user
    IN  /\ mut[m].at = "commit" /\ row[u].exists
        /\ row' = [row EXCEPT ![u] = new]
        /\ mut' = [mut EXCEPT ![m].at = "invalidate"]
        /\ rq' = [r \in Requests |-> IF For(r, u) THEN [rq[r] EXCEPT !.owed = FALSE]
                                     ELSE rq[r]]
        /\ UNCHANGED <<cache, gcache, minted, begun>>

\* block, unblock, deactivate, activate, disable, enable.
CommitFlags(m) ==
    /\ mut[m].kind = "flags"
    /\ LET old == row[mut[m].user]
       IN  \/ Committed(m, [old EXCEPT !.blocked = ~@])
           \/ Committed(m, [old EXCEPT !.active = ~@])

Newer(t, u) == IF t < u THEN u ELSE t

\* Mutant of CommitPassword: the timestamp is rounded up to the next tick.
CommitRoundedUp(m) ==
    /\ mut[m].kind = "password"
    /\ LET old == row[mut[m].user]
       IN  Committed(m, [old EXCEPT !.ts = mut[m].ts + 1, !.ver = @ + 1,
                                    !.top = Newer(@, mut[m].ts + 1)])

\* change_password, reset_password.
CommitPassword(m) ==
    /\ mut[m].kind = "password"
    /\ LET old == row[mut[m].user]
       IN  Committed(m, [old EXCEPT !.ts = mut[m].ts, !.ver = @ + 1,
                                    !.top = Newer(@, mut[m].ts)])

\* delete_account, delete_user.
CommitDelete(m) ==
    /\ mut[m].kind = "delete"
    /\ Committed(m, [row[mut[m].user] EXCEPT !.exists = FALSE])

\* Ghost: what was read before and not yet stored, or is stored and will not be
\* removed, has missed this mutation.
Missing(u, why) ==
    [r \in Requests |-> IF rq[r].at = "fill" /\ For(r, u)
                        THEN [rq[r] EXCEPT !.entry.missed = @ \cup {why}] ELSE rq[r]]

\* Mutant of Invalidate: the entry stays in the cache.
InvalidateNothing(m) ==
    /\ mut[m].at = "invalidate"
    /\ rq' = Missing(mut[m].user, "raced")
    /\ mut' = [mut EXCEPT ![m] = Rest]
    /\ UNCHANGED <<row, cache, gcache, minted, begun>>

Invalidate(m) ==
    /\ mut[m].at = "invalidate"
    /\ cache' = [cache EXCEPT ![mut[m].user] = None]
    /\ rq' = Missing(mut[m].user, "raced")
    /\ mut' = [mut EXCEPT ![m] = Rest]
    /\ UNCHANGED <<row, gcache, minted, begun>>

\* The handler dies after its commit: for block and deactivate, when the separate
\* transaction that revokes the refresh tokens fails.
Fail(m) ==
    /\ mut[m] # Rest
    /\ mut' = [mut EXCEPT ![m] = Rest]
    /\ IF mut[m].at = "invalidate"
       THEN /\ rq' = Missing(mut[m].user, "skipped")
            /\ cache' = IF cache[mut[m].user] = None THEN cache
                        ELSE [cache EXCEPT ![mut[m].user].missed = @ \cup {"skipped"}]
       ELSE UNCHANGED <<rq, cache>>
    /\ UNCHANGED <<row, gcache, minted, begun>>

-----------------------------------------------------------------------------
(* Entries leave a cache when their time to live ends or the cache is full. *)

\* Mutant of Expire and GatewayExpire: a cache without a time to live.
NeverExpires(u) == FALSE /\ UNCHANGED vars

Expire(u) ==
    /\ cache[u] # None
    /\ cache' = [cache EXCEPT ![u] = None]
    /\ UNCHANGED <<row, gcache, rq, mut, minted, begun>>

GatewayExpire(u) ==
    /\ gcache[u] # None
    /\ gcache' = [gcache EXCEPT ![u] = None]
    /\ UNCHANGED <<row, cache, rq, mut, minted, begun>>

-----------------------------------------------------------------------------
Serve(r) == LookupCached(r) \/ LookupRead(r) \/ LookupFill(r) \/ Answer(r) \/ Retire(r)

Mutate(m) ==
    CommitFlags(m) \/ CommitPassword(m) \/ CommitDelete(m) \/ Invalidate(m) \/ Fail(m)

Next ==
    \/ \E u \in Users : Mint(u) \/ Expire(u) \/ GatewayExpire(u)
    \/ \E r \in Requests : (\E c \in minted : Arrive(r, c)) \/ Serve(r) \/ Unavailable(r)
    \/ \E m \in Mutators : (\E u \in Users, k \in Kinds : Begin(m, u, k)) \/ Mutate(m)

Spec == Init /\ [][Next]_vars

\* Threads are scheduled and time passes; nothing obliges anybody to call.
Fairness ==
    /\ \A r \in Requests : WF_vars(Serve(r))
    /\ \A m \in Mutators : WF_vars(Mutate(m))
    /\ \A u \in Users : WF_vars(Expire(u)) /\ WF_vars(GatewayExpire(u))

FairSpec == Spec /\ Fairness

-----------------------------------------------------------------------------
(* Properties *)

TypeOK ==
    /\ row \in [Users -> RowType]
    /\ cache \in [Users -> Entry \cup {None}]
    /\ gcache \in [Users -> Entry \cup {None}]
    /\ rq \in [Requests -> RequestType]
    /\ mut \in [Mutators -> Mutation]
    /\ minted \subseteq Claim
    /\ begun \in 0..MaxMutations

\* An entry of the auth cache, or a snapshot about to become one, differs from the
\* row only while a mutation has committed and not yet invalidated, or because an
\* invalidation missed it: between read and store, or by a failure.
Stale(entry, u) == ~row[u].exists \/ entry.snap # SnapOf(u)
StaleIsExplained ==
    \A u \in Users :
        /\ cache[u] # None /\ Stale(cache[u], u) => cache[u].missed # {} \/ Pending(u)
        /\ \A r \in Requests :
              rq[r].at = "fill" /\ For(r, u) /\ Stale(rq[r].entry, u)
                  => rq[r].entry.missed # {} \/ Pending(u)

\* A request about which the gateway asks Auth after a block, deactivation or
\* password change has returned is forwarded only on a snapshot an invalidation
\* missed, or when a password change has put an older timestamp over a newer one.
OwedDenialExplained ==
    \A r \in Requests :
        rq[r].at = "forwarded" /\ rq[r].owed =>
            \/ rq[r].entry.missed # {}
            \/ row[rq[r].claim.user].ts < row[rq[r].claim.user].top

\* Whatever interleaving left a cache wrong, once the mutations stop both caches
\* agree with the rows for good.
Fresh(entry, u) == entry = None \/ ~Stale(entry, u)
EventuallyFresh ==
    <>[](\A u \in Users : Fresh(cache[u], u) /\ Fresh(gcache[u], u))

\* A user who stays locked out is eventually refused whenever it asks.
EventuallyRefused ==
    \A u \in Users :
        <>[](~Usable(u)) =>
            <>[](\A r \in Requests : For(r, u) => rq[r].at # "forwarded")

=============================================================================
