----------------------------- MODULE MCAccounts -----------------------------
(***************************************************************************)
(* TLC run of what surrounds the AI service: AccountPurge, UsageAnalytics, *)
(* Profiles and GatewayProxy.  They share no variable, so a behaviour is   *)
(* one of a single module, chosen at the start.  AccountPurge, Profiles    *)
(* and GatewayProxy are looked at from two sides, each with a smaller      *)
(* instance.                                                               *)
(***************************************************************************)
EXTENDS AccountPurge, UsageAnalytics, Profiles, GatewayProxy, TLC

CONSTANTS u1, u2, s1, s2, w1, w2, c1

VARIABLE part

vars == <<purgeVars, analyticsVars, profileVars, proxyVars, part>>

OneUser == {u1}
TwoMembers == {u1, u2}
TwoSessions == {s1, s2}
TwoWorkers == {w1, w2}        \* the turns, the jobs and the clerks
OneClient == {c1}

Symmetry == Permutations(TwoSessions) \cup Permutations(TwoWorkers)

-----------------------------------------------------------------------------
(* AccountPurge: a deletion with a turn; or one by an administrator with   *)
(* two turns of one session, in which nobody gives up waiting; or two jobs *)
(* of any kind.                                                            *)

Running == {t \in Turns : turn'[t] # Idle}
UsedSessions == {s \in Sessions : session'[s].used}
Begun == {j \in Jobs : job'[j] # NoJob}
Deletions == {j \in Begun : job'[j].kind \in {"self", "delete"}}

-----------------------------------------------------------------------------
(* UsageAnalytics: usage reports of two of three users, one of them failed *)
(* and one without a model.                                                *)

Body(user, feature, model, size, succeeded) ==
    [user |-> user, feature |-> feature, model |-> model, provider |-> model,
     session |-> None, requests |-> 1, prompt |-> size, completion |-> 1,
     tokens |-> IF size = 3 THEN 0 ELSE size + 1, cost |-> size, time |-> 1,
     success |-> succeeded, at |-> 0]

SomeRequests ==
    {Body("ann", "leetcode", "gpt", 1, TRUE), Body("ben", "leetcode", "gpt", 3, FALSE),
     Body("ben", "chat", None, 2, TRUE)}

SomeAccounts ==
    {[user |-> "ann", name |-> "Ann", role |-> "USER", status |-> "student"],
     [user |-> "ben", name |-> "Ben", role |-> "USER", status |-> "professional"],
     [user |-> "cat", name |-> "Ann", role |-> "ADMIN", status |-> "student"]}

-----------------------------------------------------------------------------
(* Profiles: a name that differs in case, none, a malformed one, and every *)
(* field at once.                                                          *)

EveryField ==
    (RequiredFields \ {"profile_picture_url"})
        \cup {"username", "mobile_number", "company", "portfolio_url",
              "github_username", "leetcode_username"}

SomePayloads ==
    {[username |-> "Ann", primary_skill |-> "Go"], [username |-> ""], [username |-> "a!"],
     [f \in EveryField |-> CASE f = "current_status" -> "Student"
                             [] f = "primary_skill" -> "Go"
                             [] OTHER -> "Bob"]}

LowerOf == [v \in {"Ann", "Bob"} |-> IF v = "Ann" THEN "ann" ELSE "bob"]
BadTexts == {"a!"}

Busy == {c \in Clerks : patch'[c].pc \notin {"idle", "taken"}}

\* Two requests, no uploads.
UpdatesOnly == uploads' = 0

\* One request at a time, of all fields, with uploads of pictures.
AvatarsOnly ==
    /\ Cardinality(Busy) <= 1
    /\ \A c \in Clerks : patch'[c].given = <<>> \/ "bio" \in DOMAIN patch'[c].given

-----------------------------------------------------------------------------
(* GatewayProxy: a request that is repeated, or a readiness check.         *)

AskedPaths == {"auth/refresh", "courses/*", "admin/*"}
NobodyAsks == req' = req
Expected(r) ==
    CASE r.path = "auth/refresh" -> r.bearer = "none" /\ ~ r.stream
      [] r.path = "admin/*" -> r.bearer # "bad" /\ ~ r.stream
      [] OTHER -> r.bearer # "none"
NoCheck ==
    /\ \A c \in Clients : req'[c].at # "idle" => Expected(req'[c])
    /\ probe' = probe
    /\ \A s \in Backends : up'[s] \/ s \in {"auth", "ai", "admin"}

-----------------------------------------------------------------------------
Init ==
    /\ part \in {"turns", "jobs", "reports", "profiles", "avatars", "proxy", "health"}
    /\ PurgeInit /\ AnalyticsInit /\ ProfilesInit /\ ProxyInit

PurgeStep ==
    /\ PurgeNext
    /\ part = "turns" =>
         /\ Begun = Deletions /\ Cardinality(Begun) <= 1
         /\ Cardinality(UsedSessions) <= 1 \/ Cardinality(Running) <= 1
         /\ \/ Cardinality(Running) <= 1
            \/ /\ strays' = {}
               /\ \A j \in Begun : job'[j].kind = "delete" /\ job'[j].waiting
    /\ part = "jobs" => Running = {}
    /\ UNCHANGED <<analyticsVars, profileVars, proxyVars, part>>

ProfilesStep ==
    /\ ProfilesNext
    /\ part = "profiles" => UpdatesOnly
    /\ part = "avatars" => AvatarsOnly
    /\ UNCHANGED <<purgeVars, analyticsVars, proxyVars, part>>

ProxyStep ==
    /\ ProxyNext
    /\ part = "proxy" => NoCheck
    /\ part = "health" => NobodyAsks
    /\ UNCHANGED <<purgeVars, analyticsVars, profileVars, part>>

Next ==
    \/ part \in {"turns", "jobs"} /\ PurgeStep
    \/ part = "reports" /\ AnalyticsNext /\ UNCHANGED <<purgeVars, profileVars, proxyVars, part>>
    \/ part \in {"profiles", "avatars"} /\ ProfilesStep
    \/ part \in {"proxy", "health"} /\ ProxyStep

Spec == Init /\ [][Next]_vars

\* Every variable of the module that runs has its type.
TypeOK ==
    /\ part \in {"turns", "jobs"} => PurgeTypeOK
    /\ part = "reports" => AnalyticsTypeOK
    /\ part \in {"profiles", "avatars"} => ProfilesTypeOK
    /\ part \in {"proxy", "health"} => ProxyTypeOK

\* What is shown of the stored rows is consistent: the usage reports agree with the table
\* of usage records and with one another (ReportsAddUp of UsageAnalytics), and so do the
\* public pages, searches and scores of the profiles (PublicPagesAreSound of Profiles).
ViewsAreSound ==
    /\ part = "reports" => ReportsAddUp
    /\ part \in {"profiles", "avatars"} => PublicPagesAreSound
=============================================================================
