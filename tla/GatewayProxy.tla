---------------------------- MODULE GatewayProxy ----------------------------
(***************************************************************************)
(* The API gateway's reverse proxy.  A client's request is checked by the  *)
(* session guard, sent to the service that owns its path, and repeated     *)
(* after a lost connection, a read timeout or a 502, 503 or 504 answer     *)
(* whatever its method is, up to PROXY_MAX_RETRIES attempts with a pause   *)
(* in between.  An attempt the gateway stopped waiting for still runs at   *)
(* the service.  Also the readiness check, which probes every service.     *)
(*                                                                         *)
(* What a service does is external here: it reads, it does something it    *)
(* refuses to do twice, or it does something it does anew every time.      *)
(* The other modules say what each of these operations is.                 *)
(***************************************************************************)
EXTENDS Naturals, FiniteSets

CONSTANTS
    Clients,       \* client requests
    Asked,         \* the paths they ask for
    MaxRetries,    \* PROXY_MAX_RETRIES: the attempts, the first included
    MaxOutages     \* bounds the crashes of services

ASSUME RetriesArePositive == MaxRetries \in Nat \ {0}
ASSUME OutagesAreNatural == MaxOutages \in Nat

-----------------------------------------------------------------------------
(* Routes.  "x/*" stands for every path below x that has no entry.          *)

Backends == {"auth", "user", "admin", "ai", "usage"}

AuthPaths == {"auth/login", "auth/register", "auth/refresh",
              "auth/forgot-password", "auth/reset-password",
              "auth/verify-email", "auth/resend-verification", "auth/*"}
AccountPaths == {"account", "account/enable", "account/*"}
AdminAuthPaths == {"admin/login", "admin/refresh", "admin/logout", "admin/me"}
UserPaths == {"profile", "profile/*", "users/search", "users/*", "media/*"}
NotificationPaths == {"notifications", "notifications/*"}
AIPaths == {"leetcode/*", "hackerrank/*", "courses/*", "dsa-pattern/*",
            "ai/*", "chat/*", "interview/*"}

Owns ==
    [s \in Backends |->
        CASE s = "auth" -> AuthPaths \cup AccountPaths \cup AdminAuthPaths
          [] s = "user" -> UserPaths
          [] s = "admin" -> {"admin/*"} \cup NotificationPaths
          [] s = "ai" -> AIPaths
          [] s = "usage" -> {"usage/*"}]

ASSUME PathsAreRouted ==
    Asked # {} /\ Asked \subseteq UNION {Owns[s] : s \in Backends}

Upstream(p) == CHOOSE s \in Backends : p \in Owns[s]

is_public_path(p) ==
    p \in (AuthPaths \ {"auth/*"})
             \cup {"account/enable", "admin/login", "admin/refresh", "media/*"}

\* The operations behind a path: "read"; "once", which the service refuses to
\* repeat (a refresh, a link, a registration, a deletion); "anew", which every
\* call performs again (a login, a message, a generation, an attempt).
Operations(p) ==
    IF p \in {"users/search", "users/*", "media/*", "usage/*"} THEN {"read"}
    ELSE {"read", "once", "anew"}

\* A second use of a refresh token revokes every session of the user.
RefreshPaths == {"auth/refresh", "admin/refresh"}

\* Answers 502 itself: the admin service when a service behind it fails or is
\* slow, a course or pattern generation whose model output is unusable.
Answers502(p, op) ==
    \/ Upstream(p) = "admin"
    \/ p \in {"courses/*", "dsa-pattern/*"} /\ op = "anew"

-----------------------------------------------------------------------------
VARIABLES
    up,        \* [Backends -> the service accepts connections]
    req,       \* [Clients -> a client's request at the gateway]
    call,      \* [Clients -> [attempt -> the call at the service]]
    revoked,   \* requests whose repetition revoked the user's sessions
    probe,     \* [Backends -> what the running readiness check has found]
    report,    \* the last readiness report
    downSince, \* ghost: services down ever since the check began
    outages    \* crashes so far; the bound

proxyVars == <<up, req, call, revoked, probe, report, downSince, outages>>

Attempts == 1..MaxRetries
Statuses == {"ok", "refused", "500", "502"}
Results == Statuses \cup {"none", "denied", "504", "cut"}
ServiceStatus == {"healthy", "warning", "down"}

RequestAtGateway ==
    [at : {"idle", "guard", "send", "wait", "pause", "stream", "done"},
     path : Asked, op : {"read", "once", "anew"},
     bearer : {"none", "good", "bad"}, stream : BOOLEAN,
     attempt : Attempts, result : Results]

\* did - the operation was performed; heard - the gateway got its answer
CallType ==
    [at : {"unsent", "running", "finished", "lost"}, did : BOOLEAN,
     answer : Statuses \cup {"none"}, heard : BOOLEAN]

ProxyTypeOK ==
    /\ up \in [Backends -> BOOLEAN]
    /\ req \in [Clients -> RequestAtGateway]
    /\ call \in [Clients -> [Attempts -> CallType]]
    /\ revoked \subseteq Clients
    /\ probe \in [Backends -> ServiceStatus \cup {"none", "pending"}]
    /\ report \in ServiceStatus \cup {"none"}
    /\ downSince \subseteq Backends
    /\ outages \in 0..MaxOutages

NoCall == [at |-> "unsent", did |-> FALSE, answer |-> "none", heard |-> FALSE]

ProxyInit ==
    /\ up = [s \in Backends |-> TRUE]
    /\ req = [c \in Clients |->
                [at |-> "idle", path |-> CHOOSE p \in Asked : TRUE,
                 op |-> "read", bearer |-> "none", stream |-> FALSE,
                 attempt |-> 1, result |-> "none"]]
    /\ call = [c \in Clients |-> [k \in Attempts |-> NoCall]]
    /\ revoked = {}
    /\ probe = [s \in Backends |-> "none"]
    /\ report = "none"
    /\ downSince = {}
    /\ outages = 0

Owner(c) == Upstream(req[c].path)
Current(c) == call[c][req[c].attempt]

Conclude(c, result) ==
    req' = [req EXCEPT ![c].at = "done", ![c].result = result]

UpstreamUnchanged == UNCHANGED <<up, revoked, outages>>
HealthUnchanged == UNCHANGED <<probe, report, downSince>>

-----------------------------------------------------------------------------
(* The gateway.                                                             *)

should_stream(streams) == streams \in BOOLEAN

Arrive(c, p, op, bearer, streams) ==
    /\ req[c].at = "idle"
    /\ op \in Operations(p)
    /\ should_stream(streams)
    /\ req' = [req EXCEPT ![c] =
                [at |-> "guard", path |-> p, op |-> op, bearer |-> bearer,
                 stream |-> streams, attempt |-> 1, result |-> "none"]]
    /\ UNCHANGED call /\ UpstreamUnchanged /\ HealthUnchanged

\* A bearer token on a guarded path is looked up at the auth service; UserState
\* models the decision and the caches.  Without a token the service decides.
MayForward(c) ==
    \/ is_public_path(req[c].path)
    \/ req[c].bearer = "none"
    \/ req[c].bearer = "good" /\ up["auth"]

MayDeny(c) == ~is_public_path(req[c].path) /\ req[c].bearer # "none"

EnforceSession(c) ==
    /\ req[c].at = "guard"
    /\ \/ MayForward(c) /\ req' = [req EXCEPT ![c].at = "send"]
       \/ MayDeny(c) /\ Conclude(c, "denied")
    /\ UNCHANGED call /\ UpstreamUnchanged /\ HealthUnchanged

\* Mutant of Transient: one attempt too many.
TransientPastLast(c, status) ==
    IF req[c].attempt <= MaxRetries
    THEN req' = [req EXCEPT ![c].at = "pause"]
    ELSE Conclude(c, status)

\* The handler of TransientExc: pause for the next attempt or give up.
Transient(c, status) ==
    IF req[c].attempt < MaxRetries
    THEN req' = [req EXCEPT ![c].at = "pause"]
    ELSE Conclude(c, status)

\* The connection fails before the request has arrived, the pool has none to
\* give (an exception nobody catches), or the request reaches the service.
Send(c) ==
    /\ req[c].at = "send"
    /\ \/ Transient(c, "502") /\ UNCHANGED call
       \/ Conclude(c, "500") /\ UNCHANGED call
       \/ /\ up[Owner(c)]
          /\ req' = [req EXCEPT ![c].at = "wait"]
          /\ call' = [call EXCEPT ![c][req[c].attempt].at = "running"]
    /\ UpstreamUnchanged /\ HealthUnchanged

\* httpx.ReadTimeout: 120 seconds without an answer
ReadTimeout(c) ==
    /\ req[c].at = "wait"
    /\ Transient(c, "504")
    /\ UNCHANGED call /\ UpstreamUnchanged /\ HealthUnchanged

\* The connection breaks: RemoteProtocolError is repeated, ReadError is not
\* among the transient exceptions.
ConnectionLost(c) ==
    /\ req[c].at = "wait"
    /\ Current(c).at = "lost"
    /\ Transient(c, "502") \/ Conclude(c, "500")
    /\ UNCHANGED call /\ UpstreamUnchanged /\ HealthUnchanged

\* Mutant of _is_transient_status: every 5xx is transient.
AnyServerError(code) == code \in {"500", "502"}

_is_transient_status(code) == code = "502"

\* The answer arrives whole, or its headers do when it is streamed.
Receive(c) ==
    LET a == Current(c).answer IN
    /\ req[c].at = "wait"
    /\ Current(c).at = "finished"
    /\ call' = [call EXCEPT ![c][req[c].attempt].heard = TRUE]
    /\ IF _is_transient_status(a) /\ req[c].attempt < MaxRetries
       THEN req' = [req EXCEPT ![c].at = "pause"]
       ELSE Conclude(c, a)
    /\ UpstreamUnchanged /\ HealthUnchanged

\* A stream answers 200 before its operation has finished.
ReceiveHeaders(c) ==
    /\ req[c].at = "wait" /\ req[c].stream
    /\ Owner(c) = "ai" /\ req[c].op = "anew"
    /\ Current(c).at = "running"
    /\ req' = [req EXCEPT ![c].at = "stream"]
    /\ UNCHANGED call /\ UpstreamUnchanged /\ HealthUnchanged

\* The last chunk, or an exception in the generator that ends the body early.
\* A stream reports a failure of its operation in the body.
StreamEnds(c) ==
    /\ req[c].at = "stream"
    /\ \/ /\ Current(c).at = "finished"
          /\ call' = [call EXCEPT ![c][req[c].attempt].heard = TRUE]
          /\ Conclude(c, IF Current(c).answer = "ok" THEN "ok" ELSE "cut")
       \/ Conclude(c, "cut") /\ UNCHANGED call
    /\ UpstreamUnchanged /\ HealthUnchanged

NextAttempt(c) ==
    /\ req[c].at = "pause"
    /\ req' = [req EXCEPT ![c].at = "send", ![c].attempt = @ + 1]
    /\ UNCHANGED call /\ UpstreamUnchanged /\ HealthUnchanged

-----------------------------------------------------------------------------
(* The services.                                                            *)

Performed(c) == {k \in Attempts : call[c][k].did}

\* How a call can end: whether it performed the operation, and its answer.
Endings(c) ==
    {<<FALSE, "refused">>, <<FALSE, "500">>}
        \cup (IF req[c].op = "read" THEN {<<FALSE, "ok">>} ELSE {})
        \cup (IF req[c].op = "anew" \/ (req[c].op = "once" /\ Performed(c) = {})
              THEN {<<TRUE, "ok">>, <<TRUE, "500">>} ELSE {})
        \cup (IF Answers502(req[c].path, req[c].op)
              THEN {<<FALSE, "502">>}
                     \cup (IF req[c].op = "anew"
                               \/ (req[c].op = "once" /\ Performed(c) = {})
                           THEN {<<TRUE, "502">>} ELSE {})
              ELSE {})

Serve(c, k) ==
    /\ call[c][k].at = "running"
    /\ \E e \in Endings(c) :
          /\ call' = [call EXCEPT ![c][k] =
                       [@ EXCEPT !.at = "finished", !.did = e[1], !.answer = e[2]]]
          /\ revoked' = IF /\ req[c].path \in RefreshPaths /\ req[c].op = "once"
                           /\ e[2] = "refused" /\ Performed(c) # {}
                        THEN revoked \cup {c} ELSE revoked
    /\ UNCHANGED <<up, req, outages>> /\ HealthUnchanged

\* A service stops: its calls end where they are and its connections break.
Crash(s) ==
    /\ up[s] /\ outages < MaxOutages
    /\ up' = [up EXCEPT ![s] = FALSE]
    /\ outages' = outages + 1
    /\ call' = [c \in Clients |->
                [k \in Attempts |->
                    IF Owner(c) = s /\ ~call[c][k].heard
                         /\ call[c][k].at \in {"running", "finished"}
                    THEN [call[c][k] EXCEPT !.at = "lost"] ELSE call[c][k]]]
    /\ UNCHANGED <<req, revoked>> /\ HealthUnchanged

\* ... after it had performed the operation, or before
CrashMidway(c, k) ==
    /\ call[c][k].at = "running"
    /\ <<TRUE, "ok">> \in Endings(c)
    /\ up[Owner(c)] /\ outages < MaxOutages
    /\ up' = [up EXCEPT ![Owner(c)] = FALSE]
    /\ outages' = outages + 1
    /\ call' = [d \in Clients |->
                [j \in Attempts |->
                    IF Owner(d) = Owner(c) /\ ~call[d][j].heard
                         /\ call[d][j].at \in {"running", "finished"}
                    THEN [call[d][j] EXCEPT !.at = "lost",
                              !.did = @ \/ (d = c /\ j = k)]
                    ELSE call[d][j]]]
    /\ UNCHANGED <<req, revoked>> /\ HealthUnchanged

Restart(s) ==
    /\ ~up[s]
    /\ up' = [up EXCEPT ![s] = TRUE]
    /\ downSince' = downSince \ {s}
    /\ UNCHANGED <<req, call, revoked, probe, report, outages>>

-----------------------------------------------------------------------------
(* GET /health: the services are probed at once, each within two seconds.   *)

AskHealth ==
    /\ \A s \in Backends : probe[s] = "none"
    /\ report = "none"
    /\ probe' = [s \in Backends |-> "pending"]
    /\ downSince' = {s \in Backends : ~up[s]}
    /\ UNCHANGED <<up, req, call, revoked, report, outages>>

\* A slow answer is a warning, none in time or a 5xx means down.
_classify_latency(answered) == IF answered THEN ServiceStatus ELSE {"down"}

ProbeService(s) ==
    /\ probe[s] = "pending"
    /\ \E st \in _classify_latency(up[s]) : probe' = [probe EXCEPT ![s] = st]
    /\ UNCHANGED <<up, req, call, revoked, report, downSince, outages>>

_aggregate_status(found) ==
    IF found = {"healthy"} THEN "healthy"
    ELSE IF found = {"down"} THEN "down" ELSE "warning"

ReportHealth ==
    /\ \A s \in Backends : probe[s] \in ServiceStatus
    /\ report' = _aggregate_status({probe[s] : s \in Backends})
    /\ probe' = [s \in Backends |-> "none"]
    /\ UNCHANGED <<up, req, call, revoked, downSince, outages>>

-----------------------------------------------------------------------------
GatewayStep(c) ==
    \/ \E p \in Asked, op \in {"read", "once", "anew"},
         bearer \in {"none", "good", "bad"}, streams \in BOOLEAN :
            Arrive(c, p, op, bearer, streams)
    \/ EnforceSession(c)
    \/ Send(c)
    \/ ReadTimeout(c)
    \/ ConnectionLost(c)
    \/ Receive(c)
    \/ ReceiveHeaders(c)
    \/ StreamEnds(c)
    \/ NextAttempt(c)

ServiceStep ==
    \/ \E c \in Clients, k \in Attempts : Serve(c, k) \/ CrashMidway(c, k)
    \/ \E s \in Backends : Crash(s) \/ Restart(s)

HealthStep ==
    \/ AskHealth
    \/ \E s \in Backends : ProbeService(s)
    \/ ReportHealth

ProxyNext ==
    \/ \E c \in Clients : GatewayStep(c)
    \/ ServiceStep
    \/ HealthStep

ProxySpec == ProxyInit /\ [][ProxyNext]_proxyVars

-----------------------------------------------------------------------------
(* Properties.                                                              *)

\* The gateway never repeats a request whose answer it has, except a 502: an
\* attempt before the last one was answered 502 or its answer never came.
OnlyFailuresAreRepeated ==
    \A c \in Clients : \A k \in 1..(req[c].attempt - 1) :
        call[c][k].heard => call[c][k].answer = "502"

\* A client that is told of a success got the answer of an attempt that ran to
\* its end and performed the operation; one that was denied reached no service;
\* the gateway gives up with a 502 or a 504 of its own only after every attempt.
AnswersAreTrue ==
    \A c \in Clients :
        /\ req[c].result = "ok" =>
             /\ Current(c).at = "finished" /\ Current(c).heard
             /\ req[c].op = "read" \/ Current(c).did
        /\ req[c].result = "denied" =>
             \A k \in Attempts : call[c][k].at = "unsent"
        /\ (req[c].result \in {"502", "504"} /\ ~Current(c).heard) =>
             req[c].attempt = MaxRetries

\* An operation is performed twice, refused although the same request performed
\* it, or turned into a revocation of the user's sessions only because the
\* gateway had sent the request before and got no answer or a 502: a client
\* that asks once is otherwise served once.  The repetition may overtake the
\* attempt it repeats: the client then gets new tokens that are revoked.
SentBefore(c) ==
    \E k \in 1..(req[c].attempt - 1) :
        /\ call[c][k].at # "unsent"
        /\ ~call[c][k].heard \/ call[c][k].answer = "502"

RepeatsAreExplained ==
    \A c \in Clients :
        ( \/ Cardinality(Performed(c)) > 1
          \/ req[c].result = "refused" /\ Performed(c) # {}
          \/ c \in revoked )
        => SentBefore(c)

\* The readiness report does not call the system healthy when a service has been
\* down all the time since before the check began, whatever the order in which
\* the probes, crashes and restarts fall.
ReadinessIsHonest == report = "healthy" => downSince = {}

ProxyIsSound ==
    /\ OnlyFailuresAreRepeated
    /\ AnswersAreTrue
    /\ RepeatsAreExplained
    /\ ReadinessIsHonest
=============================================================================
