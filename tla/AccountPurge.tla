---------------------------- MODULE AccountPurge ----------------------------
(***************************************************************************)
(* What happens to a user's rows in the four services when the user or an  *)
(* administrator deletes the account, and to the metering of the turns the *)
(* user had running.                                                       *)
(*                                                                         *)
(* The auth service commits the deletion first and then asks the AI and    *)
(* the usage service, one after the other and without ever failing, to     *)
(* drop what they hold (events/account_events.py).  Only the rows that     *)
(* reference users.id go with the account: sessions, progress and usage    *)
(* records carry a bare user id, so a turn that is still running writes    *)
(* them for somebody who is gone.  An administrator's request passes       *)
(* through the admin service, which waits 15 seconds for the auth service, *)
(* repeats the two purges and writes the audit log last; the two purges    *)
(* the auth service makes first may take 15 seconds each.                  *)
(*                                                                         *)
(* Abstracted: the users are no administrators (those targets are refused  *)
(* without a write); a turn is an analysis of a product or a plain chat;   *)
(* messages, memory and executions follow their session.                   *)
(***************************************************************************)
EXTENDS FiniteSets

CONSTANTS Users, Sessions, Turns, Jobs,
          Nobody       \* no user, no turn

ASSUME NobodyAssumption == Nobody \notin Users /\ Nobody \notin Turns

Services == {"ai", "usage"}
AdminKinds == {"block", "unblock", "deactivate", "activate", "delete"}
Kinds == AdminKinds \cup {"self"}

VARIABLES
    account,       \* the users table: whether the row exists, and its two flags
    admitted,      \* the users whose requests the gateway still forwards
    session,       \* ai_sessions: the owner and the turn that created the row
    modelUsage,    \* the turns with a row in model_usage, keyed by session
    progress,      \* for each user the turns counted in the progress row
    usageRecords,  \* the turns with a row in the usage service
    reports,       \* usage reports the usage service has yet to handle
    strays,        \* purges whose caller has given up on them
    turn, job,
    trail,         \* the administrators' jobs in admin_audit_logs
    metered,       \* history: turns that committed a model_usage row
    unreported,    \* history: turns whose report never arrived
    purged,        \* history: for each service the users it has purged
    late,          \* history: turns that were not over when it did
    unlogged       \* history: jobs whose audit entry could not be written

ledgers == <<modelUsage, progress, usageRecords, reports, metered, unreported>>
purges == <<strays, purged, late>>
jobs == <<job, trail, unlogged>>
purgeVars == <<account, admitted, session, ledgers, purges, turn, jobs>>

Idle == [step |-> "idle", user |-> Nobody, session |-> Nobody]
NoJob == [step |-> "idle", kind |-> "self", user |-> Nobody, waiting |-> FALSE,
          applied |-> FALSE]

\* The row of a session never used, and of one that was deleted.
Unused == [owner |-> Nobody, maker |-> Nobody, used |-> FALSE]
Dropped == [owner |-> Nobody, maker |-> Nobody, used |-> TRUE]
Present(s) == session[s].owner # Nobody

Exists(u) == account[u].exists
Usable(u) == Exists(u) /\ account[u].active /\ ~account[u].blocked

PurgeInit ==
    /\ account = [u \in Users |-> [exists |-> TRUE, blocked |-> FALSE, active |-> TRUE]]
    /\ admitted = Users
    /\ session = [s \in Sessions |-> Unused]
    /\ modelUsage = {} /\ usageRecords = {} /\ reports = {} /\ strays = {}
    /\ progress = [u \in Users |-> {}]
    /\ turn = [t \in Turns |-> Idle]
    /\ job = [j \in Jobs |-> NoJob]
    /\ trail = {} /\ metered = {} /\ unreported = {} /\ unlogged = {}
    /\ purged = [v \in Services |-> {}]
    /\ late = [v \in Services |-> {}]

-----------------------------------------------------------------------------
(* The gateway refuses a user once its cached copy of the account's state  *)
(* has expired, and not before (module UserState has the cache).           *)

Refuse(u) ==
    /\ u \in admitted /\ ~Usable(u)
    /\ admitted' = admitted \ {u}
    /\ UNCHANGED <<account, session, ledgers, purges, turn, jobs>>

Admit(u) ==
    /\ u \notin admitted /\ Usable(u)
    /\ admitted' = admitted \cup {u}
    /\ UNCHANGED <<account, session, ledgers, purges, turn, jobs>>

-----------------------------------------------------------------------------
(* A turn: the session, the model's answer, the two ledgers, the progress. *)

Goes(t, step) == turn' = [turn EXCEPT ![t].step = step]

\* A turn without a session makes one: the row needs no row in users.
StartTurn(t, u, s) ==
    /\ turn[t].step = "idle" /\ u \in admitted
    /\ \/ /\ ~session[s].used
          /\ session' = [session EXCEPT ![s] =
                             [owner |-> u, maker |-> t, used |-> TRUE]]
       \/ session[s].owner = u /\ UNCHANGED session
    /\ turn' = [turn EXCEPT ![t] = [step |-> "generating", user |-> u, session |-> s]]
    /\ late' = [v \in Services |->
                   IF u \in purged[v] THEN late[v] \cup {t} ELSE late[v]]
    /\ UNCHANGED <<account, admitted, ledgers, strays, purged, jobs>>

\* The answer arrived: persist_node updates the session's row, if it is there.
Persist(t) ==
    /\ turn[t].step = "generating"
    /\ Goes(t, IF Present(turn[t].session) THEN "persisted" ELSE "done")
    /\ UNCHANGED <<account, admitted, session, ledgers, purges, jobs>>

\* record_request: the local row first, and only then the report.
RecordRequest(t) ==
    /\ turn[t].step = "persisted"
    /\ \/ /\ Present(turn[t].session)
          /\ modelUsage' = modelUsage \cup {t}
          /\ metered' = metered \cup {t}
          /\ reports' = reports \cup {t}
          /\ Goes(t, "reporting")
       \/ /\ ~Present(turn[t].session)
          /\ Goes(t, "done")
          /\ UNCHANGED <<modelUsage, metered, reports>>
    /\ UNCHANGED <<account, admitted, session, progress, usageRecords, unreported,
                   purges, jobs>>

\* The usage service inserts the record; nothing there knows the users.
CreateRecord(t) ==
    /\ t \in reports
    /\ reports' = reports \ {t}
    /\ usageRecords' = usageRecords \cup {t}
    /\ UNCHANGED <<account, admitted, session, modelUsage, progress, metered,
                   unreported, purges, turn, jobs>>

\* The service is down, or fails: nobody tries again.
ReportLost(t) ==
    /\ t \in reports
    /\ reports' = reports \ {t}
    /\ unreported' = unreported \cup {t}
    /\ UNCHANGED <<account, admitted, session, modelUsage, progress, usageRecords,
                   metered, purges, turn, jobs>>

\* An answer, an error and ten seconds without either all end the wait.
Reported(t) ==
    /\ turn[t].step = "reporting"
    /\ Goes(t, "finishing")
    /\ UNCHANGED <<account, admitted, session, ledgers, purges, jobs>>

\* A product updates the session again before it counts the attempt.
Finish(t) ==
    /\ turn[t].step = "finishing"
    /\ \E product \in BOOLEAN :
          Goes(t, IF product /\ Present(turn[t].session) THEN "counting" ELSE "done")
    /\ UNCHANGED <<account, admitted, session, ledgers, purges, jobs>>

RecordAttempt(t) ==
    /\ turn[t].step = "counting"
    /\ progress' = [progress EXCEPT ![turn[t].user] = @ \cup {t}]
    /\ Goes(t, "done")
    /\ UNCHANGED <<account, admitted, session, modelUsage, usageRecords, reports,
                   metered, unreported, purges, jobs>>

\* The user deletes a chat: its model_usage rows go, its usage records stay.
DeleteSession(u, s) ==
    /\ u \in admitted /\ session[s].owner = u
    /\ session' = [session EXCEPT ![s] = Dropped]
    /\ modelUsage' = {t \in modelUsage : turn[t].session # s}
    /\ UNCHANGED <<account, admitted, progress, usageRecords, reports, metered,
                   unreported, purges, turn, jobs>>

-----------------------------------------------------------------------------
(* The purges.                                                             *)

Unfinished(t) == turn[t].step \notin {"idle", "done"}

DeleteByUser(u) ==
    LET gone == {s \in Sessions : session[s].owner = u} IN
    /\ session' = [s \in Sessions |-> IF s \in gone THEN Dropped ELSE session[s]]
    /\ modelUsage' = {t \in modelUsage : turn[t].session \notin gone}

\* Mutant of PurgeUser: the progress tables are forgotten.
PurgeUserSessions(u) ==
    /\ DeleteByUser(u)
    /\ late' = [late EXCEPT !["ai"] =
                   @ \cup {t \in Turns : turn[t].user = u /\ Unfinished(t)}]
    /\ UNCHANGED <<progress, usageRecords>>

\* The AI service: sessions with all below them, and the progress tables.
PurgeUser(u) ==
    /\ DeleteByUser(u)
    /\ progress' = [progress EXCEPT ![u] = {}]
    /\ late' = [late EXCEPT !["ai"] =
                   @ \cup {t \in Turns : turn[t].user = u /\ Unfinished(t)}]
    /\ UNCHANGED usageRecords

DeleteRecords(u) ==
    /\ usageRecords' = {t \in usageRecords : turn[t].user # u}
    /\ late' = [late EXCEPT !["usage"] =
                   @ \cup {t \in Turns : turn[t].user = u /\ (Unfinished(t) \/ t \in reports)}]
    /\ UNCHANGED <<session, modelUsage, progress>>

Purge(v, u) ==
    /\ IF v = "ai" THEN PurgeUser(u) ELSE DeleteRecords(u)
    /\ purged' = [purged EXCEPT ![v] = @ \cup {u}]
    /\ UNCHANGED <<reports, metered, unreported>>

NoPurge == UNCHANGED <<session, ledgers, purged, late>>

\* A call that its caller sees succeed or fail, or gives up on after 15 seconds.
BestEffortPurge(v, u) ==
    \/ Purge(v, u) /\ UNCHANGED strays
    \/ NoPurge /\ UNCHANGED strays
    \/ NoPurge /\ strays' = strays \cup {<<v, u>>}

StrayPurge(v, u) ==
    /\ <<v, u>> \in strays
    /\ strays' = strays \ {<<v, u>>}
    /\ Purge(v, u)
    /\ UNCHANGED <<account, admitted, turn, jobs>>

-----------------------------------------------------------------------------
(* The jobs: a deletion by the user, and the administrators' mutations.    *)

Advance(j, step) == job' = [job EXCEPT ![j].step = step]

Ask(j, kind, u) ==
    /\ job[j].step = "idle"
    /\ kind = "self" => u \in admitted
    /\ job' = [job EXCEPT ![j] = [step |-> "asked", kind |-> kind, user |-> u,
                                  waiting |-> TRUE, applied |-> FALSE]]
    /\ UNCHANGED <<account, admitted, session, ledgers, purges, turn, trail, unlogged>>

\* The state a mutation leads to, and whether the auth service accepts it.
Accepts(kind, a) ==
    CASE kind = "block" -> ~a.blocked
      [] kind = "unblock" -> a.blocked
      [] kind = "deactivate" -> a.active
      [] kind = "activate" -> ~a.active
      [] OTHER -> TRUE

Applied(kind, a) ==
    CASE kind = "block" -> [a EXCEPT !.blocked = TRUE]
      [] kind = "unblock" -> [a EXCEPT !.blocked = FALSE]
      [] kind = "deactivate" -> [a EXCEPT !.active = FALSE]
      [] kind = "activate" -> [a EXCEPT !.active = TRUE]
      [] OTHER -> [a EXCEPT !.exists = FALSE]

Mutate(j) ==
    LET u == job[j].user
        kind == job[j].kind IN
    /\ job[j].step = "asked"
    /\ Exists(u) /\ Accepts(kind, account[u])
    /\ account' = [account EXCEPT ![u] = Applied(kind, @)]
    /\ job' = [job EXCEPT ![j].applied = TRUE,
                          ![j].step = IF kind \in {"self", "delete"}
                                      THEN "purge ai" ELSE "answered"]
    /\ UNCHANGED <<admitted, session, ledgers, purges, turn, trail, unlogged>>

\* Mutant of Refused: the attempt is logged like a success.
RefusedLogged(j) ==
    LET u == job[j].user IN
    /\ job[j].step = "asked"
    /\ Exists(u) => ~Accepts(job[j].kind, account[u])
    /\ Advance(j, "log")
    /\ UNCHANGED <<account, admitted, session, ledgers, purges, turn, trail, unlogged>>

\* 404, or an error the admin service passes on: no purge and no log entry.
Refused(j) ==
    LET u == job[j].user IN
    /\ job[j].step = "asked"
    /\ Exists(u) => ~Accepts(job[j].kind, account[u])
    /\ Advance(j, "done")
    /\ UNCHANGED <<account, admitted, session, ledgers, purges, turn, trail, unlogged>>

PublishAccountDeleted(j) ==
    /\ \/ /\ job[j].step = "purge ai"
          /\ BestEffortPurge("ai", job[j].user)
          /\ Advance(j, "purge usage")
       \/ /\ job[j].step = "purge usage"
          /\ BestEffortPurge("usage", job[j].user)
          /\ Advance(j, "answered")
    /\ UNCHANGED <<account, admitted, turn, trail, unlogged>>

\* The admin service waits 15 seconds; the auth service carries on.
GiveUp(j) ==
    /\ job[j].kind \in AdminKinds /\ job[j].waiting
    /\ job[j].step \in {"asked", "purge ai", "purge usage", "answered"}
    /\ job' = [job EXCEPT ![j].waiting = FALSE]
    /\ UNCHANGED <<account, admitted, session, ledgers, purges, turn, trail, unlogged>>

Answered(j) ==
    /\ job[j].step = "answered"
    /\ Advance(j, IF job[j].kind = "self" \/ ~job[j].waiting THEN "done"
                  ELSE IF job[j].kind = "delete" THEN "again ai" ELSE "log")
    /\ UNCHANGED <<account, admitted, session, ledgers, purges, turn, trail, unlogged>>

PurgeAgain(j) ==
    /\ \/ /\ job[j].step = "again ai"
          /\ BestEffortPurge("ai", job[j].user)
          /\ Advance(j, "again usage")
       \/ /\ job[j].step = "again usage"
          /\ BestEffortPurge("usage", job[j].user)
          /\ Advance(j, "log")
    /\ UNCHANGED <<account, admitted, turn, trail, unlogged>>

Log(j) ==
    /\ job[j].step = "log"
    /\ \/ trail' = trail \cup {j} /\ UNCHANGED unlogged
       \/ unlogged' = unlogged \cup {j} /\ UNCHANGED trail
    /\ Advance(j, "done")
    /\ UNCHANGED <<account, admitted, session, ledgers, purges, turn>>

-----------------------------------------------------------------------------

PurgeNext ==
    \/ \E u \in Users : Refuse(u) \/ Admit(u)
    \/ \E u \in Users, s \in Sessions : DeleteSession(u, s)
    \/ \E t \in Turns, u \in Users, s \in Sessions : StartTurn(t, u, s)
    \/ \E t \in Turns : Persist(t) \/ RecordRequest(t) \/ CreateRecord(t)
                            \/ ReportLost(t) \/ Reported(t) \/ Finish(t)
                            \/ RecordAttempt(t)
    \/ \E v \in Services, u \in Users : StrayPurge(v, u)
    \/ \E j \in Jobs, kind \in Kinds, u \in Users : Ask(j, kind, u)
    \/ \E j \in Jobs : Mutate(j) \/ Refused(j) \/ PublishAccountDeleted(j)
                          \/ GiveUp(j) \/ Answered(j) \/ PurgeAgain(j) \/ Log(j)

PurgeSpec == PurgeInit /\ [][PurgeNext]_purgeVars

-----------------------------------------------------------------------------
(* The types.                                                              *)

TurnSteps == {"idle", "generating", "persisted", "reporting", "finishing",
              "counting", "done"}
JobSteps == {"idle", "asked", "purge ai", "purge usage", "answered", "again ai",
             "again usage", "log", "done"}

PurgeTypeOK ==
    /\ account \in [Users -> [exists : BOOLEAN, blocked : BOOLEAN, active : BOOLEAN]]
    /\ admitted \subseteq Users
    /\ session \in [Sessions -> [owner : Users \cup {Nobody}, maker : Turns \cup {Nobody},
                                 used : BOOLEAN]]
    /\ modelUsage \subseteq Turns /\ usageRecords \subseteq Turns
    /\ progress \in [Users -> SUBSET Turns]
    /\ reports \subseteq Turns /\ strays \subseteq Services \X Users
    /\ turn \in [Turns -> [step : TurnSteps, user : Users \cup {Nobody},
                           session : Sessions \cup {Nobody}]]
    /\ job \in [Jobs -> [step : JobSteps, kind : Kinds, user : Users \cup {Nobody},
                         waiting : BOOLEAN, applied : BOOLEAN]]
    /\ trail \subseteq Jobs /\ unlogged \subseteq Jobs
    /\ metered \subseteq Turns /\ unreported \subseteq Turns
    /\ purged \in [Services -> SUBSET Users] /\ late \in [Services -> SUBSET Turns]

-----------------------------------------------------------------------------
(* What a deleted account leaves behind.                                   *)

\* Once the AI service has purged a user who is gone, every session, model
\* usage row and counted attempt of that user was written by a turn that was
\* still running at the purge or that a stale gateway let in after it.
AIRowsAreLate ==
    \A u \in purged["ai"] :
        /\ \A s \in Sessions : session[s].owner = u => session[s].maker \in late["ai"]
        /\ progress[u] \subseteq late["ai"]
        /\ \A t \in modelUsage : turn[t].user = u => t \in late["ai"]

\* The same of the usage service, for which a report on its way counts too.
UsageRowsAreLate ==
    \A u \in purged["usage"], t \in usageRecords :
        turn[t].user = u => t \in late["usage"]

\* A purge leaves no rows of turns that were over: what outlives a deleted
\* account comes from a turn that overlapped the deletion (account_events.py,
\* user_purge_service.py, usage_record_repository.py).
OrphansAreExplained == AIRowsAreLate /\ UsageRowsAreLate

\* The two ledgers of one turn (usage_tracker.py).  The AI service's row is
\* missing only with its session; the usage service's is missing only when the
\* report was lost, is on its way, or the user was purged there; and the usage
\* service never counts a turn the AI service has not.
MeteringIsExplained ==
    /\ \A t \in metered : t \in modelUsage \/ ~Present(turn[t].session)
    /\ \A t \in metered : \/ t \in usageRecords \cup reports \cup unreported
                          \/ turn[t].user \in purged["usage"]
    /\ usageRecords \cup reports \subseteq metered

\* The audit log of the admin service tells what the auth service did: every
\* entry is of a mutation that was applied, and a mutation by an administrator
\* that was applied has its entry, unless the admin service had stopped waiting
\* for the answer or could not write the entry (user_management_service.py).
AuditIsExplained ==
    /\ \A j \in trail : job[j].applied
    /\ \A j \in Jobs : job[j].step = "done" /\ job[j].applied /\ job[j].kind \in AdminKinds
          => j \in trail \/ j \in unlogged \/ ~job[j].waiting

\* What was done and what was recorded of it agree, up to these exceptions.
LedgersAreExplained == MeteringIsExplained /\ AuditIsExplained
=============================================================================
