---------------------------- MODULE AccountsProofs ----------------------------
(***************************************************************************)
(* Proofs about accounts and what hangs on them, for any number of users,  *)
(* sessions, turns, jobs and requests.                                     *)
(*                                                                         *)
(* AccountPurge: what a deleted account leaves behind comes from turns     *)
(* that overlapped the deletion, and the ledgers of the turns and of the   *)
(* administrators' jobs agree up to the exceptions of LedgersAreExplained. *)
(* The invariant has two halves that share no variable: the rows and the   *)
(* turns that write them (Rows), and the jobs with the audit log (Work).   *)
(* A purge touches the first, whoever makes it; a job moves the second.    *)
(*                                                                         *)
(* Profiles: no profile loses its picture, no two share a name, a refusal  *)
(* has one of the named reasons, and public pages show what the rows say.  *)
(*                                                                         *)
(* UsageAnalytics: the reports made from the usage records add up.         *)
(*                                                                         *)
(* GatewayProxy: the invariant GInv says, for each client request, what    *)
(* the calls behind it look like at each step, and of the readiness check  *)
(* that a service down since before it began cannot be found healthy.      *)
(* That an anomaly needs two calls then suffices: the earlier one has been *)
(* given up on or answered 502 (TwoCalls).                                 *)
(***************************************************************************)
EXTENDS MCAccounts, TableTheorems, FiniteSetTheorems, TLAPS

RowTypes ==
    /\ session \in [Sessions -> [owner : Users \cup {Nobody}, maker : Turns \cup {Nobody},
                                 used : BOOLEAN]]
    /\ modelUsage \subseteq Turns /\ usageRecords \subseteq Turns
    /\ progress \in [Users -> SUBSET Turns]
    /\ reports \subseteq Turns /\ strays \subseteq Services \X Users
    /\ turn \in [Turns -> [step : TurnSteps, user : Users \cup {Nobody},
                           session : Sessions \cup {Nobody}]]
    /\ metered \subseteq Turns /\ unreported \subseteq Turns
    /\ purged \in [Services -> SUBSET Users] /\ late \in [Services -> SUBSET Turns]

\* A turn that has begun has a user and a session in use, of that user as long
\* as it exists; only such turns are metered, and model_usage goes with the session.
TurnsBegun ==
    /\ \A t \in Turns : turn[t].step # "idle" =>
          /\ turn[t].user \in Users
          /\ turn[t].session \in Sessions
          /\ session[turn[t].session].used
          /\ Present(turn[t].session) => session[turn[t].session].owner = turn[t].user
    /\ \A s \in Sessions : Present(s) => session[s].used
    /\ \A t \in metered : turn[t].step # "idle"
    /\ \A t \in modelUsage : turn[t].step # "idle" /\ Present(turn[t].session)

\* A turn of a purged user that can still write was late for the purge.
RunningAreLate ==
    /\ \A u \in purged["ai"], t \in Turns :
          turn[t].user = u /\ Unfinished(t) => t \in late["ai"]
    /\ \A u \in purged["usage"], t \in Turns :
          turn[t].user = u /\ (Unfinished(t) \/ t \in reports) => t \in late["usage"]

Rows ==
    /\ RowTypes
    /\ TurnsBegun
    /\ RunningAreLate
    /\ OrphansAreExplained
    /\ MeteringIsExplained

WorkTypes ==
    /\ job \in [Jobs -> [step : JobSteps, kind : Kinds, user : Users \cup {Nobody},
                         waiting : BOOLEAN, applied : BOOLEAN]]
    /\ trail \subseteq Jobs /\ unlogged \subseteq Jobs

\* A job past its mutation has applied it, and logs at its end.
Ordered ==
    /\ \A j \in Jobs : job[j].step # "idle" => job[j].user \in Users
    /\ \A j \in Jobs : job[j].step = "asked" => ~job[j].applied
    /\ \A j \in Jobs : job[j].step \notin {"idle", "asked", "done"} => job[j].applied
    /\ \A j \in trail : job[j].step = "done"

Work ==
    /\ WorkTypes
    /\ Ordered
    /\ AuditIsExplained

AccountsTyped ==
    /\ account \in [Users -> [exists : BOOLEAN, blocked : BOOLEAN, active : BOOLEAN]]
    /\ admitted \subseteq Users

PInv == AccountsTyped /\ Rows /\ Work

turnRows == <<session, ledgers, purges, turn>>

-----------------------------------------------------------------------------
(* The initial state, and steps that leave one half alone.                 *)

\* The invariant holds of empty tables.
LEMMA InitPInv == PurgeInit => PInv
<1> SUFFICES ASSUME PurgeInit PROVE PInv
  OBVIOUS
<1> USE DEF PurgeInit
<1>1. AccountsTyped
  BY DEF AccountsTyped
<1>2. RowTypes
  <2>1. Unused \in [owner : Users \cup {Nobody}, maker : Turns \cup {Nobody}, used : BOOLEAN]
    BY DEF Unused
  <2>2. Idle \in [step : TurnSteps, user : Users \cup {Nobody}, session : Sessions \cup {Nobody}]
    BY DEF Idle, TurnSteps
  <2> QED  BY <2>1, <2>2 DEF RowTypes
<1>3. TurnsBegun
  BY DEF TurnsBegun, Idle, Present, Unused
<1>4. RunningAreLate /\ OrphansAreExplained /\ MeteringIsExplained
  BY DEF RunningAreLate, OrphansAreExplained, AIRowsAreLate, UsageRowsAreLate,
         MeteringIsExplained, Services
<1>5. WorkTypes
  <2>1. NoJob \in [step : JobSteps, kind : Kinds, user : Users \cup {Nobody},
                   waiting : BOOLEAN, applied : BOOLEAN]
    BY DEF NoJob, JobSteps, Kinds
  <2> QED  BY <2>1 DEF WorkTypes
<1>6. Ordered /\ AuditIsExplained
  BY DEF Ordered, AuditIsExplained, NoJob
<1> QED  BY <1>1, <1>2, <1>3, <1>4, <1>5, <1>6 DEF PInv, Rows, Work

\* A step that changes no row keeps what is said of the rows.
LEMMA RowsStutter == Rows /\ UNCHANGED turnRows => Rows'
  BY DEF Rows, turnRows, ledgers, purges, RowTypes, TurnsBegun, Present, RunningAreLate,
         Unfinished, OrphansAreExplained, AIRowsAreLate, UsageRowsAreLate,
         MeteringIsExplained

\* A step that moves no job keeps what is said of the jobs.
LEMMA WorkStutter == Work /\ UNCHANGED jobs => Work'
  BY DEF Work, jobs, WorkTypes, Ordered, AuditIsExplained

-----------------------------------------------------------------------------
(* Turns.                                                                  *)

\* A step that only moves a turn on keeps the rows: no turn ends and runs again.
LEMMA AdvanceTurn ==
  ASSUME Rows, NEW t \in Turns, NEW step \in TurnSteps \ {"idle"},
         Unfinished(t), Goes(t, step),
         UNCHANGED <<session, ledgers, purges>>
  PROVE  Rows'
<1>1. /\ turn' = [turn EXCEPT ![t].step = step]
      /\ \A r \in Turns : /\ turn'[r].user = turn[r].user
                          /\ turn'[r].session = turn[r].session
                          /\ Unfinished(r)' => Unfinished(r)
                          /\ turn'[r].step = "idle" => turn[r].step = "idle"
                          /\ turn'[r].step # "idle" => turn[r].step # "idle"
  BY DEF Goes, Rows, RowTypes, Unfinished
<1>2. RowTypes'
  BY <1>1 DEF Rows, RowTypes, ledgers, purges, Goes
<1>3. TurnsBegun'
  BY <1>1 DEF Rows, RowTypes, TurnsBegun, Present, ledgers
<1>4. RunningAreLate'
  BY <1>1 DEF Rows, RunningAreLate, ledgers, purges
<1>5. OrphansAreExplained'
  BY <1>1 DEF Rows, RowTypes, OrphansAreExplained, AIRowsAreLate, UsageRowsAreLate,
              ledgers, purges
<1>6. MeteringIsExplained'
  BY <1>1 DEF Rows, RowTypes, MeteringIsExplained, Present, ledgers, purges
<1> QED  BY <1>2, <1>3, <1>4, <1>5, <1>6 DEF Rows

\* A turn that starts for a purged user is late from the start.
LEMMA StartTurnRows ==
  ASSUME Rows, NEW t \in Turns, NEW u \in Users, NEW s \in Sessions, StartTurn(t, u, s)
  PROVE  Rows'
<1> USE NobodyAssumption
<1>1. /\ turn' = [turn EXCEPT ![t] = [step |-> "generating", user |-> u, session |-> s]]
      /\ \A v \in Services : /\ late[v] \subseteq late'[v]
                             /\ u \in purged[v] => t \in late'[v]
      /\ late' \in [Services -> SUBSET Turns]
      /\ UNCHANGED <<ledgers, strays, purged>>
  BY DEF StartTurn, Rows, RowTypes
<1>2. /\ session' \in [Sessions -> [owner : Users \cup {Nobody}, maker : Turns \cup {Nobody},
                                   used : BOOLEAN]]
      /\ session'[s].used
      /\ \A r \in Sessions : session[r].used => session'[r] = session[r]
      /\ \A r \in Sessions : ~session[r].used =>
            \/ session'[r] = session[r]
            \/ r = s /\ session'[r].owner = u /\ session'[r].maker = t /\ session'[r].used
  <2>1. CASE /\ ~session[s].used
             /\ session' = [session EXCEPT ![s] = [owner |-> u, maker |-> t, used |-> TRUE]]
    BY <2>1 DEF Rows, RowTypes
  <2>2. CASE session[s].owner = u /\ UNCHANGED session
    BY <2>2 DEF Rows, RowTypes, TurnsBegun, Present
  <2> QED  BY <2>1, <2>2 DEF StartTurn
<1>9. session'[s].owner = u
  BY DEF StartTurn, Rows, RowTypes
<1>3. RowTypes'
  BY <1>1, <1>2 DEF Rows, RowTypes, ledgers, TurnSteps
<1>4. t \notin metered /\ t \notin modelUsage
  BY DEF StartTurn, Rows, TurnsBegun
<1>5. TurnsBegun'
  <2>1. \A r \in Turns : turn'[r].step # "idle" =>
           /\ turn'[r].user \in Users /\ turn'[r].session \in Sessions
           /\ session'[turn'[r].session].used
           /\ Present(turn[r].session)' => session'[turn'[r].session].owner = turn'[r].user
    <3> TAKE r \in Turns
    <3>1. CASE r = t
      BY <1>1, <1>2, <1>9, <3>1 DEF Rows, RowTypes
    <3>2. CASE r # t
      BY <1>1, <1>2, <3>2 DEF Rows, RowTypes, TurnsBegun, Present
    <3> QED  BY <3>1, <3>2
  <2>2. \A r \in Sessions : Present(r)' => session'[r].used
    BY <1>2 DEF Rows, TurnsBegun, Present
  <2>3. \A r \in metered' : turn'[r].step # "idle"
    BY <1>1, <1>4 DEF Rows, RowTypes, TurnsBegun, ledgers
  <2>4. \A r \in modelUsage' : turn'[r].step # "idle" /\ Present(turn[r].session)'
    BY <1>1, <1>2, <1>4 DEF Rows, RowTypes, TurnsBegun, Present, ledgers
  <2> QED  BY <2>1, <2>2, <2>3, <2>4 DEF TurnsBegun
<1>6. RunningAreLate'
  BY <1>1 DEF Rows, RowTypes, RunningAreLate, Unfinished, ledgers, Services
<1>7. OrphansAreExplained'
  <2> SUFFICES ASSUME NEW o \in Users
               PROVE  /\ o \in purged["ai"] =>
                           /\ \A r \in Sessions : session'[r].owner = o =>
                                                    session'[r].maker \in late'["ai"]
                           /\ progress[o] \subseteq late'["ai"]
                           /\ \A r \in modelUsage : turn'[r].user = o => r \in late'["ai"]
                      /\ o \in purged["usage"] =>
                           \A r \in usageRecords : turn'[r].user = o => r \in late'["usage"]
    BY <1>1 DEF Rows, RowTypes, OrphansAreExplained, AIRowsAreLate, UsageRowsAreLate,
                ledgers, Services
  <2>1. \A v \in Services, r \in Turns :
           o \in purged[v] /\ turn'[r].user = o => r \in late'[v] \/ turn[r].user = o
    BY <1>1 DEF Rows, RowTypes
  <2>2. \A r \in Sessions : o \in purged["ai"] /\ session'[r].owner = o
                                => session'[r].maker \in late'["ai"]
    BY <1>1, <1>2 DEF Rows, OrphansAreExplained, AIRowsAreLate, Services
  <2> QED
    BY <1>1, <2>1, <2>2 DEF Rows, RowTypes, OrphansAreExplained, AIRowsAreLate,
                            UsageRowsAreLate, Services
<1>8. MeteringIsExplained'
  BY <1>1, <1>2, <1>4 DEF Rows, RowTypes, TurnsBegun, MeteringIsExplained, Present, ledgers
<1> QED  BY <1>3, <1>5, <1>6, <1>7, <1>8 DEF Rows

\* The row and the report of a turn that runs, and so was late if purged.
LEMMA RecordRequestRows ==
  ASSUME Rows, NEW t \in Turns, RecordRequest(t)
  PROVE  Rows'
<1>1. Unfinished(t) /\ turn[t].step # "idle"
  BY DEF RecordRequest, Unfinished
<1>2. CASE /\ ~Present(turn[t].session) /\ Goes(t, "done")
           /\ UNCHANGED <<session, ledgers, purges>>
  BY <1>1, <1>2, AdvanceTurn DEF TurnSteps
<1>3. CASE /\ Present(turn[t].session)
           /\ modelUsage' = modelUsage \cup {t}
           /\ metered' = metered \cup {t}
           /\ reports' = reports \cup {t}
           /\ Goes(t, "reporting")
           /\ UNCHANGED <<session, progress, usageRecords, unreported, purges>>
  <2>1. /\ turn' = [turn EXCEPT ![t].step = "reporting"]
        /\ \A r \in Turns : /\ turn'[r].user = turn[r].user
                            /\ turn'[r].session = turn[r].session
                            /\ Unfinished(r)' => Unfinished(r)
                            /\ turn'[r].step # "idle" <=> turn[r].step # "idle"
    BY <1>1, <1>3 DEF Goes, Rows, RowTypes, Unfinished
  <2>2. RowTypes'
    BY <1>3, <2>1 DEF Rows, RowTypes, purges, TurnSteps
  <2>3. TurnsBegun'
    BY <1>1, <1>3, <2>1 DEF Rows, RowTypes, TurnsBegun, Present
  <2>4. RunningAreLate'
    BY <1>1, <1>3, <2>1 DEF Rows, RunningAreLate, purges
  <2>5. OrphansAreExplained'
    BY <1>1, <1>3, <2>1 DEF Rows, RowTypes, RunningAreLate, OrphansAreExplained,
                            AIRowsAreLate, UsageRowsAreLate, purges
  <2>6. MeteringIsExplained'
    BY <1>3, <2>1 DEF Rows, RowTypes, MeteringIsExplained, Present, purges
  <2> QED  BY <2>2, <2>3, <2>4, <2>5, <2>6 DEF Rows
<1> QED  BY <1>2, <1>3 DEF RecordRequest, ledgers, purges

\* A record is of a report that was on its way, and so was late if purged.
LEMMA CreateRecordRows ==
  ASSUME Rows, NEW t \in Turns, CreateRecord(t)
  PROVE  Rows'
<1>1. RowTypes' /\ TurnsBegun' /\ RunningAreLate'
  BY DEF CreateRecord, purges, Rows, RowTypes, TurnsBegun, Present, RunningAreLate, Unfinished
<1>2. OrphansAreExplained'
  BY DEF CreateRecord, purges, Rows, RunningAreLate, OrphansAreExplained, AIRowsAreLate,
         UsageRowsAreLate
<1>3. MeteringIsExplained'
  BY DEF CreateRecord, purges, Rows, MeteringIsExplained, Present
<1> QED  BY <1>1, <1>2, <1>3 DEF Rows

\* A lost report is unreported.
LEMMA ReportLostRows ==
  ASSUME Rows, NEW t \in Turns, ReportLost(t)
  PROVE  Rows'
<1>1. RowTypes' /\ TurnsBegun' /\ RunningAreLate'
  BY DEF ReportLost, purges, Rows, RowTypes, TurnsBegun, Present, RunningAreLate, Unfinished
<1>2. OrphansAreExplained' /\ MeteringIsExplained'
  BY DEF ReportLost, purges, Rows, OrphansAreExplained, AIRowsAreLate, UsageRowsAreLate,
         MeteringIsExplained, Present
<1> QED  BY <1>1, <1>2 DEF Rows

\* An attempt is counted by a turn that runs.
LEMMA RecordAttemptRows ==
  ASSUME Rows, NEW t \in Turns, RecordAttempt(t)
  PROVE  Rows'
<1>1. /\ turn' = [turn EXCEPT ![t].step = "done"]
      /\ Unfinished(t) /\ turn[t].step # "idle"
      /\ \A r \in Turns : /\ turn'[r].user = turn[r].user
                          /\ turn'[r].session = turn[r].session
                          /\ Unfinished(r)' => Unfinished(r)
                          /\ turn'[r].step # "idle" <=> turn[r].step # "idle"
  BY DEF RecordAttempt, Goes, Rows, RowTypes, Unfinished
<1>2. /\ progress' = [progress EXCEPT ![turn[t].user] = @ \cup {t}]
      /\ UNCHANGED <<session, modelUsage, usageRecords, reports, metered, unreported>>
      /\ UNCHANGED <<strays, purged, late>>
  BY DEF RecordAttempt, purges
<1>3. RowTypes'
  <2>1. turn' \in [Turns -> [step : TurnSteps, user : Users \cup {Nobody},
                             session : Sessions \cup {Nobody}]]
    BY <1>1 DEF Rows, RowTypes, TurnSteps
  <2>2. progress' \in [Users -> SUBSET Turns]
    BY <1>2 DEF Rows, RowTypes
  <2> QED  BY <1>2, <2>1, <2>2 DEF Rows, RowTypes
<1>4. TurnsBegun' /\ RunningAreLate'
  BY <1>1, <1>2 DEF Rows, RowTypes, TurnsBegun, Present, RunningAreLate
<1>5. OrphansAreExplained'
  BY <1>1, <1>2 DEF Rows, RowTypes, RunningAreLate, OrphansAreExplained, AIRowsAreLate,
                    UsageRowsAreLate, Services
<1>6. MeteringIsExplained'
  BY <1>1, <1>2 DEF Rows, RowTypes, MeteringIsExplained, Present
<1> QED  BY <1>3, <1>4, <1>5, <1>6 DEF Rows

\* Rows of model_usage go only with their session.
LEMMA DeleteSessionRows ==
  ASSUME Rows, NEW u \in Users, NEW s \in Sessions, DeleteSession(u, s)
  PROVE  Rows'
<1>1. /\ session' = [session EXCEPT ![s] = Dropped]
      /\ modelUsage' = {t \in modelUsage : turn[t].session # s}
      /\ UNCHANGED <<progress, usageRecords, reports, metered, unreported>>
      /\ UNCHANGED <<strays, purged, late, turn>>
  BY DEF DeleteSession, purges
<1>2. Dropped = [owner |-> Nobody, maker |-> Nobody, used |-> TRUE]
  BY DEF Dropped
<1>3. RowTypes'
  BY <1>1, <1>2 DEF Rows, RowTypes
<1>8. /\ \A r \in Sessions : session[r].used => session'[r].used
      /\ \A r \in Sessions : Present(r)' => Present(r) /\ session'[r] = session[r]
      /\ \A r \in Sessions : r # s /\ Present(r) => Present(r)'
      /\ ~Present(s)'
  BY <1>1, <1>2 DEF Rows, RowTypes, Present
<1>4. TurnsBegun'
  <2>1. \A t \in Turns : turn[t].step # "idle" =>
           /\ turn[t].user \in Users /\ turn[t].session \in Sessions
           /\ session'[turn[t].session].used
           /\ session'[turn[t].session].owner # Nobody =>
                 session'[turn[t].session].owner = turn[t].user
    BY <1>8 DEF Rows, TurnsBegun, Present
  <2>2. \A t \in modelUsage' : turn[t].step # "idle" /\ session'[turn[t].session].owner # Nobody
    <3> TAKE t \in modelUsage'
    <3>1. /\ t \in Turns /\ turn[t].session \in Sessions \ {s}
          /\ turn[t].step # "idle" /\ Present(turn[t].session)
      BY <1>1 DEF Rows, RowTypes, TurnsBegun
    <3> QED  BY <1>8, <3>1 DEF Present
  <2> QED  BY <1>1, <1>8, <2>1, <2>2 DEF Rows, TurnsBegun, Present
<1>5. RunningAreLate'
  BY <1>1 DEF Rows, RunningAreLate, Unfinished
<1>6. OrphansAreExplained'
  <2>1. \A r \in Sessions : session'[r].owner \in Users => session'[r] = session[r]
    BY <1>1, <1>2, NobodyAssumption DEF Rows, RowTypes
  <2>2. \A o \in purged["ai"] : o \in Users
    BY DEF Rows, RowTypes, Services
  <2>3. AIRowsAreLate'
    BY <1>1, <2>1, <2>2 DEF Rows, OrphansAreExplained, AIRowsAreLate
  <2>4. UsageRowsAreLate'
    BY <1>1 DEF Rows, OrphansAreExplained, UsageRowsAreLate
  <2> QED  BY <2>3, <2>4 DEF OrphansAreExplained
<1>7. MeteringIsExplained'
  <2>1. \A t \in metered' : t \in modelUsage' \/ ~Present(turn[t].session)'
    <3> TAKE t \in metered'
    <3>1. turn[t].session \in Sessions
      BY <1>1 DEF Rows, RowTypes, TurnsBegun
    <3> QED  BY <1>1, <1>8, <3>1 DEF Rows, MeteringIsExplained
  <2> QED  BY <1>1, <2>1 DEF Rows, MeteringIsExplained
<1> QED  BY <1>3, <1>4, <1>5, <1>6, <1>7 DEF Rows

-----------------------------------------------------------------------------
(* Purges.                                                                 *)

\* The sessions of a purged user go, and their model_usage rows with them.
LEMMA DeleteByUserRows ==
  ASSUME Rows, NEW u \in Users, DeleteByUser(u), UNCHANGED turn
  PROVE  /\ session' \in [Sessions -> [owner : Users \cup {Nobody},
                                       maker : Turns \cup {Nobody}, used : BOOLEAN]]
         /\ \A s \in Sessions : session[s].used => session'[s].used
         /\ \A s \in Sessions : session'[s].owner \in Users =>
                session'[s] = session[s] /\ session[s].owner # u
         /\ \A s \in Sessions : Present(s)' => Present(s) /\ session[s].owner # u
         /\ modelUsage' \subseteq modelUsage
         /\ \A s \in Sessions : Present(s)' => session'[s] = session[s]
         /\ \A t \in modelUsage' : turn[t].session \in Sessions =>
                /\ session'[turn[t].session] = session[turn[t].session]
                /\ session[turn[t].session].owner # u
         /\ \A t \in modelUsage : turn[t].session \in Sessions =>
                t \in modelUsage' \/ ~Present(turn[t].session)'
<1> DEFINE gone == {s \in Sessions : session[s].owner = u}
<1>1. /\ session' = [s \in Sessions |-> IF s \in gone THEN Dropped ELSE session[s]]
      /\ modelUsage' = {t \in modelUsage : turn[t].session \notin gone}
  BY DEF DeleteByUser
<1>2. /\ Dropped \in [owner : Users \cup {Nobody}, maker : Turns \cup {Nobody},
                      used : BOOLEAN]
      /\ Dropped.owner = Nobody /\ Dropped.used
  BY DEF Dropped
<1>3. \A s \in Sessions : /\ s \in gone => session'[s] = Dropped
                          /\ s \notin gone => session'[s] = session[s]
  BY <1>1
<1>4. session' \in [Sessions -> [owner : Users \cup {Nobody},
                                 maker : Turns \cup {Nobody}, used : BOOLEAN]]
  BY <1>1, <1>2 DEF Rows, RowTypes
<1>5. \A t \in modelUsage : turn[t].session \in Sessions =>
          (t \in modelUsage' <=> turn[t].session \notin gone)
  BY <1>1
<1>7. modelUsage' \subseteq modelUsage
  BY <1>1
<1> HIDE DEF gone
<1>6. \A s \in Sessions : s \in gone <=> session[s].owner = u
  BY DEF gone
<1>8. \A s \in Sessions : s \in gone => session'[s].owner = Nobody /\ session'[s].used
  BY <1>2, <1>3
<1>9. \A s \in Sessions : session[s].used => session'[s].used
  BY <1>3, <1>8
<1>10. \A s \in Sessions : session'[s].owner # Nobody =>
          session'[s] = session[s] /\ session[s].owner # u /\ s \notin gone
  BY <1>3, <1>6, <1>8
<1>11. \A t \in modelUsage' : turn[t].session \in Sessions =>
          session'[turn[t].session] = session[turn[t].session] /\ turn[t].session \notin gone
  BY <1>3, <1>5, <1>7
<1>12. \A t \in modelUsage : turn[t].session \in Sessions =>
          t \in modelUsage' \/ session'[turn[t].session].owner = Nobody
  BY <1>5, <1>8
<1>13. \A s \in Sessions : session'[s].owner # Nobody => session[s].owner # Nobody
  BY <1>10
<1> QED
  BY <1>4, <1>6, <1>7, <1>9, <1>10, <1>11, <1>12, <1>13, NobodyAssumption DEF Present

\* A purge of the AI service: nothing of the user is left but what is yet to come.
LEMMA PurgeUserRows ==
  ASSUME Rows, NEW u \in Users, Purge("ai", u),
         strays' \subseteq Services \X Users, UNCHANGED turn
  PROVE  Rows'
<1>1. /\ DeleteByUser(u)
      /\ progress' = [progress EXCEPT ![u] = {}]
      /\ late' = [late EXCEPT !["ai"] =
                     @ \cup {t \in Turns : turn[t].user = u /\ Unfinished(t)}]
      /\ purged' = [purged EXCEPT !["ai"] = @ \cup {u}]
      /\ UNCHANGED <<usageRecords, reports, metered, unreported, turn>>
  BY DEF Purge, PurgeUser
<1>2. /\ purged' \in [Services -> SUBSET Users] /\ late' \in [Services -> SUBSET Turns]
      /\ purged'["ai"] = purged["ai"] \cup {u} /\ purged'["usage"] = purged["usage"]
      /\ late'["ai"] = late["ai"] \cup {t \in Turns : turn[t].user = u /\ Unfinished(t)}
      /\ late'["usage"] = late["usage"]
  BY <1>1 DEF Rows, RowTypes, Services
<1>3. RowTypes'
  BY <1>1, <1>2, DeleteByUserRows DEF Rows, RowTypes
<1>4. TurnsBegun'
  <2>1. \A t \in Turns : turn[t].step # "idle" =>
           /\ turn[t].user \in Users /\ turn[t].session \in Sessions
           /\ session'[turn[t].session].used
           /\ session'[turn[t].session].owner # Nobody =>
                 session'[turn[t].session].owner = turn[t].user
    BY <1>1, DeleteByUserRows DEF Rows, TurnsBegun, Present
  <2>2. \A t \in modelUsage' : turn[t].step # "idle" /\ session'[turn[t].session].owner # Nobody
    BY <1>1, DeleteByUserRows DEF Rows, RowTypes, TurnsBegun, Present
  <2>4. \A s \in Sessions : session'[s].owner # Nobody => session'[s].used
    BY <1>1, DeleteByUserRows DEF Rows, TurnsBegun, Present
  <2> QED  BY <1>1, <2>1, <2>2, <2>4 DEF Rows, TurnsBegun, Present
<1>5. RunningAreLate'
  BY <1>1, <1>2 DEF Rows, RunningAreLate, Unfinished
<1>6. AIRowsAreLate'
  <2> SUFFICES ASSUME NEW o \in purged'["ai"]
               PROVE  /\ \A s \in Sessions : session'[s].owner = o =>
                                               session'[s].maker \in late'["ai"]
                      /\ progress'[o] \subseteq late'["ai"]
                      /\ \A t \in modelUsage' : turn[t].user = o => t \in late'["ai"]
    BY <1>1 DEF AIRowsAreLate
  <2>1. o \in Users
    BY <1>2 DEF Services
  <2>2. \A s \in Sessions : session'[s].owner = o => session'[s].maker \in late'["ai"]
    BY <1>1, <1>2, <2>1, DeleteByUserRows DEF Rows, OrphansAreExplained, AIRowsAreLate
  <2>3. progress'[o] \subseteq late'["ai"]
    BY <1>1, <1>2, <2>1 DEF Rows, RowTypes, OrphansAreExplained, AIRowsAreLate
  <2>4. \A t \in modelUsage' : turn[t].user = o => t \in late'["ai"]
    <3> TAKE t \in modelUsage'
    <3> HAVE turn[t].user = o
    <3>1. t \in modelUsage /\ t \in Turns
      BY <1>1, DeleteByUserRows DEF Rows, RowTypes
    <3>2. o # u
      BY <1>1, <3>1, DeleteByUserRows DEF Rows, TurnsBegun, Present
    <3> QED  BY <1>2, <3>1, <3>2 DEF Rows, OrphansAreExplained, AIRowsAreLate
  <2> QED  BY <2>2, <2>3, <2>4
<1>7. UsageRowsAreLate'
  BY <1>1, <1>2 DEF Rows, OrphansAreExplained, UsageRowsAreLate
<1>8. MeteringIsExplained'
  <2>1. \A t \in metered : t \in modelUsage' \/ ~Present(turn[t].session)'
    <3> TAKE t \in metered
    <3>1. turn[t].session \in Sessions
      BY DEF Rows, RowTypes, TurnsBegun
    <3>2. t \in modelUsage \/ ~Present(turn[t].session)
      BY DEF Rows, MeteringIsExplained
    <3> QED  BY <1>1, <3>1, <3>2, DeleteByUserRows
  <2> QED  BY <1>1, <1>2, <2>1 DEF Rows, MeteringIsExplained
<1> QED  BY <1>3, <1>4, <1>5, <1>6, <1>7, <1>8 DEF Rows, OrphansAreExplained

\* A purge of the usage service.
LEMMA DeleteRecordsRows ==
  ASSUME Rows, NEW u \in Users, Purge("usage", u),
         strays' \subseteq Services \X Users, UNCHANGED turn
  PROVE  Rows'
<1>1. /\ usageRecords' = {t \in usageRecords : turn[t].user # u}
      /\ late' = [late EXCEPT !["usage"] =
            @ \cup {t \in Turns : turn[t].user = u /\ (Unfinished(t) \/ t \in reports)}]
      /\ purged' = [purged EXCEPT !["usage"] = @ \cup {u}]
      /\ UNCHANGED <<session, modelUsage, progress, reports, metered, unreported, turn>>
  BY DEF Purge, DeleteRecords
<1>2. /\ purged' \in [Services -> SUBSET Users] /\ late' \in [Services -> SUBSET Turns]
      /\ purged'["usage"] = purged["usage"] \cup {u} /\ purged'["ai"] = purged["ai"]
      /\ late'["usage"] = late["usage"] \cup
            {t \in Turns : turn[t].user = u /\ (Unfinished(t) \/ t \in reports)}
      /\ late'["ai"] = late["ai"]
  BY <1>1 DEF Rows, RowTypes, Services
<1>3. RowTypes' /\ TurnsBegun'
  BY <1>1, <1>2 DEF Rows, RowTypes, TurnsBegun, Present
<1>4. RunningAreLate'
  BY <1>1, <1>2 DEF Rows, RunningAreLate, Unfinished
<1>5. OrphansAreExplained'
  BY <1>1, <1>2 DEF Rows, OrphansAreExplained, AIRowsAreLate, UsageRowsAreLate
<1>6. MeteringIsExplained'
  BY <1>1, <1>2 DEF Rows, RowTypes, MeteringIsExplained, Present
<1> QED  BY <1>3, <1>4, <1>5, <1>6 DEF Rows

\* Whoever makes a purge, and however its caller takes it.
LEMMA PurgeRows ==
  ASSUME Rows, NEW v \in Services, NEW u \in Users, UNCHANGED turn,
         \/ Purge(v, u) /\ strays' \subseteq strays
         \/ NoPurge /\ strays' \subseteq strays \cup {<<v, u>>}
  PROVE  Rows'
<1>1. strays' \subseteq Services \X Users
  BY DEF Rows, RowTypes
<1>2. CASE Purge(v, u)
  BY <1>1, <1>2, PurgeUserRows, DeleteRecordsRows DEF Services
<1>3. CASE NoPurge
  BY <1>1, <1>3 DEF NoPurge, ledgers, Rows, RowTypes, TurnsBegun, Present, RunningAreLate,
         Unfinished, OrphansAreExplained, AIRowsAreLate, UsageRowsAreLate,
         MeteringIsExplained
<1> QED  BY <1>2, <1>3

\* A purge as the auth and the admin service make it.
LEMMA BestEffortPurgeRows ==
  ASSUME Rows, NEW v \in Services, NEW u \in Users, UNCHANGED turn, BestEffortPurge(v, u)
  PROVE  Rows'
  BY PurgeRows DEF BestEffortPurge

-----------------------------------------------------------------------------
(* Jobs.                                                                   *)

\* A job that moves from one step to a later one keeps what is said of the jobs,
\* if it has what the step asks for.
LEMMA MoveJob ==
  ASSUME Work, NEW j \in Jobs,
         job' \in [Jobs -> [step : JobSteps, kind : Kinds, user : Users \cup {Nobody},
                            waiting : BOOLEAN, applied : BOOLEAN]],
         \A i \in Jobs \ {j} : job'[i] = job[i],
         job[j].step # "done", job'[j].step # "idle", job'[j].user \in Users,
         job'[j].step = "asked" => ~job'[j].applied,
         job'[j].step \notin {"asked", "done"} => job'[j].applied,
         job'[j].step = "done" /\ job'[j].applied /\ job'[j].kind \in AdminKinds =>
            j \in trail' \/ j \in unlogged' \/ ~job'[j].waiting,
         trail \subseteq trail', trail' \subseteq trail \cup {j},
         unlogged \subseteq unlogged', unlogged' \subseteq unlogged \cup {j},
         j \in trail' => job'[j].step = "done" /\ job'[j].applied
  PROVE  Work'
<1>1. WorkTypes'
  BY DEF Work, WorkTypes
<1>2. Ordered'
  BY DEF Work, WorkTypes, Ordered
<1>3. AuditIsExplained'
  BY DEF Work, WorkTypes, AuditIsExplained
<1> QED  BY <1>1, <1>2, <1>3 DEF Work

\* Ask, Mutate and Refused: a job is applied by its mutation and not before.
LEMMA MutationWork ==
  ASSUME Work, NEW j \in Jobs,
         \/ \E kind \in Kinds, u \in Users : Ask(j, kind, u)
         \/ Mutate(j)
         \/ Refused(j)
  PROVE  Work'
<1>1. j \notin trail \/ job[j].step = "done"
  BY DEF Work, Ordered
<1>2. ASSUME NEW kind \in Kinds, NEW u \in Users, Ask(j, kind, u) PROVE Work'
  <2> DEFINE n == [step |-> "asked", kind |-> kind, user |-> u, waiting |-> TRUE,
                   applied |-> FALSE]
  <2>1. /\ job[j].step = "idle" /\ job' = [job EXCEPT ![j] = n]
        /\ UNCHANGED <<trail, unlogged>>
    BY <1>2 DEF Ask
  <2>2. n \in [step : JobSteps, kind : Kinds, user : Users \cup {Nobody},
               waiting : BOOLEAN, applied : BOOLEAN]
    BY DEF JobSteps
  <2>3. /\ job' \in [Jobs -> [step : JobSteps, kind : Kinds, user : Users \cup {Nobody},
                              waiting : BOOLEAN, applied : BOOLEAN]]
        /\ \A i \in Jobs \ {j} : job'[i] = job[i]
        /\ job'[j] = n
    BY <2>1, <2>2 DEF Work, WorkTypes
  <2> QED  BY <1>1, <2>1, <2>3, MoveJob
<1>3. CASE Mutate(j)
  <2> DEFINE next == IF job[j].kind \in {"self", "delete"} THEN "purge ai" ELSE "answered"
  <2>1. /\ job[j].step = "asked"
        /\ job' = [job EXCEPT ![j].applied = TRUE, ![j].step = next]
        /\ UNCHANGED <<trail, unlogged>>
    BY <1>3 DEF Mutate
  <2>2. next \in JobSteps \ {"idle", "asked", "done"}
    BY DEF JobSteps
  <2> HIDE DEF next
  <2>3. /\ job' \in [Jobs -> [step : JobSteps, kind : Kinds, user : Users \cup {Nobody},
                              waiting : BOOLEAN, applied : BOOLEAN]]
        /\ \A i \in Jobs \ {j} : job'[i] = job[i]
        /\ job'[j].step = next /\ job'[j].applied /\ job'[j].user = job[j].user
    BY <2>1, <2>2 DEF Work, WorkTypes
  <2>4. job'[j].user \in Users
    BY <2>1, <2>3 DEF Work, Ordered
  <2> QED  BY <1>1, <2>1, <2>2, <2>3, <2>4, MoveJob
<1>4. CASE Refused(j)
  <2>1. /\ job[j].step = "asked" /\ job' = [job EXCEPT ![j].step = "done"]
        /\ UNCHANGED <<trail, unlogged>>
    BY <1>4 DEF Refused, Advance
  <2>2. /\ job' \in [Jobs -> [step : JobSteps, kind : Kinds, user : Users \cup {Nobody},
                              waiting : BOOLEAN, applied : BOOLEAN]]
        /\ \A i \in Jobs \ {j} : job'[i] = job[i]
        /\ job'[j].step = "done" /\ job'[j].applied = job[j].applied
        /\ job'[j].user = job[j].user
    BY <2>1 DEF Work, WorkTypes, JobSteps
  <2>3. ~job'[j].applied /\ job'[j].user \in Users
    BY <2>1, <2>2 DEF Work, Ordered
  <2> QED  BY <1>1, <2>1, <2>2, <2>3, MoveJob
<1> QED  BY <1>2, <1>3, <1>4

\* After its mutation a job goes through its purges to its end.
LEMMA AdvanceWork ==
  ASSUME Work, NEW j \in Jobs, NEW step \in JobSteps \ {"idle", "asked"},
         job[j].step \notin {"idle", "asked", "done"}, Advance(j, step),
         step = "done" => \/ job[j].kind \notin AdminKinds
                          \/ ~job[j].waiting
                          \/ j \in trail' \/ j \in unlogged',
         trail \subseteq trail', trail' \subseteq trail \cup {j},
         unlogged \subseteq unlogged', unlogged' \subseteq unlogged \cup {j},
         step = "done" \/ trail' = trail
  PROVE  Work'
<1>1. job[j].applied /\ job[j].user \in Users /\ j \notin trail
  BY DEF Work, Ordered
<1>2. /\ job' \in [Jobs -> [step : JobSteps, kind : Kinds, user : Users \cup {Nobody},
                            waiting : BOOLEAN, applied : BOOLEAN]]
      /\ \A i \in Jobs \ {j} : job'[i] = job[i]
      /\ job'[j].step = step /\ job'[j].applied = job[j].applied
      /\ job'[j].user = job[j].user /\ job'[j].kind = job[j].kind
      /\ job'[j].waiting = job[j].waiting
  BY DEF Advance, Work, WorkTypes
<1> QED  BY <1>1, <1>2, MoveJob

\* The caller's patience changes nothing but what excuses a missing entry.
LEMMA GiveUpWork ==
  ASSUME Work, NEW j \in Jobs, GiveUp(j)
  PROVE  Work'
<1>1. /\ job[j].step \in {"asked", "purge ai", "purge usage", "answered"}
      /\ job' = [job EXCEPT ![j].waiting = FALSE]
      /\ UNCHANGED <<trail, unlogged>>
  BY DEF GiveUp
<1>2. /\ job' \in [Jobs -> [step : JobSteps, kind : Kinds, user : Users \cup {Nobody},
                            waiting : BOOLEAN, applied : BOOLEAN]]
      /\ \A i \in Jobs \ {j} : job'[i] = job[i]
      /\ job'[j].step = job[j].step /\ job'[j].applied = job[j].applied
      /\ job'[j].user = job[j].user
  BY <1>1 DEF Work, WorkTypes
<1>3. /\ job[j].user \in Users /\ j \notin trail
      /\ job[j].step = "asked" => ~job[j].applied
      /\ job[j].step # "asked" => job[j].applied
  BY <1>1 DEF Work, Ordered
<1> QED  BY <1>1, <1>2, <1>3, MoveJob

-----------------------------------------------------------------------------
(* Steps.                                                                  *)

\* A mutation keeps the type of the users table.
LEMMA MutateAccounts ==
  ASSUME AccountsTyped, NEW j \in Jobs, Mutate(j)
  PROVE  AccountsTyped'
<1>1. CASE job[j].user \in Users
  <2> DEFINE a == account[job[j].user]
  <2>1. Applied(job[j].kind, a) \in [exists : BOOLEAN, blocked : BOOLEAN, active : BOOLEAN]
    BY <1>1 DEF AccountsTyped, Applied
  <2> QED  BY <1>1, <2>1 DEF Mutate, AccountsTyped
<1>2. CASE job[j].user \notin Users
  BY <1>2 DEF Mutate, AccountsTyped
<1> QED  BY <1>1, <1>2

\* The turns keep the invariant; they leave the jobs alone.
LEMMA TurnStep ==
  ASSUME PInv, NEW t \in Turns,
         \/ \E u \in Users, s \in Sessions : StartTurn(t, u, s)
         \/ Persist(t) \/ RecordRequest(t) \/ CreateRecord(t) \/ ReportLost(t)
         \/ Reported(t) \/ Finish(t) \/ RecordAttempt(t)
  PROVE  PInv'
<1> USE DEF PInv
<1>1. AccountsTyped' /\ Work'
  BY WorkStutter DEF StartTurn, Persist, RecordRequest, CreateRecord, ReportLost, Reported,
                     Finish, RecordAttempt, AccountsTyped
<1>2. CASE Persist(t)
  <2>1. PICK step \in {"persisted", "done"} : Goes(t, step)
    BY <1>2 DEF Persist
  <2> QED  BY <1>1, <1>2, <2>1, AdvanceTurn DEF Persist, Unfinished, TurnSteps
<1>3. CASE Reported(t)
  BY <1>1, <1>3, AdvanceTurn DEF Reported, Unfinished, TurnSteps
<1>4. CASE Finish(t)
  <2>1. PICK step \in {"counting", "done"} : Goes(t, step)
    BY <1>4 DEF Finish
  <2> QED  BY <1>1, <1>4, <2>1, AdvanceTurn DEF Finish, Unfinished, TurnSteps
<1> QED
  BY <1>1, <1>2, <1>3, <1>4, StartTurnRows, RecordRequestRows, CreateRecordRows,
     ReportLostRows, RecordAttemptRows

\* The jobs' own steps, and the purges they make.
LEMMA JobStep ==
  ASSUME PInv, NEW j \in Jobs,
         \/ \E kind \in Kinds, u \in Users : Ask(j, kind, u)
         \/ Mutate(j) \/ Refused(j) \/ PublishAccountDeleted(j) \/ GiveUp(j)
         \/ Answered(j) \/ PurgeAgain(j) \/ Log(j)
  PROVE  PInv'
<1> USE DEF PInv
<1>1. CASE \/ \E kind \in Kinds, u \in Users : Ask(j, kind, u)
           \/ Mutate(j) \/ Refused(j)
  <2>1. AccountsTyped' /\ Rows'
    BY <1>1, RowsStutter, MutateAccounts DEF Ask, Mutate, Refused, AccountsTyped, turnRows
  <2> QED  BY <1>1, <2>1, MutationWork
<1>2. CASE GiveUp(j)
  <2>1. AccountsTyped' /\ Rows'
    BY <1>2, RowsStutter DEF GiveUp, AccountsTyped, turnRows
  <2> QED  BY <1>2, <2>1, GiveUpWork
<1>3. CASE Answered(j)
  <2>1. AccountsTyped' /\ Rows'
    BY <1>3, RowsStutter DEF Answered, AccountsTyped, turnRows
  <2>2. PICK step \in {"done", "again ai", "log"} :
           /\ Advance(j, step)
           /\ step = "done" => job[j].kind \notin AdminKinds \/ ~job[j].waiting
    BY <1>3 DEF Answered, AdminKinds
  <2> QED  BY <1>3, <2>1, <2>2, AdvanceWork DEF Answered, JobSteps
<1>4. CASE Log(j)
  <2>1. AccountsTyped' /\ Rows'
    BY <1>4, RowsStutter DEF Log, AccountsTyped, turnRows
  <2> QED  BY <1>4, <2>1, AdvanceWork DEF Log, JobSteps
<1>5. CASE PublishAccountDeleted(j) \/ PurgeAgain(j)
  <2>1. PICK v \in Services, step \in {"purge usage", "answered", "again usage", "log"} :
           /\ job[j].step \in {"purge ai", "purge usage", "again ai", "again usage"}
           /\ BestEffortPurge(v, job[j].user)
           /\ Advance(j, step)
           /\ UNCHANGED <<account, admitted, turn, trail, unlogged>>
    BY <1>5 DEF PublishAccountDeleted, PurgeAgain, Services
  <2>2. job[j].user \in Users
    BY <2>1 DEF Work, Ordered
  <2>3. Rows'
    BY <2>1, <2>2, BestEffortPurgeRows
  <2>4. Work'
    BY <2>1, AdvanceWork DEF JobSteps
  <2> QED  BY <2>1, <2>3, <2>4 DEF AccountsTyped
<1> QED  BY <1>1, <1>2, <1>3, <1>4, <1>5

\* The invariant is inductive.
LEMMA NextPInv == PInv /\ [PurgeNext]_purgeVars => PInv'
<1> SUFFICES ASSUME PInv, [PurgeNext]_purgeVars PROVE PInv'
  OBVIOUS
<1>1. CASE UNCHANGED purgeVars
  BY <1>1, RowsStutter, WorkStutter DEF PInv, AccountsTyped, purgeVars, turnRows
<1>2. ASSUME NEW u \in Users, Refuse(u) \/ Admit(u) PROVE PInv'
  BY <1>2, RowsStutter, WorkStutter DEF PInv, AccountsTyped, Refuse, Admit, turnRows
<1>3. ASSUME NEW u \in Users, NEW s \in Sessions, DeleteSession(u, s) PROVE PInv'
  BY <1>3, DeleteSessionRows, WorkStutter DEF PInv, AccountsTyped, DeleteSession
<1>4. ASSUME NEW v \in Services, NEW u \in Users, StrayPurge(v, u) PROVE PInv'
  <2>1. Rows'
    BY <1>4, PurgeRows DEF PInv, StrayPurge
  <2> QED  BY <1>4, <2>1, WorkStutter DEF PInv, AccountsTyped, StrayPurge
<1> QED
  BY <1>1, <1>2, <1>3, <1>4, TurnStep, JobStep DEF PurgeNext

\* The invariant holds in every reachable state.
LEMMA AlwaysPInv == PurgeSpec => []PInv
  BY InitPInv, NextPInv, PTL DEF PurgeSpec

-----------------------------------------------------------------------------
(* Results.                                                                *)

\* Every variable of the deletion's model keeps its type, whatever the users,
\* turns and administrators do.
THEOREM PurgeTypes == PurgeSpec => []PurgeTypeOK
<1>1. PInv => PurgeTypeOK
  BY DEF PInv, AccountsTyped, Rows, RowTypes, Work, WorkTypes, PurgeTypeOK
<1> QED  BY <1>1, AlwaysPInv, PTL

\* A row that outlives the purge of a deleted account was written by a turn that
\* was not over at the purge, or that a stale gateway let in after it
\* (account_events.py, user_purge_service.py, usage_record_repository.py).
THEOREM OrphansComeLate == PurgeSpec => []OrphansAreExplained
<1>1. PInv => OrphansAreExplained
  BY DEF PInv, Rows
<1> QED  BY <1>1, AlwaysPInv, PTL

\* The two usage ledgers agree up to lost reports, deleted sessions and purges;
\* the audit log agrees with the mutations the auth service made up to calls the
\* admin service stopped waiting for and failed writes (usage_tracker.py,
\* user_management_service.py).
THEOREM LedgersAgree == PurgeSpec => []LedgersAreExplained
<1>1. PInv => LedgersAreExplained
  BY DEF PInv, Rows, Work, LedgersAreExplained
<1> QED  BY <1>1, AlwaysPInv, PTL

-------------------------------------------------------------------------------
(* Profiles: the inductive invariant *)

Bodies == UNION {[D -> Texts] : D \in SUBSET PayloadFields}

PatchRequest ==
    [pc : {"idle", "taken", "create", "update", "insert", "write"},
     target : Members \cup {NoValue}, given : Bodies, seen : Row \cup {NoValue}]

AvatarRequest ==
    [pc : {"idle", "save", "update", "discard"}, target : Members \cup {NoValue},
     key : Key \cup {NoValue}, previous : Key \cup {NoValue}]

\* A stored name is not blank, and in lower case.
Folds(v) == v # "" /\ LowerCase(v) = v

PatchOK(q) ==
    /\ q.pc \notin {"idle", "taken"} => q.target \in Members
    /\ "username" \in DOMAIN q.given => Folds(q.given["username"])

RowTypesOK ==
    /\ row \in [Members -> Row \cup {NoValue}] /\ born \in [Members -> Nat]
    /\ alive \in SUBSET Members

\* A profile belongs to an account, and a user is given one at most once.
OneProfileEach ==
    /\ FilledIn \subseteq alive
    /\ \A u \in alive : born[u] > 0 => HasProfile(u)
    /\ \A u \in Members : born[u] <= Cardinality(Members)

NamesOK ==
    /\ \A u \in FilledIn : Folds(row[u]["username"])
    /\ \A u, v \in FilledIn :
          row[u]["username"] = row[v]["username"] => u = v \/ row[u]["username"] = NoValue

RequestsOK == patch \in [Clerks -> PatchRequest] /\ \A c \in Clerks : PatchOK(patch[c])

Picture(u) == row[u]["profile_picture_url"]

\* What an upload or a removal has in hand: the key it will show, which is newer than any,
\* and the one its profile shows until then.  An account that was deleted stays so.
AvatarOK(a) ==
    /\ a.pc = "idle" => a = NoAvatar
    /\ a.pc # "idle" =>
          /\ a.target \in Members
          /\ a.target \in FilledIn \/ a.target \notin alive
          /\ a.key # NoValue => a.key.owner = a.target /\ a.key.n <= uploads
          /\ a.previous # NoValue => a.previous.owner = a.target /\ a.previous.n <= uploads
          /\ a.key # NoValue /\ a.previous # NoValue => a.previous.n < a.key.n
          /\ a.target \in FilledIn =>
                Picture(a.target) = IF a.pc = "discard" THEN a.key ELSE a.previous
          /\ a.pc = "save" => a.key # NoValue
          /\ a.pc # "save" /\ a.key # NoValue => a.key \in objects
          /\ a.key # NoValue \/ a.previous # NoValue

PicturesOK ==
    /\ objects \in SUBSET Key /\ failures \in SUBSET Key /\ uploads \in 0..MaxUploads
    /\ avatar \in AvatarRequest /\ AvatarOK(avatar)
    /\ \A k \in objects : k.n <= uploads
    /\ PicturesExist /\ LeftoversAreExplained

ProfilesInv == RowTypesOK /\ OneProfileEach /\ NamesOK /\ RequestsOK /\ PicturesOK

LEMMA ColumnNames ==
  /\ {"username", "profile_picture_url"} \subseteq EditableFields
  /\ "profile_picture_url" \notin PayloadFields /\ PayloadFields \subseteq EditableFields
BY DEF EditableFields, PayloadFields, RequiredFields

LEMMA NoValueFolds == Folds(NoValue) /\ NoValue \in Texts
BY NoValueIsNoText DEF Folds, LowerCase, Texts

\* A name that was cleaned is kept as it is.
LEMMA CleanedFolds ==
  ASSUME NEW v
  PROVE  Folds(Clean("username", v))
<1>1. CASE v = ""
  BY <1>1, NoValueFolds DEF Clean
<1>2. CASE v # ""
  <2>1. Clean("username", v) = LowerCase(v)
    BY <1>2 DEF Clean, Folded
  <2>2. CASE v \in DOMAIN Lower
    BY <2>1, <2>2, LowerAssumption DEF LowerCase, Folds
  <2>3. CASE v \notin DOMAIN Lower
    BY <1>2, <2>1, <2>3 DEF LowerCase, Folds
  <2> QED  BY <2>2, <2>3
<1> QED  BY <1>1, <1>2

LEMMA CleanedBody ==
  ASSUME NEW p \in Payloads
  PROVE  /\ Cleaned(p) \in Bodies
         /\ "username" \in DOMAIN Cleaned(p) => Folds(Cleaned(p)["username"])
<1>1. \A f \in DOMAIN p : Clean(f, p[f]) \in Texts
  BY DEF Texts
<1>2. Cleaned(p) \in [DOMAIN p -> Texts]
  BY <1>1 DEF Cleaned
<1>3. DOMAIN p \in SUBSET PayloadFields
  BY PayloadsAssumption
<1>4. "username" \in DOMAIN p => Cleaned(p)["username"] = Clean("username", p["username"])
  BY DEF Cleaned
<1>5. DOMAIN Cleaned(p) = DOMAIN p
  BY <1>2
<1>6. Cleaned(p) \in Bodies
  BY <1>2, <1>3 DEF Bodies
<1> QED  BY <1>4, <1>5, <1>6, CleanedFolds

LEMMA NothingAsked ==
  /\ NoRequest \in PatchRequest /\ PatchOK(NoRequest) /\ NoRequest.pc = "idle"
  /\ [NoRequest EXCEPT !.pc = "taken"] \in PatchRequest
  /\ PatchOK([NoRequest EXCEPT !.pc = "taken"])
<1>1. <<>> \in [{} -> Texts] /\ DOMAIN <<>> = {}
  OBVIOUS
<1>2. <<>> \in Bodies
  BY <1>1 DEF Bodies
<1>3. NoRequest \in PatchRequest /\ NoRequest.given = <<>> /\ NoRequest.pc = "idle"
  BY <1>2 DEF NoRequest, PatchRequest
<1>4. PICK t : t = [NoRequest EXCEPT !.pc = "taken"]
  OBVIOUS
<1>5. t \in PatchRequest /\ t.given = <<>> /\ t.pc = "taken"
  BY <1>3, <1>4 DEF PatchRequest
<1> QED  BY <1>1, <1>3, <1>4, <1>5 DEF PatchOK

-------------------------------------------------------------------------------
(* Profiles: updates *)

\* A request moves, and no row changes.
LEMMA ClerkMoves ==
  ASSUME ProfilesInv, NEW c \in Clerks, NEW q \in PatchRequest, PatchOK(q),
         patch' = [patch EXCEPT ![c] = q], UNCHANGED <<ProfileRows, Pictures>>
  PROVE  ProfilesInv'
<1>1. UNCHANGED <<row, born, alive, objects, uploads, avatar, failures>>
  BY DEF ProfileRows, Pictures
<1>2. RequestsOK'
  <2>1. patch \in [Clerks -> PatchRequest]
    BY DEF ProfilesInv, RequestsOK
  <2>2. patch' \in [Clerks -> PatchRequest] /\ \A d \in Clerks : patch'[d] = q \/ patch'[d] = patch[d]
    BY <2>1
  <2> QED  BY <2>2 DEF ProfilesInv, RequestsOK, PatchOK
<1>3. RowTypesOK' /\ OneProfileEach' /\ NamesOK'
  BY <1>1 DEF ProfilesInv, RowTypesOK, OneProfileEach, NamesOK, FilledIn, HasProfile
<1>4. PicturesOK'
  BY <1>1 DEF ProfilesInv, PicturesOK, AvatarOK, PicturesExist, LeftoversAreExplained, FilledIn, HasProfile, Picture
<1> QED  BY <1>2, <1>3, <1>4 DEF ProfilesInv

LEMMA AnswersAre ==
  ASSUME NEW c \in Clerks, Answer(c) \/ AnswerTaken(c)
  PROVE  \E q \in PatchRequest : PatchOK(q) /\ patch' = [patch EXCEPT ![c] = q]
BY NothingAsked DEF Answer, AnswerTaken

\* The request goes on to its statement.
LEMMA ClerkGoesOn ==
  ASSUME ProfilesInv, NEW c \in Clerks, patch[c].pc \in {"create", "update"},
         NEW pc \in {"insert", "write"}, patch' = [patch EXCEPT ![c].pc = pc]
  PROVE  \E q \in PatchRequest : PatchOK(q) /\ patch' = [patch EXCEPT ![c] = q]
<1>1. PICK t \in PatchRequest : t = patch[c]
  BY DEF ProfilesInv, RequestsOK
<1>2. PICK q : q = [t EXCEPT !.pc = pc]
  OBVIOUS
<1>3. q \in PatchRequest /\ q.pc = pc /\ q.target = t.target /\ q.given = t.given
  BY <1>2 DEF PatchRequest
<1>4. PatchOK(t) /\ t.pc \in {"create", "update"}
  BY <1>1 DEF ProfilesInv, RequestsOK
<1>5. PatchOK(q)
  BY <1>3, <1>4 DEF PatchOK
<1>6. patch' = [patch EXCEPT ![c] = q]
  BY <1>1, <1>2 DEF ProfilesInv, RequestsOK
<1> QED  BY <1>3, <1>5, <1>6

LEMMA UpdateKeeps ==
  ASSUME ProfilesInv, NEW c \in Clerks, NEW actor \in Members, NEW u \in Members,
         NEW p \in Payloads, UpdateProfile(c, actor, u, p)
  PROVE  ProfilesInv'
<1>1. PICK q : q = [pc |-> IF HasProfile(u) THEN "update" ELSE "create",
                    target |-> u, given |-> Cleaned(p), seen |-> row[u]]
  OBVIOUS
<1>2. row[u] \in Row \cup {NoValue}
  BY DEF ProfilesInv, RowTypesOK
<1>3. q \in PatchRequest /\ q.target = u /\ q.given = Cleaned(p)
  BY <1>1, <1>2, CleanedBody DEF PatchRequest
<1>4. PatchOK(q)
  BY <1>3, CleanedBody DEF PatchOK
<1>5. patch' = [patch EXCEPT ![c] = q] /\ UNCHANGED <<ProfileRows, Pictures>>
  BY <1>1 DEF UpdateProfile
<1> QED  BY <1>3, <1>4, <1>5, ClerkMoves

LEMMA CheckKeeps ==
  ASSUME ProfilesInv, NEW c \in Clerks, CheckCreate(c) \/ CheckUpdate(c) \/ DatabaseFails(c)
  PROVE  ProfilesInv'
<1>1. UNCHANGED <<ProfileRows, Pictures>>
  BY DEF CheckCreate, CheckUpdate, DatabaseFails
<1>2. \/ Answer(c) \/ AnswerTaken(c)
      \/ patch[c].pc = "create" /\ patch' = [patch EXCEPT ![c].pc = "insert"]
      \/ patch[c].pc = "update" /\ patch' = [patch EXCEPT ![c].pc = "write"]
  BY DEF CheckCreate, CheckUpdate, DatabaseFails
<1>3. \E q \in PatchRequest : PatchOK(q) /\ patch' = [patch EXCEPT ![c] = q]
  BY <1>2, AnswersAre, ClerkGoesOn
<1> QED  BY <1>1, <1>3, ClerkMoves

\* The row of one user changes and its picture stays, or a first row comes without one.
LEMMA PicturesStay ==
  ASSUME ProfilesInv, NEW u \in alive, NEW w \in Row, row' = [row EXCEPT ![u] = w],
         w["profile_picture_url"] = IF HasProfile(u) THEN Picture(u) ELSE NoValue,
         UNCHANGED <<alive, Pictures>>
  PROVE  /\ row' \in [Members -> Row \cup {NoValue}] /\ row'[u] = w
         /\ FilledIn' = FilledIn \cup {u} /\ \A v \in Members \ {u} : row'[v] = row[v]
         /\ PicturesOK'
<1>1. u \in Members /\ row \in [Members -> Row \cup {NoValue}] /\ FilledIn \subseteq alive
      /\ PicturesOK
  BY DEF ProfilesInv, RowTypesOK, OneProfileEach
<1>2. /\ row' \in [Members -> Row \cup {NoValue}] /\ row'[u] = w
      /\ \A v \in Members \ {u} : row'[v] = row[v]
  BY <1>1
<1>3. w # NoValue
  BY NoValueIsNeither
<1>4. FilledIn' = FilledIn \cup {u}
  BY <1>1, <1>2, <1>3 DEF FilledIn, HasProfile
<1>5. UNCHANGED <<alive, objects, uploads, avatar, failures>>
  BY DEF Pictures
<1>6. \A v \in FilledIn : row'[v]["profile_picture_url"] = Picture(v)
  BY <1>2 DEF FilledIn, Picture
<1>7. u \notin FilledIn => row'[u]["profile_picture_url"] = NoValue
  BY <1>1, <1>2 DEF FilledIn
<1>8. AvatarOK(avatar)'
  <2>1. PICK a : a = avatar
    OBVIOUS
  <2>2. AvatarOK(a) /\ avatar' = a
    BY <1>1, <1>5, <2>1 DEF PicturesOK
  <2>3. a.pc # "idle" /\ a.target \in FilledIn' => a.target \in FilledIn
    BY <1>4, <2>2 DEF AvatarOK
  <2>4. a.target \in FilledIn => row'[a.target]["profile_picture_url"] = Picture(a.target)
    BY <1>6
  <2>5. AvatarOK(a)'
    BY <1>4, <1>5, <2>2, <2>3, <2>4 DEF AvatarOK, Picture
  <2> QED  BY <2>2, <2>5 DEF AvatarOK, Picture
<1>9. PicturesExist'
  BY <1>1, <1>4, <1>5, <1>6, <1>7 DEF PicturesOK, PicturesExist, Picture
<1>10. LeftoversAreExplained'
  BY <1>1, <1>4, <1>5, <1>6 DEF PicturesOK, LeftoversAreExplained, Picture
<1>11. PicturesOK'
  BY <1>1, <1>5, <1>8, <1>9, <1>10 DEF PicturesOK
<1> QED  BY <1>2, <1>4, <1>11

\* A name nobody else has is given to a user.
LEMMA NamesStay ==
  ASSUME NamesOK, NEW u \in Members, NEW w, Folds(w["username"]),
         row'[u] = w, \A v \in Members \ {u} : row'[v] = row[v], FilledIn' = FilledIn \cup {u},
         \/ w["username"] = NoValue
         \/ u \in FilledIn /\ w["username"] = row[u]["username"]
         \/ HolderOf(w["username"]) \subseteq {u}
  PROVE  NamesOK'
<1>1. \A v \in FilledIn \ {u} : row'[v]["username"] = row[v]["username"] /\ v \in Members
  BY DEF FilledIn
<1>2. \A v \in FilledIn' : Folds(row'[v]["username"])
  BY <1>1 DEF NamesOK
<1>3. \A v \in FilledIn \ {u} : w["username"] = row[v]["username"] => w["username"] = NoValue
  BY DEF NamesOK, HolderOf
<1>4. ASSUME NEW v \in FilledIn', NEW x \in FilledIn',
             row'[v]["username"] = row'[x]["username"]
      PROVE  v = x \/ row'[v]["username"] = NoValue
  <2>1. CASE v # u /\ x # u
    BY <1>1, <1>4, <2>1 DEF NamesOK
  <2>2. CASE v = u \/ x = u
    BY <1>1, <1>3, <1>4, <2>2
  <2> QED  BY <2>1, <2>2
<1> QED  BY <1>2, <1>4 DEF NamesOK, Folds, LowerCase

LEMMA RequestsStay ==
  ASSUME ProfilesInv, NEW c \in Clerks, Answer(c) \/ AnswerTaken(c)
  PROVE  RequestsOK'
<1>1. PICK q \in PatchRequest : PatchOK(q) /\ patch' = [patch EXCEPT ![c] = q]
  BY AnswersAre
<1>2. patch \in [Clerks -> PatchRequest]
  BY DEF ProfilesInv, RequestsOK
<1>3. patch' \in [Clerks -> PatchRequest] /\ \A d \in Clerks : patch'[d] = q \/ patch'[d] = patch[d]
  BY <1>1, <1>2
<1> QED  BY <1>1, <1>3 DEF ProfilesInv, RequestsOK, PatchOK, Folds, LowerCase

\* created_at of a first row: fewer users have had one than there are.
LEMMA FirstRowIsBorn ==
  ASSUME ProfilesInv, NEW u \in Members, born[u] = 0,
         born' = [born EXCEPT ![u] = Cardinality({v \in Members : born[v] > 0}) + 1]
  PROVE  /\ born' \in [Members -> Nat] /\ \A v \in Members : born'[v] <= Cardinality(Members)
         /\ \A v \in Members \ {u} : born'[v] = born[v]
<1> DEFINE B == {v \in Members : born[v] > 0}
<1>1. born \in [Members -> Nat] /\ \A v \in Members : born[v] <= Cardinality(Members)
  BY DEF ProfilesInv, RowTypesOK, OneProfileEach
<1>2. B \subseteq Members \ {u}
  BY <1>1
<1>3. IsFiniteSet(Members \ {u}) /\ Cardinality(Members \ {u}) = Cardinality(Members) - 1
      /\ Cardinality(Members) \in Nat
  BY MembersAreFinite, FS_RemoveElement, FS_CardinalityType
<1>4. Cardinality(B) \in Nat /\ Cardinality(B) <= Cardinality(Members) - 1
  BY <1>2, <1>3, FS_Subset, FS_CardinalityType
<1> HIDE DEF B
<1>5. born' = [born EXCEPT ![u] = Cardinality(B) + 1]
  BY DEF B
<1> QED  BY <1>1, <1>3, <1>4, <1>5

LEMMA InsertKeeps ==
  ASSUME ProfilesInv, NEW c \in Clerks, Insert(c)
  PROVE  ProfilesInv'
<1>1. PICK q \in PatchRequest : q = patch[c]
  BY DEF ProfilesInv, RequestsOK
<1>2. PatchOK(q) /\ q.pc = "insert"
  BY <1>1 DEF ProfilesInv, RequestsOK, Insert
<1>3. PICK u \in Members : u = q.target
  BY <1>2 DEF PatchOK
<1>4. PICK given : given = q.given
  OBVIOUS
<1>5. given \in Bodies /\ DOMAIN given \in SUBSET PayloadFields
      /\ \A f \in DOMAIN given : given[f] \in Texts
  BY <1>4 DEF PatchRequest, Bodies
<1>6. CASE u \notin alive \/ HasProfile(u) \/ NameIsTaken(given, Members)
  <2>1. AnswerTaken(c) /\ UNCHANGED <<ProfileRows, Pictures>>
    BY <1>1, <1>3, <1>4, <1>6 DEF Insert, ProfileRows
  <2> QED  BY <2>1, AnswersAre, ClerkMoves
<1>7. CASE ~(u \notin alive \/ HasProfile(u) \/ NameIsTaken(given, Members))
  <2>1. PICK w : w = [f \in EditableFields |-> IF f \in DOMAIN given THEN given[f] ELSE NoValue]
    OBVIOUS
  <2>2. w \in Row
    BY <1>5, <2>1, NoValueFolds DEF Row
  <2>3. w["profile_picture_url"] = NoValue
    BY <1>5, <2>1, ColumnNames
  <2>4. w["username"] = IF "username" \in DOMAIN given THEN given["username"] ELSE NoValue
    BY <2>1, ColumnNames
  <2>5. Folds(w["username"])
    BY <1>2, <1>4, <2>4, NoValueFolds DEF PatchOK
  <2>6. /\ row' = [row EXCEPT ![u] = w] /\ Answer(c) /\ UNCHANGED <<alive, Pictures>>
        /\ born' = [born EXCEPT ![u] = Cardinality({v \in Members : born[v] > 0}) + 1]
    BY <1>1, <1>3, <1>4, <1>7, <2>1 DEF Insert
  <2>7. u \in alive /\ ~HasProfile(u)
    BY <1>7
  <2>8. /\ row' \in [Members -> Row \cup {NoValue}] /\ row'[u] = w
        /\ FilledIn' = FilledIn \cup {u} /\ \A v \in Members \ {u} : row'[v] = row[v]
        /\ PicturesOK'
    BY <2>2, <2>3, <2>6, <2>7, PicturesStay
  <2>9. w["username"] = NoValue \/ HolderOf(w["username"]) \subseteq {u}
    BY <1>7, <2>4 DEF NameIsTaken, HolderOf, FilledIn
  <2>10. NamesOK'
    BY <2>5, <2>8, <2>9, NamesStay DEF ProfilesInv
  <2>11. RequestsOK'
    BY <2>6, RequestsStay
  <2>12. born[u] = 0
    BY <2>7 DEF ProfilesInv, OneProfileEach, RowTypesOK
  <2>13. /\ born' \in [Members -> Nat] /\ \A v \in Members : born'[v] <= Cardinality(Members)
         /\ \A v \in Members \ {u} : born'[v] = born[v]
    BY <2>6, <2>12, FirstRowIsBorn
  <2>14. RowTypesOK'
    BY <2>6, <2>8, <2>13 DEF ProfilesInv, RowTypesOK
  <2>15. OneProfileEach'
    <3>1. FilledIn' \subseteq alive'
      BY <2>6, <2>7, <2>8 DEF ProfilesInv, OneProfileEach
    <3>2. \A v \in alive' : born'[v] > 0 => v \in FilledIn'
      BY <2>6, <2>8, <2>13 DEF ProfilesInv, OneProfileEach, RowTypesOK, FilledIn
    <3>3. \A v \in alive' : born'[v] > 0 => HasProfile(v)'
      BY <3>2 DEF FilledIn
    <3> QED  BY <2>13, <3>1, <3>3 DEF OneProfileEach
  <2> QED  BY <2>8, <2>10, <2>11, <2>14, <2>15 DEF ProfilesInv
<1> QED  BY <1>6, <1>7

LEMMA WriteKeeps ==
  ASSUME ProfilesInv, NEW c \in Clerks, Write(c)
  PROVE  ProfilesInv'
<1>1. PICK q \in PatchRequest : q = patch[c]
  BY DEF ProfilesInv, RequestsOK
<1>2. PatchOK(q) /\ q.pc = "write"
  BY <1>1 DEF ProfilesInv, RequestsOK, Write
<1>3. PICK u \in Members : u = q.target
  BY <1>2 DEF PatchOK
<1>4. PICK given, written : given = q.given /\ written = Written(given, q.seen)
  OBVIOUS
<1>5. /\ DOMAIN given \in SUBSET PayloadFields /\ \A f \in DOMAIN given : given[f] \in Texts
      /\ written \subseteq DOMAIN given
  BY <1>4 DEF PatchRequest, Bodies, Written
<1> DEFINE taken == "username" \in written /\ NameIsTaken(given, Members \ {u})
<1>6. CASE ~HasProfile(u) \/ taken
  <2>1. (Answer(c) \/ AnswerTaken(c)) /\ UNCHANGED <<ProfileRows, Pictures>>
    BY <1>1, <1>3, <1>4, <1>6 DEF Write, ProfileRows
  <2> QED  BY <2>1, AnswersAre, ClerkMoves
<1>7. CASE HasProfile(u) /\ ~taken
  <2>1. PICK w : w = [f \in EditableFields |-> IF f \in written THEN given[f] ELSE row[u][f]]
    OBVIOUS
  <2>2. row[u] \in Row /\ u \in FilledIn
    BY <1>7 DEF ProfilesInv, RowTypesOK, HasProfile, FilledIn
  <2>3. w \in Row
    BY <1>5, <2>1, <2>2 DEF Row
  <2>4. w["profile_picture_url"] = Picture(u)
    BY <1>5, <2>1, ColumnNames DEF Picture
  <2>5. w["username"] = IF "username" \in written THEN given["username"] ELSE row[u]["username"]
    BY <2>1, ColumnNames
  <2>6. Folds(w["username"])
    BY <1>2, <1>4, <1>5, <2>2, <2>5 DEF PatchOK, ProfilesInv, NamesOK
  <2>7. row' = [row EXCEPT ![u] = w] /\ Answer(c) /\ UNCHANGED <<born, alive, Pictures>>
    BY <1>1, <1>3, <1>4, <1>7, <2>1 DEF Write
  <2>8. u \in alive
    BY <2>2 DEF ProfilesInv, OneProfileEach
  <2>9. /\ row' \in [Members -> Row \cup {NoValue}] /\ row'[u] = w
        /\ FilledIn' = FilledIn \cup {u} /\ \A v \in Members \ {u} : row'[v] = row[v]
        /\ PicturesOK'
    BY <1>7, <2>3, <2>4, <2>7, <2>8, PicturesStay
  <2>10. \/ w["username"] = NoValue \/ w["username"] = row[u]["username"]
         \/ HolderOf(w["username"]) \subseteq {u}
    BY <1>5, <1>7, <2>5 DEF NameIsTaken, HolderOf, FilledIn
  <2>11. NamesOK'
    BY <2>2, <2>6, <2>9, <2>10, NamesStay DEF ProfilesInv
  <2>12. RequestsOK'
    BY <2>7, RequestsStay
  <2>13. FilledIn' = FilledIn
    BY <2>2, <2>9
  <2>14. RowTypesOK' /\ OneProfileEach'
    BY <2>7, <2>9, <2>13 DEF ProfilesInv, RowTypesOK, OneProfileEach, FilledIn
  <2> QED  BY <2>9, <2>11, <2>12, <2>14 DEF ProfilesInv
<1> QED  BY <1>6, <1>7

-------------------------------------------------------------------------------
(* Profiles: pictures and deletions *)

\* While no row changes, nothing but the pictures has to be looked at.
LEMMA RowsRest ==
  ASSUME ProfilesInv, UNCHANGED <<ProfileRows, patch>>
  PROVE  /\ RowTypesOK' /\ OneProfileEach' /\ NamesOK' /\ RequestsOK'
         /\ FilledIn' = FilledIn /\ row' = row /\ alive' = alive
BY DEF ProfileRows, ProfilesInv, RowTypesOK, OneProfileEach, NamesOK, RequestsOK, PatchOK, FilledIn,
       HasProfile, Folds, LowerCase

LEMMA NoAvatarIsOK == NoAvatar \in AvatarRequest /\ AvatarOK(NoAvatar) /\ AvatarOK(NoAvatar)'
                      /\ NoAvatar.pc = "idle"
BY DEF NoAvatar, AvatarRequest, AvatarOK

LEMMA PictureIsKey ==
  ASSUME ProfilesInv, NEW u \in FilledIn, Picture(u) # NoValue
  PROVE  Picture(u) \in objects /\ Picture(u) \in Key /\ Picture(u).owner = u /\ Picture(u).n <= uploads
BY DEF ProfilesInv, PicturesOK, PicturesExist, Picture

\* An upload or a removal begins: no object moves.
LEMMA AvatarBegins ==
  ASSUME ProfilesInv, NEW a \in AvatarRequest, AvatarOK(a)', avatar' = a, avatar = NoAvatar,
         UNCHANGED <<ProfileRows, patch, objects, failures>>,
         uploads' \in 0..MaxUploads, uploads <= uploads'
  PROVE  ProfilesInv'
<1>1. UNCHANGED <<row, alive>> /\ FilledIn' = FilledIn
      /\ RowTypesOK' /\ OneProfileEach' /\ NamesOK' /\ RequestsOK'
  BY RowsRest
<1>2. AvatarOK(avatar)'
  BY DEF AvatarOK, Picture
<1>3. \A k \in objects' : k.n <= uploads'
  <2>1. uploads \in Nat /\ uploads' \in Nat /\ \A k \in objects : k.n \in Nat /\ k.n <= uploads
    BY UploadsAssumption DEF ProfilesInv, PicturesOK, Key
  <2> QED  BY <2>1
<1>4. PicturesExist' /\ LeftoversAreExplained'
  <2>1. \A k \in objects : k \notin {NoAvatar.key, NoAvatar.previous}
    BY NoValueIsNeither DEF NoAvatar, ProfilesInv, PicturesOK
  <2> QED  BY <1>1, <2>1 DEF ProfilesInv, PicturesOK, PicturesExist, LeftoversAreExplained
<1>5. PicturesOK'
  BY <1>2, <1>3, <1>4 DEF ProfilesInv, PicturesOK
<1> QED  BY <1>1, <1>5 DEF ProfilesInv

LEMMA UploadKeeps ==
  ASSUME ProfilesInv, NEW actor \in Members, NEW u \in Members, Upload(actor, u)
  PROVE  ProfilesInv'
<1>1. PICK k : k = [owner |-> u, n |-> uploads']
  OBVIOUS
<1>2. uploads \in 0..MaxUploads /\ uploads' = uploads + 1 /\ uploads < MaxUploads
  BY DEF ProfilesInv, PicturesOK, Upload
<1>3. k \in Key /\ k.owner = u /\ k.n = uploads + 1 /\ uploads' \in 0..MaxUploads /\ k # NoValue
      /\ uploads \in Nat
  BY <1>1, <1>2, UploadsAssumption, NoValueIsNeither DEF Key
<1>4. u \in FilledIn /\ avatar.pc = "idle"
  BY DEF Upload, FilledIn
<1>5. PICK a : a = [pc |-> "save", target |-> u, key |-> k, previous |-> Picture(u)]
  OBVIOUS
<1>6. Picture(u) # NoValue => Picture(u) \in Key /\ Picture(u).owner = u /\ Picture(u).n <= uploads
      /\ Picture(u).n \in Nat
  BY <1>4, PictureIsKey DEF Key
<1>7. a \in AvatarRequest /\ a.pc = "save" /\ a.target = u /\ a.key = k /\ a.previous = Picture(u)
  BY <1>3, <1>5, <1>6 DEF AvatarRequest
<1>8. avatar' = a /\ UNCHANGED <<ProfileRows, patch, objects, failures>>
  BY <1>1, <1>5 DEF Upload, Picture
<1>9. FilledIn' = FilledIn /\ row' = row
  BY <1>8, RowsRest
<1>10. AvatarOK(a)'
  BY <1>2, <1>3, <1>4, <1>6, <1>7, <1>9 DEF AvatarOK, Picture
<1>11. avatar = NoAvatar
  BY <1>4 DEF ProfilesInv, PicturesOK, AvatarOK
<1>12. uploads <= uploads'
  BY <1>2, <1>3
<1> QED  BY <1>3, <1>7, <1>8, <1>10, <1>11, <1>12, AvatarBegins

LEMMA DeleteKeeps ==
  ASSUME ProfilesInv, NEW actor \in Members, NEW u \in Members, Delete(actor, u)
  PROVE  ProfilesInv'
<1>1. u \in FilledIn /\ avatar.pc = "idle" /\ Picture(u) # NoValue
  BY DEF Delete, FilledIn, Picture
<1>2. PICK a : a = [pc |-> "update", target |-> u, key |-> NoValue, previous |-> Picture(u)]
  OBVIOUS
<1>3. Picture(u) \in Key /\ Picture(u).owner = u /\ Picture(u).n <= uploads
  BY <1>1, PictureIsKey
<1>4. a \in AvatarRequest /\ a.pc = "update" /\ a.target = u /\ a.key = NoValue /\ a.previous = Picture(u)
  BY <1>2, <1>3 DEF AvatarRequest
<1>5. avatar' = a /\ UNCHANGED <<ProfileRows, patch, objects, failures, uploads>>
  BY <1>2 DEF Delete, Picture
<1>6. FilledIn' = FilledIn /\ row' = row
  BY <1>5, RowsRest
<1>7. AvatarOK(a)'
  BY <1>1, <1>3, <1>4, <1>5, <1>6 DEF AvatarOK, Picture
<1>8. avatar = NoAvatar
  BY <1>1 DEF ProfilesInv, PicturesOK, AvatarOK
<1>9. uploads' \in 0..MaxUploads /\ uploads <= uploads'
  BY <1>5, UploadsAssumption DEF ProfilesInv, PicturesOK
<1> QED  BY <1>4, <1>5, <1>7, <1>8, <1>9, AvatarBegins

LEMMA SaveKeeps ==
  ASSUME ProfilesInv, Save
  PROVE  ProfilesInv'
<1>1. PICK a \in AvatarRequest : a = avatar
  BY DEF ProfilesInv, PicturesOK
<1>2. AvatarOK(a) /\ a.pc = "save"
  BY <1>1 DEF ProfilesInv, PicturesOK, Save
<1>3. PICK b : b = [a EXCEPT !.pc = "update"]
  OBVIOUS
<1>4. /\ b \in AvatarRequest /\ b.pc = "update" /\ b.target = a.target /\ b.key = a.key
      /\ b.previous = a.previous
  BY <1>3 DEF AvatarRequest
<1>5. /\ avatar' = b /\ objects' = objects \cup {a.key}
      /\ UNCHANGED <<ProfileRows, patch, uploads, failures>>
  BY <1>1, <1>3 DEF Save
<1>6. FilledIn' = FilledIn /\ row' = row /\ alive' = alive
      /\ RowTypesOK' /\ OneProfileEach' /\ NamesOK' /\ RequestsOK'
  BY <1>5, RowsRest
<1>7. a.key \in Key /\ a.key # NoValue /\ a.key.n <= uploads
  BY <1>2 DEF AvatarRequest, AvatarOK
<1>8. AvatarOK(avatar)'
  <2>1. AvatarOK(b)'
    BY <1>2, <1>4, <1>5, <1>6 DEF AvatarOK, Picture
  <2> QED  BY <1>5, <2>1 DEF AvatarOK, Picture
<1>9. PicturesExist'
  BY <1>5, <1>6 DEF ProfilesInv, PicturesOK, PicturesExist
<1>10. LeftoversAreExplained'
  BY <1>1, <1>4, <1>5, <1>6 DEF ProfilesInv, PicturesOK, LeftoversAreExplained
<1>11. objects' \in SUBSET Key /\ \A k \in objects' : k.n <= uploads'
  BY <1>5, <1>7 DEF ProfilesInv, PicturesOK
<1>12. PicturesOK'
  BY <1>4, <1>5, <1>8, <1>9, <1>10, <1>11 DEF ProfilesInv, PicturesOK
<1> QED  BY <1>6, <1>12 DEF ProfilesInv

\* The request ends; what it had in hand is shown, or gone, or had a failure.
LEMMA AvatarEnds ==
  ASSUME ProfilesInv, NEW a, a = avatar, avatar' = NoAvatar, uploads' = uploads,
         RowTypesOK', OneProfileEach', NamesOK', RequestsOK', FilledIn' = FilledIn, alive' = alive,
         \A u \in FilledIn \ {a.target} : row'[u] = row[u],
         objects' \subseteq objects \cup {a.key}, failures' \in SUBSET Key, failures \subseteq failures',
         objects' \subseteq Key, a.pc # "idle",
         \A k \in objects' : k.n <= uploads,
         \A k \in objects \ {a.previous} : k \in objects',
         a.target \in FilledIn =>
            LET k == row'[a.target]["profile_picture_url"]
            IN  k # NoValue => k \in objects' /\ k.owner = a.target,
         \A k \in {a.key, a.previous} : k \in objects' =>
            \/ k \in failures'
            \/ a.target \in FilledIn => row'[a.target]["profile_picture_url"] = k,
         a.target \in FilledIn =>
            row'[a.target]["profile_picture_url"] \in {a.key, a.previous}
            /\ Picture(a.target) \in {a.key, a.previous}
  PROVE  ProfilesInv'
<1>1. AvatarOK(a) /\ a.target \in Members /\ (a.target \in FilledIn \/ a.target \notin alive)
      /\ a \in AvatarRequest
  BY DEF ProfilesInv, PicturesOK, AvatarOK
<1>2. \A k \in {a.key, a.previous} : k # NoValue => k.owner = a.target
  BY <1>1 DEF AvatarOK
<1>3. PicturesExist'
  <2> SUFFICES ASSUME NEW u \in FilledIn, row'[u]["profile_picture_url"] # NoValue
               PROVE  row'[u]["profile_picture_url"] \in objects' /\ row'[u]["profile_picture_url"].owner = u
    BY DEF PicturesExist
  <2>1. CASE u = a.target
    BY <2>1
  <2>2. CASE u # a.target
    <3>1. row'[u]["profile_picture_url"] = Picture(u) /\ Picture(u) \in objects /\ Picture(u).owner = u
      BY <2>2, PictureIsKey DEF Picture
    <3>2. Picture(u) # a.previous
      BY <1>2, <2>2, <3>1 DEF Picture
    <3> QED  BY <3>1, <3>2
  <2> QED  BY <2>1, <2>2
<1>4. LeftoversAreExplained'
  <2> SUFFICES ASSUME NEW k \in objects'
               PROVE  \/ k.owner \in FilledIn' /\ row'[k.owner]["profile_picture_url"] = k
                      \/ k \in failures' \/ k.owner \notin alive'
    BY DEF LeftoversAreExplained
  <2>1. k # NoValue
    BY NoValueIsNeither
  <2>2. CASE k \in {a.key, a.previous}
    BY <1>1, <1>2, <2>1, <2>2
  <2>3. CASE k \notin {a.key, a.previous}
    <3>1. k \in objects
      BY <2>3
    <3>2. \/ k.owner \in FilledIn /\ Picture(k.owner) = k
          \/ k \in failures \/ k.owner \notin alive
      BY <2>3, <3>1 DEF ProfilesInv, PicturesOK, LeftoversAreExplained, Picture
    <3>3. k.owner \in FilledIn /\ Picture(k.owner) = k => k.owner # a.target
      BY <2>3
    <3> QED  BY <3>2, <3>3 DEF Picture
  <2> QED  BY <2>2, <2>3
<1>5. PicturesOK'
  <2>1. AvatarOK(avatar)' /\ avatar' \in AvatarRequest
    BY NoAvatarIsOK DEF AvatarOK, Picture
  <2> QED  BY <1>3, <1>4, <2>1 DEF ProfilesInv, PicturesOK
<1> QED  BY <1>5 DEF ProfilesInv

LEMMA SaveFailsKeeps ==
  ASSUME ProfilesInv, SaveFails
  PROVE  ProfilesInv'
<1>1. PICK a \in AvatarRequest : a = avatar
  BY DEF ProfilesInv, PicturesOK
<1>2. AvatarOK(a) /\ a.pc = "save"
  BY <1>1 DEF ProfilesInv, PicturesOK, SaveFails
<1>3. /\ avatar' = NoAvatar /\ objects' \in {objects, objects \cup {a.key}}
      /\ failures' = failures \cup ({a.key} \ {NoValue})
      /\ UNCHANGED <<ProfileRows, patch, uploads>>
  BY <1>1 DEF SaveFails, Failed
<1>4. FilledIn' = FilledIn /\ row' = row /\ alive' = alive
      /\ RowTypesOK' /\ OneProfileEach' /\ NamesOK' /\ RequestsOK'
  BY <1>3, RowsRest
<1>5. a.key \in Key /\ a.key # NoValue /\ a.key.n <= uploads
  BY <1>2 DEF AvatarRequest, AvatarOK
<1>6. a.target \in FilledIn => Picture(a.target) = a.previous
  BY <1>2 DEF AvatarOK
<1>7. failures' \in SUBSET Key /\ failures \subseteq failures' /\ a.key \in failures'
      /\ objects' \subseteq Key /\ objects \subseteq objects'
      /\ \A k \in objects' : k.n <= uploads
  BY <1>3, <1>5 DEF ProfilesInv, PicturesOK
<1>8. a.target \in FilledIn /\ Picture(a.target) # NoValue =>
         Picture(a.target) \in objects' /\ Picture(a.target).owner = a.target
  BY <1>7, PictureIsKey
<1> QED  BY <1>1, <1>2, <1>3, <1>4, <1>6, <1>7, <1>8, AvatarEnds DEF Picture

\* The row of the request's user shows its key.
LEMMA PictureSet ==
  ASSUME ProfilesInv, NEW a, a = avatar, a.pc = "update", HasProfile(a.target), SetPicture,
         UNCHANGED <<born, alive, patch>>
  PROVE  /\ RowTypesOK' /\ OneProfileEach' /\ NamesOK' /\ RequestsOK' /\ FilledIn' = FilledIn
         /\ a.target \in FilledIn /\ row'[a.target]["profile_picture_url"] = a.key
         /\ \A u \in FilledIn \ {a.target} : row'[u] = row[u]
<1>1. AvatarOK(a) /\ a.target \in Members /\ a \in AvatarRequest
  BY DEF ProfilesInv, PicturesOK, AvatarOK
<1>2. PICK old \in Row : old = row[a.target]
  BY <1>1 DEF ProfilesInv, RowTypesOK, HasProfile
<1>3. PICK w : w = [old EXCEPT !["profile_picture_url"] = a.key]
  OBVIOUS
<1>4. a.key \in Texts
  BY <1>1 DEF AvatarRequest, Texts
<1>5. w \in Row /\ w["profile_picture_url"] = a.key /\ w["username"] = old["username"]
  BY <1>3, <1>4, ColumnNames DEF Row
<1>6. row' = [row EXCEPT ![a.target] = w] /\ row \in [Members -> Row \cup {NoValue}]
  BY <1>2, <1>3 DEF SetPicture, ProfilesInv, RowTypesOK
<1>7. /\ row' \in [Members -> Row \cup {NoValue}] /\ row'[a.target] = w
      /\ \A v \in Members \ {a.target} : row'[v] = row[v]
  BY <1>1, <1>5, <1>6
<1>8. a.target \in FilledIn /\ w # NoValue
  BY <1>1, <1>5, NoValueIsNeither DEF FilledIn
<1>9. FilledIn' = FilledIn /\ FilledIn \subseteq Members
  BY <1>1, <1>7, <1>8 DEF FilledIn, HasProfile
<1>10. RowTypesOK' /\ OneProfileEach'
  BY <1>7, <1>9 DEF ProfilesInv, RowTypesOK, OneProfileEach, FilledIn
<1>11. \A u \in FilledIn : row'[u]["username"] = row[u]["username"]
  BY <1>2, <1>5, <1>7, <1>9
<1>12. NamesOK'
  <2>1. \A u \in FilledIn' : Folds(row'[u]["username"])
    BY <1>9, <1>11 DEF ProfilesInv, NamesOK
  <2>2. \A u, v \in FilledIn' : row'[u]["username"] = row'[v]["username"]
          => u = v \/ row'[u]["username"] = NoValue
    BY <1>9, <1>11 DEF ProfilesInv, NamesOK
  <2> QED  BY <2>1, <2>2 DEF NamesOK, Folds, LowerCase
<1>13. RequestsOK'
  BY DEF ProfilesInv, RequestsOK, PatchOK, Folds, LowerCase
<1> QED  BY <1>5, <1>7, <1>8, <1>9, <1>10, <1>12, <1>13

LEMMA StorePictureKeeps ==
  ASSUME ProfilesInv, StorePicture
  PROVE  ProfilesInv'
<1>1. PICK a \in AvatarRequest : a = avatar
  BY DEF ProfilesInv, PicturesOK
<1>2. AvatarOK(a) /\ a.pc = "update" /\ HasProfile(a.target) /\ SetPicture
      /\ UNCHANGED <<born, alive, patch, objects, uploads, failures>>
  BY <1>1 DEF ProfilesInv, PicturesOK, StorePicture
<1>3. PICK b : b = [a EXCEPT !.pc = "discard"]
  OBVIOUS
<1>4. /\ b \in AvatarRequest /\ b.pc = "discard" /\ b.target = a.target /\ b.key = a.key
      /\ b.previous = a.previous /\ avatar' = b
  BY <1>1, <1>3 DEF AvatarRequest, StorePicture
<1>5. /\ RowTypesOK' /\ OneProfileEach' /\ NamesOK' /\ RequestsOK' /\ FilledIn' = FilledIn
      /\ a.target \in FilledIn /\ row'[a.target]["profile_picture_url"] = a.key
      /\ \A u \in FilledIn \ {a.target} : row'[u] = row[u]
  BY <1>1, <1>2, PictureSet
<1>6. AvatarOK(avatar)'
  <2>1. AvatarOK(b)'
    BY <1>2, <1>4, <1>5 DEF AvatarOK, Picture
  <2> QED  BY <1>4, <2>1 DEF AvatarOK, Picture
<1>7. PicturesExist'
  <2> SUFFICES ASSUME NEW u \in FilledIn, row'[u]["profile_picture_url"] # NoValue
               PROVE  row'[u]["profile_picture_url"] \in objects' /\ row'[u]["profile_picture_url"].owner = u
    BY <1>5 DEF PicturesExist
  <2>1. CASE u = a.target
    BY <1>2, <1>5, <2>1 DEF AvatarOK
  <2>2. CASE u # a.target
    BY <1>2, <1>5, <2>2 DEF ProfilesInv, PicturesOK, PicturesExist
  <2> QED  BY <2>1, <2>2
<1>8. LeftoversAreExplained'
  <2> SUFFICES ASSUME NEW k \in objects
               PROVE  \/ k.owner \in FilledIn /\ row'[k.owner]["profile_picture_url"] = k
                      \/ k \in {a.key, a.previous}
                      \/ k \in failures \/ k.owner \notin alive
    BY <1>2, <1>4, <1>5 DEF LeftoversAreExplained
  <2>1. Picture(a.target) = a.previous
    BY <1>2, <1>5 DEF AvatarOK
  <2>2. \/ k.owner \in FilledIn /\ Picture(k.owner) = k
        \/ k \in {a.key, a.previous}
        \/ k \in failures \/ k.owner \notin alive
    BY <1>1 DEF ProfilesInv, PicturesOK, LeftoversAreExplained, Picture
  <2> QED  BY <1>5, <2>1, <2>2 DEF Picture
<1>9. PicturesOK'
  BY <1>2, <1>4, <1>6, <1>7, <1>8 DEF ProfilesInv, PicturesOK
<1> QED  BY <1>5, <1>9 DEF ProfilesInv

LEMMA StoreFailsKeeps ==
  ASSUME ProfilesInv, StoreFails
  PROVE  ProfilesInv'
<1>1. PICK a \in AvatarRequest : a = avatar
  BY DEF ProfilesInv, PicturesOK
<1>2. AvatarOK(a) /\ a.pc = "update"
  BY <1>1 DEF ProfilesInv, PicturesOK, StoreFails
<1>3. /\ avatar' = NoAvatar /\ failures' = failures \cup ({a.key, a.previous} \ {NoValue})
      /\ UNCHANGED <<born, alive, patch, objects, uploads>>
  BY <1>1 DEF StoreFails, Failed
<1>4. \/ row' = row
      \/ HasProfile(a.target) /\ SetPicture
  BY <1>1 DEF StoreFails
<1>5. /\ RowTypesOK' /\ OneProfileEach' /\ NamesOK' /\ RequestsOK' /\ FilledIn' = FilledIn
      /\ \A u \in FilledIn \ {a.target} : row'[u] = row[u]
      /\ a.target \in FilledIn => row'[a.target]["profile_picture_url"] \in {a.key, a.previous}
  <2>1. CASE row' = row
    <3>1. UNCHANGED <<ProfileRows, patch>>
      BY <1>3, <2>1 DEF ProfileRows
    <3> QED  BY <1>2, <2>1, <3>1, RowsRest DEF AvatarOK, Picture
  <2>2. CASE HasProfile(a.target) /\ SetPicture
    BY <1>1, <1>2, <1>3, <2>2, PictureSet
  <2> QED  BY <1>4, <2>1, <2>2
<1>6. failures' \in SUBSET Key /\ failures \subseteq failures'
      /\ objects' = objects /\ objects \subseteq Key /\ \A k \in objects : k.n <= uploads
  BY <1>3 DEF ProfilesInv, PicturesOK, AvatarRequest
<1>7. a.target \in FilledIn => Picture(a.target) = a.previous
  BY <1>2 DEF AvatarOK
<1>8. a.target \in FilledIn =>
        \A k \in {a.key, a.previous} : k # NoValue => k \in objects /\ k.owner = a.target
  BY <1>2, <1>7, PictureIsKey DEF AvatarOK
<1>9. \A k \in {a.key, a.previous} : k \in objects => k \in failures'
  BY <1>3, <1>6, NoValueIsNeither
<1> QED  BY <1>1, <1>2, <1>3, <1>5, <1>6, <1>7, <1>8, <1>9, AvatarEnds

LEMMA DiscardKeeps ==
  ASSUME ProfilesInv, SafeDeleteUrl
  PROVE  ProfilesInv'
<1>1. PICK a \in AvatarRequest : a = avatar
  BY DEF ProfilesInv, PicturesOK
<1>2. AvatarOK(a) /\ a.pc = "discard"
  BY <1>1 DEF ProfilesInv, PicturesOK, SafeDeleteUrl
<1>3. /\ avatar' = NoAvatar /\ UNCHANGED <<ProfileRows, patch, uploads>>
      /\ \/ objects' = objects \ {a.previous} /\ failures' = failures
         \/ objects' = objects /\ failures' = failures \cup ({a.previous} \ {NoValue})
  BY <1>1 DEF SafeDeleteUrl, Failed
<1>4. FilledIn' = FilledIn /\ row' = row /\ alive' = alive
      /\ RowTypesOK' /\ OneProfileEach' /\ NamesOK' /\ RequestsOK'
  BY <1>3, RowsRest
<1>5. a.target \in FilledIn => Picture(a.target) = a.key
  BY <1>2 DEF AvatarOK
<1>6. a.key # NoValue => a.key # a.previous
  BY <1>1, <1>2 DEF AvatarOK, AvatarRequest, Key
<1>7. /\ failures' \in SUBSET Key /\ failures \subseteq failures'
      /\ objects' \subseteq objects /\ objects \subseteq Key /\ \A k \in objects : k.n <= uploads
      /\ \A k \in objects \ {a.previous} : k \in objects'
  BY <1>1, <1>3 DEF ProfilesInv, PicturesOK, AvatarRequest
<1>8. a.target \in FilledIn /\ a.key # NoValue => a.key \in objects' /\ a.key.owner = a.target
  BY <1>2, <1>6, <1>7 DEF AvatarOK
<1>9. a.previous \in objects' => a.previous \in failures'
  BY <1>3, <1>7, NoValueIsNeither
<1> QED  BY <1>1, <1>2, <1>3, <1>4, <1>5, <1>7, <1>8, <1>9, AvatarEnds DEF Picture

LEMMA DeletionKeeps ==
  ASSUME ProfilesInv, NEW u \in Members, DeleteAccount(u)
  PROVE  ProfilesInv'
<1>1. alive' = alive \ {u} /\ row' = [row EXCEPT ![u] = NoValue]
      /\ UNCHANGED <<born, patch, objects, uploads, avatar, failures>>
  BY DEF DeleteAccount, Pictures
<1>2. /\ row' \in [Members -> Row \cup {NoValue}] /\ row'[u] = NoValue
      /\ \A v \in Members \ {u} : row'[v] = row[v]
  BY <1>1 DEF ProfilesInv, RowTypesOK
<1>3. FilledIn' = FilledIn \ {u} /\ FilledIn \subseteq Members
  BY <1>2 DEF FilledIn, HasProfile
<1>4. \A v \in FilledIn' : row'[v] = row[v] /\ v \in FilledIn
  BY <1>2, <1>3
<1>5. RowTypesOK' /\ OneProfileEach'
  BY <1>1, <1>2, <1>3 DEF ProfilesInv, RowTypesOK, OneProfileEach, HasProfile
<1>6. NamesOK'
  BY <1>4 DEF ProfilesInv, NamesOK, Folds, LowerCase
<1>7. RequestsOK'
  BY <1>1 DEF ProfilesInv, RequestsOK, PatchOK, Folds, LowerCase
<1>8. AvatarOK(avatar)'
  <2>1. PICK a : a = avatar
    OBVIOUS
  <2>2. AvatarOK(a) /\ avatar' = a
    BY <1>1, <2>1 DEF ProfilesInv, PicturesOK
  <2>3. a.pc # "idle" => a.target \in FilledIn' \/ a.target \notin alive'
    BY <1>1, <1>3, <2>2 DEF AvatarOK
  <2>4. AvatarOK(a)'
    BY <1>1, <1>4, <2>2, <2>3 DEF AvatarOK, Picture
  <2> QED  BY <2>2, <2>4 DEF AvatarOK, Picture
<1>9. PicturesExist' /\ LeftoversAreExplained'
  BY <1>1, <1>3, <1>4 DEF ProfilesInv, PicturesOK, PicturesExist, LeftoversAreExplained
<1>10. PicturesOK'
  BY <1>1, <1>8, <1>9 DEF ProfilesInv, PicturesOK
<1> QED  BY <1>5, <1>6, <1>7, <1>10 DEF ProfilesInv

LEMMA ProfilesInitially == ProfilesInit => ProfilesInv
<1> SUFFICES ASSUME ProfilesInit PROVE ProfilesInv
  OBVIOUS
<1>1. Cardinality(Members) \in Nat
  BY MembersAreFinite, FS_CardinalityType
<1>2. FilledIn = {}
  BY DEF ProfilesInit, FilledIn, HasProfile
<1>3. RowTypesOK /\ OneProfileEach /\ NamesOK
  BY <1>1, <1>2 DEF ProfilesInit, RowTypesOK, OneProfileEach, NamesOK
<1>4. RequestsOK
  BY NothingAsked DEF ProfilesInit, RequestsOK
<1>5. objects = {} /\ failures = {} /\ uploads = 0 /\ avatar = NoAvatar
  BY DEF ProfilesInit
<1>6. PicturesExist /\ LeftoversAreExplained
  BY <1>2, <1>5 DEF PicturesExist, LeftoversAreExplained
<1>7. AvatarOK(avatar) /\ avatar \in AvatarRequest /\ uploads \in 0..MaxUploads
  BY <1>5, NoAvatarIsOK, UploadsAssumption
<1>8. PicturesOK
  BY <1>5, <1>6, <1>7 DEF PicturesOK
<1> QED  BY <1>3, <1>4, <1>8 DEF ProfilesInv

LEMMA ProfilesPreserved == ProfilesInv /\ [ProfilesNext]_profileVars => ProfilesInv'
<1> SUFFICES ASSUME ProfilesInv, [ProfilesNext]_profileVars PROVE ProfilesInv'
  OBVIOUS
<1>1. ASSUME NEW c \in Clerks, NEW actor \in Members, NEW u \in Members, NEW p \in Payloads,
             UpdateProfile(c, actor, u, p)
      PROVE  ProfilesInv'
  BY <1>1, UpdateKeeps
<1>2. ASSUME NEW c \in Clerks,
             CheckCreate(c) \/ CheckUpdate(c) \/ Insert(c) \/ Write(c) \/ DatabaseFails(c)
      PROVE  ProfilesInv'
  BY <1>2, CheckKeeps, InsertKeeps, WriteKeeps
<1>3. ASSUME NEW actor \in Members, NEW u \in Members, Upload(actor, u) \/ Delete(actor, u)
      PROVE  ProfilesInv'
  BY <1>3, UploadKeeps, DeleteKeeps
<1>4. CASE Save \/ SaveFails \/ StorePicture \/ StoreFails \/ SafeDeleteUrl
  BY <1>4, SaveKeeps, SaveFailsKeeps, StorePictureKeeps, StoreFailsKeeps, DiscardKeeps
<1>5. ASSUME NEW u \in Members, DeleteAccount(u)
      PROVE  ProfilesInv'
  BY <1>5, DeletionKeeps
<1>6. CASE UNCHANGED profileVars
  <2>1. UNCHANGED <<ProfileRows, patch>>
    BY <1>6 DEF profileVars, ProfileRows
  <2>2. PicturesOK'
    BY <1>6 DEF profileVars, ProfilesInv, PicturesOK, AvatarOK, PicturesExist,
                LeftoversAreExplained, FilledIn, HasProfile, Picture
  <2> QED  BY <2>1, <2>2, RowsRest DEF ProfilesInv
<1> QED  BY <1>1, <1>2, <1>3, <1>4, <1>5, <1>6 DEF ProfilesNext

LEMMA ProfilesInvariant == ProfilesSpec => []ProfilesInv
BY ProfilesInitially, ProfilesPreserved, PTL DEF ProfilesSpec

\* Rows, requests and pictures keep their types (user_service's profile_service.py and
\* avatar_service.py).
THEOREM ProfileTypes == ProfilesSpec => []ProfilesTypeOK
<1>1. ASSUME ProfilesInv PROVE ProfilesTypeOK
  <2>1. \A u \in Members : row[u] = NoValue \/ DOMAIN row[u] = EditableFields
    BY <1>1 DEF ProfilesInv, RowTypesOK, Row
  <2>2. \A u \in Members : born[u] \in 0 .. Cardinality(Members)
    BY <1>1, MembersAreFinite, FS_CardinalityType DEF ProfilesInv, RowTypesOK, OneProfileEach
  <2>3. \A c \in Clerks : /\ patch[c].target \in Members \cup {NoValue}
                          /\ DOMAIN patch[c].given \subseteq PayloadFields
    <3> SUFFICES ASSUME NEW c \in Clerks
                 PROVE  /\ patch[c].target \in Members \cup {NoValue}
                        /\ DOMAIN patch[c].given \subseteq PayloadFields
      OBVIOUS
    <3>1. PICK q \in PatchRequest : q = patch[c]
      BY <1>1 DEF ProfilesInv, RequestsOK
    <3> QED  BY <3>1 DEF PatchRequest, Bodies
  <2>4. alive \subseteq Members /\ objects \subseteq Key /\ failures \subseteq Key
        /\ uploads \in 0 .. MaxUploads
    BY <1>1 DEF ProfilesInv, RowTypesOK, PicturesOK
  <2>5. /\ avatar.pc \in {"idle", "save", "update", "discard"}
        /\ {avatar.key, avatar.previous} \subseteq Key \cup {NoValue}
    BY <1>1 DEF ProfilesInv, PicturesOK, AvatarRequest
  <2> QED  BY <2>1, <2>2, <2>3, <2>4, <2>5 DEF ProfilesTypeOK
<1> QED  BY <1>1, ProfilesInvariant, PTL

\* However often pictures are replaced, removed and failed to be, and accounts deleted
\* meanwhile: the picture a profile shows is in the store and its owner's, and an object no
\* profile shows has a named cause (AvatarService.upload, delete).
THEOREM PicturesKept == ProfilesSpec => []PicturesAreKept
<1>1. ProfilesInv => PicturesAreKept
  BY DEF ProfilesInv, PicturesOK, PicturesAreKept
<1> QED  BY <1>1, ProfilesInvariant, PTL

LEMMA NameHolder ==
  ASSUME ProfilesInv, NEW u \in FilledIn, row[u]["username"] # NoValue
  PROVE  HolderOf(row[u]["username"]) = {u}
BY DEF ProfilesInv, NamesOK, HolderOf

\* Two checks and a unique constraint keep the names of any number of profiles apart, in
\* every spelling, and the page of a name shows its holder (ProfileService.update_profile,
\* get_public_profile).
THEOREM NamesLeadHome == ProfilesSpec => [](NamesAreUnique /\ PagesLeadHome)
<1>1. ASSUME ProfilesInv PROVE NamesAreUnique
  <2> SUFFICES ASSUME NEW u \in FilledIn, NEW v \in FilledIn,
                      LowerCase(row[u]["username"]) = LowerCase(row[v]["username"])
               PROVE  u = v \/ row[u]["username"] = NoValue
    BY DEF NamesAreUnique
  <2>1. LowerCase(row[u]["username"]) = row[u]["username"] /\ LowerCase(row[v]["username"]) = row[v]["username"]
    BY <1>1 DEF ProfilesInv, NamesOK, Folds
  <2>2. row[u]["username"] = row[v]["username"]
    BY <2>1
  <2> QED  BY <1>1, <2>2 DEF ProfilesInv, NamesOK
<1>2. ASSUME ProfilesInv PROVE PagesLeadHome
  <2> SUFFICES ASSUME NEW u \in FilledIn, row[u]["username"] # NoValue,
                      NEW v \in Spellings(row[u]["username"])
               PROVE  PublicPages(v) = {View(u)}
    BY DEF PagesLeadHome
  <2>1. PICK name : name = row[u]["username"]
    OBVIOUS
  <2>2. Folds(name) /\ name # NoValue /\ HolderOf(name) = {u}
    BY <1>2, <2>1, NameHolder DEF ProfilesInv, NamesOK
  <2>3. v # "" /\ LowerCase(v) = name
    BY <2>1, <2>2, LowerAssumption DEF Spellings, LowerCase, Folds
  <2>4. Clean("username", v) = name
    BY <2>3 DEF Clean, Folded
  <2>5. PublicPages(v) = {View(x) : x \in HolderOf(name)}
    BY <2>2, <2>4 DEF PublicPages
  <2> QED  BY <2>2, <2>5
<1> QED  BY <1>1, <1>2, ProfilesInvariant, PTL

\* "Username is already taken" is said of a name that somebody else has, and otherwise only
\* to a request that lost the race to create its own profile or whose account is gone
\* (ProfileRepository.create_profile, update_profile).
THEOREM RefusalsExplained == ProfilesSpec => RefusalsAreExplained
<1> DEFINE Explains ==
      \A c \in Clerks :
          (patch[c].pc # "taken" /\ patch'[c].pc = "taken") =>
              LET u == patch[c].target IN
              \/ NameIsTaken(patch[c].given, Members \ {u})
              \/ patch[c].pc = "insert" /\ (HasProfile(u) \/ u \notin alive)
<1>1. ASSUME ProfilesInv, [ProfilesNext]_profileVars PROVE Explains
  <2> SUFFICES ASSUME NEW c \in Clerks, patch[c].pc # "taken", patch'[c].pc = "taken"
               PROVE  \/ NameIsTaken(patch[c].given, Members \ {patch[c].target})
                      \/ /\ patch[c].pc = "insert"
                         /\ HasProfile(patch[c].target) \/ patch[c].target \notin alive
    OBVIOUS
  <2>1. patch \in [Clerks -> PatchRequest] /\ patch' # patch
    BY <1>1 DEF ProfilesInv, RequestsOK
  <2>2. \/ UNCHANGED patch
        \/ \E d \in Clerks :
              \/ \E actor, u \in Members, p \in Payloads : UpdateProfile(d, actor, u, p)
              \/ CheckCreate(d) \/ CheckUpdate(d) \/ Insert(d) \/ Write(d) \/ DatabaseFails(d)
    BY <1>1 DEF ProfilesNext, profileVars, Upload, Delete, Save, SaveFails, StorePicture, StoreFails,
                SafeDeleteUrl, DeleteAccount
  <2>3. PICK d \in Clerks :
              \/ \E actor, u \in Members, p \in Payloads : UpdateProfile(d, actor, u, p)
              \/ CheckCreate(d) \/ CheckUpdate(d) \/ Insert(d) \/ Write(d) \/ DatabaseFails(d)
    BY <2>1, <2>2
  <2>4. \A q : patch' = [patch EXCEPT ![d] = q] => d = c /\ q.pc = "taken"
    BY <2>1
  <2>5. ~ \E actor, u \in Members, p \in Payloads : UpdateProfile(d, actor, u, p)
    <3> SUFFICES ASSUME NEW actor \in Members, NEW u \in Members, NEW p \in Payloads,
                        UpdateProfile(d, actor, u, p)
                 PROVE  FALSE
      OBVIOUS
    <3>1. PICK q : q = [pc |-> IF HasProfile(u) THEN "update" ELSE "create",
                        target |-> u, given |-> Cleaned(p), seen |-> row[u]]
      OBVIOUS
    <3>2. patch' = [patch EXCEPT ![d] = q] /\ q.pc # "taken"
      BY <3>1 DEF UpdateProfile
    <3> QED  BY <2>4, <3>2
  <2>6. ~ Answer(d)
    BY <2>4 DEF Answer, NoRequest
  <2>7. \A pc \in {"insert", "write"} : patch' # [patch EXCEPT ![d].pc = pc]
    <3> SUFFICES ASSUME NEW pc \in {"insert", "write"}, patch' = [patch EXCEPT ![d].pc = pc]
                 PROVE  FALSE
      OBVIOUS
    <3>1. PICK t \in PatchRequest : t = patch[d]
      BY <2>1
    <3>2. PICK q : q = [t EXCEPT !.pc = pc]
      OBVIOUS
    <3>3. q.pc = pc
      BY <3>2 DEF PatchRequest
    <3>4. patch' = [patch EXCEPT ![d] = q]
      BY <2>1, <3>1, <3>2
    <3> QED  BY <2>4, <3>3, <3>4
  <2>8. AnswerTaken(d) /\ d = c
    <3>1. AnswerTaken(d)
      BY <2>3, <2>5, <2>6, <2>7 DEF CheckCreate, CheckUpdate, Insert, Write, DatabaseFails
    <3> QED  BY <2>4, <3>1 DEF AnswerTaken
  <2>9. ~HasProfile(patch[c].target) /\ NameIsTaken(patch[c].given, Members)
           => NameIsTaken(patch[c].given, Members \ {patch[c].target})
    BY DEF NameIsTaken, HolderOf, FilledIn
  <2> QED  BY <2>3, <2>5, <2>6, <2>7, <2>8, <2>9
           DEF CheckCreate, CheckUpdate, Insert, Write, DatabaseFails
<1>2. ProfilesSpec => [][Explains]_profileVars
  BY <1>1, ProfilesInvariant, PTL DEF ProfilesSpec
<1> QED  BY <1>2 DEF RefusalsAreExplained

-------------------------------------------------------------------------------
(* Profiles: the order of the profiles *)

\* Every profile has its place in the order in which profiles were made.
BirthsOK ==
    /\ \A u \in FilledIn : born[u] > 0
    /\ \A u, v \in Members : born[u] = born[v] => u = v \/ born[u] = 0
    /\ \A u \in Members : born[u] <= Cardinality({v \in Members : born[v] > 0})

LEMMA InsertOrders ==
  ASSUME ProfilesInv, BirthsOK, NEW c \in Clerks, Insert(c)
  PROVE  BirthsOK'
<1> DEFINE u == patch[c].target
           B == {v \in Members : born[v] > 0}
<1>1. CASE UNCHANGED <<row, born>>
  BY <1>1 DEF BirthsOK, FilledIn, HasProfile
<1>2. CASE /\ ~ (u \notin alive \/ HasProfile(u))
           /\ row' = [row EXCEPT ![u] =
                 [f \in EditableFields |->
                    IF f \in DOMAIN patch[c].given THEN patch[c].given[f] ELSE NoValue]]
           /\ born' = [born EXCEPT ![u] = Cardinality(B) + 1]
  <2>1. /\ born \in [Members -> Nat] /\ row \in [Members -> Row \cup {NoValue}]
        /\ u \in Members /\ born[u] = 0
    BY <1>2 DEF ProfilesInv, RowTypesOK, OneProfileEach
  <2>2. IsFiniteSet(B) /\ Cardinality(B) \in Nat /\ u \notin B
    BY <2>1, MembersAreFinite, FS_Subset, FS_CardinalityType
  <2>3. Cardinality(B \cup {u}) = Cardinality(B) + 1
    BY <2>2, FS_AddElement
  <2>4. /\ \A v \in Members \ {u} : born'[v] = born[v] /\ row'[v] = row[v]
        /\ born'[u] = Cardinality(B) + 1
    BY <1>2, <2>1
  <2> DEFINE later == {v \in Members : born'[v] > 0}
  <2>5. later = B \cup {u}
    BY <2>1, <2>2, <2>4
  <2>6. Cardinality(later) = Cardinality(B) + 1
    BY <2>3, <2>5, Zenon
  <2>7. \A v \in Members : born[v] \in Nat /\ born[v] <= Cardinality(B)
    BY <2>1 DEF BirthsOK
  <2>8. \A v \in FilledIn' : born'[v] > 0
    BY <2>1, <2>2, <2>4 DEF BirthsOK, FilledIn, HasProfile
  <2>9. \A v, w \in Members : born'[v] = born'[w] => v = w \/ born'[v] = 0
    <3> HIDE DEF B
    <3> QED  BY <2>2, <2>4, <2>7 DEF BirthsOK
  <2>10. \A v \in Members : born'[v] <= Cardinality(later)
    <3> HIDE DEF B, later
    <3> QED  BY <2>2, <2>4, <2>6, <2>7
  <2> QED  BY <2>8, <2>9, <2>10 DEF BirthsOK
<1> QED  BY <1>1, <1>2 DEF Insert

\* The other steps give no user a profile.
LEMMA OthersKeepOrder ==
  ASSUME ProfilesInv, BirthsOK, born' = born, FilledIn' \subseteq FilledIn
  PROVE  BirthsOK'
BY DEF BirthsOK

LEMMA OrderPreserved ==
  ASSUME ProfilesInv, BirthsOK, [ProfilesNext]_profileVars
  PROVE  BirthsOK'
<1>1. row \in [Members -> Row \cup {NoValue}] /\ NoValue \notin Row
  BY NoValueIsNeither DEF ProfilesInv, RowTypesOK
<1>2. ASSUME NEW c \in Clerks, Write(c)
      PROVE  BirthsOK'
  <2>1. born' = born /\ FilledIn' \subseteq FilledIn
    BY <1>1, <1>2 DEF Write, FilledIn, HasProfile
  <2> QED  BY <2>1, OthersKeepOrder
<1>3. ASSUME StorePicture \/ StoreFails
      PROVE  BirthsOK'
  <2>1. born' = born /\ FilledIn' \subseteq FilledIn
    BY <1>1, <1>3 DEF StorePicture, StoreFails, SetPicture, FilledIn, HasProfile
  <2> QED  BY <2>1, OthersKeepOrder
<1>4. ASSUME NEW u \in Members, DeleteAccount(u)
      PROVE  BirthsOK'
  <2>1. born' = born /\ FilledIn' \subseteq FilledIn
    BY <1>1, <1>4 DEF DeleteAccount, FilledIn, HasProfile
  <2> QED  BY <2>1, OthersKeepOrder
<1>5. ASSUME UNCHANGED <<row, born>>
      PROVE  BirthsOK'
  <2>1. born' = born /\ FilledIn' \subseteq FilledIn
    BY <1>5 DEF FilledIn, HasProfile
  <2> QED  BY <2>1, OthersKeepOrder
<1>6. ASSUME NEW c \in Clerks,
             \/ \E actor, u \in Members, p \in Payloads : UpdateProfile(c, actor, u, p)
             \/ CheckCreate(c) \/ CheckUpdate(c) \/ DatabaseFails(c)
      PROVE  BirthsOK'
  BY <1>5, <1>6 DEF UpdateProfile, CheckCreate, CheckUpdate, DatabaseFails, ProfileRows
<1>7. ASSUME \/ \E actor, u \in Members : Upload(actor, u) \/ Delete(actor, u)
             \/ Save \/ SaveFails \/ SafeDeleteUrl
      PROVE  BirthsOK'
  BY <1>5, <1>7 DEF Upload, Delete, Save, SaveFails, SafeDeleteUrl, ProfileRows
<1>8. CASE UNCHANGED profileVars
  BY <1>5, <1>8 DEF profileVars
<1> QED  BY <1>2, <1>3, <1>4, <1>6, <1>7, <1>8, InsertOrders DEF ProfilesNext

LEMMA AlwaysOrdered == ProfilesSpec => [](ProfilesInv /\ BirthsOK)
<1>1. ProfilesInit => BirthsOK
  <2>1. ASSUME ProfilesInit
        PROVE  BirthsOK
    <3>1. FilledIn = {} /\ \A u \in Members : born[u] = 0
      BY <2>1 DEF ProfilesInit, FilledIn, HasProfile
    <3>2. {v \in Members : born[v] > 0} = {}
      BY <3>1
    <3>3. Cardinality({v \in Members : born[v] > 0}) = 0
      BY <3>2, FS_EmptySet, Zenon
    <3> QED  BY <3>1, <3>3 DEF BirthsOK
  <2> QED  BY <2>1
<1>2. ProfilesInv /\ BirthsOK /\ [ProfilesNext]_profileVars => BirthsOK'
  BY OrderPreserved
<1> QED  BY <1>1, <1>2, ProfilesInvariant, PTL DEF ProfilesSpec

\* The profiles in the order of their creation, the newest first.
LEMMA NewestListed ==
  ASSUME ProfilesInv, BirthsOK, NEW users \in SUBSET FilledIn
  PROVE  /\ Cardinality(users) \in Nat
         /\ NewestFirst(users) \in [1 .. Cardinality(users) -> users]
         /\ \A u \in users : \E i \in 1 .. Cardinality(users) : NewestFirst(users)[i] = u
<1> DEFINE b == [u \in users |-> {v \in users : born[v] > born[u]}]
           q == NewestFirst(users)
           n == Cardinality(users)
<1>1. IsFiniteSet(users) /\ users \subseteq Members
  BY MembersAreFinite, FS_Subset DEF FilledIn
<1>2. \A u, v \in users : born[u] \in Nat /\ born[v] \in Nat /\ (born[u] = born[v] => u = v)
  BY <1>1 DEF BirthsOK, ProfilesInv, RowTypesOK
<1>3. Precedes(b, users)
  <2>1. b \in [users -> SUBSET users] /\ \A u, v \in users : u \in b[v] <=> born[u] > born[v]
    OBVIOUS
  <2> HIDE DEF b
  <2>2. \A u, v \in users : u \in b[v] => b[u] \subseteq b[v]
    <3>1. ASSUME NEW u \in users, NEW v \in users, u \in b[v], NEW w \in b[u]
          PROVE  w \in b[v]
      <4>1. w \in users
        BY <2>1
      <4> QED  BY <1>2, <2>1, <3>1, <4>1
    <3> QED  BY <3>1
  <2> QED  BY <1>2, <2>1, <2>2 DEF Precedes
<1>4. q = [i \in 1 .. n |-> CHOOSE u \in users : Cardinality({v \in users : born[v] > born[u]}) = i - 1]
  BY DEF NewestFirst, InOrder
<1>5. ASSUME NEW i \in 1 .. n
      PROVE  q[i] \in users /\ Cardinality(b[q[i]]) = i - 1
  <2>1. q[i] = CHOOSE u \in users : Cardinality({v \in users : born[v] > born[u]}) = i - 1
    BY <1>4
  <2>2. \A k \in 1 .. n : \E u \in users : Cardinality(b[u]) = k - 1
    BY <1>1, <1>3, Ranks
  <2>3. \E u \in users : Cardinality({v \in users : born[v] > born[u]}) = i - 1
    BY <2>2
  <2>4. q[i] \in users /\ Cardinality({v \in users : born[v] > born[q[i]]}) = i - 1
    BY <2>1, <2>3
  <2> QED  BY <2>4
<1>6. q = [i \in 1 .. n |-> q[i]]
  BY <1>4
<1> HIDE DEF q, b
<1>7. q \in [1 .. n -> users]
  BY <1>5, <1>6
<1>8. Lists(q, users, b)
  BY <1>1, <1>3, <1>5, <1>7, Listings
<1> QED  BY <1>7, <1>8 DEF Lists, q

LEMMA SearchesHold ==
  ASSUME ProfilesInv, BirthsOK
  PROVE  SearchesPartition
<1>1. ASSUME NEW users \in SUBSET FilledIn
      PROVE  /\ UNION {SearchPage(users, n, 1).items : n \in 1 .. Cardinality(Members)} = users
             /\ \A n \in 1 .. Cardinality(Members) :
                   LET page == SearchPage(users, n, 1) IN
                   /\ page.total = Cardinality(users)
                   /\ Cardinality(page.items) = IF n <= Cardinality(users) THEN 1 ELSE 0
  <2> DEFINE all == NewestFirst(users)
             m == Cardinality(users)
             items(n) == SearchPage(users, n, 1).items
  <2>1. m \in Nat /\ all \in [1 .. m -> users] /\ \A u \in users : \E i \in 1 .. m : all[i] = u
    BY NewestListed
  <2>2. m <= Cardinality(Members) /\ Cardinality(Members) \in Nat
    <3>1. users \in SUBSET Members
      BY DEF FilledIn
    <3> QED  BY <3>1, MembersAreFinite, FS_Subset, FS_CardinalityType
  <2>3. ASSUME NEW n \in 1 .. Cardinality(Members)
        PROVE  items(n) = IF n <= m THEN {all[n]} ELSE {}
    <3>1. items(n) = {all[i] : i \in {j \in DOMAIN all : j > (n - 1) * 1 /\ j <= n * 1}}
      BY DEF SearchPage
    <3>2. (n - 1) * 1 = n - 1 /\ n * 1 = n /\ n \in Nat
      BY <2>2
    <3>3. DOMAIN all = 1 .. m
      BY <2>1
    <3> HIDE DEF all, m, items
    <3>4. \A j \in DOMAIN all : (j > (n - 1) * 1 /\ j <= n * 1) <=> j = n
      BY <2>1, <3>2, <3>3
    <3>5. CASE n <= m
      <4>1. n \in DOMAIN all
        BY <2>1, <3>2, <3>3, <3>5
      <4> QED  BY <3>1, <3>4, <3>5, <4>1
    <3>6. CASE ~ (n <= m)
      <4>1. n \notin DOMAIN all
        BY <2>1, <3>3, <3>6
      <4> QED  BY <3>1, <3>4, <3>6, <4>1
    <3> QED  BY <3>5, <3>6
  <2> HIDE DEF all, m, items
  <2>4. ASSUME NEW n \in 1 .. Cardinality(Members)
        PROVE  Cardinality(items(n)) = IF n <= m THEN 1 ELSE 0
    <3>1. CASE n <= m
      <4>1. items(n) = {all[n]}
        BY <2>3, <3>1
      <4>2. Cardinality({all[n]}) = 1
        BY FS_Singleton
      <4> QED  BY <3>1, <4>1, <4>2, Zenon
    <3>2. CASE ~ (n <= m)
      <4>1. items(n) = {}
        BY <2>3, <3>2
      <4> QED  BY <3>2, <4>1, FS_EmptySet, Zenon
    <3> QED  BY <3>1, <3>2
  <2>5. UNION {items(n) : n \in 1 .. Cardinality(Members)} = users
    <3>1. ASSUME NEW u \in users
          PROVE  \E n \in 1 .. Cardinality(Members) : u \in items(n)
      <4>1. PICK i \in 1 .. m : all[i] = u
        BY <2>1
      <4>2. i \in 1 .. Cardinality(Members) /\ i <= m
        BY <2>1, <2>2
      <4> QED  BY <2>3, <4>1, <4>2
    <3>2. ASSUME NEW n \in 1 .. Cardinality(Members), NEW u \in items(n)
          PROVE  u \in users
      <4>1. n <= m /\ u = all[n]
        BY <2>3, <3>2
      <4> QED  BY <2>1, <2>2, <4>1
    <3> QED  BY <3>1, <3>2
  <2>6. \A n : SearchPage(users, n, 1).total = m
    BY DEF SearchPage, m
  <2> QED  BY <2>4, <2>5, <2>6 DEF items, m
<1>2. \A publicOnly, skill, q : Listed(publicOnly, skill, q) \in SUBSET FilledIn
  BY DEF Listed
<1> QED  BY <1>1, <1>2 DEF SearchesPartition

-------------------------------------------------------------------------------
(* Profiles: scores and statistics *)

\* A finite set of n members.
Has(S, n) == IsFiniteSet(S) /\ Cardinality(S) = n

LEMMA OneMore == \A S, x, n : Has(S, n) /\ x \notin S => Has(S \cup {x}, n + 1)
BY FS_AddElement DEF Has

\* There are seven required fields and twelve checks.
LEMMA TwelveChecks ==
  /\ IsFiniteSet(Checks) /\ Cardinality(Checks) = 12
  /\ \A passed \in SUBSET Checks :
        (\A f \in RequiredFields : {f} \in passed) => Cardinality(passed) >= 7
<1> DEFINE r0 == {}
           r1 == r0 \cup {{"username"}}
           r2 == r1 \cup {{"first_name"}}
           r3 == r2 \cup {{"last_name"}}
           r4 == r3 \cup {{"bio"}}
           r5 == r4 \cup {{"current_status"}}
           r6 == r5 \cup {{"primary_skill"}}
           required == r6 \cup {{"profile_picture_url"}}
           c1set == required \cup {{"mobile_number"}}
           c2 == c1set \cup {{"college", "company"}}
           c3 == c2 \cup {{"github_username"}}
           c4 == c3 \cup {{"linkedin_url", "portfolio_url"}}
           c5 == c4 \cup {{"leetcode_username", "hackerrank_username"}}
<1>1. required = {{f} : f \in RequiredFields}
  BY DEF RequiredFields
<1>2. c5 = Checks
  BY <1>1 DEF Checks, OptionalChecks
<1>3. {"username"} \notin r0
  OBVIOUS
<1>4. {"first_name"} \notin r1
  OBVIOUS
<1>5. {"last_name"} \notin r2
  OBVIOUS
<1>6. {"bio"} \notin r3
  OBVIOUS
<1>7. {"current_status"} \notin r4
  OBVIOUS
<1>8. {"primary_skill"} \notin r5
  OBVIOUS
<1>9. {"profile_picture_url"} \notin r6
  OBVIOUS
<1>10. {"mobile_number"} \notin required
  OBVIOUS
<1>11. {"college", "company"} \notin c1set
  OBVIOUS
<1>12. {"github_username"} \notin c2
  OBVIOUS
<1>13. {"linkedin_url", "portfolio_url"} \notin c3
  OBVIOUS
<1>14. {"leetcode_username", "hackerrank_username"} \notin c4
  OBVIOUS
<1>15. Has(r0, 0)
  BY FS_EmptySet DEF Has
<1> HIDE DEF r0
<1>16. Has(r1, 0 + 1)
  BY <1>3, <1>15, OneMore, Zenon
<1> HIDE DEF r1
<1>17. Has(r2, 0 + 1 + 1)
  BY <1>4, <1>16, OneMore, Zenon
<1> HIDE DEF r2
<1>18. Has(r3, 0 + 1 + 1 + 1)
  BY <1>5, <1>17, OneMore, Zenon
<1> HIDE DEF r3
<1>19. Has(r4, 0 + 1 + 1 + 1 + 1)
  BY <1>6, <1>18, OneMore, Zenon
<1> HIDE DEF r4
<1>20. Has(r5, 0 + 1 + 1 + 1 + 1 + 1)
  BY <1>7, <1>19, OneMore, Zenon
<1> HIDE DEF r5
<1>21. Has(r6, 0 + 1 + 1 + 1 + 1 + 1 + 1)
  BY <1>8, <1>20, OneMore, Zenon
<1> HIDE DEF r6
<1>22. Has(required, 0 + 1 + 1 + 1 + 1 + 1 + 1 + 1)
  BY <1>9, <1>21, OneMore, Zenon
<1> HIDE DEF required
<1>23. Has(c1set, 0 + 1 + 1 + 1 + 1 + 1 + 1 + 1 + 1)
  BY <1>10, <1>22, OneMore, Zenon
<1> HIDE DEF c1set
<1>24. Has(c2, 0 + 1 + 1 + 1 + 1 + 1 + 1 + 1 + 1 + 1)
  BY <1>11, <1>23, OneMore, Zenon
<1> HIDE DEF c2
<1>25. Has(c3, 0 + 1 + 1 + 1 + 1 + 1 + 1 + 1 + 1 + 1 + 1)
  BY <1>12, <1>24, OneMore, Zenon
<1> HIDE DEF c3
<1>26. Has(c4, 0 + 1 + 1 + 1 + 1 + 1 + 1 + 1 + 1 + 1 + 1 + 1)
  BY <1>13, <1>25, OneMore, Zenon
<1> HIDE DEF c4
<1>27. Has(c5, 0 + 1 + 1 + 1 + 1 + 1 + 1 + 1 + 1 + 1 + 1 + 1 + 1)
  BY <1>14, <1>26, OneMore, Zenon
<1> HIDE DEF c5
<1>28. IsFiniteSet(Checks) /\ Cardinality(Checks) = 12
  BY <1>2, <1>27 DEF Has
<1>29. ASSUME NEW passed \in SUBSET Checks, \A f \in RequiredFields : {f} \in passed
       PROVE  Cardinality(passed) >= 7
  <2>1. IsFiniteSet(passed)
    BY <1>28, FS_Subset
  <2>2. required \in SUBSET passed
    BY <1>1, <1>29
  <2>3. Cardinality(required) <= Cardinality(passed) /\ Cardinality(required) = 7
    BY <1>22, <2>1, <2>2, FS_Subset DEF Has
  <2>4. Cardinality(passed) \in Nat
    BY <2>1, FS_CardinalityType
  <2> QED  BY <2>3, <2>4
<1> QED  BY <1>28, <1>29

LEMMA ScoresHold ==
  ASSUME ProfilesInv
  PROVE  ScoresAgree
<1>1. SUFFICES ASSUME NEW u \in FilledIn
               PROVE  LET score == Completion(row[u]) IN
                      /\ score.complete => /\ HolderOf(row[u]["username"]) = {u}
                                           /\ u \in Listed(TRUE, NoValue, NoValue)
                                           /\ View(u)["profile_picture_url"] \in objects
                      /\ score.percent = 100 => score.complete
                      /\ score.complete => score.percent >= 58
  BY DEF ScoresAgree
<1> DEFINE r == row[u]
           passed == {k \in Checks : Filled(r, k)}
           n == Cardinality(passed)
           complete == \A f \in RequiredFields : {f} \in passed
           percent == (200 * n + 12) \div 24
<1>2. Completion(r).complete = complete /\ Completion(r).percent = percent
  BY TwelveChecks DEF Completion
<1>3. passed \in SUBSET Checks /\ n \in Nat /\ n <= 12 /\ (n = 12 => passed = Checks)
  <2>1. passed \in SUBSET Checks
    OBVIOUS
  <2> HIDE DEF passed
  <2> QED  BY <2>1, TwelveChecks, FS_Subset, FS_CardinalityType
<1>4. complete => n >= 7
  <2>1. passed \in SUBSET Checks
    OBVIOUS
  <2> HIDE DEF passed
  <2> QED  BY <2>1, TwelveChecks
<1>5. percent = 100 => complete
  <2>1. \A f \in RequiredFields : {f} \in Checks
    BY DEF Checks
  <2>2. percent = 100 => n = 12
    <3> HIDE DEF n
    <3> QED  BY <1>3
  <2> HIDE DEF percent
  <2>3. n = 12 => complete
    <3> HIDE DEF n
    <3>1. n = 12 => passed = Checks
      BY <1>3
    <3> HIDE DEF passed
    <3> QED  BY <2>1, <3>1
  <2> QED  BY <2>2, <2>3
<1>6. n >= 7 => percent >= 58
  <2> HIDE DEF n
  <2> QED  BY <1>3
<1>7. ASSUME complete
      PROVE  /\ HolderOf(r["username"]) = {u}
             /\ u \in Listed(TRUE, NoValue, NoValue)
             /\ View(u)["profile_picture_url"] \in objects
  <2>1. \A f \in RequiredFields : r[f] # NoValue
    BY <1>7 DEF Filled
  <2>2. r["username"] # NoValue /\ r["profile_picture_url"] # NoValue
    BY <2>1 DEF RequiredFields
  <2>3. u \in Listed(TRUE, NoValue, NoValue)
    BY <2>2 DEF Listed
  <2>4. View(u)["profile_picture_url"] = r["profile_picture_url"]
    BY DEF View, PublicFields
  <2>5. r["profile_picture_url"] \in objects
    BY <2>2 DEF ProfilesInv, PicturesOK, PicturesExist
  <2> QED  BY <2>2, <2>3, <2>4, <2>5, NameHolder
<1> HIDE DEF complete, percent, n
<1>8. /\ Completion(r).percent = 100 => Completion(r).complete
      /\ Completion(r).complete => Completion(r).percent >= 58
  BY <1>2, <1>4, <1>5, <1>6
<1> QED  BY <1>2, <1>7, <1>8

\* The statistics take the largest of the four tables.
LEMMA StatisticsHold == StatisticsAreSound
<1>1. SUFFICES ASSUME NEW tables \in SomeTables
               PROVE  LET s == Statistics(tables) IN
                      /\ s.streak <= s.longest
                      /\ s.active = 0 <=> \A t \in StudyTables : tables[t] = NoValue
                      /\ \A t \in StudyTables : tables[t] # NoValue => s.active >= tables[t].active
  BY DEF StatisticsAreSound
<1> DEFINE rows == [t \in StudyTables |-> IF tables[t] = NoValue THEN Zeros ELSE tables[t]]
           streaks == {rows[t].streak : t \in StudyTables}
           longests == {rows[t].longest : t \in StudyTables}
           actives == {rows[t].active : t \in StudyTables}
<1>2. /\ Statistics(tables).streak = Max(streaks)
      /\ Statistics(tables).longest = Max(longests)
      /\ Statistics(tables).active = Max(actives)
  BY DEF Statistics
<1>3. \A t \in StudyTables :
         /\ rows[t].streak \in 0 .. 2 /\ rows[t].longest \in 0 .. 3 /\ rows[t].active \in 0 .. 2
         /\ rows[t].streak <= rows[t].longest
         /\ tables[t] = NoValue => rows[t].active = 0
         /\ tables[t] # NoValue => rows[t] = tables[t] /\ rows[t].active >= 1
  <2>1. ASSUME NEW t \in StudyTables
        PROVE  /\ rows[t].streak \in 0 .. 2 /\ rows[t].longest \in 0 .. 3 /\ rows[t].active \in 0 .. 2
               /\ rows[t].streak <= rows[t].longest
               /\ tables[t] = NoValue => rows[t].active = 0
               /\ tables[t] # NoValue => rows[t] = tables[t] /\ rows[t].active >= 1
    <3>1. rows[t] = IF tables[t] = NoValue THEN Zeros ELSE tables[t]
      OBVIOUS
    <3> HIDE DEF rows
    <3>2. CASE tables[t] = NoValue
      BY <3>1, <3>2 DEF Zeros
    <3>3. CASE tables[t] # NoValue
      <4>1. PICK n \in 1 .. 2 :
               tables[t] = [Zeros EXCEPT !.done = n, !.streak = n, !.longest = n + 1,
                                         !.time = 10 * n, !.active = n]
        BY <3>3 DEF SomeTables
      <4>2. tables[t].streak = n /\ tables[t].longest = n + 1 /\ tables[t].active = n
        BY <4>1 DEF Zeros
      <4> QED  BY <3>1, <3>3, <4>2
    <3> QED  BY <3>2, <3>3
  <2> QED  BY <2>1
<1> HIDE DEF rows
<1>4. StudyTables # {}
  BY DEF StudyTables
<1>5. /\ streaks \in SUBSET Nat /\ streaks # {} /\ \A n \in streaks : n <= 3
      /\ longests \in SUBSET Nat /\ longests # {} /\ \A n \in longests : n <= 3
      /\ actives \in SUBSET Nat /\ actives # {} /\ \A n \in actives : n <= 3
  BY <1>3, <1>4
<1>6. /\ Max(streaks) \in streaks /\ \A n \in streaks : n <= Max(streaks)
      /\ Max(longests) \in longests /\ \A n \in longests : n <= Max(longests)
      /\ Max(actives) \in actives /\ \A n \in actives : n <= Max(actives)
  <2> HIDE DEF streaks, longests, actives
  <2> QED  BY <1>5, Maximum
<1> DEFINE streak == Max(streaks)
           longest == Max(longests)
           active == Max(actives)
<1> HIDE DEF streak, longest, active
<1>7. /\ \E t \in StudyTables : streak = rows[t].streak
      /\ \E t \in StudyTables : active = rows[t].active
      /\ \A t \in StudyTables : rows[t].longest <= longest /\ rows[t].active <= active
      /\ longest \in Nat /\ active \in Nat
  <2>1. streak \in streaks /\ longest \in longests /\ active \in actives
        /\ (\A n \in longests : n <= longest) /\ (\A n \in actives : n <= active)
    BY <1>6 DEF streak, longest, active
  <2> QED  BY <1>3, <2>1
<1>8. streak <= longest
  BY <1>3, <1>7
<1>9. active = 0 <=> \A t \in StudyTables : tables[t] = NoValue
  BY <1>3, <1>7
<1>10. \A t \in StudyTables : tables[t] # NoValue => active >= tables[t].active
  BY <1>3, <1>7
<1> QED  BY <1>2, <1>8, <1>9, <1>10 DEF streak, longest, active

\* A profile's own statistics are those the administrators are shown.
LEMMA TablesHold == TablesAgree
BY DEF TablesAgree, BatchProfiles, OwnStatistics, AdminDetail, MayAct, FilledIn, HasProfile

\* What strangers see of the profiles is consistent: each name has one page, each search
\* shows every match once, a complete profile shows a picture, and the statistics agree
\* (PublicProfileService, list_profiles, compute_profile_completion).
THEOREM PublicPagesTrue == ProfilesSpec => []PublicPagesAreSound
<1>1. ProfilesInv /\ BirthsOK => SearchesPartition /\ ScoresAgree /\ StatisticsAreSound /\ TablesAgree
  BY SearchesHold, ScoresHold, StatisticsHold, TablesHold
<1>2. NamesAreUnique /\ PagesLeadHome /\ ProfilesInv /\ BirthsOK => PublicPagesAreSound
  BY <1>1 DEF PublicPagesAreSound
<1> QED  BY <1>2, AlwaysOrdered, NamesLeadHome, PTL

-------------------------------------------------------------------------------
(* UsageAnalytics: the table *)

\* A table has finitely many rows, in the order of a sequence.
LEMMA TableRows ==
  ASSUME AnalyticsTypeOK
  PROVE  /\ IsFiniteSet(All) /\ All = 1 .. Len(ledger) /\ Len(ledger) \in Nat
         /\ now \in Nat
         /\ \A i \in All : ledger[i] \in UsageRecord /\ ledger[i].at <= now
         /\ \A i \in All : ledger[i].at \in Nat
<1>1. All = 1 .. Len(ledger) /\ Len(ledger) \in Nat
  BY DEF AnalyticsTypeOK, All
<1>2. IsFiniteSet(All)
  BY <1>1, FS_Interval
<1>3. now \in Nat
  BY AnalyticsAssumption DEF AnalyticsTypeOK
<1>4. \A i \in All : ledger[i] \in UsageRecord /\ ledger[i].at <= now
  BY <1>1 DEF AnalyticsTypeOK
<1>5. \A i \in All : ledger[i].at \in Nat
  BY <1>4 DEF UsageRecord
<1> QED  BY <1>1, <1>2, <1>3, <1>4, <1>5

LEMMA RecordUpdates ==
  ASSUME NEW U, NEW M, NEW t \in Nat, NEW n \in Nat,
         NEW r \in [user : U, feature : STRING, model : M, provider : M, session : M,
                    requests : Nat \ {0}, prompt : Nat, completion : Nat, tokens : Nat,
                    cost : Nat, time : Nat, success : BOOLEAN, at : Nat]
  PROVE  /\ [r EXCEPT !.tokens = t, !.at = n] \in
                [user : U, feature : STRING, model : M, provider : M, session : M,
                 requests : Nat \ {0}, prompt : Nat, completion : Nat, tokens : Nat,
                 cost : Nat, time : Nat, success : BOOLEAN, at : Nat]
         /\ [r EXCEPT !.tokens = t, !.at = n].at = n
OBVIOUS

LEMMA RecordKeepsTypes ==
  ASSUME AnalyticsTypeOK, NEW r \in Requests, RecordUsage(r)
  PROVE  AnalyticsTypeOK'
<1> DEFINE new == [r EXCEPT !.tokens = IF @ # 0 THEN @ ELSE r.prompt + r.completion, !.at = now]
<1>1. r \in UsageRecord
  BY RequestsAssumption
<1>2. now \in Nat /\ now' = now
  BY TableRows DEF RecordUsage
<1>3. new \in UsageRecord /\ new.at = now
  <2> DEFINE t == IF r.tokens # 0 THEN r.tokens ELSE r.prompt + r.completion
  <2>1. t \in Nat
    BY <1>1 DEF UsageRecord
  <2>2. new = [r EXCEPT !.tokens = t, !.at = now]
    OBVIOUS
  <2> HIDE DEF t, new
  <2> QED  BY <1>1, <1>2, <2>1, <2>2, RecordUpdates DEF UsageRecord
<1>4. ledger' = Append(ledger, new) /\ Len(ledger) < MaxRecords
  BY DEF RecordUsage
<1> HIDE DEF new
<1>5. ledger' \in Seq(UsageRecord) /\ Len(ledger') = Len(ledger) + 1
      /\ \A i \in 1 .. Len(ledger') : ledger'[i] = IF i = Len(ledger) + 1 THEN new ELSE ledger[i]
  BY <1>3, <1>4 DEF AnalyticsTypeOK
<1>6. \A i \in 1 .. Len(ledger') : ledger'[i].at <= now'
  BY <1>2, <1>3, <1>5, TableRows
<1>7. All' = 1 .. Len(ledger')
  BY <1>5 DEF All
<1>8. Len(ledger') <= MaxRecords
  BY <1>4, <1>5, TableRows, AnalyticsAssumption
<1> QED  BY <1>2, <1>5, <1>6, <1>7, <1>8 DEF AnalyticsTypeOK

LEMMA DeletionKeepsTypes ==
  ASSUME AnalyticsTypeOK, NEW u, DeleteRecordsOf(u)
  PROVE  AnalyticsTypeOK'
<1> DEFINE S == {i \in DOMAIN ledger : ledger[i].user # u}
           kept == Ascending(S)
<1>1. S \in SUBSET All /\ S \in SUBSET Nat /\ IsFiniteSet(S) /\ Cardinality(S) <= Len(ledger)
      /\ Cardinality(S) \in Nat
  <2>1. S \in SUBSET All /\ S \in SUBSET Nat
    BY TableRows DEF All
  <2>2. IsFiniteSet(S) /\ Cardinality(S) <= Cardinality(All)
    BY <2>1, TableRows, FS_Subset
  <2>3. Cardinality(All) = Len(ledger)
    <3>1. 1 \in Int /\ Len(ledger) \in Int /\ Len(ledger) >= 0 /\ All = 1 .. Len(ledger)
      BY TableRows
    <3> QED  BY <3>1, FS_Interval
  <2> QED  BY <2>1, <2>2, <2>3, FS_CardinalityType
<1>2. ledger' = [i \in DOMAIN kept |-> ledger[kept[i]]] /\ now' = now
  BY DEF DeleteRecordsOf
<1> HIDE DEF S
<1>3. kept \in Seq(S) /\ Len(kept) = Cardinality(S)
  BY <1>1, NumbersInOrder
<1> HIDE DEF kept
<1>4. DOMAIN kept = 1 .. Cardinality(S) /\ \A i \in 1 .. Cardinality(S) : kept[i] \in All
  <2>1. kept \in Seq(S)
    BY <1>3
  <2>2. DOMAIN kept = 1 .. Len(kept) /\ \A i \in 1 .. Len(kept) : kept[i] \in S
    BY <2>1
  <2> QED  BY <1>1, <1>3, <2>2
<1>5. ledger' \in Seq(UsageRecord) /\ Len(ledger') = Cardinality(S)
  <2>1. ledger' \in [1 .. Cardinality(S) -> UsageRecord]
    BY <1>2, <1>4, TableRows
  <2> QED  BY <1>1, <2>1
<1>6. \A i \in 1 .. Cardinality(S) : ledger'[i].at <= now'
  BY <1>2, <1>4, TableRows
<1>7. All' = 1 .. Cardinality(S)
  BY <1>5 DEF All
<1>8. Len(ledger') <= MaxRecords
  BY <1>1, <1>5, TableRows, AnalyticsAssumption DEF AnalyticsTypeOK
<1> QED  BY <1>2, <1>5, <1>6, <1>7, <1>8 DEF AnalyticsTypeOK

\* The table holds records of known users, in time, none of them from the future.
THEOREM UsageTypes == AnalyticsSpec => []AnalyticsTypeOK
<1>1. AnalyticsInit => AnalyticsTypeOK
  <2>1. SUFFICES ASSUME AnalyticsInit PROVE AnalyticsTypeOK
    OBVIOUS
  <2>2. ledger = <<>> /\ now = 0 /\ All = {}
    <3>1. ledger = <<>> /\ now = 0
      BY <2>1 DEF AnalyticsInit
    <3>2. <<>> \in Seq(UsageRecord) /\ Len(<<>>) = 0
      OBVIOUS
    <3>3. DOMAIN ledger = 1 .. Len(ledger)
      BY <3>1, <3>2
    <3> QED  BY <3>1, <3>2, <3>3 DEF All
  <2> QED  BY <2>2, AnalyticsAssumption DEF AnalyticsTypeOK
<1>2. AnalyticsTypeOK /\ [AnalyticsNext]_analyticsVars => AnalyticsTypeOK'
  <2>1. SUFFICES ASSUME AnalyticsTypeOK, [AnalyticsNext]_analyticsVars PROVE AnalyticsTypeOK'
    OBVIOUS
  <2>2. ASSUME NEW r \in Requests, RecordUsage(r)
        PROVE  AnalyticsTypeOK'
    BY <2>1, <2>2, RecordKeepsTypes
  <2>3. ASSUME NEW a \in Accounts, DeleteRecordsOf(a.user)
        PROVE  AnalyticsTypeOK'
    BY <2>1, <2>3, DeletionKeepsTypes
  <2>4. CASE HalfDayPasses
    <3>1. now' \in 0 .. MaxTime /\ now' = now + 1 /\ ledger' = ledger /\ All' = All
      BY <2>1, <2>4, AnalyticsAssumption DEF HalfDayPasses, AnalyticsTypeOK, All
    <3>2. \A i \in All : ledger[i].at <= now'
      BY <2>1, <3>1, TableRows
    <3> QED  BY <2>1, <3>1, <3>2 DEF AnalyticsTypeOK
  <2>5. CASE UNCHANGED analyticsVars
    BY <2>1, <2>5 DEF analyticsVars, AnalyticsTypeOK, All
  <2> QED  BY <2>1, <2>2, <2>3, <2>4, <2>5 DEF AnalyticsNext
<1> QED  BY <1>1, <1>2, PTL DEF AnalyticsSpec

-------------------------------------------------------------------------------
(* UsageAnalytics: columns and windows *)

Numbers == {"requests", "prompt", "completion", "tokens", "cost", "time"}

\* A sum over rows is a number, and larger over more rows.
LEMMA ColumnSums ==
  ASSUME AnalyticsTypeOK, NEW column \in Numbers, NEW rows \in SUBSET All
  PROVE  /\ Summable([i \in All |-> ledger[i][column]], rows)
         /\ IsFiniteSet(rows)
         /\ Sum(column, rows) \in Nat
         /\ \A some \in SUBSET rows : /\ Sum(column, some) \in Nat
                                      /\ Sum(column, some) <= Sum(column, rows)
<1> DEFINE f == [i \in All |-> ledger[i][column]]
<1>1. \A i \in All : f[i] \in Nat
  BY TableRows DEF Numbers, UsageRecord
<1>2. Summable(f, rows) /\ IsFiniteSet(rows)
  BY <1>1, TableRows, FS_Subset DEF Summable
<1>3. Sum(column, rows) = SumFunctionOnSet(f, rows)
  BY DEF Sum
<1>4. ASSUME NEW some \in SUBSET rows
      PROVE  Sum(column, some) \in Nat /\ Sum(column, some) <= Sum(column, rows)
  <2>1. Sum(column, some) = SumFunctionOnSet(f, some)
    BY DEF Sum
  <2> HIDE DEF f
  <2>2. \A A \in SUBSET rows : /\ SumFunctionOnSet(f, A) \in Nat
                              /\ SumFunctionOnSet(f, A) <= SumFunctionOnSet(f, rows)
    BY <1>2, SumOfPart
  <2> QED  BY <1>3, <2>1, <2>2
<1> HIDE DEF f
<1>5. Sum(column, rows) \in Nat
  BY <1>2, <1>3, SumType
<1> QED  BY <1>2, <1>4, <1>5 DEF f

\* The windows are nested, and a longer one has more.
LEMMA Windows ==
  ASSUME AnalyticsTypeOK, NEW column \in Numbers
  PROVE  /\ StartOfDay \in Int /\ StartOfDay <= now /\ now <= StartOfDay + 1
         /\ Today = StartOfDay
         /\ \A t \in Int : Since(t) \in SUBSET All
         /\ \A t, s \in Int : s <= t => Sum(column, Since(t)) <= Sum(column, Since(s))
         /\ Since(Always) = All
<1>1. StartOfDay \in Int /\ StartOfDay <= now /\ now <= StartOfDay + 1 /\ Today = StartOfDay
  BY TableRows DEF StartOfDay, Today
<1>2. \A t : Since(t) \in SUBSET All
  BY DEF Since, All
<1>3. ASSUME NEW t \in Int, NEW s \in Int, s <= t
      PROVE  Sum(column, Since(t)) <= Sum(column, Since(s))
  <2>1. Since(t) \in SUBSET Since(s)
    BY <1>3, TableRows DEF Since, All
  <2> QED  BY <1>2, <2>1, ColumnSums
<1>4. Since(Always) = All
  BY TableRows, AnalyticsAssumption DEF Since, All, Always
<1> QED  BY <1>1, <1>2, <1>3, <1>4

-------------------------------------------------------------------------------
(* UsageAnalytics: breakdowns *)

\* The sums that a breakdown gives.
Shown == {"requests", "tokens", "cost"}

\* The rows of a breakdown, and the records that are in it.
RowsOf(rowOf, keys) == {rowOf[v] : v \in keys}
Under(key, keys) == {i \in All : ledger[i][key] \in keys}

\* The rows of a breakdown, each with the sums of the records of its kind, add up
\* to the sum of all these records.
LEMMA BreakdownAdds ==
  ASSUME AnalyticsTypeOK, NEW column \in Shown, NEW rows \in SUBSET All,
         NEW breakdown, IsFiniteSet(breakdown), NEW kind \in [rows -> breakdown],
         \A r \in breakdown : r[column] = Sum(column, Group(kind, rows, r))
  PROVE  Added(column, breakdown) = Sum(column, rows)
<1> DEFINE f == [i \in All |-> ledger[i][column]]
           g == [r \in breakdown |-> r[column]]
<1>1. Summable(f, rows)
  BY ColumnSums DEF Shown, Numbers
<1>2. \A r \in breakdown : g[r] = SumFunctionOnSet(f, Group(kind, rows, r))
  BY DEF Sum
<1>3. Added(column, breakdown) = SumFunctionOnSet(g, breakdown)
  BY DEF Added, SumFunction
<1>4. Sum(column, rows) = SumFunctionOnSet(f, rows)
  BY DEF Sum
<1> HIDE DEF f, g
<1> QED  BY <1>1, <1>2, <1>3, <1>4, SumOfGroups

LEMMA ValuesAreFinite ==
  ASSUME AnalyticsTypeOK, NEW column, NEW rows \in SUBSET All
  PROVE  IsFiniteSet(Values(column, rows))
<1> DEFINE f == [i \in rows |-> ledger[i][column]]
           V == {f[i] : i \in rows}
<1>1. IsFiniteSet(rows)
  BY TableRows, FS_Subset
<1>2. IsFiniteSet(V)
  <2>1. DOMAIN f = rows /\ f = [i \in rows |-> f[i]]
    OBVIOUS
  <2> HIDE DEF f
  <2> QED  BY <1>1, <2>1, Images
<1>3. Values(column, rows) \in SUBSET V
  BY DEF Values
<1> HIDE DEF V
<1> QED  BY <1>2, <1>3, FS_Subset

LEMMA KnownAreFinite == IsFiniteSet(KnownFeatures)
<1>1. \A S, x : IsFiniteSet(S) => IsFiniteSet(S \cup {x})
  BY FS_AddElement
<1> DEFINE some == {} \cup {"leetcode"} \cup {"hackerrank"} \cup {"course_generator"}
           all == some \cup {"dsa_pattern"} \cup {"dsa"} \cup {"interview"}
<1>2. IsFiniteSet(some)
  BY <1>1, FS_EmptySet, Zenon
<1>3. IsFiniteSet(all)
  <2> HIDE DEF some
  <2> QED  BY <1>1, <1>2, Zenon
<1>4. all = KnownFeatures
  BY DEF KnownFeatures
<1> HIDE DEF all
<1> QED  BY <1>3, <1>4

\* A breakdown by the values of a column has a row of its own for each of them.
LEMMA ValuesAdd ==
  ASSUME AnalyticsTypeOK, NEW column \in Shown, NEW key, NEW keys, IsFiniteSet(keys),
         NEW rowOf, DOMAIN rowOf = keys, rowOf = [v \in keys |-> rowOf[v]],
         \A v, w \in keys : rowOf[v] = rowOf[w] => v = w,
         \A v \in keys : rowOf[v][column] = Sum(column, With(key, v, All))
  PROVE  Added(column, RowsOf(rowOf, keys)) = Sum(column, Under(key, keys))
<1> DEFINE breakdown == RowsOf(rowOf, keys)
           rows == Under(key, keys)
           kind == [i \in rows |-> rowOf[ledger[i][key]]]
<1>1. ASSUME NEW v \in keys
      PROVE  Group(kind, rows, rowOf[v]) = With(key, v, All)
  <2>1. \A i \in rows : kind[i] = rowOf[v] <=> ledger[i][key] = v
    BY DEF Under
  <2>2. \A i \in All : ledger[i][key] = v => i \in rows
    BY DEF Under
  <2>3. rows \subseteq All
    BY DEF Under
  <2> HIDE DEF kind, rows
  <2> QED  BY <2>1, <2>2, <2>3 DEF With, Group
<1>2. ASSUME NEW v \in keys
      PROVE  rowOf[v][column] = Sum(column, Group(kind, rows, rowOf[v]))
  <2>1. rowOf[v][column] = Sum(column, With(key, v, All))
    OBVIOUS
  <2> HIDE DEF kind, rows
  <2> QED  BY <1>1, <2>1, Zenon
<1>3. IsFiniteSet(breakdown)
  BY Images DEF RowsOf
<1>4. kind \in [rows -> breakdown] /\ rows \in SUBSET All
  BY DEF RowsOf, Under
<1>5. \A r \in breakdown : r[column] = Sum(column, Group(kind, rows, r))
  <2>1. ASSUME NEW r \in breakdown
        PROVE  r[column] = Sum(column, Group(kind, rows, r))
    <3>1. PICK v \in keys : r = rowOf[v]
      BY DEF RowsOf
    <3> HIDE DEF kind, rows, breakdown
    <3>2. rowOf[v][column] = Sum(column, Group(kind, rows, rowOf[v]))
      BY <1>2
    <3> QED  BY <3>1, <3>2
  <2> QED  BY <2>1
<1> HIDE DEF breakdown, kind, rows
<1>6. Added(column, breakdown) = Sum(column, rows)
  BY <1>3, <1>4, <1>5, BreakdownAdds
<1> QED  BY <1>6 DEF breakdown, rows

\* Every record has a feature and a user.
AllNamed == \A i \in All : None \notin {ledger[i].feature, ledger[i].user}

LEMMA FeaturesAdd ==
  ASSUME AnalyticsTypeOK, AllNamed, NEW column \in Shown, NEW features, IsFiniteSet(features),
         Values("feature", All) \subseteq features
  PROVE  Added(column, {FeatureRow(f, All) : f \in features}) = Sum(column, All)
<1> DEFINE rowOf == [f \in features |-> FeatureRow(f, All)]
<1>1. \A f \in features : rowOf[f].feature = f /\ rowOf[f][column] = Sum(column, With("feature", f, All))
  BY DEF FeatureRow, Shown
<1>2. DOMAIN rowOf = features /\ rowOf = [f \in features |-> rowOf[f]]
  OBVIOUS
<1>3. RowsOf(rowOf, features) = {FeatureRow(f, All) : f \in features}
  BY DEF RowsOf
<1> HIDE DEF rowOf
<1>4. Added(column, RowsOf(rowOf, features))
        = Sum(column, Under("feature", features))
  BY <1>1, <1>2, ValuesAdd
<1>5. Under("feature", features) = All
  BY DEF Values, AllNamed, Under
<1> QED  BY <1>3, <1>4, <1>5, Zenon

LEMMA UsersAdd ==
  ASSUME AnalyticsTypeOK, AllNamed, NEW column \in Shown
  PROVE  Added(column, {UserRow(u) : u \in Values("user", All)}) = Sum(column, All)
<1> DEFINE users == Values("user", All)
           rowOf == [u \in users |-> UserRow(u)]
<1>1. \A u \in users : rowOf[u].user = u /\ rowOf[u][column] = Sum(column, With("user", u, All))
  BY DEF UserRow, OfUser, With, Shown
<1>2. DOMAIN rowOf = users /\ rowOf = [u \in users |-> rowOf[u]] /\ IsFiniteSet(users)
  BY ValuesAreFinite
<1>3. RowsOf(rowOf, users) = {UserRow(u) : u \in users}
  BY DEF RowsOf
<1> HIDE DEF rowOf
<1>4. Added(column, RowsOf(rowOf, users)) = Sum(column, Under("user", users))
  <2> HIDE DEF users
  <2> QED  BY <1>1, <1>2, ValuesAdd
<1>5. Under("user", users) = All
  BY DEF Values, AllNamed, Under
<1> QED  BY <1>3, <1>4, <1>5, Zenon

\* Without the records that have no value of the column.
LEMMA OthersAdd ==
  ASSUME AnalyticsTypeOK, NEW column \in Shown, NEW key
  PROVE  Sum(column, Under(key, Values(key, All)))
            + Sum(column, With(key, None, All)) = Sum(column, All)
<1> DEFINE f == [i \in All |-> ledger[i][column]]
           none == With(key, None, All)
           others == Under(key, Values(key, All))
<1>1. Summable(f, All)
  BY ColumnSums DEF Shown, Numbers
<1>2. none \in SUBSET All /\ All \ none = others
  BY DEF With, Values, Under
<1>3. Sum(column, All) = SumFunctionOnSet(f, All) /\ Sum(column, none) = SumFunctionOnSet(f, none)
      /\ Sum(column, others) = SumFunctionOnSet(f, others)
  BY DEF Sum
<1> HIDE DEF f, none, others
<1>4. SumFunctionOnSet(f, All) = SumFunctionOnSet(f, none) + SumFunctionOnSet(f, All \ none)
      /\ SumFunctionOnSet(f, none) \in Nat /\ SumFunctionOnSet(f, All \ none) \in Nat
  BY <1>1, <1>2, SumOfPart
<1>5. SumFunctionOnSet(f, All \ none) = SumFunctionOnSet(f, others)
  BY <1>2, Zenon
<1>6. Sum(column, others) + Sum(column, none) = Sum(column, All)
  BY <1>3, <1>4, <1>5
<1> QED  BY <1>6 DEF none, others

LEMMA ModelsAdd ==
  ASSUME AnalyticsTypeOK, NEW column \in Shown
  PROVE  Added(column, ModelBreakdown(All)) + Sum(column, With("model", None, All))
            = Sum(column, All)
<1> DEFINE models == Values("model", All)
           rowOf == [m \in models |-> ModelRow(m, All)]
<1>1. \A m \in models : rowOf[m].model = m /\ rowOf[m][column] = Sum(column, With("model", m, All))
  BY DEF ModelRow, Shown
<1>2. DOMAIN rowOf = models /\ rowOf = [m \in models |-> rowOf[m]] /\ IsFiniteSet(models)
  BY ValuesAreFinite
<1>3. RowsOf(rowOf, models) = ModelBreakdown(All)
  BY DEF ModelBreakdown, RowsOf
<1> HIDE DEF rowOf
<1>4. Added(column, RowsOf(rowOf, models)) = Sum(column, Under("model", models))
  <2> HIDE DEF models
  <2> QED  BY <1>1, <1>2, ValuesAdd
<1>5. Added(column, ModelBreakdown(All)) = Added(column, RowsOf(rowOf, models))
  BY <1>3, Zenon
<1> QED  BY <1>4, <1>5, OthersAdd

LEMMA ProvidersAdd ==
  ASSUME AnalyticsTypeOK, NEW column \in Shown
  PROVE  Added(column, ProviderBreakdown(All)) + Sum(column, With("provider", None, All))
            = Sum(column, All)
<1> DEFINE providers == Values("provider", All)
           rowOf == [p \in providers |->
                     [provider |-> p, requests |-> Sum("requests", With("provider", p, All)),
                      tokens |-> Sum("tokens", With("provider", p, All)),
                      cost |-> Sum("cost", With("provider", p, All))]]
<1>1. \A p \in providers : rowOf[p].provider = p
                            /\ rowOf[p][column] = Sum(column, With("provider", p, All))
  BY DEF Shown
<1>2. DOMAIN rowOf = providers /\ rowOf = [p \in providers |-> rowOf[p]] /\ IsFiniteSet(providers)
  BY ValuesAreFinite
<1>3. RowsOf(rowOf, providers) = ProviderBreakdown(All)
  BY DEF ProviderBreakdown, RowsOf
<1> HIDE DEF rowOf
<1>4. Added(column, RowsOf(rowOf, providers))
        = Sum(column, Under("provider", providers))
  <2> HIDE DEF providers
  <2> QED  BY <1>1, <1>2, ValuesAdd
<1>5. Added(column, ProviderBreakdown(All)) = Added(column, RowsOf(rowOf, providers))
  BY <1>3, Zenon
<1> QED  BY <1>4, <1>5, OthersAdd

LEMMA AdminCostAdds ==
  ASSUME AnalyticsTypeOK
  PROVE  AdminUsage.cost + Sum("cost", With("model", None, All)) = Sum("cost", All)
<1> DEFINE models == Values("model", All)
           others == Under("model", models)
           f == [i \in All |-> ledger[i]["cost"]]
           g == [m \in models |-> ModelRow(m, All).cost]
           kind == [i \in others |-> ledger[i]["model"]]
<1>1. AdminUsage.cost = SumFunctionOnSet(g, models)
  BY DEF AdminUsage, SumFunction
<1>2. Sum("cost", others) = SumFunctionOnSet(f, others)
  BY DEF Sum
<1>3. ASSUME NEW m \in models
      PROVE  g[m] = SumFunctionOnSet(f, Group(kind, others, m))
  <2>1. With("model", m, All) = Group(kind, others, m)
    BY DEF With, Group, Under
  <2>2. g[m] = SumFunctionOnSet(f, With("model", m, All))
    BY DEF ModelRow, Sum
  <2> HIDE DEF g, f, others, kind
  <2> QED  BY <2>1, <2>2, Zenon
<1>4. Summable(f, others) /\ IsFiniteSet(models) /\ kind \in [others -> models]
  <2>1. others \in SUBSET All /\ kind \in [others -> models]
    BY DEF Under
  <2> HIDE DEF kind, others
  <2> QED  BY <2>1, ColumnSums, ValuesAreFinite DEF Numbers
<1> HIDE DEF f, g, others, kind, models
<1>5. SumFunctionOnSet(g, models) = SumFunctionOnSet(f, others)
  BY <1>3, <1>4, SumOfGroups
<1>6. Sum("cost", others) + Sum("cost", With("model", None, All)) = Sum("cost", All)
  BY OthersAdd DEF Shown, others, models
<1> QED  BY <1>1, <1>2, <1>5, <1>6

\* The rows of a breakdown add up to the totals.
LEMMA BreakdownsHold ==
  ASSUME AnalyticsTypeOK, AllNamed
  PROVE  BreakdownsAddUp
<1> DEFINE total == WindowTotals(Always)
<1>1. \A c \in Shown : total[c] = Sum(c, All)
  BY Windows DEF WindowTotals, Shown, Numbers
<1>2. \A c \in Shown :
         /\ Added(c, FeatureBreakdown(All)) = Sum(c, All)
         /\ Added(c, FeatureAnalytics) = Sum(c, All)
         /\ Added(c, {UserRow(u) : u \in Values("user", All)}) = Sum(c, All)
  <2>1. IsFiniteSet(Values("feature", All)) /\ IsFiniteSet(KnownFeatures \cup Values("feature", All))
    BY ValuesAreFinite, KnownAreFinite, FS_Union
  <2> QED  BY <2>1, FeaturesAdd, UsersAdd DEF FeatureBreakdown, FeatureAnalytics
<1> HIDE DEF total
<1>3. \A c \in Shown :
         /\ Added(c, FeatureBreakdown(All)) = total[c]
         /\ Added(c, FeatureAnalytics) = total[c]
         /\ Added(c, {UserRow(u) : u \in Values("user", All)}) = total[c]
         /\ Added(c, ModelBreakdown(All)) + Sum(c, With("model", None, All)) = total[c]
         /\ Added(c, ProviderBreakdown(All)) + Sum(c, With("provider", None, All)) = total[c]
  BY <1>1, <1>2, ModelsAdd, ProvidersAdd
<1>4. AdminUsage.cost + Sum("cost", With("model", None, All)) = total.cost
  BY <1>1, AdminCostAdds DEF Shown
<1> QED  BY <1>3, <1>4 DEF BreakdownsAddUp, Shown, total
-------------------------------------------------------------------------------
(* UsageAnalytics: charts and windows *)

\* The points of a chart add up to the records since its first day.
LEMMA SeriesAdds ==
  ASSUME AnalyticsTypeOK, NEW days \in Nat \ {0}, NEW column \in Numbers
  PROVE  Total(DailySeries(days, column), days)
            = Sum(column, Since(StartOfDay - 2 * (days - 1)))
<1> DEFINE start == StartOfDay - 2 * (days - 1)
           points == 0 .. days - 1
           S == Since(start)
           f == [i \in All |-> ledger[i][column]]
           g == DailySeries(days, column)
           day == [i \in S |-> (ledger[i].at - start) \div 2]
<1>1. StartOfDay \in Int /\ now <= StartOfDay + 1 /\ start \in Int /\ S \in SUBSET All
  BY Windows
<1>2. ASSUME NEW i \in S
      PROVE  /\ day[i] \in points
             /\ \A d \in points : day[i] = d <=> ledger[i].at \in start + 2 * d .. start + 2 * d + 1
  <2>1. ledger[i].at \in Nat /\ ledger[i].at >= start /\ ledger[i].at <= now /\ now \in Nat
    BY <1>1, TableRows DEF Since
  <2>2. day[i] = (ledger[i].at - start) \div 2
    OBVIOUS
  <2> HIDE DEF day
  <2>3. PICK n \in Nat : n = ledger[i].at - start
    BY <1>1, <2>1
  <2>4. n <= 2 * (days - 1) + 1
    BY <1>1, <2>1, <2>3
  <2> HIDE DEF start
  <2> QED  BY <1>1, <2>1, <2>2, <2>3, <2>4
<1>3. \A d \in points : g[d] = SumFunctionOnSet(f, Group(day, S, d))
  <2>1. ASSUME NEW d \in points
        PROVE  {i \in S : ledger[i].at \in start + 2 * d .. start + 2 * d + 1} = Group(day, S, d)
    <3> HIDE DEF day, points, S, start
    <3> QED  BY <1>2 DEF Group
  <2>2. ASSUME NEW d \in points
        PROVE  g[d] = SumFunctionOnSet(f, {i \in S : ledger[i].at \in start + 2 * d .. start + 2 * d + 1})
    BY DEF DailySeries, Sum
  <2> HIDE DEF day, points, S, start, f, g
  <2>3. ASSUME NEW d \in points
        PROVE  g[d] = SumFunctionOnSet(f, Group(day, S, d))
    BY <2>1, <2>2, Zenon
  <2> QED  BY <2>3
<1>4. Summable(f, S) /\ IsFiniteSet(points) /\ day \in [S -> points]
  <2>1. day \in [S -> points]
    BY <1>2
  <2>2. 0 \in Int /\ days - 1 \in Int
    OBVIOUS
  <2> HIDE DEF S, day
  <2> QED  BY <1>1, <2>1, <2>2, ColumnSums, FS_Interval
<1>5. Total(g, days) = SumFunctionOnSet(g, points) /\ Sum(column, S) = SumFunctionOnSet(f, S)
  BY DEF Total, Sum
<1> HIDE DEF f, g, day, points, S
<1>6. SumFunctionOnSet(g, points) = SumFunctionOnSet(f, S)
  BY <1>3, <1>4, SumOfGroups
<1> QED  BY <1>5, <1>6 DEF g, S

\* The last point of a chart is today.
LEMMA LastPoint ==
  ASSUME AnalyticsTypeOK, NEW days \in Nat \ {0}, NEW column \in Numbers
  PROVE  DailySeries(days, column)[days - 1] = Sum(column, Since(Today))
<1> DEFINE start == StartOfDay - 2 * (days - 1)
           last == {i \in Since(start) : ledger[i].at \in start + 2 * (days - 1) .. start + 2 * (days - 1) + 1}
<1>1. StartOfDay \in Int /\ now <= StartOfDay + 1 /\ start \in Int /\ Today = StartOfDay
  BY Windows
<1>2. start + 2 * (days - 1) = StartOfDay /\ start <= StartOfDay
  BY <1>1
<1>3. last = Since(Today)
  <2>1. ASSUME NEW i \in All
        PROVE  i \in last <=> i \in Since(Today)
    <3>1. ledger[i].at \in Nat /\ ledger[i].at <= now /\ now \in Nat
      BY TableRows
    <3> HIDE DEF start
    <3> QED  BY <1>1, <1>2, <3>1 DEF Since, All
  <2> QED  BY <2>1 DEF Since, All
<1>4. DailySeries(days, column)[days - 1] = Sum(column, last)
  BY DEF DailySeries
<1> QED  BY <1>3, <1>4, Zenon

\* The windows of a report are nested, and its charts agree with them.
LEMMA WindowsHold ==
  ASSUME AnalyticsTypeOK
  PROVE  WindowsAddUp
<1> DEFINE chart == Charts
           of(column, t) == Sum(column, Since(t))
           first(days) == StartOfDay - 2 * (days - 1)
<1>1. WeekDays \in Nat \ {0} /\ MonthDays \in Nat \ {0} /\ WeekDays <= MonthDays /\ MaxTime \in Nat
  BY AnalyticsAssumption
<1>2. now \in Nat /\ StartOfDay \in Int /\ StartOfDay <= now /\ now <= StartOfDay + 1
      /\ Today = StartOfDay /\ DayAgo = now - 2 /\ WeekAgo = now - 2 * WeekDays
      /\ MonthAgo = now - 2 * MonthDays /\ Always = -2 * MonthDays - MaxTime
  BY TableRows, Windows DEF DayAgo, WeekAgo, MonthAgo, Always, Numbers
<1>3. /\ Today \in Int /\ DayAgo \in Int /\ WeekAgo \in Int /\ MonthAgo \in Int /\ Always \in Int
      /\ first(WeekDays) \in Int /\ first(MonthDays) \in Int
      /\ DayAgo <= Today /\ WeekAgo <= DayAgo /\ MonthAgo <= WeekAgo /\ Always <= MonthAgo
      /\ WeekAgo <= first(WeekDays) /\ MonthAgo <= first(MonthDays)
  BY <1>1, <1>2
<1>4. /\ Total(chart.weekly, WeekDays) = of("tokens", first(WeekDays))
      /\ Total(chart.costPerDay, MonthDays) = of("cost", first(MonthDays))
      /\ chart.daily[MonthDays - 1] = of("tokens", Today)
  BY <1>1, SeriesAdds, LastPoint DEF Charts, Numbers
<1>5. /\ TokenAnalytics.daily = of("tokens", Today) /\ TokenAnalytics.weekly = of("tokens", WeekAgo)
      /\ TokenAnalytics.monthly = of("tokens", MonthAgo) /\ TokenAnalytics.total = of("tokens", Always)
      /\ CostAnalytics.monthly = of("cost", MonthAgo) /\ WindowTotals(DayAgo).tokens = of("tokens", DayAgo)
  BY DEF TokenAnalytics, CostAnalytics, Windowed, WindowTotals
<1>6. \A t, s \in Int : s <= t => of("tokens", t) <= of("tokens", s) /\ of("cost", t) <= of("cost", s)
  BY Windows DEF Numbers
<1> HIDE DEF chart, of, first
<1>7. /\ Total(chart.weekly, WeekDays) <= TokenAnalytics.weekly
      /\ Total(chart.costPerDay, MonthDays) <= CostAnalytics.monthly
      /\ chart.daily[MonthDays - 1] = TokenAnalytics.daily
      /\ TokenAnalytics.daily <= WindowTotals(DayAgo).tokens
      /\ WindowTotals(DayAgo).tokens <= TokenAnalytics.weekly
      /\ TokenAnalytics.weekly <= TokenAnalytics.monthly
      /\ TokenAnalytics.monthly <= TokenAnalytics.total
  BY <1>3, <1>4, <1>5, <1>6
<1> QED  BY <1>4, <1>7 DEF WindowsAddUp, chart, of, first

\* A figure of several reports is the same in each.
LEMMA ReportsHold ==
  ASSUME AnalyticsTypeOK
  PROVE  ReportsAgree
<1>1. Sum("requests", Since(Today)) <= Sum("requests", Since(DayAgo))
  <2>1. Today \in Int /\ DayAgo \in Int /\ DayAgo <= Today
    BY TableRows, Windows DEF DayAgo, Numbers
  <2> QED  BY <2>1, Windows DEF Numbers
<1>2. Sum("requests", Since(Today)) \in Nat /\ Sum("requests", Since(DayAgo)) \in Nat
  BY ColumnSums DEF Numbers, Since, All
<1>3. /\ TokenAnalytics.total = AnalyticsDashboard.totals.tokens
      /\ TokenAnalytics.total = PlatformAnalytics.tokens
      /\ TokenAnalytics.daily = AnalyticsDashboard.today.tokens
      /\ CostAnalytics.weekly = AnalyticsDashboard.weekly.cost
      /\ PlatformAnalytics.daily >= AnalyticsDashboard.today.requests
  BY <1>1, <1>2 DEF TokenAnalytics, CostAnalytics, Windowed, AnalyticsDashboard,
     PlatformAnalytics, WindowTotals
<1>4. /\ ModelAnalytics.items = CostAnalytics.models
      /\ ProviderAnalytics.items = TokenAnalytics.providers
  BY DEF ModelAnalytics, ProviderAnalytics, CostAnalytics, TokenAnalytics, Windowed
<1>5. /\ AdminReport(Reports, "analytics") = PlatformAnalytics
      /\ AdminReport(Reports, "dashboard") = AnalyticsDashboard
      /\ AdminReport(Reports, "tokens") = TokenAnalytics
      /\ AdminReport(Reports, "costs") = CostAnalytics
      /\ AdminReport(Reports, "models") = ModelAnalytics
      /\ AdminReport(Reports, "providers") = ProviderAnalytics
  BY DEF Reports, AdminReport
<1> QED  BY <1>3, <1>4, <1>5 DEF ReportsAgree

-------------------------------------------------------------------------------
(* UsageAnalytics: pages and searches *)

\* Pages of one row.
LEMMA PageOfOne ==
  ASSUME NEW users, IsFiniteSet(users), NEW o \in SetToSeqs(users)
  PROVE  /\ \A v : v \in Page(o, 1, 1) <=> Cardinality(users) >= 1 /\ v = o[1]
         /\ \A v : v \in Page(o, 2, 1) <=> Cardinality(users) >= 2 /\ v = o[2]
<1>1. Cardinality(users) \in Nat /\ DOMAIN o = 1 .. Cardinality(users)
  BY Arrangements
<1>2. Page(o, 1, 1) = {o[i] : i \in {j \in DOMAIN o : j > 0 /\ j <= 1}}
      /\ Page(o, 2, 1) = {o[i] : i \in {j \in DOMAIN o : j > 1 /\ j <= 2}}
  BY <1>1 DEF Page
<1>3. \A j \in DOMAIN o : (j > 0 /\ j <= 1 <=> j = 1) /\ (j > 1 /\ j <= 2 <=> j = 2)
  BY <1>1
<1> QED  BY <1>1, <1>2, <1>3

\* Without a search the table is of all users, in any order by their tokens.
LEMMA WholeTable ==
  ASSUME NEW page, NEW size, NEW one \in UsersTable(None, None, None, page, size)
  PROVE  \E o \in UserOrders(None) : one.rows = Page(o, page, size)
<1> DEFINE table(o) == [rows |-> {u \in Page(o, page, size) : None = None \/ Status(u) = None},
                        total |-> Len(o)]
<1>1. UsersTable(None, None, None, page, size)
         = {table(o) : o \in UNION {UserOrders(ids) : ids \in {None}}}
  BY DEF UsersTable
<1>2. PICK o \in UserOrders(None) : one = table(o)
  BY <1>1
<1> QED  BY <1>2

LEMMA PagesHold ==
  ASSUME AnalyticsTypeOK
  PROVE  PagesPartition
<1> DEFINE users == Values("user", All)
           spent(u) == Sum("tokens", OfUser(u))
           distinct == \A u, v \in users : u # v => spent(u) # spent(v)
<1>1. SUFFICES ASSUME distinct,
                      NEW one \in UsersTable(None, None, None, 1, 1),
                      NEW two \in UsersTable(None, None, None, 2, 1)
               PROVE  /\ one.rows \cap two.rows = {}
                      /\ Cardinality(users) <= 2 => one.rows \cup two.rows = users
  BY DEF PagesPartition
<1>2. PICK p \in UserOrders(None) : one.rows = Page(p, 1, 1)
  BY WholeTable
<1>3. PICK q \in UserOrders(None) : two.rows = Page(q, 2, 1)
  BY WholeTable
<1>4. UserOrders(None) = {o \in SetToSeqs(users) :
         \A i, j \in DOMAIN o : i < j => spent(o[i]) >= spent(o[j])}
  BY DEF UserOrders
<1>5. \A u \in users : spent(u) \in Nat
  BY ColumnSums DEF OfUser, Numbers
<1>6. IsFiniteSet(users)
  BY ValuesAreFinite
<1> HIDE DEF users, spent
<1>7. /\ p \in SetToSeqs(users) /\ \A i, j \in DOMAIN p : i < j => spent(p[i]) >= spent(p[j])
      /\ q \in SetToSeqs(users) /\ \A i, j \in DOMAIN q : i < j => spent(q[i]) >= spent(q[j])
  BY <1>4
<1> DEFINE n == Cardinality(users)
<1>8. /\ n \in Nat
      /\ p \in [1 .. n -> users] /\ DOMAIN p = 1 .. n
      /\ q \in [1 .. n -> users] /\ DOMAIN q = 1 .. n
      /\ \A i, j \in 1 .. n : i # j => p[i] # p[j] /\ q[i] # q[j]
      /\ \A u \in users : \E i \in 1 .. n : p[i] = u
      /\ \A u \in users : \E i \in 1 .. n : q[i] = u
  BY <1>6, <1>7, Arrangements
<1>9. /\ \A v : v \in one.rows <=> n >= 1 /\ v = p[1]
      /\ \A v : v \in two.rows <=> n >= 2 /\ v = q[2]
  BY <1>2, <1>3, <1>6, <1>7, PageOfOne
<1> HIDE DEF n
<1>10. ASSUME n >= 2
       PROVE  p[1] # q[2]
  <2>1. SUFFICES ASSUME p[1] = q[2] PROVE FALSE
    OBVIOUS
  <2>2. 1 \in 1 .. n /\ 2 \in 1 .. n
    BY <1>8, <1>10
  <2>3. q[1] \in users /\ q[2] \in users /\ q[1] # q[2] /\ spent(q[1]) >= spent(q[2])
    BY <1>7, <1>8, <2>2
  <2>4. PICK k \in 1 .. n : p[k] = q[1]
    BY <1>8, <2>3
  <2>5. k # 1 /\ 1 < k
    BY <1>8, <2>1, <2>3, <2>4
  <2>6. spent(p[1]) >= spent(p[k])
    BY <1>7, <1>8, <2>2, <2>5
  <2>7. spent(q[1]) # spent(q[2])
    BY <1>1, <2>3
  <2> QED  BY <1>5, <2>1, <2>3, <2>4, <2>6, <2>7
<1>11. one.rows \cap two.rows = {}
  BY <1>9, <1>10
<1>12. ASSUME n <= 2
       PROVE  one.rows \cup two.rows = users
  <2>1. CASE n = 0
    BY <1>8, <1>9, <2>1
  <2>2. CASE n = 1
    BY <1>8, <1>9, <2>2
  <2>3. CASE n = 2
    <3>1. 1 \in 1 .. n /\ 2 \in 1 .. n /\ \A i \in 1 .. n : i = 1 \/ i = 2
      BY <2>3
    <3>2. p[1] \in users /\ q[2] \in users /\ p[1] # q[2]
      BY <1>8, <1>10, <2>3, <3>1
    <3>3. PICK k \in 1 .. n : p[k] = q[2]
      BY <1>8, <3>2
    <3>4. p[2] = q[2]
      BY <3>1, <3>2, <3>3
    <3>5. \A u \in users : u = p[1] \/ u = q[2]
      BY <1>8, <3>1, <3>4
    <3> QED  BY <1>9, <2>3, <3>2, <3>5
  <2> QED  BY <1>8, <1>12, <2>1, <2>2, <2>3
<1> QED  BY <1>11, <1>12 DEF n

\* The users of a search are asked for by name, but for an empty list.
LEMMA SearchHolds ==
  ASSUME AnalyticsTypeOK
  PROVE  SearchIsExplained
<1> DEFINE users == Values("user", All)
           page(o) == Page(o, 1, MaxRecords)
<1>1. SUFFICES ASSUME NEW name, NEW shown \in UsersTable(name, None, None, 1, MaxRecords)
               PROVE  \/ shown.rows \subseteq Matches(name, None)
                      \/ Matches(name, None) = {} /\ shown.total = Cardinality(users)
  BY DEF SearchIsExplained
<1> DEFINE asked == IF name # None THEN {Sent(f) : f \in Found(name, None)} ELSE {None}
<1>2. PICK ids \in asked : \E o \in UserOrders(ids) : shown.rows = page(o) /\ shown.total = Len(o)
  <2> DEFINE table(o) == [rows |-> {u \in page(o) : None = None \/ Status(u) = None},
                          total |-> Len(o)]
  <2>1. UsersTable(name, None, None, 1, MaxRecords)
           = {table(o) : o \in UNION {UserOrders(ids) : ids \in asked}}
    BY DEF UsersTable
  <2> HIDE DEF asked
  <2>2. PICK ids \in asked : \E o \in UserOrders(ids) : shown = table(o)
    BY <2>1
  <2> QED  BY <2>2
<1>3. PICK o \in UserOrders(ids) : shown.rows = page(o) /\ shown.total = Len(o)
  BY <1>2
<1> DEFINE found == IF ids = None THEN users ELSE {u \in users : u \in ids}
<1>4. o \in SetToSeqs(found) /\ IsFiniteSet(found) /\ IsFiniteSet(users)
  <2>1. o \in SetToSeqs(found)
    BY DEF UserOrders
  <2>2. IsFiniteSet(users) /\ found \in SUBSET users
    BY ValuesAreFinite
  <2> HIDE DEF users, found
  <2> QED  BY <2>1, <2>2, FS_Subset
<1>5. shown.rows \subseteq found /\ shown.total = Cardinality(found)
  <2> HIDE DEF found
  <2>1. o \in [1 .. Cardinality(found) -> found] /\ DOMAIN o = 1 .. Cardinality(found)
        /\ Len(o) = Cardinality(found)
    BY <1>4, Arrangements
  <2> QED  BY <1>3, <2>1 DEF Page
<1>6. CASE name = None
  <2>1. Matches(name, None) = {a.user : a \in Accounts}
    BY <1>6 DEF Matches
  <2>2. users \subseteq {a.user : a \in Accounts}
    BY TableRows DEF Values, UsageRecord
  <2> QED  BY <1>5, <2>1, <2>2
<1>7. CASE name # None
  <2>1. PICK f \in Found(name, None) : ids = Sent(f)
    BY <1>2, <1>7
  <2>2. f \in SUBSET Matches(name, None)
        /\ (Cardinality(f) = Cardinality(Matches(name, None)) \/ Cardinality(f) = AuthPage)
    BY DEF Found
  <2>3. IsFiniteSet(Matches(name, None)) /\ Matches(name, None) \in SUBSET {a.user : a \in Accounts}
    <3> DEFINE who == [a \in Accounts |-> a.user]
    <3>1. DOMAIN who = Accounts /\ who = [a \in Accounts |-> who[a]]
      OBVIOUS
    <3>2. {a.user : a \in Accounts} = {who[a] : a \in Accounts}
      OBVIOUS
    <3>3. Matches(name, None) \in SUBSET {a.user : a \in Accounts}
      BY DEF Matches
    <3> HIDE DEF who
    <3>4. IsFiniteSet({a.user : a \in Accounts})
      BY <3>1, <3>2, Images, AccountsAssumption
    <3> QED  BY <3>3, <3>4, FS_Subset
  <2>4. CASE f = {}
    <3>1. ids = None /\ Cardinality(f) = 0
      BY <2>1, <2>4, FS_EmptySet DEF Sent
    <3>2. Matches(name, None) = {}
      BY <2>2, <2>3, <3>1, FS_EmptySet, AnalyticsAssumption
    <3> QED  BY <1>5, <3>1, <3>2
  <2>5. CASE f # {}
    <3>1. ids = f /\ f # None
      BY <2>1, <2>2, <2>3, <2>5, AccountsAssumption DEF Sent
    <3> QED  BY <1>5, <2>2, <3>1
  <2> QED  BY <2>4, <2>5
<1> QED  BY <1>6, <1>7

\* Every record has a feature and a user: so do the requests.
LEMMA RecordsAreNamed == AnalyticsSpec => [](AnalyticsTypeOK /\ AllNamed)
<1>1. AnalyticsInit => AllNamed
  BY DEF AnalyticsInit, AllNamed, All
<1>2. ASSUME AnalyticsTypeOK, AllNamed, AnalyticsTypeOK', [AnalyticsNext]_analyticsVars
      PROVE  AllNamed'
  <2>1. ASSUME NEW r \in Requests, RecordUsage(r)
        PROVE  AllNamed'
    <3> DEFINE t == IF r.tokens # 0 THEN r.tokens ELSE r.prompt + r.completion
               new == [r EXCEPT !.tokens = t, !.at = now]
    <3>1. r \in UsageRecord /\ None \notin {r.user, r.feature}
      BY RequestsAssumption
    <3>2. new.user = r.user /\ new.feature = r.feature
      BY <3>1 DEF UsageRecord
    <3>3. ledger' = Append(ledger, new)
      BY <2>1 DEF RecordUsage
    <3> HIDE DEF new
    <3>4. ledger \in Seq(UsageRecord)
      BY <1>2 DEF AnalyticsTypeOK
    <3>5. All' = 1 .. Len(ledger) + 1 /\ All = 1 .. Len(ledger) /\ Len(ledger) \in Nat
          /\ \A i \in All' : ledger'[i] = IF i = Len(ledger) + 1 THEN new ELSE ledger[i]
      BY <3>3, <3>4 DEF All
    <3> QED  BY <1>2, <3>1, <3>2, <3>5 DEF AllNamed
  <2>2. ASSUME NEW u, DeleteRecordsOf(u)
        PROVE  AllNamed'
    <3> DEFINE S == {i \in DOMAIN ledger : ledger[i].user # u}
               kept == Ascending(S)
    <3>1. S \in SUBSET Nat /\ S \in SUBSET All /\ IsFiniteSet(S)
      BY <1>2, TableRows, FS_Subset DEF All
    <3>2. ledger' = [i \in DOMAIN kept |-> ledger[kept[i]]]
      BY <2>2 DEF DeleteRecordsOf
    <3> HIDE DEF S
    <3>3. kept \in Seq(S)
      BY <3>1, NumbersInOrder
    <3> HIDE DEF kept
    <3>4. \A i \in DOMAIN kept : kept[i] \in All
      <4>1. DOMAIN kept = 1 .. Len(kept) /\ \A i \in 1 .. Len(kept) : kept[i] \in S
        BY <3>3
      <4> QED  BY <3>1, <4>1
    <3> QED  BY <1>2, <3>2, <3>4 DEF AllNamed, All
  <2>3. CASE HalfDayPasses
    BY <1>2, <2>3 DEF HalfDayPasses, AllNamed, All
  <2>4. CASE UNCHANGED analyticsVars
    BY <1>2, <2>4 DEF analyticsVars, AllNamed, All
  <2> QED  BY <1>2, <2>1, <2>2, <2>3, <2>4 DEF AnalyticsNext
<1> QED  BY <1>1, <1>2, UsageTypes, PTL DEF AnalyticsSpec

\* The reports of the usage service add up, agree with one another, and its table of
\* users shows each once, whatever is recorded and deleted (ReportsAddUp).
THEOREM ReportsTrue == AnalyticsSpec => []ReportsAddUp
<1>1. AnalyticsTypeOK /\ AllNamed => ReportsAddUp
  BY BreakdownsHold, WindowsHold, ReportsHold, PagesHold, SearchHolds DEF ReportsAddUp
<1> QED  BY <1>1, RecordsAreNamed, PTL

-------------------------------------------------------------------------------
(* GatewayProxy: the inductive invariant *)

WasSent(c, k) == call[c][k].at # "unsent"

\* A call: unsent, it has nothing; running, no effect and no answer yet; an
\* answer that was heard is final and tells what the call did.
CallsAreReal(c) ==
    \A k \in Attempts :
        /\ call[c][k].at = "unsent" => call[c][k] = NoCall
        /\ call[c][k].at = "running" => ~call[c][k].did /\ ~call[c][k].heard
        /\ call[c][k].heard => call[c][k].at = "finished"
        /\ call[c][k].at = "finished" =>
              /\ call[c][k].answer = "ok" => req[c].op = "read" \/ call[c][k].did
              /\ call[c][k].answer = "refused" => ~call[c][k].did

\* Where a request is tells which of its calls have been sent and heard.
Steps(c) ==
    /\ req[c].at \in {"idle", "guard"} => req[c].attempt = 1
    /\ req[c].at \in {"idle", "guard", "send"} => ~WasSent(c, req[c].attempt)
    /\ req[c].at \in {"wait", "stream"} => WasSent(c, req[c].attempt) /\ ~Current(c).heard
    /\ req[c].at = "pause" =>
          /\ req[c].attempt < MaxRetries
          /\ Current(c).heard => Current(c).answer = "502"
    /\ \A k \in Attempts : k > req[c].attempt => ~WasSent(c, k)
    /\ \A k \in Attempts : k < req[c].attempt =>
          (call[c][k].heard => call[c][k].answer = "502")

\* The result of a request that is over.
Outcome(c) ==
    /\ req[c].result # "none" => req[c].at = "done"
    /\ req[c].result \in Statuses \ {"500", "502"} =>
          Current(c).heard /\ Current(c).answer = req[c].result
    /\ req[c].result = "denied" => \A k \in Attempts : ~WasSent(c, k)
    /\ req[c].result \in {"502", "504"} =>
          Current(c).heard \/ req[c].attempt = MaxRetries

\* What every revocation takes.
SentEarlier(c) == \E k \in Attempts : k < req[c].attempt /\ WasSent(c, k)

Probing ==
    /\ \A s \in downSince : ~up[s]
    /\ (\E s \in Backends : probe[s] # "none") => report = "none"
    /\ report = "none" => \A s \in downSince : probe[s] \in {"pending", "down"}
    /\ ReadinessIsHonest

GInv ==
    /\ ProxyTypeOK
    /\ \A c \in Clients : CallsAreReal(c) /\ Steps(c) /\ Outcome(c)
    /\ \A c \in revoked : SentEarlier(c)
    /\ Probing

-----------------------------------------------------------------------------
(* Facts about the parts of the model.                                     *)

\* The attempts are numbered from one.
LEMMA AttemptFacts ==
  /\ MaxRetries \in Nat /\ MaxRetries >= 1 /\ 1 \in Attempts
  /\ \A k : k \in Attempts <=> k \in Nat /\ 1 <= k /\ k <= MaxRetries
  BY RetriesArePositive DEF Attempts

\* A call not sent has the type of a call.
LEMMA NoCallType == NoCall \in CallType
  BY DEF NoCall, CallType

\* An answer tells whether the operation was performed.
LEMMA EndingFacts ==
  ASSUME NEW c \in Clients, NEW e \in Endings(c)
  PROVE  /\ e[1] \in BOOLEAN /\ e[2] \in Statuses
         /\ e[2] = "ok" => req[c].op = "read" \/ e[1]
         /\ e[2] = "refused" => ~e[1]
<1>1. \/ e = <<FALSE, "refused">> \/ e = <<FALSE, "500">> \/ e = <<FALSE, "502">>
      \/ e = <<TRUE, "ok">> \/ e = <<TRUE, "500">> \/ e = <<TRUE, "502">>
      \/ e = <<FALSE, "ok">> /\ req[c].op = "read"
  BY Zenon DEF Endings
<1>2. CASE e = <<FALSE, "refused">>
  <2>1. e[1] = FALSE /\ e[2] = "refused"
    BY <1>2
  <2> QED  BY <2>1 DEF Statuses
<1>3. CASE e = <<FALSE, "500">>
  <2>1. e[1] = FALSE /\ e[2] = "500"
    BY <1>3
  <2> QED  BY <2>1 DEF Statuses
<1>4. CASE e = <<FALSE, "502">>
  <2>1. e[1] = FALSE /\ e[2] = "502"
    BY <1>4
  <2> QED  BY <2>1 DEF Statuses
<1>5. CASE e = <<TRUE, "ok">>
  <2>1. e[1] = TRUE /\ e[2] = "ok"
    BY <1>5
  <2> QED  BY <2>1 DEF Statuses
<1>6. CASE e = <<TRUE, "500">>
  <2>1. e[1] = TRUE /\ e[2] = "500"
    BY <1>6
  <2> QED  BY <2>1 DEF Statuses
<1>7. CASE e = <<TRUE, "502">>
  <2>1. e[1] = TRUE /\ e[2] = "502"
    BY <1>7
  <2> QED  BY <2>1 DEF Statuses
<1>8. CASE e = <<FALSE, "ok">> /\ req[c].op = "read"
  <2>1. e[1] = FALSE /\ e[2] = "ok"
    BY <1>8
  <2> QED  BY <1>8, <2>1 DEF Statuses
<1> QED  BY <1>1, <1>2, <1>3, <1>4, <1>5, <1>6, <1>7, <1>8

\* The invariant holds at the start.
LEMMA InitGInv == ProxyInit => GInv
<1> SUFFICES ASSUME ProxyInit PROVE GInv
  OBVIOUS
<1> USE DEF ProxyInit
<1>1. (CHOOSE p \in Asked : TRUE) \in Asked
  BY PathsAreRouted
<1>2. ProxyTypeOK
  <2>1. req \in [Clients -> RequestAtGateway]
    BY <1>1, AttemptFacts DEF RequestAtGateway, Results
  <2>2. call \in [Clients -> [Attempts -> CallType]]
    BY NoCallType
  <2> QED
    BY <2>1, <2>2, OutagesAreNatural DEF ProxyTypeOK, ServiceStatus
<1>3. \A c \in Clients : CallsAreReal(c)
  BY DEF CallsAreReal, NoCall
<1>4. \A c \in Clients : Steps(c) /\ Outcome(c)
  BY AttemptFacts DEF Steps, Outcome, WasSent, Current, NoCall, Statuses
<1>5. Probing
  BY DEF Probing, ReadinessIsHonest
<1> QED  BY <1>2, <1>3, <1>4, <1>5 DEF GInv

-----------------------------------------------------------------------------
(* Steps of one client request: at the gateway, or at the service.         *)

\* What is to be shown of a step that concerns one request.
LEMMA ClientStep ==
  ASSUME GInv, NEW c \in Clients,
         req' \in [Clients -> RequestAtGateway],
         call' \in [Clients -> [Attempts -> CallType]],
         \A d \in Clients \ {c} : req'[d] = req[d] /\ call'[d] = call[d],
         CallsAreReal(c)', Steps(c)', Outcome(c)',
         req'[c].attempt >= req[c].attempt,
         \A k \in Attempts : WasSent(c, k) => WasSent(c, k)',
         revoked' \subseteq revoked \cup {c},
         c \in revoked' => c \in revoked \/ SentEarlier(c)',
         UNCHANGED <<up, outages>>, HealthUnchanged
  PROVE  GInv'
<1>1. ProxyTypeOK'
  BY DEF GInv, ProxyTypeOK, HealthUnchanged
<1>2. \A d \in Clients : CallsAreReal(d)' /\ Steps(d)' /\ Outcome(d)'
  <2> TAKE d \in Clients
  <2>1. CASE d # c
    BY <2>1 DEF GInv, CallsAreReal, Steps, Outcome, WasSent, Current
  <2> QED  BY <2>1
<1>3. \A d \in revoked' : SentEarlier(d)'
  <2> TAKE d \in revoked'
  <2>1. d \in Clients
    BY DEF GInv, ProxyTypeOK
  <2>2. CASE d # c
    BY <2>1, <2>2 DEF GInv, SentEarlier, WasSent
  <2>3. CASE d = c /\ c \in revoked
    <3>1. PICK k \in Attempts : k < req[c].attempt /\ WasSent(c, k)
      BY <2>3 DEF GInv, SentEarlier
    <3>2. k < req'[c].attempt
      BY <3>1, AttemptFacts DEF GInv, ProxyTypeOK, RequestAtGateway
    <3> QED  BY <2>3, <3>1, <3>2 DEF SentEarlier
  <2> QED  BY <2>2, <2>3
<1>4. Probing'
  BY DEF GInv, Probing, ReadinessIsHonest, HealthUnchanged
<1> QED  BY <1>1, <1>2, <1>3, <1>4 DEF GInv

\* A step that moves a request and no call.
LEMMA RequestStep ==
  ASSUME GInv, NEW c \in Clients,
         req' \in [Clients -> RequestAtGateway],
         \A d \in Clients \ {c} : req'[d] = req[d],
         Steps(c)', Outcome(c)',
         req'[c].op = req[c].op \/ req[c].at = "idle",
         req'[c].attempt >= req[c].attempt,
         UNCHANGED call, UpstreamUnchanged, HealthUnchanged
  PROVE  GInv'
<1>1. CallsAreReal(c)'
  <2>1. CASE req'[c].op = req[c].op
    BY <2>1 DEF GInv, CallsAreReal
  <2>2. CASE req[c].at = "idle"
    <3>1. \A k \in Attempts : ~WasSent(c, k)
      BY <2>2, AttemptFacts DEF GInv, Steps
    <3> QED  BY <3>1 DEF GInv, CallsAreReal, WasSent, NoCall
  <2> QED  BY <2>1, <2>2
<1>2. call' \in [Clients -> [Attempts -> CallType]]
  BY DEF GInv, ProxyTypeOK
<1> QED  BY <1>1, <1>2, ClientStep DEF UpstreamUnchanged, WasSent

\* What an update of a request's step and result leaves of it.
LEMMA MovedRequest ==
  ASSUME GInv, NEW c \in Clients,
         NEW at \in {"guard", "send", "wait", "pause", "stream"},
         req' = [req EXCEPT ![c].at = at]
  PROVE  /\ req' \in [Clients -> RequestAtGateway]
         /\ \A d \in Clients \ {c} : req'[d] = req[d]
         /\ req'[c].at = at /\ req'[c].op = req[c].op
         /\ req'[c].attempt = req[c].attempt /\ req'[c].result = req[c].result
         /\ req'[c].attempt >= req[c].attempt
         /\ req[c].attempt \in Attempts
<1>1. req[c].attempt \in Attempts
  BY DEF GInv, ProxyTypeOK, RequestAtGateway
<1>2. req' \in [Clients -> RequestAtGateway]
  <2>1. req[c] \in RequestAtGateway /\ req \in [Clients -> RequestAtGateway]
    BY DEF GInv, ProxyTypeOK
  <2>2. [req[c] EXCEPT !.at = at] \in RequestAtGateway
    BY <2>1 DEF RequestAtGateway
  <2> QED  BY <2>1, <2>2
<1>3. /\ \A d \in Clients \ {c} : req'[d] = req[d]
      /\ req'[c].at = at /\ req'[c].op = req[c].op
      /\ req'[c].attempt = req[c].attempt /\ req'[c].result = req[c].result
  BY DEF GInv, ProxyTypeOK, RequestAtGateway
<1>4. req'[c].attempt >= req[c].attempt
  BY <1>1, <1>3, AttemptFacts
<1> QED  BY <1>1, <1>2, <1>3, <1>4

\* The same of a request that is concluded.
LEMMA ConcludedRequest ==
  ASSUME GInv, NEW c \in Clients, NEW result \in Results, Conclude(c, result)
  PROVE  /\ req' \in [Clients -> RequestAtGateway]
         /\ \A d \in Clients \ {c} : req'[d] = req[d]
         /\ req'[c].at = "done" /\ req'[c].op = req[c].op
         /\ req'[c].attempt = req[c].attempt /\ req'[c].result = result
         /\ req'[c].attempt >= req[c].attempt
         /\ req[c].attempt \in Attempts
<1>1. req[c].attempt \in Attempts
  BY DEF GInv, ProxyTypeOK, RequestAtGateway
<1>2. req' \in [Clients -> RequestAtGateway]
  <2>1. req[c] \in RequestAtGateway /\ req \in [Clients -> RequestAtGateway]
    BY DEF GInv, ProxyTypeOK
  <2>2. [req[c] EXCEPT !.at = "done", !.result = result] \in RequestAtGateway
    BY <2>1 DEF RequestAtGateway
  <2>3. req' = [req EXCEPT ![c] = [req[c] EXCEPT !.at = "done", !.result = result]]
    BY <2>1 DEF Conclude, RequestAtGateway
  <2> QED  BY <2>1, <2>2, <2>3
<1>3. /\ \A d \in Clients \ {c} : req'[d] = req[d]
      /\ req'[c].at = "done" /\ req'[c].op = req[c].op
      /\ req'[c].attempt = req[c].attempt /\ req'[c].result = result
  BY DEF Conclude, GInv, ProxyTypeOK, RequestAtGateway
<1>4. req'[c].attempt >= req[c].attempt
  BY <1>1, <1>3, AttemptFacts
<1> QED  BY <1>1, <1>2, <1>3, <1>4

\* A request that is concluded without an answer.
LEMMA ConcludeStep ==
  ASSUME GInv, NEW c \in Clients, NEW result \in {"denied", "500", "502", "504", "cut"},
         Conclude(c, result),
         result = "denied" => \A k \in Attempts : ~WasSent(c, k),
         result \in {"502", "504"} => req[c].attempt = MaxRetries,
         UNCHANGED call, UpstreamUnchanged, HealthUnchanged
  PROVE  GInv'
<1>1. result \in Results
  BY DEF Results, Statuses
<1>2. Steps(c)'
  BY <1>1, ConcludedRequest DEF GInv, Steps, WasSent
<1>3. Outcome(c)'
  BY <1>1, ConcludedRequest DEF Outcome, WasSent, Statuses
<1> QED  BY <1>1, <1>2, <1>3, ConcludedRequest, RequestStep

\* A lost connection or a timeout: the answer has not been heard.
LEMMA TransientStep ==
  ASSUME GInv, NEW c \in Clients, NEW status \in {"502", "504"},
         req[c].at \in {"send", "wait"}, Transient(c, status),
         UNCHANGED call, UpstreamUnchanged, HealthUnchanged
  PROVE  GInv'
<1>1. req[c].attempt \in Attempts /\ req[c].result = "none"
  BY DEF GInv, ProxyTypeOK, RequestAtGateway, Outcome
<1>2. ~Current(c).heard
  BY <1>1 DEF GInv, Steps, WasSent, CallsAreReal, Current, NoCall
<1>3. CASE req[c].attempt < MaxRetries
  <2>1. req' = [req EXCEPT ![c].at = "pause"]
    BY <1>3 DEF Transient
  <2>4. req'[c].at = "pause" /\ req'[c].attempt = req[c].attempt /\ Steps(c)
    BY <2>1, MovedRequest DEF GInv
  <2>2. Steps(c)'
    BY <1>2, <1>3, <2>4 DEF Steps, WasSent, Current
  <2>3. Outcome(c)'
    BY <1>1, <2>1, MovedRequest DEF Outcome, Statuses
  <2> QED  BY <2>1, <2>2, <2>3, MovedRequest, RequestStep
<1>4. CASE ~(req[c].attempt < MaxRetries)
  <2>1. req[c].attempt = MaxRetries
    BY <1>1, <1>4, AttemptFacts
  <2> QED  BY <1>4, <2>1, ConcludeStep DEF Transient
<1> QED  BY <1>3, <1>4

\* The steps of the gateway that leave the calls alone.
LEMMA GatewayAlone ==
  ASSUME GInv, NEW c \in Clients,
         \/ \E p \in Asked, op \in {"read", "once", "anew"},
               bearer \in {"none", "good", "bad"}, streams \in BOOLEAN :
                  Arrive(c, p, op, bearer, streams)
         \/ EnforceSession(c) \/ ReadTimeout(c) \/ ConnectionLost(c)
         \/ ReceiveHeaders(c) \/ NextAttempt(c)
  PROVE  GInv'
<1> USE DEF UpstreamUnchanged
<1>0. /\ req[c].attempt \in Attempts
      /\ req[c].at # "done" => req[c].result = "none"
      /\ Steps(c)
  BY DEF GInv, ProxyTypeOK, RequestAtGateway, Outcome
<1>1. ASSUME NEW p \in Asked, NEW op \in {"read", "once", "anew"},
             NEW bearer \in {"none", "good", "bad"}, NEW streams \in BOOLEAN,
             Arrive(c, p, op, bearer, streams)
      PROVE  GInv'
  <2> DEFINE r == [at |-> "guard", path |-> p, op |-> op, bearer |-> bearer,
                   stream |-> streams, attempt |-> 1, result |-> "none"]
  <2>1. /\ req[c].at = "idle" /\ req' = [req EXCEPT ![c] = r]
        /\ UNCHANGED call /\ UpstreamUnchanged /\ HealthUnchanged
    BY <1>1 DEF Arrive
  <2>2. r \in RequestAtGateway
    BY AttemptFacts DEF RequestAtGateway, Results
  <2>3. /\ req' \in [Clients -> RequestAtGateway]
        /\ \A d \in Clients \ {c} : req'[d] = req[d]
        /\ req'[c] = r
    BY <2>1, <2>2 DEF GInv, ProxyTypeOK
  <2>4. req[c].attempt = 1 /\ \A k \in Attempts : ~WasSent(c, k)
    BY <1>0, <2>1, AttemptFacts DEF Steps
  <2>5. Steps(c)' /\ Outcome(c)'
    BY <2>1, <2>3, <2>4, AttemptFacts DEF Steps, Outcome, WasSent, Statuses
  <2> QED  BY <2>1, <2>3, <2>4, <2>5, RequestStep
<1>2. CASE EnforceSession(c)
  <2>1. req[c].at = "guard" /\ \A k \in Attempts : ~WasSent(c, k)
    BY <1>0, <1>2, AttemptFacts DEF EnforceSession, Steps
  <2>2. CASE req' = [req EXCEPT ![c].at = "send"]
    <3>1. Steps(c)' /\ Outcome(c)'
      BY <1>0, <1>2, <2>1, <2>2, MovedRequest
         DEF EnforceSession, Steps, Outcome, WasSent, Statuses
    <3> QED  BY <1>2, <2>2, <3>1, MovedRequest, RequestStep DEF EnforceSession
  <2>3. CASE Conclude(c, "denied")
    BY <1>2, <2>1, <2>3, ConcludeStep DEF EnforceSession
  <2> QED  BY <1>2, <2>2, <2>3 DEF EnforceSession
<1>3. CASE ReadTimeout(c)
  BY <1>3, TransientStep DEF ReadTimeout
<1>4. CASE ConnectionLost(c)
  BY <1>4, TransientStep, ConcludeStep DEF ConnectionLost
<1>5. CASE ReceiveHeaders(c)
  <2>1. /\ req[c].at = "wait" /\ req' = [req EXCEPT ![c].at = "stream"]
        /\ UNCHANGED call
    BY <1>5 DEF ReceiveHeaders
  <2>2. Steps(c)' /\ Outcome(c)'
    BY <1>0, <2>1, MovedRequest DEF Steps, Outcome, WasSent, Current, Statuses
  <2> QED  BY <1>5, <2>1, <2>2, MovedRequest, RequestStep DEF ReceiveHeaders
<1>6. CASE NextAttempt(c)
  <2>1. /\ req[c].at = "pause" /\ UNCHANGED call
        /\ req' = [req EXCEPT ![c].at = "send", ![c].attempt = @ + 1]
    BY <1>6 DEF NextAttempt
  <2>2. req[c].attempt < MaxRetries /\ req[c].attempt + 1 \in Attempts
    BY <1>0, <2>1, AttemptFacts DEF Steps
  <2>3. req[c] \in RequestAtGateway /\ req \in [Clients -> RequestAtGateway]
    BY DEF GInv, ProxyTypeOK
  <2>4. [req[c] EXCEPT !.at = "send", !.attempt = @ + 1] \in RequestAtGateway
    BY <2>2, <2>3 DEF RequestAtGateway
  <2>5. req' = [req EXCEPT ![c] = [req[c] EXCEPT !.at = "send", !.attempt = @ + 1]]
    BY <2>1, <2>3 DEF RequestAtGateway
  <2>6. /\ req' \in [Clients -> RequestAtGateway]
        /\ \A d \in Clients \ {c} : req'[d] = req[d]
    BY <2>3, <2>4, <2>5
  <2>7. /\ req'[c].at = "send" /\ req'[c].attempt = req[c].attempt + 1
        /\ req'[c].op = req[c].op /\ req'[c].result = req[c].result
    BY <2>1, <2>3 DEF RequestAtGateway
  <2>8. \A k \in Attempts : k < req[c].attempt + 1 => k < req[c].attempt \/ k = req[c].attempt
    BY <1>0, AttemptFacts
  <2>9. Steps(c)' /\ Outcome(c)'
    <3>1. req[c].attempt + 1 # 1 /\ ~WasSent(c, req[c].attempt + 1)
      BY <1>0, <2>2, AttemptFacts DEF Steps
    <3>2. \A k \in Attempts : k > req[c].attempt + 1 => ~WasSent(c, k)
      BY <1>0, AttemptFacts DEF Steps
    <3>3. \A k \in Attempts : k < req[c].attempt + 1 =>
             (call[c][k].heard => call[c][k].answer = "502")
      BY <1>0, <2>1, <2>8 DEF Steps, Current
    <3>4. Steps(c)'
      BY <2>1, <2>7, <3>1, <3>2, <3>3 DEF Steps, WasSent
    <3>5. Outcome(c)'
      BY <1>0, <2>1, <2>7 DEF Outcome, Statuses
    <3> QED  BY <3>4, <3>5
  <2> QED  BY <1>0, <1>6, <2>6, <2>7, <2>9, AttemptFacts, RequestStep DEF NextAttempt
<1> QED  BY <1>1, <1>2, <1>3, <1>4, <1>5, <1>6

\* The steps of the gateway that send a call or hear its answer.
LEMMA GatewayCalls ==
  ASSUME GInv, NEW c \in Clients, Send(c) \/ Receive(c) \/ StreamEnds(c)
  PROVE  GInv'
<1> USE DEF UpstreamUnchanged
<1> DEFINE a == req[c].attempt
<1>0. /\ a \in Attempts
      /\ req[c].at # "done" => req[c].result = "none"
      /\ Steps(c) /\ CallsAreReal(c)
      /\ call[c][a] \in CallType
      /\ call \in [Clients -> [Attempts -> CallType]]
  BY DEF GInv, ProxyTypeOK, RequestAtGateway, Outcome
<1>5. /\ a = req[c].attempt /\ ~(a < a) /\ ~(a > a)
      /\ call[c][a] = Current(c)
  BY <1>0, AttemptFacts DEF Current
<1> HIDE DEF a
<1>1. CASE Send(c)
  <2>1. CASE \/ Transient(c, "502") /\ UNCHANGED call
             \/ Conclude(c, "500") /\ UNCHANGED call
    BY <1>1, <2>1, TransientStep, ConcludeStep DEF Send
  <2>2. CASE /\ req' = [req EXCEPT ![c].at = "wait"]
             /\ call' = [call EXCEPT ![c][req[c].attempt].at = "running"]
    <3>1. req[c].at = "send" /\ call[c][a] = NoCall
      BY <1>0, <1>1 DEF Send, Steps, CallsAreReal, WasSent, a
    <3>2. /\ call' \in [Clients -> [Attempts -> CallType]]
          /\ \A d \in Clients \ {c} : call'[d] = call[d]
          /\ \A k \in Attempts \ {a} : call'[c][k] = call[c][k]
          /\ call'[c][a].at = "running"
          /\ call'[c][a].did = FALSE /\ call'[c][a].heard = FALSE
      BY <1>0, <2>2, <3>1 DEF CallType, NoCall, a
    <3>0. req'[c].at = "wait" /\ req'[c].attempt = a /\ req'[c].op = req[c].op
      BY <1>5, <2>2, MovedRequest
    <3>3. CallsAreReal(c)'
      BY <1>0, <3>0, <3>2 DEF CallsAreReal
    <3>4. Steps(c)'
      BY <1>0, <1>5, <3>0, <3>2 DEF Steps, WasSent, Current
    <3>5. Outcome(c)'
      BY <1>0, <2>2, <3>1, MovedRequest DEF Outcome, Statuses
    <3>6. \A k \in Attempts : WasSent(c, k) => WasSent(c, k)'
      BY <3>2 DEF WasSent
    <3> QED
      BY <1>1, <2>2, <3>2, <3>3, <3>4, <3>5, <3>6, MovedRequest, ClientStep DEF Send
  <2> QED  BY <1>1, <2>1, <2>2 DEF Send
<1>2. CASE StreamEnds(c) /\ Conclude(c, "cut") /\ UNCHANGED call
  BY <1>2, ConcludeStep DEF StreamEnds
<1>3. CASE /\ Receive(c) \/ StreamEnds(c)
           /\ Current(c).at = "finished"
           /\ call' = [call EXCEPT ![c][req[c].attempt].heard = TRUE]
  <2>1. /\ call' \in [Clients -> [Attempts -> CallType]]
        /\ \A d \in Clients \ {c} : call'[d] = call[d]
        /\ \A k \in Attempts \ {a} : call'[c][k] = call[c][k]
        /\ call'[c][a].at = "finished" /\ call'[c][a].heard
        /\ call'[c][a].answer = call[c][a].answer
        /\ call'[c][a].did = call[c][a].did
    BY <1>0, <1>3 DEF CallType, Current, a
  <2>2. \A k \in Attempts : WasSent(c, k) => WasSent(c, k)'
    BY <1>3, <2>1 DEF WasSent
  <2>3. call[c][a].answer \in Statuses \cup {"none"}
    BY <1>0 DEF CallType
  <2>4. ASSUME req' = [req EXCEPT ![c].at = "pause"], Receive(c),
               call[c][a].answer = "502", a < MaxRetries
        PROVE  GInv'
    <3>0. req'[c].at = "pause" /\ req'[c].attempt = a /\ req'[c].op = req[c].op
      BY <1>5, <2>4, MovedRequest
    <3>1. CallsAreReal(c)'
      BY <1>0, <1>3, <1>5, <2>1, <3>0 DEF CallsAreReal
    <3>2. Steps(c)'
      <4>1. \A k \in Attempts : k # a => WasSent(c, k)' = WasSent(c, k) /\ call'[c][k] = call[c][k]
        BY <2>1 DEF WasSent
      <4>2. \A k \in Attempts : k > a => ~WasSent(c, k)'
        BY <1>0, <1>5, <4>1 DEF Steps
      <4>3. \A k \in Attempts : k < a => (call'[c][k].heard => call'[c][k].answer = "502")
        BY <1>0, <1>5, <4>1 DEF Steps
      <4>4. a < MaxRetries /\ call'[c][a].answer = "502"
        BY <2>1, <2>4
      <4> QED  BY <3>0, <4>2, <4>3, <4>4 DEF Steps, WasSent, Current
    <3>3. Outcome(c)'
      BY <1>0, <2>4, MovedRequest DEF Outcome, Statuses, Receive
    <3> QED
      BY <2>1, <2>2, <2>4, <3>1, <3>2, <3>3, MovedRequest, ClientStep DEF Receive
  <2>5. ASSUME NEW result \in Results, Conclude(c, result), result # "denied",
               result \in {"ok", "refused"} => result = call[c][a].answer
        PROVE  GInv'
    <3>0. /\ req'[c].at = "done" /\ req'[c].attempt = a /\ req'[c].op = req[c].op
          /\ req'[c].result = result
          /\ req' \in [Clients -> RequestAtGateway]
          /\ \A d \in Clients \ {c} : req'[d] = req[d]
          /\ req'[c].attempt >= req[c].attempt
      BY <1>5, <2>5, ConcludedRequest
    <3>4. UNCHANGED <<up, revoked, outages>> /\ HealthUnchanged
      BY <1>3 DEF Receive, StreamEnds
    <3>1. CallsAreReal(c)'
      BY <1>0, <1>3, <1>5, <2>1, <3>0 DEF CallsAreReal
    <3>2. Steps(c)'
      <4>1. \A k \in Attempts : k # a => WasSent(c, k)' = WasSent(c, k) /\ call'[c][k] = call[c][k]
        BY <2>1 DEF WasSent
      <4>2. \A k \in Attempts : k > a => ~WasSent(c, k)'
        BY <1>0, <1>5, <4>1 DEF Steps
      <4>3. \A k \in Attempts : k < a => (call'[c][k].heard => call'[c][k].answer = "502")
        BY <1>0, <1>5, <4>1 DEF Steps
      <4> QED  BY <3>0, <4>2, <4>3 DEF Steps, WasSent, Current
    <3>3. Outcome(c)'
      BY <2>1, <2>5, <3>0 DEF Outcome, Statuses, Current
    <3> QED  BY <2>1, <2>2, <3>0, <3>1, <3>2, <3>3, <3>4, ClientStep
  <2>6. CASE Receive(c)
    <3>1. CASE call[c][a].answer = "502" /\ a < MaxRetries
      BY <2>4, <2>6, <3>1 DEF Receive, Current, _is_transient_status, a
    <3>2. CASE ~(call[c][a].answer = "502" /\ a < MaxRetries)
      <4>1. Conclude(c, call[c][a].answer)
        BY <2>6, <3>2 DEF Receive, Current, _is_transient_status, a
      <4> QED  BY <2>3, <2>5, <4>1 DEF Results, Statuses
    <3> QED  BY <3>1, <3>2
  <2>7. CASE StreamEnds(c)
    <3>1. PICK result \in {"ok", "cut"} :
             Conclude(c, result) /\ (result = "ok" => call[c][a].answer = "ok")
      BY <2>7 DEF StreamEnds, Current, a
    <3> QED  BY <2>5, <3>1 DEF Results, Statuses
  <2> QED  BY <1>3, <2>6, <2>7
<1> QED  BY <1>1, <1>2, <1>3 DEF Receive, StreamEnds

\* Two calls of one request that have been sent: the earlier one came before.
LEMMA TwoSent ==
  ASSUME GInv, NEW c \in Clients, NEW j \in Attempts, NEW k \in Attempts,
         j # k, WasSent(c, j), WasSent(c, k)
  PROVE  SentEarlier(c)
<1>1. req[c].attempt \in Attempts
  BY DEF GInv, ProxyTypeOK, RequestAtGateway
<1>2. j <= req[c].attempt /\ k <= req[c].attempt
  BY <1>1, AttemptFacts DEF GInv, Steps
<1>3. j < req[c].attempt \/ k < req[c].attempt
  BY <1>1, <1>2, AttemptFacts
<1> QED  BY <1>3 DEF SentEarlier

\* A service ends a call: it refuses what it has done only if it was asked before.
LEMMA ServeStep ==
  ASSUME GInv, NEW c \in Clients, NEW k \in Attempts, Serve(c, k)
  PROVE  GInv'
<1>1. /\ call[c][k] \in CallType
      /\ call \in [Clients -> [Attempts -> CallType]]
      /\ CallsAreReal(c) /\ Steps(c) /\ Outcome(c)
      /\ req[c].attempt \in Attempts
  BY DEF GInv, ProxyTypeOK, RequestAtGateway
<1>2. PICK e \in Endings(c) :
         /\ call' = [call EXCEPT ![c][k] =
                       [@ EXCEPT !.at = "finished", !.did = e[1], !.answer = e[2]]]
         /\ revoked' = IF /\ req[c].path \in RefreshPaths /\ req[c].op = "once"
                          /\ e[2] = "refused" /\ Performed(c) # {}
                       THEN revoked \cup {c} ELSE revoked
  BY DEF Serve
<1>3. /\ e[1] \in BOOLEAN /\ e[2] \in Statuses
      /\ e[2] = "ok" => req[c].op = "read" \/ e[1]
      /\ e[2] = "refused" => ~e[1]
  BY EndingFacts
<1> DEFINE n == [call[c][k] EXCEPT !.at = "finished", !.did = e[1], !.answer = e[2]]
<1>4. /\ n \in CallType /\ n.at = "finished" /\ n.did = e[1] /\ n.answer = e[2]
      /\ n.heard = call[c][k].heard
  BY <1>1, <1>3 DEF CallType
<1>5. call' = [call EXCEPT ![c] = [call[c] EXCEPT ![k] = n]]
  BY <1>1, <1>2
<1> HIDE DEF n
<1>6. /\ call' \in [Clients -> [Attempts -> CallType]]
      /\ \A d \in Clients \ {c} : call'[d] = call[d]
      /\ \A j \in Attempts \ {k} : call'[c][j] = call[c][j]
      /\ call'[c][k] = n
  BY <1>1, <1>4, <1>5
<1>7. /\ call[c][k].at = "running" /\ ~call[c][k].heard
      /\ UNCHANGED <<up, req, outages>> /\ HealthUnchanged
  BY <1>1 DEF Serve, CallsAreReal
<1>8. \A j \in Attempts : /\ WasSent(c, j)' = WasSent(c, j)
                          /\ call'[c][j].heard = call[c][j].heard
                          /\ call[c][j].heard => call'[c][j] = call[c][j]
  BY <1>4, <1>6, <1>7 DEF WasSent
<1>9. CallsAreReal(c)'
  BY <1>1, <1>3, <1>4, <1>6, <1>7 DEF CallsAreReal
<1>10. Steps(c)' /\ Outcome(c)'
  BY <1>1, <1>7, <1>8 DEF Steps, Outcome, Current
<1>11. c \in revoked' => c \in revoked \/ SentEarlier(c)'
  <2> SUFFICES ASSUME Performed(c) # {} PROVE SentEarlier(c)'
    BY <1>2
  <2>1. PICK j \in Attempts : call[c][j].did
    BY DEF Performed
  <2>2. j # k /\ WasSent(c, j) /\ WasSent(c, k)
    BY <1>1, <1>7, <2>1 DEF CallsAreReal, WasSent, NoCall
  <2>3. SentEarlier(c)
    BY <2>2, TwoSent
  <2> QED  BY <1>7, <1>8, <2>3 DEF SentEarlier
<1>12. /\ revoked' \subseteq revoked \cup {c}
       /\ req' \in [Clients -> RequestAtGateway]
       /\ \A d \in Clients \ {c} : req'[d] = req[d]
       /\ req'[c].attempt >= req[c].attempt
  BY <1>1, <1>2, <1>7, AttemptFacts DEF GInv, ProxyTypeOK
<1>13. \A j \in Attempts : WasSent(c, j) => WasSent(c, j)'
  BY <1>8
<1> QED  BY <1>6, <1>7, <1>9, <1>10, <1>11, <1>12, <1>13, ClientStep

-----------------------------------------------------------------------------
(* Outages and the readiness check.                                        *)

\* A crash loses what nobody has heard; what a lost call did is open.
LEMMA OutageStep ==
  ASSUME GInv, NEW s \in Backends, up' = [up EXCEPT ![s] = FALSE],
         outages < MaxOutages, outages' = outages + 1,
         call' \in [Clients -> [Attempts -> CallType]],
         \A c \in Clients, k \in Attempts :
            \/ call'[c][k] = call[c][k]
            \/ /\ WasSent(c, k) /\ ~call[c][k].heard
               /\ call'[c][k].at = "lost" /\ ~call'[c][k].heard,
         UNCHANGED <<req, revoked>>, HealthUnchanged
  PROVE  GInv'
<1>1. ProxyTypeOK'
  BY OutagesAreNatural DEF GInv, ProxyTypeOK, HealthUnchanged
<1>2. \A c \in Clients : \A k \in Attempts :
          /\ WasSent(c, k)' = WasSent(c, k)
          /\ call'[c][k].heard = call[c][k].heard
          /\ call[c][k].heard => call'[c][k] = call[c][k]
  BY DEF WasSent, GInv, ProxyTypeOK, CallType
<1>3. \A c \in Clients : req[c].attempt \in Attempts
  BY DEF GInv, ProxyTypeOK, RequestAtGateway
<1>4. \A c \in Clients : CallsAreReal(c)'
  BY DEF GInv, CallsAreReal, WasSent
<1>5. \A c \in Clients : Steps(c)' /\ Outcome(c)'
  BY <1>2, <1>3 DEF GInv, Steps, Outcome, Current
<1>6. \A c \in revoked' : SentEarlier(c)'
  BY <1>2 DEF GInv, ProxyTypeOK, SentEarlier
<1>7. Probing'
  BY DEF GInv, ProxyTypeOK, Probing, ReadinessIsHonest, HealthUnchanged
<1> QED  BY <1>1, <1>4, <1>5, <1>6, <1>7 DEF GInv

\* A lost call keeps its type and stays unheard.
LEMMA LostCall ==
  ASSUME NEW m \in CallType
  PROVE  /\ [m EXCEPT !.at = "lost"] \in CallType
         /\ [m EXCEPT !.at = "lost"].at = "lost"
         /\ [m EXCEPT !.at = "lost"].heard = m.heard
  BY DEF CallType

\* Both kinds of crash are such outages.
LEMMA CrashStep ==
  ASSUME GInv,
         \/ \E s \in Backends : Crash(s)
         \/ \E c \in Clients, k \in Attempts : CrashMidway(c, k)
  PROVE  GInv'
<1>1. call \in [Clients -> [Attempts -> CallType]]
  BY DEF GInv, ProxyTypeOK
<1>2. \A c \in Clients, k \in Attempts : call[c][k] \in CallType
  BY <1>1
<1>3. ASSUME NEW s \in Backends, Crash(s) PROVE GInv'
  <2>1. call' = [c \in Clients |-> [k \in Attempts |->
           IF Owner(c) = s /\ ~call[c][k].heard
                /\ call[c][k].at \in {"running", "finished"}
           THEN [call[c][k] EXCEPT !.at = "lost"] ELSE call[c][k]]]
    BY <1>3 DEF Crash
  <2>2. ASSUME NEW c \in Clients, NEW k \in Attempts
        PROVE  /\ call'[c][k] \in CallType
               /\ \/ call'[c][k] = call[c][k]
                  \/ /\ WasSent(c, k) /\ ~call[c][k].heard
                     /\ call'[c][k].at = "lost" /\ ~call'[c][k].heard
    <3> DEFINE x == [call[c][k] EXCEPT !.at = "lost"]
    <3>1. x \in CallType /\ x.at = "lost" /\ x.heard = call[c][k].heard
      BY <1>2, LostCall
    <3>2. call'[c][k] = IF Owner(c) = s /\ ~call[c][k].heard
                             /\ call[c][k].at \in {"running", "finished"}
                        THEN x ELSE call[c][k]
      BY <2>1
    <3> HIDE DEF x
    <3> QED  BY <1>2, <3>1, <3>2 DEF WasSent
  <2>3. call' \in [Clients -> [Attempts -> CallType]]
    BY <2>1, <2>2
  <2> QED  BY <1>3, <2>2, <2>3, OutageStep DEF Crash
<1>4. ASSUME NEW c \in Clients, NEW k \in Attempts, CrashMidway(c, k) PROVE GInv'
  <2>1. call' = [d \in Clients |-> [j \in Attempts |->
           IF Owner(d) = Owner(c) /\ ~call[d][j].heard
                /\ call[d][j].at \in {"running", "finished"}
           THEN [call[d][j] EXCEPT !.at = "lost",
                    !.did = call[d][j].did \/ (d = c /\ j = k)]
           ELSE call[d][j]]]
    BY <1>4 DEF CrashMidway
  <2>2. ASSUME NEW d \in Clients, NEW j \in Attempts
        PROVE  /\ call'[d][j] \in CallType
               /\ \/ call'[d][j] = call[d][j]
                  \/ /\ WasSent(d, j) /\ ~call[d][j].heard
                     /\ call'[d][j].at = "lost" /\ ~call'[d][j].heard
    <3> DEFINE b == call[d][j].did \/ (d = c /\ j = k)
    <3> DEFINE x == [call[d][j] EXCEPT !.at = "lost", !.did = b]
    <3>0. b \in BOOLEAN
      BY Zenon
    <3> HIDE DEF b
    <3>1. x \in CallType /\ x.at = "lost" /\ x.heard = call[d][j].heard
      <4>1. call[d][j] \in CallType
        BY <1>2
      <4>2. CASE b = TRUE
        BY <4>1, <4>2 DEF CallType
      <4>3. CASE b = FALSE
        BY <4>1, <4>3 DEF CallType
      <4> QED  BY <3>0, <4>2, <4>3
    <3>2. call'[d][j] = IF Owner(d) = Owner(c) /\ ~call[d][j].heard
                             /\ call[d][j].at \in {"running", "finished"}
                        THEN x ELSE call[d][j]
      BY <2>1 DEF b
    <3> HIDE DEF x
    <3> QED  BY <1>2, <3>1, <3>2 DEF WasSent
  <2>3. call' \in [Clients -> [Attempts -> CallType]]
    BY <2>1, <2>2
  <2>4. Owner(c) \in Backends
    BY <1>1, PathsAreRouted DEF Owner, Upstream, GInv, ProxyTypeOK, RequestAtGateway
  <2> QED  BY <1>4, <2>2, <2>3, <2>4, OutageStep DEF CrashMidway
<1> QED  BY <1>3, <1>4

\* The rest: restarts and probes.
LEMMA HealthAndRestart ==
  ASSUME GInv, HealthStep \/ \E s \in Backends : Restart(s)
  PROVE  GInv'
<1>1. UNCHANGED <<req, call, revoked, outages>>
  BY DEF HealthStep, AskHealth, ProbeService, ReportHealth, Restart
<1>2. \A c \in Clients : CallsAreReal(c)' /\ Steps(c)' /\ Outcome(c)'
  BY <1>1 DEF GInv, CallsAreReal, Steps, Outcome, WasSent, Current
<1>3. \A c \in revoked' : SentEarlier(c)'
  BY <1>1 DEF GInv, SentEarlier, WasSent
<1>4. ProxyTypeOK' /\ Probing'
  <2>1. CASE AskHealth
    BY <1>1, <2>1 DEF AskHealth, GInv, ProxyTypeOK, Probing, ReadinessIsHonest
  <2>2. ASSUME NEW s \in Backends, ProbeService(s) PROVE ProxyTypeOK' /\ Probing'
    <3>1. PICK st \in ServiceStatus : /\ probe' = [probe EXCEPT ![s] = st]
                                      /\ ~up[s] => st = "down"
      BY <2>2 DEF ProbeService, _classify_latency, ServiceStatus
    <3>2. ProxyTypeOK'
      BY <1>1, <2>2, <3>1 DEF ProbeService, GInv, ProxyTypeOK
    <3>3. report = "none"
      BY <2>2 DEF ProbeService, GInv, Probing
    <3> QED
      BY <2>2, <3>1, <3>2, <3>3 DEF ProbeService, GInv, ProxyTypeOK, Probing, ReadinessIsHonest
  <2>3. CASE ReportHealth
    <3> DEFINE found == {probe[s] : s \in Backends}
    <3>1. _aggregate_status(found) \in ServiceStatus
      BY DEF _aggregate_status, ServiceStatus
    <3>2. _aggregate_status(found) = "healthy" => found = {"healthy"}
      BY DEF _aggregate_status
    <3>3. report = "none"
      BY <2>3 DEF ReportHealth, GInv, Probing, ServiceStatus, Backends
    <3>4. _aggregate_status(found) = "healthy" => downSince = {}
      BY <3>2, <3>3 DEF GInv, ProxyTypeOK, Probing
    <3>5. /\ report' = _aggregate_status(found)
          /\ probe' = [s \in Backends |-> "none"]
          /\ UNCHANGED <<up, downSince>>
      BY <2>3 DEF ReportHealth
    <3> HIDE DEF found
    <3>6. ProxyTypeOK'
      BY <1>1, <3>1, <3>5 DEF GInv, ProxyTypeOK
    <3>7. Probing'
      BY <3>1, <3>4, <3>5 DEF GInv, Probing, ReadinessIsHonest, ServiceStatus
    <3> QED  BY <3>6, <3>7
  <2>4. ASSUME NEW s \in Backends, Restart(s) PROVE ProxyTypeOK' /\ Probing'
    BY <1>1, <2>4 DEF Restart, GInv, ProxyTypeOK, Probing, ReadinessIsHonest
  <2> QED  BY <2>1, <2>2, <2>3, <2>4 DEF HealthStep
<1> QED  BY <1>2, <1>3, <1>4 DEF GInv

-----------------------------------------------------------------------------
(* Results.                                                                *)

\* The invariant is inductive.
LEMMA NextGInv == GInv /\ [ProxyNext]_proxyVars => GInv'
<1> SUFFICES ASSUME GInv, [ProxyNext]_proxyVars PROVE GInv'
  OBVIOUS
<1>1. CASE UNCHANGED proxyVars
  BY <1>1 DEF proxyVars, GInv, ProxyTypeOK, CallsAreReal, Steps, Outcome, WasSent, Current,
              SentEarlier, Probing, ReadinessIsHonest
<1>2. ASSUME NEW c \in Clients, GatewayStep(c) PROVE GInv'
  BY <1>2, GatewayAlone, GatewayCalls DEF GatewayStep
<1>3. CASE ServiceStep
  BY <1>3, ServeStep, CrashStep, HealthAndRestart DEF ServiceStep
<1>4. CASE HealthStep
  BY <1>4, HealthAndRestart
<1> QED  BY <1>1, <1>2, <1>3, <1>4 DEF ProxyNext

\* The invariant holds in every reachable state.
LEMMA AlwaysGInv == ProxySpec => []GInv
  BY InitGInv, NextGInv, PTL DEF ProxySpec

\* The earlier of two calls was given up on, or answered 502.
LEMMA TwoCalls ==
  ASSUME GInv, NEW c \in Clients, SentEarlier(c)
  PROVE  SentBefore(c)
<1>1. PICK k \in Attempts : k < req[c].attempt /\ WasSent(c, k)
  BY DEF SentEarlier
<1>2. req[c].attempt \in Nat /\ k \in 1..(req[c].attempt - 1)
  BY <1>1, AttemptFacts DEF GInv, ProxyTypeOK, RequestAtGateway
<1>3. ~call[c][k].heard \/ call[c][k].answer = "502"
  BY <1>1 DEF GInv, Steps
<1> QED  BY <1>1, <1>2, <1>3 DEF SentBefore, WasSent

\* More than one call of a request performed its operation: two did.
LEMMA TwoPerformed ==
  ASSUME NEW c \in Clients, Cardinality(Performed(c)) > 1
  PROVE  \E j, k \in Performed(c) : j # k
<1> SUFFICES ASSUME \A j, k \in Performed(c) : j = k PROVE FALSE
  OBVIOUS
<1>1. CASE Performed(c) = {}
  BY <1>1, FS_EmptySet
<1>2. CASE Performed(c) # {}
  <2>1. PICK j : j \in Performed(c)
    BY <1>2
  <2>2. Performed(c) = {j}
    BY <2>1
  <2>3. Cardinality(Performed(c)) = 1
    BY <2>2, FS_Singleton
  <2> QED  BY <2>3
<1> QED  BY <1>1, <1>2

\* The invariant says what is claimed of the proxy.
LEMMA GInvIsSound == GInv => ProxyIsSound
<1> SUFFICES ASSUME GInv PROVE ProxyIsSound
  OBVIOUS
<1>0. \A c \in Clients : req[c].attempt \in Attempts /\ req[c].result \in Results
  BY DEF GInv, ProxyTypeOK, RequestAtGateway
<1>1. OnlyFailuresAreRepeated
  <2> SUFFICES ASSUME NEW c \in Clients, NEW k \in 1..(req[c].attempt - 1), call[c][k].heard
               PROVE  call[c][k].answer = "502"
    BY DEF OnlyFailuresAreRepeated
  <2>1. k \in Attempts /\ k < req[c].attempt
    BY <1>0, AttemptFacts
  <2> QED  BY <2>1 DEF GInv, Steps
<1>2. AnswersAreTrue
  BY <1>0 DEF GInv, AnswersAreTrue, Outcome, CallsAreReal, Current, WasSent, Statuses
<1>3. RepeatsAreExplained
  <2> SUFFICES ASSUME NEW c \in Clients,
                      \/ Cardinality(Performed(c)) > 1
                      \/ req[c].result = "refused" /\ Performed(c) # {}
                      \/ c \in revoked
               PROVE  SentBefore(c)
    BY DEF RepeatsAreExplained
  <2>1. \A k \in Performed(c) : k \in Attempts /\ call[c][k].did /\ WasSent(c, k)
    BY DEF Performed, GInv, CallsAreReal, WasSent, NoCall
  <2>2. CASE Cardinality(Performed(c)) > 1
    BY <2>1, <2>2, TwoPerformed, TwoSent, TwoCalls
  <2>3. CASE req[c].result = "refused" /\ Performed(c) # {}
    <3>1. /\ Current(c).heard /\ Current(c).at = "finished"
          /\ Current(c).answer = "refused" /\ ~Current(c).did
      BY <1>0, <2>3 DEF GInv, Outcome, CallsAreReal, Current, Statuses
    <3>2. PICK k \in Performed(c) : k # req[c].attempt
      BY <2>1, <2>3, <3>1 DEF Current
    <3>3. WasSent(c, req[c].attempt)
      BY <3>1 DEF WasSent, Current
    <3> QED  BY <1>0, <2>1, <3>2, <3>3, TwoSent, TwoCalls
  <2>4. CASE c \in revoked
    BY <2>4, TwoCalls DEF GInv
  <2> QED  BY <2>2, <2>3, <2>4
<1>4. ReadinessIsHonest
  BY DEF GInv, Probing
<1> QED  BY <1>1, <1>2, <1>3, <1>4 DEF ProxyIsSound

\* Every variable of the proxy keeps its type for any number of clients, paths
\* and attempts.
THEOREM ProxyTypes == ProxySpec => []ProxyTypeOK
<1>1. GInv => ProxyTypeOK
  BY DEF GInv
<1> QED  BY <1>1, AlwaysGInv, PTL

\* The proxy repeats only what failed, answers truthfully, performs an operation
\* twice or revokes a user's sessions only through a repetition it had to make
\* blindly, and does not report a dead system healthy (proxy/proxy.py,
\* services/health_service.py).
THEOREM ProxySound == ProxySpec => []ProxyIsSound
  BY GInvIsSound, AlwaysGInv, PTL

-------------------------------------------------------------------------------
(* The whole: a behaviour of MCAccounts is one of each module *)

LEMMA PartsRun == Spec => PurgeSpec /\ AnalyticsSpec /\ ProfilesSpec /\ ProxySpec
<1>1. Init => PurgeInit /\ AnalyticsInit /\ ProfilesInit /\ ProxyInit
  BY DEF Init
<1>2. [Next]_vars => [PurgeNext]_purgeVars /\ [AnalyticsNext]_analyticsVars
                       /\ [ProfilesNext]_profileVars /\ [ProxyNext]_proxyVars
  BY DEF Next, vars, PurgeStep, ProfilesStep, ProxyStep
<1> QED  BY <1>1, <1>2, PTL DEF Spec, PurgeSpec, AnalyticsSpec, ProfilesSpec, ProxySpec

\* The variables of every part keep their types.
THEOREM AccountTypes == Spec => []TypeOK
<1>1. PurgeTypeOK /\ AnalyticsTypeOK /\ ProfilesTypeOK /\ ProxyTypeOK => TypeOK
  BY DEF TypeOK
<1> QED  BY <1>1, PartsRun, PurgeTypes, UsageTypes, ProfileTypes, ProxyTypes, PTL

\* What is shown of the records and of the profiles is consistent, for any number of
\* users, records and requests (ViewsAreSound).
THEOREM ViewsHold == Spec => []ViewsAreSound
<1>1. ReportsAddUp /\ PublicPagesAreSound => ViewsAreSound
  BY DEF ViewsAreSound
<1> QED  BY <1>1, PartsRun, ReportsTrue, PublicPagesTrue, PTL
=============================================================================
