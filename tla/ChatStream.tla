----------------------------- MODULE ChatStream -----------------------------
(***************************************************************************)
(* One chat session of the AI service and the requests that write its      *)
(* assistant messages: streams (with cancellation and rollback), continue, *)
(* and retry or regenerate, which run the same workflow without a stream.  *)
(* A turn writes one message for each module of its plan, and then looks   *)
(* up "the latest assistant message" to annotate or merge it.              *)
(*                                                                         *)
(* The handlers are coroutines of one event loop over synchronous database *)
(* calls: an action is a stretch of code without an await, and another     *)
(* request may run between any two.  deleteChatMessage runs in a thread.   *)
(***************************************************************************)
EXTENDS Naturals, FiniteSets, SequencesExt

CONSTANTS
    Reqs,       \* requests on the session
    Modules,    \* messages a full plan writes (bound; the code has up to 4)
    MaxFaults,  \* bound: exceptions, failed calls and lost processes of a run
    MaxErased,  \* bound: messages the user deletes
    Past,       \* author of the messages of earlier turns
    None

ASSUME BoundsAssumption ==
    Modules \in Nat \ {0} /\ MaxFaults \in Nat /\ MaxErased \in Nat
ASSUME ReqsAssumption == IsFiniteSet(Reqs)
ASSUME AuthorsAssumption == Past \notin Reqs /\ None \notin Reqs \cup {Past}

VARIABLES
    rows,       \* assistant messages in the order of their INSERTs
    session,    \* status of the session row
    req,        \* [Reqs -> the local state of the request]
    faults      \* how many faults there were

vars == <<rows, session, req, faults>>

Authors == Reqs \cup {Past}

\* at: created_at, the time the transaction of the INSERT opened.
\* status, hidden: of content_metadata (hidden is its key "deleted").
\* Ghosts: by wrote the message, marked annotated it last, remover deleted it;
\* erased: the user deleted it once.
Row == [by : Authors, at : Nat, status : {"none", "completed", "truncated", "failed"},
        hidden : BOOLEAN, erased : BOOLEAN,
        marked : Reqs \cup {None}, remover : Reqs \cup {None}]

Ended == {"completed", "cancelled", "failed", "abandoned"}
Waiting == {"thinking", "planned", "preparing", "hit", "generating", "applying",
            "planning", "calling", "pipeline", "metering"}

\* kept: the target's key "deleted" when the request loaded it.
\* Ghosts: met, the requests that were in flight together with this one;
\* botched: a deletion of its rollback failed.
Request == [at : {"idle"} \cup Waiting \cup Ended,
            kind : {"stream", "continue", "redo", "none"},
            gone : BOOLEAN, before : SUBSET Nat, todo : 0..Modules, txn : Nat,
            errs : BOOLEAN, target : Nat, kept : BOOLEAN,
            met : SUBSET Reqs, botched : BOOLEAN]

Idle == [at |-> "idle", kind |-> "none", gone |-> FALSE, before |-> {},
         todo |-> 0, txn |-> 0, errs |-> FALSE, target |-> 0, kept |-> FALSE,
         met |-> {}, botched |-> FALSE]

Message(by, at, status) ==
    [by |-> by, at |-> at, status |-> status, hidden |-> FALSE, erased |-> FALSE,
     marked |-> None, remover |-> None]

\* One earlier turn, cut off by the token limit.
Init ==
    /\ rows = <<Message(Past, 0, "truncated")>>
    /\ session = "completed"
    /\ req = [r \in Reqs |-> Idle]
    /\ faults = 0

-----------------------------------------------------------------------------
(* Helpers *)

At(r, label) == req[r].at = label
Is(r, kind) == req[r].kind = kind
InFlight(r) == req[r].at \in Waiting
Live == {i \in DOMAIN rows : rows[i].remover = None}

Goto(r, label) == req' = [req EXCEPT ![r].at = label]

\* The request is over and forgets what it worked with.
End(r, label, botched) ==
    req' = [req EXCEPT ![r].at = label, ![r].gone = FALSE, ![r].before = {},
                       ![r].todo = 0, ![r].txn = 0, ![r].botched = botched]

\* Something outside the request's control goes wrong, or does not.
NoFault == faults' = faults
Fault == faults < MaxFaults /\ faults' = faults + 1

\* The time at which a transaction opens now: later than every time that still
\* matters.
Later ==
    1 + Max({rows[i].at : i \in Live} \cup {req[r].txn : r \in Reqs} \cup {0})

\* list_by_session orders by created_at; 0 if there is no message.
Latest ==
    IF Live = {} THEN 0
    ELSE CHOOSE i \in Live : \A j \in Live : rows[j].at <= rows[i].at

\* Mutant of Snapshot: no message is remembered.
SnapshotEmpty == {}

\* The assistant messages a stream finds once its planner has run.
Snapshot == Live

\* A new request; ghost: it has met every request in flight, and they it.
Begin(r, local) ==
    /\ At(r, "idle")
    /\ LET others == {q \in Reqs \ {r} : InFlight(q)}
       IN  req' = [q \in Reqs |->
                     IF q = r THEN [local EXCEPT !.met = others]
                     ELSE IF q \in others
                          THEN [req[q] EXCEPT !.met = @ \cup {r}]
                          ELSE req[q]]

\* r deletes the messages S.
Deleted(r, S) ==
    [i \in DOMAIN rows |-> IF i \in S THEN [rows[i] EXCEPT !.remover = r]
                                      ELSE rows[i]]

\* Mutant of Annotated: the new metadata replaces the old.
AnnotatedAfresh(r, i, status, hidden) ==
    [rows EXCEPT ![i].status = status, ![i].hidden = FALSE, ![i].marked = r]

\* existing.update(metadata) on message i: r's status, and the key "deleted"
\* of the copy r updates.
Annotated(r, i, status, hidden) ==
    [rows EXCEPT ![i].status = status, ![i].hidden = hidden, ![i].marked = r]

-----------------------------------------------------------------------------
(* Requests arrive *)

BeginStream(r) ==
    /\ Begin(r, [Idle EXCEPT !.at = "thinking", !.kind = "stream"])
    /\ UNCHANGED <<rows, session, faults>>

\* n is the number of missing sections recorded on the truncated message i.
BeginContinue(r, i, n) ==
    /\ i \in Live /\ rows[i].status = "truncated"
    /\ Begin(r, [Idle EXCEPT !.at = "planning", !.kind = "continue",
                             !.target = i, !.kept = rows[i].hidden, !.todo = n])
    /\ UNCHANGED <<rows, session, faults>>

\* retry and regenerate write a status into the dict they loaded and assign
\* the same dict, which the database session does not take for a change: the
\* target's row keeps its metadata.  A regenerate may ask for n sections only.
BeginRedo(r, i, n) ==
    /\ i \in Live
    /\ Begin(r, [Idle EXCEPT !.at = "planning", !.kind = "redo",
                             !.target = i, !.kept = rows[i].hidden, !.todo = n])
    /\ UNCHANGED <<rows, session, faults>>

Disconnect(r) ==
    /\ Is(r, "stream") /\ InFlight(r) /\ ~req[r].gone
    /\ req' = [req EXCEPT ![r].gone = TRUE]
    /\ UNCHANGED <<rows, session, faults>>

\* The process stops, the server cancels the coroutine at its await, or the
\* handler of an exception raises another.
Abandon(r) ==
    /\ InFlight(r)
    /\ Fault /\ End(r, "abandoned", FALSE)
    /\ UNCHANGED <<rows, session>>

DeleteChatMessage(i) ==
    /\ i \in Live /\ ~rows[i].hidden
    /\ Cardinality({j \in DOMAIN rows : rows[j].erased}) < MaxErased
    /\ rows' = [rows EXCEPT ![i].hidden = TRUE, ![i].erased = TRUE]
    /\ UNCHANGED <<session, req, faults>>

-----------------------------------------------------------------------------
(* Planner and model *)

\* planner_node marks the session and stores the user's message; a stream
\* then remembers the messages that exist.
PlanStream(r) ==
    /\ At(r, "thinking")
    /\ session' = "in_progress"
    /\ req' = [req EXCEPT ![r].at = "planned", ![r].before = Snapshot,
                          ![r].todo = Modules]
    /\ UNCHANGED <<rows, faults>>

PlanChat(r) ==
    /\ At(r, "planning")
    /\ session' = "in_progress"
    /\ Goto(r, "calling")
    /\ UNCHANGED <<rows, faults>>

\* An exception in planner_node, before or after the commit of the status.
PlanFails(r) ==
    /\ req[r].at \in {"thinking", "planning"}
    /\ session' \in {session, "in_progress"}
    /\ Fault /\ End(r, "failed", FALSE)
    /\ UNCHANGED rows

\* The first cancel check; nothing is rolled back.
CheckPlanned(r) ==
    /\ At(r, "planned")
    /\ IF req[r].gone THEN End(r, "cancelled", FALSE) ELSE Goto(r, "preparing")
    /\ UNCHANGED <<rows, session, faults>>

\* The end of the call of the model, or of the cache: a trace is committed, and
\* the transaction of the first message opens.
ToPipeline(r, label, failed) ==
    req' = [req EXCEPT ![r].at = label, ![r].txn = Later, ![r].errs = failed]

\* try_openrouter_cache.
TryCache(r, hit) ==
    /\ At(r, "preparing")
    /\ IF hit THEN ToPipeline(r, "hit", FALSE) ELSE Goto(r, "generating")
    /\ UNCHANGED <<rows, session, faults>>

\* A cancel check that finds the client: the one after the last token, or the
\* one after a cache hit.
Checked(r) ==
    /\ ~req[r].gone
    /\ \/ At(r, "generating") /\ Goto(r, "applying")
       \/ At(r, "hit") /\ Goto(r, "pipeline")
    /\ UNCHANGED <<rows, session, faults>>

\* apply_llm_response, or openrouter_node of a chat, returned a payload.
Applied(r) ==
    /\ req[r].at \in {"applying", "calling"}
    /\ ToPipeline(r, "pipeline", FALSE)
    /\ UNCHANGED <<rows, session, faults>>

\* The model failed, or no retry produced valid JSON: a stream ends, a chat
\* goes on with empty sections.
CallFails(r) ==
    /\ req[r].at \in {"generating", "applying", "calling"}
    /\ Fault
    /\ IF Is(r, "stream") THEN End(r, "failed", FALSE)
                          ELSE ToPipeline(r, "pipeline", TRUE)
    /\ UNCHANGED <<rows, session>>

-----------------------------------------------------------------------------
(* The modules of the plan *)

\* Mutant of Created: only the newest of the messages.
CreatedLast(r) == {Latest} \ req[r].before

\* What a rollback deletes.
Created(r) == Live \ req[r].before

\* A cancel check from the cache hit on; a token's raises StreamCancelledError.
\* rollback_stream_assistant_messages logs and swallows the exception of a
\* deletion, which keeps the message i.
Cancel(r) ==
    /\ req[r].at \in {"hit", "generating", "pipeline"} /\ req[r].gone
    /\ \/ /\ rows' = Deleted(r, Created(r))
          /\ NoFault /\ End(r, "cancelled", FALSE)
       \/ \E i \in Created(r) :
            /\ rows' = Deleted(r, Created(r) \ {i})
            /\ Fault /\ End(r, "cancelled", TRUE)
    /\ UNCHANGED session

\* run_post_llm_pipeline checks before each module; a chat has no check.
Proceeds(r) == At(r, "pipeline") /\ ~req[r].gone

\* _run_module_node writes a message (unless stored is false) and a trace; an
\* exception of either is recorded, and the pipeline goes on.
RunModule(r, stored, ok) ==
    /\ Proceeds(r) /\ req[r].todo > 0
    /\ IF ok THEN stored /\ NoFault ELSE Fault
    /\ rows' = IF stored THEN Append(rows, Message(r, req[r].txn, "none")) ELSE rows
    /\ req' = [req EXCEPT ![r].todo = @ - 1, ![r].txn = Later,
                          ![r].errs = @ \/ ~ok]
    /\ UNCHANGED session

\* Mutant of Persist: the status of the workflow, not of the session.
PersistWorkflowStatus(r) ==
    /\ Proceeds(r) /\ req[r].todo = 0
    /\ session' = IF req[r].errs THEN "partial" ELSE "completed"
    /\ Goto(r, "metering")
    /\ UNCHANGED <<rows, faults>>

\* Mutant of Persist: the session's status is left alone.
PersistNoStatus(r) ==
    /\ Proceeds(r) /\ req[r].todo = 0
    /\ Goto(r, "metering")
    /\ UNCHANGED <<rows, session, faults>>

\* Mutant of Persist: a turn with errors never gets there.
PersistClean(r) ==
    /\ Proceeds(r) /\ req[r].todo = 0 /\ ~req[r].errs
    /\ session' = "completed"
    /\ Goto(r, "metering")
    /\ UNCHANGED <<rows, faults>>

\* persist_node, up to the await of the usage record.  An exception, before the
\* commit of the status or after it, is an error of the turn.
Persist(r) ==
    /\ Proceeds(r) /\ req[r].todo = 0
    /\ LET status == IF req[r].errs THEN "failed" ELSE "completed" IN
       \/ session' = status /\ NoFault /\ Goto(r, "metering")
       \/ /\ session' \in {session, status} /\ Fault
          /\ req' = [req EXCEPT ![r].at = "metering", ![r].errs = TRUE]
    /\ UNCHANGED rows

-----------------------------------------------------------------------------
(* The end of a turn *)

Mark(r, status, hidden) ==
    IF Latest = 0 THEN rows ELSE Annotated(r, Latest, status, hidden)

LatestHidden == Latest # 0 /\ rows[Latest].hidden

\* _persist_stream_metadata.
MarkStream(r, status) == Mark(r, status, LatestHidden)

\* _annotate_latest_assistant; the database session still holds the target of
\* the request as it was loaded.
MarkRedo(r) ==
    Mark(r, "completed", IF Latest = req[r].target THEN req[r].kept ELSE LatestHidden)

\* _finalize_continue_assistant: the latest message goes into the target, by
\* the copy loaded when the request began, and is then deleted.
Merged(r) ==
    IF Latest = 0 THEN rows ELSE Annotated(r, req[r].target, "completed", req[r].kept)

MergedAndDeleted(r) ==
    [i \in DOMAIN rows |-> IF i = Latest /\ i # req[r].target
                           THEN Deleted(r, {i})[i] ELSE Merged(r)[i]]

\* The UPDATE of a target that is gone raises.
CanMerge(r) == Latest # 0 => req[r].target \in Live

\* What the end of r's turn commits, one transaction after the other.
EndWrites(r, status) ==
    CASE Is(r, "stream")   -> <<MarkStream(r, status)>>
      [] Is(r, "redo")     -> <<MarkRedo(r)>>
      [] Is(r, "continue") -> <<Merged(r), MergedAndDeleted(r)>>

EndStatus(r, status) ==
    /\ Is(r, "stream") => (status = "failed" <=> req[r].errs)
    /\ ~Is(r, "stream") => status = "completed"

\* The event "complete" of a stream, or the answer of the other requests.
Complete(r, status) ==
    /\ At(r, "metering") /\ EndStatus(r, status)
    /\ Is(r, "continue") => CanMerge(r)
    /\ rows' = Last(EndWrites(r, status))
    /\ End(r, "completed", FALSE)
    /\ UNCHANGED <<session, faults>>

\* The target is gone, or one of those writes or the touch of the session after
\* them fails: what was committed before it stays.
CompleteFails(r, status) ==
    /\ At(r, "metering") /\ EndStatus(r, status)
    /\ \/ /\ Is(r, "continue") /\ ~CanMerge(r)
          /\ rows' = rows /\ NoFault
       \/ /\ Is(r, "continue") => CanMerge(r)
          /\ rows' \in {rows} \cup Range(EndWrites(r, status)) /\ Fault
    /\ End(r, "failed", FALSE)
    /\ UNCHANGED session

Advance(r) ==
    \/ PlanStream(r) \/ PlanChat(r) \/ PlanFails(r) \/ CheckPlanned(r)
    \/ \E hit \in BOOLEAN : TryCache(r, hit)
    \/ Checked(r) \/ Applied(r) \/ CallFails(r) \/ Cancel(r)
    \/ \E stored, ok \in BOOLEAN : RunModule(r, stored, ok)
    \/ Persist(r)
    \/ \E status \in {"completed", "truncated", "failed"} :
         Complete(r, status) \/ CompleteFails(r, status)

Next ==
    \/ \E r \in Reqs :
         \/ BeginStream(r)
         \/ \E i \in Live, n \in 1..Modules :
              BeginContinue(r, i, n) \/ BeginRedo(r, i, n)
         \/ Disconnect(r) \/ Abandon(r) \/ Advance(r)
    \/ \E i \in Live : DeleteChatMessage(i)

Spec == Init /\ [][Next]_vars

-----------------------------------------------------------------------------
(* Properties *)

\* Messages, requests and the session's status have their types.
TypeOK ==
    /\ rows \in Seq(Row)
    /\ session \in {"in_progress", "completed", "failed"}
    /\ faults \in 0..MaxFaults
    /\ req \in [Reqs -> Request]
    /\ \A r \in Reqs : req[r].before \subseteq DOMAIN rows

\* A stream that ended because its client left has no message in the session,
\* whatever it had written and whoever ran meanwhile, unless the database
\* refused a deletion of its rollback.
CancelledLeavesNothing ==
    \A r \in Reqs : At(r, "cancelled") /\ ~req[r].botched
                    => \A i \in Live : rows[i].by # r

WroteNothingLeft(q) == \A i \in Live : rows[i].by # q

\* A request deletes somebody else's message only if the two overlapped, or if
\* it is a continue none of whose own messages is left: messages of earlier
\* turns are safe from a rollback.
LossByOverlap ==
    \A i \in DOMAIN rows :
      LET q == rows[i].remover IN
      q \in Reqs \ {rows[i].by}
      => \/ rows[i].by \in req[q].met
         \/ Is(q, "continue") /\ WroteNothingLeft(q)

\* The outcome of a turn is recorded on a message of another turn only if the
\* two overlapped, if that message is the target of a continue, or if the turn
\* has no message of its own.
MarkedByOverlap ==
    \A i \in DOMAIN rows :
      LET q == rows[i].marked IN
      q \in Reqs \ {rows[i].by}
      => \/ rows[i].by \in req[q].met
         \/ Is(q, "continue") /\ req[q].target = i
         \/ WroteNothingLeft(q)

\* What one request does to the messages of another is explained by their overlap
\* (nodes.py, rollback_stream_persistence; chat_service.py, _persist_stream_metadata).
OverlapIsExplained == LossByOverlap /\ MarkedByOverlap

\* A message the user deleted shows up again only through a continue, retry or
\* regenerate of that message that had loaded it before.
ErasureSticks ==
    \A i \in Live : rows[i].erased /\ ~rows[i].hidden
      => \E q \in Reqs : /\ req[q].target = i /\ ~req[q].kept
                         /\ req[q].at \in {"completed", "failed"}

\* A session nobody works on says "in progress" only after a turn was cut off
\* or could not store its status.
StuckIsExplained ==
    session = "in_progress" /\ (\A r \in Reqs : ~InFlight(r))
    => \E r \in Reqs : \/ req[r].at \in {"cancelled", "failed", "abandoned"}
                       \/ req[r].errs

\* No request waits for another: a stream that has begun can always go on to
\* "complete" or "error", after which the server sends "done".
NeverStuck ==
    \A r \in Reqs : InFlight(r) => ENABLED Advance(r)

\* What the documentation says of a cancelled stream: it deletes incomplete
\* messages.  It never deletes one of a stream that has completed.
RollbackSparesCompleted ==
    [][\A r \in Reqs, i \in DOMAIN rows :
         /\ req[r].at # "cancelled" /\ req'[r].at = "cancelled"
         /\ i \in Live /\ rows'[i].remover = r
         /\ rows[i].by \in Reqs
         => ~At(rows[i].by, "completed")]_vars

=============================================================================
