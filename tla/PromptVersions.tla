--------------------------- MODULE PromptVersions ---------------------------
(***************************************************************************)
(* The versions of one prompt (a feature, module and locale) in the table  *)
(* prompt_versions: what upsert_version and activate do to them, and which *)
(* one the prompt loader serves.                                           *)
(*                                                                         *)
(* The handlers run in threads, each with a transaction of its own under   *)
(* READ COMMITTED.  A statement sees what is committed when it starts; a   *)
(* row it has to change may be locked, and is then read again once the     *)
(* other transaction has ended.  A commit UPDATEs only the attributes that *)
(* differ from those loaded.                                               *)
(***************************************************************************)
EXTENDS Naturals, FiniteSets

CONSTANTS
    Admins,       \* concurrent requests
    Versions,     \* version names
    MaxEdits,     \* bound on the requests
    NoAdmin

\* The loader's answer when no version is active: the prompt file.
File == "file"

ASSUME EditsAssumption == MaxEdits \in Nat
ASSUME FileIsNoVersion == File \notin Versions

VARIABLES
    prompt,      \* [Versions -> the committed row]
    txn,         \* [Admins -> the request and its transaction]
    holder,      \* [Versions -> the transaction that has the row's lock]
    edits,       \* requests started, which also dates the rows
    chosen,      \* ghost: what the last request chose to be served
    raced        \* ghost: requests have overlapped since the last one that did not

promptVars == <<prompt, txn, holder, edits, chosen, raced>>

-----------------------------------------------------------------------------
PromptRow == [on : BOOLEAN, active : BOOLEAN, made : Nat]

NoPrompt == [on |-> FALSE, active |-> FALSE, made |-> 0]

\* loaded: the row as the request read it; want: whether it is to be active;
\* todo: the siblings its UPDATE has still to change; off: those it has changed.
\* Ghost: met, whether another request was open at the same time.
Transaction == [at : {"idle", "siblings", "wait", "flush", "commit"},
                kind : {"none", "activate", "upsert"}, id : 0..MaxEdits,
                v : Versions \cup {File}, want : BOOLEAN, loaded : PromptRow,
                todo : SUBSET Versions, off : SUBSET Versions, met : BOOLEAN]

NoTxn == [at |-> "idle", kind |-> "none", id |-> 0, v |-> File, want |-> FALSE,
          loaded |-> NoPrompt, todo |-> {}, off |-> {}, met |-> FALSE]

PromptInit ==
    /\ prompt = [v \in Versions |-> NoPrompt]
    /\ txn = [a \in Admins |-> NoTxn]
    /\ holder = [v \in Versions |-> NoAdmin]
    /\ edits = 0 /\ chosen = File /\ raced = FALSE

Active == {v \in Versions : prompt[v].on /\ prompt[v].active}

\* get_active, the newest of the active versions; without one the prompt's file.
Served ==
    IF Active = {} THEN File
    ELSE CHOOSE v \in Active : \A w \in Active : prompt[v].made >= prompt[w].made

Busy(a) == txn[a].at # "idle"

-----------------------------------------------------------------------------
(* Requests.  Each begins with the SELECT of its row, which opens the       *)
(* transaction.                                                             *)

Open(a, kind, v, want) ==
    LET others == {b \in Admins \ {a} : Busy(b)}
        new == [NoTxn EXCEPT !.at = IF want THEN "siblings" ELSE "flush", !.kind = kind,
                             !.id = edits + 1, !.v = v, !.want = want,
                             !.loaded = prompt[v], !.met = (others # {})]
    IN  /\ ~Busy(a) /\ edits < MaxEdits
        /\ edits' = edits + 1
        /\ txn' = [b \in Admins |-> IF b = a THEN new
                                    ELSE [txn[b] EXCEPT !.met = @ \/ b \in others]]
        /\ UNCHANGED <<prompt, holder, chosen, raced>>

\* An id that does not exist is a 404.
Activate(a, v) == prompt[v].on /\ Open(a, "activate", v, TRUE)

\* An upsert that is not active leaves the siblings alone.
Upsert(a, v, want) == Open(a, "upsert", v, want)

\* Mutant of Siblings: a new row, without an id, leaves the siblings alone.
SiblingsOfOld(t) == IF t.loaded.on THEN Active \ {t.v} ELSE {}

\* The active rows the UPDATE sees when it starts, but for its own; a row that
\* is yet to be inserted has no id to be left out by.
Siblings(t) == IF t.loaded.on THEN Active \ {t.v} ELSE Active

Deactivate(a) ==
    /\ txn[a].at = "siblings"
    /\ txn' = [txn EXCEPT ![a].todo = Siblings(txn[a]), ![a].at = "wait"]
    /\ UNCHANGED <<prompt, holder, edits, chosen, raced>>

Lockable(a, v) == holder[v] \in {NoAdmin, a}

\* A row whose lock is free is locked, read again, and changed if it is still
\* active.
DeactivateRow(a, v) ==
    /\ txn[a].at = "wait" /\ v \in txn[a].todo /\ Lockable(a, v)
    /\ txn' = [txn EXCEPT ![a].todo = @ \ {v},
                          ![a].off = IF v \in Active THEN @ \cup {v} ELSE @]
    /\ holder' = IF v \in Active THEN [holder EXCEPT ![v] = a] ELSE holder
    /\ UNCHANGED <<prompt, edits, chosen, raced>>

Deactivated(a) ==
    /\ txn[a].at = "wait" /\ txn[a].todo = {}
    /\ txn' = [txn EXCEPT ![a].at = "flush"]
    /\ UNCHANGED <<prompt, holder, edits, chosen, raced>>

\* The attribute is_active is written if the request's row is new or was loaded
\* with the other value.
SetsActive(t) == ~t.loaded.on \/ t.want # t.loaded.active

\* The commit flushes what has changed; an upsert brings a content of its own.
Flush(a) ==
    LET t == txn[a]
        writes == SetsActive(t) \/ t.kind = "upsert"
    IN  /\ t.at = "flush" /\ (writes => Lockable(a, t.v))
        /\ holder' = IF writes THEN [holder EXCEPT ![t.v] = a] ELSE holder
        /\ txn' = [txn EXCEPT ![a].at = "commit"]
        /\ UNCHANGED <<prompt, edits, chosen, raced>>

Release(a) ==
    /\ txn' = [txn EXCEPT ![a] = NoTxn]
    /\ holder' = [v \in Versions |-> IF holder[v] = a THEN NoAdmin ELSE holder[v]]

\* The version was inserted by another request since it was looked up.
Duplicate(t) == ~t.loaded.on /\ prompt[t.v].on

Wants(b) ==
    CASE txn[b].at = "wait" -> txn[b].todo
      [] txn[b].at = "flush" -> {txn[b].v}
      [] OTHER -> {}

\* Two transactions wait for each other's locks and the database ends one.
Deadlocked(a) ==
    \E b \in Admins \ {a} : /\ \E v \in Wants(a) : holder[v] = b
                            /\ \E v \in Wants(b) : holder[v] = a

Rollback(a) ==
    /\ \/ txn[a].at = "commit" /\ Duplicate(txn[a])
       \/ Deadlocked(a)
    /\ Release(a)
    /\ UNCHANGED <<prompt, edits, chosen, raced>>

Commit(a) ==
    LET t == txn[a]
    IN  /\ t.at = "commit" /\ ~Duplicate(t)
        /\ prompt' = [v \in Versions |->
              IF v \in t.off THEN [prompt[v] EXCEPT !.active = FALSE]
              ELSE IF v = t.v /\ SetsActive(t)
              THEN [on |-> TRUE, active |-> t.want,
                    made |-> IF t.loaded.on THEN t.loaded.made ELSE t.id]
              ELSE prompt[v]]
        /\ Release(a)
        /\ chosen' = IF t.want THEN t.v ELSE IF chosen = t.v THEN File ELSE chosen
        /\ raced' = (t.met \/ (raced /\ ~t.want))
        /\ UNCHANGED edits

PromptNext ==
    \E a \in Admins :
        \/ \E v \in Versions : \/ Activate(a, v) \/ DeactivateRow(a, v)
                               \/ \E want \in BOOLEAN : Upsert(a, v, want)
        \/ Deactivate(a) \/ Deactivated(a) \/ Flush(a) \/ Rollback(a) \/ Commit(a)

PromptSpec == PromptInit /\ [][PromptNext]_promptVars

-----------------------------------------------------------------------------
(* Properties. *)

PromptTypeOK ==
    /\ prompt \in [Versions -> PromptRow]
    /\ txn \in [Admins -> Transaction]
    /\ holder \in [Versions -> Admins \cup {NoAdmin}]
    /\ edits \in 0..MaxEdits /\ chosen \in Versions \cup {File} /\ raced \in BOOLEAN

\* The loader serves what the last request chose: two versions are active, none
\* is, or another one, only since requests have overlapped, and the next
\* activation that runs alone repairs it.
ChosenIsServed ==
    ~raced => Served = chosen /\ Active \subseteq {chosen}
=============================================================================
