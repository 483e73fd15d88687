--------------------------- MODULE SessionDataProofs ---------------------------
(***************************************************************************)
(* Proofs about what the AI service stores, for any number of              *)
(* administrators, writers and requests and any limits: the versions of a  *)
(* prompt, the memory of a chat session, the rows of the learning          *)
(* products, and the stored conversations with their lists.                *)
(***************************************************************************)
EXTENDS MCSessionData, TableTheorems, SequenceTheorems, FiniteSetTheorems, TLAPS

-------------------------------------------------------------------------------
(* PromptVersions: the inductive invariant *)

\* Requests that are open together know that they have met.
AllMet == \A a, b \in Admins : a # b /\ Busy(a) /\ Busy(b) => txn[a].met

\* What a request that met no other has read is still so, and it has dealt with
\* every other active version by the time it commits.
Current(t) ==
    t.at # "idle" /\ ~t.met =>
        /\ t.v \in Versions /\ t.loaded = prompt[t.v]
        /\ t.at \in {"siblings", "wait"} => t.want
        /\ t.at = "siblings" => t.off = {}
        /\ t.at = "wait" => t.off \cup t.todo = Siblings(t)
        /\ t.at \in {"flush", "commit"} => t.off = IF t.want THEN Siblings(t) ELSE {}

\* The version that was chosen, and no other, is active.
ChosenIsActive == Active = IF chosen = File THEN {} ELSE {chosen}

PromptInv ==
    /\ PromptTypeOK
    /\ AllMet
    /\ \A a \in Admins : Current(txn[a])
    /\ ~raced => ChosenIsActive

LEMMA PromptInitially == PromptInit => PromptInv
<1> SUFFICES ASSUME PromptInit PROVE PromptInv
  OBVIOUS
<1>1. NoTxn \in Transaction /\ NoPrompt \in PromptRow /\ 0 \in 0..MaxEdits
  BY EditsAssumption DEF NoTxn, Transaction, NoPrompt, PromptRow
<1>2. PromptTypeOK
  BY <1>1 DEF PromptInit, PromptTypeOK
<1>3. \A a \in Admins : txn[a].at = "idle"
  BY DEF PromptInit, NoTxn
<1>4. ChosenIsActive
  BY DEF PromptInit, ChosenIsActive, Active, NoPrompt
<1> QED  BY <1>2, <1>3, <1>4 DEF PromptInv, AllMet, Busy, Current

\* While the rows stay as they are, so does what a request has read of them.
LEMMA CurrentStays ==
  ASSUME NEW t, prompt' = prompt, Current(t)
  PROVE  Current(t)'
BY DEF Current, Siblings, Active

\* A request that goes on without a change of a row.
LEMMA RequestGoesOn ==
  ASSUME PromptInv, NEW a \in Admins, Busy(a), NEW t \in Transaction,
         txn' = [txn EXCEPT ![a] = t], t.met = txn[a].met, Current(t),
         holder' \in [Versions -> Admins \cup {NoAdmin}],
         UNCHANGED <<prompt, edits, chosen, raced>>
  PROVE  PromptInv'
<1>1. txn' \in [Admins -> Transaction] /\ txn'[a] = t
      /\ \A b \in Admins \ {a} : txn'[b] = txn[b]
  BY DEF PromptInv, PromptTypeOK
<1>2. PromptTypeOK'
  BY <1>1 DEF PromptInv, PromptTypeOK
<1>3. AllMet'
  BY <1>1 DEF PromptInv, AllMet, Busy
<1>4. ASSUME NEW b \in Admins
      PROVE  Current(txn[b])'
  <2>1. PICK u : u = txn'[b]
    OBVIOUS
  <2>2. Current(u)
    BY <1>1, <2>1 DEF PromptInv
  <2>3. Current(u)'
    BY <2>2, CurrentStays
  <2> QED  BY <2>1, <2>3 DEF Current
<1>5. ~raced' => ChosenIsActive'
  BY DEF PromptInv, ChosenIsActive, Active
<1> QED  BY <1>2, <1>3, <1>4, <1>5 DEF PromptInv

\* A request that begins and the others that are open have met.
LEMMA RequestOpens ==
  ASSUME PromptInv, NEW a \in Admins, NEW v \in Versions, NEW want \in BOOLEAN,
         NEW kind \in {"activate", "upsert"}, Open(a, kind, v, want)
  PROVE  PromptInv'
<1> DEFINE others == {b \in Admins \ {a} : Busy(b)}
           new == [NoTxn EXCEPT !.at = IF want THEN "siblings" ELSE "flush", !.kind = kind,
                                !.id = edits + 1, !.v = v, !.want = want,
                                !.loaded = prompt[v], !.met = (others # {})]
<1>1. edits \in Nat /\ edits < MaxEdits /\ edits' = edits + 1 /\ ~Busy(a)
  <2>1. edits \in 0..MaxEdits
    BY DEF PromptInv, PromptTypeOK
  <2>2. edits < MaxEdits /\ edits' = edits + 1 /\ ~Busy(a)
    BY Zenon DEF Open
  <2> QED  BY <2>1, <2>2, EditsAssumption
<1>2. /\ UNCHANGED <<prompt, holder, chosen, raced>>
      /\ txn' = [b \in Admins |-> IF b = a THEN new
                                  ELSE [txn[b] EXCEPT !.met = @ \/ b \in others]]
  BY DEF Open
<1>3. prompt[v] \in PromptRow
  BY DEF PromptInv, PromptTypeOK
<1>4. /\ new \in Transaction
      /\ new.at = (IF want THEN "siblings" ELSE "flush") /\ new.v = v /\ new.want = want
      /\ new.loaded = prompt[v] /\ new.off = {} /\ new.met = (others # {})
  <2>1. edits + 1 \in 0..MaxEdits /\ (others # {}) \in BOOLEAN
    BY <1>1, EditsAssumption
  <2> HIDE DEF others
  <2> QED  BY <1>3, <2>1 DEF NoTxn, Transaction
<1>5. ASSUME NEW b \in Admins \ {a}
      PROVE  /\ txn'[b] \in Transaction /\ txn'[b].at = txn[b].at
             /\ b \in others => txn'[b].met
             /\ b \notin others => txn'[b].at = "idle"
  <2> DEFINE met == txn[b].met \/ b \in others
             next == [txn[b] EXCEPT !.met = met]
  <2>1. txn[b] \in Transaction /\ met \in BOOLEAN
    BY DEF PromptInv, PromptTypeOK, Transaction
  <2>2. txn'[b] = next
    BY <1>2
  <2>3. next \in Transaction /\ next.at = txn[b].at /\ next.met = met
    <3> HIDE DEF met
    <3> QED  BY <2>1 DEF Transaction
  <2> QED  BY <2>2, <2>3 DEF Busy
<1>6. txn'[a] = new
  BY <1>2
<1> HIDE DEF new
<1>7. txn' \in [Admins -> Transaction]
  <2>1. \A b \in Admins : txn'[b] \in Transaction
    BY <1>4, <1>5, <1>6
  <2> QED  BY <1>2, <2>1
<1>8. PromptTypeOK'
  <2>1. edits' \in 0..MaxEdits
    BY <1>1, EditsAssumption
  <2> QED  BY <1>2, <1>7, <2>1 DEF PromptInv, PromptTypeOK
<1>9. AllMet'
  BY <1>4, <1>5, <1>6 DEF AllMet, Busy
<1>10. ASSUME NEW b \in Admins
       PROVE  Current(txn[b])'
  <2>1. CASE b = a
    <3>1. PICK u : u = txn'[a]
      OBVIOUS
    <3>2. /\ u.at = IF want THEN "siblings" ELSE "flush"
          /\ u.v = v /\ u.want = want /\ u.loaded = prompt[v] /\ u.off = {}
      BY <1>4, <1>6, <3>1
    <3>3. Current(u)
      BY <3>2 DEF Current
    <3>4. Current(u)'
      BY <1>2, <3>3, CurrentStays
    <3> QED  BY <2>1, <3>1, <3>4 DEF Current
  <2>2. CASE b # a
    BY <1>5, <2>2 DEF Current
  <2> QED  BY <2>1, <2>2
<1>11. ~raced' => ChosenIsActive'
  BY <1>2 DEF PromptInv, ChosenIsActive, Active
<1> QED  BY <1>8, <1>9, <1>10, <1>11 DEF PromptInv

\* A request that ends: what the others have read of the rows is as before, or
\* they have met it.
LEMMA RequestEnds ==
  ASSUME PromptInv, NEW a \in Admins, Busy(a), Release(a),
         prompt' \in [Versions -> PromptRow], chosen' \in Versions \cup {File},
         raced' \in BOOLEAN, edits' = edits, ~raced' => ChosenIsActive'
  PROVE  PromptInv'
<1>1. /\ txn' = [txn EXCEPT ![a] = NoTxn]
      /\ holder' = [v \in Versions |-> IF holder[v] = a THEN NoAdmin ELSE holder[v]]
  BY DEF Release
<1>2. txn \in [Admins -> Transaction] /\ holder \in [Versions -> Admins \cup {NoAdmin}]
  BY DEF PromptInv, PromptTypeOK
<1>3. NoTxn \in Transaction /\ NoTxn.at = "idle"
  BY EditsAssumption DEF NoTxn, Transaction, NoPrompt, PromptRow
<1>4. txn'[a] = NoTxn /\ \A b \in Admins \ {a} : txn'[b] = txn[b]
  BY <1>1, <1>2
<1>5. PromptTypeOK'
  BY <1>1, <1>2, <1>3 DEF PromptInv, PromptTypeOK
<1>6. AllMet'
  BY <1>3, <1>4 DEF PromptInv, AllMet, Busy
<1>7. ASSUME NEW b \in Admins
      PROVE  Current(txn[b])'
  <2>1. CASE b = a
    BY <1>3, <1>4, <2>1 DEF Current
  <2>2. CASE b # a
    BY <1>4, <2>2 DEF Current, PromptInv, AllMet, Busy
  <2> QED  BY <2>1, <2>2
<1> QED  BY <1>5, <1>6, <1>7 DEF PromptInv

LEMMA DeactivateKeeps ==
  ASSUME PromptInv, NEW a \in Admins, Deactivate(a)
  PROVE  PromptInv'
<1> DEFINE t == [txn[a] EXCEPT !.todo = Siblings(txn[a]), !.at = "wait"]
<1>1. txn[a] \in Transaction /\ Current(txn[a]) /\ txn[a].at = "siblings"
  BY DEF PromptInv, PromptTypeOK, Deactivate
<1>2. Siblings(txn[a]) \in SUBSET Versions
  BY DEF Siblings, Active
<1>3. /\ t \in Transaction /\ t.at = "wait" /\ t.todo = Siblings(txn[a])
      /\ t.off = txn[a].off /\ t.met = txn[a].met /\ t.want = txn[a].want
      /\ t.v = txn[a].v /\ t.loaded = txn[a].loaded
  <2> HIDE DEF Siblings
  <2> QED  BY <1>1, <1>2 DEF Transaction
<1>4. txn' = [txn EXCEPT ![a] = t] /\ UNCHANGED <<prompt, holder, edits, chosen, raced>>
  BY DEF Deactivate
<1> HIDE DEF t
<1>5. Siblings(t) = Siblings(txn[a])
  BY <1>3 DEF Siblings
<1>6. Current(t)
  BY <1>1, <1>3, <1>5 DEF Current
<1>7. Busy(a) /\ holder' \in [Versions -> Admins \cup {NoAdmin}]
  BY <1>1, <1>4 DEF Busy, PromptInv, PromptTypeOK
<1> QED  BY <1>3, <1>4, <1>6, <1>7, RequestGoesOn

LEMMA DeactivateRowKeeps ==
  ASSUME PromptInv, NEW a \in Admins, NEW v \in Versions, DeactivateRow(a, v)
  PROVE  PromptInv'
<1> DEFINE off == IF v \in Active THEN txn[a].off \cup {v} ELSE txn[a].off
           t == [txn[a] EXCEPT !.todo = @ \ {v}, !.off = off]
<1>1. /\ txn[a] \in Transaction /\ Current(txn[a])
      /\ txn[a].at = "wait" /\ v \in txn[a].todo
  BY DEF PromptInv, PromptTypeOK, DeactivateRow
<1>2. off \in SUBSET Versions
  BY <1>1 DEF Transaction
<1>3. /\ t \in Transaction /\ t.at = "wait" /\ t.todo = txn[a].todo \ {v}
      /\ t.off = off /\ t.met = txn[a].met /\ t.want = txn[a].want
      /\ t.v = txn[a].v /\ t.loaded = txn[a].loaded
  <2> HIDE DEF off
  <2> QED  BY <1>1, <1>2 DEF Transaction
<1>4. /\ txn' = [txn EXCEPT ![a] = t] /\ UNCHANGED <<prompt, edits, chosen, raced>>
      /\ holder' = IF v \in Active THEN [holder EXCEPT ![v] = a] ELSE holder
  <2>1. txn' = [txn EXCEPT ![a].todo = @ \ {v},
                           ![a].off = IF v \in Active THEN @ \cup {v} ELSE @]
    BY DEF DeactivateRow
  <2> QED  BY <2>1 DEF DeactivateRow
<1> HIDE DEF t
<1>5. Siblings(t) = Siblings(txn[a])
  BY <1>3 DEF Siblings
<1>6. Current(t)
  <2>1. Siblings(txn[a]) \subseteq Active
    BY DEF Siblings
  <2>2. ~t.met => v \in Active
    BY <1>1, <1>3, <2>1 DEF Current
  <2> HIDE DEF Active
  <2>3. ~t.met => t.off \cup t.todo = Siblings(t)
    BY <1>1, <1>3, <1>5, <2>2 DEF Current
  <2> QED  BY <1>1, <1>3, <2>3 DEF Current
<1>7. Busy(a)
  BY <1>1 DEF Busy
<1>8. holder' \in [Versions -> Admins \cup {NoAdmin}]
  BY <1>4 DEF PromptInv, PromptTypeOK
<1> QED  BY <1>3, <1>4, <1>6, <1>7, <1>8, RequestGoesOn

\* Both steps that only move a request to its next label.
LEMMA LabelKeeps ==
  ASSUME PromptInv, NEW a \in Admins,
         \/ Deactivated(a) /\ UNCHANGED holder
         \/ Flush(a)
  PROVE  PromptInv'
<1> DEFINE to == IF txn[a].at = "wait" THEN "flush" ELSE "commit"
           t == [txn[a] EXCEPT !.at = to]
<1>1. /\ txn[a] \in Transaction /\ Current(txn[a]) /\ txn[a].at \in {"wait", "flush"}
      /\ txn[a].at = "wait" => txn[a].todo = {}
  BY DEF PromptInv, PromptTypeOK, Deactivated, Flush
<1>2. /\ t \in Transaction /\ t.at = to
      /\ t.off = txn[a].off /\ t.met = txn[a].met /\ t.want = txn[a].want
      /\ t.v = txn[a].v /\ t.loaded = txn[a].loaded
  BY <1>1 DEF Transaction
<1>3. txn' = [txn EXCEPT ![a] = t] /\ UNCHANGED <<prompt, edits, chosen, raced>>
  BY <1>1 DEF Deactivated, Flush
<1> HIDE DEF t
<1>4. Siblings(t) = Siblings(txn[a])
  BY <1>2 DEF Siblings
<1>5. Current(t)
  BY <1>1, <1>2, <1>4 DEF Current
<1>6. Busy(a)
  BY <1>1 DEF Busy
<1>7. holder' \in [Versions -> Admins \cup {NoAdmin}]
  <2>1. holder' = holder \/ holder' = [holder EXCEPT ![txn[a].v] = a]
    BY DEF Deactivated, Flush
  <2> QED  BY <2>1 DEF PromptInv, PromptTypeOK
<1> QED  BY <1>2, <1>3, <1>5, <1>6, <1>7, RequestGoesOn

LEMMA RollbackKeeps ==
  ASSUME PromptInv, NEW a \in Admins, Rollback(a)
  PROVE  PromptInv'
<1>1. Release(a) /\ UNCHANGED <<prompt, edits, chosen, raced>>
  BY DEF Rollback
<1>2. Busy(a)
  BY DEF Rollback, Busy, Deadlocked, Wants
<1>3. /\ prompt' \in [Versions -> PromptRow] /\ chosen' \in Versions \cup {File}
      /\ raced' \in BOOLEAN /\ edits' = edits
  BY <1>1 DEF PromptInv, PromptTypeOK
<1>4. ~raced' => ChosenIsActive'
  BY <1>1 DEF PromptInv, ChosenIsActive, Active
<1> QED  BY <1>1, <1>2, <1>3, <1>4, RequestEnds

\* A request that was alone leaves what it chose active, and nothing else.
LEMMA CommitKeeps ==
  ASSUME PromptInv, NEW a \in Admins, Commit(a)
  PROVE  PromptInv'
<1>1. PICK t : t = txn[a]
  OBVIOUS
<1>2. /\ t \in Transaction /\ Current(t) /\ t.at = "commit"
      /\ prompt \in [Versions -> PromptRow] /\ chosen \in Versions \cup {File}
      /\ ~raced => ChosenIsActive
  BY <1>1 DEF PromptInv, PromptTypeOK, Commit
<1>3. /\ prompt' = [v \in Versions |->
            IF v \in t.off THEN [prompt[v] EXCEPT !.active = FALSE]
            ELSE IF v = t.v /\ SetsActive(t)
            THEN [on |-> TRUE, active |-> t.want,
                  made |-> IF t.loaded.on THEN t.loaded.made ELSE t.id]
            ELSE prompt[v]]
      /\ Release(a)
      /\ chosen' = IF t.want THEN t.v ELSE IF chosen = t.v THEN File ELSE chosen
      /\ raced' = (t.met \/ (raced /\ ~t.want))
      /\ edits' = edits
  BY <1>1 DEF Commit
<1>4. /\ t.loaded \in PromptRow /\ t.id \in Nat /\ t.want \in BOOLEAN /\ t.met \in BOOLEAN
      /\ t.v \in Versions \cup {File} /\ t.off \subseteq Versions
  BY <1>2, EditsAssumption DEF Transaction
<1>5. prompt' \in [Versions -> PromptRow]
  <2>1. ASSUME NEW v \in Versions PROVE prompt'[v] \in PromptRow
    <3>1. prompt[v] \in PromptRow
      BY <1>2
    <3>2. [prompt[v] EXCEPT !.active = FALSE] \in PromptRow
      BY <3>1 DEF PromptRow
    <3>3. [on |-> TRUE, active |-> t.want,
           made |-> IF t.loaded.on THEN t.loaded.made ELSE t.id] \in PromptRow
      BY <1>4 DEF PromptRow
    <3>4. \/ prompt'[v] = prompt[v]
          \/ prompt'[v] = [prompt[v] EXCEPT !.active = FALSE]
          \/ prompt'[v] = [on |-> TRUE, active |-> t.want,
                           made |-> IF t.loaded.on THEN t.loaded.made ELSE t.id]
      BY <1>3, Zenon
    <3> QED  BY <3>1, <3>2, <3>3, <3>4, Zenon
  <2>2. prompt' = [v \in Versions |-> prompt'[v]]
    BY <1>3
  <2> QED  BY <2>1, <2>2
<1>6. raced' \in BOOLEAN
  BY <1>3
<1>7. chosen' \in Versions \cup {File}
  BY <1>2, <1>3, <1>4
<1>8. Active' = {v \in Versions :
                   IF v \in t.off THEN FALSE
                   ELSE IF v = t.v /\ SetsActive(t) THEN t.want ELSE v \in Active}
  <2>1. ASSUME NEW v \in Versions
        PROVE  v \in Active' <=> IF v \in t.off THEN FALSE
                                 ELSE IF v = t.v /\ SetsActive(t) THEN t.want
                                 ELSE v \in Active
    <3>1. prompt[v] \in PromptRow
      BY <1>2
    <3>2. CASE v \in t.off
      <4>1. prompt'[v] = [prompt[v] EXCEPT !.active = FALSE]
        BY <1>3, <3>2
      <4> QED  BY <3>1, <3>2, <4>1 DEF Active, PromptRow
    <3>3. CASE v \notin t.off /\ v = t.v /\ SetsActive(t)
      <4>1. prompt'[v].on /\ prompt'[v].active = t.want
        BY <1>3, <3>3
      <4> QED  BY <3>3, <4>1 DEF Active
    <3>4. CASE v \notin t.off /\ ~(v = t.v /\ SetsActive(t))
      <4>1. prompt'[v] = prompt[v]
        BY <1>3, <3>4
      <4> QED  BY <3>4, <4>1 DEF Active
    <3> QED  BY <3>2, <3>3, <3>4
  <2>2. Active' \subseteq Versions
    BY DEF Active
  <2> QED  BY <2>1, <2>2
<1>9. ASSUME ~t.met
      PROVE  /\ t.v \in Versions /\ t.loaded = prompt[t.v]
             /\ t.off = IF t.want THEN Siblings(t) ELSE {}
  BY <1>2, <1>9 DEF Current
<1>10. ASSUME ~raced'
       PROVE  ChosenIsActive'
  <2>1. ~t.met /\ (~t.want => ChosenIsActive)
    BY <1>2, <1>3, <1>10
  <2>2. CASE t.want
    <3>1. chosen' = t.v /\ t.v # File
      BY <1>3, <1>9, <2>1, <2>2, FileIsNoVersion
    <3>2. t.v \notin t.off /\ \A v \in Active : v # t.v => v \in t.off
      BY <1>9, <2>1, <2>2 DEF Siblings, Active
    <3>3. SetsActive(t) \/ t.v \in Active
      BY <1>9, <2>1, <2>2, <1>4 DEF SetsActive, Active, PromptRow
    <3>4. Active' = {t.v}
      BY <1>8, <1>9, <2>1, <2>2, <3>2, <3>3
    <3> QED  BY <3>1, <3>4 DEF ChosenIsActive
  <2>3. CASE ~t.want
    <3>1. t.off = {} /\ t.v \in Versions
      BY <1>9, <2>1, <2>3
    <3>2. SetsActive(t) \/ t.v \notin Active
      BY <1>9, <2>1, <2>3, <1>4 DEF SetsActive, Active, PromptRow
    <3>3. Active \subseteq Versions
      BY DEF Active
    <3>4. Active' = Active \ {t.v}
      BY <1>8, <2>3, <3>1, <3>2, <3>3
    <3>5. chosen' = IF chosen = t.v THEN File ELSE chosen
      BY <1>3, <2>3
    <3> QED  BY <2>1, <2>3, <3>1, <3>4, <3>5, FileIsNoVersion DEF ChosenIsActive
  <2> QED  BY <1>4, <2>2, <2>3
<1>11. Busy(a)
  BY <1>1, <1>2 DEF Busy
<1> QED  BY <1>3, <1>5, <1>6, <1>7, <1>10, <1>11, RequestEnds

LEMMA PromptPreserved == PromptInv /\ [PromptNext]_promptVars => PromptInv'
<1> SUFFICES ASSUME PromptInv, [PromptNext]_promptVars PROVE PromptInv'
  OBVIOUS
<1>1. CASE UNCHANGED promptVars
  <2>1. UNCHANGED <<prompt, txn, holder, edits, chosen, raced>>
    BY <1>1 DEF promptVars
  <2>2. PromptTypeOK' /\ AllMet' /\ (~raced' => ChosenIsActive')
    BY <2>1 DEF PromptInv, PromptTypeOK, AllMet, Busy, ChosenIsActive, Active
  <2>3. \A a \in Admins : Current(txn[a])'
    BY <2>1 DEF PromptInv, Current, Siblings, Active
  <2> QED  BY <2>2, <2>3 DEF PromptInv
<1>2. ASSUME NEW a \in Admins, NEW v \in Versions,
             \/ Activate(a, v) \/ DeactivateRow(a, v)
             \/ \E want \in BOOLEAN : Upsert(a, v, want)
      PROVE  PromptInv'
  <2>1. CASE Activate(a, v)
    BY <2>1, RequestOpens DEF Activate
  <2>2. CASE DeactivateRow(a, v)
    BY <2>2, DeactivateRowKeeps
  <2>3. ASSUME NEW want \in BOOLEAN, Upsert(a, v, want)
        PROVE  PromptInv'
    BY <2>3, RequestOpens DEF Upsert
  <2> QED  BY <1>2, <2>1, <2>2, <2>3
<1>3. ASSUME NEW a \in Admins,
             Deactivate(a) \/ Deactivated(a) \/ Flush(a) \/ Rollback(a) \/ Commit(a)
      PROVE  PromptInv'
  <2>1. CASE Deactivate(a)
    BY <2>1, DeactivateKeeps
  <2>2. CASE Deactivated(a)
    BY <2>2, LabelKeeps DEF Deactivated
  <2>3. CASE Flush(a)
    BY <2>3, LabelKeeps
  <2>4. CASE Rollback(a)
    BY <2>4, RollbackKeeps
  <2>5. CASE Commit(a)
    BY <2>5, CommitKeeps
  <2> QED  BY <1>3, <2>1, <2>2, <2>3, <2>4, <2>5
<1> QED  BY <1>1, <1>2, <1>3 DEF PromptNext

LEMMA PromptInvariant == PromptSpec => []PromptInv
BY PromptInitially, PromptPreserved, PTL DEF PromptSpec

\* Versions, open requests and the lock of each row have their types.
THEOREM PromptTypeCorrect == PromptSpec => []PromptTypeOK
<1>1. PromptInv => PromptTypeOK
  BY DEF PromptInv
<1> QED  BY <1>1, PromptInvariant, PTL

\* The prompt loader serves what the last request chose, for any number of
\* administrators, unless requests have overlapped since the last that did not.
THEOREM ChosenVersionIsServed == PromptSpec => []ChosenIsServed
<1>1. ASSUME PromptInv, ~raced
      PROVE  Served = chosen /\ Active \subseteq {chosen}
  <2>1. Active = IF chosen = File THEN {} ELSE {chosen}
    BY <1>1 DEF PromptInv, ChosenIsActive
  <2>2. CASE chosen = File
    BY <2>1, <2>2 DEF Served
  <2>3. CASE chosen # File
    <3>1. Active = {chosen}
      BY <2>1, <2>3
    <3>2. prompt[chosen].made \in Nat
      BY <1>1, <3>1 DEF PromptInv, PromptTypeOK, PromptRow, Active
    <3>3. Served = CHOOSE v \in Active : \A w \in Active : prompt[v].made >= prompt[w].made
      BY <3>1 DEF Served
    <3>4. Served \in Active
      <4> HIDE DEF Active
      <4> QED  BY <3>1, <3>2, <3>3
    <3> QED  BY <3>1, <3>4
  <2> QED  BY <2>2, <2>3
<1>2. PromptInv => ChosenIsServed
  BY <1>1 DEF ChosenIsServed
<1> QED  BY <1>2, PromptInvariant, PTL

-------------------------------------------------------------------------------
(* ConversationMemory: the lists it keeps *)

\* The last elements of a sequence.
LEMMA LastOfProperties ==
  ASSUME NEW S, NEW s \in Seq(S), NEW k \in Nat
  PROVE  /\ LastOf(s, k) \in Seq(S)
         /\ Len(LastOf(s, k)) = (IF Len(s) <= k THEN Len(s) ELSE k)
         /\ \A i \in 1..Len(LastOf(s, k)) :
               LastOf(s, k)[i] = s[Len(s) - Len(LastOf(s, k)) + i]
<1>1. Len(s) \in Nat
  OBVIOUS
<1>2. CASE Len(s) <= k
  <2>1. LastOf(s, k) = s
    BY <1>2 DEF LastOf
  <2> QED  BY <1>1, <1>2, <2>1
<1>3. CASE Len(s) > k
  <2> DEFINE m == Len(s) - k + 1
  <2>1. LastOf(s, k) = SubSeq(s, m, Len(s)) /\ m \in Int /\ m >= 1
    BY <1>1, <1>3 DEF LastOf
  <2>2. \A i \in m..Len(s) : s[i] \in S
    BY <1>1, <2>1
  <2>3. /\ SubSeq(s, m, Len(s)) \in Seq(S)
        /\ Len(SubSeq(s, m, Len(s))) = IF m <= Len(s) THEN Len(s) - m + 1 ELSE 0
        /\ \A i \in 1..(Len(s) - m + 1) : SubSeq(s, m, Len(s))[i] = s[m + i - 1]
    <3> HIDE DEF m
    <3> QED  BY <1>1, <2>1, <2>2, SubSeqProperties
  <2>4. Len(s) - m + 1 = k /\ Len(SubSeq(s, m, Len(s))) = k
    BY <1>1, <1>3, <2>3
  <2>5. ASSUME NEW i \in 1..k
        PROVE  SubSeq(s, m, Len(s))[i] = s[Len(s) - k + i]
    <3>1. m + i - 1 = Len(s) - k + i
      BY <1>1
    <3> HIDE DEF m
    <3> QED  BY <2>3, <2>4, <3>1
  <2>6. Len(LastOf(s, k)) = k /\ LastOf(s, k) \in Seq(S)
    BY <2>1, <2>3, <2>4
  <2>7. \A i \in 1..k : LastOf(s, k)[i] = s[Len(s) - k + i]
    BY <2>1, <2>5
  <2> QED  BY <1>1, <1>3, <2>6, <2>7
<1> QED  BY <1>1, <1>2, <1>3

\* Pruning a list before an element is added to it makes no difference.
LEMMA PrunedTwice ==
  ASSUME NEW S, NEW s \in Seq(S), NEW x \in S, NEW k \in Nat \ {0}
  PROVE  LastOf(Append(LastOf(s, k), x), k) = LastOf(Append(s, x), k)
<1>1. PICK t \in Seq(S) : t = LastOf(s, k)
  BY LastOfProperties
<1>2. /\ Len(s) \in Nat /\ Len(t) \in Nat /\ k \in Nat /\ k > 0
      /\ Len(t) = IF Len(s) <= k THEN Len(s) ELSE k
      /\ \A i \in 1..Len(t) : t[i] = s[Len(s) - Len(t) + i]
  <2>1. k \in Nat /\ k > 0
    OBVIOUS
  <2>2. /\ Len(LastOf(s, k)) = IF Len(s) <= k THEN Len(s) ELSE k
        /\ \A i \in 1..Len(LastOf(s, k)) : LastOf(s, k)[i] = s[Len(s) - Len(LastOf(s, k)) + i]
    BY <2>1, LastOfProperties
  <2>3. Len(s) \in Nat /\ Len(t) \in Nat
    OBVIOUS
  <2> QED  BY <1>1, <2>1, <2>2, <2>3
<1>3. PICK u \in Seq(S) : u = Append(t, x)
  BY AppendProperties
<1>4. PICK v \in Seq(S) : v = Append(s, x)
  BY AppendProperties
<1>5. /\ Len(u) = Len(t) + 1 /\ u[Len(t) + 1] = x /\ \A i \in 1..Len(t) : u[i] = t[i]
      /\ Len(v) = Len(s) + 1 /\ v[Len(s) + 1] = x /\ \A i \in 1..Len(s) : v[i] = s[i]
  BY <1>3, <1>4, AppendProperties
<1>6. PICK f \in Seq(S) : f = LastOf(u, k)
  BY <1>2, LastOfProperties
<1>7. PICK g \in Seq(S) : g = LastOf(v, k)
  BY <1>2, LastOfProperties
<1>8. /\ Len(f) = IF Len(u) <= k THEN Len(u) ELSE k
      /\ \A i \in 1..Len(f) : f[i] = u[Len(u) - Len(f) + i]
  BY <1>2, <1>6, LastOfProperties
<1>9. /\ Len(g) = IF Len(v) <= k THEN Len(v) ELSE k
      /\ \A i \in 1..Len(g) : g[i] = v[Len(v) - Len(g) + i]
  BY <1>2, <1>7, LastOfProperties
<1>10. Len(f) = Len(g) /\ Len(f) \in Nat /\ Len(f) <= Len(u) /\ Len(f) <= Len(v)
  BY <1>2, <1>5, <1>8, <1>9
<1>11. ASSUME NEW i \in 1..Len(f) PROVE f[i] = g[i]
  <2>1. f[i] = u[Len(u) - Len(f) + i] /\ g[i] = v[Len(v) - Len(f) + i]
    BY <1>8, <1>9, <1>10
  <2>2. CASE i = Len(f)
    <3>1. Len(u) - Len(f) + i = Len(t) + 1 /\ Len(v) - Len(f) + i = Len(s) + 1
      BY <1>2, <1>5, <1>10, <2>2
    <3> QED  BY <1>5, <2>1, <3>1
  <2>3. CASE i < Len(f)
    <3> DEFINE j == Len(u) - Len(f) + i
    <3>1. j \in 1..Len(t) /\ Len(v) - Len(f) + i \in 1..Len(s)
      BY <1>2, <1>5, <1>10, <2>3
    <3>2. u[j] = t[j] /\ t[j] = s[Len(s) - Len(t) + j]
      BY <1>2, <1>5, <3>1
    <3>3. Len(s) - Len(t) + j = Len(v) - Len(f) + i
      <4>1. /\ Len(s) \in Nat /\ Len(t) \in Nat /\ Len(f) \in Nat /\ i \in Nat
            /\ Len(u) = Len(t) + 1 /\ Len(v) = Len(s) + 1
        BY <1>2, <1>5, <1>10
      <4> QED  BY <4>1
    <3>4. f[i] = s[Len(v) - Len(f) + i]
      <4> HIDE DEF j
      <4>1. f[i] = u[j]
        BY <2>1 DEF j
      <4> QED  BY <3>2, <3>3, <4>1
    <3>5. g[i] = s[Len(v) - Len(f) + i]
      BY <1>5, <2>1, <3>1
    <3> QED  BY <3>4, <3>5
  <2> QED  BY <1>10, <2>2, <2>3
<1>12. f = g
  BY <1>10, <1>11, SeqEqual
<1> QED  BY <1>1, <1>3, <1>4, <1>6, <1>7, <1>12

-------------------------------------------------------------------------------
(* ConversationMemory: the inductive invariant *)

\* The lists of a row keep their bounds; without a row there is nothing in it.
SoundRow(r) ==
    /\ Len(r.recent) <= KeepRecent /\ Len(r.long) <= KeepLong
    /\ ~r.on => r = NoRow

\* What a request has loaded is what the row holds, unless it is stale.
UpToDate(q) ==
    /\ q.seen.on /\ "seen" \notin q.stale => q.seen = row
    /\ q.at \in {"select", "write"} /\ ~IsSummary(q) /\ "row" \notin q.stale => q.row = row

\* The context a request hands over is its own, that of its first load, or none.
Handed(q) ==
    q.at # "idle" =>
        /\ q.kind # "none" /\ q.n # 0
        /\ q.kind = "turn" => q.at = "call" \/ q.context = q.n
        /\ q.kind = "follow_up" => q.context = q.seen.context
        /\ q.kind = "follow_up_rejection" => q.context = 0

WriterOK(q) == SoundRow(q.seen) /\ SoundRow(q.row) /\ UpToDate(q) /\ Handed(q)

\* AnnotationIsExplained, of any list of messages.
Explained(msgs) ==
    Len(msgs) <= ListLimit =>
        \A i \in DOMAIN msgs :
            /\ (msgs[i].role = "follow_up" /\ msgs[i].mark = "none") =>
                  \E j \in 1..(i - 1) : msgs[j].role # "user" /\ Earlier(msgs, i, j)
            /\ (msgs[i].role = "turn" /\ msgs[i].mark = "follow_up") =>
                  \E j \in DOMAIN msgs : j > i /\ msgs[j].role = "follow_up" /\ Earlier(msgs, j, i)

MemoryInv ==
    /\ MemoryTypeOK
    /\ SoundRow(row)
    /\ ~row.on => learned = 0
    /\ \A w \in Writers : WriterOK(work[w])
    /\ MemoryIsExplained
    /\ Explained(said)

LEMMA NoRowIsSound == NoRow \in MemoryRow /\ SoundRow(NoRow) /\ ~NoRow.on
BY LimitsAssumption DEF NoRow, MemoryRow, SoundRow

LEMMA RestingIsOK == /\ Resting \in Request /\ Resting.at = "idle"
                     /\ Resting.seen = NoRow /\ Resting.row = NoRow
                     /\ Resting.stale = {} /\ Resting.context = 0
                     /\ WriterOK(Resting) /\ WriterOK(Resting)'
BY NoRowIsSound DEF Resting, Request, WriterOK, UpToDate, Handed

LEMMA MemoryInitially == MemoryInit => MemoryInv
<1> SUFFICES ASSUME MemoryInit PROVE MemoryInv
  OBVIOUS
<1>1. MemoryTypeOK
  <2>1. row = NoRow /\ work = [w \in Writers |-> Resting] /\ loop = NoWriter
    BY DEF MemoryInit
  <2>2. Len(row.recent) <= KeepRecent /\ Len(row.long) <= KeepLong
    BY <2>1, NoRowIsSound DEF SoundRow
  <2>3. \A w \in Writers : work[w].at \in {"load", "select", "write"} <=> loop = w
    BY <2>1, RestingIsOK, NoWriterAssumption
  <2>4. row \in MemoryRow /\ work \in [Writers -> Request] /\ loop \in Writers \cup {NoWriter}
    BY <2>1, NoRowIsSound, RestingIsOK
  <2>5. /\ alive \in BOOLEAN /\ said \in Seq(Message) /\ asked \in 0..MaxAsked
        /\ log \in Seq(Nat) /\ learned \in Nat /\ blurred \in BOOLEAN /\ reverted \in BOOLEAN
    <3>1. /\ alive = TRUE /\ said = <<>> /\ asked = 0
          /\ log = <<>> /\ learned = 0 /\ blurred = FALSE /\ reverted = FALSE
      BY DEF MemoryInit
    <3>2. <<>> \in Seq(Message) /\ <<>> \in Seq(Nat)
      OBVIOUS
    <3>3. alive \in BOOLEAN /\ blurred \in BOOLEAN /\ reverted \in BOOLEAN
      BY <3>1
    <3>4. said \in Seq(Message) /\ log \in Seq(Nat)
      BY <3>1, <3>2
    <3>5. asked \in 0..MaxAsked /\ learned \in Nat
      BY <3>1, LimitsAssumption
    <3> QED  BY <3>3, <3>4, <3>5
  <2> QED  BY <2>2, <2>3, <2>4, <2>5 DEF MemoryTypeOK
<1>2. MemoryIsExplained
  BY NoRowIsSound DEF MemoryInit, MemoryIsExplained
<1>3. Explained(said)
  BY DEF MemoryInit, Explained
<1>4. \A w \in Writers : WriterOK(work[w])
  <2>1. \A w \in Writers : work[w] = Resting
    BY DEF MemoryInit
  <2> QED  BY <2>1, RestingIsOK
<1>5. row = NoRow /\ learned = 0
  BY DEF MemoryInit
<1>6. SoundRow(row)
  BY <1>5, NoRowIsSound DEF SoundRow
<1> QED  BY <1>1, <1>2, <1>3, <1>4, <1>5, <1>6 DEF MemoryInv

\* While the row stays as it is, so does what the requests know of it.
LEMMA WriterStays ==
  ASSUME NEW q, row' = row, WriterOK(q)
  PROVE  WriterOK(q)'
BY DEF WriterOK, SoundRow, UpToDate, Handed

Stretch == {"load", "select", "write"}

\* A step of one request that leaves the row alone.
LEMMA WriterMoves ==
  ASSUME MemoryInv, NEW w \in Writers, NEW q \in Request,
         work' = [work EXCEPT ![w] = q], WriterOK(q),
         alive' = alive, row' = row, asked' \in 0..MaxAsked, UNCHANGED ghosts,
         said' \in Seq(Message), Explained(said)',
         loop \in {NoWriter, w},
         loop' = IF q.at \in Stretch THEN w ELSE NoWriter
  PROVE  MemoryInv'
<1>1. MemoryTypeOK /\ work'[w] = q /\ \A v \in Writers \ {w} : work'[v] = work[v]
  BY DEF MemoryInv, MemoryTypeOK
<1>2. UNCHANGED <<log, learned, blurred, reverted>>
  BY DEF ghosts
<1>3. \A v \in Writers : work'[v].at \in Stretch <=> loop' = v
  BY <1>1, NoWriterAssumption DEF MemoryTypeOK, Stretch
<1>4. work' \in [Writers -> Request] /\ loop' \in Writers \cup {NoWriter}
  BY <1>1 DEF MemoryTypeOK
<1>5. MemoryTypeOK'
  BY <1>1, <1>2, <1>3, <1>4 DEF MemoryTypeOK, Stretch
<1>6. ASSUME NEW v \in Writers
      PROVE  WriterOK(work[v])'
  <2>1. PICK u : u = work'[v]
    OBVIOUS
  <2>2. WriterOK(u)
    BY <1>1, <2>1 DEF MemoryInv
  <2>3. WriterOK(u)'
    BY <2>2, WriterStays
  <2> QED  BY <2>1, <2>3 DEF WriterOK, SoundRow, UpToDate, Handed
<1>7. MemoryIsExplained'
  BY <1>2 DEF MemoryInv, MemoryIsExplained
<1>8. SoundRow(row)' /\ (~row'.on => learned' = 0)
  BY <1>2 DEF MemoryInv, SoundRow
<1> QED  BY <1>5, <1>6, <1>7, <1>8 DEF MemoryInv

-------------------------------------------------------------------------------
(* ConversationMemory: the messages and their annotations *)

\* A finite set that is totally ordered has a greatest element: a smallest set
\* without one has one as soon as any of its elements is taken away.
LEMMA HasGreatest ==
  ASSUME NEW T, IsFiniteSet(T), T # {}, NEW R,
         \A x, y \in T : x # y => <<x, y>> \in R \/ <<y, x>> \in R,
         \A x, y, z \in T : <<x, y>> \in R /\ <<y, z>> \in R => <<x, z>> \in R
  PROVE  \E m \in T : \A n \in T \ {m} : <<n, m>> \in R
<1> DEFINE Greatest(X) == \E m \in X : \A n \in X \ {m} : <<n, m>> \in R
           Bad == {X \in SUBSET T : X # {} /\ ~ Greatest(X)}
<1>1. SUFFICES ASSUME Bad # {} PROVE FALSE
  OBVIOUS
<1>2. Bad \subseteq FiniteSubsetsOf(T)
  BY FS_FiniteSubsetsOfFinite
<1>3. PICK X \in Bad : \A Y \in Bad : ~(<<Y, X>> \in StrictSubsetOrdering(T))
  <2> HIDE DEF Bad
  <2> QED  BY <1>1, <1>2, FS_StrictSubsetOrderingWellFounded, WFMin
<1>4. PICK x \in X : x \in T
  BY <1>3
<1>5. X \ {x} \notin Bad
  <2>1. <<X \ {x}, X>> \in StrictSubsetOrdering(T)
    BY <1>3, <1>4 DEF StrictSubsetOrdering
  <2> QED  BY <2>1, <1>3
<1>6. CASE X = {x}
  BY <1>3, <1>6
<1>7. CASE X # {x}
  <2>1. X \ {x} # {} /\ X \ {x} \in SUBSET T
    BY <1>3, <1>4, <1>7
  <2>2. PICK m \in X \ {x} : \A n \in (X \ {x}) \ {m} : <<n, m>> \in R
    BY <1>5, <2>1
  <2>3. m \in T /\ m # x /\ X \in SUBSET T
    BY <1>3, <2>2
  <2>4. CASE <<x, m>> \in R
    <3>1. \A n \in X \ {m} : <<n, m>> \in R
      BY <2>2, <2>4
    <3> QED  BY <1>3, <2>2, <3>1
  <2>5. CASE <<m, x>> \in R
    <3>1. \A n \in X \ {x} : <<n, x>> \in R
      BY <2>2, <2>3, <2>5, <1>4
    <3> QED  BY <1>3, <1>4, <3>1
  <2> QED  BY <2>3, <2>4, <2>5, <1>4
<1> QED  BY <1>6, <1>7

\* The messages of a short session are all listed.
LEMMA ShortIsListed ==
  ASSUME NEW s \in Seq(Message), Len(s) <= ListLimit
  PROVE  Listed(s) = DOMAIN s
<1>1. DOMAIN s = 1..Len(s) /\ Len(s) \in Nat /\ ListLimit \in Nat
  BY LimitsAssumption
<1>2. ASSUME NEW i \in DOMAIN s
      PROVE  Cardinality({j \in DOMAIN s : Earlier(s, j, i)}) < ListLimit
  <2> DEFINE E == {j \in DOMAIN s : Earlier(s, j, i)}
             D == (1..Len(s)) \ {i}
  <2>1. i \in 1..Len(s) /\ s[i].at \in Nat /\ i \in Nat
    <3>1. i \in 1..Len(s)
      BY <1>1
    <3>2. s[i] \in Message
      BY <3>1
    <3> QED  BY <1>1, <3>1, <3>2 DEF Message
  <2>2. E \in SUBSET D
    BY <1>1, <2>1 DEF Earlier
  <2>3. IsFiniteSet(1..Len(s)) /\ Cardinality(1..Len(s)) = Len(s)
    <3>1. PICK n \in Nat : n = Len(s)
      BY <1>1
    <3>2. IsFiniteSet(1..n) /\ Cardinality(1..n) = IF 1 > n THEN 0 ELSE n - 1 + 1
      BY FS_Interval
    <3>3. Cardinality(1..n) = n
      BY <3>2
    <3> QED  BY <3>1, <3>2, <3>3
  <2>4. IsFiniteSet(D) /\ Cardinality(D) = Len(s) - 1
    BY <2>1, <2>3, FS_RemoveElement
  <2> HIDE DEF E, D
  <2>5. Cardinality(E) <= Cardinality(D) /\ Cardinality(E) \in Nat
    BY <2>2, <2>4, FS_Subset, FS_CardinalityType
  <2>6. Cardinality(E) < ListLimit
    BY <1>1, <2>4, <2>5
  <2> QED  BY <2>6 DEF E
<1> QED  BY <1>2 DEF Listed

\* A message that is no bare follow-up and no annotated turn leaves the others
\* explained.
LEMMA QuietAppend ==
  ASSUME NEW s \in Seq(Message), Explained(s), NEW m \in Message,
         ~(m.role = "follow_up" /\ m.mark = "none"),
         ~(m.role = "turn" /\ m.mark = "follow_up")
  PROVE  Append(s, m) \in Seq(Message) /\ Explained(Append(s, m))
<1>1. PICK t : t = Append(s, m)
  OBVIOUS
<1>2. /\ t \in Seq(Message) /\ Len(t) = Len(s) + 1 /\ Len(s) \in Nat
      /\ t[Len(s) + 1] = m /\ \A i \in 1..Len(s) : t[i] = s[i]
      /\ DOMAIN s = 1..Len(s) /\ DOMAIN t = 1..(Len(s) + 1)
  BY <1>1, AppendProperties
<1>3. ASSUME Len(t) <= ListLimit, NEW i \in DOMAIN t
      PROVE  /\ (t[i].role = "follow_up" /\ t[i].mark = "none") =>
                  \E j \in 1..(i - 1) : t[j].role # "user" /\ Earlier(t, i, j)
             /\ (t[i].role = "turn" /\ t[i].mark = "follow_up") =>
                  \E j \in DOMAIN t : j > i /\ t[j].role = "follow_up" /\ Earlier(t, j, i)
  <2>1. Len(s) <= ListLimit
    BY <1>2, <1>3, LimitsAssumption
  <2>2. CASE i = Len(s) + 1
    BY <1>2, <2>2
  <2>3. CASE i \in 1..Len(s)
    <3>1. ASSUME NEW j \in 1..Len(s) PROVE /\ Earlier(t, i, j) <=> Earlier(s, i, j)
                                           /\ Earlier(t, j, i) <=> Earlier(s, j, i)
      BY <1>2, <2>3 DEF Earlier
    <3>2. ASSUME t[i].role = "follow_up", t[i].mark = "none"
          PROVE  \E j \in 1..(i - 1) : t[j].role # "user" /\ Earlier(t, i, j)
      <4>1. PICK j \in 1..(i - 1) : s[j].role # "user" /\ Earlier(s, i, j)
        BY <1>2, <2>1, <2>3, <3>2 DEF Explained
      <4>2. j \in 1..Len(s)
        BY <1>2, <2>3
      <4> QED  BY <1>2, <3>1, <4>1, <4>2
    <3>3. ASSUME t[i].role = "turn", t[i].mark = "follow_up"
          PROVE  \E j \in DOMAIN t : j > i /\ t[j].role = "follow_up" /\ Earlier(t, j, i)
      <4>1. PICK j \in 1..Len(s) : j > i /\ s[j].role = "follow_up" /\ Earlier(s, j, i)
        BY <1>2, <2>1, <2>3, <3>3 DEF Explained
      <4>2. t[j].role = "follow_up" /\ Earlier(t, j, i) /\ j \in DOMAIN t
        BY <1>2, <3>1, <4>1
      <4> QED  BY <4>1, <4>2
    <3> QED  BY <3>2, <3>3
  <2> QED  BY <1>2, <2>2, <2>3
<1>4. Explained(t)
  BY <1>3 DEF Explained
<1> QED  BY <1>1, <1>2, <1>4

\* The answers of a list, and the one that is annotated.
AnswersIn(msgs) == {i \in Listed(msgs) : msgs[i].role # "user"}
LastAnswer(msgs) ==
    CHOOSE i \in AnswersIn(msgs) : \A j \in AnswersIn(msgs) \ {i} : Earlier(msgs, j, i)

LEMMA AnnotatedIs ==
  ASSUME NEW s
  PROVE  Annotated(s) = IF AnswersIn(s) = {} \/ s[LastAnswer(s)].mark = "out_of_context" THEN s
                        ELSE [s EXCEPT ![LastAnswer(s)].mark = "follow_up"]
BY Zenon DEF Annotated, AnswersIn, LastAnswer

\* An annotation marks one message and changes nothing else.
LEMMA AnnotatedShape ==
  ASSUME NEW s \in Seq(Message)
  PROVE  /\ Annotated(s) \in Seq(Message) /\ Len(Annotated(s)) = Len(s)
         /\ \A i \in DOMAIN s :
               /\ Annotated(s)[i].role = s[i].role /\ Annotated(s)[i].at = s[i].at
               /\ Annotated(s)[i].mark # s[i].mark =>
                     /\ i = LastAnswer(s) /\ s[LastAnswer(s)].mark # "out_of_context"
                     /\ AnswersIn(s) # {} /\ Annotated(s)[i].mark = "follow_up"
               /\ (i = LastAnswer(s) /\ s[i].mark # "out_of_context" /\ AnswersIn(s) # {}) =>
                     Annotated(s)[i].mark = "follow_up"
<1> DEFINE k == LastAnswer(s)
           m == [s[k] EXCEPT !.mark = "follow_up"]
<1>1. CASE AnswersIn(s) = {} \/ s[k].mark = "out_of_context" \/ k \notin DOMAIN s
  <2>1. Annotated(s) = s
    BY <1>1, AnnotatedIs
  <2> QED  BY <1>1, <2>1
<1>2. CASE AnswersIn(s) # {} /\ s[k].mark # "out_of_context" /\ k \in DOMAIN s
  <2>1. Annotated(s) = [s EXCEPT ![k] = m]
    BY <1>2, AnnotatedIs
  <2>2. k \in 1..Len(s)
    BY <1>2
  <2>3. s[k] \in Message
    BY <2>2
  <2>4. m \in Message /\ m.role = s[k].role /\ m.at = s[k].at /\ m.mark = "follow_up"
    BY <2>3 DEF Message
  <2> HIDE DEF k, m
  <2>5. /\ Annotated(s) \in Seq(Message) /\ Len(Annotated(s)) = Len(s)
        /\ \A i \in 1..Len(s) : Annotated(s)[i] = IF i = k THEN m ELSE s[i]
    BY <2>1, <2>2, <2>4, ExceptSeq
  <2>6. DOMAIN s = 1..Len(s)
    OBVIOUS
  <2> QED  BY <1>2, <2>4, <2>5, <2>6 DEF k
<1> QED  BY <1>1, <1>2

\* The last answer of a short session is the last in the order of the list.
LEMMA LastAnswerIsLast ==
  ASSUME NEW s \in Seq(Message), Len(s) <= ListLimit,
         NEW n \in DOMAIN s, s[n].role # "user"
  PROVE  /\ LastAnswer(s) \in DOMAIN s /\ s[LastAnswer(s)].role # "user"
         /\ n # LastAnswer(s) => Earlier(s, n, LastAnswer(s))
         /\ AnswersIn(s) # {}
<1> DEFINE A == AnswersIn(s)
           R == {p \in A \X A : Earlier(s, p[1], p[2])}
<1>1. DOMAIN s = 1..Len(s) /\ Len(s) \in Nat
  OBVIOUS
<1>2. A = {i \in DOMAIN s : s[i].role # "user"} /\ n \in A
  BY ShortIsListed DEF AnswersIn
<1>3. \A i \in DOMAIN s : i \in Nat /\ s[i].at \in Nat
  <2>1. ASSUME NEW i \in DOMAIN s PROVE i \in Nat /\ s[i].at \in Nat
    <3>1. i \in 1..Len(s)
      BY <1>1
    <3>2. s[i] \in Message
      BY <3>1
    <3> QED  BY <3>1, <3>2 DEF Message
  <2> QED  BY <2>1
<1>4. IsFiniteSet(A)
  <2>1. IsFiniteSet(1..Len(s))
    BY <1>1, FS_Interval
  <2>2. A \in SUBSET (1..Len(s))
    BY <1>1, <1>2
  <2> HIDE DEF A
  <2> QED  BY <2>1, <2>2, FS_Subset
<1>5. \A x, y \in A : <<x, y>> \in R <=> Earlier(s, x, y)
  <2> HIDE DEF A
  <2> QED  OBVIOUS
<1>6. \A x, y \in A : x # y => <<x, y>> \in R \/ <<y, x>> \in R
  <2> HIDE DEF R, A
  <2>1. ASSUME NEW x \in A, NEW y \in A, x # y
        PROVE  <<x, y>> \in R \/ <<y, x>> \in R
    <3>1. x \in Nat /\ y \in Nat /\ s[x].at \in Nat /\ s[y].at \in Nat
      BY <1>2, <1>3
    <3>2. Earlier(s, x, y) \/ Earlier(s, y, x)
      BY <2>1, <3>1 DEF Earlier
    <3> QED  BY <1>5, <3>2
  <2> QED  BY <2>1
<1>7. \A x, y, z \in A : <<x, y>> \in R /\ <<y, z>> \in R => <<x, z>> \in R
  <2> HIDE DEF R, A
  <2>1. ASSUME NEW x \in A, NEW y \in A, NEW z \in A, <<x, y>> \in R, <<y, z>> \in R
        PROVE  <<x, z>> \in R
    <3>1. /\ x \in Nat /\ y \in Nat /\ z \in Nat
          /\ s[x].at \in Nat /\ s[y].at \in Nat /\ s[z].at \in Nat
      BY <1>2, <1>3
    <3>2. Earlier(s, x, y) /\ Earlier(s, y, z)
      BY <1>5, <2>1
    <3>3. Earlier(s, x, z)
      BY <3>1, <3>2 DEF Earlier
    <3> QED  BY <1>5, <3>3
  <2> QED  BY <2>1
<1>8. \E m \in A : \A j \in A \ {m} : <<j, m>> \in R
  <2>1. A # {}
    BY <1>2
  <2> HIDE DEF R, A
  <2> QED  BY <1>4, <1>6, <1>7, <2>1, HasGreatest, SMTT(20)
<1>9. \E m \in A : \A j \in A \ {m} : Earlier(s, j, m)
  <2> HIDE DEF R, A
  <2> QED  BY <1>5, <1>8
<1>10. LastAnswer(s) \in A /\ \A j \in A \ {LastAnswer(s)} : Earlier(s, j, LastAnswer(s))
  BY <1>9 DEF LastAnswer
<1> QED  BY <1>2, <1>10

\* A follow-up annotates its own answer, or its transaction was the older one.
LEMMA AnnotatedExplained ==
  ASSUME NEW s \in Seq(Message), Explained(s), NEW m \in Message,
         m.role = "follow_up", m.mark = "none"
  PROVE  Annotated(Append(s, m)) \in Seq(Message) /\ Explained(Annotated(Append(s, m)))
<1> DEFINE n == Len(s) + 1
<1>1. PICK t \in Seq(Message) : t = Append(s, m)
  BY AppendProperties
<1>2. /\ Len(t) = n /\ Len(s) \in Nat /\ t[n] = m /\ \A i \in 1..Len(s) : t[i] = s[i]
      /\ DOMAIN s = 1..Len(s) /\ DOMAIN t = 1..n /\ n \in DOMAIN t
  BY <1>1, AppendProperties
<1>3. PICK k : k = LastAnswer(t)
  OBVIOUS
<1>4. PICK u : u = Annotated(t)
  OBVIOUS
<1>5. /\ u \in Seq(Message) /\ Len(u) = n /\ DOMAIN u = 1..n
      /\ \A i \in 1..n :
            /\ u[i].role = t[i].role /\ u[i].at = t[i].at
            /\ u[i].mark # t[i].mark => i = k /\ u[i].mark = "follow_up"
            /\ (i = k /\ t[i].mark # "out_of_context" /\ AnswersIn(t) # {}) =>
                  u[i].mark = "follow_up"
  BY <1>2, <1>3, <1>4, AnnotatedShape
<1>6. ASSUME NEW i \in 1..n, NEW j \in 1..n
      PROVE  /\ Earlier(u, i, j) <=> Earlier(t, i, j)
             /\ i \in 1..Len(s) /\ j \in 1..Len(s) => (Earlier(u, i, j) <=> Earlier(s, i, j))
  BY <1>2, <1>5 DEF Earlier
<1>7. ASSUME Len(u) <= ListLimit, NEW i \in 1..n
      PROVE  /\ (u[i].role = "follow_up" /\ u[i].mark = "none") =>
                  \E j \in 1..(i - 1) : u[j].role # "user" /\ Earlier(u, i, j)
             /\ (u[i].role = "turn" /\ u[i].mark = "follow_up") =>
                  \E j \in 1..n : j > i /\ u[j].role = "follow_up" /\ Earlier(u, j, i)
  <2>1. Len(s) <= ListLimit /\ Len(t) <= ListLimit
    BY <1>2, <1>5, <1>7, LimitsAssumption
  <2>2. /\ k \in 1..n /\ t[k].role # "user" /\ AnswersIn(t) # {}
        /\ n # k => Earlier(t, n, k) /\ k \in 1..Len(s)
    <3>1. /\ k \in DOMAIN t /\ t[k].role # "user" /\ AnswersIn(t) # {}
          /\ n # k => Earlier(t, n, k)
      BY <1>2, <1>3, <2>1, LastAnswerIsLast
    <3> QED  BY <1>2, <3>1
  <2> HIDE DEF n
  <2>3. ASSUME u[i].role = "follow_up", u[i].mark = "none"
        PROVE  \E j \in 1..(i - 1) : u[j].role # "user" /\ Earlier(u, i, j)
    <3>1. CASE i = n
      <4>1. n # k
        BY <1>2, <1>5, <2>2, <2>3, <3>1
      <4>2. k \in 1..(i - 1)
        BY <1>2, <2>2, <3>1, <4>1 DEF n
      <4>3. u[k].role # "user" /\ Earlier(u, i, k)
        BY <1>5, <1>6, <2>2, <3>1, <4>1
      <4> QED  BY <4>2, <4>3
    <3>2. CASE i # n
      <4>1. i \in 1..Len(s)
        BY <1>2, <3>2 DEF n
      <4>2. s[i].role = "follow_up" /\ s[i].mark = "none"
        BY <1>2, <1>5, <2>3, <4>1
      <4>3. PICK j \in 1..(i - 1) : s[j].role # "user" /\ Earlier(s, i, j)
        BY <1>2, <2>1, <4>1, <4>2 DEF Explained
      <4>4. j \in 1..Len(s) /\ j \in 1..n
        BY <1>2, <4>1 DEF n
      <4>5. u[j].role # "user" /\ Earlier(u, i, j)
        BY <1>2, <1>5, <1>6, <4>1, <4>3, <4>4
      <4> QED  BY <4>5
    <3> QED  BY <3>1, <3>2
  <2>4. ASSUME u[i].role = "turn", u[i].mark = "follow_up"
        PROVE  \E j \in 1..n : j > i /\ u[j].role = "follow_up" /\ Earlier(u, j, i)
    <3>1. i # n
      BY <1>2, <1>5, <2>4
    <3>2. i \in 1..Len(s) /\ n > i /\ n \in 1..n
      BY <1>2, <3>1 DEF n
    <3>3. CASE s[i].mark = "follow_up"
      <4>1. s[i].role = "turn"
        BY <1>2, <1>5, <2>4, <3>2
      <4>2. PICK j \in 1..Len(s) : j > i /\ s[j].role = "follow_up" /\ Earlier(s, j, i)
        BY <1>2, <2>1, <3>2, <3>3, <4>1 DEF Explained
      <4>3. j \in 1..n
        BY <1>2 DEF n
      <4>4. u[j].role = "follow_up" /\ Earlier(u, j, i)
        BY <1>2, <1>5, <1>6, <3>2, <4>2, <4>3
      <4> QED  BY <4>2, <4>3, <4>4
    <3>4. CASE s[i].mark # "follow_up"
      <4>1. i = k
        BY <1>2, <1>5, <2>4, <3>2, <3>4
      <4>2. u[n].role = "follow_up" /\ Earlier(u, n, i)
        BY <1>2, <1>5, <1>6, <2>2, <3>1, <3>2, <4>1
      <4> QED  BY <3>2, <4>2
    <3> QED  BY <3>3, <3>4
  <2> QED  BY <2>3, <2>4
<1>8. Explained(u)
  <2> HIDE DEF n
  <2> QED  BY <1>5, <1>7 DEF Explained
<1> QED  BY <1>1, <1>4, <1>5, <1>8

-------------------------------------------------------------------------------
(* ConversationMemory: the requests *)

LEMMA TimesAreNatural ==
  ASSUME MemoryTypeOK
  PROVE  Now \in Nat /\ Now + 1 \in Nat /\ asked \in Nat
<1>1. Len(said) \in Nat
  BY DEF MemoryTypeOK
<1>2. asked \in Nat
  BY LimitsAssumption DEF MemoryTypeOK
<1> QED  BY <1>1, <1>2 DEF Now

\* What a user says, and what a turn answers, leaves the annotations explained.
LEMMA Says ==
  ASSUME MemoryInv, NEW role \in {"user", "turn"}
  PROVE  Say(role, Now, "none") \in Seq(Message) /\ Explained(Say(role, Now, "none"))
<1> DEFINE m == [role |-> role, at |-> Now, mark |-> "none"]
<1>1. m \in Message /\ m.role = role /\ m.mark = "none"
  <2>1. Now \in Nat
    BY TimesAreNatural DEF MemoryInv
  <2> QED  BY <2>1 DEF Message
<1>2. said \in Seq(Message) /\ Explained(said)
  BY DEF MemoryInv, MemoryTypeOK
<1>3. Say(role, Now, "none") = Append(said, m)
  BY DEF Say
<1> HIDE DEF m
<1> QED  BY <1>1, <1>2, <1>3, QuietAppend

\* A request that has just begun.
LEMMA BeginsOK ==
  ASSUME MemoryInv, NEW w \in Writers, NEW new, Begin(w, new), row' = row, alive' = alive,
         UNCHANGED ghosts, said' \in Seq(Message), Explained(said)',
         new \in Request, new.at \in {"call", "load"}, new.kind # "none",
         new.seen \in {NoRow, row}, new.row = NoRow, new.stale = {},
         new.kind = "turn" => new.at = "call",
         new.kind = "follow_up" => new.context = new.seen.context,
         new.kind = "follow_up_rejection" => new.context = 0,
         loop' = IF new.at = "load" THEN w ELSE NoWriter
  PROVE  MemoryInv'
<1> DEFINE q == [new EXCEPT !.n = asked + 1]
<1>1. /\ loop = NoWriter /\ asked < MaxAsked /\ asked' = asked + 1
      /\ work' = [work EXCEPT ![w] = q]
  BY DEF Begin, LoopFree, Step
<1>2. asked \in Nat /\ SoundRow(row)
  BY TimesAreNatural DEF MemoryInv
<1>3. q \in Request /\ q.at = new.at /\ q.kind = new.kind /\ q.n = asked + 1
      /\ q.seen = new.seen /\ q.row = new.row /\ q.stale = new.stale
      /\ q.context = new.context
  <2>1. PICK n : n = asked + 1
    OBVIOUS
  <2>2. n \in Nat /\ q = [new EXCEPT !.n = n]
    BY <1>2, <2>1
  <2> HIDE DEF q
  <2>3. q \in Request /\ q.n = n
    BY <2>2 DEF Request
  <2>4. /\ q.at = new.at /\ q.kind = new.kind /\ q.seen = new.seen /\ q.row = new.row
        /\ q.stale = new.stale /\ q.context = new.context
    BY <2>2 DEF Request
  <2> QED  BY <2>1, <2>3, <2>4
<1> HIDE DEF q
<1>4. SoundRow(q.seen) /\ SoundRow(q.row)
  BY <1>2, <1>3, NoRowIsSound
<1>5. UpToDate(q)
  BY <1>3, NoRowIsSound DEF UpToDate
<1>6. Handed(q)
  BY <1>2, <1>3 DEF Handed
<1>7. WriterOK(q)
  BY <1>4, <1>5, <1>6 DEF WriterOK
<1>8. asked' \in 0..MaxAsked
  BY <1>1, <1>2, LimitsAssumption
<1>9. loop' = IF q.at \in Stretch THEN w ELSE NoWriter
  BY <1>3 DEF Stretch
<1> QED  BY <1>1, <1>3, <1>7, <1>8, <1>9, WriterMoves

LEMMA RequestsBegin ==
  ASSUME MemoryInv, NEW w \in Writers,
         \/ Turn(w) \/ Summarize(w)
         \/ \E q \in Questions : FollowUp(w, q) \/ FollowUpRejected(w, q)
  PROVE  MemoryInv'
<1>1. /\ Now \in Nat /\ Now + 1 \in Nat
      /\ said \in Seq(Message) /\ Explained(said) /\ row \in MemoryRow
  BY TimesAreNatural DEF MemoryInv, MemoryTypeOK
<1>2. CASE Turn(w)
  <2> DEFINE new == [Resting EXCEPT !.at = "call", !.kind = "turn"]
  <2>1. /\ new \in Request /\ new.at = "call" /\ new.kind = "turn" /\ new.seen = NoRow
        /\ new.row = NoRow /\ new.stale = {}
    BY RestingIsOK DEF Request
  <2>2. Begin(w, new) /\ said' = Say("user", Now, "none") /\ UNCHANGED <<alive, row, loop, ghosts>>
    BY <1>2 DEF Turn
  <2>3. loop' = NoWriter
    BY <2>2 DEF Begin, LoopFree
  <2>4. said' \in Seq(Message) /\ Explained(said)'
    BY <2>2, Says DEF Explained, Earlier
  <2> HIDE DEF new
  <2> QED  BY <2>1, <2>2, <2>3, <2>4, BeginsOK
<1>3. CASE Summarize(w)
  <2> DEFINE new == [Resting EXCEPT !.at = "call", !.kind = "summary", !.seen = row]
  <2>1. /\ new \in Request /\ new.at = "call" /\ new.kind = "summary" /\ new.seen = row
        /\ new.row = NoRow /\ new.stale = {}
    BY <1>1, RestingIsOK DEF Request
  <2>2. Begin(w, new) /\ UNCHANGED <<alive, row, said, loop, ghosts>>
    BY <1>3 DEF Summarize
  <2>3. loop' = NoWriter
    BY <2>2 DEF Begin, LoopFree
  <2>4. said' \in Seq(Message) /\ Explained(said)'
    BY <1>1, <2>2 DEF Explained, Earlier
  <2> HIDE DEF new
  <2> QED  BY <2>1, <2>2, <2>3, <2>4, BeginsOK
<1>4. ASSUME NEW q \in Questions, FollowUp(w, q)
      PROVE  MemoryInv'
  <2> DEFINE new == [Resting EXCEPT !.at = "call", !.kind = "follow_up", !.seen = row,
                                    !.context = row.context, !.tries = 1, !.txn = Now + 1]
  <2>1. /\ new \in Request /\ new.at = "call" /\ new.kind = "follow_up" /\ new.seen = row
        /\ new.row = NoRow /\ new.stale = {} /\ new.context = row.context
    <3>1. row.context \in Nat /\ 1 \in 0..2
      BY <1>1 DEF MemoryRow
    <3> HIDE DEF Now
    <3> QED  BY <1>1, <3>1, RestingIsOK DEF Request
  <2>2. Begin(w, new) /\ said' = Say("user", Now, "none") /\ UNCHANGED <<alive, row, loop, ghosts>>
    BY <1>4 DEF FollowUp
  <2>3. loop' = NoWriter
    BY <2>2 DEF Begin, LoopFree
  <2>4. said' \in Seq(Message) /\ Explained(said)'
    BY <2>2, Says DEF Explained, Earlier
  <2> HIDE DEF new
  <2> QED  BY <2>1, <2>2, <2>3, <2>4, BeginsOK
<1>5. ASSUME NEW q \in Questions, FollowUpRejected(w, q)
      PROVE  MemoryInv'
  <2> DEFINE new == [Resting EXCEPT !.at = "load", !.kind = "follow_up_rejection"]
             m == [role |-> "follow_up_rejection", at |-> Now + 1, mark |-> "out_of_context"]
             s == Say("user", Now, "none")
  <2>1. /\ new \in Request /\ new.at = "load" /\ new.kind = "follow_up_rejection"
        /\ new.seen = NoRow /\ new.row = NoRow /\ new.stale = {} /\ new.context = 0
    BY RestingIsOK DEF Request
  <2>2. Begin(w, new) /\ said' = Append(s, m) /\ loop' = w /\ UNCHANGED <<alive, row, ghosts>>
    BY <1>5 DEF FollowUpRejected
  <2>3. m \in Message /\ m.role = "follow_up_rejection"
    <3> HIDE DEF Now
    <3> QED  BY <1>1 DEF Message
  <2>4. s \in Seq(Message) /\ Explained(s)
    BY Says
  <2> HIDE DEF new, m, s
  <2>5. said' \in Seq(Message) /\ Explained(said)'
    <3>1. Append(s, m) \in Seq(Message) /\ Explained(Append(s, m))
      BY <2>3, <2>4, QuietAppend
    <3> QED  BY <2>2, <3>1 DEF Explained, Earlier
  <2> QED  BY <2>1, <2>2, <2>5, BeginsOK
<1> QED  BY <1>2, <1>3, <1>4, <1>5

\* What the invariant of a request looks at, but for its label.
SameBut(q, old) ==
    /\ q.kind = old.kind /\ q.n = old.n /\ q.seen = old.seen /\ q.stale = old.stale

\* A request that goes on to a step before its SELECT keeps what it has.
LEMMA EarlyOK ==
  ASSUME NEW q, NEW old, WriterOK(old), old.at # "idle", SameBut(q, old), q.row = old.row,
         q.at \in {"call", "metering", "load"} \/ IsSummary(q) \/ "row" \in q.stale,
         q.context = old.context /\ (q.kind = "turn" => q.at = "call" \/ old.at # "call")
  PROVE  WriterOK(q)
<1>1. SoundRow(q.seen) /\ SoundRow(q.row)
  BY DEF WriterOK, SameBut
<1>2. UpToDate(q)
  BY DEF WriterOK, SameBut, UpToDate, IsSummary
<1>3. Handed(q)
  BY DEF WriterOK, SameBut, Handed
<1> QED  BY <1>1, <1>2, <1>3 DEF WriterOK

\* The steps of one request while it waits for its calls.
LEMMA RequestsWait ==
  ASSUME MemoryInv, NEW w \in Writers,
         \/ TurnAnswered(w) \/ Metered(w) \/ FollowUpEmpty(w) \/ FollowUpAnswered(w)
         \/ Summarized(w) \/ Fails(w)
  PROVE  MemoryInv'
<1>1. PICK old : old = work[w]
  OBVIOUS
<1>2. /\ old \in Request /\ WriterOK(old) /\ old.at \in {"call", "metering"}
      /\ loop = NoWriter /\ asked \in 0..MaxAsked
      /\ said \in Seq(Message) /\ Explained(said)
  BY <1>1 DEF MemoryInv, MemoryTypeOK, TurnAnswered, Metered, FollowUpEmpty, FollowUpAnswered,
              Summarized, Fails, LoopFree
<1>3. CASE TurnAnswered(w)
  <2> DEFINE q == [old EXCEPT !.at = "metering", !.context = old.n]
  <2>1. /\ q \in Request /\ SameBut(q, old) /\ q.at = "metering" /\ q.context = q.n
        /\ q.row = old.row /\ q.kind = "turn" /\ q.n = old.n
    BY <1>1, <1>2, <1>3 DEF Request, SameBut, TurnAnswered
  <2>2. /\ work' = [work EXCEPT ![w] = q] /\ said' = Say("turn", Now, "none")
        /\ UNCHANGED <<alive, row, loop, asked, ghosts>>
    BY <1>1, <1>3 DEF TurnAnswered, Step
  <2> HIDE DEF q
  <2>3. SoundRow(q.seen) /\ SoundRow(q.row) /\ UpToDate(q)
    BY <1>2, <2>1 DEF WriterOK, SameBut, UpToDate
  <2>4. Handed(q)
    BY <1>2, <2>1 DEF WriterOK, Handed
  <2>5. WriterOK(q)
    BY <2>3, <2>4 DEF WriterOK
  <2>6. said' \in Seq(Message) /\ Explained(said)'
    BY <2>2, Says DEF Explained, Earlier
  <2>7. loop' = IF q.at \in Stretch THEN w ELSE NoWriter
    BY <1>2, <2>1, <2>2 DEF Stretch
  <2> QED  BY <1>2, <2>1, <2>2, <2>5, <2>6, <2>7, WriterMoves
<1>4. CASE Metered(w)
  <2> DEFINE q == [old EXCEPT !.at = "load"]
  <2>1. /\ q \in Request /\ SameBut(q, old) /\ q.at = "load" /\ q.context = old.context
        /\ q.row = old.row /\ old.at = "metering"
    BY <1>1, <1>2, <1>4 DEF Request, SameBut, Metered
  <2>2. /\ work' = [work EXCEPT ![w] = q] /\ loop' = w
        /\ UNCHANGED <<alive, row, said, asked, ghosts>>
    BY <1>1, <1>4 DEF Metered, Step
  <2> HIDE DEF q
  <2>3. WriterOK(q)
    BY <1>2, <2>1, EarlyOK
  <2>4. said' \in Seq(Message) /\ Explained(said)'
    BY <1>2, <2>2 DEF Explained, Earlier
  <2>5. loop' = IF q.at \in Stretch THEN w ELSE NoWriter
    BY <2>1, <2>2 DEF Stretch
  <2> QED  BY <1>2, <2>1, <2>2, <2>3, <2>4, <2>5, WriterMoves
<1>5. CASE FollowUpEmpty(w)
  <2> DEFINE q == [old EXCEPT !.tries = @ + 1]
  <2>1. /\ q \in Request /\ SameBut(q, old) /\ q.at = "call" /\ q.context = old.context
        /\ q.row = old.row
    BY <1>1, <1>2, <1>5 DEF Request, SameBut, FollowUpEmpty
  <2>2. /\ work' = [work EXCEPT ![w] = q]
        /\ UNCHANGED <<alive, row, said, loop, asked, ghosts>>
    BY <1>1, <1>5 DEF FollowUpEmpty, Step
  <2> HIDE DEF q
  <2>3. WriterOK(q)
    BY <1>2, <2>1, EarlyOK
  <2>4. said' \in Seq(Message) /\ Explained(said)'
    BY <1>2, <2>2 DEF Explained, Earlier
  <2>5. loop' = IF q.at \in Stretch THEN w ELSE NoWriter
    BY <1>2, <2>1, <2>2 DEF Stretch
  <2> QED  BY <1>2, <2>1, <2>2, <2>3, <2>4, <2>5, WriterMoves
<1>6. CASE FollowUpAnswered(w)
  <2> DEFINE q == [old EXCEPT !.at = "load"]
             m == [role |-> "follow_up", at |-> old.txn, mark |-> "none"]
  <2>1. /\ q \in Request /\ SameBut(q, old) /\ q.at = "load" /\ q.context = old.context
        /\ q.row = old.row /\ q.kind = "follow_up"
    BY <1>1, <1>2, <1>6 DEF Request, SameBut, FollowUpAnswered
  <2>2. /\ work' = [work EXCEPT ![w] = q] /\ loop' = w
        /\ said' = Annotated(Append(said, m))
        /\ UNCHANGED <<alive, row, asked, ghosts>>
    BY <1>1, <1>6 DEF FollowUpAnswered, Step, Say
  <2>3. m \in Message /\ m.role = "follow_up" /\ m.mark = "none"
    BY <1>2 DEF Request, Message
  <2> HIDE DEF q, m
  <2>4. WriterOK(q)
    BY <1>2, <2>1, EarlyOK
  <2>5. said' \in Seq(Message) /\ Explained(said)'
    <3>1. /\ Annotated(Append(said, m)) \in Seq(Message)
          /\ Explained(Annotated(Append(said, m)))
      BY <1>2, <2>3, AnnotatedExplained
    <3> QED  BY <2>2, <3>1 DEF Explained, Earlier
  <2>6. loop' = IF q.at \in Stretch THEN w ELSE NoWriter
    BY <2>1, <2>2 DEF Stretch
  <2> QED  BY <1>2, <2>1, <2>2, <2>4, <2>5, <2>6, WriterMoves
<1>7. CASE Summarized(w)
  <2> DEFINE q == [old EXCEPT !.at = "select"]
  <2>1. /\ q \in Request /\ SameBut(q, old) /\ q.at = "select" /\ q.context = old.context
        /\ q.row = old.row /\ IsSummary(q)
    BY <1>1, <1>2, <1>7 DEF Request, SameBut, Summarized, IsSummary
  <2>2. /\ work' = [work EXCEPT ![w] = q] /\ loop' = w
        /\ UNCHANGED <<alive, row, said, asked, ghosts>>
    BY <1>1, <1>7 DEF Summarized, Step
  <2> HIDE DEF q
  <2>3. WriterOK(q)
    BY <1>2, <2>1, EarlyOK DEF IsSummary
  <2>4. said' \in Seq(Message) /\ Explained(said)'
    BY <1>2, <2>2 DEF Explained, Earlier
  <2>5. loop' = IF q.at \in Stretch THEN w ELSE NoWriter
    BY <2>1, <2>2 DEF Stretch
  <2> QED  BY <1>2, <2>1, <2>2, <2>3, <2>4, <2>5, WriterMoves
<1>8. CASE Fails(w)
  <2>1. /\ work' = [work EXCEPT ![w] = Resting] /\ loop' = NoWriter
        /\ UNCHANGED <<alive, row, said, asked, ghosts>>
    BY <1>8 DEF Fails, End, Step
  <2>2. said' \in Seq(Message) /\ Explained(said)'
    BY <1>2, <2>1 DEF Explained, Earlier
  <2>3. loop' = IF Resting.at \in Stretch THEN w ELSE NoWriter
    BY <2>1, RestingIsOK DEF Stretch
  <2> QED  BY <1>2, <2>1, <2>2, <2>3, RestingIsOK, WriterMoves
<1> QED  BY <1>3, <1>4, <1>5, <1>6, <1>7, <1>8

\* The steps of append_exchange up to its write.
LEMMA RequestsLoad ==
  ASSUME MemoryInv, NEW w \in Writers, AppendLoad(w) \/ UpsertSelect(w) \/ UpsertFails(w)
  PROVE  MemoryInv'
<1>1. PICK old : old = work[w]
  OBVIOUS
<1>2. /\ old \in Request /\ WriterOK(old) /\ old.at \in Stretch
      /\ loop = w /\ asked \in 0..MaxAsked
      /\ said \in Seq(Message) /\ Explained(said) /\ row \in MemoryRow /\ SoundRow(row)
  BY <1>1 DEF MemoryInv, MemoryTypeOK, AppendLoad, UpsertSelect, UpsertFails, Stretch
<1>3. UNCHANGED <<alive, row, said, asked, ghosts>>
  BY DEF AppendLoad, UpsertSelect, UpsertFails
<1>4. said' \in Seq(Message) /\ Explained(said)'
  BY <1>2, <1>3 DEF Explained, Earlier
<1>5. CASE AppendLoad(w)
  <2> DEFINE q == [old EXCEPT !.at = "select", !.row = row]
  <2>1. /\ q \in Request /\ SameBut(q, old) /\ q.at = "select" /\ q.context = old.context
        /\ q.row = row /\ old.at = "load"
    BY <1>1, <1>2, <1>5 DEF Request, SameBut, AppendLoad
  <2>2. work' = [work EXCEPT ![w] = q] /\ loop' = loop
    BY <1>1, <1>5 DEF AppendLoad, Step
  <2> HIDE DEF q
  <2>3. WriterOK(q)
    BY <1>2, <2>1 DEF WriterOK, SameBut, UpToDate, Handed
  <2>4. loop' = IF q.at \in Stretch THEN w ELSE NoWriter
    BY <1>2, <2>1, <2>2 DEF Stretch
  <2> QED  BY <1>2, <1>3, <1>4, <2>1, <2>2, <2>3, <2>4, WriterMoves
<1>6. CASE UpsertSelect(w)
  <2> DEFINE q == [old EXCEPT !.at = "write", !.found = row.on]
  <2>1. /\ q \in Request /\ SameBut(q, old) /\ q.at = "write" /\ q.context = old.context
        /\ q.row = old.row /\ old.at = "select"
    <3>1. row.on \in BOOLEAN
      BY <1>2 DEF MemoryRow
    <3> QED  BY <1>1, <1>2, <1>6, <3>1 DEF Request, SameBut, UpsertSelect
  <2>2. work' = [work EXCEPT ![w] = q] /\ loop' = loop
    BY <1>1, <1>6 DEF UpsertSelect, Step
  <2> HIDE DEF q
  <2>3. WriterOK(q)
    BY <1>2, <2>1 DEF WriterOK, SameBut, UpToDate, Handed, IsSummary
  <2>4. loop' = IF q.at \in Stretch THEN w ELSE NoWriter
    BY <1>2, <2>1, <2>2 DEF Stretch
  <2> QED  BY <1>2, <1>3, <1>4, <2>1, <2>2, <2>3, <2>4, WriterMoves
<1>7. CASE UpsertFails(w)
  <2>1. work' = [work EXCEPT ![w] = Resting] /\ loop' = NoWriter
    BY <1>7 DEF UpsertFails, End, Step
  <2>2. loop' = IF Resting.at \in Stretch THEN w ELSE NoWriter
    BY <2>1, RestingIsOK DEF Stretch
  <2> QED  BY <1>2, <1>3, <1>4, <2>1, <2>2, RestingIsOK, WriterMoves
<1> QED  BY <1>5, <1>6, <1>7

-------------------------------------------------------------------------------
(* ConversationMemory: the row changes *)

\* Those who have loaded the row are told; nothing else of theirs changes.
LEMMA OutdatedTells ==
  ASSUME MemoryTypeOK, NEW others, NEW v \in Writers
  PROVE  /\ Outdated(others) \in [Writers -> Request]
         /\ Outdated(others)[v].at = work[v].at /\ Outdated(others)[v].kind = work[v].kind
         /\ Outdated(others)[v].n = work[v].n /\ Outdated(others)[v].context = work[v].context
         /\ Outdated(others)[v].seen = work[v].seen /\ Outdated(others)[v].row = work[v].row
         /\ work[v].stale \subseteq Outdated(others)[v].stale
         /\ v \in others /\ work[v].seen.on => "seen" \in Outdated(others)[v].stale
         /\ v \in others /\ work[v].row.on => "row" \in Outdated(others)[v].stale
<1> DEFINE stale(u) == work[u].stale \cup (IF work[u].seen.on THEN {"seen"} ELSE {})
                                     \cup (IF work[u].row.on THEN {"row"} ELSE {})
           told(u) == [work[u] EXCEPT !.stale = stale(u)]
<1>1. ASSUME NEW u \in Writers
      PROVE  /\ told(u) \in Request /\ told(u).at = work[u].at /\ told(u).kind = work[u].kind
             /\ told(u).n = work[u].n /\ told(u).context = work[u].context
             /\ told(u).seen = work[u].seen /\ told(u).row = work[u].row
             /\ told(u).stale = stale(u) /\ work[u] \in Request
  <2>1. work[u] \in Request
    BY DEF MemoryTypeOK
  <2>2. stale(u) \in SUBSET {"seen", "row"}
    BY <2>1 DEF Request
  <2> HIDE DEF stale
  <2> QED  BY <2>1, <2>2 DEF Request
<1>2. Outdated(others) = [u \in Writers |-> IF u \notin others THEN work[u] ELSE told(u)]
  BY DEF Outdated
<1> HIDE DEF told
<1>3. Outdated(others) \in [Writers -> Request]
  BY <1>1, <1>2
<1>4. Outdated(others)[v] = IF v \notin others THEN work[v] ELSE told(v)
  BY <1>2
<1> QED  BY <1>1, <1>3, <1>4

\* A request that is told, and is not about to write unless the row is gone.
LEMMA ToldOK ==
  ASSUME MemoryInv, NEW others, NEW v \in Writers, v \in others,
         work'[v] = Outdated(others)[v],
         work[v].at \in {"select", "write"} => row' = NoRow
  PROVE  WriterOK(work[v])'
<1>1. PICK old : old = work[v]
  OBVIOUS
<1>2. PICK q : q = work'[v]
  OBVIOUS
<1>3. /\ q.at = old.at /\ q.kind = old.kind /\ q.n = old.n /\ q.context = old.context
      /\ q.seen = old.seen /\ q.row = old.row /\ old.stale \subseteq q.stale
      /\ old.seen.on => "seen" \in q.stale
      /\ old.row.on => "row" \in q.stale
  BY <1>1, <1>2, OutdatedTells DEF MemoryInv
<1>4. WriterOK(old) /\ SoundRow(row) /\ (old.at \in {"select", "write"} => row' = NoRow)
  BY <1>1 DEF MemoryInv
<1>5. SoundRow(q.seen) /\ SoundRow(q.row)
  BY <1>3, <1>4 DEF WriterOK
<1>6. UpToDate(q)'
  <2>1. q.seen.on => "seen" \in q.stale
    BY <1>3
  <2>2. ASSUME q.at \in {"select", "write"}, ~IsSummary(q), "row" \notin q.stale
        PROVE  q.row = row'
    <3>1. ~q.row.on
      BY <1>3, <2>2
    <3> QED  BY <1>3, <1>4, <1>5, <2>2, <3>1 DEF SoundRow
  <2> QED  BY <2>1, <2>2 DEF UpToDate, IsSummary
<1>7. Handed(q)
  BY <1>3, <1>4 DEF WriterOK, Handed
<1> QED  BY <1>2, <1>5, <1>6, <1>7 DEF WriterOK, SoundRow, Handed, UpToDate

\* The memory is cleared, or the session deleted.
LEMMA GoneKeeps ==
  ASSUME MemoryInv, ClearMemory \/ DeleteSession
  PROVE  MemoryInv'
<1>1. /\ row' = NoRow /\ work' = Outdated(Writers)
      /\ log' = <<>> /\ learned' = 0 /\ blurred' = FALSE /\ reverted' = FALSE
      /\ loop' = loop /\ asked' = asked
  BY DEF ClearMemory, DeleteSession, Gone
<1>2. alive' \in BOOLEAN /\ said' \in Seq(Message) /\ Explained(said)'
  <2>1. CASE ClearMemory
    BY <2>1 DEF ClearMemory, MemoryInv, MemoryTypeOK, Explained, Earlier
  <2>2. CASE DeleteSession
    <3>1. alive' = FALSE /\ said' = <<>>
      BY <2>2 DEF DeleteSession
    <3>2. alive' \in BOOLEAN
      BY <3>1
    <3>3. said' \in Seq(Message) /\ Explained(said)'
      BY <3>1 DEF Explained
    <3> QED  BY <3>2, <3>3
  <2> QED  BY <2>1, <2>2
<1>3. ASSUME NEW v \in Writers
      PROVE  WriterOK(work[v])' /\ work'[v].at = work[v].at
  BY <1>1, ToldOK, OutdatedTells DEF MemoryInv
<1>4. work' \in [Writers -> Request]
  <2>1. CASE Writers = {}
    BY <1>1, <2>1 DEF Outdated
  <2>2. CASE Writers # {}
    BY <1>1, <2>2, OutdatedTells DEF MemoryInv
  <2> QED  BY <2>1, <2>2
<1>5. MemoryTypeOK'
  <2>1. row' \in MemoryRow /\ Len(row'.recent) <= KeepRecent /\ Len(row'.long) <= KeepLong
    BY <1>1, NoRowIsSound DEF SoundRow
  <2>2. log' \in Seq(Nat) /\ learned' \in Nat /\ blurred' \in BOOLEAN /\ reverted' \in BOOLEAN
    <3>1. log' \in Seq(Nat) /\ learned' \in Nat
      BY <1>1
    <3>2. blurred' \in BOOLEAN /\ reverted' \in BOOLEAN
      BY <1>1
    <3> QED  BY <3>1, <3>2
  <2>3. \A v \in Writers : work'[v].at \in {"load", "select", "write"} <=> loop' = v
    BY <1>1, <1>3 DEF MemoryInv, MemoryTypeOK
  <2>4. loop' \in Writers \cup {NoWriter} /\ asked' \in 0..MaxAsked
    BY <1>1 DEF MemoryInv, MemoryTypeOK
  <2> QED  BY <1>2, <1>4, <2>1, <2>2, <2>3, <2>4 DEF MemoryTypeOK
<1>6. MemoryIsExplained'
  BY <1>1, NoRowIsSound DEF MemoryIsExplained
<1>7. SoundRow(row)'
  BY <1>1, NoRowIsSound DEF SoundRow
<1> QED  BY <1>1, <1>2, <1>3, <1>5, <1>6, <1>7 DEF MemoryInv

\* What a summary leaves in the row.
LEMMA SummaryWrites ==
  ASSUME NEW q \in Request, IsSummary(q), SoundRow(q.seen), row \in MemoryRow, SoundRow(row)
  PROVE  /\ Upserted(q) \in MemoryRow /\ SoundRow(Upserted(q)) /\ Upserted(q).on
         /\ Upserted(q).recent = IF q.seen.recent = <<>> THEN row.recent ELSE q.seen.recent
         /\ Upserted(q).long = IF ~q.seen.on THEN row.long ELSE q.seen.long
         /\ Upserted(q).context = IF q.seen.context = 0 THEN row.context ELSE q.seen.context
<1> DEFINE new == Snapshot(q)
           all == Kept(new, row)
           r == Upserted(q)
<1>1. q.seen \in MemoryRow /\ q.n \in Nat
  BY DEF Request
<1>2. new \in MemoryRow /\ new.on /\ new.recent = q.seen.recent /\ new.long = q.seen.long
      /\ new.context = q.seen.context /\ new.summary = q.n
  BY <1>1 DEF Snapshot, MemoryRow
<1>3. r = IF ~q.seen.on THEN [all EXCEPT !.long = row.long] ELSE all
  BY DEF Upserted
<1> HIDE DEF new
<1>4. /\ all \in MemoryRow /\ all.on /\ all.long = new.long
      /\ all.recent = IF new.recent = <<>> THEN row.recent ELSE new.recent
      /\ all.context = IF new.context = 0 THEN row.context ELSE new.context
  BY <1>2 DEF Kept, MemoryRow
<1> HIDE DEF all
<1>5. /\ r \in MemoryRow /\ r.on /\ r.recent = all.recent /\ r.context = all.context
      /\ r.long = IF ~q.seen.on THEN row.long ELSE all.long
  <2> HIDE DEF r
  <2> QED  BY <1>3, <1>4 DEF MemoryRow
<1>6. SoundRow(r)
  <2> HIDE DEF r
  <2> QED  BY <1>2, <1>4, <1>5 DEF SoundRow
<1> QED  BY <1>2, <1>4, <1>5, <1>6

\* What an exchange leaves in the row.
LEMMA ExchangeWrites ==
  ASSUME NEW q \in Request, ~IsSummary(q), row \in MemoryRow
  PROVE  /\ Upserted(q) \in MemoryRow /\ SoundRow(Upserted(q)) /\ Upserted(q).on
         /\ Upserted(q).recent = LastOf(Append(q.row.recent, q.n), KeepRecent)
         /\ Upserted(q).long = LastOf(Append(q.row.long, q.n), KeepLong)
         /\ Upserted(q).context = IF q.context # 0 THEN q.context
                                  ELSE IF q.row.context # 0 THEN q.row.context ELSE row.context
<1> DEFINE new == Exchange(q)
           latest == LastOf(Append(q.row.recent, q.n), KeepRecent)
           long == LastOf(Append(q.row.long, q.n), KeepLong)
           context == IF q.context # 0 THEN q.context ELSE q.row.context
           r == Upserted(q)
<1>1. q.row \in MemoryRow /\ q.n \in Nat /\ q.context \in Nat
  BY DEF Request
<1>2. ASSUME NEW s \in Seq(Nat), NEW k \in Nat \ {0}
      PROVE  /\ LastOf(Append(s, q.n), k) \in Seq(Nat)
             /\ LastOf(Append(s, q.n), k) # <<>>
             /\ Len(LastOf(Append(s, q.n), k)) <= k
  <2>1. PICK t \in Seq(Nat) : t = Append(s, q.n)
    BY <1>1, AppendProperties
  <2>2. Len(t) = Len(s) + 1 /\ Len(s) \in Nat
    BY <1>1, <2>1, AppendProperties
  <2>3. /\ LastOf(t, k) \in Seq(Nat)
        /\ Len(LastOf(t, k)) = IF Len(t) <= k THEN Len(t) ELSE k
    BY LastOfProperties
  <2>4. Len(LastOf(t, k)) > 0 /\ Len(LastOf(t, k)) <= k
    BY <2>2, <2>3
  <2>5. LastOf(t, k) # <<>>
    BY <2>4
  <2> QED  BY <2>1, <2>3, <2>4, <2>5
<1>3. q.row.recent \in Seq(Nat) /\ q.row.long \in Seq(Nat) /\ q.row.context \in Nat
      /\ q.row.summary \in Nat
  BY <1>1 DEF MemoryRow
<1>4. /\ latest \in Seq(Nat) /\ latest # <<>> /\ Len(latest) <= KeepRecent
      /\ long \in Seq(Nat) /\ Len(long) <= KeepLong
  BY <1>2, <1>3, LimitsAssumption
<1>5. context \in Nat
  BY <1>1, <1>3
<1>6. new = [on |-> TRUE, recent |-> latest, long |-> long, context |-> context,
             summary |-> q.row.summary]
  BY DEF Exchange
<1> HIDE DEF latest, long, context
<1>7. /\ new \in MemoryRow /\ new.on /\ new.recent = latest /\ new.long = long
      /\ new.context = context
  BY <1>3, <1>4, <1>5, <1>6 DEF MemoryRow
<1>8. r = Kept(new, row)
  BY DEF Upserted
<1> HIDE DEF new
<1>9. /\ r \in MemoryRow /\ r.on /\ r.long = new.long
      /\ r.recent = IF new.recent = <<>> THEN row.recent ELSE new.recent
      /\ r.context = IF new.context = 0 THEN row.context ELSE new.context
  <2> HIDE DEF r
  <2> QED  BY <1>7, <1>8 DEF Kept, MemoryRow
<1> HIDE DEF r
<1>10. r.recent = latest /\ r.long = long
  BY <1>4, <1>7, <1>9
<1>11. SoundRow(r)
  BY <1>4, <1>9, <1>10 DEF SoundRow
<1>12. r.context = IF q.context # 0 THEN q.context
                   ELSE IF q.row.context # 0 THEN q.row.context ELSE row.context
  BY <1>7, <1>9 DEF context
<1> QED  BY <1>9, <1>10, <1>11, <1>12 DEF r, latest, long

\* With or without a row: what its columns hold.
LEMMA RowHolds ==
  ASSUME MemoryInv
  PROVE  /\ ~blurred => row.recent = LastOf(log, KeepRecent) /\ row.long = LastOf(log, KeepLong)
         /\ ~reverted => row.context = learned
         /\ ~row.on => row.recent = <<>> /\ row.long = <<>> /\ row.context = 0
<1>1. CASE row.on
  BY <1>1 DEF MemoryInv, MemoryIsExplained
<1>2. CASE ~row.on
  <2>1. row = NoRow /\ log = <<>> /\ learned = 0
    BY <1>2 DEF MemoryInv, SoundRow, MemoryIsExplained
  <2>2. NoRow.recent = <<>> /\ NoRow.long = <<>> /\ NoRow.context = 0
    BY DEF NoRow
  <2>3. LastOf(<<>>, KeepRecent) = <<>> /\ LastOf(<<>>, KeepLong) = <<>>
    BY LimitsAssumption DEF LastOf
  <2> QED  BY <2>1, <2>2, <2>3
<1> QED  BY <1>1, <1>2

\* A write explains the row it leaves.
LEMMA WriteKeeps ==
  ASSUME MemoryInv, NEW w \in Writers, UpsertWrite(w)
  PROVE  MemoryInv'
<1>1. PICK q : q = work[w]
  OBVIOUS
<1>2. /\ q \in Request /\ WriterOK(q) /\ q.at = "write" /\ loop = w
      /\ row \in MemoryRow /\ SoundRow(row) /\ log \in Seq(Nat) /\ learned \in Nat
      /\ said \in Seq(Message) /\ Explained(said)
  BY <1>1 DEF MemoryInv, MemoryTypeOK, UpsertWrite
<1>3. /\ row' = Upserted(q)
      /\ work' = [Outdated(Writers \ {w}) EXCEPT ![w] = Resting]
      /\ loop' = NoWriter
      /\ log' = IF IsSummary(q) THEN log ELSE Append(log, q.n)
      /\ learned' = IF q.kind = "turn" THEN q.n ELSE learned
      /\ UNCHANGED <<alive, said, asked>>
  BY <1>1 DEF UpsertWrite
<1>4. /\ blurred' = (blurred \/ (IF IsSummary(q) THEN "seen" ELSE "row") \in q.stale)
      /\ reverted' = (/\ q.kind # "turn"
                      /\ reverted \/ "row" \in q.stale \/ (q.context # 0 /\ "seen" \in q.stale)
                         \/ (IsSummary(q) /\ "seen" \in q.stale))
  BY <1>1 DEF UpsertWrite
<1>5. /\ q.seen \in MemoryRow /\ q.row \in MemoryRow /\ q.n \in Nat /\ q.n # 0
      /\ SoundRow(q.seen) /\ UpToDate(q) /\ Handed(q) /\ q.kind # "none"
  BY <1>2 DEF WriterOK, Handed, Request
<1>6. row' \in MemoryRow /\ SoundRow(row') /\ row'.on
  BY <1>2, <1>3, <1>5, SummaryWrites, ExchangeWrites
<1>7. Outdated(Writers \ {w}) \in [Writers -> Request]
  BY OutdatedTells DEF MemoryInv
<1>8. work' \in [Writers -> Request] /\ work'[w] = Resting
      /\ \A v \in Writers \ {w} : work'[v] = Outdated(Writers \ {w})[v]
  BY <1>3, <1>7, RestingIsOK
<1>9. ASSUME NEW v \in Writers \ {w}
      PROVE  WriterOK(work[v])' /\ work'[v].at = work[v].at /\ work[v].at \notin Stretch
  <2>1. work[v].at \notin Stretch
    BY <1>2 DEF MemoryInv, MemoryTypeOK, Stretch
  <2>2. WriterOK(work[v])'
    BY <1>8, <2>1, ToldOK DEF Stretch
  <2> QED  BY <1>8, <2>1, <2>2, OutdatedTells DEF MemoryInv
<1>10. WriterOK(work[w])'
  BY <1>8, RestingIsOK DEF WriterOK, SoundRow, UpToDate, Handed
<1>11. MemoryTypeOK'
  <2>1. \A v \in Writers : work'[v].at \in {"load", "select", "write"} <=> loop' = v
    BY <1>3, <1>8, <1>9, RestingIsOK, NoWriterAssumption DEF Stretch
  <2>2. log' \in Seq(Nat) /\ learned' \in Nat
    BY <1>2, <1>3, <1>5, AppendProperties
  <2>3. blurred' \in BOOLEAN /\ reverted' \in BOOLEAN
    BY <1>4
  <2>4. Len(row'.recent) <= KeepRecent /\ Len(row'.long) <= KeepLong
    BY <1>6 DEF SoundRow
  <2>5. alive' \in BOOLEAN /\ said' \in Seq(Message) /\ asked' \in 0..MaxAsked
    BY <1>3 DEF MemoryInv, MemoryTypeOK
  <2>6. loop' \in Writers \cup {NoWriter}
    BY <1>3
  <2> QED  BY <1>6, <1>8, <2>1, <2>2, <2>3, <2>4, <2>5, <2>6 DEF MemoryTypeOK
<1>12. ASSUME ~blurred'
       PROVE  row'.recent = LastOf(log', KeepRecent) /\ row'.long = LastOf(log', KeepLong)
  <2>1. ~blurred /\ (IF IsSummary(q) THEN "seen" ELSE "row") \notin q.stale
    BY <1>4, <1>12
  <2>2. row.recent = LastOf(log, KeepRecent) /\ row.long = LastOf(log, KeepLong)
    BY <2>1, RowHolds
  <2>3. CASE IsSummary(q)
    <3>1. /\ row'.recent = IF q.seen.recent = <<>> THEN row.recent ELSE q.seen.recent
          /\ row'.long = IF ~q.seen.on THEN row.long ELSE q.seen.long
      BY <1>2, <1>3, <1>5, <2>3, SummaryWrites
    <3>2. CASE q.seen.on
      <4>1. q.seen = row
        BY <1>5, <2>1, <2>3, <3>2 DEF UpToDate
      <4> QED  BY <1>3, <2>2, <2>3, <3>1, <3>2, <4>1
    <3>3. CASE ~q.seen.on
      <4>1. q.seen.recent = <<>>
        BY <1>5, <3>3 DEF SoundRow, NoRow
      <4> QED  BY <1>3, <2>2, <2>3, <3>1, <3>3, <4>1
    <3> QED  BY <3>2, <3>3
  <2>4. CASE ~IsSummary(q)
    <3>1. /\ row'.recent = LastOf(Append(q.row.recent, q.n), KeepRecent)
          /\ row'.long = LastOf(Append(q.row.long, q.n), KeepLong)
      BY <1>2, <1>3, <2>4, ExchangeWrites
    <3>2. q.row = row
      BY <1>2, <1>5, <2>1, <2>4 DEF UpToDate
    <3>3. /\ LastOf(Append(LastOf(log, KeepRecent), q.n), KeepRecent)
                = LastOf(Append(log, q.n), KeepRecent)
          /\ LastOf(Append(LastOf(log, KeepLong), q.n), KeepLong)
                = LastOf(Append(log, q.n), KeepLong)
      <4>1. \A k \in Nat \ {0} : LastOf(Append(LastOf(log, k), q.n), k) = LastOf(Append(log, q.n), k)
        BY <1>2, <1>5, PrunedTwice
      <4> QED  BY <4>1, LimitsAssumption
    <3> QED  BY <1>3, <2>2, <2>4, <3>1, <3>2, <3>3
  <2> QED  BY <2>3, <2>4
<1>13. ASSUME ~reverted'
       PROVE  row'.context = learned'
  <2>1. CASE q.kind = "turn"
    <3>1. ~IsSummary(q) /\ q.context = q.n
      BY <1>2, <1>5, <2>1 DEF IsSummary, Handed
    <3>2. row'.context = q.n
      BY <1>2, <1>3, <1>5, <3>1, ExchangeWrites
    <3> QED  BY <1>3, <2>1, <3>2
  <2>2. CASE q.kind # "turn"
    <3>1. /\ ~reverted /\ "row" \notin q.stale /\ (q.context # 0 => "seen" \notin q.stale)
          /\ (IsSummary(q) => "seen" \notin q.stale)
      BY <1>4, <1>13, <2>2
    <3>2. row.context = learned /\ learned' = learned
      BY <1>3, <2>2, <3>1, RowHolds
    <3>3. ~q.seen.on => q.seen.context = 0
      BY <1>5 DEF SoundRow, NoRow
    <3>4. CASE IsSummary(q)
      <4>1. row'.context = IF q.seen.context = 0 THEN row.context ELSE q.seen.context
        BY <1>2, <1>3, <1>5, <3>4, SummaryWrites
      <4>2. q.seen.context # 0 => q.seen = row
        BY <1>5, <3>1, <3>3, <3>4 DEF UpToDate
      <4> QED  BY <3>2, <4>1, <4>2
    <3>5. CASE ~IsSummary(q)
      <4>1. row'.context = IF q.context # 0 THEN q.context
                           ELSE IF q.row.context # 0 THEN q.row.context ELSE row.context
        BY <1>2, <1>3, <3>5, ExchangeWrites
      <4>2. q.row = row
        BY <1>2, <1>5, <3>1, <3>5 DEF UpToDate
      <4>3. q.context # 0 => q.context = row.context
        <5>1. q.kind \in {"follow_up", "follow_up_rejection"}
          BY <1>2, <1>5, <2>2, <3>5 DEF Request, IsSummary
        <5>2. q.context # 0 => q.context = q.seen.context
          BY <1>2, <1>5, <5>1 DEF Handed
        <5>3. q.context # 0 => q.seen = row
          BY <1>5, <3>1, <3>3, <5>2 DEF UpToDate
        <5> QED  BY <5>2, <5>3
      <4> QED  BY <3>2, <4>1, <4>2, <4>3
    <3> QED  BY <3>4, <3>5
  <2> QED  BY <2>1, <2>2
<1>14. MemoryIsExplained'
  BY <1>6, <1>12, <1>13 DEF MemoryIsExplained
<1>15. Explained(said)'
  BY <1>2, <1>3 DEF Explained, Earlier
<1>16. SoundRow(row)' /\ \A v \in Writers : WriterOK(work[v])'
  BY <1>6, <1>9, <1>10 DEF SoundRow
<1> QED  BY <1>6, <1>11, <1>14, <1>15, <1>16 DEF MemoryInv

LEMMA MemoryPreserved == MemoryInv /\ [MemoryNext]_memoryVars => MemoryInv'
<1> SUFFICES ASSUME MemoryInv, [MemoryNext]_memoryVars PROVE MemoryInv'
  OBVIOUS
<1>1. CASE UNCHANGED memoryVars
  <2>1. UNCHANGED <<alive, row, said, work, loop, asked, log, learned, blurred, reverted>>
    BY <1>1 DEF memoryVars
  <2>2. MemoryTypeOK' /\ SoundRow(row)' /\ (~row'.on => learned' = 0)
    BY <2>1 DEF MemoryInv, MemoryTypeOK, SoundRow
  <2>3. MemoryIsExplained' /\ Explained(said)'
    BY <2>1 DEF MemoryInv, MemoryIsExplained, Explained, Earlier
  <2>4. ASSUME NEW v \in Writers PROVE WriterOK(work[v])'
    BY <2>1 DEF MemoryInv, WriterOK, SoundRow, UpToDate, Handed
  <2> QED  BY <2>2, <2>3, <2>4 DEF MemoryInv
<1>2. ASSUME NEW w \in Writers,
             \/ Turn(w) \/ TurnAnswered(w) \/ Metered(w)
             \/ \E q \in Questions : FollowUp(w, q) \/ FollowUpRejected(w, q)
             \/ FollowUpEmpty(w) \/ FollowUpAnswered(w)
             \/ Summarize(w) \/ Summarized(w) \/ Fails(w)
             \/ AppendLoad(w) \/ UpsertSelect(w) \/ UpsertFails(w) \/ UpsertWrite(w)
      PROVE  MemoryInv'
  BY <1>2, RequestsBegin, RequestsWait, RequestsLoad, WriteKeeps
<1>3. CASE ClearMemory \/ DeleteSession
  BY <1>3, GoneKeeps
<1> QED  BY <1>1, <1>2, <1>3 DEF MemoryNext

LEMMA MemoryInvariant == MemorySpec => []MemoryInv
BY MemoryInitially, MemoryPreserved, PTL DEF MemorySpec

\* The session's memory, its messages and requests have their types, one
\* request at a time holds the loop, and the lists keep their bounds.
THEOREM MemoryTypeCorrect == MemorySpec => []MemoryTypeOK
<1>1. MemoryInv => MemoryTypeOK
  BY DEF MemoryInv
<1> QED  BY <1>1, MemoryInvariant, PTL

\* The memory holds the last exchanges and the context of the last turn, except
\* where a summary, an interrupted append or a follow-up wrote back what had
\* changed since it was loaded.
THEOREM MemoryExplained == MemorySpec => []MemoryIsExplained
<1>1. MemoryInv => MemoryIsExplained
  BY DEF MemoryInv
<1> QED  BY <1>1, MemoryInvariant, PTL

\* Follow-ups annotate their own answers, except in sessions longer than the
\* list that is searched and for transactions older than another answer's.
THEOREM AnnotationExplained == MemorySpec => []AnnotationIsExplained
<1>1. MemoryInv => AnnotationIsExplained
  BY DEF MemoryInv, Explained, AnnotationIsExplained
<1> QED  BY <1>1, MemoryInvariant, PTL

-------------------------------------------------------------------------------
(* LearningProducts: the inductive invariant *)

\* A session of a lesson or a problem that was begun has its product and its name for good.
Named(s) == ai[s].st # "unborn" /\ ai[s].prod \in Products /\ ai[s].name \in Names

\* Where a request of each kind can be.
StepsOf(kind) ==
    CASE kind = "none"     -> {"idle"}
      [] kind = "generate" -> {"chat", "item", "load", "create", "mastery", "commit"}
      [] kind = "update"   -> {"update", "load", "create", "mastery", "commit"}
      [] kind = "delete"   -> {"drop", "dropSession"}
      [] kind = "view"     -> {"load", "create"}

\* What a request holds of the progress row is the row itself until another request
\* commits; and no other request has added what a generating one is about to add to.
Held(q) ==
    /\ prog[q.prod].on /\ q.agg.on
    /\ q.agg.last <= q.now /\ q.now <= day
    /\ q.kind = "generate" =>
          q.agg.made = prog[q.prod].made /\ q.agg.names = prog[q.prod].names
    /\ ~q.over => q.agg = prog[q.prod]

WorkOK(q) ==
    /\ q.at \in StepsOf(q.kind)
    /\ q.kind \in {"generate", "update"} =>
          q.s \in Sessions /\ q.prod \in Products /\ Named(q.s) /\ ai[q.s].prod = q.prod
    /\ q.kind = "generate" => q.work = 0
    /\ q.kind = "update" => q.prod \in Lessons
    /\ q.kind = "delete" => q.s \in Sessions
    /\ q.kind = "view" => q.prod \in Products
    /\ q.at = "mastery" => q.prod = "pattern"
    /\ q.at \in {"mastery", "commit"} => Held(q)

\* No two coroutines are past their chats.
OneGenerates ==
    \A p, q \in Reqs :
        p # q /\ req[p].kind = "generate" /\ req[q].kind = "generate"
        => req[p].at = "chat" \/ req[q].at = "chat"

\* A lesson is a row of a session that has its product and its name.
ItemsOK == \A s \in Sessions : item[s].on => Named(s) /\ ai[s].prod \in Lessons

\* A completed lesson without its row is about to get it, to be deleted, or was cut off.
LessonsKept ==
    \A s \in Sessions :
        ai[s].st = "completed" /\ ai[s].prod \in Lessons /\ ~item[s].on
        => s \in cut \/ \E r \in Reqs : req[r].s = s /\ req[r].at \in {"item", "dropSession"}

GhostsTyped ==
    /\ owed \in [Products -> Nat] /\ recorded \in [Products -> Nat]
    /\ crossed \subseteq Products /\ cut \subseteq Sessions
    /\ active \in [Products -> SUBSET (1..MaxDay + 1)]

\* A row that does not exist counts nothing, and its last day is not in the future.
RowsOK ==
    \A k \in Products :
        /\ ~prog[k].on => prog[k] = NoProgress /\ owed[k] = 0
        /\ prog[k].last <= day

\* While no two requests overlapped, the last day of activity is the row's.
StreaksOK ==
    \A k \in (Products \cap Lessons) \ crossed :
        /\ prog[k].streak <= Cardinality(active[k]) /\ prog[k].longest >= prog[k].streak
        /\ \A d \in active[k] : d <= prog[k].last

Progressed == GhostsTyped /\ RowsOK /\ StreaksOK /\ NothingLearnedIsLost /\ WorkLostByOverlap

LearningInv ==
    /\ LearningTypeOK
    /\ \A r \in Reqs : WorkOK(req[r])
    /\ OneGenerates /\ ItemsOK /\ LessonsKept
    /\ Progressed

-------------------------------------------------------------------------------
(* Rows that are written column by column *)

ProgressColumns ==
    {"on", "made", "names", "done", "strong", "work", "last", "streak", "longest"}
ItemColumns == {"on", "work", "st"}
MasteryColumns == {"on", "sessions", "work", "st"}

LEMMA ProgressByColumns ==
  ASSUME NEW w, w = [f \in ProgressColumns |-> w[f]],
         w.on \in BOOLEAN, w.made \in Nat, w.names \in SUBSET Names, w.done \in Nat,
         w.strong \in SUBSET Names, w.work \in Nat, w.last \in 0..MaxDay + 1,
         w.streak \in Nat, w.longest \in Nat
  PROVE  w \in ProgressRow
<1> DEFINE r == [on |-> w.on, made |-> w.made, names |-> w.names, done |-> w.done,
                 strong |-> w.strong, work |-> w.work, last |-> w.last,
                 streak |-> w.streak, longest |-> w.longest]
<1>1. r \in ProgressRow
  BY DEF ProgressRow
<1>2. r = [f \in ProgressColumns |-> r[f]]
  BY DEF ProgressColumns
<1>3. \A f \in ProgressColumns : r[f] = w[f]
  BY DEF ProgressColumns
<1>4. r = w
  BY <1>2, <1>3
<1> QED  BY <1>1, <1>4

\* A commit writes the columns that the handler changed.
LEMMA ProgressWritten ==
  ASSUME NEW rec \in ProgressRow, NEW old \in ProgressRow, NEW new \in ProgressRow,
         NEW w, w = Written(rec, old, new)
  PROVE  /\ w \in ProgressRow
         /\ \A f \in ProgressColumns : w[f] = IF new[f] # old[f] THEN new[f] ELSE rec[f]
<1>1. DOMAIN rec = ProgressColumns
  BY DEF ProgressRow, ProgressColumns
<1>2. w = [f \in ProgressColumns |-> IF new[f] # old[f] THEN new[f] ELSE rec[f]]
  BY <1>1 DEF Written
<1>3. \A f \in ProgressColumns : w[f] = IF new[f] # old[f] THEN new[f] ELSE rec[f]
  BY <1>2
<1>4. w = [f \in ProgressColumns |-> w[f]]
  BY <1>2
<1>5. /\ w.on \in BOOLEAN /\ w.made \in Nat /\ w.names \in SUBSET Names /\ w.done \in Nat
      /\ w.strong \in SUBSET Names /\ w.work \in Nat /\ w.last \in 0..MaxDay + 1
      /\ w.streak \in Nat /\ w.longest \in Nat
  BY <1>3 DEF ProgressColumns, ProgressRow
<1> QED  BY <1>3, <1>4, <1>5, ProgressByColumns

LEMMA ItemWritten ==
  ASSUME NEW rec \in ItemRow, NEW old \in ItemRow, NEW new \in ItemRow, new.on = old.on,
         NEW w, w = Written(rec, old, new)
  PROVE  w \in ItemRow /\ w.on = rec.on
<1>1. DOMAIN rec = ItemColumns
  BY DEF ItemRow, ItemColumns
<1>2. w = [f \in ItemColumns |-> IF new[f] # old[f] THEN new[f] ELSE rec[f]]
  BY <1>1 DEF Written
<1>3. \A f \in ItemColumns : w[f] = IF new[f] # old[f] THEN new[f] ELSE rec[f]
  BY <1>2
<1>4. w.on = rec.on /\ w.on \in BOOLEAN /\ w.work \in Nat
      /\ w.st \in {"active", "completed", "mastered"}
  BY <1>3 DEF ItemColumns, ItemRow
<1> DEFINE r == [on |-> w.on, work |-> w.work, st |-> w.st]
<1>5. r \in ItemRow
  BY <1>4 DEF ItemRow
<1>6. r = [f \in ItemColumns |-> r[f]]
  BY DEF ItemColumns
<1>7. \A f \in ItemColumns : r[f] = w[f]
  BY DEF ItemColumns
<1>8. r = w
  BY <1>2, <1>6, <1>7
<1> QED  BY <1>4, <1>5, <1>8

LEMMA MasteryWritten ==
  ASSUME NEW rec \in MasteryRow, NEW old \in MasteryRow, NEW new \in MasteryRow,
         NEW w, w = Written(rec, old, new)
  PROVE  /\ w \in MasteryRow
         /\ w.sessions = IF new.sessions # old.sessions THEN new.sessions ELSE rec.sessions
<1>1. DOMAIN rec = MasteryColumns
  BY DEF MasteryRow, MasteryColumns
<1>2. w = [f \in MasteryColumns |-> IF new[f] # old[f] THEN new[f] ELSE rec[f]]
  BY <1>1 DEF Written
<1>3. \A f \in MasteryColumns : w[f] = IF new[f] # old[f] THEN new[f] ELSE rec[f]
  BY <1>2
<1>4. /\ w.on \in BOOLEAN /\ w.sessions \in Nat /\ w.work \in Nat
      /\ w.st \in {"learning", "practiced", "mastered"}
  BY <1>3 DEF MasteryColumns, MasteryRow
<1> DEFINE r == [on |-> w.on, sessions |-> w.sessions, work |-> w.work, st |-> w.st]
<1>5. r \in MasteryRow
  BY <1>4 DEF MasteryRow
<1>6. r = [f \in MasteryColumns |-> r[f]]
  BY DEF MasteryColumns
<1>7. \A f \in MasteryColumns : r[f] = w[f]
  BY DEF MasteryColumns
<1>8. r = w
  BY <1>2, <1>6, <1>7
<1> QED  BY <1>3, <1>5, <1>8 DEF MasteryColumns

-------------------------------------------------------------------------------
(* Streaks and what a handler makes of the row it loaded *)

\* The streak of a lesson, as its row and today give it.
LessonStreak(rec, today) ==
    IF rec.last = 0 \/ today > rec.last + 1 THEN 1
    ELSE IF today # rec.last THEN rec.streak + 1 ELSE rec.streak

\* What a request makes of its row; a generated lesson adds its name, once.
Makes(q, n, new) ==
    /\ new \in ProgressRow /\ new.on = q.agg.on
    /\ new.work = q.agg.work + q.work /\ new.last = q.now
    /\ q.prod \in Lessons =>
          /\ new.streak = LessonStreak(q.agg, q.now)
          /\ new.longest = BiggerOf(q.agg.longest, new.streak)
    /\ q.kind = "update" => new.made = q.agg.made /\ new.names = q.agg.names
    /\ q.kind = "generate" =>
          /\ new.names = q.agg.names \cup {n}
          /\ new.made = IF q.prod = "pattern" /\ n \in q.agg.names
                        THEN q.agg.made ELSE q.agg.made + 1

LEMMA StreakedIs ==
  ASSUME NEW rec \in ProgressRow, NEW streak \in Nat, NEW today \in 1..MaxDay + 1,
         NEW new, new = Streaked(rec, streak, today)
  PROVE  /\ new \in ProgressRow /\ new.on = rec.on /\ new.work = rec.work
         /\ new.made = rec.made /\ new.names = rec.names
         /\ new.last = today /\ new.streak = streak
         /\ new.longest = BiggerOf(rec.longest, streak)
<1>1. BiggerOf(rec.longest, streak) \in Nat
  BY DEF BiggerOf, ProgressRow
<1>2. today \in 0..MaxDay + 1
  BY BoundsAreNat
<1>3. new \in ProgressRow
  BY <1>1, <1>2 DEF Streaked, ProgressRow
<1>4. /\ new.on = rec.on /\ new.work = rec.work
      /\ new.made = rec.made /\ new.names = rec.names
      /\ new.last = today /\ new.streak = streak
      /\ new.longest = BiggerOf(rec.longest, streak)
  BY DEF Streaked, ProgressRow
<1> QED  BY <1>3, <1>4

LEMMA PatternStreakIs ==
  ASSUME NEW rec \in ProgressRow, NEW today \in 1..MaxDay + 1,
         NEW new, new = PatternStreak(rec, today)
  PROVE  /\ new \in ProgressRow /\ new.on = rec.on /\ new.work = rec.work
         /\ new.made = rec.made /\ new.names = rec.names
         /\ new.last = today /\ new.streak = LessonStreak(rec, today)
         /\ new.longest = BiggerOf(rec.longest, new.streak)
<1>1. LessonStreak(rec, today) \in Nat
  BY DEF LessonStreak, ProgressRow
<1>2. new = Streaked(rec, LessonStreak(rec, today), today)
  BY DEF PatternStreak, LessonStreak
<1> QED  BY <1>1, <1>2, StreakedIs

LEMMA PracticeStreakIs ==
  ASSUME NEW rec \in ProgressRow, NEW today \in 1..MaxDay + 1,
         NEW new, new = PracticeStreak(rec, today)
  PROVE  /\ new \in ProgressRow /\ new.on = rec.on /\ new.work = rec.work
         /\ new.made = rec.made /\ new.names = rec.names /\ new.last = today
<1> DEFINE streak == IF rec.last # 0 /\ today <= rec.last + 1 THEN rec.streak + 1 ELSE 1
<1>1. streak \in Nat
  BY DEF ProgressRow
<1>2. new = Streaked(rec, streak, today)
  BY DEF PracticeStreak
<1> HIDE DEF streak
<1> QED  BY <1>1, <1>2, StreakedIs

LEMMA NewProgressMakes ==
  ASSUME NEW q \in LearningRequest, q.kind \in {"generate", "update"},
         q.prod \in Practice \cup Lessons, q.kind = "update" => q.prod \in Lessons,
         q.kind = "generate" => q.work = 0, NEW n \in Names, ai[q.s].name = n
  PROVE  Makes(q, n, NewProgress(q))
<1>1. /\ q.agg \in ProgressRow /\ q.now \in 1..MaxDay + 1 /\ q.work \in Nat /\ q.others \in Nat
      /\ q.mas \in MasteryRow
  BY DEF LearningRequest
<1> PICK a \in ProgressRow : a = q.agg
  BY <1>1
<1> PICK w \in Nat : w = q.work
  BY <1>1
<1>a. /\ a.made \in Nat /\ a.made + 1 \in Nat /\ a.done \in Nat /\ a.done + 1 \in Nat
      /\ a.work + w \in Nat /\ a.names \cup {n} \in SUBSET Names
      /\ a.strong \cup {n} \in SUBSET Names
  BY DEF ProgressRow
<1>2. CASE q.kind = "update" /\ q.prod = "pattern"
  <2> DEFINE self == IF q.mas.on THEN 1 ELSE 0
             worked == [a EXCEPT !.work = a.work + w]
             rec == IF q.mark = "mastered"
                    THEN [worked EXCEPT !.done = q.others + self, !.strong = a.strong \cup {n}]
                    ELSE worked
  <2>9. (IF q.mas.on THEN 1 ELSE 0) \in Nat
    OBVIOUS
  <2>8. q.others + self \in Nat
    BY <1>1, <2>9
  <2> HIDE DEF self
  <2>1. worked \in ProgressRow
    BY <1>a, <1>1 DEF ProgressRow
  <2>7. ASSUME NEW b \in ProgressRow, NEW d \in Nat, NEW names \in SUBSET Names
        PROVE  [b EXCEPT !.done = d, !.strong = names] \in ProgressRow
    BY DEF ProgressRow
  <2>0. rec \in ProgressRow
    BY <1>a, <2>1, <2>7, <2>8
  <2>2. /\ rec.on = q.agg.on /\ rec.work = q.agg.work + q.work
        /\ rec.made = q.agg.made /\ rec.names = q.agg.names
        /\ rec.last = q.agg.last /\ rec.streak = q.agg.streak /\ rec.longest = q.agg.longest
    BY <1>a, <1>1, <2>1 DEF ProgressRow
  <2>5. NewProgress(q) = PatternDeltas(q)
    BY <1>2 DEF NewProgress
  <2>6. PatternDeltas(q) = PatternStreak(rec, q.now)
    BY <1>2 DEF PatternDeltas, self
  <2>3. NewProgress(q) = PatternStreak(rec, q.now)
    BY <2>5, <2>6
  <2> HIDE DEF rec, worked
  <2>4. LessonStreak(rec, q.now) = LessonStreak(q.agg, q.now)
    BY <2>2 DEF LessonStreak
  <2> QED  BY <1>1, <1>2, <2>0, <2>2, <2>3, <2>4, PatternStreakIs DEF Makes
<1>3. CASE q.kind = "update" /\ q.prod = "course"
  <2> DEFINE rec == [a EXCEPT !.work = a.work + w,
                                  !.done = IF q.mark = "completed" THEN a.done + 1 ELSE a.done]
  <2>0. rec \in ProgressRow
    BY <1>a, <1>1 DEF ProgressRow
  <2>2. /\ rec.on = q.agg.on /\ rec.work = q.agg.work + q.work
        /\ rec.made = q.agg.made /\ rec.names = q.agg.names
        /\ rec.last = q.agg.last /\ rec.streak = q.agg.streak /\ rec.longest = q.agg.longest
    BY <1>a, <1>1 DEF ProgressRow
  <2>5. NewProgress(q) = CourseDeltas(q)
    BY <1>3 DEF NewProgress
  <2>6. CourseDeltas(q) = PatternStreak(rec, q.now)
    BY <1>3 DEF CourseDeltas, CourseStreak
  <2>3. NewProgress(q) = PatternStreak(rec, q.now)
    BY <2>5, <2>6
  <2> HIDE DEF rec
  <2>4. LessonStreak(rec, q.now) = LessonStreak(q.agg, q.now)
    BY <2>2 DEF LessonStreak
  <2> QED  BY <1>1, <1>3, <2>0, <2>2, <2>3, <2>4, PatternStreakIs DEF Makes
<1>4. CASE q.kind = "generate" /\ q.prod \in Practice
  <2> DEFINE rec == [a EXCEPT !.made = a.made + 1, !.done = a.done + 1, !.names = a.names \cup {n}]
  <2>0. rec \in ProgressRow
    BY <1>a, <1>1, <1>4 DEF ProgressRow
  <2>2. /\ rec.on = q.agg.on /\ rec.work = q.agg.work + q.work
        /\ rec.made = q.agg.made + 1 /\ rec.names = q.agg.names \cup {n}
    BY <1>a, <1>1, <1>4 DEF ProgressRow
  <2>3. NewProgress(q) = PracticeStreak(rec, q.now)
    BY <1>4 DEF NewProgress, LeetCodeAttempt, HackerRankAttempt, Practice
  <2> HIDE DEF rec
  <2>4. q.prod \notin Lessons
    BY <1>4 DEF Practice, Lessons
  <2> QED  BY <1>1, <1>4, <2>0, <2>2, <2>3, <2>4, PracticeStreakIs DEF Makes, Lessons
<1>5. CASE q.kind = "generate" /\ q.prod = "pattern"
  <2> DEFINE rec == [a EXCEPT !.names = a.names \cup {n},
                                  !.made = IF n \in a.names THEN a.made ELSE a.made + 1]
  <2>0. rec \in ProgressRow
    BY <1>a, <1>1, <1>5 DEF ProgressRow
  <2>2. /\ rec.on = q.agg.on /\ rec.work = q.agg.work + q.work
        /\ rec.made = (IF n \in q.agg.names THEN q.agg.made ELSE q.agg.made + 1)
        /\ rec.names = q.agg.names \cup {n}
        /\ rec.last = q.agg.last /\ rec.streak = q.agg.streak /\ rec.longest = q.agg.longest
    BY <1>a, <1>1, <1>5 DEF ProgressRow
  <2>3. NewProgress(q) = PatternStreak(rec, q.now)
    BY <1>5 DEF NewProgress, PatternLearned
  <2> HIDE DEF rec
  <2>4. LessonStreak(rec, q.now) = LessonStreak(q.agg, q.now)
    BY <2>2 DEF LessonStreak
  <2> QED  BY <1>1, <1>5, <2>0, <2>2, <2>3, <2>4, PatternStreakIs DEF Makes
<1>6. CASE q.kind = "generate" /\ q.prod = "course"
  <2> DEFINE rec == [a EXCEPT !.made = a.made + 1, !.names = a.names \cup {n}]
  <2>0. rec \in ProgressRow
    BY <1>a, <1>1, <1>6 DEF ProgressRow
  <2>2. /\ rec.on = q.agg.on /\ rec.work = q.agg.work + q.work
        /\ rec.made = q.agg.made + 1 /\ rec.names = q.agg.names \cup {n}
        /\ rec.last = q.agg.last /\ rec.streak = q.agg.streak /\ rec.longest = q.agg.longest
    BY <1>a, <1>1, <1>6 DEF ProgressRow
  <2>3. NewProgress(q) = PatternStreak(rec, q.now)
    BY <1>6 DEF NewProgress, CourseCreated, CourseStreak
  <2> HIDE DEF rec
  <2>4. LessonStreak(rec, q.now) = LessonStreak(q.agg, q.now)
    BY <2>2 DEF LessonStreak
  <2> QED  BY <1>1, <1>6, <2>0, <2>2, <2>3, <2>4, PatternStreakIs DEF Makes
<1> QED  BY <1>2, <1>3, <1>4, <1>5, <1>6 DEF Practice, Lessons

-------------------------------------------------------------------------------
(* The learning products: requests *)

LEMMA NoRows ==
  /\ NoItem \in ItemRow /\ NoProgress \in ProgressRow /\ NoMastery \in MasteryRow
BY BoundsAreNat DEF NoItem, ItemRow, NoProgress, ProgressRow, NoMastery, MasteryRow

LEMMA IdleIsOK == Idle \in LearningRequest /\ WorkOK(Idle) /\ Idle.at = "idle" /\ Idle.kind = "none"
<1>1. 1 \in 1..MaxDay + 1
  BY BoundsAreNat
<1>2. Idle \in LearningRequest
  BY <1>1, NoRows DEF Idle, LearningRequest, Labels
<1>3. Idle.at = "idle" /\ Idle.kind = "none"
  BY DEF Idle
<1>4. WorkOK(Idle)
  BY <1>3 DEF WorkOK, StepsOf
<1> QED  BY <1>2, <1>3, <1>4

\* Where a request is tells its kind.
LEMMA KindOf ==
  ASSUME NEW q \in LearningRequest, WorkOK(q)
  PROVE  /\ q.at = "idle" => q.kind = "none"
         /\ q.at \in {"chat", "item"} => q.kind = "generate"
         /\ q.at = "update" => q.kind = "update"
         /\ q.at \in {"drop", "dropSession"} => q.kind = "delete"
         /\ q.at \in {"load", "create"} => q.kind \in {"generate", "update", "view"}
         /\ q.at \in {"mastery", "commit"} => q.kind \in {"generate", "update"}
         /\ q.at # "idle" => q.kind # "none"
<1>1. q.kind \in {"none", "generate", "update", "delete", "view"}
  BY DEF LearningRequest
<1> QED  BY <1>1 DEF WorkOK, StepsOf

NamedStay == \A s \in Sessions : Named(s) => Named(s)' /\ ai'[s].prod = ai[s].prod
ProgressStays == UNCHANGED <<prog, mast, owed, crossed, active, recorded>>

\* A request of which nothing moves.
LEMMA WorkStays ==
  ASSUME NEW q \in LearningRequest, WorkOK(q), NamedStay, prog' = prog,
         day \in Nat, day' \in Nat, day <= day'
  PROVE  WorkOK(q)'
<1>1. q.now \in Nat
  BY DEF LearningRequest
<1>2. Held(q) => Held(q)'
  BY <1>1 DEF Held
<1>3. q.kind \in {"generate", "update"} => Named(q.s)' /\ ai'[q.s].prod = q.prod
  BY DEF WorkOK, NamedStay
<1> QED  BY <1>2, <1>3 DEF WorkOK

LEMMA ProgressedStays ==
  ASSUME LearningInv, ProgressStays, cut' \in SUBSET Sessions,
         day' \in Nat, day <= day'
  PROVE  Progressed'
<1>1. GhostsTyped'
  BY DEF LearningInv, Progressed, ProgressStays, GhostsTyped
<1>2. day \in Nat /\ \A k \in Products : prog[k].last \in Nat
  BY BoundsAreNat DEF LearningInv, LearningTypeOK, ProgressRow
<1>3. RowsOK'
  BY <1>2 DEF LearningInv, Progressed, ProgressStays, RowsOK
<1>4. StreaksOK' /\ NothingLearnedIsLost' /\ WorkLostByOverlap'
  BY DEF LearningInv, Progressed, ProgressStays, StreaksOK, NothingLearnedIsLost, WorkLostByOverlap
<1> QED  BY <1>1, <1>3, <1>4 DEF Progressed

\* What a request that moves leaves of the invariant: all but the rows of sessions.
LEMMA RequestMoves ==
  ASSUME LearningInv, NEW r \in Reqs, NEW t \in LearningRequest, WorkOK(t)',
         req' = [req EXCEPT ![r] = t], NamedStay, ProgressStays, day' = day,
         cut' \in SUBSET Sessions,
         t.kind = "generate" /\ t.at # "chat" =>
             \A q \in Reqs \ {r} : req[q].kind = "generate" => req[q].at = "chat"
  PROVE  /\ req' \in [Reqs -> LearningRequest]
         /\ req'[r] = t /\ \A q \in Reqs \ {r} : req'[q] = req[q]
         /\ (\A q \in Reqs : WorkOK(req[q]))'
         /\ OneGenerates' /\ Progressed'
<1>1. /\ req' \in [Reqs -> LearningRequest]
      /\ req'[r] = t /\ \A q \in Reqs \ {r} : req'[q] = req[q]
  BY DEF LearningInv, LearningTypeOK
<1>2. day \in Nat
  BY BoundsAreNat DEF LearningInv, LearningTypeOK
<1>3. ASSUME NEW q \in Reqs
      PROVE  WorkOK(req[q])'
  <2>1. PICK u : u = req'[q]
    OBVIOUS
  <2>2. WorkOK(u)'
    <3>1. CASE q = r
      BY <1>1, <2>1, <3>1
    <3>2. CASE q # r
      <4>1. u \in LearningRequest /\ WorkOK(u)
        BY <1>1, <2>1, <3>2 DEF LearningInv, LearningTypeOK
      <4>2. prog' = prog /\ day <= day' /\ day' \in Nat
        BY <1>2 DEF ProgressStays
      <4> QED  BY <1>2, <4>1, <4>2, WorkStays
    <3> QED  BY <3>1, <3>2
  <2> QED  BY <2>1, <2>2 DEF WorkOK, Held, Named
<1>4. OneGenerates'
  <2> SUFFICES ASSUME NEW p \in Reqs, NEW q \in Reqs, p # q,
                      req'[p].kind = "generate", req'[q].kind = "generate"
               PROVE  req'[p].at = "chat" \/ req'[q].at = "chat"
    BY DEF OneGenerates
  <2> QED  BY <1>1 DEF LearningInv, OneGenerates
<1>5. Progressed'
  BY <1>2, ProgressedStays
<1> QED  BY <1>1, <1>3, <1>4, <1>5

\* An ended request.
LEMMA RequestEndsLearning ==
  ASSUME LearningInv, NEW r \in Reqs, EndRequest(r), NamedStay, ProgressStays, day' = day,
         cut' \in SUBSET Sessions
  PROVE  /\ req' \in [Reqs -> LearningRequest]
         /\ req'[r] = Idle /\ \A q \in Reqs \ {r} : req'[q] = req[q]
         /\ (\A q \in Reqs : WorkOK(req[q]))'
         /\ OneGenerates' /\ Progressed'
<1>1. WorkOK(Idle)'
  BY IdleIsOK DEF WorkOK, Held, Named
<1> QED  BY <1>1, IdleIsOK, RequestMoves DEF EndRequest

\* A request at one of these labels stands in for the row of its lesson.
Covers(q) == q.at \in {"item", "dropSession"}

\* Lessons whose rows and states stay are covered as they were, but by the request that
\* moves.
LEMMA LessonsStay ==
  ASSUME LearningInv, NEW r \in Reqs, \A q \in Reqs \ {r} : req'[q] = req[q],
         cut \subseteq cut', NEW S \in SUBSET Sessions,
         \A s \in S : /\ ai'[s].st = "completed" => ai[s].st = "completed"
                      /\ ai'[s].st = "completed" => ai'[s].prod = ai[s].prod
                      /\ item[s].on => item'[s].on
                      /\ Covers(req[r]) => req[r].s # s
  PROVE  \A s \in S : ai'[s].st = "completed" /\ ai'[s].prod \in Lessons /\ ~item'[s].on
           => s \in cut' \/ \E q \in Reqs : req'[q].s = s /\ req'[q].at \in {"item", "dropSession"}
BY DEF LearningInv, LessonsKept, Covers

\* A request starts with a record of its own; it was idle before.
LEMMA StartsOK ==
  ASSUME LearningInv, NEW r \in Reqs, NEW t \in LearningRequest, BeginRequest(r, t), WorkOK(t)',
         t.kind = "generate" => t.at = "chat", NamedStay, ProgressStays, day' = day, cut' = cut
  PROVE  /\ req' \in [Reqs -> LearningRequest]
         /\ req'[r] = t /\ \A q \in Reqs \ {r} : req'[q] = req[q]
         /\ (\A q \in Reqs : WorkOK(req[q]))'
         /\ OneGenerates' /\ Progressed' /\ starts' \in 0..MaxStarts
         /\ ~Covers(req[r])
<1>1. cut' \in SUBSET Sessions
  BY DEF LearningInv, Progressed, GhostsTyped
<1>2. starts' \in 0..MaxStarts
  BY BoundsAreNat DEF BeginRequest, LearningInv, LearningTypeOK
<1>3. req' = [req EXCEPT ![r] = t] /\ ~Covers(req[r])
  BY DEF BeginRequest, At, Covers
<1> HIDE DEF BeginRequest
<1> QED  BY <1>1, <1>2, <1>3, RequestMoves

LEMMA ChatStarts ==
  ASSUME LearningInv, NEW r \in Reqs, NEW k \in Products, NEW s \in Sessions, NEW n \in Names,
         StartChat(r, k, s, n)
  PROVE  LearningInv'
<1>1. PICK t : t = [Idle EXCEPT !.at = "chat", !.kind = "generate", !.prod = k, !.s = s]
  OBVIOUS
<1>2. /\ t \in LearningRequest /\ t.at = "chat" /\ t.kind = "generate" /\ t.prod = k
      /\ t.s = s /\ t.work = 0
  BY <1>1, IdleIsOK DEF LearningRequest, Labels, Idle
<1>3. /\ ai[s].st = "unborn" /\ ai' = [ai EXCEPT ![s] = [st |-> "active", prod |-> k, name |-> n]]
      /\ ai \in [Sessions -> AiSession]
  BY DEF StartChat, LearningInv, LearningTypeOK
<1>4. /\ ai' \in [Sessions -> AiSession] /\ ai'[s].prod = k /\ ai'[s].st = "active" /\ ai'[s].name = n
      /\ \A x \in Sessions \ {s} : ai'[x] = ai[x]
  BY <1>3 DEF AiSession
<1>5. NamedStay /\ Named(s)'
  BY <1>3, <1>4 DEF NamedStay, Named
<1>6. WorkOK(t)'
  BY <1>2, <1>4, <1>5 DEF WorkOK, StepsOf
<1>7. BeginRequest(r, t) /\ ProgressStays /\ day' = day /\ cut' = cut /\ item' = item
  BY <1>1 DEF StartChat, learningGhosts, ProgressStays
<1>8. /\ req' \in [Reqs -> LearningRequest]
      /\ req'[r] = t /\ \A q \in Reqs \ {r} : req'[q] = req[q]
      /\ (\A q \in Reqs : WorkOK(req[q]))'
      /\ OneGenerates' /\ Progressed' /\ starts' \in 0..MaxStarts
      /\ ~Covers(req[r])
  BY <1>2, <1>5, <1>6, <1>7, StartsOK
<1>9. LearningTypeOK'
  BY <1>4, <1>7, <1>8 DEF LearningInv, LearningTypeOK, ProgressStays
<1>10. ItemsOK'
  BY <1>3, <1>4, <1>5, <1>7 DEF LearningInv, ItemsOK, NamedStay, Named
<1>11. LessonsKept'
  <2>1. \A x \in Sessions : /\ ai'[x].st = "completed" => ai[x].st = "completed"
                            /\ ai'[x].st = "completed" => ai'[x].prod = ai[x].prod
                            /\ item[x].on => item'[x].on
                            /\ Covers(req[r]) => req[r].s # x
    BY <1>4, <1>7, <1>8
  <2>2. cut \subseteq cut' /\ Sessions \in SUBSET Sessions
    BY <1>7
  <2>3. \A x \in Sessions : ai'[x].st = "completed" /\ ai'[x].prod \in Lessons /\ ~item'[x].on
          => x \in cut' \/ \E q \in Reqs : req'[q].s = x /\ req'[q].at \in {"item", "dropSession"}
    BY <1>8, <2>1, <2>2, LessonsStay
  <2> QED  BY <2>3 DEF LessonsKept
<1> QED  BY <1>8, <1>9, <1>10, <1>11 DEF LearningInv

\* An update, a deletion or a view begins; no row changes.
LEMMA OtherStarts ==
  ASSUME LearningInv, NEW r \in Reqs, NEW t \in LearningRequest, BeginRequest(r, t), WorkOK(t)',
         t.kind # "generate", UNCHANGED <<ai, item, prog, mast, day, learningGhosts>>
  PROVE  LearningInv'
<1>1. NamedStay /\ ProgressStays /\ day' = day /\ cut' = cut /\ item' = item /\ ai' = ai
  BY DEF NamedStay, Named, learningGhosts, ProgressStays
<1>2. /\ req' \in [Reqs -> LearningRequest]
      /\ req'[r] = t /\ \A q \in Reqs \ {r} : req'[q] = req[q]
      /\ (\A q \in Reqs : WorkOK(req[q]))'
      /\ OneGenerates' /\ Progressed' /\ starts' \in 0..MaxStarts
      /\ ~Covers(req[r])
  BY <1>1, StartsOK
<1>3. LearningTypeOK' /\ ItemsOK'
  BY <1>1, <1>2 DEF LearningInv, LearningTypeOK, ProgressStays, ItemsOK, NamedStay
<1>4. LessonsKept'
  <2>1. \A x \in Sessions : ai'[x].st = "completed" /\ ai'[x].prod \in Lessons /\ ~item'[x].on
          => x \in cut' \/ \E q \in Reqs : req'[q].s = x /\ req'[q].at \in {"item", "dropSession"}
    BY <1>1, <1>2, LessonsStay
  <2> QED  BY <2>1 DEF LessonsKept
<1> QED  BY <1>2, <1>3, <1>4 DEF LearningInv

LEMMA UpdateStarts ==
  ASSUME LearningInv, NEW r \in Reqs, NEW s \in Sessions, NEW w \in Works,
         NEW m \in {"no", "completed", "mastered"}, StartUpdate(r, s, w, m)
  PROVE  LearningInv'
<1>1. PICK t : t = [Idle EXCEPT !.at = "update", !.kind = "update", !.prod = ai[s].prod,
                                !.s = s, !.work = w, !.mark = m, !.copy = item[s]]
  OBVIOUS
<1>2. /\ item[s].on /\ Named(s) /\ ai[s].prod \in Lessons /\ ai[s].prod \in Products
      /\ item[s] \in ItemRow /\ w \in Nat
  BY BoundsAreNat DEF StartUpdate, LearningInv, ItemsOK, Named, LearningTypeOK
<1>3. /\ t \in LearningRequest /\ t.at = "update" /\ t.kind = "update" /\ t.prod = ai[s].prod
      /\ t.s = s
  BY <1>1, <1>2, IdleIsOK DEF LearningRequest, Labels, Idle
<1>4. BeginRequest(r, t) /\ UNCHANGED <<ai, item, prog, mast, day, learningGhosts>>
  BY <1>1 DEF StartUpdate
<1>5. WorkOK(t)'
  BY <1>2, <1>3, <1>4 DEF WorkOK, StepsOf, Named
<1> QED  BY <1>3, <1>4, <1>5, OtherStarts

LEMMA DeleteStarts ==
  ASSUME LearningInv, NEW r \in Reqs, NEW s \in Sessions, DeletePattern(r, s) \/ DeleteCourse(r, s)
  PROVE  LearningInv'
<1>1. PICK k \in {"pattern", "course"} :
        /\ item[s].on /\ ai[s].prod = k
        /\ BeginRequest(r, [Idle EXCEPT !.at = "drop", !.kind = "delete", !.prod = k, !.s = s])
        /\ UNCHANGED <<ai, item, prog, mast, day, learningGhosts>>
  BY DEF DeletePattern, DeleteCourse
<1>2. PICK t : t = [Idle EXCEPT !.at = "drop", !.kind = "delete", !.prod = k, !.s = s]
  OBVIOUS
<1>3. k \in Products
  BY <1>1 DEF LearningInv, ItemsOK, Named
<1>4. /\ t \in LearningRequest /\ t.at = "drop" /\ t.kind = "delete" /\ t.s = s
  BY <1>2, <1>3, IdleIsOK DEF LearningRequest, Labels, Idle
<1>5. WorkOK(t)'
  BY <1>4 DEF WorkOK, StepsOf
<1> QED  BY <1>1, <1>2, <1>4, <1>5, OtherStarts

LEMMA ViewStarts ==
  ASSUME LearningInv, NEW r \in Reqs, NEW k \in Products, ViewProgress(r, k)
  PROVE  LearningInv'
<1>1. PICK t : t = [Idle EXCEPT !.at = "load", !.kind = "view", !.prod = k]
  OBVIOUS
<1>2. /\ t \in LearningRequest /\ t.at = "load" /\ t.kind = "view" /\ t.prod = k
  BY <1>1, IdleIsOK DEF LearningRequest, Labels, Idle
<1>3. WorkOK(t)'
  BY <1>2 DEF WorkOK, StepsOf
<1> QED  BY <1>1, <1>2, <1>3, OtherStarts DEF ViewProgress

\* The rows of sessions change and no request moves.
LEMMA SessionsChange ==
  ASSUME LearningInv, NamedStay, ProgressStays, UNCHANGED <<req, cut>>,
         day \in Nat, day' \in 1..MaxDay + 1, day <= day', starts' \in 0..MaxStarts,
         ai' \in [Sessions -> AiSession], item' \in [Sessions -> ItemRow], ItemsOK',
         \A s \in Sessions : /\ ai'[s].st = "completed" => ai[s] = ai'[s] /\ item'[s] = item[s]
  PROVE  LearningInv'
<1>1. req \in [Reqs -> LearningRequest] /\ prog' = prog /\ day' \in Nat /\ cut' \in SUBSET Sessions
  BY DEF LearningInv, LearningTypeOK, ProgressStays, Progressed, GhostsTyped
<1>2. ASSUME NEW q \in Reqs
      PROVE  WorkOK(req[q])'
  <2>1. PICK u : u = req[q]
    OBVIOUS
  <2>2. u \in LearningRequest /\ WorkOK(u)
    BY <1>1, <2>1 DEF LearningInv
  <2>3. WorkOK(u)'
    BY <1>1, <2>2, WorkStays
  <2> QED  BY <2>1, <2>3 DEF WorkOK, Held, Named
<1>3. Progressed'
  BY <1>1, ProgressedStays
<1>4. LearningTypeOK' /\ OneGenerates'
  BY DEF LearningInv, LearningTypeOK, ProgressStays, OneGenerates
<1>5. LessonsKept'
  BY DEF LearningInv, LessonsKept
<1> QED  BY <1>2, <1>3, <1>4, <1>5 DEF LearningInv

LEMMA ManualKeeps ==
  ASSUME LearningInv, NEW k \in Products, NEW s \in Sessions, ManualRequired(k, s)
  PROVE  LearningInv'
<1>1. /\ ai \in [Sessions -> AiSession] /\ item \in [Sessions -> ItemRow] /\ day \in 1..MaxDay + 1
  BY DEF LearningInv, LearningTypeOK
<1>2. PICK rec : rec = [ai[s] EXCEPT !.st = "manual", !.prod = k]
  OBVIOUS
<1>3. rec \in AiSession /\ rec.st = "manual"
  BY <1>1, <1>2 DEF AiSession
<1>4. /\ ai' \in [Sessions -> AiSession] /\ ai'[s] = rec /\ ai[s].st = "unborn"
      /\ \A x \in Sessions \ {s} : ai'[x] = ai[x]
      /\ item' = item
  BY <1>1, <1>2, <1>3 DEF ManualRequired
<1>5. NamedStay /\ ItemsOK'
  BY <1>4 DEF NamedStay, Named, LearningInv, ItemsOK
<1>6. ProgressStays /\ UNCHANGED <<req, cut>> /\ day' = day
  BY DEF ManualRequired, ProgressStays, learningGhosts
<1>7. starts' \in 0..MaxStarts
  BY BoundsAreNat DEF ManualRequired, LearningInv, LearningTypeOK
<1>8. day \in Nat
  BY <1>1, BoundsAreNat
<1>9. \A x \in Sessions : ai'[x].st = "completed" => ai[x] = ai'[x] /\ item'[x] = item[x]
  BY <1>3, <1>4
<1> QED  BY <1>1, <1>4, <1>5, <1>6, <1>7, <1>8, <1>9, SessionsChange

LEMMA DropIs ==
  ASSUME LearningInv, NEW s \in Sessions, SessionExists(s), DropSession(s)
  PROVE  /\ ai' \in [Sessions -> AiSession] /\ item' \in [Sessions -> ItemRow]
         /\ ai'[s].st = "gone" /\ NamedStay /\ ItemsOK'
         /\ \A x \in Sessions \ {s} : ai'[x] = ai[x] /\ item'[x] = item[x]
<1>1. /\ ai \in [Sessions -> AiSession] /\ item \in [Sessions -> ItemRow]
  BY DEF LearningInv, LearningTypeOK
<1>2. PICK rec : rec = [ai[s] EXCEPT !.st = "gone"]
  OBVIOUS
<1>3. rec \in AiSession /\ rec.st = "gone" /\ rec.prod = ai[s].prod /\ rec.name = ai[s].name
  BY <1>1, <1>2 DEF AiSession
<1>4. /\ ai' \in [Sessions -> AiSession] /\ ai'[s] = rec
      /\ \A x \in Sessions \ {s} : ai'[x] = ai[x]
  BY <1>1, <1>2, <1>3 DEF DropSession
<1>5. /\ item' \in [Sessions -> ItemRow] /\ item'[s] = NoItem /\ ~NoItem.on
      /\ \A x \in Sessions \ {s} : item'[x] = item[x]
  BY <1>1, NoRows DEF DropSession, NoItem
<1>6. NamedStay
  BY <1>3, <1>4 DEF NamedStay, Named, SessionExists
<1>7. ItemsOK'
  BY <1>4, <1>5 DEF LearningInv, ItemsOK, Named
<1> QED  BY <1>3, <1>4, <1>5, <1>6, <1>7

LEMMA AiDeletionKeeps ==
  ASSUME LearningInv, NEW s \in Sessions, DeleteAiSession(s)
  PROVE  LearningInv'
<1>1. SessionExists(s) /\ DropSession(s) /\ UNCHANGED <<prog, mast, req, day, starts, learningGhosts>>
  BY DEF DeleteAiSession
<1>2. /\ ai' \in [Sessions -> AiSession] /\ item' \in [Sessions -> ItemRow]
      /\ ai'[s].st = "gone" /\ NamedStay /\ ItemsOK'
      /\ \A x \in Sessions \ {s} : ai'[x] = ai[x] /\ item'[x] = item[x]
  BY <1>1, DropIs
<1>3. ProgressStays /\ UNCHANGED <<req, cut>> /\ day' = day /\ starts' = starts
  BY <1>1 DEF ProgressStays, learningGhosts
<1>4. day \in Nat /\ day \in 1..MaxDay + 1 /\ starts \in 0..MaxStarts
  BY BoundsAreNat DEF LearningInv, LearningTypeOK
<1>5. \A x \in Sessions : ai'[x].st = "completed" => ai[x] = ai'[x] /\ item'[x] = item[x]
  BY <1>2
<1> QED  BY <1>2, <1>3, <1>4, <1>5, SessionsChange

LEMMA MidnightKeeps == LearningInv /\ Midnight => LearningInv'
<1> SUFFICES ASSUME LearningInv, Midnight PROVE LearningInv'
  OBVIOUS
<1>1. UNCHANGED <<ai, item, prog, mast, req, starts, learningGhosts>> /\ day' = day + 1 /\ day <= MaxDay
  BY DEF Midnight
<1>2. ProgressStays /\ UNCHANGED <<req, cut>> /\ NamedStay /\ ItemsOK'
  BY <1>1 DEF ProgressStays, learningGhosts, NamedStay, Named, LearningInv, ItemsOK
<1>3. /\ day \in Nat /\ day' \in 1..MaxDay + 1 /\ day <= day' /\ starts' \in 0..MaxStarts
      /\ ai' \in [Sessions -> AiSession] /\ item' \in [Sessions -> ItemRow]
  BY <1>1, BoundsAreNat DEF LearningInv, LearningTypeOK
<1>4. \A x \in Sessions : ai'[x].st = "completed" => ai[x] = ai'[x] /\ item'[x] = item[x]
  BY <1>1
<1> QED  BY <1>2, <1>3, <1>4, SessionsChange

\* A step of a request that changes the rows of sessions at most.
LEMMA StepKeeps ==
  ASSUME LearningInv, NEW r \in Reqs, NEW t \in LearningRequest, WorkOK(t)',
         req' = [req EXCEPT ![r] = t],
         t.kind = "generate" /\ t.at # "chat" =>
             \A q \in Reqs \ {r} : req[q].kind = "generate" => req[q].at = "chat",
         NamedStay, UNCHANGED <<prog, mast, day, starts, owed, crossed, active, recorded>>,
         cut \subseteq cut', cut' \in SUBSET Sessions,
         ai' \in [Sessions -> AiSession], item' \in [Sessions -> ItemRow], ItemsOK',
         \A s \in Sessions : ai'[s].st = "completed" /\ ai'[s].prod \in Lessons /\ ~item'[s].on =>
             \/ s \in cut'
             \/ t.s = s /\ t.at \in {"item", "dropSession"}
             \/ /\ ai[s].st = "completed" /\ ai[s].prod = ai'[s].prod /\ ~item[s].on
                /\ Covers(req[r]) => req[r].s # s
  PROVE  LearningInv'
<1>1. ProgressStays /\ day' = day
  BY DEF ProgressStays
<1>2. /\ req' \in [Reqs -> LearningRequest]
      /\ req'[r] = t /\ \A q \in Reqs \ {r} : req'[q] = req[q]
      /\ (\A q \in Reqs : WorkOK(req[q]))'
      /\ OneGenerates' /\ Progressed'
  BY <1>1, RequestMoves
<1>3. LearningTypeOK'
  BY <1>2 DEF LearningInv, LearningTypeOK
<1>4. LessonsKept'
  BY <1>2 DEF LearningInv, LessonsKept, Covers
<1> QED  BY <1>2, <1>3, <1>4 DEF LearningInv

\* A request that goes on was alone past its chat before.
LEMMA StillAlone ==
  ASSUME LearningInv, NEW r \in Reqs, req[r].kind = "generate", req[r].at # "chat"
  PROVE  \A q \in Reqs \ {r} : req[q].kind = "generate" => req[q].at = "chat"
BY DEF LearningInv, OneGenerates

LEMMA LearningTyped ==
  ASSUME LearningInv
  PROVE  /\ ai \in [Sessions -> AiSession] /\ item \in [Sessions -> ItemRow]
         /\ req \in [Reqs -> LearningRequest] /\ cut \in SUBSET Sessions
         /\ day \in 1..MaxDay + 1 /\ day \in Nat /\ prog \in [Products -> ProgressRow]
         /\ \A r \in Reqs : req[r] \in LearningRequest /\ WorkOK(req[r])
BY BoundsAreNat DEF LearningInv, LearningTypeOK, Progressed, GhostsTyped

\* A request ends; the rows of sessions may change where it did not cover a lesson.
LEMMA EndKeeps ==
  ASSUME LearningInv, NEW r \in Reqs, EndRequest(r),
         UNCHANGED <<ai, item, prog, mast, day, starts, owed, crossed, active, recorded>>,
         cut \subseteq cut', cut' \in SUBSET Sessions,
         Covers(req[r]) => req[r].s \in cut' \/ ai[req[r].s].st # "completed"
  PROVE  LearningInv'
<1>1. Idle \in LearningRequest /\ WorkOK(Idle)' /\ req' = [req EXCEPT ![r] = Idle]
      /\ Idle.kind # "generate"
  BY IdleIsOK DEF EndRequest, WorkOK, Held, Named
<1>2. NamedStay /\ ItemsOK' /\ ai' \in [Sessions -> AiSession] /\ item' \in [Sessions -> ItemRow]
  BY LearningTyped DEF NamedStay, Named, LearningInv, ItemsOK
<1>3. \A s \in Sessions : ai'[s].st = "completed" /\ ai'[s].prod \in Lessons /\ ~item'[s].on =>
             \/ s \in cut'
             \/ /\ ai[s].st = "completed" /\ ai[s].prod = ai'[s].prod /\ ~item[s].on
                /\ Covers(req[r]) => req[r].s # s
  OBVIOUS
<1> QED  BY <1>1, <1>2, <1>3, StepKeeps

LEMMA AcceptKeeps ==
  ASSUME LearningInv, NEW r \in Reqs, NEW next \in {"load", "item"}, Accept(r, next),
         next = "load" => req[r].prod \notin Lessons
  PROVE  LearningInv'
<1> DEFINE s == req[r].s
<1>1. req[r].at = "chat" /\ req[r] \in LearningRequest /\ WorkOK(req[r]) /\ req[r].kind = "generate"
  BY LearningTyped, KindOf DEF Accept, At
<1>2. s \in Sessions /\ Named(s) /\ ai[s].prod = req[r].prod /\ req[r].work = 0
      /\ req[r].prod \in Products
  BY <1>1 DEF WorkOK
<1>3. CASE SessionExists(s)
  <2>1. PICK t : t = [req[r] EXCEPT !.at = next]
    OBVIOUS
  <2>2. /\ t \in LearningRequest /\ t.at = next /\ t.kind = "generate" /\ t.prod = req[r].prod
        /\ t.s = s /\ t.work = 0
    BY <1>1, <1>2, <2>1 DEF LearningRequest, Labels
  <2>3. PICK rec : rec = [ai[s] EXCEPT !.st = "completed"]
    OBVIOUS
  <2>4. rec \in AiSession /\ rec.st = "completed" /\ rec.prod = ai[s].prod /\ rec.name = ai[s].name
    BY <1>2, <2>3, LearningTyped DEF AiSession
  <2>5. /\ ai' = [ai EXCEPT ![s].st = "completed"] /\ req' = [req EXCEPT ![r].at = next]
        /\ UNCHANGED <<item, prog, mast, day, starts, learningGhosts>> /\ LoopIsFree(r)
    BY <1>3 DEF Accept, Goto
  <2>6. /\ ai' \in [Sessions -> AiSession] /\ ai'[s] = rec
        /\ \A x \in Sessions \ {s} : ai'[x] = ai[x]
    BY <1>2, <2>3, <2>4, <2>5, LearningTyped
  <2>7. NamedStay /\ ItemsOK' /\ Named(t.s)'
    BY <1>2, <2>2, <2>4, <2>5, <2>6 DEF NamedStay, Named, LearningInv, ItemsOK
  <2>8. WorkOK(t)'
    BY <1>2, <2>2, <2>4, <2>6, <2>7 DEF WorkOK, StepsOf
  <2>9. req' = [req EXCEPT ![r] = t]
    BY <2>1, <2>5, LearningTyped
  <2>10. \A q \in Reqs \ {r} : req[q].kind = "generate" => req[q].at = "chat"
    BY <2>5, LearningTyped, KindOf DEF LoopIsFree
  <2>11. \A x \in Sessions : ai'[x].st = "completed" /\ ai'[x].prod \in Lessons /\ ~item'[x].on =>
             \/ t.s = x /\ t.at \in {"item", "dropSession"}
             \/ /\ ai[x].st = "completed" /\ ai[x].prod = ai'[x].prod /\ ~item[x].on
                /\ Covers(req[r]) => req[r].s # x
    <3> SUFFICES ASSUME NEW x \in Sessions, ai'[x].st = "completed", ai'[x].prod \in Lessons, ~item'[x].on
                 PROVE  \/ t.s = x /\ t.at \in {"item", "dropSession"}
                        \/ /\ ai[x].st = "completed" /\ ai[x].prod = ai'[x].prod /\ ~item[x].on
                           /\ Covers(req[r]) => req[r].s # x
      OBVIOUS
    <3>1. CASE x = s
      BY <1>2, <2>2, <2>4, <2>6, <3>1
    <3>2. CASE x # s
      BY <2>5, <2>6, <3>2
    <3> QED  BY <3>1, <3>2
  <2>12. item' \in [Sessions -> ItemRow] /\ cut' = cut /\ cut' \in SUBSET Sessions
    BY <2>5, LearningTyped DEF learningGhosts
  <2> QED  BY <2>2, <2>5, <2>6, <2>7, <2>8, <2>9, <2>10, <2>11, <2>12, StepKeeps DEF learningGhosts
<1>4. CASE ~SessionExists(s)
  <2>1. EndRequest(r) /\ UNCHANGED <<ai, item, prog, mast, day, starts, learningGhosts>>
    BY <1>4 DEF Accept
  <2>2. ~Covers(req[r])
    BY <1>1 DEF Covers
  <2> QED  BY <2>1, <2>2, EndKeeps, LearningTyped DEF learningGhosts
<1> QED  BY <1>3, <1>4

LEMMA RejectKeeps ==
  ASSUME LearningInv, NEW r \in Reqs, ChatRejected(r)
  PROVE  LearningInv'
<1>1. EndRequest(r) /\ UNCHANGED <<ai, item, prog, mast, day, starts, learningGhosts>> /\ ~Covers(req[r])
  BY DEF ChatRejected, At, Covers
<1> QED  BY <1>1, EndKeeps, LearningTyped DEF learningGhosts

LEMMA FailKeeps ==
  ASSUME LearningInv, NEW r \in Reqs, Fail(r)
  PROVE  LearningInv'
<1>1. /\ EndRequest(r) /\ cut' = cut \cup ({req[r].s} \ {None})
      /\ UNCHANGED <<ai, item, prog, mast, day, starts, owed, crossed, active, recorded>>
  BY DEF Fail
<1>2. req[r] \in LearningRequest /\ WorkOK(req[r])
  BY LearningTyped
<1>3. req[r].s \in Sessions \cup {None}
  BY <1>2 DEF LearningRequest
<1>4. Covers(req[r]) => req[r].s \in Sessions
  BY <1>2, KindOf DEF Covers, WorkOK
<1>5. cut \subseteq cut' /\ cut' \in SUBSET Sessions
  BY <1>1, <1>3, LearningTyped
<1>6. Covers(req[r]) => req[r].s \in cut'
  BY <1>1, <1>4, NoneIsFresh
<1> QED  BY <1>1, <1>5, <1>6, EndKeeps

LEMMA ItemCreateKeeps ==
  ASSUME LearningInv, NEW r \in Reqs, NEW k \in Lessons, ItemCreate(r, k)
  PROVE  LearningInv'
<1> DEFINE s == req[r].s
<1>1. req[r].at = "item" /\ req[r] \in LearningRequest /\ WorkOK(req[r]) /\ req[r].kind = "generate"
      /\ req[r].prod = k
  BY LearningTyped, KindOf DEF ItemCreate, At
<1>2. s \in Sessions /\ Named(s) /\ ai[s].prod = k /\ req[r].work = 0 /\ k \in Products
  BY <1>1 DEF WorkOK
<1>3. CASE SessionExists(s)
  <2>1. PICK t : t = [req[r] EXCEPT !.at = "load"]
    OBVIOUS
  <2>2. /\ t \in LearningRequest /\ t.at = "load" /\ t.kind = "generate" /\ t.prod = k
        /\ t.s = s /\ t.work = 0
    BY <1>1, <1>2, <2>1 DEF LearningRequest, Labels
  <2>3. PICK rec : rec = [NoItem EXCEPT !.on = TRUE]
    OBVIOUS
  <2>4. rec \in ItemRow /\ rec.on
    BY <2>3, NoRows DEF ItemRow, NoItem
  <2>5. /\ item' = [item EXCEPT ![s] = rec] /\ req' = [req EXCEPT ![r].at = "load"]
        /\ UNCHANGED <<ai, prog, mast, day, starts, learningGhosts>>
    BY <1>3, <2>3 DEF ItemCreate, Goto
  <2>6. /\ item' \in [Sessions -> ItemRow] /\ item'[s] = rec
        /\ \A x \in Sessions \ {s} : item'[x] = item[x]
    BY <1>2, <2>4, <2>5, LearningTyped
  <2>7. NamedStay /\ ItemsOK'
    BY <1>2, <2>5, <2>6 DEF NamedStay, Named, LearningInv, ItemsOK
  <2>8. WorkOK(t)'
    BY <1>2, <2>2, <2>5 DEF WorkOK, StepsOf, Named
  <2>9. req' = [req EXCEPT ![r] = t]
    BY <2>1, <2>5, LearningTyped
  <2>10. \A q \in Reqs \ {r} : req[q].kind = "generate" => req[q].at = "chat"
    BY <1>1, StillAlone
  <2>11. \A x \in Sessions : ai'[x].st = "completed" /\ ai'[x].prod \in Lessons /\ ~item'[x].on =>
             /\ ai[x].st = "completed" /\ ai[x].prod = ai'[x].prod /\ ~item[x].on
             /\ Covers(req[r]) => req[r].s # x
    BY <2>4, <2>5, <2>6
  <2>12. ai' \in [Sessions -> AiSession] /\ cut' = cut /\ cut' \in SUBSET Sessions
    BY <2>5, LearningTyped DEF learningGhosts
  <2> QED  BY <2>2, <2>5, <2>6, <2>7, <2>8, <2>9, <2>10, <2>11, <2>12, StepKeeps DEF learningGhosts
<1>4. CASE ~SessionExists(s)
  <2>1. EndRequest(r) /\ UNCHANGED <<ai, item, prog, mast, day, starts, learningGhosts>>
    BY <1>4 DEF ItemCreate
  <2>2. Covers(req[r]) => ai[req[r].s].st # "completed"
    BY <1>4 DEF SessionExists
  <2> QED  BY <2>1, <2>2, EndKeeps, LearningTyped DEF learningGhosts
<1> QED  BY <1>3, <1>4

LEMMA ItemCommitKeeps ==
  ASSUME LearningInv, NEW r \in Reqs, NEW k \in Lessons, ItemCommit(r, k)
  PROVE  LearningInv'
<1> DEFINE s == req[r].s
<1>1. req[r].at = "update" /\ req[r] \in LearningRequest /\ WorkOK(req[r]) /\ req[r].kind = "update"
      /\ req[r].prod = k
  BY LearningTyped, KindOf DEF ItemCommit, At
<1>2. s \in Sessions /\ Named(s) /\ ai[s].prod = k /\ k \in Products
  BY <1>1 DEF WorkOK
<1>3. CASE item[s].on
  <2>1. PICK t : t = [req[r] EXCEPT !.at = "load"]
    OBVIOUS
  <2>2. /\ t \in LearningRequest /\ t.at = "load" /\ t.kind = "update" /\ t.prod = k /\ t.s = s
    BY <1>1, <2>1 DEF LearningRequest, Labels
  <2>3. PICK new : new = [req[r].copy EXCEPT !.work = @ + req[r].work,
                                             !.st = IF req[r].mark = "no" THEN @ ELSE req[r].mark]
    OBVIOUS
  <2>4. PICK rec : rec = Written(item[s], req[r].copy, new)
    OBVIOUS
  <2>5. /\ req[r].copy \in ItemRow /\ req[r].work \in Nat /\ item[s] \in ItemRow
        /\ req[r].mark \in {"no", "completed", "mastered"}
    BY <1>1, <1>2, LearningTyped DEF LearningRequest
  <2>6. new \in ItemRow /\ new.on = req[r].copy.on
    <3>1. ASSUME NEW c \in ItemRow, NEW w \in Nat, NEW st \in {"active", "completed", "mastered"}
          PROVE  [c EXCEPT !.work = w, !.st = st] \in ItemRow
      BY DEF ItemRow
    <3>2. PICK c : c = req[r].copy
      OBVIOUS
    <3>3. PICK w : w = c.work + req[r].work
      OBVIOUS
    <3>4. PICK st : st = IF req[r].mark = "no" THEN c.st ELSE req[r].mark
      OBVIOUS
    <3>5. new = [c EXCEPT !.work = w, !.st = st]
      BY <2>3, <3>2, <3>3, <3>4
    <3>6. c \in ItemRow
      BY <2>5, <3>2
    <3>7. w \in Nat
      BY <2>5, <3>3, <3>6 DEF ItemRow
    <3>8. st \in {"active", "completed", "mastered"}
      BY <2>5, <3>4, <3>6 DEF ItemRow
    <3>9. new.on = c.on
      BY <3>5, <3>6 DEF ItemRow
    <3> QED  BY <3>1, <3>2, <3>5, <3>6, <3>7, <3>8, <3>9
  <2>7. rec \in ItemRow /\ rec.on = item[s].on
    BY <2>4, <2>5, <2>6, ItemWritten
  <2>8. /\ item' = [item EXCEPT ![s] = rec] /\ req' = [req EXCEPT ![r].at = "load"]
        /\ UNCHANGED <<ai, prog, mast, day, starts, learningGhosts>>
    BY <1>3, <2>3, <2>4 DEF ItemCommit, Goto
  <2>9. /\ item' \in [Sessions -> ItemRow]
        /\ \A x \in Sessions : item'[x].on = item[x].on
    BY <1>2, <2>7, <2>8, LearningTyped
  <2>10. NamedStay /\ ItemsOK'
    BY <2>8, <2>9 DEF NamedStay, Named, LearningInv, ItemsOK
  <2>11. WorkOK(t)'
    BY <1>2, <2>2, <2>8 DEF WorkOK, StepsOf, Named
  <2>12. req' = [req EXCEPT ![r] = t]
    BY <2>1, <2>8, LearningTyped
  <2>13. \A x \in Sessions : ai'[x].st = "completed" /\ ai'[x].prod \in Lessons /\ ~item'[x].on =>
             /\ ai[x].st = "completed" /\ ai[x].prod = ai'[x].prod /\ ~item[x].on
             /\ Covers(req[r]) => req[r].s # x
    BY <1>1, <2>8, <2>9 DEF Covers
  <2>14. ai' \in [Sessions -> AiSession] /\ cut' = cut /\ cut' \in SUBSET Sessions
    BY <2>8, LearningTyped DEF learningGhosts
  <2> QED  BY <2>2, <2>8, <2>9, <2>10, <2>11, <2>12, <2>13, <2>14, StepKeeps DEF learningGhosts
<1>4. CASE ~item[s].on
  <2>1. EndRequest(r) /\ UNCHANGED <<ai, item, prog, mast, day, starts, learningGhosts>>
    BY <1>4 DEF ItemCommit
  <2>2. ~Covers(req[r])
    BY <1>1 DEF Covers
  <2> QED  BY <2>1, <2>2, EndKeeps, LearningTyped DEF learningGhosts
<1> QED  BY <1>3, <1>4

LEMMA ItemDeleteKeeps ==
  ASSUME LearningInv, NEW r \in Reqs, ItemDelete(r)
  PROVE  LearningInv'
<1> DEFINE s == req[r].s
<1>1. req[r].at = "drop" /\ req[r] \in LearningRequest /\ WorkOK(req[r]) /\ req[r].kind = "delete"
      /\ s \in Sessions
  BY LearningTyped, KindOf DEF ItemDelete, At, WorkOK
<1>2. CASE item[s].on
  <2>1. PICK t : t = [req[r] EXCEPT !.at = "dropSession"]
    OBVIOUS
  <2>2. t \in LearningRequest /\ t.at = "dropSession" /\ t.kind = "delete" /\ t.s = s
    BY <1>1, <2>1 DEF LearningRequest, Labels
  <2>3. /\ item' = [item EXCEPT ![s] = NoItem] /\ req' = [req EXCEPT ![r].at = "dropSession"]
        /\ UNCHANGED <<ai, prog, mast, day, starts, learningGhosts>>
    BY <1>2 DEF ItemDelete, Goto
  <2>4. /\ item' \in [Sessions -> ItemRow] /\ item'[s] = NoItem /\ ~NoItem.on
        /\ \A x \in Sessions \ {s} : item'[x] = item[x]
    BY <1>1, <2>3, NoRows, LearningTyped DEF NoItem
  <2>5. NamedStay /\ ItemsOK'
    BY <2>3, <2>4 DEF NamedStay, Named, LearningInv, ItemsOK
  <2>6. WorkOK(t)'
    BY <1>1, <2>2 DEF WorkOK, StepsOf
  <2>7. req' = [req EXCEPT ![r] = t]
    BY <2>1, <2>3, LearningTyped
  <2>8. \A x \in Sessions : ai'[x].st = "completed" /\ ai'[x].prod \in Lessons /\ ~item'[x].on =>
             \/ t.s = x /\ t.at \in {"item", "dropSession"}
             \/ /\ ai[x].st = "completed" /\ ai[x].prod = ai'[x].prod /\ ~item[x].on
                /\ Covers(req[r]) => req[r].s # x
    BY <1>1, <2>2, <2>3, <2>4 DEF Covers
  <2>9. ai' \in [Sessions -> AiSession] /\ cut' = cut /\ cut' \in SUBSET Sessions
    BY <2>3, LearningTyped DEF learningGhosts
  <2> QED  BY <2>2, <2>3, <2>4, <2>5, <2>6, <2>7, <2>8, <2>9, StepKeeps DEF learningGhosts
<1>3. CASE ~item[s].on
  <2>1. EndRequest(r) /\ UNCHANGED <<ai, item, prog, mast, day, starts, learningGhosts>>
    BY <1>3 DEF ItemDelete
  <2>2. ~Covers(req[r])
    BY <1>1 DEF Covers
  <2> QED  BY <2>1, <2>2, EndKeeps, LearningTyped DEF learningGhosts
<1> QED  BY <1>2, <1>3

LEMMA SessionDeleteKeeps ==
  ASSUME LearningInv, NEW r \in Reqs, SessionDelete(r)
  PROVE  LearningInv'
<1> DEFINE s == req[r].s
<1>1. req[r].at = "dropSession" /\ req[r] \in LearningRequest /\ WorkOK(req[r]) /\ s \in Sessions
  BY LearningTyped, KindOf DEF SessionDelete, At, WorkOK
<1>2. EndRequest(r) /\ UNCHANGED <<prog, mast, day, starts, learningGhosts>>
  BY DEF SessionDelete
<1>3. CASE SessionExists(s)
  <2>1. DropSession(s)
    BY <1>3 DEF SessionDelete
  <2>2. /\ ai' \in [Sessions -> AiSession] /\ item' \in [Sessions -> ItemRow]
        /\ ai'[s].st = "gone" /\ NamedStay /\ ItemsOK'
        /\ \A x \in Sessions \ {s} : ai'[x] = ai[x] /\ item'[x] = item[x]
    BY <1>1, <1>3, <2>1, DropIs
  <2>3. Idle \in LearningRequest /\ WorkOK(Idle)' /\ req' = [req EXCEPT ![r] = Idle]
        /\ Idle.kind # "generate"
    BY <1>2, IdleIsOK DEF EndRequest, WorkOK, Held, Named
  <2>4. \A x \in Sessions : ai'[x].st = "completed" /\ ai'[x].prod \in Lessons /\ ~item'[x].on =>
             /\ ai[x].st = "completed" /\ ai[x].prod = ai'[x].prod /\ ~item[x].on
             /\ Covers(req[r]) => req[r].s # x
    BY <2>2
  <2>5. cut' = cut /\ cut' \in SUBSET Sessions
    BY <1>2, LearningTyped DEF learningGhosts
  <2> QED  BY <1>2, <2>2, <2>3, <2>4, <2>5, StepKeeps DEF learningGhosts
<1>4. CASE ~SessionExists(s)
  <2>1. UNCHANGED <<ai, item>>
    BY <1>4 DEF SessionDelete
  <2>2. Covers(req[r]) => ai[req[r].s].st # "completed"
    BY <1>4 DEF SessionExists
  <2> QED  BY <1>2, <2>1, <2>2, EndKeeps, LearningTyped DEF learningGhosts
<1> QED  BY <1>3, <1>4

-------------------------------------------------------------------------------
(* The learning products: the progress row *)

\* A request that has its row, and is not a view, goes on to commit.
GoesOn(q, t, rec) ==
    /\ t.kind = q.kind /\ t.prod = q.prod /\ t.s = q.s /\ t.work = q.work
    /\ t.at = IF q.prod = "pattern" THEN "mastery" ELSE "commit"
    /\ t.agg = rec /\ t.now = day /\ ~t.over

LEMMA LoadedIs ==
  ASSUME LearningInv, NEW r \in Reqs, req[r].at \in {"load", "create"}, NEW rec \in ProgressRow,
         NEW t, t = Loaded(r, rec)
  PROVE  /\ t \in LearningRequest
         /\ t = Idle \/ (req[r].kind \in {"generate", "update"} /\ GoesOn(req[r], t, rec))
<1>1. PICK q \in LearningRequest : q = req[r]
  BY LearningTyped
<1>2. WorkOK(q) /\ q.kind \in {"generate", "update", "view"} /\ day \in 1..MaxDay + 1
  BY <1>1, LearningTyped, KindOf
<1>3. CASE q.kind = "view"
  BY <1>1, <1>3, IdleIsOK DEF Loaded
<1>4. CASE q.kind # "view"
  <2>1. t = [q EXCEPT !.agg = rec, !.now = day, !.over = FALSE,
                      !.at = IF q.prod = "pattern" THEN "mastery" ELSE "commit"]
    BY <1>1, <1>4 DEF Loaded
  <2>2. t \in LearningRequest
    BY <1>2, <2>1 DEF LearningRequest, Labels
  <2>3. GoesOn(q, t, rec)
    BY <2>1 DEF LearningRequest, GoesOn
  <2> QED  BY <1>1, <1>2, <1>4, <2>2, <2>3
<1> QED  BY <1>3, <1>4

LEMMA GoesOnOK ==
  ASSUME LearningInv, NEW q \in LearningRequest, WorkOK(q), q.kind \in {"generate", "update"},
         NEW rec \in ProgressRow, rec.on, rec.last <= day, NEW t \in LearningRequest, GoesOn(q, t, rec),
         ai' = ai, day' = day, prog'[q.prod] = rec
  PROVE  WorkOK(t)'
<1>1. Held(t)'
  <2>1. day \in Nat
    BY LearningTyped
  <2> QED  BY <2>1 DEF Held, GoesOn
<1>2. t.kind \in {"generate", "update"} /\ t.at \in StepsOf(t.kind)
  BY DEF GoesOn, StepsOf
<1> QED  BY <1>1, <1>2 DEF WorkOK, GoesOn, Named

LEMMA ProgressLoadKeeps ==
  ASSUME LearningInv, NEW r \in Reqs, ProgressLoad(r)
  PROVE  LearningInv'
<1>1. PICK q \in LearningRequest : q = req[r]
  BY LearningTyped
<1>2. WorkOK(q) /\ q.at = "load" /\ q.kind \in {"generate", "update", "view"} /\ q.prod \in Products
  BY <1>1, LearningTyped, KindOf DEF ProgressLoad, At, WorkOK
<1>3. PICK rec \in ProgressRow : rec = prog[q.prod]
  BY <1>2, LearningTyped
<1>4. PICK t : t = IF rec.on THEN Loaded(r, rec) ELSE [q EXCEPT !.at = "create"]
  OBVIOUS
<1>5. req' = [req EXCEPT ![r] = t] /\ UNCHANGED <<ai, item, prog, mast, day, starts, learningGhosts>>
  BY <1>1, <1>3, <1>4 DEF ProgressLoad
<1>6. t \in LearningRequest /\ WorkOK(t)' /\ (t.kind = "generate" => q.kind = "generate")
  <2>1. CASE rec.on
    <3>1. /\ t \in LearningRequest
          /\ t = Idle \/ (q.kind \in {"generate", "update"} /\ GoesOn(q, t, rec))
      BY <1>1, <1>2, <1>4, <2>1, LoadedIs
    <3>2. CASE t = Idle
      BY <3>2, IdleIsOK DEF WorkOK, Held, Named
    <3>3. CASE q.kind \in {"generate", "update"} /\ GoesOn(q, t, rec)
      <4>1. rec.last <= day
        BY <1>2, <1>3 DEF LearningInv, Progressed, RowsOK
      <4>2. ai' = ai /\ day' = day /\ prog'[q.prod] = rec
        BY <1>3, <1>5
      <4>3. WorkOK(t)'
        BY <1>2, <2>1, <3>1, <3>3, <4>1, <4>2, GoesOnOK
      <4> QED  BY <3>1, <3>3, <4>3 DEF GoesOn
    <3> QED  BY <3>1, <3>2, <3>3
  <2>2. CASE ~rec.on
    <3>1. t = [q EXCEPT !.at = "create"]
      BY <1>4, <2>2
    <3>2. /\ t \in LearningRequest /\ t.at = "create" /\ t.kind = q.kind /\ t.prod = q.prod
          /\ t.s = q.s /\ t.work = q.work
      BY <3>1 DEF LearningRequest, Labels
    <3>3. WorkOK(t)'
      BY <1>2, <1>5, <3>2 DEF WorkOK, StepsOf, Named
    <3> QED  BY <3>2, <3>3
  <2> QED  BY <2>1, <2>2
<1>7. q.kind = "generate" => \A p \in Reqs \ {r} : req[p].kind = "generate" => req[p].at = "chat"
  BY <1>1, <1>2, StillAlone
<1>8. NamedStay /\ ItemsOK' /\ cut' = cut /\ cut' \in SUBSET Sessions
      /\ ai' \in [Sessions -> AiSession] /\ item' \in [Sessions -> ItemRow]
  BY <1>5, LearningTyped DEF NamedStay, Named, LearningInv, ItemsOK, learningGhosts
<1>9. \A x \in Sessions : ai'[x].st = "completed" /\ ai'[x].prod \in Lessons /\ ~item'[x].on =>
             /\ ai[x].st = "completed" /\ ai[x].prod = ai'[x].prod /\ ~item[x].on
             /\ Covers(req[r]) => req[r].s # x
  BY <1>1, <1>2, <1>5 DEF Covers
<1> QED  BY <1>5, <1>6, <1>7, <1>8, <1>9, StepKeeps DEF learningGhosts

LEMMA MasteryLoadKeeps ==
  ASSUME LearningInv, NEW r \in Reqs, MasteryLoad(r)
  PROVE  LearningInv'
<1>1. PICK q \in LearningRequest : q = req[r]
  BY LearningTyped
<1>2. WorkOK(q) /\ q.at = "mastery" /\ q.kind \in {"generate", "update"} /\ Held(q)
  BY <1>1, LearningTyped, KindOf DEF MasteryLoad, At, WorkOK
<1>3. q.s \in Sessions /\ ai[q.s].name \in Names
  BY <1>2 DEF WorkOK, Named
<1>4. PICK m \in MasteryRow : m = mast[ai[q.s].name]
  BY <1>3 DEF LearningInv, LearningTypeOK
<1>5. PICK k : k = Cardinality({x \in Names \ {ai[q.s].name} : mast[x].on /\ mast[x].st = "mastered"})
  OBVIOUS
<1>6. k \in Nat
  <2>1. IsFiniteSet({x \in Names \ {ai[q.s].name} : mast[x].on /\ mast[x].st = "mastered"})
    BY NamesAreFinite, FS_Subset
  <2> QED  BY <1>5, <2>1, FS_CardinalityType
<1>7. PICK t : t = [q EXCEPT !.at = "commit", !.mas = m, !.others = k]
  OBVIOUS
<1>8. /\ t \in LearningRequest /\ t.at = "commit" /\ t.kind = q.kind /\ t.prod = q.prod
      /\ t.s = q.s /\ t.work = q.work /\ t.agg = q.agg /\ t.now = q.now /\ t.over = q.over
  BY <1>6, <1>7 DEF LearningRequest, Labels
<1>9. req' = [req EXCEPT ![r] = t] /\ UNCHANGED <<ai, item, prog, mast, day, starts, learningGhosts>>
  BY <1>1, <1>4, <1>5, <1>7 DEF MasteryLoad
<1>10. WorkOK(t)'
  BY <1>2, <1>8, <1>9 DEF WorkOK, StepsOf, Named, Held
<1>11. q.kind = "generate" => \A p \in Reqs \ {r} : req[p].kind = "generate" => req[p].at = "chat"
  BY <1>1, <1>2, StillAlone
<1>12. NamedStay /\ ItemsOK' /\ cut' = cut /\ cut' \in SUBSET Sessions
      /\ ai' \in [Sessions -> AiSession] /\ item' \in [Sessions -> ItemRow]
  BY <1>9, LearningTyped DEF NamedStay, Named, LearningInv, ItemsOK, learningGhosts
<1>13. \A x \in Sessions : ai'[x].st = "completed" /\ ai'[x].prod \in Lessons /\ ~item'[x].on =>
             /\ ai[x].st = "completed" /\ ai[x].prod = ai'[x].prod /\ ~item[x].on
             /\ Covers(req[r]) => req[r].s # x
  BY <1>1, <1>2, <1>9 DEF Covers
<1> QED  BY <1>8, <1>9, <1>10, <1>11, <1>12, <1>13, StepKeeps DEF learningGhosts

\* Creating the row: nobody holds it, and it counts nothing.
LEMMA ProgressCreateKeeps ==
  ASSUME LearningInv, NEW r \in Reqs, ProgressCreate(r)
  PROVE  LearningInv'
<1>1. PICK q \in LearningRequest : q = req[r]
  BY LearningTyped
<1>2. WorkOK(q) /\ q.at = "create" /\ q.kind \in {"generate", "update", "view"} /\ q.prod \in Products
  BY <1>1, LearningTyped, KindOf DEF ProgressCreate, At, WorkOK
<1>3. PICK k \in Products : k = q.prod
  BY <1>2
<1>4. CASE prog[k].on
  <2>1. /\ EndRequest(r) /\ cut' = cut \cup ({q.s} \ {None})
        /\ UNCHANGED <<ai, item, prog, mast, day, starts, owed, crossed, active, recorded>>
    BY <1>1, <1>3, <1>4 DEF ProgressCreate
  <2>2. q.s \in Sessions \cup {None}
    BY DEF LearningRequest
  <2>3. cut \subseteq cut' /\ cut' \in SUBSET Sessions
    BY <2>1, <2>2, LearningTyped
  <2>4. ~Covers(req[r])
    BY <1>1, <1>2 DEF Covers
  <2> QED  BY <2>1, <2>3, <2>4, EndKeeps
<1>5. CASE ~prog[k].on
  <2>1. PICK fresh : fresh = [NoProgress EXCEPT !.on = TRUE]
    OBVIOUS
  <2>2. /\ fresh \in ProgressRow /\ fresh.on /\ fresh.last = 0 /\ fresh.streak = 0 /\ fresh.longest = 0
        /\ fresh.made = 0 /\ fresh.names = {} /\ fresh.work = 0
    BY <2>1, NoRows DEF ProgressRow, NoProgress
  <2>3. PICK t : t = Loaded(r, fresh)
    OBVIOUS
  <2>4. /\ prog' = [prog EXCEPT ![k] = fresh] /\ req' = [req EXCEPT ![r] = t]
        /\ UNCHANGED <<ai, item, mast, day, starts, owed, crossed, active, recorded, cut>>
    BY <1>1, <1>3, <1>5, <2>1, <2>3 DEF ProgressCreate
  <2>5. /\ prog' \in [Products -> ProgressRow] /\ prog'[k] = fresh
        /\ \A j \in Products \ {k} : prog'[j] = prog[j]
    BY <2>2, <2>4, LearningTyped
  <2>6. /\ t \in LearningRequest
        /\ t = Idle \/ (q.kind \in {"generate", "update"} /\ GoesOn(q, t, fresh))
    BY <1>1, <1>2, <2>2, <2>3, LoadedIs
  <2>7. /\ req' \in [Reqs -> LearningRequest] /\ req'[r] = t
        /\ \A p \in Reqs \ {r} : req'[p] = req[p]
    BY <2>4, <2>6, LearningTyped
  <2>8. WorkOK(t)' /\ (t.kind = "generate" => q.kind = "generate")
    <3>1. CASE t = Idle
      BY <3>1, IdleIsOK DEF WorkOK, Held, Named
    <3>2. CASE q.kind \in {"generate", "update"} /\ GoesOn(q, t, fresh)
      <4>1. fresh.last <= day
        BY <2>2, LearningTyped
      <4>2. WorkOK(t)'
        BY <1>2, <1>3, <2>2, <2>4, <2>5, <2>6, <3>2, <4>1, GoesOnOK
      <4> QED  BY <3>2, <4>2 DEF GoesOn
    <3> QED  BY <2>6, <3>1, <3>2
  <2>9. ASSUME NEW p \in Reqs
        PROVE  WorkOK(req[p])'
    <3>1. PICK u : u = req'[p]
      OBVIOUS
    <3>2. WorkOK(u)'
      <4>1. CASE p = r
        BY <2>7, <2>8, <3>1, <4>1
      <4>2. CASE p # r
        <5>1. u \in LearningRequest /\ WorkOK(u)
          BY <2>7, <3>1, <4>2, LearningTyped
        <5>2. u.at \in {"mastery", "commit"} => u.prod \in Products /\ Held(u)
          BY <5>1, KindOf DEF WorkOK
        <5>3. u.at \in {"mastery", "commit"} => u.prod # k /\ Held(u)'
          BY <1>5, <2>4, <2>5, <5>2 DEF Held
        <5> QED  BY <2>4, <5>1, <5>3 DEF WorkOK, Named
      <4> QED  BY <4>1, <4>2
    <3> QED  BY <3>1, <3>2 DEF WorkOK, Held, Named
  <2>10. OneGenerates'
    <3>1. q.kind = "generate" => \A p \in Reqs \ {r} : req[p].kind = "generate" => req[p].at = "chat"
      BY <1>1, <1>2, StillAlone
    <3> SUFFICES ASSUME NEW x \in Reqs, NEW y \in Reqs, x # y,
                        req'[x].kind = "generate", req'[y].kind = "generate"
                 PROVE  req'[x].at = "chat" \/ req'[y].at = "chat"
      BY DEF OneGenerates
    <3> QED  BY <1>1, <2>7, <2>8, <3>1 DEF LearningInv, OneGenerates
  <2>11. prog[k] = NoProgress /\ owed[k] = 0
    BY <1>5 DEF LearningInv, Progressed, RowsOK
  <2>12. GhostsTyped' /\ RowsOK'
    <3>1. GhostsTyped'
      BY <2>4 DEF LearningInv, Progressed, GhostsTyped
    <3>2. fresh.last <= day
      BY <2>2, LearningTyped
    <3> QED  BY <2>2, <2>4, <2>5, <3>1, <3>2 DEF LearningInv, Progressed, RowsOK
  <2>13. /\ NoProgress.streak = 0 /\ NoProgress.longest = 0 /\ NoProgress.last = 0
         /\ NoProgress.made = 0 /\ NoProgress.names = {} /\ NoProgress.work = 0
    BY DEF NoProgress
  <2>14. StreaksOK'
    BY <2>2, <2>4, <2>5, <2>11, <2>13 DEF LearningInv, Progressed, StreaksOK
  <2>15. NothingLearnedIsLost'
    <3>1. \A j \in Products : prog'[j].made = prog[j].made /\ prog'[j].names = prog[j].names
      BY <2>2, <2>5, <2>11, <2>13
    <3> QED  BY <2>4, <3>1 DEF LearningInv, Progressed, NothingLearnedIsLost
  <2>16. WorkLostByOverlap'
    BY <2>2, <2>4, <2>5, <2>11 DEF LearningInv, Progressed, WorkLostByOverlap
  <2>17. LearningTypeOK' /\ ItemsOK'
    BY <2>4, <2>5, <2>7 DEF LearningInv, LearningTypeOK, ItemsOK, Named
  <2>18. LessonsKept'
    BY <1>1, <1>2, <2>4, <2>7 DEF LearningInv, LessonsKept
  <2> QED  BY <2>9, <2>10, <2>12, <2>14, <2>15, <2>16, <2>17, <2>18 DEF LearningInv, Progressed
<1> QED  BY <1>4, <1>5

-------------------------------------------------------------------------------
(* The learning products: the commit *)

LEMMA MasteryIs ==
  ASSUME NEW rec \in MasteryRow, NEW n \in Nat, NEW w \in Nat, NEW mark \in BOOLEAN
  PROVE  /\ Mastery(rec, n, w, mark) \in MasteryRow
         /\ Mastery(rec, n, w, mark).sessions = rec.sessions + n
<1>0. PICK a \in Nat, b \in Nat : a = rec.sessions + n /\ b = rec.work + w
  BY DEF MasteryRow
<1> DEFINE new == [rec EXCEPT !.on = TRUE, !.sessions = a, !.work = b]
           st == IF mark \/ 20 * new.sessions + 10 * new.work >= 80
                 THEN "mastered"
                 ELSE IF new.work > 0 THEN "practiced" ELSE "learning"
<1>1. new.on /\ new.on \in BOOLEAN /\ new.sessions = rec.sessions + n /\ new.sessions \in Nat
      /\ new.work \in Nat
  BY <1>0 DEF MasteryRow
<1>2. new \in MasteryRow
  BY DEF MasteryRow
<1>3. st \in {"learning", "practiced", "mastered"}
  OBVIOUS
<1>4. Mastery(rec, n, w, mark) = [new EXCEPT !.st = st]
  BY <1>0 DEF Mastery
<1> HIDE DEF new, st
<1> QED  BY <1>1, <1>2, <1>3, <1>4 DEF MasteryRow

\* The streak of a row that nobody else touched since it was loaded.
LEMMA StreakCountsDays ==
  ASSUME NEW D \in SUBSET (1..MaxDay + 1), NEW a \in ProgressRow, NEW today \in 1..MaxDay + 1,
         a.last <= today, a.streak <= Cardinality(D), \A d \in D : d <= a.last
  PROVE  LessonStreak(a, today) <= Cardinality(D \cup {today})
<1>1. IsFiniteSet(D)
  <2>1. 1 \in Int /\ MaxDay + 1 \in Int
    BY BoundsAreNat
  <2>2. IsFiniteSet(1..MaxDay + 1)
    BY <2>1, FS_Interval
  <2> QED  BY <2>2, FS_Subset
<1>2. /\ Cardinality(D) \in Nat /\ Cardinality(D \cup {today}) \in Nat
      /\ Cardinality(D \cup {today}) = IF today \in D THEN Cardinality(D) ELSE Cardinality(D) + 1
  BY <1>1, FS_AddElement, FS_CardinalityType
<1>3. today \in D => Cardinality(D) > 0
  BY <1>1, <1>2, FS_EmptySet
<1>4. a.last \in Nat /\ a.streak \in Nat /\ today \in Nat
  BY BoundsAreNat DEF ProgressRow
<1>5. CASE a.last = 0 \/ today > a.last + 1
  BY <1>2, <1>3, <1>5 DEF LessonStreak
<1>6. CASE ~(a.last = 0 \/ today > a.last + 1) /\ today # a.last
  <2>1. today \notin D
    BY <1>4, <1>6
  <2> QED  BY <1>2, <1>4, <1>6, <2>1 DEF LessonStreak
<1>7. CASE ~(a.last = 0 \/ today > a.last + 1) /\ today = a.last
  BY <1>2, <1>4, <1>7 DEF LessonStreak
<1> QED  BY <1>5, <1>6, <1>7

LEMMA ProgressCommitKeeps ==
  ASSUME LearningInv, NEW r \in Reqs, ProgressCommit(r)
  PROVE  LearningInv'
<1>1. PICK q \in LearningRequest : q = req[r]
  BY LearningTyped
<1>2. WorkOK(q) /\ q.at = "commit" /\ q.kind \in {"generate", "update"} /\ Held(q)
  BY <1>1, LearningTyped, KindOf DEF ProgressCommit, At, WorkOK
<1>3. PICK k \in Products : k = q.prod
  BY <1>2 DEF WorkOK
<1>4. PICK n \in Names : n = ai[q.s].name
  BY <1>2 DEF WorkOK, Named
<1>5. /\ q.s \in Sessions /\ (q.kind = "update" => k \in Lessons) /\ (q.kind = "generate" => q.work = 0)
      /\ k \in Practice \cup Lessons
  BY <1>2, <1>3, ProductsKnown DEF WorkOK
<1> DEFINE clash == k = "pattern" /\ ~q.mas.on /\ mast[n].on
<1>6. CASE clash
  <2>1. /\ EndRequest(r) /\ cut' = cut \cup {q.s}
        /\ UNCHANGED <<ai, item, prog, mast, day, starts, owed, crossed, active, recorded>>
    BY <1>1, <1>3, <1>4, <1>6 DEF ProgressCommit
  <2>2. cut \subseteq cut' /\ cut' \in SUBSET Sessions
    BY <1>5, <2>1, LearningTyped
  <2>3. ~Covers(req[r])
    BY <1>1, <1>2 DEF Covers
  <2> QED  BY <2>1, <2>2, <2>3, EndKeeps
<1>7. CASE ~clash
  <2>1. PICK p \in ProgressRow : p = prog[k]
    BY <1>3, LearningTyped
  <2>2. PICK new \in ProgressRow : new = NewProgress(q) /\ Makes(q, n, new)
    BY <1>2, <1>3, <1>4, <1>5, NewProgressMakes DEF Makes
  <2>3. PICK rec : rec = Written(p, [q.agg EXCEPT !.last = 0], new)
    OBVIOUS
  <2>4. PICK old : old = [q.agg EXCEPT !.last = 0]
    OBVIOUS
  <2>5. /\ old \in ProgressRow /\ old.last = 0 /\ old.on = q.agg.on /\ old.made = q.agg.made
        /\ old.names = q.agg.names /\ old.work = q.agg.work /\ old.streak = q.agg.streak
        /\ old.longest = q.agg.longest
    <3>1. q.agg \in ProgressRow
      BY DEF LearningRequest
    <3> QED  BY <2>4, <3>1, BoundsAreNat DEF ProgressRow
  <2>6. /\ rec \in ProgressRow
        /\ \A f \in ProgressColumns : rec[f] = IF new[f] # old[f] THEN new[f] ELSE p[f]
    BY <2>3, <2>4, <2>5, ProgressWritten
  <2>7. /\ rec.on = (IF new.on # old.on THEN new.on ELSE p.on)
        /\ rec.made = (IF new.made # old.made THEN new.made ELSE p.made)
        /\ rec.names = (IF new.names # old.names THEN new.names ELSE p.names)
        /\ rec.work = (IF new.work # old.work THEN new.work ELSE p.work)
        /\ rec.last = (IF new.last # old.last THEN new.last ELSE p.last)
        /\ rec.streak = (IF new.streak # old.streak THEN new.streak ELSE p.streak)
        /\ rec.longest = (IF new.longest # old.longest THEN new.longest ELSE p.longest)
    BY <2>6 DEF ProgressColumns
  <2>8. q.now \in 1..MaxDay + 1 /\ q.now # 0 /\ q.agg \in ProgressRow /\ q.work \in Nat
    BY BoundsAreNat DEF LearningRequest
  <2>9. rec.on /\ p.on /\ rec.last = q.now /\ q.now <= day
    BY <1>2, <1>3, <2>1, <2>2, <2>5, <2>7, <2>8 DEF Makes, Held
  <2>10. /\ prog' = [prog EXCEPT ![k] = rec]
         /\ mast' = IF k # "pattern" THEN mast
                    ELSE [mast EXCEPT ![n] = Written(@, q.mas, NewMastery(q))]
         /\ req' = [x \in Reqs |->
                      IF x = r THEN Idle
                      ELSE IF req[x].prod = k /\ req[x].at \in {"mastery", "commit"}
                      THEN [req[x] EXCEPT !.over = TRUE] ELSE req[x]]
         /\ owed' = [owed EXCEPT ![k] = @ + q.work]
         /\ crossed' = IF q.over THEN crossed \cup {k} ELSE crossed
         /\ active' = [active EXCEPT ![k] = @ \cup {q.now}]
         /\ recorded' = [recorded EXCEPT ![k] = @ + (IF q.kind = "generate" THEN 1 ELSE 0)]
         /\ UNCHANGED <<cut, ai, item, day, starts>>
    BY <1>1, <1>3, <1>4, <1>7, <2>1, <2>2, <2>3 DEF ProgressCommit
  <2> HIDE DEF clash
  <2>11. /\ prog' \in [Products -> ProgressRow] /\ prog'[k] = rec
         /\ \A j \in Products \ {k} : prog'[j] = prog[j]
    BY <2>6, <2>10, LearningTyped
  <2>12. /\ mast' \in [Names -> MasteryRow]
         /\ k # "pattern" => mast' = mast
         /\ k = "pattern" => /\ \A x \in Names \ {n} : mast'[x] = mast[x]
                             /\ q.kind = "update" => mast'[n].sessions = mast[n].sessions
                             /\ q.kind = "generate" => mast'[n].sessions > 0
    <3>1. mast \in [Names -> MasteryRow]
      BY DEF LearningInv, LearningTypeOK
    <3>2. CASE k # "pattern"
      BY <2>10, <3>1, <3>2
    <3>3. CASE k = "pattern"
      <4>1. q.mas \in MasteryRow /\ (q.mark = "mastered") \in BOOLEAN
        BY DEF LearningRequest
      <4>2. /\ NewMastery(q) \in MasteryRow
            /\ NewMastery(q).sessions = q.mas.sessions + (IF q.kind = "generate" THEN 1 ELSE 0)
        <5>1. CASE q.kind = "generate"
          <6>1. NewMastery(q) = Mastery(q.mas, 1, 0, FALSE)
            BY <5>1 DEF NewMastery
          <6>2. /\ Mastery(q.mas, 1, 0, FALSE) \in MasteryRow
                /\ Mastery(q.mas, 1, 0, FALSE).sessions = q.mas.sessions + 1
            BY <4>1, MasteryIs
          <6> QED  BY <5>1, <6>1, <6>2
        <5>2. CASE q.kind = "update"
          <6>1. NewMastery(q) = Mastery(q.mas, 0, q.work, q.mark = "mastered")
            BY <5>2 DEF NewMastery
          <6>2. PICK mark \in BOOLEAN : mark = (q.mark = "mastered")
            OBVIOUS
          <6>3. /\ Mastery(q.mas, 0, q.work, mark) \in MasteryRow
                /\ Mastery(q.mas, 0, q.work, mark).sessions = q.mas.sessions + 0
            BY <2>8, <4>1, MasteryIs
          <6>4. NewMastery(q) = Mastery(q.mas, 0, q.work, mark)
            BY <6>1, <6>2
          <6> QED  BY <5>2, <6>3, <6>4
        <5> QED  BY <1>2, <5>1, <5>2
      <4>3. PICK m : m = Written(mast[n], q.mas, NewMastery(q))
        OBVIOUS
      <4>4. /\ m \in MasteryRow
            /\ m.sessions = IF NewMastery(q).sessions # q.mas.sessions
                            THEN NewMastery(q).sessions ELSE mast[n].sessions
        BY <3>1, <4>1, <4>2, <4>3, MasteryWritten
      <4>5. q.mas.sessions \in Nat
        BY <4>1 DEF MasteryRow
      <4>6. mast' = [mast EXCEPT ![n] = m]
        BY <2>10, <3>3, <4>3
      <4>7. mast' \in [Names -> MasteryRow] /\ mast'[n] = m /\ \A x \in Names \ {n} : mast'[x] = mast[x]
        BY <3>1, <4>4, <4>6
      <4> QED  BY <3>3, <4>2, <4>4, <4>5, <4>7
    <3> QED  BY <3>2, <3>3
  <2>13. ASSUME NEW x \in Reqs \ {r}
         PROVE  /\ req'[x] \in LearningRequest
                /\ req'[x].at = req[x].at /\ req'[x].kind = req[x].kind /\ req'[x].s = req[x].s
                /\ WorkOK(req[x])'
    <3>1. PICK u \in LearningRequest : u = req[x]
      BY LearningTyped
    <3>2. PICK v : v = IF u.prod = k /\ u.at \in {"mastery", "commit"}
                       THEN [u EXCEPT !.over = TRUE] ELSE u
      OBVIOUS
    <3>3. req'[x] = v
      BY <2>10, <3>1, <3>2
    <3>4. /\ v \in LearningRequest
          /\ v.at = u.at /\ v.kind = u.kind /\ v.s = u.s /\ v.prod = u.prod /\ v.work = u.work
          /\ v.agg = u.agg /\ v.now = u.now
          /\ v.over = (u.over \/ (u.prod = k /\ u.at \in {"mastery", "commit"}))
      BY <3>2 DEF LearningRequest
    <3>5. WorkOK(u)
      BY <3>1, LearningTyped
    <3>6. ASSUME u.at \in {"mastery", "commit"}
          PROVE  Held(v)'
      <4>1. Held(u) /\ u.prod \in Products /\ u.kind \in {"generate", "update"}
        BY <3>5, <3>6, KindOf DEF WorkOK
      <4>2. CASE u.prod # k
        BY <2>10, <2>11, <3>4, <4>1, <4>2 DEF Held
      <4>3. CASE u.prod = k
        <5>1. u.kind = "generate" => q.kind = "update"
          BY <1>1, <1>2, <3>1, <3>6 DEF LearningInv, OneGenerates
        <5>2. q.kind = "update" => rec.made = p.made /\ rec.names = p.names
          BY <2>2, <2>5, <2>7 DEF Makes
        <5> QED  BY <2>1, <2>9, <2>10, <2>11, <3>4, <3>6, <4>1, <4>3, <5>1, <5>2 DEF Held
      <4> QED  BY <4>2, <4>3
    <3>7. WorkOK(v)'
      BY <2>10, <3>4, <3>5, <3>6 DEF WorkOK, Named
    <3> QED  BY <3>1, <3>3, <3>4, <3>7 DEF WorkOK, Held, Named
  <2>14. req'[r] = Idle /\ req' \in [Reqs -> LearningRequest]
    BY <2>10, <2>13, IdleIsOK
  <2>15. ASSUME NEW x \in Reqs
         PROVE  WorkOK(req[x])'
    <3>1. CASE x # r
      BY <2>13, <3>1
    <3>2. CASE x = r
      BY <2>14, <3>2, IdleIsOK DEF WorkOK, Held, Named
    <3> QED  BY <3>1, <3>2
  <2>16. OneGenerates'
    <3> SUFFICES ASSUME NEW x \in Reqs, NEW y \in Reqs, x # y,
                        req'[x].kind = "generate", req'[y].kind = "generate"
                 PROVE  req'[x].at = "chat" \/ req'[y].at = "chat"
      BY DEF OneGenerates
    <3>1. x # r /\ y # r
      BY <2>14, IdleIsOK
    <3> QED  BY <2>13, <3>1 DEF LearningInv, OneGenerates
  <2>17. LearningTypeOK' /\ ItemsOK'
    BY <2>10, <2>11, <2>12, <2>14 DEF LearningInv, LearningTypeOK, ItemsOK, Named
  <2>18. LessonsKept'
    <3> SUFFICES ASSUME NEW s \in Sessions, ai'[s].st = "completed", ai'[s].prod \in Lessons, ~item'[s].on
                 PROVE  s \in cut' \/ \E x \in Reqs : req'[x].s = s /\ req'[x].at \in {"item", "dropSession"}
      BY DEF LessonsKept
    <3>1. s \in cut \/ \E x \in Reqs : req[x].s = s /\ req[x].at \in {"item", "dropSession"}
      BY <2>10 DEF LearningInv, LessonsKept
    <3> QED  BY <1>1, <1>2, <2>10, <2>13, <3>1
  <2>19. GhostsTyped'
    BY <1>5, <2>8, <2>10 DEF LearningInv, Progressed, GhostsTyped
  <2>20. RowsOK'
    BY <2>9, <2>10, <2>11 DEF LearningInv, Progressed, RowsOK
  <2>21. StreaksOK'
    <3> SUFFICES ASSUME NEW j \in (Products \cap Lessons) \ crossed'
                 PROVE  /\ prog'[j].streak <= Cardinality(active'[j])
                        /\ prog'[j].longest >= prog'[j].streak
                        /\ \A d \in active'[j] : d <= prog'[j].last
      BY DEF StreaksOK
    <3>1. j \notin crossed
      BY <2>10
    <3>2. CASE j # k
      <4>1. prog'[j] = prog[j] /\ active'[j] = active[j]
        BY <2>10, <2>11, <3>2 DEF LearningInv, Progressed, GhostsTyped
      <4> QED  BY <3>1, <4>1 DEF LearningInv, Progressed, StreaksOK
    <3>3. CASE j = k
      <4>1. PICK D \in SUBSET (1..MaxDay + 1) : D = active[k]
        BY DEF LearningInv, Progressed, GhostsTyped
      <4>2. active'[k] = D \cup {q.now}
        BY <2>10, <4>1 DEF LearningInv, Progressed, GhostsTyped
      <4>3. ~q.over /\ q.agg = p
        BY <1>2, <1>3, <2>1, <2>10, <3>3 DEF Held
      <4>4. /\ p.streak <= Cardinality(D) /\ p.longest >= p.streak
            /\ \A d \in D : d <= p.last
        BY <2>1, <3>1, <3>3, <4>1 DEF LearningInv, Progressed, StreaksOK
      <4>5. p.last <= q.now
        BY <1>2, <4>3 DEF Held
      <4>6. LessonStreak(p, q.now) <= Cardinality(D \cup {q.now})
        BY <2>8, <4>4, <4>5, StreakCountsDays
      <4>7. rec.streak = LessonStreak(p, q.now) /\ rec.longest = BiggerOf(p.longest, rec.streak)
        BY <1>3, <2>2, <2>5, <2>7, <3>3, <4>3 DEF Makes
      <4>8. rec.longest >= rec.streak
        BY <2>6, <4>7 DEF BiggerOf, ProgressRow
      <4>9. \A d \in D \cup {q.now} : d <= q.now
        <5>1. p.last \in Nat /\ q.now \in Nat /\ \A d \in D : d \in Nat
          BY <2>8, BoundsAreNat DEF ProgressRow
        <5> QED  BY <4>4, <4>5, <5>1
      <4> QED  BY <2>9, <2>11, <3>3, <4>2, <4>6, <4>7, <4>8, <4>9
    <3> QED  BY <3>2, <3>3
  <2>22. NothingLearnedIsLost'
    <3>1. q.kind = "update" => rec.made = p.made /\ rec.names = p.names
      BY <2>2, <2>5, <2>7 DEF Makes
    <3>2. q.kind = "generate" => q.agg.made = p.made /\ q.agg.names = p.names
      BY <1>2, <1>3, <2>1 DEF Held
    <3>3. p.names \in SUBSET Names /\ p.made \in Nat
      BY DEF ProgressRow
    <3>4. q.kind = "generate" => rec.names = p.names \cup {n}
      BY <2>2, <2>5, <2>7, <3>2 DEF Makes
    <3>5. q.kind = "generate" => rec.made = IF k = "pattern" /\ n \in p.names THEN p.made ELSE p.made + 1
      BY <1>3, <2>2, <2>5, <2>7, <3>2, <3>3 DEF Makes
    <3> SUFFICES ASSUME NEW j \in Products
                 PROVE  IF j = "pattern"
                        THEN /\ prog'[j].made = Cardinality(prog'[j].names)
                             /\ prog'[j].names = {x \in Names : mast'[x].sessions > 0}
                        ELSE prog'[j].made = recorded'[j]
      BY DEF NothingLearnedIsLost
    <3>6. CASE j # k
      <4>1. prog'[j] = prog[j] /\ recorded'[j] = recorded[j] /\ (j = "pattern" => mast' = mast)
        BY <2>10, <2>11, <2>12, <3>6 DEF LearningInv, Progressed, GhostsTyped
      <4> QED  BY <4>1 DEF LearningInv, Progressed, NothingLearnedIsLost
    <3>7. CASE j = k /\ k # "pattern"
      <4>1. p.made = recorded[k] /\ recorded'[k] = recorded[k] + (IF q.kind = "generate" THEN 1 ELSE 0)
            /\ recorded[k] \in Nat
        BY <2>1, <2>10, <3>7 DEF LearningInv, Progressed, GhostsTyped, NothingLearnedIsLost
      <4> QED  BY <1>2, <2>11, <3>1, <3>5, <3>7, <4>1
    <3>8. CASE j = k /\ k = "pattern"
      <4>1. p.made = Cardinality(p.names) /\ p.names = {x \in Names : mast[x].sessions > 0}
        BY <2>1, <3>8 DEF LearningInv, Progressed, NothingLearnedIsLost
      <4>2. CASE q.kind = "update"
        <5>1. \A x \in Names : mast'[x].sessions = mast[x].sessions
          BY <2>12, <3>8, <4>2
        <5> QED  BY <2>11, <3>1, <3>8, <4>1, <4>2, <5>1
      <4>3. CASE q.kind = "generate"
        <5>1. IsFiniteSet(p.names)
          BY <3>3, NamesAreFinite, FS_Subset
        <5>2. Cardinality(p.names \cup {n}) = IF n \in p.names THEN Cardinality(p.names)
                                              ELSE Cardinality(p.names) + 1
          BY <5>1, FS_AddElement
        <5>3. rec.made = Cardinality(rec.names)
          BY <3>4, <3>5, <3>8, <4>1, <4>3, <5>2
        <5>4. \A x \in Names \ {n} : mast'[x] = mast[x]
          BY <2>12, <3>8
        <5>5. mast'[n].sessions > 0
          BY <2>12, <3>8, <4>3
        <5>6. rec.names = {x \in Names : mast'[x].sessions > 0}
          BY <3>4, <4>1, <4>3, <5>4, <5>5
        <5> QED  BY <2>11, <3>8, <5>3, <5>6
      <4> QED  BY <1>2, <4>2, <4>3
    <3> QED  BY <3>6, <3>7, <3>8
  <2>23. WorkLostByOverlap'
    <3> SUFFICES ASSUME NEW j \in Products, j \notin crossed'
                 PROVE  prog'[j].work = owed'[j]
      BY DEF WorkLostByOverlap
    <3>1. j \notin crossed
      BY <2>10
    <3>2. prog[j].work = owed[j]
      BY <3>1 DEF LearningInv, Progressed, WorkLostByOverlap
    <3>3. CASE j # k
      BY <2>10, <2>11, <3>2, <3>3 DEF LearningInv, Progressed, GhostsTyped
    <3>4. CASE j = k
      <4>1. q.agg = p
        BY <1>2, <1>3, <2>1, <2>10, <3>4 DEF Held
      <4>2. rec.work = p.work + q.work
        BY <2>2, <2>5, <2>7, <4>1 DEF Makes
      <4>3. owed'[k] = owed[k] + q.work
        BY <2>10 DEF LearningInv, Progressed, GhostsTyped
      <4> QED  BY <2>1, <2>11, <3>2, <3>4, <4>2, <4>3
    <3> QED  BY <3>3, <3>4
  <2> QED  BY <2>15, <2>16, <2>17, <2>18, <2>19, <2>20, <2>21, <2>22, <2>23 DEF LearningInv, Progressed
<1> QED  BY <1>6, <1>7


LEMMA LearningInitially == LearningInit => LearningInv
<1> SUFFICES ASSUME LearningInit PROVE LearningInv
  OBVIOUS
<1>1. PICK born : born = [st |-> "unborn", prod |-> None, name |-> None]
  OBVIOUS
<1>2. born \in AiSession /\ born.st = "unborn"
  BY <1>1 DEF AiSession
<1>3. /\ ai \in [Sessions -> AiSession] /\ \A s \in Sessions : ai[s].st = "unborn"
  BY <1>1, <1>2 DEF LearningInit
<1>4. /\ item \in [Sessions -> ItemRow] /\ \A s \in Sessions : ~item[s].on
      /\ prog \in [Products -> ProgressRow] /\ \A k \in Products : prog[k] = NoProgress
      /\ mast \in [Names -> MasteryRow] /\ \A n \in Names : mast[n].sessions = 0
  BY NoRows DEF LearningInit, NoItem, NoMastery
<1>5. /\ req \in [Reqs -> LearningRequest] /\ \A r \in Reqs : WorkOK(req[r]) /\ req[r].kind = "none"
  BY IdleIsOK DEF LearningInit
<1>6. day = 1 /\ day \in 1..MaxDay + 1 /\ starts \in 0..MaxStarts
  BY BoundsAreNat DEF LearningInit
<1>7. LearningTypeOK
  BY <1>3, <1>4, <1>5, <1>6 DEF LearningTypeOK
<1>8. OneGenerates /\ ItemsOK /\ LessonsKept
  BY <1>3, <1>4, <1>5 DEF OneGenerates, ItemsOK, LessonsKept
<1>9. /\ owed = [k \in Products |-> 0] /\ recorded = [k \in Products |-> 0]
      /\ crossed = {} /\ cut = {} /\ active = [k \in Products |-> {}]
  BY DEF LearningInit
<1>10. GhostsTyped
  BY <1>9 DEF GhostsTyped
<1>11. /\ NoProgress.made = 0 /\ NoProgress.names = {} /\ NoProgress.work = 0
       /\ NoProgress.last = 0 /\ NoProgress.streak = 0 /\ NoProgress.longest = 0
  BY DEF NoProgress
<1>12. Cardinality({}) = 0
  BY FS_EmptySet
<1>13. RowsOK
  BY <1>4, <1>6, <1>9, <1>11 DEF RowsOK
<1>14. StreaksOK
  <2> SUFFICES ASSUME NEW k \in Products
               PROVE  /\ prog[k].streak <= Cardinality(active[k]) /\ prog[k].longest >= prog[k].streak
                      /\ \A d \in active[k] : d <= prog[k].last
    BY DEF StreaksOK
  <2>1. active[k] = {} /\ prog[k] = NoProgress
    BY <1>4, <1>9
  <2> QED  BY <2>1, <1>11, <1>12
<1>15. NothingLearnedIsLost /\ WorkLostByOverlap
  <2>1. {n \in Names : mast[n].sessions > 0} = {}
    BY <1>4
  <2> QED  BY <2>1, <1>4, <1>9, <1>11, <1>12 DEF NothingLearnedIsLost, WorkLostByOverlap
<1> QED  BY <1>5, <1>7, <1>8, <1>10, <1>13, <1>14, <1>15 DEF LearningInv, Progressed

LEMMA AcceptedKeeps ==
  ASSUME LearningInv, NEW r \in Reqs,
         \/ ProblemAnalysed(r) \/ ChallengeAnalysed(r) \/ PatternGenerated(r) \/ CourseGenerated(r)
  PROVE  LearningInv'
<1>1. CASE ProblemAnalysed(r) \/ ChallengeAnalysed(r)
  <2>1. Accept(r, "load") /\ req[r].prod \notin Lessons
    BY <1>1 DEF ProblemAnalysed, ChallengeAnalysed, Lessons
  <2> QED  BY <2>1, AcceptKeeps
<1>2. CASE PatternGenerated(r) \/ CourseGenerated(r)
  <2>1. Accept(r, "item")
    BY <1>2 DEF PatternGenerated, CourseGenerated
  <2> QED  BY <2>1, AcceptKeeps
<1> QED  BY <1>1, <1>2

LEMMA LearningPreserved == LearningInv /\ [LearningNext]_learningVars => LearningInv'
<1> SUFFICES ASSUME LearningInv, [LearningNext]_learningVars PROVE LearningInv'
  OBVIOUS
<1>1. ASSUME NEW r \in Reqs, NEW k \in Products, NEW s \in Sessions, NEW n \in Names,
             \/ AnalyzeProblem(r, k, s, n) \/ AnalyzeChallenge(r, k, s, n)
             \/ GeneratePattern(r, k, s, n) \/ GenerateCourse(r, k, s, n)
      PROVE  LearningInv'
  BY <1>1, ChatStarts DEF AnalyzeProblem, AnalyzeChallenge, GeneratePattern, GenerateCourse
<1>2. ASSUME NEW k \in Products, NEW s \in Sessions, ProblemManual(k, s) \/ ChallengeManual(k, s)
      PROVE  LearningInv'
  BY <1>2, ManualKeeps DEF ProblemManual, ChallengeManual
<1>3. ASSUME NEW r \in Reqs, NEW s \in Sessions, NEW w \in Works,
             NEW m \in {"no", "completed", "mastered"},
             UpdatePattern(r, s, w, m) \/ UpdateCourse(r, s, w, m)
      PROVE  LearningInv'
  BY <1>3, UpdateStarts DEF UpdatePattern, UpdateCourse
<1>4. ASSUME NEW r \in Reqs, NEW s \in Sessions, DeletePattern(r, s) \/ DeleteCourse(r, s)
      PROVE  LearningInv'
  BY <1>4, DeleteStarts
<1>5. ASSUME NEW r \in Reqs, NEW k \in Products, ViewProgress(r, k)
      PROVE  LearningInv'
  BY <1>5, ViewStarts
<1>6. ASSUME NEW r \in Reqs,
             \/ ProblemAnalysed(r) \/ ChallengeAnalysed(r)
             \/ PatternGenerated(r) \/ CourseGenerated(r)
      PROVE  LearningInv'
  BY <1>6, AcceptedKeeps
<1>7. ASSUME NEW r \in Reqs, PatternCreate(r) \/ CourseCreate(r) \/ PatternCommit(r) \/ CourseCommit(r)
      PROVE  LearningInv'
  BY <1>7, ItemCreateKeeps, ItemCommitKeeps
  DEF PatternCreate, CourseCreate, PatternCommit, CourseCommit, Lessons
<1>8. ASSUME NEW r \in Reqs, ChatRejected(r) \/ Fail(r) \/ ItemDelete(r) \/ SessionDelete(r)
      PROVE  LearningInv'
  BY <1>8, RejectKeeps, FailKeeps, ItemDeleteKeeps, SessionDeleteKeeps
<1>9. ASSUME NEW r \in Reqs,
             ProgressLoad(r) \/ ProgressCreate(r) \/ MasteryLoad(r) \/ ProgressCommit(r)
      PROVE  LearningInv'
  BY <1>9, ProgressLoadKeeps, ProgressCreateKeeps, MasteryLoadKeeps, ProgressCommitKeeps
<1>10. ASSUME NEW s \in Sessions, DeleteAiSession(s)
       PROVE  LearningInv'
  BY <1>10, AiDeletionKeeps
<1>11. CASE Midnight
  BY <1>11, MidnightKeeps
<1>12. CASE UNCHANGED learningVars
  BY <1>12
  DEF learningVars, LearningInv, LearningTypeOK, WorkOK, Held, Named, OneGenerates, ItemsOK,
      LessonsKept, Progressed, GhostsTyped, RowsOK, StreaksOK, NothingLearnedIsLost, WorkLostByOverlap
<1> QED  BY <1>1, <1>2, <1>3, <1>4, <1>5, <1>6, <1>7, <1>8, <1>9, <1>10, <1>11, <1>12 DEF LearningNext

LEMMA LearningInvariant == LearningSpec => []LearningInv
BY LearningInitially, LearningPreserved, PTL DEF LearningSpec

-------------------------------------------------------------------------------
(* LearningProducts: the theorems *)

\* The rows of the learning products and the requests on them have their types in every
\* reachable state (leetcode/service.py, dsa_pattern/service.py, course_generator/service.py).
THEOREM LearningTypeCorrect == LearningSpec => []LearningTypeOK
<1>1. LearningInv => LearningTypeOK
  BY DEF LearningInv
<1> QED  BY <1>1, LearningInvariant, PTL

\* However many products, sessions, names and requests there are: an attempt, a pattern or a
\* course that was recorded is never lost from the progress row, every listed pattern has its
\* mastery row, and work is lost only where two requests overlapped on the row
\* (leetcode_progress_repository.py, course_repository.py, dsa_pattern_repository.py).
THEOREM LearningExplained == LearningSpec => []LearningIsExplained
<1>1. LearningInv => LearningIsExplained
  BY DEF LearningInv, Progressed, LearningIsExplained
<1> QED  BY <1>1, LearningInvariant, PTL

\* A lesson's streak counts days of activity, unless two requests overlapped on the row; and
\* a completed lesson without its row was cut off between two commits of its request
\* (dsa_pattern/service.py, course_generator/service.py).
THEOREM LessonsExplained == LearningSpec => []LessonsAreExplained
<1>1. ASSUME LearningInv PROVE LessonStreaksAreDays
  BY <1>1 DEF LearningInv, Progressed, StreaksOK, LessonStreaksAreDays
<1>2. ASSUME LearningInv PROVE LostLessonIsExplained
  BY <1>2 DEF LearningInv, LessonsKept, LostLessonIsExplained
<1> QED  BY <1>1, <1>2, LearningInvariant, PTL DEF LessonsAreExplained

-------------------------------------------------------------------------------
(* SessionStore: the orders of the lists *)

Listing(order) == order \in Seq(Conversations) /\ IsInjective(order)

\* To take a conversation out of an order leaves the others, each once.
LEMMA WithoutOne ==
  ASSUME NEW order, Listing(order), NEW s \in Conversations
  PROVE  Listing(Without(order, s)) /\ ToSet(Without(order, s)) = ToSet(order) \ {s}
<1> DEFINE n == Len(order)
<1>1. n \in Nat /\ DOMAIN order = 1 .. n /\ \A i \in 1 .. n : order[i] \in Conversations
  BY DEF Listing
<1>2. CASE ~ \E i \in 1 .. n : order[i] = s
  <2>1. Without(order, s) = order
    BY <1>2 DEF Without, RemoveFirst
  <2> QED  BY <1>1, <1>2, <2>1 DEF ToSet
<1>3. CASE \E i \in 1 .. n : order[i] = s
  <2>1. PICK k \in 1 .. n : order[k] = s
    BY <1>3
  <2>2. {i \in 1 .. n : order[i] = s} = {k}
    BY <1>1, <2>1 DEF Listing, IsInjective
  <2>3. SelectInSeq(order, LAMBDA v : v = s) = k
    <3>1. Min({k}) = k
      BY <2>1 DEF Min
    <3> QED  BY <2>2, <3>1 DEF SelectInSeq
  <2> DEFINE a == SubSeq(order, 1, k - 1)
             z == SubSeq(order, k + 1, n)
  <2>4. Without(order, s) = a \o z
    BY <1>3, <2>3 DEF Without, RemoveFirst, RemoveAt
  <2>5. /\ a \in Seq(Conversations) /\ Len(a) = k - 1 /\ \A i \in 1 .. k - 1 : a[i] = order[i]
        /\ z \in Seq(Conversations) /\ Len(z) = n - k
        /\ \A i \in 1 .. n - k : z[i] = order[k + i]
    <3>1. k - 1 \in Int /\ k + 1 \in Int /\ n \in Int /\ 1 \in Int
      BY <1>1
    <3>2. \A i \in 1 .. k - 1 : order[i] \in Conversations
      BY <1>1
    <3>3. \A i \in k + 1 .. n : order[i] \in Conversations
      BY <1>1
    <3>4. a \in Seq(Conversations) /\ Len(a) = k - 1 /\ \A i \in 1 .. k - 1 : a[i] = order[i]
      BY <1>1, <3>1, <3>2, SubSeqProperties
    <3>5. /\ z \in Seq(Conversations)
          /\ Len(z) = IF k + 1 <= n THEN n - (k + 1) + 1 ELSE 0
          /\ \A i \in 1 .. n - (k + 1) + 1 : z[i] = order[k + 1 + i - 1]
      BY <1>1, <3>1, <3>3, SubSeqProperties
    <3>6. k \in Int /\ 1 <= k /\ k <= n
      BY <1>1
    <3>7. Len(z) = n - k /\ \A i \in 1 .. n - k : z[i] = order[k + i]
      <4> HIDE DEF z
      <4>1. Len(z) = n - k
        <5> HIDE DEF n
        <5>1. n \in Int
          BY <1>1
        <5>2. CASE k < n
          BY <3>5, <3>6, <5>1, <5>2
        <5>3. CASE k = n
          BY <3>5, <3>6, <5>1, <5>3
        <5> QED  BY <3>6, <5>1, <5>2, <5>3
      <4>2. ASSUME NEW i \in 1 .. n - k PROVE z[i] = order[k + i]
        <5>1. i \in 1 .. n - (k + 1) + 1 /\ k + 1 + i - 1 = k + i
          BY <1>1, <3>6
        <5> QED  BY <3>5, <5>1
      <4> QED  BY <4>1, <4>2
    <3> QED  BY <3>4, <3>5, <3>7
  <2>6. /\ a \o z \in Seq(Conversations) /\ Len(a \o z) = n - 1
        /\ \A i \in 1 .. n - 1 : (a \o z)[i] = IF i < k THEN order[i] ELSE order[i + 1]
    <3>1. /\ a \o z \in Seq(Conversations)
          /\ Len(a \o z) = Len(a) + Len(z)
          /\ \A i \in 1 .. Len(a) + Len(z) : (a \o z)[i] = IF i <= Len(a) THEN a[i] ELSE z[i - Len(a)]
      BY <2>5, ConcatProperties
    <3> HIDE DEF a, z
    <3>2. k \in Int /\ 1 <= k /\ k <= n
      BY <1>1
    <3>3. Len(a \o z) = n - 1
      BY <1>1, <2>5, <3>1, <3>2
    <3>4. ASSUME NEW i \in 1 .. n - 1
          PROVE  (a \o z)[i] = IF i < k THEN order[i] ELSE order[i + 1]
      <4>1. (a \o z)[i] = IF i <= k - 1 THEN a[i] ELSE z[i - (k - 1)]
        BY <1>1, <2>5, <3>1, <3>2
      <4>2. CASE i < k
        BY <1>1, <2>5, <3>2, <4>1, <4>2
      <4>3. CASE i >= k
        <5>1. i - (k - 1) \in 1 .. n - k /\ k + (i - (k - 1)) = i + 1 /\ ~ (i <= k - 1)
          BY <1>1, <3>2, <4>3
        <5>2. z[i - (k - 1)] = order[k + (i - (k - 1))]
          BY <2>5, <5>1
        <5> QED  BY <1>1, <3>2, <4>1, <4>3, <5>1, <5>2
      <4>4. i < k \/ i >= k
        BY <3>2
      <4> QED  BY <4>2, <4>3, <4>4
    <3> QED  BY <3>1, <3>3, <3>4
  <2> HIDE DEF a, z
  <2>7. PICK w : w = a \o z
    OBVIOUS
  <2>8. /\ w \in Seq(Conversations) /\ DOMAIN w = 1 .. n - 1
        /\ \A i \in 1 .. n - 1 : w[i] = IF i < k THEN order[i] ELSE order[i + 1]
    <3>1. w \in Seq(Conversations) /\ Len(w) = n - 1
      BY <2>6, <2>7
    <3>2. DOMAIN w = 1 .. Len(w)
      BY <3>1
    <3> QED  BY <2>6, <2>7, <3>1, <3>2
  <2> DEFINE from(i) == IF i < k THEN i ELSE i + 1
  <2>9. /\ \A i \in 1 .. n - 1 : from(i) \in 1 .. n /\ from(i) # k /\ w[i] = order[from(i)]
        /\ \A i, j \in 1 .. n - 1 : from(i) = from(j) => i = j
    BY <1>1, <2>8
  <2> HIDE DEF from
  <2>10. IsInjective(w)
    <3>1. ASSUME NEW i \in 1 .. n - 1, NEW j \in 1 .. n - 1, w[i] = w[j]
          PROVE  i = j
      <4>1. from(i) = from(j)
        BY <1>1, <2>9, <3>1 DEF Listing, IsInjective
      <4> QED  BY <2>9, <4>1
    <3> QED  BY <2>8, <3>1 DEF IsInjective
  <2>11. ToSet(w) = ToSet(order) \ {s}
    <3>1. ASSUME NEW i \in 1 .. n - 1 PROVE w[i] \in ToSet(order) \ {s}
      BY <1>1, <2>1, <2>9 DEF Listing, IsInjective, ToSet
    <3>2. ASSUME NEW i \in 1 .. n, order[i] # s PROVE order[i] \in ToSet(w)
      <4>1. CASE i < k
        BY <1>1, <2>1, <2>8, <4>1 DEF ToSet
      <4>2. CASE i > k
        <5>1. i - 1 \in 1 .. n - 1 /\ w[i - 1] = order[i]
          BY <1>1, <2>1, <2>8, <4>2
        <5> QED  BY <2>8, <5>1 DEF ToSet
      <4> QED  BY <1>1, <2>1, <3>2, <4>1, <4>2
    <3> QED  BY <1>1, <2>8, <3>1, <3>2 DEF ToSet
  <2> QED  BY <2>4, <2>7, <2>8, <2>10, <2>11 DEF Listing
<1> QED  BY <1>2, <1>3

\* To touch a conversation makes it the last, and leaves the others.
LEMMA LatestOne ==
  ASSUME NEW order, Listing(order), NEW s \in Conversations
  PROVE  Listing(Latest(order, s)) /\ ToSet(Latest(order, s)) = ToSet(order) \cup {s}
<1>1. PICK w : w = Without(order, s)
  OBVIOUS
<1>2. Listing(w) /\ ToSet(w) = ToSet(order) \ {s}
  BY <1>1, WithoutOne
<1>3. w \in Seq(Conversations) /\ Len(w) \in Nat /\ DOMAIN w = 1 .. Len(w)
  BY <1>2 DEF Listing
<1>4. PICK v : v = Append(w, s)
  OBVIOUS
<1>5. /\ v \in Seq(Conversations) /\ DOMAIN v = 1 .. Len(w) + 1
      /\ \A i \in 1 .. Len(w) : v[i] = w[i]
      /\ v[Len(w) + 1] = s
  BY <1>3, <1>4
<1>6. IsInjective(v)
  <2>1. \A i \in 1 .. Len(w) : v[i] # s
    BY <1>2, <1>3, <1>5 DEF ToSet
  <2> QED  BY <1>2, <1>3, <1>5, <2>1 DEF Listing, IsInjective
<1>7. ToSet(v) = ToSet(order) \cup {s}
  <2>1. ToSet(v) = ToSet(w) \cup {s}
    BY <1>3, <1>5 DEF ToSet
  <2> QED  BY <1>2, <2>1
<1> QED  BY <1>1, <1>4, <1>5, <1>6, <1>7 DEF Latest, Listing

-------------------------------------------------------------------------------
(* SessionStore: the inductive invariant *)

Marking(t) == task[t].pc \in {"bookmark", "delete"}

\* What a request under way is about.
TasksOK ==
    \A t \in Threads :
        /\ Marking(t) => task[t].target \in DOMAIN message
        /\ task[t].pc = "drop" => task[t].target \in Conversations

\* A lesson's row has its session; and a session of a lesson without its row is bare, or
\* half way through its deletion.
LessonsOK ==
    /\ \A s \in lesson : Exists(s)
    /\ \A s \in Conversations : Exists(s) /\ session[s].feature \in LessonProducts /\ s \notin lesson =>
          s \in bare \/ \E t \in Threads : task[t].pc = "drop" /\ task[t].target = s

\* Two requests about to mark one message clash on it; one alone holds the message's
\* metadata as they are, but for its own mark.
Alone(t) ==
    LET m == task[t].target IN
    /\ task[t].meta.deleted = (task[t].pc = "delete" \/ message[m].meta.deleted)
    /\ task[t].pc = "delete" => task[t].meta.bookmarked = message[m].meta.bookmarked

MarksOK ==
    /\ MarksAreKept
    /\ \A t \in Threads : Marking(t) /\ task[t].target \in Stored \ clashed => Alone(t)
    /\ \A t, x \in Threads :
          Marking(t) /\ Marking(x) /\ task[t].target = task[x].target => t = x \/ task[t].target \in clashed

\* The answer a client missed is still in its conversation, if that is there.
ClientOK ==
    /\ client.pc # "idle" => client.target \in Conversations /\ session[client.target] # Null
    /\ client.pc \in {"idle", "open"} => client.answer = 0
    /\ client.pc = "lost" /\ client.answer # 0 /\ Exists(client.target) =>
          client.answer \in Answers(client.target)
    /\ client.pc = "back" /\ client.answer # 0 => client.shown >= client.answer

StoreInv == StoreTypeOK /\ TasksOK /\ LessonsOK /\ MarksOK /\ ClientOK

LEMMA StoreInitially == StoreInit => StoreInv
<1> SUFFICES ASSUME StoreInit PROVE StoreInv
  OBVIOUS
<1>1. NoTask \in TaskRow /\ NoTask.pc = "idle"
  BY DEF NoTask, TaskRow, Plain, Metadata
<1>2. NoClient \in ClientRow /\ NoClient.pc = "idle" /\ NoClient.answer = 0
  BY DEF NoClient, ClientRow
<1>3. /\ session \in [Conversations -> SessionRow \cup {Null, Removed}]
      /\ \A s \in Conversations : ~ Exists(s)
  BY DEF StoreInit, Exists
<1>4. \A t \in Threads : task[t].pc = "idle"
  BY <1>1 DEF StoreInit
<1>5. StoreTypeOK
  <2>1. recent \in Seq(Conversations) /\ DOMAIN recent = {}
    BY DEF StoreInit
  <2>2. touched \in Seq(Conversations) /\ DOMAIN touched = {}
    BY DEF StoreInit
  <2>3. IsInjective(recent) /\ IsInjective(touched) /\ ToSet(recent) = {} /\ ToSet(touched) = {}
    BY <2>1, <2>2 DEF IsInjective, ToSet
  <2>4. message \in Seq(MessageRow) /\ Len(message) = 0 /\ DOMAIN message = {}
    BY DEF StoreInit
  <2>5. DOMAIN wanted = {} /\ wanted \in [DOMAIN wanted -> BOOLEAN]
    BY DEF StoreInit
  <2>6. task \in [Threads -> TaskRow]
    BY <1>1 DEF StoreInit
  <2>7. client \in ClientRow
    BY <1>2 DEF StoreInit
  <2>8. Len(message) <= MaxMessages
    BY <2>4, StoreAssumption
  <2> QED  BY <1>3, <2>1, <2>2, <2>3, <2>4, <2>5, <2>6, <2>7, <2>8 DEF StoreInit, StoreTypeOK
<1>6. TasksOK
  BY <1>4 DEF TasksOK, Marking
<1>7. LessonsOK
  BY <1>3 DEF StoreInit, LessonsOK
<1>8. MarksOK
  BY <1>4 DEF StoreInit, MarksOK, MarksAreKept, Marking
<1>9. ClientOK
  BY <1>2 DEF StoreInit, ClientOK
<1> QED  BY <1>5, <1>6, <1>7, <1>8, <1>9 DEF StoreInv

-------------------------------------------------------------------------------
(* SessionStore: what the steps share *)

\* The parts of the type invariant that say which conversations the orders have.
OrdersOK ==
    /\ Listing(recent) /\ ToSet(recent) = {s \in Conversations : Exists(s)}
    /\ Listing(touched) /\ ToSet(touched) \subseteq ToSet(recent)

MessagesOK == message \in Seq(MessageRow) /\ Len(message) <= MaxMessages

GhostsOK ==
    /\ erased \subseteq DOMAIN message /\ clashed \subseteq DOMAIN message
    /\ DOMAIN wanted \subseteq DOMAIN message
    /\ wanted \in [DOMAIN wanted -> BOOLEAN]

LEMMA Types ==
  StoreTypeOK <=> /\ session \in [Conversations -> SessionRow \cup {Null, Removed}]
                  /\ lesson \subseteq Conversations /\ bare \subseteq Conversations
                  /\ task \in [Threads -> TaskRow] /\ client \in ClientRow
                  /\ OrdersOK /\ MessagesOK /\ GhostsOK
BY DEF StoreTypeOK, OrdersOK, MessagesOK, GhostsOK, Listing

LEMMA TypesNext ==
  ASSUME session' \in [Conversations -> SessionRow \cup {Null, Removed}],
         lesson' \subseteq Conversations, bare' \subseteq Conversations,
         task' \in [Threads -> TaskRow], client' \in ClientRow,
         OrdersOK', MessagesOK', GhostsOK'
  PROVE  StoreTypeOK'
BY DEF StoreTypeOK, OrdersOK, MessagesOK, GhostsOK, Listing

\* A row is neither NULL nor removed.
LEMMA RowExists ==
  ASSUME NEW r \in SessionRow
  PROVE  r # Null /\ r # Removed
<1>1. r # Null
  BY NullIsNoRow
<1>2. r = [owner |-> r.owner, feature |-> r.feature, archived |-> r.archived,
           pinned |-> r.pinned, found |-> r.found]
  BY DEF SessionRow
<1>3. "owner" \in DOMAIN r
  BY <1>2
<1>4. "owner" \notin DOMAIN Removed
  BY DEF Removed
<1> QED  BY <1>1, <1>3, <1>4

\* Messages that are added: the others stay as they are.
Grows ==
    /\ message' \in Seq(MessageRow)
    /\ DOMAIN message \subseteq DOMAIN message'
    /\ \A m \in DOMAIN message : message'[m] = message[m]

\* Messages whose session is deleted: the others, and their metadata, stay.
Shrinks ==
    /\ message' \in Seq(MessageRow)
    /\ DOMAIN message' = DOMAIN message
    /\ \A m \in DOMAIN message : /\ message'[m].meta = message[m].meta
                                 /\ message'[m].session # Null => message'[m] = message[m]

LEMMA GrowsKeepsMarks ==
  ASSUME StoreInv, Grows, UNCHANGED <<task, erased, wanted, clashed>>
  PROVE  TasksOK' /\ MarksOK' /\ GhostsOK'
<1>1. GhostsOK /\ TasksOK /\ MarksOK
  BY Types DEF StoreInv
<1>2. GhostsOK'
  BY <1>1 DEF Grows, GhostsOK
<1>3. TasksOK'
  BY <1>1 DEF Grows, TasksOK, Marking
<1>4. \A m \in DOMAIN message : m \in Stored' <=> m \in Stored
  BY DEF Grows, Stored
<1>5. MarksAreKept'
  BY <1>1, <1>4 DEF Grows, GhostsOK, MarksOK, MarksAreKept
<1>6. ASSUME NEW t \in Threads, Marking(t)', (task[t].target \in Stored \ clashed)'
      PROVE  Alone(t)'
  <2>1. task[t].target \in DOMAIN message /\ task[t].target \in Stored \ clashed
    BY <1>1, <1>4, <1>6 DEF TasksOK, Marking
  <2>2. Alone(t)
    BY <1>1, <1>6, <2>1 DEF MarksOK, Marking
  <2> QED  BY <2>1, <2>2 DEF Grows, Alone
<1> QED  BY <1>1, <1>2, <1>3, <1>5, <1>6 DEF MarksOK, Marking

LEMMA ShrinksKeepsMarks ==
  ASSUME StoreInv, Shrinks, UNCHANGED <<erased, wanted, clashed>>,
         \A t \in Threads : task'[t].pc = "idle" \/ task'[t] = task[t]
  PROVE  TasksOK' /\ MarksOK' /\ GhostsOK'
<1>1. GhostsOK /\ TasksOK /\ MarksOK
  BY Types DEF StoreInv
<1>2. GhostsOK'
  BY <1>1 DEF Shrinks, GhostsOK
<1>3. TasksOK'
  BY <1>1 DEF Shrinks, TasksOK, Marking
<1>4. \A m : m \in Stored' => m \in Stored
  BY DEF Shrinks, Stored
<1>5. MarksAreKept'
  BY <1>1, <1>4 DEF Shrinks, MarksOK, MarksAreKept, Stored
<1>6. ASSUME NEW t \in Threads, Marking(t)', (task[t].target \in Stored \ clashed)'
      PROVE  Alone(t)'
  <2>1. task'[t] = task[t]
    BY <1>6 DEF Marking
  <2>2. task[t].target \in DOMAIN message /\ task[t].target \in Stored \ clashed
    BY <1>1, <1>4, <1>6, <2>1 DEF TasksOK, Marking
  <2>3. Alone(t)
    BY <1>1, <1>6, <2>1, <2>2 DEF MarksOK, Marking
  <2> QED  BY <2>1, <2>2, <2>3 DEF Shrinks, Alone
<1>7. \A t, x \in Threads :
        Marking(t)' /\ Marking(x)' /\ task'[t].target = task'[x].target
            => t = x \/ task'[t].target \in clashed'
  BY <1>1 DEF MarksOK, Marking
<1> QED  BY <1>2, <1>3, <1>5, <1>6, <1>7 DEF MarksOK

\* A client is left alone by whoever brings no conversation back and takes no message of
\* one that stays.
LEMMA ClientKept ==
  ASSUME StoreInv, UNCHANGED client,
         \A s \in Conversations : session[s] # Null => session'[s] # Null,
         \A s \in Conversations : session[s] # Null /\ Exists(s)' =>
             Exists(s) /\ \A m : m \in Answers(s) => m \in Answers(s)'
  PROVE  ClientOK'
BY DEF StoreInv, ClientOK

-------------------------------------------------------------------------------
(* SessionStore: the steps on sessions *)

\* A step that touches only sessions and their orders leaves marks and tasks alone.
LEMMA SameMarks ==
  ASSUME StoreInv, UNCHANGED <<message, task, erased, wanted, clashed>>
  PROVE  MessagesOK' /\ GhostsOK' /\ TasksOK' /\ MarksOK'
<1>1. MessagesOK /\ Grows
  BY Types DEF StoreInv, Grows, MessagesOK
<1>2. MessagesOK'
  BY <1>1 DEF MessagesOK
<1> QED  BY <1>1, <1>2, GrowsKeepsMarks

LEMMA CreateStep ==
  ASSUME StoreInv, NEW u \in Users, NEW s \in Conversations, NEW f \in Features,
         NEW r \in BOOLEAN, CreateSession(u, s, f, r)
  PROVE  StoreInv'
<1>1. /\ session[s] = Null /\ UNCHANGED <<message, touched, task, client, erased, wanted, clashed>>
      /\ lesson' = IF r THEN lesson \cup {s} ELSE lesson
      /\ bare' = IF f \in LessonProducts /\ ~ r THEN bare \cup {s} ELSE bare
      /\ recent' = Latest(recent, s)
  BY DEF CreateSession, Marks
<1>2. PICK found \in BOOLEAN :
         session' = [session EXCEPT ![s] = [owner |-> u, feature |-> f, archived |-> FALSE,
                                            pinned |-> FALSE, found |-> found]]
  BY DEF CreateSession
<1> DEFINE new == [owner |-> u, feature |-> f, archived |-> FALSE, pinned |-> FALSE,
                   found |-> found]
<1>3. new \in SessionRow /\ new.feature = f
  BY DEF SessionRow
<1> HIDE DEF new
<1>4. /\ session' \in [Conversations -> SessionRow \cup {Null, Removed}]
      /\ session'[s] = new /\ Exists(s)' /\ ~ Exists(s)
      /\ \A x \in Conversations \ {s} : session'[x] = session[x] /\ (Exists(x)' <=> Exists(x))
  <2>1. session \in [Conversations -> SessionRow \cup {Null, Removed}]
    BY Types DEF StoreInv
  <2>2. session' = [session EXCEPT ![s] = new]
    BY <1>2 DEF new
  <2>3. new # Null /\ new # Removed
    BY <1>3, RowExists
  <2> QED  BY <1>1, <1>3, <2>1, <2>2, <2>3 DEF Exists
<1>5. OrdersOK'
  <2>1. OrdersOK
    BY Types DEF StoreInv
  <2>2. Listing(recent') /\ ToSet(recent') = ToSet(recent) \cup {s}
    BY <1>1, <2>1, LatestOne DEF OrdersOK
  <2>3. Listing(touched') /\ touched' = touched
    BY <1>1, <2>1 DEF OrdersOK
  <2>4. ToSet(recent') = {x \in Conversations : Exists(x)'}
    BY <1>4, <2>1, <2>2 DEF OrdersOK
  <2>5. ToSet(touched') \subseteq ToSet(recent')
    BY <2>1, <2>2, <2>3 DEF OrdersOK
  <2> QED  BY <2>2, <2>3, <2>4, <2>5 DEF OrdersOK, Listing
<1>6. LessonsOK'
  <2>1. LessonsOK /\ lesson \subseteq Conversations
    BY Types DEF StoreInv
  <2>2. \A x \in lesson' : Exists(x)'
    BY <1>1, <1>4, <2>1 DEF LessonsOK
  <2>3. ASSUME NEW x \in Conversations,
               Exists(x)', session'[x].feature \in LessonProducts, x \notin lesson'
        PROVE  x \in bare' \/ \E t \in Threads : task'[t].pc = "drop" /\ task'[t].target = x
    <3>1. CASE x = s
      BY <1>1, <1>3, <1>4, <2>3, <3>1
    <3>2. CASE x # s
      BY <1>1, <1>4, <2>1, <2>3, <3>2 DEF LessonsOK
    <3> QED  BY <3>1, <3>2
  <2> QED  BY <2>2, <2>3 DEF LessonsOK
<1>7. ClientOK'
  <2>1. \A x \in Conversations : session[x] # Null => session'[x] # Null
    BY <1>1, <1>4
  <2>2. \A x \in Conversations : session[x] # Null /\ Exists(x)' =>
             Exists(x) /\ \A m : m \in Answers(x) => m \in Answers(x)'
    BY <1>1, <1>4 DEF Answers, Of, Stored
  <2> QED  BY <1>1, <2>1, <2>2, ClientKept
<1>8. lesson' \subseteq Conversations /\ bare' \subseteq Conversations
      /\ task' \in [Threads -> TaskRow] /\ client' \in ClientRow
  BY <1>1, Types DEF StoreInv
<1> QED  BY <1>1, <1>4, <1>5, <1>6, <1>7, <1>8, SameMarks, TypesNext DEF StoreInv

\* A column of a session that exists is set, and perhaps its place in the order.
LEMMA UpdateStep ==
  ASSUME StoreInv, NEW s \in Conversations, Exists(s),
         NEW column \in {"found", "archived", "pinned"}, NEW v \in BOOLEAN,
         UpdateSession(s, column, v)
  PROVE  StoreInv'
<1>1. /\ session' = [session EXCEPT ![s][column] = v]
      /\ recent' \in {recent, Latest(recent, s)}
      /\ UNCHANGED <<lesson, message, touched, task, client, bare, erased, wanted, clashed>>
  BY DEF UpdateSession, Marks
<1>2. session \in [Conversations -> SessionRow \cup {Null, Removed}] /\ session[s] \in SessionRow
  BY Types DEF StoreInv, Exists
<1> DEFINE new == [session[s] EXCEPT ![column] = v]
<1>3. new \in SessionRow /\ new.feature = session[s].feature
  <2>1. CASE column = "found"
    BY <1>2, <2>1 DEF SessionRow
  <2>2. CASE column = "archived"
    BY <1>2, <2>2 DEF SessionRow
  <2>3. CASE column = "pinned"
    BY <1>2, <2>3 DEF SessionRow
  <2> QED  BY <2>1, <2>2, <2>3
<1> HIDE DEF new
<1>4. /\ session' \in [Conversations -> SessionRow \cup {Null, Removed}]
      /\ session'[s] = new
      /\ \A x \in Conversations : /\ Exists(x)' <=> Exists(x)
                                  /\ Exists(x) => session'[x].feature = session[x].feature
                                  /\ session[x] # Null => session'[x] # Null
  <2>1. session' = [session EXCEPT ![s] = new]
    BY <1>1 DEF new
  <2>2. new # Null /\ new # Removed
    BY <1>3, RowExists
  <2> QED  BY <1>2, <1>3, <2>1, <2>2 DEF Exists
<1>5. OrdersOK'
  <2>1. OrdersOK
    BY Types DEF StoreInv
  <2>2. s \in ToSet(recent)
    BY <2>1 DEF OrdersOK
  <2>3. Listing(recent') /\ ToSet(recent') = ToSet(recent)
    BY <1>1, <2>1, <2>2, LatestOne DEF OrdersOK
  <2>4. ToSet(recent') = {x \in Conversations : Exists(x)'}
    BY <1>4, <2>1, <2>3 DEF OrdersOK
  <2> QED  BY <1>1, <2>1, <2>3, <2>4 DEF OrdersOK, Listing
<1>6. LessonsOK'
  BY <1>1, <1>4, Types DEF StoreInv, LessonsOK
<1>7. ClientOK'
  <2>1. \A x \in Conversations : session[x] # Null /\ Exists(x)' =>
             Exists(x) /\ \A m : m \in Answers(x) => m \in Answers(x)'
    BY <1>1, <1>4 DEF Answers, Of, Stored
  <2> QED  BY <1>1, <1>4, <2>1, ClientKept
<1>8. lesson' \subseteq Conversations /\ bare' \subseteq Conversations
      /\ task' \in [Threads -> TaskRow] /\ client' \in ClientRow
  BY <1>1, Types DEF StoreInv
<1> QED  BY <1>1, <1>4, <1>5, <1>6, <1>7, <1>8, SameMarks, TypesNext DEF StoreInv

LEMMA SetModeStep ==
  ASSUME StoreInv, NEW u \in Users, NEW f, NEW s \in Conversations, SetMode(u, f, s)
  PROVE  StoreInv'
<1>1. /\ Exists(s) /\ recent' = Latest(recent, s)
      /\ UNCHANGED <<session, lesson, message, touched, task, client, bare, erased, wanted, clashed>>
  BY DEF SetMode, EnsureFeature, EnsureAccess, Marks
<1>2. OrdersOK'
  <2>1. OrdersOK
    BY Types DEF StoreInv
  <2>2. s \in ToSet(recent)
    BY <1>1, <2>1 DEF OrdersOK
  <2>3. Listing(recent') /\ ToSet(recent') = ToSet(recent)
    BY <1>1, <2>1, <2>2, LatestOne DEF OrdersOK
  <2> QED  BY <1>1, <2>1, <2>3 DEF OrdersOK, Listing, Exists
<1>3. LessonsOK'
  BY <1>1 DEF StoreInv, LessonsOK, Exists
<1>4. ClientOK'
  BY <1>1, ClientKept DEF Answers, Of, Stored, Exists
<1>5. /\ session' \in [Conversations -> SessionRow \cup {Null, Removed}]
      /\ lesson' \subseteq Conversations /\ bare' \subseteq Conversations
      /\ task' \in [Threads -> TaskRow] /\ client' \in ClientRow
  BY <1>1, Types DEF StoreInv
<1> QED  BY <1>1, <1>2, <1>3, <1>4, <1>5, SameMarks, TypesNext DEF StoreInv

-------------------------------------------------------------------------------
(* SessionStore: what is deleted *)

\* A lesson's row goes with its session or before it; and nobody is left whose answer is
\* in the session that goes.
LEMMA DropStep ==
  ASSUME StoreInv, NEW s \in Conversations, Exists(s), Drop(s),
         UNCHANGED <<client, bare, erased, wanted, clashed>>,
         task' \in [Threads -> TaskRow],
         \A t \in Threads : \/ task'[t] = task[t]
                            \/ task'[t].pc = "idle" /\ (task[t].pc = "drop" => task[t].target = s)
  PROVE  StoreInv'
<1>1. /\ session' = [session EXCEPT ![s] = Removed] /\ lesson' = lesson \ {s}
      /\ recent' = Without(recent, s) /\ touched' = Without(touched, s)
      /\ message' = [m \in DOMAIN message |->
            IF message[m].session = s THEN [message[m] EXCEPT !.session = Null] ELSE message[m]]
  BY DEF Drop
<1>2. /\ session' \in [Conversations -> SessionRow \cup {Null, Removed}]
      /\ session'[s] = Removed /\ ~ Exists(s)'
      /\ \A x \in Conversations \ {s} : session'[x] = session[x] /\ (Exists(x)' <=> Exists(x))
  <2>1. session \in [Conversations -> SessionRow \cup {Null, Removed}]
    BY Types DEF StoreInv
  <2> QED  BY <1>1, <2>1 DEF Exists
<1>3. MessagesOK' /\ Shrinks
  <2>1. message \in Seq(MessageRow) /\ Len(message) <= MaxMessages
    BY Types DEF StoreInv, MessagesOK
  <2>2. Len(message) \in Nat /\ DOMAIN message = 1 .. Len(message)
    BY <2>1
  <2>3. \A m \in 1 .. Len(message) : message[m] \in MessageRow
    BY <2>1
  <2>4. \A m \in 1 .. Len(message) :
           [message[m] EXCEPT !.session = Null] \in MessageRow
           /\ [message[m] EXCEPT !.session = Null].meta = message[m].meta
           /\ [message[m] EXCEPT !.session = Null].session = Null
    BY <2>3 DEF MessageRow
  <2>5. PICK w : w = message'
    OBVIOUS
  <2>6. /\ w = [m \in 1 .. Len(message) |-> w[m]]
        /\ \A m \in 1 .. Len(message) :
              w[m] = IF message[m].session = s THEN [message[m] EXCEPT !.session = Null]
                     ELSE message[m]
    BY <1>1, <2>2, <2>5
  <2>7. \A m \in 1 .. Len(message) : w[m] \in MessageRow
    BY <2>3, <2>4, <2>6
  <2>8. w \in Seq(MessageRow) /\ Len(w) = Len(message)
    BY <2>2, <2>6, <2>7
  <2>9. \A m \in 1 .. Len(message) : /\ w[m].meta = message[m].meta
                                     /\ w[m].session # Null => w[m] = message[m]
    BY <2>4, <2>6
  <2>10. DOMAIN w = DOMAIN message
    BY <2>2, <2>6
  <2> QED  BY <2>1, <2>2, <2>5, <2>8, <2>9, <2>10 DEF MessagesOK, Shrinks
<1>4. OrdersOK'
  <2>1. OrdersOK
    BY Types DEF StoreInv
  <2>2. /\ Listing(recent') /\ ToSet(recent') = ToSet(recent) \ {s}
        /\ Listing(touched') /\ ToSet(touched') = ToSet(touched) \ {s}
    BY <1>1, <2>1, WithoutOne DEF OrdersOK
  <2>3. ToSet(recent') = {x \in Conversations : Exists(x)'}
    BY <1>2, <2>1, <2>2 DEF OrdersOK
  <2>4. ToSet(touched') \subseteq ToSet(recent')
    BY <2>1, <2>2 DEF OrdersOK
  <2> QED  BY <2>2, <2>3, <2>4 DEF OrdersOK, Listing
<1>5. LessonsOK'
  <2>1. LessonsOK /\ lesson \subseteq Conversations
    BY Types DEF StoreInv
  <2>2. \A x \in lesson' : Exists(x)'
    BY <1>1, <1>2, <2>1 DEF LessonsOK
  <2>3. ASSUME NEW x \in Conversations,
               Exists(x)', session'[x].feature \in LessonProducts, x \notin lesson'
        PROVE  x \in bare' \/ \E t \in Threads : task'[t].pc = "drop" /\ task'[t].target = x
    <3>1. x # s /\ Exists(x) /\ session[x].feature \in LessonProducts /\ x \notin lesson
      BY <1>1, <1>2, <2>3
    <3>2. CASE x \in bare
      BY <3>2
    <3>3. CASE x \notin bare
      <4>1. PICK t \in Threads : task[t].pc = "drop" /\ task[t].target = x
        BY <2>1, <3>1, <3>3 DEF LessonsOK
      <4>2. task'[t] = task[t]
        BY <3>1, <4>1
      <4> QED  BY <4>1, <4>2
    <3> QED  BY <3>2, <3>3
  <2> QED  BY <2>2, <2>3 DEF LessonsOK
<1>6. ClientOK'
  <2>1. \A x \in Conversations : session[x] # Null => session'[x] # Null
    <3>1. Removed # Null
      BY NullIsNoRow
    <3> QED  BY <1>2, <3>1
  <2>2. ASSUME NEW x \in Conversations, session[x] # Null, Exists(x)'
        PROVE  Exists(x) /\ \A m : m \in Answers(x) => m \in Answers(x)'
    <3>1. x # s /\ Exists(x)
      BY <1>2, <2>2
    <3>2. ASSUME NEW m \in Answers(x) PROVE m \in Answers(x)'
      <4>1. m \in DOMAIN message /\ message[m].session = x /\ message[m].session # Null
        BY <3>2 DEF Answers, Of, Stored
      <4>2. m \in DOMAIN message' /\ message'[m] = message[m]
        BY <1>1, <3>1, <4>1
      <4> QED  BY <3>2, <4>1, <4>2 DEF Answers, Of, Stored
    <3> QED  BY <3>1, <3>2
  <2> QED  BY <2>1, <2>2, ClientKept
<1>7. TasksOK' /\ MarksOK' /\ GhostsOK'
  BY <1>3, ShrinksKeepsMarks
<1>8. lesson' \subseteq Conversations /\ bare' \subseteq Conversations /\ client' \in ClientRow
  BY <1>1, Types DEF StoreInv
<1> QED  BY <1>2, <1>3, <1>4, <1>5, <1>6, <1>7, <1>8, TypesNext DEF StoreInv

LEMMA DeleteConversationStep ==
  ASSUME StoreInv, NEW u \in Users, NEW s \in Conversations, DeleteConversation(u, s)
  PROVE  StoreInv'
<1>1. /\ Exists(s) /\ Drop(s) /\ UNCHANGED <<task, client, bare, erased, wanted, clashed>>
      /\ task \in [Threads -> TaskRow]
  BY Types DEF DeleteConversation, EnsureAccess, Marks, StoreInv
<1> QED  BY <1>1, DropStep

\* A request of a lesson's owner: the lesson is without its row until the request ends.
LEMMA DeleteItemStep ==
  ASSUME StoreInv, NEW t \in Threads, NEW s \in Conversations, DeleteItem(t, s)
  PROVE  StoreInv'
<1> DEFINE new == [NoTask EXCEPT !.pc = "drop", !.target = s]
<1>1. /\ task[t].pc = "idle" /\ lesson' = lesson \ {s} /\ task' = [task EXCEPT ![t] = new]
      /\ UNCHANGED <<session, message, recent, touched, client, bare, erased, wanted, clashed>>
  BY DEF DeleteItem, Marks
<1>2. new \in TaskRow /\ new.pc = "drop" /\ new.target = s
  BY DEF NoTask, TaskRow, Plain, Metadata
<1> HIDE DEF new
<1>3. /\ task' \in [Threads -> TaskRow] /\ task'[t] = new
      /\ \A x \in Threads \ {t} : task'[x] = task[x]
  <2>1. task \in [Threads -> TaskRow]
    BY Types DEF StoreInv
  <2> QED  BY <1>1, <1>2, <2>1
<1>4. TasksOK' /\ MarksOK' /\ GhostsOK' /\ OrdersOK' /\ MessagesOK'
  <2>1. TasksOK /\ MarksOK /\ GhostsOK /\ OrdersOK /\ MessagesOK
    BY Types DEF StoreInv
  <2>2. TasksOK'
    BY <1>1, <1>2, <1>3, <2>1 DEF TasksOK, Marking
  <2>3. MarksOK'
    BY <1>1, <1>2, <1>3, <2>1 DEF MarksOK, MarksAreKept, Marking, Alone, Stored
  <2> QED  BY <1>1, <2>1, <2>2, <2>3 DEF GhostsOK, OrdersOK, Listing, MessagesOK, Exists
<1>5. LessonsOK'
  <2>1. LessonsOK /\ lesson \subseteq Conversations
    BY Types DEF StoreInv
  <2>2. \A x \in lesson' : Exists(x)'
    BY <1>1, <2>1 DEF LessonsOK, Exists
  <2>3. ASSUME NEW x \in Conversations,
               Exists(x)', session'[x].feature \in LessonProducts, x \notin lesson', x \notin bare
        PROVE  \E y \in Threads : task'[y].pc = "drop" /\ task'[y].target = x
    <3>1. CASE x = s
      BY <1>2, <1>3, <3>1
    <3>2. CASE x # s
      <4>1. PICK y \in Threads : task[y].pc = "drop" /\ task[y].target = x
        BY <1>1, <2>1, <2>3, <3>2 DEF LessonsOK, Exists
      <4> QED  BY <1>1, <1>3, <4>1
    <3> QED  BY <3>1, <3>2
  <2> QED  BY <1>1, <2>2, <2>3 DEF LessonsOK
<1>6. ClientOK'
  BY <1>1 DEF StoreInv, ClientOK, Answers, Of, Stored, Exists
<1>7. /\ session' \in [Conversations -> SessionRow \cup {Null, Removed}]
      /\ lesson' \subseteq Conversations /\ bare' \subseteq Conversations /\ client' \in ClientRow
  BY <1>1, Types DEF StoreInv
<1> QED  BY <1>3, <1>4, <1>5, <1>6, <1>7, TypesNext DEF StoreInv

\* A thread that is done.
LEMMA Done ==
  ASSUME StoreInv, NEW t \in Threads, task' = [task EXCEPT ![t] = NoTask]
  PROVE  /\ task' \in [Threads -> TaskRow] /\ task'[t].pc = "idle"
         /\ \A x \in Threads \ {t} : task'[x] = task[x]
<1>1. task \in [Threads -> TaskRow]
  BY Types DEF StoreInv
<1>2. NoTask \in TaskRow /\ NoTask.pc = "idle"
  BY DEF NoTask, TaskRow, Plain, Metadata
<1> QED  BY <1>1, <1>2

LEMMA DropItsSessionStep ==
  ASSUME StoreInv, NEW t \in Threads, DropItsSession(t)
  PROVE  StoreInv'
<1>1. /\ task[t].pc = "drop" /\ task' = [task EXCEPT ![t] = NoTask]
      /\ UNCHANGED <<client, bare, erased, wanted, clashed>>
  BY DEF DropItsSession, Marks
<1>2. /\ task' \in [Threads -> TaskRow] /\ task'[t].pc = "idle"
      /\ \A x \in Threads \ {t} : task'[x] = task[x]
  BY <1>1, Done
<1>3. task[t].target \in Conversations
  BY <1>1 DEF StoreInv, TasksOK
<1>4. CASE Exists(task[t].target)
  <2>1. Drop(task[t].target)
    BY <1>4 DEF DropItsSession
  <2>2. \A x \in Threads :
           \/ task'[x] = task[x]
           \/ task'[x].pc = "idle" /\ (task[x].pc = "drop" => task[x].target = task[t].target)
    BY <1>2
  <2> QED  BY <1>1, <1>2, <1>3, <1>4, <2>1, <2>2, DropStep
<1>5. CASE ~ Exists(task[t].target)
  <2>1. UNCHANGED <<session, lesson, message, recent, touched>>
    BY <1>5 DEF DropItsSession
  <2>2. Shrinks /\ OrdersOK' /\ MessagesOK'
    <3>1. OrdersOK /\ MessagesOK
      BY Types DEF StoreInv
    <3> QED  BY <2>1, <3>1 DEF Shrinks, OrdersOK, Listing, MessagesOK, Exists
  <2>3. TasksOK' /\ MarksOK' /\ GhostsOK'
    <3>1. \A x \in Threads : task'[x].pc = "idle" \/ task'[x] = task[x]
      BY <1>2
    <3> QED  BY <1>1, <2>2, <3>1, ShrinksKeepsMarks
  <2>4. LessonsOK'
    <3>1. LessonsOK
      BY DEF StoreInv
    <3>2. \A x \in Conversations, y \in Threads :
             Exists(x) /\ task[y].pc = "drop" /\ task[y].target = x => task'[y] = task[y]
      BY <1>2, <1>5
    <3> QED  BY <1>1, <2>1, <3>1, <3>2 DEF LessonsOK, Exists
  <2>5. ClientOK'
    BY <1>1, <2>1 DEF StoreInv, ClientOK, Answers, Of, Stored, Exists
  <2>6. /\ session' \in [Conversations -> SessionRow \cup {Null, Removed}]
        /\ lesson' \subseteq Conversations /\ bare' \subseteq Conversations /\ client' \in ClientRow
    BY <1>1, <2>1, Types DEF StoreInv
  <2> QED  BY <1>2, <2>2, <2>3, <2>4, <2>5, <2>6, TypesNext DEF StoreInv
<1> QED  BY <1>4, <1>5

LEMMA DropFailsStep ==
  ASSUME StoreInv, NEW t \in Threads, DropFails(t)
  PROVE  StoreInv'
<1>1. /\ task[t].pc = "drop" /\ task' = [task EXCEPT ![t] = NoTask]
      /\ bare' = bare \cup {task[t].target}
      /\ UNCHANGED <<session, lesson, message, recent, touched, client, erased, wanted, clashed>>
  BY DEF DropFails, Marks
<1>2. /\ task' \in [Threads -> TaskRow] /\ task'[t].pc = "idle"
      /\ \A x \in Threads \ {t} : task'[x] = task[x]
  BY <1>1, Done
<1>3. task[t].target \in Conversations
  BY <1>1 DEF StoreInv, TasksOK
<1>4. Shrinks /\ OrdersOK' /\ MessagesOK'
  <2>1. OrdersOK /\ MessagesOK
    BY Types DEF StoreInv
  <2> QED  BY <1>1, <2>1 DEF Shrinks, OrdersOK, Listing, MessagesOK, Exists
<1>5. TasksOK' /\ MarksOK' /\ GhostsOK'
  <2>1. \A x \in Threads : task'[x].pc = "idle" \/ task'[x] = task[x]
    BY <1>2
  <2> QED  BY <1>1, <1>4, <2>1, ShrinksKeepsMarks
<1>6. LessonsOK'
  <2>1. LessonsOK
    BY DEF StoreInv
  <2>2. \A x \in Conversations, y \in Threads :
           task[y].pc = "drop" /\ task[y].target = x => x \in bare' \/ task'[y] = task[y]
    BY <1>1, <1>2
  <2> QED  BY <1>1, <2>1, <2>2 DEF LessonsOK, Exists
<1>7. ClientOK'
  BY <1>1 DEF StoreInv, ClientOK, Answers, Of, Stored, Exists
<1>8. /\ session' \in [Conversations -> SessionRow \cup {Null, Removed}]
      /\ lesson' \subseteq Conversations /\ bare' \subseteq Conversations /\ client' \in ClientRow
  BY <1>1, <1>3, Types DEF StoreInv
<1> QED  BY <1>2, <1>4, <1>5, <1>6, <1>7, <1>8, TypesNext DEF StoreInv

-------------------------------------------------------------------------------
(* SessionStore: the steps on marks *)

\* A request that copies the metadata of a message other requests have copied too makes
\* it a clash; otherwise it holds them as they are, but for its own mark.
LEMMA CopyStep ==
  ASSUME StoreInv, NEW t \in Threads, NEW u, NEW f, NEW m \in Stored,
         NEW pc \in {"bookmark", "delete"}, NEW meta \in Metadata,
         meta.deleted = (pc = "delete" \/ message[m].meta.deleted),
         pc = "delete" => meta.bookmarked = message[m].meta.bookmarked,
         Copy(t, u, f, m, pc, meta)
  PROVE  StoreInv'
<1> DEFINE new == [pc |-> pc, target |-> m, meta |-> meta]
<1>1. /\ task[t].pc = "idle" /\ task' = [task EXCEPT ![t] = new]
      /\ clashed' = IF Claimed(m) THEN clashed \cup {m} ELSE clashed
      /\ UNCHANGED <<session, lesson, message, recent, touched, bare, client, erased, wanted>>
  BY DEF Copy, Rows
<1>2. m \in DOMAIN message /\ DOMAIN message \subseteq Nat
  <2>1. message \in Seq(MessageRow)
    BY Types DEF StoreInv, MessagesOK
  <2> QED  BY <2>1 DEF Stored
<1>3. new \in TaskRow /\ new.pc = pc /\ new.target = m /\ new.meta = meta
  BY <1>2 DEF TaskRow
<1> HIDE DEF new
<1>4. /\ task' \in [Threads -> TaskRow] /\ task'[t] = new
      /\ \A x \in Threads \ {t} : task'[x] = task[x]
  <2>1. task \in [Threads -> TaskRow]
    BY Types DEF StoreInv
  <2> QED  BY <1>1, <1>3, <2>1
<1>5. TasksOK /\ MarksOK /\ GhostsOK /\ OrdersOK /\ MessagesOK /\ LessonsOK
  BY Types DEF StoreInv
<1>6. TasksOK'
  <2>1. ASSUME NEW x \in Threads
        PROVE  /\ Marking(x)' => task'[x].target \in DOMAIN message'
               /\ task'[x].pc = "drop" => task'[x].target \in Conversations
    <3>1. CASE x = t
      BY <1>1, <1>2, <1>3, <1>4, <3>1
    <3>2. CASE x # t
      BY <1>1, <1>4, <1>5, <3>2 DEF TasksOK, Marking
    <3> QED  BY <3>1, <3>2
  <2> QED  BY <2>1 DEF TasksOK
<1>7. MarksOK'
  <2>1. MarksAreKept'
    BY <1>1, <1>5 DEF MarksOK, MarksAreKept, Stored
  <2>2. ASSUME NEW x \in Threads, Marking(x)', (task[x].target \in Stored \ clashed)'
        PROVE  Alone(x)'
    <3>1. CASE x = t
      BY <1>1, <1>3, <1>4, <3>1 DEF Alone
    <3>2. CASE x # t
      BY <1>1, <1>4, <1>5, <2>2, <3>2 DEF MarksOK, Marking, Alone, Stored
    <3> QED  BY <3>1, <3>2
  <2>3. ASSUME NEW x \in Threads, Marking(x)', x # t, task'[x].target = m
        PROVE  m \in clashed'
    BY <1>1, <1>4, <2>3 DEF Marking, Claimed
  <2>4. ASSUME NEW x \in Threads, NEW y \in Threads, Marking(x)', Marking(y)', x # y,
               task'[x].target = task'[y].target
        PROVE  task'[x].target \in clashed'
    <3>1. CASE x = t
      BY <1>3, <1>4, <2>3, <2>4, <3>1
    <3>2. CASE y = t
      BY <1>3, <1>4, <2>3, <2>4, <3>2
    <3>3. CASE x # t /\ y # t
      BY <1>1, <1>4, <1>5, <2>4, <3>3 DEF MarksOK, Marking
    <3> QED  BY <3>1, <3>2, <3>3
  <2> QED  BY <2>1, <2>2, <2>4 DEF MarksOK
<1>8. GhostsOK' /\ OrdersOK' /\ MessagesOK'
  BY <1>1, <1>2, <1>5 DEF GhostsOK, OrdersOK, Listing, MessagesOK, Exists
<1>9. LessonsOK'
  <2>1. \A y \in Threads : task[y].pc = "drop" => task'[y] = task[y]
    BY <1>1, <1>4
  <2> QED  BY <1>1, <1>5, <2>1 DEF LessonsOK, Exists
<1>10. ClientOK'
  BY <1>1 DEF StoreInv, ClientOK, Answers, Of, Stored, Exists
<1>11. /\ session' \in [Conversations -> SessionRow \cup {Null, Removed}]
       /\ lesson' \subseteq Conversations /\ bare' \subseteq Conversations /\ client' \in ClientRow
  BY <1>1, Types DEF StoreInv
<1> QED  BY <1>4, <1>6, <1>7, <1>8, <1>9, <1>10, <1>11, TypesNext DEF StoreInv

\* The metadata of a message that is stored.
LEMMA StoredMeta ==
  ASSUME StoreInv, NEW m \in Stored
  PROVE  m \in DOMAIN message /\ message[m].meta \in Metadata
<1>1. message \in Seq(MessageRow) /\ m \in DOMAIN message
  BY Types DEF StoreInv, MessagesOK, Stored
<1>2. message[m] \in MessageRow
  BY <1>1
<1> QED  BY <1>1, <1>2 DEF MessageRow

LEMMA BookmarkStep ==
  ASSUME StoreInv, NEW t \in Threads, NEW u, NEW f, NEW m, NEW b \in BOOLEAN,
         BookmarkMessage(t, u, f, m, b)
  PROVE  StoreInv'
<1> DEFINE meta == [message[m].meta EXCEPT !.bookmarked = b]
<1>1. m \in Stored /\ Copy(t, u, f, m, "bookmark", meta)
  BY DEF BookmarkMessage
<1>2. message[m].meta \in Metadata
  BY <1>1, StoredMeta
<1>3. meta \in Metadata /\ meta.deleted = message[m].meta.deleted
  BY <1>2 DEF Metadata
<1> HIDE DEF meta
<1>4. meta.deleted = ("bookmark" = "delete" \/ message[m].meta.deleted)
  BY <1>2, <1>3 DEF Metadata
<1> QED  BY <1>1, <1>3, <1>4, CopyStep

LEMMA DeleteMessageStep ==
  ASSUME StoreInv, NEW t \in Threads, NEW u, NEW f, NEW m, DeleteMessage(t, u, f, m)
  PROVE  StoreInv'
<1> DEFINE meta == [message[m].meta EXCEPT !.deleted = TRUE]
<1>1. m \in Stored /\ Copy(t, u, f, m, "delete", meta)
  BY DEF DeleteMessage
<1>2. message[m].meta \in Metadata
  BY <1>1, StoredMeta
<1>3. meta \in Metadata /\ meta.deleted = TRUE /\ meta.bookmarked = message[m].meta.bookmarked
  BY <1>2 DEF Metadata
<1> HIDE DEF meta
<1>4. meta.deleted = ("delete" = "delete" \/ message[m].meta.deleted)
  BY <1>3
<1> QED  BY <1>1, <1>3, <1>4, CopyStep

\* Who writes alone writes its mark, and leaves the other one.
LEMMA WriteMetadataStep ==
  ASSUME StoreInv, NEW t \in Threads, WriteMetadata(t)
  PROVE  StoreInv'
<1> DEFINE m == task[t].target
<1>1. /\ task[t].pc \in {"bookmark", "delete"} /\ task' = [task EXCEPT ![t] = NoTask]
      /\ UNCHANGED <<session, lesson, recent, touched, client, bare, clashed>>
  BY DEF WriteMetadata
<1>2. /\ task' \in [Threads -> TaskRow] /\ task'[t].pc = "idle"
      /\ \A x \in Threads \ {t} : task'[x] = task[x]
  BY <1>1, Done
<1>3. TasksOK /\ MarksOK /\ GhostsOK /\ OrdersOK /\ MessagesOK /\ LessonsOK
      /\ task \in [Threads -> TaskRow]
  BY Types DEF StoreInv
<1>4. OrdersOK' /\ LessonsOK'
  <2>1. \A y \in Threads : task[y].pc = "drop" => task'[y] = task[y]
    BY <1>1, <1>2
  <2> QED  BY <1>1, <1>3, <2>1 DEF OrdersOK, Listing, LessonsOK, Exists
<1>5. /\ session' \in [Conversations -> SessionRow \cup {Null, Removed}]
      /\ lesson' \subseteq Conversations /\ bare' \subseteq Conversations /\ client' \in ClientRow
  BY <1>1, Types DEF StoreInv
<1>6. MessagesOK' /\ TasksOK' /\ MarksOK' /\ GhostsOK' /\ ClientOK'
  <2>1. CASE m \notin Stored
    <3>1. UNCHANGED <<message, erased, wanted>>
      BY <2>1 DEF WriteMetadata
    <3>2. Shrinks /\ MessagesOK'
      BY <1>3, <3>1 DEF Shrinks, MessagesOK
    <3>3. \A x \in Threads : task'[x].pc = "idle" \/ task'[x] = task[x]
      BY <1>2
    <3>4. TasksOK' /\ MarksOK' /\ GhostsOK'
      BY <1>1, <3>1, <3>2, <3>3, ShrinksKeepsMarks
    <3>5. ClientOK'
      BY <1>1, <3>1 DEF StoreInv, ClientOK, Answers, Of, Stored, Exists
    <3> QED  BY <3>2, <3>4, <3>5
  <2>2. CASE m \in Stored
    <3>1. /\ message' = [message EXCEPT ![m].meta = task[t].meta]
          /\ erased' = IF task[t].pc = "delete" THEN erased \cup {m} ELSE erased
          /\ wanted' = IF task[t].pc = "bookmark"
                       THEN [n \in DOMAIN wanted \cup {m} |->
                                IF n = m THEN task[t].meta.bookmarked ELSE wanted[n]]
                       ELSE wanted
      BY <2>2 DEF WriteMetadata
    <3>2. m \in DOMAIN message /\ message[m] \in MessageRow /\ task[t].meta \in Metadata
          /\ DOMAIN message = 1 .. Len(message)
      <4>1. m \in DOMAIN message /\ message \in Seq(MessageRow)
        BY <1>3, <2>2 DEF Stored, MessagesOK
      <4>2. message[m] \in MessageRow /\ DOMAIN message = 1 .. Len(message)
        BY <4>1
      <4>3. task[t] \in TaskRow
        BY <1>3
      <4> QED  BY <4>1, <4>2, <4>3 DEF TaskRow
    <3> DEFINE new == [message[m] EXCEPT !.meta = task[t].meta]
    <3>3. /\ new \in MessageRow /\ new.meta = task[t].meta /\ new.session = message[m].session
          /\ new.role = message[m].role
      BY <3>2 DEF MessageRow
    <3> HIDE DEF new
    <3>4. message' = [message EXCEPT ![m] = new]
      BY <3>1 DEF new
    <3>5. /\ MessagesOK' /\ DOMAIN message' = DOMAIN message /\ message'[m] = new
          /\ \A n \in DOMAIN message \ {m} : message'[n] = message[n]
      <4>1. message \in Seq(MessageRow) /\ Len(message) <= MaxMessages
        BY <1>3 DEF MessagesOK
      <4>2. message' \in Seq(MessageRow) /\ Len(message') = Len(message)
        BY <3>2, <3>3, <3>4, <4>1
      <4> QED  BY <3>2, <3>4, <4>1, <4>2 DEF MessagesOK
    <3>6. \A n : n \in Stored' <=> n \in Stored
      BY <3>3, <3>5 DEF Stored
    <3>7. TasksOK'
      BY <1>2, <1>3, <3>5 DEF TasksOK, Marking
    <3>8. GhostsOK'
      <4>1. wanted' \in [DOMAIN wanted' -> BOOLEAN] /\ DOMAIN wanted' \subseteq DOMAIN message
        <5>1. task[t].meta.bookmarked \in BOOLEAN
          BY <3>2 DEF Metadata
        <5> QED  BY <1>3, <3>1, <3>2, <5>1 DEF GhostsOK
      <4> QED  BY <1>1, <1>3, <3>1, <3>2, <3>5, <4>1 DEF GhostsOK
    <3>9. m \notin clashed => Alone(t)
      BY <1>1, <1>3, <2>2 DEF MarksOK, Marking
    <3>10. MarksAreKept'
      <4>1. ASSUME NEW n \in Stored', n \notin clashed'
            PROVE  /\ n \in erased' => message'[n].meta.deleted
                   /\ n \in DOMAIN wanted' => message'[n].meta.bookmarked = wanted'[n]
        <5>1. n \in Stored \ clashed
          BY <1>1, <3>6, <4>1
        <5>2. /\ n \in erased => message[n].meta.deleted
              /\ n \in DOMAIN wanted => message[n].meta.bookmarked = wanted[n]
          BY <1>3, <5>1 DEF MarksOK, MarksAreKept
        <5>3. CASE n = m
          <6>1. message'[n].meta = task[t].meta /\ Alone(t)
            BY <3>3, <3>5, <3>9, <5>1, <5>3
          <6>2. n \in erased' => message'[n].meta.deleted
            BY <3>1, <5>2, <5>3, <6>1 DEF Alone
          <6>3. n \in DOMAIN wanted' => message'[n].meta.bookmarked = wanted'[n]
            <7>1. CASE task[t].pc = "bookmark"
              BY <3>1, <5>3, <6>1, <7>1
            <7>2. CASE task[t].pc = "delete"
              BY <3>1, <5>2, <5>3, <6>1, <7>2 DEF Alone
            <7> QED  BY <1>1, <7>1, <7>2
          <6> QED  BY <6>2, <6>3
        <5>4. CASE n # m
          <6>1. message'[n] = message[n]
            BY <3>5, <5>1, <5>4 DEF Stored
          <6> QED  BY <3>1, <5>2, <5>4, <6>1
        <5> QED  BY <5>3, <5>4
      <4> QED  BY <4>1 DEF MarksAreKept
    <3>11. ASSUME NEW x \in Threads, Marking(x)', (task[x].target \in Stored \ clashed)'
           PROVE  Alone(x)'
      <4>1. x # t /\ task'[x] = task[x]
        BY <1>2, <3>11 DEF Marking
      <4>2. Marking(x) /\ Marking(t) /\ task[x].target \in Stored \ clashed
        BY <1>1, <3>6, <3>11, <4>1 DEF Marking
      <4>3. task[x].target # m /\ Alone(x)
        BY <1>3, <4>1, <4>2 DEF MarksOK
      <4>4. message'[task[x].target] = message[task[x].target]
        BY <3>5, <4>2, <4>3 DEF Stored
      <4> QED  BY <4>1, <4>3, <4>4 DEF Alone
    <3>12. MarksOK'
      <4>1. \A x, y \in Threads :
              Marking(x)' /\ Marking(y)' /\ task'[x].target = task'[y].target
                  => x = y \/ task'[x].target \in clashed'
        BY <1>1, <1>2, <1>3 DEF MarksOK, Marking
      <4> QED  BY <3>10, <3>11, <4>1 DEF MarksOK
    <3>13. ClientOK'
      <4>1. \A x \in Conversations : \A n : n \in Answers(x) => n \in Answers(x)'
        BY <3>3, <3>5, <3>6 DEF Answers, Of, Stored
      <4>2. \A x \in Conversations : /\ session[x] # Null => session'[x] # Null
                                     /\ Exists(x)' => Exists(x)
        BY <1>1 DEF Exists
      <4> QED  BY <1>1, <4>1, <4>2, ClientKept
    <3> QED  BY <3>5, <3>7, <3>8, <3>12, <3>13
  <2> QED  BY <2>1, <2>2
<1> QED  BY <1>2, <1>4, <1>5, <1>6, TypesNext DEF StoreInv

-------------------------------------------------------------------------------
(* SessionStore: the steps of turns and of the client *)

\* What a turn adds.
LEMMA Added ==
  ASSUME StoreInv, NEW rows \in Seq(MessageRow), message' = message \o rows,
         Len(message) + Len(rows) <= MaxMessages
  PROVE  /\ MessagesOK' /\ Grows
         /\ \A i \in 1 .. Len(rows) : /\ Len(message) + i \in DOMAIN message'
                                      /\ message'[Len(message) + i] = rows[i]
<1>1. message \in Seq(MessageRow) /\ Len(message) \in Nat /\ DOMAIN message = 1 .. Len(message)
  BY Types DEF StoreInv, MessagesOK
<1>2. Len(rows) \in Nat
  OBVIOUS
<1>3. PICK w : w = message \o rows
  OBVIOUS
<1>4. /\ w \in Seq(MessageRow) /\ Len(w) = Len(message) + Len(rows)
      /\ \A i \in 1 .. Len(message) + Len(rows) :
            w[i] = IF i <= Len(message) THEN message[i] ELSE rows[i - Len(message)]
  BY <1>1, <1>3, ConcatProperties
<1>5. DOMAIN w = 1 .. Len(message) + Len(rows)
  BY <1>1, <1>2, <1>4
<1>6. \A i \in 1 .. Len(message) : i \in DOMAIN w /\ w[i] = message[i]
  BY <1>1, <1>2, <1>4, <1>5
<1>7. \A i \in 1 .. Len(rows) : Len(message) + i \in DOMAIN w /\ w[Len(message) + i] = rows[i]
  <2> TAKE i \in 1 .. Len(rows)
  <2>1. /\ Len(message) + i \in 1 .. Len(message) + Len(rows) /\ ~ (Len(message) + i <= Len(message))
        /\ Len(message) + i - Len(message) = i
    BY <1>1, <1>2
  <2>2. w[Len(message) + i] = rows[Len(message) + i - Len(message)]
    BY <1>4, <2>1
  <2> QED  BY <1>5, <2>1, <2>2
<1> QED  BY <1>1, <1>3, <1>4, <1>6, <1>7 DEF MessagesOK, Grows

\* A turn touches a conversation that exists.
LEMMA TurnStep ==
  ASSUME StoreInv, NEW s \in Conversations, Exists(s), Grows, MessagesOK',
         recent' \in {recent, Latest(recent, s)}, touched' \in {touched, Latest(touched, s)},
         client' \in ClientRow, ClientOK',
         UNCHANGED <<session, lesson, task, bare, erased, wanted, clashed>>
  PROVE  StoreInv'
<1>1. OrdersOK'
  <2>1. OrdersOK
    BY Types DEF StoreInv
  <2>2. s \in ToSet(recent)
    BY <2>1 DEF OrdersOK
  <2>3. Listing(recent') /\ ToSet(recent') = ToSet(recent)
    BY <2>1, <2>2, LatestOne DEF OrdersOK
  <2>4. Listing(touched') /\ ToSet(touched') \subseteq ToSet(recent)
    <3>1. CASE touched' = touched
      BY <2>1, <3>1 DEF OrdersOK
    <3>2. CASE touched' = Latest(touched, s)
      BY <2>1, <2>2, <3>2, LatestOne DEF OrdersOK
    <3> QED  BY <3>1, <3>2
  <2> QED  BY <2>1, <2>3, <2>4 DEF OrdersOK, Listing, Exists
<1>2. LessonsOK'
  BY DEF StoreInv, LessonsOK, Exists
<1>3. TasksOK' /\ MarksOK' /\ GhostsOK'
  BY GrowsKeepsMarks
<1>4. /\ session' \in [Conversations -> SessionRow \cup {Null, Removed}]
      /\ lesson' \subseteq Conversations /\ bare' \subseteq Conversations
      /\ task' \in [Threads -> TaskRow]
  BY Types DEF StoreInv
<1> QED  BY <1>1, <1>2, <1>3, <1>4, TypesNext DEF StoreInv

\* Answers that were there stay.
LEMMA AnswersGrow ==
  ASSUME Grows, NEW s, NEW m \in Answers(s)
  PROVE  m \in Answers(s)'
BY DEF Grows, Answers, Of, Stored

LEMMA NewRow ==
  ASSUME NEW s \in Conversations, NEW role \in {"user", "assistant"},
         NEW status \in {"none", "completed", "truncated", "failed"}
  PROVE  [session |-> s, role |-> role, meta |-> Plain(status)] \in MessageRow
BY DEF MessageRow, Metadata, Plain

LEMMA OpenStreamStep ==
  ASSUME StoreInv, NEW u, NEW s \in Conversations, OpenStream(u, s)
  PROVE  StoreInv'
<1> DEFINE stored == [session |-> s, role |-> "user", meta |-> Plain("none")]
           new == [NoClient EXCEPT !.pc = "open", !.target = s, !.asked = Len(message) + 1]
<1>1. /\ client.pc = "idle" /\ Exists(s) /\ Len(message) < MaxMessages
      /\ message' = Append(message, stored) /\ client' = new
      /\ UNCHANGED <<session, lesson, recent, touched, task, bare, erased, wanted, clashed>>
  BY DEF OpenStream, EnsureAccess, AddMessage, Marks
<1>2. message \in Seq(MessageRow) /\ Len(message) \in Nat
  BY Types DEF StoreInv, MessagesOK
<1>3. stored \in MessageRow
  BY NewRow
<1>4. new \in ClientRow /\ new.pc = "open" /\ new.target = s /\ new.answer = 0
  <2>1. Len(message) + 1 \in Nat
    BY <1>2
  <2> HIDE DEF stored
  <2> QED  BY <2>1 DEF NoClient, ClientRow
<1> HIDE DEF stored, new
<1>5. MessagesOK' /\ Grows
  <2>1. message' = message \o <<stored>> /\ <<stored>> \in Seq(MessageRow) /\ Len(<<stored>>) = 1
    BY <1>1, <1>2, <1>3
  <2>2. Len(message) + Len(<<stored>>) <= MaxMessages
    BY <1>1, <1>2, <2>1, StoreAssumption
  <2> QED  BY <2>1, <2>2, Added
<1>6. ClientOK'
  BY <1>1, <1>4, NullIsNoRow DEF ClientOK, Exists
<1> QED  BY <1>1, <1>4, <1>5, <1>6, TurnStep

LEMMA AskAgainStep ==
  ASSUME StoreInv, NEW u, NEW s \in Conversations, NEW chat \in BOOLEAN, AskAgain(u, s, chat)
  PROVE  StoreInv'
<1> DEFINE q == [session |-> s, role |-> "user", meta |-> Plain("none")]
           a == [session |-> s, role |-> "assistant", meta |-> Plain("none")]
<1>1. /\ Exists(s) /\ Len(message) + 1 < MaxMessages
      /\ message' = message \o <<q, a>>
      /\ recent' \in {recent, Latest(recent, s)} /\ touched' \in {touched, Latest(touched, s)}
      /\ UNCHANGED <<session, lesson, task, client, bare, erased, wanted, clashed>>
  BY DEF AskAgain, EnsureAccess, Marks
<1>2. message \in Seq(MessageRow) /\ Len(message) \in Nat
  BY Types DEF StoreInv, MessagesOK
<1>3. q \in MessageRow /\ a \in MessageRow
  BY NewRow
<1> HIDE DEF q, a
<1>4. MessagesOK' /\ Grows
  <2>1. <<q, a>> \in Seq(MessageRow) /\ Len(<<q, a>>) = 2
    BY <1>3
  <2>2. Len(message) + Len(<<q, a>>) <= MaxMessages
    BY <1>1, <1>2, <2>1, StoreAssumption
  <2> QED  BY <1>1, <2>1, <2>2, Added
<1>5. ClientOK' /\ client' \in ClientRow
  <2>1. \A x \in Conversations : /\ session[x] # Null => session'[x] # Null
                                 /\ Exists(x)' => Exists(x)
    BY <1>1 DEF Exists
  <2>2. ClientOK'
    BY <1>1, <1>4, <2>1, ClientKept, AnswersGrow
  <2> QED  BY <1>1, <2>2, Types DEF StoreInv
<1> QED  BY <1>1, <1>4, <1>5, TurnStep

LEMMA AnswerStep ==
  ASSUME StoreInv, NEW status \in {"completed", "truncated", "failed"}, Answer(status)
  PROVE  StoreInv'
<1> DEFINE s == client.target
           stored == [session |-> s, role |-> "assistant", meta |-> Plain(status)]
<1>1. /\ client.pc \in {"open", "lost"} /\ Exists(s) /\ Len(message) < MaxMessages
      /\ message' = Append(message, stored)
      /\ recent' = Latest(recent, s) /\ touched' = Latest(touched, s)
      /\ client' = IF client.pc = "open" THEN NoClient
                   ELSE [client EXCEPT !.answer = Len(message) + 1]
      /\ UNCHANGED <<session, lesson, task, bare, erased, wanted, clashed>>
  BY DEF Answer, AddMessage, Marks
<1>2. message \in Seq(MessageRow) /\ Len(message) \in Nat /\ client \in ClientRow
  BY Types DEF StoreInv, MessagesOK
<1>3. s \in Conversations
  BY <1>1 DEF StoreInv, ClientOK
<1>4. stored \in MessageRow /\ stored.session = s /\ stored.role = "assistant"
  BY <1>3, NewRow
<1> HIDE DEF stored
<1>5. /\ MessagesOK' /\ Grows
      /\ Len(message) + 1 \in DOMAIN message' /\ message'[Len(message) + 1] = stored
  <2>1. message' = message \o <<stored>> /\ <<stored>> \in Seq(MessageRow) /\ Len(<<stored>>) = 1
        /\ <<stored>>[1] = stored
    BY <1>1, <1>2, <1>4
  <2>2. Len(message) + Len(<<stored>>) <= MaxMessages
    BY <1>1, <1>2, <2>1, StoreAssumption
  <2>3. /\ MessagesOK' /\ Grows
        /\ \A i \in 1 .. 1 : /\ Len(message) + i \in DOMAIN message'
                             /\ message'[Len(message) + i] = <<stored>>[i]
    BY <2>1, <2>2, Added
  <2> QED  BY <2>1, <2>3
<1>6. ClientOK' /\ client' \in ClientRow
  <2>1. CASE client.pc = "open"
    <3>1. NoClient \in ClientRow /\ NoClient.pc = "idle" /\ NoClient.answer = 0
      BY DEF NoClient, ClientRow
    <3> QED  BY <1>1, <2>1, <3>1 DEF ClientOK
  <2>2. CASE client.pc = "lost"
    <3>1. client' = [client EXCEPT !.answer = Len(message) + 1]
      BY <1>1, <2>2
    <3>2. /\ client' \in ClientRow /\ client'.pc = "lost" /\ client'.target = s
          /\ client'.answer = Len(message) + 1
      BY <1>2, <2>2, <3>1 DEF ClientRow
    <3>3. Len(message) + 1 \in Answers(s)'
      <4>1. s # Null /\ message'[Len(message) + 1].session = s
            /\ message'[Len(message) + 1].role = "assistant"
        BY <1>3, <1>4, <1>5, StoreAssumption
      <4>2. Len(message) + 1 \in Stored'
        BY <1>5, <4>1 DEF Stored
      <4> QED  BY <3>2, <4>1, <4>2 DEF Answers, Of
    <3>4. session[s] # Null
      BY <1>1 DEF Exists
    <3> QED  BY <1>1, <1>3, <3>2, <3>3, <3>4 DEF ClientOK
  <2> QED  BY <1>1, <2>1, <2>2
<1> QED  BY <1>1, <1>3, <1>5, <1>6, TurnStep

\* The newest answer of a conversation.
LEMMA NewestAnswer ==
  ASSUME StoreTypeOK, NEW s
  PROVE  /\ Newest(Answers(s)) \in Nat
         /\ Answers(s) = {} => Newest(Answers(s)) = 0
         /\ Answers(s) # {} => Newest(Answers(s)) \in Answers(s)
         /\ \A m \in Answers(s) : m <= Newest(Answers(s)) /\ m \in Nat \ {0}
<1>1. message \in Seq(MessageRow) /\ Len(message) \in Nat /\ DOMAIN message = 1 .. Len(message)
  BY DEF StoreTypeOK
<1>2. Answers(s) \subseteq Nat /\ \A m \in Answers(s) : m \in Nat \ {0} /\ m <= Len(message)
  BY <1>1 DEF Answers, Of, Stored
<1>3. CASE Answers(s) = {}
  BY <1>3 DEF Newest
<1>4. CASE Answers(s) # {}
  <2>1. Max(Answers(s)) \in Answers(s) /\ \A m \in Answers(s) : m <= Max(Answers(s))
    BY <1>1, <1>2, <1>4, Maximum
  <2> QED  BY <1>2, <1>4, <2>1 DEF Newest
<1> QED  BY <1>3, <1>4

\* What is replayed is the newest answer.
LEMMA ReplayedIsNewest ==
  ASSUME StoreTypeOK, NEW s
  PROVE  Replayed(s) = Newest(Answers(s))
<1>1. /\ Answers(s) = {} => Newest(Answers(s)) = 0
      /\ Answers(s) # {} => Newest(Answers(s)) \in Answers(s)
  BY NewestAnswer
<1> QED  BY <1>1 DEF Replayed, Structured, Answers

LEMMA ReconnectStep ==
  ASSUME StoreInv, NEW u, Reconnect(u)
  PROVE  StoreInv'
<1>1. /\ client.pc = "lost" /\ Exists(client.target)
      /\ client' = [client EXCEPT !.pc = "back", !.shown = Replayed(client.target)]
      /\ UNCHANGED <<session, lesson, message, recent, touched, bare, task, erased, wanted, clashed>>
  BY DEF Reconnect, EnsureAccess, Rows, Marks
<1>2. MessagesOK' /\ Grows
  <2>1. MessagesOK
    BY Types DEF StoreInv
  <2> QED  BY <1>1, <2>1 DEF MessagesOK, Grows
<1>3. client \in ClientRow /\ StoreTypeOK
  BY Types DEF StoreInv
<1>4. Replayed(client.target) \in Nat
      /\ \A m \in Answers(client.target) : Replayed(client.target) >= m
  <2>1. /\ Newest(Answers(client.target)) \in Nat
        /\ \A m \in Answers(client.target) :
              m <= Newest(Answers(client.target)) /\ m \in Nat \ {0}
    BY <1>3, NewestAnswer
  <2>2. Replayed(client.target) = Newest(Answers(client.target))
    BY <1>3, ReplayedIsNewest
  <2> HIDE DEF Replayed
  <2> QED  BY <2>1, <2>2
<1>5. client' \in ClientRow /\ client'.pc = "back" /\ client'.shown = Replayed(client.target)
      /\ client'.target = client.target /\ client'.answer = client.answer
  BY <1>1, <1>3, <1>4 DEF ClientRow
<1>6. ClientOK /\ client.target \in Conversations
  BY <1>1 DEF StoreInv, ClientOK
<1>7. ClientOK'
  BY <1>1, <1>4, <1>5, <1>6 DEF ClientOK
<1> QED  BY <1>1, <1>2, <1>5, <1>6, <1>7, TurnStep

LEMMA LoseStreamStep ==
  ASSUME StoreInv, LoseStream
  PROVE  StoreInv'
<1>1. /\ client.pc = "open" /\ client' = [client EXCEPT !.pc = "lost"]
      /\ UNCHANGED <<session, lesson, message, recent, touched, bare, task, erased, wanted, clashed>>
  BY DEF LoseStream, Rows, Marks
<1>2. client \in ClientRow
  BY Types DEF StoreInv
<1>3. client' \in ClientRow /\ client'.pc = "lost" /\ client'.target = client.target
      /\ client'.answer = client.answer
  BY <1>1, <1>2 DEF ClientRow
<1>4. ClientOK'
  BY <1>1, <1>3 DEF StoreInv, ClientOK
<1>5. MessagesOK' /\ GhostsOK' /\ TasksOK' /\ MarksOK'
  BY <1>1, SameMarks
<1>6. OrdersOK' /\ LessonsOK'
  <2>1. OrdersOK /\ LessonsOK
    BY Types DEF StoreInv
  <2> QED  BY <1>1, <2>1 DEF OrdersOK, Listing, LessonsOK, Exists
<1>7. /\ session' \in [Conversations -> SessionRow \cup {Null, Removed}]
      /\ lesson' \subseteq Conversations /\ bare' \subseteq Conversations
      /\ task' \in [Threads -> TaskRow]
  BY <1>1, Types DEF StoreInv
<1> QED  BY <1>3, <1>4, <1>5, <1>6, <1>7, TypesNext DEF StoreInv

LEMMA LeaveStep ==
  ASSUME StoreInv, Leave
  PROVE  StoreInv'
<1>1. /\ client' = NoClient
      /\ UNCHANGED <<session, lesson, message, recent, touched, bare, task, erased, wanted, clashed>>
  BY DEF Leave, Rows, Marks
<1>2. NoClient \in ClientRow /\ NoClient.pc = "idle" /\ NoClient.answer = 0
  BY DEF NoClient, ClientRow
<1>3. ClientOK'
  BY <1>1, <1>2 DEF ClientOK
<1>4. MessagesOK' /\ GhostsOK' /\ TasksOK' /\ MarksOK'
  BY <1>1, SameMarks
<1>5. OrdersOK' /\ LessonsOK'
  <2>1. OrdersOK /\ LessonsOK
    BY Types DEF StoreInv
  <2> QED  BY <1>1, <2>1 DEF OrdersOK, Listing, LessonsOK, Exists
<1>6. /\ session' \in [Conversations -> SessionRow \cup {Null, Removed}]
      /\ lesson' \subseteq Conversations /\ bare' \subseteq Conversations
      /\ task' \in [Threads -> TaskRow]
  BY <1>1, Types DEF StoreInv
<1> QED  BY <1>1, <1>2, <1>3, <1>4, <1>5, <1>6, TypesNext DEF StoreInv

-------------------------------------------------------------------------------
(* SessionStore: the invariant holds *)

LEMMA ManageStep ==
  ASSUME StoreInv, NEW u \in Users, NEW f, NEW s \in Conversations, ManageSession(u, f, s)
  PROVE  StoreInv'
<1>1. CASE \E b \in BOOLEAN :
              RenameSession(u, f, s, b) \/ ArchiveSession(u, f, s, b) \/ PinSession(u, f, s, b)
  <2>1. PICK b \in BOOLEAN, column \in {"found", "archived", "pinned"} :
           EnsureFeature(u, f, s) /\ UpdateSession(s, column, b)
    BY <1>1 DEF RenameSession, ArchiveSession, PinSession
  <2> QED  BY <2>1, UpdateStep DEF EnsureFeature, EnsureAccess
<1>2. CASE EnsureFeature(u, f, s) /\ DeleteConversation(u, s)
  BY <1>2, DeleteConversationStep
<1> QED  BY <1>1, <1>2 DEF ManageSession

LEMMA ChatStep ==
  ASSUME StoreInv, NEW u \in Users, ChatRequests(u)
  PROVE  StoreInv'
<1>1. CASE \E s \in Conversations :
              \/ OpenStream(u, s) \/ AskAgain(u, s, TRUE)
              \/ \E f \in Features : CreateSession(u, s, f, FALSE) \/ ManageSession(u, f, s)
  BY <1>1, OpenStreamStep, AskAgainStep, CreateStep, ManageStep
<1>2. CASE \E t \in Threads, f \in Features, m \in Stored :
              (\E b \in BOOLEAN : BookmarkMessage(t, u, f, m, b)) \/ DeleteMessage(t, u, f, m)
  BY <1>2, BookmarkStep, DeleteMessageStep
<1> QED  BY <1>1, <1>2 DEF ChatRequests

LEMMA ProductStep ==
  ASSUME StoreInv, NEW u \in Users,
         \/ LeetCodeRequests(u) \/ HackerRankRequests(u)
         \/ CourseRequests(u) \/ PatternRequests(u)
  PROVE  StoreInv'
<1>1. CASE LeetCodeRequests(u)
  BY <1>1, CreateStep, AskAgainStep, SetModeStep, DeleteConversationStep
     DEF LeetCodeRequests, AskProblem, SetProblemMode
<1>2. CASE HackerRankRequests(u)
  BY <1>2, CreateStep, AskAgainStep, SetModeStep, DeleteConversationStep
     DEF HackerRankRequests, AskChallenge, SetChallengeMode
<1>3. CASE CourseRequests(u)
  BY <1>3, CreateStep, AskAgainStep, DeleteItemStep DEF CourseRequests, AskCourse
<1>4. CASE PatternRequests(u)
  BY <1>4, CreateStep, AskAgainStep, DeleteItemStep DEF PatternRequests, AskPattern
<1> QED  BY <1>1, <1>2, <1>3, <1>4

LEMMA StoreInvNext == StoreInv /\ [StoreNext]_storeVars => StoreInv'
<1> SUFFICES ASSUME StoreInv, [StoreNext]_storeVars PROVE StoreInv'
  OBVIOUS
<1>1. CASE \E u \in Users : \/ ChatRequests(u) \/ Reconnect(u)
                            \/ LeetCodeRequests(u) \/ HackerRankRequests(u)
                            \/ CourseRequests(u) \/ PatternRequests(u)
  BY <1>1, ChatStep, ReconnectStep, ProductStep
<1>2. CASE \E t \in Threads : WriteMetadata(t) \/ DropItsSession(t) \/ DropFails(t)
  BY <1>2, WriteMetadataStep, DropItsSessionStep, DropFailsStep
<1>3. CASE \E status \in {"completed", "truncated", "failed"} : Answer(status)
  BY <1>3, AnswerStep
<1>4. CASE LoseStream
  BY <1>4, LoseStreamStep
<1>5. CASE Leave
  BY <1>5, LeaveStep
<1>6. CASE UNCHANGED storeVars
  BY <1>6 DEF storeVars, StoreInv, StoreTypeOK, TasksOK, LessonsOK, MarksOK, MarksAreKept, ClientOK,
              Marking, Alone, Stored, Answers, Of, Exists
<1> QED  BY <1>1, <1>2, <1>3, <1>4, <1>5, <1>6 DEF StoreNext

LEMMA StoreInvariant == StoreSpec => []StoreInv
BY StoreInitially, StoreInvNext, PTL DEF StoreSpec

-------------------------------------------------------------------------------
(* SessionStore: pages *)

LEMMA LesserOfTwo ==
  ASSUME NEW a \in Int, NEW b \in Int
  PROVE  Min({a, b}) = IF a <= b THEN a ELSE b
<1>1. CASE a <= b
  <2>1. a \in {a, b} /\ \A y \in {a, b} : a <= y
    BY <1>1
  <2>2. \A x \in {a, b} : (\A y \in {a, b} : x <= y) => x = a
    BY <1>1
  <2> QED  BY <1>1, <2>1, <2>2 DEF Min
<1>2. CASE ~ (a <= b)
  <2>1. b \in {a, b} /\ \A y \in {a, b} : b <= y
    BY <1>2
  <2>2. \A x \in {a, b} : (\A y \in {a, b} : x <= y) => x = b
    BY <1>2
  <2> QED  BY <1>2, <2>1, <2>2 DEF Min
<1> QED  BY <1>1, <1>2

From(q, limit, offset) == {q[i] : i \in {k \in 1 .. Len(q) : offset < k /\ k <= offset + limit}}

\* A page has the rows from its offset on.
LEMMA PageHas ==
  ASSUME NEW S, NEW q \in Seq(S), NEW limit \in Nat, NEW offset \in Nat
  PROVE  ToSet(PageOf(q, limit, offset)) = From(q, limit, offset)
<1>1. PICK n : n = Len(q)
  OBVIOUS
<1>2. PICK to : to = Min({offset + limit, n})
  OBVIOUS
<1>3. PICK p : p = SubSeq(q, offset + 1, to)
  OBVIOUS
<1>4. n \in Nat /\ DOMAIN q = 1 .. n /\ \A i \in 1 .. n : q[i] \in S
  BY <1>1
<1>5. to \in Nat /\ to <= n /\ to <= offset + limit /\ (to = n \/ to = offset + limit)
  <2>1. to = IF offset + limit <= n THEN offset + limit ELSE n
    <3>1. n \in Int /\ offset + limit \in Int
      BY <1>4
    <3> QED  BY <1>2, <3>1, LesserOfTwo
  <2> QED  BY <1>4, <2>1
<1>6. p = PageOf(q, limit, offset)
  BY <1>1, <1>2, <1>3 DEF PageOf
<1>7. /\ p \in Seq(S)
      /\ Len(p) = IF offset + 1 <= to THEN to - (offset + 1) + 1 ELSE 0
      /\ \A i \in 1 .. to - (offset + 1) + 1 : p[i] = q[offset + 1 + i - 1]
  <2>1. \A i \in offset + 1 .. to : q[i] \in S
    BY <1>4, <1>5
  <2>2. offset + 1 \in Int /\ to \in Int
    BY <1>5
  <2> QED  BY <1>3, <2>1, <2>2, SubSeqProperties
<1>8. /\ Len(p) \in Nat /\ DOMAIN p = 1 .. Len(p)
      /\ \A i \in 1 .. Len(p) : offset + i \in 1 .. to /\ p[i] = q[offset + i]
      /\ \A k \in 1 .. to : offset < k => k - offset \in 1 .. Len(p)
  <2>1. Len(p) \in Nat /\ DOMAIN p = 1 .. Len(p)
    BY <1>7
  <2>2. CASE offset + 1 <= to
    <3>1. Len(p) = to - offset
      BY <1>5, <1>7, <2>2
    <3>2. ASSUME NEW i \in 1 .. Len(p) PROVE offset + i \in 1 .. to /\ p[i] = q[offset + i]
      <4>1. i \in 1 .. to - (offset + 1) + 1 /\ offset + 1 + i - 1 = offset + i
        BY <1>5, <3>1
      <4>2. offset + i \in 1 .. to
        BY <1>5, <4>1
      <4> QED  BY <1>7, <4>1, <4>2
    <3> QED  BY <1>5, <2>1, <3>1, <3>2
  <2>3. CASE ~ (offset + 1 <= to)
    BY <1>5, <1>7, <2>1, <2>3
  <2> QED  BY <2>2, <2>3
<1>9. ASSUME NEW i \in 1 .. Len(p)
      PROVE  p[i] \in {q[k] : k \in {x \in 1 .. n : offset < x /\ x <= offset + limit}}
  <2>1. offset + i \in {x \in 1 .. n : offset < x /\ x <= offset + limit}
    BY <1>4, <1>5, <1>8
  <2> QED  BY <1>8, <2>1
<1>10. ASSUME NEW k \in 1 .. n, offset < k, k <= offset + limit
       PROVE  q[k] \in ToSet(p)
  <2>1. k \in 1 .. to
    BY <1>4, <1>5, <1>10
  <2>2. k - offset \in 1 .. Len(p) /\ offset + (k - offset) = k
    BY <1>8, <1>10, <2>1
  <2>3. p[k - offset] = q[k]
    BY <1>8, <2>2
  <2> QED  BY <1>8, <2>2, <2>3 DEF ToSet
<1>11. ToSet(p) = {p[i] : i \in 1 .. Len(p)}
  BY <1>8 DEF ToSet
<1>12. From(q, limit, offset) = {q[k] : k \in {x \in 1 .. n : offset < x /\ x <= offset + limit}}
  BY <1>1 DEF From
<1>13. ASSUME NEW y \in ToSet(p) PROVE y \in From(q, limit, offset)
  <2>1. PICK i \in 1 .. Len(p) : y = p[i]
    BY <1>11
  <2> QED  BY <1>9, <1>12, <2>1
<1>14. ASSUME NEW y \in From(q, limit, offset) PROVE y \in ToSet(p)
  <2>1. PICK k \in 1 .. n : offset < k /\ k <= offset + limit /\ y = q[k]
    BY <1>12
  <2> QED  BY <1>10, <2>1
<1> QED  BY <1>6, <1>13, <1>14

-------------------------------------------------------------------------------
(* SessionStore: what was deleted is hidden *)

LEMMA MessagesOfOne ==
  ASSUME StoreTypeOK, NEW s
  PROVE  /\ Of(s) \in SUBSET Nat /\ IsFiniteSet(Of(s)) /\ Cardinality(Of(s)) \in 0 .. MaxMessages
         /\ \A m \in Of(s) : m \in Stored
<1>1. message \in Seq(MessageRow) /\ Len(message) <= MaxMessages /\ Len(message) \in Nat
      /\ DOMAIN message = 1 .. Len(message)
  BY DEF StoreTypeOK
<1>2. Of(s) \in SUBSET (1 .. Len(message)) /\ \A m \in Of(s) : m \in Stored
  BY <1>1 DEF Of, Stored
<1>3. IsFiniteSet(1 .. Len(message)) /\ Cardinality(1 .. Len(message)) = Len(message)
  BY <1>1, FS_Interval
<1>4. IsFiniteSet(Of(s)) /\ Cardinality(Of(s)) <= Len(message)
  BY <1>2, <1>3, FS_Subset
<1>5. Cardinality(Of(s)) \in Nat
  BY <1>4, FS_CardinalityType
<1> QED  BY <1>1, <1>2, <1>4, <1>5, StoreAssumption

\* A page shows what is in it and not hidden.
LEMMA DetailShows ==
  ASSUME StoreTypeOK, NEW s, NEW offset \in Nat
  PROVE  /\ \A m \in ToSet(SessionDetail(s, 2, offset, FALSE)) :
               m \in Of(s) /\ ~ ShouldHide(message[m].meta, FALSE)
         /\ \A i \in 1 .. Cardinality(Of(s)) : i = offset + 1 =>
               LET m == Ascending(Of(s))[i] IN
               ~ ShouldHide(message[m].meta, FALSE) => m \in ToSet(SessionDetail(s, 2, offset, FALSE))
<1> DEFINE q == Ascending(Of(s))
           in == ToSet(PageOf(q, 2, offset))
           T == {m \in in : ~ ShouldHide(message[m].meta, FALSE)}
<1>1. Of(s) \in SUBSET Nat /\ IsFiniteSet(Of(s)) /\ Cardinality(Of(s)) \in Nat
  BY MessagesOfOne, StoreAssumption
<1>2. q \in Seq(Of(s)) /\ Len(q) = Cardinality(Of(s)) /\ \A i \in 1 .. Len(q) : q[i] \in Of(s)
  BY <1>1, NumbersInOrder
<1> HIDE DEF q
<1>3. in = {q[i] : i \in {k \in 1 .. Len(q) : offset < k /\ k <= offset + 2}}
  BY <1>2, PageHas DEF From
<1> HIDE DEF in
<1>4. T \in SUBSET Of(s) /\ T \in SUBSET Nat
  BY <1>1, <1>2, <1>3
<1>5. IsFiniteSet(T)
  BY <1>1, <1>4, FS_Subset
<1>6. ToSet(Ascending(T)) = T
  BY <1>4, <1>5, NumbersInOrder
<1>7. SessionDetail(s, 2, offset, FALSE) = Ascending(T)
  BY DEF SessionDetail, q, in
<1>8. ASSUME NEW i \in 1 .. Cardinality(Of(s)), i = offset + 1
      PROVE  q[i] \in in
  BY <1>2, <1>3, <1>8
<1> QED  BY <1>4, <1>6, <1>7, <1>8 DEF q

LEMMA Hidden == StoreInv => ErasedIsHidden
<1> SUFFICES ASSUME StoreInv, NEW s \in {x \in Conversations : Exists(x)}
             PROVE  LET shown == UNION {ToSet(SessionDetail(s, 2, offset, FALSE)) :
                                           offset \in 0 .. MaxMessages} IN
                    /\ shown \cap erased \subseteq clashed
                    /\ \A type \in ExportTypes, format \in ExportFormats :
                          ExportShows(s, type, format) \subseteq shown \cup {0}
  BY DEF ErasedIsHidden
<1> DEFINE shown == UNION {ToSet(SessionDetail(s, 2, offset, FALSE)) : offset \in 0 .. MaxMessages}
<1>1. StoreTypeOK /\ MarksAreKept
  BY DEF StoreInv, MarksOK
<1>2. /\ Of(s) \in SUBSET Nat /\ IsFiniteSet(Of(s)) /\ Cardinality(Of(s)) \in 0 .. MaxMessages
      /\ \A m \in Of(s) : m \in Stored
  BY <1>1, MessagesOfOne
<1>3. ASSUME NEW m \in shown, m \in erased
      PROVE  m \in clashed
  <2>1. PICK offset \in 0 .. MaxMessages : m \in ToSet(SessionDetail(s, 2, offset, FALSE))
    OBVIOUS
  <2>2. offset \in Nat
    BY StoreAssumption
  <2>3. m \in Of(s) /\ ~ ShouldHide(message[m].meta, FALSE)
    BY <1>1, <2>1, <2>2, DetailShows
  <2> QED  BY <1>1, <1>2, <1>3, <2>3 DEF MarksAreKept, ShouldHide
<1>4. ASSUME NEW m \in Exported(s)
      PROVE  m \in shown
  <2>1. m \in Of(s) /\ ~ ShouldHide(message[m].meta, FALSE)
    BY DEF Exported
  <2> DEFINE q == Ascending(Of(s))
  <2>2. q \in Seq(Of(s)) /\ Len(q) = Cardinality(Of(s)) /\ ToSet(q) = Of(s)
    BY <1>2, NumbersInOrder
  <2>3. PICK i \in 1 .. Cardinality(Of(s)) : q[i] = m
    BY <2>1, <2>2 DEF ToSet
  <2>4. i - 1 \in 0 .. MaxMessages /\ i - 1 \in Nat /\ i = (i - 1) + 1
    BY <1>2, StoreAssumption
  <2>5. m \in ToSet(SessionDetail(s, 2, i - 1, FALSE))
    BY <1>1, <2>1, <2>3, <2>4, DetailShows
  <2> QED  BY <2>4, <2>5
<1>5. ExportedPayload(s) \in Exported(s) \cup {0}
  <2> DEFINE S == {m \in Exported(s) : Structured(m)}
  <2>1. CASE S = {}
    BY <2>1 DEF ExportedPayload, Newest
  <2>2. CASE S # {}
    <3>1. S \in SUBSET Nat /\ IsFiniteSet(S)
      <4>1. S \in SUBSET Of(s)
        BY DEF Exported
      <4> QED  BY <1>2, <4>1, FS_Subset
    <3>2. message \in Seq(MessageRow) /\ Len(message) \in Nat
          /\ \A m \in S : m <= Len(message)
      <4>1. message \in Seq(MessageRow)
        BY <1>1 DEF StoreTypeOK
      <4>2. Len(message) \in Nat /\ DOMAIN message = 1 .. Len(message)
        BY <4>1
      <4>3. \A m \in S : m \in DOMAIN message
        BY DEF Exported, Of, Stored
      <4> HIDE DEF S
      <4> QED  BY <4>1, <4>2, <4>3
    <3>3. Max(S) \in S
      BY <2>2, <3>1, <3>2, Maximum
    <3> QED  BY <2>2, <3>3 DEF ExportedPayload, Newest
  <2> QED  BY <2>1, <2>2
<1>6. ASSUME NEW type \in ExportTypes, NEW format \in ExportFormats
      PROVE  ExportShows(s, type, format) \subseteq shown \cup {0}
  <2>1. ExportShows(s, type, format) \subseteq Exported(s) \cup {0}
    BY <1>5 DEF ExportShows
  <2> QED  BY <1>4, <2>1
<1> HIDE DEF shown
<1>7. shown \cap erased \subseteq clashed
  BY <1>3
<1> QED  BY <1>6, <1>7 DEF shown

-------------------------------------------------------------------------------
(* SessionStore: the histories *)

\* The place of a conversation tells it from the others.
LEMMA Places ==
  ASSUME NEW order, Listing(order), NEW s
  PROVE  /\ Place(order, s) \in Nat
         /\ s \in ToSet(order) => /\ Place(order, s) # 0
                                  /\ \A t : Place(order, s) = Place(order, t) => s = t
<1>1. Len(order) \in Nat /\ DOMAIN order = 1 .. Len(order)
  BY DEF Listing
<1>2. \A t : t \in ToSet(order) => Place(order, t) \in 1 .. Len(order) /\ order[Place(order, t)] = t
  <2> TAKE t
  <2> HAVE t \in ToSet(order)
  <2>1. \E i \in DOMAIN order : order[i] = t
    BY DEF ToSet
  <2>2. Contains(order, t)
    BY <1>1, <2>1 DEF Contains
  <2> QED  BY <1>1, <2>1, <2>2 DEF Place
<1>3. \A t : t \notin ToSet(order) => Place(order, t) = 0
  BY <1>1 DEF Contains, Place, ToSet
<1> HIDE DEF Place
<1> QED  BY <1>1, <1>2, <1>3

\* What the histories are ordered by.
LEMMA ActivityOrder ==
  ASSUME StoreTypeOK, NEW S, \A s \in S : s \in Conversations /\ Exists(s)
  PROVE  Precedes([x \in S |-> {y \in S : Above(y, x)}], S)
<1> DEFINE b == [x \in S |-> {y \in S : Above(y, x)}]
<1>1. Listing(recent) /\ Listing(touched) /\ \A s \in S : s \in ToSet(recent)
  BY DEF StoreTypeOK, Listing
<1>2. PICK pin, act, upd :
         /\ pin = [s \in S |-> IF session[s].pinned THEN 1 ELSE 0]
         /\ act = [s \in S |-> Place(touched, s)]
         /\ upd = [s \in S |-> Place(recent, s)]
  OBVIOUS
<1>3. /\ \A s \in S : pin[s] \in {0, 1} /\ act[s] \in Nat /\ upd[s] \in Nat
      /\ \A s, t \in S : upd[s] = upd[t] => s = t
  BY <1>1, <1>2, Places
<1>4. \A s, t \in S :
         Above(s, t) <=> \/ pin[s] > pin[t]
                         \/ /\ pin[s] = pin[t]
                            /\ \/ act[s] # act[t] /\ (act[s] = 0 \/ (act[t] # 0 /\ act[s] > act[t]))
                               \/ act[s] = act[t] /\ upd[s] > upd[t]
  <2> TAKE s, t \in S
  <2>1. /\ (session[s].pinned <=> pin[s] = 1) /\ (~ session[s].pinned <=> pin[s] = 0)
        /\ (session[t].pinned <=> pin[t] = 1) /\ (~ session[t].pinned <=> pin[t] = 0)
        /\ Place(touched, s) = act[s] /\ Place(touched, t) = act[t]
        /\ Place(recent, s) = upd[s] /\ Place(recent, t) = upd[t]
    BY <1>2
  <2>2. session[s].pinned \in BOOLEAN /\ session[t].pinned \in BOOLEAN
    BY DEF StoreTypeOK, Exists, SessionRow
  <2> HIDE DEF Place
  <2> QED  BY <1>3, <2>1, <2>2 DEF Above
<1>5. b \in [S -> SUBSET S] /\ \A x, y \in S : x \in b[y] <=> Above(x, y)
  OBVIOUS
<1> HIDE DEF b
<1>6. \A x \in S : ~ Above(x, x)
  BY <1>3, <1>4
<1>7. \A x, y \in S : x = y \/ Above(x, y) \/ Above(y, x)
  BY <1>3, <1>4
<1>8. ASSUME NEW x \in S, NEW y \in S, NEW z \in S, Above(x, y), Above(y, z)
      PROVE  Above(x, z)
  <2>1. /\ pin[x] \in {0, 1} /\ act[x] \in Nat /\ upd[x] \in Nat
        /\ pin[y] \in {0, 1} /\ act[y] \in Nat /\ upd[y] \in Nat
        /\ pin[z] \in {0, 1} /\ act[z] \in Nat /\ upd[z] \in Nat
    BY <1>3
  <2>2. \/ pin[x] > pin[y]
        \/ /\ pin[x] = pin[y]
           /\ \/ act[x] # act[y] /\ (act[x] = 0 \/ (act[y] # 0 /\ act[x] > act[y]))
              \/ act[x] = act[y] /\ upd[x] > upd[y]
    BY <1>4, <1>8
  <2>3. \/ pin[y] > pin[z]
        \/ /\ pin[y] = pin[z]
           /\ \/ act[y] # act[z] /\ (act[y] = 0 \/ (act[z] # 0 /\ act[y] > act[z]))
              \/ act[y] = act[z] /\ upd[y] > upd[z]
    BY <1>4, <1>8
  <2>4. \/ pin[x] > pin[z]
        \/ /\ pin[x] = pin[z]
           /\ \/ act[x] # act[z] /\ (act[x] = 0 \/ (act[z] # 0 /\ act[x] > act[z]))
              \/ act[x] = act[z] /\ upd[x] > upd[z]
    BY <2>1, <2>2, <2>3
  <2> QED  BY <1>4, <2>4
<1>9. \A x, y \in S : x \in b[y] => b[x] \subseteq b[y]
  BY <1>5, <1>8
<1>10. \A x \in S : x \notin b[x]
  BY <1>5, <1>6
<1>11. \A x, y \in S : x = y \/ x \in b[y] \/ y \in b[x]
  BY <1>5, <1>7
<1> QED  BY <1>5, <1>9, <1>10, <1>11 DEF Precedes, b

\* q has the members of S, each once, the pinned ones first.
PinnedFirst(q, S) ==
    /\ q \in Seq(S) /\ Len(q) = Cardinality(S)
    /\ Len(q) \in Nat /\ Len(recent) \in Nat /\ Len(q) <= Len(recent)
    /\ \A i, j \in 1 .. Len(q) : i < j => q[i] # q[j] /\ (session[q[j]].pinned => session[q[i]].pinned)
    /\ {q[i] : i \in 1 .. Len(q)} = S

\* A history has the conversations that match, each once, the pinned ones first.
LEMMA History ==
  ASSUME StoreTypeOK, NEW u, NEW f, NEW search, NEW archived, NEW q,
         q = ByActivity(Matches(u, f, search, archived))
  PROVE  PinnedFirst(q, Matches(u, f, search, archived))
<1> DEFINE S == Matches(u, f, search, archived)
           c == [x \in S |-> {y \in S : Above(y, x)}]
<1>1. \A s \in S : s \in Conversations /\ Exists(s)
  BY DEF Matches
<1>2. /\ Len(recent) \in Nat /\ IsFiniteSet(S) /\ Cardinality(S) <= Len(recent)
  <2>1. Len(recent) \in Nat /\ DOMAIN recent = 1 .. Len(recent)
    BY DEF StoreTypeOK
  <2> HIDE DEF S, c
  <2>2. recent \in Injection(1 .. Len(recent), ToSet(recent))
    BY <2>1 DEF StoreTypeOK, Injection, IsInjective, ToSet
  <2>3. recent \in Surjection(1 .. Len(recent), ToSet(recent))
    BY <2>1, <2>2 DEF Surjection, Injection, ToSet
  <2>4. IsFiniteSet(1 .. Len(recent)) /\ Cardinality(1 .. Len(recent)) = Len(recent)
    <3>1. PICK n \in Nat : n = Len(recent)
      BY <2>1
    <3>2. IsFiniteSet(1 .. n) /\ Cardinality(1 .. n) = n
      BY FS_Interval
    <3> QED  BY <3>1, <3>2
  <2>5. IsFiniteSet(ToSet(recent)) /\ Cardinality(ToSet(recent)) <= Len(recent)
    BY <2>3, <2>4, FS_Surjection
  <2>6. S \in SUBSET ToSet(recent)
    BY <1>1 DEF StoreTypeOK, S
  <2>7. IsFiniteSet(S) /\ Cardinality(S) <= Cardinality(ToSet(recent))
    BY <2>5, <2>6, FS_Subset
  <2>8. Cardinality(S) \in Nat /\ Cardinality(ToSet(recent)) \in Nat
    BY <2>5, <2>7, FS_CardinalityType
  <2> QED  BY <2>1, <2>5, <2>7, <2>8
<1> HIDE DEF S
<1>3. PICK b : b = c
  OBVIOUS
<1>4. Precedes(b, S)
  BY <1>1, <1>3, ActivityOrder
<1>5. q = [i \in 1 .. Cardinality(S) |-> CHOOSE x \in S : Cardinality({y \in S : Above(y, x)}) = i - 1]
  BY DEF ByActivity, InOrder, S
<1>6. ASSUME NEW i \in 1 .. Cardinality(S)
      PROVE  q[i] \in S /\ Cardinality(b[q[i]]) = i - 1
  <2>1. q[i] = CHOOSE x \in S : Cardinality({y \in S : Above(y, x)}) = i - 1
    BY <1>5
  <2>2. \E x \in S : Cardinality(b[x]) = i - 1
    BY <1>2, <1>4, Ranks
  <2>3. \E x \in S : Cardinality({y \in S : Above(y, x)}) = i - 1
    BY <1>3, <2>2
  <2>4. q[i] \in S /\ Cardinality({y \in S : Above(y, q[i])}) = i - 1
    BY <2>1, <2>3
  <2> QED  BY <1>3, <2>4
<1>7. q \in [1 .. Cardinality(S) -> S]
  BY <1>5, <1>6
<1>8. Lists(q, S, b)
  BY <1>2, <1>4, <1>6, <1>7, Listings
<1>9. ASSUME NEW i \in 1 .. Len(q), NEW j \in 1 .. Len(q), i < j
      PROVE  q[i] # q[j] /\ (session[q[j]].pinned => session[q[i]].pinned)
  <2>1. q[i] \in b[q[j]] /\ q[i] # q[j] /\ q[i] \in S /\ q[j] \in S
    BY <1>8, <1>9 DEF Lists
  <2>2. Above(q[i], q[j])
    BY <1>3, <2>1
  <2>3. session[q[i]] \in SessionRow /\ session[q[j]] \in SessionRow
    BY <1>1, <2>1 DEF StoreTypeOK, Exists
  <2> HIDE DEF Place
  <2> QED  BY <2>1, <2>2, <2>3 DEF Above, SessionRow
<1>10. {q[i] : i \in 1 .. Len(q)} = S
  BY <1>8 DEF Lists
<1>11. q \in Seq(S) /\ Len(q) = Cardinality(S) /\ Cardinality(S) \in Nat
  BY <1>8 DEF Lists
<1> QED  BY <1>2, <1>9, <1>10, <1>11 DEF S, PinnedFirst

\* A page of one.
LEMMA OneEach ==
  ASSUME NEW S, NEW q \in Seq(S), NEW i \in Nat
  PROVE  ToSet(PageOf(q, 1, i)) = IF i + 1 <= Len(q) THEN {q[i + 1]} ELSE {}
<1>1. ToSet(PageOf(q, 1, i)) = {q[k] : k \in {x \in 1 .. Len(q) : i < x /\ x <= i + 1}}
  BY PageHas DEF From
<1>2. PICK n \in Nat : n = Len(q)
  OBVIOUS
<1>3. {x \in 1 .. n : i < x /\ x <= i + 1} = IF i + 1 <= n THEN {i + 1} ELSE {}
  OBVIOUS
<1> QED  BY <1>1, <1>2, <1>3

LEMMA LessonsHold == StoreInv => LessonsAgree
<1> SUFFICES ASSUME StoreInv, NEW u \in Owners \ AdminUsers
    PROVE  LET Found(f) == ToSet(ListHistory(u, f, FALSE, TRUE, Len(recent), 0).sessions)
               halfway == {task[t].target : t \in {x \in Threads : task[x].pc = "drop"}} IN
           /\ CourseHistory(u) \subseteq Found("course_generator")
           /\ PatternHistory(u) \subseteq Found("dsa_pattern")
           /\ (Found("course_generator") \cup Found("dsa_pattern"))
                 \ (CourseHistory(u) \cup PatternHistory(u)) \subseteq bare \cup halfway
  BY DEF LessonsAgree
<1> DEFINE Found(f) == ToSet(ListHistory(u, f, FALSE, TRUE, Len(recent), 0).sessions)
           halfway == {task[t].target : t \in {x \in Threads : task[x].pc = "drop"}}
<1>1. StoreTypeOK /\ LessonsOK /\ lesson \subseteq Conversations
  BY DEF StoreInv, StoreTypeOK
<1>2. ASSUME NEW f PROVE Found(f) = Matches(u, f, FALSE, TRUE)
  <2>1. PICK q : q = ByActivity(Matches(u, f, FALSE, TRUE))
    OBVIOUS
  <2>2. /\ q \in Seq(Matches(u, f, FALSE, TRUE))
        /\ Len(q) \in Nat /\ Len(recent) \in Nat /\ Len(q) <= Len(recent)
        /\ {q[i] : i \in 1 .. Len(q)} = Matches(u, f, FALSE, TRUE)
    <3>1. PinnedFirst(q, Matches(u, f, FALSE, TRUE))
      BY <1>1, <2>1, History
    <3> QED  BY <3>1 DEF PinnedFirst
  <2>3. Found(f) = ToSet(PageOf(q, Len(recent), 0))
    BY <2>1 DEF ListHistory
  <2>4. Found(f) = {q[i] : i \in {k \in 1 .. Len(q) : 0 < k /\ k <= 0 + Len(recent)}}
    <3>1. ToSet(PageOf(q, Len(recent), 0)) = From(q, Len(recent), 0)
      BY <2>2, PageHas
    <3> QED  BY <2>3, <3>1 DEF From
  <2>5. {k \in 1 .. Len(q) : 0 < k /\ k <= 0 + Len(recent)} = 1 .. Len(q)
    BY <2>2
  <2> QED  BY <2>2, <2>4, <2>5
<1> HIDE DEF Found
<1>3. ASSUME NEW f
      PROVE  {s \in lesson : session[s].owner = u /\ session[s].feature = f} \subseteq Found(f)
  BY <1>1, <1>2 DEF LessonsOK, Matches
<1>4. ASSUME NEW f \in LessonProducts, NEW s \in Found(f),
             s \notin {x \in lesson : session[x].owner = u /\ session[x].feature = f}
      PROVE  s \in bare \cup halfway
  <2>1. /\ s \in Conversations /\ Exists(s) /\ session[s].owner = u /\ session[s].feature = f
        /\ s \notin lesson
    BY <1>2, <1>4 DEF Matches
  <2>2. s \in bare \/ \E t \in Threads : task[t].pc = "drop" /\ task[t].target = s
    BY <1>1, <2>1 DEF LessonsOK
  <2> QED  BY <2>2
<1> HIDE DEF halfway
<1>5. (Found("course_generator") \cup Found("dsa_pattern"))
         \ (CourseHistory(u) \cup PatternHistory(u)) \subseteq bare \cup halfway
  BY <1>4 DEF CourseHistory, PatternHistory, LessonProducts
<1>6. /\ CourseHistory(u) \subseteq Found("course_generator")
      /\ PatternHistory(u) \subseteq Found("dsa_pattern")
  BY <1>3 DEF CourseHistory, PatternHistory
<1> QED  BY <1>5, <1>6 DEF Found, halfway

LEMMA Histories == StoreInv => ListingsAreSound
<1> SUFFICES ASSUME StoreInv, NEW u \in Owners \ AdminUsers, NEW f \in Features,
                    NEW search \in BOOLEAN, NEW archived \in BOOLEAN
    PROVE  LET Page(i) ==
                 CASE f = "leetcode" /\ ~ archived -> ProblemHistory(u, search, 1, i)
                   [] f = "hackerrank" /\ ~ archived -> ChallengeHistory(u, search, 1, i)
                   [] OTHER -> ListHistory(u, f, search, archived, 1, i)
               pages == 0 .. Len(recent)
               Met(i) == ToSet(Page(i).sessions) IN
           /\ UNION {Met(i) : i \in pages} = Matches(u, f, search, archived)
           /\ ~ search => Page(0).total = Cardinality({i \in pages : Met(i) # {}})
           /\ \A i, j \in pages : i < j =>
                 \A s \in Met(i), t \in Met(j) :
                     s # t /\ (session[t].pinned => session[s].pinned)
  BY DEF ListingsAreSound
<1> DEFINE Page(i) ==
             CASE f = "leetcode" /\ ~ archived -> ProblemHistory(u, search, 1, i)
               [] f = "hackerrank" /\ ~ archived -> ChallengeHistory(u, search, 1, i)
               [] OTHER -> ListHistory(u, f, search, archived, 1, i)
           pages == 0 .. Len(recent)
           Met(i) == ToSet(Page(i).sessions)
<1>1. ASSUME NEW i PROVE Page(i) = ListHistory(u, f, search, archived, 1, i)
  <2>1. CASE f = "leetcode" /\ ~ archived
    BY <2>1 DEF ProblemHistory
  <2>2. CASE f = "hackerrank" /\ ~ archived
    BY <2>2 DEF ChallengeHistory
  <2>3. CASE archived \/ f \notin {"leetcode", "hackerrank"}
    BY <2>3
  <2> QED  BY <2>1, <2>2, <2>3
<1>2. PICK q : q = ByActivity(Matches(u, f, search, archived))
  OBVIOUS
<1> DEFINE S == Matches(u, f, search, archived)
<1>0. PinnedFirst(q, S)
  BY <1>2, History DEF StoreInv
<1>3. PICK n \in Nat : n = Len(q)
  BY <1>0 DEF PinnedFirst
<1>4. PICK r \in Nat : r = Len(recent)
  BY <1>0 DEF PinnedFirst
<1>5. /\ q \in Seq(Matches(u, f, search, archived))
      /\ n = Cardinality(Matches(u, f, search, archived)) /\ n <= r
      /\ \A i, j \in 1 .. n : i < j => q[i] # q[j] /\ (session[q[j]].pinned => session[q[i]].pinned)
      /\ {q[i] : i \in 1 .. n} = Matches(u, f, search, archived)
  BY <1>0, <1>3, <1>4 DEF PinnedFirst
<1> HIDE DEF Page
<1>6. ASSUME NEW i \in pages
      PROVE  i \in 0 .. r /\ Met(i) = IF i + 1 <= n THEN {q[i + 1]} ELSE {}
  <2>1. i \in 0 .. r /\ i \in Nat
    BY <1>4
  <2>2. Met(i) = ToSet(PageOf(q, 1, i))
    BY <1>1, <1>2 DEF ListHistory
  <2> QED  BY <1>3, <1>5, <2>1, <2>2, OneEach
<1>7. Page(0).total = Cardinality(Matches(u, f, FALSE, archived))
  BY <1>1 DEF ListHistory
<1>8. pages = 0 .. r
  BY <1>4
<1> HIDE DEF Met, pages
<1>9. UNION {Met(i) : i \in pages} = Matches(u, f, search, archived)
  <2>1. ASSUME NEW i \in pages, NEW s \in Met(i) PROVE s \in Matches(u, f, search, archived)
    <3>1. i + 1 <= n /\ s = q[i + 1] /\ i \in Nat
      BY <1>6
    <3>2. i + 1 \in 1 .. n
      BY <3>1
    <3> QED  BY <1>5, <3>1, <3>2
  <2>2. ASSUME NEW s \in Matches(u, f, search, archived) PROVE \E i \in pages : s \in Met(i)
    <3>1. PICK k \in 1 .. n : q[k] = s
      BY <1>5
    <3>2. k - 1 \in pages /\ (k - 1) + 1 = k /\ k <= n
      BY <1>5, <1>8
    <3> QED  BY <1>6, <3>1, <3>2
  <2> QED  BY <2>1, <2>2
<1>10. ASSUME NEW i \in pages, NEW j \in pages, i < j, NEW s \in Met(i), NEW t \in Met(j)
       PROVE  s # t /\ (session[t].pinned => session[s].pinned)
  <2>1. /\ i + 1 <= n /\ s = q[i + 1] /\ i \in Nat
        /\ j + 1 <= n /\ t = q[j + 1] /\ j \in Nat
    BY <1>6
  <2>2. i + 1 \in 1 .. n /\ j + 1 \in 1 .. n /\ i + 1 < j + 1
    BY <1>10, <2>1
  <2> QED  BY <1>5, <2>1, <2>2
<1>11. ASSUME ~ search PROVE Page(0).total = Cardinality({i \in pages : Met(i) # {}})
  <2>1. {i \in pages : Met(i) # {}} = 0 .. n - 1
    <3>1. \A i \in pages : Met(i) # {} <=> i + 1 <= n
      BY <1>6
    <3> QED  BY <1>5, <1>8, <3>1
  <2>2. Cardinality(0 .. n - 1) = n
    BY FS_Interval
  <2>3. search = FALSE
    BY <1>11
  <2> QED  BY <1>5, <1>7, <2>1, <2>2, <2>3
<1> QED  BY <1>9, <1>10, <1>11 DEF Met, pages, Page

\* What is replayed is the current version, unless the newest answer failed.
LEMMA Replays == StoreInv => ReplaysAreExplained
<1> SUFFICES ASSUME StoreInv PROVE ReplaysAreExplained
  OBVIOUS
<1>1. client.pc = "back" /\ client.answer # 0 => client.shown >= client.answer
  BY DEF StoreInv, ClientOK
<1>2. StoreTypeOK
  BY DEF StoreInv
<1>3. ASSUME NEW u \in Users, NEW s \in Conversations,
             NEW v \in CourseVersions(u, s) \cup PatternVersions(u, s) \cup
                       (UNION {ProblemVersions(u, f, s) : f \in Problems}),
             v # Replayed(s)
      PROVE  message[Replayed(s)].meta.status = "failed"
  <2>1. v = CurrentVersion(s)
    <3>1. v \in CourseVersions(u, s) \/ v \in PatternVersions(u, s)
          \/ \E f \in Problems : v \in ProblemVersions(u, f, s)
      OBVIOUS
    <3>2. CourseVersions(u, s) \subseteq {CurrentVersion(s)}
      BY DEF CourseVersions
    <3>3. PatternVersions(u, s) \subseteq {CurrentVersion(s)}
      BY DEF PatternVersions
    <3>4. \A f \in Problems : ProblemVersions(u, f, s) \subseteq {CurrentVersion(s)}
      BY DEF ProblemVersions
    <3> QED  BY <3>1, <3>2, <3>3, <3>4
  <2>2. Replayed(s) = Newest(Answers(s))
    BY <1>2, ReplayedIsNewest
  <2> HIDE DEF Replayed, Newest
  <2> QED  BY <1>3, <2>1, <2>2 DEF CurrentVersion
<1> QED  BY <1>1, <1>3 DEF ReplaysAreExplained

-------------------------------------------------------------------------------
(* SessionStore: theorems *)

\* The rows, requests and orders of the stored conversations keep their types.
THEOREM StoreTypes == StoreSpec => []StoreTypeOK
<1>1. StoreInv => StoreTypeOK
  BY DEF StoreInv
<1> QED  BY <1>1, StoreInvariant, PTL

\* The stored conversations keep what their users were told: marks that were answered
\* hold unless they clashed, what was deleted is hidden, lessons are in both their lists,
\* histories can be paged through, and replays are what was missed or newer.
THEOREM StoredConversations == StoreSpec => []SessionsAreSound
<1>1. StoreInv => SessionsAreSound
  BY Hidden, LessonsHold, Histories, Replays DEF SessionsAreSound, StoreInv, MarksOK
<1> QED  BY <1>1, StoreInvariant, PTL

-------------------------------------------------------------------------------
(* The four modules together *)

\* The composition the runs check takes steps of one module at a time, so what each keeps
\* for itself is kept: every variable of what the AI service stores has its type.
THEOREM StoredDataTypes == Spec => []TypeOK
<1>1. Spec => MemorySpec
  <2>1. Init => MemoryInit
    BY DEF Init
  <2>2. [Next]_vars => [MemoryNext]_memoryVars
    BY DEF Next, StoreStep, vars, memoryVars
  <2> QED  BY <2>1, <2>2, PTL DEF Spec, MemorySpec
<1>2. Spec => PromptSpec
  <2>1. Init => PromptInit
    BY DEF Init
  <2>2. [Next]_vars => [PromptNext]_promptVars
    BY DEF Next, StoreStep, vars, promptVars
  <2> QED  BY <2>1, <2>2, PTL DEF Spec, PromptSpec
<1>3. Spec => LearningSpec
  <2>1. Init => LearningInit
    BY DEF Init
  <2>2. [Next]_vars => [LearningNext]_learningVars
    BY DEF Next, StoreStep, vars, learningVars
  <2> QED  BY <2>1, <2>2, PTL DEF Spec, LearningSpec
<1>4. Spec => StoreSpec
  <2>1. Init => StoreInit
    BY DEF Init
  <2>2. [Next]_vars => [StoreNext]_storeVars
    BY DEF Next, StoreStep, vars, storeVars
  <2> QED  BY <2>1, <2>2, PTL DEF Spec, StoreSpec
<1>5. MemoryTypeOK /\ PromptTypeOK /\ LearningTypeOK /\ StoreTypeOK => TypeOK
  BY DEF TypeOK
<1> QED  BY <1>1, <1>2, <1>3, <1>4, <1>5,
            MemoryTypeCorrect, PromptTypeCorrect, LearningTypeCorrect, StoreTypes, PTL
===============================================================================
