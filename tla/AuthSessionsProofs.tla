------------------------ MODULE AuthSessionsProofs ------------------------
(* Proofs about AuthSessions, for any users, requests and tokens. *)
EXTENDS AuthSessions, TLAPS

\* An empty token table and idle requests have their types.
LEMMA InitType == Init => TypeOK
BY NoneIsFresh DEF Init, TypeOK, Account, Token, Request, Idle, Unborn, Row, Handling

\* revoke_all_tokens keeps the type of the rows.
LEMMA RevokedType ==
  ASSUME TypeOK, NEW u, NEW keep
  PROVE  Revoked(u, keep) \in [Tokens -> Token]
BY DEF TypeOK, Revoked, LiveOf, Live, Spent, Token, Row

\* A password change leaves no valid session that rests on the old password: the
\* rows after it are those revoke_all_tokens or revoke_all_tokens_except leave.
LEMMA NothingAged ==
  ASSUME NEW u, NEW keep
  PROVE  Aged(Revoked(u, keep), u, keep) = Revoked(u, keep)
<1> DEFINE rows == Revoked(u, keep)
<1>1. ASSUME NEW t \in Tokens, t \in LiveOf(u), t # keep
      PROVE  rows[t].st # "live"
  BY <1>1 DEF Revoked, Spent, Row
<1>2. rows = [t \in Tokens |-> rows[t]]
  BY DEF Revoked
<1>3. Aged(rows, u, keep) = [t \in Tokens |-> rows[t]]
  <2> HIDE DEF rows
  <2> QED  BY <1>1 DEF Aged
<1> QED  BY <1>2, <1>3

\* The ghosts a revocation leaves keep the type of the requests.
LEMMA OverlappedType ==
  ASSUME TypeOK, NEW p \in Procs, NEW u \in Users, NEW aged \in BOOLEAN
  PROVE  Overlapped(p, u, aged) \in [Procs -> Request]
BY DEF TypeOK, Overlapped, Request, Idle, Handling

\* The read that starts a request keeps the types.
LEMMA BeginType ==
  ASSUME TypeOK, NEW p \in Procs, Begin(p)
  PROVE  TypeOK'
<1>1. ASSUME NEW u \in Users, NEW label \in UserLabels, Admit(p, u, label)
      PROVE  TypeOK'
  BY <1>1 DEF Admit, TypeOK, Request, Idle, Handling
<1>2. ASSUME NEW t \in Tokens, NEW label \in TokenLabels, LookUp(p, t, label)
      PROVE  TypeOK'
  BY <1>2 DEF LookUp, TypeOK, Request, Idle, Token, Handling
<1> QED
  BY <1>1, <1>2 DEF Begin, LoginRead, ChangeRead, ResetRead, BlockRead,
     DeactivateRead, DisableRead, EnableRead, ActivateRead, UnblockRead, DeleteRead,
     AdminDeleteRead, RefreshLookup, RefreshLookupRevoked, LogoutLookup,
     UserLabels, TokenLabels

(***************************************************************************)
(* The inductive invariant.                                                *)
(***************************************************************************)

\* A row without a token belongs to nobody; the parent of a row is spent.
RowsOK ==
    \A t \in Tokens :
        /\ tok[t].st \in {"unborn", "gone"} => tok[t].parent = None /\ tok[t].owner = None
        /\ tok[t].st \in {"live", "revoked"} => tok[t].owner \in Users
        /\ tok[t].parent # None => tok[tok[t].parent].st \in {"revoked", "gone"}

\* A request works for a user; one that looked a token up holds a row that exists
\* or existed.
RequestsOK ==
    \A p \in Procs :
        /\ req[p].at # "idle" => req[p].user \in Users
        /\ req[p].at \in TokenLabels =>
               req[p].token \in Tokens /\ tok[req[p].token].st # "unborn"

\* What rests on an old password has overlapped its change.
StaleIsEscaped ==
    /\ \A t \in Tokens : tok[t].stale => tok[t].escaped
    /\ \A p \in Procs : req[p].stale => req[p].escaped

\* LockoutKillsSessions, for the tokens that requests past their account check
\* are about to insert.
MintsExcused ==
    \A p \in Procs :
        req[p].at \in {"login", "rotate"} /\ LockedOutUser(req[p].user) =>
            \/ req[p].user \in lost
            \/ RevocationPending(req[p].user)
            \/ req[p].escaped

IInv ==
    /\ TypeOK /\ RowsOK /\ RequestsOK /\ StaleIsEscaped
    /\ MintsExcused /\ LockoutKillsSessions /\ NoOrphanTokens

-----------------------------------------------------------------------------
(***************************************************************************)
(* What a step may do to the rows: nothing, strike some (revoke or delete  *)
(* them), or insert one.                                                   *)
(***************************************************************************)

Strike ==
    /\ tok' \in [Tokens -> Token]
    /\ \A t \in Tokens :
          \/ tok'[t] = tok[t]
          \/ tok[t].st \in {"live", "revoked"} /\ tok'[t] \in {Spent(t), Gone}

Insert(p, t) ==
    /\ tok[t].st = "unborn"
    /\ req[p].at \in {"login", "rotate"}
    /\ acct[req[p].user].exists
    /\ acct' = acct /\ lost' = lost
    /\ Done(p)
    /\ \/ tok' = [tok EXCEPT ![t] = Minted(p, None)]
       \/ /\ req[p].token \in Tokens \ {t}
          /\ tok[req[p].token].st \in {"live", "revoked"}
          /\ tok' = [tok EXCEPT ![req[p].token] = Spent(req[p].token),
                                ![t] = Minted(p, req[p].token)]

\* revoke_all_tokens strikes rows and inserts none.
LEMMA RevokedStrikes ==
  ASSUME TypeOK, NEW u, NEW keep, tok' = Revoked(u, keep)
  PROVE  Strike
<1>1. tok' \in [Tokens -> Token]
  BY RevokedType
<1>2. ASSUME NEW t \in Tokens
      PROVE  \/ tok'[t] = tok[t]
             \/ tok[t].st \in {"live", "revoked"} /\ tok'[t] \in {Spent(t), Gone}
  <2>1. tok'[t] = IF t \in LiveOf(u) /\ t # keep THEN Spent(t) ELSE tok[t]
    BY DEF Revoked
  <2> QED  BY <2>1 DEF LiveOf, Live
<1> QED  BY <1>1, <1>2 DEF Strike

\* The reads of a handler change no row.
LEMMA BeginRows ==
  ASSUME TypeOK, NEW p \in Procs, Begin(p)
  PROVE  UNCHANGED <<acct, tok, lost>>
BY DEF Begin, LoginRead, ChangeRead, ResetRead, BlockRead, DeactivateRead,
   DisableRead, EnableRead, ActivateRead, UnblockRead, DeleteRead, AdminDeleteRead,
   RefreshLookup, RefreshLookupRevoked, LogoutLookup, Admit, LookUp

\* Every commit strikes rows or inserts one.
LEMMA CommitRows ==
  ASSUME TypeOK, RowsOK, RequestsOK, NEW p \in Procs, Commit(p)
  PROVE  Strike \/ \E t \in Tokens : Insert(p, t)
<1>1. ASSUME NEW t \in Tokens, LoginCommit(p, t)  PROVE Insert(p, t)
  BY <1>1 DEF LoginCommit, Insert, At
<1>2. ASSUME NEW t \in Tokens, RefreshRotate(p, t)  PROVE Insert(p, t)
  BY <1>2 DEF RefreshRotate, Insert, At, RequestsOK, TokenLabels, TypeOK, Token
<1>3. ASSUME NEW keep, ChangeCommit(p, keep)  PROVE Strike
  BY <1>3, RevokedStrikes, NothingAged DEF ChangeCommit, PasswordCommit
<1>4. CASE ResetCommit(p)
  BY <1>4, RevokedStrikes, NothingAged DEF ResetCommit, PasswordCommit
<1>5. CASE RefreshReuse(p) \/ RevokeCommit(p) \/ DisableCommit(p)
  BY <1>5, RevokedStrikes DEF RefreshReuse, RevokeCommit, DisableCommit, RevokeAndFinish
<1>6. CASE DeleteRevokeCommit(p)
  BY <1>6, RevokedStrikes DEF DeleteRevokeCommit
<1>7. CASE LogoutCommit(p)
  <2>1. /\ req[p].token \in Tokens
        /\ tok[req[p].token].st \in {"live", "revoked"}
        /\ tok' = [tok EXCEPT ![req[p].token] = Spent(req[p].token)]
    BY <1>7 DEF LogoutCommit, At, RequestsOK, TokenLabels, TypeOK, Token
  <2>2. Spent(req[p].token) \in Token
    BY <2>1 DEF Spent, Row, Token, TypeOK
  <2> QED  BY <2>1, <2>2 DEF Strike, TypeOK
<1>8. CASE EraseCommit(p)
  <2>1. tok' = [t \in Tokens |-> IF tok[t].owner = req[p].user THEN Gone ELSE tok[t]]
    BY <1>8 DEF EraseCommit
  <2>2. Gone \in Token
    BY DEF Gone, Row, Token
  <2>3. req[p].user \in Users
    BY <1>8 DEF EraseCommit, RequestsOK
  <2>4. \A t \in Tokens : tok[t].owner = req[p].user => tok[t].st \in {"live", "revoked"}
    BY <2>3, NoneIsFresh DEF RowsOK, TypeOK, Token
  <2> QED  BY <2>1, <2>2, <2>4 DEF Strike, TypeOK
<1>9. CASE RefreshLoadUser(p) \/ BlockCommit(p) \/ DeactivateCommit(p)
           \/ EnableCommit(p) \/ ActivateCommit(p) \/ UnblockCommit(p)
  BY <1>9 DEF RefreshLoadUser, BlockCommit, DeactivateCommit, EnableCommit,
     ActivateCommit, UnblockCommit, FlagCommit, Strike, TypeOK
<1> QED
  BY <1>1, <1>2, <1>3, <1>4, <1>5, <1>6, <1>7, <1>8, <1>9 DEF Commit

\* So does every step, if it touches the table at all.
LEMMA NextRows ==
  ASSUME TypeOK, RowsOK, RequestsOK, [Next]_vars
  PROVE  Strike \/ \E p \in Procs, t \in Tokens : Insert(p, t)
<1>1. ASSUME UNCHANGED tok  PROVE Strike
  BY <1>1 DEF Strike, TypeOK
<1> QED
  BY <1>1, BeginRows, CommitRows DEF Next, Abandon, vars

\* RowsOK is preserved.
LEMMA RowsStep ==
  ASSUME TypeOK, RowsOK, RequestsOK, [Next]_vars
  PROVE  RowsOK'
<1>1. CASE Strike
  BY <1>1, NoneIsFresh DEF Strike, RowsOK, Spent, Gone, Row, TypeOK, Token
<1>2. ASSUME NEW p \in Procs, NEW t \in Tokens, Insert(p, t)
      PROVE  RowsOK'
  BY <1>2, NoneIsFresh DEF Insert, RowsOK, RequestsOK, Minted, Spent, Row, TypeOK, Token
<1> QED  BY <1>1, <1>2, NextRows

\* The rows keep their type.
LEMMA RowTypeStep ==
  ASSUME TypeOK, RowsOK, RequestsOK, [Next]_vars
  PROVE  tok' \in [Tokens -> Token]
<1>1. ASSUME NEW p \in Procs, NEW t \in Tokens, Insert(p, t)
      PROVE  tok' \in [Tokens -> Token]
  <2>1. req[p] \in Request /\ req[p].user \in Users
    BY <1>1 DEF TypeOK, Insert, RequestsOK
  <2>2. \A old \in Tokens \cup {None} : Minted(p, old) \in Token
    BY <2>1 DEF Minted, Row, Token, Request
  <2>3. \A s \in Tokens : Spent(s) \in Token
    BY DEF Spent, Row, Token, TypeOK
  <2> QED  BY <1>1, <2>2, <2>3 DEF Insert, TypeOK
<1> QED  BY <1>1, NextRows DEF Strike

-----------------------------------------------------------------------------
(***************************************************************************)
(* What a step may do to the requests: end one, start one, advance one; a  *)
(* request in flight otherwise only gains ghosts.                          *)
(***************************************************************************)

\* The request q survives the step at the same place, as escaped as before or more.
Carried(q) ==
    /\ req'[q].at = req[q].at /\ req'[q].user = req[q].user
    /\ req'[q].token = req[q].token
    /\ req[q].escaped => req'[q].escaped
    /\ req'[q].stale => req'[q].escaped \/ req[q].stale

\* A request started by p looks at a user, and at a row if it was given a token.
Started(p) ==
    /\ req'[p].at \notin {"idle", "rotate", "revokeAll"}
    /\ req'[p].user \in Users
    /\ req'[p].at = "login" => Accessible(req'[p].user)
    /\ req'[p].at \in TokenLabels =>
           req'[p].token \in Tokens /\ tok[req'[p].token].st # "unborn"
    /\ req'[p].stale => req'[p].escaped
    /\ \A q \in Procs \ {p} : req'[q] = req[q]

\* A request starts with the user it read or the token it looked up.
LEMMA BeginStarts ==
  ASSUME TypeOK, RowsOK, StaleIsEscaped, NEW p \in Procs, Begin(p)
  PROVE  req[p] = Idle /\ Started(p)
<1>1. ASSUME NEW u \in Users, NEW label \in UserLabels \ {"revokeAll"},
             Admit(p, u, label), label = "login" => Accessible(u)
      PROVE  req[p] = Idle /\ Started(p)
  BY <1>1 DEF Admit, Started, Handling, TypeOK, UserLabels, TokenLabels
<1>2. ASSUME NEW t \in Tokens, NEW label \in TokenLabels \ {"rotate"},
             LookUp(p, t, label), tok[t].st \in {"live", "revoked"}
      PROVE  req[p] = Idle /\ Started(p)
  BY <1>2 DEF LookUp, Started, Handling, TypeOK, UserLabels, TokenLabels, RowsOK,
     StaleIsEscaped
<1> QED
  BY <1>1, <1>2 DEF Begin, LoginRead, ChangeRead, ResetRead, BlockRead,
     DeactivateRead, DisableRead, EnableRead, ActivateRead, UnblockRead, DeleteRead,
     AdminDeleteRead, RefreshLookup, RefreshLookupRevoked, LogoutLookup, Live,
     UserLabels, TokenLabels

\* A request p that commits or fails ends or moves to its next step.
Advanced(p) ==
    \/ req'[p] = Idle
    \/ /\ req'[p].user = req[p].user /\ req'[p].user \in Users
       /\ req'[p].token = req[p].token
       /\ req'[p].escaped = req[p].escaped /\ req'[p].stale = req[p].stale
       /\ \/ req'[p].at \in {"revokeAll", "erase"}
          \/ /\ req[p].at = "lookup" /\ req'[p].at = "rotate"
             /\ acct' = acct /\ Accessible(req[p].user)

\* What a commit does to the requests: it ends or advances its own, and sets the
\* ghosts of the others.
LEMMA CommitRequests ==
  ASSUME TypeOK, RequestsOK, NEW p \in Procs, Commit(p) \/ Abandon(p)
  PROVE  Advanced(p) /\ \A q \in Procs \ {p} : Carried(q)
<1>1. ASSUME NEW u, NEW aged \in BOOLEAN, req' = Overlapped(p, u, aged)
      PROVE  Advanced(p) /\ \A q \in Procs \ {p} : Carried(q)
  <2>1. req'[p] = Idle
    BY <1>1 DEF Overlapped
  <2>2. ASSUME NEW q \in Procs \ {p}
        PROVE  Carried(q)
    BY <1>1, <2>2 DEF Overlapped, Handling, Carried
  <2> QED  BY <2>1, <2>2 DEF Advanced
<1>2. ASSUME Done(p)
      PROVE  Advanced(p) /\ \A q \in Procs \ {p} : Carried(q)
  BY <1>2 DEF Done, Advanced, Carried, TypeOK
<1>3. ASSUME NEW row, NEW label \in {"idle", "revokeAll"}, FlagCommit(p, row, label),
             req[p].at # "idle"
      PROVE  Advanced(p) /\ \A q \in Procs \ {p} : Carried(q)
  <2>1. CASE label = "idle"
    BY <1>3, <2>1 DEF FlagCommit, Advanced, Carried, TypeOK
  <2>2. CASE label = "revokeAll"
    BY <1>3, <2>2 DEF FlagCommit, Advanced, Carried, TypeOK, RequestsOK, Request
  <2> QED  BY <1>3, <2>1, <2>2
<1>4. CASE DeleteRevokeCommit(p)
  <2>1. req' = [Overlapped(p, req[p].user, FALSE) EXCEPT ![p] = [req[p] EXCEPT !.at = "erase"]]
        /\ req[p].user \in Users
    BY <1>4 DEF DeleteRevokeCommit, At, RequestsOK
  <2>2. Overlapped(p, req[p].user, FALSE) \in [Procs -> Request]
    BY <2>1, OverlappedType
  <2>3. req'[p] = [req[p] EXCEPT !.at = "erase"]
    BY <2>1, <2>2
  <2>4. ASSUME NEW q \in Procs \ {p}
        PROVE  Carried(q)
    <3>1. req'[q] = Overlapped(p, req[p].user, FALSE)[q]
      BY <2>1, <2>2
    <3> QED  BY <3>1 DEF Overlapped, Handling, Carried
  <2>5. /\ req'[p].at = "erase"
        /\ req'[p].user = req[p].user /\ req'[p].token = req[p].token
        /\ req'[p].escaped = req[p].escaped /\ req'[p].stale = req[p].stale
    <3>1. req[p] \in Request
      BY DEF TypeOK
    <3> QED  BY <2>3, <3>1 DEF Request
  <2>6. Advanced(p)
    BY <2>1, <2>5 DEF Advanced
  <2> QED  BY <2>4, <2>6
<1>5. CASE RefreshLoadUser(p)
  BY <1>5 DEF RefreshLoadUser, At, Advanced, Carried, TypeOK, Request, RequestsOK
<1>6. ASSUME NEW t \in Tokens, LoginCommit(p, t) \/ RefreshRotate(p, t)
      PROVE  Done(p)
  BY <1>6 DEF LoginCommit, RefreshRotate
<1>7. ASSUME NEW keep, ChangeCommit(p, keep)
      PROVE  req' = Overlapped(p, req[p].user, TRUE)
  BY <1>7 DEF ChangeCommit, PasswordCommit
<1>8. CASE ResetCommit(p)
  BY <1>1, <1>8 DEF ResetCommit, PasswordCommit
<1>9. CASE RefreshReuse(p) \/ RevokeCommit(p) \/ DisableCommit(p) \/ EraseCommit(p)
  BY <1>1, <1>9 DEF RefreshReuse, RevokeCommit, DisableCommit, EraseCommit, RevokeAndFinish
<1>10. CASE LogoutCommit(p) \/ Abandon(p)
  BY <1>2, <1>10 DEF LogoutCommit, Abandon
<1>11. CASE BlockCommit(p) \/ DeactivateCommit(p) \/ EnableCommit(p)
            \/ ActivateCommit(p) \/ UnblockCommit(p)
  BY <1>3, <1>11 DEF BlockCommit, DeactivateCommit, EnableCommit, ActivateCommit,
     UnblockCommit, At
<1> QED
  BY <1>1, <1>2, <1>4, <1>5, <1>6, <1>7, <1>8, <1>9, <1>10, <1>11 DEF Commit

\* The same of every step.
LEMMA NextRequests ==
  ASSUME TypeOK, RowsOK, RequestsOK, StaleIsEscaped, Next
  PROVE  \E p \in Procs :
            /\ \/ req[p] = Idle /\ Started(p) /\ UNCHANGED <<acct, tok, lost>>
               \/ Advanced(p) /\ (Commit(p) \/ Abandon(p))
            /\ \A q \in Procs \ {p} : Carried(q)
<1> PICK p \in Procs : Begin(p) \/ Commit(p) \/ Abandon(p)
  BY DEF Next
<1>1. CASE Begin(p)
  BY <1>1, BeginStarts, BeginRows DEF Started, Carried
<1>2. CASE Commit(p) \/ Abandon(p)
  BY <1>2, CommitRequests
<1> QED  BY <1>1, <1>2

\* RequestsOK is preserved.
LEMMA RequestsStep ==
  ASSUME TypeOK, RowsOK, RequestsOK, StaleIsEscaped, [Next]_vars
  PROVE  RequestsOK'
<1>1. CASE UNCHANGED vars
  BY <1>1 DEF vars, RequestsOK
<1>2. CASE Next
  <2>1. \A t \in Tokens : tok[t].st # "unborn" => tok'[t].st # "unborn"
    <3>1. CASE Strike
      BY <3>1 DEF Strike, Spent, Gone, Row
    <3>2. ASSUME NEW p \in Procs, NEW t \in Tokens, Insert(p, t)
          PROVE  \A s \in Tokens : tok[s].st # "unborn" => tok'[s].st # "unborn"
      BY <3>2 DEF Insert, Minted, Spent, Row, TypeOK
    <3> QED  BY <3>1, <3>2, NextRows
  <2> PICK p \in Procs :
         /\ \/ req[p] = Idle /\ Started(p) /\ UNCHANGED <<acct, tok, lost>>
            \/ Advanced(p) /\ (Commit(p) \/ Abandon(p))
         /\ \A q \in Procs \ {p} : Carried(q)
    BY <1>2, NextRequests
  <2>2. ASSUME NEW q \in Procs \ {p}
        PROVE  /\ req'[q].at # "idle" => req'[q].user \in Users
               /\ req'[q].at \in TokenLabels =>
                     req'[q].token \in Tokens /\ tok'[req'[q].token].st # "unborn"
    BY <2>1 DEF Carried, RequestsOK
  <2>3. /\ req'[p].at # "idle" => req'[p].user \in Users
        /\ req'[p].at \in TokenLabels =>
              req'[p].token \in Tokens /\ tok'[req'[p].token].st # "unborn"
    BY <2>1 DEF Started, Advanced, RequestsOK, Idle, Handling, TokenLabels
  <2> QED  BY <2>2, <2>3 DEF RequestsOK
<1> QED  BY <1>1, <1>2

\* The requests keep their type.
LEMMA RequestTypeStep ==
  ASSUME TypeOK, RequestsOK, NEW p \in Procs, Commit(p) \/ Abandon(p)
  PROVE  /\ req' \in [Procs -> Request]
         /\ acct' \in [Users -> Account]
         /\ lost' \subseteq Users
<1> USE DEF At
<1>0. /\ req[p].at # "idle" => req[p].user \in Users
      /\ req[p] \in Request
  BY DEF RequestsOK, TypeOK
<1>1. Idle \in Request
  BY DEF Idle, Handling, Request
<1>2. Done(p) => req' \in [Procs -> Request]
  BY <1>1 DEF Done, TypeOK
<1>3. ASSUME NEW t \in Tokens, LoginCommit(p, t) \/ RefreshRotate(p, t)
      PROVE  req' \in [Procs -> Request] /\ UNCHANGED <<acct, lost>>
  BY <1>2, <1>3 DEF LoginCommit, RefreshRotate
<1>4. ASSUME NEW keep, req[p].at # "idle", PasswordCommit(p, keep)
      PROVE  req' \in [Procs -> Request] /\ UNCHANGED acct /\ lost' \subseteq Users
  BY <1>0, <1>4, OverlappedType DEF PasswordCommit, TypeOK
<1>5. CASE RefreshReuse(p) \/ RevokeCommit(p)
  <2>1. /\ req' = Overlapped(p, req[p].user, FALSE) /\ acct' = acct
        /\ lost' = lost \ {req[p].user} /\ req[p].user \in Users
    BY <1>0, <1>5 DEF RefreshReuse, RevokeCommit, RevokeAndFinish
  <2> QED  BY <2>1, OverlappedType DEF TypeOK
<1>6. CASE DisableCommit(p)
  BY <1>0, <1>6, OverlappedType DEF DisableCommit, RevokeAndFinish, TypeOK, Account
<1>7. CASE EraseCommit(p)
  BY <1>0, <1>7, OverlappedType DEF EraseCommit, TypeOK, Account
<1>8. CASE DeleteRevokeCommit(p)
  <2>1. Overlapped(p, req[p].user, FALSE) \in [Procs -> Request]
    BY <1>0, <1>8, OverlappedType DEF DeleteRevokeCommit
  <2>2. [req[p] EXCEPT !.at = "erase"] \in Request
    BY <1>0 DEF Request, UserLabels
  <2> QED  BY <1>8, <2>1, <2>2 DEF DeleteRevokeCommit, TypeOK
<1>9. CASE RefreshLoadUser(p)
  <2>1. [req[p] EXCEPT !.at = "rotate"] \in Request
    BY <1>0 DEF Request, TokenLabels
  <2> QED  BY <1>9, <2>1 DEF RefreshLoadUser, TypeOK
<1>10. CASE LogoutCommit(p) \/ Abandon(p)
  <2>1. req[p].at = "revokeAll" => req[p].user \in Users
    BY <1>0
  <2> QED  BY <1>2, <1>10, <2>1 DEF LogoutCommit, Abandon, TypeOK
<1>11. ASSUME NEW row \in Account, NEW label \in {"idle", "revokeAll"},
              FlagCommit(p, row, label)
       PROVE  req' \in [Procs -> Request] /\ acct' \in [Users -> Account] /\ UNCHANGED lost
  <2>1. [req[p] EXCEPT !.at = label] \in Request
    BY <1>0 DEF Request, UserLabels
  <2> QED  BY <1>1, <1>11, <2>1 DEF FlagCommit, TypeOK
<1>12. req[p].user \in Users =>
          /\ \A b \in BOOLEAN : [acct[req[p].user] EXCEPT !.blocked = b] \in Account
          /\ \A b \in BOOLEAN : [acct[req[p].user] EXCEPT !.active = b] \in Account
  BY DEF TypeOK, Account
<1>13. CASE BlockCommit(p) \/ DeactivateCommit(p) \/ EnableCommit(p)
            \/ ActivateCommit(p) \/ UnblockCommit(p)
  BY <1>0, <1>11, <1>12, <1>13 DEF BlockCommit, DeactivateCommit, EnableCommit,
     ActivateCommit, UnblockCommit, TypeOK
<1>14. CASE ResetCommit(p)
  BY <1>4, <1>14 DEF ResetCommit, TypeOK
<1>15. ASSUME NEW keep, ChangeCommit(p, keep)
       PROVE  req' \in [Procs -> Request] /\ UNCHANGED acct /\ lost' \subseteq Users
  BY <1>4, <1>15 DEF ChangeCommit
<1> QED
  BY <1>3, <1>5, <1>6, <1>7, <1>8, <1>9, <1>10, <1>13, <1>14, <1>15 DEF Commit, TypeOK

\* TypeOK is preserved.
LEMMA TypeStep ==
  ASSUME TypeOK, RowsOK, RequestsOK, [Next]_vars
  PROVE  TypeOK'
<1>1. CASE UNCHANGED vars
  BY <1>1 DEF vars, TypeOK
<1>2. ASSUME NEW p \in Procs, Commit(p) \/ Abandon(p)
      PROVE  TypeOK'
  BY <1>2, RowTypeStep, RequestTypeStep DEF TypeOK, Next
<1> QED  BY <1>1, <1>2, BeginType DEF Next

\* StaleIsEscaped is preserved: a password change marks what it ages as overlapped.
LEMMA StaleStep ==
  ASSUME TypeOK, RowsOK, RequestsOK, StaleIsEscaped, [Next]_vars
  PROVE  StaleIsEscaped'
<1>1. \A t \in Tokens : tok'[t].stale => tok'[t].escaped
  <2>1. CASE Strike
    BY <2>1 DEF Strike, Spent, Gone, Row, StaleIsEscaped
  <2>2. ASSUME NEW p \in Procs, NEW t \in Tokens, Insert(p, t)
        PROVE  \A s \in Tokens : tok'[s].stale => tok'[s].escaped
    BY <2>2 DEF Insert, Minted, Spent, Row, StaleIsEscaped, TypeOK
  <2> QED  BY <2>1, <2>2, NextRows
<1>2. \A q \in Procs : req'[q].stale => req'[q].escaped
  <2>1. CASE UNCHANGED vars
    BY <2>1 DEF vars, StaleIsEscaped
  <2>2. CASE Next
    BY <2>2, NextRequests DEF Started, Advanced, Carried, StaleIsEscaped, Idle, Handling
  <2> QED  BY <2>1, <2>2
<1> QED  BY <1>1, <1>2 DEF StaleIsEscaped

\* A spent row stays spent, so a row inserted later cannot make its parent live.
LEMMA SpentIsExchanged == RowsOK => ExchangedIsSpent
BY DEF RowsOK, ExchangedIsSpent, Live

\* OldPasswordSessions follows from the ghosts' invariant.
LEMMA StaleIsOldPassword == StaleIsEscaped => OldPasswordSessions
BY DEF StaleIsEscaped, OldPasswordSessions

\* NoOrphanTokens is preserved: an insert needs the row of its user.
LEMMA OrphanStep ==
  ASSUME TypeOK, RowsOK, RequestsOK, NoOrphanTokens, [Next]_vars
  PROVE  NoOrphanTokens'
<1>1. SUFFICES ASSUME NEW u \in Users, ~acct'[u].exists, NEW t \in Tokens,
                      tok'[t].owner = u, tok'[t].st = "live"
               PROVE  FALSE
  BY DEF NoOrphanTokens, LiveOf, Live
<1>2. CASE ~acct[u].exists
  <2>1. ~(tok[t].owner = u /\ tok[t].st = "live")
    BY <1>2 DEF NoOrphanTokens, LiveOf, Live
  <2>2. CASE Strike
    BY <2>1, <2>2, <1>1 DEF Strike, Spent, Gone, Row
  <2>3. ASSUME NEW p \in Procs, NEW s \in Tokens, Insert(p, s)
        PROVE  FALSE
    BY <1>1, <1>2, <2>1, <2>3 DEF Insert, Minted, Spent, Row, TypeOK
  <2> QED  BY <2>2, <2>3, NextRows
<1>3. CASE acct[u].exists
  <2>1. PICK p \in Procs : EraseCommit(p) /\ req[p].user = u
    <3>1. acct' # acct
      BY <1>1, <1>3
    <3>2. PICK p \in Procs : Begin(p) \/ Commit(p) \/ Abandon(p)
      BY <3>1 DEF Next, vars
    <3>3. ~Begin(p) /\ ~Abandon(p)
      BY <3>1, BeginRows DEF Abandon
    <3>4. ~(\E s \in Tokens : LoginCommit(p, s) \/ RefreshRotate(p, s))
      BY <3>1 DEF LoginCommit, RefreshRotate
    <3>5. /\ ~(\E keep \in Tokens \cup {None} : ChangeCommit(p, keep))
          /\ ~ResetCommit(p)
      BY <3>1 DEF ChangeCommit, ResetCommit, PasswordCommit
    <3>6. /\ ~RefreshLoadUser(p) /\ ~RefreshReuse(p) /\ ~LogoutCommit(p)
          /\ ~RevokeCommit(p) /\ ~DeleteRevokeCommit(p)
      BY <3>1 DEF RefreshLoadUser, RefreshReuse, LogoutCommit, RevokeCommit, DeleteRevokeCommit
    <3>7. ~DisableCommit(p) /\ ~EnableCommit(p) /\ ~ActivateCommit(p)
          /\ ~UnblockCommit(p) /\ ~BlockCommit(p) /\ ~DeactivateCommit(p)
      BY <1>1, <1>3 DEF DisableCommit, EnableCommit, ActivateCommit, UnblockCommit,
         BlockCommit, DeactivateCommit, FlagCommit, TypeOK, Account
    <3>8. EraseCommit(p)
      BY <3>2, <3>3, <3>4, <3>5, <3>6, <3>7 DEF Commit
    <3> QED  BY <3>8, <1>1, <1>3 DEF EraseCommit, TypeOK, Account
  <2>2. tok'[t] = Gone \/ (tok'[t] = tok[t] /\ tok[t].owner # u)
    BY <2>1 DEF EraseCommit
  <2> QED  BY <2>2, <1>1 DEF Gone, Row
<1> QED  BY <1>2, <1>3

-----------------------------------------------------------------------------
(***************************************************************************)
(* Lockout.  For one user u the invariant reads: locked out means excused  *)
(* (a revocation is still to come, or was abandoned) or clean.             *)
(***************************************************************************)

Excused(u) == u \in lost \/ RevocationPending(u)

Clean(u) ==
    /\ \A t \in Tokens : tok[t].owner = u /\ tok[t].st = "live" => tok[t].escaped
    /\ \A p \in Procs : req[p].user = u /\ req[p].at \in {"login", "rotate"}
                            => req[p].escaped

\* The lockout invariant says that every locked-out user is excused or clean.
LEMMA LockoutPerUser ==
  ASSUME TypeOK, RequestsOK
  PROVE  MintsExcused /\ LockoutKillsSessions
            <=> \A u \in Users : LockedOutUser(u) => Excused(u) \/ Clean(u)
<1>1. ASSUME MintsExcused, LockoutKillsSessions, NEW u \in Users, LockedOutUser(u),
             ~Excused(u)
      PROVE  Clean(u)
  <2>1. ASSUME NEW t \in Tokens, tok[t].owner = u, tok[t].st = "live"
        PROVE  tok[t].escaped
    BY <1>1, <2>1 DEF LockoutKillsSessions, LiveOf, Live, Excused
  <2>2. ASSUME NEW p \in Procs, req[p].user = u, req[p].at \in {"login", "rotate"}
        PROVE  req[p].escaped
    BY <1>1, <2>2 DEF MintsExcused, Excused
  <2> QED  BY <2>1, <2>2 DEF Clean
<1>2. ASSUME \A u \in Users : LockedOutUser(u) => Excused(u) \/ Clean(u)
      PROVE  MintsExcused /\ LockoutKillsSessions
  <2>1. MintsExcused
    BY <1>2 DEF MintsExcused, Excused, Clean, RequestsOK
  <2>2. LockoutKillsSessions
    BY <1>2 DEF LockoutKillsSessions, LiveOf, Live, Excused, Clean
  <2> QED  BY <2>1, <2>2
<1> QED  BY <1>1, <1>2

\* A commit that revokes every token of u, or deletes them, leaves u clean.
LEMMA RevocationCleans ==
  ASSUME TypeOK, NEW p \in Procs, NEW u \in Users, NEW aged \in BOOLEAN,
         tok' = Revoked(u, None)
           \/ tok' = [t \in Tokens |-> IF tok[t].owner = u THEN Gone ELSE tok[t]],
         \A q \in Procs : req'[q].at \in {"login", "rotate"} =>
                              req'[q] = Overlapped(p, u, aged)[q]
  PROVE  Clean(u)'
<1>1. ASSUME NEW t \in Tokens
      PROVE  ~(tok'[t].owner = u /\ tok'[t].st = "live")
  <2>1. CASE tok' = Revoked(u, None)
    <3>1. tok'[t] = IF t \in LiveOf(u) /\ t # None THEN Spent(t) ELSE tok[t]
      BY <2>1 DEF Revoked
    <3> QED  BY <3>1, NoneIsFresh DEF LiveOf, Live, Spent, Row
  <2>2. CASE tok' = [s \in Tokens |-> IF tok[s].owner = u THEN Gone ELSE tok[s]]
    BY <2>2 DEF Gone, Row
  <2> QED  BY <2>1, <2>2
<1>2. ASSUME NEW q \in Procs, req'[q].user = u, req'[q].at \in {"login", "rotate"}
      PROVE  req'[q].escaped
  <2>1. req'[q] = Overlapped(p, u, aged)[q]
    BY <1>2
  <2>2. q # p /\ req[q].user = u
    BY <1>2, <2>1 DEF Overlapped, Idle, Handling
  <2> QED  BY <2>1, <2>2 DEF Overlapped, Handling
<1> QED  BY <1>1, <1>2 DEF Clean

\* Every commit that forgives an abandoned revocation revokes everything itself,
\* and so does RevokeCommit.
LEMMA ForgivingCleans ==
  ASSUME TypeOK, RequestsOK, NEW p \in Procs, NEW u \in Users,
         Commit(p) \/ Abandon(p),
         (u \in lost /\ u \notin lost') \/ (RevokeCommit(p) /\ req[p].user = u)
  PROVE  Clean(u)'
<1>1. CASE RevokeCommit(p) /\ req[p].user = u
  BY <1>1, RevocationCleans DEF RevokeCommit, RevokeAndFinish
<1>2. CASE u \in lost /\ u \notin lost'
  <2>1. ~Abandon(p) /\ ~(\E t \in Tokens : LoginCommit(p, t) \/ RefreshRotate(p, t))
    BY <1>2 DEF Abandon, LoginCommit, RefreshRotate
  <2>2. /\ ~RefreshLoadUser(p) /\ ~LogoutCommit(p) /\ ~BlockCommit(p)
        /\ ~DeactivateCommit(p) /\ ~EnableCommit(p) /\ ~ActivateCommit(p)
        /\ ~UnblockCommit(p)
    BY <1>2 DEF RefreshLoadUser, LogoutCommit, BlockCommit, DeactivateCommit,
       EnableCommit, ActivateCommit, UnblockCommit, FlagCommit
  <2>3. CASE RefreshReuse(p) \/ RevokeCommit(p) \/ DisableCommit(p)
    <3>1. u = req[p].user /\ tok' = Revoked(u, None) /\ req' = Overlapped(p, u, FALSE)
      BY <1>2, <2>3 DEF RefreshReuse, RevokeCommit, DisableCommit, RevokeAndFinish
    <3> QED  BY <3>1, RevocationCleans
  <2>4. ASSUME NEW keep, PasswordCommit(p, keep)
        PROVE  Clean(u)'
    <3>1. u = req[p].user /\ tok' = Revoked(u, None) /\ req' = Overlapped(p, u, TRUE)
      BY <1>2, <2>4, NothingAged DEF PasswordCommit
    <3> QED  BY <3>1, RevocationCleans
  <2>5. CASE DeleteRevokeCommit(p)
    <3>1. /\ u = req[p].user /\ tok' = Revoked(u, None)
          /\ req' = [Overlapped(p, u, FALSE) EXCEPT ![p] = [req[p] EXCEPT !.at = "erase"]]
      BY <1>2, <2>5 DEF DeleteRevokeCommit
    <3>2. Overlapped(p, u, FALSE) \in [Procs -> Request]
      BY OverlappedType
    <3>3. req'[p].at = "erase"
      BY <3>1, <3>2 DEF TypeOK, Request
    <3>4. \A q \in Procs : req'[q].at \in {"login", "rotate"} =>
                               req'[q] = Overlapped(p, u, FALSE)[q]
      BY <3>1, <3>2, <3>3
    <3> QED  BY <3>1, <3>4, RevocationCleans
  <2>6. CASE EraseCommit(p)
    <3>1. /\ u = req[p].user /\ req' = Overlapped(p, u, FALSE)
          /\ tok' = [t \in Tokens |-> IF tok[t].owner = u THEN Gone ELSE tok[t]]
      BY <1>2, <2>6 DEF EraseCommit
    <3> QED  BY <3>1, RevocationCleans
  <2> QED
    BY <2>1, <2>2, <2>3, <2>4, <2>5, <2>6 DEF Commit, ChangeCommit, ResetCommit
<1> QED  BY <1>1, <1>2

\* A request about to revoke does so or gives up.
LEMMA PendingStep ==
  ASSUME NEW p \in Procs, req[p].at = "revokeAll", Commit(p) \/ Abandon(p)
  PROVE  RevokeCommit(p) \/ Abandon(p)
<1> USE DEF At
<1>1. ~(\E t \in Tokens : LoginCommit(p, t) \/ RefreshRotate(p, t))
  BY DEF LoginCommit, RefreshRotate
<1>2. ~(\E keep \in Tokens \cup {None} : ChangeCommit(p, keep)) /\ ~ResetCommit(p)
  BY DEF ChangeCommit, ResetCommit
<1>3. /\ ~RefreshLoadUser(p) /\ ~RefreshReuse(p) /\ ~LogoutCommit(p)
      /\ ~BlockCommit(p) /\ ~DeactivateCommit(p) /\ ~DisableCommit(p)
      /\ ~EnableCommit(p) /\ ~ActivateCommit(p) /\ ~UnblockCommit(p)
      /\ ~DeleteRevokeCommit(p) /\ ~EraseCommit(p)
  BY DEF RefreshLoadUser, RefreshReuse, LogoutCommit, BlockCommit, DeactivateCommit,
     DisableCommit, EnableCommit, ActivateCommit, UnblockCommit, DeleteRevokeCommit,
     EraseCommit
<1> QED  BY <1>1, <1>2, <1>3 DEF Commit

\* An excuse of u lasts until a revocation leaves u clean.
LEMMA ExcusedStep ==
  ASSUME TypeOK, RowsOK, RequestsOK, StaleIsEscaped, Next, NEW u \in Users, Excused(u)
  PROVE  Excused(u)' \/ Clean(u)'
<1> PICK p \in Procs :
       /\ \/ req[p] = Idle /\ Started(p) /\ UNCHANGED <<acct, tok, lost>>
          \/ Advanced(p) /\ (Commit(p) \/ Abandon(p))
       /\ \A q \in Procs \ {p} : Carried(q)
  BY NextRequests
<1>1. CASE u \in lost
  <2>1. CASE u \in lost'
    BY <2>1 DEF Excused
  <2>2. CASE u \notin lost'
    <3>1. Commit(p) \/ Abandon(p)
      BY <1>1, <2>2
    <3>2. (u \in lost /\ u \notin lost') \/ (RevokeCommit(p) /\ req[p].user = u)
      BY <1>1, <2>2
    <3>3. Clean(u)'
      BY <3>1, <3>2, ForgivingCleans
    <3> QED  BY <3>3
  <2> QED  BY <2>1, <2>2
<1>2. CASE RevocationPending(u)
  <2>1. PICK q \in Procs : req[q].user = u /\ req[q].at = "revokeAll"
    BY <1>2 DEF RevocationPending, At
  <2>2. CASE q # p
    BY <2>1, <2>2 DEF Carried, Excused, RevocationPending, At
  <2>3. CASE q = p
    <3>1. RevokeCommit(p) \/ Abandon(p)
      BY <2>1, <2>3, PendingStep DEF Idle, Handling
    <3>2. CASE RevokeCommit(p)
      <4>1. Commit(p)
        BY <3>2 DEF Commit
      <4> QED  BY <2>1, <2>3, <3>2, <4>1, ForgivingCleans
    <3>3. CASE Abandon(p)
      BY <2>1, <2>3, <3>3 DEF Abandon, At, Excused
    <3> QED  BY <3>1, <3>2, <3>3
  <2> QED  BY <2>2, <2>3
<1> QED  BY <1>1, <1>2 DEF Excused

\* A clean user who is locked out stays clean.
LEMMA CleanStep ==
  ASSUME TypeOK, RowsOK, RequestsOK, StaleIsEscaped, Next,
         NEW u \in Users, LockedOutUser(u), Clean(u)
  PROVE  Clean(u)'
<1>1. ASSUME NEW t \in Tokens, tok'[t].owner = u, tok'[t].st = "live"
      PROVE  tok'[t].escaped
  <2>1. CASE Strike
    BY <1>1, <2>1 DEF Strike, Spent, Gone, Row, Clean
  <2>2. ASSUME NEW p \in Procs, NEW s \in Tokens, Insert(p, s)
        PROVE  tok'[t].escaped
    <3>1. CASE t = s
      BY <1>1, <2>2, <3>1 DEF Insert, Minted, Row, Clean, TypeOK
    <3>2. CASE t # s
      BY <1>1, <2>2, <3>2 DEF Insert, Minted, Spent, Row, Clean, TypeOK
    <3> QED  BY <3>1, <3>2
  <2> QED  BY <2>1, <2>2, NextRows
<1>2. ASSUME NEW q \in Procs, req'[q].user = u, req'[q].at \in {"login", "rotate"}
      PROVE  req'[q].escaped
  <2> PICK p \in Procs :
         /\ \/ req[p] = Idle /\ Started(p) /\ UNCHANGED <<acct, tok, lost>>
            \/ Advanced(p) /\ (Commit(p) \/ Abandon(p))
         /\ \A r \in Procs \ {p} : Carried(r)
    BY NextRequests
  <2>1. CASE q # p
    BY <1>2, <2>1 DEF Carried, Clean
  <2>2. CASE q = p
    BY <1>2, <2>2 DEF Started, Advanced, LockedOutUser, Idle, Handling
  <2> QED  BY <2>1, <2>2
<1> QED  BY <1>1, <1>2 DEF Clean

\* A step that locks u out is the first half of a block or a deactivation, or a
\* disable, which revokes in the same commit.
LEMMA LockingStep ==
  ASSUME TypeOK, RequestsOK, Next, NEW u \in Users,
         ~LockedOutUser(u), LockedOutUser(u)'
  PROVE  Excused(u)' \/ Clean(u)'
<1>1. acct' # acct
  BY DEF LockedOutUser, Accessible
<1> PICK p \in Procs : Begin(p) \/ Commit(p) \/ Abandon(p)
  BY DEF Next
<1>2. ~Begin(p) /\ ~Abandon(p)
  BY <1>1, BeginRows DEF Abandon
<1>3. ~(\E t \in Tokens : LoginCommit(p, t) \/ RefreshRotate(p, t))
  BY <1>1 DEF LoginCommit, RefreshRotate
<1>4. ~(\E keep \in Tokens \cup {None} : ChangeCommit(p, keep)) /\ ~ResetCommit(p)
  BY <1>1 DEF ChangeCommit, ResetCommit, PasswordCommit
<1>5. /\ ~RefreshLoadUser(p) /\ ~RefreshReuse(p) /\ ~LogoutCommit(p)
      /\ ~RevokeCommit(p) /\ ~DeleteRevokeCommit(p)
  BY <1>1 DEF RefreshLoadUser, RefreshReuse, LogoutCommit, RevokeCommit, DeleteRevokeCommit
<1>6. ~EnableCommit(p) /\ ~ActivateCommit(p) /\ ~UnblockCommit(p) /\ ~EraseCommit(p)
  <2>1. acct \in [Users -> Account] /\ acct[u].active /\ ~acct[u].blocked
        /\ (acct'[u].blocked \/ ~acct'[u].active)
    BY DEF TypeOK, LockedOutUser, Accessible
  <2>2. ~EnableCommit(p) /\ ~ActivateCommit(p)
    BY <2>1 DEF EnableCommit, ActivateCommit, FlagCommit, Account
  <2>3. ~UnblockCommit(p)
    BY <2>1 DEF UnblockCommit, FlagCommit, Account
  <2>4. ~EraseCommit(p)
    BY <2>1 DEF EraseCommit, Account
  <2> QED  BY <2>2, <2>3, <2>4
<1>7. CASE BlockCommit(p) \/ DeactivateCommit(p)
  <2>1. req[p].user = u
    BY <1>7 DEF BlockCommit, DeactivateCommit, FlagCommit, LockedOutUser, Accessible,
       TypeOK, Account
  <2>2. req' = [req EXCEPT ![p] = [req[p] EXCEPT !.at = "revokeAll"]]
    BY <1>7 DEF BlockCommit, DeactivateCommit, FlagCommit
  <2>3. req'[p].user = u /\ req'[p].at = "revokeAll"
    BY <2>1, <2>2 DEF TypeOK, Request
  <2> QED  BY <2>3 DEF Excused, RevocationPending, At
<1>8. CASE DisableCommit(p)
  <2>1. req[p].user = u
    BY <1>8 DEF DisableCommit, LockedOutUser, Accessible, TypeOK, Account
  <2>2. tok' = Revoked(u, None) /\ req' = Overlapped(p, u, FALSE)
    BY <2>1, <1>8 DEF DisableCommit, RevokeAndFinish
  <2> QED  BY <2>2, RevocationCleans
<1> QED
  BY <1>2, <1>3, <1>4, <1>5, <1>6, <1>7, <1>8 DEF Commit

\* A step after which u is locked out leaves u excused or clean.
LEMMA LockoutStep ==
  ASSUME TypeOK, RowsOK, RequestsOK, StaleIsEscaped, Next,
         NEW u \in Users, LockedOutUser(u) => Excused(u) \/ Clean(u),
         LockedOutUser(u)'
  PROVE  Excused(u)' \/ Clean(u)'
BY ExcusedStep, CleanStep, LockingStep

-----------------------------------------------------------------------------
\* The invariant holds initially.
LEMMA InitIInv == Init => IInv
<1> SUFFICES ASSUME Init PROVE IInv
  OBVIOUS
<1>1. TypeOK
  BY InitType
<1>2. \A t \in Tokens : /\ tok[t].st = "unborn" /\ tok[t].parent = None
                         /\ tok[t].owner = None /\ ~tok[t].stale
  BY DEF Init, Unborn, Row
<1>3. \A p \in Procs : req[p].at = "idle" /\ ~req[p].stale
  BY DEF Init, Idle, Handling
<1>4. RowsOK /\ StaleIsEscaped /\ LockoutKillsSessions /\ NoOrphanTokens
  BY <1>2, <1>3 DEF RowsOK, StaleIsEscaped, LockoutKillsSessions, NoOrphanTokens,
     LiveOf, Live
<1>5. RequestsOK /\ MintsExcused
  BY <1>3 DEF RequestsOK, MintsExcused, TokenLabels
<1> QED  BY <1>1, <1>4, <1>5 DEF IInv

\* The invariant is inductive.
LEMMA NextIInv == IInv /\ [Next]_vars => IInv'
<1> SUFFICES ASSUME IInv, [Next]_vars PROVE IInv'
  OBVIOUS
<1> USE DEF IInv
<1>1. TypeOK' /\ RowsOK' /\ RequestsOK' /\ StaleIsEscaped' /\ NoOrphanTokens'
  BY TypeStep, RowsStep, RequestsStep, StaleStep, OrphanStep
<1>2. CASE UNCHANGED vars
  BY <1>2, <1>1 DEF vars, MintsExcused, LockoutKillsSessions, LiveOf, Live,
     LockedOutUser, Accessible, RevocationPending, At
<1>3. CASE Next
  <2>1. \A u \in Users : LockedOutUser(u) => Excused(u) \/ Clean(u)
    BY LockoutPerUser
  <2>2. ASSUME NEW u \in Users, LockedOutUser(u)'
        PROVE  Excused(u)' \/ Clean(u)'
    BY <1>3, <2>1, <2>2, LockoutStep
  <2>3. (MintsExcused /\ LockoutKillsSessions)'
    <3>1. (TypeOK /\ RequestsOK => (MintsExcused /\ LockoutKillsSessions
              <=> \A u \in Users : LockedOutUser(u) => Excused(u) \/ Clean(u)))'
      BY LockoutPerUser, PTL
    <3> QED  BY <1>1, <2>2, <3>1
  <2> QED  BY <1>1, <2>3
<1> QED  BY <1>2, <1>3

\* The inductive invariant holds in every state.
THEOREM Invariant == Spec => []IInv
BY InitIInv, NextIInv, PTL DEF Spec

\* Every row, request and account keeps its type, whatever requests do together.
THEOREM TypeCorrect == Spec => []TypeOK
<1>1. IInv => TypeOK
  BY DEF IInv
<1> QED  BY <1>1, Invariant, PTL

\* Rotation spends the token it is given: no token with a successor is valid.
THEOREM Exchange == Spec => []ExchangedIsSpent
<1>1. IInv => ExchangedIsSpent
  BY SpentIsExchanged DEF IInv
<1> QED  BY <1>1, Invariant, PTL

\* A locked-out user's valid tokens are pending revocation, were left behind by an
\* abandoned one, or were minted across one.
THEOREM Lockout == Spec => []LockoutKillsSessions
<1>1. IInv => LockoutKillsSessions
  BY DEF IInv
<1> QED  BY <1>1, Invariant, PTL

\* A session older than the password is spared by the change or was minted across it.
THEOREM PasswordChange == Spec => []OldPasswordSessions
<1>1. IInv => OldPasswordSessions
  BY StaleIsOldPassword DEF IInv
<1> QED  BY <1>1, Invariant, PTL

\* A deleted account has no valid token.
THEOREM Deletion == Spec => []NoOrphanTokens
<1>1. IInv => NoOrphanTokens
  BY DEF IInv
<1> QED  BY <1>1, Invariant, PTL

\* No step makes a revoked or deleted token valid again or rewrites a valid one.
THEOREM FinalRevocation == Spec => RevocationIsFinal
<1>1. ASSUME IInv, [Next]_vars, NEW t \in Tokens
      PROVE  /\ tok[t].st \in {"revoked", "gone"} => tok'[t].st \in {"revoked", "gone"}
             /\ Live(t) /\ Live(t)' => tok'[t] = tok[t]
  <2>1. CASE Strike
    BY <2>1 DEF Strike, Spent, Gone, Row, Live
  <2>2. ASSUME NEW p \in Procs, NEW s \in Tokens, Insert(p, s)
        PROVE  /\ tok[t].st \in {"revoked", "gone"} => tok'[t].st \in {"revoked", "gone"}
               /\ Live(t) /\ Live(t)' => tok'[t] = tok[t]
    BY <2>2, <1>1 DEF Insert, Minted, Spent, Row, Live, IInv, TypeOK
  <2> QED  BY <1>1, <2>1, <2>2, NextRows DEF IInv
<1>2. IInv /\ [Next]_vars =>
        [\A t \in Tokens :
          /\ tok[t].st \in {"revoked", "gone"} => tok'[t].st \in {"revoked", "gone"}
          /\ Live(t) /\ Live(t)' => tok'[t] = tok[t]]_vars
  BY <1>1
<1> QED  BY <1>2, Invariant, PTL DEF Spec, RevocationIsFinal

\* With no request past its account check, a locked-out user gains no valid token.
THEOREM LockedOutShrinks == Spec => LockedOutOnlyShrinks
<1>1. ASSUME IInv, [Next]_vars, NEW u \in Users, ~CheckedMint(u)
      PROVE  LiveOf(u)' \subseteq LiveOf(u)
  <2>1. CASE Strike
    BY <2>1 DEF Strike, Spent, Gone, Row, Live, LiveOf
  <2>2. ASSUME NEW p \in Procs, NEW s \in Tokens, Insert(p, s)
        PROVE  LiveOf(u)' \subseteq LiveOf(u)
    <3>1. req[p].user # u
      BY <1>1, <2>2 DEF Insert, CheckedMint
    <3>2. ASSUME NEW t \in Tokens, tok'[t].owner = u, tok'[t].st = "live"
          PROVE  tok[t].owner = u /\ tok[t].st = "live"
      BY <1>1, <2>2, <3>1, <3>2 DEF Insert, Minted, Spent, Row, IInv, TypeOK
    <3> QED  BY <3>2 DEF LiveOf, Live
  <2> QED  BY <1>1, <2>1, <2>2, NextRows DEF IInv
<1>2. IInv /\ [Next]_vars =>
        [\A u \in Users :
            LockedOutUser(u) /\ ~CheckedMint(u) => LiveOf(u)' \subseteq LiveOf(u)]_vars
  BY <1>1
<1> QED  BY <1>2, Invariant, PTL DEF Spec, LockedOutOnlyShrinks
=============================================================================
