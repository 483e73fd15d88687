---------------------------- MODULE AuthSessions ----------------------------
(***************************************************************************)
(* Refresh-token sessions of the auth service: login, refresh with         *)
(* rotation and reuse detection, logout, password change and reset, admin  *)
(* block and deactivate, self disable, enable, and account deletion.       *)
(*                                                                         *)
(* Every handler is a synchronous function run in a thread pool over       *)
(* PostgreSQL at READ COMMITTED, so a handler is a sequence of steps: the  *)
(* reads its checks use, then each transaction it commits.  Steps of       *)
(* different requests interleave.  Early returns that change nothing are   *)
(* the absence of a step; a database error, a lost connection or a crash   *)
(* between two steps is Abandon.                                           *)
(*                                                                         *)
(* Outside this module: the user-state cache the handlers invalidate last  *)
(* and the password-reset link table.                                      *)
(***************************************************************************)
EXTENDS Naturals, FiniteSets

CONSTANTS
    Users,        \* accounts that exist at the start
    Admins,       \* the users whose role is ADMIN or SUPER_ADMIN
    Procs,        \* concurrent requests
    Tokens,       \* refresh-token rows; bounds how many are ever minted
    None,         \* no user, no token
    KeepCurrent   \* settings.change_password_keep_current_session

ASSUME AdminsAreUsers == Admins \subseteq Users
ASSUME NoneIsFresh == None \notin Users /\ None \notin Tokens
ASSUME KeepIsFlag == KeepCurrent \in BOOLEAN

VARIABLES
    acct,   \* [Users -> row of users]: exists, is_active, is_blocked
    tok,    \* [Tokens -> row of refresh_tokens], with ghost fields
    req,    \* [Procs -> the request being handled]
    lost    \* ghost: users whose revocation was abandoned half way

vars == <<acct, tok, req, lost>>

Account == [exists : BOOLEAN, active : BOOLEAN, blocked : BOOLEAN]

\* st: no row yet, is_revoked = false, is_revoked = true, row deleted.
\* Ghosts of a live row: escaped - its session went through a request that
\* overlapped a revocation of all the user's tokens; stale - the password
\* changed after the session's credentials were checked, and the change did
\* not spare it.
Token == [st : {"unborn", "live", "revoked", "gone"},
          owner : Users \cup {None}, parent : Tokens \cup {None},
          escaped : BOOLEAN, stale : BOOLEAN]

UserLabels  == {"login", "change", "reset", "block", "deactivate", "revokeAll",
                "disable", "enable", "unblock", "activate",
                "deleteSelf", "erase", "deleteAdmin"}
TokenLabels == {"lookup", "rotate", "reuse", "logout"}

\* at: the step the request takes next.  escaped, stale: the ghosts a token
\* minted by this request will have.
Request == [at : {"idle"} \cup UserLabels \cup TokenLabels,
            user : Users \cup {None}, token : Tokens \cup {None},
            escaped : BOOLEAN, stale : BOOLEAN]

Handling(label, user, token, escaped, stale) ==
    [at |-> label, user |-> user, token |-> token,
     escaped |-> escaped, stale |-> stale]

Idle == Handling("idle", None, None, FALSE, FALSE)

Row(st, owner, parent, escaped, stale) ==
    [st |-> st, owner |-> owner, parent |-> parent,
     escaped |-> escaped, stale |-> stale]

Unborn == Row("unborn", None, None, FALSE, FALSE)
Gone   == Row("gone", None, None, FALSE, FALSE)

Init ==
    /\ acct = [u \in Users |-> [exists |-> TRUE, active |-> TRUE, blocked |-> FALSE]]
    /\ tok  = [t \in Tokens |-> Unborn]
    /\ req  = [p \in Procs |-> Idle]
    /\ lost = {}

-----------------------------------------------------------------------------
(* Helpers *)

Accessible(u) == ~acct[u].blocked /\ acct[u].active   \* _ensure_account_accessible

Live(t) == tok[t].st = "live"
LiveOf(u) == {t \in Tokens : tok[t].owner = u /\ Live(t)}

\* The request p reads u's row, passes its checks and goes on to step "label".
Admit(p, u, label) ==
    /\ req[p] = Idle
    /\ acct[u].exists
    /\ req' = [req EXCEPT ![p] = Handling(label, u, None, FALSE, FALSE)]
    /\ UNCHANGED <<acct, tok, lost>>

At(p, label) == req[p].at = label

Done(p) == req' = [req EXCEPT ![p] = Idle]

\* Mutant of Spent: the row gets the status word of the link tables.
SpentAsUsed(t) == Row("used", tok[t].owner, tok[t].parent, FALSE, FALSE)

Spent(t) == Row("revoked", tok[t].owner, tok[t].parent, FALSE, FALSE)

\* revoke_all_tokens and revoke_all_tokens_except: UPDATE ... WHERE user_id = u
\* AND NOT is_revoked [AND token <> keep].
Revoked(u, keep) ==
    [t \in Tokens |-> IF t \in LiveOf(u) /\ t # keep
                      THEN Spent(t) ELSE tok[t]]

\* The request p ends; ghost: the others in flight for u have now overlapped
\* a revocation (and, if aged, a change of the password they rest on).
Overlapped(p, u, aged) ==
    [q \in Procs |->
        IF q = p THEN Idle
        ELSE IF req[q].user # u THEN req[q]
        ELSE Handling(req[q].at, u, req[q].token, TRUE, aged \/ req[q].stale)]

\* The commit of p that revokes every session of its user and ends p.
RevokeAndFinish(p) ==
    /\ tok' = Revoked(req[p].user, None)
    /\ req' = Overlapped(p, req[p].user, FALSE)
    /\ lost' = lost \ {req[p].user}

\* INSERT of a row by request p, in exchange for old if it rotates.
Minted(p, old) == Row("live", req[p].user, old, req[p].escaped, req[p].stale)

-----------------------------------------------------------------------------
(* login: verify the password and the account, then INSERT the token.  The *)
(* admin login is the same handler with one more check on the role.        *)

LoginRead(p, u) == Accessible(u) /\ Admit(p, u, "login")

\* Mutant of LoginCommit: no foreign key, the user may be gone.
LoginWithoutForeignKey(p, t) ==
    /\ At(p, "login")
    /\ tok[t].st = "unborn"
    /\ tok' = [tok EXCEPT ![t] = Minted(p, None)]
    /\ Done(p)
    /\ UNCHANGED <<acct, lost>>

LoginCommit(p, t) ==
    /\ At(p, "login")
    /\ acct[req[p].user].exists          \* foreign key user_id -> users.id
    /\ tok[t].st = "unborn"
    /\ tok' = [tok EXCEPT ![t] = Minted(p, None)]
    /\ Done(p)
    /\ UNCHANGED <<acct, lost>>

-----------------------------------------------------------------------------
(* refresh: look the token up; a revoked one revokes the family; else load *)
(* the user, check it, and rotate.  rotate_token re-reads the old row, but *)
(* the session's identity map returns the object loaded by the lookup, so  *)
(* is_revoked is not examined again and the UPDATE is by primary key.  An  *)
(* expired token is one for which RefreshLookup is not taken.              *)

LookUp(p, t, label) ==
    /\ req[p] = Idle
    /\ req' = [req EXCEPT ![p] = Handling(label, tok[t].owner, t,
                                          tok[t].escaped, tok[t].stale)]
    /\ UNCHANGED <<acct, tok, lost>>

RefreshLookup(p, t) == Live(t) /\ LookUp(p, t, "lookup")

RefreshLookupRevoked(p, t) == tok[t].st = "revoked" /\ LookUp(p, t, "reuse")

RefreshReuse(p) == At(p, "reuse") /\ RevokeAndFinish(p) /\ UNCHANGED acct

RefreshLoadUser(p) ==
    /\ At(p, "lookup")
    /\ acct[req[p].user].exists
    /\ Accessible(req[p].user)
    /\ req' = [req EXCEPT ![p].at = "rotate"]
    /\ UNCHANGED <<acct, tok, lost>>

\* Mutant of RefreshRotate: the presented token is not revoked.
RotateKeepsOld(p, t) ==
    /\ At(p, "rotate")
    /\ tok[req[p].token].st # "gone"
    /\ acct[req[p].user].exists
    /\ tok[t].st = "unborn"
    /\ tok' = [tok EXCEPT ![t] = Minted(p, req[p].token)]
    /\ Done(p)
    /\ UNCHANGED <<acct, lost>>

\* Mutant of RefreshRotate: rotates before the account is checked.
RotateBeforeCheck(p, t) ==
    /\ req[p].at \in {"lookup", "rotate"}
    /\ tok[req[p].token].st # "gone"
    /\ acct[req[p].user].exists
    /\ tok[t].st = "unborn"
    /\ tok' = [tok EXCEPT ![req[p].token] = Spent(req[p].token),
                          ![t] = Minted(p, req[p].token)]
    /\ Done(p)
    /\ UNCHANGED <<acct, lost>>

RefreshRotate(p, t) ==
    /\ At(p, "rotate")
    /\ tok[req[p].token].st # "gone"     \* else RecordNotFoundError
    /\ acct[req[p].user].exists
    /\ tok[t].st = "unborn"
    /\ tok' = [tok EXCEPT ![req[p].token] = Spent(req[p].token),
                          ![t] = Minted(p, req[p].token)]
    /\ Done(p)
    /\ UNCHANGED <<acct, lost>>

-----------------------------------------------------------------------------
(* logout: nothing to do for a revoked token, else revoke it. *)

LogoutLookup(p, t) == Live(t) /\ LookUp(p, t, "logout")

\* Mutant of LogoutCommit: flips is_revoked, so two logouts restore the token.
LogoutToggles(p) ==
    /\ At(p, "logout")
    /\ tok[req[p].token].st # "gone"
    /\ tok' = [tok EXCEPT ![req[p].token].st =
                             IF @ = "revoked" THEN "live" ELSE "revoked"]
    /\ Done(p)
    /\ UNCHANGED <<acct, lost>>

LogoutCommit(p) ==
    /\ At(p, "logout")
    /\ tok[req[p].token].st # "gone"
    /\ tok' = [tok EXCEPT ![req[p].token] = Spent(req[p].token)]
    /\ Done(p)
    /\ UNCHANGED <<acct, lost>>

-----------------------------------------------------------------------------
(* change_password and reset_password: one transaction writes the password *)
(* and revokes the sessions, all of them or all but the presented one.     *)

ChangeRead(p, u) == Accessible(u) /\ Admit(p, u, "change")
ResetRead(p, u) == Admit(p, u, "reset")

\* Ghost: of the rows after a password change, those that were valid before it,
\* still are, and were not spared rest on the old password.
Aged(rows, u, keep) ==
    [t \in Tokens |-> IF t \in LiveOf(u) /\ t # keep /\ rows[t].st = "live"
                      THEN [rows[t] EXCEPT !.stale = TRUE] ELSE rows[t]]

\* Mutant of PasswordCommit: the sessions are not revoked.
PasswordKeepsTokens(p, keep) ==
    /\ acct[req[p].user].exists
    /\ tok' = Aged(tok, req[p].user, keep)
    /\ req' = Overlapped(p, req[p].user, TRUE)
    /\ UNCHANGED <<acct, lost>>

PasswordCommit(p, keep) ==
    /\ acct[req[p].user].exists          \* update_user: RecordNotFoundError
    /\ tok' = Aged(Revoked(req[p].user, keep), req[p].user, keep)
    /\ req' = Overlapped(p, req[p].user, TRUE)
    /\ lost' = IF keep = None THEN lost \ {req[p].user} ELSE lost
    /\ UNCHANGED acct

\* _revoke_sessions: the presented token is spared only if the setting is on
\* and it is a live token of this user.
ChangeCommit(p, keep) ==
    /\ At(p, "change")
    /\ keep # None => KeepCurrent /\ keep \in LiveOf(req[p].user)
    /\ PasswordCommit(p, keep)

ResetCommit(p) == At(p, "reset") /\ PasswordCommit(p, None)

-----------------------------------------------------------------------------
(* Admin block and deactivate: the flag and the revocation are committed   *)
(* by two transactions.  Administrator accounts are refused.               *)

BlockRead(p, u) ==
    u \notin Admins /\ ~acct[u].blocked /\ Admit(p, u, "block")

DeactivateRead(p, u) ==
    u \notin Admins /\ acct[u].active /\ Admit(p, u, "deactivate")

FlagCommit(p, row, label) ==
    /\ acct[req[p].user].exists
    /\ acct' = [acct EXCEPT ![req[p].user] = row]
    /\ req' = [req EXCEPT ![p] = IF label = "idle" THEN Idle
                                 ELSE [req[p] EXCEPT !.at = label]]
    /\ UNCHANGED <<tok, lost>>

BlockCommit(p) ==
    At(p, "block") /\ FlagCommit(p, [acct[req[p].user] EXCEPT !.blocked = TRUE], "revokeAll")

DeactivateCommit(p) ==
    At(p, "deactivate") /\ FlagCommit(p, [acct[req[p].user] EXCEPT !.active = FALSE], "revokeAll")

RevokeCommit(p) == At(p, "revokeAll") /\ RevokeAndFinish(p) /\ UNCHANGED acct

-----------------------------------------------------------------------------
(* disable_account: flag and revocation in one transaction. *)

DisableRead(p, u) == Accessible(u) /\ Admit(p, u, "disable")

\* Mutant of DisableCommit: the tokens are not revoked.
DisableKeepsTokens(p) ==
    /\ At(p, "disable")
    /\ acct[req[p].user].exists
    /\ acct' = [acct EXCEPT ![req[p].user].active = FALSE]
    /\ req' = Overlapped(p, req[p].user, FALSE)
    /\ UNCHANGED <<tok, lost>>

DisableCommit(p) ==
    /\ At(p, "disable")
    /\ acct[req[p].user].exists
    /\ acct' = [acct EXCEPT ![req[p].user].active = FALSE]
    /\ RevokeAndFinish(p)

-----------------------------------------------------------------------------
(* enable_account, unblock_user and activate_user restore access; none of  *)
(* them touches a token.                                                   *)

EnableRead(p, u) == ~acct[u].blocked /\ ~acct[u].active /\ Admit(p, u, "enable")
ActivateRead(p, u) == ~acct[u].active /\ Admit(p, u, "activate")
UnblockRead(p, u) == acct[u].blocked /\ Admit(p, u, "unblock")

EnableCommit(p) ==
    At(p, "enable") /\ FlagCommit(p, [acct[req[p].user] EXCEPT !.active = TRUE], "idle")
ActivateCommit(p) ==
    At(p, "activate") /\ FlagCommit(p, [acct[req[p].user] EXCEPT !.active = TRUE], "idle")
UnblockCommit(p) ==
    At(p, "unblock") /\ FlagCommit(p, [acct[req[p].user] EXCEPT !.blocked = FALSE], "idle")

-----------------------------------------------------------------------------
(* delete_account: revoke_all_tokens is left pending, but the next call,   *)
(* EmailVerificationRepository.invalidate_unused_tokens, commits it; the   *)
(* row is deleted by a later transaction.  The admin delete has one.       *)
(* Deleting the row deletes its tokens (ON DELETE CASCADE).                *)

DeleteRead(p, u) == Accessible(u) /\ Admit(p, u, "deleteSelf")

DeleteRevokeCommit(p) ==
    /\ At(p, "deleteSelf")
    /\ tok' = Revoked(req[p].user, None)
    /\ req' = [Overlapped(p, req[p].user, FALSE) EXCEPT ![p] = [req[p] EXCEPT !.at = "erase"]]
    /\ lost' = lost \ {req[p].user}
    /\ UNCHANGED acct

AdminDeleteRead(p, u) == u \notin Admins /\ Admit(p, u, "deleteAdmin")

EraseCommit(p) ==
    /\ req[p].at \in {"erase", "deleteAdmin"}
    /\ acct[req[p].user].exists
    /\ acct' = [acct EXCEPT ![req[p].user].exists = FALSE]
    /\ tok' = [t \in Tokens |-> IF tok[t].owner = req[p].user
                                THEN Gone ELSE tok[t]]
    /\ req' = Overlapped(p, req[p].user, FALSE)
    /\ lost' = lost \ {req[p].user}

-----------------------------------------------------------------------------
(* A check fails, the database refuses a commit (rollback), or the process *)
(* dies: the request ends where it is, keeping what it already committed.  *)

Abandon(p) ==
    /\ req[p] # Idle
    /\ Done(p)
    /\ lost' = IF At(p, "revokeAll") THEN lost \cup {req[p].user} ELSE lost
    /\ UNCHANGED <<acct, tok>>

-----------------------------------------------------------------------------
Begin(p) ==
    \/ \E u \in Users : \/ LoginRead(p, u)      \/ ChangeRead(p, u)
                        \/ ResetRead(p, u)      \/ BlockRead(p, u)
                        \/ DeactivateRead(p, u) \/ DisableRead(p, u)
                        \/ EnableRead(p, u)     \/ ActivateRead(p, u)
                        \/ UnblockRead(p, u)    \/ DeleteRead(p, u)
                        \/ AdminDeleteRead(p, u)
    \/ \E t \in Tokens : \/ RefreshLookup(p, t) \/ RefreshLookupRevoked(p, t)
                         \/ LogoutLookup(p, t)

Commit(p) ==
    \/ \E t \in Tokens : LoginCommit(p, t) \/ RefreshRotate(p, t)
    \/ \E keep \in Tokens \cup {None} : ChangeCommit(p, keep)
    \/ RefreshLoadUser(p) \/ RefreshReuse(p)  \/ LogoutCommit(p)
    \/ ResetCommit(p)     \/ BlockCommit(p)   \/ DeactivateCommit(p)
    \/ RevokeCommit(p)    \/ DisableCommit(p) \/ EnableCommit(p)
    \/ ActivateCommit(p)  \/ UnblockCommit(p) \/ DeleteRevokeCommit(p)
    \/ EraseCommit(p)

Next == \E p \in Procs : Begin(p) \/ Commit(p) \/ Abandon(p)

Spec == Init /\ [][Next]_vars

-----------------------------------------------------------------------------
(* Properties *)

\* Rows, requests and ghosts have the shape the code gives them.
TypeOK ==
    /\ acct \in [Users -> Account]
    /\ tok \in [Tokens -> Token]
    /\ req \in [Procs -> Request]
    /\ lost \subseteq Users

\* A refresh token that was exchanged is spent: no token with a successor is
\* valid, whatever requests rotate, revoke or expire around it (rotate_token).
ExchangedIsSpent ==
    \A t \in Tokens : tok[t].parent # None => ~Live(tok[t].parent)

\* A user who is blocked or inactive has a valid refresh token only if its
\* revocation is still to come, was abandoned after the flag was committed,
\* or the token was minted by a request that had passed its account check
\* before the revocation and inserted its row after it.
LockedOutUser(u) == ~Accessible(u)
RevocationPending(u) == \E p \in Procs : req[p].user = u /\ At(p, "revokeAll")
LockoutKillsSessions ==
    \A u \in Users : \A t \in LiveOf(u) :
        LockedOutUser(u) => u \in lost \/ RevocationPending(u) \/ tok[t].escaped

\* After a password change or reset, a session whose credentials predate it is
\* valid only if the change spared it or its minting overlapped the change.
OldPasswordSessions ==
    \A t \in Tokens : Live(t) /\ tok[t].stale => tok[t].escaped

\* No refresh token outlives its account, and no request re-creates one for a
\* deleted account, however deletion interleaves with login and refresh.
NoOrphanTokens ==
    \A u \in Users : ~acct[u].exists => LiveOf(u) = {}

\* Revocation is final: a token that is revoked or deleted never becomes valid
\* again, and a valid row never changes hands or parent.
RevocationIsFinal ==
    [][\A t \in Tokens :
        /\ tok[t].st \in {"revoked", "gone"} => tok'[t].st \in {"revoked", "gone"}
        /\ Live(t) /\ Live(t)' => tok'[t] = tok[t]]_vars

\* A locked-out account gains a valid token only from a request that passed
\* its account check before the lockout: with no such request in flight, the
\* set of its valid tokens only shrinks.
CheckedMint(u) ==
    \E p \in Procs : req[p].user = u /\ req[p].at \in {"login", "rotate"}
LockedOutOnlyShrinks ==
    [][\A u \in Users :
        LockedOutUser(u) /\ ~CheckedMint(u) => LiveOf(u)' \subseteq LiveOf(u)]_vars

-----------------------------------------------------------------------------
(* What the documentation says and the code does not guarantee *)

\* rotate_token: "This guarantees a user never ends up with two simultaneously
\* valid refresh tokens": one token is never exchanged for two valid ones.
SingleSuccessor ==
    \A s, t \in Tokens :
        Live(s) /\ Live(t) /\ tok[s].parent # None /\ tok[s].parent = tok[t].parent
            => s = t
=============================================================================
