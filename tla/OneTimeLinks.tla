---------------------------- MODULE OneTimeLinks ----------------------------
(***************************************************************************)
(* The links the auth service mails: email verification and password       *)
(* reset.  Both keep a table of hashed tokens with is_used and expires_at, *)
(* mark a user's unused tokens as used before they issue a fresh one, and  *)
(* validate a presented token alike; they differ in how they redeem it.    *)
(* A reset consumes its token by a conditional UPDATE in the transaction   *)
(* that changes the password; a verification sets is_used by primary key,  *)
(* in a transaction after the one that sets is_verified.                   *)
(*                                                                         *)
(* Requests run in threads over PostgreSQL at READ COMMITTED, one action   *)
(* for each read a check uses and for each transaction.                    *)
(***************************************************************************)
EXTENDS Naturals, FiniteSets

CONSTANTS
    Users,         \* user ids, each registered at most once
    Procs,         \* concurrent requests
    ResetLinks,    \* rows of password_reset_tokens
    VerifyLinks,   \* rows of email_verification_tokens
    None

ASSUME TablesAreDisjoint == ResetLinks \cap VerifyLinks = {}
ASSUME NoneIsFresh == None \notin Users \cup ResetLinks \cup VerifyLinks

Links == ResetLinks \cup VerifyLinks

VARIABLES
    acct,       \* [Users -> the user's row]
    link,       \* [Links -> the token's row, and whether its link was mailed]
    req,        \* [Procs -> the request being handled]
    redeemed    \* ghost: [Links -> how often the link was redeemed]

vars == <<acct, link, req, redeemed>>

Accounts == {"absent", "unverified", "verified", "deleted"}

\* Ghost crossed: another link of the same user and table was issued between
\* this one's invalidate_unused_tokens and its INSERT.
LinkRow == [st : {"unissued", "unused", "used", "gone"},
            owner : Users \cup {None}, expired : BOOLEAN, mailed : BOOLEAN,
            crossed : BOOLEAN]

\* Ghost late: the presented link was used or invalidated since it was checked.
Request == [at : {"idle", "invalidate", "create", "mail",
                  "verifyLoad", "flag", "mark", "resetLoad", "reset",
                  "voidVerify", "voidReset", "erase"},
            user : Users \cup {None}, table : {ResetLinks, VerifyLinks, {}},
            link : Links \cup {None}, crossed : BOOLEAN, late : BOOLEAN]

Idle == [at |-> "idle", user |-> None, table |-> {}, link |-> None,
         crossed |-> FALSE, late |-> FALSE]

Blank(st) == [st |-> st, owner |-> None, expired |-> FALSE, mailed |-> FALSE,
              crossed |-> FALSE]

Init ==
    /\ acct = [u \in Users |-> "absent"]
    /\ link = [l \in Links |-> Blank("unissued")]
    /\ req = [p \in Procs |-> Idle]
    /\ redeemed = [l \in Links |-> 0]

-----------------------------------------------------------------------------
(* Helpers *)

Exists(u) == acct[u] \in {"unverified", "verified"}
At(p, label) == req[p].at = label
Unused(l) == link[l].st = "unused"
UnusedOf(u, table) == {l \in table : Unused(l) /\ link[l].owner = u}

\* A new request for u; it concerns one table.
Start(p, label, u, table) ==
    /\ req[p] = Idle
    /\ req' = [req EXCEPT ![p] = [Idle EXCEPT !.at = label, !.user = u,
                                              !.table = table]]

Goto(p, label) == [req EXCEPT ![p].at = label]
Done(p) == req' = [req EXCEPT ![p] = Idle]

\* Ghost: requests holding a link of S are late from now on.
Lateness(r, S) ==
    [q \in Procs |-> IF r[q].link \in S THEN [r[q] EXCEPT !.late = TRUE] ELSE r[q]]

\* UPDATE ... SET is_used = true WHERE user_id = u AND NOT is_used, and commit.
\* The request p goes on to step "label".
InvalidateUnused(p, table, label) ==
    LET S == UnusedOf(req[p].user, table)
    IN  /\ link' = [l \in Links |-> IF l \in S THEN [link[l] EXCEPT !.st = "used"]
                                    ELSE link[l]]
        /\ req' = Lateness(Goto(p, label), S)
        /\ UNCHANGED <<acct, redeemed>>

-----------------------------------------------------------------------------
(* Issuing: register, resend_verification, request_password_reset. *)

\* create_user commits; send_verification_email follows, with nothing to void.
Register(p, u) ==
    /\ acct[u] = "absent"
    /\ acct' = [acct EXCEPT ![u] = "unverified"]
    /\ Start(p, "create", u, VerifyLinks)
    /\ UNCHANGED <<link, redeemed>>

Resend(p, u) ==
    /\ acct[u] = "unverified"
    /\ Start(p, "invalidate", u, VerifyLinks)
    /\ UNCHANGED <<acct, link, redeemed>>

Forgot(p, u) ==
    /\ Exists(u)
    /\ Start(p, "invalidate", u, ResetLinks)
    /\ UNCHANGED <<acct, link, redeemed>>

\* Mutant of Invalidate: earlier links stay redeemable.
InvalidateNothing(p) ==
    /\ At(p, "invalidate")
    /\ req' = Goto(p, "create")
    /\ UNCHANGED <<acct, link, redeemed>>

Invalidate(p) == At(p, "invalidate") /\ InvalidateUnused(p, req[p].table, "create")

Create(p, l) ==
    /\ At(p, "create")
    /\ Exists(req[p].user)              \* foreign key user_id -> users.id
    /\ l \in req[p].table /\ link[l].st = "unissued"
    /\ link' = [link EXCEPT ![l] = [Blank("unused") EXCEPT
                                      !.owner = req[p].user, !.crossed = req[p].crossed]]
    /\ req' = [q \in Procs |->
                  IF q = p THEN [req[p] EXCEPT !.at = "mail", !.link = l]
                  ELSE IF /\ At(q, "create") /\ req[q].user = req[p].user
                          /\ req[q].table = req[p].table
                  THEN [req[q] EXCEPT !.crossed = TRUE] ELSE req[q]]
    /\ UNCHANGED <<acct, redeemed>>

\* A failed delivery is logged, or answered with an error: see Abandon.
Mail(p) ==
    /\ At(p, "mail")
    /\ link' = IF link[req[p].link].st = "gone" THEN link
               ELSE [link EXCEPT ![req[p].link].mailed = TRUE]
    /\ Done(p)
    /\ UNCHANGED <<acct, redeemed>>

Expire(l) ==
    /\ Unused(l) /\ ~link[l].expired
    /\ link' = [link EXCEPT ![l].expired = TRUE]
    /\ UNCHANGED <<acct, req, redeemed>>

-----------------------------------------------------------------------------
(* Redeeming.  validate_one_time_token reads the row once. *)

\* Mutant of Present: is_used is not examined.
PresentUsed(p, l, label, table) ==
    /\ req[p] = Idle
    /\ l \in table /\ link[l].st \in {"unused", "used"} /\ link[l].mailed
    /\ ~link[l].expired
    /\ req' = [req EXCEPT ![p] = [Idle EXCEPT !.at = label, !.link = l,
                                              !.user = link[l].owner]]
    /\ UNCHANGED <<acct, link, redeemed>>

Present(p, l, label, table) ==
    /\ req[p] = Idle
    /\ l \in table /\ Unused(l) /\ link[l].mailed /\ ~link[l].expired
    /\ req' = [req EXCEPT ![p] = [Idle EXCEPT !.at = label, !.link = l,
                                              !.user = link[l].owner]]
    /\ UNCHANGED <<acct, link, redeemed>>

VerifyCheck(p, l) == Present(p, l, "verifyLoad", VerifyLinks)
ResetCheck(p, l) == Present(p, l, "resetLoad", ResetLinks)

VerifyLoad(p) ==
    /\ At(p, "verifyLoad") /\ Exists(req[p].user)
    /\ req' = Goto(p, IF acct[req[p].user] = "verified" THEN "mark" ELSE "flag")
    /\ UNCHANGED <<acct, link, redeemed>>

\* update_user(is_verified=True) commits on its own.
VerifyFlag(p) ==
    /\ At(p, "flag") /\ Exists(req[p].user)
    /\ acct' = [acct EXCEPT ![req[p].user] = "verified"]
    /\ req' = Goto(p, "mark")
    /\ UNCHANGED <<link, redeemed>>

\* Mutant of VerifyMark: the row gets a status of its own.
VerifyMarkAsVerified(p) ==
    /\ At(p, "mark")
    /\ link[req[p].link].st # "gone"
    /\ link' = [link EXCEPT ![req[p].link].st = "verified"]
    /\ Done(p)
    /\ UNCHANGED <<acct, redeemed>>

\* mark_as_used: the session returns the row it loaded, so an is_used that
\* another request set meanwhile is not seen; the UPDATE is by primary key.
VerifyMark(p) ==
    /\ At(p, "mark")
    /\ link[req[p].link].st # "gone"     \* else RecordNotFoundError
    /\ link' = [link EXCEPT ![req[p].link].st = "used"]
    /\ redeemed' = [redeemed EXCEPT ![req[p].link] = @ + 1]
    /\ req' = Lateness([req EXCEPT ![p] = Idle], {req[p].link})
    /\ UNCHANGED acct

ResetLoad(p) ==
    /\ At(p, "resetLoad") /\ Exists(req[p].user)
    /\ req' = Goto(p, "reset")
    /\ UNCHANGED <<acct, link, redeemed>>

\* Mutant of ResetCommit: consume_token updates by primary key alone.
ResetByPrimaryKey(p) ==
    /\ At(p, "reset") /\ Exists(req[p].user)
    /\ link' = [link EXCEPT ![req[p].link].st = "used"]
    /\ redeemed' = [redeemed EXCEPT ![req[p].link] = @ + 1]
    /\ req' = Lateness([req EXCEPT ![p] = Idle], {req[p].link})
    /\ UNCHANGED acct

\* consume_token (UPDATE ... WHERE NOT is_used), the new password and the
\* revocation of the sessions are one transaction; a link that is no longer
\* unused, or an erased user, rolls it back.
ResetCommit(p) ==
    /\ At(p, "reset") /\ Exists(req[p].user)
    /\ Unused(req[p].link)
    /\ link' = [link EXCEPT ![req[p].link].st = "used"]
    /\ redeemed' = [redeemed EXCEPT ![req[p].link] = @ + 1]
    /\ req' = Lateness([req EXCEPT ![p] = Idle], {req[p].link})
    /\ UNCHANGED acct

-----------------------------------------------------------------------------
(* Account deletion: the account's own delete voids both tables and then   *)
(* erases the row; an administrator's erases it at once.  The tokens go    *)
(* with the row (ON DELETE CASCADE).                                       *)

DeleteAccount(p, u) ==
    /\ Exists(u)
    /\ \E label \in {"voidVerify", "erase"} : Start(p, label, u, {})
    /\ UNCHANGED <<acct, link, redeemed>>

DeleteVoidVerify(p) ==
    At(p, "voidVerify") /\ InvalidateUnused(p, VerifyLinks, "voidReset")
DeleteVoidReset(p) ==
    At(p, "voidReset") /\ InvalidateUnused(p, ResetLinks, "erase")

DeleteErase(p) ==
    LET S == {l \in Links : link[l].owner = req[p].user}
    IN  /\ At(p, "erase") /\ Exists(req[p].user)
        /\ acct' = [acct EXCEPT ![req[p].user] = "deleted"]
        /\ link' = [l \in Links |-> IF l \in S THEN Blank("gone") ELSE link[l]]
        /\ req' = Lateness([req EXCEPT ![p] = Idle], S)
        /\ UNCHANGED redeemed

-----------------------------------------------------------------------------
\* A check or a commit fails, the mail is refused, or the process dies.
Abandon(p) ==
    /\ req[p] # Idle
    /\ Done(p)
    /\ UNCHANGED <<acct, link, redeemed>>

Next ==
    \/ \E p \in Procs :
          \/ \E u \in Users : \/ Register(p, u) \/ Resend(p, u) \/ Forgot(p, u)
                               \/ DeleteAccount(p, u)
          \/ \E l \in Links : Create(p, l) \/ VerifyCheck(p, l) \/ ResetCheck(p, l)
          \/ Invalidate(p) \/ Mail(p)
          \/ VerifyLoad(p) \/ VerifyFlag(p) \/ VerifyMark(p)
          \/ ResetLoad(p)  \/ ResetCommit(p)
          \/ DeleteVoidVerify(p) \/ DeleteVoidReset(p) \/ DeleteErase(p)
          \/ Abandon(p)
    \/ \E l \in Links : Expire(l)

Spec == Init /\ [][Next]_vars

-----------------------------------------------------------------------------
(* Properties *)

\* Rows and requests have the shape the code gives them.
TypeOK ==
    /\ acct \in [Users -> Accounts]
    /\ link \in [Links -> LinkRow]
    /\ req \in [Procs -> Request]
    /\ redeemed \in [Links -> Nat]

\* A password-reset link behaves as a one-time link: it changes a password at
\* most once, and never after a fresher link or the account's deletion voided
\* it, however requests that checked it earlier interleave.
Fate(l) ==
    CASE link[l].st = "unissued" -> "unissued"
      [] link[l].st = "unused"   -> "open"
      [] OTHER -> IF redeemed[l] > 0 THEN "redeemed" ELSE "void"
Reset == INSTANCE OneTimeLink WITH Links <- ResetLinks,
                                   fate <- [l \in ResetLinks |-> Fate(l)]
ResetIsOneTime == Reset!Spec

\* A verification link is redeemed again, or after it was voided, only by a
\* request that had checked it before: nothing checked later succeeds.
UsedLinksAdmitNobody ==
    [][\A l \in Links :
        redeemed'[l] # redeemed[l] =>
            \/ Unused(l)
            \/ \E p \in Procs : req[p].link = l /\ req[p].late /\ At(p, "mark")]_vars

\* At most one link of a user in each table is redeemable, except for links
\* whose issuing requests crossed.
OneOpenLink ==
    \A table \in {ResetLinks, VerifyLinks} : \A u \in Users :
        \A l, k \in UnusedOf(u, table) :
            l # k => link[l].crossed \/ link[k].crossed

-----------------------------------------------------------------------------
(* What the code's comments say and the code does not guarantee *)

\* EmailVerificationService.verify_email: "the token can only be redeemed once".
VerifiedOnce == \A l \in VerifyLinks : redeemed[l] <= 1
=============================================================================
