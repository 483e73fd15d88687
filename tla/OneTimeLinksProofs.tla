-------------------------- MODULE OneTimeLinksProofs --------------------------
(***************************************************************************)
(* A password-reset link implements OneTimeLink, for any number of users,  *)
(* requests and links.  The invariant says which links a request holds at  *)
(* which step and that an unused reset link has not been redeemed; with    *)
(* it, each step of OneTimeLinks issues, redeems or voids links of the     *)
(* abstract specification, or leaves them alone.                           *)
(***************************************************************************)
EXTENDS OneTimeLinks, TLAPS

Shapes ==
    /\ link \in [Links -> LinkRow]
    /\ req \in [Procs -> Request]
    /\ redeemed \in [Links -> Nat]

\* A reset link that can still be redeemed has not been; nobody owns an unissued one.
Unspent ==
    \A l \in ResetLinks :
        /\ link[l].st \in {"unissued", "unused"} => redeemed[l] = 0
        /\ link[l].st = "unissued" => link[l].owner = None

\* At a step that uses its user or its link a request has one, of the right table.
Holds(p) ==
    /\ req[p].at \in {"mark", "flag", "verifyLoad"} => req[p].link \in VerifyLinks
    /\ req[p].at \in {"resetLoad", "reset"} => req[p].link \in ResetLinks
    /\ req[p].at = "mail" => req[p].link \in Links /\ link[req[p].link].st # "unissued"
    /\ req[p].at \in {"invalidate", "create", "voidVerify", "voidReset", "erase"}
          => req[p].user \in Users

IInv == Shapes /\ Unspent /\ \A p \in Procs : Holds(p)

-----------------------------------------------------------------------------
(* The initial state. *)

\* The invariant holds of empty tables and idle requests.
LEMMA InitIInv == Init => IInv
<1> SUFFICES ASSUME Init PROVE IInv
  OBVIOUS
<1>1. Blank("unissued") \in LinkRow
  BY DEF Blank, LinkRow
<1>2. Idle \in Request
  BY DEF Idle, Request
<1>3. Shapes
  BY <1>1, <1>2 DEF Init, Shapes
<1>4. Unspent
  BY DEF Init, Unspent, Links, Blank
<1>5. \A p \in Procs : Holds(p)
  BY DEF Init, Holds, Idle
<1> QED  BY <1>3, <1>4, <1>5 DEF IInv

-----------------------------------------------------------------------------
(* Steps. *)

\* Lateness only sets the ghost.
LEMMA LatenessGhost ==
  ASSUME NEW r \in [Procs -> Request], NEW S
  PROVE  /\ Lateness(r, S) \in [Procs -> Request]
         /\ \A p \in Procs : /\ Lateness(r, S)[p].at = r[p].at
                             /\ Lateness(r, S)[p].user = r[p].user
                             /\ Lateness(r, S)[p].link = r[p].link
                             /\ Lateness(r, S)[p].table = r[p].table
                             /\ Lateness(r, S)[p].crossed = r[p].crossed
                             /\ r[p].late => Lateness(r, S)[p].late
                             /\ r[p].link \in S => Lateness(r, S)[p].late
BY DEF Lateness, Request

\* Going on to a step keeps the shape of the requests.
LEMMA GotoShape ==
  ASSUME Shapes, NEW p \in Procs,
         NEW label \in {"idle", "invalidate", "create", "mail", "verifyLoad", "flag",
                        "mark", "resetLoad", "reset", "voidVerify", "voidReset", "erase"}
  PROVE  /\ Goto(p, label) \in [Procs -> Request]
         /\ Goto(p, label)[p].at = label
         /\ Goto(p, label)[p].user = req[p].user
         /\ Goto(p, label)[p].link = req[p].link
         /\ Goto(p, label)[p].table = req[p].table
         /\ Goto(p, label)[p].crossed = req[p].crossed
         /\ Goto(p, label)[p].late = req[p].late
         /\ \A q \in Procs \ {p} : Goto(p, label)[q] = req[q]
BY DEF Goto, Shapes, Request

\* A step that changes only the request p keeps the invariant if p keeps to it.
LEMMA OneRequest ==
  ASSUME IInv, NEW p \in Procs, UNCHANGED <<link, redeemed>>,
         req' \in [Procs -> Request],
         \A q \in Procs \ {p} : req'[q] = req[q],
         Holds(p)'
  PROVE  IInv'
<1>1. Shapes' /\ Unspent'
  BY DEF IInv, Shapes, Unspent
<1>2. ASSUME NEW q \in Procs PROVE Holds(q)'
  BY <1>2 DEF IInv, Holds
<1> QED  BY <1>1, <1>2 DEF IInv

\* A new request holds what its first step needs.
LEMMA StartIInv ==
  ASSUME IInv, NEW p \in Procs, NEW u \in Users,
         NEW label \in {"invalidate", "create", "voidVerify", "erase"},
         NEW table \in {ResetLinks, VerifyLinks, {}},
         Start(p, label, u, table), UNCHANGED <<link, redeemed>>
  PROVE  IInv'
<1>1. /\ req' \in [Procs -> Request]
      /\ \A q \in Procs \ {p} : req'[q] = req[q]
      /\ req'[p].at = label /\ req'[p].user = u
  BY DEF Start, Idle, IInv, Shapes, Request
<1>2. Holds(p)'
  BY <1>1 DEF Holds
<1> QED  BY <1>1, <1>2, OneRequest

\* A presented link is one of the table its handler looks in.
LEMMA PresentIInv ==
  ASSUME IInv, NEW p \in Procs, NEW l \in Links,
         VerifyCheck(p, l) \/ ResetCheck(p, l)
  PROVE  IInv'
<1>1. link[l].owner \in Users \cup {None}
  BY DEF IInv, Shapes, LinkRow
<1>2. ASSUME NEW label \in {"verifyLoad", "resetLoad"}, NEW table,
             Present(p, l, label, table)
      PROVE  /\ req' \in [Procs -> Request]
             /\ \A q \in Procs \ {p} : req'[q] = req[q]
             /\ req'[p].at = label /\ req'[p].link = l /\ l \in table
             /\ UNCHANGED <<link, redeemed>>
  BY <1>1, <1>2 DEF Present, Idle, IInv, Shapes, Request
<1>3. CASE VerifyCheck(p, l)
  <2>1. Present(p, l, "verifyLoad", VerifyLinks)
    BY <1>3 DEF VerifyCheck
  <2>2. Holds(p)'
    BY <2>1, <1>2 DEF Holds
  <2> QED  BY <2>1, <2>2, <1>2, OneRequest
<1>4. CASE ResetCheck(p, l)
  <2>1. Present(p, l, "resetLoad", ResetLinks)
    BY <1>4 DEF ResetCheck
  <2>2. Holds(p)'
    BY <2>1, <1>2 DEF Holds
  <2> QED  BY <2>1, <2>2, <1>2, OneRequest
<1> QED  BY <1>3, <1>4

\* A loaded user takes the request on; the link it holds stays.
LEMMA LoadIInv ==
  ASSUME IInv, NEW p \in Procs, VerifyLoad(p) \/ VerifyFlag(p) \/ ResetLoad(p)
  PROVE  IInv'
<1>1. ASSUME NEW label \in {"mark", "flag", "reset"}, req' = Goto(p, label),
             label = "reset" => req[p].link \in ResetLinks,
             label # "reset" => req[p].link \in VerifyLinks,
             UNCHANGED <<link, redeemed>>
      PROVE  IInv'
  <2>1. Holds(p)'
    BY <1>1, GotoShape DEF Holds, IInv
  <2>2. /\ req' \in [Procs -> Request]
        /\ \A q \in Procs \ {p} : req'[q] = req[q]
    BY <1>1, GotoShape DEF IInv
  <2> QED  BY <1>1, <2>1, <2>2, OneRequest
<1>2. CASE VerifyLoad(p)
  <2>1. req[p].link \in VerifyLinks
    BY <1>2 DEF VerifyLoad, At, IInv, Holds
  <2>2. req' = Goto(p, "mark") \/ req' = Goto(p, "flag")
    BY <1>2 DEF VerifyLoad
  <2> QED  BY <1>1, <1>2, <2>1, <2>2 DEF VerifyLoad
<1>3. CASE VerifyFlag(p)
  BY <1>1, <1>3 DEF VerifyFlag, At, IInv, Holds
<1>4. CASE ResetLoad(p)
  BY <1>1, <1>4 DEF ResetLoad, At, IInv, Holds
<1> QED  BY <1>2, <1>3, <1>4

\* A request that ends holds nothing.
LEMMA AbandonIInv ==
  ASSUME IInv, NEW p \in Procs, Abandon(p)
  PROVE  IInv'
<1>1. /\ req' \in [Procs -> Request]
      /\ \A q \in Procs \ {p} : req'[q] = req[q]
      /\ req'[p].at = "idle"
  BY DEF Abandon, Done, Idle, IInv, Shapes, Request
<1>2. Holds(p)'
  BY <1>1 DEF Holds
<1> QED  BY <1>1, <1>2, OneRequest DEF Abandon

\* The invariant of the requests survives a step that keeps or ends every one of
\* them, and never returns a link to "unissued".
LEMMA RequestsKept ==
  ASSUME IInv, NEW p \in Procs, Holds(p)',
         \A q \in Procs \ {p} : /\ req'[q].at = req[q].at
                                /\ req'[q].user = req[q].user
                                /\ req'[q].link = req[q].link,
         \A l \in Links : link'[l].st = "unissued" => link[l].st = "unissued"
  PROVE  \A q \in Procs : Holds(q)'
<1> SUFFICES ASSUME NEW q \in Procs \ {p} PROVE Holds(q)'
  OBVIOUS
<1>1. Holds(q)
  BY DEF IInv
<1> QED  BY <1>1 DEF Holds

\* Marking the unused links of a user in one table as used.
LEMMA InvalidateIInv ==
  ASSUME IInv, NEW p \in Procs, NEW table \in {ResetLinks, VerifyLinks},
         NEW label \in {"create", "voidReset", "erase"},
         req[p].user \in Users, InvalidateUnused(p, table, label)
  PROVE  IInv'
<1> DEFINE S == UnusedOf(req[p].user, table)
<1>1. /\ link' = [l \in Links |-> IF l \in S THEN [link[l] EXCEPT !.st = "used"]
                                  ELSE link[l]]
      /\ req' = Lateness(Goto(p, label), S)
      /\ redeemed' = redeemed
  BY DEF InvalidateUnused
<1>2. link' \in [Links -> LinkRow]
  BY <1>1 DEF IInv, Shapes, LinkRow
<1>3. Unspent'
  BY <1>1 DEF IInv, Unspent, Links
<1>4. Goto(p, label) \in [Procs -> Request]
  BY GotoShape DEF IInv
<1>5. /\ req' \in [Procs -> Request]
      /\ \A q \in Procs : /\ req'[q].at = Goto(p, label)[q].at
                          /\ req'[q].user = Goto(p, label)[q].user
                          /\ req'[q].link = Goto(p, label)[q].link
  BY <1>1, <1>4, LatenessGhost
<1>6. \A q \in Procs \ {p} : /\ req'[q].at = req[q].at
                             /\ req'[q].user = req[q].user
                             /\ req'[q].link = req[q].link
  BY <1>5, GotoShape DEF IInv
<1>7. req'[p].at = label /\ req'[p].user = req[p].user
  <2>1. Goto(p, label)[p].at = label /\ Goto(p, label)[p].user = req[p].user
    BY GotoShape DEF IInv
  <2> QED  BY <2>1, <1>5
<1>8. Holds(p)'
  BY <1>7 DEF Holds
<1>9. \A l \in Links : link'[l].st = "unissued" => link[l].st = "unissued"
  BY <1>1 DEF IInv, Shapes, LinkRow
<1>10. \A q \in Procs : Holds(q)'
  BY <1>6, <1>8, <1>9, RequestsKept
<1>11. Shapes'
  BY <1>1, <1>2, <1>5 DEF IInv, Shapes
<1> QED  BY <1>3, <1>10, <1>11 DEF IInv

\* Issuing a link.
LEMMA CreateIInv ==
  ASSUME IInv, NEW p \in Procs, NEW l \in Links, Create(p, l)
  PROVE  IInv'
<1> DEFINE row == [Blank("unused") EXCEPT !.owner = req[p].user,
                                          !.crossed = req[p].crossed]
<1>1. req[p] \in Request /\ req[p].user \in Users
  BY DEF Create, At, IInv, Shapes, Holds
<1>2. row \in LinkRow /\ row.st = "unused"
  BY <1>1 DEF Blank, LinkRow, Request
<1>3. link' = [link EXCEPT ![l] = row] /\ redeemed' = redeemed /\ link[l].st = "unissued"
  BY DEF Create
<1>4. link' \in [Links -> LinkRow]
  BY <1>2, <1>3 DEF IInv, Shapes
<1>5. Unspent'
  BY <1>2, <1>3 DEF IInv, Unspent, Shapes, Links
<1>6. /\ req' \in [Procs -> Request]
      /\ \A q \in Procs \ {p} : /\ req'[q].at = req[q].at
                                /\ req'[q].user = req[q].user
                                /\ req'[q].link = req[q].link
      /\ req'[p].at = "mail" /\ req'[p].link = l
  <2>1. req \in [Procs -> Request] /\ req[p] \in Request
    BY DEF IInv, Shapes
  <2>2. [req[p] EXCEPT !.at = "mail", !.link = l] \in Request
    BY <2>1 DEF Request
  <2>3. ASSUME NEW q \in Procs \ {p}
        PROVE  req'[q] = req[q] \/ req'[q] = [req[q] EXCEPT !.crossed = TRUE]
    BY DEF Create
  <2>4. req'[p] = [req[p] EXCEPT !.at = "mail", !.link = l]
    BY DEF Create
  <2>5. ASSUME NEW q \in Procs \ {p}
        PROVE  /\ req'[q] \in Request
               /\ req'[q].at = req[q].at
               /\ req'[q].user = req[q].user
               /\ req'[q].link = req[q].link
    <3>1. req[q] \in Request
      BY <2>1
    <3>2. [req[q] EXCEPT !.crossed = TRUE] \in Request
      BY <3>1 DEF Request
    <3>3. CASE req'[q] = req[q]
      BY <3>1, <3>3
    <3>4. CASE req'[q] = [req[q] EXCEPT !.crossed = TRUE]
      BY <3>1, <3>2, <3>4 DEF Request
    <3> QED  BY <2>3, <3>3, <3>4
  <2>6. req' = [q \in Procs |-> req'[q]]
    BY DEF Create
  <2>7. \A q \in Procs : req'[q] \in Request
    BY <2>2, <2>4, <2>5
  <2>8. req' \in [Procs -> Request]
    BY <2>6, <2>7
  <2>9. req'[p].at = "mail" /\ req'[p].link = l
    BY <2>1, <2>4 DEF Request
  <2> QED  BY <2>5, <2>8, <2>9
<1>7. Holds(p)'
  BY <1>2, <1>3, <1>6 DEF Holds, IInv, Shapes
<1>8. \A k \in Links : link'[k].st = "unissued" => link[k].st = "unissued"
  BY <1>2, <1>3 DEF IInv, Shapes
<1>9. \A q \in Procs : Holds(q)'
  BY <1>6, <1>7, <1>8, RequestsKept
<1>10. Shapes'
  BY <1>3, <1>4, <1>6 DEF IInv, Shapes
<1> QED  BY <1>5, <1>9, <1>10 DEF IInv

\* A step that ends p, and changes rows without issuing any.
LEMMA EndingIInv ==
  ASSUME IInv, NEW p \in Procs, NEW S,
         link' \in [Links -> LinkRow], redeemed' \in [Links -> Nat],
         Unspent',
         req' = Lateness([req EXCEPT ![p] = Idle], S),
         \A l \in Links : link'[l].st = "unissued" => link[l].st = "unissued"
  PROVE  IInv'
<1> DEFINE ended == [req EXCEPT ![p] = Idle]
<1>1. ended \in [Procs -> Request] /\ ended[p].at = "idle"
  BY DEF IInv, Shapes, Idle, Request
<1>2. \A q \in Procs \ {p} : ended[q] = req[q]
  BY DEF IInv, Shapes
<1>3. /\ req' \in [Procs -> Request]
      /\ \A q \in Procs : /\ req'[q].at = ended[q].at
                          /\ req'[q].user = ended[q].user
                          /\ req'[q].link = ended[q].link
  <2>1. req' = Lateness(ended, S)
    OBVIOUS
  <2>2. ended \in [Procs -> Request]
    BY <1>1
  <2> HIDE DEF ended
  <2>3. /\ Lateness(ended, S) \in [Procs -> Request]
        /\ \A q \in Procs : /\ Lateness(ended, S)[q].at = ended[q].at
                            /\ Lateness(ended, S)[q].user = ended[q].user
                            /\ Lateness(ended, S)[q].link = ended[q].link
    BY <2>2, LatenessGhost
  <2> QED  BY <2>1, <2>3
<1>4. Holds(p)'
  BY <1>1, <1>3 DEF Holds
<1>5. \A q \in Procs : Holds(q)'
  BY <1>2, <1>3, <1>4, RequestsKept
<1> QED  BY <1>3, <1>5 DEF IInv, Shapes

\* Redeeming a link of either table.
LEMMA RedeemIInv ==
  ASSUME IInv, NEW p \in Procs, VerifyMark(p) \/ ResetCommit(p)
  PROVE  IInv'
<1> DEFINE l == req[p].link
<1>1. (l \in Links /\ link[l].st # "unissued") \/ l \in VerifyLinks
  BY DEF VerifyMark, ResetCommit, At, Unused, IInv, Holds, Links
<1>2. l \in Links
  BY <1>1 DEF Links
<1>3. /\ link' = [link EXCEPT ![l].st = "used"]
      /\ redeemed' = [redeemed EXCEPT ![l] = @ + 1]
      /\ req' = Lateness([req EXCEPT ![p] = Idle], {l})
  BY DEF VerifyMark, ResetCommit
<1>4. link' \in [Links -> LinkRow] /\ redeemed' \in [Links -> Nat]
  BY <1>2, <1>3 DEF IInv, Shapes, LinkRow
<1>5. \A k \in Links : /\ k # l => link'[k] = link[k] /\ redeemed'[k] = redeemed[k]
                       /\ k = l => link'[k].st = "used"
  BY <1>2, <1>3 DEF IInv, Shapes, LinkRow
<1>6. Unspent'
  BY <1>5 DEF IInv, Unspent, Links
<1>7. \A k \in Links : link'[k].st = "unissued" => link[k].st = "unissued"
  BY <1>5
<1> QED  BY <1>3, <1>4, <1>6, <1>7, EndingIInv

\* Erasing an account and its tokens.
LEMMA EraseIInv ==
  ASSUME IInv, NEW p \in Procs, DeleteErase(p)
  PROVE  IInv'
<1> DEFINE S == {l \in Links : link[l].owner = req[p].user}
<1>1. /\ link' = [l \in Links |-> IF l \in S THEN Blank("gone") ELSE link[l]]
      /\ redeemed' = redeemed
      /\ req' = Lateness([req EXCEPT ![p] = Idle], S)
  BY DEF DeleteErase
<1>2. Blank("gone") \in LinkRow /\ Blank("gone").st = "gone"
  BY DEF Blank, LinkRow
<1>3. link' \in [Links -> LinkRow]
  BY <1>1, <1>2 DEF IInv, Shapes
<1>4. \A l \in Links : link'[l] = link[l] \/ link'[l].st = "gone"
  BY <1>1, <1>2
<1>5. Unspent'
  BY <1>1, <1>4 DEF IInv, Unspent, Links
<1>6. redeemed' \in [Links -> Nat]
  BY <1>1 DEF IInv, Shapes
<1>7. \A l \in Links : link'[l].st = "unissued" => link[l].st = "unissued"
  BY <1>4
<1> QED  BY <1>1, <1>3, <1>5, <1>6, <1>7, EndingIInv

\* Mailing and expiry change neither is_used nor the owner.
LEMMA MailExpireIInv ==
  ASSUME IInv, (\E p \in Procs : Mail(p)) \/ (\E l \in Links : Expire(l))
  PROVE  IInv'
<1>1. CASE \E l \in Links : Expire(l)
  <2>0. PICK l \in Links : Expire(l)
    BY <1>1
  <2> DEFINE row == [link[l] EXCEPT !.expired = TRUE]
  <2>a. link[l] \in LinkRow
    BY DEF IInv, Shapes
  <2>b. row \in LinkRow /\ row.st = link[l].st /\ row.owner = link[l].owner
    BY <2>a DEF LinkRow
  <2>c. link' = [link EXCEPT ![l] = row] /\ UNCHANGED <<req, redeemed>>
    BY <2>0 DEF Expire
  <2>1. /\ link' \in [Links -> LinkRow]
        /\ \A k \in Links : link'[k].st = link[k].st /\ link'[k].owner = link[k].owner
    BY <2>b, <2>c DEF IInv, Shapes
  <2>2. Unspent' /\ \A q \in Procs : Holds(q)'
    BY <2>1, <2>c DEF IInv, Unspent, Holds, Links
  <2> QED  BY <2>1, <2>2, <2>c DEF IInv, Shapes
<1>2. ASSUME NEW p \in Procs, Mail(p)
      PROVE  IInv'
  <2>1. req[p].link \in Links
    BY <1>2 DEF Mail, At, IInv, Holds
  <2>2. /\ link' \in [Links -> LinkRow]
        /\ \A k \in Links : link'[k].st = link[k].st /\ link'[k].owner = link[k].owner
    BY <1>2, <2>1 DEF Mail, IInv, Shapes, LinkRow
  <2>3. /\ req' \in [Procs -> Request] /\ redeemed' = redeemed
        /\ req'[p].at = "idle"
        /\ \A q \in Procs \ {p} : req'[q] = req[q]
    BY <1>2 DEF Mail, Done, Idle, IInv, Shapes, Request
  <2>4. Holds(p)'
    BY <2>3 DEF Holds
  <2>5. \A q \in Procs : Holds(q)'
    BY <2>2, <2>3, <2>4, RequestsKept
  <2>6. Unspent'
    BY <2>2, <2>3 DEF IInv, Unspent, Links
  <2> QED  BY <2>2, <2>3, <2>5, <2>6 DEF IInv, Shapes
<1> QED  BY <1>1, <1>2

\* The invariant is inductive.
LEMMA NextIInv == IInv /\ [Next]_vars => IInv'
<1> SUFFICES ASSUME IInv, [Next]_vars PROVE IInv'
  OBVIOUS
<1>1. CASE UNCHANGED vars
  BY <1>1 DEF vars, IInv, Shapes, Unspent, Holds
<1>2. ASSUME NEW p \in Procs, NEW u \in Users,
             Register(p, u) \/ Resend(p, u) \/ Forgot(p, u) \/ DeleteAccount(p, u)
      PROVE  IInv'
  BY <1>2, StartIInv DEF Register, Resend, Forgot, DeleteAccount
<1>3. ASSUME NEW p \in Procs, Invalidate(p)
      PROVE  IInv'
  <2>1. req[p].user \in Users
    BY <1>3 DEF Invalidate, At, IInv, Holds
  <2>2. CASE req[p].table \in {ResetLinks, VerifyLinks}
    BY <1>3, <2>1, <2>2, InvalidateIInv DEF Invalidate
  <2>3. CASE req[p].table = {}
    <3>1. UnusedOf(req[p].user, {}) = {}
      BY DEF UnusedOf
    <3>2. req' = Lateness(Goto(p, "create"), {}) /\ redeemed' = redeemed
      BY <1>3, <2>3, <3>1 DEF Invalidate, InvalidateUnused
    <3>3. link' = link
      BY <1>3, <2>3, <3>1 DEF Invalidate, InvalidateUnused, IInv, Shapes
    <3>4. Goto(p, "create") \in [Procs -> Request]
      BY GotoShape DEF IInv
    <3>5. req' = Goto(p, "create")
      BY <3>2, <3>4 DEF Lateness
    <3>6. Holds(p)'
      BY <3>5, <2>1, GotoShape DEF Holds, IInv
    <3>7. \A q \in Procs \ {p} : req'[q] = req[q]
      BY <3>5, GotoShape DEF IInv
    <3> QED  BY <3>2, <3>3, <3>4, <3>5, <3>6, <3>7, OneRequest
  <2> QED  BY <2>2, <2>3 DEF IInv, Shapes, Request
<1>4. ASSUME NEW p \in Procs, DeleteVoidVerify(p) \/ DeleteVoidReset(p)
      PROVE  IInv'
  <2>1. req[p].user \in Users
    BY <1>4 DEF DeleteVoidVerify, DeleteVoidReset, At, IInv, Holds
  <2> QED  BY <1>4, <2>1, InvalidateIInv DEF DeleteVoidVerify, DeleteVoidReset
<1> QED
  BY <1>1, <1>2, <1>3, <1>4, PresentIInv, LoadIInv, AbandonIInv, CreateIInv,
     RedeemIInv, EraseIInv, MailExpireIInv DEF Next

-----------------------------------------------------------------------------
(* The links of a user, and the requests that are about to add one or to    *)
(* redeem one they have checked.                                            *)

\* Links belong to accounts that were registered.
OwnersExist ==
    \A l \in Links : link[l].owner \in Users => acct[link[l].owner] # "absent"

\* A request about to issue a link has voided the others of its table, unless
\* another was issued since.
ClearFor(r) ==
    r.at = "create" /\ ~r.crossed =>
        \A l \in r.table : ~(Unused(l) /\ link[l].owner = r.user)

\* A request that redeems a verification link knows when it is too late.
LateFor(r) == r.at \in {"verifyLoad", "flag", "mark"} => Unused(r.link) \/ r.late

LInv ==
    /\ acct \in [Users -> Accounts]
    /\ OwnersExist
    /\ \A p \in Procs : ClearFor(req[p]) /\ LateFor(req[p])
    /\ OneOpenLink

\* It holds of empty tables.
LEMMA InitLInv == Init => LInv
<1> SUFFICES ASSUME Init PROVE LInv
  OBVIOUS
<1>1. \A l \in Links : link[l] = Blank("unissued")
  BY DEF Init
<1>2. \A l \in Links : ~Unused(l) /\ link[l].owner \notin Users
  BY <1>1, NoneIsFresh DEF Unused, Blank
<1>3. OwnersExist
  BY <1>2 DEF OwnersExist
<1>4. OneOpenLink
  BY <1>2 DEF OneOpenLink, UnusedOf, Links
<1>5. \A p \in Procs : ClearFor(req[p]) /\ LateFor(req[p])
  BY DEF Init, Idle, ClearFor, LateFor
<1>6. acct \in [Users -> Accounts]
  BY DEF Init, Accounts
<1> QED  BY <1>3, <1>4, <1>5, <1>6 DEF LInv

\* A step that issues no link and makes no account absent: the request that takes
\* it is to be looked at, and that the others learn what they have missed.
LEMMA Shrinks ==
  ASSUME IInv, LInv, NEW p \in Procs, acct' \in [Users -> Accounts],
         \A u \in Users : acct'[u] = "absent" => acct[u] = "absent",
         \A l \in Links :
            /\ link'[l].st = "unused" => /\ Unused(l)
                                         /\ link'[l].owner = link[l].owner
                                         /\ link'[l].crossed = link[l].crossed
            /\ link'[l].owner \in {link[l].owner, None},
         \A q \in Procs \ {p} :
            /\ req'[q].at = req[q].at /\ req'[q].user = req[q].user
            /\ req'[q].table = req[q].table /\ req'[q].link = req[q].link
            /\ req'[q].crossed = req[q].crossed
            /\ req[q].late => req'[q].late
            /\ req[q].link \in Links /\ Unused(req[q].link) =>
                  link'[req[q].link].st = "unused" \/ req'[q].late,
         \A q \in Procs : req[q].table \in {ResetLinks, VerifyLinks, {}},
         ClearFor(req[p])', LateFor(req[p])'
  PROVE  LInv'
<1>1. OwnersExist'
  <2> SUFFICES ASSUME NEW l \in Links, link'[l].owner \in Users
               PROVE acct'[link'[l].owner] # "absent"
    BY DEF OwnersExist
  <2>1. link'[l].owner = link[l].owner
    BY NoneIsFresh
  <2> QED  BY <2>1 DEF LInv, OwnersExist
<1>2. ASSUME NEW q \in Procs \ {p} PROVE ClearFor(req[q])'
  <2>1. ClearFor(req[q]) /\ \A l \in req[q].table : l \in Links
    BY DEF LInv, Links
  <2> QED  BY <2>1 DEF ClearFor, Unused
<1>3. ASSUME NEW q \in Procs \ {p} PROVE LateFor(req[q])'
  <2>1. LateFor(req[q]) /\ (req[q].at \in {"verifyLoad", "flag", "mark"} => req[q].link \in Links)
    BY DEF LInv, IInv, Holds, Links
  <2> QED  BY <2>1 DEF LateFor, Unused
<1>4. OneOpenLink'
  <2> SUFFICES ASSUME NEW table \in {ResetLinks, VerifyLinks}, NEW u \in Users,
                      NEW l \in table, NEW k \in table, l # k,
                      link'[l].st = "unused", link'[l].owner = u,
                      link'[k].st = "unused", link'[k].owner = u
               PROVE link'[l].crossed \/ link'[k].crossed
    BY DEF OneOpenLink, UnusedOf, Unused
  <2>1. l \in Links /\ k \in Links
    BY DEF Links
  <2>2. l \in UnusedOf(u, table) /\ k \in UnusedOf(u, table)
    BY <2>1 DEF UnusedOf
  <2>3. link[l].crossed \/ link[k].crossed
    BY <2>2 DEF LInv, OneOpenLink
  <2> QED  BY <2>1, <2>3
<1> QED  BY <1>1, <1>2, <1>3, <1>4 DEF LInv

\* The same for a step that changes no link: only p is to be looked at.
LEMMA LinksKept ==
  ASSUME IInv, LInv, NEW p \in Procs, acct' \in [Users -> Accounts],
         \A u \in Users : acct'[u] = "absent" => acct[u] = "absent",
         link' = link, \A q \in Procs \ {p} : req'[q] = req[q],
         ClearFor(req[p])', LateFor(req[p])'
  PROVE  LInv'
<1>1. \A q \in Procs : req[q].table \in {ResetLinks, VerifyLinks, {}}
  BY DEF IInv, Shapes, Request
<1> QED  BY <1>1, Shrinks DEF Unused

\* A request that has just begun: a registration finds no links of its user.
LEMMA StartLInv ==
  ASSUME IInv, LInv, NEW p \in Procs, NEW u \in Users,
         Register(p, u) \/ Resend(p, u) \/ Forgot(p, u) \/ DeleteAccount(p, u)
  PROVE  LInv'
<1>1. PICK label \in {"invalidate", "create", "voidVerify", "erase"},
           table \in {ResetLinks, VerifyLinks, {}} :
         Start(p, label, u, table) /\ (label = "create" => acct[u] = "absent")
  BY DEF Register, Resend, Forgot, DeleteAccount
<1>2. /\ link' = link /\ \A q \in Procs \ {p} : req'[q] = req[q]
      /\ req'[p].at = label /\ req'[p].user = u /\ req'[p].table = table
  BY <1>1 DEF Register, Resend, Forgot, DeleteAccount, Start, Idle, IInv, Shapes, Request
<1>3. /\ acct' \in [Users -> Accounts]
      /\ \A v \in Users : acct'[v] = "absent" => acct[v] = "absent"
  BY DEF Register, Resend, Forgot, DeleteAccount, LInv, Accounts
<1>4. ClearFor(req[p])'
  <2>1. acct[u] = "absent" => \A l \in table : link[l].owner # u
    BY DEF LInv, OwnersExist, Links
  <2> QED  BY <1>1, <1>2, <2>1 DEF ClearFor, Unused
<1>5. LateFor(req[p])'
  BY <1>2 DEF LateFor
<1> QED  BY <1>2, <1>3, <1>4, <1>5, LinksKept

\* A presented link is unused.
LEMMA PresentLInv ==
  ASSUME IInv, LInv, NEW p \in Procs, NEW l \in Links, VerifyCheck(p, l) \/ ResetCheck(p, l)
  PROVE  LInv'
<1>1. PICK label \in {"verifyLoad", "resetLoad"}, table \in {VerifyLinks, ResetLinks} :
                  Present(p, l, label, table)
  BY DEF VerifyCheck, ResetCheck
<1>2. /\ link' = link /\ acct' = acct /\ \A q \in Procs \ {p} : req'[q] = req[q]
      /\ req'[p].at = label /\ req'[p].link = l /\ Unused(l)
  BY <1>1 DEF Present, Idle, IInv, Shapes, Request
<1>3. ClearFor(req[p])' /\ LateFor(req[p])'
  BY <1>2 DEF ClearFor, LateFor, Unused
<1> QED  BY <1>2, <1>3, LinksKept DEF LInv

\* A loaded user leaves what the request knows of its link.
LEMMA LoadLInv ==
  ASSUME IInv, LInv, NEW p \in Procs, VerifyLoad(p) \/ VerifyFlag(p) \/ ResetLoad(p)
  PROVE  LInv'
<1>1. PICK label \in {"mark", "flag", "reset"} :
         req' = Goto(p, label) /\ (label # "reset" => req[p].at \in {"verifyLoad", "flag"})
  BY DEF VerifyLoad, VerifyFlag, ResetLoad, At
<1>2. /\ link' = link /\ \A q \in Procs \ {p} : req'[q] = req[q]
      /\ req'[p].at = label /\ req'[p].link = req[p].link /\ req'[p].late = req[p].late
  BY <1>1, GotoShape DEF VerifyLoad, VerifyFlag, ResetLoad, IInv
<1>3. /\ acct' \in [Users -> Accounts]
      /\ \A v \in Users : acct'[v] = "absent" => acct[v] = "absent"
  BY DEF VerifyLoad, VerifyFlag, ResetLoad, LInv, Accounts
<1>4. ClearFor(req[p])' /\ LateFor(req[p])'
  BY <1>1, <1>2 DEF LInv, ClearFor, LateFor, Unused
<1> QED  BY <1>2, <1>3, <1>4, LinksKept

\* A request that ends, mailing included, and a link that expires.
LEMMA QuietLInv ==
  ASSUME IInv, LInv,
         \/ \E p \in Procs : Abandon(p) \/ Mail(p)
         \/ \E l \in Links : Expire(l)
  PROVE  LInv'
<1>1. \A q \in Procs : req[q].table \in {ResetLinks, VerifyLinks, {}}
  BY DEF IInv, Shapes, Request
<1>2. CASE \E l \in Links : Expire(l)
  <2>1. PICK l \in Links : Expire(l)
    BY <1>2
  <2>2. acct' = acct /\ req' = req
    BY <2>1 DEF Expire
  <2>3. \A k \in Links : /\ link'[k].st = link[k].st /\ link'[k].owner = link[k].owner
                         /\ link'[k].crossed = link[k].crossed
    BY <2>1 DEF Expire, IInv, Shapes, LinkRow
  <2>4. OwnersExist'
    BY <2>2, <2>3 DEF LInv, OwnersExist
  <2>5. ASSUME NEW q \in Procs PROVE ClearFor(req[q])'
    <3>1. ClearFor(req[q]) /\ \A k \in req[q].table : k \in Links
      BY <1>1 DEF LInv, Links
    <3> QED  BY <2>2, <2>3, <3>1 DEF ClearFor, Unused
  <2>6. ASSUME NEW q \in Procs PROVE LateFor(req[q])'
    <3>1. LateFor(req[q]) /\ (req[q].at \in {"verifyLoad", "flag", "mark"} => req[q].link \in Links)
      BY DEF LInv, IInv, Holds, Links
    <3> QED  BY <2>2, <2>3, <3>1 DEF LateFor, Unused
  <2>7. OneOpenLink'
    BY <2>3 DEF LInv, OneOpenLink, UnusedOf, Unused, Links
  <2> QED  BY <2>2, <2>4, <2>5, <2>6, <2>7 DEF LInv
<1>3. ASSUME NEW p \in Procs, Abandon(p) \/ Mail(p) PROVE LInv'
  <2>1. req' = [req EXCEPT ![p] = Idle] /\ acct' = acct
    BY <1>3 DEF Abandon, Mail, Done
  <2>2. req'[p].at = "idle" /\ \A q \in Procs \ {p} : req'[q] = req[q]
    BY <2>1 DEF Idle, IInv, Shapes
  <2>3. ClearFor(req[p])' /\ LateFor(req[p])'
    BY <2>2 DEF ClearFor, LateFor
  <2>4. CASE Abandon(p)
    BY <2>1, <2>2, <2>3, <2>4, LinksKept DEF Abandon, LInv
  <2>5. CASE Mail(p)
    <3>1. link' = link \/ link' = [link EXCEPT ![req[p].link].mailed = TRUE]
      BY <2>5 DEF Mail
    <3>2. req[p].link \in Links
      BY <2>5 DEF Mail, At, IInv, Holds
    <3>3. \A k \in Links : /\ link'[k].st = link[k].st /\ link'[k].owner = link[k].owner
                           /\ link'[k].crossed = link[k].crossed
      BY <3>1, <3>2 DEF IInv, Shapes, LinkRow
    <3>4. ASSUME NEW q \in Procs \ {p}, req[q].link \in Links, Unused(req[q].link)
          PROVE  link'[req[q].link].st = "unused"
      BY <3>3, <3>4 DEF Unused
    <3> QED  BY <1>1, <2>1, <2>2, <2>3, <3>3, <3>4, Shrinks DEF LInv, Unused
  <2> QED  BY <1>3, <2>4, <2>5
<1> QED  BY <1>2, <1>3

\* Voiding the unused links of a user in one table: a request that goes on to issue
\* one finds none, and those that hold one of them are late.
LEMMA InvalidateLInv ==
  ASSUME IInv, LInv, NEW p \in Procs, NEW table \in {ResetLinks, VerifyLinks, {}},
         NEW label \in {"create", "voidReset", "erase"},
         label = "create" => table = req[p].table,
         InvalidateUnused(p, table, label)
  PROVE  LInv'
<1> DEFINE S == UnusedOf(req[p].user, table)
<1>1. /\ link' = [l \in Links |-> IF l \in S THEN [link[l] EXCEPT !.st = "used"]
                                  ELSE link[l]]
      /\ req' = Lateness(Goto(p, label), S) /\ acct' = acct
  BY DEF InvalidateUnused
<1>2. Goto(p, label) \in [Procs -> Request]
  BY GotoShape DEF IInv
<1>3. \A q \in Procs :
         /\ req'[q].at = Goto(p, label)[q].at /\ req'[q].user = Goto(p, label)[q].user
         /\ req'[q].table = Goto(p, label)[q].table /\ req'[q].link = Goto(p, label)[q].link
         /\ req'[q].crossed = Goto(p, label)[q].crossed
         /\ Goto(p, label)[q].late => req'[q].late
         /\ Goto(p, label)[q].link \in S => req'[q].late
  BY <1>1, <1>2, LatenessGhost
<1>4. \A q \in Procs \ {p} : Goto(p, label)[q] = req[q]
  BY GotoShape DEF IInv
<1>5. \A l \in Links :
         /\ link'[l].owner = link[l].owner /\ link'[l].crossed = link[l].crossed
         /\ l \in S => link'[l].st = "used"
         /\ l \notin S => link'[l].st = link[l].st
  BY <1>1 DEF IInv, Shapes, LinkRow
<1>6. ClearFor(req[p])' /\ LateFor(req[p])'
  <2>1. /\ Goto(p, label)[p].at = label /\ Goto(p, label)[p].user = req[p].user
        /\ Goto(p, label)[p].table = req[p].table
    BY GotoShape DEF IInv
  <2>2. req'[p].at = label /\ req'[p].user = req[p].user /\ req'[p].table = req[p].table
    BY <1>3, <2>1
  <2>3. \A l \in table : l \in Links
    BY DEF Links
  <2>4. \A l \in table : ~(link'[l].st = "unused" /\ link'[l].owner = req[p].user)
    BY <1>5, <2>3 DEF UnusedOf, Unused
  <2> QED  BY <2>2, <2>4 DEF ClearFor, LateFor, Unused
<1>7. \A q \in Procs : req[q].table \in {ResetLinks, VerifyLinks, {}}
  BY DEF IInv, Shapes, Request
<1>8. ASSUME NEW l \in Links
      PROVE  /\ link'[l].st = "unused" => /\ Unused(l)
                                          /\ link'[l].owner = link[l].owner
                                          /\ link'[l].crossed = link[l].crossed
             /\ link'[l].owner \in {link[l].owner, None}
  BY <1>5 DEF Unused
<1>9. ASSUME NEW q \in Procs \ {p}
      PROVE  /\ req'[q].at = req[q].at /\ req'[q].user = req[q].user
             /\ req'[q].table = req[q].table /\ req'[q].link = req[q].link
             /\ req'[q].crossed = req[q].crossed
             /\ req[q].late => req'[q].late
             /\ req[q].link \in Links /\ Unused(req[q].link) =>
                   link'[req[q].link].st = "unused" \/ req'[q].late
  BY <1>3, <1>4, <1>5 DEF Unused
<1>10. acct' \in [Users -> Accounts] /\ \A u \in Users : acct'[u] = "absent" => acct[u] = "absent"
  BY <1>1 DEF LInv
<1> QED  BY <1>6, <1>7, <1>8, <1>9, <1>10, Shrinks

\* A request that ends with links used or erased tells those that hold them.
LEMMA EndingLInv ==
  ASSUME IInv, LInv, NEW p \in Procs, NEW S,
         acct' \in [Users -> Accounts],
         \A u \in Users : acct'[u] = "absent" => acct[u] = "absent",
         req' = Lateness([req EXCEPT ![p] = Idle], S),
         \A l \in Links :
            /\ link'[l].owner \in {link[l].owner, None}
            /\ l \in S => link'[l].st # "unused"
            /\ l \notin S => link'[l] = link[l]
  PROVE  LInv'
<1> DEFINE ended == [req EXCEPT ![p] = Idle]
<1>1. /\ ended \in [Procs -> Request] /\ ended[p].at = "idle"
      /\ \A q \in Procs \ {p} : ended[q] = req[q]
  BY DEF IInv, Shapes, Idle, Request
<1>2. req' = Lateness(ended, S)
  OBVIOUS
<1>3. \A q \in Procs :
         /\ req'[q].at = ended[q].at /\ req'[q].user = ended[q].user
         /\ req'[q].table = ended[q].table /\ req'[q].link = ended[q].link
         /\ req'[q].crossed = ended[q].crossed
         /\ ended[q].late => req'[q].late
         /\ ended[q].link \in S => req'[q].late
  <2> HIDE DEF ended
  <2> QED  BY <1>1, <1>2, LatenessGhost
<1> HIDE DEF ended
<1>4. ClearFor(req[p])' /\ LateFor(req[p])'
  BY <1>1, <1>3 DEF ClearFor, LateFor
<1>5. \A q \in Procs : req[q].table \in {ResetLinks, VerifyLinks, {}}
  BY DEF IInv, Shapes, Request
<1>6. ASSUME NEW q \in Procs \ {p}
      PROVE  /\ req'[q].at = req[q].at /\ req'[q].user = req[q].user
             /\ req'[q].table = req[q].table /\ req'[q].link = req[q].link
             /\ req'[q].crossed = req[q].crossed
             /\ req[q].late => req'[q].late
             /\ req[q].link \in Links /\ Unused(req[q].link) =>
                   link'[req[q].link].st = "unused" \/ req'[q].late
  <2>1. ended[q] = req[q]
    BY <1>1
  <2>2. /\ req'[q].at = req[q].at /\ req'[q].user = req[q].user
        /\ req'[q].table = req[q].table /\ req'[q].link = req[q].link
        /\ req'[q].crossed = req[q].crossed
        /\ req[q].late => req'[q].late
        /\ req[q].link \in S => req'[q].late
    <3>1. /\ req'[q].at = ended[q].at /\ req'[q].user = ended[q].user
          /\ req'[q].table = ended[q].table /\ req'[q].link = ended[q].link
          /\ req'[q].crossed = ended[q].crossed
          /\ ended[q].late => req'[q].late
          /\ ended[q].link \in S => req'[q].late
      BY <1>3, Zenon
    <3> QED  BY <2>1, <3>1, Zenon
  <2>3. ASSUME req[q].link \in Links, Unused(req[q].link), req[q].link \notin S
        PROVE  link'[req[q].link].st = "unused"
    BY <2>3 DEF Unused
  <2> QED  BY <2>2, <2>3
<1>7. \A l \in Links : link'[l].st = "unused" => /\ Unused(l)
                                                 /\ link'[l].owner = link[l].owner
                                                 /\ link'[l].crossed = link[l].crossed
  BY DEF Unused
<1> QED  BY <1>4, <1>5, <1>6, <1>7, Shrinks

\* A redemption and an erasure are such ends.
LEMMA RedeemLInv ==
  ASSUME IInv, LInv, NEW p \in Procs,
         VerifyMark(p) \/ ResetCommit(p) \/ DeleteErase(p)
  PROVE  LInv'
<1>1. CASE VerifyMark(p) \/ ResetCommit(p)
  <2>1. /\ link' = [link EXCEPT ![req[p].link].st = "used"] /\ acct' = acct
        /\ req' = Lateness([req EXCEPT ![p] = Idle], {req[p].link})
    BY <1>1 DEF VerifyMark, ResetCommit
  <2>2. \A l \in Links :
           /\ link'[l].owner \in {link[l].owner, None}
           /\ l \in {req[p].link} => link'[l].st # "unused"
           /\ l \notin {req[p].link} => link'[l] = link[l]
    BY <2>1 DEF IInv, Shapes, LinkRow
  <2> QED  BY <2>1, <2>2, EndingLInv DEF LInv
<1>2. CASE DeleteErase(p)
  <2> DEFINE S == {l \in Links : link[l].owner = req[p].user}
  <2>1. /\ link' = [l \in Links |-> IF l \in S THEN Blank("gone") ELSE link[l]]
        /\ acct' = [acct EXCEPT ![req[p].user] = "deleted"]
        /\ req' = Lateness([req EXCEPT ![p] = Idle], S)
    BY <1>2 DEF DeleteErase
  <2>2. \A l \in Links :
           /\ link'[l].owner \in {link[l].owner, None}
           /\ l \in S => link'[l].st # "unused"
           /\ l \notin S => link'[l] = link[l]
    BY <2>1 DEF Blank
  <2>3. /\ acct' \in [Users -> Accounts]
        /\ \A u \in Users : acct'[u] = "absent" => acct[u] = "absent"
    BY <2>1 DEF LInv, Accounts
  <2> HIDE DEF S
  <2> QED  BY <2>1, <2>2, <2>3, EndingLInv
<1> QED  BY <1>1, <1>2

\* A link that is issued is the only one, or was crossed; the requests that are
\* about to issue another are told.
LEMMA CreateLInv ==
  ASSUME IInv, LInv, NEW p \in Procs, NEW l \in Links, Create(p, l)
  PROVE  LInv'
<1> DEFINE u == req[p].user
           row == [Blank("unused") EXCEPT !.owner = u, !.crossed = req[p].crossed]
<1>1. /\ req[p].at = "create" /\ l \in req[p].table /\ u \in Users /\ acct[u] # "absent"
      /\ link' = [link EXCEPT ![l] = row] /\ acct' = acct
      /\ ~Unused(l)
  BY DEF Create, At, Exists, Unused, IInv, Holds
<1>2. row.st = "unused" /\ row.owner = u /\ row.crossed = req[p].crossed
  BY DEF Blank
<1>3. link'[l] = row /\ \A k \in Links \ {l} : link'[k] = link[k]
  BY <1>1 DEF IInv, Shapes
<1>4. \A q \in Procs \ {p} :
         /\ req'[q].at = req[q].at /\ req'[q].user = req[q].user
         /\ req'[q].table = req[q].table /\ req'[q].link = req[q].link
         /\ req'[q].late = req[q].late
         /\ ~req'[q].crossed =>
               /\ ~req[q].crossed
               /\ ~(req[q].at = "create" /\ req[q].user = u /\ req[q].table = req[p].table)
  BY DEF Create, At, IInv, Shapes, Request
<1>5. req'[p].at = "mail"
  BY DEF Create, IInv, Shapes, Request
<1>6. \A q \in Procs : req[q].table \in {ResetLinks, VerifyLinks, {}}
  BY DEF IInv, Shapes, Request
<1> HIDE DEF row, u
<1>7. OwnersExist'
  BY <1>1, <1>2, <1>3 DEF LInv, OwnersExist
<1>8. ASSUME NEW q \in Procs PROVE ClearFor(req[q])'
  <2>1. CASE q = p
    BY <1>5, <2>1 DEF ClearFor
  <2>2. CASE q # p
    <3> SUFFICES ASSUME req[q].at = "create", ~req'[q].crossed, NEW k \in req[q].table
                 PROVE ~(link'[k].st = "unused" /\ link'[k].owner = req[q].user)
      BY <1>4, <2>2 DEF ClearFor, Unused
    <3>1. k \in Links /\ (k = l => req[q].table = req[p].table)
      BY <1>1, <1>6, TablesAreDisjoint DEF Links
    <3>2. ~req[q].crossed /\ (k = l => req[q].user # u)
      BY <1>4, <2>2, <3>1
    <3>3. ~(Unused(k) /\ link[k].owner = req[q].user)
      BY <3>2 DEF LInv, ClearFor
    <3> QED  BY <1>2, <1>3, <3>1, <3>2, <3>3 DEF Unused
  <2> QED  BY <2>1, <2>2
<1>9. ASSUME NEW q \in Procs PROVE LateFor(req[q])'
  <2>1. CASE q = p
    BY <1>5, <2>1 DEF LateFor
  <2>2. CASE q # p
    <3>1. LateFor(req[q]) /\ (req[q].at \in {"verifyLoad", "flag", "mark"} => req[q].link \in Links)
      BY DEF LInv, IInv, Holds, Links
    <3> QED  BY <1>2, <1>3, <1>4, <2>2, <3>1 DEF LateFor, Unused
  <2> QED  BY <2>1, <2>2
<1>10. OneOpenLink'
  <2> SUFFICES ASSUME NEW table \in {ResetLinks, VerifyLinks}, NEW v \in Users,
                      NEW j \in table, NEW k \in table, j # k,
                      link'[j].st = "unused", link'[j].owner = v,
                      link'[k].st = "unused", link'[k].owner = v
               PROVE link'[j].crossed \/ link'[k].crossed
    BY DEF OneOpenLink, UnusedOf, Unused
  <2>1. j \in Links /\ k \in Links
    BY DEF Links
  <2>2. ASSUME NEW i \in table, i # l, l \in table, link'[i].st = "unused",
               link'[i].owner = u, ~req[p].crossed
        PROVE  FALSE
    <3>1. req[p].table = table
      BY <1>1, <1>6, <2>2, TablesAreDisjoint
    <3>2. i \in Links /\ Unused(i) /\ link[i].owner = u
      BY <1>3, <2>2 DEF Links, Unused
    <3> QED  BY <1>1, <2>2, <3>1, <3>2 DEF LInv, ClearFor, u
  <2>3. CASE j = l
    BY <1>2, <1>3, <2>2, <2>3
  <2>4. CASE k = l
    BY <1>2, <1>3, <2>2, <2>4
  <2>5. CASE j # l /\ k # l
    <3>1. j \in UnusedOf(v, table) /\ k \in UnusedOf(v, table)
      BY <1>3, <2>1, <2>5 DEF UnusedOf, Unused
    <3>2. link[j].crossed \/ link[k].crossed
      BY <3>1 DEF LInv, OneOpenLink
    <3> QED  BY <1>3, <2>1, <2>5, <3>2
  <2> QED  BY <2>3, <2>4, <2>5
<1>11. acct' \in [Users -> Accounts]
  BY <1>1 DEF LInv
<1> QED  BY <1>7, <1>8, <1>9, <1>10, <1>11 DEF LInv

\* LInv is inductive, given IInv.
LEMMA NextLInv == IInv /\ LInv /\ [Next]_vars => LInv'
<1> SUFFICES ASSUME IInv, LInv, [Next]_vars PROVE LInv'
  OBVIOUS
<1>1. CASE UNCHANGED vars
  <2>1. acct' = acct /\ link' = link /\ req' = req
    BY <1>1 DEF vars
  <2>2. OwnersExist' /\ OneOpenLink'
    BY <2>1 DEF LInv, OwnersExist, OneOpenLink, UnusedOf, Unused
  <2>3. \A p \in Procs : ClearFor(req[p])' /\ LateFor(req[p])'
    BY <2>1 DEF LInv, ClearFor, LateFor, Unused
  <2> QED  BY <2>1, <2>2, <2>3 DEF LInv
<1>2. ASSUME NEW p \in Procs, Invalidate(p) \/ DeleteVoidVerify(p) \/ DeleteVoidReset(p)
      PROVE  LInv'
  <2>1. req[p].table \in {ResetLinks, VerifyLinks, {}}
    BY DEF IInv, Shapes, Request
  <2> QED  BY <1>2, <2>1, InvalidateLInv DEF Invalidate, DeleteVoidVerify, DeleteVoidReset
<1> QED
  BY <1>1, <1>2, StartLInv, PresentLInv, LoadLInv, QuietLInv, CreateLInv, RedeemLInv DEF Next

-----------------------------------------------------------------------------
(* The refinement. *)

F == [l \in ResetLinks |-> Fate(l)]

\* What the abstract specification sees of a row.
LEMMA FateCases ==
  ASSUME NEW l
  PROVE  /\ link[l].st = "unissued" => Fate(l) = "unissued"
         /\ link[l].st = "unused" => Fate(l) = "open"
         /\ link[l].st \notin {"unissued", "unused"} =>
               Fate(l) = IF redeemed[l] > 0 THEN "redeemed" ELSE "void"
BY DEF Fate

\* The same after the step.
LEMMA FateCasesNext ==
  ASSUME NEW l
  PROVE  /\ link'[l].st = "unissued" => Fate(l)' = "unissued"
         /\ link'[l].st = "unused" => Fate(l)' = "open"
         /\ link'[l].st \notin {"unissued", "unused"} =>
               Fate(l)' = IF redeemed'[l] > 0 THEN "redeemed" ELSE "void"
BY DEF Fate

\* Rows whose is_used and redemptions a step leaves alone keep their fate.
LEMMA SameFate ==
  ASSUME NEW l, link'[l].st = link[l].st, redeemed'[l] = redeemed[l]
  PROVE  Fate(l)' = Fate(l)
BY FateCases, FateCasesNext

\* A step that marks or erases open links, and touches no redemption, voids them.
LEMMA Voiding ==
  ASSUME IInv, NEW S \in SUBSET ResetLinks,
         redeemed' = redeemed,
         \A l \in S : link[l].st = "unused" /\ link'[l].st \in {"used", "gone"},
         \A l \in ResetLinks \ S :
            \/ link'[l].st = link[l].st
            \/ link[l].st \in {"used", "gone"} /\ link'[l].st \in {"used", "gone"}
  PROVE  Reset!Void(S)
<1>1. ASSUME NEW l \in S PROVE Fate(l) = "open" /\ Fate(l)' = "void"
  BY <1>1, FateCases, FateCasesNext DEF IInv, Unspent
<1>2. ASSUME NEW l \in ResetLinks \ S PROVE Fate(l)' = Fate(l)
  BY <1>2, FateCases, FateCasesNext
<1> QED  BY <1>1, <1>2 DEF Reset!Void

\* Every step is an abstract step or a stutter.
LEMMA StepRefines ==
  ASSUME IInv, [Next]_vars
  PROVE  [Reset!Next]_F
<1> USE DEF F
<1>1. ASSUME UNCHANGED <<link, redeemed>> PROVE F' = F
  BY <1>1, SameFate
<1>2. ASSUME NEW p \in Procs, NEW u \in Users,
             Register(p, u) \/ Resend(p, u) \/ Forgot(p, u) \/ DeleteAccount(p, u)
      PROVE  UNCHANGED <<link, redeemed>>
  BY <1>2 DEF Register, Resend, Forgot, DeleteAccount
<1>3. ASSUME NEW p \in Procs, NEW l \in Links, VerifyCheck(p, l) \/ ResetCheck(p, l)
      PROVE  UNCHANGED <<link, redeemed>>
  BY <1>3 DEF VerifyCheck, ResetCheck, Present
<1>4. ASSUME NEW p \in Procs,
             VerifyLoad(p) \/ VerifyFlag(p) \/ ResetLoad(p) \/ Abandon(p)
      PROVE  UNCHANGED <<link, redeemed>>
  BY <1>4 DEF VerifyLoad, VerifyFlag, ResetLoad, Abandon
<1>5. ASSUME NEW p \in Procs, NEW table, NEW label, InvalidateUnused(p, table, label)
      PROVE  Reset!Next
  <2> DEFINE S == UnusedOf(req[p].user, table) \cap ResetLinks
  <2>1. /\ redeemed' = redeemed
        /\ \A l \in S : link[l].st = "unused" /\ link'[l].st = "used"
        /\ \A l \in ResetLinks \ S : link'[l].st = link[l].st
    BY <1>5 DEF InvalidateUnused, UnusedOf, Unused, Links, IInv, Shapes, LinkRow
  <2>2. Reset!Void(S)
    BY <2>1, Voiding
  <2> QED  BY <2>2 DEF Reset!Next
<1>6. ASSUME NEW p \in Procs, NEW l \in Links, Create(p, l)
      PROVE  Reset!Next \/ F' = F
  <2>1. /\ link[l].st = "unissued" /\ link'[l].st = "unused"
        /\ redeemed' = redeemed
        /\ \A k \in Links \ {l} : link'[k] = link[k]
    BY <1>6 DEF Create, Blank, IInv, Shapes
  <2>2. \A k \in ResetLinks \ {l} : Fate(k)' = Fate(k)
    BY <2>1, SameFate DEF Links
  <2>3. CASE l \in ResetLinks
    <3>1. Fate(l) = "unissued" /\ Fate(l)' = "open"
      BY <2>1, FateCases, FateCasesNext
    <3>2. Reset!Issue(l)
      BY <2>2, <2>3, <3>1 DEF Reset!Issue
    <3> QED  BY <2>3, <3>2 DEF Reset!Next
  <2>4. CASE l \notin ResetLinks
    BY <2>2, <2>4
  <2> QED  BY <2>3, <2>4
<1>7. ASSUME NEW l \in Links, NEW row,
             row.st = link[l].st, link' = link \/ link' = [link EXCEPT ![l] = row],
             redeemed' = redeemed
      PROVE  F' = F
  <2>1. \A k \in ResetLinks : link'[k].st = link[k].st
    BY <1>7 DEF IInv, Shapes, Links
  <2> QED  BY <1>7, <2>1, SameFate
<1>8. ASSUME NEW p \in Procs, Mail(p) PROVE F' = F
  <2>1. req[p].link \in Links
    BY <1>8 DEF Mail, At, IInv, Holds
  <2>2. [link[req[p].link] EXCEPT !.mailed = TRUE].st = link[req[p].link].st
    BY <2>1 DEF IInv, Shapes, LinkRow
  <2> QED  BY <1>7, <1>8, <2>1, <2>2 DEF Mail
<1>9. ASSUME NEW l \in Links, Expire(l) PROVE F' = F
  <2>1. [link[l] EXCEPT !.expired = TRUE].st = link[l].st
    BY DEF IInv, Shapes, LinkRow
  <2> QED  BY <1>7, <1>9, <2>1 DEF Expire
<1>10. ASSUME NEW p \in Procs, VerifyMark(p) PROVE F' = F
  <2>1. req[p].link \in VerifyLinks
    BY <1>10 DEF VerifyMark, At, IInv, Holds
  <2>2. \A l \in ResetLinks : link'[l] = link[l] /\ redeemed'[l] = redeemed[l]
    BY <1>10, <2>1, TablesAreDisjoint DEF VerifyMark, IInv, Shapes, Links
  <2> QED  BY <2>2, SameFate
<1>11. ASSUME NEW p \in Procs, ResetCommit(p) PROVE Reset!Next
  <2>1. PICK l \in ResetLinks : l = req[p].link /\ link[l].st = "unused"
    BY <1>11 DEF ResetCommit, At, Unused, IInv, Holds
  <2>2. /\ link'[l].st = "used" /\ redeemed'[l] = redeemed[l] + 1
        /\ \A k \in Links \ {l} : link'[k] = link[k] /\ redeemed'[k] = redeemed[k]
    BY <1>11, <2>1 DEF ResetCommit, IInv, Shapes, LinkRow, Links
  <2>3. redeemed[l] = 0
    BY <2>1 DEF IInv, Unspent
  <2>4. Fate(l) = "open" /\ Fate(l)' = "redeemed"
    BY <2>1, <2>2, <2>3, FateCases, FateCasesNext
  <2>5. \A k \in ResetLinks \ {l} : Fate(k)' = Fate(k)
    BY <2>2, SameFate DEF Links
  <2>6. Reset!Redeem(l)
    BY <2>1, <2>4, <2>5 DEF Reset!Redeem
  <2> QED  BY <2>1, <2>6 DEF Reset!Next
<1>12. ASSUME NEW p \in Procs, DeleteErase(p) PROVE Reset!Next
  <2> DEFINE S == {l \in ResetLinks : link[l].owner = req[p].user /\ Unused(l)}
  <2>1. req[p].user \in Users
    BY <1>12 DEF DeleteErase, At, IInv, Holds
  <2>2. ASSUME NEW l \in ResetLinks \ S
        PROVE  \/ link'[l].st = link[l].st
               \/ link[l].st \in {"used", "gone"} /\ link'[l].st \in {"used", "gone"}
    <3>1. link'[l] = link[l] \/ (link[l].owner = req[p].user /\ link'[l].st = "gone")
      BY <1>12 DEF DeleteErase, Blank, Links
    <3>2. link[l].st = "unissued" => link[l].owner # req[p].user
      BY <2>1, NoneIsFresh DEF IInv, Unspent
    <3>3. link[l].st \in {"unissued", "unused", "used", "gone"}
      BY DEF IInv, Shapes, LinkRow, Links
    <3> QED  BY <3>1, <3>2, <3>3 DEF Unused
  <2>3. \A l \in S : link[l].st = "unused" /\ link'[l].st = "gone"
    BY <1>12 DEF DeleteErase, Blank, Links, Unused
  <2>4. redeemed' = redeemed
    BY <1>12 DEF DeleteErase
  <2>5. Reset!Void(S)
    BY <2>2, <2>3, <2>4, Voiding
  <2> QED  BY <2>5 DEF Reset!Next
<1>13. CASE UNCHANGED vars
  BY <1>1, <1>13 DEF vars
<1> QED
  BY <1>1, <1>2, <1>3, <1>4, <1>5, <1>6, <1>8, <1>9, <1>10, <1>11, <1>12, <1>13
     DEF Next, Invalidate, DeleteVoidVerify, DeleteVoidReset

\* Empty tables are unissued links.
LEMMA InitRefines == Init => Reset!Init
BY FateCases DEF Init, Reset!Init, Links, Blank

\* In every behaviour the invariant holds.
THEOREM Invariant == Spec => []IInv
BY InitIInv, NextIInv, PTL DEF Spec

\* However many requests present, void and redeem links at once, a reset link is
\* redeemed at most once and never after it was voided (reset_password).
THEOREM ResetRefines == Spec => ResetIsOneTime
<1>1. IInv /\ [Next]_vars => [Reset!Next]_F
  BY StepRefines
<1> QED  BY Invariant, InitRefines, <1>1, PTL DEF Spec, ResetIsOneTime, Reset!Spec, F

\* Every variable keeps its type.
THEOREM TypeCorrect == Spec => []TypeOK
<1>1. IInv /\ LInv => TypeOK
  BY DEF IInv, LInv, Shapes, TypeOK
<1> QED  BY Invariant, InitLInv, NextLInv, <1>1, PTL DEF Spec

\* Issuing voids what was issued before: a user has one redeemable link in a table,
\* except for links whose issuing requests crossed (invalidate_unused_tokens).
THEOREM OneLinkAtATime == Spec => []OneOpenLink
<1>1. LInv => OneOpenLink
  BY DEF LInv
<1> QED  BY Invariant, InitLInv, NextLInv, <1>1, PTL DEF Spec

\* A link that is no longer unused is redeemed only by a verification that had
\* checked it when it was (mark_as_used).
THEOREM LateOnly == Spec => UsedLinksAdmitNobody
<1> DEFINE Late == \A l \in Links :
                     redeemed'[l] # redeemed[l] =>
                        \/ Unused(l)
                        \/ \E p \in Procs : req[p].link = l /\ req[p].late /\ At(p, "mark")
<1>1. ASSUME IInv, LInv, [Next]_vars PROVE Late
  <2> SUFFICES ASSUME NEW l \in Links, redeemed'[l] # redeemed[l], ~Unused(l)
               PROVE \E p \in Procs : req[p].link = l /\ req[p].late /\ At(p, "mark")
    OBVIOUS
  <2>1. redeemed' # redeemed
    OBVIOUS
  <2>2. PICK p \in Procs : VerifyMark(p) \/ ResetCommit(p)
    BY <1>1, <2>1
       DEF Next, vars, Register, Resend, Forgot, DeleteAccount, Create, VerifyCheck,
           ResetCheck, Present, Invalidate, InvalidateUnused, Mail, VerifyLoad, VerifyFlag,
           ResetLoad, DeleteVoidVerify, DeleteVoidReset, DeleteErase, Abandon, Expire
  <2>3. redeemed' = [redeemed EXCEPT ![req[p].link] = @ + 1]
    BY <2>2 DEF VerifyMark, ResetCommit
  <2>4. l = req[p].link
    BY <1>1, <2>3 DEF IInv, Shapes
  <2>5. ~ResetCommit(p)
    BY <2>4 DEF ResetCommit
  <2>6. At(p, "mark")
    BY <2>2, <2>5 DEF VerifyMark
  <2> QED  BY <1>1, <2>4, <2>6 DEF LInv, LateFor, At
<1>2. IInv /\ LInv /\ [Next]_vars => [Late]_vars
  BY <1>1
<1> QED  BY Invariant, InitLInv, NextLInv, <1>2, PTL DEF Spec, UsedLinksAdmitNobody
===============================================================================
