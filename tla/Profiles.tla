------------------------------- MODULE Profiles -------------------------------
(***************************************************************************)
(* The user service: profiles, which a first update creates, their public  *)
(* handles and pages, the completion score, the statistics read from the   *)
(* AI service's tables, and the avatars, whose image lies in an object     *)
(* store while the profile keeps its URL.                                  *)
(*                                                                         *)
(* Updates are handled by threads (Clerks), each with its own database     *)
(* session and several statements per request.  The avatar handlers run to *)
(* their end on the one event loop, so at most one is under way, but       *)
(* updates and the deletion of accounts go on between its steps.           *)
(*                                                                         *)
(* A row is a function from the columns to a value or NoValue.  A stored      *)
(* object is named by its user and a serial number, as the URL that leads  *)
(* to it.                                                                  *)
(***************************************************************************)
EXTENDS Integers, FiniteSets, FiniteSetsExt, SequencesExt, Orders

CONSTANTS Members,        \* ids a request may name; some are administrators
          AdminUsers,
          Clerks,       \* threads that handle PATCH /profile
          Payloads,     \* its bodies: functions from some columns to texts
          Lower,        \* the lower case of the texts that have capitals
          Malformed,    \* the texts no validator accepts
          NoValue,         \* NULL
          MaxUploads    \* bound of the runs

ASSUME ProfilesAssumption == AdminUsers \subseteq Members /\ NoValue \notin Members
ASSUME MembersAreFinite == IsFiniteSet(Members)
ASSUME UploadsAssumption == MaxUploads \in Nat

\* The lower case of a text has no capitals, and is blank only if the text is.
ASSUME LowerAssumption ==
    \A v \in DOMAIN Lower : v # "" /\ Lower[v] \notin DOMAIN Lower \cup {"", NoValue}
ASSUME NoValueIsNoText == NoValue \notin DOMAIN Lower \cup {""}

VARIABLES row,        \* user_profiles: a row for each user, or NoValue
          born,       \* created_at, as the number of rows made before
          alive,      \* the accounts of the auth service, which rows refer to
          patch,      \* the clerks' requests
          objects,    \* the object store
          uploads,    \* keys given out so far
          avatar,     \* the avatar request under way
          failures    \* objects of which some operation failed

profileVars == <<row, born, alive, patch, objects, uploads, avatar, failures>>

RequiredFields == {"username", "first_name", "last_name", "bio", "current_status",
                   "primary_skill", "profile_picture_url"}

OptionalChecks == {{"mobile_number"}, {"college", "company"}, {"github_username"},
                   {"linkedin_url", "portfolio_url"},
                   {"leetcode_username", "hackerrank_username"}}

EditableFields == RequiredFields \cup UNION OptionalChecks
                      \cup {"current_role", "experience_years"}

\* The fields of the request bodies; a picture is only set by an upload.
PayloadFields == EditableFields \ {"profile_picture_url"}

EmptyRow == [f \in EditableFields |-> NoValue]
Key == [owner : Members, n : 1 .. MaxUploads]
NoRequest == [pc |-> "idle", target |-> NoValue, given |-> <<>>, seen |-> NoValue]
NoAvatar == [pc |-> "idle", target |-> NoValue, key |-> NoValue, previous |-> NoValue]

HasProfile(u) == row[u] # NoValue
FilledIn == {u \in Members : HasProfile(u)}
\* The id and the role are those of the access token.
IsAdmin(actor) == actor \in AdminUsers
MayAct(actor, target) == actor = target \/ IsAdmin(actor)
HolderOf(name) == {u \in FilledIn : row[u]["username"] = name}

-----------------------------------------------------------------------------
(* Validation.  Blank text is no value, and handles are kept in lower case. *)

Folded == {"username", "leetcode_username", "hackerrank_username", "github_username"}

LowerCase(v) == IF v \in DOMAIN Lower THEN Lower[v] ELSE v

Clean(f, v) ==
    CASE v = "" -> NoValue
      [] v # "" /\ f \in Folded -> LowerCase(v)
      [] OTHER -> v

\* What a column may hold, and a row; NULL is neither a row nor a key.
Texts == {NoValue} \cup Key \cup UNION {{Clean(f, p[f]) : f \in DOMAIN p} : p \in Payloads}
Row == [EditableFields -> Texts]

ASSUME PayloadsAssumption == \A p \in Payloads : DOMAIN p \subseteq PayloadFields
ASSUME NoValueIsNeither == NoValue \notin Row \cup Key

Valid(p) == \A f \in DOMAIN p : p[f] \notin Malformed
Cleaned(p) == [f \in DOMAIN p |-> Clean(f, p[f])]

-----------------------------------------------------------------------------
(* PATCH /profile                                                          *)

ProfilesInit ==
    /\ row = [u \in Members |-> NoValue]
    /\ born = [u \in Members |-> 0]
    /\ alive = Members
    /\ patch = [c \in Clerks |-> NoRequest]
    /\ objects = {} /\ failures = {} /\ uploads = 0
    /\ avatar = NoAvatar

ProfileRows == <<row, born, alive>>
Pictures == <<objects, uploads, avatar, failures>>

\* The session keeps the row as it first read it.
UpdateProfile(c, actor, u, p) ==
    /\ patch[c].pc \in {"idle", "taken"}
    /\ MayAct(actor, u) /\ Valid(p)
    /\ patch' = [patch EXCEPT ![c] =
           [pc |-> IF HasProfile(u) THEN "update" ELSE "create",
            target |-> u, given |-> Cleaned(p), seen |-> row[u]]]
    /\ UNCHANGED <<ProfileRows, Pictures>>

\* Of the answers only one is kept: that the user name is taken.
Answer(c) == patch' = [patch EXCEPT ![c] = NoRequest]
AnswerTaken(c) == patch' = [patch EXCEPT ![c] = [NoRequest EXCEPT !.pc = "taken"]]

\* A name that is given and not blank must not be somebody else's.
NameIsTaken(given, others) ==
    /\ "username" \in DOMAIN given
    /\ given["username"] # NoValue
    /\ HolderOf(given["username"]) \cap others # {}

CheckCreate(c) ==
    LET u == patch[c].target IN
    /\ patch[c].pc = "create"
    /\ CASE HasProfile(u) -> Answer(c)
         [] ~ HasProfile(u) /\ NameIsTaken(patch[c].given, Members) -> AnswerTaken(c)
         [] OTHER -> patch' = [patch EXCEPT ![c].pc = "insert"]
    /\ UNCHANGED <<ProfileRows, Pictures>>

\* Mutant of CheckUpdate: the user's own name is taken, too.
CheckUpdateOwn(c) ==
    LET u == patch[c].target IN
    /\ patch[c].pc = "update"
    /\ CASE ~ HasProfile(u) -> Answer(c)
         [] HasProfile(u) /\ NameIsTaken(patch[c].given, Members) -> AnswerTaken(c)
         [] OTHER -> patch' = [patch EXCEPT ![c].pc = "write"]
    /\ UNCHANGED <<ProfileRows, Pictures>>

CheckUpdate(c) ==
    LET u == patch[c].target IN
    /\ patch[c].pc = "update"
    /\ CASE ~ HasProfile(u) -> Answer(c)
         [] HasProfile(u) /\ NameIsTaken(patch[c].given, Members \ {u}) -> AnswerTaken(c)
         [] OTHER -> patch' = [patch EXCEPT ![c].pc = "write"]
    /\ UNCHANGED <<ProfileRows, Pictures>>

\* Whatever constraint fails, the answer is that the user name is taken.
Insert(c) ==
    LET u == patch[c].target
        given == patch[c].given IN
    /\ patch[c].pc = "insert"
    /\ IF u \notin alive \/ HasProfile(u) \/ NameIsTaken(given, Members)
       THEN AnswerTaken(c) /\ UNCHANGED <<row, born>>
       ELSE /\ row' = [row EXCEPT ![u] =
                 [f \in EditableFields |-> IF f \in DOMAIN given THEN given[f] ELSE NoValue]]
            /\ born' = [born EXCEPT ![u] = Cardinality({v \in Members : born[v] > 0}) + 1]
            /\ Answer(c)
    /\ UNCHANGED <<alive, Pictures>>

\* The columns an UPDATE writes: those whose value is not the one first read.
Written(given, seen) == {f \in DOMAIN given : given[f] # seen[f]}

Write(c) ==
    LET u == patch[c].target
        given == patch[c].given
        written == Written(given, patch[c].seen) IN
    /\ patch[c].pc = "write"
    /\ CASE ~ HasProfile(u) -> Answer(c) /\ UNCHANGED row
         [] HasProfile(u) /\ "username" \in written /\ NameIsTaken(given, Members \ {u}) ->
               AnswerTaken(c) /\ UNCHANGED row
         [] OTHER ->
               /\ row' = [row EXCEPT ![u] =
                     [f \in EditableFields |-> IF f \in written THEN given[f] ELSE @[f]]]
               /\ Answer(c)
    /\ UNCHANGED <<born, alive, Pictures>>

DatabaseFails(c) ==
    /\ patch[c].pc \in {"create", "update", "insert", "write"}
    /\ Answer(c)
    /\ UNCHANGED <<ProfileRows, Pictures>>

-----------------------------------------------------------------------------
(* Avatars                                                                 *)

Upload(actor, u) ==
    /\ avatar.pc = "idle"
    /\ MayAct(actor, u) /\ HasProfile(u)
    /\ uploads < MaxUploads
    /\ uploads' = uploads + 1
    /\ avatar' = [pc |-> "save", target |-> u, key |-> [owner |-> u, n |-> uploads'],
                  previous |-> row[u]["profile_picture_url"]]
    /\ UNCHANGED <<ProfileRows, patch, objects, failures>>

Delete(actor, u) ==
    /\ avatar.pc = "idle"
    /\ MayAct(actor, u) /\ HasProfile(u)
    /\ row[u]["profile_picture_url"] # NoValue
    /\ avatar' = [pc |-> "update", target |-> u, key |-> NoValue,
                  previous |-> row[u]["profile_picture_url"]]
    /\ UNCHANGED <<ProfileRows, patch, objects, uploads, failures>>

\* Mutant of Save: the old picture goes before the row names the new one.
SaveInstead ==
    /\ avatar.pc = "save"
    /\ objects' = (objects \ {avatar.previous}) \cup {avatar.key}
    /\ avatar' = [avatar EXCEPT !.pc = "update"]
    /\ UNCHANGED <<ProfileRows, patch, uploads, failures>>

Save ==
    /\ avatar.pc = "save"
    /\ objects' = objects \cup {avatar.key}
    /\ avatar' = [avatar EXCEPT !.pc = "update"]
    /\ UNCHANGED <<ProfileRows, patch, uploads, failures>>

Failed(keys) == failures' = failures \cup (keys \ {NoValue})

\* An error of the store, which may have stored the object all the same.
SaveFails ==
    /\ avatar.pc = "save"
    /\ objects' \in {objects, objects \cup {avatar.key}}
    /\ Failed({avatar.key})
    /\ avatar' = NoAvatar
    /\ UNCHANGED <<ProfileRows, patch, uploads>>

SetPicture == row' = [row EXCEPT ![avatar.target]["profile_picture_url"] = avatar.key]

StorePicture ==
    /\ avatar.pc = "update"
    /\ HasProfile(avatar.target)
    /\ SetPicture
    /\ avatar' = [avatar EXCEPT !.pc = "discard"]
    /\ UNCHANGED <<born, alive, patch, objects, uploads, failures>>

\* The row is gone, the statement fails, or it fails after the commit when the
\* row is read back: in each case nothing is removed from the store.
StoreFails ==
    /\ avatar.pc = "update"
    /\ \/ UNCHANGED row
       \/ HasProfile(avatar.target) /\ SetPicture
    /\ Failed({avatar.key, avatar.previous})
    /\ avatar' = NoAvatar
    /\ UNCHANGED <<born, alive, patch, objects, uploads>>

SafeDeleteUrl ==
    /\ avatar.pc = "discard"
    /\ \/ objects' = objects \ {avatar.previous} /\ UNCHANGED failures
       \/ objects' = objects /\ Failed({avatar.previous})
    /\ avatar' = NoAvatar
    /\ UNCHANGED <<ProfileRows, patch, uploads>>

\* The auth service deletes an account, and the database its profile.
DeleteAccount(u) ==
    /\ u \in alive
    /\ alive' = alive \ {u}
    /\ row' = [row EXCEPT ![u] = NoValue]
    /\ UNCHANGED <<born, patch, Pictures>>

ProfilesNext ==
    \/ \E c \in Clerks :
          \/ \E actor, u \in Members, p \in Payloads : UpdateProfile(c, actor, u, p)
          \/ CheckCreate(c) \/ CheckUpdate(c) \/ Insert(c) \/ Write(c) \/ DatabaseFails(c)
    \/ \E actor, u \in Members : Upload(actor, u) \/ Delete(actor, u)
    \/ Save \/ SaveFails \/ StorePicture \/ StoreFails \/ SafeDeleteUrl
    \/ \E u \in Members : DeleteAccount(u)

ProfilesSpec == ProfilesInit /\ [][ProfilesNext]_profileVars

-----------------------------------------------------------------------------
(* What is read from the rows.                                             *)

Filled(r, fields) == \E f \in fields : r[f] # NoValue

Checks == {{f} : f \in RequiredFields} \cup OptionalChecks

\* The percentage of the twelve checks, rounded, and whether the seven that are
\* required pass.
Completion(r) ==
    LET passed == {k \in Checks : Filled(r, k)} IN
    [percent |-> (200 * Cardinality(passed) + Cardinality(Checks)) \div (2 * Cardinality(Checks)),
     complete |-> \A f \in RequiredFields : {f} \in passed]

PublicFields == {"username", "first_name", "last_name", "bio", "github_username",
                 "linkedin_url", "portfolio_url", "primary_skill", "profile_picture_url"}

View(u) == [f \in PublicFields |-> row[u][f]]

\* GET /profile/public/{username}, the user name being given in any case.
PublicPages(v) ==
    LET name == Clean("username", v) IN
    IF name = NoValue THEN {} ELSE {View(u) : u \in HolderOf(name)}

\* list_profiles: the filters, the newest first, and one page of them.  A name is
\* looked for in any case; that it may be a part of another is left out.
Listed(publicOnly, skill, q) ==
    {u \in FilledIn :
        /\ publicOnly => row[u]["username"] # NoValue
        /\ skill # NoValue => row[u]["primary_skill"] = skill
        /\ q # NoValue => \E f \in {"first_name", "last_name", "username"} :
                          LowerCase(row[u][f]) = LowerCase(q)}

NewestFirst(users) == InOrder(users, LAMBDA u, v : born[u] > born[v])

SearchPage(users, page, size) ==
    LET all == NewestFirst(users) IN
    [total |-> Cardinality(users),
     items |-> {all[i] : i \in {j \in DOMAIN all : j > (page - 1) * size /\ j <= page * size}}]

\* The statuses the dashboard counts; three others are not shown.
StatusCounts ==
    [s \in {"Student", "Working Professional", "Job Seeker"} |->
        Cardinality({u \in FilledIn : row[u]["current_status"] = s})]

\* The statistics: a table without a row of the user counts as zeros, and times in
\* hundredths of an hour.
StudyTables == {"leetcode", "hackerrank", "course", "pattern"}
Zeros == [done |-> 0, streak |-> 0, longest |-> 0, time |-> 0, active |-> 0]

Statistics(tables) ==
    LET rows == [t \in StudyTables |-> IF tables[t] = NoValue THEN Zeros ELSE tables[t]]
        Largest(column) == Max({rows[t][column] : t \in StudyTables}) IN
    [problems |-> rows["leetcode"].done + rows["hackerrank"].done,
     courses |-> rows["course"].done,
     patterns |-> rows["pattern"].done,
     streak |-> Largest("streak"),
     longest |-> Largest("longest"),
     hours |-> 100 * rows["course"].time + (200 * rows["pattern"].time + 60) \div 120,
     active |-> Largest("active")]

\* The owner's statistics need a profile; an administrator is shown them anyway.
OwnStatistics(actor, u, tables) ==
    IF MayAct(actor, u) /\ HasProfile(u) THEN {Statistics(tables)} ELSE {}

AdminDetail(u, tables) == [profile |-> row[u], statistics |-> Statistics(tables)]

\* The rows of the users on a page of the administrators' table.
BatchProfiles(users) == users \cap FilledIn

-----------------------------------------------------------------------------
(* Properties                                                              *)

ProfilesTypeOK ==
    /\ \A u \in Members : row[u] = NoValue \/ DOMAIN row[u] = EditableFields
    /\ \A u \in Members : born[u] \in 0 .. Cardinality(Members)
    /\ alive \subseteq Members
    /\ \A c \in Clerks : /\ patch[c].target \in Members \cup {NoValue}
                         /\ DOMAIN patch[c].given \subseteq PayloadFields
    /\ objects \subseteq Key /\ failures \subseteq Key
    /\ uploads \in 0 .. MaxUploads
    /\ avatar.pc \in {"idle", "save", "update", "discard"}
    /\ {avatar.key, avatar.previous} \subseteq Key \cup {NoValue}

\* The URL of a profile leads to an object that is there, of the same user.
PicturesExist ==
    \A u \in FilledIn :
        LET k == row[u]["profile_picture_url"] IN k # NoValue => k \in objects /\ k.owner = u

\* An object no profile shows is about to be shown or removed, or one of its own
\* operations failed, or its owner's account was deleted: nothing else is left behind.
LeftoversAreExplained ==
    \A k \in objects :
        \/ k.owner \in FilledIn /\ row[k.owner]["profile_picture_url"] = k
        \/ k \in {avatar.key, avatar.previous}
        \/ k \in failures
        \/ k.owner \notin alive

\* Replacing an avatar saves the new object, then the URL, then removes the old one:
\* whatever fails or is deleted in between, no profile loses its picture, and the
\* store keeps only what a failure or a deleted account left (AvatarService.upload).
PicturesAreKept == PicturesExist /\ LeftoversAreExplained

\* No two profiles share a name in any spelling, and the page of a name is its
\* holder's.
NamesAreUnique ==
    \A u, v \in FilledIn :
        LowerCase(row[u]["username"]) = LowerCase(row[v]["username"])
            => u = v \/ row[u]["username"] = NoValue

Spellings(name) == {name} \cup {v \in DOMAIN Lower : Lower[v] = name}

PagesLeadHome ==
    \A u \in FilledIn : row[u]["username"] # NoValue =>
        \A v \in Spellings(row[u]["username"]) : PublicPages(v) = {View(u)}

\* The pages of a search share no profile, and together show every match.
SearchesPartition ==
    \A users \in {Listed(publicOnly, skill, q) : publicOnly \in BOOLEAN,
                    skill \in {NoValue, "Go"}, q \in {NoValue} \cup DOMAIN Lower} :
        /\ UNION {SearchPage(users, n, 1).items : n \in 1 .. Cardinality(Members)} = users
        /\ \A n \in 1 .. Cardinality(Members) :
              LET page == SearchPage(users, n, 1) IN
              /\ page.total = Cardinality(users)
              /\ Cardinality(page.items) = IF n <= Cardinality(users) THEN 1 ELSE 0

\* A complete profile has a page that shows a picture, and only a profile that is
\* complete reaches a hundred percent.
ScoresAgree ==
    \A u \in FilledIn :
        LET score == Completion(row[u]) IN
        /\ score.complete => /\ HolderOf(row[u]["username"]) = {u}
                             /\ u \in Listed(TRUE, NoValue, NoValue)
                             /\ View(u)["profile_picture_url"] \in objects
        /\ score.percent = 100 => score.complete
        /\ score.complete => score.percent >= 58

\* Wherever the statistics are shown they are the same, and no streak is longer than
\* the longest.
SomeTables ==
    [StudyTables -> {NoValue} \cup {[Zeros EXCEPT !.done = n, !.streak = n, !.longest = n + 1,
                                              !.time = 10 * n, !.active = n] : n \in 1 .. 2}]

StatisticsAreSound ==
    \A tables \in SomeTables :
        LET s == Statistics(tables) IN
        /\ s.streak <= s.longest
        /\ s.active = 0 <=> \A t \in StudyTables : tables[t] = NoValue
        /\ \A t \in StudyTables : tables[t] # NoValue => s.active >= tables[t].active

TablesAgree ==
    \A u \in BatchProfiles(Members) :
        LET tables == CHOOSE t \in SomeTables : TRUE IN
        OwnStatistics(u, u, tables) = {AdminDetail(u, tables).statistics}

\* What strangers see of the profiles is consistent, whatever updates, uploads and
\* deletions go on (PublicProfileService, compute_profile_completion).
PublicPagesAreSound ==
    NamesAreUnique /\ PagesLeadHome /\ SearchesPartition /\ ScoresAgree
        /\ StatisticsAreSound /\ TablesAgree

\* "Username is already taken" is said of a name another user has; but also when the
\* request lost the race to create its own profile, or its account was deleted,
\* whose constraints are answered alike (ProfileRepository.create_profile).
RefusalsAreExplained ==
    [][\A c \in Clerks :
          (patch[c].pc # "taken" /\ patch'[c].pc = "taken") =>
              LET u == patch[c].target IN
              \/ NameIsTaken(patch[c].given, Members \ {u})
              \/ patch[c].pc = "insert" /\ (HasProfile(u) \/ u \notin alive)]_profileVars
=============================================================================
