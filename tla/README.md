# TLA+ models of the RecentThink backend

These modules model the stateful core of the RecentThink backend: the sessions and
one-time links of the auth service, the live user state the gateway enforces, the
gateway's proxy, the chat turns of the AI service and everything they store, the
usage ledgers and the reports made from them, profiles with their pictures, and the
deletion of an account across all services. Every definition is translated from the
Python source under `src/`; `PROJECT.json` names, for each definition, the lines it
stands for. TLC checks small instances of every module; TLAPS proves every safety
invariant and action property of the passing runs but one for all values of the
constants.

Contents: [the system](#the-system), [the modules](#the-modules), [the
runs](#the-runs), [the proofs](#the-proofs), [what the code does not
guarantee](#what-the-code-does-not-guarantee), [what is not
modelled](#what-is-not-modelled), [what is left](#what-is-left), [how to
run](#how-to-run).

## The system

Five FastAPI services (auth, user, AI, usage, admin) behind a gateway, over one
PostgreSQL database. Two facts about how they run decide the shape of every model:

* **Handlers that are `def` functions** (all of the auth service, most of the user
  and usage services, the row handlers of the AI service) run in a thread pool, each
  request with its own SQLAlchemy session at READ COMMITTED. Nothing is locked
  between a `SELECT` that a check uses and the transaction that acts on it. So such
  a handler is a *sequence of steps*: one for each read its checks use, one for each
  transaction it commits.
* **Handlers of the AI service that call a model are coroutines of one event loop**
  (its image starts one uvicorn process) that make *synchronous* database calls.
  Code between two `await`s runs without interruption from another coroutine, so
  there an action is a stretch of code without an await. Where a `def` handler
  touches the same rows, its thread may run between any two statements of the
  stretch, and the stretch is a sequence of actions that holds the loop (`loop` in
  `ConversationMemory`, `LoopIsFree` in `LearningProducts`).

| Component | State | Operations | Interacts with |
|---|---|---|---|
| Auth sessions (`auth_service.py`, `account_service.py`, `admin_user_management_service.py`, `password_*_service.py`) | `users` (exists, `is_active`, `is_blocked`), `refresh_tokens` (`is_revoked`, owner) | login, refresh with rotation and reuse detection, logout, password change and reset, block, deactivate, disable, enable, activate, unblock, delete | user-state cache (invalidated last), reset links, account-deletion purge |
| One-time links (`email_verification_service.py`, `password_reset_service.py`) | `email_verification_tokens`, `password_reset_tokens` (`is_used`, `expires_at`) | register, resend, forgot, mail, verify, reset, void by deletion | mail provider, auth sessions |
| User state lookup and session guard (`user_state_service.py`, gateway `auth/`) | the process-local TTL cache of Auth, the optional TTL cache of the gateway | lookup and fill, invalidate, expire, judge a request | every auth mutation; all services behind the gateway |
| Gateway proxy (`proxy/proxy.py`, `routes/`, `health`) | the calls in flight | route, guard, send, time out, repeat, stream; readiness check | all services |
| AI workflow and chat streams (`chat_service.py`, `workflow/graph.py`, `workflow/nodes.py`, `history_manager.py`) | `ai_sessions`, `ai_messages` and their `content_metadata` | stream with cancellation and rollback, continue, retry, regenerate, delete, bookmark, archive, pin, rename, list, export, reconnect | model provider, answer cache, memory, usage |
| Conversation memory (`agents/shared/memory`, `followup_service.py`) | the `conversation_memory` row of a session | append exchange, prune, summarise, clear; follow-up with context check | workflow |
| AI response cache, OpenRouter client | process-wide LRU/TTL cache | key, get, put, expire, evict; call with retries, fallback model and validation; merge of sections | workflow |
| Learning progress | progress row of each product, `pattern_mastery` | record attempt, apply deltas, streaks, mastery | product agents |
| Prompt versions | `prompt_versions.is_active` | upsert, update, activate, get active | admin, prompt loader |
| Product agents (LeetCode, HackerRank, patterns, courses) | `courses`, `pattern_sessions` | generate, update, list, delete, manual fallback | workflow, progress |
| Account deletion across services | rows of a user in auth, AI and usage | deletion, best-effort purges, audit entry | auth, AI, usage, admin |
| Usage metering | `model_usage`, `usage_records` | record, report, aggregate, export, delete | workflow, admin |
| Profiles and avatars | profile row, object store | create, update, upload, remove, public page, search, completion, statistics | auth, learning progress |
| Administration | audit log; feature flags, notifications | user mutations, dashboards, exports | all |

What is hard in it, component by component:

* **Auth sessions.** Check-then-act between threads: a login that has passed its
  account check while the user is blocked; two refreshes with one token; a lockout
  that commits the flag and the revocation separately; a deletion whose revocation
  is committed by the next repository call. What must hold: a spent token stays
  spent, a lockout and a password change end sessions, nothing outlives an account.
* **One-time links.** Validation and redemption are separate; the two tables redeem
  in different ways. What must hold: one link, one effect, and a fresher link or a
  deletion voids the older.
* **User state.** A cache fill reads the row and stores the snapshot in two steps
  while invalidations come from other threads; failures skip an invalidation;
  password timestamps are taken before their transaction. What must hold: a
  locked-out token is refused once its handler has returned, failures never approve,
  and caches converge.
* **Gateway proxy.** Any method is repeated after a lost answer, and the attempt
  that was given up on runs on. What must hold: what was answered is not repeated,
  and a client that asks once is served once unless an answer was lost.
* **Chat turns.** A stream is interrupted at every token by other requests of the
  same session; the client may leave at any time; a turn writes several rows and
  then *looks up* the newest one as its own; a rollback identifies its rows by what
  was not there before. What must hold: a cancelled stream leaves nothing, no turn
  damages another, every stream ends.
* **What a session stores.** Memory, metadata, progress rows, lessons and prompt
  versions are loaded, changed in Python and saved. What must hold: nothing the user
  was told is lost, except by a named overlap.
* **Answers.** The cache is shared by all sessions; partial answers are merged. What
  must hold: an answer is about its session's topic, fresh, and keeps the sections
  nobody asked for; every call ends.
* **Deletion and metering.** Only some tables reference `users.id`; purges are best
  effort; turns of the deleted user run on; two services keep a ledger each. What
  must hold: what outlives an account is written by turns that overlapped its
  deletion, and the ledgers agree up to lost reports.
* **Reports.** The same figure is computed by several queries over different
  windows. What must hold: they add up.
* **Profiles.** First writes race, and picture and row change in three steps. What
  must hold: no profile loses its picture, no picture is left behind without a
  cause.

`PROJECT.json` lists these hazards at their lines, with the properties that would
catch each of them, and the one that no property covers.

## The modules

| Module | Extended by | Models |
|---|---|---|
| `AuthSessions` | `MCAuthSessions`, `AuthSessionsProofs` | refresh-token sessions |
| `UserState` | `MCUserState`, `UserStateProofs` | user-state lookup, its two caches, the session guard |
| `OneTimeLink` | (instantiated by `OneTimeLinks`) | what a one-time link promises |
| `OneTimeLinks` | `MCOneTimeLinks`, `OneTimeLinksProofs` | verification and reset links |
| `ChatStream` | `MCChatStream`, `ChatStreamProofs` | the chat turns of one session |
| `ModelCalls` | `MCModelCalls`, `ModelCallsProofs` | how a turn gets its answer: keys, cache, client, validation, merge |
| `ConversationMemory` | `MCSessionData`, `SessionDataProofs` | the memory row of a session, follow-ups |
| `SessionStore` | `MCSessionData`, `SessionDataProofs` | sessions, messages and their marks, lists, exports, replay |
| `LearningProducts` | `MCSessionData`, `SessionDataProofs` | the four products with their progress rows |
| `PromptVersions` | `MCSessionData`, `SessionDataProofs` | the versions of one prompt |
| `AccountPurge` | `MCAccounts`, `AccountsProofs` | deletion across services, the two ledgers, the audit log |
| `UsageAnalytics` | `MCAccounts`, `AccountsProofs` | every report made from the usage records |
| `Profiles` | `MCAccounts`, `AccountsProofs` | profile rows, pictures, public pages, statistics |
| `GatewayProxy` | `MCAccounts`, `AccountsProofs` | the proxy with its repetitions, readiness |
| `Orders` | `SessionStore`, `UsageAnalytics`, `Profiles` | what `ORDER BY` makes of the rows of a query |
| `TableTheorems` | `SessionDataProofs`, `AccountsProofs` | lemmas about ordered lists and sums |

`MCSessionData` and `MCAccounts` extend several modules that share no variable. A
behaviour is one of a single module (`part` tells which, chosen in the initial
state), so one run checks them side by side without multiplying their states. Some
modules are looked at from two or three sides, each with a smaller instance:
`MCAccounts` has the parts `turns` and `jobs` of `AccountPurge`, `reports`,
`profiles` and `avatars` of `Profiles`, `proxy` and `health` of `GatewayProxy`;
`MCSessionData` has `memory`,
`prompts`, `learning` (one product at a time: they do not touch each other's rows),
`streaks` (a single course through one request more), and `lists`, `marks` and
`replay` of `SessionStore`.

### AuthSessions

`acct[u]` is the row of `users`, `tok[t]` the row of `refresh_tokens`, `req[p]` the
request process `p` handles and the step it takes next. A handler is two or more
actions: `LoginRead` is everything up to the account check, `LoginCommit` the
`INSERT`; `RefreshLookup`, `RefreshLoadUser`, `RefreshRotate` are the three steps of
a rotation; `BlockRead`, `BlockCommit`, `RevokeCommit` those of a block. `Abandon`
ends any request between two steps: a database error, a failed check, a crash. Token
values are identities; hashing is injective and is left out. Expiry of refresh
tokens is left out: it removes validity and gives none.

Ghost fields say *why* an anomaly is possible: a token is `escaped` if its session
went through a request that overlapped a revocation of all the user's tokens,
`stale` if the password changed after its credentials were checked; `lost` has the
users whose revocation was abandoned half way. The properties then say that these
overlaps are the *only* ways a locked-out user keeps a session.

### UserState

`row` is what the mutations write, `cache` and `gcache` the two caches, `rq` a
guarded request with the lookup it caused, `mut` a mutation of a row with its
invalidation as a later step. `LookupRead` and `LookupFill` are the two halves of
`UserStateService.get_user_state`. `Unavailable` is the gateway's timeout: the
request is refused, the lookup in Auth goes on and may fill the cache later.
`Expire` and `GatewayExpire` are the TTLs; an entry may expire at any time. Ghosts:
`missed` on an entry tells why an invalidation did not remove it, `owed` on a
request tells that the law of the documentation obliges a refusal, `ver` in a row and
in a claim counts the password changes, and `top` is the newest `password_changed_at`
that any of them wrote. Two password changes are assumed to read different clock
values (the column and the claim keep microseconds).

### OneTimeLinks and OneTimeLink

`OneTimeLink` is the abstract promise: a link is unissued, open, then *either*
redeemed *or* void, for ever. `OneTimeLinks` has both tables and all handlers.
`ResetIsOneTime` states that the reset table implements the promise under `fate <-
[l \in ResetLinks |-> Fate(l)]`; verification links do not implement it (see the
findings), and the properties say how far they depart from it.

### ChatStream

`rows` are the assistant messages of one session in the order of their `INSERT`s,
each with its `created_at`, the `status` and the `deleted` key of its metadata;
`session` is the status of the session row; `req[r]` is a request on it: a stream, a
continue, or a retry or regenerate (`redo`). The actions follow the awaits:

| Action | Code |
|---|---|
| `BeginStream`, `BeginContinue`, `BeginRedo` | the service methods up to the first await |
| `Disconnect`, `Abandon` | `request.is_disconnected` turns true; the coroutine is cancelled or the process stops |
| `PlanStream`, `PlanChat`, `PlanFails` | `planner_node`, and the stream's snapshot of the messages that exist |
| `CheckPlanned`, `Checked`, `Cancel` | the cancel checks of `execute_stream`, `stream_completion` and `run_post_llm_pipeline`, with the rollback |
| `TryCache`, `Applied`, `CallFails` | cache hit or model call, JSON validation and its failure |
| `RunModule` | `_run_module_node`: one message and one trace, errors are collected |
| `Persist` | `persist_node` up to the await of the usage record |
| `Complete`, `CompleteFails` | `_persist_stream_metadata`, `_annotate_latest_assistant`, `_finalize_continue_assistant` |
| `DeleteChatMessage` | the user deletes a message (a thread, one transaction) |

Three details of the code carry the behaviour, and are modelled as they are:

* `created_at` is `server_default=now()`, in PostgreSQL the time at which the
  *transaction* began. The transaction of a message opens at the end of the one
  before it (the refresh after the trace's commit), so `txn` is taken when the
  previous stretch ends. Two turns that overlap can store messages whose
  `created_at` order is not their `INSERT` order.
* The database session of a request keeps objects as it loaded them
  (`expire_on_commit=False`). The copy of a target that a continue, retry or
  regenerate loaded before the model ran is what it later writes back: `kept`.
* `retry_response` and `regenerate_response` change the metadata dict in place and
  assign the same object, which SQLAlchemy does not take for a change. The row keeps
  its status; the `status=superseded` of `docs/conversation-chat.md:131` is never
  stored for a message that has metadata.

Ghosts: `by`, `marked` and `remover` name who wrote, annotated and deleted a
message, `erased` that the user deleted it, `met` which requests overlapped,
`botched` that a deletion of a rollback failed.

### ModelCalls

`store` is the process-wide cache, `call[c]` the request with the step it takes
next, `ans[t]` the latest answer of the session on topic `t` and what its memory
holds. A payload is the function from sections to the topic each is about, so that
an answer from another session is visible. The actions are the stretches between
model calls: building the key (`build_feature_key`, with its fall-back to the bare
message), the lookup, the client's attempts with pauses and its fallback model
(`Models`), the JSON validation with its own retries, normalisation by the answer's
shape, `Merged` with the earlier sections, and `Put` with eviction. `Tick` lets
entries expire. Ghosts: `crossed` has the sessions answered from a key that does not
name their topic, `stale` the age of the oldest entry served.

### ConversationMemory

`row` is the `conversation_memory` row, `said` the session's messages, `work[w]` a
turn, follow-up or summary. `Turn`, `FollowUp` and `Summarize` load the row before
their await; `AppendLoad`, `UpsertSelect` and `UpsertWrite` are the statements of
`append_exchange` afterwards, between which `ClearMemory` and `DeleteSession` may
run in a thread. A follow-up first decides by the words of its question whether it
is in context (`FollowUpRejected`), and afterwards annotates the newest answer it
finds. Ghosts: `log` is the list of exchanges appended since the memory was cleared,
which the row should be the end of; `blurred` and `reverted` tell that something was
written back that had changed since it was loaded.

### SessionStore

`session`, `lesson`, `message` are the tables, `recent` and `touched` the orders of
`updated_at` and `last_active_at`. The operations are those of the chat router and
of the four products' history endpoints: create, rename, archive, pin, delete,
bookmark, list with search and pages, detail, versions, export, and the replay on
reconnect. Bookmarks and deletions of messages read the metadata and write all of it
back in a second step (`WriteMetadata`); a lesson is deleted by two commits
(`DropItsSession`, `DropFails`). What a turn adds is a question and perhaps an
answer. Ghosts: `erased` and `wanted` are what the user was told, `clashed` the
messages two requests were about to mark at once, `bare` lessons left without their
row.

### LearningProducts

`ai`, `item`, `prog`, `mast` are the rows of `ai_sessions`, of patterns or courses,
of progress and of mastery; `day` is the date. A generation runs through
`chat`, `item`, `load`, `create`, `mastery`, `commit`, an update starts at `update`, a
deletion at `drop`. `ProgressLoad` reads the row, `ProgressCommit` writes the attributes whose values
changed (`Written`) — the ORM's rule, on which `NothingLearnedIsLost` rests; the time of
the last activity is new each time and always written. The
streak functions are those of the four repositories, which differ. `Fail` ends a
request between two steps. Ghosts: `owed` sums the committed updates, `crossed` and
`cut` name overlaps and interruptions, `active` and `recorded` are what the counters
should say.

### PromptVersions

`prompt[v]` is the committed row, `txn[a]` a request with what it loaded and the
siblings it still has to change, `holder` the row locks. `DeactivateRow` waits for a
lock and then reads the row again, as PostgreSQL does; `Flush` writes only
attributes that differ from those loaded, so re-activating a version read as active
writes nothing. Ghost: `raced`.

### AccountPurge

`account` has the rows of `users`, `session`, `modelUsage`, `progress` and
`usageRecords` what the AI and usage services hold, `turn[t]` a running turn,
`job[j]` a deletion or a mutation by an administrator, `reports` and `strays` the
calls on their way whose caller may have given up. `Persist`, `RecordRequest`,
`CreateRecord`, `Reported`, `Finish`, `RecordAttempt` are the writes of a turn;
`Mutate`, `PublishAccountDeleted`, `Answered`, `GiveUp` (the 15 seconds of the admin
service), `PurgeAgain`, `Log` those of a job. `late[v]` are the turns that were
running when service `v` purged their user.

### UsageAnalytics

The queries of `usage_analytics_repository.py` and the services above it, as
functions of `ledger` (the usage records) and `now` in half days: totals by window,
breakdowns by feature, model, provider and user, the charts, the tables with search,
order and pages, the administrators' reports and their exports. Averages and rates
follow the code's handling of NULL and zero. `RecordUsage`, `DeleteRecordsOf` and
`HalfDayPasses` are its actions.

### Profiles

`row[u]` is the profile (a function of its fields), `objects` the object store,
`patch[c]` a request to update, `avatar` the upload or removal in progress. A first
update finds no profile and inserts one (`CheckCreate`, `Insert`), later ones write;
both check the name first. An upload saves the object, updates the row, then removes
the old object (`Save`, `StorePicture`, `SafeDeleteUrl`), each of which may fail.
Public pages, search, completion and the statistics over the progress tables are
functions of the rows.

### GatewayProxy

`req[c]` is the client's request at the gateway, `call[c][k]` its `k`-th attempt at
the service, which runs on after the gateway has stopped waiting. `EnforceSession`
takes the guard's decision as given (UserState models it); `Send`, `ReadTimeout`,
`ConnectionLost`, `Receive`, `ReceiveHeaders`, `StreamEnds` and `NextAttempt` are
the branches of `_retry` and `proxy_request`. The operations behind a path are
external: they read, refuse to be repeated (`once`), or happen again (`anew`).
`Crash` and `CrashMidway` stop a service before or after it performed an operation.
`AskHealth`, `ProbeService`, `ReportHealth` are the readiness check.

## The runs

Each configuration bounds the constants by model values; every bound is a constant
of the module or of its MC module.

| Run | Instance | Shows |
|---|---|---|
| `auth_sessions` | 1 user, 2 concurrent requests, 3 tokens | `ExchangedIsSpent`, `LockoutKillsSessions`, `OldPasswordSessions`, `NoOrphanTokens`; no revoked token returns (`RevocationIsFinal`); a locked-out account gains tokens only from requests that had passed their check (`LockedOutOnlyShrinks`) |
| `user_state` | 1 user, 2 requests, 2 mutators, 2 mutations | a stale entry (`StaleIsExplained`), and a request forwarded against the law (`OwedDenialExplained`), always has one of the named causes |
| `user_state_live` | 1 user, 1 request, 2 mutators, both caches, fair | `EventuallyFresh`: caches agree with the rows in the end; `EventuallyRefused`: a user locked out for good is in the end always refused |
| `one_time_links` | 1 user, 2 requests, 1 reset and 2 verification links | reset links refine `OneTimeLink` (`ResetIsOneTime`); `UsedLinksAdmitNobody` but requests that checked the link before; two open links only by crossed issues (`OneOpenLink`) |
| `chat_stream` | 2 requests, 2 modules, 1 fault, 1 deletion | see below |
| `model_calls` | 2 requests at once, 3 in all, a practice and a lesson topic, 2 models, 2 cache entries, 1 retry of each kind, fair | `CacheIsSound`, `OtherSectionsKept`, `EveryCallEnds` |
| `session_data` | 2 workers throughout; memory: 3 requests, 1 exchange and 2 answers kept; prompts: 2 versions, 4 edits; learning: 2 sessions, 2 names, 3 starts (4 on a single course), 2 days; store: 2 conversations, 4 messages | `MemoryIsExplained`, `AnnotationIsExplained`, `ChosenIsServed`, `LearningIsExplained`, `LessonsAreExplained`, `SessionsAreSound` |
| `accounts` | purge: 1 user, 2 sessions, 2 turns, 2 jobs; reports: 3 records in 3.5 days; profiles: 2 members, 2 clerks, 2 uploads; proxy: 1 client, 3 attempts, 1 outage | `OrphansAreExplained`, `LedgersAreExplained`, `ViewsAreSound`, `PicturesAreKept`, `RefusalsAreExplained`, `ProxyIsSound` |
| `auth_rotation`, `verify_once`, `chat_rollback`, `answer_cache` | as small as shows it | a sentence of the documentation or of a docstring that the code does not keep (next section but one) |

Every passing run also checks the type invariant of its modules.

What `chat_stream` checks of every interleaving of two turns:

* `CancelledLeavesNothing`: a cancelled stream leaves none of its messages, unless
  the database refused a deletion.
* `OverlapIsExplained`: a turn deletes (`LossByOverlap`) or annotates
  (`MarkedByOverlap`) another turn's message only if the two overlapped, or it is a
  continue, or it has no message of its own. Earlier turns are safe from rollbacks.
* `ErasureSticks`: a message the user deleted shows up again only through a
  continue, retry or regenerate of that message that had loaded it before.
* `StuckIsExplained`: an idle session says "in progress" only after a turn was cut
  off, failed, or could not store its status.
* `NeverStuck`: a request in flight can always take a step of its own. A request
  runs through its labels without a loop, so with scheduling this is termination.

What `session_data` checks:

* `MemoryIsExplained`: the memory row holds the last exchanges since it was cleared
  and the context of the last turn, except where something was written back that had
  changed since it was loaded.
* `AnnotationIsExplained`: a follow-up annotates its own answer, but for one whose
  transaction is older than another answer's, and for sessions longer than the list
  it searches.
* `ChosenIsServed`: the loader serves what was chosen last, and one version is
  active, unless requests overlapped since the last one that did not; the next
  activation that runs alone repairs it.
* `LearningIsExplained`: attempts, courses and learned patterns are counted exactly
  under every interleaving; the counters of updates fall short only by an overlap on
  the same product.
* `LessonsAreExplained`: streaks of lessons never exceed the days with activity,
  unless two requests overlapped on the row; a lesson without its row was cut off
  between two commits.
* `SessionsAreSound`: a bookmark or deletion that was answered holds unless two
  requests marked the message at once; deleted messages are in no page and no
  export; histories and lists agree; pages of a list show every match once, pinned
  first; a reconnect shows nothing older than the answer that was missed.

What `accounts` checks:

* `OrphansAreExplained`: what a purged account still has was written by turns that
  were running at the purge, or that a stale gateway let in.
* `LedgersAreExplained`: the two usage ledgers differ only by reports that were lost
  or purged, and the audit log has every applied mutation but those the admin
  service stopped waiting for or could not write.
* `ViewsAreSound`: breakdowns add up to totals, charts to windows, windows are
  nested, pages partition a table, and a figure given by several reports is one
  figure; names of
  profiles are unique in every spelling; searches, completion scores and statistics
  are consistent.
* `PicturesAreKept`: no profile loses its picture; objects no row names have a
  named cause.
* `RefusalsAreExplained`: "already taken" is said of a name that is, or of a request
  that lost the race to create its own profile, or whose account is gone.
* `ProxyIsSound`: an answered request is repeated only after a 502; a client told of
  success was served; a double effect, a false refusal or a revocation needs an
  earlier attempt whose answer was lost or 502; the readiness report is not
  "healthy" with a service down since before it began.

**Why the bounds are enough to be interesting.** Two requests are the smallest
number that race, and every anomaly found needs no third. Three tokens allow a
rotation, a second rotation of the same token and a login besides. Two verification
links allow a fresh one to void an older. Two modules are the least at which "the
newest message" and "the messages of the turn" differ. One fault puts a failure at
each place in turn, a fault within the handling of a fault is `Abandon`.
`MaxMutations = 2` allows two password changes to commit in the order opposite to
their timestamps. Three model calls let one session's answer reach another's through
the cache and back; two entries make it evict. One exchange kept makes every second
one prune. Three starts and two days let a streak grow and two generations meet an
update; with a fourth, an update that overlapped another at midnight is followed by
one that counts the day again. Two turns and a deletion let one turn be late for each purge while the other
was over. Three usage records in windows of two and three days put a record on
either side of every boundary. Three attempts allow a lost answer, a repetition that
overtakes it, and a last one.

**Symmetry** is used over processes, tokens, links, sessions and workers in runs of
safety properties, whose definitions treat those values alike; `user_state_live` and
`model_calls` use none. **Deadlock** is not checked: systems that only answer
requests may stop when tokens, links, mutations or requests are used up.
`NeverStuck` and `EveryCallEnds` are the deadlock properties that matter for a chat.

**Fairness.** `user_state_live` assumes weak fairness of a lookup's steps (a thread
that runs is scheduled, and the lookup has a timeout), of a mutation's steps (a
handler ends, by an exception if not otherwise), and of the expiry of each cache
entry (the TTLs are 60 s and the configured gateway TTL, and time passes). Nothing
obliges a user to send a request or an administrator to act. `Unavailable` has no
fairness: nothing forces a lookup to fail. `model_calls` assumes weak fairness of
each request's own steps: a coroutine whose await has ended is resumed, and an HTTP
call ends by an answer, an error or the client's timeout. Nothing obliges a call to
succeed.

Every property of a passing run has a *mutant* listed in `PROJECT.json`: a
definition of the module replaced by a plausible bug of the code (a dropped guard, a
missing reset, a swapped order), under which TLC finds the property violated. The
mutant operators stand before the definitions they mutate.

## The proofs

All theorems hold for any finite or infinite sets of users, processes, tokens,
links, requests, sessions, turns and clients, and any bounds, under the assumptions named in
the modules (the constants are disjoint, flags are Booleans, bounds are naturals, the
sizes of caches and lists are positive as in the code's settings; `ChatStream` needs
finitely many requests, so that "a time later than all others" exists, and
`LearningProducts` finitely many names, which are texts of bounded length; `Profiles`
needs finitely many user ids, and that lower-casing a text twice is doing it once;
`UsageAnalytics` needs finitely many accounts, and records with a user and a feature,
which the table's columns do not allow to be NULL).

**`AuthSessionsProofs`.** `IInv` is `TypeOK`, `RowsOK` (a row without a token
belongs to nobody, and the parent of a row is spent), `RequestsOK` (a request works
for a user, and one that looked a token up holds a row that exists or existed),
`StaleIsEscaped` (what rests on an old password overlapped its change),
`MintsExcused`, `LockoutKillsSessions` and `NoOrphanTokens`. The lockout property is
not inductive by itself: a request past its account check is about to insert a
token, so `MintsExcused` says that such a request already carries the excuse its
token will need. Steps are classified by what they do to the rows, strike some or
insert one, and each conjunct is shown once per class. Theorems: `TypeCorrect`,
`Exchange`, `Lockout`, `PasswordChange`, `Deletion`, `FinalRevocation`,
`LockedOutShrinks`: every property of the run `auth_sessions`.

**`UserStateProofs`.** `TypeCorrect`, `StalenessExplained` (`StaleIsExplained`) and
`OwedDenials` (`OwedDenialExplained`). That a request which had to be refused is
refused rests on three further facts. `Owes`: until the row changes, such a request
knows that no invalidation is pending, so by `CacheExplained` and `FillsExplained`
whatever snapshot it takes up is current or was missed. `Claims`: a token minted
before the last password change is older than the row's timestamp, unless that
timestamp went back. `Clock`, for it: no two password changes take the same
timestamp, and none takes one that a row already carries. A step of a request changes
one record, and `RequestStep` carries the rest of the invariant over; a commit, an
invalidation and a failure disturb every request, and are shown once for all kinds of
mutation.

**`OneTimeLinksProofs`.** `ResetRefines`: `Spec => Reset!Spec`. The invariant says
that an unused reset link has not been redeemed (`Unspent`) and that a request at a
step that uses a link holds one of the right table (`Holds`). Initial states map to
initial states; `Create` maps to `Issue`, the conditional `UPDATE` of `ResetCommit`
to `Redeem`, every invalidation and the erasure to `Void`, all other steps to
stuttering. The step fails for verification links, at the `UPDATE` by primary key.
What holds of both kinds is `OneLinkAtATime` (`OneOpenLink`) and `LateOnly`
(`UsedLinksAdmitNobody`). For the first, a request about to issue a link must have
voided the others of its table unless another was issued since (`ClearFor`); and
since registration voids nothing, that links belong to registered accounts
(`OwnersExist`). For the second, a request on its way to redeem a link that is no
longer unused is marked late (`LateFor`).

**`ChatStreamProofs`.** `CancelledStreamsLeaveNothing` and `TypeCorrect`. The
property is not inductive: that a rollback is complete rests on what the snapshot
holds. `IInv` adds `NotYetWritten` (before its pipeline a request has no message),
hence `SnapshotForeign` (a snapshot holds no message of the stream's own), and
`KindOK` (a request that has begun ends in one of the three ways). A step of another
request may add its own messages, delete and annotate, but brings no message back
and changes no author (`Grows`), which leaves the invariant of a request alone
(`LocalKept`); so each action is proved for the request that takes it. That `Later`
is a natural number needs the maximum of a finite set, proved from the library's
well-foundedness of strict subsets.

A second invariant, `SInv`, inductive relative to the first, is about requests that
overlap: `OverlapsExplainLosses` (`OverlapIsExplained`), `DeletedStaysDeleted`
(`ErasureSticks`) and `NoUnexplainedProgress` (`StuckIsExplained`). `Met` says that
requests in flight together know of each other. From it, what a rollback would delete
is the stream's own, or by a request it has met (`Spares`), and a message of anybody
else is older than those of the request (`Older`), so that "the newest message" is
never a stranger's. `Owes` names the requests that have yet to store the session's
status, or never will: while the session says "in progress" there is one.

**`TableTheorems`.** What reports and histories need to know of data, for any number
of rows. The library's induction theorems take an operator as a parameter, which the
provers cannot instantiate; so each induction here looks at a smallest set that
contradicts the claim (`SmallestSet`: a non-empty family of subsets of a finite set has
a member that contains no other), and removes a member from it. `Ranks` says that in a
strict total order of *n* rows exactly one row has *i* rows before it, for each *i*
below *n*; so `InOrder`, the listing by that number, has every row once and in order
(`Listings`). A sum over a set, which the community modules define by folding, is
shown to be that of any member and the rest (`SumOneByOne`); from it follow sums of
unions and of parts, and `SumOfGroups`: the sums of the groups of a `GROUP BY` add up
to the sum of the whole.

**`AccountsProofs`.** Of `AccountPurge`: `PurgeTypes`, `OrphansComeLate` (`OrphansAreExplained`)
and `LedgersAgree` (`LedgersAreExplained`). The invariant has two halves without a
common variable. `Rows` is about what turns write: `TurnsBegun` (a turn that has begun
has a user and a session that, while it exists, belongs to that user; only such
turns are metered) and `RunningAreLate` (a turn of a purged user that can still
write, or whose report is still on its way, is in `late`): without it the orphans
are not inductive, since a row may be written long after the purge. `Work` is about
jobs: `Ordered` (a job past its mutation has applied it, and is logged at its end).
A purge, whoever makes it, only touches `Rows`; moving a job only `Work`; so each
action is proved for the half it changes.

Of `Profiles`: `ProfileTypes`, `PicturesKept` (`PicturesAreKept`), `NamesLeadHome`,
`PublicPagesTrue`, and the action property `RefusalsExplained` (`RefusalsAreExplained`).
For the pictures, `AvatarOK` says what the request under way has in hand at each step:
its key is newer than every other, so that removing the previous object cannot remove
one that is shown; and until the row is written the profile shows the previous one,
unless its account was deleted, which is for good (`OneProfileEach`). The steps that end
a request, in success or by a failure at any place, are instances of one lemma
(`AvatarEnds`). For the names, every stored one is in lower case (`Folds`), so that
the exact comparison of the unique constraint is enough for all spellings. For the
searches, `BirthsOK` says that no two profiles were made at the same place in the order
of creation, so that the order of a search is total and its pages share nobody
(`SearchHolds`). A score is the number of twelve checks a row passes (`TwelveChecks`).

Of `UsageAnalytics`: `UsageTypes` and `ReportsTrue` (`ReportsAddUp`). Its state is one
table, and what needs proof are the queries. `AnalyticsTypeOK` says that records are of
known users and none is from the future, and `AllNamed` that every record has a user
and a feature; without it, records under no feature would be in the totals and in
no row. From these, each breakdown adds up by `SumOfGroups` (`BreakdownsHold`), a
chart's points are the groups of the days of its window and windows are nested sums
(`WindowsHold`), and what several reports show is the same sum (`ReportsHold`).

Of `GatewayProxy`: `ProxyTypes` and `ProxySound` (`ProxyIsSound`).
`CallsAreReal` says what a call looks like in each of its states, `Steps` which
calls of a request have been sent and heard at each of its labels, `Outcome` what
its result rests on. `RepeatsAreExplained` is then a fact of counting: two calls
that performed the operation have different numbers (`TwoCalls`), and the earlier
was given up on or answered 502. For a revocation, whose cause may be any two calls
in either order, the invariant records `SentEarlier`. `Probing` carries the
readiness report: a service down since before the check is pending or found down.

Of `MCAccounts` itself: a behaviour of it is a behaviour of each of the four modules,
stuttering in all but one (`PartsRun`), so `AccountTypes` (`TypeOK`) and `ViewsHold`
(`ViewsAreSound`) follow from the theorems above.

**`ModelCallsProofs`.** `TypeCorrect`, `CacheSound` (`CacheIsSound`) and the action
property `OthersKept` (`OtherSectionsKept`): every safety property of the run
`model_calls`. `StoreTyped` bounds the cache and its entries; `StoreClean` says that
what is stored under a topic is about it, unless the topic was answered from a key
that does not name it. It rests on `RequestsOK`: a request's payload is about its
topic, and, since a session serves one request at a time (`Alone`), the answer it
loaded to merge with is still the session's.

**`SessionDataProofs`.** Four invariants of modules without a common variable.

* `PromptInv`, for `ChosenVersionIsServed` (`ChosenIsServed`): administrators with
  open transactions know that they met (`AllMet`); one who met nobody has read what is
  still so, and has dealt with every other active version when it commits (`Current`).
* `MemoryInv`, for `MemoryExplained` and `AnnotationExplained`: what a request loaded
  is the row unless it is marked stale (`UpToDate`), and the context it writes back is
  its own, or the one it loaded (`Handed`). The statement about annotations is shown
  of any list of messages (`Explained`), once for each way a list changes.
* `LearningInv`, for `LearningExplained` and `LessonsExplained`. That no attempt is
  lost rests on the event loop: of the requests that generate, one is past its chat
  (`OneGenerates`), so that what it holds of the counters it will add to is the row's
  own, however many updates commit beside it (`Held`), and a commit writes the columns
  that changed (`ProgressWritten`). `LessonsKept` says who still answers for a
  completed lesson without a row; `StreaksOK` adds to the streaks that no active day
  is later than the row's last, which makes a new day a new member of the set of
  active days.
* `StoreInv`, for `StoredConversations` (`SessionsAreSound`). `MarksOK` carries the
  marks: of the requests that are about to write a message's metadata, one that
  clashed with nobody holds a copy that differs from the row only by its own mark
  (`Alone`), so that writing all of the copy back takes no other mark away. `ClientOK`
  says that the answer a client missed is still in its conversation while that exists,
  so the newest answer on its return is that one or a later one. `LessonsOK` and
  `TasksOK` say which lessons without a row are being deleted or were left so. What
  the lists show is then shown of any state with the invariant: `Above` is a strict
  total order of the conversations, since every one has its own place by `updated_at`
  (`ActivityOrder`); so pages share nothing and miss nothing, pinned first (`History`).

`StoredDataTypes` (`TypeOK` of `MCSessionData`) puts the four together.

The proofs changed the models where something was wrong or could not be reasoned about.
`LessonStreaksAreDays` had no exception for overlapping requests, and its invariant was
not inductive; TLC confirmed the counterexample once a fourth request was allowed, and
the property now names it (see the next section). The sorted lists were made by an
operator of the community modules that is defined with a recursion the provers do not
know; they are made by `InOrder` now. The assumptions that a usage record has a user and
a feature, and that there are finitely many accounts, are written down in
`UsageAnalytics`.

**Only model-checked.** Of the passing runs: liveness under fairness (`EventuallyFresh`,
`EventuallyRefused`, `EveryCallEnds`) and `NeverStuck`, which is an `ENABLED` formula;
both are out of the prover's reach. The four refuted statements of the next section have
a counterexample and no theorem.

## What the code does not guarantee

Four statements of the documentation are refuted by a run:

| Run | Statement | What happens |
|---|---|---|
| `auth_rotation` | "a user never ends up with two simultaneously valid refresh tokens" (`refresh_token_repository.py:86`) | two refreshes look one token up before either rotates; both mint a successor |
| `verify_once` | "the token can only be redeemed once" (`email_verification_service.py:92`) | two verifications validate the link before either marks it |
| `chat_rollback` | "Incomplete assistant messages created during the stream are rolled back" (`docs/conversation-chat.md:87`) | so are the complete messages of a turn that ran and completed meanwhile |
| `answer_cache` | responses are cached "user-independent content only" (`cache_keys.py`); a continue generates the missing sections of its message (`docs/conversation-chat.md`) | a message without context, and every continue, is answered from a key that does not name its session |

Others were met while modelling. Their behaviour is in the models, mostly as a named
exception of a passing property; `PROJECT.json` quotes each:

* **User state.** A lookup that read the row before a block stores its snapshot
  after the invalidation (`docs/session-enforcement.md:51`); two password changes
  commit against the order of their timestamps (`auth_service.py:238`).
* **Gateway.** A repeated refresh presents a spent token and revokes the user's
  sessions; a course or pattern generation that answers 502 after its commit is
  generated up to three times; refusals of the admin service become 502s; the
  README's "does not validate JWT" is out of date.
* **Chat.** A continue of two sections writes two rows and deletes one; a reconnect
  replays a deleted, failed or earlier answer; the total of a history list ignores
  its search; summarising is never triggered by length. Retry and regenerate do not
  store "superseded" (see ChatStream above).
* **Products.** A request that overlaps another at midnight sets the last day of
  activity back, and the next one counts the day twice (`course_repository.py:297`);
  the status of a mastered pattern is recomputed by the next session; a lesson deleted
  half way stays in the chat list while its product answers 404.
* **Usage and administration.** A search that matches nobody shows everybody's
  usage; a model whose every request failed is reported with 100 % success; a cut
  PDF does not say so; a deletion that takes longer than 15 seconds is neither
  purged again nor logged.
* **Profiles.** Every constraint is answered "Username is already taken"; the
  pictures of deleted accounts stay in the object store.

## What is not modelled

* **Texts and their shapes**: prompts and the prompt builder, the product adapters
  and schemas, the planner's plan, the problem fetcher's parsing, mail texts. They
  turn data into data without a state; what the rest of the system depends on in
  them (which sections an answer has, which topic a key names) is modelled.
* **JWT decoding, hashing, the role comparison**: injective or constant here. Expiry
  of refresh tokens removes validity and gives none, and is left out.
* **The contents of messages in `ChatStream`**: a continue whose model call failed
  still marks its target completed and takes the empty output over; the stream model
  has no contents to tell this apart.
* **Feature flags, notifications, the system page** of the admin service: writes of
  one row with an audit entry, or reads.
* **Registration in `AuthSessions`**, which `OneTimeLinks` has; the periodic
  deletion of expired tokens, which nothing calls.
* **Shared library and infrastructure**: configuration, logging, request ids,
  storage adapters. The isolation level and the identity map of a database session
  are assumptions, stated in the modules that need them.

## What is left

* A composition of `GatewayProxy` with `AuthSessions`: today the proxy knows a
  refresh only as an operation that refuses to be repeated and then revokes.
* The planner and the message contents, for the one hazard without a property.

## How to run

    tlc -workers 2 -config MCChatStream.cfg MCChatStream
    tlapm ChatStreamProofs.tla

With two workers `accounts` (468,000 distinct states) and `session_data` (208,000) take
about two minutes each, `chat_stream` (570,000) and `user_state` (1.2 million) about a
minute; the others take seconds. Most proof modules take between half a
minute and two minutes, `AccountsProofs` six and `SessionDataProofs` ten. The configuration of each run and the module it
starts from are in `PROJECT.json`.
