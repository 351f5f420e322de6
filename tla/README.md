# A formal model of Simple Blog

Simple Blog is a FastAPI monolith over PostgreSQL, with Redis, an S3 object store and a
React client. Its handlers are short; what is hard about them is that they overlap. Each
request is one READ COMMITTED transaction of a SQLAlchemy session that the router commits
(`src/src/db/session.py`), most handlers read without a lock and write later, and the few
locks they take decide which interleavings are possible. No unit test reaches these: the
tests run one request after the other, but for two in
`src/tests/test_postgresql_integration.py`.

This directory models those transactions in TLA+, with what they do to the object store, to
Redis and to the browser, checks them with TLC on small instances, and proves every safety
property that holds with TLAPS, for every value of the constants.

    tlc -workers 2 -config PostCounters.cfg MCPostCounters
    tlapm PostCountersProofs.tla

## The system

Paths are under `src/src/`.

| Component | State | Operations that change it | What makes it correct |
| --- | --- | --- | --- |
| interactions (`modules/interactions`) | `post_likes`, `share_events`, `post_bookmarks`; `posts.like_count`, `share_count` | like, unlike, share, bookmark | one row per user and post; counters follow rows |
| comments (`modules/comments`) | `comments`, `posts.comment_count` | create, edit, delete | deleted once; the counter follows |
| posts and drafts (`modules/posts`) | `posts`: status, category, request, text, `deleted_at`; tags | create, update, publish, delete | only complete posts with an approved category are public |
| categories (`modules/categories`) | `categories.status`, `category_requests` | propose, decide | one decision per request; waiting posts are answered |
| auth (`modules/auth`) | `users`, `refresh_sessions`, `password_reset_tokens`, `email_verification_tokens` | register, login, refresh, logout, reset, verify | a token works once; what is revoked stays so |
| moderation (`modules/moderation`) | `reports`, `moderation_actions`; rows of the others | report, resolve, hide, restore, ban, unban, mute, role, delete account | a ban leaves nothing open; no act of staff is lost; a report is answered once (it is not, see `report_decided`) |
| media (`modules/media`) | `media`, `post_media`, objects in S3 | upload, attach, delete, clean up | an attached file exists; an orphan goes in the end |
| messaging (`modules/messaging`) | `conversations`, `conversation_members`, `messages`, devices, blocks, push subscriptions | open, add and remove members, send, edit, delete, read, block, purge | one conversation per pair; contacts, blocks and devices respected; what is deleted stays so |
| realtime (`core/realtime.py`) | sockets per user in each process; a Redis channel | connect, disconnect, publish, listen | an event reaches the other processes once |
| rate limiter (`core/rate_limit.py`) | hits per key, in memory or in Redis | check | no more than the limit lets through; a key that counts expires |
| users (`modules/users`) | profile columns of `users` | update | one account per name and email |
| frontend (`frontend/src`) | socket, message list, session | reconnect, merge events, refresh on 401 | what is shown agrees with the table |
| scheduled jobs (`api/cron.py`, `media/cleanup.py`) | none of their own | purge messages, delete orphans | never delete what is in use |
| shell (`main.py`, `core/*`) | none | wiring, logging, email | |

How they interact. All components share one database. Interactions and comments call
`get_post` and `change_post_counter` of posts; posts call `resolve_category_selection` of
categories and `replace_post_media` of media; categories rewrite posts when they decide;
moderation writes posts, comments, messages, accounts and sessions. Every handler behind a
login first reads the account and its session (`auth/dependencies.py`). Messaging publishes
to the realtime bridge after its commit. There are no callbacks between components, and no
background tasks but the bridge's listener and the two jobs.

What is hard: two transactions that each decide from a read the other invalidates; the ORM
writing only the columns it believes changed; bulk statements whose snapshot misses rows in
flight; locks taken in different orders; effects outside the transaction (S3, email, Redis)
before or after its commit; events that are lost or overtake the page they belong to.
`PROJECT.json` lists each such hazard at its line, with the properties about it or the reason
why there is none.

## Modules

| Module | Models | Extends or implements |
| --- | --- | --- |
| `PostCounters` | likes, shares, comments and the counters of posts | implements `AtomicCounters` |
| `AtomicCounters` | what these promise: row and counter change in one instant | |
| `CategoryWorkflow` | proposals, decisions, and the posts and drafts that wait | |
| `AuthSessions` | refresh sessions, password resets, bans and deletions | |
| `MediaLifecycle` | uploads, attachments, deletion and cleanup of media | implements `MediaStore` |
| `MediaStore` | what these promise of a row and its object | |
| `Messaging` | conversations, members, messages, blocks, devices, retention | |
| `Lists` | the paged lists of all components, and their cursors | |
| `Delivery` | events, sockets and resynchronisation of the conversation on the screen | extends `Lists` |
| `Accounts` | registration, email addresses, sanctions, roles, reports and what they hide | |
| `RateLimiter` | one key of the rate limiter | |
| `MC*` | symmetry and bounds for TLC; `MCAccounts` runs `Accounts` and `RateLimiter`, which share no state, each alone | the module they name |
| `*Proofs` | the theorems | the module they name |

Conventions. `tx[t]` is a database session: `Idle`, or a record of where its request stands
and of what it read and wrote. Each database statement that others can observe, or that
waits, is an action. Statements next to each other are one action when nothing that another
transaction does between them can be told apart. Locks are not variables: who holds what
follows from `tx`, and a guard waits for those who hold it. The commit of a request's writes
is the action that changes the tables; until then they are in its record. `Rollback` may
end any request at any point: it stands for every error after the first statement, a deadlock
that PostgreSQL breaks, a lost connection, and the death of the process, since nothing but
the database outlives a request.

### PostCounters

| Model | Code |
| --- | --- |
| `rows[k][p]` | likers (`post_likes`), sharers (`share_events`), comments with `deleted_at IS NULL` |
| `counter[k][p]` | the counter columns of `posts` |
| `created` | all comment rows; the deleted ones remain and can be restored |
| `like_post` ... `delete_comment` | the handlers up to their row statement: `get_post` and the checks |
| `InsertRow`, `DeleteRow` | `INSERT ... ON CONFLICT DO NOTHING`; `DELETE`, or `UPDATE ... WHERE deleted_at IS NULL`, with their rowcount |
| `change_post_counter` | the conditional `UPDATE posts` |
| `CommitUnchanged`, `CommitChange` | the router's commit |
| `delete_user`, `hide_*`, `restore_*`, `delete_post` | moderation and the author's deletion, each one step, since it locks before it reads |

`drift` is a history variable: it counts the row changes that the code makes without the
counter. The statements are PostgreSQL's; the branches for SQLite, which the tests use, are
left out. Who wrote a comment is left out, so `delete_comment` is possible for more requests
than in the code. Anonymous shares only read.

### CategoryWorkflow

| Model | Code |
| --- | --- |
| `cat`, `reqs`, `posts` | `categories.status`, `category_requests`, the columns of `posts` that the workflow reads |
| `blank` | title or content is empty: what publishing looks at |
| `create_category_request`, `WriteProposal` | its read and its writes; the unique name is the guard of the second |
| `lock_request`, `read_category`, `resolve_category_request` | `SELECT ... FOR UPDATE`, the read of the category, the writes and the commit |
| `get_draft`, `get_post`, then `update_draft`, `update_post`, `publish_draft`, `delete_post`, then `CommitEdit` | load, decide, write |
| `Overlay` | the ORM's UPDATE: only columns that differ from what was loaded |

`resolve_category_selection` reads a request and then its category; as a request that is
pending while its category is not is refused either way, they are one read here. Requests
do not belong to their proposer: nothing in the code checks that they do.

### AuthSessions

| Model | Code |
| --- | --- |
| `account[u]` | `users.status` (with `disabled_at`, which the code always changes with it), the password as the number of resets, and whether a password can match the hash |
| `sess[s]`, `reset[k]` | `refresh_sessions`, `password_reset_tokens`; "gone" is deleted or past `expires_at` |
| `chain` | history: the first session of a chain of rotations |
| `ended` | history: chains that existed when a ban or deletion committed |
| `login`, `OpenSession` | `authenticate_user`; `create_session` and the commit |
| `rotate_session`, `CheckOwner`, `IssueSuccessor` | the locked read, the read of the account, the two writes and the commit |
| `BeginRevocation`, `VisitSession`, `CommitRevocation` | a bulk UPDATE over the user's live sessions: its snapshot, each row in turn behind that row's lock, the commit |
| `lock_account` | the FOR UPDATE with which ban and deletion begin |

A row expires only while nobody has it locked: whoever has, has looked at `expires_at`
already. Password change through `PATCH /users/me` touches no session and is left out, as
are mutes and roles.

### MediaLifecycle and MediaStore

| Model | Code |
| --- | --- |
| `object`, `row`, `links` | the objects in the bucket; `media`; `post_media`, `message_media` and the two columns of the profile |
| `purpose`, `quota` | the purpose of the media, which decides where they may be attached; `settings.media_quota_files` |
| `upload_media`, `CommitUpload`, `FlushFails` | the owner FOR UPDATE, the count and `put_file`; the INSERT and the commit; the `except` that deletes the object again |
| `replace_post_media`, `DeletePostMedia`, `CommitAttach` | the reads, the DELETE of the old rows (it waits for another one), the flush and the commit |
| `create_message`, `update_user` | the attachments of a message; avatar and cover |
| `delete_media`, `cleanup_orphan_media`, `delete_object`, `CommitErase` | the checks or the query, the store object by object, the rows |
| `purge_deleted_messages`, `delete_user` | the writes of others that drop links and never look at media |

The media are one owner's, as every query asks for the owner. That an upload is more than a day
old is the choice of `aged`. Sizes and the quota in bytes, the kinds of files and
the conversion of images are left out. The position of a file is unique in its post,
which is the guard of `CommitAttach`: a request that finds rows it has not deleted fails.

Only uploads lock, so requests that overlap on one medium do break what is promised: two
attach it to two places, or one deletes the object that the other attaches. `disturbed`
collects exactly the media that two requests handled at once, or whose deletion failed after
its object was gone; `LinkedIsAvailable` and `AttachedHasOnePlace` hold for all others.
`MediaStore` has no such exemption: whatever overlaps or crashes, an object comes before its row and
goes before it, and neither comes back.

### Messaging

| Model | Code |
| --- | --- |
| `account`, `blocks`, `device` | `users.status` and `muted_until`; `user_blocks`; `messaging_devices` |
| `conv`, `role`, `marker`, `msg` | `conversations`, `conversation_members` with `last_read_message_id`, `messages` |
| `envelope` | the devices that the encrypted body is for: all that the server can tell of it |
| `CanContact` | `policy.assert_can_contact` |
| `get_or_create_direct` ... `mark_read`, then `Commit*` | the checks of a handler, then its writes and the commit |
| `CheckEnvelope` | `_validate_envelope`, apart from the checks of contacts before it |
| `remove_message`, `delete_message` | the lookup of the message with the membership; one UPDATE, which asks for the sender and not for the member |
| `hide_message` | the staff's, which locks before it reads |
| `purge_deleted_messages` | the retention job; the foreign key sets markers to NULL |

Nothing here takes a lock, so the properties about blocks and devices say what the checks
do guarantee: what was so when the request began and ever since (`barred`) is respected; a block
made between check and commit is not. Reads of one request are one read, except those before and
after `CheckEnvelope`. An edit does not ask again whom its author may contact. The unique key of
a direct conversation fails at the first flush (line 155), outside the `try` that is meant to
handle it (157-163), so the second of two requests gets an error: a `Rollback`. When all
others have left a group, `serialize_conversation` answers 404 (251-253), and with it
the whole list of conversations; no state is wrong, so no property is about it. A purge that
takes the message of a marker makes read messages look unread again.

### Lists and Delivery

| Model | Code |
| --- | --- |
| `list` | which of the lists it is: its order, whether it is sorted by `updated_at`, what its WHERE shows, and what may happen to its rows (`ops`) |
| `BeginCreate`, `CommitCreate`, `BeginEdit`, `CommitEdit` | a row takes its timestamp first and commits later, so commits may come out of order |
| `Hide`, `Restore`, `Purge` | a row leaves the list or is marked deleted; comes back (a draft by a rejection, a conversation by a new invitation); retention deletes it for good |
| `Page`, `Found`, `NextCursor`, `Readable` | the query with its cursor, the page and the next cursor; the SQLite branch of comments and reports slices the rows in Python |
| `view`, `answer` | what the page of the browser holds; the first pages that were asked for again and are on their way, several at once |
| `outbox`, `hub`, `mail` | events between commit and publish; open sockets; events in the Redis channel |
| `bridge_publish`, `listen`, `Passed` | `RedisRealtimeBridge.publish` and its listener in every process |
| `onEvent`, `ShowSync`, `loadOlder` | the merges of `MessagesPage.jsx` |
| `connect`, `disconnect` | `createMessagesSocket`, and the router's endpoint |

`Sorted` puts rows in order by the number of those that come before; the code leaves it to the
database, or to Python's `sorted`. The eight copies of the cursor code differ in names only and are one operator here. That two rows
have the same timestamp is left out (the id decides between them), as are the signature and the scope
of a cursor. An event carries the message as it was at the commit, and may come as late as one
likes: decryption in the browser is part of the delay. A socket is only counted: dead ones are
those that have disconnected. Events of typing and reading change no list.

On SQLite `rows[index + 1 : limit + 2]` cuts every page after the first short and ends the
list, so `SteadyRowsAreShown` exempts it. `docs/pagination.md` says that rows inserted
after the first request appear only on a new one. The code keeps less: where the order is newest
first, a row whose timestamp is taken after the first page stays out (`LaterRowsStayOut`), but one
that had its timestamp and commits later, a draft that is published later and an old post that is
bookmarked later do turn up on the pages that follow. In a conversation the list is oldest first, hence what
is fetched after a reconnect is the oldest page: `Converges` speaks of that page, and a lost
event of a newer message in a longer conversation is made good by nothing. Retention takes deleted
messages out of the list, so that rows move up into the first page while the cursor of the browser
stays where it was: `loadOlder` may then put a row on the screen twice, until the next
resynchronisation drops the second.

### Accounts

| Model | Code |
| --- | --- |
| `user`, `token`, `report`, `hidden` | `users` (status, role, mute, address, `email_verified`), `email_verification_tokens`, `reports`, the `deleted_at` of what is reported |
| `register_user`, `resend_email_verification`, `verify_email`, `update_user` and `Commit*` | loads and checks, then the flush and the commit |
| `FlushUpdate` | the UPDATE of the tokens makes the ORM flush the account first: from here the request holds the row and the address |
| `moderate_user`, `lock_account`, `CommitModeration` | ban, unban, mute, unmute, deletion and change of role: the role that authentication loaded, the account FOR UPDATE with the checks, the writes |
| `create_report` | the reads, then the flush with its unique index |
| `resolve_report`, `apply_report_actions`, `CommitResolve` | the unlocked read of the report; its flush, which locks the row of the report, and the load of the target; the writes. A ban of the author goes on with `lock_account` |
| `hide_content`, `restore_content`, `delete_content` | staff without a report, and the author; each one step, since it locks before it reads or is one short load and write |
| `Flush` | the ORM's UPDATE: only columns that differ from what was loaded |
| `acts` | history: the standing of each account as the committed acts of staff make it, each applied to what those before it left |

Addresses and user names are unique in the same way, so only addresses are there. A registration,
its first token and the reported content are rows like others; the content is a post or
comment (`indexed`), for which a unique index allows one open report of a user, or a message, for
which there is none. The purge of a reported message deletes its reports with it and is left out. Two
moderators may resolve one report differently: the later commit wins, which is what
`ReportDecidedOnce` finds. `apply_report_actions` loads the target before it locks it: a target that
was deleted then is logged as hidden and not written, so that a `restore_post` in between stays in
force.

`moderation_actions` itself is not a variable, and no property says that it explains the tables.
Its `created_at` is the start of the transaction, so its order is not the order of commits; an
author's own deletions are not in it; and by the stale load above it may say of visible content
that it is hidden. What is checked instead is that the acts on an account add up (`ActsAddUp`):
status, role and mute are what the committed acts come to in the order of their commits.

A deletion keeps `role`, `email_verified` and the tokens. A change of address that
commits after a deletion puts an address back on the anonymised row. `overlapped` collects
the accounts with two requests about the address at once, which can leave a new address verified by
the old link; the deadlock that `update_user` and `verify_email` can run into is a `Rollback`.

### RateLimiter

`check_local` is atomic under the lock of its process; `check_redis` is INCR, then EXPIRE for the
first hit of a window, each its own step, and `Stop` is a process or a Redis that fails between them:
such a key never expires (`stopped`). The local window is per process, so several processes admit
several times the limit; the model has one.

## What the runs check

Two runs assume fairness; in the others nothing is bound to happen, as a client may always
stop and a request may always fail.

- `media`: every request ends (`[]<>Idle`), the job runs again and again when an upload has aged
  (strong fairness for each medium, since attaching it and detaching it disable the job's choice in
  between), and from some time on deletions do not fail. The job is `media/cleanup.py`, which
  an operator must schedule: `cron.py` starts only the retention of messages.
- `delivery`: requests in flight commit, events are published or forgotten and pass through Redis
  or are lost, the browser sends the resynchronisation that it is due (weak fairness), and of the answers
  to one, each may be lost but not all of them for ever (strong fairness for each place in `answer`, as failed
  answers are dropped). That the socket reconnects again and
  again, which the retry timer and the browser's `online` event do while the network is bad, is
  the hypothesis of `Converges` and not assumed of the system.

| Run | Bounds | Question and answer |
| --- | --- | --- |
| `post_counters` | 2 users, 1 post, 2 comments, 2 requests in flight | Counters equal rows plus `drift`; likes and shares are never undercounted; some request is always free; the transactions implement `AtomicCounters`. All hold. |
| `category_workflow` | 2 names (1 seeded), 3 requests, 1 post, 2 in flight | Decisions are final, a pending name can be decided, a new name has one request, approval lasts. All hold. |
| `published_complete` | 2 names, 1 request, 1 post, 2 in flight | A published post is complete. Violated through `PATCH /posts/{id}` on a draft. |
| `waiting_answered` | the same | A post waits only for an open request. Violated by a post inserted after the decision. |
| `proposal_private` | the same | A post with a pending proposal is private. Violated by an update and a publish that overlap. |
| `auth_sessions` | 1 user, 3 sessions, 2 reset tokens, 2 in flight | One live session per login; a ban ends every chain for good; a reset token works once. All hold. |
| `media` | 2 media, 1 post, 2 messages, the avatar, quota 1 or 2, 2 in flight | The quota holds; what is shown exists, in one place, where nothing overlapped; `MediaStore` is implemented; an upload that stays unattached goes. All hold. |
| `messaging` | 2 users with a device each, 2 conversations, 1 message, 2 in flight; `MaxTroubles` = 1, `MaxRows` = 2 | One direct conversation per pair, a group keeps its admin, markers name messages, deletions last, blocks and devices are respected as far as the checks go. All hold. |
| `delivery` | pages of `Limit` = 1, `MaxClock` = 4 timestamps (`MaxEvents` = 2 in a conversation), `MaxSockets` = 1, `MaxUnderWay` = 2 | Every row that stays is shown once, rows with a later timestamp stay out of newest-first lists, nothing uncommitted is shown, a conversation converges. All hold. |
| `accounts` | 3 users, 3 addresses, 2 tokens, 2 reports, 2 in flight, `MaxRequests` = 3, of which `MaxEach` = 2 by members and by staff; limiter: limit 2, window 2, `MaxTime` = 7, `MaxOver` = 2 | Verified addresses are proved where nothing overlapped, the acts of staff add up, one open report of a post or comment, moderators ban users only; the limiter admits what it should. All hold. |
| `report_decided` | 2 users, 1 report, 2 in flight, `MaxRequests` = 3 | A report that has been answered keeps its answer. Violated by two members of staff who have both read it as open. |
| `reset_ends_sessions` | 1 user, 2 sessions, 1 token, 2 in flight | A reset leaves no session of the old password. Violated by a login in flight. |

Why the bounds are enough to be interesting. Every race here is between two transactions;
one post suffices for counters because a request touches one post, and two users and two
comments give both a conflict on one row and one on the post only. Three category requests
allow a rejection, a second proposal and a third beside them, and one post may pass through
every status. Three sessions are a login with two rotations or two logins with one; two
tokens allow a second request to retire the first. Users, sessions, tokens, comments, requests
and transactions are interchangeable and are declared symmetric; category names are not, as
one is seeded. In these runs nothing else is bounded: ids run out, and counters are bounded by
the rows.

Two media and a quota of one or two let two uploads meet at the limit, and one medium replace
another in each kind of place. Two messages let one medium be attached to both. `messaging` has
one trouble at a time (a block, a sanction or a revoked device, with any number one after
the other) and two rows among conversations and messages: two conversations compete for a pair, or one
has a message that is edited, deleted and purged. A page of one row makes four rows four pages,
so that the cursor passes rows that commit late, move, leave and return. In a conversation two
messages with their events, and two answers or events under way when another first page is asked for
(`MaxUnderWay`), are enough for loss, overtaking and repetition: an event reaches the screen twice also
with one socket, as `listen` may repeat, and the browser connects anew as often as it likes. A
second socket adds only repetitions. Three requests on accounts are two that
overlap and one that prepares them; two tokens and two reports give each a predecessor. Seven
units of time are three windows, of which two share a border.

The runs with liveness declare no symmetry. No run needs deadlock checking switched off.

The five violations are disagreements between a document and the code, quoted in
`PROJECT.json`. Where a document's sentence fails, a weaker statement that does hold is
checked beside it: `BanEndsChains` for the operation that does take the lock which a reset does
not, `DecisionsAreFinal` for the requests that, unlike reports, are decided under a lock. The drift of
counters (`delete_user`, `hide_comment`, `restore_comment`) is no such disagreement: `docs/database-schema.md`
allows for it if a job repairs the counters. The repository has none; `CounterLedger` says
exactly how far they drift.

What goes wrong only where two requests overlap is exempt from some properties by a history
variable: `overlapped` in `VerifiedIsProved`, `disturbed` in `LinkedIsAvailable` and `AttachedHasOnePlace`,
`barred` in `BlocksHold` and `KeysStayInside`, `stopped` in `CountersExpire`. These say what the code
does guarantee, and `PROJECT.json` lists what they leave open among the hazards that no property covers.

## What is proved

TLAPS proves, for all values of the constants, every property of the passing runs but the two
about liveness, and for `Delivery` three action properties more:

| Module | Theorems | Argument |
| --- | --- | --- |
| `PostCountersProofs` | `TypeCorrect`, `LedgerHolds`, `ReactionsCounted`, `NoCircularWait`, `Linearises` | what a transaction wrote and has not committed is its own: its row is as it found it, and nobody else moves the counter it has moved |
| `CategoryWorkflowProofs` | `TypeCorrect`, `PendingIsDecidable`, `NewNameHasOneRequest`, `DecisionIsFinal`, `ApprovalLasts` | a locked request has one holder and is pending; a pending name has a request still to be decided |
| `AuthSessionsProofs` | `TypeCorrect`, `OneLivePerChain`, `BanIsFinal`, `ResetOnce` | a locked row has one holder and stays live; under the lock on the account the bulk statement has seen every live session |
| `MessagingProofs` | `TypeCorrect`, `OneDirect`, `AdminStays`, `MarkersName`, `DeletedStays`, `BlocksRespected`, `KeysInside` | a request that checks without a lock has checked what cannot change (a group stays one, a message stays in its conversation, a direct conversation has the members of its key), or what `barred` follows |
| `MediaLifecycleProofs` | `TypeCorrect`, `QuotaKept`, `Implements`, `ShownIsThere`, `OnePlace` | who holds the owner has counted the rows, and nobody else adds one; what a request has loaded of media that nothing has disturbed is so still |
| `AccountsProofs` | `TypeCorrect`, `AddressProved`, `ActsKept`, `OneReport`, `ModeratorsLimited` | the row that staff holds is as it was loaded, so that all of the decision is written and nothing else; a link that still works is for the address that the account has, unless requests have overlapped |
| `RateLimiterProofs` | `KeysExpire`, `AdmissionsAreBounded` | whoever counts from 0 to 1 has `EXPIRE` to do; a span of one window meets the calls of two keys of Redis at most |
| `DeliveryProofs` | `TypeCorrect`, `SteadyRowsShown`, `RowsShownOnce`, `LaterRowsOut`, `CommittedShown`, `CursorAdvances`, `SyncAgrees`, `AgreementStays` | what a page has passed over is before its cursor, and what it has not is after it |

None of the properties is inductive: each speaks of the tables, and what keeps a table right
is what the transactions in flight hold. The proof modules of the components with transactions
therefore strengthen `TypeOK` with statements about `tx`, named and commented at their head, and prove that every action
keeps them. In `AuthSessions`, for instance, `BanEndsChains` needs `Covered`: while a ban
holds the account, every live session of that account is still to be visited or already
changed. That is true since inserting a session needs a key share of the account, which waits
for the ban; it is where the order "lock, then bulk UPDATE" matters. It needs `ChainIsRooted`
too, which says that a chain never changes its owner.

In `Accounts` the acts need more than the lock: a commit writes only the columns that the
request has changed since it loaded the row (`Flush`), so `ActsKept` rests on `Held`, which
says that what a `locked` request has seen is the whole row, and on the other commits leaving
the columns of `Standing` alone.

In `Lists` no two rows have one key, since a time is taken once (`RowsInv`); so a sorted page is a
strict sequence (`SortedFacts`, by counting for each row how many come before it) and a cursor
divides the rows. `SteadyRowsAreShown` and `NoRowTwice` speak of lists that have been read and
are strengthened to say what is so in the middle of one: a row that has been there all the time is
shown or after the cursor (`SteadyInv`), and the places of the items shown are different and not
after the cursor (`OnceInv`). `ShownIsCommitted` holds since the events and the answer on their way
are of committed rows as well (`ViewInv`). What the prover can say of `Converges` are the two
steps it rests on: any answer that is still the first page makes the screen agree (`SyncAgrees`),
and once every answer and event under way is as the table is (`Quiet`), no step takes a row of the
first page from the screen or puts it back to an older state while the rows do not change
(`AgreementStays`). The second is weaker than `Agrees`, which wants each of these rows
once: after a purge `loadOlder` may show one of them again, as it removes no duplicates.

The bound on the limiter is proved of the sequence of all admissions. In memory the hits of the last
window are the admissions of the last window (`LocalWindow`); in Redis those since the key
was made are as many as it has counted, up to the limit, those of the key before it are at most
the limit, older ones are a window old, and all that came before the key will be when it expires
(`RedisWindows`).

The assumptions on constants are that `None` is no user, address, session, token, name,
request, report or message where these are identified; that sessions and tokens are disjoint, and
so are the kinds of containers; that seeded names are names; that quotas and the bound on
reports are natural numbers; that there is room for one verification token; and that the
limiter's limit and window and the length of a page are positive; the bounds on times, events
and sockets are any natural numbers. TLC evaluates each on the runs. `PostCounters`
assumes nothing of its constants: what its proofs need to count rows, that the rows of a post
are finitely many, is part of their invariant and holds since each step adds at most one; the
same goes for the rows of an owner in `MediaLifecycleProofs`.

Model-checked only:

- the five violations;
- `UploadsGo` and `Converges`, which are liveness under fairness: the prover does not reach it.

Deadlocks between a ban and a rotation are possible in the code; the model lets PostgreSQL
break them with `Rollback`.

## Plan

What could follow:

1. A composition of `AuthSessions` and `Accounts`, which model the same bans: the one ends
   sessions, the other writes the account and the log.
2. Push subscriptions with the session they are deleted in, once something reads them.

## Not modelled

- Push subscriptions and `mute_conversation`: one row each, which only the push notification
  reads.
- Bookmarks, tags, profile texts and a change of password: single statements on rows that
  nothing else depends on. The list of bookmarks is in `Lists`.
- Search, the popular order of posts and the overview of reports: they only read.
- Health checks, configuration, middleware, logging and the delivery of email, which keep no
  state. A failed email is a `Rollback`.
- Rendering, wording, validation of single fields, signatures of cursors and tokens, CSRF and
  cookies, image conversion, the ciphers of the client, and alembic's migrations: pure functions or
  external libraries.
