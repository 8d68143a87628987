# TLA+ verification of Atoll Chat

Atoll is a chat system with end-to-end encryption: a Rust server (`src/server`,
axum and SQLite) that orders and stores ciphertext, and clients
(`src/packages/app`, JavaScript with a local database) that keep MLS groups, a
copy of their user's own state and a cursor into everything they poll. The
server's promises are about *order* and *catching up*: who may write what, which
number it gets, and what a client that was away is given when it comes back.
Those promises are what this directory models, checks and proves.

Paths below are relative to `src/`.

## 1. Inventory

### 1.1 How the server runs

Two facts about the server shape every model.

* The SQLite pool has **one connection** (`server/src/db.rs:26`). A transaction
  holds it from BEGIN to COMMIT, so transactions are serial, and so is each
  statement outside one. Between two statements of a handler that are *not* in
  one transaction any other handler may run. A model's step is therefore a
  transaction or a lone statement.
* **Realtime events** (sockudo, a Pusher-compatible broker) are published after
  COMMIT and errors are dropped. For messages and user-scoped state an event is a
  hint to poll, so `RoomLog` and `UserSync` deliver none: what holds, holds for
  clients that poll. Where clients fold events and nothing else (occupancy
  counts, reactions, bot events), the modules keep the events under way, late,
  lost or out of order as the code allows.

State that is *not* in the database (the occupancy maps, pending protocols, the
model cache, the loaded keys) is lost at a restart, and blobs, model files and
archives are written step by step, so those modules also crash and restart.

### 1.2 Components

| Component | State | Operations | Hard behaviour | What makes it correct |
|---|---|---|---|---|
| **Room message log** `server/src/room_messages.rs` | `room_messages`, `room_epochs(epoch, sequence)` | submit (commit, application, proposal), edit, delete, list by `(epoch, seq)` cursor | members race to end an epoch; rows appear behind a reader's cursor; edits of deleted rows; page cuts between equal keys | one commit per epoch, dense numbering, flat edit chains, rows never change, a poller misses nothing |
| **Bot messages** `routes/room_bots.rs`, `bots/idempotency.rs`, `cleanup/bot_request_log.rs` | `room_bots`, `room_bot_scopes`, `bot_request_log` | grant, patch, revoke; post message, post command | checked in one statement and inserted in another; retries of an answered request; a second numbering scheme in the same log | no row for an epoch not reached; one row per request while its answer is kept |
| **Membership** `rooms.rs`, `room_invites.rs`, `cleanup/pending_removes.rs` | `rooms`, `room_members`, `room_invites`, `pending_mls_adds`, `pending_mls_removes` | create, invite, redeem, add, leave, kick, promote, demote, transfer, confirm adds and removes, delete an account | the route checks, the transaction follows; owner leaves; MLS group and table drift apart | one owner; an invite is used at most `max_uses` times; who is put out is queued for MLS removal until a member confirms |
| **User-scoped sync** `sync/seq.rs`, `sync/query.rs`, `sync/read_state.rs`, `sync/starred.rs`, `cleanup/sync.rs` | `user_seq.next_seq`; per table a `user_seq` column; tombstones | allocate a number, upsert, list since a cursor, decide on a full resync, prune tombstones | lists and `max_seq` read in separate statements; pruning between a lookup and a write; cursors older than the retained history | numbers distinct and increasing; a change lies ahead of every cursor; devices converge |
| **Starred items** `starred/write.rs` | `starred_items` | star, unstar, list | looked up before the transaction | limit; no star lost or resurrected |
| **Client sync** `packages/app/src/lib/sync`, `lib/db/repositories/starred-items.js`, `plugins/sync-plugin.js` | `last_user_seq`, local tables | request, apply table by table, store the cursor | fails half-way; resync; an older row after a newer one | the cursor covers only what was applied |
| **Voice sessions** `sessions/*.rs`, `routes/room_sessions.rs` | `room_sessions(position)`, an in-memory map behind a lock, debounce tasks | create, patch, delete, join, leave, heartbeat, clean up, tear down | count read under the lock and published after it, from a task of its own; a join after the teardown; renumbering | the count announced last is the count; nobody stays in a session that is gone; the cap holds; positions dense |
| **Calls** `calls/*.rs` | `call_sessions`, a second map | start or join, leave, end | the lock is taken anew for every operation | limit on accepted participants; a refused client is not in the map |
| **Key packages, welcomes, devices** `key_packages.rs`, `welcomes.rs`, `devices.rs` | one-time and last-resort packages; welcomes; devices | upload, claim, select for an add, revoke | two claims of one package; revocation against pending adds | a one-time package is handed out once |
| **Bots** `routes/bots.rs`, `routes/room_bots.rs`, `bots/`, four jobs of `cleanup/` | tokens, grants, settings, `bot_commands`, `bot_operator_queue`, `bot_event_log(bot_seq)` | command, acknowledge, result, ask operators, answer, expire, sync | answer against timeout; retries; numbering and pruning between the statements of a sync | a question ends one way; a `request_id` takes effect once; an answer leaves no hole |
| **Bot runtime** `packages/bot/src/runtime` | `botSeq` cursor, record of commands | connect, sync, push, dispatch, reconnect | the same command by push, sync and after a reconnect | a command is handled once |
| **Accounts** `routes/register.rs`, `routes/login.rs`, `routes/recover.rs`, `session.rs`, `invites.rs`, `oprf/rotation.rs`, `gdpr.rs` | users, devices, sessions, instance invites, recovery codes, pending protocols in memory | OPAQUE registration and login, recovery, rotation, revocation, deletion | two-request protocols; invite consumed before the account is written; recovery against logins | an account is paid for with an invite; no session outlives a recovery |
| **Key transparency** `key_transparency/`, `cli.rs` | the log of leaves, signed tree heads | append, snapshot, prove, verify | the tree grows between snapshot and proof | every proof handed out verifies; the log only grows |
| **Attachments** `attachments.rs`, `storage/` | rows; blobs in two backends | upload, read, delete, prune, migrate | row and blob written in separate steps, crashes | a row never lacks its blob |
| **Retention** `limits.rs`, `cleanup/attachments.rs` | three tiers of settings | set, preview, prune | settings change while the job runs; 0 means for ever | nothing still kept is deleted |
| **Reactions** `reactions/`, `routes/reactions.rs` | one row per message, user and reaction | add, remove, publish | events overtake each other | who folds the events sees the table |
| **Rate limits** `rate_limit.rs`, `cleanup/rate_limits.rs` | a counter per key and window | count, clean up | windows of different lengths, one cleanup | no window is forgotten while open |
| **Push** `push/` | subscriptions, VAPID keys | register, dispatch, settle, rotate | an old answer meets a renewed subscription | a browser keeps its subscription |
| **Model hosting** `models/`, `routes/models.rs` | manifest, files on disk, failure cache | request, fetch, install, reload | concurrent fetches, crashes, new manifests | what is served under an ETag is its content |
| **Extension proxy** `extensions_proxy/` | eight counters, block list | fetch, redirect, charge | counted before, charged after, refused in one window only | all counters agree |
| **Backup** `backup/` | archives, temporary files | checkpoint, copy, write, rename, prune, restore | two jobs, crashes, key rotation | the newest archives are whole and restorable |
| **Realtime** `events/broadcast.rs`, `sockudo/` | none | publish | events lost or late | see 1.1 |
| **Publisher keys, preferences, room order, link previews, configuration, roles, administration, recipes, app interface** | single rows, settings or view state | | | section 7 |

### 1.3 How they interact

Submitting, editing, deleting and listing ask `room_members`; bot messages ask
`room_bots`. Both write `room_messages`, but only submitting reads and writes
`room_epochs`. Every user-scoped table takes its numbers from the one `user_seq`
row of its user inside the transaction that writes the row. The pruning job
(`cleanup/sync.rs`) removes tombstones from those tables behind everyone's back.
Clients learn all of it through two cursors: `(epoch, seq)` for a room and
`last_user_seq` for the user.

Membership is what most components meet in: messages, sessions, calls,
attachments and reactions ask `room_members` before they act, and most do so in a
statement *before* their transaction. Deleting a room tears down its sessions,
cascades to its attachments' rows (not to their blobs) and ends its log; revoking
a device deletes its key packages; deleting an account leaves its rooms, revokes
its sessions and devices and deletes its bots, with their leaves in the
transparency log. Bots write to the room's log (`RoomLog`) and to their own
(`Bots`).

## 2. Modules

| Module | What it is |
|---|---|
| `RoomLog` | the log of one room with its members, its bots and the clients that poll it |
| `LinearLog` | the abstract specification of the log: one linear history cut into epochs |
| `MCRoomLog` | values for TLC |
| `RoomLog_proofs` | theorems about `RoomLog`, the refinement of `LinearLog` among them |
| `NatLemmas` | facts the proofs share: least numbers, maxima, the numbers of a finite set in order, a sequence without one element |
| `UserSync` | one user's numbered state, the requests and the job that change it, and the devices that copy it |
| `MCUserSync` | values for TLC |
| `Users_proofs` | theorems about what belongs to users: `UserSync`, `Accounts` and `Merkle` |
| `RoomSessions`, `MCRoomSessions` | the voice sessions of one room, rows and map |
| `RoomSessions_proofs` | theorems about `RoomSessions` |
| `Calls`, `MCCalls` | calls and their map |
| `Calls_proofs` | theorems about `Calls` |
| `RoomMembers`, `MCRoomMembers` | one room's members, invites, pending adds and removes, and the key packages of their devices |
| `RoomMembers_proofs` | theorems about `RoomMembers` |
| `Bots`, `MCBots` | one bot: tokens, grant, commands, questions, settings, event log, and the runtime that follows it |
| `Bots_proofs` | theorems about `Bots` |
| `Accounts`, `Merkle`, `MCAccounts` | the accounts of an instance and the key transparency log; `Merkle` is the tree |
| `RoomAccess`, `Files`, `Reactions`, `RoomContent` | rooms and members as the content sees them; attachments; reactions; the composition of both on one server |
| `Push`, `ModelFiles`, `RateLimit`, `ExtensionProxy`, `Backup`, `RetentionDays` | one service each |
| `MCServices` | the ten modules of the last two lines together, with values for TLC |
| `Services_proofs` | theorems about those ten modules |

### 2.1 RoomLog

`msgs` is `room_messages` in the order of insertion; the index of a row is its
id. A row has the columns that order, address and authorise it (`kind` is
`content_type`, `targets` is `target_user_ids`, `editOf`/`editSeq` are `edit_of`
and `edit_sequence`) and `reqEpoch`, the epoch the sender named, which the code
compares and does not keep. Ciphertext, transcript hash, `reply_to` and times are
left out: nothing stated here tells them apart. A deletion sets `deleted` (the
`deleted_at` column) and leaves the row in the lists, as the code does.

| Code | Action |
|---|---|
| `submit_message`, the Commit arm | `SubmitCommit(u, e)` |
| `submit_message`, the Application and Proposal arm | `SubmitNumbered(u, e, kind, targets)` |
| `edit_message`, `delete_message` | `EditMessage(u, i)`, `DeleteMessage(u, i)`; `DeleteAnswer` has every refusal, in the code's order |
| `post_bot_message` up to the transaction | `BotCheck(b, e, r)`, or `BotAbort` |
| its transaction | `BotInsert(b)`, `BotDuplicate(b)` |
| `BotRequestLogTtlJob` | `BotRequestLogTtl(b, r)` |
| `list_messages` without and with `since` | `ListLatest(u)`, `ListSince(u)`: a page, then `cursor` becomes its `next_cursor` |
| `redeem_room_invite`, `add_member`, `leave_room`, `kick_member`, `promote_member`, `demote_member`, `transfer_ownership` | `Join`, `AddMember`, `Leave` and `LeaveAsOwner`, `Kick`, `Promote`, `Demote`, `TransferOwnership` |
| `grant_bot`, `patch_room_bot`, `delete_room_bot` | `GrantBot`, `PatchRoomBot`, `DeleteRoomBot` |

Points where the model had to decide:

* A request that is refused changes nothing and is no step; `e` ranges over every
  epoch up to one the room has not reached, so the refusals are reached.
* SQLite promises no order among rows with equal `(epoch, seq)`. A page is *any*
  set of `PageLimit` rows that no row left out precedes.
* A grant that is revoked stays in `room_bots`, whose primary key then forbids a
  second grant: `GrantBot` needs the bot never to have been granted.
* When the last member leaves, the room is deleted. The model ends there.
* Edits after `edit_window_seconds`, requests over a rate limit, and joining a
  full room or by a spent invite are refusals.

### 2.2 UserSync

`nextSeq` is `user_seq.next_seq`. Two of the tables that draw from it are
modelled: `starred_items` (`starred`), which has tombstones, a limit and a lookup
before its transaction, and `read_state` (`readSeq`), an upsert. The others
(preferences, room order, device names, bot settings) behave as `read_state`
does. `aged` holds the rows whose timestamp has left the retention window, so
that time needs no clock. `call` is what a handler in flight has read; `pruning`
what the job has selected; `sync` what a device's request has read so far and
where the device is with it. `cursor`, `local`, `localRead` are on the device.
`missed` is a history, no state of the program: the numbers written while a sync of the
device had listed the row's table and not yet read `max_seq` (`PassedOver`). A sync that
starts below such a number lists it, and takes it off.

| Code | Action |
|---|---|
| `star_item`: lookup; fresh insert; star over a tombstone | `StarLookup`; `StarFresh`; `StarAgain` |
| `unstar_item`: lookup; transaction; the same when the row is gone | `UnstarLookup`; `Unstar`; `UnstarPruned` |
| their error answers | `CallFails` |
| `allocate_user_seq` with the statement after it | `WriteStarred`, `MarkRead` |
| `SyncPruningJob`: SELECT; DELETE | `PruneSelect`; `PruneDelete` |
| `execute_sync`: read state; starred items; `next_seq - 1`; resync check | `SyncReadState`; `SyncStarred`; `SyncMaxSeq`; `SyncCheck` |
| `runUserScopedSync`: resync; apply; apply; store | `RestartCursor`; `ApplyReadState`; `ApplyStarred`; `StoreCursor` |
| an error anywhere in it, a closed page | `SyncFails` |

`OlderThanCutoff` is FALSE by `CutoffBound`: the SQL of
`is_full_resync_required` has thirteen placeholders and eleven values are bound,
so the cutoff is NULL and no row is older (section 4).

### 2.3 RoomSessions

`row` is `room_sessions`, `entry` the map of `sessions/occupancy.rs`, `call` and
`request` what has passed its checks and not yet taken the lock or the
transaction, `outgoing` the counts whose publication is under way, `shown` what the
room heard last. `announced`, the count whose publication began last, and `astray`, the
sessions of which a publication was overtaken or lost, are histories.

| Code | Action |
|---|---|
| `create_session`: the route's checks; the transaction | `CreateCheck`; `Create` |
| `patch_session`: the row and its version; the transaction | `PatchRead`; `Patch` |
| `delete_session`: the row; the transaction; `teardown_session` | `DeleteRead`; `DeleteRow`; `Teardown` |
| their error answers | `RequestFails` |
| join, leave, heartbeat: membership and row; under the lock | `JoinCheck`, `LeaveCheck`, `HeartbeatCheck`; `Join`, `Leave`, `Heartbeat`, or `CallFails` |
| a client sends no heartbeat any more; `cleanup_stale_participants` | `Silent`; `Cleanup` |
| the task of `ensure_debounce`; `publish_occupancy_event`, which arrives; or fails | `Debounce`, which begins a publication (`Publish`); `Deliver`; `Lose` |
| leaving, being kicked, joining the room; a restart | `LeaveRoom`, `EnterRoom`; `Crash` |

* A publication is sent from the task that woke up, after it has noted its count and
  released the lock (`occupancy.rs:410-428`), and its error is thrown away. So those under
  way arrive in any order, or not at all, and what was lost is not sent again.
* A change of the room's membership does not tell the map, and a position below
  zero means the front in a creation and the end in a patch: both as in the code.
* A client has one call in flight. What it asks for a session it is not in then
  changes nothing, so only participants leave and send heartbeats (`TakesPart`).
* Left out: a room that is deleted, which tears its sessions down before its
  DELETE commits (`rooms.rs:708`), and signals, which are relayed and change nothing.

### 2.4 Calls

`row` is `call_sessions`, `inside` the map, `request` the step a client's handler
is at. `JoinCheck` and `JoinStep` follow `join_call` through adding the client,
counting, removing it again (`EnforceLimit`, `RemoveRefused`) and announcing;
`LeaveStep` and `EndStep` likewise. `Dropped` is a handler whose caller hung up,
`Restart` empties the map.

### 2.5 RoomMembers

A request whose transaction asks again for everything its route checked is one
step; joining by invite and uploading packages do not, and are two. `handed`,
`joins` and `owed` are histories: how often a package was given out, how many an
invite let in, and who was put out and not confirmed removed.
`PendingRemovesJob` marks and prunes. A leaver is never `owed`: `leave_room` queues
nothing (1.3, section 4). Packages are claimed oldest first, the last-resort
package when none is left.

### 2.6 Bots

`events` is every event ever numbered and `log` the numbers retained; `wire` what
has been committed and not yet pushed, in any order, each at most once. The sync
endpoint is three steps (`SyncList`, `SyncCount`, `SyncJudge`). The last stands for two
statements, the smallest number retained (`bots.rs:2312`) and, if that does not lie past
the cursor, whether a retained event at or below the cursor has expired (`:2329`). Between
them only numbering and pruning can matter. When the second is asked, everything past the
cursor was retained at the first, and so when the list was read: the answer is complete,
whatever the second says. So the merge hides no violation of
`AnswerComplete`. The runtime has
a cursor, a record of commands (`seen`) that expires (`ForgetSeen`) and a connection
that comes and goes. The operator queue has its two jobs, of which the timeout job
selects and expires in separate statements (`Expire`). A call with a
`request_id` is checked, then stored; its answer is remembered until
`ForgetRequest`.

### 2.7 Accounts and Merkle

`work` holds what waits for a protocol's second request and the handlers under
way, told apart by the step they are at; each await of the database between a
decision and its write is a step. OPAQUE is abstracted to what fits: a login
succeeds when its OPRF key is the one the account was registered under and its
credential is the one `login_start` read. `delete_me` asks for a session opened in the
last minutes and refuses the last owner with 409 (`RequestDeletion`;
`routes/users.rs:413-435`); `anonymise_user` is a transaction after that and does not
ask again (`DeleteAccount`). Nothing but the first registration makes an owner:
`grant_role` has no caller. `log` is `key_transparency_log`, `snaps` the signed heads.
`Merkle` has the tree with hashes as free constructors, so that
two roots are equal only if their leaves are, and the recursion of the code as
recursive functions: `Roots(leaves)[n][lo]` is the root over the `n` leaves from
position `lo`, `InclusionProof` and `ProofRoot` recurse over the same two numbers.
`WithoutBots` deletes rows of the log and keeps the order of the others: it reads
them in increasing order of their position (`InOrder`). A user's
answer (`UserAnswers`) and a bot's (`BotAnswers`) carry the proof the two handlers
put together.

### 2.8 Services

`Files`: row and blob are written, deleted, pruned and migrated in separate steps
by `Workers` and the migration command; a file system write fills a temporary file
that two writers of a key share. `Reactions`: rows, then publications that may
overtake one another or fail. `Push`: registration reads and writes in two
statements while dispatches are under way; any send may be answered with gone, as the
sender takes an error for gone by its text (`push/sender.rs:146-158`). The histories `held`
and `doomed` are what a browser was told last about its registration, and the rows a send to
which was answered with gone or that were revoked under a registration. `ModelFiles`: lookup, download, verify, rename and
respond are separate, beside a manifest that may be replaced. `RateLimit`: the
clock in hours, one cleanup for windows of every length. `ExtensionProxy`: counted
in four windows before a fetch, charged in four after it, refused by rollback.
`Backup`: the scheduler and the endpoint (`Runners`) each run the job's steps - checkpoint,
database file, key file, temporary file, contents, name, pruning - with crashes and restores.
The key is rotated by the command, with the server stopped, and by
`POST /api/v1/admin/oprf/rotate` while it runs and goes on with the key it loaded
(`loadedKey`); `hotSince` remembers when the latter first happened. `RetentionDays`: the job reads the limit, then
the rooms, then selects and deletes in two statements.

The modules of single services have no specification of their own: `Services_proofs`
states `QuotasSpec`, `DaysSpec`, `ModelsSpec`, `PushSpec`, `BackupSpec` and `ProxySpec`
as initial condition and steps, while `Files` and `Reactions` are proved in the `Spec` of
their composition `RoomContent`. `MCServices` explores each of them with the others at
rest (`focus`): `Files` and
`Reactions` share rooms, members and restarts and move together in `RoomContent`;
otherwise they share no variable, so a step of one neither enables nor disables a
step of another and an invariant about one of them holds in all interleavings if
it holds in these.

### 2.9 Assumptions about libraries

sqlx decodes a NULL column of a non-`Option` type to the empty value for SQLite,
so a bot's row with its NULL sender is no error to `delete_message`. SQLite compares
timestamps as text. Foreign keys are enforced (`db.rs`). The push service, the
broker, upstream model hosts and browsers are modelled from how the server uses
them and are marked external in `PROJECT.json`.

## 3. Runs

Run one with `tlc -config RoomLog.cfg MCRoomLog`. All of them allow the system to
stop (`CHECK_DEADLOCK FALSE`): the bounds end every behaviour, and users need not
do anything.

### 3.1 Runs that pass

| Run | Question | Instance |
|---|---|---|
| `RoomLog` | Do two users who race to commit, whisper, propose, edit, delete, join, moderate and hand the room over keep one linear history? | both may own the room, bob may moderate; 4 rows, 1 deletion |
| `RoomLogReader` | Can a client that polls be moved past a numbered message it may read, and does it get every one of them in the end? | whispers, pages of 2, 5 rows, `FairSpec` |
| `RoomLogBots` | What does a bot do to the log whose checks precede its insert and who retries? | 1 bot, 1 `request_id`, 4 rows |
| `UserSync` | Do concurrent writes, the pruning job and a device that syncs, fails and resyncs keep numbers in order, and does the device have all its cursor covers? | 2 items, 2 requests in flight, 1 device, 3 numbers, 1 failure, everything may age |
| `UserSyncConverge` | Do two devices end up with the server's state? | 2 items, 2 devices, 3 numbers, 1 failure, `QuietSync`, `FairSpec` |
| `RoomSessions` | Do positions, cap and counts survive concurrent creations, moves, deletions, joins, lost memberships, silent clients, overtaking and lost publications and a restart? | 2 users, 3 clients, 2 sessions of which 1 is joined, cap 1, `FairSpec` |
| `Calls` | Does the limit hold although it is looked at after the client is added? | 3 clients of 2 users, 2 rooms, 1 call, limit 1, 5 requests, 1 fault |
| `RoomMembers` | Do owner, seats, invites, packages and pending removals agree under races? | 3 users, room size 2 or 3, 1 invite, 2 packages per device, 1 request in flight, 1 deleted account |
| `Bots` | Are questions, `request_id`s, sync answers and commands settled once? | 1 question, 1 `request_id`, 2 calls, 2 upsets |
| `Accounts` | Do the two-request protocols add up, and do proofs verify? | 2 tokens, 1 client, 1 invite of 1 use, 3 protocols started, 2 of a rotation, a snapshot and a bot's key |
| `Services` | The promise of each service of 2.8 | see `Services.cfg`: 1 file, 2 reactions, 1 browser with 2 endpoints, 2 hashes, 6 hours, 2 fetches, 2 seconds and 3 backup jobs, 2 rooms with 1 picture |

Each property, and what would break it:

* **EpochLinear** - two members commit on one epoch and both are told yes, or an
  epoch ends without its commit.
* **NumberingDense** - numbers of an epoch are not 1, 2, 3, ... in insertion
  order, or `room_epochs.sequence` is not their count. Commits, edits and bot
  messages all come in between, and the first two write `seq` 0.
* **EditChain** - an edit of an edit, two edits with one number, an edit whose
  readers are not the original's.
* **AppendOnly** - a row changes other than by its final deletion, or a deleted
  message gets another edit.
* **ImplementsLinearLog** - the refinement of section 5.
* **NumberedNeverSkipped**, **CatchUp** - the cursor reaches a message without
  the client having been given it; polling on for ever does not bring it.
* **BotEpochReached** - the check-then-insert of the bot endpoint lets a row
  land in an epoch the room has not reached.
* **PostedOnce** - a retry posts again while the stored answer is kept.
* **SeqsDistinct** - two rows with one `user_seq`.
* **ChangeIsAhead** - a row changes under a number some cursor, or an answer
  under way, already covers, so that a device never hears of it.
* **CursorCovers** - a cursor is stored for a row the device does not have, though
  nothing was written between the query of its table and `max_seq`: after a failed
  sync, a resync or a repeated one, or when a later sync from a lower cursor should
  have brought it.
* **AllConverge** - a device stays different from the server for ever.
* **PositionsDense** - some order of creations, moves and deletions leaves a gap or
  two sessions at one position.
* **CapHolds** - a join under the lock counts too few: a second client, an emptied
  entry, an entry made anew after its session is gone.
* **CountsAtRest** - with no task asleep, the count announced last is not the true
  one: somebody was dropped from the map and no task was started, or the entry was
  emptied and made anew. Or the room shows another count than was announced last,
  though no publication was lost or overtaken.
* **CountsSettle** - a count is announced that no later one corrects, or publications
  and tasks go on for ever.
* **NobodyLingers** - someone who lost the room, or whose session was deleted,
  stays in the map.
* **LimitHolds**, **OnlyAccepted** - with the limit looked at after the client is
  added, too many are told they joined, or a refused client is left behind.
* **OneOwner** - `rooms.owner_id` and the role disagree, or two have the role.
* **HandedOutOnce** - a one-time package is claimed and selected for an add, or
  given out and deleted.
* **SeatsHold** - a seat or an invite's last use is taken twice between the route's
  check and the transaction.
* **RemovalOwed** - the job that marks and prunes, a second removal or a confirmation
  of another row drops somebody who is still to be removed from the group.
* **OneOutcome** - an answer and the timeout job both send the bot a response, or
  neither does.
* **RequestOnce** - a repeated call, by anyone on any endpoint, takes effect twice
  while its `request_id` is remembered.
* **AnswerComplete** - numbering or pruning between the statements of a sync leaves
  a hole in an answer that asks for no resync.
* **HandledOnce** - a command is pushed, listed and listed again after a restart and
  its handler runs more often than its record has expired.
* **AdmissionPaid** - a failed or concurrent registration makes an account that no
  invite use stands for.
* **OldSessionsOut** - a session from before a recovery is accepted after it.
* **ProofsVerify** - path, root and tree size of an answer come from different trees.
* **RowReadable** - a crash or failure between row and blob leaves a row whose blob is
  missing or partial in the backend the row names.
* **SubscribersAgree** - a reaction is announced twice, not at all, or wrongly.
* **SubscriptionKept** - the row a registration answered with goes, is deactivated or
  gets another endpoint by something that is not about it: a send that failed or timed
  out, a send to another row of the browser, a late registration, a restart.
* **TagNamesContent** - a response to be cached for ever carries other bytes than its
  ETag names.
* **QuotaHolds** - the cleanup forgets a count whose window is still open.
* **ChargesMatch** - a request refused in one window stays charged in another.
* **NewestKept** - a crash or a second job costs one of the newest archives, or an
  archive from before any live rotation holds a key that does not go with its database.
* **RetentionKept** - the job deletes what one of three tiers, in which 0 means for
  ever, still keeps; or the preview names other files than the job would.

**Bounds.** `MaxRows` bounds the log and `MaxDeletes` the deletions. Four rows
hold an original, its edit, the commit after it and a message in the next epoch;
five rows hold two pages of two with a row inserted on either side of the cut.
The properties compare at most two epochs and at most two rows. `Moves` gives
each user the roles it may take, `Kinds` the numbered kinds that are sent
(proposals and messages take the same path; one run has both). `PageLimit` 1 and
2 cut pages at every place there is; the code's smallest limit is 1. `MaxSeq`
bounds the numbers allocated: to star, unstar and star again, with or without
pruning in between, takes 3, and so does a star and its tombstone beside a read
mark. `MaxFails` bounds failed syncs; where it may fail, one failure
already leaves every partial state. `CanAge` names the rows that may outlive the
retention window. The epoch window of bots (3) is never cut short by 4 rows: with
4 commits no bot row fits. `BotEpochReached` is about its other end.

The other runs: a cap of 1 and a limit of 1 are full with one user, so that the
second user's attempt and the second client of the first both happen; two sessions
are enough to move one over the other. `Starts` splits the run in two, as rows and map
meet only in whether a session has a row: one session that is joined, left and deleted
with every join to come (`MaxJoins`), and two that are created and moved with none.
`MaxOthers` bounds patches, changes of membership and restarts together. Calls count requests (5: two joins, a leave,
a rejoin and an end). In `RoomMembers` the sizes 2 and 3 and the single-use invite
meet the last seat and the last use with one user on the way; two packages are one
one-time and one last-resort, or two one-time. In `Bots` an upset is a change of
the account or the grant, a lost push, a failed sync, a disconnection or an expired
record; two of them give every pair. In `Accounts` three protocols started let a
recovery, a login and another login or registration overlap; `MaxRare` bounds rotations,
bots' keys and snapshots together, and 2 gives every pair of them. In `Services` every
clock runs through at least two windows of the shortest kind, and those of
`RateLimit` and `RetentionDays` past the end of the longest; the proxy's day, a
window like its others, does not end. One send at a time (`MaxSends`) is enough: the sends
of one dispatch settle one after the other and touch their own row only. Three backup jobs
(`MaxJobs`), of two runners, are two that overlap and one after them. Larger instances of several modules (two pictures, another client)
were run once and agree; they take too long to keep.

The type invariants (`TypeOK` of `RoomLog`, `RoomMembers`, `UserSync`, `RoomSessions`,
`Bots` and `Calls`, `AccountsTypeOK`, and `MCTypes` of `MCServices`) are definitions of
their modules, checked on these instances while the modules were written, and not repeated
in the cfgs. All of them are theorems (section 6).

`QuietSync` is not a bound but an assumption of one run: nothing is written while the
server answers a sync. `AllConverge` needs it, and that no row ages; section 4 says what
happens otherwise. Other properties name the case they leave out in their own text:

* rows written between the query of their table and `max_seq`, until the next sync from a
  lower cursor (`CursorCovers`);
* a restart that lost an entry (`CountsSettle`, `CountsAtRest`), and for the count *shown*
  a publication that was lost or overtaken (`CountsAtRest`);
* handlers whose caller hung up (`OnlyAccepted`);
* operations on one id that overlap (`RowReadable`);
* events lost or out of order (`SubscribersAgree`);
* a row a send to which was answered with gone, or that was revoked under a registration
  (`SubscriptionKept`);
* two jobs in one second; and for the key, whatever is archived after a rotation under the
  running server (`NewestKept`);
* content stored anew under the job's hands (`RetentionKept`).

Each exception is a behaviour the code really has, listed in section 4.

**Fairness.** `RoomLog!FairSpec` has `WF(Poll(u))` for each reader: a client
polls again and again (`server/README.md:939` makes polling the client's duty),
and the list endpoint always answers. Nobody is assumed to write, join or leave.
`UserSync!FairSpec` has `WF(SyncStep(d))` for each device: the plugin syncs at
every start and a started sync goes on unless it fails; `MaxFails` bounds the
failures, as a device that fails for ever never learns anything. Requests, the
pruning job and ageing are never assumed to happen. `RoomSessions!FairSpec` has weak
fairness for the cleanup job (a timer), the debounce task (a spawned task that sleeps and
wakes up), the end of a publication, be it delivery or failure
(`WF(Deliver \/ Lose)`: the request to the broker has a timeout), a handler past its
checks, and for a client outside its session falling silent: the app
sends heartbeats only while its user takes part. Nobody is assumed to join or leave.

### 3.2 Mistakes the properties notice

Beside many definitions stand *variants* that carry a plausible mistake
(`SubmitCommitUnchecked`, `NextEditSeqFromZero`, `WriteStarredSameNumber`, ...).
No specification uses them. `PROJECT.json` lists, for every property of every
passing run, a variant that TLC finds violating it when it takes the place of the
definition it is a variant of.

## 4. Findings

The code does something that its documents, its tests or its own comments exclude.
In each case the counterexample is a behaviour of the unchanged model.

### 4.1 With a run

| Run, property | What happens |
|---|---|
| `AccountsLog`, `LogAppendOnly` | A user who is not the last owner deletes their account: `anonymise_user` deletes the account's bots (`gdpr.rs:260`), whose leaves go with them (`ON DELETE CASCADE`, schema line 362): published roots no longer have their leaves, and a `leaf_index` may be used again. `server-spec-v2.md:63` calls the log append-only. |

### 4.2 Without a run

Each property below is a definition of its module, or of the instance named, that
TLC refutes when it is put into the module's cfg. They are kept out of the runs so
that those stay about what holds.

| Module, property | What happens |
|---|---|
| `RoomLog`, `CommitNeverSkipped` | A commit is stored with `seq` 0 in the epoch it *ends*, so before that epoch's messages. A client whose cursor is past the first of them is never listed the commit, although `server/README.md:866` has it "retrieve missed commits" by this very request. |
| `RoomLog`, `NumberedNeverSkipped` with a bot | A bot's row is numbered `MAX(seq) + 1` of the whole room and `room_epochs` is left alone. The next message takes a number at or below the bot's, and a reader who stands on the bot's row skips it (`server/README.md:939`). |
| `RoomLog`, `EditMarksOriginal` | An edit is a row of its own and the original is left as it was: `edited_at` is set on the edit's row (`room_messages.rs:840`, as `tests/message_edit_write.rs:224` expects). `server/README.md:894` says "On the first edit, `edited_at` is set on the original row". |
| `UserSync`, `NothingMissed` | `max_seq` is read after the lists and is the number allocated last. A row written in between is covered by the cursor and never delivered (`server/README.md:993` says it is the largest number *returned*). |
| `UserSync`, `NoGhostStar` | A resync is asked for when `since_seq` is below the *smallest* number retained in any table. One old row of another table hides that a later tombstone is gone; the device keeps the star (`server/README.md:994`). |
| `UserSync`, `ActiveNotPruned` | The pruning job deletes by rowid what it selected earlier; an item starred again in between is deleted while active (`server/tests/sync_contract.rs:309`). |
| `UserSync`, `OldStateResyncs` | The cutoff of the retention check is never bound (`sync/query.rs:203`). |
| `RoomSessions`, `CountsShown` | A publication that fails is not repeated, since its count was noted before it began (`sessions/occupancy.rs:410`, `let _ =` at 445), and of two under way either may arrive last: the room may keep showing a wrong count, or a count for a session that is gone. |
| `Calls`, `JoinedStay` | The last leaver counts, then clears the map: who joined in between is out of a call that goes on (`calls/lifecycle.rs:215`). |
| `Calls`, `EndedIsEmpty`, `EndedOnce`, `StartAnnounced` | A join that passed its check enters a call that has ended since; two requests that both found it going on both publish its end; the call's first participant is refused by the limit, and the one who is let in after it announces nothing. |
| `RoomMembers`, `Revocable` | A pending add that names a package of the device keeps the device from being revoked: the foreign key fails the request (`devices.rs:208`; `server/README.md:359` promises 204). |
| `RoomMembers`, `FreePackagesHaveDevices` | An upload past its check stores a package for a device revoked since (`routes/key_packages.rs:120`; `server/README.md:371`). |
| `RoomMembers`, `MembersAreLive`, `RoomHasOwner` | A join past its check brings a deleted account back into a room; deleting the owner's account leaves the room without an owner (`server/README.md:672`). |
| `Bots`, `LossNoticed` | When the log of a bot has been pruned empty, no resync is asked for whatever it missed (`routes/bots.rs:2313`; `verification.md:645`). |
| `Bots`, `CursorCovers` | Pushes out of order move the runtime's cursor past an event it was not given, and back (`task-ledger.md:512`). |
| `Accounts`, `HeadMatchesProof` | `create_snapshot` hashes a bot's leaf as a user's, so no head of a log with a bot in it matches a proof; `BotsBreakHeads` proves that (6.2). |
| `Accounts`, `CodeUsedOnce`, `OldPasswordOut`, `KeySetOnce`, `DeviceLimit`, `OneBootstrap`, `OwnerRemains`, `LockedOutIsTold` | Two recoveries with one code; a login begun before a recovery that finishes after it; two first logins that both set the identity key; devices counted before the insert; two first registrations that both become owner; the two owners they make, who both pass the check for the last owner and delete themselves (`routes/users.rs:413`), so that none is left (`last_owner_cannot_delete`); an account registered between the flagging and the restart of a rotation that can no longer log in and is not told. |
| `Files`, `ReadersServed`, `NoOrphans` | A server still configured for the backend a migration has emptied serves nothing; the blob of an insert that failed, of a deleted room and of a killed delete stays for ever (`server/README.md:521`). |
| `Reactions`, `SubscribersSettle` | Requests that publish in another order than they commit leave subscribers with the wrong reactions. |
| `Push`, `SubscriptionSurvives` | A browser registered at the endpoint the push service honours is deleted: a send to the row's former endpoint ends in gone and the row goes by its id after it was renewed (`push/delivery.rs:225`); or an error about something else has 410, 404, Gone or NotFound in its text (`push/sender.rs:146-158`), where `server/README.md:1367` says "The subscription is preserved for future attempts". |
| `Push`, `Reachable`, `OneRowPerBrowser` | After a VAPID rotation the server offers the old key until it restarts; two registrations of a browser both insert (`server/README.md:1303`). |
| `ModelFiles`, `TagAlwaysNamesContent` | A file on disk is served under the hash of a manifest that has replaced the one it was verified against, as immutable. |
| `RateLimit`, `ExportsSpaced` | An export is let through once per clock hour, whatever `EXPORT_RATE_LIMIT_HOURS` says (`rate_limit.rs:169`; `server/README.md:570`). |
| `Backup`, `ArchiveKeyFits` | The endpoint rotates the key while the server runs (`routes/admin_oprf.rs:59-97`), although `server/README.md:1506` says "Rotation commands require the server to be stopped". A rotation between the two reads of a job (`backup/job.rs:38`, `:41`), or before it with registrations under the key still loaded, makes an archive whose key does not go with a user in its database, who is not flagged. |
| `Backup`, `SnapshotConsistent` | An automatic checkpoint during the copy tears the archive (`server/README.md:1247`); the scheduler does not take the lock of the endpoint, so two jobs may write one temporary file. |
| `RetentionDays`, `NothingEarly` | Content that is deleted and stored anew between the job's SELECT and its DELETE is deleted with the old row's id (`attachments.rs:464`). |

Others have no property. An edit is stored with `seq` 0 as a commit is, in the
original's epoch, behind the cursor of everyone who has read on. Starring over a
tombstone does not count the active stars, so the limit can be exceeded
(`verification/starred-items-v3-align/report.md:51`). `server/README.md:981` says
`since_seq=0` leaves tombstones out, but `list_starred_items_all` returns them;
`since_epoch` without `since_seq` is answered with 400 `invalid_cursor`; the
smallest retained number is sought in six tables with five parameters bound, so
`bot_settings` never counts; with every row pruned, a device at the newest number is
asked to resync again and again; a bot whose grant was revoked cannot be granted
again (500, primary key). A member who leaves gets no pending removal, unlike one
who is kicked. The `responded_by` of a question refers to `users`, so a bot's token,
which the documents admit there, gets a 500. `timeout_at` is compared as RFC 3339
text with SQLite's own format, so a question of the same UTC day is not due until
the day ends. The bot SDK posts a command's result before its acknowledgement and
without the fields the server demands. A registration that fails after its invite
was consumed has used it up (`server/README.md:418`). Account deletion fails by foreign key
once one of the account's bots has posted. The runtime remembers a command for five
minutes and the log for 24 hours, so a restart from cursor 0 runs old commands
again: that is the `forgets` in `HandledOnce`. `max_participants` in a session's creation is
validated and not stored. `restore.rs:61` refuses an unusable object store after it
has replaced the database and the key. `routes/publisher_keys.rs` says
"First-Publish-Wins per Epoch", but a room has one row, which any other epoch, also
an older one, replaces; after that the first epoch can be published again.

## 5. The abstract log

`LinearLog` is what the message endpoint promises: a list of closed epochs, each
ending in its one commit, and an open epoch to which messages and proposals are
appended. `RoomLog` maps to it by

* `open` - the numbered rows of the current epoch by their numbers: entry `n` is the
  row with `seq` `n` (`History`), which is a sequence only because the numbers are dense;
* `closed[e]` - the same of epoch `e - 1`, then the commit of that epoch.

`ImplementsLinearLog` says that every step of `RoomLog` extends the open epoch
*at its end*, closes it, or changes nothing there. The order of `seq` is what a reader
sees; that the result only grows at its end is the linearity of the log. TLC checks
it on the instance of the run, and `LogIsLinear` proves it for every other (6.1).
The mapping also shows where the list endpoint leaves it: there the commit comes
last in its epoch, in the list it comes first (`CommitNeverSkipped`, section 4).

## 6. Proofs

`tlapm M_proofs.tla` checks a module's theorems for any values of its constants that
satisfy the assumption the module states, bounds included: a bound is a natural number
of any size. They are proved in the same shape throughout. *Step lemmas* first reduce the
actions to what a step can do to the variables a property is about, under the conditions
of its handler; the invariant is then proved from those lemmas. Where the property
itself is not inductive, the invariant that is has a name and a comment, and is the
conjunction of the property with what it rests on.

The assumptions are those TLC evaluates on every run: sets of names are disjoint,
"no row" is not a row and "no entry" not an entry, limits are natural numbers, positive
where the code refuses zero, and a message has a channel its events go to (the sender
of a whisper is one of those who get them, `routes/reactions.rs:173`). No theorem assumes
fairness. One has a hypothesis, in its statement: `Bots = {}`, explained in section 4.

### 6.1 RoomLog

| Theorem | Statement |
|---|---|
| `TypeCorrect` | `Spec => []TypeOK` |
| `LogOnlyGrows` | `Spec => AppendOnly` |
| `EpochsLinear` | `Spec => []EpochLinear` |
| `BotEpochsReached` | `Spec => []BotEpochReached` |
| `NumbersDense` | `Spec => []NumberingDense` |
| `EditsChained` | `Spec => []EditChain` |
| `PostsOnce` | `Spec => PostedOnce` |
| `NumberedNotSkipped` | `Bots = {}` implies `Spec => []NumberedNeverSkipped` |
| `LogIsLinear` | `Spec => ImplementsLinearLog` |

**The argument.** `TypeNext` proves that the type invariant is inductive, group
of actions by group. `LogSteps` then reduces the actions to what a step can do to
the log: leave it alone, append a commit, a numbered row, an edit
or a bot's row under the conditions of its handler, or delete one row. Everything
else is proved from that lemma and does not look at the log's actions again.

* `LogOnlyGrows` needs no more than `LogSteps`: an appended edit names a row that
  is not deleted.
* `EpochLinear` is inductive together with `TypeOK` because of its second
  conjunct: no commit has been made for the open epoch, so the one that ends it
  is the first. Without it one could not exclude a commit that waits there.
* `BotEpochReached` needs its second conjunct, about the requests in flight: the
  epoch of a call was reached when it was checked, and epochs never go back
  (`EpochNeverBack`).
* `NumberingDense` is inductive because it also says that no numbered row lies
  ahead of the room's epoch - a new epoch opens empty - and that
  `room_epochs.sequence` is the number of rows of the open epoch - the next
  number is the next one. Counting is by the cardinality theorems of
  `FiniteSetTheorems`; the maxima of `NextEditSeq` and `BotSeq` are handled by
  `NatLemmas`.
* `EditChain` is inductive with types: `NextEditSeq` is `MAX + 1`, and of numbers
  that are 1, 2, ..., n the maximum is the count (`ChainLength`), so that the new
  edit's number is the next one.
* `PostedOnce` needs `LogSteps` alone: the insert of a bot's row is guarded by the
  log of requests in the same transaction.
* `NumberedNeverSkipped` says nothing of rows that are still to come, and they are
  where it could break. `SkipInv` adds that no key lies ahead of
  `room_epochs`, that of the rows with a number no two share a key, and that no
  cursor lies ahead of `room_epochs`. A message takes a number past that (`NewKey`),
  so past every cursor; a page leaves out only rows that its own last row does not
  pass (`SkipPoll`), for which uniqueness of the keys is needed. A bot's row breaks
  the first of these, hence the hypothesis.

**The refinement.** `LinearInv` says of every epoch how it stands to
`room_epochs` (`EpochInLine`): a closed one has its commit and the numbers 1 .. n for
some n, the open one has no commit and the numbers up to `room_epochs.sequence`, later
ones have nothing. `HistorySteps` turns a step of the log into one of three things: one
more number in the open epoch; the commit of the open epoch; neither. `HistoryKept`
says that the histories of the epochs left alone are the same functions after the step -
a deletion marks a row and does not take it out. `LinearSteps` then shows that these are
`LinearLog`'s two actions and its stuttering, and `LogIsLinear` puts the initial states
and the steps together. Which number a row has is read off the row, so nothing has to be
sorted and no induction over the log is needed.

### 6.2 UserSync, Accounts and Merkle

`Users_proofs` has three parts. The first is about `UserSync`'s `Spec`, the second
and third about `AccountsSpec`.

| Theorem | Statement |
|---|---|
| `TypeCorrect` | `Spec => []TypeOK` |
| `NumbersDistinct` | `Spec => []SeqsDistinct` |
| `ChangesAhead` | `Spec => ChangeIsAhead` |
| `CursorsHonest` | `Spec => []CursorCovers` |
| `AccountsTyped` | `AccountsSpec => []AccountsTypeOK` |
| `AdmissionIsPaid` | `AccountsSpec => []AdmissionPaid` |
| `OldSessionsAreOut` | `AccountsSpec => []OldSessionsOut` |
| `InclusionVerifies` | for any log and any leaf `i` of it, `InclusionProof(leaves, i)` verifies against `Root(leaves)` |
| `AnswersVerify` | `AccountsSpec => []ProofsVerify` |
| `RootBinds` | for any two logs of one size: the same `Root` implies the same leaves |
| `ProofBinds` | for any log: what `Verifies` accepts at place `i` against its `Root` is the leaf `i` |
| `NoOtherLeaf` | `AccountsSpec => []AnswersBind` |
| `BotsBreakHeads` | `AccountsSpec => []HeadsTrueWithoutBots` |

**UserSync.** `TableSteps` reduces a step to what it does to the numbered
tables: it stamps one item's row (`Written`), stamps the read state
(`ReadMarked`), removes rows or burns a number (`NothingWritten`), or is a step
of one device's sync.

* `Allocated` is the invariant under all the rest: every number in use - in a
  row, a cursor, an answer under way - has been allocated. So the next one is
  larger than all of them, which is `SeqsDistinct` and `ChangeIsAhead`.
* `Copies` says that a row a device holds or is about to apply is the server's
  row or an older one; when a row comes back after it was pruned, its new number
  is what keeps this true.
* `CursorCovers` alone is not inductive: it says nothing of a sync under way.
  `Underway` adds, phase by phase, what that sync will have told the device: the
  queries made so far have listed everything between the cursor and `Reached`,
  the number the answer's `max_seq` will be; what the device has applied is
  everything up to `max`. `ApplyStarred` skips rows that are not newer than the
  local ones; by `Copies` such a local row *is* the server's.
* Writes come at any time. What is written gets a number above everything a device knows
  of (`WritesKeepKnowledge`); if a sync has listed the table by then and not yet read
  `max_seq`, the number lies below `Reached` and was not listed: exactly then it goes into
  `missed`. The next sync from a cursor below it lists it, which is why the number may be
  taken off again (`AnswerKeepsKnowledge`): the exception is no larger than the race.

**Accounts.** `AdmissionPaid` compares two counts, of accounts that have to be paid
for and of uses of invites. Between the transaction that consumes an invite and the one
that writes the account a use stands for neither, so `AccountsInv` keeps a balance:
accounts paid for, and registrations that have been admitted and not yet finished, are
together no more than the uses (`ConsumeKeeps`, `CreateKeeps`). A crash drops
registrations and leaves their uses behind. The same invariant says that a session's
era is its account's credential: `recover_finish` replaces the credential and deletes the
account's sessions in one transaction (`RecoveryKeeps`). What is opened later is of the
new era, also by a login that had begun under the old password (`LoginKeeps`; that this
login gets through at all is `OldPasswordOut` of section 4).

`AccountsTypeOK` says more than types, and each part has its own invariant beside
`AccountsInv`. The numbers of credentials are bounded because an account's replacements
and the recoveries of it under way are together no more than the recoveries started
(`RecoveryInv`, a count again). No account is under a key that was never written:
a rotation excludes another, and has looked at the bound (`KeysInv`). A token is one live
account's (`TokensInv`); a `client_id` is one account's, and the device of a session is
registered as long as the session is (`DevicesInv`), which every request that deletes
devices or sessions could break. `CodesInv` and `LogTypes` are types alone.

**Merkle.** A recursive function is known to satisfy its equation only once some function
is known to. `SplitsExist`, `RootsExist`, `PathsExist` and `ClimbsExist` show that, for
trees of up to m leaves: if there were numbers without such a function, take the least
(`NatMin`), and extend the function of the number before it. That is induction by a
least counterexample, which needs no theorem with an operator as a parameter.
`InclusionVerifies` is proved in the same way over the size of the subtree the climb has
reached: the least subtree at which the verifier's walk and the generator's path
disagree has two smaller halves, at which they agree.

`RootBinds` and `ProofBinds` are what a transparency log is for, and the opposite
direction: what verifies *is* what was stored. With hashes as free constructors a
node's hash gives back its halves; the least subtree with equal roots and different
leaves has a half that is one already. For a proof, the walk that ends in the root of a
subtree passes the root of the half with the leaf. The premises only ask for a log
that is not empty, whose leaves are hashes (`NoRoot` is the root of nothing).

**The log.** `LogInv` says that until the first bot has a leaf (`BeforeBots`) all rows are
users' rows, and each tree head, signed or about to be inserted, is the root of the first
rows of the log, as many as it says. A deleted account's row stays and keeps its hash
(`LeavesDeleted`, with `OrderOfAll` for "no row is removed"); a new one comes behind
(`HeadStays`). So a proof made over the rows the head counts verifies against that head;
and whatever the log is, proof and root made over the same rows agree
(`AnswersVerify`). With bots in the log only the second holds (`HeadMatchesProof`,
section 4), and two theorems say exactly how far. `NoOtherLeaf` applies `ProofBinds` to
every log the accounts can make: against the root of the *stored* leaves nothing but the
stored leaf verifies. `BotsBreakHeads` applies `RootBinds` to the leaves `create_snapshot`
recomputes and those stored: the two roots are equal if and only if no row is a bot's. So
the head is wrong from the first bot's leaf until the last one is gone, however large the
log, and is right otherwise.

### 6.3 Calls

| Theorem | Statement |
|---|---|
| `TypeCorrect` | `Spec => []TypeOK` |
| `LimitKept` | `Spec => []LimitHolds` |
| `RefusedLeave` | `Spec => []OnlyAccepted` |

**The argument.** Types alone are not inductive: `EndRow` would write the row of a
call nobody started, so `Typed` adds that a call about to be ended has a row
(`EndsExist`, from `RowsStay`). `LimitHolds` counts the users who are in the call
*and* were told so. `MapSteps` says what a step can do to them: make them fewer,
add a client that has been told nothing, or tell one client at a moment when all
who are inside, told or not, are within the limit; a subset of those cannot be
more (`FewerUsers`, by the cardinality theorems). `OnlyAccepted` speaks of quiet
states only; `Watched` says of every state that a client inside the map that was
not told has a handler that is about to tell or remove it, which no other
client's step changes (`WatchedByOthers`) and which its own steps keep
(`WatchedByOwn`). A dropped handler or a restart breaks `Watched`, hence its
hypothesis `faults = 0`.

### 6.4 RoomSessions

| Theorem | Statement |
|---|---|
| `TypeCorrect` | `Spec => []TypeOK` |
| `SessionsInOrder` | `Spec => []PositionsDense` |
| `SessionsCapped` | `Spec => []CapHolds` |
| `CountsTrueAtRest` | `Spec => []CountsAtRest` |

**The argument.** `resequence_positions` gives a session its rank in the order of
position and id, whatever positions the statement before it left behind, ties
included. So `PositionsDense` does not depend on what was moved where: it rests on the
fact that the ranks in a total order of a finite set are 0, 1, 2, ..., each once
(`RanksDense`), and on every transaction that changes a position ending with the
renumbering (`ResequencedStep`). What it needs beside that is that the room has
finitely many rows (`RowsInv`). `CapHolds` compares under the lock: `JoinTakes` says that a
join adds at most the joining user, and only below the cap; `WithoutTakes` that every
other change of an entry leaves its users or fewer.

`CountsAtRest` is the safety half of `CountsSettle`. `CountsInv` compares `announced` with
the entry: it is the number the entry notes as published, and unless that is the true
count, a debounce task sleeps (`Told`). `ensure_debounce` notes and counts under one lock;
every removal starts a task or drops the entry, and who drops an entry announces the zero
(`WithoutTold`). A restart forgets the entries and what they published, which is the
exception in the property. What the room was *shown* is a second invariant: as long as
no publication of the session was overtaken or lost (`astray`), the last one under way, or
the one shown when none is, is the one announced (`ShownInv`). Nothing is claimed once one
was: `CountsShown` of section 4.

### 6.5 RoomMembers

| Theorem | Statement |
|---|---|
| `TypeCorrect` | `Spec => []TypeOK` |
| `OwnerIsOne` | `Spec => []OneOwner` |
| `PackageOnce` | `Spec => []HandedOutOnce` |
| `SeatsAreHeld` | `Spec => []SeatsHold` |
| `RemovalStaysOwed` | `Spec => []RemovalOwed` |

**The argument.** Packages, seats and pending removes are different tables, so each has
a step lemma. `PackageSteps`: nothing, a new row, free rows handed out, free rows
deleted; with `HandedOutInv` adding that what is not stored yet was not handed out, a
row handed out was free and had been handed out never before. `SeatSteps`: members come
one at a time, in a transaction that counts again; the joins that have passed the route's
check may be any number, none of them holds a seat. `RemoveSteps`: rows are added,
marked stale, confirmed by a member, which settles the debt to that row's user, or
pruned, but only once they are confirmed. `OneOwner` is
inductive with the types, handler by handler.

### 6.6 Bots

| Theorem | Statement |
|---|---|
| `TypeCorrect` | `Spec => []TypeOK` |
| `OutcomeOnce` | `Spec => []OneOutcome` |
| `RequestIsOnce` | `Spec => []RequestOnce` |
| `AnswerIsComplete` | `Spec => []AnswerComplete` |
| `HandledIsOnce` | `Spec => []HandledOnce` |

**The argument.** `OneOutcome` is inductive given the rows' types: the operator's answer
and the job's expiry both ask for a pending row in the statement that settles it, so the
selection the job made earlier decides nothing. `RequestInv` says of a `request_id` that its effect has
happened exactly when it is remembered. `HandledInv` says that a command that is not on
record has run no more often than records have expired.

`AnswerComplete` is about three statements of one request. `LogInv` says that what is
retained of the events is what is past some number - pruning is from below - and
`SyncInv` follows the request: while it is under way, its list has whatever is *still*
retained of what was numbered when it was read, between `since` and `upTo`. When the
last statement asks for no resync, the smallest number retained is not past the cursor;
then everything past the cursor is retained, and so up to `upTo` is in the list. With
nothing retained there is no smallest number, which is the exception in the property.

`TypeOK` rests on all of these (`TypeInv`) and on two invariants of its own. There are no
more commands than calls because the commands there are and the calls that may still
become one (`Tickets`) are together no more than the calls made (`CommandInv`). A command's
event, and the runtime's record, name a command that has a row (`NameInv`), since the row
and the event are written in one transaction.

### 6.7 Services

| Theorem | Statement |
|---|---|
| `QuotaIsKept` | `QuotasSpec => []QuotaHolds` |
| `RetentionIsKept` | `DaysSpec => []RetentionKept` |
| `TagsAreTrue` | `ModelsSpec => []TagNamesContent` |
| `SubscriptionIsKept` | `PushSpec => []SubscriptionKept` |
| `SubscribersAreTold` | `Spec => []SubscribersAgree` (`Spec` of `RoomContent`) |
| `RowsAreReadable` | `Spec => []RowReadable` (the same) |
| `NewestAreKept` | `BackupSpec => []NewestKept` |
| `ChargesAgree` | `ProxySpec => []ChargesMatch` |
| `QuotasTyped`, `DaysTyped`, `ModelsTyped`, `PushTyped` | each module's specification implies its type invariant always |
| `ContentTyped` | `Spec => []TypeOK`: the types of `Files` and `Reactions`, and members only of rooms that exist |
| `ArchivesTyped`, `ProxyTyped` | the same for `Backup` and `ExtensionProxy` |

**The arguments.**

* `QuotasInv`: the row of the open window counts at least what was let through in it.
  The cleanup spares every row of today, and the open window starts today, whatever its
  length (`WindowIsOpen`, from `DayStarts`).
* `EffectiveMeans` says what the three tiers with their "0 is for ever" come to,
  case by case; `DaysInv` then follows the job: what it has selected is due under the
  limit it read, gone, or was stored anew (`DueOwed`), and stays so while days pass
  (`DueStays`). The limit may change meanwhile; the property is about the one the
  job read.
* `ModelsInv`: of a file whose hash never changed under its name, manifest, loaded
  manifest, disk and everything a request or the fetch command holds name one hash.
* `PushInv`: ids are never given out again (`PushIds`), so that what is done by id later
  is done to the row it was decided on, whoever has renewed it meanwhile; a row that a
  registration has chosen is active, unless it was revoked since, and a row that an answer
  is about to delete is `doomed` (`PushDoomed`). With that `SubscriptionKept` is inductive:
  every step that deletes or deactivates a row either is its browser's own, or has the row
  in `doomed`.
* `ReactionsInv`: the last request that is still to publish on a channel says what the
  table says, and a channel that waits for nothing shows it. Publishing takes one
  request out of the middle of the outbox, so `SettledIs` gives the positions of the
  others before and after, and `SettledSays` that their last is the same.
* `FilesInv`: of an id that no two operations ever had at once, whoever is working on it
  has done what its next step relies on (`Holds`: the temporary file is full before the
  rename, the blob before the row), and its row is readable. `FilesStep` goes through all
  steps of all operations, kills included.
* `BackupInv` has three parts. `KeysGo`: until the key first changes under a running server
  (`Cold`), database and key go together in the process, in the files and in what a job
  holds (`KeysFit`) - a rotation by the command, which breaks it for a moment, runs with the
  server down and every user flagged; and archives named before that moment keep a key that
  fits (`FitsIn`), whatever rotation comes after, because an archive's second is not later
  than the clock. `EnoughNewer`: what is deleted, or selected for it, has `Retention` newer
  ones, and newer ones never stop being newer. `NamesAlone`: a second named by one job has
  one temporary file.
* `ProxyInv`: a rate row equals the sum of what was let through in its window, `taken`
  being what was let through, and lies within its limit. Counted quantities are sets of
  units (`Units`), so that "the sum grows by n in exactly the windows that contain this
  minute" is a statement about cardinalities (`UnitsGrow`, `RowsAreWindows`).
* The type theorems rest on these invariants and on the bounds of what is counted
  (`ModelsRest`, `PushBounds`, `ContentRest`). Two parts of them are about the code and
  not about shapes: a message's active reactions stay within `reactions_per_message`,
  reactivated rows included, because the count and the write are one transaction;
  and the loaded VAPID key is never newer than the stored one.

### 6.8 What is only model-checked

Every invariant and every action property a run checks is proved, with these exceptions:

* Liveness under fairness, which needs ENABLED: `CatchUp`, `AllConverge`, `CountsSettle`,
  `NobodyLingers`. These are checked by TLC on the instances of section 3.
* `NumberedNeverSkipped` is proved for rooms without bots. With a bot it is false.

Of `CountsSettle` the safety half is a theorem: `CountsTrueAtRest` says that a count that has
come to rest is true. That it comes to rest is what is only model-checked.

What a theorem says is about the model. That `Seq`, `Append` and the sets of rows stand for
the tables as section 2 says, that a transaction is one step, and that `Merkle`'s free
constructors stand for SHA-256, are not proved by anything here.

## 7. What is not modelled, and the plan

Not modelled and not planned: cryptography (ciphertext, MLS state, OPAQUE,
signatures, archive encryption), time windows finer than a property needs, link
previews, rendering, and requests that only read.

Single-row updates without another component that depends on them: welcomes (stored,
read, deleted), room metadata (a version compared and incremented in one
transaction), device names, preferences and room order (which follow the pattern of
read state in `UserSync`), roles, instance configuration, publisher keys, bot
profiles. The data export reads table by table without a transaction, so it may name
a session whose device it does not; it writes nothing. The jobs that aggregate the
proxy's audit rows and prune audit tables are left out, as is the messages' part of
the retention settings, which no job enforces.

Next:

1. **What the findings suggest as repairs**: for a finding whose repair is one changed guard,
   the property that fails today, proved of the step with the guard in place.
2. **Components still partly modelled**: the account export's reads, the proxy's audit
   jobs and device names, where a property relates them to another table.
