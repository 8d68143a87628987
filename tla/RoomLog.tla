------------------------------ MODULE RoomLog ------------------------------
(***************************************************************************)
(* The message log of one room: server/src/room_messages.rs (submit, edit, *)
(* delete, list) and the bot message endpoint of routes/room_bots.rs.      *)
(*                                                                         *)
(* The server keeps one SQLite connection, so each BEGIN ... COMMIT is one *)
(* step.  What a handler reads before it opens its transaction is a step   *)
(* of its own: the bot endpoint checks the grant and the epoch window      *)
(* first and inserts later.                                                *)
(*                                                                         *)
(* A reader is a client that catches up by polling the list endpoint and   *)
(* hands next_cursor back as the next since; the realtime events, which    *)
(* the server may lose, are all lost here.                                 *)
(***************************************************************************)
EXTENDS Integers, FiniteSets, FiniteSetsExt, Sequences

CONSTANTS
  Users,             \* accounts
  Bots,              \* bot accounts
  Readers,           \* the users whose clients poll the list endpoint
  Requests,          \* request_ids a bot may send, for idempotency
  WhisperSets,       \* the target_user_ids a sender may choose
  DiscordModeration, \* config.moderation_mode = "discord"
  PageLimit,         \* the limit of the list endpoint
  NoRequest,         \* a bot message without request_id
  NoCall,            \* no bot request is being handled
  NoCursor,          \* a reader that has not listed yet
  Moves,             \* the roles each user takes
  Kinds,             \* the numbered kinds the users send
  MaxDeletes,        \* bound on the deletions
  MaxRows            \* bound on the rows of the log

ASSUME RoomLogAssumption ==
  /\ Users \cap Bots = {}
  /\ Readers \subseteq Users
  /\ WhisperSets \subseteq (SUBSET Users) \ {{}}
  /\ DiscordModeration \in BOOLEAN
  /\ PageLimit \in Nat \ {0}
  /\ Moves \in [Users -> SUBSET {"owner", "moderator", "member", "none"}]
  /\ Kinds \subseteq {"application", "proposal"}
  /\ MaxDeletes \in Nat
  /\ MaxRows \in Nat
  /\ NoRequest \notin Requests

VARIABLES
  role,        \* room_members: the role of each user, "none" without a row
  epochRow,    \* room_epochs: the current epoch and its last sequence number
  msgs,        \* room_messages in insertion order; the index is the id
  grant,       \* room_bots: per bot, what its grant lets it do
  requestLog,  \* bot_request_log: the <<bot, request_id>> already answered
  botCall,     \* per bot, the request that passed the checks before the tx
  cursor,      \* per reader, the cursor it will send as since
  horizon,     \* per reader, the rows that existed when it first listed
  got          \* per reader, the rows it has received

memberVars == <<role, grant>>
logVars    == <<epochRow, msgs, requestLog>>
readerVars == <<cursor, horizon, got>>
vars       == <<memberVars, logVars, botCall, readerVars>>

Roles     == {"owner", "moderator", "member", "none"}
Senders   == Users \cup Bots
Numbered  == {"application", "proposal"}
RequestId == Requests \cup {NoRequest}

\* A grant with the post_message scope, and one without.
Scopes    == {"posting", "other"}

\* One row of room_messages.  epoch and seq are the columns; reqEpoch is the
\* epoch of the request, the one the sender's ciphertext was made for, and
\* editOf = 0, editSeq = 0, targets = {} stand for the columns' defaults.
Row ==
  [kind    : {"commit", "application", "proposal", "bot"},
   sender  : Senders,
   epoch   : Nat,
   seq     : Nat,
   reqEpoch: Nat,
   targets : SUBSET Users,
   editOf  : Nat,
   editSeq : Nat,
   request : RequestId,
   deleted : BOOLEAN]

Ids == 1..Len(msgs)

IsMember(u) == role[u] # "none"

\* The bounds of every model: the log stops growing at MaxRows rows, and no
\* more than MaxDeletes of them are deleted.
HasRoom   == Len(msgs) < MaxRows
MayDelete == Cardinality({i \in Ids : msgs[i].deleted}) < MaxDeletes

Plain(kind, sender, epoch, seq, reqEpoch, targets) ==
  [kind |-> kind, sender |-> sender, epoch |-> epoch, seq |-> seq,
   reqEpoch |-> reqEpoch, targets |-> targets, editOf |-> 0, editSeq |-> 0,
   request |-> NoRequest, deleted |-> FALSE]

-----------------------------------------------------------------------------
(***************************************************************************)
(* The initial state: the room as create_room leaves it.                   *)
(***************************************************************************)

Init ==
  /\ \E o \in Users :
       /\ "owner" \in Moves[o]
       /\ role = [u \in Users |-> IF u = o THEN "owner" ELSE "none"]
  /\ epochRow = [epoch |-> 0, sequence |-> 0]
  /\ msgs = <<>>
  /\ grant = [b \in Bots |-> "none"]
  /\ requestLog = {}
  /\ botCall = [b \in Bots |-> NoCall]
  /\ cursor = [u \in Readers |-> NoCursor]
  /\ horizon = [u \in Readers |-> 0]
  /\ got = [u \in Readers |-> {}]

(***************************************************************************)
(* Membership (rooms.rs, room_invites.rs) and grants (routes/room_bots.rs). *)
(* Each is one transaction.  A room whose last member leaves is deleted    *)
(* with its log, and the model ends there.                                 *)
(***************************************************************************)

\* The bound on memberships: each user keeps to the roles in Moves.
SetRoles(newRole) ==
  /\ \A u \in Users : newRole[u] \in Moves[u]
  /\ role' = newRole
  /\ UNCHANGED <<grant, logVars, botCall, readerVars>>

\* By redeeming an invite.
Join(u) ==
  /\ role[u] = "none"
  /\ SetRoles([role EXCEPT ![u] = "member"])

AddMember(u, target) ==
  /\ role[u] = "owner"
  /\ role[target] = "none"
  /\ SetRoles([role EXCEPT ![target] = "member"])

Leave(u) ==
  /\ IsMember(u)
  /\ role[u] # "owner"
  /\ SetRoles([role EXCEPT ![u] = "none"])

\* A moderator succeeds, or a member where there is none.  Of several it is
\* the one who joined first, which is any of them here.
LeaveAsOwner(u, successor) ==
  /\ role[u] = "owner"
  /\ successor # u /\ IsMember(successor)
  /\ (\E m \in Users : role[m] = "moderator") => role[successor] = "moderator"
  /\ SetRoles([role EXCEPT ![u] = "none", ![successor] = "owner"])

Kick(u, target) ==
  /\ role[u] = "owner" \/ (role[u] = "moderator" /\ DiscordModeration)
  /\ target # u /\ role[target] \in {"moderator", "member"}
  /\ SetRoles([role EXCEPT ![target] = "none"])

Promote(u, target) ==
  /\ DiscordModeration
  /\ role[u] = "owner" /\ role[target] = "member"
  /\ SetRoles([role EXCEPT ![target] = "moderator"])

Demote(u, target) ==
  /\ DiscordModeration
  /\ role[u] = "owner" /\ role[target] = "moderator"
  /\ SetRoles([role EXCEPT ![target] = "member"])

TransferOwnership(u, target) ==
  /\ role[u] = "owner"
  /\ target # u /\ IsMember(target)
  /\ SetRoles([role EXCEPT ![u] = "member", ![target] = "owner"])

\* Each looks the grant up before its transaction.  A revoked grant stays in
\* the table, where its primary key forbids another grant of the same bot.
GrantBot(b, scopes) ==
  /\ grant[b] = "none"
  /\ grant' = [grant EXCEPT ![b] = scopes]
  /\ UNCHANGED <<role, logVars, botCall, readerVars>>

PatchRoomBot(b, scopes) ==
  /\ grant[b] \in Scopes
  /\ grant' = [grant EXCEPT ![b] = scopes]
  /\ UNCHANGED <<role, logVars, botCall, readerVars>>

DeleteRoomBot(b) ==
  /\ grant[b] \in Scopes
  /\ grant' = [grant EXCEPT ![b] = "revoked"]
  /\ UNCHANGED <<role, logVars, botCall, readerVars>>

-----------------------------------------------------------------------------
(***************************************************************************)
(* Submitting.  The sender names the epoch its ciphertext belongs to; the  *)
(* transaction compares it with room_epochs.                               *)
(***************************************************************************)

\* Variants of a definition that carry a mistake stand before it, named for
\* the mistake.  No specification uses them: they show that the properties
\* would notice.

SubmitCommitUnchecked(u, e) ==
  /\ HasRoom
  /\ IsMember(u)
  /\ msgs' = Append(msgs, Plain("commit", u, epochRow.epoch, 0, e, {}))
  /\ epochRow' = [epoch |-> epochRow.epoch + 1, sequence |-> 0]
  /\ UNCHANGED <<memberVars, requestLog, botCall, readerVars>>

SubmitCommitUpdating(u, e, newEpoch, newSequence) ==
  /\ HasRoom
  /\ IsMember(u)
  /\ e = epochRow.epoch
  /\ msgs' = Append(msgs, Plain("commit", u, epochRow.epoch, 0, e, {}))
  /\ epochRow' = [epoch |-> newEpoch, sequence |-> newSequence]
  /\ UNCHANGED <<memberVars, requestLog, botCall, readerVars>>

SubmitCommitKeepsSequence(u, e) ==
  SubmitCommitUpdating(u, e, epochRow.epoch + 1, epochRow.sequence)

SubmitCommit(u, e) ==
  /\ HasRoom
  /\ IsMember(u)
  /\ e = epochRow.epoch
  /\ msgs' = Append(msgs, Plain("commit", u, epochRow.epoch, 0, e, {}))
  /\ epochRow' = [epoch |-> epochRow.epoch + 1, sequence |-> 0]
  /\ UNCHANGED <<memberVars, requestLog, botCall, readerVars>>

\* No epoch check: the row goes where its sender believes the room to be.
SubmitNumberedLate(u, e, kind, targets) ==
  /\ HasRoom
  /\ \A t \in targets : IsMember(t)
  /\ IsMember(u)
  /\ msgs' = Append(msgs, Plain(kind, u, e, epochRow.sequence + 1, e, targets))
  /\ epochRow' = [epochRow EXCEPT !.sequence = @ + 1]
  /\ UNCHANGED <<memberVars, requestLog, botCall, readerVars>>

\* The route looks the whisper's targets up before the transaction.  A target
\* that leaves in between leaves the same state as one that leaves right
\* after the insert, so the two are one step.
SubmitNumbered(u, e, kind, targets) ==
  /\ HasRoom
  /\ \A t \in targets : IsMember(t)
  /\ IsMember(u)
  /\ e = epochRow.epoch
  /\ msgs' = Append(msgs, Plain(kind, u, epochRow.epoch,
                                epochRow.sequence + 1, e, targets))
  /\ epochRow' = [epochRow EXCEPT !.sequence = @ + 1]
  /\ UNCHANGED <<memberVars, requestLog, botCall, readerVars>>

(***************************************************************************)
(* Editing and deleting.  Neither touches room_epochs.  The sender of a    *)
(* bot's row is NULL, which sqlx reads from SQLite as the empty string:    *)
(* it is nobody's own.  An edit is stored under the epoch of the original  *)
(* with seq 0.  Requests past edit_window_seconds are refused and change   *)
(* nothing.                                                                *)
(***************************************************************************)

EditsOf(i) == {j \in Ids : msgs[j].editOf = i}

NextEditSeqFromZero(i) == Max({0} \cup {msgs[j].editSeq : j \in EditsOf(i)})

NextEditSeq(i) == 1 + Max({0} \cup {msgs[j].editSeq : j \in EditsOf(i)})

\* The column edited_at: only the INSERT of an edit sets it, on the edit's own
\* row; no statement writes it to the original.
EditedAt(i) == msgs[i].editOf # 0

EditMessageDeleted(u, i) ==
  /\ HasRoom
  /\ IsMember(u)
  /\ msgs[i].kind = "application"
  /\ msgs[i].editOf = 0
  /\ msgs[i].sender = u
  /\ msgs' = Append(msgs, [msgs[i] EXCEPT !.seq = 0,
                                          !.editOf = i,
                                          !.editSeq = NextEditSeq(i)])
  /\ UNCHANGED <<memberVars, epochRow, requestLog, botCall, readerVars>>

EditMessage(u, i) ==
  /\ HasRoom
  /\ IsMember(u)
  /\ msgs[i].kind = "application"
  /\ msgs[i].editOf = 0
  /\ ~msgs[i].deleted
  /\ msgs[i].sender = u
  /\ msgs' = Append(msgs, [msgs[i] EXCEPT !.seq = 0,
                                          !.editOf = i,
                                          !.editSeq = NextEditSeq(i)])
  /\ UNCHANGED <<memberVars, epochRow, requestLog, botCall, readerVars>>

\* The answer of the delete endpoint, checked in the code's order.
DeleteAnswer(u, i) ==
  CASE ~IsMember(u)                              -> "not_a_member"
    [] msgs[i].deleted                           -> "already_deleted"
    [] ~ \/ msgs[i].sender = u
         \/ role[u] = "owner"
         \/ role[u] = "moderator" /\ DiscordModeration -> "forbidden"
    [] OTHER                                     -> "ok"

DeleteMessage(u, i) ==
  /\ MayDelete
  /\ DeleteAnswer(u, i) = "ok"
  /\ msgs' = [msgs EXCEPT ![i].deleted = TRUE]
  /\ UNCHANGED <<memberVars, epochRow, requestLog, botCall, readerVars>>

-----------------------------------------------------------------------------
(***************************************************************************)
(* A bot's message: POST /rooms/:id/bot-messages.  The epoch may be up to  *)
(* three epochs old.  The sequence number is one more than the largest of  *)
(* the whole room, and room_epochs is left alone.                          *)
(***************************************************************************)

EpochWindow == 3

BotCheckPastOnly(b, e, r) ==
  /\ botCall[b] = NoCall
  /\ grant[b] = "posting"
  /\ e >= epochRow.epoch - EpochWindow
  /\ botCall' = [botCall EXCEPT ![b] = [epoch |-> e, request |-> r]]
  /\ UNCHANGED <<memberVars, logVars, readerVars>>

BotCheck(b, e, r) ==
  /\ botCall[b] = NoCall
  /\ grant[b] = "posting"
  /\ e <= epochRow.epoch
  /\ e >= epochRow.epoch - EpochWindow
  /\ botCall' = [botCall EXCEPT ![b] = [epoch |-> e, request |-> r]]
  /\ UNCHANGED <<memberVars, logVars, readerVars>>

IsDuplicateNever(b) == FALSE

IsDuplicate(b) == <<b, botCall[b].request>> \in requestLog

BotSeq == 1 + Max({0} \cup {msgs[i].seq : i \in Ids})

\* Also writes its number to room_epochs.
BotInsertNumbers(b) ==
  /\ HasRoom
  /\ botCall[b] # NoCall
  /\ ~IsDuplicate(b)
  /\ msgs' = Append(msgs, Plain("bot", b, botCall[b].epoch, BotSeq,
                                botCall[b].epoch, {}))
  /\ epochRow' = [epochRow EXCEPT !.sequence = BotSeq]
  /\ botCall' = [botCall EXCEPT ![b] = NoCall]
  /\ UNCHANGED <<memberVars, requestLog, readerVars>>

BotInsert(b) ==
  /\ HasRoom
  /\ botCall[b] # NoCall
  /\ ~IsDuplicate(b)
  /\ LET call == botCall[b]
     IN  /\ msgs' = Append(msgs,
                      [Plain("bot", b, call.epoch, BotSeq, call.epoch, {})
                         EXCEPT !.request = call.request])
         /\ requestLog' = IF call.request = NoRequest
                            THEN requestLog
                            ELSE requestLog \cup {<<b, call.request>>}
  /\ botCall' = [botCall EXCEPT ![b] = NoCall]
  /\ UNCHANGED <<memberVars, epochRow, readerVars>>

\* The request was answered before: the stored answer is sent again.
BotDuplicate(b) ==
  /\ botCall[b] # NoCall
  /\ IsDuplicate(b)
  /\ botCall' = [botCall EXCEPT ![b] = NoCall]
  /\ UNCHANGED <<memberVars, logVars, readerVars>>

\* The call ends before the insert: rate limit, revoked token, lost client.
BotAbort(b) ==
  /\ botCall[b] # NoCall
  /\ botCall' = [botCall EXCEPT ![b] = NoCall]
  /\ UNCHANGED <<memberVars, logVars, readerVars>>

\* The cleanup job deletes the answers older than a day.
BotRequestLogTtl(b, r) ==
  /\ <<b, r>> \in requestLog
  /\ requestLog' = requestLog \ {<<b, r>>}
  /\ UNCHANGED <<memberVars, epochRow, msgs, botCall, readerVars>>

-----------------------------------------------------------------------------
(***************************************************************************)
(* Listing.  Rows are ordered by (epoch, seq); SQLite is free to order     *)
(* rows with equal keys as it likes, so a page is any PageLimit rows that  *)
(* no row left out precedes.                                               *)
(***************************************************************************)

Key(i) == <<msgs[i].epoch, msgs[i].seq>>

BeforeBySeq(k, l) == k[2] < l[2]

Before(k, l) == k[1] < l[1] \/ (k[1] = l[1] /\ k[2] < l[2])

AtMost(k, l) == k = l \/ Before(k, l)

VisibleTo(u, i) ==
  \/ msgs[i].targets = {}
  \/ msgs[i].sender = u
  \/ u \in msgs[i].targets

VisibleUnlessSent(u) ==
  {i \in Ids : msgs[i].targets = {} \/ u \in msgs[i].targets}

Visible(u) == {i \in Ids : VisibleTo(u, i)}

\* What (epoch, seq) > since selects.
After(u) == {i \in Visible(u) : Before(cursor[u], Key(i))}

\* The sets of PageLimit rows of S, or all of S if it is small.
Pages(S) ==
  IF Cardinality(S) <= PageLimit THEN {S} ELSE kSubset(PageLimit, S)

\* next_cursor is the key of the last message of the page.
IsLast(i, P) == \A j \in P : AtMost(Key(j), Key(i))

\* The first request has no since: the newest rows.
ListLatest(u) ==
  /\ IsMember(u)
  /\ cursor[u] = NoCursor
  /\ Visible(u) # {}
  /\ \E P \in Pages(Visible(u)) :
       /\ \A i \in P, j \in Visible(u) \ P : AtMost(Key(j), Key(i))
       /\ got' = [got EXCEPT ![u] = @ \cup P]
       /\ \E i \in P : IsLast(i, P) /\ cursor' = [cursor EXCEPT ![u] = Key(i)]
  /\ horizon' = [horizon EXCEPT ![u] = Len(msgs)]
  /\ UNCHANGED <<memberVars, logVars, botCall>>

\* Every other request resumes at the cursor.
ListSince(u) ==
  /\ IsMember(u)
  /\ cursor[u] # NoCursor
  /\ After(u) # {}
  /\ \E P \in Pages(After(u)) :
       /\ \A i \in P, j \in After(u) \ P : AtMost(Key(i), Key(j))
       /\ got' = [got EXCEPT ![u] = @ \cup P]
       /\ \E i \in P : IsLast(i, P) /\ cursor' = [cursor EXCEPT ![u] = Key(i)]
  /\ UNCHANGED <<memberVars, logVars, botCall, horizon>>

-----------------------------------------------------------------------------
Submit(u) ==
  \E e \in 0..(epochRow.epoch + 1) :
    \/ SubmitCommit(u, e)
    \/ \E kind \in Kinds, targets \in WhisperSets \cup {{}} :
         SubmitNumbered(u, e, kind, targets)

Change(u) == \E i \in Ids : EditMessage(u, i) \/ DeleteMessage(u, i)

BotStep(b) ==
  \/ \E e \in 0..(epochRow.epoch + 1), r \in RequestId : BotCheck(b, e, r)
  \/ BotInsert(b)
  \/ BotDuplicate(b)
  \/ BotAbort(b)
  \/ \E r \in Requests : BotRequestLogTtl(b, r)

Membership ==
  \/ \E u \in Users : Join(u) \/ Leave(u)
  \/ \E u, other \in Users :
       \/ AddMember(u, other) \/ LeaveAsOwner(u, other) \/ Kick(u, other)
       \/ Promote(u, other) \/ Demote(u, other) \/ TransferOwnership(u, other)

Granting ==
  \E b \in Bots :
    \/ \E scopes \in Scopes : GrantBot(b, scopes) \/ PatchRoomBot(b, scopes)
    \/ DeleteRoomBot(b)

Poll(u) == ListLatest(u) \/ ListSince(u)

Next ==
  \/ \E u \in Users : Submit(u)
  \/ \E u \in Users : Change(u)
  \/ \E b \in Bots : BotStep(b)
  \/ \E u \in Readers : Poll(u)
  \/ Membership
  \/ Granting

Spec == Init /\ [][Next]_vars

\* A client polls again and again, as the server's README asks of it; nothing
\* else is bound to happen.
FairSpec == Spec /\ \A u \in Readers : WF_vars(Poll(u))

-----------------------------------------------------------------------------
(***************************************************************************)
(* Properties.                                                             *)
(***************************************************************************)

\* Every variable stays within its type.
TypeOK ==
  /\ role \in [Users -> Roles]
  /\ epochRow \in [epoch : Nat, sequence : Nat]
  /\ msgs \in Seq(Row)
  /\ grant \in [Bots -> Scopes \cup {"none", "revoked"}]
  /\ requestLog \subseteq Bots \X Requests
  /\ botCall \in [Bots -> {NoCall} \cup [epoch : Nat, request : RequestId]]
  /\ cursor \in [Readers -> {NoCursor} \cup Nat \X Nat]
  /\ horizon \in [Readers -> Nat]
  /\ got \in [Readers -> SUBSET Nat]

CommitsMadeFor(e) ==
  {i \in Ids : msgs[i].kind = "commit" /\ msgs[i].reqEpoch = e}

NumberedIn(e) ==
  {i \in Ids : /\ msgs[i].kind \in Numbered
               /\ msgs[i].editOf = 0
               /\ msgs[i].epoch = e}

\* The compare-and-swap of submit_message: of the commits that members build
\* on an epoch, exactly one is ever accepted, and it is the one that ended it.
EpochLinear ==
  /\ \A e \in 0..epochRow.epoch :
       Cardinality(CommitsMadeFor(e)) = IF e < epochRow.epoch THEN 1 ELSE 0
  /\ \A i \in Ids : msgs[i].kind = "commit" => msgs[i].reqEpoch < epochRow.epoch

\* Messages and proposals sit in the epoch they were encrypted for, and their
\* sequence numbers in an epoch are 1, 2, 3, ... in the order of insertion,
\* whatever edits and bot messages come between (room_epochs.sequence).
NumberingDense ==
  /\ \A i \in Ids : msgs[i].kind \in Numbered =>
       msgs[i].reqEpoch = msgs[i].epoch /\ msgs[i].epoch <= epochRow.epoch
  /\ \A e \in 0..epochRow.epoch : \A i \in NumberedIn(e) :
       msgs[i].seq = Cardinality({j \in NumberedIn(e) : j <= i})
  /\ Cardinality(NumberedIn(epochRow.epoch)) = epochRow.sequence

\* The chain of an edited message is flat and numbered 1, 2, 3, ...; every
\* edit has the sender, the epoch and the whisper targets of the original, so
\* whoever may read the one may read the other (edit_message).
EditChain ==
  \A i \in Ids : msgs[i].editOf # 0 =>
    LET orig == msgs[msgs[i].editOf]
    IN  /\ msgs[i].editOf < i
        /\ orig.editOf = 0
        /\ orig.kind = "application"
        /\ <<orig.sender, orig.epoch, orig.targets>>
             = <<msgs[i].sender, msgs[i].epoch, msgs[i].targets>>
        /\ msgs[i].editSeq = Cardinality({j \in EditsOf(msgs[i].editOf) : j <= i})

\* A row never changes once it is written, but for a deletion; a deletion is
\* final, and a deleted message is never edited again. An edit leaves its
\* original as it was (edit_message), edited_at included: see
\* EditMarksOriginal.
AppendOnly ==
  [][/\ Len(msgs') \in {Len(msgs), Len(msgs) + 1}
     /\ \A i \in Ids :
          /\ msgs'[i] \in {msgs[i], [msgs[i] EXCEPT !.deleted = TRUE]}
          /\ msgs[i].deleted => EditsOf(i)' = EditsOf(i)]_vars

\* Not so: server/README.md says that edited_at is set on the original row at
\* the first edit; edit_message writes the new row only.
EditMarksOriginal == \A i \in Ids : EditsOf(i) # {} => EditedAt(i)

\* A bot's row is never from an epoch the room has not reached, although the
\* window is checked before the transaction that inserts the row.
BotEpochReached ==
  /\ \A i \in Ids : msgs[i].kind = "bot" => msgs[i].epoch <= epochRow.epoch
  /\ \A b \in Bots : botCall[b] # NoCall => botCall[b].epoch <= epochRow.epoch

PostsOf(b, r) == {i \in Ids : msgs[i].sender = b /\ msgs[i].request = r}

\* While the answer of a request_id is kept, no call with it posts again
\* (check_or_reserve_request_id, record_response_code).
PostedOnce ==
  [][\A b \in Bots, r \in Requests :
       <<b, r>> \in requestLog => PostsOf(b, r)' = PostsOf(b, r)]_vars

\* Rows that were inserted after the reader's first page and whose key its
\* cursor has reached: no later poll returns them.
Passed(u, i) ==
  /\ cursor[u] # NoCursor
  /\ i > horizon[u]
  /\ VisibleTo(u, i)
  /\ AtMost(Key(i), cursor[u])

\* In a room without bots a poller's cursor never passes an original message
\* or a proposal it has not been given, wherever pages are cut.
NumberedNeverSkipped ==
  \A u \in Readers, e \in 0..epochRow.epoch : \A i \in NumberedIn(e) :
    Passed(u, i) => i \in got[u]

\* README: retrieves missed commits by GET /rooms/:id/messages?since_epoch=N.
CommitNeverSkipped ==
  \A u \in Readers, i \in Ids :
    msgs[i].kind = "commit" /\ Passed(u, i) => i \in got[u]

\* A poller is eventually given every original message and proposal that it
\* may read, unless it leaves the room first.
CatchUp ==
  \A u \in Readers, i \in 1..MaxRows :
    (/\ i \in Ids
     /\ i \in NumberedIn(msgs[i].epoch)
     /\ VisibleTo(u, i)
     /\ cursor[u] # NoCursor
     /\ i > horizon[u])
    ~> (i \in got[u] \/ ~IsMember(u))

-----------------------------------------------------------------------------
(***************************************************************************)
(* The log implements LinearLog: the messages and proposals of an epoch by *)
(* their sequence numbers, then its commit.                                *)
(***************************************************************************)

NumbersOf(e) == {msgs[i].seq : i \in NumberedIn(e)}
WithNumber(e, n) == {i \in NumberedIn(e) : msgs[i].seq = n}
CommitsIn(e) == {i \in Ids : msgs[i].kind = "commit" /\ msgs[i].epoch = e}

\* A sequence, as the numbers of an epoch are 1, 2, 3, ...
History(e) == [n \in NumbersOf(e) |-> CHOOSE i \in WithNumber(e, n) : TRUE]

ClosedEpochs ==
  [e \in 1..epochRow.epoch |->
     Append(History(e - 1), CHOOSE i \in CommitsIn(e - 1) : TRUE)]

OpenEpoch == History(epochRow.epoch)

Linear == INSTANCE LinearLog WITH
  Ids    <- 1..MaxRows,
  closed <- ClosedEpochs,
  open   <- OpenEpoch

\* Every step of the log is a step of LinearLog or changes nothing there.
ImplementsLinearLog == Linear!Spec

=============================================================================
