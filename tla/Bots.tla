-------------------------------- MODULE Bots --------------------------------
(***************************************************************************)
(* One bot of a room: its tokens and grant, the commands members send it,  *)
(* the questions it puts to its operators, the settings its owner writes   *)
(* (routes/bots.rs, routes/room_bots.rs, bots/ and the four bot jobs of    *)
(* cleanup/), the numbered event log all of these write to, GET            *)
(* /bots/me/sync, and the runtime of packages/bot that follows the log.    *)
(*                                                                         *)
(* The pool has one connection: a transaction is one step, the statements  *)
(* of the sync endpoint are three.  What a route checks before its         *)
(* transaction is a step of its own when the transaction does not ask      *)
(* again.  Publications are sent after the commit, concurrently: they      *)
(* arrive in any order, once, or not at all.                               *)
(***************************************************************************)
EXTENDS Integers, Sequences, FiniteSets, SequencesExt, FiniteSetsExt

CONSTANTS
  Requests,      \* ids of the bot's questions to its operators
  Questions,     \* what it may ask: an id, whether there is a canned response
                 \* and a timeout
  Values,        \* of a setting
  Keys, NoKey,   \* request_ids of calls; NoKey for a call without one
  None,
  MaxTokens,     \* bound on tokens
  MaxCalls,      \* bound on calls that store something
  MaxUpsets      \* bound on changes of the account and its grant, lost pushes,
                 \* failed syncs, disconnections and expiries of the runtime's
                 \* record of a command, taken together

ASSUME BotsAssumption ==
  /\ Questions \subseteq
       [id : Requests, canned : BOOLEAN, timeout : {"never", "ahead"}]
  /\ NoKey \notin Keys
  /\ None \notin {"pending", "answered", "expired",
                  "command", "result", "message"}
  /\ {MaxTokens, MaxCalls, MaxUpsets} \subseteq Nat
  /\ MaxTokens > 0

VARIABLES
  live,        \* the account has no deleted_at
  tokens,      \* how many of its tokens are not revoked
  scopes,      \* scopes of the room's grant, None once it is revoked
  setting,     \* the value of a bot_settings row, None without one
  queue,       \* bot_operator_queue
  enqueuing,   \* questions past the checks of their route
  expiring,    \* rows the timeout job has selected
  commands,    \* bot_commands
  posting,     \* per request_id, commands past the checks of their route
  requestLog,  \* bot_request_log: the endpoint that used a request_id
  events,      \* every event ever numbered, by bot_seq
  log,         \* the bot_seqs bot_event_log retains
  old,         \* events up to this one are past the retention of 24 hours
  wire,        \* events committed and not yet pushed
  conn,        \* the runtime: down, booting, on or off
  cursor,      \* its botSeq
  seen,        \* its record of commands, the idempotency store
  sync,        \* its sync request under way
  made, upsets,
  forgets,     \* how often a record of a command expired (history)
  outcomes,    \* bot.operator_response events of a question
  effects,     \* what the calls with a request_id have done
  handled      \* how often the runtime ran a command

account == <<live, tokens, scopes, setting>>
operators == <<queue, enqueuing, expiring, outcomes>>
calls == <<commands, posting, requestLog, effects>>
channel == <<events, log, old, wire>>
runtime == <<conn, cursor, seen, sync, forgets, handled>>
vars == <<account, operators, calls, channel, runtime, made, upsets>>

Scopes == {"read_commands", "post_message"}
Deadline == {"never", "ahead", "past"}
QueueRow ==
  [status : {"pending", "answered", "expired"}, canned : BOOLEAN,
   timeout : Deadline]
Question == [id : Requests, canned : BOOLEAN, timeout : {"never", "ahead"}]
Command == [acked : BOOLEAN, expired : BOOLEAN, result : BOOLEAN]
Event == [kind : {"command", "settings", "response"},
          of : (1..MaxCalls) \cup Requests \cup {None}]
Idle == [stage |-> "idle"]

\* create_bot and a grant with every scope.
Init ==
  /\ live = TRUE /\ tokens = 1 /\ scopes = Scopes
  /\ setting = None
  /\ queue = [r \in Requests |-> None]
  /\ enqueuing = {} /\ expiring = {}
  /\ commands = <<>>
  /\ posting = [k \in Keys \cup {NoKey} |-> 0]
  /\ requestLog = [k \in Keys |-> None]
  /\ events = <<>> /\ log = {} /\ old = 0 /\ wire = {}
  /\ conn = "down" /\ cursor = 0 /\ seen = {} /\ sync = Idle
  /\ made = 0 /\ upsets = 0 /\ forgets = 0
  /\ outcomes = [r \in Requests |-> 0]
  /\ effects = [k \in Keys |-> 0]
  /\ handled = [c \in 1..MaxCalls |-> 0]

\* validate_bot_token: tokens of a deleted bot are not accepted.
Authentic == live /\ tokens > 0

\* The bounds.
Upset == upsets < MaxUpsets /\ upsets' = upsets + 1
Call == made < MaxCalls /\ made' = made + 1

\* prepare_durable_bot_event, and its publication after the commit.
Emit(kind, of) ==
  /\ events' = Append(events, [kind |-> kind, of |-> of])
  /\ log' = log \cup {Len(events) + 1}
  /\ wire' = wire \cup {Len(events) + 1}
  /\ UNCHANGED old

-----------------------------------------------------------------------------
(***************************************************************************)
(* The account.                                                            *)
(***************************************************************************)

\* A token issued while the bot is being deleted stays, and is of no use.
CreateToken ==
  /\ live /\ tokens < MaxTokens /\ Upset
  /\ tokens' = tokens + 1
  /\ UNCHANGED <<live, scopes, setting, operators, calls, channel,
                 runtime, made>>

\* Only a token that is not revoked.
DeleteToken ==
  /\ live /\ tokens > 0 /\ Upset
  /\ tokens' = tokens - 1
  /\ UNCHANGED <<live, scopes, setting, operators, calls, channel,
                 runtime, made>>

\* patch_room_bot.
PatchGrant(S) ==
  /\ scopes # None /\ Upset
  /\ scopes' = S
  /\ UNCHANGED <<live, tokens, setting, operators, calls, channel,
                 runtime, made>>

\* delete_room_bot.
RevokeGrant ==
  /\ scopes # None /\ Upset
  /\ scopes' = None
  /\ UNCHANGED <<live, tokens, setting, operators, calls, channel, runtime, made>>

\* delete_bot: tokens, grant, questions and operators; commands, settings and
\* the log stay.
DeleteBot ==
  /\ live /\ Upset
  /\ live' = FALSE /\ tokens' = 0 /\ scopes' = None
  /\ queue' = [r \in Requests |-> None]
  /\ UNCHANGED <<setting, enqueuing, expiring, outcomes, calls, channel,
                 runtime, made>>

\* Nothing happens when the value is the same.
WriteSetting(v) ==
  /\ live /\ setting # v /\ Call
  /\ setting' = v
  /\ Emit("settings", None)
  /\ UNCHANGED <<live, tokens, scopes, operators, calls, runtime,
                 upsets>>

DeleteSetting ==
  /\ live /\ setting # None /\ Call
  /\ setting' = None
  /\ Emit("settings", None)
  /\ UNCHANGED <<live, tokens, scopes, operators, calls, runtime,
                 upsets>>

-----------------------------------------------------------------------------
(***************************************************************************)
(* Questions to the operators.                                             *)
(***************************************************************************)

\* enqueue_operator_queue_entry: token and grant.
EnqueueChecked(q) ==
  /\ Authentic /\ scopes # None
  /\ q \notin enqueuing /\ Call
  /\ enqueuing' = enqueuing \cup {q}
  /\ UNCHANGED <<queue, expiring, outcomes, account, calls, channel, runtime,
                 upsets>>

\* Its transaction: the id is new, or the call changes nothing.
Enqueue(q) ==
  /\ q \in enqueuing
  /\ enqueuing' = enqueuing \ {q}
  /\ IF queue[q.id] = None
       THEN /\ queue' = [queue EXCEPT ![q.id] =
                  [status |-> "pending", canned |-> q.canned,
                   timeout |-> q.timeout]]
            /\ outcomes' = [outcomes EXCEPT ![q.id] = 0]
       ELSE UNCHANGED <<queue, outcomes>>
  /\ UNCHANGED <<expiring, account, calls, channel, runtime, made, upsets>>

Status(r) == IF queue[r] = None THEN None ELSE queue[r].status

\* timeout_at passes.
BecomeDue(r) ==
  /\ Status(r) = "pending" /\ queue[r].timeout = "ahead"
  /\ queue' = [queue EXCEPT ![r].timeout = "past"]
  /\ UNCHANGED <<enqueuing, expiring, outcomes, account, calls, channel,
                 runtime, made, upsets>>

\* The row of a question that is settled, and the event that tells the bot.
Settle(r, status) == queue' = [queue EXCEPT ![r].status = status]
TellBot(r) ==
  /\ Emit("response", r)
  /\ outcomes' = [outcomes EXCEPT ![r] = @ + 1]

\* respond_operator_queue_entry by the owner, who may always answer, or by
\* another operator.  The bot itself is let through as well; its id is no
\* user's, and the database refuses it.
Respond(r) ==
  /\ live
  /\ Status(r) = "pending"
  /\ Settle(r, "answered")
  /\ TellBot(r)
  /\ UNCHANGED <<enqueuing, expiring, account, calls, runtime, made, upsets>>

\* OperatorQueueTimeoutJob reads the rows that are due...
SelectDue ==
  LET due == {r \in Requests : Status(r) = "pending" /\ queue[r].timeout = "past"}
  IN /\ expiring = {} /\ due # {}
     /\ expiring' = due
     /\ UNCHANGED <<queue, enqueuing, outcomes, account, calls, channel,
                    runtime, made, upsets>>

\* ... and settles one after the other, whatever has become of it.
ExpireUnasked(r) ==
  /\ r \in expiring /\ queue[r] # None
  /\ expiring' = expiring \ {r}
  /\ Settle(r, "expired")
  /\ IF queue[r].canned THEN TellBot(r) ELSE UNCHANGED <<channel, outcomes>>
  /\ UNCHANGED <<enqueuing, account, calls, runtime, made, upsets>>

\* ... and settles one after the other, if it is still pending.
Expire(r) ==
  /\ r \in expiring
  /\ expiring' = expiring \ {r}
  /\ IF Status(r) = "pending" THEN Settle(r, "expired") ELSE UNCHANGED queue
  /\ IF Status(r) = "pending" /\ queue[r].canned
       THEN TellBot(r) ELSE UNCHANGED <<channel, outcomes>>
  /\ UNCHANGED <<enqueuing, account, calls, runtime, made, upsets>>

\* OperatorQueueRetentionJob.
RetireQuestion(r) ==
  /\ Status(r) \in {"answered", "expired"}
  /\ queue' = [queue EXCEPT ![r] = None]
  /\ UNCHANGED <<enqueuing, expiring, outcomes, account, calls, channel,
                 runtime, made, upsets>>

-----------------------------------------------------------------------------
(***************************************************************************)
(* Commands, their results, and messages to the owner.                     *)
(***************************************************************************)

\* check_or_reserve_request_id and record_response_code, which commit together:
\* a request_id is new, or it was used by the endpoint or by another.
Fresh(k) == k \in Keys => requestLog[k] = None
Record(k, endpoint) ==
  /\ requestLog' =
       IF k = NoKey THEN requestLog ELSE [requestLog EXCEPT ![k] = endpoint]
  /\ effects' =
       IF k = NoKey THEN effects ELSE [effects EXCEPT ![k] = @ + 1]

\* post_bot_command: the member and the grant.  Members, and a client that
\* tries again, may send one request_id at the same time.
CommandChecked(k) ==
  /\ scopes # None /\ "read_commands" \in scopes
  /\ Call
  /\ posting' = [posting EXCEPT ![k] = @ + 1]
  /\ UNCHANGED <<commands, requestLog, effects, account, operators, channel,
                 runtime, upsets>>

NewCommand == [acked |-> FALSE, expired |-> FALSE, result |-> FALSE]

\* The response code is not recorded: the reservation is found again.
PostCommandUnrecorded(k) ==
  /\ posting[k] > 0
  /\ posting' = [posting EXCEPT ![k] = @ - 1]
  /\ commands' = Append(commands, NewCommand)
  /\ effects' = IF k = NoKey THEN effects ELSE [effects EXCEPT ![k] = @ + 1]
  /\ Emit("command", Len(commands) + 1)
  /\ UNCHANGED <<requestLog, account, operators, runtime, made, upsets>>

\* Its transaction: the row, the answer and the event, or nothing.
PostCommand(k) ==
  /\ posting[k] > 0
  /\ posting' = [posting EXCEPT ![k] = @ - 1]
  /\ IF Fresh(k)
       THEN /\ commands' = Append(commands, NewCommand)
            /\ Record(k, "command")
            /\ Emit("command", Len(commands) + 1)
       ELSE UNCHANGED <<commands, requestLog, effects, channel>>
  /\ UNCHANGED <<account, operators, runtime, made, upsets>>

\* ack_bot_command does not ask whether the command has expired.
Ack(c) ==
  /\ Authentic /\ ~commands[c].acked
  /\ commands' = [commands EXCEPT ![c].acked = TRUE]
  /\ UNCHANGED <<posting, requestLog, effects, account, operators, channel,
                 runtime, made, upsets>>

\* post_bot_messages to the invoker: the command is acked and has no result.
PostResult(c, k) ==
  /\ Authentic /\ Fresh(k) /\ Call
  /\ commands[c].acked /\ ~commands[c].result
  /\ commands' = [commands EXCEPT ![c].result = TRUE]
  /\ Record(k, "result")
  /\ UNCHANGED <<posting, account, operators, channel, runtime, upsets>>

\* post_bot_messages to the owner.
PostLocalMessage(k) ==
  /\ Authentic /\ k # NoKey /\ Fresh(k) /\ Call
  /\ Record(k, "message")
  /\ UNCHANGED <<commands, posting, account, operators, channel, runtime,
                 upsets>>

\* BotCommandsTtlJob: what is as old as the n-th command, and not acked.
ExpireCommands(n) ==
  /\ commands' =
       [c \in DOMAIN commands |->
          IF c <= n /\ ~commands[c].acked
            THEN [commands[c] EXCEPT !.expired = TRUE] ELSE commands[c]]
  /\ UNCHANGED <<posting, requestLog, effects, account, operators, channel,
                 runtime, made, upsets>>

\* BotRequestLogTtlJob.
ForgetRequest(k) ==
  /\ requestLog[k] # None
  /\ requestLog' = [requestLog EXCEPT ![k] = None]
  /\ effects' = [effects EXCEPT ![k] = 0]
  /\ UNCHANGED <<commands, posting, account, operators, channel, runtime,
                 made, upsets>>

-----------------------------------------------------------------------------
(***************************************************************************)
(* The event log and GET /bots/me/sync.                                    *)
(***************************************************************************)

\* 24 hours have passed since the next event was stored.
Age ==
  /\ old < Len(events)
  /\ old' = old + 1
  /\ UNCHANGED <<events, log, wire, account, operators, calls, runtime,
                 made, upsets>>

\* BotEventLogTtlJob.
PruneLog ==
  /\ \E s \in log : s <= old
  /\ log' = {s \in log : s > old}
  /\ UNCHANGED <<events, old, wire, account, operators, calls, runtime,
                 made, upsets>>

KeepServer == UNCHANGED <<account, operators, calls, channel>>
KeepRuntime ==
  UNCHANGED <<conn, cursor, seen, forgets, handled, made, upsets>>

\* Statement 1, one event too late.
SyncListPastNext ==
  /\ sync.stage = "asked" /\ Authentic
  /\ sync' = [stage |-> "listed", since |-> sync.since,
              list |-> {s \in log : s > sync.since + 1}, upTo |-> Len(events)]
  /\ KeepRuntime /\ KeepServer

\* Statement 1: the events past since.  "upTo" is what had been numbered then.
SyncList ==
  /\ sync.stage = "asked" /\ Authentic
  /\ sync' = [stage |-> "listed", since |-> sync.since,
              list |-> {s \in log : s > sync.since}, upTo |-> Len(events)]
  /\ KeepRuntime /\ KeepServer

\* Statement 2: max_bot_seq, from what has been numbered by now.
SyncCount ==
  /\ sync.stage = "listed"
  /\ sync' = [stage |-> "counted", since |-> sync.since, list |-> sync.list,
              upTo |-> sync.upTo,
              highest |-> Len(events)]
  /\ KeepRuntime /\ KeepServer

\* The first event that is retained.  MIN over no rows is one row with NULL,
\* which sqlx reads from SQLite as the number 0: the code's "none retained",
\* past the last event, is not reached.
MinRetained == IF log # {} THEN Min(log) ELSE 0

\* Statement 3: full_resync_required.
SyncJudge ==
  LET s == sync IN
  /\ s.stage = "counted"
  /\ sync' = [stage |-> "answered", since |-> s.since, list |-> s.list,
              upTo |-> s.upTo, highest |-> s.highest, kept |-> log # {},
              resync |-> /\ s.since > 0
                         /\ \/ s.since < MinRetained
                            \/ \E e \in log : e <= s.since /\ e <= old]
  /\ KeepRuntime /\ KeepServer

-----------------------------------------------------------------------------
(***************************************************************************)
(* The runtime.                                                            *)
(***************************************************************************)

Ask(since) == sync' = [stage |-> "asked", since |-> since]
CommandsIn(S) == {events[s].of : s \in {t \in S : events[t].kind = "command"}}

\* Every delivery runs the command.
DispatchUnrecorded(S) ==
  /\ handled' = [c \in DOMAIN handled |->
                   handled[c] + IF c \in CommandsIn(S) THEN 1 ELSE 0]
  /\ seen' = seen \cup CommandsIn(S)

\* handleBotChannelEvent: checkAndRecord, then the handler.
Dispatch(S) ==
  /\ handled' = [c \in DOMAIN handled |->
                   handled[c] + IF c \in CommandsIn(S) \ seen THEN 1 ELSE 0]
  /\ seen' = seen \cup CommandsIn(S)

\* start: the cursor is not kept over a restart.
Start ==
  /\ conn = "down"
  /\ conn' = "booting" /\ cursor' = 0
  /\ Ask(0)
  /\ UNCHANGED <<seen, forgets, handled, made, upsets>> /\ KeepServer

\* After the first sync, whatever came of it.
Connect ==
  /\ conn = "booting" /\ sync = Idle
  /\ conn' = "on"
  /\ UNCHANGED <<cursor, seen, sync, forgets, handled, made, upsets>>
  /\ KeepServer

Disconnect ==
  /\ conn = "on" /\ Upset
  /\ conn' = "off" /\ sync' = Idle
  /\ UNCHANGED <<cursor, seen, forgets, handled, made>> /\ KeepServer

\* postReconnectSequence.
Reconnect ==
  /\ conn = "off"
  /\ conn' = "on"
  /\ Ask(cursor)
  /\ UNCHANGED <<cursor, seen, forgets, handled, made, upsets>> /\ KeepServer

Stop ==
  /\ conn # "down" /\ Upset
  /\ conn' = "down" /\ sync' = Idle
  /\ UNCHANGED <<cursor, seen, forgets, handled, made>> /\ KeepServer

\* A resync starts again from 0; else the events, then max_bot_seq.
Receive ==
  /\ sync.stage = "answered"
  /\ IF sync.resync
       THEN /\ cursor' = 0 /\ Ask(0)
            /\ UNCHANGED <<seen, handled>>
       ELSE /\ Dispatch(sync.list)
            /\ cursor' = IF sync.highest > sync.since THEN sync.highest
                         ELSE sync.since
            /\ sync' = Idle
  /\ UNCHANGED <<conn, forgets, made, upsets>> /\ KeepServer

SyncFails ==
  /\ sync # Idle
  /\ IF Authentic THEN Upset ELSE UNCHANGED upsets
  /\ sync' = Idle
  /\ UNCHANGED <<conn, cursor, seen, forgets, handled, made>> /\ KeepServer

\* An event is pushed to a runtime that is connected; its bot_seq becomes the
\* cursor, higher or lower.
Push(s) ==
  /\ conn = "on" /\ s \in wire
  /\ wire' = wire \ {s}
  /\ Dispatch({s})
  /\ cursor' = s
  /\ UNCHANGED <<conn, sync, forgets, made, upsets, events, log, old>>
  /\ UNCHANGED <<account, operators, calls>>

\* Nobody listens, or the publication fails, which is ignored.
Lose(s) ==
  /\ s \in wire
  /\ IF conn = "on" THEN Upset ELSE UNCHANGED upsets
  /\ wire' = wire \ {s}
  /\ UNCHANGED <<events, log, old, account, operators, calls, runtime, made>>

\* A command is recorded for five minutes.
ForgetSeen(c) ==
  /\ c \in seen /\ Upset
  /\ seen' = seen \ {c}
  /\ forgets' = forgets + 1
  /\ UNCHANGED <<conn, cursor, sync, handled, made>> /\ KeepServer

-----------------------------------------------------------------------------

AccountNext ==
  \/ CreateToken \/ DeleteToken
  \/ \E S \in (SUBSET Scopes) \ {{}} : PatchGrant(S)
  \/ RevokeGrant \/ DeleteBot
  \/ \E v \in Values : WriteSetting(v)
  \/ DeleteSetting

OperatorNext ==
  \/ \E q \in Questions : EnqueueChecked(q) \/ Enqueue(q)
  \/ SelectDue
  \/ \E r \in Requests :
       \/ BecomeDue(r) \/ Respond(r) \/ Expire(r) \/ RetireQuestion(r)

CallNext ==
  \/ \E k \in Keys \cup {NoKey} : CommandChecked(k) \/ PostCommand(k)
  \/ \E c \in DOMAIN commands :
       \/ Ack(c) \/ ExpireCommands(c)
       \/ \E k \in Keys \cup {NoKey} : PostResult(c, k)
  \/ \E k \in Keys : PostLocalMessage(k) \/ ForgetRequest(k)

ChannelNext ==
  \/ Age \/ PruneLog \/ SyncList \/ SyncCount \/ SyncJudge
  \/ Start \/ Connect \/ Disconnect \/ Reconnect \/ Stop
  \/ Receive \/ SyncFails
  \/ \E s \in wire : Push(s) \/ Lose(s)
  \/ \E c \in seen : ForgetSeen(c)

Next == AccountNext \/ OperatorNext \/ CallNext \/ ChannelNext

Spec == Init /\ [][Next]_vars

-----------------------------------------------------------------------------

\* What is stored has its type, and revoking never counts a token twice.
TypeOK ==
  /\ live \in BOOLEAN /\ tokens \in 0..MaxTokens
  /\ scopes \in (SUBSET Scopes) \cup {None}
  /\ setting \in Values \cup {None}
  /\ queue \in [Requests -> QueueRow \cup {None}]
  /\ enqueuing \subseteq Question /\ expiring \subseteq Requests
  /\ commands \in Seq(Command) /\ Len(commands) <= MaxCalls
  /\ posting \in [Keys \cup {NoKey} -> 0..MaxCalls]
  /\ requestLog \in [Keys -> {None, "command", "result", "message"}]
  /\ events \in Seq(Event)
  /\ log \subseteq DOMAIN events /\ wire \subseteq DOMAIN events
  /\ old \in 0..Len(events) /\ cursor \in 0..Len(events)
  /\ conn \in {"down", "booting", "on", "off"}
  /\ seen \subseteq DOMAIN commands
  /\ sync.stage \in {"idle", "asked", "listed", "counted", "answered"}

\* An operator's answer and the timeout job race for a question: the bot gets
\* one response to a question that was answered, one to a question that expired
\* with a canned response, and none otherwise.
OneOutcome ==
  \A r \in Requests :
    queue[r] # None =>
      outcomes[r] = IF \/ queue[r].status = "answered"
                       \/ queue[r].status = "expired" /\ queue[r].canned
                    THEN 1 ELSE 0

\* However often a call is repeated, and whoever repeats it on whichever
\* endpoint, a request_id takes effect once as long as it is remembered.
RequestOnce == \A k \in Keys : effects[k] <= 1

\* However events are numbered and pruned between the statements of a sync, an
\* answer that asks for no resync lists every event past the cursor that had
\* been numbered when the list was read, if anything is retained at all.
Complete == sync.since + 1 .. sync.upTo \subseteq sync.list
AnswerComplete ==
  sync.stage = "answered" /\ sync.since > 0 /\ ~sync.resync /\ sync.kept =>
    Complete

\* Violated: and also if nothing is.
LossNoticed ==
  sync.stage = "answered" /\ sync.since > 0 /\ ~sync.resync => Complete

\* A command is pushed, listed by a sync and listed again after a restart: the
\* runtime runs it once, and again only when its record has expired in between.
HandledOnce == \A c \in DOMAIN handled : handled[c] <= 1 + forgets

\* Violated: what the cursor has passed was given to the runtime.
CursorCovers ==
  \A s \in 1..cursor :
    s \in log /\ events[s].kind = "command" /\ sync = Idle /\ s \notin wire =>
      handled[events[s].of] > 0

=============================================================================
