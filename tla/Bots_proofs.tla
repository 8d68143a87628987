---------------------------- MODULE Bots_proofs ----------------------------
(***************************************************************************)
(* Theorems about Bots, for any questions, request_ids, settings and       *)
(* bounds on calls and upsets.                                             *)
(***************************************************************************)
EXTENDS Bots, NatLemmas, SequenceTheorems

(***************************************************************************)
(* Questions to the operators.                                             *)
(***************************************************************************)

QueueTyped ==
  /\ queue \in [Requests -> QueueRow \cup {None}]
  /\ outcomes \in [Requests -> Nat]

OutcomeInv == QueueTyped /\ OneOutcome

\* All but the operators' handlers, the two jobs and delete_bot leave the queue
\* as it is.
LEMMA QueueKept ==
  ASSUME (AccountNext /\ ~ DeleteBot) \/ CallNext \/ ChannelNext
  PROVE  queue' = queue /\ outcomes' = outcomes
  <1>1. CASE AccountNext /\ ~ DeleteBot
    BY <1>1 DEF AccountNext, CreateToken, DeleteToken, PatchGrant, RevokeGrant, WriteSetting,
                DeleteSetting, operators
  <1>2. CASE CallNext
    BY <1>2 DEF CallNext, CommandChecked, PostCommand, Ack, ExpireCommands, PostResult,
                PostLocalMessage, ForgetRequest, operators
  <1>3. CASE ChannelNext
    BY <1>3 DEF ChannelNext, Age, PruneLog, SyncList, SyncCount, SyncJudge, Start, Connect,
                Disconnect, Reconnect, Stop, Receive, SyncFails, Push, Lose, ForgetSeen,
                KeepServer, operators
  <1> QED BY <1>1, <1>2, <1>3

\* The invariant behind one outcome per action holds at the start,
LEMMA OutcomeInit == Init => OutcomeInv
  BY DEF Init, OutcomeInv, QueueTyped, OneOutcome

\* and every step keeps it.
LEMMA OutcomeNext == OutcomeInv /\ [Next]_vars => OutcomeInv'
  <1> SUFFICES ASSUME OutcomeInv, [Next]_vars PROVE OutcomeInv'
    OBVIOUS
  <1> USE DEF OutcomeInv, QueueTyped, OneOutcome
  <1>0. \A r \in Requests : Status(r) # None => queue[r] \in QueueRow /\ Status(r) = queue[r].status
    BY DEF Status
  <1>1. \A r \in Requests : Status(r) \in {"pending", "answered", "expired"} => Status(r) # None
    BY BotsAssumption
  <1>2. ASSUME NEW q \in Questions, Enqueue(q) PROVE OutcomeInv'
    <2>1. q.id \in Requests /\ q.canned \in BOOLEAN /\ q.timeout \in Deadline
      BY BotsAssumption DEF Deadline
    <2>2. [status |-> "pending", canned |-> q.canned, timeout |-> q.timeout] \in QueueRow
      BY <2>1 DEF QueueRow
    <2> QED BY <1>2, <2>1, <2>2 DEF Enqueue
  <1>3. ASSUME NEW r \in Requests, BecomeDue(r) PROVE OutcomeInv'
    <2>1. queue[r] \in QueueRow
      BY <1>0, <1>1, <1>3 DEF BecomeDue
    <2>2. /\ [queue[r] EXCEPT !.timeout = "past"] \in QueueRow
          /\ [queue[r] EXCEPT !.timeout = "past"].status = queue[r].status
          /\ [queue[r] EXCEPT !.timeout = "past"].canned = queue[r].canned
      BY <2>1 DEF QueueRow, Deadline
    <2>3. queue' = [queue EXCEPT ![r] = [queue[r] EXCEPT !.timeout = "past"]] /\ outcomes' = outcomes
      BY <1>3 DEF BecomeDue
    <2>4. queue[r] # None
      BY <1>0, <1>1, <1>3 DEF BecomeDue, Status
    <2> QED BY <2>1, <2>2, <2>3, <2>4
  <1>4. ASSUME NEW r \in Requests, NEW status \in {"answered", "expired"},
               Status(r) = "pending", Settle(r, status),
               outcomes' = IF status = "answered" \/ queue[r].canned
                             THEN [outcomes EXCEPT ![r] = @ + 1] ELSE outcomes
        PROVE  OutcomeInv'
    <2>1. queue[r] \in QueueRow /\ queue[r].status = "pending" /\ queue[r] # None
      BY <1>0, <1>1, <1>4 DEF Status
    <2> DEFINE row == [queue[r] EXCEPT !.status = status]
    <2>2. row \in QueueRow /\ row.status = status /\ row.canned = queue[r].canned
      BY <2>1 DEF QueueRow
    <2>3. queue' = [queue EXCEPT ![r] = row]
      BY <1>4 DEF Settle
    <2>4. outcomes[r] = 0
      BY <2>1
    <2> HIDE DEF row
    <2> QED BY <1>4, <2>1, <2>2, <2>3, <2>4
  <1>5. ASSUME NEW r \in Requests, Respond(r) PROVE OutcomeInv'
    BY <1>4, <1>5 DEF Respond, TellBot
  <1>6. ASSUME NEW r \in Requests, Expire(r) PROVE OutcomeInv'
    <2>1. CASE Status(r) = "pending"
      BY <1>4, <1>6, <2>1 DEF Expire, TellBot
    <2>2. CASE Status(r) # "pending"
      BY <1>6, <2>2 DEF Expire
    <2> QED BY <2>1, <2>2
  <1>7. ASSUME NEW r \in Requests, RetireQuestion(r) PROVE OutcomeInv'
    BY <1>7 DEF RetireQuestion
  <1>8. CASE DeleteBot
    BY <1>8 DEF DeleteBot
  <1>9. CASE SelectDue \/ \E q \in Questions : EnqueueChecked(q)
    BY <1>9 DEF SelectDue, EnqueueChecked
  <1>10. CASE (AccountNext /\ ~ DeleteBot) \/ CallNext \/ ChannelNext
    BY <1>10, QueueKept
  <1>11. CASE UNCHANGED vars
    BY <1>11 DEF vars, operators
  <1> QED BY <1>2, <1>3, <1>5, <1>6, <1>7, <1>8, <1>9, <1>10, <1>11 DEF Next, OperatorNext

\* However an answer, the timeout job, a repeated call and the deletion of the
\* bot race, the bot is told one outcome of a question that was answered or had
\* a canned response, and none otherwise (respond_operator_queue_entry of
\* routes/bots.rs, OperatorQueueTimeoutJob of cleanup/), for any questions.
THEOREM OutcomeOnce == Spec => []OneOutcome
  <1>1. Spec => []OutcomeInv
    BY OutcomeInit, OutcomeNext, PTL DEF Spec
  <1>2. OutcomeInv => OneOutcome
    BY DEF OutcomeInv
  <1> QED BY <1>1, <1>2, PTL

(***************************************************************************)
(* Calls with a request_id.                                                *)
(***************************************************************************)

\* What is not in the log of requests has had no effect.
RequestInv ==
  /\ requestLog \in [Keys -> {None, "command", "result", "message"}]
  /\ effects \in [Keys -> Nat]
  /\ \A k \in Keys : effects[k] = (IF requestLog[k] = None THEN 0 ELSE 1)

\* The invariant behind one request per message holds at the start,
LEMMA RequestInit == Init => RequestInv
  BY DEF Init, RequestInv

\* and every step keeps it.
LEMMA RequestNext == RequestInv /\ [Next]_vars => RequestInv'
  <1> SUFFICES ASSUME RequestInv, [Next]_vars PROVE RequestInv'
    OBVIOUS
  <1> USE DEF RequestInv
  <1>1. ASSUME NEW k \in Keys \cup {NoKey}, NEW e \in {"command", "result", "message"},
               Fresh(k), Record(k, e)
        PROVE  RequestInv'
    <2>1. CASE k = NoKey
      BY <1>1, <2>1 DEF Record
    <2>2. CASE k # NoKey
      <3>1. k \in Keys /\ requestLog[k] = None /\ effects[k] = 0
        BY <1>1, <2>2 DEF Fresh
      <3>2. requestLog' = [requestLog EXCEPT ![k] = e] /\ effects' = [effects EXCEPT ![k] = @ + 1]
        BY <1>1, <2>2 DEF Record
      <3>3. e # None
        BY BotsAssumption
      <3> QED BY <3>1, <3>2, <3>3
    <2> QED BY <2>1, <2>2
  <1>2. ASSUME NEW k \in Keys \cup {NoKey}, PostCommand(k) PROVE RequestInv'
    BY <1>1, <1>2 DEF PostCommand
  <1>3. ASSUME NEW c, NEW k \in Keys \cup {NoKey}, PostResult(c, k) PROVE RequestInv'
    BY <1>1, <1>3 DEF PostResult
  <1>4. ASSUME NEW k \in Keys, PostLocalMessage(k) PROVE RequestInv'
    BY <1>1, <1>4 DEF PostLocalMessage
  <1>5. ASSUME NEW k \in Keys, ForgetRequest(k) PROVE RequestInv'
    BY <1>5 DEF ForgetRequest
  <1>6. ASSUME NEW c, Ack(c) \/ ExpireCommands(c) PROVE RequestInv'
    BY <1>6 DEF Ack, ExpireCommands
  <1>7. ASSUME NEW k \in Keys \cup {NoKey}, CommandChecked(k) PROVE RequestInv'
    BY <1>7 DEF CommandChecked
  <1>8. CASE AccountNext
    BY <1>8 DEF AccountNext, CreateToken, DeleteToken, PatchGrant, RevokeGrant, DeleteBot,
                WriteSetting, DeleteSetting, calls
  <1>9. CASE OperatorNext
    BY <1>9 DEF OperatorNext, EnqueueChecked, Enqueue, SelectDue, BecomeDue, Respond, Expire,
                RetireQuestion, calls
  <1>10. CASE ChannelNext
    BY <1>10 DEF ChannelNext, Age, PruneLog, SyncList, SyncCount, SyncJudge, Start, Connect,
                 Disconnect, Reconnect, Stop, Receive, SyncFails, Push, Lose, ForgetSeen,
                 KeepServer, calls
  <1>11. CASE UNCHANGED vars
    BY <1>11 DEF vars, calls
  <1> QED BY <1>2, <1>3, <1>4, <1>5, <1>6, <1>7, <1>8, <1>9, <1>10, <1>11 DEF Next, CallNext

\* A request_id takes effect once for as long as it is remembered, on whichever
\* endpoint it is used and however many calls with it are under way
\* (check_or_reserve_request_id, record_response_code of routes/bots.rs and
\* room_bots.rs).
THEOREM RequestIsOnce == Spec => []RequestOnce
  <1>1. Spec => []RequestInv
    BY RequestInit, RequestNext, PTL DEF Spec
  <1>2. RequestInv => RequestOnce
    BY DEF RequestInv, RequestOnce
  <1> QED BY <1>1, <1>2, PTL

(***************************************************************************)
(* The event log.                                                          *)
(***************************************************************************)

\* The log is the events past some number: nothing retained is followed by
\* something that is not.
LogInv ==
  /\ \E S : events \in Seq(S)
  /\ log \subseteq 1..Len(events) /\ wire \subseteq 1..Len(events)
  /\ \A s \in log : \A t \in 1..Len(events) : s <= t => t \in log

\* While a sync is under way, its list holds what is retained of what had been
\* numbered when it was read.
SyncInv ==
  /\ cursor \in 0..Len(events)
  /\ sync.stage \in {"idle", "asked", "listed", "counted", "answered"}
  /\ sync.stage # "idle" => sync.since \in 0..Len(events)
  /\ sync.stage \in {"listed", "counted", "answered"} => sync.upTo \in 0..Len(events)
  /\ sync.stage \in {"counted", "answered"} => sync.highest \in 0..Len(events)
  /\ sync.stage \in {"listed", "counted"} =>
       \A s \in log : sync.since < s /\ s <= sync.upTo => s \in sync.list
  /\ AnswerComplete

\* What a step does to the log: nothing, add one event, lose one push, or prune
\* the log from below.
LogStep ==
  \/ UNCHANGED <<events, log, wire>>
  \/ \E kind, of : Emit(kind, of)
  \/ events' = events /\ log' = log /\ wire' \subseteq wire
  \/ events' = events /\ wire' = wire /\ log' = {s \in log : s > old}

\* What a step may do to the rows and to the log of events.
LEMMA LogSteps ==
  ASSUME [Next]_vars
  PROVE  LogStep
  <1> USE DEF LogStep
  <1>1. CASE AccountNext
    BY <1>1 DEF AccountNext, CreateToken, DeleteToken, PatchGrant, RevokeGrant, DeleteBot,
                WriteSetting, DeleteSetting, channel
  <1>2. CASE OperatorNext
    BY <1>2 DEF OperatorNext, EnqueueChecked, Enqueue, SelectDue, BecomeDue, Respond, Expire,
                RetireQuestion, TellBot, channel
  <1>3. CASE CallNext
    BY <1>3 DEF CallNext, CommandChecked, PostCommand, Ack, ExpireCommands, PostResult,
                PostLocalMessage, ForgetRequest, channel
  <1>4. CASE ChannelNext
    BY <1>4 DEF ChannelNext, Age, PruneLog, SyncList, SyncCount, SyncJudge, Start, Connect,
                Disconnect, Reconnect, Stop, Receive, SyncFails, Push, Lose, ForgetSeen,
                KeepServer, channel
  <1>5. CASE UNCHANGED vars
    BY <1>5 DEF vars, channel
  <1> QED BY <1>1, <1>2, <1>3, <1>4, <1>5 DEF Next

\* The events are counted by a natural number.
LEMMA LogLength == LogInv => Len(events) \in Nat
  BY LenProperties DEF LogInv

\* The log stays the events past some number, and only new events enter it.
LEMMA LogNext ==
  ASSUME LogInv, old \in Nat, LogStep
  PROVE  LogInv' /\ Len(events') \in Nat /\ Len(events) <= Len(events')
         /\ \A s \in log' : s \in log \/ s > Len(events)
  <1>0. Len(events) \in Nat
    BY LogLength
  <1>1. CASE UNCHANGED <<events, log, wire>>
    BY <1>0, <1>1 DEF LogInv
  <1>2. ASSUME NEW kind, NEW of, Emit(kind, of)
        PROVE  LogInv' /\ Len(events') \in Nat /\ Len(events) <= Len(events')
               /\ \A s \in log' : s \in log \/ s > Len(events)
    <2> DEFINE e == [kind |-> kind, of |-> of]
    <2>0. /\ events' = Append(events, e)
          /\ log' = log \cup {Len(events) + 1} /\ wire' = wire \cup {Len(events) + 1}
      BY <1>2 DEF Emit
    <2>1. PICK S : events \in Seq(S)
      BY DEF LogInv
    <2> HIDE DEF e
    <2>2. events \in Seq(S \cup {e})
      BY <2>1, SeqMonotonic
    <2>3. events' \in Seq(S \cup {e}) /\ Len(events') = Len(events) + 1
      BY <2>0, <2>2, AppendProperties
    <2>4. log' \subseteq 1..Len(events') /\ wire' \subseteq 1..Len(events')
      <3>1. 1..Len(events) \subseteq 1..Len(events') /\ Len(events) + 1 \in 1..Len(events')
        BY <1>0, <2>3
      <3> QED BY <2>0, <3>1 DEF LogInv
    <2>5. ASSUME NEW s \in log', NEW t \in 1..Len(events'), s <= t PROVE t \in log'
      <3>1. CASE t = Len(events) + 1
        BY <2>0, <3>1
      <3>2. CASE t \in 1..Len(events)
        <4>1. s # Len(events) + 1
          BY <1>0, <2>5, <3>2
        <4> QED BY <2>0, <2>5, <3>2, <4>1 DEF LogInv
      <3> QED BY <1>0, <2>3, <2>5, <3>1, <3>2
    <2>6. LogInv'
      BY <2>3, <2>4, <2>5 DEF LogInv
    <2> QED BY <1>0, <2>0, <2>3, <2>6
  <1>3. CASE events' = events /\ log' = log /\ wire' \subseteq wire
    BY <1>0, <1>3 DEF LogInv
  <1>4. CASE events' = events /\ wire' = wire /\ log' = {s \in log : s > old}
    <2>1. LogInv'
      <3>1. ASSUME NEW s \in log', NEW t \in 1..Len(events), s <= t PROVE t \in log'
        BY <1>0, <1>4, <3>1 DEF LogInv
      <3> QED BY <1>4, <3>1 DEF LogInv
    <2> QED BY <1>0, <1>4, <2>1
  <1> QED BY <1>1, <1>2, <1>3, <1>4 DEF LogStep

\* The age that the retention goes by.
LEMMA OldNext ==
  ASSUME old \in Nat, [Next]_vars
  PROVE  old' \in Nat
  <1>1. CASE AccountNext
    BY <1>1 DEF AccountNext, CreateToken, DeleteToken, PatchGrant, RevokeGrant, DeleteBot,
                WriteSetting, DeleteSetting, Emit, channel
  <1>2. CASE OperatorNext
    BY <1>2 DEF OperatorNext, EnqueueChecked, Enqueue, SelectDue, BecomeDue, Respond, Expire,
                RetireQuestion, TellBot, Emit, channel
  <1>3. CASE CallNext
    BY <1>3 DEF CallNext, CommandChecked, PostCommand, Ack, ExpireCommands, PostResult,
                PostLocalMessage, ForgetRequest, Emit, channel
  <1>4. CASE ChannelNext
    <2>1. CASE Age
      BY <2>1 DEF Age
    <2>2. CASE ChannelNext /\ ~ Age
      <3>1. old' = old
        BY <2>2 DEF ChannelNext, PruneLog, SyncList, SyncCount, SyncJudge, Start, Connect,
                    Disconnect, Reconnect, Stop, Receive, SyncFails, Push, Lose, ForgetSeen,
                    KeepServer, channel
      <3> QED BY <3>1
    <2> QED BY <1>4, <2>1, <2>2
  <1>5. CASE UNCHANGED vars
    BY <1>5 DEF vars, channel
  <1> QED BY <1>1, <1>2, <1>3, <1>4, <1>5 DEF Next

AnswerInv == old \in Nat /\ LogInv /\ SyncInv

\* The invariant behind complete answers holds at the start,
LEMMA AnswerInit == Init => AnswerInv
  <1> SUFFICES ASSUME Init PROVE AnswerInv
    OBVIOUS
  <1>1. events = <<>> /\ events \in Seq({}) /\ Len(events) = 0
    BY EmptySeq DEF Init
  <1>2. sync.stage = "idle"
    BY DEF Init, Idle
  <1> QED BY <1>1, <1>2 DEF Init, AnswerInv, LogInv, SyncInv, AnswerComplete

\* and every step keeps it.
LEMMA AnswerNext == AnswerInv /\ [Next]_vars => AnswerInv'
  <1> SUFFICES ASSUME AnswerInv, [Next]_vars PROVE AnswerInv'
    OBVIOUS
  <1>0. /\ Len(events) \in Nat /\ old \in Nat /\ cursor \in 0..Len(events)
        /\ log \subseteq 1..Len(events) /\ wire \subseteq 1..Len(events)
    BY LogLength DEF AnswerInv, LogInv, SyncInv
  <1>a. /\ sync.stage \in {"idle", "asked", "listed", "counted", "answered"}
        /\ sync.stage # "idle" => sync.since \in 0..Len(events)
        /\ sync.stage \in {"listed", "counted", "answered"} => sync.upTo \in 0..Len(events)
        /\ sync.stage \in {"counted", "answered"} => sync.highest \in 0..Len(events)
    BY DEF AnswerInv, SyncInv
  <1>b. sync.stage \in {"listed", "counted"} =>
          \A s \in log : sync.since < s /\ s <= sync.upTo => s \in sync.list
    BY DEF AnswerInv, SyncInv
  <1>c. /\ LogInv' /\ old' \in Nat
        /\ Len(events') \in Nat /\ Len(events) <= Len(events')
        /\ \A s \in log' : s \in log \/ s > Len(events)
    BY LogSteps, LogNext, OldNext DEF AnswerInv
  <1>1. Len(events') \in Nat /\ Len(events) <= Len(events')
    BY <1>c
  <1> SUFFICES SyncInv'
    BY <1>c DEF AnswerInv
  \* The sync is not concerned.
  <1>2. ASSUME sync' = sync, cursor' = cursor \/ cursor' \in wire \/ cursor' = 0
        PROVE  SyncInv'
    <2>1. cursor' \in 0..Len(events')
      <3>1. CASE cursor' = cursor \/ cursor' = 0
        BY <1>0, <1>1, <3>1
      <3>2. CASE cursor' \in wire
        BY <1>0, <1>1, <3>2
      <3> QED BY <1>2, <3>1, <3>2
    <2>2. AnswerComplete'
      BY <1>2 DEF AnswerInv, SyncInv, AnswerComplete, Complete
    <2>3. ASSUME sync.stage \in {"listed", "counted"},
                 NEW s \in log', sync.since < s, s <= sync.upTo
          PROVE  s \in sync.list
      <3>1. sync.upTo \in 0..Len(events) /\ (s \in log \/ s > Len(events)) /\ s \in Nat
        BY <1>a, <1>c, <2>3 DEF LogInv
      <3>2. CASE s > Len(events)
        BY <1>0, <2>3, <3>1, <3>2
      <3>3. CASE s \in log
        BY <1>b, <2>3, <3>3
      <3> QED BY <3>1, <3>2, <3>3
    <2>4. /\ sync.stage # "idle" => sync.since \in 0..Len(events')
          /\ sync.stage \in {"listed", "counted", "answered"} => sync.upTo \in 0..Len(events')
          /\ sync.stage \in {"counted", "answered"} => sync.highest \in 0..Len(events')
      BY <1>0, <1>1, <1>a
    <2> QED BY <1>a, <1>2, <2>1, <2>2, <2>3, <2>4 DEF SyncInv
  \* It ends, or asks anew.
  <1>3. ASSUME NEW n \in 0..Len(events), sync' = Idle \/ Ask(n), cursor' \in 0..Len(events)
        PROVE  SyncInv'
    <2>1. sync'.stage \in {"idle", "asked"} /\ (sync'.stage = "asked" => sync'.since = n)
      BY <1>3 DEF Idle, Ask
    <2>2. n \in 0..Len(events') /\ cursor' \in 0..Len(events')
      BY <1>0, <1>1, <1>3
    <2> QED BY <2>1, <2>2 DEF SyncInv, AnswerComplete
  <1>4. CASE AccountNext \/ OperatorNext \/ CallNext
    <2>1. UNCHANGED runtime
      BY <1>4 DEF AccountNext, CreateToken, DeleteToken, PatchGrant, RevokeGrant, DeleteBot,
                  WriteSetting, DeleteSetting, OperatorNext, EnqueueChecked, Enqueue, SelectDue,
                  BecomeDue, Respond, Expire, RetireQuestion, CallNext, CommandChecked,
                  PostCommand, Ack, ExpireCommands, PostResult, PostLocalMessage, ForgetRequest
    <2>2. sync' = sync /\ cursor' = cursor
      BY <2>1 DEF runtime
    <2> QED BY <1>2, <2>2
  <1>5. CASE Age \/ PruneLog \/ Connect \/ (\E s \in wire : Push(s) \/ Lose(s))
               \/ \E c \in seen : ForgetSeen(c)
    <2>1. sync' = sync /\ (cursor' = cursor \/ cursor' \in wire)
      BY <1>5 DEF Age, PruneLog, Connect, Push, Lose, ForgetSeen, runtime
    <2> QED BY <1>2, <2>1
  <1>6. CASE SyncList
    <2>1. /\ sync' = [stage |-> "listed", since |-> sync.since,
                      list |-> {s \in log : s > sync.since}, upTo |-> Len(events)]
          /\ UNCHANGED <<cursor, events, log>> /\ sync.stage = "asked"
      BY <1>6 DEF SyncList, KeepRuntime, KeepServer, channel
    <2>2. \A s \in log : sync.since < s => s \in sync'.list
      BY <1>0, <1>a, <2>1
    <2>3. sync'.stage = "listed" /\ sync'.since = sync.since /\ sync'.upTo = Len(events)
      BY <2>1
    <2> QED BY <1>0, <1>a, <2>1, <2>2, <2>3 DEF SyncInv, AnswerComplete
  <1>7. CASE SyncCount
    <2>1. /\ sync' = [stage |-> "counted", since |-> sync.since, list |-> sync.list,
                      upTo |-> sync.upTo, highest |-> Len(events)]
          /\ UNCHANGED <<cursor, events, log>> /\ sync.stage = "listed"
      BY <1>7 DEF SyncCount, KeepRuntime, KeepServer, channel
    <2>2. /\ sync'.stage = "counted" /\ sync'.since = sync.since /\ sync'.list = sync.list
          /\ sync'.upTo = sync.upTo /\ sync'.highest = Len(events)
      BY <2>1
    <2> QED BY <1>0, <1>a, <1>b, <2>1, <2>2 DEF SyncInv, AnswerComplete
  <1>8. CASE SyncJudge
    <2> DEFINE late == /\ sync.since > 0
                       /\ \/ sync.since < MinRetained
                          \/ \E e \in log : e <= sync.since /\ e <= old
    <2>1. /\ sync' = [stage |-> "answered", since |-> sync.since, list |-> sync.list,
                      upTo |-> sync.upTo, highest |-> sync.highest, kept |-> log # {},
                      resync |-> late]
          /\ UNCHANGED <<cursor, events, log>> /\ sync.stage = "counted"
      BY <1>8 DEF SyncJudge, KeepRuntime, KeepServer, channel
    <2>2. sync.since \in 0..Len(events) /\ sync.upTo \in 0..Len(events)
      BY <1>a, <2>1
    <2>3. ASSUME sync.since > 0, ~ late, log # {}
          PROVE  sync.since + 1 .. sync.upTo \subseteq sync.list
      <3>1. log \in SUBSET Nat
        BY <1>0
      <3>2. MinRetained \in log
        <4>1. \E x \in log : \A y \in log : x <= y
          BY <2>3, <3>1, NatMin
        <4> QED BY <2>3, <4>1 DEF MinRetained, Min
      <3>3. MinRetained <= sync.since
        BY <2>2, <2>3, <3>1, <3>2
      <3>4. ASSUME NEW t \in sync.since + 1 .. sync.upTo PROVE t \in sync.list
        <4>1. t \in 1..Len(events) /\ MinRetained <= t /\ sync.since < t /\ t <= sync.upTo
          <5>1. MinRetained \in Nat
            BY <3>1, <3>2
          <5> QED BY <1>0, <2>2, <3>3, <5>1
        <4>2. t \in log
          BY <3>2, <4>1 DEF AnswerInv, LogInv
        <4> QED BY <1>b, <2>1, <4>1, <4>2
      <3> QED BY <3>4
    <2> HIDE DEF late
    <2>4. /\ sync'.stage = "answered" /\ sync'.since = sync.since /\ sync'.list = sync.list
          /\ sync'.upTo = sync.upTo /\ sync'.highest = sync.highest
          /\ sync'.kept = (log # {}) /\ sync'.resync = late
      BY <2>1
    <2>5. AnswerComplete'
      BY <2>3, <2>4 DEF AnswerComplete, Complete
    <2> QED BY <1>0, <1>a, <2>1, <2>4, <2>5 DEF SyncInv
  <1>9. CASE Start
    BY <1>0, <1>3, <1>9 DEF Start
  <1>10. CASE Disconnect \/ Stop \/ SyncFails
    <2>1. sync' = Idle /\ cursor' = cursor
      BY <1>10 DEF Disconnect, Stop, SyncFails
    <2> QED BY <1>0, <1>3, <2>1
  <1>11. CASE Reconnect
    BY <1>0, <1>3, <1>11 DEF Reconnect
  <1>12. CASE Receive
    <2>1. sync.highest \in 0..Len(events) /\ sync.since \in 0..Len(events)
      BY <1>12, <1>a DEF Receive
    <2>2. /\ cursor' = 0 \/ cursor' = sync.highest \/ cursor' = sync.since
          /\ sync' = Idle \/ Ask(0)
      BY <1>12 DEF Receive
    <2>3. cursor' \in 0..Len(events) /\ 0 \in 0..Len(events)
      BY <1>0, <2>1, <2>2
    <2> QED BY <1>3, <2>2, <2>3
  <1>13. CASE UNCHANGED vars
    BY <1>2, <1>13 DEF vars, runtime
  <1> QED BY <1>4, <1>5, <1>6, <1>7, <1>8, <1>9, <1>10, <1>11, <1>12, <1>13
          DEF Next, ChannelNext

\* However events are numbered and pruned between its three statements, an
\* answer of GET /bots/me/sync that asks for no resync lists every event past
\* the cursor, if anything is retained (get_bot_sync of routes/bots.rs,
\* BotEventLogTtlJob of cleanup/), for any number of events.
THEOREM AnswerIsComplete == Spec => []AnswerComplete
  <1>1. Spec => []AnswerInv
    BY AnswerInit, AnswerNext, PTL DEF Spec
  <1>2. AnswerInv => AnswerComplete
    BY DEF AnswerInv, SyncInv
  <1> QED BY <1>1, <1>2, PTL

(***************************************************************************)
(* The runtime.                                                            *)
(***************************************************************************)

\* What is not recorded has run at most as often as a record has expired.
HandledInv ==
  /\ handled \in [1..MaxCalls -> Nat] /\ forgets \in Nat
  /\ \A c \in 1..MaxCalls :
       handled[c] <= (IF c \in seen THEN 1 + forgets ELSE forgets)

\* No command has been handled at the start,
LEMMA HandledInit == Init => HandledInv
  BY DEF Init, HandledInv

\* and every step keeps one from being handled again before its record expires.
LEMMA HandledNext == HandledInv /\ [Next]_vars => HandledInv'
  <1> SUFFICES ASSUME HandledInv, [Next]_vars PROVE HandledInv'
    OBVIOUS
  <1>0. DOMAIN handled = 1..MaxCalls
    BY DEF HandledInv
  <1>1. ASSUME UNCHANGED <<handled, seen, forgets>> PROVE HandledInv'
    BY <1>1 DEF HandledInv
  <1>2. ASSUME NEW S, Dispatch(S), forgets' = forgets PROVE HandledInv'
    <2>1. /\ handled' = [c \in 1..MaxCalls |->
                           handled[c] + IF c \in CommandsIn(S) \ seen THEN 1 ELSE 0]
          /\ seen' = seen \cup CommandsIn(S)
      BY <1>0, <1>2 DEF Dispatch
    <2> QED BY <1>2, <2>1 DEF HandledInv
  <1>3. ASSUME NEW c \in seen, ForgetSeen(c) PROVE HandledInv'
    BY <1>3 DEF ForgetSeen, HandledInv
  <1>4. CASE AccountNext \/ OperatorNext \/ CallNext
    <2>1. UNCHANGED runtime
      BY <1>4 DEF AccountNext, CreateToken, DeleteToken, PatchGrant, RevokeGrant, DeleteBot,
                  WriteSetting, DeleteSetting, OperatorNext, EnqueueChecked, Enqueue, SelectDue,
                  BecomeDue, Respond, Expire, RetireQuestion, CallNext, CommandChecked,
                  PostCommand, Ack, ExpireCommands, PostResult, PostLocalMessage, ForgetRequest
    <2> QED BY <1>1, <2>1 DEF runtime
  <1>5. CASE Receive
    BY <1>1, <1>2, <1>5 DEF Receive
  <1>6. ASSUME NEW s \in wire, Push(s) PROVE HandledInv'
    BY <1>2, <1>6 DEF Push
  <1>7. CASE \/ Age \/ PruneLog \/ SyncList \/ SyncCount \/ SyncJudge \/ Start \/ Connect
             \/ Disconnect \/ Reconnect \/ Stop \/ SyncFails \/ \E s \in wire : Lose(s)
    BY <1>1, <1>7 DEF Age, PruneLog, SyncList, SyncCount, SyncJudge, Start, Connect, Disconnect,
                      Reconnect, Stop, SyncFails, Lose, KeepRuntime, runtime
  <1>8. CASE UNCHANGED vars
    BY <1>1, <1>8 DEF vars, runtime
  <1> QED BY <1>3, <1>4, <1>5, <1>6, <1>7, <1>8 DEF Next, ChannelNext

\* A command that is pushed, listed by a sync and listed again after a restart
\* runs once, and again only when a record of a command has expired in between
\* (handleBotChannelEvent of packages/bot), for any number of commands.
THEOREM HandledIsOnce == Spec => []HandledOnce
  <1>1. Spec => []HandledInv
    BY HandledInit, HandledNext, PTL DEF Spec
  <1>2. HandledInv => HandledOnce
    BY DEF HandledInv, HandledOnce
  <1> QED BY <1>1, <1>2, PTL

(***************************************************************************)
(* The types.  A command that has passed the checks of its route is a      *)
(* ticket for a row: the rows and the tickets are never more than the      *)
(* calls, and an event about a command, a list of a sync and the runtime's *)
(* record name only commands that have a row.                              *)
(***************************************************************************)

Tickets == UNION {{k} \X (1..posting[k]) : k \in Keys \cup {NoKey}}

\* The commands and what there is to become one.
CommandInv ==
  /\ commands \in Seq(Command)
  /\ posting \in [Keys \cup {NoKey} -> Nat]
  /\ made \in 0..MaxCalls
  /\ IsFiniteSet(Tickets)
  /\ Len(commands) + Cardinality(Tickets) <= made

\* What a step does to them: a call is made, checked or not, a command is
\* posted or refused, or rows are updated.
CommandStep ==
  \/ /\ UNCHANGED <<commands, posting>>
     /\ made' = made \/ Call
  \/ /\ commands' = commands /\ Call
     /\ \E k \in Keys \cup {NoKey} : posting' = [posting EXCEPT ![k] = @ + 1]
  \/ /\ made' = made
     /\ commands' = commands \/ commands' = Append(commands, NewCommand)
     /\ \E k \in Keys \cup {NoKey} : posting[k] > 0 /\ posting' = [posting EXCEPT ![k] = @ - 1]
  \/ /\ posting' = posting
     /\ made' = made \/ Call
     /\ commands' \in Seq(Command) /\ Len(commands') = Len(commands)

\* The updates of rows: a command is acked, has its result, or expires.
Updated(q, c) ==
  \/ q = [commands EXCEPT ![c].acked = TRUE]
  \/ q = [commands EXCEPT ![c].result = TRUE]
  \/ q = [d \in DOMAIN commands |->
            IF d <= c /\ ~commands[d].acked
              THEN [commands[d] EXCEPT !.expired = TRUE] ELSE commands[d]]

\* They keep the type of the rows.
LEMMA CommandUpdates ==
  ASSUME commands \in Seq(Command), NEW c \in DOMAIN commands, NEW q, Updated(q, c)
  PROVE  q \in Seq(Command) /\ Len(q) = Len(commands)
  <1>1. DOMAIN commands = 1..Len(commands) /\ Len(commands) \in Nat
    BY LenProperties
  <1>2. \A d \in 1..Len(commands) : commands[d] \in Command
    BY ElementOfSeq
  <1>3. \A d \in 1..Len(commands) :
          /\ [commands[d] EXCEPT !.acked = TRUE] \in Command
          /\ [commands[d] EXCEPT !.result = TRUE] \in Command
          /\ [commands[d] EXCEPT !.expired = TRUE] \in Command
    BY <1>2 DEF Command
  <1>4. ASSUME NEW r \in Command, q = [commands EXCEPT ![c] = r]
        PROVE  q \in Seq(Command) /\ Len(q) = Len(commands)
    BY <1>1, <1>4, ExceptSeq
  <1>5. CASE q = [commands EXCEPT ![c].acked = TRUE]
    <2>1. q = [commands EXCEPT ![c] = [commands[c] EXCEPT !.acked = TRUE]]
      BY <1>5
    <2> QED BY <1>1, <1>3, <1>4, <2>1
  <1>6. CASE q = [commands EXCEPT ![c].result = TRUE]
    <2>1. q = [commands EXCEPT ![c] = [commands[c] EXCEPT !.result = TRUE]]
      BY <1>6
    <2> QED BY <1>1, <1>3, <1>4, <2>1
  <1>7. CASE q = [d \in DOMAIN commands |->
                   IF d <= c /\ ~commands[d].acked
                     THEN [commands[d] EXCEPT !.expired = TRUE] ELSE commands[d]]
    <2>1. q \in [1..Len(commands) -> Command]
      BY <1>1, <1>2, <1>3, <1>7
    <2>2. q \in Seq(Command)
      BY <1>1, <2>1, SeqDef
    <2>3. 1..Len(q) = 1..Len(commands) /\ Len(q) \in Nat
      BY <2>1, <2>2, LenProperties
    <2> QED BY <1>1, <2>2, <2>3
  <1> QED BY <1>5, <1>6, <1>7 DEF Updated

\* Every step is one of these.
LEMMA CommandSteps ==
  ASSUME CommandInv, [Next]_vars
  PROVE  CommandStep
  <1> USE DEF CommandStep
  <1>1. CASE AccountNext
    BY <1>1 DEF AccountNext, CreateToken, DeleteToken, PatchGrant, RevokeGrant, DeleteBot,
                WriteSetting, DeleteSetting, calls
  <1>2. CASE OperatorNext
    BY <1>2 DEF OperatorNext, EnqueueChecked, Enqueue, SelectDue, BecomeDue, Respond, Expire,
                RetireQuestion, calls
  <1>3. ASSUME NEW k \in Keys \cup {NoKey}, CommandChecked(k) \/ PostCommand(k)
        PROVE  CommandStep
    BY <1>3 DEF CommandChecked, PostCommand
  <1>4. ASSUME NEW c \in DOMAIN commands, NEW k \in Keys \cup {NoKey},
               Ack(c) \/ ExpireCommands(c) \/ PostResult(c, k)
        PROVE  CommandStep
    <2>1. Updated(commands', c)
      BY <1>4 DEF Ack, ExpireCommands, PostResult, Updated
    <2>2. commands' \in Seq(Command) /\ Len(commands') = Len(commands)
      BY <2>1, CommandUpdates DEF CommandInv
    <2>3. posting' = posting /\ (made' = made \/ Call)
      BY <1>4 DEF Ack, ExpireCommands, PostResult
    <2> QED BY <2>2, <2>3
  <1>5. ASSUME NEW k \in Keys, PostLocalMessage(k) \/ ForgetRequest(k)
        PROVE  CommandStep
    BY <1>5 DEF PostLocalMessage, ForgetRequest
  <1>6. CASE ChannelNext
    BY <1>6 DEF ChannelNext, Age, PruneLog, SyncList, SyncCount, SyncJudge, Start, Connect,
                Disconnect, Reconnect, Stop, Receive, SyncFails, Push, Lose, ForgetSeen,
                KeepServer, KeepRuntime, calls
  <1>7. CASE UNCHANGED vars
    BY <1>7 DEF vars, calls
  <1> QED BY <1>1, <1>2, <1>3, <1>4, <1>5, <1>6, <1>7 DEF Next, CallNext

\* A ticket more, or a ticket less.
LEMMA TicketCount ==
  ASSUME posting \in [Keys \cup {NoKey} -> Nat], IsFiniteSet(Tickets), NEW k \in Keys \cup {NoKey}
  PROVE  /\ posting' = [posting EXCEPT ![k] = @ + 1] =>
              IsFiniteSet(Tickets') /\ Cardinality(Tickets') = Cardinality(Tickets) + 1
         /\ posting[k] > 0 /\ posting' = [posting EXCEPT ![k] = @ - 1] =>
              IsFiniteSet(Tickets') /\ Cardinality(Tickets') + 1 = Cardinality(Tickets)
  <1>1. ASSUME NEW f \in [Keys \cup {NoKey} -> Nat], NEW g \in [Keys \cup {NoKey} -> Nat],
               g = [f EXCEPT ![k] = f[k] + 1]
        PROVE  LET F == UNION {{j} \X (1..f[j]) : j \in Keys \cup {NoKey}}
                   G == UNION {{j} \X (1..g[j]) : j \in Keys \cup {NoKey}}
               IN  /\ IsFiniteSet(F) => IsFiniteSet(G) /\ Cardinality(G) = Cardinality(F) + 1
                   /\ IsFiniteSet(G) => IsFiniteSet(F)
    <2> DEFINE F == UNION {{j} \X (1..f[j]) : j \in Keys \cup {NoKey}}
               G == UNION {{j} \X (1..g[j]) : j \in Keys \cup {NoKey}}
               t == <<k, f[k] + 1>>
    <2>1. g[k] = f[k] + 1 /\ f[k] \in Nat /\ \A j \in Keys \cup {NoKey} : j # k => g[j] = f[j]
      BY <1>1
    <2>2. 1..(f[k] + 1) = (1..f[k]) \cup {f[k] + 1}
      BY <2>1
    <2>3. G = F \cup {t}
      <3>1. \A x : x \in G <=> \E j \in Keys \cup {NoKey} : x \in {j} \X (1..g[j])
        OBVIOUS
      <3>2. \A x : x \in F <=> \E j \in Keys \cup {NoKey} : x \in {j} \X (1..f[j])
        OBVIOUS
      <3>3. {k} \X (1..g[k]) = ({k} \X (1..f[k])) \cup {t}
        BY <2>1, <2>2
      <3> HIDE DEF F, G, t
      <3> QED BY <2>1, <3>1, <3>2, <3>3
    <2>4. t \notin F
      BY <2>1
    <2> HIDE DEF t, F, G
    <2>5. IsFiniteSet(F) => IsFiniteSet(G) /\ Cardinality(G) = Cardinality(F) + 1
      BY <2>3, <2>4, FS_AddElement
    <2>6. IsFiniteSet(G) => IsFiniteSet(F)
      <3>1. F \subseteq G
        BY <2>3
      <3> QED BY <3>1, FS_Subset
    <2> QED BY <2>5, <2>6 DEF F, G
  <1>2. ASSUME posting' = [posting EXCEPT ![k] = @ + 1]
        PROVE  IsFiniteSet(Tickets') /\ Cardinality(Tickets') = Cardinality(Tickets) + 1
    <2>1. posting' \in [Keys \cup {NoKey} -> Nat] /\ posting' = [posting EXCEPT ![k] = posting[k] + 1]
      BY <1>2
    <2> QED BY <1>1, <2>1 DEF Tickets
  <1>3. ASSUME posting[k] > 0, posting' = [posting EXCEPT ![k] = @ - 1]
        PROVE  IsFiniteSet(Tickets') /\ Cardinality(Tickets') + 1 = Cardinality(Tickets)
    <2>0. posting[k] \in Nat /\ posting[k] - 1 \in Nat /\ (posting[k] - 1) + 1 = posting[k]
      BY <1>3
    <2>1. /\ posting' \in [Keys \cup {NoKey} -> Nat] /\ posting'[k] = posting[k] - 1
          /\ posting = [posting' EXCEPT ![k] = (posting[k] - 1) + 1]
      BY <1>3, <2>0
    <2>2. posting = [posting' EXCEPT ![k] = posting'[k] + 1]
      BY <2>1
    <2> QED BY <1>1, <2>1, <2>2 DEF Tickets
  <1> QED BY <1>2, <1>3

\* There are no more commands than calls: every step keeps that.
LEMMA CommandNext == CommandInv /\ [Next]_vars => CommandInv'
  <1> SUFFICES ASSUME CommandInv, [Next]_vars PROVE CommandInv'
    OBVIOUS
  <1>0. /\ Len(commands) \in Nat /\ Cardinality(Tickets) \in Nat /\ made \in 0..MaxCalls
        /\ MaxCalls \in Nat /\ Len(commands) + Cardinality(Tickets) <= made
        /\ commands \in Seq(Command) /\ posting \in [Keys \cup {NoKey} -> Nat] /\ IsFiniteSet(Tickets)
    BY LenProperties, FS_CardinalityType, BotsAssumption DEF CommandInv
  <1>1. Call => made' = made + 1 /\ made' \in 0..MaxCalls
    BY <1>0 DEF Call
  <1>2. CommandStep
    BY CommandSteps
  <1>3. CASE UNCHANGED <<commands, posting>> /\ (made' = made \/ Call)
    <2>1. Tickets' = Tickets
      BY <1>3 DEF Tickets
    <2> QED BY <1>0, <1>1, <1>3, <2>1 DEF CommandInv
  <1>4. ASSUME commands' = commands, Call, NEW k \in Keys \cup {NoKey},
               posting' = [posting EXCEPT ![k] = @ + 1]
        PROVE  CommandInv'
    <2>1. IsFiniteSet(Tickets') /\ Cardinality(Tickets') = Cardinality(Tickets) + 1
      BY <1>0, <1>4, TicketCount
    <2>2. posting' \in [Keys \cup {NoKey} -> Nat]
      BY <1>0, <1>4
    <2> QED BY <1>0, <1>1, <1>4, <2>1, <2>2 DEF CommandInv
  <1>5. ASSUME made' = made, commands' = commands \/ commands' = Append(commands, NewCommand),
               NEW k \in Keys \cup {NoKey}, posting[k] > 0, posting' = [posting EXCEPT ![k] = @ - 1]
        PROVE  CommandInv'
    <2>1. IsFiniteSet(Tickets') /\ Cardinality(Tickets') + 1 = Cardinality(Tickets)
      BY <1>0, <1>5, TicketCount
    <2>2. posting' \in [Keys \cup {NoKey} -> Nat]
      BY <1>0, <1>5
    <2>3. NewCommand \in Command
      BY DEF NewCommand, Command
    <2>4. commands' \in Seq(Command) /\ Len(commands') <= Len(commands) + 1 /\ Len(commands') \in Nat
      BY <1>0, <1>5, <2>3, AppendProperties
    <2>5. Cardinality(Tickets') \in Nat
      BY <2>1, FS_CardinalityType
    <2> QED BY <1>0, <1>5, <2>1, <2>2, <2>4, <2>5 DEF CommandInv
  <1>6. CASE /\ posting' = posting /\ (made' = made \/ Call)
             /\ commands' \in Seq(Command) /\ Len(commands') = Len(commands)
    <2>1. Tickets' = Tickets
      BY <1>6 DEF Tickets
    <2> QED BY <1>0, <1>1, <1>6, <2>1 DEF CommandInv
  <1> QED BY <1>2, <1>3, <1>4, <1>5, <1>6 DEF CommandStep

\* No request_id has more tickets than there are calls.
LEMMA CommandBounds ==
  ASSUME CommandInv
  PROVE  Len(commands) \in 0..MaxCalls /\ posting \in [Keys \cup {NoKey} -> 0..MaxCalls]
  <1>1. /\ Len(commands) \in Nat /\ Cardinality(Tickets) \in Nat /\ made \in 0..MaxCalls
        /\ MaxCalls \in Nat /\ Len(commands) + Cardinality(Tickets) <= made
    BY LenProperties, FS_CardinalityType, BotsAssumption DEF CommandInv
  <1>2. ASSUME NEW k \in Keys \cup {NoKey} PROVE posting[k] \in 0..MaxCalls
    <2>1. posting[k] \in Nat /\ IsFiniteSet(Tickets)
      BY DEF CommandInv
    <2> DEFINE f == [n \in 1..posting[k] |-> <<k, n>>]
    <2>2. IsFiniteSet(1..posting[k]) /\ Cardinality(1..posting[k]) = posting[k]
      BY <2>1, FS_Interval, SMTT(60)
    <2>3. f \in Injection(1..posting[k], Tickets)
      BY DEF Injection, IsInjective, Tickets
    <2>4. Cardinality(1..posting[k]) <= Cardinality(Tickets)
      BY <2>1, <2>2, <2>3, FS_Injection
    <2> QED BY <1>1, <2>1, <2>2, <2>4
  <1> QED BY <1>1, <1>2 DEF CommandInv

\* What names commands.
NameInv ==
  /\ events \in Seq(Event)
  /\ \A s \in 1..Len(events) : events[s].kind = "command" => events[s].of \in 1..Len(commands)
  /\ old \in 0..Len(events)
  /\ sync.stage \in {"listed", "counted", "answered"} => sync.list \subseteq 1..Len(events)
  /\ seen \subseteq 1..Len(commands)

\* A step numbers no event, one that names no command, or that of a command
\* posted by it.
EventStep ==
  \/ events' = events
  \/ \E e \in Event : e.kind # "command" /\ events' = Append(events, e)
  \/ /\ commands' = Append(commands, NewCommand)
     /\ events' = Append(events, [kind |-> "command", of |-> Len(commands) + 1])

\* Every step does one of these.
LEMMA EventSteps ==
  ASSUME [Next]_vars
  PROVE  EventStep
  <1> USE DEF EventStep
  <1>1. CASE AccountNext
    <2>1. [kind |-> "settings", of |-> None] \in Event
      BY DEF Event
    <2> QED BY <1>1, <2>1 DEF AccountNext, CreateToken, DeleteToken, PatchGrant, RevokeGrant,
                              DeleteBot, WriteSetting, DeleteSetting, Emit, channel
  <1>2. CASE OperatorNext
    <2>1. ASSUME NEW r \in Requests, TellBot(r) PROVE EventStep
      <3>1. [kind |-> "response", of |-> r] \in Event
        BY DEF Event
      <3> QED BY <2>1, <3>1 DEF TellBot, Emit
    <2>2. ASSUME NEW r \in Requests, Respond(r) \/ Expire(r) PROVE EventStep
      BY <2>1, <2>2 DEF Respond, Expire, channel
    <2> QED BY <1>2, <2>2 DEF OperatorNext, EnqueueChecked, Enqueue, SelectDue, BecomeDue,
                              RetireQuestion, channel
  <1>3. CASE CallNext
    BY <1>3 DEF CallNext, CommandChecked, PostCommand, Ack, ExpireCommands, PostResult,
                PostLocalMessage, ForgetRequest, Emit, channel
  <1>4. CASE ChannelNext
    BY <1>4 DEF ChannelNext, Age, PruneLog, SyncList, SyncCount, SyncJudge, Start, Connect,
                Disconnect, Reconnect, Stop, Receive, SyncFails, Push, Lose, ForgetSeen,
                KeepServer, channel
  <1>5. CASE UNCHANGED vars
    BY <1>5 DEF vars, channel
  <1> QED BY <1>1, <1>2, <1>3, <1>4, <1>5 DEF Next

\* Commands are never taken back.
LEMMA CommandsStay ==
  ASSUME CommandInv, [Next]_vars
  PROVE  Len(commands) \in Nat /\ Len(commands') \in Nat /\ Len(commands) <= Len(commands')
  <1>1. commands \in Seq(Command) /\ NewCommand \in Command
    BY DEF CommandInv, NewCommand, Command
  <1>2. Len(commands) \in Nat /\ Len(Append(commands, NewCommand)) = Len(commands) + 1
    BY <1>1, LenProperties, AppendProperties
  <1>3. Len(commands') = Len(commands) \/ Len(commands') = Len(commands) + 1
    BY <1>2, CommandSteps DEF CommandStep
  <1> QED BY <1>2, <1>3

\* What names commands names those that have a row: every step keeps that.
LEMMA NameNext == CommandInv /\ AnswerInv /\ NameInv /\ [Next]_vars => NameInv'
  <1> SUFFICES ASSUME CommandInv, AnswerInv, NameInv, [Next]_vars PROVE NameInv'
    OBVIOUS
  <1>1. Len(commands) \in Nat /\ Len(commands') \in Nat /\ Len(commands) <= Len(commands')
    BY CommandsStay
  <1>2. Len(events) \in Nat /\ events \in Seq(Event)
    BY LenProperties DEF NameInv
  <1>3. MaxCalls \in Nat /\ Len(commands') \in 0..MaxCalls
    <2>1. /\ IsFiniteSet(Tickets') /\ made' \in 0..MaxCalls
          /\ Len(commands') + Cardinality(Tickets') <= made'
      BY CommandNext DEF CommandInv
    <2>2. Cardinality(Tickets') \in Nat /\ MaxCalls \in Nat
      BY <2>1, FS_CardinalityType, BotsAssumption
    <2> QED BY <1>1, <2>1, <2>2
  <1>4. /\ events' \in Seq(Event) /\ Len(events') \in Nat /\ Len(events) <= Len(events')
        /\ \A s \in 1..Len(events') : events'[s].kind = "command" => events'[s].of \in 1..Len(commands')
    <2>1. ASSUME NEW e \in Event, events' = Append(events, e),
                 e.kind = "command" => e.of \in 1..Len(commands')
          PROVE  /\ events' \in Seq(Event) /\ Len(events') \in Nat /\ Len(events) <= Len(events')
                 /\ \A s \in 1..Len(events') :
                      events'[s].kind = "command" => events'[s].of \in 1..Len(commands')
      <3>1. /\ events' \in Seq(Event) /\ Len(events') = Len(events) + 1 /\ events'[Len(events) + 1] = e
            /\ \A s \in 1..Len(events) : events'[s] = events[s]
        BY <1>2, <2>1, AppendProperties
      <3>2. \A s \in 1..(Len(events) + 1) : s \in 1..Len(events) \/ s = Len(events) + 1
        BY <1>2
      <3>3. 1..Len(commands) \subseteq 1..Len(commands')
        BY <1>1
      <3> QED BY <1>2, <2>1, <3>1, <3>2, <3>3 DEF NameInv
    <2>2. CASE events' = events
      <3>1. 1..Len(commands) \subseteq 1..Len(commands')
        BY <1>1
      <3> QED BY <1>2, <2>2, <3>1 DEF NameInv
    <2>3. CASE \E e \in Event : e.kind # "command" /\ events' = Append(events, e)
      BY <2>1, <2>3
    <2>4. CASE /\ commands' = Append(commands, NewCommand)
               /\ events' = Append(events, [kind |-> "command", of |-> Len(commands) + 1])
      <3> DEFINE e == [kind |-> "command", of |-> Len(commands) + 1]
      <3>1. Len(commands') = Len(commands) + 1
        BY <2>4, AppendProperties DEF CommandInv, NewCommand, Command
      <3>2. Len(commands) + 1 \in 1..MaxCalls /\ Len(commands) + 1 \in 1..Len(commands')
        BY <1>1, <1>3, <3>1
      <3>3. e \in Event /\ e.of \in 1..Len(commands')
        BY <3>2 DEF Event
      <3> HIDE DEF e
      <3>4. events' = Append(events, e)
        BY <2>4 DEF e
      <3> QED BY <2>1, <3>3, <3>4
    <2> QED BY <2>2, <2>3, <2>4, EventSteps DEF EventStep
  <1>5. old' \in 0..Len(events')
    <2>1. old' = old \/ (old < Len(events) /\ old' = old + 1)
      <3>1. CASE AccountNext \/ OperatorNext
        BY <3>1 DEF AccountNext, CreateToken, DeleteToken, PatchGrant, RevokeGrant, DeleteBot,
                    WriteSetting, DeleteSetting, OperatorNext, EnqueueChecked, Enqueue, SelectDue,
                    BecomeDue, Respond, Expire, RetireQuestion, TellBot, Emit, channel
      <3>2. CASE CallNext
        BY <3>2 DEF CallNext, CommandChecked, PostCommand, Ack, ExpireCommands, PostResult,
                    PostLocalMessage, ForgetRequest, Emit, channel
      <3>3. CASE ChannelNext
        BY <3>3 DEF ChannelNext, Age, PruneLog, SyncList, SyncCount, SyncJudge, Start, Connect,
                    Disconnect, Reconnect, Stop, Receive, SyncFails, Push, Lose, ForgetSeen,
                    KeepServer, channel
      <3>4. CASE UNCHANGED vars
        BY <3>4 DEF vars, channel
      <3> QED BY <3>1, <3>2, <3>3, <3>4 DEF Next
    <2> QED BY <1>2, <1>4, <2>1 DEF NameInv
  <1>6. ASSUME NEW S \in SUBSET (1..Len(events)) PROVE CommandsIn(S) \subseteq 1..Len(commands)
    BY DEF NameInv, CommandsIn
  <1>7. log \subseteq 1..Len(events) /\ wire \subseteq 1..Len(events)
    BY DEF AnswerInv, LogInv
  <1>8. /\ seen' \subseteq 1..Len(commands)
        /\ sync'.stage \in {"listed", "counted", "answered"} => sync'.list \subseteq 1..Len(events)
    <2> DEFINE Goal == /\ seen' \subseteq 1..Len(commands)
                       /\ sync'.stage \in {"listed", "counted", "answered"} =>
                            sync'.list \subseteq 1..Len(events)
    <2>0. /\ seen \subseteq 1..Len(commands)
          /\ sync.stage \in {"listed", "counted", "answered"} => sync.list \subseteq 1..Len(events)
      BY DEF NameInv
    <2>1. CASE AccountNext \/ OperatorNext \/ CallNext
      <3>1. UNCHANGED runtime
        BY <2>1 DEF AccountNext, CreateToken, DeleteToken, PatchGrant, RevokeGrant, DeleteBot,
                    WriteSetting, DeleteSetting, OperatorNext, EnqueueChecked, Enqueue, SelectDue,
                    BecomeDue, Respond, Expire, RetireQuestion, CallNext, CommandChecked,
                    PostCommand, Ack, ExpireCommands, PostResult, PostLocalMessage, ForgetRequest
      <3> QED BY <2>0, <3>1 DEF runtime
    <2>2. CASE Age \/ PruneLog \/ Connect \/ (\E s \in wire : Lose(s)) \/ (\E c \in seen : ForgetSeen(c))
      <3>1. sync' = sync /\ seen' \subseteq seen
        BY <2>2 DEF Age, PruneLog, Connect, Lose, ForgetSeen, runtime
      <3> QED BY <2>0, <3>1
    <2>3. CASE Start \/ Disconnect \/ Reconnect \/ Stop \/ SyncFails
      <3>1. seen' = seen /\ (sync' = Idle \/ \E n : Ask(n))
        BY <2>3 DEF Start, Disconnect, Reconnect, Stop, SyncFails
      <3>2. sync'.stage \in {"idle", "asked"}
        BY <3>1 DEF Idle, Ask
      <3> QED BY <2>0, <3>1, <3>2
    <2>4. CASE SyncList \/ SyncCount \/ SyncJudge
      <3>1. seen' = seen
        BY <2>4 DEF SyncList, SyncCount, SyncJudge, KeepRuntime
      <3>2. \/ sync'.list = {s \in log : s > sync.since}
            \/ sync.stage \in {"listed", "counted"} /\ sync'.list = sync.list
        BY <2>4 DEF SyncList, SyncCount, SyncJudge
      <3> QED BY <1>7, <2>0, <3>1, <3>2
    <2>5. CASE Receive
      <3>1. sync' = Idle \/ Ask(0)
        BY <2>5 DEF Receive
      <3>2. sync'.stage \in {"idle", "asked"}
        BY <3>1 DEF Idle, Ask
      <3>3. sync.list \in SUBSET (1..Len(events))
        BY <2>0, <2>5 DEF Receive
      <3>4. seen' = seen \/ seen' = seen \cup CommandsIn(sync.list)
        BY <2>5 DEF Receive, Dispatch
      <3> QED BY <1>6, <2>0, <3>2, <3>3, <3>4
    <2>6. ASSUME NEW s \in wire, Push(s) PROVE Goal
      <3>1. sync' = sync /\ seen' = seen \cup CommandsIn({s})
        BY <2>6 DEF Push, Dispatch
      <3>2. {s} \in SUBSET (1..Len(events))
        BY <1>7
      <3> QED BY <1>6, <2>0, <3>1, <3>2
    <2>7. CASE UNCHANGED vars
      BY <2>0, <2>7 DEF vars, runtime
    <2> QED BY <2>1, <2>2, <2>3, <2>4, <2>5, <2>6, <2>7 DEF Next, ChannelNext
  <1>9. 1..Len(commands) \subseteq 1..Len(commands') /\ 1..Len(events) \subseteq 1..Len(events')
    BY <1>1, <1>2, <1>4
  <1> QED BY <1>4, <1>5, <1>8, <1>9 DEF NameInv

\* The account, and what the routes and the jobs have in hand.
PlainInv ==
  /\ live \in BOOLEAN /\ tokens \in 0..MaxTokens
  /\ scopes \in (SUBSET Scopes) \cup {None}
  /\ setting \in Values \cup {None}
  /\ enqueuing \subseteq Question /\ expiring \subseteq Requests
  /\ conn \in {"down", "booting", "on", "off"}

\* Every step keeps the types of these.
LEMMA PlainNext == PlainInv /\ [Next]_vars => PlainInv'
  <1> SUFFICES ASSUME PlainInv, [Next]_vars PROVE PlainInv'
    OBVIOUS
  <1> USE DEF PlainInv
  <1>0. MaxTokens \in Nat /\ Questions \subseteq Question
    BY BotsAssumption DEF Question
  <1>1. CASE AccountNext
    <2>1. UNCHANGED <<enqueuing, expiring, conn>>
      BY <1>1 DEF AccountNext, CreateToken, DeleteToken, PatchGrant, RevokeGrant, DeleteBot,
                  WriteSetting, DeleteSetting, operators, runtime
    <2>2. /\ live' \in BOOLEAN
          /\ scopes' \in (SUBSET Scopes) \cup {None}
          /\ setting' \in Values \cup {None}
      BY <1>1 DEF AccountNext, CreateToken, DeleteToken, PatchGrant, RevokeGrant, DeleteBot,
                  WriteSetting, DeleteSetting
    <2>3. tokens' \in 0..MaxTokens
      <3>1. \/ tokens' = tokens \/ tokens' = 0
            \/ tokens < MaxTokens /\ tokens' = tokens + 1
            \/ tokens > 0 /\ tokens' = tokens - 1
        BY <1>1 DEF AccountNext, CreateToken, DeleteToken, PatchGrant, RevokeGrant, DeleteBot,
                    WriteSetting, DeleteSetting
      <3> QED BY <1>0, <3>1
    <2> QED BY <2>1, <2>2, <2>3
  <1>2. CASE OperatorNext
    <2>1. UNCHANGED <<account, conn>>
      BY <1>2 DEF OperatorNext, EnqueueChecked, Enqueue, SelectDue, BecomeDue, Respond, Expire,
                  RetireQuestion, runtime
    <2>2. enqueuing' \subseteq Question /\ expiring' \subseteq Requests
      BY <1>0, <1>2 DEF OperatorNext, EnqueueChecked, Enqueue, SelectDue, BecomeDue, Respond, Expire,
                        RetireQuestion
    <2> QED BY <2>1, <2>2 DEF account
  <1>3. CASE CallNext
    BY <1>3 DEF CallNext, CommandChecked, PostCommand, Ack, ExpireCommands, PostResult,
                PostLocalMessage, ForgetRequest, account, operators, runtime
  <1>4. CASE ChannelNext
    <2>1. UNCHANGED <<account, enqueuing, expiring>>
      BY <1>4 DEF ChannelNext, Age, PruneLog, SyncList, SyncCount, SyncJudge, Start, Connect,
                  Disconnect, Reconnect, Stop, Receive, SyncFails, Push, Lose, ForgetSeen,
                  KeepServer, operators
    <2>2. conn' \in {"down", "booting", "on", "off"}
      BY <1>4 DEF ChannelNext, Age, PruneLog, SyncList, SyncCount, SyncJudge, Start, Connect,
                  Disconnect, Reconnect, Stop, Receive, SyncFails, Push, Lose, ForgetSeen,
                  KeepRuntime, runtime
    <2> QED BY <2>1, <2>2 DEF account
  <1>5. CASE UNCHANGED vars
    BY <1>5 DEF vars, account, operators, runtime
  <1> QED BY <1>1, <1>2, <1>3, <1>4, <1>5 DEF Next

\* Everything above, taken together.
TypeInv == OutcomeInv /\ RequestInv /\ AnswerInv /\ CommandInv /\ NameInv /\ PlainInv

\* It holds at the start,
LEMMA TypeInit == Init => TypeInv
  <1> SUFFICES ASSUME Init PROVE TypeInv
    OBVIOUS
  <1>1. CommandInv
    <2>1. Tickets = {}
      BY DEF Tickets, Init
    <2>2. commands \in Seq(Command) /\ Len(commands) = 0
      BY EmptySeq DEF Init
    <2>3. posting \in [Keys \cup {NoKey} -> Nat] /\ made = 0
      BY DEF Init
    <2> QED BY <2>1, <2>2, <2>3, FS_EmptySet, BotsAssumption DEF CommandInv
  <1>2. NameInv
    <2>1. events \in Seq(Event) /\ Len(events) = 0 /\ sync.stage = "idle" /\ seen = {} /\ old = 0
      BY EmptySeq DEF Init, Idle
    <2> QED BY <2>1 DEF NameInv
  <1>3. PlainInv
    BY BotsAssumption DEF Init, PlainInv
  <1> QED BY <1>1, <1>2, <1>3, OutcomeInit, RequestInit, AnswerInit DEF TypeInv

\* Every variable stays within its type: there are no more commands than calls,
\* a retained event has a number, and the runtime's record names only commands
\* that have a row (routes/bots.rs, room_bots.rs, packages/bot).
THEOREM TypeCorrect == Spec => []TypeOK
  <1>1. Spec => []TypeInv
    <2>1. TypeInv /\ [Next]_vars => TypeInv'
      BY OutcomeNext, RequestNext, AnswerNext, CommandNext, NameNext, PlainNext DEF TypeInv
    <2> QED BY TypeInit, <2>1, PTL DEF Spec
  <1>2. ASSUME TypeInv PROVE TypeOK
    <2>1. Len(commands) \in 0..MaxCalls /\ posting \in [Keys \cup {NoKey} -> 0..MaxCalls]
      BY <1>2, CommandBounds DEF TypeInv
    <2>2. DOMAIN commands = 1..Len(commands) /\ DOMAIN events = 1..Len(events)
      BY <1>2, LenProperties DEF TypeInv, CommandInv, NameInv
    <2>3. Len(commands) <= MaxCalls
      BY <2>1, BotsAssumption
    <2> QED BY <1>2, <2>1, <2>2, <2>3
            DEF TypeInv, TypeOK, OutcomeInv, QueueTyped, RequestInv, AnswerInv, LogInv, SyncInv,
                CommandInv, NameInv, PlainInv
  <1> QED BY <1>1, <1>2, PTL

=============================================================================
