---------------------------- MODULE RoomSessions ----------------------------
(***************************************************************************)
(* The sessions of one room: the rows of room_sessions (sessions/crud.rs), *)
(* the in-memory map of who takes part in which (sessions/occupancy.rs),   *)
(* the job that drops silent participants (sessions/cleanup.rs) and the    *)
(* debounced events that tell the room's members how many take part.       *)
(*                                                                         *)
(* The map is behind one lock: what a handler does under it is one step.   *)
(* A handler checks membership and the row first, in the database, and     *)
(* takes the lock afterwards.  A publication starts after the lock is      *)
(* released, in a task of its own: it may fail, and one may overtake       *)
(* another.  A restart of the server empties the map and keeps the rows.   *)
(***************************************************************************)
EXTENDS Integers, FiniteSets, SequencesExt

CONSTANTS
  Users,         \* the users that are or may be members of the room
  Clients,       \* their devices' client ids
  UserOf,        \* the user of a client
  Sessions,      \* the session ids that may be created, each once
  RoomOwner,     \* rooms.owner_id
  Moderators,    \* members with the role "moderator"
  Discord,       \* moderation_mode = "discord"
  Joinable,      \* bound: the sessions that clients call
  Cap,           \* max_participants of the session type
  MaxPerRoom,    \* max_per_room and server_max_sessions_per_room
  NoRow,         \* a session that has no row
  NoEntry,       \* a session that is not in the map
  NoCall,        \* a client or user without a request in flight
  Starts,        \* bound: the ids given out and the joins counted beforehand
  MaxJoins,      \* bound on the joins
  MaxOthers      \* bound on patches, membership changes and restarts together

ASSUME RoomSessionsAssumption ==
  /\ UserOf \in [Clients -> Users]
  /\ Sessions \subseteq Nat
  /\ Joinable \subseteq Sessions
  /\ RoomOwner \in Users
  /\ Moderators \subseteq Users
  /\ Discord \in BOOLEAN
  /\ Cap \in Nat \ {0}
  /\ NoRow \notin [by : Users, version : Nat, position : Nat]
  /\ NoEntry \notin [clients : SUBSET Clients, fresh : SUBSET Clients,
                     published : Nat, debounce : BOOLEAN]
  /\ Starts \subseteq [created : SUBSET Sessions, joins : Nat]
  /\ {MaxPerRoom, MaxJoins, MaxOthers} \subseteq Nat

VARIABLES
  members,   \* room_members
  created,   \* the session ids given out
  row,       \* room_sessions: creator, metadata_version and position
  entry,     \* the map: clients, those with a fresh heartbeat, the count
             \* published last, whether a debounce task sleeps
  call,      \* per client, the join, leave or heartbeat that passed its checks
  request,   \* per user, the create, patch or delete in flight
  outgoing,  \* per session, the counts being published, in the order begun
  shown,     \* per session, the count that reached the room last
  announced, \* per session, the count whose publication began last (history)
  astray,    \* the sessions of which a publication failed or was overtaken
             \* (history)
  restarted, \* whether the server ever restarted (history)
  joins, others

tables == <<members, created, row>>
published == <<outgoing, shown, announced, astray>>
bounds == <<restarted, joins, others>>
vars == <<tables, entry, call, request, published, bounds>>

Rows == {s \in Sessions : row[s] # NoRow}

\* The users of an entry's participants map.
Taking(e) == {UserOf[c] : c \in e.clients}
Count(e) == Cardinality(Taking(e))

Fresh == [clients |-> {}, fresh |-> {}, published |-> 0, debounce |-> FALSE]

Init ==
  /\ members \in {M \in SUBSET Users : RoomOwner \in M}
  /\ \E start \in Starts : created = start.created /\ joins = start.joins
  /\ row = [s \in Sessions |-> NoRow]
  /\ entry = [s \in Sessions |-> NoEntry]
  /\ call = [c \in Clients |-> NoCall]
  /\ request = [u \in Users |-> NoCall]
  /\ outgoing = [s \in Sessions |-> <<>>]
  /\ shown = [s \in Sessions |-> 0]
  /\ announced = [s \in Sessions |-> 0]
  /\ astray = {}
  /\ restarted = FALSE
  /\ others = 0

-----------------------------------------------------------------------------
(***************************************************************************)
(* The rows.                                                               *)
(***************************************************************************)

\* Positions become 0, 1, 2, ... in the order of position and then id.
Resequenced(rows) ==
  LET Left(s) == {t \in Sessions : rows[t] # NoRow /\
                    (\/ rows[t].position < rows[s].position
                     \/ rows[t].position = rows[s].position /\ t < s)}
  IN  [s \in Sessions |->
         IF rows[s] = NoRow THEN NoRow
         ELSE [rows[s] EXCEPT !.position = Cardinality(Left(s))]]

\* In discord mode a plain member may not create a session.
MayCreate(u) == Discord => u = RoomOwner \/ u \in Moderators

MayChange(u, s) ==
  \/ u = row[s].by
  \/ u = RoomOwner
  \/ Discord /\ u \in Moderators

CreateCheck(u) ==
  /\ request[u] = NoCall
  /\ u \in members /\ MayCreate(u)
  /\ request' = [request EXCEPT ![u] = [op |-> "create"]]
  /\ UNCHANGED <<tables, entry, call, published, bounds>>

\* A position that is not given or too large means the end, a negative one
\* the front; the rows from there on move up by one.
Create(u, s, position) ==
  LET total  == Cardinality(Rows)
      target == IF position >= total THEN total
                ELSE IF position < 0 THEN 0 ELSE position
      moved  == [t \in Sessions |->
                   IF row[t] # NoRow /\ row[t].position >= target
                     THEN [row[t] EXCEPT !.position = @ + 1] ELSE row[t]]
  IN  /\ request[u] # NoCall /\ request[u].op = "create"
      /\ total < MaxPerRoom
      /\ s \notin created
      /\ created' = created \cup {s}
      /\ row' = Resequenced([moved EXCEPT ![s] =
                  [by |-> u, version |-> 1, position |-> target]])
      /\ request' = [request EXCEPT ![u] = NoCall]
      /\ UNCHANGED <<members, entry, call, published, bounds>>

\* The row is read, with its version, before the transaction.
PatchRead(u, s) ==
  /\ others < MaxOthers
  /\ request[u] = NoCall
  /\ u \in members /\ row[s] # NoRow /\ MayChange(u, s)
  /\ request' = [request EXCEPT ![u] =
       [op |-> "patch", session |-> s, version |-> row[s].version,
        position |-> row[s].position]]
  /\ others' = others + 1
  /\ UNCHANGED <<tables, entry, call, published, restarted, joins>>

\* The id is taken out of the list and put back at the target.  A negative
\* target, cast to usize, is larger than any list.
Moved(s, position) ==
  LET rest == Rows \ {s}
      target == IF position < 0 \/ position > Cardinality(rest)
                  THEN Cardinality(rest) ELSE position
      Before(t) == Cardinality({o \in rest : row[o].position < row[t].position})
  IN  [t \in Sessions |->
         IF t = s THEN target
         ELSE IF row[t] = NoRow THEN 0
         ELSE IF Before(t) < target THEN Before(t) ELSE Before(t) + 1]

\* The transaction of a patch that moves the session, changes its metadata, or
\* both.  The new version is the one read before the transaction, plus one.
Patch(u, position, changed) ==
  LET r     == request[u]
      moved == IF position = r.position THEN row
               ELSE [t \in Sessions |->
                       IF row[t] = NoRow THEN NoRow
                       ELSE [row[t] EXCEPT !.position = Moved(r.session, position)[t]]]
  IN  /\ r # NoCall /\ r.op = "patch"
      /\ position # r.position \/ changed
      /\ row[r.session] # NoRow
      /\ row' = Resequenced(IF changed
                  THEN [moved EXCEPT ![r.session].version = r.version + 1] ELSE moved)
      /\ request' = [request EXCEPT ![u] = NoCall]
      /\ UNCHANGED <<members, created, entry, call, published, bounds>>

DeleteRead(u, s) ==
  /\ request[u] = NoCall
  /\ u \in members /\ row[s] # NoRow /\ MayChange(u, s)
  /\ request' = [request EXCEPT ![u] = [op |-> "delete", session |-> s]]
  /\ UNCHANGED <<tables, entry, call, published, bounds>>

\* The rows that are left keep their positions.
DeleteRowUnsequenced(u) ==
  LET r == request[u] IN
  /\ r # NoCall /\ r.op = "delete"
  /\ row' = [row EXCEPT ![r.session] = NoRow]
  /\ request' = [request EXCEPT ![u].op = "teardown"]
  /\ UNCHANGED <<members, created, entry, call, published, bounds>>

\* The transaction of the deletion; the row may be gone by now.
DeleteRow(u) ==
  LET r == request[u] IN
  /\ r # NoCall /\ r.op = "delete"
  /\ row' = Resequenced([row EXCEPT ![r.session] = NoRow])
  /\ request' = [request EXCEPT ![u].op = "teardown"]
  /\ UNCHANGED <<members, created, entry, call, published, bounds>>

\* publish_occupancy_event begins.
Publish(s, count) ==
  /\ outgoing' = [outgoing EXCEPT ![s] = Append(@, count)]
  /\ announced' = [announced EXCEPT ![s] = count]
  /\ UNCHANGED <<shown, astray>>

\* teardown_session: a sleeping task is aborted and zero is published.
Teardown(u) ==
  LET s == request[u].session IN
  /\ request[u] # NoCall /\ request[u].op = "teardown"
  /\ entry' = [entry EXCEPT ![s] = NoEntry]
  /\ IF entry[s] = NoEntry THEN UNCHANGED published ELSE Publish(s, 0)
  /\ request' = [request EXCEPT ![u] = NoCall]
  /\ UNCHANGED <<tables, call, bounds>>

\* A limit is reached, the row is gone (the transaction is rolled back), or
\* the caller went away: before a transaction began or while teardown_session
\* waited for the lock.
RequestFails(u) ==
  /\ request[u] # NoCall
  /\ request' = [request EXCEPT ![u] = NoCall]
  /\ UNCHANGED <<tables, entry, call, published, bounds>>

\* The membership of the room; the map is not told.
LeaveRoom(u) ==
  /\ others < MaxOthers
  /\ u \in members \ {RoomOwner}
  /\ members' = members \ {u}
  /\ others' = others + 1
  /\ UNCHANGED <<created, row, entry, call, request, published, restarted, joins>>

EnterRoom(u) ==
  /\ others < MaxOthers
  /\ u \in Users \ members
  /\ members' = members \cup {u}
  /\ others' = others + 1
  /\ UNCHANGED <<created, row, entry, call, request, published, restarted, joins>>

-----------------------------------------------------------------------------
(***************************************************************************)
(* The map.                                                                *)
(***************************************************************************)

\* What the three endpoints check before they take the lock.
Admitted(c, op, s) ==
  /\ call[c] = NoCall
  /\ UserOf[c] \in members
  /\ row[s] # NoRow
  /\ call' = [call EXCEPT ![c] = [op |-> op, session |-> s]]
  /\ UNCHANGED <<tables, entry, request, published, restarted, others>>

JoinCheck(c, s) ==
  /\ joins < MaxJoins
  /\ joins' = joins + 1
  /\ Admitted(c, "join", s)

LeaveCheck(c, s) == Admitted(c, "leave", s) /\ UNCHANGED joins

HeartbeatCheck(c, s) == Admitted(c, "heartbeat", s) /\ UNCHANGED joins

Calling(c, op) == call[c] # NoCall /\ call[c].op = op

Answered(c) == call' = [call EXCEPT ![c] = NoCall]

\* The comparison with the cap is off by one.
JoinUncapped(c) ==
  LET s == call[c].session
      e == IF entry[s] = NoEntry THEN Fresh ELSE entry[s]
  IN  /\ Calling(c, "join")
      /\ Count(e) <= Cap
      /\ entry' = [entry EXCEPT ![s] =
           [e EXCEPT !.clients = @ \cup {c}, !.fresh = @ \cup {c}, !.debounce = TRUE]]
      /\ Answered(c)
      /\ UNCHANGED <<tables, request, published, bounds>>

Join(c) ==
  LET s == call[c].session
      e == IF entry[s] = NoEntry THEN Fresh ELSE entry[s]
  IN  /\ Calling(c, "join")
      /\ UserOf[c] \in Taking(e) \/ Count(e) < Cap
      /\ entry' = [entry EXCEPT ![s] =
           [e EXCEPT !.clients = @ \cup {c}, !.fresh = @ \cup {c}, !.debounce = TRUE]]
      /\ Answered(c)
      /\ UNCHANGED <<tables, request, published, bounds>>

\* No debounce task is started for those who are dropped.
WithoutNotice(e, gone) ==
  [e EXCEPT !.clients = @ \ gone, !.fresh = @ \ gone]

\* An entry without some clients; a debounce task is started when a user left.
Without(e, gone) ==
  LET left == [e EXCEPT !.clients = @ \ gone, !.fresh = @ \ gone]
  IN  [left EXCEPT !.debounce = @ \/ Taking(left) # Taking(e)]

Leave(c) ==
  LET s == call[c].session IN
  /\ Calling(c, "leave")
  /\ entry' = IF entry[s] = NoEntry THEN entry
              ELSE [entry EXCEPT ![s] = Without(@, {c})]
  /\ Answered(c)
  /\ UNCHANGED <<tables, request, published, bounds>>

Heartbeat(c) ==
  LET s == call[c].session IN
  /\ Calling(c, "heartbeat")
  /\ entry[s] # NoEntry /\ c \in entry[s].clients
  /\ entry' = [entry EXCEPT ![s].fresh = @ \cup {c}]
  /\ Answered(c)
  /\ UNCHANGED <<tables, request, published, bounds>>

\* The session is full, the caller is no participant, or went away.
CallFails(c) ==
  /\ call[c] # NoCall
  /\ Answered(c)
  /\ UNCHANGED <<tables, entry, request, published, bounds>>

\* session_heartbeat_timeout_seconds pass without a heartbeat.
Silent(c, s) ==
  /\ entry[s] # NoEntry /\ c \in entry[s].fresh
  /\ entry' = [entry EXCEPT ![s].fresh = @ \ {c}]
  /\ UNCHANGED <<tables, call, request, published, bounds>>

\* An entry of a deleted session is skipped.
CleanupSkipsDeleted ==
  /\ \E s \in Rows : entry[s] # NoEntry /\ entry[s].clients # entry[s].fresh
  /\ entry' = [s \in Sessions |->
       IF entry[s] = NoEntry \/ row[s] = NoRow THEN entry[s]
       ELSE Without(entry[s], entry[s].clients \ entry[s].fresh)]
  /\ UNCHANGED <<tables, call, request, published, bounds>>

\* cleanup_stale_participants.
Cleanup ==
  /\ \E s \in Sessions : entry[s] # NoEntry /\ entry[s].clients # entry[s].fresh
  /\ entry' = [s \in Sessions |->
       IF entry[s] = NoEntry THEN NoEntry
       ELSE Without(entry[s], entry[s].clients \ entry[s].fresh)]
  /\ UNCHANGED <<tables, call, request, published, bounds>>

\* The empty entry is removed before its count is looked at.
DebounceForgets(s) ==
  LET e == entry[s] IN
  /\ e # NoEntry /\ e.debounce
  /\ entry' = [entry EXCEPT ![s] = IF Count(e) = 0 THEN NoEntry
                 ELSE [e EXCEPT !.debounce = FALSE, !.published = Count(e)]]
  /\ IF Count(e) \in {0, e.published} THEN UNCHANGED published
     ELSE Publish(s, Count(e))
  /\ UNCHANGED <<tables, call, request, bounds>>

\* The task that ensure_debounce has spawned wakes up.
Debounce(s) ==
  LET e == entry[s] IN
  /\ e # NoEntry /\ e.debounce
  /\ entry' = [entry EXCEPT ![s] = IF Count(e) = 0 THEN NoEntry
                 ELSE [e EXCEPT !.debounce = FALSE, !.published = Count(e)]]
  /\ IF Count(e) = e.published THEN UNCHANGED published
     ELSE Publish(s, Count(e))
  /\ UNCHANGED <<tables, call, request, bounds>>

\* A publication arrives, in any order: each runs in a task of its own.
Deliver(s) ==
  \E i \in DOMAIN outgoing[s] :
    /\ shown' = [shown EXCEPT ![s] = outgoing[s][i]]
    /\ outgoing' = [outgoing EXCEPT ![s] = RemoveAt(@, i)]
    /\ astray' = IF i = 1 THEN astray ELSE astray \cup {s}
    /\ UNCHANGED <<tables, entry, call, request, announced, bounds>>

\* A publication fails or times out; its error is thrown away.
Lose(s) ==
  \E i \in DOMAIN outgoing[s] :
    /\ outgoing' = [outgoing EXCEPT ![s] = RemoveAt(@, i)]
    /\ astray' = astray \cup {s}
    /\ UNCHANGED <<tables, entry, call, request, shown, announced, bounds>>

\* The server stops and starts.
Crash ==
  /\ others < MaxOthers
  /\ others' = others + 1
  /\ entry' = [s \in Sessions |-> NoEntry]
  /\ call' = [c \in Clients |-> NoCall]
  /\ request' = [u \in Users |-> NoCall]
  /\ outgoing' = [s \in Sessions |-> <<>>]
  /\ astray' = astray \cup {s \in Sessions : outgoing[s] # <<>>}
  /\ restarted' = TRUE
  /\ UNCHANGED <<tables, shown, announced, joins>>

-----------------------------------------------------------------------------
Positions == -1 .. MaxPerRoom

RowStep(u) ==
  \/ CreateCheck(u)
  \/ \E s \in Sessions : PatchRead(u, s) \/ DeleteRead(u, s)
  \/ \E s \in Sessions, p \in Positions : Create(u, s, p)
  \/ \E p \in Positions, changed \in BOOLEAN : Patch(u, p, changed)
  \/ DeleteRow(u)
  \/ Teardown(u)
  \/ RequestFails(u)

\* A client has one call in flight, so what it asks for a session it is not in
\* changes nothing: only participants leave and send heartbeats.
TakesPart(c, s) == entry[s] # NoEntry /\ c \in entry[s].clients

CallStep(c) ==
  \/ \E s \in Joinable : JoinCheck(c, s)
  \/ \E s \in Joinable : TakesPart(c, s) /\ (LeaveCheck(c, s) \/ HeartbeatCheck(c, s))
  \/ Join(c) \/ Leave(c) \/ Heartbeat(c)
  \/ CallFails(c)

Next ==
  \/ \E u \in Users : RowStep(u) \/ LeaveRoom(u) \/ EnterRoom(u)
  \/ \E c \in Clients : CallStep(c)
  \/ \E c \in Clients, s \in Sessions : Silent(c, s)
  \/ Cleanup
  \/ \E s \in Sessions : Debounce(s) \/ Deliver(s) \/ Lose(s)
  \/ Crash

Spec == Init /\ [][Next]_vars

\* A client that nobody lets send a heartbeat falls silent in the end.
Unheard(c, s) ==
  /\ row[s] = NoRow \/ UserOf[c] \notin members
  /\ call[c] # NoCall => call[c].session # s
  /\ Silent(c, s)

\* The job loops for ever, a task that sleeps wakes up, a publication ends, one
\* way or the other (the request to the event service has a timeout), and a
\* call that was admitted ends.  Nobody has to join, leave or be heard.
\* (Only sessions in Joinable ever have an entry.)
FairSpec ==
  /\ Spec
  /\ WF_vars(Cleanup)
  /\ \A s \in Joinable : WF_vars(Debounce(s)) /\ WF_vars(Deliver(s) \/ Lose(s))
  /\ \A c \in Clients : WF_vars(Join(c) \/ Leave(c) \/ Heartbeat(c) \/ CallFails(c))
  /\ \A c \in Clients : WF_vars(\E s \in Joinable : Unheard(c, s))

-----------------------------------------------------------------------------
(***************************************************************************)
(* Properties.                                                             *)
(***************************************************************************)

Entry == [clients : SUBSET Clients, fresh : SUBSET Clients,
          published : Nat, debounce : BOOLEAN]
RowType == [by : Users, version : Nat, position : Nat]
Call == [op : {"join", "leave", "heartbeat"}, session : Sessions]
Request ==
  [op : {"create"}] \cup [op : {"delete", "teardown"}, session : Sessions]
    \cup [op : {"patch"}, session : Sessions, version : Nat, position : Nat]

\* Every variable stays within its type.
TypeOK ==
  /\ members \subseteq Users
  /\ created \subseteq Sessions
  /\ row \in [Sessions -> RowType \cup {NoRow}]
  /\ entry \in [Sessions -> Entry \cup {NoEntry}]
  /\ call \in [Clients -> Call \cup {NoCall}]
  /\ request \in [Users -> Request \cup {NoCall}]
  /\ outgoing \in [Sessions -> Seq(Nat)]
  /\ shown \in [Sessions -> Nat]
  /\ announced \in [Sessions -> Nat]
  /\ astray \subseteq Sessions
  /\ restarted \in BOOLEAN
  /\ {joins, others} \subseteq Nat

\* However creations, moves and deletions interleave, the sessions of a room
\* are at 0, 1, 2, ... (resequence_positions).
PositionsDense ==
  {row[s].position : s \in Rows} = 0 .. Cardinality(Rows) - 1

\* No session ever has more participants than its type allows, also when its
\* entry was emptied and made anew, or outlives its row (join, under the lock).
CapHolds ==
  \A s \in Sessions : entry[s] # NoEntry => Count(entry[s]) <= Cap

TrueCount(s) == IF entry[s] = NoEntry THEN 0 ELSE Count(entry[s])

\* When no task sleeps for a session, the count whose publication began last is
\* the number of participants, whatever joins, leaves, removals, deletions and
\* emptied or renewed entries went before (ensure_debounce, teardown_session);
\* and once the publications have ended, the room was shown it, unless one of
\* them failed or was overtaken.  Only a restart may have left an old number
\* standing.
CountsAtRest ==
  \A s \in Sessions :
    (entry[s] # NoEntry => ~ entry[s].debounce) =>
      \/ /\ announced[s] = TrueCount(s)
         /\ outgoing[s] = <<>> /\ s \notin astray => shown[s] = TrueCount(s)
      \/ restarted /\ entry[s] = NoEntry

\* When users stop coming and going, every task has woken up and every
\* publication has ended: in the end the last count announced is the true one.
CountsSettle ==
  \A s \in Joinable :
    <>[](\/ announced[s] = TrueCount(s) /\ outgoing[s] = <<>>
         \/ restarted /\ entry[s] = NoEntry)

\* What the code does not keep: the same without an exception for publications
\* that went astray.  One that failed is not repeated (last_published_count was
\* noted before it began), and one may arrive after another that began later.
CountsShown ==
  \A s \in Sessions :
    outgoing[s] = <<>> /\ (entry[s] # NoEntry => ~ entry[s].debounce) =>
      \/ shown[s] = TrueCount(s)
      \/ restarted /\ entry[s] = NoEntry

\* Whoever lost the room, or whose session was deleted, does not stay in the
\* map: nobody tells it of the former, and a join that had passed its checks
\* may put an entry back after teardown_session, but neither is heard again.
NobodyLingers ==
  \A u \in Users, s \in Joinable :
    LET Lost == u \notin members \/ (s \in created /\ row[s] = NoRow)
    IN  Lost ~> ~Lost \/ entry[s] = NoEntry \/ u \notin Taking(entry[s])

=============================================================================
