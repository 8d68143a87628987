------------------------------- MODULE Calls -------------------------------
(***************************************************************************)
(* Calls: the rows of call_sessions and the in-memory map of who is in     *)
(* which call (calls/lifecycle.rs, calls/occupancy.rs).                    *)
(*                                                                         *)
(* A handler takes the map's lock anew for every operation, so that adding *)
(* a client, counting the participants and removing or clearing again are  *)
(* steps between which other handlers run.  A handler whose caller hangs   *)
(* up stops at the step it has reached; a restart empties the map.         *)
(***************************************************************************)
EXTENDS Integers, FiniteSets

CONSTANTS
  Users,
  Clients,           \* their devices' client ids
  UserOf,            \* the user of a client
  Rooms,
  MemberOf,          \* room_members: the users of a room
  OwnerOf,           \* rooms.owner_id
  CallIds,           \* ids that clients choose for calls
  MaxParticipants,   \* call_max_participants of the instance limits
  NoRow,             \* a call without a row
  Idle,              \* a client without a request
  MaxRequests,       \* bound on the requests
  MaxFaults          \* bound on dropped requests and restarts together

\* A row of call_sessions, and what a handler under way knows.
CallRow == [room : Rooms, initiator : Users, ended : BOOLEAN]
Steps == {"row", "add", "limit", "refuse", "leave", "count", "clear", "end",
          "clear and publish"}
Request == [step : Steps, room : Rooms, id : CallIds, first : BOOLEAN]

ASSUME CallsAssumption ==
  /\ UserOf \in [Clients -> Users]
  /\ MemberOf \in [Rooms -> SUBSET Users]
  /\ OwnerOf \in [Rooms -> Users]
  /\ MaxParticipants \in Nat \ {0}
  /\ NoRow \notin CallRow /\ Idle \notin Request
  /\ {MaxRequests, MaxFaults} \subseteq Nat

VARIABLES
  row,        \* call_sessions
  inside,     \* the map: the clients in a call
  request,    \* per client, its request and the step it is at
  joined,     \* the clients a call has told that they joined, and that neither
              \* left nor were added once more since
  announced,  \* the calls whose call.started was published
  ends,       \* how often call.ended was published
  requests, faults

vars == <<row, inside, request, joined, announced, ends, requests, faults>>

\* participant_count: users, not clients.
Participants(k) == {UserOf[c] : c \in inside[k]}
Count(k) == Cardinality(Participants(k))

Init ==
  /\ row = [k \in CallIds |-> NoRow]
  /\ inside = [k \in CallIds |-> {}]
  /\ request = [c \in Clients |-> Idle]
  /\ joined = [k \in CallIds |-> {}]
  /\ announced = {}
  /\ ends = [k \in CallIds |-> 0]
  /\ requests = 0 /\ faults = 0

At(c, step) == request[c] # Idle /\ request[c].step = step
Goto(c, step) == request' = [request EXCEPT ![c].step = step]
Done(c) == request' = [request EXCEPT ![c] = Idle]

\* A request of a member of the room starts.
Begin(c, r, k, step) ==
  /\ request[c] = Idle
  /\ requests < MaxRequests
  /\ UserOf[c] \in MemberOf[r]
  /\ request' = [request EXCEPT ![c] =
       [step |-> step, room |-> r, id |-> k, first |-> FALSE]]
  /\ requests' = requests + 1
  /\ UNCHANGED <<row, inside, announced, ends, faults>>

-----------------------------------------------------------------------------
(***************************************************************************)
(* join_call.                                                              *)
(***************************************************************************)

JoinCheck(c, r, k) ==
  /\ Begin(c, r, k, "row")
  /\ UNCHANGED joined

\* The transaction: the first to name an id starts a call; an id of another
\* room, or of a call that has ended, is refused.
JoinRow(c) ==
  LET q == request[c] IN
  /\ At(c, "row")
  /\ IF row[q.id] = NoRow
       THEN /\ row' = [row EXCEPT ![q.id] =
                  [room |-> q.room, initiator |-> UserOf[c], ended |-> FALSE]]
            /\ request' = [request EXCEPT ![c].step = "add", ![c].first = TRUE]
       ELSE /\ IF row[q.id].room # q.room \/ row[q.id].ended
                 THEN Done(c) ELSE Goto(c, "add")
            /\ UNCHANGED row
  /\ UNCHANGED <<inside, joined, announced, ends, requests, faults>>

AddClient(c) ==
  /\ At(c, "add")
  /\ inside' = [inside EXCEPT ![request[c].id] = @ \cup {c}]
  /\ joined' = [joined EXCEPT ![request[c].id] = @ \ {c}]
  /\ Goto(c, "limit")
  /\ UNCHANGED <<row, announced, ends, requests, faults>>

\* The count is compared with the limit one short.
EnforceLimitLate(c) ==
  LET k == request[c].id IN
  /\ At(c, "limit")
  /\ IF Count(k) > MaxParticipants + 1
       THEN Goto(c, "refuse") /\ UNCHANGED <<joined, announced>>
       ELSE /\ Done(c)
            /\ joined' = [joined EXCEPT ![k] = @ \cup {c}]
            /\ announced' = IF request[c].first THEN announced \cup {k} ELSE announced
  /\ UNCHANGED <<row, inside, ends, requests, faults>>

\* The participants are counted when the client is among them already.
EnforceLimit(c) ==
  LET k == request[c].id IN
  /\ At(c, "limit")
  /\ IF Count(k) > MaxParticipants
       THEN Goto(c, "refuse") /\ UNCHANGED <<joined, announced>>
       ELSE /\ Done(c)
            /\ joined' = [joined EXCEPT ![k] = @ \cup {c}]
            /\ announced' = IF request[c].first THEN announced \cup {k} ELSE announced
  /\ UNCHANGED <<row, inside, ends, requests, faults>>

\* The refused client is left in the map.
RemoveRefusedNot(c) ==
  /\ At(c, "refuse")
  /\ Done(c)
  /\ UNCHANGED <<row, inside, joined, announced, ends, requests, faults>>

RemoveRefused(c) ==
  /\ At(c, "refuse")
  /\ inside' = [inside EXCEPT ![request[c].id] = @ \ {c}]
  /\ Done(c)
  /\ UNCHANGED <<row, joined, announced, ends, requests, faults>>

-----------------------------------------------------------------------------
(***************************************************************************)
(* leave_call, which looks neither at the row nor at the call's room.      *)
(***************************************************************************)

LeaveCheck(c, r, k) ==
  /\ Begin(c, r, k, "leave")
  /\ UNCHANGED joined

RemoveClient(c) ==
  LET k == request[c].id IN
  /\ At(c, "leave")
  /\ inside' = [inside EXCEPT ![k] = @ \ {c}]
  /\ joined' = [joined EXCEPT ![k] = @ \ {c}]
  /\ Goto(c, "count")
  /\ UNCHANGED <<row, announced, ends, requests, faults>>

CountAfterLeave(c) ==
  /\ At(c, "count")
  /\ IF Count(request[c].id) = 0 THEN Goto(c, "clear") ELSE Done(c)
  /\ UNCHANGED <<row, inside, joined, announced, ends, requests, faults>>

\* clear_call, of whatever is in the call by now.
ClearCall(c) ==
  /\ At(c, "clear")
  /\ inside' = [inside EXCEPT ![request[c].id] = {}]
  /\ Done(c)
  /\ UNCHANGED <<row, joined, announced, ends, requests, faults>>

-----------------------------------------------------------------------------
(***************************************************************************)
(* end_call.                                                               *)
(***************************************************************************)

\* The caller is the initiator or owns the room.  A call that has ended is
\* answered with its old end.
EndCheck(c, r, k) ==
  /\ row[k] # NoRow /\ row[k].room = r /\ ~row[k].ended
  /\ UserOf[c] \in {row[k].initiator, OwnerOf[r]}
  /\ Begin(c, r, k, "end")
  /\ UNCHANGED joined

\* The UPDATE does not ask again whether the call has ended.
EndRow(c) ==
  /\ At(c, "end")
  /\ row' = [row EXCEPT ![request[c].id].ended = TRUE]
  /\ Goto(c, "clear and publish")
  /\ UNCHANGED <<inside, joined, announced, ends, requests, faults>>

\* clear_call, then call.ended.
ClearEnded(c) ==
  LET k == request[c].id IN
  /\ At(c, "clear and publish")
  /\ inside' = [inside EXCEPT ![k] = {}]
  /\ ends' = [ends EXCEPT ![k] = @ + 1]
  /\ Done(c)
  /\ UNCHANGED <<row, joined, announced, requests, faults>>

-----------------------------------------------------------------------------
\* The caller hangs up and its handler is dropped where it is.
Dropped(c) ==
  /\ request[c] # Idle
  /\ faults < MaxFaults
  /\ faults' = faults + 1
  /\ Done(c)
  /\ UNCHANGED <<row, inside, joined, announced, ends, requests>>

\* The server stops and starts: the map is empty, the rows are as they were.
Restart ==
  /\ faults < MaxFaults
  /\ faults' = faults + 1
  /\ inside' = [k \in CallIds |-> {}]
  /\ request' = [c \in Clients |-> Idle]
  /\ UNCHANGED <<row, joined, announced, ends, requests>>

JoinStep(c) == JoinRow(c) \/ AddClient(c) \/ EnforceLimit(c) \/ RemoveRefused(c)
LeaveStep(c) == RemoveClient(c) \/ CountAfterLeave(c) \/ ClearCall(c)
EndStep(c) == EndRow(c) \/ ClearEnded(c)

Next ==
  \/ \E c \in Clients :
       \/ \E r \in Rooms, k \in CallIds :
            JoinCheck(c, r, k) \/ LeaveCheck(c, r, k) \/ EndCheck(c, r, k)
       \/ JoinStep(c) \/ LeaveStep(c) \/ EndStep(c)
       \/ Dropped(c)
  \/ Restart

Spec == Init /\ [][Next]_vars

-----------------------------------------------------------------------------
(***************************************************************************)
(* Properties.                                                             *)
(***************************************************************************)

\* Every variable stays within its type.
TypeOK ==
  /\ row \in [CallIds -> CallRow \cup {NoRow}]
  /\ inside \in [CallIds -> SUBSET Clients]
  /\ request \in [Clients -> Request \cup {Idle}]
  /\ joined \in [CallIds -> SUBSET Clients]
  /\ announced \subseteq CallIds
  /\ ends \in [CallIds -> Nat]
  /\ {requests, faults} \subseteq Nat

\* Clients are added before the limit is looked at, and still a call never has
\* more participants that were told they joined than the limit allows.
LimitHolds ==
  \A k \in CallIds :
    Cardinality({UserOf[c] : c \in inside[k] \cap joined[k]}) <= MaxParticipants

\* When every handler has come to its end, whoever is in the map was told so:
\* a refused client is not left behind, also when it was refused twice, left
\* and came back, or the call was cleared and begun anew in between.
OnlyAccepted ==
  faults = 0 /\ (\A c \in Clients : request[c] = Idle) =>
    \A k \in CallIds : inside[k] \subseteq joined[k]

\* lifecycle.rs:215: "If call is empty, clear call": leaving clears nobody
\* else out of a call that goes on.
JoinedStay ==
  faults = 0 /\ (\A c \in Clients : request[c] = Idle) =>
    \A k \in CallIds :
      row[k] # NoRow /\ ~row[k].ended => joined[k] \subseteq inside[k]

\* The test call_lifecycle.rs:690 verifies that ending a call clears its
\* occupancy.
EndedIsEmpty ==
  faults = 0 /\ (\A c \in Clients : request[c] = Idle) =>
    \A k \in CallIds : row[k] # NoRow /\ row[k].ended => inside[k] = {}

\* lifecycle.rs: "If first join, publish call.started": a call somebody is in
\* was announced.
StartAnnounced ==
  faults = 0 /\ (\A c \in Clients : request[c] = Idle) =>
    \A k \in CallIds : joined[k] # {} => k \in announced

\* lifecycle.rs: "Idempotency check": a call ends once.
EndedOnce == \A k \in CallIds : ends[k] <= 1

=============================================================================
