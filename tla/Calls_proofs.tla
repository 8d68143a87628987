---------------------------- MODULE Calls_proofs ----------------------------
(***************************************************************************)
(* Theorems about Calls, for any users, clients, rooms, calls and limit.   *)
(***************************************************************************)
EXTENDS Calls, FiniteSetTheorems, TLAPS

(***************************************************************************)
(* Types.                                                                  *)
(***************************************************************************)

\* A call that a request is about to end exists (end_call reads its row, and no
\* row is ever deleted).  Without it ending a call might write a row from nothing.
EndsExist ==
  \A c \in Clients : At(c, "end") => row[request[c].id] # NoRow

Typed == TypeOK /\ EndsExist

\* The types hold at the start.
LEMMA TypeInit == Init => Typed
  BY CallsAssumption DEF Init, Typed, TypeOK, EndsExist, At

\* The steps a request starts at.
LEMMA TypeBegin ==
  ASSUME Typed, NEW c \in Clients, NEW r \in Rooms, NEW k \in CallIds,
         NEW step \in {"row", "leave", "end"}, Begin(c, r, k, step),
         UNCHANGED joined, step = "end" => row[k] # NoRow
  PROVE  Typed'
  <1>1. [step |-> step, room |-> r, id |-> k, first |-> FALSE] \in Request
    BY DEF Request, Steps
  <1>2. TypeOK'
    BY <1>1 DEF Typed, TypeOK, Begin
  <1>3. EndsExist'
    BY DEF Typed, TypeOK, EndsExist, Begin, At
  <1> QED BY <1>2, <1>3 DEF Typed

\* The steps of a handler keep the types.
LEMMA TypeHandler ==
  ASSUME Typed, NEW c \in Clients, JoinStep(c) \/ LeaveStep(c) \/ EndStep(c)
  PROVE  TypeOK'
  <1> USE CallsAssumption DEF Typed, TypeOK, At, Goto, Done
  <1>0. request[c] # Idle => request[c] \in Request
    OBVIOUS
  <1>1. \A s \in Steps : request[c] \in Request =>
          /\ [request[c] EXCEPT !.step = s] \in Request
          /\ [[request[c] EXCEPT !.step = s] EXCEPT !.first = TRUE] \in Request
    BY DEF Request
  <1>2. \A s \in {"add", "limit", "refuse", "count", "clear", "clear and publish"} : s \in Steps
    BY DEF Steps
  <1>3. CASE JoinRow(c)
    <2>1. [room |-> request[c].room, initiator |-> UserOf[c], ended |-> FALSE] \in CallRow
      BY <1>0, <1>3 DEF JoinRow, CallRow, Request
    <2>2. row' \in [CallIds -> CallRow \cup {NoRow}]
      BY <1>3, <2>1 DEF JoinRow
    <2>3. request' \in [Clients -> Request \cup {Idle}]
      BY <1>0, <1>1, <1>2, <1>3, ZenonT(90) DEF JoinRow
    <2> QED BY <1>3, <2>2, <2>3 DEF JoinRow
  <1>4. CASE AddClient(c)
    BY <1>0, <1>1, <1>2, <1>4 DEF AddClient
  <1>5. CASE EnforceLimit(c)
    <2>1. CASE request' = [request EXCEPT ![c].step = "refuse"]
                 /\ UNCHANGED <<joined, announced>>
      BY <1>0, <1>1, <1>2, <1>5, <2>1 DEF EnforceLimit
    <2>2. CASE /\ request' = [request EXCEPT ![c] = Idle]
               /\ joined' = [joined EXCEPT ![request[c].id] = @ \cup {c}]
               /\ announced' = IF request[c].first THEN announced \cup {request[c].id}
                               ELSE announced
      <3>1. request[c].id \in CallIds
        BY <1>0, <1>5 DEF EnforceLimit, Request
      <3> QED BY <1>5, <2>2, <3>1 DEF EnforceLimit
    <2> QED BY <1>5, <2>1, <2>2 DEF EnforceLimit
  <1>6. CASE RemoveRefused(c)
    BY <1>6 DEF RemoveRefused
  <1>7. CASE RemoveClient(c)
    BY <1>0, <1>1, <1>2, <1>7 DEF RemoveClient
  <1>8. CASE CountAfterLeave(c)
    BY <1>0, <1>1, <1>2, <1>8 DEF CountAfterLeave
  <1>9. CASE ClearCall(c)
    BY <1>9 DEF ClearCall
  <1>10. CASE EndRow(c)
    <2>1. \A r \in CallRow : [r EXCEPT !.ended = TRUE] \in CallRow
      BY DEF CallRow
    <2>2. request[c].id \in CallIds /\ row[request[c].id] \in CallRow
      BY <1>0, <1>10 DEF EndRow, EndsExist, Request
    <2>3. row' \in [CallIds -> CallRow \cup {NoRow}]
      BY <1>10, <2>1, <2>2 DEF EndRow
    <2> QED BY <1>0, <1>1, <1>2, <1>10, <2>3 DEF EndRow
  <1>11. CASE ClearEnded(c)
    <2>1. request[c].id \in CallIds
      BY <1>0, <1>11 DEF ClearEnded, Request
    <2>2. /\ inside' = [inside EXCEPT ![request[c].id] = {}]
          /\ ends' = [ends EXCEPT ![request[c].id] = @ + 1]
          /\ request' = [request EXCEPT ![c] = Idle]
          /\ UNCHANGED <<row, joined, announced, requests, faults>>
      BY <1>11 DEF ClearEnded
    <2>3. ends' \in [CallIds -> Nat]
      BY <2>1, <2>2
    <2> QED BY <2>1, <2>2, <2>3
  <1> QED BY <1>3, <1>4, <1>5, <1>6, <1>7, <1>8, <1>9, <1>10, <1>11
          DEF JoinStep, LeaveStep, EndStep

\* No handler deletes a row of call_sessions.
LEMMA RowsStay ==
  ASSUME Typed, NEW c \in Clients, JoinStep(c) \/ LeaveStep(c) \/ EndStep(c),
         NEW k \in CallIds, row[k] # NoRow
  PROVE  row'[k] # NoRow
  <1>1. CASE JoinRow(c)
    BY <1>1 DEF JoinRow, Typed, TypeOK
  <1>2. CASE EndRow(c)
    <2>1. \A r \in CallRow : [r EXCEPT !.ended = TRUE] \in CallRow
      BY DEF CallRow
    <2>2. row[k] \in CallRow
      BY DEF Typed, TypeOK
    <2> QED BY <1>2, <2>1, <2>2, CallsAssumption DEF EndRow, Typed, TypeOK
  <1> QED BY <1>1, <1>2
          DEF JoinStep, LeaveStep, EndStep, AddClient, EnforceLimit, RemoveRefused,
              RemoveClient, CountAfterLeave, ClearCall, ClearEnded

\* A handler that begins to end a call has asked for its row; afterwards the
\* row stays.
LEMMA EndsHandler ==
  ASSUME Typed, NEW c \in Clients, JoinStep(c) \/ LeaveStep(c) \/ EndStep(c)
  PROVE  EndsExist'
  <1> SUFFICES ASSUME NEW d \in Clients, At(d, "end")'
               PROVE  row'[request'[d].id] # NoRow
    BY DEF EndsExist
  <1>1. PICK q : /\ request' = [request EXCEPT ![c] = q]
                 /\ q # Idle => q.step # "end"
    <2>1. request[c] \in Request
      BY DEF Typed, TypeOK, At, JoinStep, LeaveStep, EndStep, JoinRow, AddClient, EnforceLimit,
             RemoveRefused, RemoveClient, CountAfterLeave, ClearCall, EndRow, ClearEnded
    <2>2. \A s : [request[c] EXCEPT !.step = s].step = s
      BY <2>1 DEF Request
    <2>3. \A s : [[request[c] EXCEPT !.step = s] EXCEPT !.first = TRUE].step = s
      BY <2>1, SMTT(60) DEF Request
    <2> DEFINE next(s) == [request[c] EXCEPT !.step = s]
               first == [next("add") EXCEPT !.first = TRUE]
    <2>4. \/ request' = [request EXCEPT ![c] = Idle]
          \/ request' = [request EXCEPT ![c] = first]
          \/ \E s \in {"add", "limit", "refuse", "count", "clear", "clear and publish"} :
               request' = [request EXCEPT ![c] = next(s)]
      BY DEF JoinStep, LeaveStep, EndStep, JoinRow, AddClient, EnforceLimit, RemoveRefused,
             RemoveClient, CountAfterLeave, ClearCall, EndRow, ClearEnded, Goto, Done
    <2>5. first.step = "add" /\ \A s : next(s).step = s
      BY <2>2, <2>3
    <2> HIDE DEF next, first
    <2> QED BY <2>4, <2>5
  <1>2. request'[d] = request[d] /\ At(d, "end")
    BY <1>1 DEF Typed, TypeOK, At
  <1>3. request[d].id \in CallIds /\ row[request[d].id] # NoRow
    BY <1>2 DEF Typed, TypeOK, EndsExist, At, Request
  <1> QED BY <1>2, <1>3, RowsStay

\* Every step does.
LEMMA TypeNext == Typed /\ [Next]_vars => Typed'
  <1> SUFFICES ASSUME Typed, [Next]_vars PROVE Typed'
    OBVIOUS
  <1>1. ASSUME NEW c \in Clients, NEW r \in Rooms, NEW k \in CallIds,
               JoinCheck(c, r, k) \/ LeaveCheck(c, r, k) \/ EndCheck(c, r, k)
        PROVE  Typed'
    <2>1. PICK step \in {"row", "leave", "end"} :
            /\ Begin(c, r, k, step) /\ UNCHANGED joined
            /\ step = "end" => row[k] # NoRow
      BY <1>1 DEF JoinCheck, LeaveCheck, EndCheck
    <2> QED BY <2>1, TypeBegin
  <1>2. ASSUME NEW c \in Clients, Dropped(c) PROVE Typed'
    BY <1>2 DEF Typed, TypeOK, EndsExist, Dropped, Done, At
  <1>3. CASE Restart
    BY <1>3 DEF Typed, TypeOK, EndsExist, Restart, At
  <1>4. CASE UNCHANGED vars
    BY <1>4 DEF Typed, TypeOK, EndsExist, vars, At
  <1>5. ASSUME NEW c \in Clients, JoinStep(c) \/ LeaveStep(c) \/ EndStep(c)
        PROVE  Typed'
    BY <1>5, TypeHandler, EndsHandler DEF Typed
  <1> QED BY <1>1, <1>2, <1>3, <1>4, <1>5 DEF Next

\* Every variable stays within its type, in every reachable state (all
\* handlers of calls/lifecycle.rs, hung up callers and restarts).
THEOREM TypeCorrect == Spec => []TypeOK
  <1>1. Typed => TypeOK
    BY DEF Typed
  <1> QED BY <1>1, TypeInit, TypeNext, PTL DEF Spec

(***************************************************************************)
(* The limit.                                                              *)
(***************************************************************************)

\* The users of some clients.
People(S) == {UserOf[c] : c \in S}

\* The users of some of a call's clients are no more than those of all.
LEMMA FewerUsers ==
  ASSUME NEW S, IsFiniteSet(S), NEW T \in SUBSET S
  PROVE  /\ Cardinality(People(T)) \in Nat
         /\ Cardinality(People(S)) \in Nat
         /\ Cardinality(People(T)) <= Cardinality(People(S))
  <1> DEFINE f == [c \in S |-> UserOf[c]]
  <1>1. f \in Surjection(S, People(S))
    BY DEF Surjection, People
  <1>2. IsFiniteSet(People(S))
    <2> HIDE DEF f
    <2> QED BY <1>1, FS_Surjection
  <1>3. People(T) \subseteq People(S)
    BY DEF People
  <1>4. IsFiniteSet(People(T)) /\ Cardinality(People(T)) <= Cardinality(People(S))
    BY <1>2, <1>3, FS_Subset
  <1> QED BY <1>2, <1>4, FS_CardinalityType

\* What a step does to the clients in a call and to those told they joined:
\* they get fewer, one client is added and told nothing yet, or, when the call
\* has no more participants than the limit, one client is told.
MapStep(k) ==
  \/ inside'[k] \subseteq inside[k] /\ joined'[k] \subseteq joined[k]
  \/ \E c \in Clients : inside'[k] = inside[k] \cup {c} /\ joined'[k] = joined[k] \ {c}
  \/ ~(Count(k) > MaxParticipants) /\ inside'[k] = inside[k]

\* What a step may do to the participants of one call.
LEMMA MapSteps ==
  ASSUME Typed, [Next]_vars, NEW k \in CallIds
  PROVE  MapStep(k)
  <1> USE DEF Typed, TypeOK, MapStep
  <1>1. ASSUME NEW c \in Clients, JoinStep(c) PROVE MapStep(k)
    <2>1. CASE AddClient(c)
      <3>1. CASE k = request[c].id
        BY <2>1, <3>1 DEF AddClient
      <3>2. CASE k # request[c].id
        BY <2>1, <3>2 DEF AddClient
      <3> QED BY <3>1, <3>2
    <2>2. CASE EnforceLimit(c)
      <3>1. CASE k = request[c].id
        <4>1. CASE Count(k) > MaxParticipants
          BY <2>2, <3>1, <4>1 DEF EnforceLimit
        <4>2. CASE ~(Count(k) > MaxParticipants)
          BY <2>2, <3>1, <4>2 DEF EnforceLimit
        <4> QED BY <4>1, <4>2
      <3>2. CASE k # request[c].id
        BY <2>2, <3>2 DEF EnforceLimit
      <3> QED BY <3>1, <3>2
    <2>3. CASE JoinRow(c) \/ RemoveRefused(c)
      BY <2>3 DEF JoinRow, RemoveRefused
    <2> QED BY <1>1, <2>1, <2>2, <2>3 DEF JoinStep
  <1>2. ASSUME NEW c \in Clients, LeaveStep(c) \/ EndStep(c) PROVE MapStep(k)
    <2>1. CASE RemoveClient(c)
      BY <2>1 DEF RemoveClient
    <2>2. CASE ClearCall(c)
      BY <2>2 DEF ClearCall
    <2>3. CASE ClearEnded(c)
      BY <2>3 DEF ClearEnded
    <2>4. CASE CountAfterLeave(c) \/ EndRow(c)
      BY <2>4 DEF CountAfterLeave, EndRow
    <2> QED BY <1>2, <2>1, <2>2, <2>3, <2>4 DEF LeaveStep, EndStep
  <1>3. ASSUME NEW c \in Clients, NEW r \in Rooms, NEW i \in CallIds,
               JoinCheck(c, r, i) \/ LeaveCheck(c, r, i) \/ EndCheck(c, r, i)
        PROVE  MapStep(k)
    BY <1>3 DEF JoinCheck, LeaveCheck, EndCheck, Begin
  <1>4. ASSUME NEW c \in Clients, Dropped(c) PROVE MapStep(k)
    BY <1>4 DEF Dropped
  <1>5. CASE Restart \/ UNCHANGED vars
    BY <1>5 DEF Restart, vars
  <1> QED BY <1>1, <1>2, <1>3, <1>4, <1>5 DEF Next

\* The invariant: counting makes sense, as only finitely many clients are in a
\* call, and the limit holds.
Limited == (\A k \in CallIds : IsFiniteSet(inside[k])) /\ LimitHolds

\* The limit and what it rests on hold at the start,
LEMMA LimitInit == Init => Limited
  <1> SUFFICES ASSUME Init PROVE Limited
    OBVIOUS
  <1>1. \A k \in CallIds : inside[k] = {} /\ {UserOf[c] : c \in inside[k] \cap joined[k]} = {}
    BY DEF Init
  <1> QED BY <1>1, FS_EmptySet, CallsAssumption DEF Limited, LimitHolds

\* and every step keeps them.
LEMMA LimitNext == Typed /\ Limited /\ [Next]_vars => Limited'
  <1> DEFINE Told(k) == inside[k] \cap joined[k]
  <1> SUFFICES ASSUME Typed, Limited, [Next]_vars, NEW k \in CallIds
               PROVE  IsFiniteSet(inside'[k]) /\ Cardinality(People(Told(k)')) <= MaxParticipants
    BY DEF Limited, LimitHolds, People
  <1>1. IsFiniteSet(inside[k]) /\ IsFiniteSet(Told(k))
    BY FS_Subset DEF Limited
  <1>2. Cardinality(People(Told(k))) <= MaxParticipants
    BY DEF Limited, LimitHolds, People
  <1>3. MaxParticipants \in Nat
    BY CallsAssumption
  <1>4. ASSUME Told(k)' \subseteq Told(k)
        PROVE  Cardinality(People(Told(k)')) <= MaxParticipants
    <2> HIDE DEF Told
    <2>1. /\ Cardinality(People(Told(k)')) \in Nat
          /\ Cardinality(People(Told(k))) \in Nat
          /\ Cardinality(People(Told(k)')) <= Cardinality(People(Told(k)))
      BY <1>1, <1>4, FewerUsers
    <2> QED BY <1>2, <1>3, <2>1
  <1>5. CASE inside'[k] \subseteq inside[k] /\ joined'[k] \subseteq joined[k]
    <2>1. IsFiniteSet(inside'[k])
      BY <1>1, <1>5, FS_Subset
    <2>2. Told(k)' \subseteq Told(k)
      BY <1>5
    <2> QED BY <1>4, <2>1, <2>2
  <1>6. ASSUME NEW d \in Clients,
               inside'[k] = inside[k] \cup {d} /\ joined'[k] = joined[k] \ {d}
        PROVE  IsFiniteSet(inside'[k]) /\ Cardinality(People(Told(k)')) <= MaxParticipants
    <2>1. IsFiniteSet(inside'[k])
      BY <1>1, <1>6, FS_AddElement
    <2>2. Told(k)' \subseteq Told(k)
      BY <1>6
    <2> QED BY <1>4, <2>1, <2>2
  <1>7. CASE ~(Count(k) > MaxParticipants) /\ inside'[k] = inside[k]
    <2>1. Told(k)' \subseteq inside[k]
      BY <1>7
    <2>2. ~(Cardinality(People(inside[k])) > MaxParticipants)
      BY <1>7 DEF Count, Participants, People
    <2> HIDE DEF Told
    <2>3. /\ Cardinality(People(Told(k)')) \in Nat
          /\ Cardinality(People(inside[k])) \in Nat
          /\ Cardinality(People(Told(k)')) <= Cardinality(People(inside[k]))
      BY <1>1, <2>1, FewerUsers
    <2> QED BY <1>1, <1>3, <1>7, <2>2, <2>3
  <1>8. MapStep(k)
    BY MapSteps
  <1> HIDE DEF Told
  <1> QED BY <1>5, <1>6, <1>7, <1>8 DEF MapStep

\* Clients enter the map before the limit is looked at, and several handlers may
\* do so together; still a call never has more participants that were told they
\* joined than the limit allows (join_call).
THEOREM LimitKept == Spec => []LimitHolds
  <1>1. Typed /\ Limited => LimitHolds
    BY DEF Limited
  <1> QED BY <1>1, TypeInit, TypeNext, LimitInit, LimitNext, PTL DEF Spec

(***************************************************************************)
(* The refused.                                                            *)
(***************************************************************************)

\* As long as no handler was dropped and the server did not restart, a client
\* that is in a call without having been told so has a handler that will tell
\* it, or remove it.
Answering(c, k) ==
  (At(c, "limit") \/ At(c, "refuse")) /\ request[c].id = k

Watched ==
  faults = 0 => \A k \in CallIds : \A c \in inside[k] \ joined[k] : Answering(c, k)

\* Nobody is inside a call at the start,
LEMMA WatchedInit == Init => Watched
  BY DEF Init, Watched

\* A request of another client does not change this one's, and leaves it
\* unanswered only where it was unanswered before.
LEMMA WatchedByOthers ==
  ASSUME Typed, Watched, faults = 0, NEW k \in CallIds, NEW c \in Clients,
         c \in inside'[k] \ joined'[k], NEW d \in Clients, d # c,
         JoinStep(d) \/ LeaveStep(d) \/ EndStep(d)
  PROVE  Answering(c, k)'
  <1> USE DEF Typed, TypeOK
  <1>1. request'[c] = request[c]
    <2>1. CASE JoinStep(d)
      BY <2>1 DEF JoinStep, JoinRow, AddClient, EnforceLimit, RemoveRefused, Goto, Done
    <2>2. CASE LeaveStep(d) \/ EndStep(d)
      BY <2>2 DEF LeaveStep, EndStep, RemoveClient, CountAfterLeave, ClearCall, EndRow,
                  ClearEnded, Goto, Done
    <2> QED BY <2>1, <2>2
  <1>2. c \in inside[k] \ joined[k]
    <2>1. CASE AddClient(d) \/ RemoveClient(d)
      BY <2>1 DEF AddClient, RemoveClient
    <2>2. CASE EnforceLimit(d)
      BY <2>2 DEF EnforceLimit
    <2>3. CASE RemoveRefused(d) \/ ClearCall(d) \/ ClearEnded(d)
      BY <2>3, ZenonT(90) DEF RemoveRefused, ClearCall, ClearEnded
    <2>4. CASE JoinRow(d) \/ CountAfterLeave(d) \/ EndRow(d)
      BY <2>4 DEF JoinRow, CountAfterLeave, EndRow
    <2> QED BY <2>1, <2>2, <2>3, <2>4 DEF JoinStep, LeaveStep, EndStep
  <1> QED BY <1>1, <1>2 DEF Watched, Answering, At

\* A client's own request tells it, or has yet to tell or remove it.
LEMMA WatchedByOwn ==
  ASSUME Typed, Watched, faults = 0, NEW k \in CallIds, NEW c \in Clients,
         c \in inside'[k] \ joined'[k], JoinStep(c) \/ LeaveStep(c) \/ EndStep(c)
  PROVE  Answering(c, k)'
  <1> USE DEF Typed, TypeOK
  <1>1. request[c] # Idle => request[c] \in Request
    OBVIOUS
  <1>2. c \in inside[k] \ joined[k] => Answering(c, k)
    BY DEF Watched
  <1>3. CASE AddClient(c)
    <2>1. /\ request[c] \in Request
          /\ request' = [request EXCEPT ![c].step = "limit"]
          /\ At(c, "add")
      BY <1>1, <1>3 DEF AddClient, Goto, At
    <2>2. request'[c].step = "limit" /\ request'[c].id = request[c].id /\ request'[c] # Idle
      BY <2>1, CallsAssumption DEF Request, Steps
    <2>3. CASE k = request[c].id
      BY <2>2, <2>3 DEF Answering, At
    <2>4. CASE k # request[c].id
      BY <1>2, <1>3, <2>1, <2>4 DEF AddClient, Answering, At
    <2> QED BY <2>3, <2>4
  <1>4. CASE EnforceLimit(c)
    <2>1. At(c, "limit") /\ request[c] \in Request
      BY <1>1, <1>4 DEF EnforceLimit, At
    <2>2. CASE Count(request[c].id) > MaxParticipants
      <3>1. /\ request' = [request EXCEPT ![c].step = "refuse"]
            /\ inside' = inside /\ joined' = joined
        BY <1>4, <2>2 DEF EnforceLimit, Goto
      <3>2. request'[c].step = "refuse" /\ request'[c].id = request[c].id /\ request'[c] # Idle
        BY <2>1, <3>1, CallsAssumption DEF Request, Steps
      <3> QED BY <1>2, <3>1, <3>2 DEF Answering, At
    <2>3. CASE ~(Count(request[c].id) > MaxParticipants)
      <3>1. inside' = inside /\ joined' = [joined EXCEPT ![request[c].id] = @ \cup {c}]
        BY <1>4, <2>3 DEF EnforceLimit
      <3>2. k # request[c].id
        BY <3>1
      <3>3. ~Answering(c, k) /\ c \in inside[k] \ joined[k]
        BY <3>1, <3>2 DEF Answering
      <3> QED BY <1>2, <3>3
    <2> QED BY <2>2, <2>3
  <1>5. CASE RemoveRefused(c)
    BY <1>2, <1>5 DEF RemoveRefused, Answering
  <1>6. CASE RemoveClient(c)
    BY <1>2, <1>6 DEF RemoveClient, Answering, At
  <1>7. CASE JoinRow(c) \/ CountAfterLeave(c) \/ EndRow(c)
    BY <1>2, <1>7 DEF JoinRow, CountAfterLeave, EndRow, Answering, At
  <1>8. CASE ClearCall(c) \/ ClearEnded(c)
    BY <1>2, <1>8 DEF ClearCall, ClearEnded, Answering, At
  <1> QED BY <1>3, <1>4, <1>5, <1>6, <1>7, <1>8 DEF JoinStep, LeaveStep, EndStep

\* and every step keeps an answer under way for who is inside but was not let in.
LEMMA WatchedNext == Typed /\ Watched /\ [Next]_vars => Watched'
  <1> SUFFICES ASSUME Typed, Watched, [Next]_vars, faults' = 0, NEW k \in CallIds,
                      NEW c \in inside'[k] \ joined'[k]
               PROVE  Answering(c, k)'
    BY DEF Watched
  <1> USE DEF Typed, TypeOK
  <1>1. ASSUME NEW d \in Clients, JoinStep(d) \/ LeaveStep(d) \/ EndStep(d)
        PROVE  faults' = faults
    <2>1. CASE JoinStep(d)
      BY <2>1 DEF JoinStep, JoinRow, AddClient, EnforceLimit, RemoveRefused
    <2>2. CASE LeaveStep(d) \/ EndStep(d)
      BY <2>2 DEF LeaveStep, EndStep, RemoveClient, CountAfterLeave, ClearCall, EndRow, ClearEnded
    <2> QED BY <1>1, <2>1, <2>2
  <1>2. c \in Clients
    BY TypeNext
  <1>3. ASSUME NEW d \in Clients, JoinStep(d) \/ LeaveStep(d) \/ EndStep(d)
        PROVE  Answering(c, k)'
    BY <1>1, <1>2, <1>3, WatchedByOthers, WatchedByOwn
  <1>4. ASSUME NEW d \in Clients, NEW r \in Rooms, NEW i \in CallIds,
               JoinCheck(d, r, i) \/ LeaveCheck(d, r, i) \/ EndCheck(d, r, i)
        PROVE  Answering(c, k)'
    <2>1. PICK step : Begin(d, r, i, step) /\ joined' = joined
      BY <1>4 DEF JoinCheck, LeaveCheck, EndCheck
    <2>2. inside' = inside /\ faults = 0 /\ request[d] = Idle
      BY <2>1 DEF Begin
    <2>3. Answering(c, k) /\ c # d
      BY <2>1, <2>2 DEF Watched, Answering, At
    <2>4. request'[c] = request[c]
      BY <1>2, <2>1, <2>3 DEF Begin
    <2> QED BY <2>3, <2>4 DEF Answering, At
  <1>5. ASSUME NEW d \in Clients, Dropped(d) PROVE FALSE
    BY <1>5 DEF Dropped
  <1>6. CASE Restart
    BY <1>6 DEF Restart
  <1>7. CASE UNCHANGED vars
    BY <1>7 DEF vars, Watched, Answering, At
  <1> QED BY <1>3, <1>4, <1>5, <1>6, <1>7 DEF Next

\* A refused client is not left behind in the call: once the handlers have
\* ended, whoever is in the map was told so, however they interleaved and
\* whatever was cleared in between (join_call, leave_call, end_call).
THEOREM RefusedLeave == Spec => []OnlyAccepted
  <1>1. Typed /\ Watched => OnlyAccepted
    <2> SUFFICES ASSUME Typed, Watched, faults = 0, \A c \in Clients : request[c] = Idle,
                        NEW k \in CallIds, NEW c \in inside[k] \ joined[k]
                 PROVE  FALSE
      BY DEF OnlyAccepted
    <2> QED BY DEF Typed, TypeOK, Watched, Answering, At
  <1> QED BY <1>1, TypeInit, TypeNext, WatchedInit, WatchedNext, PTL DEF Spec

=============================================================================
