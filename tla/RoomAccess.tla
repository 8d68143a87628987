----------------------------- MODULE RoomAccess -----------------------------
(***************************************************************************)
(* Which rooms exist and who is in them, as far as the content of a room   *)
(* depends on it.  RoomMembers models how members come and go; here they   *)
(* simply do.                                                              *)
(***************************************************************************)
EXTENDS Integers, FiniteSets

CONSTANTS Users, Rooms

VARIABLES rooms,    \* rooms not deleted
          members   \* <<room, user>>: rows of room_members

access == <<rooms, members>>

IsMember(r, u) == <<r, u>> \in members

AccessInit ==
  /\ rooms = Rooms
  /\ members = Rooms \X Users

Enter(r, u) ==
  /\ r \in rooms /\ ~IsMember(r, u)
  /\ members' = members \cup {<<r, u>>}
  /\ rooms' = rooms

Leave(r, u) ==
  /\ IsMember(r, u)
  /\ members' = members \ {<<r, u>>}
  /\ rooms' = rooms

(* What is in the room goes by ON DELETE CASCADE: RoomContent adds that.   *)
DropRoom(r) ==
  /\ r \in rooms
  /\ rooms' = rooms \ {r}
  /\ members' = {m \in members : m[1] # r}
=============================================================================
