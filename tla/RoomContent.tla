---------------------------- MODULE RoomContent -----------------------------
(***************************************************************************)
(* The attachments and the reactions of a room on one server: they share   *)
(* the rooms and their members, and die and restart together.              *)
(***************************************************************************)
EXTENDS Files, Reactions

vars == <<access, files, reactions>>

Init == AccessInit /\ FilesInit /\ ReactionsInit

Membership ==
  /\ \E r \in Rooms, u \in Users : Enter(r, u) \/ Leave(r, u)
  /\ UNCHANGED <<files, reactions>>

DeleteRoom(r) == DropRoom(r) /\ CascadeFiles(r) /\ CascadeReactions(r)

Restart == RestartFiles /\ RestartReactions /\ UNCHANGED access

Next ==
  \/ Membership
  \/ \E r \in Rooms : DeleteRoom(r)
  \/ FilesNext /\ UNCHANGED reactions
  \/ ReactionsNext /\ UNCHANGED files
  \/ Restart

Spec == Init /\ [][Next]_vars

-----------------------------------------------------------------------------
TypeOK ==
  /\ rooms \subseteq Rooms /\ members \subseteq rooms \X Users
  /\ FilesTypeOK /\ ReactionsTypeOK
=============================================================================
