--------------------------- MODULE MCRoomMembers ---------------------------
(***************************************************************************)
(* Values for TLC.                                                         *)
(***************************************************************************)
EXTENDS RoomMembers, TLC

CONSTANTS ann, bob, cyd, b1, b2

MCDeviceOf == [d \in Devices |-> bob]
MCMaxUses == (1 :> 1)
=============================================================================
