--------------------------- MODULE MCRoomSessions ---------------------------
(***************************************************************************)
(* Values for TLC.                                                         *)
(***************************************************************************)
EXTENDS RoomSessions, TLC

CONSTANTS ann, bob, a1, a2, b1

MCUserOf == (a1 :> ann) @@ (a2 :> ann) @@ (b1 :> bob)

\* Two sessions that nobody joins, and one session with every join: the rows
\* and the map meet only in whether a session has a row.
MCStarts == {[created |-> {}, joins |-> MaxJoins], [created |-> {2}, joins |-> 0]}
=============================================================================
