----------------------------- MODULE MCRoomLog -----------------------------
(* Values for checking RoomLog on small rooms. *)
EXTENDS RoomLog

CONSTANTS alice, bob, bot, r1

MCNoWhispers == {}
MCWhispers   == {{alice}}

\* bob comes and goes; alice stays the owner.
MCMoves  == [u \in Users |-> IF u = alice THEN {"owner"} ELSE {"member", "none"}]
\* Either may own the room, and bob may moderate it.
MCMoves2 == [u \in Users |-> {"owner", "member", "none"}
                               \cup (IF u = bob THEN {"moderator"} ELSE {})]

=============================================================================
