------------------------------ MODULE MCCalls ------------------------------
(***************************************************************************)
(* Values for TLC.                                                         *)
(***************************************************************************)
EXTENDS Calls, TLC

CONSTANTS ann, bob, a1, a2, b1, room, other

MCUserOf == (a1 :> ann) @@ (a2 :> ann) @@ (b1 :> bob)
MCMemberOf == (room :> {ann, bob}) @@ (other :> {ann})
MCOwnerOf == (room :> bob) @@ (other :> ann)
=============================================================================
