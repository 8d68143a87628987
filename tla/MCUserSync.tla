----------------------------- MODULE MCUserSync -----------------------------
(* Values for checking UserSync on one user with one or two devices. *)
EXTENDS UserSync

CONSTANTS phone, laptop, c1, c2, s1, s2, read

MCNothing == {}
MCAll     == Items \cup {ReadState}

=============================================================================
