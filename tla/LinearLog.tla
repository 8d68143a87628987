----------------------------- MODULE LinearLog -----------------------------
(***************************************************************************)
(* What the message endpoint of a room promises to its members: one        *)
(* linear history, cut into epochs.  Everything that is numbered is put at *)
(* the end of the open epoch, a commit closes the open epoch, and a closed *)
(* epoch never changes again.  Bot messages, edits and deletions are not   *)
(* part of the promise: they are stuttering steps here.                    *)
(***************************************************************************)
EXTENDS Naturals, Sequences

CONSTANT Ids      \* the identifiers a message can have

VARIABLES
  closed,         \* the closed epochs, oldest first, each a sequence of ids
  open            \* the ids of the open epoch, in order

vars == <<closed, open>>

\* The identifiers that occur somewhere in the history.
Used ==
  {open[k] : k \in 1..Len(open)}
    \cup UNION {{closed[e][k] : k \in 1..Len(closed[e])} : e \in 1..Len(closed)}

Init ==
  /\ closed = <<>>
  /\ open = <<>>

\* An application message or a proposal joins the open epoch.
Extend(id) ==
  /\ id \notin Used
  /\ open' = Append(open, id)
  /\ UNCHANGED closed

\* A commit is the last entry of its epoch.
Close(id) ==
  /\ id \notin Used
  /\ closed' = Append(closed, Append(open, id))
  /\ open' = <<>>

Next == \E id \in Ids : Extend(id) \/ Close(id)

Spec == Init /\ [][Next]_vars

=============================================================================
