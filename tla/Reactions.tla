----------------------------- MODULE Reactions ------------------------------
(***************************************************************************)
(* Reactions to one message.  A request changes the row in a transaction,  *)
(* commits, and then publishes what it did on each channel of the message: *)
(* the channel of the room, or the private channel of every recipient of a *)
(* whisper.  Requests are served at the same time, so what they publish    *)
(* may leave in another order than they committed, fail, or be lost with   *)
(* the server.                                                             *)
(*                                                                         *)
(* Abstracted: the text of a reaction and the client it is sent from (a    *)
(* slot stands for both), rate limits, audit rows, the moderation mode     *)
(* (Moderators are those it lets remove a reaction), a change of the limit *)
(* between its reading and the transaction.  A tombstoned message still    *)
(* takes reactions, so its deletion changes nothing here.                  *)
(***************************************************************************)
EXTENDS RoomAccess, Sequences, SequencesExt

CONSTANTS Home,          \* the room of the message
          Slots,         \* (user, client, reaction): the key of a row
          Author(_),     \* the user of a slot
          Moderators,    \* users who may remove any reaction
          Channels,      \* where the events of the message go
          MaxReactions,  \* reactions_per_message
          MaxPending     \* bound: committed requests of a slot still to publish

ASSUME ReactionsAssumption ==
  Home \in Rooms /\ Channels # {} /\ {MaxReactions, MaxPending} \subseteq Nat \ {0}

VARIABLES row,      \* row[s]: no row, an active or a soft-deleted one
          outbox,   \* outbox[s]: committed requests that have not published
          shown,    \* shown[c][s]: what the subscribers of c show
          astray    \* history: <<c, s>> with an event lost or out of order

reactions == <<row, outbox, shown, astray>>

Active == {s \in Slots : row[s] = "active"}

ReactionsInit ==
  /\ row = [s \in Slots |-> "none"]
  /\ outbox = [s \in Slots |-> <<>>]
  /\ shown = [c \in Channels |-> [s \in Slots |-> FALSE]]
  /\ astray = {}

Announce(s, added) ==
  outbox' = [outbox EXCEPT ![s] = Append(@, [added |-> added, left |-> Channels])]

(* Variant: a soft-deleted row that becomes active again is taken for a    *)
(* repeat.                                                                 *)
AddReactionQuiet(s) ==
  /\ IsMember(Home, Author(s))
  /\ Cardinality(Active) < MaxReactions
  /\ row[s] # "active"
  /\ Len(outbox[s]) < MaxPending
  /\ row' = [row EXCEPT ![s] = "active"]
  /\ IF row[s] = "none" THEN Announce(s, TRUE) ELSE UNCHANGED outbox
  /\ UNCHANGED <<access, shown, astray>>

(* At the limit even a repeat is refused; below it a repeat changes and    *)
(* announces nothing.  A soft-deleted row becomes active again.            *)
AddReaction(s) ==
  /\ IsMember(Home, Author(s))
  /\ Cardinality(Active) < MaxReactions
  /\ row[s] # "active"
  /\ Len(outbox[s]) < MaxPending
  /\ row' = [row EXCEPT ![s] = "active"]
  /\ Announce(s, TRUE)
  /\ UNCHANGED <<access, shown, astray>>

RemoveReaction(u, s) ==
  /\ IsMember(Home, u)
  /\ row[s] = "active"
  /\ u = Author(s) \/ u \in Moderators
  /\ Len(outbox[s]) < MaxPending
  /\ row' = [row EXCEPT ![s] = "deleted"]
  /\ Announce(s, FALSE)
  /\ UNCHANGED <<access, shown, astray>>

(* Request i of slot s has one channel less to publish on.                 *)
Done(s, i, c) ==
  LET left == outbox[s][i].left \ {c}
  IN  outbox' = [outbox EXCEPT ![s] =
        IF left = {} THEN RemoveAt(@, i) ELSE [@ EXCEPT ![i].left = left]]

(* An earlier request has yet to publish on c.                             *)
Overtakes(s, i, c) == \E j \in 1 .. (i - 1) : c \in outbox[s][j].left

Publish(s, i, c) ==
  /\ c \in outbox[s][i].left
  /\ shown' = [shown EXCEPT ![c][s] = outbox[s][i].added]
  /\ astray' = IF Overtakes(s, i, c) THEN astray \cup {<<c, s>>} ELSE astray
  /\ Done(s, i, c)
  /\ UNCHANGED <<access, row>>

(* A failed publish is logged; the request succeeds.                       *)
PublishFails(s, i, c) ==
  /\ c \in outbox[s][i].left
  /\ astray' = astray \cup {<<c, s>>}
  /\ Done(s, i, c)
  /\ UNCHANGED <<access, row, shown>>

(* The server dies with the requests it was serving.                       *)
RestartReactions ==
  /\ outbox' = [s \in Slots |-> <<>>]
  /\ astray' = astray \cup
       {e \in Channels \X Slots : \E i \in DOMAIN outbox[e[2]] : e[1] \in outbox[e[2]][i].left}
  /\ UNCHANGED <<row, shown>>

CascadeReactions(r) ==
  /\ row' = IF r = Home THEN [s \in Slots |-> "none"] ELSE row
  /\ UNCHANGED <<outbox, shown, astray>>

ReactionsNext ==
  \/ \E s \in Slots : AddReaction(s)
  \/ \E u \in Users, s \in Slots : RemoveReaction(u, s)
  \/ \E s \in Slots, c \in Channels : \E i \in DOMAIN outbox[s] :
       Publish(s, i, c) \/ PublishFails(s, i, c)

-----------------------------------------------------------------------------
ReactionsTypeOK ==
  /\ row \in [Slots -> {"none", "active", "deleted"}]
  /\ Cardinality(Active) <= MaxReactions
  /\ \A s \in Slots : Len(outbox[s]) <= MaxPending
  /\ \A s \in Slots : \A i \in DOMAIN outbox[s] :
       outbox[s][i] \in [added : BOOLEAN, left : (SUBSET Channels) \ {{}}]
  /\ shown \in [Channels -> [Slots -> BOOLEAN]]
  /\ astray \subseteq Channels \X Slots

(* Nothing is announced twice or not at all: a channel that has received   *)
(* everything committed so far, in the order it was committed, shows the   *)
(* reactions that are in the table -- through repeats, removals by others, *)
(* reactivations of a soft-deleted row and restarts.                       *)
SubscribersAgree ==
  Home \in rooms =>
    \A c \in Channels, s \in Slots :
      \/ <<c, s>> \in astray
      \/ \E i \in DOMAIN outbox[s] : c \in outbox[s][i].left
      \/ shown[c][s] = (row[s] = "active")

(* Not so without the exception: two requests that publish in another      *)
(* order than they commit leave every subscriber with the wrong reactions. *)
SubscribersSettle ==
  Home \in rooms =>
    \A c \in Channels, s \in Slots :
      \/ \E i \in DOMAIN outbox[s] : c \in outbox[s][i].left
      \/ shown[c][s] = (row[s] = "active")
=============================================================================
