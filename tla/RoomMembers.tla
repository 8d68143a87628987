---------------------------- MODULE RoomMembers ----------------------------
(***************************************************************************)
(* Who belongs to a room, and which devices its members are told to add to *)
(* and remove from the MLS group: rooms.rs, room_invites.rs,               *)
(* key_packages.rs, revoke_device (devices.rs), anonymise_user (gdpr.rs)   *)
(* and cleanup/pending_removes.rs, for one room.                           *)
(*                                                                         *)
(* The pool has one connection, so a transaction is one step.  A request   *)
(* whose transaction asks again for everything its route has checked is    *)
(* one step as well; joining and uploading do not, and are two: anything   *)
(* may happen between the check and the transaction.                       *)
(***************************************************************************)
EXTENDS Integers, Sequences, FiniteSets, SequencesExt

CONSTANTS
  Users, Creator,
  Devices, DeviceOf,   \* client ids, and the user of each
  RoomSizes,           \* what room_size of the instance limits may be
  PerDevice,           \* keypackages_per_device
  Invites, MaxUses,    \* room invites and their max_uses, 0 for no limit
  Idle,
  MaxPackages, MaxAdds, MaxRemoves, MaxUsed,  \* bounds on what is stored
  MaxInFlight, MaxDeleted   \* bounds on requests under way, on deleted accounts

ASSUME RoomMembersAssumption ==
  /\ Creator \in Users
  /\ DeviceOf \in [Devices -> Users]
  /\ RoomSizes \subseteq Nat \ {0}
  /\ MaxUses \in [Invites -> Nat]
  /\ {PerDevice, MaxPackages, MaxAdds, MaxRemoves, MaxUsed,
      MaxInFlight, MaxDeleted} \subseteq Nat

VARIABLES
  roomSize,    \* room_size of the instance limits
  live,        \* users without deleted_at
  devices,     \* devices
  open,        \* the room has not been deleted
  owner,       \* rooms.owner_id
  role,        \* room_members
  invites,     \* room_invites
  packages,    \* key_packages, oldest first
  adds,        \* pending_mls_adds
  removes,     \* pending_mls_removes
  joining,     \* per user, the invite of a join past its checks
  uploading,   \* per device, the last_resort flag of an upload past its checks
  handed,      \* how often a one-time package was given to somebody
  joins,       \* how often somebody joined through an invite
  owed         \* users put out of the room whose removal no member has
               \* confirmed since

vars == <<roomSize, live, devices, open, owner, role, invites, packages, adds,
          removes, joining, uploading, handed, joins, owed>>

None == "none"
PackageState == {"free", "consumed", "deleted"}
Package == [device : Devices, last : BOOLEAN, state : PackageState]
New(d, last) == [device |-> d, last |-> last, state |-> "free"]
Members == {u \in Users : role[u] # None}
Moderates(u, discord) == role[u] = "owner" \/ (role[u] = "moderator" /\ discord)
DevicesOf(u) == {d \in devices : DeviceOf[d] = u}

\* create_room: the creator owns the room and is its only member.
Init ==
  /\ roomSize \in RoomSizes
  /\ live = Users
  /\ devices = Devices
  /\ open = TRUE
  /\ owner = Creator
  /\ role = [u \in Users |-> IF u = Creator THEN "owner" ELSE None]
  /\ invites = [i \in Invites |-> "none"]
  /\ packages = <<>> /\ adds = <<>> /\ removes = <<>>
  /\ joining = [u \in Users |-> Idle]
  /\ uploading = [d \in Devices |-> Idle]
  /\ handed = [p \in 1..MaxPackages |-> 0]
  /\ joins = [i \in Invites |-> 0]
  /\ owed = {}

\* The bounds.
RemoveFits == Len(removes) < MaxRemoves
RequestFits ==
  Cardinality({u \in Users : joining[u] # Idle})
    + Cardinality({d \in Devices : uploading[d] # Idle}) < MaxInFlight
DeletionFits == Cardinality(Users \ live) < MaxDeleted /\ RemoveFits

-----------------------------------------------------------------------------
(***************************************************************************)
(* Key packages.                                                           *)
(***************************************************************************)

\* The packages of a device, or of all of a user's, that wait to be claimed.
Free(d) ==
  {p \in DOMAIN packages : packages[p].device = d /\ packages[p].state = "free"}
FreeOf(u) == UNION {Free(d) : d \in {e \in Devices : DeviceOf[e] = u}}
Normal(P) == {p \in P : ~packages[p].last}

\* The oldest one-time package, or else the oldest of last resort.
Oldest(P) == CHOOSE p \in P : \A q \in P : p <= q
Chosen(P) == IF Normal(P) # {} THEN Oldest(Normal(P)) ELSE Oldest(P)

\* One-time packages are consumed, those of last resort are not.
Consumed(P) ==
  [p \in DOMAIN packages |->
     IF p \in Normal(P)
       THEN [packages[p] EXCEPT !.state = "consumed"] ELSE packages[p]]

Deleted(P) ==
  [p \in DOMAIN packages |->
     IF p \in P THEN [packages[p] EXCEPT !.state = "deleted"] ELSE packages[p]]

Given(P) ==
  [p \in DOMAIN handed |-> handed[p] + IF p \in Normal(P) THEN 1 ELSE 0]

\* The rows of pending_mls_adds are never deleted while the room stands, and
\* they reference their packages: the database refuses to delete these.
Held(P) == \E a \in ToSet(adds) : a.package \in P

\* routes/key_packages.rs: the device is the caller's.
UploadRequested(d, last) ==
  /\ d \in devices /\ uploading[d] = Idle /\ RequestFits
  /\ uploading' = [uploading EXCEPT ![d] = last]
  /\ UNCHANGED <<roomSize, live, devices, open, owner, role, invites, packages,
                 adds, removes, joining, handed, joins, owed>>

\* upload_key_packages asks whether the user exists and counts what the device
\* has; it does not ask for the device.
Upload(d) ==
  /\ uploading[d] # Idle
  /\ Len(packages) < MaxPackages
  /\ uploading' = [uploading EXCEPT ![d] = Idle]
  /\ IF DeviceOf[d] \in live /\ Cardinality(Free(d)) < PerDevice
       THEN packages' = Append(packages, New(d, uploading[d]))
       ELSE UNCHANGED packages
  /\ UNCHANGED <<roomSize, live, devices, open, owner, role, invites, adds,
                 removes, joining, handed, joins, owed>>

\* Only the package is handed out, not marked.
ClaimUnmarked(u) ==
  /\ u \in live /\ FreeOf(u) # {}
  /\ handed' = Given({Chosen(FreeOf(u))})
  /\ UNCHANGED <<roomSize, live, devices, open, owner, role, invites, packages,
                 adds, removes, joining, uploading, joins, owed>>

\* claim_key_package, by anybody; of any of the user's devices.
Claim(u) ==
  /\ u \in live /\ FreeOf(u) # {}
  /\ packages' = Consumed({Chosen(FreeOf(u))})
  /\ handed' = Given({Chosen(FreeOf(u))})
  /\ UNCHANGED <<roomSize, live, devices, open, owner, role, invites, adds,
                 removes, joining, uploading, joins, owed>>

-----------------------------------------------------------------------------
(***************************************************************************)
(* Joining.                                                                *)
(***************************************************************************)

\* One package per device, none for a device without.
Selected(t) == {Chosen(Free(d)) : d \in {e \in DevicesOf(t) : Free(e) # {}}}

\* Some order of the rows; they are read and consumed by id.
QueuedAdds(P) == SetToSeq({[package |-> p, consumed |-> FALSE] : p \in P})

AddMember(u, t) ==
  LET P == Selected(t) IN
  /\ open /\ u \in live
  /\ role[u] # None /\ (role[u] = "owner" \/ u = owner)
  /\ t \in live /\ role[t] = None
  /\ Cardinality(Members) < roomSize
  /\ Len(adds) + Cardinality(P) <= MaxAdds
  /\ role' = [role EXCEPT ![t] = "member"]
  /\ packages' = Consumed(P)
  /\ handed' = Given(P)
  /\ adds' = adds \o QueuedAdds(P)
  /\ UNCHANGED <<roomSize, live, devices, open, owner, invites, removes,
                 joining, uploading, joins, owed>>

\* create_room_invite and revoke_room_invite, by any member.
CreateInvite(u, i) ==
  /\ open /\ u \in live /\ role[u] # None
  /\ invites[i] = "none"
  /\ invites' = [invites EXCEPT ![i] = "valid"]
  /\ UNCHANGED <<roomSize, live, devices, open, owner, role, packages, adds,
                 removes, joining, uploading, handed, joins, owed>>

RevokeInvite(u, i) ==
  /\ open /\ u \in live /\ role[u] # None
  /\ invites[i] = "valid"
  /\ invites' = [invites EXCEPT ![i] = "over"]
  /\ UNCHANGED <<roomSize, live, devices, open, owner, role, packages, adds,
                 removes, joining, uploading, handed, joins, owed>>

\* It expires.
ExpireInvite(i) ==
  /\ invites[i] = "valid"
  /\ invites' = [invites EXCEPT ![i] = "over"]
  /\ UNCHANGED <<roomSize, live, devices, open, owner, role, packages, adds,
                 removes, joining, uploading, handed, joins, owed>>

\* routes/room_invites.rs: the caller has a session.
JoinRequested(u, i) ==
  /\ u \in live /\ joining[u] = Idle /\ RequestFits
  /\ invites[i] # "none"
  /\ joining' = [joining EXCEPT ![u] = i]
  /\ UNCHANGED <<roomSize, live, devices, open, owner, role, invites, packages,
                 adds, removes, uploading, handed, joins, owed>>

\* Whether an invite lets one more in, and what has been used of it.
Usable(i) ==
  open /\ invites[i] = "valid" /\ (MaxUses[i] > 0 => joins[i] < MaxUses[i])

\* The room's size is not looked at.
RedeemAnyway(u) ==
  LET i == joining[u] IN
  /\ i # Idle
  /\ joining' = [joining EXCEPT ![u] = Idle]
  /\ IF Usable(i) /\ role[u] = None
       THEN /\ role' = [role EXCEPT ![u] = "member"]
            /\ joins' = [joins EXCEPT ![i] = @ + 1]
       ELSE UNCHANGED <<roomSize, role, joins>>
  /\ UNCHANGED <<roomSize, live, devices, open, owner, invites, packages, adds,
                 removes, uploading, handed, owed>>

\* redeem_room_invite: a member who is in already uses nothing up, and no
\* pending add is queued for who comes in.
Redeem(u) ==
  LET i == joining[u] IN
  /\ i # Idle
  /\ joins[i] < MaxUsed
  /\ joining' = [joining EXCEPT ![u] = Idle]
  /\ IF Usable(i) /\ role[u] = None /\ Cardinality(Members) < roomSize
       THEN /\ role' = [role EXCEPT ![u] = "member"]
            /\ joins' = [joins EXCEPT ![i] = @ + 1]
       ELSE UNCHANGED <<roomSize, role, joins>>
  /\ UNCHANGED <<roomSize, live, devices, open, owner, invites, packages, adds,
                 removes, uploading, handed, owed>>

-----------------------------------------------------------------------------
(***************************************************************************)
(* Leaving.                                                                *)
(***************************************************************************)

QueueRemove(u) ==
  Append(removes, [user |-> u, stale |-> FALSE, consumed |-> FALSE])

\* ON DELETE CASCADE.
RoomGone ==
  /\ open' = FALSE
  /\ role' = [u \in Users |-> None]
  /\ invites' = [i \in Invites |-> "none"]
  /\ adds' = <<>> /\ removes' = <<>>
  /\ owed' = {}
  /\ UNCHANGED <<roomSize, live, devices, owner, packages, joining, uploading,
                 handed, joins>>

DeleteRoom(u) == open /\ u \in live /\ role[u] = "owner" /\ RoomGone

LeaveLast(u) == open /\ u \in live /\ Members = {u} /\ RoomGone

\* No pending remove is queued for who leaves.
Leave(u) ==
  /\ open /\ u \in live
  /\ role[u] # None /\ Members # {u} /\ u # owner
  /\ role' = [role EXCEPT ![u] = None]
  /\ UNCHANGED <<roomSize, live, devices, open, owner, invites, packages, adds,
                 removes, joining, uploading, handed, joins, owed>>

\* A moderator follows the owner, or else a member; who of them joined first
\* is left open.
Heirs(u) ==
  LET mods == {v \in Members \ {u} : role[v] = "moderator"} IN
  IF mods # {} THEN mods ELSE Members \ {u}

\* The new owner's role is left as it was.
LeaveAsOwnerUnpromoted(u) ==
  /\ open /\ u \in live
  /\ role[u] # None /\ Members # {u} /\ u = owner
  /\ \E v \in Heirs(u) :
       /\ role' = [role EXCEPT ![u] = None]
       /\ owner' = v
  /\ UNCHANGED <<roomSize, live, devices, open, invites, packages, adds,
                 removes, joining, uploading, handed, joins, owed>>

LeaveAsOwner(u) ==
  /\ open /\ u \in live
  /\ role[u] # None /\ Members # {u} /\ u = owner
  /\ \E v \in Heirs(u) :
       /\ role' = [role EXCEPT ![u] = None, ![v] = "owner"]
       /\ owner' = v
  /\ UNCHANGED <<roomSize, live, devices, open, invites, packages, adds,
                 removes, joining, uploading, handed, joins, owed>>

\* moderation_mode is read before the transaction: any of its values.
Kick(u, t) ==
  /\ open /\ u \in live
  /\ Moderates(u, TRUE)
  /\ t # u /\ role[t] \notin {None, "owner"}
  /\ RemoveFits
  /\ role' = [role EXCEPT ![t] = None]
  /\ removes' = QueueRemove(t)
  /\ owed' = owed \cup {t}
  /\ UNCHANGED <<roomSize, live, devices, open, owner, invites, packages, adds,
                 joining, uploading, handed, joins>>

-----------------------------------------------------------------------------
(***************************************************************************)
(* Roles.                                                                  *)
(***************************************************************************)

SetRole(t, r) ==
  /\ role' = [role EXCEPT ![t] = r]
  /\ UNCHANGED <<roomSize, live, devices, open, owner, invites, packages, adds,
                 removes, joining, uploading, handed, joins, owed>>

Promote(u, t) ==
  /\ open /\ u \in live
  /\ role[u] = "owner" /\ role[t] = "member"
  /\ SetRole(t, "moderator")

Demote(u, t) ==
  /\ open /\ u \in live
  /\ role[u] = "owner" /\ role[t] = "moderator"
  /\ SetRole(t, "member")

TransferOwnership(u, t) ==
  /\ open /\ u \in live
  /\ role[u] = "owner" /\ t # u /\ role[t] # None
  /\ role' = [role EXCEPT ![t] = "owner", ![u] = "member"]
  /\ owner' = t
  /\ UNCHANGED <<roomSize, live, devices, open, invites, packages, adds,
                 removes, joining, uploading, handed, joins, owed>>

-----------------------------------------------------------------------------
(***************************************************************************)
(* The queues of MLS work.                                                 *)
(***************************************************************************)

\* Any member reports that the group has taken the device in.
ConsumeAdd(u, a) ==
  /\ open /\ u \in live /\ role[u] # None
  /\ a \in DOMAIN adds /\ ~adds[a].consumed
  /\ adds' = [adds EXCEPT ![a].consumed = TRUE]
  /\ UNCHANGED <<roomSize, live, devices, open, owner, role, invites, packages,
                 removes, joining, uploading, handed, joins, owed>>

\* Any member reports that the group has removed the user.
ConsumeRemove(u, r) ==
  /\ open /\ u \in live /\ role[u] # None
  /\ r \in DOMAIN removes /\ ~removes[r].consumed
  /\ removes' = [removes EXCEPT ![r].consumed = TRUE]
  /\ owed' = owed \ {removes[r].user}
  /\ UNCHANGED <<roomSize, live, devices, open, owner, role, invites, packages,
                 adds, joining, uploading, handed, joins>>

\* Any remove may be old enough; the job's UPDATE does not ask again whether
\* the row has been consumed since its SELECT.
MarkStale(r) ==
  /\ r \in DOMAIN removes
  /\ ~removes[r].stale
  /\ removes' = [removes EXCEPT ![r].stale = TRUE]
  /\ UNCHANGED <<roomSize, live, devices, open, owner, role, invites, packages,
                 adds, joining, uploading, handed, joins, owed>>

\* Stale rows are pruned as well.
PruneRemovesStale(r) ==
  /\ r \in DOMAIN removes
  /\ removes[r].consumed \/ removes[r].stale
  /\ removes' = RemoveAt(removes, r)
  /\ UNCHANGED <<roomSize, live, devices, open, owner, role, invites, packages,
                 adds, joining, uploading, handed, joins, owed>>

\* Thirty days after it was consumed.
PruneRemoves(r) ==
  /\ r \in DOMAIN removes
  /\ removes[r].consumed
  /\ removes' = RemoveAt(removes, r)
  /\ UNCHANGED <<roomSize, live, devices, open, owner, role, invites, packages,
                 adds, joining, uploading, handed, joins, owed>>

-----------------------------------------------------------------------------
(***************************************************************************)
(* Devices and accounts that go.                                           *)
(***************************************************************************)

\* Which device is revoked, the remove names the user; a user who stays in the
\* room is owed nothing.
RevokeDevice(d) ==
  LET u == DeviceOf[d] IN
  /\ d \in devices /\ u \in live
  /\ ~Held(Free(d))
  /\ RemoveFits
  /\ devices' = devices \ {d}
  /\ packages' = Deleted(Free(d))
  /\ removes' = IF role[u] # None THEN QueueRemove(u) ELSE removes
  /\ UNCHANGED <<roomSize, live, open, owner, role, invites, adds, joining,
                 uploading, handed, joins, owed>>

\* anonymise_user.  rooms.owner_id is left as it is.
DeleteAccount(u) ==
  /\ u \in live
  /\ ~Held(FreeOf(u))
  /\ DeletionFits
  /\ live' = live \ {u}
  /\ devices' = devices \ DevicesOf(u)
  /\ packages' = Deleted(FreeOf(u))
  /\ removes' = IF role[u] # None THEN QueueRemove(u) ELSE removes
  /\ owed' = IF role[u] # None THEN owed \cup {u} ELSE owed
  /\ role' = [role EXCEPT ![u] = None]
  /\ UNCHANGED <<roomSize, open, owner, invites, adds, joining, uploading,
                 handed, joins>>

\* A caller hangs up before the transaction.
Dropped(u) ==
  /\ joining[u] # Idle
  /\ joining' = [joining EXCEPT ![u] = Idle]
  /\ UNCHANGED <<roomSize, live, devices, open, owner, role, invites, packages,
                 adds, removes, uploading, handed, joins, owed>>

-----------------------------------------------------------------------------
RoomStep(u) ==
  \/ DeleteRoom(u) \/ LeaveLast(u) \/ Leave(u) \/ LeaveAsOwner(u)
  \/ \E t \in Users :
       \/ AddMember(u, t) \/ Kick(u, t)
       \/ Promote(u, t) \/ Demote(u, t) \/ TransferOwnership(u, t)

InviteStep(u) ==
  \/ \E i \in Invites :
       CreateInvite(u, i) \/ RevokeInvite(u, i) \/ JoinRequested(u, i)
  \/ Redeem(u) \/ Dropped(u)

QueueStep(u) ==
  \/ \E a \in 1..MaxAdds : ConsumeAdd(u, a)
  \/ \E r \in 1..MaxRemoves : ConsumeRemove(u, r)

PendingRemovesJob == \E r \in 1..MaxRemoves : MarkStale(r) \/ PruneRemoves(r)

DeviceStep(d) ==
  \/ \E last \in BOOLEAN : UploadRequested(d, last)
  \/ Upload(d) \/ RevokeDevice(d)

Next ==
  \/ \E u \in Users :
       \/ RoomStep(u) \/ InviteStep(u) \/ QueueStep(u)
       \/ Claim(u) \/ DeleteAccount(u)
  \/ \E d \in Devices : DeviceStep(d)
  \/ \E i \in Invites : ExpireInvite(i)
  \/ PendingRemovesJob

Spec == Init /\ [][Next]_vars

-----------------------------------------------------------------------------
(***************************************************************************)
(* Properties.                                                             *)
(***************************************************************************)

\* Every variable stays within its type.
TypeOK ==
  /\ roomSize \in RoomSizes
  /\ live \subseteq Users /\ devices \subseteq Devices
  /\ open \in BOOLEAN /\ owner \in Users
  /\ role \in [Users -> {None, "member", "moderator", "owner"}]
  /\ invites \in [Invites -> {"none", "valid", "over"}]
  /\ packages \in Seq(Package)
  /\ adds \in Seq([package : DOMAIN packages, consumed : BOOLEAN])
  /\ removes \in Seq([user : Users, stale : BOOLEAN, consumed : BOOLEAN])
  /\ joining \in [Users -> Invites \cup {Idle}]
  /\ uploading \in [Devices -> BOOLEAN \cup {Idle}]
  /\ handed \in [1..MaxPackages -> Nat]
  /\ joins \in [Invites -> Nat]
  /\ owed \subseteq Users

\* rooms.owner_id and the role "owner" agree through joins, leaves, handovers
\* and kicks: nobody else has the role, and the owner has it for as long as the
\* account exists.
OneOwner ==
  /\ \A u \in Users : role[u] = "owner" => u = owner
  /\ open /\ owner \in live => role[owner] = "owner"

\* A one-time package is given out once, whether it is claimed or selected
\* when its user is added, and none that is given out can be deleted.
HandedOutOnce ==
  \A p \in DOMAIN packages :
    ~packages[p].last =>
      handed[p] = (IF packages[p].state = "consumed" THEN 1 ELSE 0)

\* The room is never larger than the limit and no invite lets in more than its
\* max_uses, whichever way and however concurrently its members come in.
SeatsHold ==
  /\ Cardinality(Members) <= roomSize
  /\ \A i \in Invites : MaxUses[i] > 0 => joins[i] <= MaxUses[i]

\* Whoever was put out of the room stays on the list of pending removes until
\* a member confirms it, through the job that marks and prunes.
RemovalOwed ==
  \A u \in owed :
    \E r \in DOMAIN removes : removes[r].user = u /\ ~removes[r].consumed

\* README.md:359: "If the device exists and belongs to the user, revocation
\* executes atomically and returns HTTP 204": nothing keeps it from being
\* revoked.
Revocable == \A d \in devices : ~Held(Free(d))

\* README.md:371: "Unconsumed KeyPackages matching (user_id, client_id) are
\* deleted": no package waits for a device that was revoked.
FreePackagesHaveDevices == \A d \in Devices \ devices : Free(d) = {}

\* anonymise_user "Remove user from all room memberships".
MembersAreLive == Members \subseteq live

\* README.md:672-677: a room that loses its owner gets another.
RoomHasOwner == open => owner \in Members

=============================================================================
