------------------------- MODULE RoomMembers_proofs -------------------------
(***************************************************************************)
(* Theorems about RoomMembers, for any users, devices, invites and limits. *)
(***************************************************************************)
EXTENDS RoomMembers, NatLemmas, FiniteSetTheorems, SequenceTheorems

(***************************************************************************)
(* Operators.                                                              *)
(***************************************************************************)

\* A claim and a selection pick one of the packages there are.
LEMMA ChosenIsOne ==
  ASSUME NEW P \in SUBSET Nat, P # {}
  PROVE  Chosen(P) \in P
  <1>1. \A Q \in SUBSET Nat : Q # {} => Oldest(Q) \in Q
    <2> SUFFICES ASSUME NEW Q \in SUBSET Nat, Q # {} PROVE Oldest(Q) \in Q
      OBVIOUS
    <2>1. \E p \in Q : \A q \in Q : p <= q
      BY NatMin
    <2> QED BY <2>1 DEF Oldest
  <1>2. Normal(P) \in SUBSET P
    BY DEF Normal
  <1> QED BY <1>1, <1>2 DEF Chosen

\* The rows of a finite set, put in some order, are a sequence of rows.
LEMMA SetToSeqType ==
  ASSUME NEW S, NEW T, IsFiniteSet(S), S \subseteq T
  PROVE  SetToSeq(S) \in Seq(T)
  <1>1. Cardinality(S) \in Nat /\ ExistsBijection(1..Cardinality(S), S)
    BY FS_CardinalityType
  <1>2. \E f \in [1..Cardinality(S) -> S] : IsInjective(f)
    BY <1>1 DEF ExistsBijection, Bijection, Injection, Surjection, IsInjective
  <1>3. SetToSeq(S) \in [1..Cardinality(S) -> S]
    BY <1>2 DEF SetToSeq
  <1>4. SetToSeq(S) \in Seq(S)
    BY <1>1, <1>3, SeqDef
  <1> QED BY <1>4, SeqMonotonic

\* The domain of a sequence tells its length.
LEMMA IntervalLength ==
  ASSUME NEW m \in Nat, NEW n \in Nat, 1..m = 1..n
  PROVE  m = n
  <1>1. ~ m < n
    <2> SUFFICES ASSUME m < n PROVE FALSE
      OBVIOUS
    <2> n \in 1..n /\ n \notin 1..m
      OBVIOUS
    <2> QED OBVIOUS
  <1>2. ~ n < m
    <2> SUFFICES ASSUME n < m PROVE FALSE
      OBVIOUS
    <2> m \in 1..m /\ m \notin 1..n
      OBVIOUS
    <2> QED OBVIOUS
  <1> QED BY <1>1, <1>2

\* A sequence without its i-th element keeps the others.
LEMMA RemoveAtProperties ==
  ASSUME NEW S, NEW s \in Seq(S), NEW i \in 1..Len(s)
  PROVE  /\ RemoveAt(s, i) \in Seq(S)
         /\ \A j \in 1..Len(s) : j # i =>
              \E k \in 1..Len(RemoveAt(s, i)) : RemoveAt(s, i)[k] = s[j]
  <1> DEFINE r == RemoveAt(s, i)
  <1>1. /\ r \in Seq(S) /\ Len(r) = Len(s) - 1
        /\ \A k \in 1..(Len(s) - 1) : r[k] = IF k < i THEN s[k] ELSE s[k + 1]
    BY RemoveAtIs
  <1>2. Len(s) \in Nat /\ i \in Nat
    BY LenProperties
  <1> HIDE DEF r
  <1>3. ASSUME NEW j \in 1..Len(s), j # i PROVE \E k \in 1..Len(r) : r[k] = s[j]
    <2>1. CASE j < i
      <3> j \in 1..(Len(s) - 1)
        BY <1>2, <2>1
      <3> QED BY <1>1, <2>1
    <2>2. CASE j > i
      <3> j - 1 \in 1..(Len(s) - 1) /\ ~ j - 1 < i /\ (j - 1) + 1 = j
        BY <1>2, <2>2
      <3> QED BY <1>1
    <2> QED BY <1>2, <1>3, <2>1, <2>2
  <1> QED BY <1>1, <1>3 DEF r

(***************************************************************************)
(* Packages.                                                               *)
(***************************************************************************)

\* What a step does to the packages and the count of hand-outs: nothing, add
\* a package, hand some free ones out, or delete some free ones.
Waiting == {p \in DOMAIN packages : packages[p].state = "free"}

PackageStep ==
  \/ UNCHANGED <<packages, handed>>
  \/ \E d \in Devices, last \in BOOLEAN :
       Len(packages) < MaxPackages /\ packages' = Append(packages, New(d, last))
         /\ handed' = handed
  \/ \E P \in SUBSET Waiting : packages' = Consumed(P) /\ handed' = Given(P)
  \/ \E P \in SUBSET Waiting : packages' = Deleted(P) /\ handed' = handed

Stored == packages \in Seq(Package)

\* The free packages of a device or a user are free packages.
LEMMA FreeWaits ==
  /\ \A d : Free(d) \in SUBSET Waiting
  /\ \A u : FreeOf(u) \in SUBSET Waiting
  BY DEF Free, FreeOf, Waiting

\* Key packages that wait are named by numbers.
LEMMA WaitingNumbers == Stored => Waiting \in SUBSET Nat
  BY LenProperties DEF Stored, Waiting

\* What a selection takes was waiting.
LEMMA SelectedWaits ==
  ASSUME Stored, NEW t
  PROVE  Selected(t) \in SUBSET Waiting
  <1> SUFFICES ASSUME NEW d, Free(d) # {} PROVE Chosen(Free(d)) \in Waiting
    BY DEF Selected
  <1>1. Free(d) \in SUBSET Nat
    BY FreeWaits, WaitingNumbers
  <1> QED BY <1>1, FreeWaits, ChosenIsOne

\* What a step may do to the key packages.
LEMMA PackageSteps ==
  ASSUME Stored, uploading \in [Devices -> BOOLEAN \cup {Idle}], [Next]_vars
  PROVE  PackageStep
  <1>1. ASSUME NEW u \in Users, RoomStep(u) PROVE PackageStep
    <2>1. ASSUME NEW t \in Users, AddMember(u, t) PROVE PackageStep
      BY <2>1, SelectedWaits DEF AddMember, PackageStep
    <2>2. CASE ~ \E t \in Users : AddMember(u, t)
      BY <1>1, <2>2 DEF RoomStep, DeleteRoom, LeaveLast, RoomGone, Leave, LeaveAsOwner, Kick,
                        Promote, Demote, SetRole, TransferOwnership, PackageStep
    <2> QED BY <2>1, <2>2
  <1>2. ASSUME NEW u \in Users, InviteStep(u) PROVE PackageStep
    BY <1>2 DEF InviteStep, CreateInvite, RevokeInvite, JoinRequested, Redeem, Dropped,
                PackageStep
  <1>3. ASSUME NEW u \in Users, QueueStep(u) PROVE PackageStep
    BY <1>3 DEF QueueStep, ConsumeAdd, ConsumeRemove, PackageStep
  <1>4. ASSUME NEW u \in Users, Claim(u) PROVE PackageStep
    <2>1. {Chosen(FreeOf(u))} \in SUBSET Waiting
      BY <1>4, FreeWaits, WaitingNumbers, ChosenIsOne DEF Claim
    <2> QED BY <1>4, <2>1 DEF Claim, PackageStep
  <1>5. ASSUME NEW u \in Users, DeleteAccount(u) PROVE PackageStep
    BY <1>5, FreeWaits DEF DeleteAccount, PackageStep
  <1>6. ASSUME NEW d \in Devices, DeviceStep(d) PROVE PackageStep
    <2>1. CASE Upload(d)
      <3>1. uploading[d] \in BOOLEAN
        BY <2>1 DEF Upload
      <3> QED BY <2>1, <3>1 DEF Upload, PackageStep
    <2>2. CASE RevokeDevice(d)
      BY <2>2, FreeWaits DEF RevokeDevice, PackageStep
    <2>3. CASE \E last \in BOOLEAN : UploadRequested(d, last)
      BY <2>3 DEF UploadRequested, PackageStep
    <2> QED BY <1>6, <2>1, <2>2, <2>3 DEF DeviceStep
  <1>7. CASE (\E i \in Invites : ExpireInvite(i)) \/ PendingRemovesJob
    BY <1>7 DEF ExpireInvite, PendingRemovesJob, MarkStale, PruneRemoves, PackageStep
  <1>8. CASE UNCHANGED vars
    BY <1>8 DEF vars, PackageStep
  <1> QED BY <1>1, <1>2, <1>3, <1>4, <1>5, <1>6, <1>7, <1>8 DEF Next

\* Such a step keeps the rows' types, and no package disappears.
LEMMA PackageTypes ==
  ASSUME Stored, handed \in [1..MaxPackages -> Nat], PackageStep
  PROVE  /\ packages' \in Seq(Package)
         /\ Len(packages) <= Len(packages')
         /\ handed' \in [1..MaxPackages -> Nat]
  <1>0. /\ Len(packages) \in Nat /\ DOMAIN packages = 1..Len(packages)
        /\ \A p \in 1..Len(packages) : packages[p] \in Package
    BY LenProperties, ElementOfSeq DEF Stored
  <1>1. ASSUME NEW f \in [1..Len(packages) -> Package]
        PROVE  f \in Seq(Package) /\ Len(f) = Len(packages)
    <2>1. f \in Seq(Package)
      BY <1>0, SeqDef
    <2> QED BY <1>0, <2>1, LenProperties
  <1>2. ASSUME NEW d \in Devices, NEW last \in BOOLEAN,
               packages' = Append(packages, New(d, last)), handed' = handed
        PROVE  packages' \in Seq(Package) /\ Len(packages) <= Len(packages')
    <2>1. New(d, last) \in Package
      BY DEF New, Package, PackageState
    <2> QED BY <1>0, <1>2, <2>1, AppendProperties DEF Stored
  <1>3. ASSUME NEW P \in SUBSET Waiting, packages' = Consumed(P) /\ handed' = Given(P)
        PROVE  /\ packages' \in Seq(Package) /\ Len(packages) <= Len(packages')
               /\ handed' \in [1..MaxPackages -> Nat]
    <2>1. Consumed(P) \in [1..Len(packages) -> Package]
      BY <1>0 DEF Consumed, Package, PackageState
    <2>2. Given(P) \in [1..MaxPackages -> Nat]
      BY DEF Given
    <2> QED BY <1>0, <1>1, <1>3, <2>1, <2>2
  <1>4. ASSUME NEW P \in SUBSET Waiting, packages' = Deleted(P)
        PROVE  packages' \in Seq(Package) /\ Len(packages) <= Len(packages')
    <2>1. Deleted(P) \in [1..Len(packages) -> Package]
      BY <1>0 DEF Deleted, Package, PackageState
    <2> QED BY <1>0, <1>1, <1>4, <2>1
  <1> QED BY <1>0, <1>2, <1>3, <1>4 DEF PackageStep, Stored

(***************************************************************************)
(* Types.                                                                  *)
(***************************************************************************)

AddRow == [package : DOMAIN packages, consumed : BOOLEAN]
RemoveRow == [user : Users, stale : BOOLEAN, consumed : BOOLEAN]

\* The two queues.
LEMMA AddTypes ==
  ASSUME TypeOK, [Next]_vars
  PROVE  adds' \in Seq(AddRow')
  <1> USE DEF TypeOK
  <1>1. adds \in Seq(AddRow)
    BY DEF AddRow
  <1>2. DOMAIN packages \subseteq DOMAIN packages'
    <2>1. /\ packages' \in Seq(Package)
          /\ Len(packages) <= Len(packages')
      BY PackageSteps, PackageTypes DEF Stored
    <2>2. Len(packages) \in Nat /\ DOMAIN packages = 1..Len(packages)
      BY LenProperties
    <2>3. Len(packages') \in Nat /\ DOMAIN packages' = 1..Len(packages')
      BY <2>1, LenProperties
    <2> QED BY <2>1, <2>2, <2>3
  <1>3. AddRow \subseteq AddRow'
    BY <1>2 DEF AddRow
  <1>4. ASSUME adds' \in Seq(AddRow) PROVE adds' \in Seq(AddRow')
    BY <1>3, <1>4, SeqMonotonic
  <1>5. <<>> \in Seq(AddRow)
    BY EmptySeq
  <1>6. ASSUME NEW u \in Users, NEW t \in Users, AddMember(u, t)
        PROVE  adds' \in Seq(AddRow)
    <2> DEFINE P == Selected(t)
               f == [p \in P |-> [package |-> p, consumed |-> FALSE]]
               rows == {[package |-> p, consumed |-> FALSE] : p \in P}
    <2>1. P \in SUBSET (1..Len(packages)) /\ Len(packages) \in Nat
      BY SelectedWaits, LenProperties DEF Stored, Waiting
    <2>2. IsFiniteSet(P)
      <3> HIDE DEF P
      <3>1. IsFiniteSet(1..Len(packages))
        BY <2>1, FS_Interval, 1 \in Int
      <3> QED BY <2>1, <3>1, FS_Subset
    <2>3. f \in Surjection(P, rows)
      BY DEF Surjection
    <2>4. IsFiniteSet(rows)
      <3> HIDE DEF f, rows
      <3> QED BY <2>2, <2>3, FS_Surjection
    <2>5. rows \subseteq AddRow
      <3> SUFFICES ASSUME NEW p \in P PROVE [package |-> p, consumed |-> FALSE] \in AddRow
        OBVIOUS
      <3>1. p \in DOMAIN packages
        BY SelectedWaits DEF Stored, Waiting
      <3> QED BY <3>1 DEF AddRow
    <2>6. QueuedAdds(P) \in Seq(AddRow)
      <3> HIDE DEF P
      <3>1. SetToSeq(rows) \in Seq(AddRow)
        <4> HIDE DEF rows
        <4> QED BY <2>4, <2>5, SetToSeqType
      <3> QED BY <3>1 DEF QueuedAdds
    <2>7. adds' = adds \o QueuedAdds(P)
      BY <1>6 DEF AddMember
    <2> HIDE DEF P
    <2> QED BY <1>1, <2>6, <2>7, ConcatProperties
  <1>7. ASSUME NEW u \in Users, RoomStep(u), ~ \E t \in Users : AddMember(u, t)
        PROVE  adds' \in Seq(AddRow)
    <2>1. adds' = adds \/ adds' = <<>>
      BY <1>7 DEF RoomStep, DeleteRoom, LeaveLast, RoomGone, Leave, LeaveAsOwner, Kick,
                  Promote, Demote, SetRole, TransferOwnership
    <2> QED BY <1>1, <1>5, <2>1
  <1>8. ASSUME NEW u \in Users, QueueStep(u) PROVE adds' \in Seq(AddRow)
    <2>1. ASSUME NEW a, ConsumeAdd(u, a) PROVE adds' \in Seq(AddRow)
      <3>1. a \in 1..Len(adds) /\ adds[a] \in AddRow
        BY <1>1, <2>1, LenProperties, ElementOfSeq DEF ConsumeAdd
      <3>2. [adds[a] EXCEPT !.consumed = TRUE] \in AddRow
        BY <3>1 DEF AddRow
      <3>3. adds' = [adds EXCEPT ![a] = [adds[a] EXCEPT !.consumed = TRUE]]
        BY <2>1 DEF ConsumeAdd
      <3> QED BY <1>1, <3>1, <3>2, <3>3, ExceptSeq
    <2>2. ASSUME NEW r, ConsumeRemove(u, r) PROVE adds' \in Seq(AddRow)
      BY <1>1, <2>2 DEF ConsumeRemove
    <2> QED BY <1>8, <2>1, <2>2 DEF QueueStep
  <1>9. ASSUME NEW u \in Users, InviteStep(u) \/ Claim(u) \/ DeleteAccount(u)
        PROVE  adds' = adds
    BY <1>9 DEF InviteStep, CreateInvite, RevokeInvite, JoinRequested, Redeem, Dropped,
                Claim, DeleteAccount
  <1>10. ASSUME NEW d \in Devices, DeviceStep(d) PROVE adds' = adds
    BY <1>10 DEF DeviceStep, UploadRequested, Upload, RevokeDevice
  <1>11. CASE (\E i \in Invites : ExpireInvite(i)) \/ PendingRemovesJob
    BY <1>1, <1>4, <1>11 DEF ExpireInvite, PendingRemovesJob, MarkStale, PruneRemoves
  <1>12. CASE UNCHANGED vars
    BY <1>1, <1>4, <1>12 DEF vars
  <1> QED BY <1>1, <1>4, <1>6, <1>7, <1>8, <1>9, <1>10, <1>11, <1>12 DEF Next

\* What a step does to the pending removes.
RemoveStep ==
  \/ removes' = removes /\ owed' = owed
  \/ removes' = <<>> /\ owed' = {}
  \/ \E u \in Users : removes' = QueueRemove(u) /\ owed' \subseteq owed \cup {u}
  \/ \E r \in 1..Len(removes) :
       \/ /\ removes' = [removes EXCEPT ![r].consumed = TRUE]
          /\ owed' = owed \ {removes[r].user}
       \/ removes' = [removes EXCEPT ![r].stale = TRUE] /\ owed' = owed
       \/ removes[r].consumed /\ removes' = RemoveAt(removes, r) /\ owed' = owed

\* What a step may do to the pending removals.
LEMMA RemoveSteps ==
  ASSUME TypeOK, [Next]_vars
  PROVE  RemoveStep
  <1> USE DEF RemoveStep
  <1>0. DOMAIN removes = 1..Len(removes)
    BY LenProperties DEF TypeOK
  <1>1. ASSUME NEW u \in Users, RoomStep(u) PROVE RemoveStep
    BY <1>1 DEF RoomStep, AddMember, DeleteRoom, LeaveLast, RoomGone, Leave, LeaveAsOwner,
                Kick, Promote, Demote, SetRole, TransferOwnership
  <1>2. ASSUME NEW u \in Users, InviteStep(u) \/ Claim(u) PROVE RemoveStep
    BY <1>2 DEF InviteStep, CreateInvite, RevokeInvite, JoinRequested, Redeem, Dropped, Claim
  <1>3. ASSUME NEW u \in Users, QueueStep(u) PROVE RemoveStep
    BY <1>0, <1>3 DEF QueueStep, ConsumeAdd, ConsumeRemove
  <1>4. ASSUME NEW u \in Users, DeleteAccount(u) PROVE RemoveStep
    BY <1>4 DEF DeleteAccount
  <1>5. ASSUME NEW d \in Devices, DeviceStep(d) PROVE RemoveStep
    BY <1>5, RoomMembersAssumption DEF DeviceStep, UploadRequested, Upload, RevokeDevice
  <1>6. ASSUME NEW i \in Invites, ExpireInvite(i) PROVE RemoveStep
    BY <1>6 DEF ExpireInvite
  <1>7. CASE PendingRemovesJob
    BY <1>0, <1>7 DEF PendingRemovesJob, MarkStale, PruneRemoves
  <1>8. CASE UNCHANGED vars
    BY <1>8 DEF vars
  <1> QED BY <1>1, <1>2, <1>3, <1>4, <1>5, <1>6, <1>7, <1>8 DEF Next

\* The pending removals stay well formed.
LEMMA RemoveTypes ==
  ASSUME removes \in Seq(RemoveRow), RemoveStep
  PROVE  removes' \in Seq(RemoveRow)
  <1>1. <<>> \in Seq(RemoveRow)
    BY EmptySeq
  <1>2. ASSUME NEW u \in Users PROVE QueueRemove(u) \in Seq(RemoveRow)
    <2>1. [user |-> u, stale |-> FALSE, consumed |-> FALSE] \in RemoveRow
      BY DEF RemoveRow
    <2> QED BY <2>1, AppendProperties DEF QueueRemove
  <1>3. ASSUME NEW r \in 1..Len(removes)
        PROVE  /\ [removes EXCEPT ![r].consumed = TRUE] \in Seq(RemoveRow)
               /\ [removes EXCEPT ![r].stale = TRUE] \in Seq(RemoveRow)
               /\ RemoveAt(removes, r) \in Seq(RemoveRow)
    <2>1. removes[r] \in RemoveRow
      BY ElementOfSeq
    <2>2. /\ [removes[r] EXCEPT !.consumed = TRUE] \in RemoveRow
          /\ [removes[r] EXCEPT !.stale = TRUE] \in RemoveRow
      BY <2>1 DEF RemoveRow
    <2> QED BY <2>2, ExceptSeq, RemoveAtProperties
  <1> QED BY <1>1, <1>2, <1>3 DEF RemoveStep

\* The members' roles and all else.
Plain ==
  /\ roomSize \in RoomSizes
  /\ live \subseteq Users /\ devices \subseteq Devices
  /\ open \in BOOLEAN /\ owner \in Users
  /\ role \in [Users -> {None, "member", "moderator", "owner"}]
  /\ invites \in [Invites -> {"none", "valid", "over"}]
  /\ joining \in [Users -> Invites \cup {Idle}]
  /\ uploading \in [Devices -> BOOLEAN \cup {Idle}]
  /\ joins \in [Invites -> Nat]
  /\ owed \subseteq Users

\* The variables that are neither sequences nor packages keep their types.
LEMMA PlainTypes ==
  ASSUME TypeOK, [Next]_vars
  PROVE  Plain'
  <1> USE DEF TypeOK, Plain
  <1>1. ASSUME NEW u \in Users, RoomStep(u) PROVE Plain'
    <2>1. CASE DeleteRoom(u) \/ LeaveLast(u)
      BY <2>1, ZenonT(60) DEF DeleteRoom, LeaveLast, RoomGone
    <2>2. CASE Leave(u) \/ LeaveAsOwner(u)
      BY <2>2 DEF Leave, LeaveAsOwner, Heirs, Members
    <2>3. ASSUME NEW t \in Users, AddMember(u, t) \/ Kick(u, t) PROVE Plain'
      BY <2>3 DEF AddMember, Kick
    <2>4. ASSUME NEW t \in Users, Promote(u, t) \/ Demote(u, t) \/ TransferOwnership(u, t)
          PROVE  Plain'
      BY <2>4 DEF Promote, Demote, SetRole, TransferOwnership
    <2> QED BY <1>1, <2>1, <2>2, <2>3, <2>4 DEF RoomStep
  <1>2. ASSUME NEW u \in Users, InviteStep(u) PROVE Plain'
    <2>1. CASE Redeem(u)
      <3> DEFINE i == joining[u]
      <3>1. i \in Invites /\ joins[i] \in Nat
        BY <2>1 DEF Redeem
      <3>2. /\ role' = role \/ role' = [role EXCEPT ![u] = "member"]
            /\ joins' = joins \/ joins' = [joins EXCEPT ![i] = @ + 1]
            /\ joining' = [joining EXCEPT ![u] = Idle]
            /\ UNCHANGED <<live, devices, open, owner, invites, uploading, owed>>
            /\ UNCHANGED roomSize
        BY <2>1 DEF Redeem
      <3>3. joins' \in [Invites -> Nat]
        <4> HIDE DEF i
        <4>1. joins \in [Invites -> Nat] /\ joins[i] + 1 \in Nat
          BY <3>1
        <4> HIDE DEF Plain, TypeOK
        <4> QED BY <3>2, <4>1
      <3>4. role' \in [Users -> {None, "member", "moderator", "owner"}]
        <4>1. role \in [Users -> {None, "member", "moderator", "owner"}]
          OBVIOUS
        <4> HIDE DEF Plain, TypeOK, i
        <4> QED BY <3>2, <4>1
      <3>5. joining' \in [Users -> Invites \cup {Idle}]
        <4>1. joining \in [Users -> Invites \cup {Idle}]
          OBVIOUS
        <4> HIDE DEF Plain, TypeOK, i
        <4> QED BY <3>2, <4>1
      <3> HIDE DEF i
      <3> QED BY <3>2, <3>3, <3>4, <3>5
    <2>2. CASE Dropped(u)
      BY <2>2 DEF Dropped
    <2>3. ASSUME NEW i \in Invites, CreateInvite(u, i) \/ RevokeInvite(u, i) \/ JoinRequested(u, i)
          PROVE  Plain'
      BY <2>3 DEF CreateInvite, RevokeInvite, JoinRequested
    <2> QED BY <1>2, <2>1, <2>2, <2>3 DEF InviteStep
  <1>3. ASSUME NEW u \in Users, QueueStep(u) \/ Claim(u) \/ DeleteAccount(u) PROVE Plain'
    BY <1>3 DEF QueueStep, ConsumeAdd, ConsumeRemove, Claim, DeleteAccount
  <1>4. ASSUME NEW d \in Devices, DeviceStep(d) PROVE Plain'
    BY <1>4 DEF DeviceStep, UploadRequested, Upload, RevokeDevice
  <1>5. CASE (\E i \in Invites : ExpireInvite(i)) \/ PendingRemovesJob
    BY <1>5 DEF ExpireInvite, PendingRemovesJob, MarkStale, PruneRemoves
  <1>6. CASE UNCHANGED vars
    BY <1>6 DEF vars
  <1> QED BY <1>1, <1>2, <1>3, <1>4, <1>5, <1>6 DEF Next

\* The types hold at the start,
LEMMA TypeInit == Init => TypeOK
  <1> SUFFICES ASSUME Init PROVE TypeOK
    OBVIOUS
  <1>1. \A S : <<>> \in Seq(S)
    BY EmptySeq
  <1> QED BY <1>1, RoomMembersAssumption DEF Init, TypeOK, None

\* and every step keeps them.
LEMMA TypeNext == TypeOK /\ [Next]_vars => TypeOK'
  <1> SUFFICES ASSUME TypeOK, [Next]_vars PROVE TypeOK'
    OBVIOUS
  <1>1. packages' \in Seq(Package) /\ handed' \in [1..MaxPackages -> Nat]
    BY PackageSteps, PackageTypes DEF TypeOK, Stored
  <1>2. removes' \in Seq(RemoveRow)
    BY RemoveSteps, RemoveTypes DEF TypeOK, RemoveRow
  <1> QED BY <1>1, <1>2, AddTypes, PlainTypes DEF TypeOK, Plain, AddRow, RemoveRow

\* Every variable stays within its type, for any number of users, devices and
\* invites (the handlers of rooms.rs, room_invites.rs and key_packages.rs).
THEOREM TypeCorrect == Spec => []TypeOK
  BY TypeInit, TypeNext, PTL DEF Spec

(***************************************************************************)
(* The owner.                                                              *)
(***************************************************************************)

\* The room has one owner when it is created,
LEMMA OwnerInit == Init => OneOwner
  BY RoomMembersAssumption DEF Init, OneOwner, None

\* and every step leaves it one.
LEMMA OwnerNext == TypeOK /\ OneOwner /\ [Next]_vars => OneOwner'
  <1> SUFFICES ASSUME TypeOK, OneOwner, [Next]_vars PROVE OneOwner'
    OBVIOUS
  <1> USE DEF OneOwner
  <1>0. /\ role \in [Users -> {None, "member", "moderator", "owner"}]
        /\ owner \in Users /\ live \subseteq Users
        /\ None # "owner" /\ None # "member" /\ None # "moderator"
    BY DEF TypeOK, None
  <1>1. ASSUME NEW u \in Users, RoomStep(u) PROVE OneOwner'
    <2>1. CASE DeleteRoom(u) \/ LeaveLast(u)
      BY <1>0, <2>1 DEF DeleteRoom, LeaveLast, RoomGone
    <2>2. CASE Leave(u)
      BY <1>0, <2>2 DEF Leave
    <2>3. CASE LeaveAsOwner(u)
      <3>1. PICK v \in Heirs(u) : role' = [role EXCEPT ![u] = None, ![v] = "owner"] /\ owner' = v
        BY <2>3 DEF LeaveAsOwner
      <3>2. v \in Users /\ v # u /\ u = owner
        BY <2>3 DEF LeaveAsOwner, Heirs, Members
      <3> QED BY <1>0, <3>1, <3>2
    <2>4. ASSUME NEW t \in Users, AddMember(u, t) PROVE OneOwner'
      BY <1>0, <2>4 DEF AddMember
    <2>5. ASSUME NEW t \in Users, Kick(u, t) PROVE OneOwner'
      BY <1>0, <2>5 DEF Kick
    <2>6. ASSUME NEW t \in Users, Promote(u, t) \/ Demote(u, t) PROVE OneOwner'
      BY <1>0, <2>6 DEF Promote, Demote, SetRole
    <2>7. ASSUME NEW t \in Users, TransferOwnership(u, t) PROVE OneOwner'
      BY <1>0, <2>7 DEF TransferOwnership
    <2> QED BY <1>1, <2>1, <2>2, <2>3, <2>4, <2>5, <2>6, <2>7 DEF RoomStep
  <1>2. ASSUME NEW u \in Users, InviteStep(u) PROVE OneOwner'
    <2>1. CASE Redeem(u)
      <3>1. owner' = owner /\ open' = open /\ live' = live
            /\ (role' = role \/ (role[u] = None /\ role' = [role EXCEPT ![u] = "member"]))
        BY <2>1 DEF Redeem
      <3> QED BY <1>0, <3>1
    <2>2. CASE ~ Redeem(u)
      BY <1>2, <2>2 DEF InviteStep, CreateInvite, RevokeInvite, JoinRequested, Dropped
    <2> QED BY <2>1, <2>2
  <1>3. ASSUME NEW u \in Users, QueueStep(u) \/ Claim(u) PROVE OneOwner'
    BY <1>3 DEF QueueStep, ConsumeAdd, ConsumeRemove, Claim
  <1>4. ASSUME NEW u \in Users, DeleteAccount(u) PROVE OneOwner'
    BY <1>0, <1>4 DEF DeleteAccount
  <1>5. ASSUME NEW d \in Devices, DeviceStep(d) PROVE OneOwner'
    BY <1>5 DEF DeviceStep, UploadRequested, Upload, RevokeDevice
  <1>6. CASE (\E i \in Invites : ExpireInvite(i)) \/ PendingRemovesJob
    BY <1>6 DEF ExpireInvite, PendingRemovesJob, MarkStale, PruneRemoves
  <1>7. CASE UNCHANGED vars
    BY <1>7 DEF vars
  <1> QED BY <1>1, <1>2, <1>3, <1>4, <1>5, <1>6, <1>7 DEF Next

\* rooms.owner_id and the role "owner" name the same member through joins,
\* leaves, handovers and kicks (leave_room, kick_member, transfer_ownership of
\* rooms.rs), in a room of any size.
THEOREM OwnerIsOne == Spec => []OneOwner
  BY OwnerInit, OwnerNext, TypeCorrect, PTL DEF Spec

(***************************************************************************)
(* One-time packages.                                                      *)
(***************************************************************************)

\* What is not stored yet has not been handed out.
HandedOutInv ==
  /\ HandedOutOnce
  /\ Len(packages) <= MaxPackages
  /\ \A p \in 1..MaxPackages : p > Len(packages) => handed[p] = 0

\* No package has been handed out at the start,
LEMMA HandedInit == Init => HandedOutInv
  BY RoomMembersAssumption DEF Init, HandedOutInv, HandedOutOnce

\* and every step hands out only packages that still wait.
LEMMA HandedNext == TypeOK /\ HandedOutInv /\ [Next]_vars => HandedOutInv'
  <1> SUFFICES ASSUME TypeOK, HandedOutInv, [Next]_vars PROVE HandedOutInv'
    OBVIOUS
  <1>0. /\ Len(packages) \in Nat /\ DOMAIN packages = 1..Len(packages)
        /\ \A p \in 1..Len(packages) : packages[p] \in Package
        /\ handed \in [1..MaxPackages -> Nat] /\ MaxPackages \in Nat
    BY RoomMembersAssumption, LenProperties, ElementOfSeq DEF TypeOK
  <1>1. PackageStep /\ packages' \in Seq(Package)
    BY PackageSteps, PackageTypes DEF TypeOK, Stored
  <1>2. DOMAIN packages' = 1..Len(packages') /\ Len(packages') \in Nat
    BY <1>1, LenProperties
  <1>3. CASE UNCHANGED <<packages, handed>>
    BY <1>3 DEF HandedOutInv, HandedOutOnce
  <1>4. ASSUME NEW d \in Devices, NEW last \in BOOLEAN, Len(packages) < MaxPackages,
               packages' = Append(packages, New(d, last)), handed' = handed
        PROVE  HandedOutInv'
    <2>1. /\ Len(packages') = Len(packages) + 1
          /\ \A p \in 1..Len(packages) : packages'[p] = packages[p]
          /\ packages'[Len(packages) + 1] = New(d, last)
      BY <1>4, AppendProperties DEF TypeOK, New, Package, PackageState
    <2>2. New(d, last).state = "free"
      BY DEF New
    <2>3. Len(packages) + 1 \in 1..MaxPackages /\ handed[Len(packages) + 1] = 0
      BY <1>0, <1>4 DEF HandedOutInv
    <2>4. ASSUME NEW p \in 1..(Len(packages) + 1), ~ packages'[p].last
          PROVE  handed'[p] = (IF packages'[p].state = "consumed" THEN 1 ELSE 0)
      <3>1. CASE p = Len(packages) + 1
        BY <1>4, <2>1, <2>2, <2>3, <3>1
      <3>2. CASE p \in 1..Len(packages)
        BY <1>0, <1>4, <2>1, <2>4, <3>2 DEF HandedOutInv, HandedOutOnce
      <3> QED BY <1>0, <3>1, <3>2
    <2>5. \A p \in 1..MaxPackages : p > Len(packages) + 1 => handed'[p] = 0
      BY <1>0, <1>4 DEF HandedOutInv
    <2> QED BY <1>0, <1>2, <1>4, <2>1, <2>4, <2>5 DEF HandedOutInv, HandedOutOnce
  <1>5. ASSUME NEW P \in SUBSET Waiting, packages' = Consumed(P), handed' = Given(P)
        PROVE  HandedOutInv'
    <2>1. DOMAIN packages' = DOMAIN packages
      BY <1>5 DEF Consumed
    <2>2. Len(packages') = Len(packages)
      BY <1>0, <1>2, <2>1, IntervalLength
    <2>3. ASSUME NEW p \in 1..Len(packages), ~ packages'[p].last
          PROVE  handed'[p] = (IF packages'[p].state = "consumed" THEN 1 ELSE 0)
      <3>0. p \in 1..MaxPackages /\ handed'[p] = handed[p] + IF p \in Normal(P) THEN 1 ELSE 0
        BY <1>0, <1>5 DEF HandedOutInv, Given
      <3>1. CASE p \in Normal(P)
        <4>1. packages'[p] = [packages[p] EXCEPT !.state = "consumed"]
          BY <1>0, <1>5, <3>1 DEF Consumed
        <4>2. packages[p].state = "free" /\ ~ packages[p].last
          BY <3>1 DEF Normal, Waiting
        <4>3. packages'[p].state = "consumed"
          BY <1>0, <4>1 DEF Package
        <4>4. handed[p] = 0
          BY <1>0, <4>2 DEF HandedOutInv, HandedOutOnce
        <4> QED BY <3>0, <3>1, <4>3, <4>4
      <3>2. CASE p \notin Normal(P)
        <4>1. packages'[p] = packages[p]
          BY <1>0, <1>5, <3>2 DEF Consumed
        <4>2. handed[p] = (IF packages[p].state = "consumed" THEN 1 ELSE 0)
          BY <1>0, <2>3, <4>1 DEF HandedOutInv, HandedOutOnce
        <4> QED BY <3>0, <3>2, <4>1, <4>2
      <3> QED BY <3>1, <3>2
    <2>4. ASSUME NEW p \in 1..MaxPackages, p > Len(packages) PROVE handed'[p] = 0
      <3>1. p \notin Normal(P)
        BY <1>0, <2>4 DEF Normal, Waiting
      <3>2. handed'[p] = handed[p] + 0
        BY <1>0, <1>5, <3>1 DEF Given
      <3> QED BY <1>0, <2>4, <3>2 DEF HandedOutInv
    <2> QED BY <1>0, <2>1, <2>2, <2>3, <2>4, SMTT(60) DEF HandedOutInv, HandedOutOnce
  <1>6. ASSUME NEW P \in SUBSET Waiting, packages' = Deleted(P), handed' = handed
        PROVE  HandedOutInv'
    <2>1. DOMAIN packages' = DOMAIN packages
      BY <1>6 DEF Deleted
    <2>2. Len(packages') = Len(packages)
      BY <1>0, <1>2, <2>1, IntervalLength
    <2>3. ASSUME NEW p \in 1..Len(packages)
          PROVE  /\ packages'[p].last = packages[p].last
                 /\ packages'[p].state = "consumed" <=> packages[p].state = "consumed"
      <3>1. CASE p \in P
        <4>1. packages'[p] = [packages[p] EXCEPT !.state = "deleted"]
          BY <1>0, <1>6, <3>1 DEF Deleted
        <4>2. packages[p].state = "free"
          BY <3>1 DEF Waiting
        <4> QED BY <1>0, <4>1, <4>2 DEF Package
      <3>2. CASE p \notin P
        BY <1>0, <1>6, <3>2 DEF Deleted
      <3> QED BY <3>1, <3>2
    <2> QED BY <1>0, <1>6, <2>1, <2>2, <2>3, SMTT(60) DEF HandedOutInv, HandedOutOnce
  <1> QED BY <1>1, <1>3, <1>4, <1>5, <1>6 DEF PackageStep

\* A one-time key package is given out once, whether somebody claims it or an
\* add selects it, and never deleted afterwards (claim_key_package of
\* key_packages.rs, add_member of rooms.rs), for any number of devices.
THEOREM PackageOnce == Spec => []HandedOutOnce
  <1>1. Spec => []HandedOutInv
    BY HandedInit, HandedNext, TypeCorrect, PTL DEF Spec
  <1>2. HandedOutInv => HandedOutOnce
    BY DEF HandedOutInv
  <1> QED BY <1>1, <1>2, PTL

(***************************************************************************)
(* The room's size and the invites' uses.                                  *)
(***************************************************************************)

\* Members only come one at a time, while there is a seat, and only through an
\* invite with a use left.
SeatStep ==
  /\ roomSize' = roomSize
  /\ \/ Members' \subseteq Members
     \/ \E t \in Users \ Members :
          Members' = Members \cup {t} /\ Cardinality(Members) < roomSize
  /\ \/ joins' = joins
     \/ \E i \in Invites :
          /\ joins' = [joins EXCEPT ![i] = @ + 1]
          /\ MaxUses[i] > 0 => joins[i] < MaxUses[i]

\* What a step may do to the members and to the joins of the invites.
LEMMA SeatSteps ==
  ASSUME TypeOK, [Next]_vars
  PROVE  SeatStep
  <1>0. /\ role \in [Users -> {None, "member", "moderator", "owner"}]
        /\ owner \in Users
        /\ None # "owner" /\ None # "member" /\ None # "moderator"
    BY DEF TypeOK, None
  <1>1. ASSUME role' = role PROVE Members' = Members
    BY <1>1 DEF Members
  <1>2. ASSUME NEW u \in Users, role' = [role EXCEPT ![u] = None]
        PROVE  Members' \subseteq Members
    BY <1>0, <1>2 DEF Members
  <1>3. ASSUME NEW u \in Users, NEW v \in Members, NEW x, NEW y,
               role' = [role EXCEPT ![u] = x, ![v] = y] \/ role' = [role EXCEPT ![v] = y, ![u] = x],
               x = None \/ u \in Members
        PROVE  Members' \subseteq Members
    BY <1>0, <1>3 DEF Members
  <1>4. ASSUME NEW t \in Users, role[t] = None, role' = [role EXCEPT ![t] = "member"],
               Cardinality(Members) < roomSize
        PROVE  \E v \in Users \ Members :
                 Members' = Members \cup {v} /\ Cardinality(Members) < roomSize
    <2>1. t \notin Members /\ Members' = Members \cup {t}
      BY <1>0, <1>4 DEF Members
    <2> QED BY <1>4, <2>1
  <1>5. ASSUME NEW u \in Users, RoomStep(u) PROVE SeatStep
    <2>1. CASE DeleteRoom(u) \/ LeaveLast(u)
      <3>1. role' = [v \in Users |-> None]
        BY <2>1 DEF DeleteRoom, LeaveLast, RoomGone
      <3>2. Members' \subseteq Members
        BY <3>1 DEF Members
      <3> QED BY <2>1, <3>2 DEF DeleteRoom, LeaveLast, RoomGone, SeatStep
    <2>2. CASE Leave(u)
      BY <1>2, <2>2 DEF Leave, SeatStep
    <2>3. CASE LeaveAsOwner(u)
      <3>1. PICK v \in Heirs(u) : role' = [role EXCEPT ![u] = None, ![v] = "owner"]
        BY <2>3 DEF LeaveAsOwner
      <3>2. v \in Members
        BY DEF Heirs
      <3>3. Members' \subseteq Members
        BY <1>3, <3>1, <3>2
      <3> QED BY <2>3, <3>3 DEF LeaveAsOwner, SeatStep
    <2>4. ASSUME NEW t \in Users, AddMember(u, t) PROVE SeatStep
      BY <1>4, <2>4 DEF AddMember, SeatStep
    <2>5. ASSUME NEW t \in Users, Kick(u, t) PROVE SeatStep
      BY <1>2, <2>5 DEF Kick, SeatStep
    <2>6. ASSUME NEW t \in Users, Promote(u, t) \/ Demote(u, t) PROVE SeatStep
      <3>1. Members' \subseteq Members
        BY <1>0, <2>6 DEF Promote, Demote, SetRole, Members
      <3> QED BY <2>6, <3>1 DEF Promote, Demote, SetRole, SeatStep
    <2>7. ASSUME NEW t \in Users, TransferOwnership(u, t) PROVE SeatStep
      <3>1. Members' \subseteq Members
        BY <1>0, <2>7 DEF TransferOwnership, Members
      <3> QED BY <2>7, <3>1 DEF TransferOwnership, SeatStep
    <2> QED BY <1>5, <2>1, <2>2, <2>3, <2>4, <2>5, <2>6, <2>7 DEF RoomStep
  <1>6. ASSUME NEW u \in Users, InviteStep(u) PROVE SeatStep
    <2>1. CASE Redeem(u)
      <3> DEFINE i == joining[u]
      <3>1. CASE Usable(i) /\ role[u] = None /\ Cardinality(Members) < roomSize
        <4>1. /\ role' = [role EXCEPT ![u] = "member"]
              /\ joins' = [joins EXCEPT ![i] = @ + 1]
              /\ i \in Invites /\ roomSize' = roomSize
          BY <2>1, <3>1 DEF Redeem, TypeOK
        <4> QED BY <1>4, <3>1, <4>1 DEF SeatStep, Usable
      <3>2. CASE ~ (Usable(i) /\ role[u] = None /\ Cardinality(Members) < roomSize)
        BY <1>1, <2>1, <3>2 DEF Redeem, SeatStep
      <3> QED BY <3>1, <3>2
    <2>2. CASE ~ Redeem(u)
      BY <1>1, <1>6, <2>2 DEF InviteStep, CreateInvite, RevokeInvite, JoinRequested, Dropped,
                              SeatStep
    <2> QED BY <2>1, <2>2
  <1>7. ASSUME NEW u \in Users, QueueStep(u) \/ Claim(u) PROVE SeatStep
    BY <1>1, <1>7 DEF QueueStep, ConsumeAdd, ConsumeRemove, Claim, SeatStep
  <1>8. ASSUME NEW u \in Users, DeleteAccount(u) PROVE SeatStep
    BY <1>2, <1>8 DEF DeleteAccount, SeatStep
  <1>9. ASSUME NEW d \in Devices, DeviceStep(d) PROVE SeatStep
    BY <1>1, <1>9 DEF DeviceStep, UploadRequested, Upload, RevokeDevice, SeatStep
  <1>10. CASE (\E i \in Invites : ExpireInvite(i)) \/ PendingRemovesJob
    BY <1>1, <1>10 DEF ExpireInvite, PendingRemovesJob, MarkStale, PruneRemoves, SeatStep
  <1>11. CASE UNCHANGED vars
    BY <1>1, <1>11 DEF vars, SeatStep
  <1> QED BY <1>5, <1>6, <1>7, <1>8, <1>9, <1>10, <1>11 DEF Next

SeatsInv == IsFiniteSet(Members) /\ SeatsHold

\* The members fit in the room at the start,
LEMMA SeatsInit == Init => SeatsInv
  <1> SUFFICES ASSUME Init PROVE SeatsInv
    OBVIOUS
  <1>1. Members = {Creator}
    BY RoomMembersAssumption DEF Init, Members, None
  <1>2. IsFiniteSet(Members) /\ Cardinality(Members) = 1
    BY <1>1, FS_Singleton
  <1>3. roomSize \in Nat /\ 1 <= roomSize
    BY RoomMembersAssumption DEF Init
  <1>4. \A i \in Invites : joins[i] = 0 /\ MaxUses[i] \in Nat
    BY RoomMembersAssumption DEF Init
  <1> QED BY <1>2, <1>3, <1>4 DEF SeatsInv, SeatsHold

\* and every step keeps the members within the room, the joins within their invite.
LEMMA SeatsNext == TypeOK /\ SeatsInv /\ [Next]_vars => SeatsInv'
  <1> SUFFICES ASSUME TypeOK, SeatsInv, [Next]_vars PROVE SeatsInv'
    OBVIOUS
  <1>1. SeatStep
    BY SeatSteps
  <1>2. roomSize \in Nat /\ roomSize' = roomSize
    BY <1>1, RoomMembersAssumption DEF TypeOK, SeatStep
  <1>3. IsFiniteSet(Members) /\ Cardinality(Members) \in Nat /\ Cardinality(Members) <= roomSize
    BY FS_CardinalityType DEF SeatsInv, SeatsHold
  <1>4. IsFiniteSet(Members') /\ Cardinality(Members') <= roomSize
    <2>1. CASE Members' \subseteq Members
      <3>1. IsFiniteSet(Members') /\ Cardinality(Members') <= Cardinality(Members)
        BY <1>3, <2>1, FS_Subset
      <3>2. Cardinality(Members') \in Nat
        BY <3>1, FS_CardinalityType
      <3> QED BY <1>2, <1>3, <3>1, <3>2
    <2>2. ASSUME NEW t \in Users \ Members, Members' = Members \cup {t},
                 Cardinality(Members) < roomSize
          PROVE  IsFiniteSet(Members') /\ Cardinality(Members') <= roomSize
      <3>1. IsFiniteSet(Members') /\ Cardinality(Members') = Cardinality(Members) + 1
        BY <1>3, <2>2, FS_AddElement
      <3> QED BY <1>2, <1>3, <2>2, <3>1
    <2> QED BY <1>1, <2>1, <2>2 DEF SeatStep
  <1>5. \A i \in Invites : MaxUses[i] > 0 => joins'[i] <= MaxUses[i]
    <2>1. joins \in [Invites -> Nat] /\ MaxUses \in [Invites -> Nat]
      BY RoomMembersAssumption DEF TypeOK
    <2> QED BY <1>1, <2>1 DEF SeatsInv, SeatsHold, SeatStep
  <1> QED BY <1>2, <1>4, <1>5 DEF SeatsInv, SeatsHold

\* A room is never larger than room_size and no invite lets in more than
\* max_uses, however concurrently its members come in (add_member of rooms.rs,
\* redeem_room_invite of room_invites.rs): the joins that have passed their
\* checks may be any number.
THEOREM SeatsAreHeld == Spec => []SeatsHold
  <1>1. Spec => []SeatsInv
    BY SeatsInit, SeatsNext, TypeCorrect, PTL DEF Spec
  <1>2. SeatsInv => SeatsHold
    BY DEF SeatsInv
  <1> QED BY <1>1, <1>2, PTL

(***************************************************************************)
(* The pending removes.                                                    *)
(***************************************************************************)

\* No removal is owed at the start,
LEMMA RemovalInit == Init => RemovalOwed
  BY DEF Init, RemovalOwed

\* and every step keeps the removal of who left pending until it is committed.
LEMMA RemovalNext == TypeOK /\ RemovalOwed /\ [Next]_vars => RemovalOwed'
  <1> SUFFICES ASSUME TypeOK, RemovalOwed, [Next]_vars,
                      NEW u \in owed'
               PROVE  \E r \in DOMAIN removes' : removes'[r].user = u /\ ~ removes'[r].consumed
    BY DEF RemovalOwed
  <1>0. /\ removes \in Seq(RemoveRow) /\ DOMAIN removes = 1..Len(removes) /\ Len(removes) \in Nat
        /\ \A r \in 1..Len(removes) : removes[r] \in RemoveRow
    BY LenProperties, ElementOfSeq DEF TypeOK, RemoveRow
  <1>1. RemoveStep
    BY RemoveSteps
  <1>2. removes' \in Seq(RemoveRow)
    BY <1>0, <1>1, RemoveTypes
  <1>3. DOMAIN removes' = 1..Len(removes')
    BY <1>2, LenProperties
  <1>4. ASSUME u \in owed
        PROVE  \E r \in 1..Len(removes) : removes[r].user = u /\ ~ removes[r].consumed
    BY <1>0, <1>4 DEF RemovalOwed
  <1>5. CASE removes' = removes /\ owed' = owed
    BY <1>0, <1>4, <1>5
  <1>6. CASE removes' = <<>> /\ owed' = {}
    BY <1>6
  <1>7. ASSUME NEW v \in Users, removes' = QueueRemove(v), owed' \subseteq owed \cup {v}
        PROVE  \E r \in DOMAIN removes' : removes'[r].user = u /\ ~ removes'[r].consumed
    <2> DEFINE row == [user |-> v, stale |-> FALSE, consumed |-> FALSE]
    <2>1. row \in RemoveRow /\ row.user = v /\ ~ row.consumed
      BY DEF RemoveRow
    <2> HIDE DEF row
    <2>2. removes' = Append(removes, row)
      BY <1>7 DEF QueueRemove, row
    <2>3. /\ Len(removes') = Len(removes) + 1
          /\ removes'[Len(removes) + 1] = row
          /\ \A r \in 1..Len(removes) : removes'[r] = removes[r]
      BY <1>0, <2>1, <2>2, AppendProperties
    <2>4. CASE u \in owed
      <3>1. PICK r \in 1..Len(removes) : removes[r].user = u /\ ~ removes[r].consumed
        BY <1>4, <2>4
      <3>2. r \in DOMAIN removes'
        BY <1>0, <1>3, <2>3
      <3> QED BY <2>3, <3>1, <3>2
    <2>5. CASE u = v
      <3>1. Len(removes) + 1 \in DOMAIN removes'
        BY <1>0, <1>3, <2>3
      <3> QED BY <2>1, <2>3, <2>5, <3>1
    <2> QED BY <1>7, <2>4, <2>5
  <1>8. ASSUME NEW r \in 1..Len(removes),
               removes' = [removes EXCEPT ![r].consumed = TRUE], owed' = owed \ {removes[r].user}
        PROVE  \E k \in DOMAIN removes' : removes'[k].user = u /\ ~ removes'[k].consumed
    <2>1. PICK k \in 1..Len(removes) : removes[k].user = u /\ ~ removes[k].consumed
      BY <1>4, <1>8
    <2>2. k # r /\ removes'[k] = removes[k] /\ k \in DOMAIN removes'
      BY <1>0, <1>8, <2>1
    <2> QED BY <2>1, <2>2
  <1>9. ASSUME NEW r \in 1..Len(removes),
               removes' = [removes EXCEPT ![r].stale = TRUE], owed' = owed
        PROVE  \E k \in DOMAIN removes' : removes'[k].user = u /\ ~ removes'[k].consumed
    <2>1. PICK k \in 1..Len(removes) : removes[k].user = u /\ ~ removes[k].consumed
      BY <1>4, <1>9
    <2>2. k \in DOMAIN removes'
      BY <1>0, <1>9
    <2>3. removes'[k].user = removes[k].user /\ removes'[k].consumed = removes[k].consumed
      <3>1. CASE k = r
        <4>1. removes'[k] = [removes[k] EXCEPT !.stale = TRUE]
          BY <1>0, <1>9, <3>1
        <4>2. removes[k] \in RemoveRow
          BY <1>0
        <4> QED BY <4>1, <4>2 DEF RemoveRow
      <3>2. CASE k # r
        BY <1>0, <1>9, <3>2
      <3> QED BY <3>1, <3>2
    <2> QED BY <2>1, <2>2, <2>3
  <1>10. ASSUME NEW r \in 1..Len(removes), removes[r].consumed,
                removes' = RemoveAt(removes, r), owed' = owed
         PROVE  \E k \in DOMAIN removes' : removes'[k].user = u /\ ~ removes'[k].consumed
    <2>1. PICK k \in 1..Len(removes) : removes[k].user = u /\ ~ removes[k].consumed
      BY <1>4, <1>10
    <2>2. k # r
      BY <1>10, <2>1
    <2>3. PICK j \in 1..Len(removes') : removes'[j] = removes[k]
      BY <1>0, <1>10, <2>1, <2>2, RemoveAtProperties
    <2> QED BY <1>3, <2>1, <2>3
  <1> QED BY <1>1, <1>5, <1>6, <1>7, <1>8, <1>9, <1>10 DEF RemoveStep

\* Who was put out of the room stays on the list of pending removes until a
\* member confirms it (kick_member of rooms.rs, anonymise_user of gdpr.rs and
\* the job of cleanup/pending_removes.rs), however long the list grows and
\* however often the job marks and prunes.
THEOREM RemovalStaysOwed == Spec => []RemovalOwed
  BY RemovalInit, RemovalNext, TypeCorrect, PTL DEF Spec

=============================================================================
