---------------------------- MODULE Users_proofs ----------------------------
(***************************************************************************)
(* Proofs about what the server keeps for a user: the state its devices    *)
(* sync (UserSync), for any number of devices, requests and items, and the *)
(* account itself (Accounts), for any number of users, invites and         *)
(* protocols under way, with the key transparency log and its Merkle tree, *)
(* for a log of any length.  UserSync and Accounts share no state, so each *)
(* theorem is about the behaviours of one of them.                         *)
(***************************************************************************)
EXTENDS UserSync, Accounts, NatLemmas, FiniteSetTheorems, SequenceTheorems, TLAPS

USE DEF tableVars, deviceVars

-----------------------------------------------------------------------------
(***************************************************************************)
(* Types.                                                                  *)
(***************************************************************************)

\* The types hold at the start.
LEMMA TypeInit == Init => TypeOK
  BY DEF Init, TypeOK

\* Writing a star or its tombstone keeps the types.
LEMMA WriteStarredType ==
  ASSUME TypeOK, NEW c \in Callers, NEW i \in Items, NEW deleted \in BOOLEAN,
         WriteStarred(c, i, deleted)
  PROVE  TypeOK'
  BY DEF WriteStarred, PassedOver, TypeOK, Row

\* The steps of a star or an unstar request keep the types.
LEMMA TypeRequests ==
  ASSUME TypeOK, NEW c \in Callers, NEW i \in Items,
         StarRequest(c, i) \/ UnstarRequest(c, i)
  PROVE  TypeOK'
  <1>1. CASE StarLookup(c, i) \/ UnstarLookup(c, i)
    BY <1>1 DEF StarLookup, UnstarLookup, TypeOK, Call
  <1>2. CASE StarFresh(c, i) \/ StarAgain(c, i) \/ Unstar(c, i)
    BY <1>2, WriteStarredType DEF StarFresh, StarAgain, Unstar
  <1>3. CASE UnstarPruned(c, i)
    BY <1>3 DEF UnstarPruned, TypeOK
  <1> QED BY <1>1, <1>2, <1>3 DEF StarRequest, UnstarRequest

\* The other steps of the server keep the types.
LEMMA TypeServer ==
  ASSUME TypeOK,
         \/ \E c \in Callers : CallFails(c)
         \/ MarkRead
         \/ \E x \in CanAge : Age(x)
         \/ PruneSelect
         \/ PruneDelete
  PROVE  TypeOK'
  <1>1. ASSUME NEW c \in Callers, CallFails(c) PROVE TypeOK'
    BY <1>1 DEF CallFails, TypeOK
  <1>2. CASE MarkRead
    BY <1>2 DEF MarkRead, PassedOver, TypeOK
  <1>3. ASSUME NEW x \in CanAge, Age(x) PROVE TypeOK'
    BY <1>3, UserSyncAssumption DEF Age, TypeOK
  <1>4. CASE PruneSelect
    BY <1>4 DEF PruneSelect, TypeOK
  <1>5. CASE PruneDelete
    BY <1>5 DEF PruneDelete, TypeOK
  <1> QED BY <1>1, <1>2, <1>3, <1>4, <1>5

\* The steps of a sync keep the types.
LEMMA TypeSyncStep ==
  ASSUME TypeOK, NEW d \in Devices, SyncStep(d)
  PROVE  TypeOK'
  <1>1. CASE SyncReadState(d)
    BY <1>1 DEF SyncReadState, TypeOK, Sync, ServerPhases
  <1> DEFINE Before == sync[d] \in Sync
  <1>2. sync[d] # Idle => Before
    BY DEF TypeOK
  <1>3. CASE SyncStarred(d)
    <2>1. Since(sync[d].since) \in [Items -> Row \cup {NoRow}]
      BY DEF Since, TypeOK
    <2> QED BY <1>2, <1>3, <2>1 DEF SyncStarred, TypeOK, Sync, ServerPhases
  <1>4. CASE SyncMaxSeq(d)
    <2>1. Max2(sync[d].since, Highest) \in Nat
      BY <1>2, <1>4 DEF SyncMaxSeq, Max2, Highest, TypeOK, Sync
    <2> QED BY <1>2, <1>4, <2>1 DEF SyncMaxSeq, TypeOK, Sync, ServerPhases
  <1>5. CASE SyncCheck(d)
    <2>1. FullResync(sync[d].since) \in BOOLEAN
      BY DEF FullResync, BelowRetained, OlderThanCutoff
    <2> QED BY <1>2, <1>5, <2>1 DEF SyncCheck, TypeOK, Sync, DevicePhases
  <1>6. CASE RestartCursor(d)
    BY <1>6 DEF RestartCursor, TypeOK
  <1>7. CASE ApplyReadState(d)
    BY <1>2, <1>7 DEF ApplyReadState, TypeOK, Sync, DevicePhases
  <1>8. CASE ApplyStarred(d)
    BY <1>2, <1>8, ZenonT(60) DEF ApplyStarred, TypeOK, Sync, DevicePhases
  <1>9. CASE StoreCursor(d)
    BY <1>2, <1>9 DEF StoreCursor, TypeOK, Sync
  <1> QED BY <1>1, <1>3, <1>4, <1>5, <1>6, <1>7, <1>8, <1>9 DEF SyncStep

\* Every step keeps the types.
LEMMA TypeNext == TypeOK /\ [Next]_vars => TypeOK'
  <1> SUFFICES ASSUME TypeOK, [Next]_vars PROVE TypeOK'
    OBVIOUS
  <1>1. CASE UNCHANGED vars
    BY <1>1 DEF vars, TypeOK
  <1>2. ASSUME NEW d \in Devices, SyncFails(d) PROVE TypeOK'
    BY <1>2 DEF SyncFails, TypeOK
  <1>3. CASE Next
    BY <1>2, <1>3, TypeRequests, TypeServer, TypeSyncStep DEF Next
  <1> QED BY <1>1, <1>3

\* Whatever the requests, the pruning job and the devices do, every variable
\* stays within its type.
THEOREM TypeCorrect == Spec => []TypeOK
  BY TypeInit, TypeNext, PTL DEF Spec

-----------------------------------------------------------------------------
(***************************************************************************)
(* What a step does to the numbered tables: it writes the row of one item, *)
(* it writes the read state, it removes rows or changes nothing there, or  *)
(* it is a step of one device's sync.                                      *)
(***************************************************************************)

Written(i) ==
  /\ MayWrite
  /\ nextSeq' = nextSeq + 1
  /\ \E deleted \in BOOLEAN :
       starred' = [starred EXCEPT ![i] = [seq |-> nextSeq, deleted |-> deleted]]
  /\ PassedOver({"max"})
  /\ UNCHANGED <<readSeq, sync, deviceVars>>

ReadMarked ==
  /\ MayWrite
  /\ nextSeq' = nextSeq + 1
  /\ readSeq' = nextSeq
  /\ PassedOver({"starred", "max"})
  /\ UNCHANGED <<starred, sync, deviceVars>>

NothingWritten ==
  /\ nextSeq' = nextSeq \/ (MayWrite /\ nextSeq' = nextSeq + 1)
  /\ \A i \in Items : starred'[i] \in {starred[i], NoRow}
  /\ UNCHANGED <<readSeq, sync, deviceVars, missed>>

TableStep ==
  \/ \E i \in Items : Written(i)
  \/ ReadMarked
  \/ NothingWritten
  \/ \E d \in Devices : SyncStep(d) \/ SyncFails(d)

\* What a step may do to the table and to the user's sequence.
LEMMA TableSteps ==
  ASSUME TypeOK, [Next]_vars
  PROVE  TableStep
  <1>1. ASSUME NEW c \in Callers, NEW i \in Items,
               StarRequest(c, i) \/ UnstarRequest(c, i)
        PROVE  Written(i) \/ NothingWritten
    BY <1>1 DEF StarRequest, UnstarRequest, StarLookup, UnstarLookup, StarFresh,
       StarAgain, Unstar, UnstarPruned, WriteStarred, Written, NothingWritten
  <1>2. ASSUME NEW c \in Callers, CallFails(c) PROVE NothingWritten
    BY <1>2 DEF CallFails, NothingWritten
  <1>3. MarkRead => ReadMarked
    BY DEF MarkRead, ReadMarked
  <1>4. ASSUME NEW x \in CanAge, Age(x) PROVE NothingWritten
    BY <1>4 DEF Age, NothingWritten
  <1>5. PruneSelect \/ PruneDelete => NothingWritten
    BY DEF PruneSelect, PruneDelete, NothingWritten
  <1>6. UNCHANGED vars => NothingWritten
    BY DEF vars, NothingWritten
  <1> QED BY <1>1, <1>2, <1>3, <1>4, <1>5, <1>6 DEF Next, TableStep

\* What the steps of a device's sync leave alone.
LEMMA SyncLeavesTables ==
  ASSUME NEW d \in Devices, SyncStep(d) \/ SyncFails(d)
  PROVE  UNCHANGED <<nextSeq, tableVars>>
  BY DEF SyncStep, SyncFails, SyncReadState, SyncStarred, SyncMaxSeq, SyncCheck,
     RestartCursor, ApplyReadState, ApplyStarred, StoreCursor

-----------------------------------------------------------------------------
(***************************************************************************)
(* Every number in use has been allocated.                                 *)
(***************************************************************************)

Allocated ==
  /\ \A i \in Items : starred[i] # NoRow => starred[i].seq \in 1..Highest
  /\ readSeq <= Highest
  /\ \A d \in Devices :
       /\ cursor[d] <= Highest
       /\ sync[d] # Idle => sync[d].since <= Highest /\ sync[d].max <= Highest

\* Every step keeps the numbers in use at or below the highest allocated.
LEMMA AllocatedStep ==
  ASSUME TypeOK, TypeOK', Allocated, TableStep
  PROVE  Allocated'
  <1>1. nextSeq \in Nat /\ readSeq \in Nat /\ nextSeq' \in Nat
    BY DEF TypeOK
  <1>2. ASSUME NEW i \in Items, starred[i] # NoRow PROVE starred[i].seq \in Nat
    BY <1>2 DEF TypeOK, Row
  <1>3. ASSUME NEW d \in Devices
        PROVE  /\ cursor[d] \in Nat
               /\ sync[d] # Idle => sync[d].since \in Nat /\ sync[d].max \in Nat
    BY DEF TypeOK, Sync
  <1>4. ASSUME NEW i \in Items, Written(i) PROVE Allocated'
    BY <1>1, <1>2, <1>3, <1>4 DEF Written, Allocated, Highest, TypeOK
  <1>5. CASE ReadMarked
    BY <1>1, <1>2, <1>3, <1>5 DEF ReadMarked, Allocated, Highest
  <1>6. CASE NothingWritten
    <2>1. Highest \in Int /\ Highest' \in Int /\ Highest <= Highest'
      <3>1. CASE nextSeq' = nextSeq
        BY <1>1, <3>1 DEF Highest
      <3>2. CASE nextSeq' = nextSeq + 1
        BY <1>1, <3>2 DEF Highest
      <3> QED BY <1>6, <3>1, <3>2 DEF NothingWritten
    <2>2. ASSUME NEW i \in Items, starred'[i] # NoRow
          PROVE  starred'[i].seq \in 1..Highest'
      <3>1. starred'[i] = starred[i]
        BY <1>6, <2>2 DEF NothingWritten
      <3> QED BY <1>2, <2>1, <2>2, <3>1 DEF Allocated
    <2>3. readSeq' <= Highest'
      BY <1>1, <1>6, <2>1 DEF NothingWritten, Allocated
    <2>4. ASSUME NEW d \in Devices
          PROVE  /\ cursor'[d] <= Highest'
                 /\ sync'[d] # Idle =>
                      sync'[d].since <= Highest' /\ sync'[d].max <= Highest'
      BY <1>3, <1>6, <2>1 DEF NothingWritten, Allocated
    <2> QED BY <2>2, <2>3, <2>4 DEF Allocated
  <1>7. ASSUME NEW d \in Devices, SyncStep(d) \/ SyncFails(d) PROVE Allocated'
    <2>1. UNCHANGED <<nextSeq, tableVars>>
      BY <1>7, SyncLeavesTables
    <2>2. ASSUME NEW e \in Devices, e # d
          PROVE  cursor'[e] = cursor[e] /\ sync'[e] = sync[e]
      BY <1>7, <2>2 DEF SyncStep, SyncFails, SyncReadState, SyncStarred,
         SyncMaxSeq, SyncCheck, RestartCursor, ApplyReadState, ApplyStarred,
         StoreCursor, TypeOK
    <2>3. cursor'[d] \in {cursor[d], 0} \/ (sync[d] # Idle /\ cursor'[d] = sync[d].max)
      BY <1>7 DEF SyncStep, SyncFails, SyncReadState, SyncStarred,
         SyncMaxSeq, SyncCheck, RestartCursor, ApplyReadState, ApplyStarred,
         StoreCursor, TypeOK
    <2>4. \/ sync'[d] = Idle
          \/ sync'[d].since = cursor[d] /\ sync'[d].max = 0
          \/ /\ sync[d] # Idle
             /\ sync'[d].since = sync[d].since
             /\ sync'[d].max \in {sync[d].max, Max2(sync[d].since, Highest)}
      <3>1. sync[d] # Idle => sync[d] \in Sync
        BY DEF TypeOK
      <3>2. CASE SyncReadState(d)
        BY <3>2 DEF SyncReadState, TypeOK
      <3>3. CASE SyncStarred(d)
        BY <3>1, <3>3 DEF SyncStarred, Sync, TypeOK
      <3>4. CASE SyncMaxSeq(d)
        BY <3>1, <3>4 DEF SyncMaxSeq, Sync, TypeOK
      <3>5. CASE SyncCheck(d)
        BY <3>1, <3>5 DEF SyncCheck, Sync, TypeOK
      <3>6. CASE RestartCursor(d) \/ StoreCursor(d) \/ SyncFails(d)
        BY <3>6 DEF RestartCursor, StoreCursor, SyncFails, TypeOK
      <3>7. CASE ApplyReadState(d)
        BY <3>1, <3>7 DEF ApplyReadState, Sync, TypeOK
      <3>8. CASE ApplyStarred(d)
        BY <3>1, <3>8 DEF ApplyStarred, Sync, TypeOK
      <3> QED BY <1>7, <3>2, <3>3, <3>4, <3>5, <3>6, <3>7, <3>8 DEF SyncStep
    <2>5. Highest \in Nat /\ Highest' = Highest
      BY <1>1, <2>1 DEF Highest, TypeOK
    <2>6. cursor'[d] <= Highest
      BY <1>3, <2>3, <2>5 DEF Allocated
    <2>7. sync'[d] # Idle => sync'[d].since <= Highest /\ sync'[d].max <= Highest
      BY <1>3, <2>4, <2>5 DEF Allocated, Max2
    <2> QED BY <2>1, <2>2, <2>5, <2>6, <2>7 DEF Allocated
  <1> QED BY <1>4, <1>5, <1>6, <1>7 DEF TableStep

\* The same, in every behaviour.
LEMMA AlwaysAllocated == Spec => []Allocated
  <1>1. Init => Allocated
    BY DEF Init, Allocated, Highest
  <1>2. TypeOK /\ Allocated /\ [Next]_vars => Allocated'
    BY TypeNext, TableSteps, AllocatedStep
  <1> QED BY <1>1, <1>2, TypeCorrect, PTL DEF Spec

\* However requests interleave, no two rows of the user carry one number: a
\* new number is larger than all in use (allocate_user_seq).
THEOREM NumbersDistinct == Spec => []SeqsDistinct
  <1>1. Init => SeqsDistinct
    BY DEF Init, SeqsDistinct
  <1>2. ASSUME TypeOK, Allocated, SeqsDistinct, TableStep PROVE SeqsDistinct'
    <2>1. nextSeq \in Nat /\ readSeq \in Nat
      BY <1>2 DEF TypeOK
    <2>2. ASSUME NEW i \in Items, starred[i] # NoRow
          PROVE  starred[i].seq \in Nat /\ starred[i].seq < nextSeq
      BY <1>2, <2>1, <2>2 DEF TypeOK, Row, Allocated, Highest
    <2>3. readSeq < nextSeq
      BY <1>2, <2>1 DEF Allocated, Highest
    <2>4. ASSUME NEW i \in Items, Written(i) PROVE SeqsDistinct'
      <3>1. /\ starred'[i].seq = nextSeq
            /\ \A j \in Items : j # i => starred'[j] = starred[j]
        BY <1>2, <2>4 DEF Written, TypeOK
      <3> QED BY <1>2, <2>1, <2>2, <2>3, <2>4, <3>1 DEF Written, SeqsDistinct
    <2>5. CASE ReadMarked
      BY <1>2, <2>1, <2>2, <2>5 DEF ReadMarked, SeqsDistinct
    <2>6. CASE NothingWritten
      BY <1>2, <2>6 DEF NothingWritten, SeqsDistinct
    <2>7. ASSUME NEW d \in Devices, SyncStep(d) \/ SyncFails(d)
          PROVE  SeqsDistinct'
      BY <1>2, <2>7, SyncLeavesTables DEF SeqsDistinct
    <2> QED BY <1>2, <2>4, <2>5, <2>6, <2>7 DEF TableStep
  <1> QED BY <1>1, <1>2, TableSteps, AlwaysAllocated, TypeCorrect, PTL DEF Spec

\* A row that changes does so under a number that no device's cursor covers
\* and that no answer under way will make it cover.
THEOREM ChangesAhead == Spec => ChangeIsAhead
  <1> DEFINE Ahead ==
        \A i \in Items : starred'[i] \notin {starred[i], NoRow} =>
          \A d \in Devices :
            /\ starred'[i].seq > cursor[d]
            /\ sync[d] # Idle => starred'[i].seq > sync[d].max
  <1>1. ASSUME TypeOK, Allocated, TableStep PROVE Ahead
    <2>1. nextSeq \in Nat
      BY <1>1 DEF TypeOK
    <2>2. ASSUME NEW i \in Items, Written(i) PROVE Ahead
      <3>1. /\ starred'[i].seq = nextSeq
            /\ \A j \in Items : j # i => starred'[j] = starred[j]
        BY <1>1, <2>2 DEF Written, TypeOK
      <3>2. ASSUME NEW d \in Devices
            PROVE  /\ nextSeq > cursor[d]
                   /\ sync[d] # Idle => nextSeq > sync[d].max
        <4>1. cursor[d] \in Nat /\ (sync[d] # Idle => sync[d].max \in Nat)
          BY <1>1 DEF TypeOK, Sync
        <4> QED BY <1>1, <2>1, <4>1 DEF Allocated, Highest
      <3> QED BY <3>1, <3>2
    <2>3. CASE ReadMarked \/ NothingWritten
      BY <2>3 DEF ReadMarked, NothingWritten
    <2>4. ASSUME NEW d \in Devices, SyncStep(d) \/ SyncFails(d) PROVE Ahead
      BY <2>4, SyncLeavesTables
    <2> QED BY <1>1, <2>2, <2>3, <2>4 DEF TableStep
  <1> QED BY <1>1, TableSteps, AlwaysAllocated, TypeCorrect, PTL
          DEF Spec, ChangeIsAhead

-----------------------------------------------------------------------------
(***************************************************************************)
(* A row that a device holds, or is about to apply, is the server's row or *)
(* an older one.                                                           *)
(***************************************************************************)

NotAhead(row, i) ==
  row # NoRow =>
    /\ row.seq <= Highest
    /\ starred[i] # NoRow => row.seq < starred[i].seq \/ row = starred[i]

Copies ==
  \A d \in Devices, i \in Items :
    /\ NotAhead(local[d][i], i)
    /\ sync[d] # Idle => NotAhead(sync[d].rows[i], i)

\* What the steps that are no sync's do, as the devices see it.
LEMMA TableAdvances ==
  ASSUME TypeOK,
         (\E i \in Items : Written(i)) \/ ReadMarked \/ NothingWritten
  PROVE  /\ Highest \in Nat /\ Highest' \in Nat /\ Highest <= Highest'
         /\ \A j \in Items : starred'[j] \in {starred[j], NoRow}
                               \/ starred'[j].seq > Highest
         /\ readSeq' = readSeq \/ readSeq' > Highest
         /\ UNCHANGED <<sync, deviceVars>>
         /\ \A d \in Devices : missed[d] \subseteq missed'[d]
  <1>1. nextSeq \in Nat \ {0}
    BY DEF TypeOK
  <1>2. ASSUME NEW i \in Items, Written(i)
        PROVE  \A j \in Items : starred'[j] = starred[j]
                                  \/ starred'[j].seq = nextSeq
    BY <1>2 DEF Written, TypeOK
  <1>3. UNCHANGED <<sync, deviceVars>>
        /\ \A d \in Devices : missed[d] \subseteq missed'[d]
    BY DEF Written, ReadMarked, NothingWritten, PassedOver
  <1>4. CASE (\E i \in Items : Written(i)) \/ ReadMarked
    <2>1. nextSeq' = nextSeq + 1
      BY <1>4 DEF Written, ReadMarked
    <2> QED BY <1>1, <1>2, <1>3, <1>4, <2>1 DEF Written, ReadMarked, Highest
  <1>5. CASE NothingWritten
    <2>1. CASE nextSeq' = nextSeq
      BY <1>1, <1>3, <1>5, <2>1 DEF NothingWritten, Highest
    <2>2. CASE nextSeq' = nextSeq + 1
      BY <1>1, <1>3, <1>5, <2>2 DEF NothingWritten, Highest
    <2> QED BY <1>5, <2>1, <2>2 DEF NothingWritten
  <1> QED BY <1>4, <1>5

\* What a step of one device's sync makes of its rows, listed and stored.
LEMMA SyncRows ==
  ASSUME TypeOK, NEW d \in Devices, SyncStep(d) \/ SyncFails(d), NEW i \in Items
  PROVE  /\ local'[d][i] = local[d][i]
              \/ (/\ sync[d] # Idle
                  /\ Newer(sync[d].rows[i], local[d][i])
                  /\ local'[d][i] = sync[d].rows[i])
         /\ sync'[d] # Idle =>
              \/ sync'[d].rows[i] \in {NoRow, starred[i]}
              \/ sync[d] # Idle /\ sync'[d].rows[i] = sync[d].rows[i]
  <1>1. sync[d] # Idle => sync[d] \in Sync
    BY DEF TypeOK
  <1>2. CASE SyncReadState(d)
    BY <1>2 DEF SyncReadState, TypeOK
  <1>3. CASE SyncStarred(d)
    BY <1>1, <1>3 DEF SyncStarred, Since, Sync, TypeOK
  <1>4. CASE SyncMaxSeq(d)
    BY <1>1, <1>4 DEF SyncMaxSeq, Sync, TypeOK
  <1>5. CASE SyncCheck(d)
    BY <1>1, <1>5 DEF SyncCheck, Sync, TypeOK
  <1>6. CASE RestartCursor(d) \/ StoreCursor(d) \/ SyncFails(d)
    BY <1>6 DEF RestartCursor, StoreCursor, SyncFails, TypeOK
  <1>7. CASE ApplyReadState(d)
    BY <1>1, <1>7 DEF ApplyReadState, Sync, TypeOK
  <1>8. CASE ApplyStarred(d)
    BY <1>1, <1>8 DEF ApplyStarred, Sync, TypeOK
  <1> QED BY <1>2, <1>3, <1>4, <1>5, <1>6, <1>7, <1>8 DEF SyncStep

\* A step of one device's sync leaves the other devices alone.
LEMMA SyncLeavesOthers ==
  ASSUME TypeOK, NEW d \in Devices, SyncStep(d) \/ SyncFails(d),
         NEW e \in Devices, e # d
  PROVE  /\ sync'[e] = sync[e] /\ cursor'[e] = cursor[e]
         /\ local'[e] = local[e] /\ localRead'[e] = localRead[e]
         /\ missed'[e] = missed[e]
  BY DEF SyncStep, SyncFails, SyncReadState, SyncStarred, SyncMaxSeq, SyncCheck,
     RestartCursor, ApplyReadState, ApplyStarred, StoreCursor, TypeOK

\* Every step keeps what the devices and the syncs hold from being ahead of the table.
LEMMA CopiesStep ==
  ASSUME TypeOK, Allocated, Copies, TableStep
  PROVE  Copies'
  <1>1. \A e \in Devices, i \in Items :
          /\ local[e][i] # NoRow => local[e][i].seq \in Nat
          /\ sync[e] # Idle /\ sync[e].rows[i] # NoRow => sync[e].rows[i].seq \in Nat
          /\ starred[i] # NoRow => starred[i].seq \in Nat
    BY DEF TypeOK, Sync, Row
  <1>2. CASE (\E i \in Items : Written(i)) \/ ReadMarked \/ NothingWritten
    <2>1. ASSUME NEW i \in Items, NEW row, NotAhead(row, i),
                 row # NoRow => row.seq \in Nat
          PROVE  NotAhead(row, i)'
      <3>1. SUFFICES ASSUME row # NoRow
                     PROVE  /\ row.seq <= Highest'
                            /\ starred'[i] # NoRow =>
                                 row.seq < starred'[i].seq \/ row = starred'[i]
        BY DEF NotAhead, Highest
      <3>2. row.seq <= Highest
        BY <2>1, <3>1 DEF NotAhead
      <3>3. CASE starred'[i] \in {starred[i], NoRow}
        BY <1>2, <2>1, <3>1, <3>2, <3>3, TableAdvances DEF NotAhead
      <3>4. CASE starred'[i].seq > Highest
        <4>1. starred'[i] # NoRow => row.seq < starred'[i].seq
          <5>1. starred'[i] \in {starred[i], NoRow} \/ starred'[i].seq = nextSeq
            BY <1>2 DEF Written, ReadMarked, NothingWritten, TypeOK
          <5>2. CASE starred'[i].seq = nextSeq
            BY <1>2, <2>1, <3>1, <3>2, <5>2, TableAdvances DEF Highest, TypeOK
          <5>3. CASE starred'[i] = starred[i] /\ starred[i] # NoRow
            BY <1>1, <2>1, <3>1, <3>2, <3>4, <5>3, TableAdvances, <1>2
               DEF NotAhead, Allocated
          <5> QED BY <5>1, <5>2, <5>3
        <4> QED BY <1>2, <2>1, <3>1, <3>2, <4>1, TableAdvances
      <3> QED BY <1>2, <3>3, <3>4, TableAdvances
    <2> QED BY <1>1, <1>2, <2>1, TableAdvances DEF Copies
  <1>3. ASSUME NEW d \in Devices, SyncStep(d) \/ SyncFails(d)
        PROVE  Copies'
    <2>1. \A row : \A i \in Items : NotAhead(row, i)' <=> NotAhead(row, i)
      BY <1>3, SyncLeavesTables DEF NotAhead, Highest
    <2>2. \A i \in Items : NotAhead(NoRow, i) /\ NotAhead(starred[i], i)
      BY <1>1 DEF NotAhead, Allocated, Highest, TypeOK
    <2>3. ASSUME NEW i \in Items
          PROVE  /\ NotAhead(local'[d][i], i)
                 /\ sync'[d] # Idle => NotAhead(sync'[d].rows[i], i)
      BY <1>3, <2>2, SyncRows DEF Copies
    <2> QED BY <1>3, <2>1, <2>3, SyncLeavesOthers DEF Copies
  <1> QED BY <1>2, <1>3 DEF TableStep

\* The same, in every behaviour.
LEMMA AlwaysCopies == Spec => []Copies
  <1>1. Init => Copies
    BY DEF Init, Copies, NotAhead
  <1>2. TypeOK /\ Allocated /\ Copies /\ [Next]_vars => Copies'
    BY TableSteps, CopiesStep
  <1> QED BY <1>1, <1>2, AlwaysAllocated, TypeCorrect, PTL DEF Spec

-----------------------------------------------------------------------------
(***************************************************************************)
(* What a device knows, and what the sync under way will have told it.     *)
(***************************************************************************)

KnowsStars(d, n) ==
  \A i \in Items :
    starred[i] # NoRow /\ starred[i].seq <= n =>
      local[d][i] = starred[i] \/ starred[i].seq \in missed[d]

KnowsRead(d, n) ==
  readSeq <= n => localRead[d] >= readSeq \/ readSeq \in missed[d]

Covers(d) == KnowsStars(d, cursor[d]) /\ KnowsRead(d, cursor[d])

\* How far a sync will take the cursor: until max_seq has been read, to
\* whatever is allocated by then.
Reached(d) ==
  IF sync[d].phase \in {"starred", "max"} THEN Highest ELSE sync[d].max

ReadListed(d) ==
  sync[d].phase \in ServerPhases \cup {"answered"} =>
    (sync[d].since < readSeq /\ readSeq <= Reached(d) =>
       sync[d].read = readSeq \/ readSeq \in missed[d])

StarsListed(d) ==
  sync[d].phase \in {"max", "check", "answered", "read_applied"} =>
    \A i \in Items :
      starred[i] # NoRow /\ sync[d].since < starred[i].seq
        /\ starred[i].seq <= Reached(d)
      => sync[d].rows[i] = starred[i] \/ starred[i].seq \in missed[d]

ReadApplied(d) ==
  sync[d].phase \in {"read_applied", "applied"} => KnowsRead(d, sync[d].max)

StarsApplied(d) == sync[d].phase = "applied" => KnowsStars(d, sync[d].max)

Underway(d) ==
  sync[d] # Idle =>
    /\ sync[d].since = cursor[d]
    /\ sync[d].read # 0 => sync[d].read > sync[d].since
    /\ ReadListed(d) /\ StarsListed(d) /\ ReadApplied(d) /\ StarsApplied(d)

\* What is written gets a number above all a device knows of; and if a sync
\* under way has listed the table and not yet read max_seq, the number is one
\* that it passes over.
LEMMA WritesKeepKnowledge ==
  ASSUME TypeOK, TypeOK', Allocated,
         (\E i \in Items : Written(i)) \/ ReadMarked \/ NothingWritten,
         NEW d \in Devices, Covers(d), Underway(d)
  PROVE  Covers(d)' /\ Underway(d)'
  <1>1. UNCHANGED <<sync, cursor, local, localRead>>
    BY TableAdvances
  <1>2. ASSUME NEW i \in Items, starred'[i] # NoRow
        PROVE  starred'[i] = starred[i] \/ starred'[i].seq > Highest
    BY <1>2, TableAdvances
  <1>3. /\ Highest \in Nat
        /\ cursor[d] \in Nat /\ cursor[d] <= Highest
        /\ sync[d] # Idle => sync[d] \in Sync /\ sync[d].max <= Highest
        /\ missed[d] \subseteq missed'[d]
    BY TableAdvances DEF TypeOK, Allocated
  <1>4. \A i \in Items : starred'[i] # NoRow => starred'[i].seq \in Nat
    BY DEF TypeOK, Row
  <1>5. readSeq \in Nat /\ readSeq' \in Nat
    BY DEF TypeOK
  <1>6. ASSUME NEW n \in Nat, n <= Highest, KnowsStars(d, n)
        PROVE  \A i \in Items :
                 starred'[i] # NoRow /\ starred'[i].seq <= n =>
                   local'[d][i] = starred'[i] \/ starred'[i].seq \in missed'[d]
    BY <1>1, <1>2, <1>3, <1>4, <1>6 DEF KnowsStars
  <1>7. ASSUME NEW n \in Nat, n <= Highest, KnowsRead(d, n)
        PROVE  readSeq' <= n =>
                 localRead'[d] >= readSeq' \/ readSeq' \in missed'[d]
    BY <1>1, <1>3, <1>5, <1>7, TableAdvances DEF KnowsRead
  <1>8. Covers(d)'
    BY <1>1, <1>3, <1>6, <1>7 DEF Covers, KnowsStars, KnowsRead
  <1>9. CASE sync[d] # Idle
    <2>1. sync[d] \in Sync /\ sync[d].max \in Nat
      BY <1>3, <1>9 DEF Sync
    <2>2. ASSUME sync[d].phase \in {"starred", "max"}
          PROVE  ReadListed(d)' /\ StarsListed(d)'
      <3>1. ASSUME NEW i \in Items, sync[d].phase = "max", starred'[i] # NoRow
            PROVE  starred'[i] = starred[i] \/ starred'[i].seq \in missed'[d]
        <4>1. ASSUME NEW j \in Items, Written(j)
              PROVE  starred'[i] = starred[i] \/ starred'[i].seq \in missed'[d]
          BY <1>9, <3>1, <4>1 DEF Written, PassedOver, TypeOK
        <4>2. CASE ReadMarked \/ NothingWritten
          BY <3>1, <4>2 DEF ReadMarked, NothingWritten
        <4> QED BY <4>1, <4>2
      <3>2. readSeq' = readSeq \/ readSeq' \in missed'[d]
        BY <1>9, <2>2 DEF Written, ReadMarked, NothingWritten, PassedOver
      <3>3. Reached(d) = Highest /\ sync'[d] = sync[d]
        BY <1>1, <2>2 DEF Reached
      <3>4. ReadListed(d)'
        BY <1>3, <1>5, <1>9, <2>1, <2>2, <3>2, <3>3
           DEF Underway, ReadListed, Allocated, ServerPhases
      <3>5. StarsListed(d)'
        <4>1. SUFFICES ASSUME sync[d].phase = "max", NEW i \in Items,
                              starred'[i] # NoRow, sync[d].since < starred'[i].seq
                       PROVE  sync[d].rows[i] = starred'[i]
                                \/ starred'[i].seq \in missed'[d]
          BY <2>2, <3>3 DEF StarsListed
        <4>2. CASE starred'[i] = starred[i]
          BY <1>3, <1>4, <1>9, <3>3, <4>1, <4>2 DEF Underway, StarsListed, Allocated
        <4> QED BY <3>1, <4>1, <4>2
      <3> QED BY <3>4, <3>5
    <2>3. ASSUME sync[d].phase \notin {"starred", "max"}
          PROVE  ReadListed(d)' /\ StarsListed(d)'
      <3>1. /\ Reached(d) = sync[d].max /\ Reached(d)' = sync[d].max
            /\ sync'[d] = sync[d]
        BY <1>1, <2>3 DEF Reached
      <3>2. ReadListed(d)'
        BY <1>1, <1>3, <1>5, <1>9, <2>1, <3>1, TableAdvances DEF Underway, ReadListed
      <3>3. StarsListed(d)'
        BY <1>1, <1>2, <1>3, <1>4, <1>9, <2>1, <3>1 DEF Underway, StarsListed
      <3> QED BY <3>2, <3>3
    <2>4. ReadListed(d)' /\ StarsListed(d)'
      BY <2>2, <2>3
    <2>5. ReadApplied(d)'
      BY <1>1, <1>3, <1>7, <1>9, <2>1 DEF Underway, ReadApplied, KnowsRead
    <2>6. StarsApplied(d)'
      BY <1>1, <1>3, <1>6, <1>9, <2>1 DEF Underway, StarsApplied, KnowsStars
    <2> QED BY <1>1, <1>8, <1>9, <2>4, <2>5, <2>6 DEF Underway
  <1> QED BY <1>1, <1>8, <1>9 DEF Underway

\* The server's half of a sync: each query lists what lies between the cursor
\* and the number that max_seq will return.
LEMMA AnswerKeepsKnowledge ==
  ASSUME TypeOK, Allocated, NEW d \in Devices, Covers(d), Underway(d),
         SyncReadState(d) \/ SyncStarred(d) \/ SyncMaxSeq(d) \/ SyncCheck(d)
  PROVE  Covers(d)' /\ Underway(d)'
  <1>1. Covers(d)'
    <2>1. CASE SyncReadState(d)
      BY <2>1 DEF SyncReadState, Covers, KnowsStars, KnowsRead, TypeOK
    <2>2. CASE SyncStarred(d) \/ SyncMaxSeq(d) \/ SyncCheck(d)
      BY <2>2 DEF SyncStarred, SyncMaxSeq, SyncCheck, Covers, KnowsStars, KnowsRead
    <2> QED BY <2>1, <2>2
  <1>2. /\ readSeq \in Nat /\ cursor[d] \in Nat /\ Highest \in Nat
        /\ sync[d] # Idle => sync[d] \in Sync /\ sync[d].since \in Nat
                               /\ sync[d].max \in Nat
        /\ \A i \in Items : starred[i] # NoRow => starred[i].seq \in Nat
    BY DEF TypeOK, Sync, Row, Highest
  <1>3. CASE SyncReadState(d)
    <2>1. /\ sync'[d].phase = "starred"
          /\ sync'[d].since = cursor[d]
          /\ sync'[d].read = IF readSeq > cursor[d] THEN readSeq ELSE 0
          /\ cursor' = cursor /\ readSeq' = readSeq
      BY <1>3 DEF SyncReadState, TypeOK
    <2> QED BY <1>1, <1>2, <2>1 DEF Underway, ReadListed, StarsListed,
               ReadApplied, StarsApplied, ServerPhases
  <1>4. CASE SyncStarred(d)
    <2>1. /\ sync'[d].phase = "max"
          /\ sync'[d].since = sync[d].since /\ sync'[d].read = sync[d].read
          /\ sync'[d].rows = Since(sync[d].since)
          /\ UNCHANGED <<nextSeq, starred, readSeq, cursor, missed>>
          /\ sync[d] # Idle /\ sync[d].phase = "starred"
      BY <1>2, <1>4 DEF SyncStarred, TypeOK, Sync
    <2>2. ReadListed(d)'
      BY <1>2, <2>1 DEF Underway, ReadListed, Reached, ServerPhases, Highest
    <2>3. StarsListed(d)'
      BY <1>2, <2>1 DEF StarsListed, Since
    <2> QED BY <1>1, <2>1, <2>2, <2>3 DEF Underway, ReadApplied, StarsApplied
  <1>5. CASE SyncMaxSeq(d) \/ SyncCheck(d)
    <2>1. /\ sync[d] # Idle /\ sync[d].phase \in {"max", "check"}
          /\ sync'[d].phase \in {"check", "answered"}
          /\ sync'[d].since = sync[d].since /\ sync'[d].read = sync[d].read
          /\ sync'[d].rows = sync[d].rows
          /\ UNCHANGED <<nextSeq, starred, readSeq, cursor, missed>>
      BY <1>2, <1>5 DEF SyncMaxSeq, SyncCheck, TypeOK, Sync
    <2>2. Reached(d)' \in Nat /\ Reached(d) \in Nat /\ Reached(d)' <= Reached(d)
      <3>1. CASE SyncMaxSeq(d)
        <4>1. /\ sync[d].phase = "max" /\ sync'[d].phase = "check"
              /\ sync'[d].max = Max2(sync[d].since, Highest)
          BY <1>2, <3>1 DEF SyncMaxSeq, TypeOK, Sync
        <4> QED BY <1>2, <2>1, <4>1 DEF Reached, Max2, Allocated
      <3>2. CASE SyncCheck(d)
        <4>1. /\ sync[d].phase = "check" /\ sync'[d].phase = "answered"
              /\ sync'[d].max = sync[d].max
          BY <1>2, <3>2 DEF SyncCheck, TypeOK, Sync
        <4> QED BY <1>2, <2>1, <4>1 DEF Reached
      <3> QED BY <1>5, <3>1, <3>2
    <2>3. ReadListed(d)'
      BY <1>2, <2>1, <2>2 DEF Underway, ReadListed, ServerPhases
    <2>4. StarsListed(d)'
      BY <1>2, <2>1, <2>2 DEF Underway, StarsListed
    <2> QED BY <1>1, <2>1, <2>3, <2>4 DEF Underway, ReadApplied, StarsApplied
  <1> QED BY <1>1, <1>3, <1>4, <1>5

\* The device's half: what it has applied when it stores the cursor is all
\* that the cursor claims, and a sync that ends early claims nothing.
LEMMA DeviceKeepsKnowledge ==
  ASSUME TypeOK, Allocated, Copies, NEW d \in Devices, Covers(d), Underway(d),
         \/ RestartCursor(d) \/ ApplyReadState(d) \/ ApplyStarred(d)
         \/ StoreCursor(d) \/ SyncFails(d)
  PROVE  Covers(d)' /\ Underway(d)'
  <1>1. /\ readSeq \in Nat /\ cursor[d] \in Nat /\ localRead[d] \in Nat
        /\ sync[d] # Idle /\ sync[d] \in Sync /\ sync[d].since \in Nat
        /\ sync[d].max \in Nat /\ sync[d].read \in Nat
        /\ UNCHANGED <<nextSeq, starred, readSeq, missed>>
    BY DEF RestartCursor, ApplyReadState, ApplyStarred, StoreCursor, SyncFails,
       TypeOK, Sync
  <1>2. \A i \in Items :
          /\ starred[i] # NoRow => starred[i].seq \in Nat \ {0}
          /\ local[d][i] # NoRow => local[d][i].seq \in Nat
          /\ sync[d].rows[i] # NoRow => sync[d].rows[i].seq \in Nat
    BY <1>1 DEF TypeOK, Sync, Row, Allocated
  <1>3. sync[d].since = cursor[d]
    BY <1>1 DEF Underway
  <1>4. CASE RestartCursor(d)
    <2>1. cursor'[d] = 0 /\ sync'[d] = Idle /\ localRead' = localRead
      BY <1>4 DEF RestartCursor, TypeOK
    <2>2. \A i \in Items : starred'[i] # NoRow => ~(starred'[i].seq <= 0)
      BY <1>1, <1>2
    <2>3. readSeq' <= 0 => localRead'[d] >= readSeq'
      BY <1>1, <2>1
    <2> QED BY <2>1, <2>2, <2>3 DEF Covers, KnowsStars, KnowsRead, Underway
  <1>5. CASE ApplyReadState(d)
    <2>1. /\ sync[d].phase = "answered" /\ sync'[d].phase = "read_applied"
          /\ sync'[d].since = sync[d].since /\ sync'[d].read = sync[d].read
          /\ sync'[d].rows = sync[d].rows /\ sync'[d].max = sync[d].max
          /\ localRead'[d] = IF sync[d].read = 0 THEN localRead[d]
                                                 ELSE sync[d].read
          /\ cursor' = cursor /\ local' = local
      BY <1>1, <1>5 DEF ApplyReadState, TypeOK, Sync
    <2>2. Reached(d) = sync[d].max /\ Reached(d)' = sync[d].max
      BY <2>1 DEF Reached, ServerPhases
    <2>3. CASE sync[d].since < readSeq
      <3>1. readSeq <= sync[d].max =>
              localRead'[d] = readSeq \/ readSeq \in missed[d]
        BY <1>1, <2>1, <2>2, <2>3 DEF Underway, ReadListed
      <3> QED BY <1>1, <1>3, <2>1, <2>2, <2>3, <3>1 DEF Covers, KnowsStars,
                 KnowsRead, Underway, ReadListed, StarsListed, ReadApplied,
                 StarsApplied, ServerPhases
    <2>4. CASE readSeq <= sync[d].since
      <3>1. localRead'[d] >= readSeq \/ readSeq \in missed[d]
        BY <1>1, <1>3, <2>1, <2>4 DEF Underway, Covers, KnowsRead
      <3> QED BY <1>1, <1>3, <2>1, <2>2, <2>4, <3>1 DEF Covers, KnowsStars,
                 KnowsRead, Underway, ReadListed, StarsListed, ReadApplied,
                 StarsApplied, ServerPhases
    <2> QED BY <1>1, <2>3, <2>4
  <1>6. CASE ApplyStarred(d)
    <2>1. /\ sync[d].phase = "read_applied" /\ sync'[d].phase = "applied"
          /\ sync'[d].since = sync[d].since /\ sync'[d].read = sync[d].read
          /\ sync'[d].max = sync[d].max
          /\ cursor' = cursor /\ localRead' = localRead
          /\ \A i \in Items : local'[d][i] =
               IF Newer(sync[d].rows[i], local[d][i]) THEN sync[d].rows[i]
                                                      ELSE local[d][i]
      BY <1>1, <1>6 DEF ApplyStarred, TypeOK, Sync
    <2>2. ASSUME NEW i \in Items, starred[i] # NoRow
          PROVE  /\ sync[d].rows[i] # NoRow =>
                      sync[d].rows[i].seq < starred[i].seq
                        \/ sync[d].rows[i] = starred[i]
                 /\ local[d][i] # NoRow =>
                      local[d][i].seq < starred[i].seq
                        \/ local[d][i] = starred[i]
      BY <1>1, <2>2 DEF Copies, NotAhead
    \* A row the cursor covers was there, and no listed row is newer.
    <2>3. ASSUME NEW i \in Items, starred[i] # NoRow,
                 starred[i].seq <= cursor[d], starred[i].seq \notin missed[d]
          PROVE  local'[d][i] = starred[i]
      <3>1. local[d][i] = starred[i]
        BY <2>3 DEF Covers, KnowsStars
      <3>2. ~Newer(sync[d].rows[i], local[d][i])
             \/ sync[d].rows[i] = starred[i]
        BY <1>2, <2>2, <2>3, <3>1 DEF Newer
      <3> QED BY <2>1, <3>1, <3>2
    \* A row above the cursor is listed, and the device's is not newer.
    <2>4. ASSUME NEW i \in Items, starred[i] # NoRow,
                 cursor[d] < starred[i].seq, starred[i].seq <= sync[d].max,
                 starred[i].seq \notin missed[d]
          PROVE  local'[d][i] = starred[i]
      <3>1. sync[d].rows[i] = starred[i]
        BY <1>1, <1>3, <2>1, <2>4 DEF Underway, StarsListed, Reached,
           ServerPhases
      <3>2. Newer(sync[d].rows[i], local[d][i]) \/ local[d][i] = starred[i]
        BY <1>2, <2>2, <2>4, <3>1 DEF Newer
      <3> QED BY <2>1, <3>1, <3>2
    <2>5. KnowsStars(d, cursor[d])'
      BY <1>1, <2>1, <2>3 DEF KnowsStars
    <2>6. StarsApplied(d)'
      BY <1>1, <1>2, <2>1, <2>3, <2>4 DEF StarsApplied, KnowsStars
    <2> QED BY <1>1, <1>3, <2>1, <2>5, <2>6 DEF Covers, KnowsRead, Underway,
               ReadListed, StarsListed, ReadApplied, ServerPhases
  <1>7. CASE StoreCursor(d)
    <2>1. /\ sync[d].phase = "applied"
          /\ cursor'[d] = sync[d].max /\ sync'[d] = Idle
          /\ local' = local /\ localRead' = localRead
      BY <1>7 DEF StoreCursor, TypeOK
    <2> QED BY <1>1, <2>1 DEF Underway, StarsApplied, ReadApplied, Covers,
               KnowsStars, KnowsRead
  <1>8. CASE SyncFails(d)
    <2>1. sync'[d] = Idle /\ UNCHANGED deviceVars
      BY <1>8 DEF SyncFails, TypeOK
    <2> QED BY <1>1, <2>1 DEF Underway, Covers, KnowsStars, KnowsRead
  <1> QED BY <1>4, <1>5, <1>6, <1>7, <1>8

Knowledge == \A d \in Devices : Covers(d) /\ Underway(d)

\* Every step keeps what a cursor covers known to its device.
LEMMA KnowledgeStep ==
  ASSUME TypeOK, TypeOK', Allocated, Copies, Knowledge, TableStep
  PROVE  Knowledge'
  <1>1. CASE (\E i \in Items : Written(i)) \/ ReadMarked \/ NothingWritten
    BY <1>1, WritesKeepKnowledge DEF Knowledge
  <1>2. ASSUME NEW d \in Devices, SyncStep(d) \/ SyncFails(d)
        PROVE  Knowledge'
    <2>1. Covers(d)' /\ Underway(d)'
      BY <1>2, AnswerKeepsKnowledge, DeviceKeepsKnowledge
         DEF Knowledge, SyncStep
    <2>2. ASSUME NEW e \in Devices, e # d
          PROVE  Covers(e)' /\ Underway(e)'
      <3>1. UNCHANGED <<nextSeq, starred, readSeq>>
        BY <1>2, SyncLeavesTables
      <3>2. /\ missed'[e] = missed[e] /\ sync'[e] = sync[e] /\ cursor'[e] = cursor[e]
            /\ local'[e] = local[e] /\ localRead'[e] = localRead[e]
        BY <1>2, <2>2, SyncLeavesOthers
      <3> QED BY <3>1, <3>2 DEF Knowledge, Covers, Underway, KnowsStars,
                 KnowsRead, ReadListed, StarsListed, ReadApplied, StarsApplied,
                 Reached, Highest
    <2> QED BY <2>1, <2>2 DEF Knowledge
  <1> QED BY <1>1, <1>2 DEF TableStep

\* A stored cursor is honest up to what was passed over: the device has every
\* row up to it as the server has it, whatever syncs failed half-way or were
\* told to start over, unless the row was written between the query that should
\* have listed it and max_seq.
THEOREM CursorsHonest == Spec => []CursorCovers
  <1>1. Init => Knowledge
    BY DEF Init, Knowledge, Covers, Underway, KnowsStars, KnowsRead
  <1>2. TypeOK /\ TypeOK' /\ Allocated /\ Copies /\ Knowledge /\ [Next]_vars
          => Knowledge'
    BY TableSteps, KnowledgeStep
  <1>3. Knowledge => CursorCovers
    BY DEF Knowledge, Covers, KnowsStars, KnowsRead, CursorCovers
  <1> QED BY <1>1, <1>2, <1>3, TypeCorrect, AlwaysAllocated, AlwaysCopies, PTL
          DEF Spec

-----------------------------------------------------------------------------
(***************************************************************************)
(* Accounts.                                                               *)
(***************************************************************************)

Rows == [token : Tokens \cup {NoToken}, key : Keys \cup {NoKey}, cred : Nat, under : Nat,
         flagged : BOOLEAN, live : BOOLEAN, owner : BOOLEAN, boot : BOOLEAN]
Invites == [uses : 0 .. MaxUses, open : BOOLEAN]

WorkOK(w) ==
  \/ w \in [at : {"registering"}, n : Nat, token : Tokens]
  \/ w \in [at : {"admitted"}, n : Nat, token : Tokens, boot : BOOLEAN]
  \/ w \in [at : {"loggingIn"}, n : Nat, user : Accounts, client : Clients, cred : Nat, fits : BOOLEAN]
  \/ w \in [at : {"keyRead"}, n : Nat, user : Accounts, client : Clients, cred : Nat,
            key : Keys \cup {NoKey}, seen : Keys \cup {NoKey}]
  \/ w \in [at : {"keyed", "counted", "deviceReady"}, n : Nat, user : Accounts, client : Clients, cred : Nat]
  \/ w \in [at : {"recovering"}, n : Nat, user : Accounts, code : Codes]
  \/ w \in [at : {"recovered"}, n : Nat, user : Accounts]
  \/ w \in [at : {"deleting"}, user : Accounts]
  \/ w.at \in {"rotating", "signing"}

Admitted == {w \in At("admitted") : ~w.boot}
Paid == Accounts \ Unpaid

(* A registration that has used an invite holds that use until its account *)
(* exists; a session is of the era of its account's credential.            *)
AccountsInv ==
  /\ users \in Seq(Rows)
  /\ invites \in Seq(Invites)
  /\ oprf \in [file : Nat, loaded : Nat]
  /\ starts \in Nat
  /\ \A w \in work : WorkOK(w)
  /\ \A s \in sessions : s.user \in Accounts /\ s.era = users[s.user].cred
  /\ IsFiniteSet(Uses) /\ IsFiniteSet(Admitted)
  /\ Cardinality(Paid) + Cardinality(Admitted) <= Cardinality(Uses)

\* A step after which the same accounts stand on the same uses.
LEMMA AccountsRest ==
  ASSUME AccountsInv,
         users' \in Seq(Rows), Accounts' = Accounts, \A u \in Accounts : users'[u].boot = users[u].boot,
         invites' \in Seq(Invites), Uses' = Uses, oprf' \in [file : Nat, loaded : Nat], starts' \in Nat,
         \A w \in work' : WorkOK(w)', Admitted' \subseteq Admitted,
         \A s \in sessions' : s.user \in Accounts /\ s.era = users'[s.user].cred
  PROVE  AccountsInv'
  <1>1. Paid' = Paid
    BY DEF Paid, Unpaid
  <1>2. IsFiniteSet(Admitted) /\ IsFiniteSet(Admitted') /\ Cardinality(Admitted') <= Cardinality(Admitted)
    BY FS_Subset DEF AccountsInv
  <1>3. IsFiniteSet(Accounts)
    <2>1. Accounts = 1 .. Len(users) /\ Len(users) \in Nat
      BY LenProperties DEF AccountsInv, Accounts
    <2>2. 1 \in Int /\ Len(users) \in Int
      BY <2>1
    <2>3. IsFiniteSet(1 .. Len(users))
      BY <2>2, FS_Interval, ZenonT(60)
    <2> QED BY <2>1, <2>3, ZenonT(60)
  <1>4. IsFiniteSet(Paid) /\ Cardinality(Paid) \in Nat
    BY <1>3, FS_Subset, FS_CardinalityType DEF Paid
  <1>5. Cardinality(Admitted) \in Nat /\ Cardinality(Admitted') \in Nat
    BY <1>2, FS_CardinalityType
  <1>6. IsFiniteSet(Uses) /\ Cardinality(Uses) \in Nat
    BY FS_CardinalityType DEF AccountsInv
  <1>7. Cardinality(Paid) + Cardinality(Admitted) <= Cardinality(Uses)
    BY DEF AccountsInv
  <1>8. Cardinality(Paid') + Cardinality(Admitted') <= Cardinality(Uses')
    <2> DEFINE p == Cardinality(Paid)
               a == Cardinality(Admitted)
               b == Cardinality(Admitted')
               v == Cardinality(Uses)
    <2>1. p \in Nat /\ a \in Nat /\ b \in Nat /\ v \in Nat /\ b <= a /\ p + a <= v
      BY <1>2, <1>4, <1>5, <1>6, <1>7
    <2>2. Cardinality(Paid') = p /\ Cardinality(Uses') = v
      BY <1>1
    <2> HIDE DEF p, a, b, v
    <2>3. p + b <= v
      BY <2>1
    <2> QED BY <2>2, <2>3 DEF b
  <1>9. \A s \in sessions' : s.user \in Accounts' /\ s.era = users'[s.user].cred
    OBVIOUS
  <1> QED BY <1>2, <1>6, <1>8, <1>9 DEF AccountsInv

\* What is known of a protocol or a handler by its step.
LEMMA WorkIs ==
  ASSUME NEW w, WorkOK(w)
  PROVE  /\ w.at = "registering" => w.n \in Nat /\ w.token \in Tokens
         /\ w.at = "admitted" => w.n \in Nat /\ w.token \in Tokens /\ w.boot \in BOOLEAN
         /\ w.at = "loggingIn" => w.n \in Nat /\ w.user \in Accounts /\ w.client \in Clients /\ w.cred \in Nat
         /\ w.at = "keyRead" => /\ w.n \in Nat /\ w.user \in Accounts /\ w.client \in Clients /\ w.cred \in Nat
                                /\ w.key \in Keys \cup {NoKey} /\ w.seen \in Keys \cup {NoKey}
         /\ w.at \in {"keyed", "counted", "deviceReady"} =>
              w \in [at : {"keyed", "counted", "deviceReady"}, n : Nat, user : Accounts, client : Clients, cred : Nat]
         /\ w.at = "recovering" => w.n \in Nat /\ w.user \in Accounts
         /\ w.at = "recovered" => w.n \in Nat /\ w.user \in Accounts
         /\ w.at = "deleting" => w.user \in Accounts
  BY DEF WorkOK

\* A protocol stays well formed as long as the accounts there are stay.
LEMMA WorkStays ==
  ASSUME NEW w, WorkOK(w), Accounts \subseteq Accounts'
  PROVE  WorkOK(w)'
  BY DEF WorkOK

\* A step that only moves a protocol, or ends one, or leaves them alone.
LEMMA WorkMoves ==
  ASSUME AccountsInv, Accounts' = Accounts,
         \/ work' \subseteq work
         \/ \E v : /\ WorkOK(v) /\ v.at # "admitted"
                   /\ work' \subseteq work \cup {v}
  PROVE  (\A w \in work' : WorkOK(w)') /\ Admitted' \subseteq Admitted
  <1>1. CASE work' \subseteq work
    BY <1>1, WorkStays DEF AccountsInv, Admitted, At
  <1>2. ASSUME NEW v, WorkOK(v), v.at # "admitted", work' \subseteq work \cup {v}
        PROVE  (\A w \in work' : WorkOK(w)') /\ Admitted' \subseteq Admitted
    BY <1>2, WorkStays DEF AccountsInv, Admitted, At
  <1> QED BY <1>1, <1>2

\* A step that leaves the accounts, the invites and the key alone.
LEMMA AccountsWork ==
  ASSUME AccountsInv, UNCHANGED <<users, invites>>, oprf' \in [file : Nat, loaded : Nat], starts' \in Nat,
         \/ work' \subseteq work
         \/ \E v : /\ WorkOK(v) /\ v.at # "admitted"
                   /\ work' \subseteq work \cup {v},
         \A s \in sessions' : s \in sessions \/ (s.user \in Accounts /\ s.era = users[s.user].cred)
  PROVE  AccountsInv'
  <1>1. Accounts' = Accounts /\ Uses' = Uses
    BY DEF Accounts, Uses
  <1>2. (\A w \in work' : WorkOK(w)') /\ Admitted' \subseteq Admitted
    BY <1>1, WorkMoves
  <1>3. users' \in Seq(Rows) /\ invites' \in Seq(Invites) /\ \A u \in Accounts : users'[u].boot = users[u].boot
    BY DEF AccountsInv
  <1>4. \A s \in sessions' : s.user \in Accounts /\ s.era = users'[s.user].cred
    BY DEF AccountsInv
  <1> QED BY <1>1, <1>2, <1>3, <1>4, AccountsRest

\* The numbers the balance is made of.
LEMMA Balance ==
  ASSUME AccountsInv
  PROVE  /\ IsFiniteSet(Paid) /\ IsFiniteSet(Admitted) /\ IsFiniteSet(Uses)
         /\ Cardinality(Paid) \in Nat /\ Cardinality(Admitted) \in Nat /\ Cardinality(Uses) \in Nat
         /\ Cardinality(Paid) + Cardinality(Admitted) <= Cardinality(Uses)
  <1>1. IsFiniteSet(Accounts)
    <2>1. Accounts = 1 .. Len(users) /\ Len(users) \in Nat
      BY LenProperties DEF AccountsInv, Accounts
    <2>2. 1 \in Int /\ Len(users) \in Int
      BY <2>1
    <2>3. IsFiniteSet(1 .. Len(users))
      BY <2>2, FS_Interval, ZenonT(60)
    <2> QED BY <2>1, <2>3, ZenonT(60)
  <1>2. IsFiniteSet(Paid)
    BY <1>1, FS_Subset DEF Paid
  <1> QED BY <1>2, FS_CardinalityType DEF AccountsInv

\* Consuming an invite adds a use, and at most one registration it pays for.
LEMMA ConsumeKeeps ==
  ASSUME AccountsInv, NEW w \in work, NEW i \in DOMAIN invites, ConsumeInvite(w, i)
  PROVE  AccountsInv'
  <1> DEFINE v == [at |-> "admitted", n |-> w.n, token |-> w.token, boot |-> FALSE]
             use == <<i, invites[i].uses + 1>>
  <1>1. WorkOK(w) /\ w.n \in Nat /\ w.token \in Tokens
    BY WorkIs DEF ConsumeInvite, At, AccountsInv
  <1>2. WorkOK(v)
    BY <1>1 DEF WorkOK
  <1>3. work' = (work \ {w}) \cup {v}
    BY DEF ConsumeInvite, Become
  <1>4. UNCHANGED <<users, sessions, oprf, starts>> /\ Accounts' = Accounts /\ Paid' = Paid
    BY DEF ConsumeInvite, Accounts, Paid, Unpaid
  <1>5. invites \in Seq(Invites) /\ invites[i] \in Invites /\ invites[i].uses < MaxUses
    BY ElementOfSeq, LenProperties DEF AccountsInv, ConsumeInvite, Usable
  <1>6. invites' = [invites EXCEPT ![i] = [invites[i] EXCEPT !.uses = invites[i].uses + 1]]
    BY DEF ConsumeInvite
  <1>7. [invites[i] EXCEPT !.uses = invites[i].uses + 1] \in Invites
    BY <1>5, AccountsAssumption, SMTT(60) DEF Invites
  <1>8. invites' \in Seq(Invites) /\ DOMAIN invites' = DOMAIN invites
    BY <1>5, <1>6, <1>7, ExceptSeq, LenProperties
  <1>9. Uses' = Uses \cup {use} /\ use \notin Uses
    <2>1. /\ invites'[i].uses = invites[i].uses + 1 /\ invites[i].uses \in Nat
          /\ \A k \in DOMAIN invites : k # i => invites'[k] = invites[k]
      BY <1>5, <1>6 DEF Invites
    <2>2. 1 .. (invites[i].uses + 1) = (1 .. invites[i].uses) \cup {invites[i].uses + 1}
      BY <2>1
    <2>3. Uses' = UNION {{k} \X (1 .. invites'[k].uses) : k \in DOMAIN invites}
      BY <1>8 DEF Uses
    <2>4. Uses' = Uses \cup {use}
      BY <2>1, <2>2, <2>3 DEF Uses
    <2>5. use \notin Uses
      BY <2>1 DEF Uses
    <2> QED BY <2>4, <2>5
  <1>10. Admitted' \subseteq Admitted \cup {v}
    BY <1>3 DEF Admitted, At
  <1> HIDE DEF v, use
  <1>11. \A x \in work' : WorkOK(x)'
    BY <1>2, <1>3, <1>4, WorkStays DEF AccountsInv
  <1>12. IsFiniteSet(Uses') /\ Cardinality(Uses') = Cardinality(Uses) + 1
    BY <1>9, Balance, FS_AddElement
  <1>13. IsFiniteSet(Admitted') /\ Cardinality(Admitted') <= Cardinality(Admitted) + 1
    <2> DEFINE more == Admitted \cup {v}
    <2>1. IsFiniteSet(more) /\ Cardinality(more) <= Cardinality(Admitted) + 1
      BY Balance, FS_AddElement
    <2>2. Admitted' \subseteq more
      BY <1>10
    <2> HIDE DEF more
    <2>3. IsFiniteSet(Admitted') /\ Cardinality(Admitted') <= Cardinality(more)
      BY <2>1, <2>2, FS_Subset
    <2>4. Cardinality(Admitted') \in Nat /\ Cardinality(more) \in Nat
      BY <2>1, <2>3, FS_CardinalityType
    <2> QED BY <2>1, <2>3, <2>4, Balance
  <1>14. Cardinality(Paid') + Cardinality(Admitted') <= Cardinality(Uses')
    <2>1. Cardinality(Admitted') \in Nat
      BY <1>13, FS_CardinalityType
    <2> DEFINE p == Cardinality(Paid)
               a == Cardinality(Admitted)
               b == Cardinality(Admitted')
               u == Cardinality(Uses)
    <2>2. p \in Nat /\ a \in Nat /\ b \in Nat /\ u \in Nat /\ p + a <= u /\ b <= a + 1
      BY <1>13, <2>1, Balance
    <2>3. Cardinality(Paid') = p /\ Cardinality(Uses') = u + 1
      BY <1>4, <1>12
    <2> HIDE DEF p, a, b, u
    <2>4. p + b <= u + 1
      BY <2>2
    <2> QED BY <2>3, <2>4 DEF b
  <1>15. users' \in Seq(Rows) /\ oprf' \in [file : Nat, loaded : Nat] /\ starts' \in Nat
    BY <1>4 DEF AccountsInv
  <1>16. \A s \in sessions' : s.user \in Accounts' /\ s.era = users'[s.user].cred
    BY <1>4 DEF AccountsInv
  <1> QED BY <1>8, <1>11, <1>12, <1>13, <1>14, <1>15, <1>16 DEF AccountsInv

\* An account created on an invite takes the place of its registration.
LEMMA CreateKeeps ==
  ASSUME AccountsInv, NEW w \in work, CreateAccount(w)
  PROVE  AccountsInv'
  <1> DEFINE u == Len(users) + 1
             row == [token |-> w.token, key |-> NoKey, cred |-> 0, under |-> oprf.loaded,
                     flagged |-> FALSE, live |-> TRUE, owner |-> w.boot, boot |-> w.boot]
  <1>1. WorkOK(w) /\ w.at = "admitted" /\ w.token \in Tokens /\ w.boot \in BOOLEAN
    BY WorkIs DEF CreateAccount, At, AccountsInv
  <1>2. users \in Seq(Rows) /\ Len(users) \in Nat /\ Accounts = 1 .. Len(users)
    BY LenProperties DEF AccountsInv, Accounts
  <1>3. row \in Rows
    BY <1>1 DEF Rows, AccountsInv
  <1>4. users' = Append(users, row)
    BY DEF CreateAccount
  <1> HIDE DEF row
  <1>5. /\ users' \in Seq(Rows) /\ Accounts' = Accounts \cup {u} /\ u \notin Accounts
        /\ users'[u] = row /\ \A x \in Accounts : users'[x] = users[x]
    BY <1>2, <1>3, <1>4, AppendProperties, LenProperties DEF Accounts
  <1>6. row.boot = w.boot /\ row.cred = 0
    BY DEF row
  <1>7. work' = work \ {w} /\ UNCHANGED <<invites, oprf, starts>>
    BY DEF CreateAccount, Done
  <1>8. Uses' = Uses
    BY <1>7 DEF Uses
  <1>9. sessions' = sessions \cup {[n |-> w.n, user |-> u, client |-> NoClient, proof |-> 0, era |-> users'[u].cred]}
    BY DEF CreateAccount, Session
  <1> HIDE DEF u
  <1>10. \A s \in sessions' : s.user \in Accounts' /\ s.era = users'[s.user].cred
    BY <1>5, <1>9 DEF AccountsInv
  <1>11. \A x \in work' : WorkOK(x)'
    BY <1>5, <1>7, WorkStays DEF AccountsInv
  <1>12. /\ IsFiniteSet(Admitted')
         /\ Cardinality(Paid') + Cardinality(Admitted') <= Cardinality(Uses')
    <2>1. CASE w.boot
      <3>1. Paid' = Paid
        BY <1>1, <1>5, <1>6, <2>1 DEF Paid, Unpaid
      <3>2. Admitted' = Admitted
        BY <1>1, <1>7, <2>1 DEF Admitted, At
      <3> QED BY <1>8, <3>1, <3>2, Balance
    <2>2. CASE ~w.boot
      <3>1. Paid' = Paid \cup {u} /\ u \notin Paid
        BY <1>1, <1>5, <1>6, <2>2 DEF Paid, Unpaid
      <3>2. Admitted' = Admitted \ {w} /\ w \in Admitted
        BY <1>1, <1>7, <2>2 DEF Admitted, At
      <3>3. Cardinality(Paid') = Cardinality(Paid) + 1
        BY <3>1, Balance, FS_AddElement
      <3>4. IsFiniteSet(Admitted') /\ Cardinality(Admitted') = Cardinality(Admitted) - 1
        BY <3>2, Balance, FS_RemoveElement
      <3> DEFINE p == Cardinality(Paid)
                 a == Cardinality(Admitted)
                 v == Cardinality(Uses)
      <3>5. p \in Nat /\ a \in Nat /\ v \in Nat /\ p + a <= v
        BY Balance
      <3>6. Cardinality(Paid') = p + 1 /\ Cardinality(Admitted') = a - 1 /\ Cardinality(Uses') = v
        BY <1>8, <3>3, <3>4
      <3> HIDE DEF p, a, v
      <3>7. (p + 1) + (a - 1) <= v
        BY <3>5
      <3> QED BY <3>4, <3>6, <3>7
    <2> QED BY <1>1, <2>1, <2>2
  <1>13. IsFiniteSet(Uses')
    BY <1>8 DEF AccountsInv
  <1>14. invites' \in Seq(Invites) /\ oprf' \in [file : Nat, loaded : Nat] /\ starts' \in Nat
    BY <1>7 DEF AccountsInv
  <1> QED BY <1>5, <1>10, <1>11, <1>12, <1>13, <1>14 DEF AccountsInv

\* A step that writes the row of an account, and no session outlives a new
\* credential of it.
LEMMA AccountsRow ==
  ASSUME AccountsInv, NEW u \in Accounts, NEW row \in Rows,
         users' = [users EXCEPT ![u] = row], row.boot = users[u].boot,
         UNCHANGED <<invites, oprf, starts>>,
         \/ work' \subseteq work
         \/ \E v : /\ WorkOK(v) /\ v.at # "admitted"
                   /\ work' \subseteq work \cup {v},
         sessions' \subseteq sessions,
         row.cred = users[u].cred \/ \A s \in sessions' : s.user # u
  PROVE  AccountsInv'
  <1>1. users \in Seq(Rows) /\ u \in 1 .. Len(users) /\ Accounts = 1 .. Len(users)
    BY LenProperties DEF AccountsInv, Accounts
  <1>2. /\ users' \in Seq(Rows) /\ Accounts' = Accounts
        /\ users'[u] = row /\ \A x \in Accounts \ {u} : users'[x] = users[x]
    BY <1>1, ExceptSeq, LenProperties DEF Accounts
  <1>3. Uses' = Uses
    BY DEF Uses
  <1>4. (\A w \in work' : WorkOK(w)') /\ Admitted' \subseteq Admitted
    BY <1>2, WorkMoves
  <1>5. \A s \in sessions' : s.user \in Accounts /\ s.era = users'[s.user].cred
    BY <1>2 DEF AccountsInv
  <1>6. \A x \in Accounts : users'[x].boot = users[x].boot
    BY <1>2
  <1>7. invites' \in Seq(Invites) /\ oprf' \in [file : Nat, loaded : Nat] /\ starts' \in Nat
    BY DEF AccountsInv
  <1> QED BY <1>2, <1>3, <1>4, <1>5, <1>6, <1>7, AccountsRest

\* The steps of a login, up to the session it opens.
LEMMA LoginKeeps ==
  ASSUME AccountsInv, NEW w \in work,
         \/ \E k \in Keys \cup {NoKey} : LoginFinish(w, k)
         \/ StoreKey(w) \/ CompareKey(w) \/ FindDevice(w) \/ AddDevice(w) \/ OpenSession(w)
  PROVE  AccountsInv'
  <1>1. WorkOK(w) /\ work \ {w} \subseteq work
    BY DEF AccountsInv
  <1>2. users \in Seq(Rows) /\ Accounts = 1 .. Len(users) /\ DOMAIN users = Accounts
    BY LenProperties DEF AccountsInv, Accounts
  <1>3. oprf \in [file : Nat, loaded : Nat] /\ starts \in Nat
    BY DEF AccountsInv
  <1>4. ASSUME NEW k \in Keys \cup {NoKey}, LoginFinish(w, k)
        PROVE  AccountsInv'
    <2> DEFINE v == [at |-> "keyRead", n |-> w.n, user |-> w.user, client |-> w.client,
                     cred |-> w.cred, key |-> k, seen |-> users[w.user].key]
    <2>1. w.n \in Nat /\ w.user \in Accounts /\ w.client \in Clients /\ w.cred \in Nat
      BY <1>1, <1>4, WorkIs DEF LoginFinish, At
    <2>2. users[w.user] \in Rows
      BY <1>2, <2>1, ElementOfSeq
    <2>3. WorkOK(v) /\ v.at # "admitted"
      BY <2>1, <2>2 DEF WorkOK, Rows
    <2>4. work' = (work \ {w}) \cup {v}
      BY <1>4 DEF LoginFinish, Become
    <2> HIDE DEF v
    <2>5. \E x : WorkOK(x) /\ x.at # "admitted" /\ work' \subseteq work \cup {x}
      BY <2>3, <2>4
    <2> QED BY <1>3, <1>4, <2>5, AccountsWork DEF LoginFinish
  <1>5. ASSUME w.at = "keyRead"
        PROVE  WorkOK(KeyChecked(w)) /\ KeyChecked(w).at # "admitted"
    BY <1>1, <1>5, WorkIs DEF KeyChecked, WorkOK
  <1>6. CASE StoreKey(w)
    <2> DEFINE u == w.user
               row == [users[u] EXCEPT !.key = w.key]
    <2>1. u \in Accounts /\ w.key \in Keys \cup {NoKey} /\ w.at = "keyRead"
      BY <1>1, <1>6, WorkIs DEF StoreKey, At
    <2>2. users[u] \in Rows
      BY <1>2, <2>1, ElementOfSeq
    <2>3. row \in Rows /\ row.boot = users[u].boot /\ row.cred = users[u].cred
      BY <2>1, <2>2 DEF Rows
    <2>4. users' = [users EXCEPT ![u] = row]
      BY <1>6 DEF StoreKey
    <2>5. work' \subseteq work \cup {KeyChecked(w)} /\ UNCHANGED <<invites, oprf, starts, sessions>>
      BY <1>6 DEF StoreKey, Become
    <2>6. \E x : WorkOK(x) /\ x.at # "admitted" /\ work' \subseteq work \cup {x}
      BY <1>5, <2>1, <2>5
    <2> HIDE DEF u, row
    <2> QED BY <2>1, <2>3, <2>4, <2>5, <2>6, AccountsRow
  <1>7. CASE CompareKey(w)
    <2>1. w.at = "keyRead" /\ (work' \subseteq work \/ work' \subseteq work \cup {KeyChecked(w)})
      BY <1>7 DEF CompareKey, At, Become, Done
    <2>2. \/ work' \subseteq work
          \/ \E x : WorkOK(x) /\ x.at # "admitted" /\ work' \subseteq work \cup {x}
      BY <1>5, <2>1
    <2> QED BY <1>3, <1>7, <2>2, AccountsWork DEF CompareKey
  <1>8. ASSUME NEW step \in {"counted", "deviceReady"}, w.at \in {"keyed", "counted"}
        PROVE  WorkOK([w EXCEPT !.at = step]) /\ [w EXCEPT !.at = step].at # "admitted"
    <2>1. w \in [at : {"keyed", "counted", "deviceReady"}, n : Nat, user : Accounts, client : Clients, cred : Nat]
      BY <1>1, <1>8, WorkIs
    <2> QED BY <2>1 DEF WorkOK
  <1>9. CASE FindDevice(w)
    <2>1. /\ w.at = "keyed"
          /\ \/ work' \subseteq work
             \/ work' \subseteq work \cup {[w EXCEPT !.at = "deviceReady"]}
             \/ work' \subseteq work \cup {[w EXCEPT !.at = "counted"]}
      BY <1>9 DEF FindDevice, At, Become, Done
    <2>2. \/ work' \subseteq work
          \/ \E x : WorkOK(x) /\ x.at # "admitted" /\ work' \subseteq work \cup {x}
      BY <1>8, <2>1
    <2> QED BY <1>3, <1>9, <2>2, AccountsWork DEF FindDevice
  <1>10. CASE AddDevice(w)
    <2>1. /\ w.at = "counted"
          /\ work' \subseteq work \/ work' \subseteq work \cup {[w EXCEPT !.at = "deviceReady"]}
      BY <1>10 DEF AddDevice, At, Become, Done
    <2>2. \/ work' \subseteq work
          \/ \E x : WorkOK(x) /\ x.at # "admitted" /\ work' \subseteq work \cup {x}
      BY <1>8, <2>1
    <2> QED BY <1>3, <1>10, <2>2, AccountsWork DEF AddDevice
  <1>11. CASE OpenSession(w)
    <2> DEFINE s0 == [n |-> w.n, user |-> w.user, client |-> w.client, proof |-> w.cred,
                      era |-> users'[w.user].cred]
    <2>1. w.user \in Accounts
      <3>1. w \in [at : {"keyed", "counted", "deviceReady"}, n : Nat, user : Accounts, client : Clients, cred : Nat]
        BY <1>1, <1>11, WorkIs DEF OpenSession, At
      <3> QED BY <3>1
    <2>2. sessions' \subseteq sessions \cup {s0} /\ users' = users
      BY <1>11 DEF OpenSession, Session
    <2>3. s0.user \in Accounts /\ s0.era = users[s0.user].cred
      BY <2>1, <2>2
    <2> HIDE DEF s0
    <2>4. \A s \in sessions' : s \in sessions \/ (s.user \in Accounts /\ s.era = users[s.user].cred)
      BY <2>2, <2>3
    <2> QED BY <1>1, <1>3, <1>11, <2>4, AccountsWork DEF OpenSession, Done
  <1> QED BY <1>4, <1>6, <1>7, <1>9, <1>10, <1>11

\* The steps of a recovery: the sessions of the old credential go with it.
LEMMA RecoveryKeeps ==
  ASSUME AccountsInv, NEW w \in work, RecoverFinish(w) \/ RecoverSession(w)
  PROVE  AccountsInv'
  <1>1. WorkOK(w)
    BY DEF AccountsInv
  <1>2. users \in Seq(Rows) /\ DOMAIN users = Accounts
    BY LenProperties DEF AccountsInv, Accounts
  <1>3. oprf \in [file : Nat, loaded : Nat] /\ starts \in Nat
    BY DEF AccountsInv
  <1>4. CASE RecoverFinish(w)
    <2> DEFINE u == w.user
               row == [users[u] EXCEPT !.cred = @ + 1, !.under = oprf.loaded]
               v == [at |-> "recovered", n |-> w.n, user |-> u]
    <2>1. u \in Accounts /\ w.n \in Nat
      BY <1>1, <1>4, WorkIs DEF RecoverFinish, At
    <2>2. users[u] \in Rows
      BY <1>2, <2>1, ElementOfSeq, LenProperties
    <2>3. row \in Rows /\ row.boot = users[u].boot
      <3> DEFINE cred == users[u].cred + 1
                 under == oprf.loaded
      <3>1. cred \in Nat /\ under \in Nat
        BY <1>3, <2>2 DEF Rows
      <3>2. row = [users[u] EXCEPT !.cred = cred, !.under = under]
        OBVIOUS
      <3> HIDE DEF row, cred, under
      <3> QED BY <2>2, <3>1, <3>2 DEF Rows
    <2>4. users' = [users EXCEPT ![u] = row]
      BY <1>4 DEF RecoverFinish
    <2>5. work' \subseteq work \cup {v} /\ UNCHANGED <<invites, oprf, starts>>
      BY <1>4 DEF RecoverFinish, Become
    <2>6. WorkOK(v) /\ v.at # "admitted"
      BY <2>1 DEF WorkOK
    <2>7. sessions' \subseteq sessions /\ \A s \in sessions' : s.user # u
      BY <1>4 DEF RecoverFinish, SessionsOf
    <2> HIDE DEF u, row, v
    <2>8. \E x : WorkOK(x) /\ x.at # "admitted" /\ work' \subseteq work \cup {x}
      BY <2>5, <2>6
    <2> QED BY <2>1, <2>3, <2>4, <2>5, <2>7, <2>8, AccountsRow
  <1>5. CASE RecoverSession(w)
    <2> DEFINE s0 == [n |-> w.n, user |-> w.user, client |-> NoClient, proof |-> users[w.user].cred,
                      era |-> users'[w.user].cred]
    <2>1. w.user \in Accounts
      BY <1>1, <1>5, WorkIs DEF RecoverSession, At
    <2>2. sessions' = sessions \cup {s0} /\ users' = users
      BY <1>5 DEF RecoverSession, Session
    <2>3. s0.user \in Accounts /\ s0.era = users[s0.user].cred
      BY <2>1, <2>2
    <2> HIDE DEF s0
    <2>4. \A s \in sessions' : s \in sessions \/ (s.user \in Accounts /\ s.era = users[s.user].cred)
      BY <2>2, <2>3
    <2> QED BY <1>3, <1>5, <2>4, AccountsWork DEF RecoverSession, Done
  <1> QED BY <1>4, <1>5

\* The requests of a session.
LEMMA RequestsKeep ==
  ASSUME AccountsInv, NEW s \in sessions,
         \/ RefuseDisabled(s) \/ Expire(s)
         \/ \E t \in sessions : RevokeSession(s, t)
         \/ \E all \in BOOLEAN : Logout(s, all)
         \/ \E c \in Clients : RevokeDevice(s, c)
         \/ CreateInvite(s) \/ RequestDeletion(s) \/ AppendBotLeaf(s)
  PROVE  AccountsInv'
  <1>1. oprf \in [file : Nat, loaded : Nat] /\ starts \in Nat /\ s.user \in Accounts
    BY DEF AccountsInv
  <1>2. CASE \/ RefuseDisabled(s) \/ Expire(s)
             \/ \E t \in sessions : RevokeSession(s, t)
             \/ \E all \in BOOLEAN : Logout(s, all)
             \/ \E c \in Clients : RevokeDevice(s, c)
             \/ AppendBotLeaf(s)
    <2>1. sessions' \subseteq sessions /\ UNCHANGED <<users, invites, oprf, starts, work>>
      BY <1>2 DEF RefuseDisabled, Expire, RevokeSession, Logout, RevokeDevice, AppendBotLeaf
    <2> QED BY <1>1, <2>1, AccountsWork
  <1>3. CASE CreateInvite(s)
    <2> DEFINE invite == [uses |-> 0, open |-> TRUE]
    <2>1. invite \in Invites
      BY AccountsAssumption DEF Invites
    <2>2. invites \in Seq(Invites) /\ invites' = Append(invites, invite) /\ invite.uses = 0
      BY <1>3 DEF CreateInvite, AccountsInv
    <2> HIDE DEF invite
    <2>3. /\ invites' \in Seq(Invites) /\ DOMAIN invites' = DOMAIN invites \cup {Len(invites) + 1}
          /\ invites'[Len(invites) + 1] = invite
          /\ \A i \in DOMAIN invites : invites'[i] = invites[i]
      BY <2>1, <2>2, AppendProperties, LenProperties
    <2>4. Uses' = UNION {{i} \X (1 .. invites'[i].uses) : i \in DOMAIN invites \cup {Len(invites) + 1}}
      BY <2>3 DEF Uses
    <2>5. 1 .. invites'[Len(invites) + 1].uses = {}
      BY <2>2, <2>3
    <2>6. Uses' = Uses
      BY <2>3, <2>4, <2>5 DEF Uses
    <2>7. UNCHANGED <<users, sessions, work, oprf, starts>> /\ Accounts' = Accounts
      BY <1>3 DEF CreateInvite, Accounts
    <2>8. (\A w \in work' : WorkOK(w)') /\ Admitted' \subseteq Admitted
      BY <2>7, WorkMoves
    <2>9. users' \in Seq(Rows) /\ \A x \in sessions' : x.user \in Accounts /\ x.era = users'[x.user].cred
      BY <2>7 DEF AccountsInv
    <2> QED BY <1>1, <2>3, <2>6, <2>7, <2>8, <2>9, AccountsRest
  <1>4. CASE RequestDeletion(s)
    <2> DEFINE v == [at |-> "deleting", user |-> s.user]
    <2>1. WorkOK(v) /\ v.at # "admitted"
      BY <1>1 DEF WorkOK
    <2>2. work' = work \cup {v} /\ UNCHANGED <<users, invites, sessions, oprf, starts>>
      BY <1>4 DEF RequestDeletion
    <2> HIDE DEF v
    <2>3. \E x : WorkOK(x) /\ x.at # "admitted" /\ work' \subseteq work \cup {x}
      BY <2>1, <2>2
    <2> QED BY <1>1, <2>2, <2>3, AccountsWork
  <1> QED BY <1>2, <1>3, <1>4

\* The row of an account that is deleted.
LEMMA DeletionKeeps ==
  ASSUME AccountsInv, NEW w \in work, DeleteAccount(w)
  PROVE  AccountsInv'
  <1> DEFINE u == w.user
             row == [users[u] EXCEPT !.live = FALSE, !.token = NoToken, !.key = NoKey, !.owner = FALSE]
  <1>1. u \in Accounts
    BY WorkIs DEF AccountsInv, DeleteAccount, At
  <1>2. users[u] \in Rows
    BY <1>1, ElementOfSeq, LenProperties DEF AccountsInv, Accounts
  <1>3. row \in Rows /\ row.boot = users[u].boot /\ row.cred = users[u].cred
    BY <1>2 DEF Rows
  <1>4. users' = [users EXCEPT ![u] = row]
    BY DEF DeleteAccount, Anonymised
  <1>5. UNCHANGED <<invites, oprf, starts>> /\ work' \subseteq work /\ sessions' \subseteq sessions
    BY DEF DeleteAccount, Done
  <1> HIDE DEF u, row
  <1> QED BY <1>1, <1>3, <1>4, <1>5, AccountsRow

\* Every step keeps the balance of the invites and the eras of the sessions.
LEMMA AccountsStep ==
  ASSUME AccountsInv, [AccountsNext]_accountVars
  PROVE  AccountsInv'
  <1>1. /\ users \in Seq(Rows) /\ invites \in Seq(Invites) /\ oprf \in [file : Nat, loaded : Nat]
        /\ starts \in Nat /\ \A w \in work : WorkOK(w)
    BY DEF AccountsInv
  <1>2. ASSUME NEW t \in Tokens, RegisterStart(t)
        PROVE  AccountsInv'
    <2> DEFINE v == [at |-> "registering", n |-> starts, token |-> t]
    <2>1. WorkOK(v) /\ v.at # "admitted"
      BY <1>1 DEF WorkOK
    <2>2. work' = work \cup {v} /\ starts' \in Nat
      BY <1>1, <1>2 DEF RegisterStart, Start
    <2> HIDE DEF v
    <2>3. \E x : WorkOK(x) /\ x.at # "admitted" /\ work' \subseteq work \cup {x}
      BY <2>1, <2>2
    <2> QED BY <1>1, <1>2, <2>2, <2>3, AccountsWork DEF RegisterStart
  <1>3. ASSUME NEW u \in Accounts, NEW c \in Clients, LoginStart(u, c)
        PROVE  AccountsInv'
    <2> DEFINE v == [at |-> "loggingIn", n |-> starts, user |-> u, client |-> c,
                     cred |-> users[u].cred, fits |-> users[u].under = oprf.loaded]
    <2>1. users[u] \in Rows
      BY <1>1, ElementOfSeq, LenProperties DEF Accounts
    <2>2. WorkOK(v) /\ v.at # "admitted"
      BY <1>1, <2>1 DEF WorkOK, Rows
    <2>3. work' = work \cup {v} /\ starts' \in Nat
      BY <1>1, <1>3 DEF LoginStart, Start
    <2> HIDE DEF v
    <2>4. \E x : WorkOK(x) /\ x.at # "admitted" /\ work' \subseteq work \cup {x}
      BY <2>2, <2>3
    <2> QED BY <1>1, <1>3, <2>3, <2>4, AccountsWork DEF LoginStart
  <1>4. ASSUME NEW u \in Accounts, NEW k \in Codes, RecoverStart(u, k)
        PROVE  AccountsInv'
    <2> DEFINE v == [at |-> "recovering", n |-> starts, user |-> u, code |-> k]
    <2>1. WorkOK(v) /\ v.at # "admitted"
      BY <1>1 DEF WorkOK
    <2>2. work' = work \cup {v} /\ starts' \in Nat
      BY <1>1, <1>4 DEF RecoverStart, Start
    <2> HIDE DEF v
    <2>3. \E x : WorkOK(x) /\ x.at # "admitted" /\ work' \subseteq work \cup {x}
      BY <2>1, <2>2
    <2> QED BY <1>1, <1>4, <2>2, <2>3, AccountsWork DEF RecoverStart
  <1>5. ASSUME NEW w \in work, Forget(w) \/ RegisterRefused(w) \/ CreateAccountFails(w)
        PROVE  AccountsInv'
    <2>1. work' \subseteq work /\ UNCHANGED <<users, invites, oprf, starts, sessions>>
      BY <1>5 DEF Forget, RegisterRefused, CreateAccountFails, Done
    <2> QED BY <1>1, <2>1, AccountsWork
  <1>6. ASSUME NEW w \in work, RegisterFirst(w)
        PROVE  AccountsInv'
    <2> DEFINE v == [at |-> "admitted", n |-> w.n, token |-> w.token, boot |-> TRUE]
    <2>1. w.n \in Nat /\ w.token \in Tokens
      BY <1>1, <1>6, WorkIs DEF RegisterFirst, At
    <2>2. WorkOK(v) /\ v.boot
      BY <2>1 DEF WorkOK
    <2>3. work' = (work \ {w}) \cup {v} /\ UNCHANGED <<users, invites, sessions, oprf, starts>>
      BY <1>6 DEF RegisterFirst, Become
    <2> HIDE DEF v
    <2>4. Accounts' = Accounts /\ Uses' = Uses
      BY <2>3 DEF Accounts, Uses
    <2>5. \A x \in work' : WorkOK(x)'
      BY <1>1, <2>2, <2>3, <2>4, WorkStays
    <2>6. Admitted' \subseteq Admitted
      BY <2>2, <2>3 DEF Admitted, At
    <2>7. \A s \in sessions' : s.user \in Accounts /\ s.era = users'[s.user].cred
      BY <2>3 DEF AccountsInv
    <2> QED BY <1>1, <2>3, <2>4, <2>5, <2>6, <2>7, AccountsRest
  <1>7. ASSUME NEW w \in work, RotateWrite(w) \/ SnapshotInsert(w)
        PROVE  AccountsInv'
    <2>1. work' \subseteq work /\ UNCHANGED <<users, invites, starts, sessions>>
      BY <1>7 DEF RotateWrite, SnapshotInsert, Done
    <2>2. oprf' \in [file : Nat, loaded : Nat] /\ starts' \in Nat
      BY <1>1, <1>7 DEF RotateWrite, SnapshotInsert
    <2> QED BY <2>1, <2>2, AccountsWork
  <1>8. ASSUME NEW i \in DOMAIN invites, CloseInvite(i)
        PROVE  AccountsInv'
    <2> DEFINE invite == [invites[i] EXCEPT !.open = FALSE]
    <2>1. invites[i] \in Invites
      BY <1>1, ElementOfSeq, LenProperties
    <2>2. invite \in Invites /\ invite.uses = invites[i].uses
      BY <2>1 DEF Invites
    <2>3. invites' = [invites EXCEPT ![i] = invite]
      BY <1>8 DEF CloseInvite
    <2> HIDE DEF invite
    <2>4. /\ invites' \in Seq(Invites) /\ DOMAIN invites' = DOMAIN invites
          /\ \A k \in DOMAIN invites : invites'[k].uses = invites[k].uses
      BY <1>1, <2>2, <2>3, ExceptSeq, LenProperties
    <2>5. Uses' = Uses
      BY <2>4 DEF Uses
    <2>6. UNCHANGED <<users, sessions, work, oprf, starts>> /\ Accounts' = Accounts
      BY <1>8 DEF CloseInvite, Accounts
    <2>7. (\A w \in work' : WorkOK(w)') /\ Admitted' \subseteq Admitted
      BY <2>6, WorkMoves
    <2>8. \A x \in sessions' : x.user \in Accounts /\ x.era = users'[x.user].cred
      BY <2>6 DEF AccountsInv
    <2> QED BY <1>1, <2>4, <2>5, <2>6, <2>7, <2>8, AccountsRest
  <1>9. CASE RotateFlag
    <2>1. users' = [u \in Accounts |-> [users[u] EXCEPT !.flagged = @ \/ Live(u)]]
      BY <1>9 DEF RotateFlag
    <2>2. Accounts = 1 .. Len(users) /\ Len(users) \in Nat /\ \A u \in Accounts : users[u] \in Rows
      BY <1>1, ElementOfSeq, LenProperties DEF Accounts
    <2>3. ASSUME NEW u \in Accounts
          PROVE  users'[u] \in Rows /\ users'[u].boot = users[u].boot /\ users'[u].cred = users[u].cred
      <3>1. users'[u] = [users[u] EXCEPT !.flagged = users[u].flagged \/ Live(u)]
        BY <2>1
      <3>2. users[u] \in Rows /\ (users[u].flagged \/ Live(u)) \in BOOLEAN
        BY <2>2
      <3> QED BY <3>1, <3>2 DEF Rows
    <2>4. users' \in Seq(Rows) /\ Accounts' = Accounts
      <3>1. users' \in [1 .. Len(users) -> Rows]
        BY <2>1, <2>2, <2>3
      <3>2. users' \in Seq(Rows)
        BY <2>2, <3>1, SeqDef
      <3> QED BY <2>1, <3>2 DEF Accounts
    <2> DEFINE v == [at |-> "rotating", n |-> starts]
    <2>5. work' = work \cup {v} /\ UNCHANGED <<invites, sessions, oprf, starts>>
      BY <1>9 DEF RotateFlag
    <2>6. WorkOK(v) /\ v.at # "admitted"
      BY DEF WorkOK
    <2> HIDE DEF v
    <2>7. (\A w \in work' : WorkOK(w)') /\ Admitted' \subseteq Admitted
      BY <2>4, <2>5, <2>6, WorkMoves
    <2>8. Uses' = Uses
      BY <2>5 DEF Uses
    <2>9. \A x \in sessions' : x.user \in Accounts /\ x.era = users'[x.user].cred
      BY <2>3, <2>5 DEF AccountsInv
    <2> QED BY <1>1, <2>3, <2>4, <2>5, <2>7, <2>8, <2>9, AccountsRest
  <1>10. CASE Restart
    <2>1. work' \subseteq work /\ UNCHANGED <<users, invites, starts, sessions>>
      BY <1>10 DEF Restart
    <2>2. oprf' \in [file : Nat, loaded : Nat] /\ starts' \in Nat
      BY <1>1, <1>10 DEF Restart
    <2> QED BY <2>1, <2>2, AccountsWork
  <1>11. CASE SnapshotRead
    <2> DEFINE v == [at |-> "signing", n |-> Heads, size |-> Len(log), root |-> Root(Recomputed)]
    <2>1. work' = work \cup {v} /\ UNCHANGED <<users, invites, sessions, oprf, starts>>
      BY <1>11 DEF SnapshotRead
    <2>2. WorkOK(v) /\ v.at # "admitted"
      BY DEF WorkOK
    <2> HIDE DEF v
    <2>3. \E x : WorkOK(x) /\ x.at # "admitted" /\ work' \subseteq work \cup {x}
      BY <2>1, <2>2
    <2> QED BY <1>1, <2>1, <2>3, AccountsWork
  <1>12. CASE UNCHANGED accountVars
    <2>1. UNCHANGED <<users, invites, sessions, oprf, starts, work>>
      BY <1>12 DEF accountVars
    <2> QED BY <1>1, <2>1, AccountsWork
  <1>13. ASSUME NEW w \in work, \E i \in DOMAIN invites : ConsumeInvite(w, i)
         PROVE  AccountsInv'
    BY <1>13, ConsumeKeeps
  <1> QED
    BY <1>2, <1>3, <1>4, <1>5, <1>6, <1>7, <1>8, <1>9, <1>10, <1>11, <1>12, <1>13,
       CreateKeeps, LoginKeeps, RecoveryKeeps, RequestsKeep, DeletionKeeps DEF AccountsNext

\* The balance and the eras hold in every behaviour of the accounts.
LEMMA AccountsInvariant == AccountsSpec => []AccountsInv
  <1>1. AccountsInit => AccountsInv
    <2> SUFFICES ASSUME AccountsInit
                 PROVE  AccountsInv
      OBVIOUS
    <2>1. users = <<>> /\ invites = <<>> /\ work = {} /\ sessions = {}
      BY DEF AccountsInit
    <2>2. Accounts = {} /\ DOMAIN invites = {}
      BY <2>1 DEF Accounts
    <2>3. Uses = {} /\ Admitted = {} /\ Paid = {}
      BY <2>1, <2>2 DEF Uses, Admitted, At, Paid
    <2>4. users \in Seq(Rows) /\ invites \in Seq(Invites)
      BY <2>1
    <2> QED BY <2>1, <2>3, <2>4, FS_EmptySet DEF AccountsInv, AccountsInit
  <1> QED BY <1>1, AccountsStep, PTL DEF AccountsSpec

\* However registrations, restarts and deletions interleave, every account that
\* was not created on an empty server, and every registration about to create
\* one, stands on a use of an invite of its own (validate_and_consume_invite and
\* register_finish).
THEOREM AdmissionIsPaid == AccountsSpec => []AdmissionPaid
  <1>1. AccountsInv => AdmissionPaid
    BY DEF AccountsInv, AdmissionPaid, Paid, Admitted
  <1> QED BY <1>1, AccountsInvariant, PTL

\* For every order of recoveries and logins, no session opened before
\* recover_finish replaced the credential is usable after it.
THEOREM OldSessionsAreOut == AccountsSpec => []OldSessionsOut
  <1>1. AccountsInv => OldSessionsOut
    BY DEF AccountsInv, OldSessionsOut
  <1> QED BY <1>1, AccountsInvariant, PTL

-----------------------------------------------------------------------------
(***************************************************************************)
(* Merkle.  A recursive function is what its equation says because some    *)
(* function satisfies the equation: for the trees of up to m leaves, by    *)
(* induction on m.  Then an inclusion proof verifies by induction on the   *)
(* size of the subtree under way.                                          *)
(***************************************************************************)

\* split, as far as m.
SplitsTo(m, f) == f = [i \in 0..m |-> IF i <= 2 THEN 1 ELSE 2 * f[(i + 1) \div 2]]

\* Every number has its split.
LEMMA SplitsExist ==
  ASSUME NEW n \in Nat
  PROVE  \E f : SplitsTo(n, f)
  <1> DEFINE T == {m \in Nat : ~ \E f : SplitsTo(m, f)}
  <1>1. SUFFICES ASSUME T # {}
                 PROVE  FALSE
    OBVIOUS
  <1>2. PICK m \in T : \A l \in T : m <= l
    <2>1. T \in SUBSET Nat
      OBVIOUS
    <2> HIDE DEF T
    <2> QED BY <1>1, <2>1, NatMin
  <1>3. m # 0
    <2>1. SplitsTo(0, [i \in 0..0 |-> 1])
      BY DEF SplitsTo
    <2> QED BY <2>1
  <1>4. PICK g : SplitsTo(m - 1, g)
    <2>1. m - 1 \in Nat /\ ~ m <= m - 1
      BY <1>2, <1>3
    <2> QED BY <1>2, <2>1
  <1> DEFINE f == [i \in 0..m |-> IF i <= 2 THEN 1 ELSE 2 * g[(i + 1) \div 2]]
  <1>5. \A i \in 0..(m - 1) : f[i] = g[i]
    BY <1>4 DEF SplitsTo
  <1>6. \A i \in 0..m : i > 2 => (i + 1) \div 2 \in 0..(m - 1)
    OBVIOUS
  <1>7. \A i \in 0..m : f[i] = IF i <= 2 THEN 1 ELSE 2 * f[(i + 1) \div 2]
    <2> TAKE i \in 0..m
    <2>1. CASE i <= 2
      BY <2>1
    <2>2. CASE i > 2
      BY <1>5, <1>6, <2>2
    <2> QED BY <2>1, <2>2
  <1>8. SplitsTo(m, f)
    BY <1>7 DEF SplitsTo
  <1> QED BY <1>2, <1>8

\* The left subtree takes some of two or more leaves, and leaves some.
LEMMA SplitInside ==
  ASSUME NEW n \in Nat, n >= 2
  PROVE  Split(n) \in 1..(n - 1)
  <1> DEFINE f == CHOOSE g : SplitsTo(n, g)
  <1>1. SplitsTo(n, f) /\ Split(n) = f[n]
    BY SplitsExist DEF Split, SplitsTo
  <1> HIDE DEF f
  <1>2. \A i \in 0..n : f[i] = IF i <= 2 THEN 1 ELSE 2 * f[(i + 1) \div 2]
    BY <1>1 DEF SplitsTo
  <1> DEFINE T == {m \in 2..n : f[m] \notin 1..(m - 1)}
  <1>3. SUFFICES ASSUME T # {}
                 PROVE  FALSE
    BY <1>1
  <1>4. PICK m \in T : \A l \in T : m <= l
    <2>1. T \in SUBSET Nat
      OBVIOUS
    <2> HIDE DEF T
    <2> QED BY <1>3, <2>1, NatMin
  <1>5. m \in 2..n /\ f[m] \notin 1..(m - 1)
    OBVIOUS
  <1>6. m # 2
    BY <1>2, <1>5
  <1>7. PICK q \in Nat : q = (m + 1) \div 2 /\ q \in 2..(m - 1) /\ 2 * q <= m + 1
    BY <1>5, <1>6
  <1>8. f[q] \in 1..(q - 1)
    BY <1>4, <1>5, <1>7
  <1>9. f[m] = 2 * f[q]
    BY <1>2, <1>5, <1>6, <1>7
  <1>10. f[q] \in Nat
    BY <1>8
  <1> QED BY <1>5, <1>7, <1>8, <1>9, <1>10

\* One root, from those of fewer leaves, and the roots as far as m leaves.
RootAt(leaves, f, n, lo) ==
  IF n <= 1 THEN leaves[lo + 1]
  ELSE Node(f[Split(n)][lo], f[n - Split(n)][lo + Split(n)])
RootsTo(leaves, m, f) == f = [n \in 0..m |-> [lo \in Nat |-> RootAt(leaves, f, n, lo)]]

\* One way up, from those of fewer leaves, and the ways as far as m leaves.
PathAt(leaves, i, f, n, lo) ==
  IF n <= 1 THEN <<>>
  ELSE IF i <= lo + Split(n)
       THEN Append(f[Split(n)][lo], Roots(leaves)[n - Split(n)][lo + Split(n)])
       ELSE Append(f[n - Split(n)][lo + Split(n)], Roots(leaves)[Split(n)][lo])
PathsTo(leaves, i, m, f) == f = [n \in 0..m |-> [lo \in Nat |-> PathAt(leaves, i, f, n, lo)]]

\* One climb, from those of fewer leaves, and the climbs as far as m leaves.
ClimbAt(hash, proof, f, n, at, used) ==
  IF n <= 1 THEN (IF used = Len(proof) THEN hash ELSE NoRoot)
  ELSE IF used >= Len(proof) THEN NoRoot
  ELSE IF at <= Split(n)
       THEN Node(f[Split(n)][at][used + 1], proof[Len(proof) - used])
       ELSE Node(proof[Len(proof) - used], f[n - Split(n)][at - Split(n)][used + 1])
ClimbsTo(hash, proof, m, f) ==
  f = [n \in 0..m |-> [at \in Nat |-> [used \in Nat |-> ClimbAt(hash, proof, f, n, at, used)]]]

\* Both subtrees are smaller.
LEMMA SplitBelow ==
  ASSUME NEW m \in Nat, m # 0, NEW n \in 0..m, n > 1
  PROVE  Split(n) \in 0..(m - 1) /\ n - Split(n) \in 0..(m - 1) /\ Split(n) \in 1..(n - 1)
  BY SplitInside

\* Every tree has its roots,
LEMMA RootsExist ==
  ASSUME NEW leaves, NEW n \in Nat
  PROVE  \E f : RootsTo(leaves, n, f)
  <1> DEFINE T == {m \in Nat : ~ \E f : RootsTo(leaves, m, f)}
  <1>1. SUFFICES ASSUME T # {}
                 PROVE  FALSE
    OBVIOUS
  <1>2. PICK m \in T : \A l \in T : m <= l
    <2>1. T \in SUBSET Nat
      OBVIOUS
    <2> HIDE DEF T
    <2> QED BY <1>1, <2>1, NatMin
  <1>3. m # 0
    <2> DEFINE z == [i \in 0..0 |-> [lo \in Nat |-> leaves[lo + 1]]]
    <2>1. \A i \in 0..0, lo \in Nat : RootAt(leaves, z, i, lo) = leaves[lo + 1]
      BY DEF RootAt
    <2>2. RootsTo(leaves, 0, z)
      BY <2>1 DEF RootsTo
    <2> QED BY <2>2
  <1>4. PICK g : RootsTo(leaves, m - 1, g)
    <2>1. m - 1 \in Nat /\ ~ m <= m - 1
      BY <1>2, <1>3
    <2> QED BY <1>2, <2>1
  <1> DEFINE f == [i \in 0..m |-> [lo \in Nat |-> RootAt(leaves, g, i, lo)]]
  <1>5. \A i \in 0..(m - 1) : f[i] = g[i]
    BY <1>4, SMTT(60) DEF RootsTo
  <1>6. f = [i \in 0..m |-> [lo \in Nat |-> RootAt(leaves, g, i, lo)]]
    OBVIOUS
  <1> HIDE DEF f
  <1>7. ASSUME NEW i \in 0..m, NEW lo \in Nat
        PROVE  RootAt(leaves, f, i, lo) = RootAt(leaves, g, i, lo)
    <2>1. CASE i <= 1
      BY <2>1 DEF RootAt
    <2>2. CASE i > 1
      <3>1. f[Split(i)] = g[Split(i)] /\ f[i - Split(i)] = g[i - Split(i)]
        BY <1>3, <1>5, <2>2, SplitBelow
      <3> QED BY <3>1 DEF RootAt
    <2> QED BY <2>1, <2>2
  <1>8. RootsTo(leaves, m, f)
    BY <1>6, <1>7 DEF RootsTo
  <1> QED BY <1>2, <1>8

\* which are those of Roots.
LEMMA RootsAre ==
  ASSUME NEW leaves, Len(leaves) \in Nat
  PROVE  \A n \in 0..Len(leaves), lo \in Nat :
           Roots(leaves)[n][lo] = RootAt(leaves, Roots(leaves), n, lo)
  <1> DEFINE f == CHOOSE g : RootsTo(leaves, Len(leaves), g)
  <1>1. RootsTo(leaves, Len(leaves), f)
    BY RootsExist
  <1>2. Roots(leaves) = f
    BY DEF Roots, RootsTo, RootAt
  <1> HIDE DEF f
  <1>3. \A n \in 0..Len(leaves), lo \in Nat : f[n][lo] = RootAt(leaves, f, n, lo)
    <2>1. f = [n \in 0..Len(leaves) |-> [lo \in Nat |-> RootAt(leaves, f, n, lo)]]
      BY <1>1 DEF RootsTo
    <2> TAKE n \in 0..Len(leaves), lo \in Nat
    <2>2. f[n] = [l \in Nat |-> RootAt(leaves, f, n, l)]
      BY <2>1, Zenon
    <2> QED BY <2>2, Zenon
  <1> QED BY <1>2, <1>3

\* Every leaf has its way up.
LEMMA PathsExist ==
  ASSUME NEW leaves, NEW i, NEW n \in Nat
  PROVE  \E f : PathsTo(leaves, i, n, f)
  <1> DEFINE T == {m \in Nat : ~ \E f : PathsTo(leaves, i, m, f)}
  <1>1. SUFFICES ASSUME T # {}
                 PROVE  FALSE
    OBVIOUS
  <1>2. PICK m \in T : \A l \in T : m <= l
    <2>1. T \in SUBSET Nat
      OBVIOUS
    <2> HIDE DEF T
    <2> QED BY <1>1, <2>1, NatMin
  <1>3. m # 0
    <2> DEFINE z == [j \in 0..0 |-> [lo \in Nat |-> <<>>]]
    <2>1. \A j \in 0..0, lo \in Nat : PathAt(leaves, i, z, j, lo) = <<>>
      BY DEF PathAt
    <2>2. PathsTo(leaves, i, 0, z)
      BY <2>1 DEF PathsTo
    <2> QED BY <2>2
  <1>4. PICK g : PathsTo(leaves, i, m - 1, g)
    <2>1. m - 1 \in Nat /\ ~ m <= m - 1
      BY <1>2, <1>3
    <2> QED BY <1>2, <2>1
  <1> DEFINE f == [j \in 0..m |-> [lo \in Nat |-> PathAt(leaves, i, g, j, lo)]]
  <1>5. \A j \in 0..(m - 1) : f[j] = g[j]
    BY <1>4, SMTT(60) DEF PathsTo
  <1>6. f = [j \in 0..m |-> [lo \in Nat |-> PathAt(leaves, i, g, j, lo)]]
    OBVIOUS
  <1> HIDE DEF f
  <1>7. ASSUME NEW j \in 0..m, NEW lo \in Nat
        PROVE  PathAt(leaves, i, f, j, lo) = PathAt(leaves, i, g, j, lo)
    <2>1. CASE j <= 1
      BY <2>1 DEF PathAt
    <2>2. CASE j > 1
      <3>1. f[Split(j)] = g[Split(j)] /\ f[j - Split(j)] = g[j - Split(j)]
        BY <1>3, <1>5, <2>2, SplitBelow
      <3> QED BY <3>1 DEF PathAt
    <2> QED BY <2>1, <2>2
  <1>8. PathsTo(leaves, i, m, f)
    BY <1>6, <1>7 DEF PathsTo
  <1> QED BY <1>2, <1>8

\* Every proof has its climbs.
LEMMA ClimbsExist ==
  ASSUME NEW hash, NEW proof, NEW n \in Nat
  PROVE  \E f : ClimbsTo(hash, proof, n, f)
  <1> DEFINE T == {m \in Nat : ~ \E f : ClimbsTo(hash, proof, m, f)}
  <1>1. SUFFICES ASSUME T # {}
                 PROVE  FALSE
    OBVIOUS
  <1>2. PICK m \in T : \A l \in T : m <= l
    <2>1. T \in SUBSET Nat
      OBVIOUS
    <2> HIDE DEF T
    <2> QED BY <1>1, <2>1, NatMin
  <1>3. m # 0
    <2> DEFINE z == [j \in 0..0 |-> [at \in Nat |-> [used \in Nat |-> ClimbAt(hash, proof, hash, 0, at, used)]]]
    <2>1. \A j \in 0..0, at, used \in Nat :
            ClimbAt(hash, proof, z, j, at, used) = ClimbAt(hash, proof, hash, 0, at, used)
      BY DEF ClimbAt
    <2>2. ClimbsTo(hash, proof, 0, z)
      BY <2>1 DEF ClimbsTo
    <2> QED BY <2>2
  <1>4. PICK g : ClimbsTo(hash, proof, m - 1, g)
    <2>1. m - 1 \in Nat /\ ~ m <= m - 1
      BY <1>2, <1>3
    <2> QED BY <1>2, <2>1
  <1> DEFINE f == [j \in 0..m |-> [at \in Nat |-> [used \in Nat |-> ClimbAt(hash, proof, g, j, at, used)]]]
  <1>5. \A j \in 0..(m - 1) : f[j] = g[j]
    <2> TAKE j \in 0..(m - 1)
    <2>1. f[j] = [at \in Nat |-> [used \in Nat |-> ClimbAt(hash, proof, g, j, at, used)]]
      OBVIOUS
    <2> HIDE DEF f
    <2>2. g[j] = [at \in Nat |-> [used \in Nat |-> ClimbAt(hash, proof, g, j, at, used)]]
      <3>1. g = [x \in 0..(m - 1) |-> [at \in Nat |-> [used \in Nat |-> ClimbAt(hash, proof, g, x, at, used)]]]
        BY <1>4 DEF ClimbsTo
      <3> QED BY <3>1
    <2> QED BY <2>1, <2>2
  <1>6. f = [j \in 0..m |-> [at \in Nat |-> [used \in Nat |-> ClimbAt(hash, proof, g, j, at, used)]]]
    OBVIOUS
  <1> HIDE DEF f
  <1>7. ASSUME NEW j \in 0..m, NEW at \in Nat, NEW used \in Nat
        PROVE  ClimbAt(hash, proof, f, j, at, used) = ClimbAt(hash, proof, g, j, at, used)
    <2>1. CASE j <= 1
      BY <2>1 DEF ClimbAt
    <2>2. CASE j > 1
      <3>1. f[Split(j)] = g[Split(j)] /\ f[j - Split(j)] = g[j - Split(j)]
        BY <1>3, <1>5, <2>2, SplitBelow
      <3> QED BY <3>1 DEF ClimbAt
    <2> QED BY <2>1, <2>2
  <1>8. ClimbsTo(hash, proof, m, f)
    BY <1>6, <1>7 DEF ClimbsTo
  <1> QED BY <1>2, <1>8

\* The ways up are sequences of roots, one for each subtree that is left out.
RootsIn(leaves, N, S) == \A n \in 0..N, lo \in Nat : Roots(leaves)[n][lo] \in S
WaysUp(leaves, i, N, S, P) ==
  /\ InclusionProof(leaves, i) = P[N][0]
  /\ \A n \in 0..N, lo \in Nat : /\ P[n][lo] = PathAt(leaves, i, P, n, lo)
                                 /\ P[n][lo] \in Seq(S)

\* InclusionProof follows such ways.
LEMMA PathsAre ==
  ASSUME NEW leaves, NEW i \in Nat, NEW N \in Nat, N = Len(leaves), NEW S, RootsIn(leaves, N, S)
  PROVE  \E P : WaysUp(leaves, i, N, S, P)
  <1> DEFINE P == CHOOSE f : PathsTo(leaves, i, N, f)
  <1>1. PathsTo(leaves, i, N, P)
    BY PathsExist
  <1>2. InclusionProof(leaves, i) = P[N][0]
    BY DEF InclusionProof, PathsTo, PathAt
  <1> HIDE DEF P
  <1>3. \A n \in 0..N, lo \in Nat : P[n][lo] = PathAt(leaves, i, P, n, lo)
    <2>1. P = [n \in 0..N |-> [lo \in Nat |-> PathAt(leaves, i, P, n, lo)]]
      BY <1>1 DEF PathsTo
    <2> TAKE n \in 0..N, lo \in Nat
    <2>2. P[n] = [l \in Nat |-> PathAt(leaves, i, P, n, l)]
      BY <2>1, Zenon
    <2> QED BY <2>2, Zenon
  <1> DEFINE T == {n \in 0..N : \E lo \in Nat : P[n][lo] \notin Seq(S)}
  <1>4. ASSUME T # {}
        PROVE  FALSE
    <2>1. PICK n \in T : \A l \in T : n <= l
      <3>1. T \in SUBSET Nat
        OBVIOUS
      <3> HIDE DEF T
      <3> QED BY <1>4, <3>1, NatMin
    <2>2. PICK lo \in Nat : P[n][lo] \notin Seq(S)
      BY <2>1
    <2>3. n \in 0..N /\ P[n][lo] = PathAt(leaves, i, P, n, lo)
      BY <1>3, <2>1
    <2>4. CASE n <= 1
      BY <2>2, <2>3, <2>4 DEF PathAt
    <2>5. CASE n > 1
      <3> DEFINE k == Split(n)
      <3>1. k \in 1..(n - 1) /\ k \in 0..N /\ n - k \in 0..N /\ ~ n <= k /\ ~ n <= n - k
        BY <2>3, <2>5, SplitInside, SMTT(60)
      <3> HIDE DEF k
      <3>2. P[k][lo] \in Seq(S) /\ P[n - k][lo + k] \in Seq(S)
        <4>1. k \notin T /\ n - k \notin T
          <5> HIDE DEF T
          <5> QED BY <2>1, <3>1
        <4>2. lo + k \in Nat
          BY <3>1
        <4> QED BY <3>1, <4>1, <4>2
      <3>3. Roots(leaves)[n - k][lo + k] \in S /\ Roots(leaves)[k][lo] \in S
        BY <3>1 DEF RootsIn
      <3>4. P[n][lo] = IF i <= lo + k THEN Append(P[k][lo], Roots(leaves)[n - k][lo + k])
                       ELSE Append(P[n - k][lo + k], Roots(leaves)[k][lo])
        BY <2>3, <2>5 DEF PathAt, k
      <3> QED BY <2>2, <3>2, <3>3, <3>4, AppendProperties
    <2> QED BY <2>3, <2>4, <2>5
  <1>5. \A n \in 0..N, lo \in Nat : P[n][lo] \in Seq(S)
    BY <1>4
  <1> QED BY <1>2, <1>3, <1>5 DEF WaysUp

\* The climbs of a proof.
LEMMA ClimbsAre ==
  ASSUME NEW hash, NEW proof, NEW N \in Nat, NEW i \in Nat
  PROVE  \E C : /\ ProofRoot(hash, i, N, proof) = C[N][i][0]
                /\ \A n \in 0..N, at \in Nat, used \in Nat :
                     C[n][at][used] = ClimbAt(hash, proof, C, n, at, used)
  <1> DEFINE C == CHOOSE f : ClimbsTo(hash, proof, N, f)
  <1>1. ClimbsTo(hash, proof, N, C)
    BY ClimbsExist
  <1>2. ProofRoot(hash, i, N, proof) = C[N][i][0]
    BY DEF ProofRoot, ClimbsTo, ClimbAt
  <1> HIDE DEF C
  <1>3. C = [n \in 0..N |-> [at \in Nat |-> [used \in Nat |-> ClimbAt(hash, proof, C, n, at, used)]]]
    BY <1>1 DEF ClimbsTo
  <1>4. ASSUME NEW n \in 0..N, NEW at \in Nat, NEW used \in Nat
        PROVE  C[n][at][used] = ClimbAt(hash, proof, C, n, at, used)
    <2>1. C[n] = [a \in Nat |-> [u \in Nat |-> ClimbAt(hash, proof, C, n, a, u)]]
      BY <1>3, Zenon
    <2>2. C[n][at] = [u \in Nat |-> ClimbAt(hash, proof, C, n, at, u)]
      BY <2>1, Zenon
    <2> QED BY <2>2, Zenon
  <1> QED BY <1>2, <1>4

\* Climbing from a leaf by the inclusion proof generated for it leads to the
\* root (generate_inclusion_proof_from_hashes, verify_inclusion_proof).
THEOREM InclusionVerifies ==
  ASSUME NEW leaves, NEW N \in Nat, Len(leaves) = N, leaves # <<>>, NEW i \in 1..N
  PROVE  Verifies(leaves[i], i, N, InclusionProof(leaves, i), Root(leaves))
  <1> DEFINE R == Roots(leaves)
             S == {R[w[1]][w[2]] : w \in (0..N) \X Nat}
             F == InclusionProof(leaves, i)
  <1>1. \A n \in 0..N, lo \in Nat : R[n][lo] \in S
    <2> TAKE n \in 0..N, lo \in Nat
    <2>1. <<n, lo>> \in (0..N) \X Nat
      OBVIOUS
    <2> HIDE DEF R
    <2> QED BY <2>1
  <1>2. \A n \in 0..N, lo \in Nat : R[n][lo] = RootAt(leaves, R, n, lo)
    BY RootsAre
  <1> HIDE DEF S
  <1>0. i \in Nat /\ N = Len(leaves)
    OBVIOUS
  <1>3. PICK P : /\ F = P[N][0]
                 /\ \A n \in 0..N, lo \in Nat : /\ P[n][lo] = PathAt(leaves, i, P, n, lo)
                                                /\ P[n][lo] \in Seq(S)
    <2>1. RootsIn(leaves, N, S)
      BY <1>1 DEF RootsIn
    <2>2. PICK P : WaysUp(leaves, i, N, S, P)
      BY <1>0, <2>1, PathsAre
    <2> HIDE DEF R, F
    <2>3. InclusionProof(leaves, i) = F
      BY DEF F
    <2> QED BY <2>2, <2>3 DEF WaysUp
  <1>4. PICK C : /\ ProofRoot(leaves[i], i, N, F) = C[N][i][0]
                 /\ \A n \in 0..N, at \in Nat, used \in Nat :
                      C[n][at][used] = ClimbAt(leaves[i], F, C, n, at, used)
    <2> DEFINE hash == leaves[i]
    <2> HIDE DEF hash, F
    <2>1. \E C : /\ ProofRoot(hash, i, N, F) = C[N][i][0]
                 /\ \A n \in 0..N, at \in Nat, used \in Nat :
                      C[n][at][used] = ClimbAt(hash, F, C, n, at, used)
      BY <1>0, ClimbsAre, ZenonT(90)
    <2> QED BY <2>1, Zenon DEF hash
  <1>5. F \in Seq(S) /\ Len(F) \in Nat
    <2>1. N \in 0..N /\ 0 \in Nat
      OBVIOUS
    <2> QED BY <1>3, <2>1, LenProperties
  <1> HIDE DEF R, F
  <1> DEFINE Fits(n, lo, used) ==
               /\ Len(F) - used = Len(P[n][lo])
               /\ \A j \in 1..Len(P[n][lo]) : F[j] = P[n][lo][j]
             Climbs(n) ==
               \A lo \in Nat, at \in 1..n, used \in Nat :
                 lo + at = i /\ used <= Len(F) /\ Fits(n, lo, used) => C[n][at][used] = R[n][lo]
             T == {n \in 1..N : ~ Climbs(n)}
  <1>6. ASSUME NEW n \in 2..N, \A m \in 1..(n - 1) : Climbs(m)
        PROVE  Climbs(n)
    <2> SUFFICES ASSUME NEW lo \in Nat, NEW at \in 1..n, NEW used \in Nat,
                        lo + at = i, used <= Len(F), Fits(n, lo, used)
                 PROVE  C[n][at][used] = R[n][lo]
      BY ZenonT(60)
    <2>0. n \in 0..N /\ ~ n <= 1 /\ at \in Nat /\ n \in Nat /\ n >= 2
      OBVIOUS
    <2>1. PICK k : k = Split(n) /\ k \in 1..(n - 1) /\ n - k \in 1..(n - 1)
      BY <2>0, SplitInside, SMTT(60)
    <2>2. R[n][lo] = Node(R[k][lo], R[n - k][lo + k])
      <3>1. R[n][lo] = RootAt(leaves, R, n, lo)
        BY <1>2, <2>0
      <3> QED BY <2>0, <2>1, <3>1, Zenon DEF RootAt
    <2>3. C[n][at][used] = IF used >= Len(F) THEN NoRoot
                           ELSE IF at <= k THEN Node(C[k][at][used + 1], F[Len(F) - used])
                           ELSE Node(F[Len(F) - used], C[n - k][at - k][used + 1])
      <3>1. C[n][at][used] = ClimbAt(leaves[i], F, C, n, at, used)
        BY <1>4, <2>0
      <3> QED BY <2>0, <2>1, <3>1, Zenon DEF ClimbAt
    <2>4. P[n][lo] = IF i <= lo + k THEN Append(P[k][lo], R[n - k][lo + k])
                     ELSE Append(P[n - k][lo + k], R[k][lo])
      <3>1. P[n][lo] = PathAt(leaves, i, P, n, lo)
        BY <1>3, <2>0
      <3> QED BY <2>0, <2>1, <3>1, Zenon DEF PathAt, R
    <2>5. k \in 0..N /\ n - k \in 0..N /\ lo + k \in Nat /\ used + 1 \in Nat
      BY <2>1, SMTT(60)
    <2>6. /\ P[k][lo] \in Seq(S) /\ P[n - k][lo + k] \in Seq(S)
          /\ R[n - k][lo + k] \in S /\ R[k][lo] \in S
      BY <1>1, <1>3, <2>5 DEF R
    <2>7. ASSUME NEW q \in Seq(S), NEW x \in S, P[n][lo] = Append(q, x)
          PROVE  /\ used < Len(F) /\ used + 1 <= Len(F) /\ F[Len(F) - used] = x
                 /\ Len(F) - (used + 1) = Len(q) /\ \A j \in 1..Len(q) : F[j] = q[j]
      <3>1. /\ Len(q) \in Nat /\ Len(P[n][lo]) = Len(q) + 1 /\ P[n][lo][Len(q) + 1] = x
            /\ \A j \in 1..Len(q) : P[n][lo][j] = q[j]
        BY <2>7, AppendProperties, LenProperties
      <3>2. Len(F) - used = Len(q) + 1
        BY <3>1
      <3>3. used < Len(F) /\ used + 1 <= Len(F) /\ Len(F) - used = Len(q) + 1
        BY <1>5, <3>1, <3>2
      <3>4. \A j \in 1..(Len(q) + 1) : F[j] = P[n][lo][j]
        BY <3>1
      <3>5. F[Len(q) + 1] = x /\ \A j \in 1..Len(q) : F[j] = q[j]
        BY <3>1, <3>4
      <3>6. Len(F) - (used + 1) = Len(q)
        BY <1>5, <3>1, <3>2
      <3> QED BY <3>3, <3>5, <3>6
    <2>8. CASE at <= k
      <3>1. /\ used < Len(F) /\ used + 1 <= Len(F) /\ F[Len(F) - used] = R[n - k][lo + k]
            /\ Len(F) - (used + 1) = Len(P[k][lo]) /\ \A j \in 1..Len(P[k][lo]) : F[j] = P[k][lo][j]
        <4>1. P[n][lo] = Append(P[k][lo], R[n - k][lo + k])
          <5>1. i <= lo + k
            BY <2>0, <2>1, <2>8, SMTT(60)
          <5> QED BY <2>4, <5>1
        <4> QED BY <2>6, <2>7, <4>1
      <3>2. C[k][at][used + 1] = R[k][lo]
        <4>1. Climbs(k) /\ at \in 1..k /\ Fits(k, lo, used + 1)
          <5>1. Climbs(k)
            <6> HIDE DEF Climbs
            <6> QED BY <1>6, <2>1
          <5>2. at \in 1..k
            BY <2>0, <2>1, <2>8
          <5> QED BY <3>1, <5>1, <5>2
        <4> QED BY <2>5, <3>1, <4>1
      <3> QED BY <1>5, <2>2, <2>3, <2>8, <3>1, <3>2
    <2>9. CASE at > k
      <3>1. /\ used < Len(F) /\ used + 1 <= Len(F) /\ F[Len(F) - used] = R[k][lo]
            /\ Len(F) - (used + 1) = Len(P[n - k][lo + k])
            /\ \A j \in 1..Len(P[n - k][lo + k]) : F[j] = P[n - k][lo + k][j]
        <4>1. P[n][lo] = Append(P[n - k][lo + k], R[k][lo])
          <5>1. ~ i <= lo + k
            BY <2>1, <2>9, SMTT(60)
          <5> QED BY <2>4, <5>1
        <4> QED BY <2>6, <2>7, <4>1
      <3>2. C[n - k][at - k][used + 1] = R[n - k][lo + k]
        <4>1. /\ Climbs(n - k) /\ at - k \in 1..(n - k) /\ Fits(n - k, lo + k, used + 1)
              /\ (lo + k) + (at - k) = i
          <5>1. Climbs(n - k)
            <6> HIDE DEF Climbs
            <6> QED BY <1>6, <2>1
          <5>2. at - k \in 1..(n - k) /\ (lo + k) + (at - k) = i
            <6>1. at \in Nat /\ k \in Nat /\ n \in Nat /\ lo \in Nat /\ k < at /\ at <= n /\ lo + at = i
              BY <2>0, <2>1, <2>9
            <6> HIDE DEF Climbs, Fits, T
            <6> QED BY <6>1
          <5> QED BY <3>1, <5>1, <5>2
        <4> QED BY <2>5, <3>1, <4>1, ZenonT(60)
      <3> QED BY <1>5, <2>2, <2>3, <2>9, <3>1, <3>2, <2>1
    <2> QED BY <2>1, <2>8, <2>9
  <1>7. Climbs(1)
    <2> SUFFICES ASSUME NEW lo \in Nat, NEW at \in 1..1, NEW used \in Nat,
                        lo + at = i, used <= Len(F), Fits(1, lo, used)
                 PROVE  C[1][at][used] = R[1][lo]
      BY ZenonT(60)
    <2>1. 1 \in 0..N /\ at = 1 /\ lo + 1 = i
      OBVIOUS
    <2>2. P[1][lo] = <<>> /\ R[1][lo] = leaves[i]
      BY <1>2, <1>3, <2>1, SMTT(60) DEF PathAt, RootAt
    <2>3. used = Len(F)
      BY <1>5, <2>2
    <2> QED BY <1>4, <2>1, <2>2, <2>3 DEF ClimbAt
  <1>8. ASSUME T # {}
        PROVE  FALSE
    <2>1. PICK n \in T : \A l \in T : n <= l
      <3>1. T \in SUBSET Nat
        OBVIOUS
      <3> HIDE DEF T
      <3> QED BY <1>8, <3>1, NatMin
    <2>2. n \in 1..N /\ ~ Climbs(n)
      OBVIOUS
    <2>3. \A m \in 1..(n - 1) : m \in 1..N /\ m \notin T
      <3> HIDE DEF T
      <3> QED BY <2>1, <2>2, SMTT(60)
    <2>4. \A m \in 1..(n - 1) : Climbs(m)
      <3> HIDE DEF Climbs
      <3> QED BY <2>3
    <2> HIDE DEF Climbs, T
    <2>5. n = 1 \/ n \in 2..N
      BY <2>2
    <2> QED BY <1>6, <1>7, <2>2, <2>4, <2>5
  <1>9. Climbs(N)
    <2> HIDE DEF Climbs
    <2> QED BY <1>8
  <1>10. Fits(N, 0, 0)
    BY <1>3, <1>5
  <1>11. C[N][i][0] = R[N][0]
    BY <1>5, <1>9, <1>10
  <1> QED BY <1>4, <1>11 DEF Verifies, Root, R, F

\* Counting up the sizes: if every size that only smaller sizes hold for holds,
\* all do; T is the set of those that do not.
LEMMA SizesUp ==
  ASSUME NEW N \in Nat, NEW T \in SUBSET (1..N),
         \A n \in 1..N : (\A m \in 1..(n - 1) : m \notin T) => n \notin T
  PROVE  T = {}
  <1>1. SUFFICES ASSUME T # {}
                 PROVE  FALSE
    OBVIOUS
  <1>2. PICK n \in T : \A l \in T : n <= l
    <2>1. T \in SUBSET Nat
      OBVIOUS
    <2> QED BY <1>1, <2>1, NatMin
  <1>3. n \in 1..N /\ \A m \in 1..(n - 1) : m \notin T
    BY <1>2
  <1> QED BY <1>2, <1>3

\* Leaves and their root belong together: two logs of one size with one root
\* are the same log (calculate_root_hash).
THEOREM RootBinds ==
  ASSUME NEW a, NEW b, NEW N \in Nat, Len(a) = N, Len(b) = N, a # <<>>, b # <<>>,
         Root(a) = Root(b), NEW i \in 1..N
  PROVE  a[i] = b[i]
  <1> DEFINE A == Roots(a)
             B == Roots(b)
             Same(n) == \A lo \in Nat : A[n][lo] = B[n][lo] => \A j \in 1..n : a[lo + j] = b[lo + j]
             T == {n \in 1..N : ~ Same(n)}
  <1>1. \A n \in 0..N, lo \in Nat : A[n][lo] = RootAt(a, A, n, lo) /\ B[n][lo] = RootAt(b, B, n, lo)
    BY RootsAre
  <1>2. A[N][0] = B[N][0]
    BY DEF Root
  <1> HIDE DEF A, B
  <1>3. ASSUME NEW n \in 1..N, \A m \in 1..(n - 1) : Same(m)
        PROVE  Same(n)
    <2> SUFFICES ASSUME NEW lo \in Nat, A[n][lo] = B[n][lo], NEW j \in 1..n
                 PROVE  a[lo + j] = b[lo + j]
      OBVIOUS
    <2>1. n \in 0..N /\ n \in Nat
      OBVIOUS
    <2>2. A[n][lo] = RootAt(a, A, n, lo) /\ B[n][lo] = RootAt(b, B, n, lo)
      BY <1>1, <2>1
    <2>3. CASE n = 1
      <3>1. n <= 1 /\ j = 1
        BY <2>3
      <3>2. A[n][lo] = a[lo + 1] /\ B[n][lo] = b[lo + 1]
        BY <2>2, <3>1, Zenon DEF RootAt
      <3> QED BY <3>1, <3>2
    <2>4. CASE n >= 2
      <3>1. PICK k : k = Split(n) /\ k \in 1..(n - 1) /\ n - k \in 1..(n - 1)
        BY <2>1, <2>4, SplitInside
      <3>2. Node(A[k][lo], A[n - k][lo + k]) = Node(B[k][lo], B[n - k][lo + k])
        <4>1. ~ n <= 1
          BY <2>4
        <4> QED BY <2>2, <3>1, <4>1, Zenon DEF RootAt
      <3>3. A[k][lo] = B[k][lo] /\ A[n - k][lo + k] = B[n - k][lo + k]
        BY <3>2 DEF Node
      <3>4. Same(k) /\ Same(n - k)
        <4> HIDE DEF Same
        <4> QED BY <1>3, <3>1
      <3>5. CASE j <= k
        BY <3>1, <3>3, <3>4, <3>5
      <3>6. CASE j > k
        <4>1. j - k \in 1..(n - k) /\ lo + k \in Nat /\ (lo + k) + (j - k) = lo + j
          BY <3>1, <3>6, SMTT(60)
        <4>2. a[(lo + k) + (j - k)] = b[(lo + k) + (j - k)]
          BY <3>3, <3>4, <4>1
        <4> QED BY <4>1, <4>2
      <3> QED BY <3>1, <3>5, <3>6
    <2> QED BY <2>1, <2>3, <2>4
  <1>4. T = {}
    <2> HIDE DEF Same
    <2>1. ASSUME NEW n \in 1..N, \A m \in 1..(n - 1) : m \notin T PROVE n \notin T
      <3>1. \A m \in 1..(n - 1) : m \in 1..N
        OBVIOUS
      <3> QED BY <2>1, <3>1, <1>3
    <2>2. T \in SUBSET (1..N)
      OBVIOUS
    <2> HIDE DEF T
    <2> QED BY <2>1, <2>2, SizesUp
  <1>5. Same(N)
    <2> HIDE DEF Same
    <2> QED BY <1>4
  <1>6. a[0 + i] = b[0 + i]
    BY <1>2, <1>5
  <1> QED BY <1>6

\* A proof that leads to the root of the log is one of the leaf that is there:
\* no other leaf verifies at its place, whatever the proof (verify_inclusion_proof).
THEOREM ProofBinds ==
  ASSUME NEW leaves, NEW N \in Nat, Len(leaves) = N, leaves # <<>>,
         \A j \in 1..N : leaves[j] # NoRoot,
         NEW hash, NEW proof, NEW i \in 1..N, Verifies(hash, i, N, proof, Root(leaves))
  PROVE  hash = leaves[i]
  <1> DEFINE R == Roots(leaves)
  <1>1. \A n \in 0..N, lo \in Nat : R[n][lo] = RootAt(leaves, R, n, lo)
    BY RootsAre
  <1>2. PICK C : /\ ProofRoot(hash, i, N, proof) = C[N][i][0]
                 /\ \A n \in 0..N, at \in Nat, used \in Nat :
                      C[n][at][used] = ClimbAt(hash, proof, C, n, at, used)
    <2>1. i \in Nat
      OBVIOUS
    <2>2. \E C : /\ ProofRoot(hash, i, N, proof) = C[N][i][0]
                 /\ \A n \in 0..N, at \in Nat, used \in Nat :
                      C[n][at][used] = ClimbAt(hash, proof, C, n, at, used)
      BY <2>1, ClimbsAre, SMT
    <2> QED BY <2>2, Zenon
  <1>3. C[N][i][0] = R[N][0]
    BY <1>2 DEF Verifies, Root
  <1> HIDE DEF R
  <1> DEFINE Leads(n) ==
               \A lo \in Nat, at \in 1..n, used \in Nat :
                 lo + at <= N /\ C[n][at][used] = R[n][lo] => hash = leaves[lo + at]
             T == {n \in 1..N : ~ Leads(n)}
  <1>4. ASSUME NEW n \in 1..N, \A m \in 1..(n - 1) : Leads(m)
        PROVE  Leads(n)
    <2> SUFFICES ASSUME NEW lo \in Nat, NEW at \in 1..n, NEW used \in Nat,
                        lo + at <= N, C[n][at][used] = R[n][lo]
                 PROVE  hash = leaves[lo + at]
      OBVIOUS
    <2>1. n \in 0..N /\ n \in Nat /\ at \in Nat
      OBVIOUS
    <2>2. C[n][at][used] = ClimbAt(hash, proof, C, n, at, used) /\ R[n][lo] = RootAt(leaves, R, n, lo)
      BY <1>1, <1>2, <2>1
    <2>3. CASE n = 1
      <3>1. at = 1 /\ lo + 1 \in 1..N /\ n <= 1
        BY <2>1, <2>3
      <3>2. R[n][lo] = leaves[lo + 1]
        BY <2>2, <3>1, Zenon DEF RootAt
      <3>3. C[n][at][used] = hash \/ C[n][at][used] = NoRoot
        BY <2>2, <3>1, Zenon DEF ClimbAt
      <3> QED BY <3>1, <3>2, <3>3
    <2>4. CASE n >= 2
      <3>1. PICK k : k = Split(n) /\ k \in 1..(n - 1) /\ n - k \in 1..(n - 1)
        BY <2>1, <2>4, SplitInside
      <3>2. R[n][lo] = Node(R[k][lo], R[n - k][lo + k])
        <4>1. ~ n <= 1
          BY <2>4
        <4> QED BY <2>2, <3>1, <4>1, Zenon DEF RootAt
      <3>3. C[n][at][used] = IF used >= Len(proof) THEN NoRoot
                             ELSE IF at <= k THEN Node(C[k][at][used + 1], proof[Len(proof) - used])
                             ELSE Node(proof[Len(proof) - used], C[n - k][at - k][used + 1])
        <4>1. ~ n <= 1
          BY <2>4
        <4> QED BY <2>2, <3>1, <4>1, Zenon DEF ClimbAt
      <3>4. Leads(k) /\ Leads(n - k)
        <4> HIDE DEF Leads
        <4> QED BY <1>4, <3>1
      <3>5. CASE at <= k
        <4>1. C[n][at][used] = NoRoot \/ C[n][at][used] = Node(C[k][at][used + 1], proof[Len(proof) - used])
          BY <3>3, <3>5, Zenon
        <4>2. C[k][at][used + 1] = R[k][lo]
          BY <3>2, <4>1 DEF Node, NoRoot
        <4>3. at \in 1..k /\ used + 1 \in Nat
          BY <3>1, <3>5
        <4> QED BY <3>4, <4>2, <4>3
      <3>6. CASE ~ at <= k
        <4>1. \/ C[n][at][used] = NoRoot
              \/ C[n][at][used] = Node(proof[Len(proof) - used], C[n - k][at - k][used + 1])
          BY <3>3, <3>6, Zenon
        <4>2. C[n - k][at - k][used + 1] = R[n - k][lo + k]
          BY <3>2, <4>1 DEF Node, NoRoot
        <4>3. at - k \in 1..(n - k) /\ used + 1 \in Nat /\ lo + k \in Nat /\ (lo + k) + (at - k) = lo + at
          BY <2>1, <3>1, <3>6, SMTT(60)
        <4>4. hash = leaves[(lo + k) + (at - k)]
          BY <3>4, <4>2, <4>3
        <4> QED BY <4>3, <4>4
      <3> QED BY <3>5, <3>6
    <2> QED BY <2>1, <2>3, <2>4
  <1>5. T = {}
    <2> HIDE DEF Leads
    <2>1. ASSUME NEW n \in 1..N, \A m \in 1..(n - 1) : m \notin T PROVE n \notin T
      <3>1. \A m \in 1..(n - 1) : m \in 1..N
        OBVIOUS
      <3> QED BY <2>1, <3>1, <1>4
    <2>2. T \in SUBSET (1..N)
      OBVIOUS
    <2> HIDE DEF T
    <2> QED BY <2>1, <2>2, SizesUp
  <1>6. Leads(N)
    <2> HIDE DEF Leads
    <2> QED BY <1>5
  <1>7. hash = leaves[0 + i]
    BY <1>3, <1>6
  <1> QED BY <1>7


-----------------------------------------------------------------------------
(***************************************************************************)
(* The key transparency log.  Until the first bot has a leaf every row is  *)
(* a user's, so that create_snapshot hashes what is stored, and the log    *)
(* only grows: a tree head, signed or about to be inserted, is the root of *)
(* the first rows of the log, as many as the head says.                    *)
(***************************************************************************)

\* A user's row.
UserRow == [of : Nat, bot : {FALSE}, hash : {UserLeaf(t) : t \in Tokens}]

\* A sequence of anything.
IsSequence(s) == \E S : s \in Seq(S)

\* The first rows of the log, and a head that is theirs.
Earlier(size) == [i \in 1..size |-> log[i].hash]
HeadTrue(size, root) == size \in Nat /\ size <= Len(log) /\ root = Root(Earlier(size))

\* What a stored head says.
HeadOf(i, size, root) == snaps[i].size = size /\ snaps[i].root = root

\* The log and its heads as long as no bot has had a leaf.
BeforeBots ==
  /\ \A i \in 1..Len(log) : log[i] \in UserRow
  /\ \A i \in 1..Len(snaps) : \A size, root : HeadOf(i, size, root) => HeadTrue(size, root)
  /\ \A w \in At("signing") : HeadTrue(w.size, w.root)

\* The inductive invariant of the log.
LogInv ==
  /\ IsSequence(log) /\ IsSequence(snaps)
  /\ botKeys \in Nat
  /\ botKeys = 0 => BeforeBots

\* A sequence of anything, and one more.
LEMMA OneMore ==
  ASSUME NEW s, IsSequence(s), NEW x
  PROVE  /\ Len(s) \in Nat /\ DOMAIN s = 1..Len(s)
         /\ IsSequence(Append(s, x)) /\ Len(Append(s, x)) = Len(s) + 1
         /\ Append(s, x)[Len(s) + 1] = x
         /\ \A k \in 1..Len(s) : Append(s, x)[k] = s[k]
  <1>1. PICK S : s \in Seq(S)
    BY DEF IsSequence
  <1> DEFINE U == S \cup {x}
  <1>2. s \in Seq(U) /\ x \in U
    <2>1. \A k \in 1..Len(s) : s[k] \in U
      BY <1>1, ElementOfSeq
    <2>2. Len(s) \in Nat /\ s \in [1..Len(s) -> S]
      BY <1>1, LenProperties
    <2> HIDE DEF U
    <2>3. s \in [1..Len(s) -> U]
      BY <2>1, <2>2
    <2>4. x \in U
      BY DEF U
    <2> QED BY <2>2, <2>3, <2>4, SeqDef
  <1> HIDE DEF U
  <1>3. /\ Append(s, x) \in Seq(U) /\ Len(Append(s, x)) = Len(s) + 1
        /\ Append(s, x)[Len(s) + 1] = x /\ \A k \in 1..Len(s) : Append(s, x)[k] = s[k]
    BY <1>2, AppendProperties
  <1> QED BY <1>2, <1>3, LenProperties DEF IsSequence

\* A head stays true as the log grows.
LEMMA HeadStays ==
  ASSUME NEW size, NEW root, HeadTrue(size, root), Len(log) \in Nat, Len(log') \in Nat,
         Len(log) <= Len(log'), \A i \in 1..Len(log) : log'[i].hash = log[i].hash
  PROVE  HeadTrue(size, root)'
  <1>1. size \in Nat /\ size <= Len(log) /\ root = Root(Earlier(size))
    BY DEF HeadTrue
  <1>2. \A i \in 1..size : log'[i].hash = log[i].hash
    BY <1>1
  <1>3. Earlier(size)' = Earlier(size)
    BY <1>2 DEF Earlier
  <1>4. size <= Len(log')
    BY <1>1
  <1> QED BY <1>1, <1>3, <1>4 DEF HeadTrue

\* A step that leaves the log and the heads alone.
LEMMA LogRests ==
  ASSUME LogInv, UNCHANGED <<log, snaps, botKeys>>, At("signing")' \subseteq At("signing")
  PROVE  LogInv'
  <1>1. ASSUME BeforeBots
        PROVE  BeforeBots'
    <2>1. ASSUME NEW size, NEW root
          PROVE  HeadTrue(size, root) => HeadTrue(size, root)'
      BY DEF HeadTrue, Earlier
    <2>2. ASSUME NEW i, NEW size, NEW root
          PROVE  HeadOf(i, size, root)' => HeadOf(i, size, root)
      BY DEF HeadOf
    <2>3. ASSUME NEW i \in 1..Len(snaps'), NEW size, NEW root, HeadOf(i, size, root)'
          PROVE  HeadTrue(size, root)'
      BY <1>1, <2>1, <2>2, <2>3 DEF BeforeBots
    <2> QED BY <1>1, <2>1, <2>3 DEF BeforeBots
  <1> QED BY <1>1 DEF LogInv

\* A step that grows the log, or changes whose rows they are.
LEMMA LogGrows ==
  ASSUME LogInv, UNCHANGED <<snaps, botKeys>>, At("signing")' \subseteq At("signing"),
         IsSequence(log'),
         botKeys = 0 => /\ Len(log) <= Len(log')
                        /\ \A i \in 1..Len(log) : log'[i].hash = log[i].hash
                        /\ \A i \in 1..Len(log') : log'[i] \in UserRow
  PROVE  LogInv'
  <1>1. Len(log) \in Nat /\ Len(log') \in Nat
    BY OneMore DEF LogInv
  <1>2. ASSUME botKeys = 0
        PROVE  BeforeBots'
    <2>1. BeforeBots
      BY <1>2 DEF LogInv
    <2>2. ASSUME NEW i \in 1..Len(snaps'), NEW size, NEW root, HeadOf(i, size, root)'
          PROVE  HeadTrue(size, root)'
      <3>1. HeadOf(i, size, root)
        BY <2>2 DEF HeadOf
      <3>2. HeadTrue(size, root)
        BY <2>1, <3>1 DEF BeforeBots
      <3> QED BY <1>1, <1>2, <3>2, HeadStays
    <2>3. ASSUME NEW w \in At("signing")'
          PROVE  HeadTrue(w.size, w.root)'
      <3>1. HeadTrue(w.size, w.root)
        BY <2>1 DEF BeforeBots
      <3> QED BY <1>1, <1>2, <3>1, HeadStays
    <2> QED BY <1>2, <2>2, <2>3 DEF BeforeBots
  <1> QED BY <1>2 DEF LogInv

\* The rows without those of some bots, in order.
LEMMA InOrderIs ==
  ASSUME NEW n \in Nat, NEW K \in SUBSET (1..n)
  PROVE  /\ Cardinality(K) \in Nat
         /\ InOrder(K) \in [1..Cardinality(K) -> K]
         /\ \A j, k \in 1..Cardinality(K) : j < k => InOrder(K)[j] < InOrder(K)[k]
  <1>1. /\ Cardinality(K) \in Nat
        /\ \E f \in [1..Cardinality(K) -> K] : \A j, k \in 1..Cardinality(K) : j < k => f[j] < f[k]
    BY OrderExists
  <1>2. \E f \in [1..Cardinality(K) -> K] : \A j, k \in DOMAIN f : j < k => f[j] < f[k]
    BY <1>1
  <1>3. /\ InOrder(K) \in [1..Cardinality(K) -> K]
        /\ \A j, k \in DOMAIN InOrder(K) : j < k => InOrder(K)[j] < InOrder(K)[k]
    BY <1>2 DEF InOrder
  <1> QED BY <1>1, <1>3

\* They are a sequence, and where there are no bots' rows they are all of them.
LEMMA WithoutBotsIs ==
  ASSUME NEW u, NEW n \in Nat, NEW rows, DOMAIN rows = 1..n
  PROVE  /\ IsSequence(WithoutBots(u, rows))
         /\ (\A i \in 1..n : ~rows[i].bot) =>
              /\ Len(WithoutBots(u, rows)) = n
              /\ \A i \in 1..n : WithoutBots(u, rows)[i] = rows[i]
  <1> DEFINE K == {i \in DOMAIN rows : ~(rows[i].bot /\ rows[i].of = u)}
             c == Cardinality(K)
             at == InOrder(K)
             some == [k \in DOMAIN at |-> rows[at[k]]]
  <1>1. K \in SUBSET (1..n)
    OBVIOUS
  <1>2. c \in Nat /\ at \in [1..c -> K] /\ \A j, k \in 1..c : j < k => at[j] < at[k]
    <2> HIDE DEF K
    <2> QED BY <1>1, InOrderIs
  <1>3. WithoutBots(u, rows) = some
    BY DEF WithoutBots
  <1> HIDE DEF K, c, at
  <1>4. some \in Seq({rows[i] : i \in K})
    <2>1. some \in [1..c -> {rows[i] : i \in K}]
      BY <1>2
    <2> QED BY <1>2, <2>1, SeqDef
  <1>5. ASSUME \A i \in 1..n : ~rows[i].bot
        PROVE  Len(some) = n /\ \A i \in 1..n : some[i] = rows[i]
    <2>1. K = 1..n
      BY <1>5 DEF K
    <2>2. c = n
      BY <2>1, FS_Interval DEF c
    <2>3. at \in [1..n -> 1..n] /\ \A j, k \in 1..n : j < k => at[j] < at[k]
      BY <1>2, <2>1, <2>2
    <2>4. \A k \in 1..n : at[k] = k
      BY <2>3, OrderOfAll
    <2>5. DOMAIN at = 1..n
      BY <2>3
    <2>6. DOMAIN some = 1..n /\ \A i \in 1..n : some[i] = rows[i]
      BY <2>4, <2>5
    <2> HIDE DEF some
    <2> QED BY <1>4, <2>6, LenProperties
  <1> HIDE DEF some
  <1> QED BY <1>3, <1>4, <1>5 DEF IsSequence

\* A user's row hashes as it is stored.
LEMMA UserRowsAgree ==
  ASSUME NEW row \in UserRow
  PROVE  AsUserLeaf(row) = row.hash /\ row.bot = FALSE /\ [row EXCEPT !.of = 0] \in UserRow
         /\ [row EXCEPT !.of = 0].hash = row.hash
  <1>1. PICK t \in Tokens : row.hash = UserLeaf(t)
    BY DEF UserRow
  <1>2. AsUserLeaf(row) = row.hash
    <2>1. [UserLeaf(t) EXCEPT ![1] = "user"] = UserLeaf(t)
      BY DEF UserLeaf
    <2> QED BY <1>1, <2>1 DEF AsUserLeaf
  <1>3. row = [of |-> row.of, bot |-> FALSE, hash |-> row.hash]
    BY DEF UserRow
  <1>4. [row EXCEPT !.of = 0] = [of |-> 0, bot |-> FALSE, hash |-> row.hash]
    <2>1. ASSUME NEW r, NEW b, NEW H, r \in [of : Nat, bot : {b}, hash : H]
          PROVE  [r EXCEPT !.of = 0] = [of |-> 0, bot |-> b, hash |-> r.hash]
      BY <2>1
    <2> QED BY <2>1 DEF UserRow
  <1>5. row.bot = FALSE
    BY <1>3
  <1>6. [row EXCEPT !.of = 0] \in UserRow
    BY <1>1, <1>4 DEF UserRow
  <1> QED BY <1>2, <1>4, <1>5, <1>6

\* No protocol but a snapshot's comes to stand at "signing".
LEMMA SigningStays ==
  ASSUME \/ work' \subseteq work
         \/ \E v : v.at # "signing" /\ work' \subseteq work \cup {v}
  PROVE  At("signing")' \subseteq At("signing")
  BY DEF At

\* Registration, up to the account, and login.
LEMMA LoginRests ==
  ASSUME AccountsInv, LogInv, NEW w \in work,
         \/ Forget(w) \/ RegisterFirst(w) \/ RegisterRefused(w) \/ CreateAccountFails(w)
         \/ \E i \in DOMAIN invites : ConsumeInvite(w, i)
         \/ \E k \in Keys \cup {NoKey} : LoginFinish(w, k)
         \/ StoreKey(w) \/ CompareKey(w) \/ FindDevice(w) \/ AddDevice(w) \/ OpenSession(w)
         \/ RecoverFinish(w) \/ RecoverSession(w) \/ RotateWrite(w)
  PROVE  LogInv'
  <1>1. UNCHANGED <<log, snaps, botKeys>>
    BY DEF Forget, RegisterFirst, RegisterRefused, CreateAccountFails, ConsumeInvite, LoginFinish,
           StoreKey, CompareKey, FindDevice, AddDevice, OpenSession, RecoverFinish, RecoverSession,
           RotateWrite
  <1>2. \/ work' \subseteq work
        \/ \E v : v.at # "signing" /\ work' \subseteq work \cup {v}
    <2>1. ASSUME Forget(w) \/ RegisterRefused(w) \/ CreateAccountFails(w) \/ OpenSession(w)
                   \/ RecoverSession(w) \/ RotateWrite(w)
          PROVE  work' \subseteq work
      BY <2>1 DEF Forget, RegisterRefused, CreateAccountFails, OpenSession, RecoverSession,
                  RotateWrite, Done
    <2>2. CASE RegisterFirst(w) \/ \E i \in DOMAIN invites : ConsumeInvite(w, i)
      <3>1. \E b : work' = (work \ {w}) \cup {[at |-> "admitted", n |-> w.n, token |-> w.token, boot |-> b]}
        BY <2>2 DEF RegisterFirst, ConsumeInvite, Become
      <3>2. PICK v : v.at = "admitted" /\ work' = (work \ {w}) \cup {v}
        BY <3>1
      <3> QED BY <3>2
    <2>3. CASE \E k \in Keys \cup {NoKey} : LoginFinish(w, k)
      <3>1. PICK v : v.at = "keyRead" /\ work' = (work \ {w}) \cup {v}
        BY <2>3 DEF LoginFinish, Become
      <3> QED BY <3>1
    <2>4. CASE StoreKey(w) \/ CompareKey(w)
      <3>1. KeyChecked(w).at = "keyed"
        BY DEF KeyChecked
      <3>2. work' = (work \ {w}) \cup {KeyChecked(w)} \/ work' = work \ {w}
        BY <2>4 DEF StoreKey, CompareKey, Become, Done
      <3> QED BY <3>1, <3>2
    <2>5. CASE FindDevice(w) \/ AddDevice(w)
      <3>1. w \in [at : {"keyed", "counted", "deviceReady"}, n : Nat, user : Accounts, client : Clients, cred : Nat]
        BY <2>5, WorkIs DEF AccountsInv, FindDevice, AddDevice, At
      <3>2. [w EXCEPT !.at = "deviceReady"].at = "deviceReady" /\ [w EXCEPT !.at = "counted"].at = "counted"
        BY <3>1
      <3>3. \/ work' = work \ {w}
            \/ work' = (work \ {w}) \cup {[w EXCEPT !.at = "deviceReady"]}
            \/ work' = (work \ {w}) \cup {[w EXCEPT !.at = "counted"]}
        BY <2>5 DEF FindDevice, AddDevice, Become, Done
      <3> QED BY <3>2, <3>3
    <2>6. CASE RecoverFinish(w)
      <3>1. PICK v : v.at = "recovered" /\ work' = (work \ {w}) \cup {v}
        BY <2>6 DEF RecoverFinish, Become
      <3> QED BY <3>1
    <2> QED BY <2>1, <2>2, <2>3, <2>4, <2>5, <2>6
  <1> QED BY <1>1, <1>2, SigningStays, LogRests

\* The first requests and the steps that touch no protocol.
LEMMA RequestsRest ==
  ASSUME LogInv,
         \/ \E t \in Tokens : RegisterStart(t)
         \/ \E u \in Accounts : \/ \E c \in Clients : LoginStart(u, c)
                                \/ \E k \in Codes : RecoverStart(u, k)
         \/ \E s \in sessions : \/ RefuseDisabled(s) \/ Expire(s)
                                \/ \E t \in sessions : RevokeSession(s, t)
                                \/ \E all \in BOOLEAN : Logout(s, all)
                                \/ \E c \in Clients : RevokeDevice(s, c)
                                \/ CreateInvite(s) \/ RequestDeletion(s)
         \/ \E i \in DOMAIN invites : CloseInvite(i)
         \/ RotateFlag \/ Restart \/ UNCHANGED accountVars
  PROVE  LogInv'
  <1>1. CASE \E t \in Tokens : RegisterStart(t)
    <2>1. PICK v : v.at = "registering" /\ work' = work \cup {v} /\ UNCHANGED <<log, snaps, botKeys>>
      BY <1>1 DEF RegisterStart, Start
    <2> QED BY <2>1, SigningStays, LogRests
  <1>2. CASE \E u \in Accounts : \E c \in Clients : LoginStart(u, c)
    <2>1. PICK v : v.at = "loggingIn" /\ work' = work \cup {v} /\ UNCHANGED <<log, snaps, botKeys>>
      BY <1>2 DEF LoginStart, Start
    <2> QED BY <2>1, SigningStays, LogRests
  <1>3. CASE \E u \in Accounts : \E k \in Codes : RecoverStart(u, k)
    <2>1. PICK v : v.at = "recovering" /\ work' = work \cup {v} /\ UNCHANGED <<log, snaps, botKeys>>
      BY <1>3 DEF RecoverStart, Start
    <2> QED BY <2>1, SigningStays, LogRests
  <1>4. CASE RotateFlag
    <2>1. PICK v : v.at = "rotating" /\ work' = work \cup {v} /\ UNCHANGED <<log, snaps, botKeys>>
      BY <1>4 DEF RotateFlag
    <2> QED BY <2>1, SigningStays, LogRests
  <1>5. CASE Restart
    <2>1. work' \subseteq work /\ UNCHANGED <<log, snaps, botKeys>>
      BY <1>5 DEF Restart
    <2> QED BY <2>1, SigningStays, LogRests
  <1>6. CASE \/ \E s \in sessions : \/ RefuseDisabled(s) \/ Expire(s)
                                    \/ \E t \in sessions : RevokeSession(s, t)
                                    \/ \E all \in BOOLEAN : Logout(s, all)
                                    \/ \E c \in Clients : RevokeDevice(s, c)
                                    \/ CreateInvite(s)
             \/ \E i \in DOMAIN invites : CloseInvite(i)
             \/ UNCHANGED accountVars
    <2>1. work' = work /\ UNCHANGED <<log, snaps, botKeys>>
      BY <1>6 DEF RefuseDisabled, Expire, RevokeSession, Logout, RevokeDevice, CreateInvite, CloseInvite,
                  accountVars
    <2> QED BY <2>1, SigningStays, LogRests
  <1>7. CASE \E s \in sessions : RequestDeletion(s)
    <2>1. PICK v : v.at = "deleting" /\ work' = work \cup {v} /\ UNCHANGED <<log, snaps, botKeys>>
      BY <1>7 DEF RequestDeletion
    <2> QED BY <2>1, SigningStays, LogRests
  <1> QED BY <1>1, <1>2, <1>3, <1>4, <1>5, <1>6, <1>7

\* A new account's leaf is one more row of a user.
LEMMA LeafAppended ==
  ASSUME AccountsInv, LogInv, NEW w \in work, CreateAccount(w)
  PROVE  LogInv'
  <1> DEFINE row == [of |-> Len(users) + 1, bot |-> FALSE, hash |-> UserLeaf(w.token)]
  <1>1. row \in UserRow
    <2>1. w.token \in Tokens
      BY WorkIs DEF AccountsInv, CreateAccount, At
    <2>2. Len(users) \in Nat
      BY LenProperties DEF AccountsInv
    <2> QED BY <2>1, <2>2 DEF UserRow
  <1>2. log' = Append(log, row) /\ UNCHANGED <<snaps, botKeys>> /\ work' \subseteq work
    BY DEF CreateAccount, Done
  <1> HIDE DEF row
  <1>3. /\ IsSequence(log') /\ Len(log') = Len(log) + 1 /\ Len(log) \in Nat /\ log'[Len(log) + 1] = row
        /\ \A i \in 1..Len(log) : log'[i] = log[i]
    BY <1>2, OneMore DEF LogInv
  <1>4. botKeys = 0 => \A i \in 1..Len(log') : log'[i] \in UserRow
    <2>1. botKeys = 0 => \A i \in 1..Len(log) : log[i] \in UserRow
      BY DEF LogInv, BeforeBots
    <2>2. \A i \in 1..Len(log') : i \in 1..Len(log) \/ i = Len(log) + 1
      BY <1>3
    <2> QED BY <1>1, <1>3, <2>1, <2>2
  <1>5. Len(log) <= Len(log') /\ \A i \in 1..Len(log) : log'[i].hash = log[i].hash
    BY <1>3
  <1> QED BY <1>2, <1>3, <1>4, <1>5, SigningStays, LogGrows

\* A deleted account's row stays, under no account; only bots' rows go.
LEMMA LeavesDeleted ==
  ASSUME LogInv, NEW w, DeleteAccount(w)
  PROVE  LogInv'
  <1> DEFINE u == w.user
             rows == Tombstoned(u)
  <1>1. log' = WithoutBots(u, rows) /\ UNCHANGED <<snaps, botKeys>> /\ work' \subseteq work
    BY DEF DeleteAccount, Done
  <1>2. Len(log) \in Nat /\ DOMAIN log = 1..Len(log)
    BY OneMore DEF LogInv
  <1>3. DOMAIN rows = 1..Len(log)
    BY <1>2 DEF Tombstoned
  <1>4. ASSUME botKeys = 0, NEW i \in 1..Len(log)
        PROVE  rows[i] \in UserRow /\ rows[i].hash = log[i].hash /\ rows[i].bot = FALSE
    <2>1. log[i] \in UserRow
      BY <1>4 DEF LogInv, BeforeBots
    <2>2. rows[i] = log[i] \/ rows[i] = [log[i] EXCEPT !.of = 0]
      BY <1>2 DEF Tombstoned
    <2>3. rows[i] \in UserRow /\ rows[i].hash = log[i].hash
      BY <2>1, <2>2, UserRowsAgree
    <2> QED BY <2>3, UserRowsAgree
  <1> HIDE DEF rows, u
  <1>5. IsSequence(log')
    BY <1>1, <1>2, <1>3, WithoutBotsIs
  <1>6. ASSUME botKeys = 0
        PROVE  /\ Len(log) <= Len(log')
               /\ \A i \in 1..Len(log) : log'[i].hash = log[i].hash
               /\ \A i \in 1..Len(log') : log'[i] \in UserRow
    <2>1. \A i \in 1..Len(log) : ~rows[i].bot
      BY <1>4, <1>6
    <2>2. Len(log') = Len(log) /\ \A i \in 1..Len(log) : log'[i] = rows[i]
      BY <1>1, <1>2, <1>3, <2>1, WithoutBotsIs, SMTT(60)
    <2>3. \A i \in 1..Len(log) : rows[i] \in UserRow /\ rows[i].hash = log[i].hash
      BY <1>4, <1>6
    <2> QED BY <1>2, <2>2, <2>3
  <1> QED BY <1>1, <1>5, <1>6, SigningStays, LogGrows

\* create_snapshot reads the rows,
LEMMA SnapshotReads ==
  ASSUME LogInv, SnapshotRead
  PROVE  LogInv'
  <1> DEFINE v == [at |-> "signing", n |-> Heads, size |-> Len(log), root |-> Root(Recomputed)]
  <1>1. work' = work \cup {v} /\ UNCHANGED <<log, snaps, botKeys>>
    BY DEF SnapshotRead
  <1>2. v.size = Len(log) /\ v.root = Root(Recomputed)
    OBVIOUS
  <1> HIDE DEF v
  <1>3. Len(log) \in Nat /\ DOMAIN log = 1..Len(log)
    BY OneMore DEF LogInv
  <1>4. ASSUME BeforeBots
        PROVE  BeforeBots'
    <2>1. Recomputed = Earlier(Len(log))
      <3>1. \A i \in 1..Len(log) : AsUserLeaf(log[i]) = log[i].hash
        BY <1>4, UserRowsAgree DEF BeforeBots
      <3> QED BY <1>3, <3>1 DEF Recomputed, Earlier
    <2>2. HeadTrue(v.size, v.root)
      BY <1>2, <1>3, <2>1 DEF HeadTrue
    <2>3. ASSUME NEW size, NEW root
          PROVE  /\ HeadTrue(size, root) => HeadTrue(size, root)'
                 /\ \A i : HeadOf(i, size, root)' <=> HeadOf(i, size, root)
      BY <1>1 DEF HeadTrue, Earlier, HeadOf
    <2>4. ASSUME NEW w \in At("signing")'
          PROVE  HeadTrue(w.size, w.root)'
      <3>1. HeadTrue(w.size, w.root)
        BY <1>1, <1>4, <2>2, <2>4 DEF BeforeBots, At
      <3> QED BY <2>3, <3>1
    <2>5. \A i \in 1..Len(log') : log'[i] \in UserRow
      BY <1>1, <1>4 DEF BeforeBots
    <2>6. ASSUME NEW i \in 1..Len(snaps'), NEW size, NEW root, HeadOf(i, size, root)'
          PROVE  HeadTrue(size, root)'
      <3>1. i \in 1..Len(snaps) /\ HeadOf(i, size, root)
        BY <1>1, <2>3, <2>6
      <3> QED BY <1>4, <2>3, <3>1 DEF BeforeBots
    <2> QED BY <2>4, <2>5, <2>6 DEF BeforeBots
  <1> QED BY <1>1, <1>4 DEF LogInv

\* and inserts the head it signed.
LEMMA SnapshotInserts ==
  ASSUME LogInv, NEW w \in work, SnapshotInsert(w)
  PROVE  LogInv'
  <1> DEFINE head == [size |-> w.size, root |-> w.root]
  <1>1. snaps' = Append(snaps, head) /\ UNCHANGED <<log, botKeys>> /\ work' \subseteq work /\ w \in At("signing")
    BY DEF SnapshotInsert, Done, At
  <1>2. head.size = w.size /\ head.root = w.root
    OBVIOUS
  <1> HIDE DEF head
  <1>3. /\ IsSequence(snaps') /\ Len(snaps') = Len(snaps) + 1 /\ Len(snaps) \in Nat
        /\ snaps'[Len(snaps) + 1] = head /\ \A i \in 1..Len(snaps) : snaps'[i] = snaps[i]
    BY <1>1, OneMore DEF LogInv
  <1>4. ASSUME BeforeBots
        PROVE  BeforeBots'
    <2>1. ASSUME NEW size, NEW root
          PROVE  HeadTrue(size, root) => HeadTrue(size, root)'
      BY <1>1 DEF HeadTrue, Earlier
    <2>2. ASSUME NEW i \in 1..Len(snaps'), NEW size, NEW root, HeadOf(i, size, root)'
          PROVE  HeadTrue(size, root)'
      <3>1. CASE i \in 1..Len(snaps)
        <4>1. HeadOf(i, size, root)
          BY <1>3, <2>2, <3>1 DEF HeadOf
        <4> QED BY <1>4, <2>1, <3>1, <4>1 DEF BeforeBots
      <3>2. CASE i = Len(snaps) + 1
        <4>1. size = w.size /\ root = w.root
          BY <1>2, <1>3, <2>2, <3>2 DEF HeadOf
        <4> QED BY <1>1, <1>4, <2>1, <4>1 DEF BeforeBots
      <3> QED BY <1>3, <3>1, <3>2
    <2>3. ASSUME NEW x \in At("signing")'
          PROVE  HeadTrue(x.size, x.root)'
      <3>1. x \in At("signing")
        BY <1>1, <2>3 DEF At
      <3> QED BY <1>4, <2>1, <3>1 DEF BeforeBots
    <2>4. \A i \in 1..Len(log') : log'[i] \in UserRow
      BY <1>1, <1>4 DEF BeforeBots
    <2> QED BY <2>2, <2>3, <2>4 DEF BeforeBots
  <1> QED BY <1>1, <1>3, <1>4 DEF LogInv

\* With the first bot the promise about heads is over.
LEMMA BotLeafAppended ==
  ASSUME LogInv, NEW s, AppendBotLeaf(s)
  PROVE  LogInv'
  <1>1. botKeys' = botKeys + 1 /\ snaps' = snaps /\ \E row : log' = Append(log, row)
    BY DEF AppendBotLeaf
  <1>2. IsSequence(log') /\ botKeys' \in Nat /\ botKeys' # 0
    BY <1>1, OneMore DEF LogInv
  <1> QED BY <1>1, <1>2 DEF LogInv

\* The log is what the heads say in every behaviour of the accounts.
LEMMA LogInvariant == AccountsSpec => []LogInv
  <1>1. AccountsInit => LogInv
    <2> SUFFICES ASSUME AccountsInit
                 PROVE  LogInv
      OBVIOUS
    <2>1. log = <<>> /\ snaps = <<>> /\ work = {} /\ botKeys = 0
      BY DEF AccountsInit
    <2>2. IsSequence(log) /\ IsSequence(snaps) /\ Len(log) = 0 /\ Len(snaps) = 0
      BY <2>1 DEF IsSequence
    <2> QED BY <2>1, <2>2 DEF LogInv, BeforeBots, At
  <1>2. AccountsInv /\ LogInv /\ [AccountsNext]_accountVars => LogInv'
    BY LoginRests, RequestsRest, LeafAppended, LeavesDeleted, SnapshotReads, SnapshotInserts,
       BotLeafAppended DEF AccountsNext
  <1> QED BY <1>1, <1>2, AccountsInvariant, PTL DEF AccountsSpec

\* The leaf that is asked for is one of the log.
LEMMA LastLeaf ==
  ASSUME LogInv, NEW S \in SUBSET (DOMAIN log), S # {}
  PROVE  Max(S) \in 1..Len(log)
  <1>1. Len(log) \in Nat /\ DOMAIN log = 1..Len(log)
    BY OneMore DEF LogInv
  <1>2. S \in SUBSET Nat /\ \A k \in S : k <= Len(log)
    BY <1>1
  <1> QED BY <1>1, <1>2, MaxOfBounded

\* Whatever the log has become, the inclusion proof that a client is given for
\* a user's or a bot's leaf verifies; and before the first bot it verifies
\* against the tree head that comes with it, whichever snapshot that is
\* (get_user_kt_handler, get_bot_kt_handler, create_snapshot).
THEOREM AnswersVerify == AccountsSpec => []ProofsVerify
  <1>1. ASSUME LogInv, NEW i \in 1..Len(log)
        PROVE  Verifies(Answer(i).leaf, Answer(i).at, Answer(i).size, Answer(i).proof,
                        IF botKeys = 0 THEN Answer(i).root ELSE Root(Stored))
    <2>1. Len(log) \in Nat /\ DOMAIN log = 1..Len(log)
      BY <1>1, OneMore DEF LogInv
    <2>2. Stored = Earlier(Len(log)) /\ Len(Stored) = Len(log) /\ Stored # <<>>
      <3>1. Stored = Earlier(Len(log))
        BY <2>1 DEF Stored, Earlier
      <3>2. DOMAIN Stored = 1..Len(log)
        BY <2>1 DEF Stored
      <3>3. Stored \in Seq({Stored[k] : k \in 1..Len(log)})
        <4>1. Stored \in [1..Len(log) -> {Stored[k] : k \in 1..Len(log)}]
          BY <2>1 DEF Stored
        <4> QED BY <2>1, <4>1, SeqDef
      <3>4. Len(Stored) = Len(log)
        BY <2>1, <3>2, <3>3, LenProperties
      <3>5. Len(Stored) # 0
        BY <2>1, <3>4
      <3> QED BY <3>1, <3>4, <3>5
    <2>3. botKeys = 0 => HeadRoot = Root(Stored)
      <3>1. ASSUME botKeys = 0, snaps # <<>>, Last(snaps).size = Len(log)
            PROVE  Last(snaps).root = Root(Stored)
        <4>1. Len(snaps) \in 1..Len(snaps) /\ Last(snaps) = snaps[Len(snaps)]
          <5>1. PICK S : snaps \in Seq(S)
            BY <1>1 DEF LogInv, IsSequence
          <5>2. Len(snaps) \in Nat /\ Len(snaps) # 0
            BY <3>1, <5>1, EmptySeq, LenProperties
          <5> QED BY <5>2 DEF Last
        <4>2. HeadOf(Len(snaps), Len(log), Last(snaps).root)
          BY <3>1, <4>1 DEF HeadOf
        <4>3. HeadTrue(Len(log), Last(snaps).root)
          BY <1>1, <3>1, <4>1, <4>2 DEF LogInv, BeforeBots
        <4> QED BY <2>2, <4>3 DEF HeadTrue
      <3> QED BY <3>1 DEF HeadRoot
    <2>4. Verifies(Stored[i], i, Len(log), InclusionProof(Stored, i), Root(Stored))
      BY <2>1, <2>2, InclusionVerifies
    <2> QED BY <2>3, <2>4 DEF Answer
  <1>2. LogInv => ProofsVerify
    <2> SUFFICES ASSUME LogInv
                 PROVE  ProofsVerify
      OBVIOUS
    <2>1. ASSUME NEW u, NEW bot, LeavesOf(u, bot) # {}
          PROVE  Max(LeavesOf(u, bot)) \in 1..Len(log)
      <3>1. LeavesOf(u, bot) \in SUBSET (DOMAIN log)
        BY DEF LeavesOf
      <3> QED BY <2>1, <3>1, LastLeaf
    <2>2. \A a \in UserAnswers \cup BotAnswers : \E i \in 1..Len(log) : a = Answer(i)
      BY <2>1 DEF UserAnswers, BotAnswers
    <2> QED BY <1>1, <2>2 DEF ProofsVerify
  <1> QED BY <1>2, LogInvariant, PTL

-----------------------------------------------------------------------------
(***************************************************************************)
(* Types of the accounts.  Most of the type invariant is a bound that some *)
(* history has to keep: an account's credential is replaced at most once   *)
(* for every recovery that was started, and a key is never rotated while   *)
(* another rotation is under way, so that no account is registered under a *)
(* key beyond the last one.                                                *)
(***************************************************************************)

\* What a step does to the rows of the accounts there are.
RowsKept ==
  /\ Accounts' = Accounts
  /\ \A u \in Accounts :
       /\ users'[u].token \in {users[u].token, NoToken}
       /\ users'[u].under \in {users[u].under, oprf.loaded}
       /\ \/ users'[u].cred = users[u].cred
          \/ \E w \in work : RecoverFinish(w) /\ w.user = u /\ users'[u].cred = users[u].cred + 1

\* The row of an account.
LEMMA RowOf ==
  ASSUME AccountsInv, NEW u \in Accounts
  PROVE  users[u] \in Rows /\ users[u].cred \in Nat /\ users[u].under \in Nat
  <1>1. users[u] \in Rows
    BY ElementOfSeq, LenProperties DEF AccountsInv, Accounts
  <1> QED BY <1>1 DEF Rows

\* A row that is written is the account's own.
LEMMA RowWritten ==
  ASSUME AccountsInv, NEW u \in Accounts, NEW row,
         users' = [users EXCEPT ![u] = row],
         row.token \in {users[u].token, NoToken}, row.under \in {users[u].under, oprf.loaded},
         \/ row.cred = users[u].cred
         \/ \E w \in work : RecoverFinish(w) /\ w.user = u /\ row.cred = users[u].cred + 1
  PROVE  RowsKept
  <1>1. Accounts' = Accounts /\ users'[u] = row /\ \A x \in Accounts \ {u} : users'[x] = users[x]
    BY DEF Accounts
  <1>2. ASSUME NEW x \in Accounts
        PROVE  /\ users'[x].token \in {users[x].token, NoToken}
               /\ users'[x].under \in {users[x].under, oprf.loaded}
               /\ \/ users'[x].cred = users[x].cred
                  \/ \E w \in work : RecoverFinish(w) /\ w.user = x /\ users'[x].cred = users[x].cred + 1
    BY <1>1
  <1> QED BY <1>1, <1>2 DEF RowsKept

\* A step creates an account or keeps those there are.
LEMMA RowsStep ==
  ASSUME AccountsInv, [AccountsNext]_accountVars
  PROVE  (\E w \in work : CreateAccount(w)) \/ RowsKept
  <1>1. \A u \in Accounts : users[u] \in Rows
    BY RowOf
  <1>2. users' = users => RowsKept
    BY DEF RowsKept, Accounts
  <1>3. ASSUME NEW w \in work, StoreKey(w)
        PROVE  RowsKept
    <2> DEFINE u == w.user
               row == [users[u] EXCEPT !.key = w.key]
    <2>1. u \in Accounts
      BY <1>3, WorkIs DEF AccountsInv, StoreKey, At
    <2>2. users' = [users EXCEPT ![u] = row]
      BY <1>3 DEF StoreKey
    <2>3. row.token = users[u].token /\ row.under = users[u].under /\ row.cred = users[u].cred
      BY <1>1, <2>1 DEF Rows
    <2> HIDE DEF u, row
    <2> QED BY <2>1, <2>2, <2>3, RowWritten
  <1>4. ASSUME NEW w \in work, RecoverFinish(w)
        PROVE  RowsKept
    <2> DEFINE u == w.user
               cred == users[u].cred + 1
               under == oprf.loaded
               row == [users[u] EXCEPT !.cred = cred, !.under = under]
    <2>1. u \in Accounts
      BY <1>4, WorkIs DEF AccountsInv, RecoverFinish, At
    <2>2. users' = [users EXCEPT ![u] = row]
      BY <1>4 DEF RecoverFinish
    <2>3. row.token = users[u].token /\ row.under = under /\ row.cred = cred
      <3> HIDE DEF cred, under
      <3> QED BY <1>1, <2>1 DEF Rows
    <2>4. w.user = u
      OBVIOUS
    <2> HIDE DEF u, row
    <2> QED BY <1>4, <2>1, <2>2, <2>3, <2>4, RowWritten
  <1>5. ASSUME NEW w \in work, DeleteAccount(w)
        PROVE  RowsKept
    <2> DEFINE u == w.user
               row == [users[u] EXCEPT !.live = FALSE, !.token = NoToken, !.key = NoKey, !.owner = FALSE]
    <2>1. u \in Accounts
      BY <1>5, WorkIs DEF AccountsInv, DeleteAccount, At
    <2>2. users' = [users EXCEPT ![u] = row]
      BY <1>5 DEF DeleteAccount, Anonymised
    <2>3. row.token = NoToken /\ row.under = users[u].under /\ row.cred = users[u].cred
      BY <1>1, <2>1 DEF Rows
    <2> HIDE DEF u, row
    <2> QED BY <2>1, <2>2, <2>3, RowWritten
  <1>6. CASE RotateFlag
    <2>1. users' = [u \in Accounts |-> [users[u] EXCEPT !.flagged = @ \/ Live(u)]]
      BY <1>6 DEF RotateFlag
    <2>2. Accounts' = Accounts
      BY <2>1 DEF Accounts
    <2>3. ASSUME NEW u \in Accounts
          PROVE  /\ users'[u].token = users[u].token /\ users'[u].under = users[u].under
                 /\ users'[u].cred = users[u].cred
      <3>1. users'[u] = [users[u] EXCEPT !.flagged = users[u].flagged \/ Live(u)]
        BY <2>1
      <3> QED BY <1>1, <3>1 DEF Rows
    <2> QED BY <2>2, <2>3 DEF RowsKept
  <1>7. CASE \/ \E w \in work : \/ Forget(w) \/ RegisterFirst(w) \/ RegisterRefused(w)
                                \/ \E i \in DOMAIN invites : ConsumeInvite(w, i)
                                \/ CreateAccountFails(w)
                                \/ \E k \in Keys \cup {NoKey} : LoginFinish(w, k)
                                \/ CompareKey(w) \/ FindDevice(w) \/ AddDevice(w) \/ OpenSession(w)
                                \/ RecoverSession(w) \/ RotateWrite(w) \/ SnapshotInsert(w)
             \/ \E t \in Tokens : RegisterStart(t)
             \/ \E u \in Accounts : \/ \E c \in Clients : LoginStart(u, c)
                                    \/ \E k \in Codes : RecoverStart(u, k)
             \/ UNCHANGED accountVars
    BY <1>2, <1>7 DEF Forget, RegisterFirst, RegisterRefused, ConsumeInvite, CreateAccountFails, LoginFinish,
                      CompareKey, FindDevice, AddDevice, OpenSession, RecoverSession, RotateWrite,
                      SnapshotInsert, RegisterStart, LoginStart, RecoverStart, accountVars
  <1>8. CASE \/ \E s \in sessions : \/ RefuseDisabled(s) \/ Expire(s)
                                    \/ \E t \in sessions : RevokeSession(s, t)
                                    \/ \E all \in BOOLEAN : Logout(s, all)
                                    \/ \E c \in Clients : RevokeDevice(s, c)
                                    \/ CreateInvite(s) \/ RequestDeletion(s) \/ AppendBotLeaf(s)
             \/ \E i \in DOMAIN invites : CloseInvite(i)
             \/ Restart \/ SnapshotRead
    BY <1>2, <1>8 DEF RefuseDisabled, Expire, RevokeSession, Logout, RevokeDevice, CreateInvite, RequestDeletion, AppendBotLeaf,
                      CloseInvite, Restart, SnapshotRead
  <1> QED BY <1>3, <1>4, <1>5, <1>6, <1>7, <1>8 DEF AccountsNext

\* What a step may add to the protocols and handlers under way, of those that
\* others wait for.
LEMMA WorkStep ==
  ASSUME AccountsInv, [AccountsNext]_accountVars, NEW v \in work' \ work
  PROVE  \/ v.at \in {"registering", "admitted", "loggingIn", "keyRead", "keyed", "counted", "deviceReady",
                      "recovered", "deleting"}
         \/ /\ \E u \in Accounts, k \in Codes : RecoverStart(u, k)
            /\ v.at = "recovering" /\ work' = work \cup {v}
         \/ RotateFlag /\ v.at = "rotating" /\ work' = work \cup {v}
         \/ /\ SnapshotRead /\ work' = work \cup {v}
            /\ v = [at |-> "signing", n |-> Heads, size |-> Len(log), root |-> Root(Recomputed)]
  <1>1. CASE \E w \in work : \/ Forget(w) \/ RegisterRefused(w) \/ CreateAccount(w) \/ CreateAccountFails(w)
                             \/ OpenSession(w) \/ RecoverSession(w) \/ RotateWrite(w) \/ SnapshotInsert(w)
                             \/ DeleteAccount(w)
    BY <1>1 DEF Forget, RegisterRefused, CreateAccount, CreateAccountFails, OpenSession, RecoverSession,
                RotateWrite, SnapshotInsert, DeleteAccount, Done
  <1>2. CASE \E w \in work : RegisterFirst(w) \/ \E i \in DOMAIN invites : ConsumeInvite(w, i)
    <2>1. v.at = "admitted"
      BY <1>2 DEF RegisterFirst, ConsumeInvite, Become
    <2> QED BY <2>1
  <1>3. CASE \E w \in work : \E k \in Keys \cup {NoKey} : LoginFinish(w, k)
    <2>1. v.at = "keyRead"
      BY <1>3 DEF LoginFinish, Become
    <2> QED BY <2>1
  <1>4. CASE \E w \in work : StoreKey(w) \/ CompareKey(w)
    <2>1. v.at = "keyed"
      BY <1>4 DEF StoreKey, CompareKey, Become, Done, KeyChecked
    <2> QED BY <2>1
  <1>5. CASE \E w \in work : FindDevice(w) \/ AddDevice(w)
    <2>1. PICK w \in work : FindDevice(w) \/ AddDevice(w)
      BY <1>5
    <2>2. w \in [at : {"keyed", "counted", "deviceReady"}, n : Nat, user : Accounts, client : Clients, cred : Nat]
      BY <2>1, WorkIs DEF AccountsInv, FindDevice, AddDevice, At
    <2>3. [w EXCEPT !.at = "deviceReady"].at = "deviceReady" /\ [w EXCEPT !.at = "counted"].at = "counted"
      BY <2>2
    <2>4. v = [w EXCEPT !.at = "deviceReady"] \/ v = [w EXCEPT !.at = "counted"]
      BY <2>1 DEF FindDevice, AddDevice, Become, Done
    <2> QED BY <2>3, <2>4
  <1>6. CASE \E w \in work : RecoverFinish(w)
    <2>1. v.at = "recovered"
      BY <1>6 DEF RecoverFinish, Become
    <2> QED BY <2>1
  <1>7. CASE \E t \in Tokens : RegisterStart(t)
    <2>1. v.at = "registering"
      BY <1>7 DEF RegisterStart, Start
    <2> QED BY <2>1
  <1>8. CASE \E u \in Accounts : \E c \in Clients : LoginStart(u, c)
    <2>1. v.at = "loggingIn"
      BY <1>8 DEF LoginStart, Start
    <2> QED BY <2>1
  <1>9. CASE \E u \in Accounts : \E k \in Codes : RecoverStart(u, k)
    <2>1. v.at = "recovering" /\ work' = work \cup {v}
      BY <1>9 DEF RecoverStart, Start
    <2> QED BY <1>9, <2>1
  <1>10. CASE RotateFlag
    <2>1. v.at = "rotating" /\ work' = work \cup {v}
      BY <1>10 DEF RotateFlag
    <2> QED BY <1>10, <2>1
  <1>11. CASE SnapshotRead
    <2> DEFINE x == [at |-> "signing", n |-> Heads, size |-> Len(log), root |-> Root(Recomputed)]
    <2>1. work' = work \cup {x}
      BY <1>11 DEF SnapshotRead
    <2>2. v = x
      <3> HIDE DEF x
      <3> QED BY <2>1
    <2> QED BY <1>11, <2>1, <2>2
  <1>12. CASE \/ \E s \in sessions : \/ RefuseDisabled(s) \/ Expire(s)
                                     \/ \E t \in sessions : RevokeSession(s, t)
                                     \/ \E all \in BOOLEAN : Logout(s, all)
                                     \/ \E c \in Clients : RevokeDevice(s, c)
                                     \/ CreateInvite(s) \/ AppendBotLeaf(s)
              \/ \E i \in DOMAIN invites : CloseInvite(i)
              \/ Restart \/ UNCHANGED accountVars
    BY <1>12 DEF RefuseDisabled, Expire, RevokeSession, Logout, RevokeDevice, CreateInvite,
                 AppendBotLeaf, CloseInvite, Restart, accountVars
  <1>13. CASE \E s \in sessions : RequestDeletion(s)
    <2>1. v.at = "deleting"
      BY <1>13 DEF RequestDeletion
    <2> QED BY <2>1
  <1> QED BY <1>1, <1>2, <1>3, <1>4, <1>5, <1>6, <1>7, <1>8, <1>9, <1>10, <1>11, <1>12, <1>13
          DEF AccountsNext

\* A recovery that was started may replace the credential once.
Recovering(u) == {w \in At("recovering") : w.user = u}
RecoveryInv ==
  /\ starts <= MaxStarts
  /\ IsFiniteSet(At("recovering"))
  /\ \A u \in Accounts : users[u].cred + Cardinality(Recovering(u)) <= starts

\* The recoveries of an account are finitely many.
LEMMA RecoveringIs ==
  ASSUME NEW u, IsFiniteSet(At("recovering"))
  PROVE  IsFiniteSet(Recovering(u)) /\ Cardinality(Recovering(u)) \in Nat
  <1>1. Recovering(u) \subseteq At("recovering")
    BY DEF Recovering
  <1> QED BY <1>1, FS_Subset, FS_CardinalityType

\* A step under which an account recovers no more than it did.
LEMMA RecoveryRests ==
  ASSUME AccountsInv, RecoveryInv, AccountsInv', At("recovering")' \subseteq At("recovering"),
         starts <= starts', starts' <= MaxStarts,
         \A u \in Accounts' : \/ u \in Accounts /\ users'[u].cred = users[u].cred
                              \/ users'[u].cred = 0 /\ u \notin Accounts
  PROVE  RecoveryInv'
  <1>1. IsFiniteSet(At("recovering")')
    BY FS_Subset DEF RecoveryInv
  <1>2. ASSUME NEW u \in Accounts'
        PROVE  users'[u].cred + Cardinality(Recovering(u)') <= starts'
    <2>1. Recovering(u)' \subseteq Recovering(u)
      BY DEF Recovering
    <2>2. IsFiniteSet(Recovering(u)) /\ Cardinality(Recovering(u)) \in Nat
      BY RecoveringIs DEF RecoveryInv
    <2>3. Cardinality(Recovering(u)') <= Cardinality(Recovering(u)) /\ Cardinality(Recovering(u)') \in Nat
      BY <2>1, <2>2, FS_Subset, FS_CardinalityType
    <2>4. starts \in Nat /\ starts' \in Nat
      BY DEF AccountsInv
    <2>5. CASE u \in Accounts /\ users'[u].cred = users[u].cred
      <3>1. users[u].cred + Cardinality(Recovering(u)) <= starts
        BY <2>5 DEF RecoveryInv
      <3>2. users[u].cred \in Nat
        BY <2>5, RowOf
      <3> DEFINE a == Cardinality(Recovering(u))
                 b == Cardinality(Recovering(u)')
                 c == users[u].cred
      <3>3. a \in Nat /\ b \in Nat /\ c \in Nat /\ b <= a /\ c + a <= starts
        BY <2>2, <2>3, <3>1, <3>2
      <3> HIDE DEF a, b, c
      <3>4. c + b <= starts'
        BY <2>4, <3>3
      <3> QED BY <2>5, <3>4 DEF b, c
    <2>6. CASE users'[u].cred = 0 /\ u \notin Accounts
      <3>1. Recovering(u) = {}
        BY <2>6, WorkIs DEF Recovering, At, AccountsInv
      <3>2. Cardinality(Recovering(u)') = 0
        BY <2>1, <3>1, FS_EmptySet
      <3> QED BY <2>4, <2>6, <3>2
    <2> QED BY <2>5, <2>6
  <1> QED BY <1>1, <1>2 DEF RecoveryInv

\* recover_finish ends the recovery it is the end of.
LEMMA RecoveryEnds ==
  ASSUME AccountsInv, RecoveryInv, NEW w \in work, RecoverFinish(w), RowsKept
  PROVE  RecoveryInv'
  <1>1. At("recovering")' = At("recovering") \ {w} /\ w \in At("recovering") /\ starts' = starts
    BY DEF RecoverFinish, Become, At
  <1>2. IsFiniteSet(At("recovering")')
    BY <1>1, FS_Subset DEF RecoveryInv
  <1>3. ASSUME NEW u \in Accounts
        PROVE  users'[u].cred + Cardinality(Recovering(u)') <= starts'
    <2>1. users[u].cred \in Nat /\ starts \in Nat
      BY RowOf DEF AccountsInv
    <2>2. IsFiniteSet(Recovering(u)) /\ Cardinality(Recovering(u)) \in Nat
      BY RecoveringIs DEF RecoveryInv
    <2>3. users[u].cred + Cardinality(Recovering(u)) <= starts
      BY DEF RecoveryInv
    <2>4. CASE w.user = u
      <3>1. Recovering(u)' = Recovering(u) \ {w} /\ w \in Recovering(u)
        BY <1>1, <2>4 DEF Recovering
      <3>2. Cardinality(Recovering(u)') = Cardinality(Recovering(u)) - 1
        BY <2>2, <3>1, FS_RemoveElement
      <3>3. users'[u].cred \in {users[u].cred, users[u].cred + 1}
        BY DEF RowsKept
      <3> DEFINE a == Cardinality(Recovering(u))
                 b == Cardinality(Recovering(u)')
                 c == users[u].cred
                 d == users'[u].cred
      <3>4. a \in Nat /\ b = a - 1 /\ c \in Nat /\ d \in {c, c + 1} /\ c + a <= starts
        BY <2>1, <2>2, <2>3, <3>2, <3>3
      <3> HIDE DEF a, b, c, d
      <3>5. d + b <= starts
        BY <2>1, <3>4
      <3> QED BY <1>1, <3>5 DEF b, d
    <2>5. CASE w.user # u
      <3>1. Recovering(u)' = Recovering(u)
        BY <1>1, <2>5 DEF Recovering
      <3>2. users'[u].cred = users[u].cred
        <4>1. users' = [users EXCEPT ![w.user].cred = @ + 1, ![w.user].under = oprf.loaded]
          BY DEF RecoverFinish
        <4>2. users'[u] = users[u]
          BY <2>5, <4>1 DEF Accounts
        <4> QED BY <4>2
      <3> QED BY <1>1, <2>3, <3>1, <3>2
    <2> QED BY <2>4, <2>5
  <1> QED BY <1>1, <1>2, <1>3 DEF RecoveryInv, RowsKept

\* recover_start counts as a start before it counts as a recovery.
LEMMA RecoveryStarts ==
  ASSUME AccountsInv, RecoveryInv, NEW v, NEW x \in Accounts, NEW k \in Codes, RecoverStart(x, k),
         At("recovering")' \subseteq At("recovering") \cup {v}
  PROVE  RecoveryInv'
  <1>1. users' = users /\ Accounts' = Accounts /\ starts' = starts + 1 /\ starts < MaxStarts /\ starts \in Nat
    BY DEF RecoverStart, Start, Accounts, AccountsInv
  <1>2. IsFiniteSet(At("recovering")')
    <2> DEFINE more == At("recovering") \cup {v}
    <2>1. IsFiniteSet(more)
      BY FS_AddElement DEF RecoveryInv
    <2> QED BY <2>1, FS_Subset
  <1>3. ASSUME NEW u \in Accounts
        PROVE  users'[u].cred + Cardinality(Recovering(u)') <= starts'
    <2> DEFINE more == Recovering(u) \cup {v}
    <2>1. users[u].cred \in Nat
      BY RowOf
    <2>2. IsFiniteSet(Recovering(u)) /\ Cardinality(Recovering(u)) \in Nat
      BY RecoveringIs DEF RecoveryInv
    <2>3. users[u].cred + Cardinality(Recovering(u)) <= starts
      BY DEF RecoveryInv
    <2>4. IsFiniteSet(more) /\ Cardinality(more) <= Cardinality(Recovering(u)) + 1
      BY <2>2, FS_AddElement
    <2>5. Recovering(u)' \subseteq more
      BY DEF Recovering
    <2> HIDE DEF more
    <2>6. Cardinality(Recovering(u)') <= Cardinality(more)
      BY <2>4, <2>5, FS_Subset
    <2>7. Cardinality(Recovering(u)') \in Nat /\ Cardinality(more) \in Nat
      BY <2>4, <2>5, FS_Subset, FS_CardinalityType
    <2> DEFINE a == Cardinality(Recovering(u))
               b == Cardinality(Recovering(u)')
               c == users[u].cred
    <2>8. a \in Nat /\ b \in Nat /\ b <= a + 1 /\ c \in Nat /\ c + a <= starts
      BY <2>1, <2>2, <2>3, <2>4, <2>6, <2>7
    <2>9. users'[u].cred = c /\ Cardinality(Recovering(u)') = b
      BY <1>1
    <2> HIDE DEF a, b, c
    <2>10. c + b <= starts + 1
      BY <1>1, <2>8
    <2> QED BY <1>1, <2>9, <2>10
  <1>4. starts' <= MaxStarts
    BY <1>1, AccountsAssumption
  <1> QED BY <1>1, <1>2, <1>3, <1>4 DEF RecoveryInv

\* Protocols are started one at a time.
LEMMA StartsStep ==
  ASSUME [AccountsNext]_accountVars
  PROVE  starts' = starts \/ (starts < MaxStarts /\ starts' = starts + 1)
  <1>1. CASE \/ \E t \in Tokens : RegisterStart(t)
             \/ \E u \in Accounts : \/ \E c \in Clients : LoginStart(u, c)
                                    \/ \E k \in Codes : RecoverStart(u, k)
    BY <1>1, SMTT(60) DEF RegisterStart, LoginStart, RecoverStart, Start
  <1>2. CASE \/ \E w \in work : \/ Forget(w) \/ RegisterFirst(w) \/ RegisterRefused(w)
                                \/ \E i \in DOMAIN invites : ConsumeInvite(w, i)
                                \/ CreateAccount(w) \/ CreateAccountFails(w)
                                \/ \E k \in Keys \cup {NoKey} : LoginFinish(w, k)
                                \/ StoreKey(w) \/ CompareKey(w) \/ FindDevice(w) \/ AddDevice(w)
                                \/ OpenSession(w) \/ RecoverFinish(w) \/ RecoverSession(w)
                                \/ RotateWrite(w) \/ SnapshotInsert(w) \/ DeleteAccount(w)
             \/ UNCHANGED accountVars
    BY <1>2, ZenonT(60) DEF Forget, RegisterFirst, RegisterRefused, ConsumeInvite, CreateAccount, CreateAccountFails,
                LoginFinish, StoreKey, CompareKey, FindDevice, AddDevice, OpenSession, RecoverFinish,
                RecoverSession, RotateWrite, SnapshotInsert, DeleteAccount, accountVars
  <1>3. CASE \/ \E s \in sessions : \/ RefuseDisabled(s) \/ Expire(s)
                                    \/ \E t \in sessions : RevokeSession(s, t)
                                    \/ \E all \in BOOLEAN : Logout(s, all)
                                    \/ \E c \in Clients : RevokeDevice(s, c)
                                    \/ CreateInvite(s) \/ RequestDeletion(s) \/ AppendBotLeaf(s)
             \/ \E i \in DOMAIN invites : CloseInvite(i)
             \/ RotateFlag \/ Restart \/ SnapshotRead
    BY <1>3 DEF RefuseDisabled, Expire, RevokeSession, Logout, RevokeDevice, CreateInvite, RequestDeletion,
                AppendBotLeaf, CloseInvite, RotateFlag, Restart, SnapshotRead
  <1> QED BY <1>1, <1>2, <1>3 DEF AccountsNext

\* A new account is one more, under the key in use, with its codes.
LEMMA AccountCreated ==
  ASSUME AccountsInv, NEW w \in work, CreateAccount(w)
  PROVE  /\ Accounts' = Accounts \cup {Len(users) + 1} /\ Len(users) + 1 \notin Accounts
         /\ \A u \in Accounts : users'[u] = users[u]
         /\ users'[Len(users) + 1].token = w.token /\ w.token \in Tokens
         /\ users'[Len(users) + 1].cred = 0 /\ users'[Len(users) + 1].under = oprf.loaded
         /\ work' = work \ {w}
  <1> DEFINE row == [token |-> w.token, key |-> NoKey, cred |-> 0, under |-> oprf.loaded,
                     flagged |-> FALSE, live |-> TRUE, owner |-> w.boot, boot |-> w.boot]
  <1>1. users' = Append(users, row) /\ work' = work \ {w}
    BY DEF CreateAccount, Done
  <1>2. w.token \in Tokens
    BY WorkIs DEF CreateAccount, At, AccountsInv
  <1>3. row.token = w.token /\ row.cred = 0 /\ row.under = oprf.loaded
    OBVIOUS
  <1> HIDE DEF row
  <1>4. IsSequence(users)
    BY DEF AccountsInv, IsSequence
  <1>5. /\ Len(users) \in Nat /\ Accounts = 1..Len(users)
        /\ IsSequence(users') /\ Len(users') = Len(users) + 1
        /\ users'[Len(users) + 1] = row /\ \A k \in 1..Len(users) : users'[k] = users[k]
    BY <1>1, <1>4, OneMore DEF Accounts
  <1>6. Accounts' = 1..(Len(users) + 1)
    BY <1>5, OneMore DEF Accounts
  <1> QED BY <1>1, <1>2, <1>3, <1>5, <1>6

\* Every step keeps the bound on the credentials.
LEMMA RecoveryStep ==
  ASSUME AccountsInv, RecoveryInv, AccountsInv', [AccountsNext]_accountVars
  PROVE  RecoveryInv'
  <1>1. starts \in Nat /\ starts <= starts' /\ starts' <= MaxStarts
    BY StartsStep, AccountsAssumption, SMTT(60) DEF AccountsInv, RecoveryInv
  <1>2. CASE \E w \in work : CreateAccount(w)
    <2>1. PICK w \in work : CreateAccount(w)
      BY <1>2
    <2>2. At("recovering")' \subseteq At("recovering")
      BY <2>1, AccountCreated DEF At
    <2> QED BY <1>1, <2>1, <2>2, AccountCreated, RecoveryRests
  <1>3. CASE \E w \in work : RecoverFinish(w) /\ RowsKept
    BY <1>3, RecoveryEnds
  <1>4. CASE RowsKept /\ \A w \in work : ~RecoverFinish(w)
    <2>1. \A u \in Accounts' : u \in Accounts /\ users'[u].cred = users[u].cred
      BY <1>4 DEF RowsKept
    <2>2. CASE At("recovering")' \subseteq At("recovering")
      BY <1>1, <2>1, <2>2, RecoveryRests
    <2>3. CASE \E v : v \in At("recovering")' \ At("recovering")
      <3>1. PICK v : v \in work' \ work /\ v.at = "recovering"
        BY <2>3 DEF At
      <3>2. (\E u \in Accounts, k \in Codes : RecoverStart(u, k)) /\ work' = work \cup {v}
        BY <3>1, WorkStep
      <3>3. At("recovering")' \subseteq At("recovering") \cup {v}
        BY <3>2 DEF At
      <3> QED BY <3>2, <3>3, RecoveryStarts
    <2> QED BY <2>2, <2>3
  <1> QED BY <1>2, <1>3, <1>4, RowsStep

\* Which steps write what.
LEMMA WhoWrites ==
  ASSUME [AccountsNext]_accountVars
  PROVE  /\ oprf' = oprf \/ (\E w \in work : RotateWrite(w)) \/ Restart
         /\ codes' = codes \/ \E w \in work : CreateAccount(w) \/ RecoverFinish(w)
         /\ snaps' = snaps \/ \E w \in work : SnapshotInsert(w)
         /\ botKeys' = botKeys \/ \E s \in sessions : AppendBotLeaf(s)
         /\ \/ log' = log
            \/ \E w \in work : CreateAccount(w) \/ DeleteAccount(w)
            \/ \E s \in sessions : AppendBotLeaf(s)
         /\ \/ devices' = devices /\ sessions' \subseteq sessions
            \/ \E w \in work : \/ CreateAccount(w) \/ AddDevice(w) \/ OpenSession(w) \/ RecoverSession(w)
                               \/ DeleteAccount(w)
            \/ \E s \in sessions, c \in Clients : RevokeDevice(s, c)
  <1>1. CASE \/ \E t \in Tokens : RegisterStart(t)
             \/ \E u \in Accounts : \/ \E c \in Clients : LoginStart(u, c)
                                    \/ \E k \in Codes : RecoverStart(u, k)
    BY <1>1 DEF RegisterStart, LoginStart, RecoverStart
  <1>2. CASE \/ \E w \in work : \/ Forget(w) \/ RegisterFirst(w) \/ RegisterRefused(w)
                                \/ \E i \in DOMAIN invites : ConsumeInvite(w, i)
                                \/ CreateAccount(w) \/ CreateAccountFails(w)
                                \/ \E k \in Keys \cup {NoKey} : LoginFinish(w, k)
                                \/ StoreKey(w) \/ CompareKey(w) \/ FindDevice(w) \/ AddDevice(w)
                                \/ OpenSession(w) \/ RecoverFinish(w) \/ RecoverSession(w)
                                \/ RotateWrite(w) \/ SnapshotInsert(w) \/ DeleteAccount(w)
             \/ UNCHANGED accountVars
    BY <1>2, ZenonT(90) DEF Forget, RegisterFirst, RegisterRefused, ConsumeInvite, CreateAccount, CreateAccountFails,
                LoginFinish, StoreKey, CompareKey, FindDevice, AddDevice, OpenSession, RecoverFinish,
                RecoverSession, RotateWrite, SnapshotInsert, DeleteAccount, accountVars
  <1>3. CASE \/ \E s \in sessions : \/ RefuseDisabled(s) \/ Expire(s)
                                    \/ \E t \in sessions : RevokeSession(s, t)
                                    \/ \E all \in BOOLEAN : Logout(s, all)
                                    \/ \E c \in Clients : RevokeDevice(s, c)
                                    \/ CreateInvite(s) \/ RequestDeletion(s) \/ AppendBotLeaf(s)
             \/ \E i \in DOMAIN invites : CloseInvite(i)
             \/ RotateFlag \/ Restart \/ SnapshotRead
    BY <1>3 DEF RefuseDisabled, Expire, RevokeSession, Logout, RevokeDevice, CreateInvite, RequestDeletion,
                AppendBotLeaf, CloseInvite, RotateFlag, Restart, SnapshotRead
  <1> QED BY <1>1, <1>2, <1>3 DEF AccountsNext

\* The key is rotated by one request at a time, which saw that it may be.
KeysInv ==
  /\ oprf.loaded <= oprf.file /\ oprf.file <= MaxRotations
  /\ \A v, w \in At("rotating") : v = w
  /\ At("rotating") # {} => oprf.file < MaxRotations
  /\ \A u \in Accounts : users[u].under <= MaxRotations

\* Every step keeps it so.
LEMMA KeysStep ==
  ASSUME AccountsInv, KeysInv, AccountsInv', [AccountsNext]_accountVars
  PROVE  KeysInv'
  <1>1. /\ oprf \in [file : Nat, loaded : Nat] /\ oprf.loaded \in Nat /\ oprf.file \in Nat
        /\ oprf.loaded <= MaxRotations /\ MaxRotations \in Nat
    BY AccountsAssumption, SMTT(60) DEF AccountsInv, KeysInv
  <1>2. /\ oprf'.loaded <= oprf'.file /\ oprf'.file <= MaxRotations
        /\ oprf'.file = oprf.file \/ At("rotating")' = {}
    <2>1. CASE oprf' = oprf
      BY <2>1 DEF KeysInv
    <2>2. ASSUME NEW w \in work, RotateWrite(w)
          PROVE  /\ oprf'.loaded <= oprf'.file /\ oprf'.file <= MaxRotations
                 /\ At("rotating")' = {}
      <3>1. w \in At("rotating") /\ oprf' = [oprf EXCEPT !.file = oprf.file + 1] /\ work' = work \ {w}
        BY <2>2 DEF RotateWrite, Done
      <3>2. oprf.file < MaxRotations /\ \A v \in At("rotating") : v = w
        BY <3>1 DEF KeysInv
      <3>3. oprf'.loaded = oprf.loaded /\ oprf'.file = oprf.file + 1
        BY <1>1, <3>1
      <3>4. At("rotating")' = {}
        BY <3>1, <3>2 DEF At
      <3>5. oprf.loaded <= oprf.file
        BY DEF KeysInv
      <3> QED BY <1>1, <3>2, <3>3, <3>4, <3>5
    <2>3. CASE Restart
      <3>1. oprf' = [oprf EXCEPT !.loaded = oprf.file]
        BY <2>3 DEF Restart
      <3>2. oprf'.loaded = oprf.file /\ oprf'.file = oprf.file
        BY <1>1, <3>1
      <3> QED BY <1>1, <3>2 DEF KeysInv
    <2> QED BY <2>1, <2>2, <2>3, WhoWrites
  <1>3. \/ At("rotating")' \subseteq At("rotating")
        \/ RotateFlag /\ \E v : At("rotating")' = {v}
    <2>1. ASSUME NEW v, v \in At("rotating")', v \notin At("rotating")
          PROVE  RotateFlag /\ At("rotating")' = {v}
      <3>1. v \in work' \ work /\ v.at = "rotating"
        BY <2>1 DEF At
      <3>2. RotateFlag /\ work' = work \cup {v}
        BY <3>1, WorkStep
      <3>3. At("rotating") = {}
        BY <3>2 DEF RotateFlag
      <3>4. At("rotating")' = {v}
        BY <3>1, <3>2, <3>3 DEF At
      <3> QED BY <3>2, <3>4
    <2> QED BY <2>1
  <1>4. \A v, w \in At("rotating")' : v = w
    BY <1>3 DEF KeysInv
  <1>5. At("rotating")' # {} => oprf'.file < MaxRotations
    <2>1. CASE RotateFlag
      BY <2>1 DEF RotateFlag
    <2>2. CASE At("rotating")' \subseteq At("rotating")
      BY <1>2, <2>2 DEF KeysInv
    <2> QED BY <1>3, <2>1, <2>2
  <1>6. \A u \in Accounts' : users'[u].under <= MaxRotations
    <2>1. CASE \E w \in work : CreateAccount(w)
      BY <1>1, <2>1, AccountCreated DEF KeysInv
    <2>2. CASE RowsKept
      BY <1>1, <2>2 DEF RowsKept, KeysInv
    <2> QED BY <2>1, <2>2, RowsStep
  <1> QED BY <1>2, <1>4, <1>5, <1>6 DEF KeysInv

\* Accounts are told apart by their tokens.
TokensInv ==
  \A u, v \in Accounts : users[u].token = users[v].token => u = v \/ users[u].token = NoToken

\* Every step keeps the tokens apart: an account is created under a token that
\* no other has at that moment.
LEMMA TokensStep ==
  ASSUME AccountsInv, TokensInv, [AccountsNext]_accountVars
  PROVE  TokensInv'
  <1>1. CASE RowsKept
    BY <1>1 DEF RowsKept, TokensInv
  <1>2. ASSUME NEW w \in work, CreateAccount(w)
        PROVE  TokensInv'
    <2> DEFINE n == Len(users) + 1
    <2>1. /\ Accounts' = Accounts \cup {n} /\ n \notin Accounts
          /\ \A u \in Accounts : users'[u] = users[u]
          /\ users'[n].token = w.token
      BY <1>2, AccountCreated
    <2> HIDE DEF n
    <2>2. \A u \in Accounts : users[u].token # w.token
      BY <1>2 DEF CreateAccount, HolderOf
    <2> QED BY <2>1, <2>2 DEF TokensInv
  <1> QED BY <1>1, <1>2, RowsStep

\* Every account has its codes, until it uses them.
CodesInv == codes \in Seq(SUBSET Codes) /\ Len(codes) = Len(users)

\* Every step keeps them.
LEMMA CodesStep ==
  ASSUME AccountsInv, CodesInv, [AccountsNext]_accountVars
  PROVE  CodesInv'
  <1>1. codes \in Seq(SUBSET Codes) /\ Len(codes) = Len(users)
    BY DEF CodesInv
  <1>2. users \in Seq(Rows) /\ Accounts = 1..Len(users) /\ Len(users) \in Nat
    BY LenProperties DEF AccountsInv, Accounts
  <1>3. ASSUME NEW w \in work, CreateAccount(w)
        PROVE  CodesInv'
    <2> DEFINE row == [token |-> w.token, key |-> NoKey, cred |-> 0, under |-> oprf.loaded,
                       flagged |-> FALSE, live |-> TRUE, owner |-> w.boot, boot |-> w.boot]
    <2>1. codes' = Append(codes, Codes) /\ Codes \in SUBSET Codes /\ users' = Append(users, row)
      BY <1>3 DEF CreateAccount
    <2> HIDE DEF row
    <2>2. codes' \in Seq(SUBSET Codes) /\ Len(codes') = Len(codes) + 1
      BY <1>1, <2>1, AppendProperties
    <2>3. Len(users') = Len(users) + 1
      BY <1>2, <2>1, OneMore DEF IsSequence
    <2> QED BY <1>1, <2>2, <2>3 DEF CodesInv
  <1>4. ASSUME RowsKept
        PROVE  Len(users') = Len(users)
    <2>1. users' \in Seq(Rows)
      BY AccountsStep DEF AccountsInv
    <2>2. Accounts' = 1..Len(users') /\ Len(users') \in Nat
      BY <2>1, LenProperties DEF Accounts
    <2>3. 1..Len(users') = 1..Len(users)
      BY <1>2, <1>4, <2>2 DEF RowsKept
    <2> QED BY <1>2, <2>2, <2>3, FS_Interval
  <1>5. ASSUME RowsKept, NEW w \in work, RecoverFinish(w)
        PROVE  CodesInv'
    <2> DEFINE left == codes[w.user] \ {w.code}
    <2>1. w.user \in 1..Len(codes)
      BY <1>1, <1>2, <1>5, WorkIs DEF RecoverFinish, At, AccountsInv
    <2>2. codes' = [codes EXCEPT ![w.user] = left]
      BY <1>5 DEF RecoverFinish
    <2>3. codes[w.user] \in SUBSET Codes
      BY <1>1, <2>1, ElementOfSeq
    <2>4. left \in SUBSET Codes
      BY <2>3
    <2> HIDE DEF left
    <2>5. codes' \in Seq(SUBSET Codes) /\ Len(codes') = Len(codes)
      BY <1>1, <2>1, <2>2, <2>4, ExceptSeq
    <2> QED BY <1>1, <1>4, <1>5, <2>5 DEF CodesInv
  <1>6. \/ codes' = codes
        \/ \E w \in work : CreateAccount(w)
        \/ \E w \in work : RecoverFinish(w)
    BY WhoWrites
  <1>7. CASE codes' = codes /\ RowsKept
    BY <1>1, <1>4, <1>7 DEF CodesInv
  <1> QED BY <1>3, <1>5, <1>6, <1>7, RowsStep

\* A client_id is one account's, and a session's device is registered.
DevicesInv ==
  /\ devices \subseteq Accounts \X Clients
  /\ \A d, e \in devices : d[2] = e[2] => d = e
  /\ \A s \in sessions : /\ s.proof \in Nat
                         /\ s.client # NoClient => <<s.user, s.client>> \in devices

\* The steps that write devices or sessions are those of a login, a recovery
\* and the requests of a session.
LEMMA DevicesStep ==
  ASSUME AccountsInv, DevicesInv, [AccountsNext]_accountVars
  PROVE  DevicesInv'
  <1>1. Accounts \subseteq Accounts'
    BY RowsStep, AccountCreated DEF RowsKept
  <1>2. CASE devices' = devices /\ sessions' \subseteq sessions
    BY <1>1, <1>2 DEF DevicesInv
  <1>3. ASSUME NEW w \in work, CreateAccount(w)
        PROVE  DevicesInv'
    <2> DEFINE s0 == [n |-> w.n, user |-> Len(users) + 1, client |-> NoClient, proof |-> 0,
                      era |-> users'[Len(users) + 1].cred]
    <2>1. sessions' = sessions \cup {s0} /\ s0.proof = 0 /\ s0.client = NoClient
      BY <1>3 DEF CreateAccount, Session
    <2> HIDE DEF s0
    <2>2. devices' = devices
      BY <1>3 DEF CreateAccount
    <2> QED BY <1>1, <2>1, <2>2 DEF DevicesInv
  <1>4. ASSUME NEW w \in work, RecoverSession(w)
        PROVE  DevicesInv'
    <2>1. w.user \in Accounts
      BY <1>4, WorkIs DEF AccountsInv, RecoverSession, At
    <2>2. users[w.user].cred \in Nat
      BY <2>1, RowOf
    <2> DEFINE s0 == [n |-> w.n, user |-> w.user, client |-> NoClient, proof |-> users[w.user].cred,
                      era |-> users'[w.user].cred]
    <2>3. sessions' = sessions \cup {s0} /\ s0.proof = users[w.user].cred /\ s0.client = NoClient
      BY <1>4 DEF RecoverSession, Session
    <2> HIDE DEF s0
    <2>4. devices' = devices
      BY <1>4 DEF RecoverSession
    <2> QED BY <1>1, <2>2, <2>3, <2>4 DEF DevicesInv
  <1>5. ASSUME NEW w \in work, OpenSession(w)
        PROVE  DevicesInv'
    <2>1. w.cred \in Nat
      BY <1>5, WorkIs DEF AccountsInv, OpenSession, At
    <2> DEFINE s0 == [n |-> w.n, user |-> w.user, client |-> w.client, proof |-> w.cred,
                      era |-> users'[w.user].cred]
    <2>2. /\ s0.proof = w.cred /\ s0.user = w.user /\ s0.client = w.client
          /\ sessions' = IF <<w.user, w.client>> \in devices THEN sessions \cup {s0} ELSE sessions
      BY <1>5 DEF OpenSession, Session
    <2> HIDE DEF s0
    <2>3. devices' = devices
      BY <1>5 DEF OpenSession
    <2> QED BY <1>1, <2>1, <2>2, <2>3 DEF DevicesInv
  <1>6. ASSUME NEW w \in work, AddDevice(w)
        PROVE  DevicesInv'
    <2>1. w.user \in Accounts /\ w.client \in Clients
      BY <1>6, WorkIs DEF AccountsInv, AddDevice, At
    <2>2. sessions' = sessions
      BY <1>6 DEF AddDevice
    <2>3. \/ devices' = devices
          \/ devices' = devices \cup {<<w.user, w.client>>} /\ \A d \in devices : d[2] # w.client
      BY <1>6 DEF AddDevice
    <2> QED BY <1>1, <2>1, <2>2, <2>3 DEF DevicesInv
  <1>7. ASSUME NEW s \in sessions, NEW c \in Clients, RevokeDevice(s, c)
        PROVE  DevicesInv'
    <2>1. devices' = devices \ {<<s.user, c>>} /\ sessions' = {t \in sessions : t.client # c}
      BY <1>7 DEF RevokeDevice
    <2> QED BY <1>1, <2>1 DEF DevicesInv
  <1>8. ASSUME NEW w \in work, DeleteAccount(w)
        PROVE  DevicesInv'
    <2>1. /\ devices' = devices \ {d \in devices : d[1] = w.user}
          /\ sessions' = sessions \ {t \in sessions : t.user = w.user}
      BY <1>8 DEF DeleteAccount, DevicesOf, SessionsOf
    <2> QED BY <1>1, <2>1 DEF DevicesInv
  <1>9. \/ devices' = devices /\ sessions' \subseteq sessions
        \/ \E w \in work : \/ CreateAccount(w) \/ AddDevice(w) \/ OpenSession(w) \/ RecoverSession(w)
                           \/ DeleteAccount(w)
        \/ \E s \in sessions, c \in Clients : RevokeDevice(s, c)
    BY WhoWrites
  <1> QED BY <1>2, <1>3, <1>4, <1>5, <1>6, <1>7, <1>8, <1>9

\* What the log and its heads are made of.  Place 0 is the tombstone account's.
RowOfUser == [of : Accounts \cup {0}, bot : {FALSE}, hash : {UserLeaf(t) : t \in Tokens}]
RowOfBot == [of : Accounts \cup {0}, bot : {TRUE}, hash : {BotLeaf(k) : k \in Nat}]
LogRow == RowOfUser \cup RowOfBot
LogTypes ==
  /\ \A i \in DOMAIN log : log[i] \in LogRow
  /\ \A i \in DOMAIN snaps : snaps[i].size \in Nat
  /\ \A w \in At("signing") : w.size \in Nat
  /\ botKeys <= MaxBotKeys

\* The rows that are left when some bots' are gone are rows there were.
LEMMA WithoutBotsFrom ==
  ASSUME NEW u, NEW n \in Nat, NEW rows, DOMAIN rows = 1..n,
         NEW k \in DOMAIN WithoutBots(u, rows)
  PROVE  \E i \in 1..n : WithoutBots(u, rows)[k] = rows[i]
  <1> DEFINE K == {i \in DOMAIN rows : ~(rows[i].bot /\ rows[i].of = u)}
             at == InOrder(K)
  <1>1. K \in SUBSET (1..n)
    OBVIOUS
  <1>2. at \in [1..Cardinality(K) -> K]
    <2> HIDE DEF K
    <2> QED BY <1>1, InOrderIs
  <1>3. WithoutBots(u, rows) = [j \in DOMAIN at |-> rows[at[j]]]
    BY DEF WithoutBots
  <1> HIDE DEF K, at
  <1>4. k \in DOMAIN at /\ WithoutBots(u, rows)[k] = rows[at[k]]
    BY <1>3
  <1> QED BY <1>1, <1>2, <1>4

\* One more row, of an account there is after the step.
LEMMA RowAppended ==
  ASSUME LogInv, LogTypes, NEW row, log' = Append(log, row), row \in LogRow', Accounts \subseteq Accounts'
  PROVE  \A i \in DOMAIN log' : log'[i] \in LogRow'
  <1>1. /\ IsSequence(log') /\ Len(log') = Len(log) + 1 /\ Len(log) \in Nat /\ log'[Len(log) + 1] = row
        /\ DOMAIN log = 1..Len(log) /\ \A i \in 1..Len(log) : log'[i] = log[i]
    BY OneMore DEF LogInv
  <1>2. DOMAIN log' = 1..(Len(log) + 1)
    BY <1>1, OneMore
  <1>3. LogRow \subseteq LogRow'
    BY DEF LogRow, RowOfUser, RowOfBot
  <1>4. \A i \in 1..Len(log) : log'[i] \in LogRow'
    BY <1>1, <1>3 DEF LogTypes
  <1> QED BY <1>1, <1>2, <1>4

\* Deleting an account changes whose a row is, never to an account that is not
\* there.
LEMMA RowsTombstoned ==
  ASSUME LogInv, LogTypes, AccountsInv, NEW w \in work, DeleteAccount(w)
  PROVE  \A i \in DOMAIN log' : log'[i] \in LogRow
  <1>1. log' = WithoutBots(w.user, Tombstoned(w.user))
    BY DEF DeleteAccount
  <1>2. Len(log) \in Nat /\ DOMAIN log = 1..Len(log)
    BY OneMore DEF LogInv
  <1>3. DOMAIN Tombstoned(w.user) = 1..Len(log)
    BY <1>2 DEF Tombstoned
  <1>4. ASSUME NEW i \in 1..Len(log)
        PROVE  Tombstoned(w.user)[i] \in LogRow
    <2>1. log[i] \in LogRow
      BY <1>2 DEF LogTypes
    <2>2. Tombstoned(w.user)[i] = log[i] \/ Tombstoned(w.user)[i] = [log[i] EXCEPT !.of = 0]
      BY <1>2 DEF Tombstoned
    <2>3. [log[i] EXCEPT !.of = 0] \in LogRow
      BY <2>1 DEF LogRow, RowOfUser, RowOfBot
    <2> QED BY <2>1, <2>2, <2>3
  <1> QED BY <1>1, <1>2, <1>3, <1>4, WithoutBotsFrom

\* Every step keeps the rows and the heads what they are.
LEMMA LogTypesStep ==
  ASSUME AccountsInv, LogInv, LogTypes, [AccountsNext]_accountVars
  PROVE  LogTypes'
  <1>1. Accounts \subseteq Accounts'
    BY RowsStep, AccountCreated DEF RowsKept
  <1>2. LogRow \subseteq LogRow'
    BY <1>1 DEF LogRow, RowOfUser, RowOfBot
  <1>3. \A i \in DOMAIN log' : log'[i] \in LogRow'
    <2>1. CASE log' = log
      BY <1>2, <2>1 DEF LogTypes
    <2>2. ASSUME NEW w \in work, CreateAccount(w)
          PROVE  \A i \in DOMAIN log' : log'[i] \in LogRow'
      <3> DEFINE row == [of |-> Len(users) + 1, bot |-> FALSE, hash |-> UserLeaf(w.token)]
      <3>1. log' = Append(log, row)
        BY <2>2 DEF CreateAccount
      <3>2. Len(users) + 1 \in Accounts' /\ w.token \in Tokens
        BY <2>2, AccountCreated
      <3>3. row \in LogRow'
        BY <3>2 DEF LogRow, RowOfUser, RowOfBot
      <3> HIDE DEF row
      <3> QED BY <1>1, <3>1, <3>3, RowAppended
    <2>3. ASSUME NEW s \in sessions, AppendBotLeaf(s)
          PROVE  \A i \in DOMAIN log' : log'[i] \in LogRow'
      <3> DEFINE row == [of |-> s.user, bot |-> TRUE, hash |-> BotLeaf(botKeys + 1)]
      <3>1. log' = Append(log, row)
        BY <2>3 DEF AppendBotLeaf
      <3>2. s.user \in Accounts' /\ botKeys + 1 \in Nat
        BY <1>1 DEF AccountsInv, LogInv
      <3>3. row \in LogRow'
        BY <3>2 DEF LogRow, RowOfUser, RowOfBot
      <3> HIDE DEF row
      <3> QED BY <1>1, <3>1, <3>3, RowAppended
    <2>4. ASSUME NEW w \in work, DeleteAccount(w)
          PROVE  \A i \in DOMAIN log' : log'[i] \in LogRow'
      BY <1>2, <2>4, RowsTombstoned
    <2> QED BY <2>1, <2>2, <2>3, <2>4, WhoWrites
  <1>4. \A i \in DOMAIN snaps' : snaps'[i].size \in Nat
    <2>1. CASE snaps' = snaps
      BY <2>1 DEF LogTypes
    <2>2. ASSUME NEW w \in work, SnapshotInsert(w)
          PROVE  \A i \in DOMAIN snaps' : snaps'[i].size \in Nat
      <3>1. PICK head : snaps' = Append(snaps, head) /\ head.size = w.size
        BY <2>2 DEF SnapshotInsert
      <3>2. w.size \in Nat
        BY <2>2 DEF SnapshotInsert, LogTypes
      <3>3. /\ IsSequence(snaps') /\ Len(snaps') = Len(snaps) + 1 /\ Len(snaps) \in Nat
            /\ snaps'[Len(snaps) + 1] = head
            /\ DOMAIN snaps = 1..Len(snaps) /\ \A i \in 1..Len(snaps) : snaps'[i] = snaps[i]
        BY <3>1, OneMore DEF LogInv
      <3>4. DOMAIN snaps' = 1..(Len(snaps) + 1)
        BY <3>3, OneMore
      <3>5. \A i \in 1..Len(snaps) : snaps'[i].size \in Nat
        BY <3>3 DEF LogTypes
      <3> QED BY <3>1, <3>2, <3>3, <3>4, <3>5
    <2> QED BY <2>1, <2>2, WhoWrites
  <1>5. ASSUME NEW w \in At("signing")'
        PROVE  w.size \in Nat
    <2>1. CASE w \in work
      BY <2>1 DEF LogTypes, At
    <2>2. CASE w \notin work
      <3>1. w \in work' \ work /\ w.at = "signing"
        BY <2>2 DEF At
      <3>2. w = [at |-> "signing", n |-> Heads, size |-> Len(log), root |-> Root(Recomputed)]
        BY <3>1, WorkStep
      <3>3. w.size = Len(log)
        BY <3>2
      <3> QED BY <3>3, OneMore DEF LogInv
    <2> QED BY <2>1, <2>2
  <1>6. botKeys' <= MaxBotKeys
    <2>1. CASE botKeys' = botKeys
      BY <2>1 DEF LogTypes
    <2>2. ASSUME NEW s \in sessions, AppendBotLeaf(s)
          PROVE  botKeys' <= MaxBotKeys
      BY <2>2, AccountsAssumption DEF AppendBotLeaf, LogInv
    <2> QED BY <2>1, <2>2, WhoWrites
  <1> QED BY <1>3, <1>4, <1>5, <1>6 DEF LogTypes

\* All that the types rest on, beside the balance of the invites and the log.
AccountsTypes == RecoveryInv /\ KeysInv /\ TokensInv /\ CodesInv /\ DevicesInv /\ LogTypes

\* It holds in every behaviour of the accounts.
LEMMA TypesInvariant == AccountsSpec => []AccountsTypes
  <1>1. AccountsInit => AccountsTypes
    <2> SUFFICES ASSUME AccountsInit
                 PROVE  AccountsTypes
      OBVIOUS
    <2>1. /\ users = <<>> /\ codes = <<>> /\ devices = {} /\ sessions = {} /\ work = {} /\ log = <<>>
          /\ snaps = <<>> /\ botKeys = 0 /\ starts = 0 /\ oprf = [file |-> 0, loaded |-> 0]
      BY DEF AccountsInit
    <2>2. Accounts = {} /\ DOMAIN log = {} /\ DOMAIN snaps = {} /\ \A where : At(where) = {}
      BY <2>1 DEF Accounts, At
    <2>3. RecoveryInv
      <3>1. MaxStarts \in Nat
        BY AccountsAssumption
      <3> QED BY <2>1, <2>2, <3>1, FS_EmptySet DEF RecoveryInv
    <2>4. KeysInv
      BY <2>1, <2>2, AccountsAssumption DEF KeysInv
    <2>5. TokensInv /\ DevicesInv
      BY <2>1, <2>2 DEF TokensInv, DevicesInv
    <2>6. CodesInv
      BY <2>1 DEF CodesInv
    <2>7. LogTypes
      BY <2>1, <2>2, AccountsAssumption DEF LogTypes
    <2> QED BY <2>3, <2>4, <2>5, <2>6, <2>7 DEF AccountsTypes
  <1>2. AccountsInv /\ AccountsInv' /\ LogInv /\ AccountsTypes /\ [AccountsNext]_accountVars => AccountsTypes'
    BY RecoveryStep, KeysStep, TokensStep, CodesStep, DevicesStep, LogTypesStep DEF AccountsTypes
  <1> QED BY <1>1, <1>2, AccountsInvariant, LogInvariant, PTL DEF AccountsSpec

\* Every variable has its type in every behaviour: no credential is replaced
\* more often than recoveries were started, no account is under a key that was
\* never written, no two devices share a client_id and no two live accounts a
\* token, and a session's device is registered (recovery.rs, oprf, devices.rs,
\* session.rs, registration.rs).
THEOREM AccountsTyped == AccountsSpec => []AccountsTypeOK
  <1>1. ASSUME AccountsInv, LogInv, AccountsTypes
        PROVE  AccountsTypeOK
    <2>1. \A u \in Accounts : users[u] \in Users
      <3>1. ASSUME NEW u \in Accounts
            PROVE  users[u] \in Users
        <4>1. users[u] \in Rows
          BY <1>1, RowOf
        <4>2. users[u].cred <= MaxStarts
          <5>1. users[u].cred \in Nat /\ starts \in Nat /\ MaxStarts \in Nat
            BY <1>1, RowOf, AccountsAssumption DEF AccountsInv
          <5>2. users[u].cred + Cardinality(Recovering(u)) <= starts /\ starts <= MaxStarts
            BY <1>1 DEF AccountsTypes, RecoveryInv
          <5>3. Cardinality(Recovering(u)) \in Nat
            BY <1>1, RecoveringIs DEF AccountsTypes, RecoveryInv
          <5> QED BY <5>1, <5>2, <5>3
        <4>3. users[u].under <= MaxRotations
          BY <1>1 DEF AccountsTypes, KeysInv
        <4>4. users[u].cred \in 0..MaxStarts /\ users[u].under \in 0..MaxRotations
          BY <1>1, <4>2, <4>3, RowOf, AccountsAssumption
        <4> QED BY <4>1, <4>4 DEF Rows, Users
      <3> QED BY <3>1
    <2>2. DOMAIN codes = Accounts /\ \A u \in Accounts : codes[u] \subseteq Codes
      <3>1. codes \in Seq(SUBSET Codes) /\ Len(codes) = Len(users)
        BY <1>1 DEF AccountsTypes, CodesInv
      <3>2. Accounts = 1..Len(users) /\ DOMAIN codes = 1..Len(codes)
        BY <1>1, <3>1, LenProperties DEF AccountsInv, Accounts
      <3>3. \A u \in 1..Len(codes) : codes[u] \in SUBSET Codes
        BY <3>1, ElementOfSeq
      <3> QED BY <3>1, <3>2, <3>3
    <2>3. /\ devices \subseteq Accounts \X Clients
          /\ \A d, e \in devices : d[2] = e[2] => d = e
          /\ \A s \in sessions : /\ s.user \in Accounts /\ s.era \in Nat /\ s.proof \in Nat
                                 /\ s.client # NoClient => <<s.user, s.client>> \in devices
      <3>1. ASSUME NEW s \in sessions
            PROVE  s.user \in Accounts /\ s.era \in Nat
        BY <1>1, RowOf DEF AccountsInv
      <3> QED BY <1>1, <3>1 DEF AccountsTypes, DevicesInv
    <2>4. \A i \in DOMAIN invites : invites[i] \in [uses : 0..MaxUses, open : BOOLEAN]
      <3>1. invites \in Seq(Invites) /\ DOMAIN invites = 1..Len(invites)
        BY <1>1, LenProperties DEF AccountsInv
      <3>2. \A i \in DOMAIN invites : invites[i] \in Invites
        BY <3>1, ElementOfSeq
      <3> QED BY <3>2 DEF Invites
    <2>5. \A w \in work : w.at \in Steps
      <3>1. ASSUME NEW w \in work
            PROVE  w.at \in Steps
        <4>1. WorkOK(w)
          BY <1>1 DEF AccountsInv
        <4> QED BY <4>1 DEF WorkOK, Steps
      <3> QED BY <3>1
    <2>6. oprf \in [file : 0..MaxRotations, loaded : 0..MaxRotations]
      <3>1. oprf \in [file : Nat, loaded : Nat] /\ oprf.loaded <= oprf.file /\ oprf.file <= MaxRotations
        BY <1>1 DEF AccountsInv, AccountsTypes, KeysInv
      <3>2. oprf.file \in 0..MaxRotations /\ oprf.loaded \in 0..MaxRotations
        BY <3>1, AccountsAssumption
      <3> QED BY <3>1, <3>2
    <2>7. /\ \A i \in DOMAIN log : log[i].of \in Accounts \cup {0}
          /\ \A i \in DOMAIN snaps : snaps[i].size \in Nat
      BY <1>1 DEF AccountsTypes, LogTypes, LogRow, RowOfUser, RowOfBot
    <2>8. botKeys \in 0..MaxBotKeys /\ starts \in 0..MaxStarts
      BY <1>1, AccountsAssumption DEF AccountsInv, LogInv, AccountsTypes, LogTypes, RecoveryInv
    <2>9. \A u, v \in Accounts : users[u].token = users[v].token => u = v \/ users[u].token = NoToken
      BY <1>1 DEF AccountsTypes, TokensInv
    <2> QED BY <2>1, <2>2, <2>3, <2>4, <2>5, <2>6, <2>7, <2>8, <2>9 DEF AccountsTypeOK
  <1> QED BY <1>1, AccountsInvariant, LogInvariant, TypesInvariant, PTL

\* A leaf of the log, and what create_snapshot takes it for.
LEMMA LeafOf ==
  ASSUME LogTypes, NEW i \in DOMAIN log
  PROVE  /\ Stored[i] # NoRoot
         /\ Recomputed[i] = Stored[i] <=> ~log[i].bot
  <1>1. Stored[i] = log[i].hash /\ Recomputed[i] = [log[i].hash EXCEPT ![1] = "user"]
    BY DEF Stored, Recomputed, AsUserLeaf
  <1>2. CASE log[i] \in RowOfUser
    <2>1. PICK t \in Tokens : log[i].hash = <<"user", t, 0>> /\ log[i].bot = FALSE
      BY <1>2 DEF RowOfUser, UserLeaf
    <2>2. [<<"user", t, 0>> EXCEPT ![1] = "user"] = <<"user", t, 0>> /\ <<"user", t, 0>> # <<"none">>
      OBVIOUS
    <2> QED BY <1>1, <2>1, <2>2 DEF NoRoot
  <1>3. CASE log[i] \in RowOfBot
    <2>1. PICK k \in Nat : log[i].hash = <<"bot", NoToken, k>> /\ log[i].bot = TRUE
      BY <1>3 DEF RowOfBot, BotLeaf
    <2>2. /\ [<<"bot", NoToken, k>> EXCEPT ![1] = "user"] # <<"bot", NoToken, k>>
          /\ <<"bot", NoToken, k>> # <<"none">>
      <3>1. [<<"bot", NoToken, k>> EXCEPT ![1] = "user"][1] = "user" /\ <<"bot", NoToken, k>>[1] = "bot"
        OBVIOUS
      <3> QED BY <3>1
    <2> QED BY <1>1, <2>1, <2>2 DEF NoRoot
  <1> QED BY <1>2, <1>3 DEF LogTypes, LogRow

\* The leaves of the log, as many as its rows.
LEMMA LeavesOfLog ==
  ASSUME LogInv
  PROVE  /\ Len(log) \in Nat /\ DOMAIN log = 1..Len(log)
         /\ Len(Stored) = Len(log) /\ Len(Recomputed) = Len(log)
         /\ log # <<>> => Stored # <<>> /\ Recomputed # <<>>
  <1>1. Len(log) \in Nat /\ DOMAIN log = 1..Len(log)
    BY OneMore DEF LogInv
  <1>2. ASSUME NEW s, s = [i \in 1..Len(log) |-> s[i]]
        PROVE  Len(s) = Len(log)
    <2>1. s \in [1..Len(log) -> {s[i] : i \in 1..Len(log)}]
      BY <1>2
    <2>2. s \in Seq({s[i] : i \in 1..Len(log)}) /\ DOMAIN s = 1..Len(log)
      BY <1>1, <2>1, SeqDef
    <2> QED BY <1>1, <2>2, LenProperties
  <1>3. Stored = [i \in 1..Len(log) |-> Stored[i]] /\ Recomputed = [i \in 1..Len(log) |-> Recomputed[i]]
    BY <1>1 DEF Stored, Recomputed
  <1>4. Len(Stored) = Len(log) /\ Len(Recomputed) = Len(log)
    BY <1>2, <1>3
  <1>5. log # <<>> => Len(log) # 0
    BY EmptySeq DEF LogInv, IsSequence
  <1> QED BY <1>1, <1>4, <1>5

\* No client can be shown another key than the one in the log: in every
\* behaviour of the accounts, after any deletions and bots, whatever leaf and
\* proof verify at a place against the root of the stored leaves, it is the leaf
\* stored there (verify_inclusion_proof, get_user_kt_handler).
AnswersBind ==
  \A i \in DOMAIN log : \A hash, proof :
    Verifies(hash, i, Len(log), proof, Root(Stored)) => hash = Stored[i]

\* So it is in every behaviour (get_user_kt_handler, verify_inclusion_proof).
THEOREM NoOtherLeaf == AccountsSpec => []AnswersBind
  <1>1. ASSUME LogInv, LogTypes
        PROVE  AnswersBind
    <2> SUFFICES ASSUME NEW i \in DOMAIN log, NEW hash, NEW proof,
                        Verifies(hash, i, Len(log), proof, Root(Stored))
                 PROVE  hash = Stored[i]
      BY DEF AnswersBind
    <2>1. Len(log) \in Nat /\ i \in 1..Len(log) /\ Len(Stored) = Len(log)
      BY <1>1, LeavesOfLog
    <2>2. log # <<>>
      BY <2>1
    <2>3. Stored # <<>> /\ \A j \in 1..Len(log) : Stored[j] # NoRoot
      BY <1>1, <2>2, LeavesOfLog, LeafOf
    <2> QED BY <2>1, <2>3, ProofBinds
  <1> QED BY <1>1, LogInvariant, TypesInvariant, PTL DEF AccountsTypes

\* The root create_snapshot signs is the root of the stored leaves exactly as
\* long as no row of the log is a bot's: a single bot's leaf, wherever it is,
\* makes the two roots differ, and with no bot's leaf nothing else does.
HeadsTrueWithoutBots ==
  log # <<>> => (Root(Recomputed) = Root(Stored) <=> \A i \in DOMAIN log : ~log[i].bot)

\* So it is in every behaviour (create_snapshot, append_bot_leaf).
THEOREM BotsBreakHeads == AccountsSpec => []HeadsTrueWithoutBots
  <1>1. ASSUME LogInv, LogTypes, log # <<>>
        PROVE  Root(Recomputed) = Root(Stored) <=> \A i \in DOMAIN log : ~log[i].bot
    <2>1. /\ Len(log) \in Nat /\ DOMAIN log = 1..Len(log) /\ Len(Stored) = Len(log)
          /\ Len(Recomputed) = Len(log) /\ Stored # <<>> /\ Recomputed # <<>>
      BY <1>1, LeavesOfLog
    <2>2. ASSUME Root(Recomputed) = Root(Stored), NEW i \in DOMAIN log
          PROVE  ~log[i].bot
      <3>1. Recomputed[i] = Stored[i]
        BY <2>1, <2>2, RootBinds
      <3> QED BY <1>1, <3>1, LeafOf
    <2>3. ASSUME \A i \in DOMAIN log : ~log[i].bot
          PROVE  Root(Recomputed) = Root(Stored)
      <3>1. \A i \in DOMAIN log : Recomputed[i] = Stored[i]
        BY <1>1, <2>3, LeafOf
      <3>2. Recomputed = Stored
        BY <3>1 DEF Recomputed, Stored
      <3> QED BY <3>2
    <2> QED BY <2>2, <2>3
  <1>2. LogInv /\ LogTypes => HeadsTrueWithoutBots
    BY <1>1 DEF HeadsTrueWithoutBots
  <1> QED BY <1>2, LogInvariant, TypesInvariant, PTL DEF AccountsTypes

=============================================================================
