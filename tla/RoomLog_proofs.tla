--------------------------- MODULE RoomLog_proofs ---------------------------
(***************************************************************************)
(* Theorems about RoomLog, for any number of users, bots, readers and rows *)
(* and any page limit.                                                     *)
(***************************************************************************)
EXTENDS RoomLog, NatLemmas, FiniteSetTheorems,
        SequenceTheorems, TLAPS

(***************************************************************************)
(* The numbers that the handlers compute.                                  *)
(***************************************************************************)

\* A row of the log is a row.
LEMMA RowType ==
  ASSUME msgs \in Seq(Row)
  PROVE  Len(msgs) \in Nat /\ \A i \in Ids : i \in Nat /\ msgs[i] \in Row
  BY DEF Ids

\* The edit_seq of a new edit is larger than any in the chain (edit_message).
LEMMA NextEditSeqProperty ==
  ASSUME msgs \in Seq(Row), NEW i \in Ids
  PROVE  /\ NextEditSeq(i) \in Nat
         /\ \A j \in EditsOf(i) : msgs[j].editSeq < NextEditSeq(i)
  <1> DEFINE S == {0} \cup {msgs[j].editSeq : j \in EditsOf(i)}
             f == [j \in 1..Len(msgs) |-> msgs[j].editSeq]
  <1>1. Len(msgs) \in Nat /\ f \in [1..Len(msgs) -> Nat]
    BY RowType DEF Ids, Row
  <1>2. S # {} /\ S \subseteq {0} \cup {f[k] : k \in 1..Len(msgs)}
    BY DEF EditsOf, Ids
  <1>3. Max(S) \in Nat /\ \A s \in S : s <= Max(S)
    <2> HIDE DEF S, f
    <2> QED BY <1>1, <1>2, MaxOfValues
  <1>4. \A j \in EditsOf(i) : msgs[j].editSeq \in Nat
    BY RowType DEF EditsOf, Row
  <1>5. NextEditSeq(i) = 1 + Max(S) /\ \A j \in EditsOf(i) : msgs[j].editSeq \in S
    BY DEF NextEditSeq
  <1> HIDE DEF S, f
  <1> QED BY <1>3, <1>4, <1>5

\* The seq of a bot's message is larger than any of the room
\* (post_bot_message).
LEMMA BotSeqProperty ==
  ASSUME msgs \in Seq(Row)
  PROVE  /\ BotSeq \in Nat
         /\ \A i \in Ids : msgs[i].seq < BotSeq
  <1> DEFINE S == {0} \cup {msgs[j].seq : j \in Ids}
             f == [j \in 1..Len(msgs) |-> msgs[j].seq]
  <1>1. Len(msgs) \in Nat /\ f \in [1..Len(msgs) -> Nat]
    BY RowType DEF Ids, Row
  <1>2. S # {} /\ S \subseteq {0} \cup {f[k] : k \in 1..Len(msgs)}
    BY DEF Ids
  <1>3. Max(S) \in Nat /\ \A s \in S : s <= Max(S)
    <2> HIDE DEF S, f
    <2> QED BY <1>1, <1>2, MaxOfValues
  <1>4. \A j \in Ids : msgs[j].seq \in Nat
    BY RowType DEF Row
  <1>5. BotSeq = 1 + Max(S) /\ \A j \in Ids : msgs[j].seq \in S
    BY DEF BotSeq
  <1> HIDE DEF S, f
  <1> QED BY <1>3, <1>4, <1>5

-----------------------------------------------------------------------------
(***************************************************************************)
(* Type correctness.                                                       *)
(***************************************************************************)

\* The types hold at the start.
LEMMA TypeInit == Init => TypeOK
  BY DEF Init, TypeOK, Row, Roles

\* A message, a proposal or a commit keeps the types.
LEMMA TypeSubmit ==
  ASSUME TypeOK, NEW u \in Users, Submit(u)
  PROVE  TypeOK'
  <1> USE RoomLogAssumption
  <1>1. PICK e \in 0..(epochRow.epoch + 1) :
          \/ SubmitCommit(u, e)
          \/ \E kind \in Kinds, targets \in WhisperSets \cup {{}} :
               SubmitNumbered(u, e, kind, targets)
    BY DEF Submit
  <1>2. e \in Nat /\ epochRow.epoch \in Nat /\ epochRow.sequence \in Nat
    BY DEF TypeOK
  <1>3. CASE SubmitCommit(u, e)
    <2>1. Plain("commit", u, epochRow.epoch, 0, e, {}) \in Row
      BY <1>2 DEF Plain, Row, Senders, RequestId
    <2>2. msgs' \in Seq(Row) /\ epochRow' \in [epoch : Nat, sequence : Nat]
      BY <1>2, <1>3, <2>1 DEF SubmitCommit, TypeOK
    <2> QED BY <1>3, <2>2 DEF SubmitCommit, TypeOK, memberVars, readerVars
  <1>4. ASSUME NEW kind \in Kinds, NEW targets \in WhisperSets \cup {{}},
               SubmitNumbered(u, e, kind, targets)
        PROVE  TypeOK'
    <2>1. Plain(kind, u, epochRow.epoch, epochRow.sequence + 1, e, targets) \in Row
      BY <1>2 DEF Plain, Row, Senders, RequestId
    <2>2. msgs' \in Seq(Row)
      BY <1>4, <2>1 DEF SubmitNumbered, TypeOK
    <2>3. epochRow' \in [epoch : Nat, sequence : Nat]
      <3>1. epochRow \in [epoch : Nat, sequence : Nat]
        BY DEF TypeOK
      <3>2. epochRow' = [epochRow EXCEPT !.sequence = epochRow.sequence + 1]
        BY <1>4 DEF SubmitNumbered
      <3> QED BY <3>1, <3>2
    <2> QED BY <1>4, <2>2, <2>3 DEF SubmitNumbered, TypeOK, memberVars, readerVars
  <1> QED BY <1>1, <1>3, <1>4

\* An edit or a deletion keeps the types.
LEMMA TypeChange ==
  ASSUME TypeOK, NEW u \in Users, Change(u)
  PROVE  TypeOK'
  <1>1. PICK i \in Ids : EditMessage(u, i) \/ DeleteMessage(u, i)
    BY DEF Change
  <1>2. msgs \in Seq(Row) /\ msgs[i] \in Row
    BY DEF TypeOK, Ids
  <1>3. CASE EditMessage(u, i)
    <2>1. NextEditSeq(i) \in Nat
      BY <1>2, NextEditSeqProperty
    <2>2. i \in Nat
      BY DEF Ids
    <2>3. [msgs[i] EXCEPT !.seq = 0, !.editOf = i, !.editSeq = NextEditSeq(i)] \in Row
      BY <1>2, <2>1, <2>2 DEF Row
    <2>4. msgs' \in Seq(Row)
      BY <1>2, <1>3, <2>3 DEF EditMessage
    <2> QED BY <1>3, <2>4 DEF EditMessage, TypeOK, memberVars, readerVars
  <1>4. CASE DeleteMessage(u, i)
    <2>1. [msgs[i] EXCEPT !.deleted = TRUE] \in Row
      BY <1>2 DEF Row
    <2>2. msgs' = [msgs EXCEPT ![i] = [msgs[i] EXCEPT !.deleted = TRUE]]
      BY <1>4 DEF DeleteMessage
    <2>3. msgs' \in Seq(Row)
      BY <1>2, <2>1, <2>2, ExceptSeq DEF Ids
    <2> QED BY <1>4, <2>3 DEF DeleteMessage, TypeOK, memberVars, readerVars
  <1> QED BY <1>1, <1>3, <1>4

\* A step of a bot's call keeps the types.
LEMMA TypeBotStep ==
  ASSUME TypeOK, NEW b \in Bots, BotStep(b)
  PROVE  TypeOK'
  <1> USE RoomLogAssumption
  <1>1. CASE \E e \in 0..(epochRow.epoch + 1), r \in RequestId : BotCheck(b, e, r)
    <2>1. PICK e \in 0..(epochRow.epoch + 1), r \in RequestId : BotCheck(b, e, r)
      BY <1>1
    <2>2. e \in Nat
      BY DEF TypeOK
    <2>3. botCall' \in [Bots -> {NoCall} \cup [epoch : Nat, request : RequestId]]
      BY <2>1, <2>2 DEF BotCheck, TypeOK
    <2> QED BY <2>1, <2>3 DEF BotCheck, TypeOK, memberVars, logVars, readerVars
  <1>2. CASE BotInsert(b)
    <2>1. /\ botCall[b] \in [epoch : Nat, request : RequestId]
          /\ botCall' \in [Bots -> {NoCall} \cup [epoch : Nat, request : RequestId]]
      BY <1>2 DEF BotInsert, TypeOK
    <2>2. BotSeq \in Nat
      BY BotSeqProperty DEF TypeOK
    <2>3. [Plain("bot", b, botCall[b].epoch, BotSeq, botCall[b].epoch, {})
             EXCEPT !.request = botCall[b].request] \in Row
      BY <2>1, <2>2 DEF Plain, Row, Senders, RequestId
    <2>4. msgs' \in Seq(Row)
      BY <1>2, <2>3 DEF BotInsert, TypeOK
    <2>5. requestLog' \subseteq Bots \X Requests
      BY <1>2, <2>1 DEF BotInsert, TypeOK, RequestId
    <2> QED BY <1>2, <2>1, <2>4, <2>5
            DEF BotInsert, TypeOK, memberVars, readerVars
  <1>3. CASE BotDuplicate(b) \/ BotAbort(b)
    BY <1>3, SMTT(60) DEF BotDuplicate, BotAbort, TypeOK, memberVars, logVars, readerVars
  <1>4. CASE \E r \in Requests : BotRequestLogTtl(b, r)
    BY <1>4 DEF BotRequestLogTtl, TypeOK, memberVars, readerVars
  <1> QED BY <1>1, <1>2, <1>3, <1>4 DEF BotStep

\* Joining, leaving and moderating change the roles and nothing else.
LEMMA RoleSteps ==
  ASSUME TypeOK, Membership
  PROVE  /\ role' \in [Users -> Roles]
         /\ UNCHANGED <<grant, logVars, botCall, readerVars>>
  <1>1. role \in [Users -> Roles]
    BY DEF TypeOK
  <1>2. ASSUME NEW u \in Users, Join(u) \/ Leave(u)
        PROVE  /\ role' \in [Users -> Roles]
               /\ UNCHANGED <<grant, logVars, botCall, readerVars>>
    BY <1>1, <1>2 DEF Join, Leave, SetRoles, Roles
  <1>3. ASSUME NEW u \in Users, NEW other \in Users,
               \/ AddMember(u, other) \/ LeaveAsOwner(u, other) \/ Kick(u, other)
               \/ Promote(u, other) \/ Demote(u, other) \/ TransferOwnership(u, other)
        PROVE  /\ role' \in [Users -> Roles]
               /\ UNCHANGED <<grant, logVars, botCall, readerVars>>
    BY <1>1, <1>3 DEF AddMember, LeaveAsOwner, Kick, Promote, Demote,
       TransferOwnership, SetRoles, Roles
  <1> QED BY <1>2, <1>3 DEF Membership

\* Joining, leaving and moderating keep the types.
LEMMA TypeMembership ==
  ASSUME TypeOK, Membership
  PROVE  TypeOK'
  BY RoleSteps DEF TypeOK, logVars, readerVars

\* Giving and withdrawing a bot's grant keeps the types.
LEMMA TypeGranting ==
  ASSUME TypeOK, Granting
  PROVE  TypeOK'
  BY ZenonT(90) DEF Granting, GrantBot, PatchRoomBot, DeleteRoomBot, Scopes, TypeOK, logVars,
     readerVars

\* The key of a row is a pair of numbers.
LEMMA KeyType ==
  ASSUME TypeOK, NEW i \in Ids
  PROVE  i \in Nat /\ Key(i) \in Nat \X Nat
  BY RowType DEF TypeOK, Key, Row

\* A poll of a reader keeps the types.
LEMMA TypePoll ==
  ASSUME TypeOK, NEW u \in Readers, Poll(u)
  PROVE  TypeOK'
  <1>1. Visible(u) \subseteq Ids /\ After(u) \subseteq Ids
    BY DEF Visible, After
  <1>2. ASSUME NEW P, P \subseteq Ids,
               got' = [got EXCEPT ![u] = @ \cup P],
               \E i \in P : IsLast(i, P) /\ cursor' = [cursor EXCEPT ![u] = Key(i)]
        PROVE  /\ got' \in [Readers -> SUBSET Nat]
               /\ cursor' \in [Readers -> {NoCursor} \cup Nat \X Nat]
    <2>1. PICK i \in P : cursor' = [cursor EXCEPT ![u] = Key(i)]
      BY <1>2
    <2>2. P \subseteq Nat /\ Key(i) \in Nat \X Nat
      BY <1>2, KeyType
    <2> QED BY <1>2, <2>1, <2>2 DEF TypeOK
  <1>3. CASE ListLatest(u)
    <2>1. PICK P \in Pages(Visible(u)) :
            /\ got' = [got EXCEPT ![u] = @ \cup P]
            /\ \E i \in P : IsLast(i, P) /\ cursor' = [cursor EXCEPT ![u] = Key(i)]
      BY <1>3 DEF ListLatest
    <2>2. P \subseteq Ids
      BY <1>1 DEF Pages, kSubset
    <2>3. horizon' \in [Readers -> Nat]
      BY <1>3, RowType DEF ListLatest, TypeOK
    <2> QED BY <1>2, <1>3, <2>1, <2>2, <2>3
            DEF ListLatest, TypeOK, memberVars, logVars
  <1>4. CASE ListSince(u)
    <2>1. PICK P \in Pages(After(u)) :
            /\ got' = [got EXCEPT ![u] = @ \cup P]
            /\ \E i \in P : IsLast(i, P) /\ cursor' = [cursor EXCEPT ![u] = Key(i)]
      BY <1>4 DEF ListSince
    <2>2. P \subseteq Ids
      BY <1>1 DEF Pages, kSubset
    <2> QED BY <1>2, <1>4, <2>1, <2>2
            DEF ListSince, TypeOK, memberVars, logVars
  <1> QED BY <1>3, <1>4 DEF Poll

\* Every step keeps the types.
LEMMA TypeNext == TypeOK /\ [Next]_vars => TypeOK'
  <1> SUFFICES ASSUME TypeOK, [Next]_vars PROVE TypeOK'
    OBVIOUS
  <1>1. CASE UNCHANGED vars
    BY <1>1 DEF TypeOK, vars, memberVars, logVars, readerVars
  <1>2. CASE Next
    BY <1>2, TypeSubmit, TypeChange, TypeBotStep, TypePoll, TypeMembership,
       TypeGranting DEF Next
  <1> QED BY <1>1, <1>2

\* In every reachable state every variable is within its type, whatever the
\* handlers, the cleanup job and the environment do.
THEOREM TypeCorrect == Spec => []TypeOK
  BY TypeInit, TypeNext, PTL DEF Spec

-----------------------------------------------------------------------------
(***************************************************************************)
(* What a step can do to the log: nothing, one new row at the end, or one  *)
(* deletion.                                                               *)
(***************************************************************************)

SameLog == UNCHANGED <<msgs, epochRow>>

CommitRow(r) ==
  /\ r.kind = "commit"
  /\ r.sender \in Users
  /\ r.reqEpoch = epochRow.epoch
  /\ r.epoch = epochRow.epoch
  /\ r.seq = 0
  /\ r.editOf = 0
  /\ epochRow' = [epoch |-> epochRow.epoch + 1, sequence |-> 0]

NumberedRow(r) ==
  /\ r.kind \in Numbered
  /\ r.sender \in Users
  /\ r.editOf = 0
  /\ r.reqEpoch = epochRow.epoch
  /\ r.epoch = epochRow.epoch
  /\ r.seq = epochRow.sequence + 1
  /\ epochRow' = [epoch |-> epochRow.epoch, sequence |-> epochRow.sequence + 1]

EditRow(r) ==
  /\ \E i \in Ids :
       /\ ~msgs[i].deleted
       /\ msgs[i].kind = "application"
       /\ msgs[i].editOf = 0
       /\ r.editOf = i
       /\ r.editSeq = NextEditSeq(i)
       /\ <<r.kind, r.reqEpoch, r.epoch>>
            = <<msgs[i].kind, msgs[i].reqEpoch, msgs[i].epoch>>
       /\ <<r.sender, r.targets>> = <<msgs[i].sender, msgs[i].targets>>
  /\ r.sender \in Users
  /\ r.seq = 0
  /\ epochRow' = epochRow

BotRow(r) ==
  /\ r.kind = "bot"
  /\ r.editOf = 0
  /\ \E b \in Bots :
       /\ botCall[b] # NoCall /\ r.epoch = botCall[b].epoch
       /\ r.sender = b /\ <<b, r.request>> \notin requestLog
  /\ epochRow' = epochRow

Deletes(i) ==
  /\ msgs' = [msgs EXCEPT ![i] = [msgs[i] EXCEPT !.deleted = TRUE]]
  /\ epochRow' = epochRow

LogStep ==
  \/ SameLog
  \/ \E r \in Row :
       /\ msgs' = Append(msgs, r)
       /\ CommitRow(r) \/ NumberedRow(r) \/ EditRow(r) \/ BotRow(r)
  \/ \E i \in Ids : Deletes(i)

\* What a step may do to the log, the epoch row and the counters.
LEMMA LogSteps ==
  ASSUME TypeOK, [Next]_vars
  PROVE  LogStep
  <1> USE RoomLogAssumption
  <1>1. /\ epochRow \in [epoch : Nat, sequence : Nat]
        /\ msgs \in Seq(Row)
        /\ \A i \in Ids : i \in Nat /\ msgs[i] \in Row
    BY RowType DEF TypeOK
  <1>2. ASSUME NEW u \in Users, Submit(u) PROVE LogStep
    <2>1. PICK e \in 0..(epochRow.epoch + 1) :
            \/ SubmitCommit(u, e)
            \/ \E kind \in Kinds, targets \in WhisperSets \cup {{}} :
                 SubmitNumbered(u, e, kind, targets)
      BY <1>2 DEF Submit
    <2>2. CASE SubmitCommit(u, e)
      <3> DEFINE r == Plain("commit", u, epochRow.epoch, 0, e, {})
      <3>1. r \in Row
        BY <1>1 DEF Plain, Row, Senders, RequestId
      <3>2. msgs' = Append(msgs, r) /\ CommitRow(r)
        BY <2>2 DEF SubmitCommit, CommitRow, Plain
      <3> QED BY <3>1, <3>2 DEF LogStep
    <2>3. ASSUME NEW kind \in Kinds, NEW targets \in WhisperSets \cup {{}},
                 SubmitNumbered(u, e, kind, targets)
          PROVE  LogStep
      <3> DEFINE r == Plain(kind, u, epochRow.epoch, epochRow.sequence + 1,
                            e, targets)
      <3>1. r \in Row
        <4>1. /\ e \in Nat /\ epochRow.epoch \in Nat
              /\ epochRow.sequence + 1 \in Nat
          BY <1>1
        <4> QED BY <4>1 DEF Plain, Row, Senders, RequestId
      <3>2. epochRow' = [epochRow EXCEPT !.sequence = epochRow.sequence + 1]
        BY <2>3 DEF SubmitNumbered
      <3>3. msgs' = Append(msgs, r) /\ e = epochRow.epoch
        BY <2>3 DEF SubmitNumbered
      <3>4. NumberedRow(r)
        BY <1>1, <3>2, <3>3 DEF NumberedRow, Plain, Numbered
      <3> QED BY <3>1, <3>3, <3>4 DEF LogStep
    <2> QED BY <2>1, <2>2, <2>3
  <1>3. ASSUME NEW u \in Users, Change(u) PROVE LogStep
    <2>1. PICK i \in Ids : EditMessage(u, i) \/ DeleteMessage(u, i)
      BY <1>3 DEF Change
    <2>2. CASE EditMessage(u, i)
      <3> DEFINE r == [msgs[i] EXCEPT !.seq = 0, !.editOf = i,
                                      !.editSeq = NextEditSeq(i)]
      <3>1. NextEditSeq(i) \in Nat
        BY <1>1, NextEditSeqProperty
      <3>2. r \in Row
        <4>1. i \in Nat /\ msgs[i] \in Row
          BY <1>1
        <4> QED BY <4>1, <3>1 DEF Row
      <3>3. /\ r.editOf = i /\ r.editSeq = NextEditSeq(i) /\ r.seq = 0
            /\ <<r.kind, r.reqEpoch, r.epoch>>
                 = <<msgs[i].kind, msgs[i].reqEpoch, msgs[i].epoch>>
            /\ <<r.sender, r.targets>> = <<msgs[i].sender, msgs[i].targets>>
        BY <1>1 DEF Row
      <3>4. msgs' = Append(msgs, r) /\ EditRow(r)
        <4> HIDE DEF r
        <4>1. msgs' = Append(msgs, r)
          BY <2>2 DEF EditMessage, r
        <4> QED BY <2>2, <3>3, <4>1 DEF EditMessage, EditRow
      <3> QED BY <3>2, <3>4 DEF LogStep
    <2>3. CASE DeleteMessage(u, i)
      BY <2>3 DEF DeleteMessage, Deletes, LogStep
    <2> QED BY <2>1, <2>2, <2>3
  <1>4. ASSUME NEW b \in Bots, BotStep(b) PROVE LogStep
    <2>1. CASE BotInsert(b)
      <3> DEFINE r == [Plain("bot", b, botCall[b].epoch, BotSeq,
                             botCall[b].epoch, {})
                         EXCEPT !.request = botCall[b].request]
      <3>1. BotSeq \in Nat
        BY <1>1, BotSeqProperty
      <3>2. botCall[b] \in [epoch : Nat, request : RequestId]
        BY <2>1 DEF BotInsert, TypeOK
      <3>3. r \in Row
        BY <3>1, <3>2 DEF Plain, Row, Senders
      <3>4. /\ r.kind = "bot" /\ r.editOf = 0 /\ r.epoch = botCall[b].epoch
            /\ r.sender = b /\ r.request = botCall[b].request
        BY DEF Plain
      <3>5. msgs' = Append(msgs, r) /\ BotRow(r)
        BY <2>1, <3>4 DEF BotInsert, BotRow, IsDuplicate
      <3> QED BY <3>3, <3>5 DEF LogStep
    <2>2. CASE ~BotInsert(b)
      BY <1>4, <2>2 DEF BotStep, BotCheck, BotDuplicate, BotAbort,
         BotRequestLogTtl, logVars, LogStep, SameLog
    <2> QED BY <2>1, <2>2
  <1>5. ASSUME NEW u \in Readers, Poll(u) PROVE LogStep
    BY <1>5 DEF Poll, ListLatest, ListSince, logVars, LogStep, SameLog
  <1>6. CASE Membership
    BY <1>6, RoleSteps DEF logVars, LogStep, SameLog
  <1>7. CASE Granting
    BY <1>7 DEF Granting, GrantBot, PatchRoomBot, DeleteRoomBot, logVars, LogStep,
       SameLog
  <1>8. CASE UNCHANGED vars
    BY <1>8 DEF vars, logVars, LogStep, SameLog
  <1> QED BY <1>2, <1>3, <1>4, <1>5, <1>6, <1>7, <1>8 DEF Next

\* What an appended row changes: the ids gain one, the rows before it stay.
LEMMA Appended ==
  ASSUME msgs \in Seq(Row), NEW r \in Row, msgs' = Append(msgs, r)
  PROVE  /\ Len(msgs') = Len(msgs) + 1
         /\ Ids' = Ids \cup {Len(msgs) + 1}
         /\ Len(msgs) + 1 \notin Ids
         /\ \A i \in Ids : msgs'[i] = msgs[i]
         /\ msgs'[Len(msgs) + 1] = r
  <1>1. Len(msgs) \in Nat /\ Len(msgs') = Len(msgs) + 1
    OBVIOUS
  <1>2. /\ \A i \in Ids : msgs'[i] = msgs[i]
        /\ msgs'[Len(msgs) + 1] = r
    BY DEF Ids
  <1>3. Ids' = Ids \cup {Len(msgs) + 1} /\ Len(msgs) + 1 \notin Ids
    BY <1>1 DEF Ids
  <1> QED BY <1>1, <1>2, <1>3

\* What a deletion changes: one row is marked, every other one stays.
LEMMA Deleted ==
  ASSUME msgs \in Seq(Row), NEW i \in Ids, Deletes(i)
  PROVE  /\ Len(msgs') = Len(msgs)
         /\ Ids' = Ids
         /\ \A j \in Ids :
              msgs'[j] = IF j = i THEN [msgs[i] EXCEPT !.deleted = TRUE] ELSE msgs[j]
         /\ \A j \in Ids :
              /\ msgs'[j].kind = msgs[j].kind
              /\ msgs'[j].epoch = msgs[j].epoch
              /\ msgs'[j].reqEpoch = msgs[j].reqEpoch
              /\ msgs'[j].seq = msgs[j].seq
              /\ msgs'[j].editOf = msgs[j].editOf
              /\ msgs'[j].editSeq = msgs[j].editSeq
              /\ msgs'[j].sender = msgs[j].sender
              /\ msgs'[j].targets = msgs[j].targets
              /\ msgs'[j].request = msgs[j].request
  <1>1. \A j \in Ids : msgs[j] \in Row
    BY RowType
  <1>2. /\ Len(msgs') = Len(msgs)
        /\ \A j \in Ids :
             msgs'[j] = IF j = i THEN [msgs[i] EXCEPT !.deleted = TRUE] ELSE msgs[j]
    BY DEF Deletes, Ids
  <1>3. ASSUME NEW j \in Ids
        PROVE  /\ msgs'[j].kind = msgs[j].kind
               /\ msgs'[j].epoch = msgs[j].epoch
               /\ msgs'[j].reqEpoch = msgs[j].reqEpoch
               /\ msgs'[j].seq = msgs[j].seq
               /\ msgs'[j].editOf = msgs[j].editOf
               /\ msgs'[j].editSeq = msgs[j].editSeq
               /\ msgs'[j].sender = msgs[j].sender
               /\ msgs'[j].targets = msgs[j].targets
               /\ msgs'[j].request = msgs[j].request
    <2>1. CASE j = i
      BY <1>1, <1>2, <2>1 DEF Row
    <2>2. CASE j # i
      BY <1>2, <2>2
    <2> QED BY <2>1, <2>2
  <1>4. Ids' = Ids
    BY <1>2 DEF Ids
  <1> QED BY <1>2, <1>3, <1>4

-----------------------------------------------------------------------------
(***************************************************************************)
(* The log only grows.                                                     *)
(***************************************************************************)

\* In every behaviour a step appends at most one row and changes a row only by
\* deleting it, and a deleted message never gets another edit.
THEOREM LogOnlyGrows == Spec => AppendOnly
  <1> DEFINE Grows ==
        /\ Len(msgs') \in {Len(msgs), Len(msgs) + 1}
        /\ \A i \in Ids :
             /\ msgs'[i] \in {msgs[i], [msgs[i] EXCEPT !.deleted = TRUE]}
             /\ msgs[i].deleted => EditsOf(i)' = EditsOf(i)
  <1>1. ASSUME TypeOK, [Next]_vars PROVE Grows
    <2>1. LogStep /\ msgs \in Seq(Row)
      BY <1>1, LogSteps DEF TypeOK
    <2>2. CASE SameLog
      BY <2>2 DEF SameLog, EditsOf, Ids
    <2>3. ASSUME NEW r \in Row, msgs' = Append(msgs, r),
                 CommitRow(r) \/ NumberedRow(r) \/ EditRow(r) \/ BotRow(r)
          PROVE  Grows
      <3>1. /\ Len(msgs') = Len(msgs) + 1
            /\ Ids' = Ids \cup {Len(msgs) + 1}
            /\ Len(msgs) + 1 \notin Ids
            /\ \A i \in Ids : msgs'[i] = msgs[i]
            /\ msgs'[Len(msgs) + 1] = r
        BY <2>1, <2>3, Appended
      <3>2. ASSUME NEW i \in Ids, msgs[i].deleted
            PROVE  r.editOf # i
        <4>1. i # 0
          BY DEF Ids
        <4> QED BY <2>3, <3>2, <4>1
                DEF CommitRow, NumberedRow, EditRow, BotRow
      <3>3. \A i \in Ids : msgs[i].deleted => EditsOf(i)' = EditsOf(i)
        BY <3>1, <3>2 DEF EditsOf
      <3> QED BY <3>1, <3>3
    <2>4. ASSUME NEW i \in Ids, Deletes(i) PROVE Grows
      BY <2>1, <2>4, Deleted DEF EditsOf
    <2> QED BY <2>1, <2>2, <2>3, <2>4 DEF LogStep
  <1> QED BY <1>1, TypeCorrect, PTL DEF Spec, AppendOnly

-----------------------------------------------------------------------------
(***************************************************************************)
(* One commit per epoch.  EpochLinear is inductive together with TypeOK:   *)
(* its second conjunct says that the open epoch has no commit yet, so the  *)
(* commit that closes it is the only one made for it.                      *)
(***************************************************************************)

\* An empty log has no epochs to disagree about.
LEMMA EpochLinearInit == Init => EpochLinear
  <1> SUFFICES ASSUME Init PROVE EpochLinear
    OBVIOUS
  <1>1. Ids = {} /\ epochRow.epoch = 0
    BY DEF Init, Ids
  <1>2. \A e \in 0..0 : CommitsMadeFor(e) = {}
    BY <1>1 DEF CommitsMadeFor
  <1> QED BY <1>1, <1>2, FS_EmptySet DEF EpochLinear

\* Every step keeps the commits and the epoch row in step.
LEMMA EpochLinearStep ==
  ASSUME TypeOK, EpochLinear, LogStep
  PROVE  EpochLinear'
  <1>1. /\ msgs \in Seq(Row)
        /\ epochRow \in [epoch : Nat, sequence : Nat]
        /\ \A i \in Ids : i \in Nat /\ msgs[i] \in Row
    BY RowType DEF TypeOK
  <1>2. ASSUME epochRow'.epoch = epochRow.epoch,
               \A e \in Nat : CommitsMadeFor(e)' = CommitsMadeFor(e),
               \A i \in Ids' : msgs'[i].kind = "commit" =>
                 i \in Ids /\ msgs[i].kind = "commit"
                           /\ msgs'[i].reqEpoch = msgs[i].reqEpoch
        PROVE  EpochLinear'
    BY <1>1, <1>2 DEF EpochLinear
  <1>3. CASE SameLog
    BY <1>3 DEF SameLog, EpochLinear, CommitsMadeFor, Ids
  <1>4. ASSUME NEW r \in Row, msgs' = Append(msgs, r),
               CommitRow(r) \/ NumberedRow(r) \/ EditRow(r) \/ BotRow(r)
        PROVE  EpochLinear'
    <2>1. /\ Ids' = Ids \cup {Len(msgs) + 1}
          /\ Len(msgs) + 1 \notin Ids
          /\ \A i \in Ids : msgs'[i] = msgs[i]
          /\ msgs'[Len(msgs) + 1] = r
      BY <1>1, <1>4, Appended
    <2>2. CASE CommitRow(r)
      <3>1. /\ epochRow'.epoch = epochRow.epoch + 1
            /\ r.kind = "commit"
            /\ r.reqEpoch = epochRow.epoch
        BY <2>2 DEF CommitRow
      <3>2. \A e \in Nat : e # epochRow.epoch =>
              CommitsMadeFor(e)' = CommitsMadeFor(e)
        BY <2>1, <3>1 DEF CommitsMadeFor
      <3>3. CommitsMadeFor(epochRow.epoch) = {}
        BY <1>1 DEF EpochLinear, CommitsMadeFor
      <3>4. epochRow.epoch \in Nat
        BY <1>1
      <3>5. {i \in Ids' : msgs'[i].kind = "commit"
                            /\ msgs'[i].reqEpoch = epochRow.epoch}
              = {Len(msgs) + 1}
        BY <2>1, <3>1, <3>3 DEF CommitsMadeFor
      <3>6. ASSUME NEW e \in 0..epochRow'.epoch
            PROVE  Cardinality(CommitsMadeFor(e)')
                     = IF e < epochRow'.epoch THEN 1 ELSE 0
        <4>1. CASE e = epochRow.epoch
          <5>1. CommitsMadeFor(e)' = {Len(msgs) + 1}
            BY <3>5, <4>1 DEF CommitsMadeFor
          <5>2. Cardinality({Len(msgs) + 1}) = 1
            BY FS_Singleton
          <5>3. e < epochRow'.epoch
            BY <3>1, <3>4, <4>1
          <5> QED BY <5>1, <5>2, <5>3
        <4>2. CASE e < epochRow.epoch
          <5>1. e \in 0..epochRow.epoch /\ e \in Nat
            BY <1>1, <4>2
          <5> QED BY <1>1, <3>1, <3>2, <4>2, <5>1 DEF EpochLinear
        <4>3. CASE e = epochRow.epoch + 1
          <5>1. CommitsMadeFor(e)' = {}
            BY <1>1, <2>1, <3>1, <4>3 DEF CommitsMadeFor, EpochLinear
          <5>2. Cardinality({}) = 0
            BY FS_EmptySet
          <5>3. ~ e < epochRow'.epoch
            BY <3>1, <3>4, <4>3
          <5> QED BY <5>1, <5>2, <5>3
        <4> QED BY <1>1, <3>1, <4>1, <4>2, <4>3
      <3>7. \A i \in Ids' : msgs'[i].kind = "commit" =>
              msgs'[i].reqEpoch < epochRow'.epoch
        <4>1. ASSUME NEW i \in Ids, msgs[i].kind = "commit"
              PROVE  msgs[i].reqEpoch < epochRow.epoch + 1
          <5>1. msgs[i].reqEpoch \in Nat /\ msgs[i].reqEpoch < epochRow.epoch
            BY <1>1, <4>1 DEF EpochLinear, Row
          <5> QED BY <1>1, <5>1
        <4> QED BY <1>1, <2>1, <3>1, <4>1
      <3> QED BY <3>6, <3>7 DEF EpochLinear
    <2>3. CASE NumberedRow(r) \/ EditRow(r) \/ BotRow(r)
      <3>1. epochRow'.epoch = epochRow.epoch /\ r.kind # "commit"
        BY <2>3 DEF NumberedRow, EditRow, BotRow, Numbered
      <3>2. \A e \in Nat : CommitsMadeFor(e)' = CommitsMadeFor(e)
        BY <2>1, <3>1 DEF CommitsMadeFor
      <3> QED BY <1>2, <2>1, <3>1, <3>2
    <2> QED BY <1>4, <2>2, <2>3
  <1>5. ASSUME NEW i \in Ids, Deletes(i) PROVE EpochLinear'
    <2>1. /\ Ids' = Ids
          /\ \A j \in Ids : /\ msgs'[j].kind = msgs[j].kind
                            /\ msgs'[j].reqEpoch = msgs[j].reqEpoch
      BY <1>1, <1>5, Deleted
    <2>2. epochRow'.epoch = epochRow.epoch
      BY <1>5 DEF Deletes
    <2>3. \A e \in Nat : CommitsMadeFor(e)' = CommitsMadeFor(e)
      BY <2>1 DEF CommitsMadeFor
    <2> QED BY <1>2, <2>1, <2>2, <2>3
  <1> QED BY <1>3, <1>4, <1>5 DEF LogStep

\* However many members race, of the commits built on an epoch exactly one was
\* accepted when the epoch is over, and none while it is open.
THEOREM EpochsLinear == Spec => []EpochLinear
  <1>1. TypeOK /\ EpochLinear /\ [Next]_vars => EpochLinear'
    BY LogSteps, EpochLinearStep
  <1> QED BY EpochLinearInit, TypeCorrect, <1>1, PTL DEF Spec

-----------------------------------------------------------------------------
(***************************************************************************)
(* The bots' epochs.  A request in flight carries an epoch the room had    *)
(* reached when it was checked, and epochs never go back.                  *)
(***************************************************************************)

\* The epoch of the room never falls.
LEMMA EpochNeverBack ==
  ASSUME TypeOK, LogStep
  PROVE  epochRow'.epoch >= epochRow.epoch
  <1>1. epochRow.epoch \in Nat
    BY DEF TypeOK
  <1> QED BY <1>1 DEF LogStep, SameLog, CommitRow, NumberedRow, EditRow,
          BotRow, Deletes

\* A bot's call never holds an epoch the room has not reached.
LEMMA BotCallsStep ==
  ASSUME TypeOK, BotEpochReached, [Next]_vars, LogStep
  PROVE  \A b \in Bots : botCall'[b] # NoCall => botCall'[b].epoch <= epochRow'.epoch
  <1> SUFFICES ASSUME NEW b \in Bots, botCall'[b] # NoCall
               PROVE  botCall'[b].epoch <= epochRow'.epoch
    OBVIOUS
  <1>1. /\ epochRow.epoch \in Nat /\ epochRow'.epoch \in Nat
        /\ epochRow'.epoch >= epochRow.epoch
    BY EpochNeverBack, TypeNext DEF TypeOK
  <1>2. CASE botCall'[b] = botCall[b]
    <2>1. botCall[b] \in [epoch : Nat, request : RequestId]
      BY <1>2 DEF TypeOK
    <2> QED BY <1>1, <1>2, <2>1 DEF BotEpochReached
  <1>3. ASSUME NEW c \in Bots, BotStep(c) PROVE botCall'[b].epoch <= epochRow'.epoch
    <2>1. CASE \E e \in 0..(epochRow.epoch + 1), r \in RequestId : BotCheck(c, e, r)
      <3>1. PICK e \in 0..(epochRow.epoch + 1), r \in RequestId : BotCheck(c, e, r)
        BY <2>1
      <3>2. /\ botCall' = [botCall EXCEPT ![c] = [epoch |-> e, request |-> r]]
            /\ e <= epochRow.epoch
        BY <3>1 DEF BotCheck
      <3>3. CASE b = c
        <4>1. botCall'[b].epoch = e
          BY <3>2, <3>3 DEF TypeOK
        <4> QED BY <1>1, <3>2, <4>1
      <3>4. CASE b # c
        BY <1>2, <3>2, <3>4 DEF TypeOK
      <3> QED BY <3>3, <3>4
    <2>2. CASE botCall' = [botCall EXCEPT ![c] = NoCall]
      BY <1>2, <2>2 DEF TypeOK
    <2>3. CASE UNCHANGED botCall
      BY <1>2, <2>3
    <2> QED BY <1>3, <2>1, <2>2, <2>3
            DEF BotStep, BotInsert, BotDuplicate, BotAbort, BotRequestLogTtl
  <1>4. CASE UNCHANGED botCall
    BY <1>2, <1>4, SMTT(60)
  <1>5. [Next]_vars => UNCHANGED botCall \/ \E c \in Bots : BotStep(c)
    BY DEF Next, vars, Submit, SubmitCommit, SubmitNumbered, Change, EditMessage,
       DeleteMessage, Poll, ListLatest, ListSince, Granting, GrantBot,
       PatchRoomBot, DeleteRoomBot, Membership, Join, AddMember, Leave,
       LeaveAsOwner, Kick, Promote, Demote, TransferOwnership, SetRoles
  <1> QED BY <1>3, <1>4, <1>5

\* A bot's row never names an epoch the room has not reached.
LEMMA BotRowsStep ==
  ASSUME TypeOK, BotEpochReached, LogStep, TypeOK'
  PROVE  \A i \in Ids' : msgs'[i].kind = "bot" => msgs'[i].epoch <= epochRow'.epoch
  <1>1. /\ msgs \in Seq(Row)
        /\ epochRow.epoch \in Nat /\ epochRow'.epoch \in Nat
        /\ epochRow'.epoch >= epochRow.epoch
        /\ \A i \in Ids : msgs[i] \in Row
    BY RowType, EpochNeverBack DEF TypeOK
  <1>2. ASSUME NEW i \in Ids, msgs[i].kind = "bot"
        PROVE  msgs[i].epoch <= epochRow'.epoch
    <2>1. msgs[i].epoch \in Nat /\ msgs[i].epoch <= epochRow.epoch
      BY <1>1, <1>2 DEF BotEpochReached, Row
    <2> QED BY <1>1, <2>1
  <1>3. CASE SameLog
    BY <1>2, <1>3 DEF SameLog, Ids
  <1>4. ASSUME NEW r \in Row, msgs' = Append(msgs, r),
               CommitRow(r) \/ NumberedRow(r) \/ EditRow(r) \/ BotRow(r)
        PROVE  \A i \in Ids' : msgs'[i].kind = "bot" =>
                 msgs'[i].epoch <= epochRow'.epoch
    <2>1. /\ Ids' = Ids \cup {Len(msgs) + 1}
          /\ \A i \in Ids : msgs'[i] = msgs[i]
          /\ msgs'[Len(msgs) + 1] = r
      BY <1>1, <1>4, Appended
    <2>2. r.kind = "bot" => r.epoch <= epochRow'.epoch
      <3>1. ASSUME NEW b \in Bots, botCall[b] # NoCall, r.epoch = botCall[b].epoch
            PROVE  r.epoch <= epochRow'.epoch
        <4>1. r.epoch \in Nat /\ r.epoch <= epochRow.epoch
          BY <3>1 DEF BotEpochReached, Row
        <4> QED BY <1>1, <4>1
      <3> QED BY <1>4, <3>1 DEF CommitRow, NumberedRow, EditRow, BotRow, Numbered
    <2> QED BY <1>2, <2>1, <2>2
  <1>5. ASSUME NEW i \in Ids, Deletes(i)
        PROVE  \A j \in Ids' : msgs'[j].kind = "bot" =>
                 msgs'[j].epoch <= epochRow'.epoch
    BY <1>1, <1>2, <1>5, Deleted
  <1> QED BY <1>3, <1>4, <1>5 DEF LogStep

\* A bot's message is never stored under an epoch that the room has not
\* reached, although the epoch is checked before the transaction.
THEOREM BotEpochsReached == Spec => []BotEpochReached
  <1>1. Init => BotEpochReached
    BY DEF Init, BotEpochReached, Ids
  <1>2. TypeOK /\ BotEpochReached /\ [Next]_vars => BotEpochReached'
    BY LogSteps, TypeNext, BotCallsStep, BotRowsStep DEF BotEpochReached
  <1> QED BY <1>1, <1>2, TypeCorrect, PTL DEF Spec

-----------------------------------------------------------------------------
(***************************************************************************)
(* Dense numbering.  NumberingDense is inductive together with TypeOK: no  *)
(* numbered row lies in an epoch ahead of the room, so that an epoch is    *)
(* empty when it opens; and the rows of the open epoch are as many as      *)
(* room_epochs.sequence says, so that the next number is the next one.     *)
(***************************************************************************)

\* The numbered rows of an epoch are finitely many.
LEMMA NumberedInFinite ==
  ASSUME msgs \in Seq(Row), NEW e
  PROVE  IsFiniteSet(NumberedIn(e)) /\ Cardinality(NumberedIn(e)) \in Nat
  <1>1. IsFiniteSet(1..Len(msgs))
    BY FS_Interval
  <1>2. NumberedIn(e) \subseteq 1..Len(msgs)
    BY DEF NumberedIn, Ids
  <1> QED BY <1>1, <1>2, FS_Subset, FS_CardinalityType

\* An empty log is numbered densely.
LEMMA NumberingInit == Init => NumberingDense
  <1> SUFFICES ASSUME Init PROVE NumberingDense
    OBVIOUS
  <1>1. Ids = {} /\ epochRow = [epoch |-> 0, sequence |-> 0]
    BY DEF Init, Ids
  <1>2. \A e : NumberedIn(e) = {}
    BY <1>1 DEF NumberedIn
  <1> QED BY <1>1, <1>2, FS_EmptySet DEF NumberingDense

\* A step that numbers nothing and stays in the epoch keeps the numbering.
LEMMA NumberingKept ==
  ASSUME TypeOK, NumberingDense,
         epochRow' = epochRow,
         \A e \in Nat : NumberedIn(e)' = NumberedIn(e),
         \A i \in Ids : msgs'[i].seq = msgs[i].seq,
         \A i \in Ids' : msgs'[i].kind \in Numbered =>
           msgs'[i].reqEpoch = msgs'[i].epoch /\ msgs'[i].epoch <= epochRow.epoch
  PROVE  NumberingDense'
  <1>1. epochRow.epoch \in Nat
    BY DEF TypeOK
  <1>2. ASSUME NEW e \in 0..epochRow.epoch, NEW i \in NumberedIn(e)'
        PROVE  msgs'[i].seq = Cardinality({j \in NumberedIn(e)' : j <= i})
    <2>1. NumberedIn(e)' = NumberedIn(e) /\ i \in NumberedIn(e) /\ i \in Ids
      BY <1>1, <1>2 DEF NumberedIn
    <2> QED BY <2>1 DEF NumberingDense
  <1>3. Cardinality(NumberedIn(epochRow.epoch)') = epochRow.sequence
    BY <1>1 DEF NumberingDense
  <1> QED BY <1>2, <1>3 DEF NumberingDense

\* A row that takes the next number keeps the numbers of its epoch dense.
LEMMA NumberingNumbered ==
  ASSUME TypeOK, NumberingDense,
         NEW r \in Row, msgs' = Append(msgs, r), NumberedRow(r)
  PROVE  NumberingDense'
  <1>0. PICK cur \in Nat, n \in Nat : cur = epochRow.epoch /\ n = Len(msgs) + 1
    BY RowType DEF TypeOK
  <1>1. /\ msgs \in Seq(Row)
        /\ epochRow.sequence \in Nat
        /\ \A i \in Ids : i \in Nat /\ i < n
    BY <1>0, RowType DEF TypeOK, Ids
  <1>2. /\ Ids' = Ids \cup {n}
        /\ n \notin Ids
        /\ \A i \in Ids : msgs'[i] = msgs[i]
        /\ msgs'[n] = r
    BY <1>0, <1>1, Appended
  <1>3. /\ epochRow'.epoch = cur
        /\ epochRow'.sequence = epochRow.sequence + 1
        /\ r.kind \in Numbered /\ r.editOf = 0
        /\ r.reqEpoch = cur /\ r.epoch = cur
        /\ r.seq = epochRow.sequence + 1
    BY <1>0 DEF NumberedRow
  <1>4. /\ \A e \in Nat : e # cur => NumberedIn(e)' = NumberedIn(e)
        /\ NumberedIn(cur)' = NumberedIn(cur) \cup {n}
        /\ \A e : NumberedIn(e) \subseteq Ids
    BY <1>2, <1>3 DEF NumberedIn
  <1>5. Cardinality(NumberedIn(cur) \cup {n}) = epochRow.sequence + 1
    <2>1. n \notin NumberedIn(cur) /\ IsFiniteSet(NumberedIn(cur))
      BY <1>1, <1>2, <1>4, NumberedInFinite
    <2>2. Cardinality(NumberedIn(cur)) = epochRow.sequence
      BY <1>0 DEF NumberingDense
    <2> QED BY <2>1, <2>2, FS_AddElement
  <1>6. ASSUME NEW e \in 0..cur, NEW i \in NumberedIn(e)'
        PROVE  msgs'[i].seq = Cardinality({j \in NumberedIn(e)' : j <= i})
    <2>1. CASE i = n
      <3>1. e = cur
        BY <1>1, <1>2, <1>3, <2>1 DEF NumberedIn
      <3>2. {j \in NumberedIn(cur) \cup {n} : j <= n} = NumberedIn(cur) \cup {n}
        BY <1>1, <1>4
      <3> QED BY <1>2, <1>3, <1>4, <1>5, <2>1, <3>1, <3>2
    <2>2. CASE i # n
      <3>1. i \in NumberedIn(e) /\ i \in Ids
        BY <1>1, <1>4, <2>2
      <3>2. {j \in NumberedIn(e)' : j <= i} = {j \in NumberedIn(e) : j <= i}
        <4>1. i < n /\ i \in Nat
          BY <1>1, <3>1
        <4>2. CASE e = cur
          BY <1>1, <1>4, <4>1, <4>2
        <4>3. CASE e # cur
          BY <1>1, <1>4, <4>3
        <4> QED BY <4>2, <4>3
      <3>3. msgs[i].seq = Cardinality({j \in NumberedIn(e) : j <= i})
        BY <1>0, <3>1 DEF NumberingDense
      <3> QED BY <1>2, <3>1, <3>2, <3>3
    <2> QED BY <2>1, <2>2
  <1>7. \A i \in Ids' : msgs'[i].kind \in Numbered =>
          msgs'[i].reqEpoch = msgs'[i].epoch /\ msgs'[i].epoch <= cur
    <2>1. \A i \in Ids : msgs[i].kind \in Numbered =>
            msgs[i].reqEpoch = msgs[i].epoch /\ msgs[i].epoch <= cur
      BY <1>0 DEF NumberingDense
    <2>2. cur <= cur
      BY <1>0
    <2> QED BY <1>2, <1>3, <2>1, <2>2
  <1>8. Cardinality(NumberedIn(cur)') = epochRow.sequence + 1
    BY <1>4, <1>5
  <1> QED BY <1>3, <1>6, <1>7, <1>8 DEF NumberingDense

\* A commit opens an epoch without a numbered row.
LEMMA NumberingCommit ==
  ASSUME TypeOK, NumberingDense,
         NEW r \in Row, msgs' = Append(msgs, r), CommitRow(r)
  PROVE  NumberingDense'
  <1>0. PICK nxt \in Nat : nxt = epochRow.epoch + 1
    BY DEF TypeOK
  <1>1. /\ msgs \in Seq(Row) /\ epochRow.epoch \in Nat
        /\ \A i \in Ids : msgs[i] \in Row
    BY RowType DEF TypeOK
  <1>2. /\ Ids' = Ids \cup {Len(msgs) + 1}
        /\ Len(msgs) + 1 \notin Ids
        /\ \A i \in Ids : msgs'[i] = msgs[i]
        /\ msgs'[Len(msgs) + 1] = r
    BY <1>1, Appended
  <1>3. /\ epochRow'.epoch = nxt
        /\ epochRow'.sequence = 0
        /\ r.kind \notin Numbered
    BY <1>0 DEF CommitRow, Numbered
  <1>4. \A e : NumberedIn(e)' = NumberedIn(e) /\ NumberedIn(e) \subseteq Ids
    BY <1>2, <1>3 DEF NumberedIn
  <1>5. NumberedIn(nxt) = {}
    BY <1>0, <1>1 DEF NumberingDense, NumberedIn
  <1>6. ASSUME NEW e \in 0..nxt, NEW i \in NumberedIn(e)'
        PROVE  msgs'[i].seq = Cardinality({j \in NumberedIn(e)' : j <= i})
    <2>1. i \in NumberedIn(e) /\ i \in Ids /\ e # nxt
      BY <1>4, <1>5
    <2>2. e \in 0..epochRow.epoch
      BY <1>0, <1>1, <2>1
    <2> QED BY <1>2, <1>4, <2>1, <2>2 DEF NumberingDense
  <1>7. ASSUME NEW i \in Ids', msgs'[i].kind \in Numbered
        PROVE  msgs'[i].reqEpoch = msgs'[i].epoch
                 /\ msgs'[i].epoch <= nxt
    <2>1. i \in Ids /\ msgs'[i] = msgs[i]
      BY <1>2, <1>3, <1>7
    <2>2. msgs[i].epoch \in Nat
      BY <1>1, <2>1 DEF Row
    <2> QED BY <1>0, <1>1, <1>7, <2>1, <2>2 DEF NumberingDense
  <1>8. Cardinality(NumberedIn(nxt)') = 0
    BY <1>4, <1>5, FS_EmptySet
  <1> QED BY <1>3, <1>6, <1>7, <1>8 DEF NumberingDense

\* Every step keeps the numbers of every epoch dense.
LEMMA NumberingStep ==
  ASSUME TypeOK, NumberingDense, LogStep
  PROVE  NumberingDense'
  <1>1. /\ msgs \in Seq(Row) /\ epochRow.epoch \in Nat
        /\ \A i \in Ids : i # 0 /\ msgs[i] \in Row
    BY RowType DEF TypeOK, Ids
  <1>2. CASE SameLog
    BY <1>2 DEF SameLog, NumberingDense, NumberedIn, Ids
  <1>3. ASSUME NEW r \in Row, msgs' = Append(msgs, r), EditRow(r) \/ BotRow(r)
        PROVE  NumberingDense'
    <2>1. /\ Ids' = Ids \cup {Len(msgs) + 1}
          /\ Len(msgs) + 1 \notin Ids
          /\ \A i \in Ids : msgs'[i] = msgs[i]
          /\ msgs'[Len(msgs) + 1] = r
      BY <1>1, <1>3, Appended
    <2>2. r.kind \in Numbered =>
            /\ r.editOf # 0
            /\ r.reqEpoch = r.epoch
            /\ r.epoch <= epochRow.epoch
      BY <1>1, <1>3 DEF EditRow, BotRow, Numbered, NumberingDense
    <2>3. epochRow' = epochRow
      BY <1>3 DEF EditRow, BotRow
    <2>4. \A e \in Nat : NumberedIn(e)' = NumberedIn(e)
      BY <2>1, <2>2 DEF NumberedIn
    <2>5. \A i \in Ids' : msgs'[i].kind \in Numbered =>
            msgs'[i].reqEpoch = msgs'[i].epoch /\ msgs'[i].epoch <= epochRow.epoch
      BY <2>1, <2>2 DEF NumberingDense
    <2> QED BY <2>1, <2>3, <2>4, <2>5, NumberingKept
  <1>4. ASSUME NEW i \in Ids, Deletes(i) PROVE NumberingDense'
    <2>1. /\ Ids' = Ids
          /\ epochRow' = epochRow
          /\ \A j \in Ids : /\ msgs'[j].kind = msgs[j].kind
                            /\ msgs'[j].epoch = msgs[j].epoch
                            /\ msgs'[j].reqEpoch = msgs[j].reqEpoch
                            /\ msgs'[j].seq = msgs[j].seq
                            /\ msgs'[j].editOf = msgs[j].editOf
      BY <1>1, <1>4, Deleted DEF Deletes
    <2>2. \A e \in Nat : NumberedIn(e)' = NumberedIn(e)
      BY <2>1 DEF NumberedIn
    <2>3. \A j \in Ids' : msgs'[j].kind \in Numbered =>
            msgs'[j].reqEpoch = msgs'[j].epoch /\ msgs'[j].epoch <= epochRow.epoch
      BY <2>1 DEF NumberingDense
    <2> QED BY <2>1, <2>2, <2>3, NumberingKept
  <1> QED BY <1>2, <1>3, <1>4, NumberingNumbered, NumberingCommit DEF LogStep

\* Messages and proposals lie in the epoch they were encrypted for, and within
\* an epoch they are numbered 1, 2, 3, ... in the order of insertion.
THEOREM NumbersDense == Spec => []NumberingDense
  <1>1. TypeOK /\ NumberingDense /\ [Next]_vars => NumberingDense'
    BY LogSteps, NumberingStep
  <1> QED BY NumberingInit, TypeCorrect, <1>1, PTL DEF Spec

-----------------------------------------------------------------------------
(***************************************************************************)
(* Edits.  EditChain is inductive together with TypeOK: the edits of a     *)
(* message carry the numbers 1 to how many they are, so the largest of the *)
(* chain, which edit_message looks up, is their number.                    *)
(***************************************************************************)

\* The edits of a message are finitely many.
LEMMA EditsFinite ==
  ASSUME msgs \in Seq(Row), NEW i
  PROVE  /\ IsFiniteSet(EditsOf(i)) /\ EditsOf(i) \subseteq Ids
         /\ Cardinality(EditsOf(i)) \in Nat
  <1>1. IsFiniteSet(1..Len(msgs))
    BY FS_Interval
  <1>2. EditsOf(i) \subseteq Ids
    BY DEF EditsOf
  <1> QED BY <1>1, <1>2, FS_Subset, FS_CardinalityType DEF Ids

\* The number of the next edit counts the edits there are.
LEMMA ChainLength ==
  ASSUME msgs \in Seq(Row), EditChain, NEW i \in Ids
  PROVE  NextEditSeq(i) = Cardinality(EditsOf(i)) + 1
  <1> DEFINE n == Cardinality(EditsOf(i))
             S == {0} \cup {msgs[j].editSeq : j \in EditsOf(i)}
  <1>1. /\ IsFiniteSet(EditsOf(i)) /\ EditsOf(i) \subseteq Ids /\ n \in Nat
        /\ Len(msgs) \in Nat /\ i # 0
    BY EditsFinite, RowType DEF Ids
  <1>2. \A j \in EditsOf(i) : msgs[j].editSeq = Cardinality({k \in EditsOf(i) : k <= j})
    BY <1>1 DEF EditChain, EditsOf
  <1>3. ASSUME NEW j \in EditsOf(i) PROVE msgs[j].editSeq \in Nat /\ msgs[j].editSeq <= n
    <2> DEFINE T == {k \in EditsOf(i) : k <= j}
    <2>1. T \in SUBSET EditsOf(i) /\ msgs[j].editSeq = Cardinality(T)
      BY <1>2
    <2> HIDE DEF T
    <2> QED BY <1>1, <2>1, FS_Subset, FS_CardinalityType
  <1>4. S # {} /\ S \in SUBSET Nat /\ \A s \in S : s <= n
    BY <1>1, <1>3
  <1>5. n \in S
    <2>1. CASE EditsOf(i) = {}
      BY <2>1, FS_EmptySet
    <2>2. CASE EditsOf(i) # {}
      <3>1. EditsOf(i) \in SUBSET Nat /\ \A j \in EditsOf(i) : j <= Len(msgs)
        BY <1>1 DEF Ids
      <3>2. Max(EditsOf(i)) \in EditsOf(i) /\ \A j \in EditsOf(i) : j <= Max(EditsOf(i))
        BY <1>1, <2>2, <3>1, MaxOfBounded
      <3>3. {k \in EditsOf(i) : k <= Max(EditsOf(i))} = EditsOf(i)
        BY <3>2
      <3>4. msgs[Max(EditsOf(i))].editSeq = n
        BY <1>2, <3>2, <3>3
      <3> QED BY <3>2, <3>4
    <2> QED BY <2>1, <2>2
  <1>6. Max(S) \in S /\ \A s \in S : s <= Max(S)
    <2> HIDE DEF S, n
    <2> QED BY <1>1, <1>4, MaxOfBounded
  <1>7. Max(S) = n
    <2> HIDE DEF S, n
    <2>1. Max(S) \in Nat /\ Max(S) <= n /\ n <= Max(S)
      BY <1>4, <1>5, <1>6
    <2> QED BY <1>1, <2>1
  <1> QED BY <1>1, <1>7 DEF NextEditSeq

\* What EditChain says of one edit i of a message o.
Chained(i, o) ==
  /\ o < i
  /\ msgs[o].editOf = 0
  /\ msgs[o].kind = "application"
  /\ <<msgs[o].sender, msgs[o].epoch, msgs[o].targets>>
       = <<msgs[i].sender, msgs[i].epoch, msgs[i].targets>>
  /\ msgs[i].editSeq = Cardinality({j \in EditsOf(o) : j <= i})

\* Every step keeps the edits of every message in one chain.
LEMMA EditChainStep ==
  ASSUME TypeOK, EditChain, LogStep
  PROVE  EditChain'
  <1>1. /\ msgs \in Seq(Row) /\ Len(msgs) \in Nat
        /\ \A i \in Ids : i \in Nat /\ i <= Len(msgs) /\ i > 0 /\ msgs[i] \in Row
    BY RowType DEF TypeOK, Ids
  <1>2. ASSUME NEW i \in Ids, NEW o, msgs[i].editOf = o, o # 0
        PROVE  Chained(i, o)
    BY <1>2 DEF EditChain, Chained
  <1>3. ASSUME \A i \in Ids' : \A o : msgs'[i].editOf = o /\ o # 0 => Chained(i, o)'
        PROVE  EditChain'
    BY <1>3 DEF EditChain, Chained
  <1>4. ASSUME NEW i \in Ids, NEW o, msgs[i].editOf = o, o # 0
        PROVE  o \in Ids
    <2>1. o \in Nat /\ o < i
      BY <1>1, <1>2, <1>4 DEF Row, Chained
    <2> QED BY <1>1, <1>4, <2>1 DEF Ids
  <1>5. CASE SameLog
    BY <1>5 DEF SameLog, EditChain, EditsOf, Ids
  <1>6. ASSUME NEW r \in Row, msgs' = Append(msgs, r),
               CommitRow(r) \/ NumberedRow(r) \/ EditRow(r) \/ BotRow(r)
        PROVE  EditChain'
    <2>0. PICK n \in Nat : n = Len(msgs) + 1
      BY <1>1
    <2>1. /\ Ids' = Ids \cup {n} /\ n \notin Ids
          /\ \A i \in Ids : msgs'[i] = msgs[i] /\ i < n
          /\ msgs'[n] = r
      BY <1>1, <1>6, <2>0, Appended
    <2>2. ASSUME NEW i \in Ids, NEW o PROVE {j \in EditsOf(o)' : j <= i} = {j \in EditsOf(o) : j <= i}
      <3>1. ~ n <= i
        BY <1>1, <2>1
      <3> QED BY <2>1, <3>1 DEF EditsOf
    <2>3. ASSUME NEW i \in Ids, NEW o, msgs'[i].editOf = o, o # 0 PROVE Chained(i, o)'
      <3>1. msgs'[i] = msgs[i] /\ msgs'[o] = msgs[o]
        BY <1>4, <2>1, <2>3
      <3>2. {j \in EditsOf(o)' : j <= i} = {j \in EditsOf(o) : j <= i}
        BY <2>2
      <3>3. Chained(i, o)
        BY <1>2, <2>3, <3>1
      <3> QED BY <3>1, <3>2, <3>3 DEF Chained
    <2>4. ASSUME NEW o, r.editOf = o, o # 0 PROVE Chained(n, o)'
      <3>1. PICK i \in Ids : /\ msgs[i].kind = "application" /\ msgs[i].editOf = 0
                             /\ r.editOf = i /\ r.editSeq = NextEditSeq(i)
                             /\ r.epoch = msgs[i].epoch
                             /\ r.sender = msgs[i].sender /\ r.targets = msgs[i].targets
        BY <1>6, <2>4 DEF CommitRow, NumberedRow, EditRow, BotRow
      <3>2. EditsOf(i)' = EditsOf(i) \cup {n} /\ n \notin EditsOf(i)
        BY <1>1, <2>1, <3>1 DEF EditsOf
      <3>3. {j \in EditsOf(i)' : j <= n} = EditsOf(i) \cup {n}
        <4>1. \A j \in EditsOf(i) : j <= n
          BY <1>1, <2>1 DEF EditsOf
        <4> QED BY <2>1, <3>2, <4>1
      <3>4. Cardinality(EditsOf(i) \cup {n}) = Cardinality(EditsOf(i)) + 1
        BY <1>1, <3>2, EditsFinite, FS_AddElement
      <3>5. r.editSeq = Cardinality({j \in EditsOf(i)' : j <= n})
        BY <1>1, <3>1, <3>3, <3>4, ChainLength
      <3>6. msgs'[n] = r /\ msgs'[i] = msgs[i] /\ i < n
        BY <2>1
      <3>7. Chained(n, i)'
        <4>1. msgs'[n].editSeq = Cardinality({j \in EditsOf(i)' : j <= n})
          BY <3>5, <3>6
        <4>2. /\ msgs'[i].editOf = 0 /\ msgs'[i].kind = "application"
              /\ msgs'[i].sender = msgs'[n].sender /\ msgs'[i].epoch = msgs'[n].epoch
              /\ msgs'[i].targets = msgs'[n].targets
          BY <3>1, <3>6
        <4> QED BY <3>6, <4>1, <4>2 DEF Chained
      <3> QED BY <2>4, <3>1, <3>7
    <2>5. ASSUME NEW i \in Ids', NEW o, msgs'[i].editOf = o, o # 0 PROVE Chained(i, o)'
      <3>1. CASE i = n
        BY <2>1, <2>4, <2>5, <3>1
      <3>2. CASE i \in Ids
        BY <2>3, <2>5, <3>2
      <3> QED BY <2>1, <3>1, <3>2
    <2> QED BY <1>3, <2>5
  <1>7. ASSUME NEW i \in Ids, Deletes(i) PROVE EditChain'
    <2>1. /\ Ids' = Ids
          /\ \A j \in Ids : /\ msgs'[j].kind = msgs[j].kind
                            /\ msgs'[j].epoch = msgs[j].epoch
                            /\ msgs'[j].sender = msgs[j].sender
                            /\ msgs'[j].targets = msgs[j].targets
                            /\ msgs'[j].editSeq = msgs[j].editSeq
                            /\ msgs'[j].editOf = msgs[j].editOf
      BY <1>1, <1>7, Deleted
    <2>2. \A o : EditsOf(o)' = EditsOf(o)
      BY <2>1 DEF EditsOf
    <2>3. ASSUME NEW j \in Ids, NEW o, msgs'[j].editOf = o, o # 0 PROVE Chained(j, o)'
      <3>1. o \in Ids /\ Chained(j, o)
        BY <1>2, <1>4, <2>1, <2>3
      <3> QED BY <2>1, <2>2, <3>1 DEF Chained
    <2> QED BY <1>3, <2>1, <2>3
  <1> QED BY <1>5, <1>6, <1>7 DEF LogStep

\* The chain of an edited message is flat, numbered 1, 2, 3, ... and readable
\* by whoever may read the original, whichever edits and deletions race
\* (edit_message), in a log of any length.
THEOREM EditsChained == Spec => []EditChain
  <1>1. Init => EditChain
    BY DEF Init, EditChain, Ids
  <1>2. TypeOK /\ EditChain /\ [Next]_vars => EditChain'
    BY LogSteps, EditChainStep
  <1> QED BY <1>1, <1>2, TypeCorrect, PTL DEF Spec

\* While the answer of a request_id is kept, no call with it posts again: the
\* transaction asks the log of requests itself, however many calls of the bot
\* passed the checks before it (check_or_reserve_request_id).
THEOREM PostsOnce == Spec => PostedOnce
  <1> DEFINE Once == \A b \in Bots, r \in Requests :
                       <<b, r>> \in requestLog => PostsOf(b, r)' = PostsOf(b, r)
  <1>1. ASSUME TypeOK, [Next]_vars PROVE Once
    <2>1. LogStep /\ msgs \in Seq(Row)
      BY <1>1, LogSteps DEF TypeOK
    <2>2. CASE SameLog
      BY <2>2 DEF SameLog, PostsOf, Ids
    <2>3. ASSUME NEW m \in Row, msgs' = Append(msgs, m),
                 CommitRow(m) \/ NumberedRow(m) \/ EditRow(m) \/ BotRow(m)
          PROVE  Once
      <3>1. /\ Ids' = Ids \cup {Len(msgs) + 1}
            /\ \A i \in Ids : msgs'[i] = msgs[i]
            /\ msgs'[Len(msgs) + 1] = m
        BY <2>1, <2>3, Appended
      <3>2. ASSUME NEW b \in Bots, NEW r \in Requests, <<b, r>> \in requestLog
            PROVE  ~ (m.sender = b /\ m.request = r)
        BY <2>3, <3>2, RoomLogAssumption, ZenonT(90) DEF CommitRow, NumberedRow, EditRow, BotRow
      <3> QED BY <3>1, <3>2 DEF PostsOf
    <2>4. ASSUME NEW i \in Ids, Deletes(i) PROVE Once
      BY <2>1, <2>4, Deleted DEF PostsOf
    <2> QED BY <2>1, <2>2, <2>3, <2>4 DEF LogStep
  <1> QED BY <1>1, TypeCorrect, PTL DEF Spec, PostedOnce

-----------------------------------------------------------------------------
(***************************************************************************)
(* A room without bots.  Every row has a key up to what room_epochs holds, *)
(* a message or a proposal is numbered past that and shares its key with   *)
(* no other row, and no cursor is ahead of room_epochs.  So what is new is *)
(* ahead of every cursor, and the rows a page leaves out are ahead of its  *)
(* last.                                                                   *)
(***************************************************************************)

Now == <<epochRow.epoch, epochRow.sequence>>
IsOriginal(i) == msgs[i].kind \in Numbered /\ msgs[i].editOf = 0

KeysBound ==
  /\ \A i \in Ids : AtMost(Key(i), Now)
  /\ \A i \in Ids : IsOriginal(i) => msgs[i].seq # 0
  /\ \A i, j \in Ids : msgs[i].seq # 0 /\ Key(i) = Key(j) => i = j

CursorsBound == \A u \in Readers : cursor[u] # NoCursor => AtMost(cursor[u], Now)

NoneSkipped ==
  \A u \in Readers, i \in Ids : IsOriginal(i) /\ Passed(u, i) => i \in got[u]

SkipInv == KeysBound /\ CursorsBound /\ NoneSkipped

\* The order of the list endpoint is a total order of the keys.
LEMMA KeyOrder ==
  ASSUME NEW k \in Nat \X Nat, NEW l \in Nat \X Nat, NEW m \in Nat \X Nat
  PROVE  /\ AtMost(k, l) /\ AtMost(l, m) => AtMost(k, m)
         /\ AtMost(k, l) /\ Before(l, m) => Before(k, m)
         /\ AtMost(k, l) /\ AtMost(l, k) => k = l
         /\ AtMost(k, l) \/ Before(l, k)
         /\ ~ (Before(k, l) /\ AtMost(l, k))
  BY DEF AtMost, Before

\* The epoch and its last number are a pair of numbers.
LEMMA NowType == TypeOK => Now \in Nat \X Nat
  BY DEF TypeOK, Now

\* The epoch and its last number never fall.
LEMMA NowGrows ==
  ASSUME TypeOK, LogStep
  PROVE  Now' \in Nat \X Nat /\ AtMost(Now, Now')
  <1>1. epochRow.epoch \in Nat /\ epochRow.sequence \in Nat
    BY DEF TypeOK
  <1>2. \/ epochRow' = epochRow
        \/ epochRow' = [epoch |-> epochRow.epoch + 1, sequence |-> 0]
        \/ epochRow' = [epoch |-> epochRow.epoch, sequence |-> epochRow.sequence + 1]
    BY DEF LogStep, SameLog, CommitRow, NumberedRow, EditRow, BotRow, Deletes
  <1> QED BY <1>1, <1>2 DEF Now, AtMost, Before

\* A new row is not ahead of room_epochs, and a message or a proposal is ahead
\* of what it was.
LEMMA NewKey ==
  ASSUME TypeOK, KeysBound, Bots = {}, NEW r \in Row,
         CommitRow(r) \/ NumberedRow(r) \/ EditRow(r) \/ BotRow(r)
  PROVE  /\ AtMost(<<r.epoch, r.seq>>, Now')
         /\ r.kind \in Numbered /\ r.editOf = 0 => r.seq # 0
         /\ r.seq # 0 => Before(Now, <<r.epoch, r.seq>>)
  <1>1. epochRow.epoch \in Nat /\ epochRow.sequence \in Nat
    BY DEF TypeOK
  <1>2. CASE CommitRow(r)
    BY <1>1, <1>2 DEF CommitRow, Now, AtMost, Before, Numbered
  <1>3. CASE NumberedRow(r)
    BY <1>1, <1>3 DEF NumberedRow, Now, AtMost, Before
  <1>4. CASE EditRow(r)
    <2>1. PICK i \in Ids : r.editOf = i /\ r.epoch = msgs[i].epoch
      BY <1>4 DEF EditRow
    <2>2. r.seq = 0 /\ epochRow' = epochRow /\ i # 0 /\ r.epoch \in Nat
      BY <1>4 DEF EditRow, Ids, Row
    <2>3. msgs[i].epoch <= epochRow.epoch
      BY <1>1, <2>1, <2>2 DEF KeysBound, Key, Now, AtMost, Before
    <2> QED BY <1>1, <2>1, <2>2, <2>3 DEF Now, AtMost, Before
  <1>5. ~ BotRow(r)
    BY DEF BotRow
  <1> QED BY <1>2, <1>3, <1>4, <1>5

\* A step that leaves the readers alone.
LEMMA SkipLog ==
  ASSUME TypeOK, SkipInv, Bots = {}, LogStep, UNCHANGED readerVars
  PROVE  SkipInv'
  <1>1. /\ msgs \in Seq(Row) /\ Len(msgs) \in Nat /\ Now \in Nat \X Nat
        /\ Now' \in Nat \X Nat /\ AtMost(Now, Now')
        /\ \A i \in Ids : msgs[i] \in Row /\ Key(i) \in Nat \X Nat
    BY RowType, NowType, NowGrows, KeyType DEF TypeOK
  <1>2. \A u \in Readers : cursor[u] # NoCursor => cursor[u] \in Nat \X Nat
    BY DEF TypeOK
  <1>3. CursorsBound'
    <2> SUFFICES ASSUME NEW u \in Readers, cursor[u] # NoCursor PROVE AtMost(cursor[u], Now')
      BY DEF CursorsBound, readerVars
    <2>1. AtMost(cursor[u], Now)
      BY DEF SkipInv, CursorsBound
    <2> QED BY <1>1, <1>2, <2>1, KeyOrder
  <1>4. CASE SameLog
    BY <1>4 DEF SameLog, SkipInv, KeysBound, CursorsBound, NoneSkipped, IsOriginal, Passed,
                VisibleTo, Key, Now, Ids, readerVars
  <1>5. ASSUME NEW r \in Row, msgs' = Append(msgs, r),
               CommitRow(r) \/ NumberedRow(r) \/ EditRow(r) \/ BotRow(r)
        PROVE  SkipInv'
    <2>0. PICK n \in Nat : n = Len(msgs) + 1
      BY <1>1
    <2>1. /\ Ids' = Ids \cup {n} /\ n \notin Ids
          /\ \A i \in Ids : msgs'[i] = msgs[i]
          /\ msgs'[n] = r
      BY <1>1, <1>5, <2>0, Appended
    <2>2. /\ AtMost(<<r.epoch, r.seq>>, Now')
          /\ r.kind \in Numbered /\ r.editOf = 0 => r.seq # 0
          /\ r.seq # 0 => Before(Now, <<r.epoch, r.seq>>)
      BY <1>5, NewKey DEF SkipInv
    <2>3. /\ \A i \in Ids : Key(i)' = Key(i) /\ (IsOriginal(i)' <=> IsOriginal(i))
          /\ Key(n)' = <<r.epoch, r.seq>> /\ Key(n)' \in Nat \X Nat
          /\ IsOriginal(n)' <=> r.kind \in Numbered /\ r.editOf = 0
      BY <2>1 DEF Key, IsOriginal, Row
    <2>4. \A i \in Ids : AtMost(Key(i), Now)
      BY DEF SkipInv, KeysBound
    <2>5. \A i \in Ids' : AtMost(Key(i)', Now')
      <3>1. \A i \in Ids : AtMost(Key(i), Now')
        BY <1>1, <2>4, KeyOrder
      <3> QED BY <2>1, <2>2, <2>3, <3>1
    <2>6. \A i \in Ids' : IsOriginal(i)' => msgs'[i].seq # 0
      BY <2>1, <2>2, <2>3 DEF SkipInv, KeysBound
    <2>7. ASSUME NEW i \in Ids', NEW j \in Ids', msgs'[i].seq # 0, Key(i)' = Key(j)'
          PROVE  i = j
      <3>1. msgs'[i].seq = msgs'[j].seq
        BY <2>7 DEF Key
      <3>2. CASE i \in Ids /\ j \in Ids
        BY <2>1, <2>3, <2>7, <3>2 DEF SkipInv, KeysBound
      <3>3. ASSUME NEW k \in Ids, r.seq # 0 PROVE Key(k) # <<r.epoch, r.seq>>
        <4>1. AtMost(Key(k), Now) /\ Before(Now, <<r.epoch, r.seq>>)
          BY <2>2, <2>4, <3>3
        <4>2. ~ AtMost(<<r.epoch, r.seq>>, Key(k))
          BY <1>1, <2>3, <4>1, KeyOrder
        <4> QED BY <4>2 DEF AtMost
      <3> QED BY <2>1, <2>3, <2>7, <3>1, <3>2, <3>3
    <2>8. KeysBound'
      BY <2>5, <2>6, <2>7 DEF KeysBound
    <2>9. ASSUME NEW u \in Readers, NEW i \in Ids', IsOriginal(i)', Passed(u, i)'
          PROVE  i \in got'[u]
      <3>1. CASE i \in Ids
        <4>1. IsOriginal(i) /\ Passed(u, i)
          BY <2>1, <2>3, <2>9, <3>1 DEF Passed, VisibleTo, readerVars
        <4> QED BY <3>1, <4>1 DEF SkipInv, NoneSkipped, readerVars
      <3>2. CASE i = n
        <4>1. cursor[u] # NoCursor /\ AtMost(<<r.epoch, r.seq>>, cursor[u])
          BY <2>3, <2>9, <3>2 DEF Passed, readerVars
        <4>2. AtMost(cursor[u], Now) /\ Before(Now, <<r.epoch, r.seq>>)
          BY <2>2, <2>3, <2>9, <3>2, <4>1 DEF SkipInv, CursorsBound
        <4> QED BY <1>1, <1>2, <2>3, <4>1, <4>2, KeyOrder
      <3> QED BY <2>1, <3>1, <3>2
    <2> QED BY <1>3, <2>8, <2>9 DEF SkipInv, NoneSkipped
  <1>6. ASSUME NEW i \in Ids, Deletes(i) PROVE SkipInv'
    <2>1. /\ Ids' = Ids
          /\ \A j \in Ids : /\ msgs'[j].kind = msgs[j].kind
                            /\ msgs'[j].epoch = msgs[j].epoch
                            /\ msgs'[j].seq = msgs[j].seq
                            /\ msgs'[j].editOf = msgs[j].editOf
                            /\ msgs'[j].sender = msgs[j].sender
                            /\ msgs'[j].targets = msgs[j].targets
      BY <1>1, <1>6, Deleted
    <2>2. \A j \in Ids : Key(j)' = Key(j) /\ (IsOriginal(j)' <=> IsOriginal(j))
      BY <2>1 DEF Key, IsOriginal
    <2>3. Now' = Now
      BY <1>6 DEF Deletes, Now
    <2>4. KeysBound'
      BY <2>1, <2>2, <2>3 DEF SkipInv, KeysBound
    <2>5. \A u \in Readers : \A j \in Ids : Passed(u, j)' => Passed(u, j)
      BY <2>1, <2>2 DEF Passed, VisibleTo, readerVars
    <2>6. NoneSkipped'
      BY <2>1, <2>2, <2>5 DEF SkipInv, NoneSkipped, readerVars
    <2> QED BY <1>3, <2>4, <2>6 DEF SkipInv
  <1> QED BY <1>4, <1>5, <1>6 DEF LogStep

\* A page: what it leaves out is ahead of its last row.
LEMMA SkipPoll ==
  ASSUME TypeOK, SkipInv, NEW u \in Readers, Poll(u)
  PROVE  SkipInv'
  <1>1. /\ UNCHANGED <<msgs, epochRow>> /\ Ids' = Ids
        /\ \A i \in Ids : i \in Nat /\ i <= Len(msgs)
    BY RowType DEF Poll, ListLatest, ListSince, logVars, Ids, TypeOK
  <1>2. /\ \A i \in Ids : Key(i)' = Key(i) /\ (IsOriginal(i)' <=> IsOriginal(i))
        /\ \A i \in Ids : Key(i) \in Nat \X Nat
        /\ Now' = Now /\ Now \in Nat \X Nat
    BY <1>1, KeyType, NowType DEF Key, IsOriginal, Now
  <1>3. KeysBound'
    BY <1>1, <1>2 DEF SkipInv, KeysBound
  <1>4. /\ cursor \in [Readers -> {NoCursor} \cup Nat \X Nat]
        /\ horizon \in [Readers -> Nat] /\ got \in [Readers -> SUBSET Nat]
    BY DEF TypeOK
  <1>5. PICK P : /\ P \subseteq Visible(u)
                 /\ got' = [got EXCEPT ![u] = @ \cup P]
                 /\ \E i \in P : IsLast(i, P) /\ cursor' = [cursor EXCEPT ![u] = Key(i)]
                 /\ \/ cursor[u] = NoCursor /\ horizon' = [horizon EXCEPT ![u] = Len(msgs)]
                    \/ /\ cursor[u] # NoCursor /\ horizon' = horizon
                       /\ P \subseteq After(u)
                       /\ \A i \in P, j \in After(u) \ P : AtMost(Key(i), Key(j))
    <2>1. \A S : \A Q \in Pages(S) : Q \subseteq S
      BY DEF Pages, kSubset
    <2>2. CASE ListLatest(u)
      BY <2>1, <2>2 DEF ListLatest
    <2>3. CASE ListSince(u)
      <3>1. After(u) \subseteq Visible(u)
        BY DEF After
      <3> QED BY <2>1, <2>3, <3>1 DEF ListSince
    <2> QED BY <2>2, <2>3 DEF Poll
  <1>6. PICK l \in P : IsLast(l, P) /\ cursor' = [cursor EXCEPT ![u] = Key(l)]
    BY <1>5
  <1>7. P \subseteq Ids /\ l \in Ids /\ AtMost(Key(l), Now)
    BY <1>5 DEF Visible, SkipInv, KeysBound
  <1>8. CursorsBound'
    <2> SUFFICES ASSUME NEW v \in Readers, cursor'[v] # NoCursor PROVE AtMost(cursor'[v], Now)
      BY <1>2 DEF CursorsBound
    <2>1. CASE v = u
      BY <1>4, <1>6, <1>7, <2>1
    <2>2. CASE v # u
      <3>1. cursor'[v] = cursor[v]
        BY <1>4, <1>6, <2>2
      <3> QED BY <3>1 DEF SkipInv, CursorsBound
    <2> QED BY <2>1, <2>2
  <1>9. ASSUME NEW v \in Readers, NEW i \in Ids, IsOriginal(i), Passed(v, i)'
        PROVE  i \in got'[v]
    <2>1. /\ cursor'[v] # NoCursor /\ i > horizon'[v] /\ AtMost(Key(i), cursor'[v])
          /\ VisibleTo(v, i)
      BY <1>1, <1>2, <1>9 DEF Passed, VisibleTo
    <2>2. CASE v # u
      <3>1. cursor'[v] = cursor[v] /\ horizon'[v] = horizon[v] /\ got'[v] = got[v]
        BY <1>4, <1>5, <1>6, <2>2
      <3>2. Passed(v, i)
        BY <2>1, <3>1 DEF Passed
      <3> QED BY <1>9, <3>1, <3>2 DEF SkipInv, NoneSkipped
    <2>3. CASE v = u
      <3>1. cursor'[u] = Key(l) /\ got'[u] = got[u] \cup P
        BY <1>4, <1>5, <1>6
      <3>2. cursor[u] # NoCursor
        BY <1>1, <1>4, <1>5, <2>1, <2>3
      <3>3. /\ horizon'[u] = horizon[u] /\ cursor[u] \in Nat \X Nat
            /\ \A j \in P, k \in After(u) \ P : AtMost(Key(j), Key(k))
        BY <1>4, <1>5, <3>2
      <3>4. CASE AtMost(Key(i), cursor[u])
        <4>1. Passed(u, i)
          BY <2>1, <2>3, <3>2, <3>3, <3>4 DEF Passed
        <4> QED BY <1>9, <2>3, <3>1, <4>1 DEF SkipInv, NoneSkipped
      <3>5. CASE Before(cursor[u], Key(i))
        <4>1. i \in After(u)
          BY <2>1, <2>3, <3>5 DEF After, Visible
        <4>2. CASE i \notin P
          <5>1. AtMost(Key(l), Key(i)) /\ AtMost(Key(i), Key(l))
            BY <2>1, <2>3, <3>1, <3>3, <4>1, <4>2
          <5>2. Key(i) = Key(l)
            BY <1>2, <1>7, <5>1, KeyOrder
          <5>3. msgs[i].seq # 0
            BY <1>9 DEF SkipInv, KeysBound
          <5>4. i = l
            BY <1>7, <5>2, <5>3 DEF SkipInv, KeysBound
          <5> QED BY <4>2, <5>4
        <4> QED BY <2>3, <3>1, <4>2
      <3> QED BY <1>2, <3>3, <3>4, <3>5, KeyOrder
    <2> QED BY <2>2, <2>3
  <1>10. NoneSkipped'
    BY <1>1, <1>2, <1>9, SMTT(60) DEF NoneSkipped
  <1> QED BY <1>3, <1>8, <1>10 DEF SkipInv

\* A reader moves only when it polls.
LEMMA ReaderSteps ==
  ASSUME [Next]_vars
  PROVE  UNCHANGED readerVars \/ \E u \in Readers : Poll(u)
  BY DEF Next, vars, Submit, SubmitCommit, SubmitNumbered, Change, EditMessage,
     DeleteMessage, BotStep, BotCheck, BotInsert, BotDuplicate, BotAbort,
     BotRequestLogTtl, Granting, GrantBot, PatchRoomBot, DeleteRoomBot, Membership,
     Join, AddMember, Leave, LeaveAsOwner, Kick, Promote, Demote, TransferOwnership,
     SetRoles

\* In a room without bots a poller that hands next_cursor back as since is given
\* every message and proposal its cursor passes, wherever pages are cut and
\* however edits, commits and deletions come between (list_messages), for any
\* page limit and any number of rows.
THEOREM NumberedNotSkipped ==
  ASSUME Bots = {}
  PROVE  Spec => []NumberedNeverSkipped
  <1>1. Init => SkipInv
    BY DEF Init, SkipInv, KeysBound, CursorsBound, NoneSkipped, Ids
  <1>2. TypeOK /\ SkipInv /\ [Next]_vars => SkipInv'
    <2> SUFFICES ASSUME TypeOK, SkipInv, [Next]_vars PROVE SkipInv'
      OBVIOUS
    <2>1. LogStep
      BY LogSteps
    <2> QED BY <2>1, ReaderSteps, SkipLog, SkipPoll
  <1>3. SkipInv => NumberedNeverSkipped
    BY DEF SkipInv, NoneSkipped, NumberedNeverSkipped, NumberedIn, IsOriginal
  <1> QED BY <1>1, <1>2, <1>3, TypeCorrect, PTL DEF Spec

-----------------------------------------------------------------------------
(***************************************************************************)
(* The refinement of LinearLog.  A closed epoch has its commit and numbers *)
(* 1 .. n; the open one has no commit and the numbers up to                *)
(* room_epochs.sequence, so that the next number extends it and a commit   *)
(* leaves it as it is.                                                     *)
(***************************************************************************)

\* A run of numbers 1 .. n.
FromOne(S) == \E n \in Nat : S = 1..n

\* What the log holds of an epoch, by how it stands to room_epochs.
EpochInLine(e) ==
  /\ e < epochRow.epoch => CommitsIn(e) # {}
  /\ e >= epochRow.epoch => CommitsIn(e) = {}
  /\ e > epochRow.epoch => NumberedIn(e) = {}
  /\ e = epochRow.epoch => NumbersOf(e) = 1..epochRow.sequence
  /\ FromOne(NumbersOf(e))

\* Every epoch is so, and the log keeps to its bound.
LinearInv ==
  /\ Len(msgs) <= MaxRows
  /\ \A e \in Nat : EpochInLine(e)

\* The log never outgrows its bound.
LEMMA RowsBounded ==
  ASSUME TypeOK, Len(msgs) <= MaxRows, [Next]_vars
  PROVE  Len(msgs') <= MaxRows
  <1>1. Len(msgs) \in Nat /\ MaxRows \in Nat /\ msgs \in Seq(Row)
    BY RowType, RoomLogAssumption DEF TypeOK
  <1>2. CASE HasRoom
    <2>1. Len(msgs') = Len(msgs) \/ Len(msgs') = Len(msgs) + 1
      <3>1. LogStep
        BY LogSteps
      <3> QED BY <1>1, <3>1, Appended, Deleted DEF LogStep, SameLog
    <2> QED BY <1>1, <1>2, <2>1 DEF HasRoom
  <1>3. CASE ~HasRoom
    <2>1. Len(msgs') = Len(msgs)
      <3>1. ASSUME NEW u \in Users, NEW i \in Ids, DeleteMessage(u, i)
            PROVE  Len(msgs') = Len(msgs)
        BY <1>1, <3>1 DEF DeleteMessage, Ids
      <3>2. ASSUME NEW b \in Bots, BotStep(b)
            PROVE  msgs' = msgs
        BY <1>3, <3>2 DEF BotStep, BotCheck, BotInsert, BotDuplicate, BotAbort, BotRequestLogTtl, logVars
      <3>3. ASSUME NEW u \in Users, Submit(u)
            PROVE  msgs' = msgs
        BY <1>3, <3>3 DEF Submit, SubmitCommit, SubmitNumbered
      <3>4. ASSUME NEW u \in Readers, Poll(u)
            PROVE  msgs' = msgs
        BY <3>4 DEF Poll, ListLatest, ListSince, logVars
      <3>5. Membership => msgs' = msgs
        BY RoleSteps DEF logVars
      <3>6. Granting => msgs' = msgs
        BY DEF Granting, GrantBot, PatchRoomBot, DeleteRoomBot, logVars
      <3>7. ASSUME NEW u \in Users, Change(u)
            PROVE  Len(msgs') = Len(msgs)
        BY <1>3, <3>1, <3>7 DEF Change, EditMessage
      <3>8. UNCHANGED vars => msgs' = msgs
        BY DEF vars, logVars
      <3> QED BY <3>2, <3>3, <3>4, <3>5, <3>6, <3>7, <3>8 DEF Next
    <2> QED BY <1>1, <2>1
  <1> QED BY <1>2, <1>3

\* The numbered rows of an epoch, and their numbers, are left alone.
Kept(e) ==
  /\ NumberedIn(e)' = NumberedIn(e)
  /\ \A i \in NumberedIn(e) : msgs'[i].seq = msgs[i].seq

\* What a step does to the history, by the open epoch, its last number and the
\* id of the next row: nothing, one more number, or the commit.
HistoryStep(open, last, id) ==
  \/ /\ epochRow' = epochRow
     /\ \A e \in Nat : Kept(e) /\ CommitsIn(e)' = CommitsIn(e)
  \/ /\ Len(msgs') = id /\ epochRow'.epoch = open /\ epochRow'.sequence = last + 1
     /\ msgs'[id].seq = last + 1
     /\ NumberedIn(open)' = NumberedIn(open) \cup {id}
     /\ \A i \in NumberedIn(open) : msgs'[i].seq = msgs[i].seq
     /\ \A e \in Nat \ {open} : Kept(e)
     /\ \A e \in Nat : CommitsIn(e)' = CommitsIn(e)
  \/ /\ Len(msgs') = id /\ epochRow'.epoch = open + 1 /\ epochRow'.sequence = 0
     /\ CommitsIn(open)' = {id}
     /\ \A e \in Nat \ {open} : CommitsIn(e)' = CommitsIn(e)
     /\ \A e \in Nat : Kept(e)

\* A step of the log is a step of the history.
LEMMA HistorySteps ==
  ASSUME TypeOK, LinearInv, LogStep, NEW open, NEW last, NEW id,
         open = epochRow.epoch, last = epochRow.sequence, id = Len(msgs) + 1
  PROVE  HistoryStep(open, last, id)
  <1>1. msgs \in Seq(Row) /\ Len(msgs) \in Nat /\ open \in Nat /\ last \in Nat
    BY RowType DEF TypeOK
  <1>2. CASE SameLog
    BY <1>2 DEF SameLog, HistoryStep, Kept, NumberedIn, CommitsIn, Ids
  <1>3. ASSUME NEW i \in Ids, Deletes(i)
        PROVE  HistoryStep(open, last, id)
    <2>1. /\ Ids' = Ids
          /\ \A j \in Ids : /\ msgs'[j].kind = msgs[j].kind /\ msgs'[j].epoch = msgs[j].epoch
                            /\ msgs'[j].seq = msgs[j].seq /\ msgs'[j].editOf = msgs[j].editOf
      BY <1>1, <1>3, Deleted
    <2>2. epochRow' = epochRow
      BY <1>3 DEF Deletes
    <2>3. \A e \in Nat : Kept(e) /\ CommitsIn(e)' = CommitsIn(e)
      BY <2>1 DEF NumberedIn, CommitsIn, Kept
    <2> QED BY <2>2, <2>3 DEF HistoryStep
  <1>4. ASSUME NEW r \in Row, msgs' = Append(msgs, r)
        PROVE  /\ Len(msgs') = id /\ Ids' = Ids \cup {id} /\ id \notin Ids
               /\ \A i \in Ids : msgs'[i] = msgs[i]
               /\ msgs'[id] = r
    BY <1>1, <1>4, Appended
  <1>5. ASSUME NEW r \in Row, msgs' = Append(msgs, r), EditRow(r) \/ BotRow(r)
        PROVE  HistoryStep(open, last, id)
    <2>1. epochRow' = epochRow /\ r.kind # "commit" /\ (r.kind \in Numbered => r.editOf # 0)
      BY <1>5 DEF EditRow, BotRow, Numbered, Ids
    <2>2. \A e \in Nat : Kept(e) /\ CommitsIn(e)' = CommitsIn(e)
      BY <1>4, <1>5, <2>1, ZenonT(60) DEF NumberedIn, CommitsIn, Kept
    <2> QED BY <2>1, <2>2 DEF HistoryStep
  <1>6. ASSUME NEW r \in Row, msgs' = Append(msgs, r), NumberedRow(r)
        PROVE  HistoryStep(open, last, id)
    <2>1. /\ r.kind \in Numbered /\ r.kind # "commit" /\ r.editOf = 0 /\ r.epoch = open
          /\ r.seq = last + 1 /\ epochRow'.epoch = open /\ epochRow'.sequence = last + 1
      BY <1>6 DEF NumberedRow, Numbered
    <2>2. NumberedIn(open)' = NumberedIn(open) \cup {id}
      BY <1>4, <1>6, <2>1, ZenonT(90) DEF NumberedIn
    <2>3. \A e \in Nat \ {open} : Kept(e)
      BY <1>4, <1>6, <2>1, ZenonT(90) DEF NumberedIn, Kept
    <2>4. \A e \in Nat : CommitsIn(e)' = CommitsIn(e)
      BY <1>4, <1>6, <2>1, ZenonT(60) DEF CommitsIn
    <2>5. \A i \in NumberedIn(open) : msgs'[i].seq = msgs[i].seq
      BY <1>4, <1>6 DEF NumberedIn
    <2>6. Len(msgs') = id /\ msgs'[id].seq = last + 1
      BY <1>4, <1>6, <2>1
    <2> QED BY <2>1, <2>2, <2>3, <2>4, <2>5, <2>6 DEF HistoryStep
  <1>7. ASSUME NEW r \in Row, msgs' = Append(msgs, r), CommitRow(r)
        PROVE  HistoryStep(open, last, id)
    <2>1. /\ r.kind = "commit" /\ r.kind \notin Numbered /\ r.epoch = open
          /\ epochRow'.epoch = open + 1 /\ epochRow'.sequence = 0
      BY <1>7 DEF CommitRow, Numbered
    <2>2. \A j \in Ids : msgs[j].kind = "commit" => msgs[j].epoch # open
      <3>1. CommitsIn(open) = {}
        BY <1>1 DEF LinearInv, EpochInLine
      <3> QED BY <3>1 DEF CommitsIn
    <2>3. CommitsIn(open)' = {id}
      BY <1>4, <1>7, <2>1, <2>2, ZenonT(90) DEF CommitsIn
    <2>4. \A e \in Nat \ {open} : CommitsIn(e)' = CommitsIn(e)
      BY <1>4, <1>7, <2>1 DEF CommitsIn
    <2>5. \A e \in Nat : Kept(e)
      BY <1>4, <1>7, <2>1 DEF NumberedIn, Kept
    <2>6. Len(msgs') = id
      BY <1>4, <1>7
    <2> QED BY <2>1, <2>3, <2>4, <2>5, <2>6 DEF HistoryStep
  <1> QED BY <1>2, <1>3, <1>5, <1>6, <1>7 DEF LogStep

\* An epoch that is left alone has the same history after the step.
LEMMA HistoryKept ==
  ASSUME NEW e, Kept(e)
  PROVE  NumbersOf(e)' = NumbersOf(e) /\ History(e)' = History(e)
  <1>1. NumbersOf(e)' = NumbersOf(e)
    BY DEF NumbersOf, Kept
  <1>2. \A n \in NumbersOf(e) : WithNumber(e, n)' = WithNumber(e, n)
    BY DEF WithNumber, Kept
  <1> QED BY <1>1, <1>2 DEF History

\* The history of an epoch whose numbers are 1 .. n is a sequence of ids.
LEMMA HistoryIsSeq ==
  ASSUME NEW e, NEW n \in Nat, NumbersOf(e) = 1..n
  PROVE  History(e) \in Seq(Ids) /\ Len(History(e)) = n
  <1>1. ASSUME NEW k \in 1..n
        PROVE  (CHOOSE i \in WithNumber(e, k) : TRUE) \in Ids
    <2>1. WithNumber(e, k) # {} /\ WithNumber(e, k) \subseteq Ids
      BY DEF NumbersOf, WithNumber, NumberedIn
    <2> QED BY <2>1
  <1>2. History(e) \in [1..n -> Ids]
    BY <1>1 DEF History
  <1> HIDE DEF History
  <1> QED BY <1>2, SeqDef, LenProperties

\* The history is linear at the start,
LEMMA LinearInit == Init => LinearInv
  <1> SUFFICES ASSUME Init
               PROVE  LinearInv
    OBVIOUS
  <1>1. Ids = {} /\ Len(msgs) = 0 /\ epochRow.epoch = 0 /\ epochRow.sequence = 0
    BY DEF Init, Ids
  <1>2. ASSUME NEW e \in Nat
        PROVE  EpochInLine(e)
    <2>1. CommitsIn(e) = {} /\ NumberedIn(e) = {}
      BY <1>1 DEF CommitsIn, NumberedIn
    <2>2. NumbersOf(e) = {} /\ 1..0 = {}
      BY <2>1 DEF NumbersOf
    <2>3. FromOne(NumbersOf(e))
      BY <2>2 DEF FromOne
    <2> QED BY <1>1, <2>1, <2>2, <2>3 DEF EpochInLine
  <1> QED BY <1>1, <1>2, RoomLogAssumption DEF LinearInv

\* and every step of it keeps it so.
LEMMA LinearStep ==
  ASSUME TypeOK, LinearInv, NEW open \in Nat, NEW last \in Nat, NEW id,
         open = epochRow.epoch, last = epochRow.sequence,
         HistoryStep(open, last, id), Len(msgs') <= MaxRows
  PROVE  LinearInv'
  <1>1. SUFFICES ASSUME NEW e \in Nat
                 PROVE  EpochInLine(e)'
    BY DEF LinearInv
  <1>2. /\ e < open => CommitsIn(e) # {}
        /\ e >= open => CommitsIn(e) = {}
        /\ e > open => NumberedIn(e) = {}
        /\ e = open => NumbersOf(e) = 1..last
        /\ FromOne(NumbersOf(e))
    BY DEF LinearInv, EpochInLine
  <1>3. CASE /\ epochRow' = epochRow
             /\ \A x \in Nat : Kept(x) /\ CommitsIn(x)' = CommitsIn(x)
    <2>1. /\ NumberedIn(e)' = NumberedIn(e) /\ NumbersOf(e)' = NumbersOf(e)
          /\ CommitsIn(e)' = CommitsIn(e)
      BY <1>3, HistoryKept DEF Kept
    <2> QED BY <1>2, <1>3, <2>1 DEF EpochInLine
  <1>4. CASE /\ Len(msgs') = id /\ epochRow'.epoch = open /\ epochRow'.sequence = last + 1
             /\ msgs'[id].seq = last + 1
             /\ NumberedIn(open)' = NumberedIn(open) \cup {id}
             /\ \A i \in NumberedIn(open) : msgs'[i].seq = msgs[i].seq
             /\ \A x \in Nat \ {open} : Kept(x)
             /\ \A x \in Nat : CommitsIn(x)' = CommitsIn(x)
    <2>1. CommitsIn(e)' = CommitsIn(e)
      BY <1>4
    <2>2. CASE e # open
      <3>1. NumberedIn(e)' = NumberedIn(e) /\ NumbersOf(e)' = NumbersOf(e)
        BY <1>4, <2>2, HistoryKept DEF Kept
      <3> QED BY <1>2, <1>4, <2>1, <2>2, <3>1 DEF EpochInLine
    <2>3. CASE e = open
      <3>1. NumbersOf(open)' = NumbersOf(open) \cup {last + 1}
        BY <1>4 DEF NumbersOf
      <3>2. NumbersOf(e)' = NumbersOf(e) \cup {last + 1}
        BY <2>3, <3>1
      <3>3. (1..last) \cup {last + 1} = 1..(last + 1)
        OBVIOUS
      <3>4. NumbersOf(e)' = 1..(last + 1)
        BY <1>2, <2>3, <3>2, <3>3
      <3>5. FromOne(NumbersOf(e))'
        BY <3>4 DEF FromOne
      <3> QED BY <1>2, <1>4, <2>1, <2>3, <3>4, <3>5 DEF EpochInLine
    <2> QED BY <2>2, <2>3
  <1>5. CASE /\ Len(msgs') = id /\ epochRow'.epoch = open + 1 /\ epochRow'.sequence = 0
             /\ CommitsIn(open)' = {id}
             /\ \A x \in Nat \ {open} : CommitsIn(x)' = CommitsIn(x)
             /\ \A x \in Nat : Kept(x)
    <2>1. NumberedIn(e)' = NumberedIn(e) /\ NumbersOf(e)' = NumbersOf(e)
      BY <1>5, HistoryKept DEF Kept
    <2>2. e = open + 1 => NumbersOf(e)' = 1..0
      <3>1. e = open + 1 => NumberedIn(e) = {}
        BY <1>2
      <3>2. NumberedIn(e) = {} => NumbersOf(e) = {}
        BY DEF NumbersOf
      <3> QED BY <2>1, <3>1, <3>2
    <2>3. /\ e < open + 1 => CommitsIn(e)' # {}
          /\ e >= open + 1 => CommitsIn(e)' = {}
      <3>1. CASE e = open
        <4>1. CommitsIn(e)' = {id}
          BY <1>5, <3>1
        <4> QED BY <3>1, <4>1
      <3>2. CASE e # open
        <4>1. CommitsIn(e)' = CommitsIn(e)
          BY <1>5, <3>2
        <4> QED BY <1>2, <3>2, <4>1
      <3> QED BY <3>1, <3>2
    <2>4. e > open + 1 => NumberedIn(e)' = {}
      BY <1>2, <2>1
    <2>5. FromOne(NumbersOf(e))'
      BY <1>2, <2>1
    <2> QED BY <1>5, <2>2, <2>3, <2>4, <2>5 DEF EpochInLine
  <1> QED BY <1>3, <1>4, <1>5 DEF HistoryStep

\* Appending, by what stands at each position.
LEMMA AppendIs ==
  ASSUME NEW S, NEW s \in Seq(S), NEW x \in S, NEW n \in Nat, n = Len(s)
  PROVE  Append(s, x) = [k \in 1..(n + 1) |-> IF k = n + 1 THEN x ELSE s[k]]
  <1> DEFINE t == Append(s, x)
             u == [k \in 1..(n + 1) |-> IF k = n + 1 THEN x ELSE s[k]]
  <1>1. t \in Seq(S) /\ Len(t) = n + 1 /\ t[n + 1] = x /\ \A k \in 1..n : t[k] = s[k]
    BY AppendProperties
  <1>2. \A k \in 1..(n + 1) : u[k] \in S /\ u[k] = t[k]
    <2>1. \A k \in 1..n : s[k] \in S
      BY ElementOfSeq
    <2>2. \A k \in 1..(n + 1) : k = n + 1 \/ (k # n + 1 /\ k \in 1..n)
      OBVIOUS
    <2> HIDE DEF t
    <2> QED BY <1>1, <2>1, <2>2
  <1>3. u \in Seq(S) /\ Len(u) = n + 1
    <2>1. u \in [1..(n + 1) -> S]
      BY <1>2
    <2> HIDE DEF u
    <2> QED BY <2>1, SeqDef, LenProperties
  <1> HIDE DEF t, u
  <1>4. t = u
    BY <1>1, <1>2, <1>3, SeqEqual
  <1> QED BY <1>4 DEF t, u

\* A closed epoch with its commit.
ClosedEpoch(e) == Append(History(e), CHOOSE i \in CommitsIn(e) : TRUE)

\* What the refinement mapping gives: sequences of ids of the log.
LEMMA MappingTyped ==
  ASSUME TypeOK, LinearInv
  PROVE  /\ OpenEpoch \in Seq(Ids)
         /\ ClosedEpochs = [e \in 1..epochRow.epoch |-> ClosedEpoch(e - 1)]
         /\ ClosedEpochs \in Seq(Seq(Ids)) /\ Len(ClosedEpochs) = epochRow.epoch
         /\ \A id \in Linear!Used : id \in Ids
  <1>1. epochRow.epoch \in Nat /\ epochRow.sequence \in Nat
    BY DEF TypeOK
  <1>2. OpenEpoch \in Seq(Ids)
    BY <1>1, HistoryIsSeq DEF OpenEpoch, LinearInv, EpochInLine
  <1>3. ASSUME NEW e \in 1..epochRow.epoch
        PROVE  ClosedEpoch(e - 1) \in Seq(Ids)
    <2>1. e - 1 \in Nat /\ ~ (e - 1 >= epochRow.epoch)
      BY <1>1
    <2>2. PICK n \in Nat : NumbersOf(e - 1) = 1..n
      BY <2>1 DEF LinearInv, EpochInLine, FromOne
    <2>3. History(e - 1) \in Seq(Ids)
      BY <2>2, HistoryIsSeq
    <2>4. CommitsIn(e - 1) # {} /\ CommitsIn(e - 1) \subseteq Ids
      BY <1>1, <2>1 DEF LinearInv, EpochInLine, CommitsIn
    <2>5. (CHOOSE i \in CommitsIn(e - 1) : TRUE) \in Ids
      BY <2>4
    <2> QED BY <2>3, <2>5, AppendProperties DEF ClosedEpoch
  <1>4. ClosedEpochs = [e \in 1..epochRow.epoch |-> ClosedEpoch(e - 1)]
    BY DEF ClosedEpochs, ClosedEpoch
  <1>5. ClosedEpochs \in Seq(Seq(Ids)) /\ Len(ClosedEpochs) = epochRow.epoch
    <2>1. ClosedEpochs \in [1..epochRow.epoch -> Seq(Ids)]
      BY <1>3, <1>4
    <2> HIDE DEF ClosedEpochs
    <2> QED BY <1>1, <2>1, SeqDef, LenProperties
  <1>6. \A id \in Linear!Used : id \in Ids
    <2>1. \A k \in 1..Len(OpenEpoch) : OpenEpoch[k] \in Ids
      BY <1>2, ElementOfSeq
    <2>2. \A e \in 1..Len(ClosedEpochs) : ClosedEpochs[e] \in Seq(Ids)
      BY <1>5, ElementOfSeq
    <2>3. \A e \in 1..Len(ClosedEpochs) : \A k \in 1..Len(ClosedEpochs[e]) : ClosedEpochs[e][k] \in Ids
      BY <2>2, ElementOfSeq
    <2> QED BY <2>1, <2>3 DEF Linear!Used
  <1> QED BY <1>2, <1>4, <1>5, <1>6

\* A step of the history is a step of LinearLog, or changes nothing there.
LEMMA LinearSteps ==
  ASSUME TypeOK, TypeOK', LinearInv, LinearInv', NEW open \in Nat, NEW last \in Nat, NEW id,
         open = epochRow.epoch, last = epochRow.sequence, id = Len(msgs) + 1,
         HistoryStep(open, last, id)
  PROVE  [Linear!Next]_(Linear!vars)
  <1>1. /\ OpenEpoch \in Seq(Ids) /\ ClosedEpochs \in Seq(Seq(Ids)) /\ Len(ClosedEpochs) = open
        /\ ClosedEpochs = [e \in 1..open |-> ClosedEpoch(e - 1)]
        /\ \A x \in Linear!Used : x \in Ids
    BY MappingTyped
  <1>2. OpenEpoch = History(open) /\ Len(OpenEpoch) = last
    BY HistoryIsSeq DEF OpenEpoch, LinearInv, EpochInLine
  <1>3. id \notin Linear!Used /\ id \in Nat \ {0}
    BY <1>1 DEF Ids, TypeOK
  <1>4. Len(msgs') = id => id \in 1..MaxRows
    BY <1>3, RoomLogAssumption DEF LinearInv
  <1>5. ClosedEpochs' = [e \in 1..epochRow'.epoch |-> ClosedEpoch(e - 1)']
    BY DEF ClosedEpochs, ClosedEpoch, History, NumbersOf, WithNumber, NumberedIn, CommitsIn
  <1>6. ASSUME NEW e \in Nat, Kept(e), CommitsIn(e)' = CommitsIn(e)
        PROVE  ClosedEpoch(e)' = ClosedEpoch(e)
    BY <1>6, HistoryKept DEF ClosedEpoch
  <1>7. ASSUME epochRow'.epoch = open, \A e \in Nat \ {open} : Kept(e) /\ CommitsIn(e)' = CommitsIn(e)
        PROVE  ClosedEpochs' = ClosedEpochs
    <2>1. \A e \in 1..open : e - 1 \in Nat \ {open}
      OBVIOUS
    <2> QED BY <1>1, <1>5, <1>6, <1>7, <2>1
  <1>8. ASSUME epochRow'.epoch = open
        PROVE  OpenEpoch' = History(open)'
    BY <1>8 DEF OpenEpoch, History, NumbersOf, WithNumber, NumberedIn
  <1>9. CASE /\ epochRow' = epochRow
             /\ \A e \in Nat : Kept(e) /\ CommitsIn(e)' = CommitsIn(e)
    <2>1. OpenEpoch' = OpenEpoch
      BY <1>2, <1>8, <1>9, HistoryKept
    <2>2. ClosedEpochs' = ClosedEpochs
      BY <1>7, <1>9
    <2> QED BY <2>1, <2>2 DEF Linear!vars
  <1>10. CASE /\ Len(msgs') = id /\ epochRow'.epoch = open /\ epochRow'.sequence = last + 1
              /\ msgs'[id].seq = last + 1
              /\ NumberedIn(open)' = NumberedIn(open) \cup {id}
              /\ \A i \in NumberedIn(open) : msgs'[i].seq = msgs[i].seq
              /\ \A e \in Nat \ {open} : Kept(e)
              /\ \A e \in Nat : CommitsIn(e)' = CommitsIn(e)
    <2>1. ClosedEpochs' = ClosedEpochs
      BY <1>7, <1>10
    <2>2. NumbersOf(open) = 1..last /\ NumbersOf(open)' = 1..(last + 1)
      <3>1. NumbersOf(open) = 1..last
        BY DEF LinearInv, EpochInLine
      <3>2. NumbersOf(open)' = NumbersOf(open) \cup {last + 1}
        BY <1>10 DEF NumbersOf
      <3> QED BY <3>1, <3>2
    <2>3. \A n \in 1..last : WithNumber(open, n)' = WithNumber(open, n)
      BY <1>10 DEF WithNumber
    <2>4. WithNumber(open, last + 1)' = {id}
      <3>1. \A i \in NumberedIn(open) : msgs[i].seq # last + 1
        BY <2>2 DEF NumbersOf
      <3> QED BY <1>10, <3>1 DEF WithNumber
    <2>5. History(open)' = [n \in 1..(last + 1) |-> IF n = last + 1 THEN id ELSE History(open)[n]]
      <3>1. (CHOOSE i \in {id} : TRUE) = id
        OBVIOUS
      <3>2. \A n \in 1..last : History(open)[n] = CHOOSE i \in WithNumber(open, n) : TRUE
        BY <2>2 DEF History
      <3>3. History(open)' = [n \in 1..(last + 1) |-> CHOOSE i \in WithNumber(open, n)' : TRUE]
        BY <2>2 DEF History
      <3>4. \A n \in 1..(last + 1) : n = last + 1 \/ n \in 1..last
        OBVIOUS
      <3> QED BY <2>3, <2>4, <3>1, <3>2, <3>3, <3>4
    <2>6. OpenEpoch' = Append(OpenEpoch, id)
      BY <1>1, <1>2, <1>8, <1>10, <2>5, LenProperties
    <2> QED BY <1>3, <1>4, <1>10, <2>1, <2>6 DEF Linear!Next, Linear!Extend
  <1>11. CASE /\ Len(msgs') = id /\ epochRow'.epoch = open + 1 /\ epochRow'.sequence = 0
              /\ CommitsIn(open)' = {id}
              /\ \A e \in Nat \ {open} : CommitsIn(e)' = CommitsIn(e)
              /\ \A e \in Nat : Kept(e)
    <2>1. OpenEpoch' = <<>>
      <3>1. OpenEpoch' \in Seq(Ids') /\ Len(OpenEpoch') = 0
        <4>1. OpenEpoch' = History(open + 1)'
          BY <1>11 DEF OpenEpoch, History, NumbersOf, WithNumber, NumberedIn
        <4>2. NumbersOf(open + 1) = 1..0
          <5>1. open + 1 \in Nat /\ open + 1 > open
            OBVIOUS
          <5>2. NumberedIn(open + 1) = {}
            BY <5>1 DEF LinearInv, EpochInLine
          <5> QED BY <5>2 DEF NumbersOf
        <4>3. History(open + 1) \in Seq(Ids) /\ Len(History(open + 1)) = 0
          BY <4>2, HistoryIsSeq
        <4>4. History(open + 1)' = History(open + 1)
          BY <1>11, HistoryKept
        <4> QED BY <1>1, <1>11, <4>1, <4>3, <4>4 DEF Ids
      <3> QED BY <3>1, EmptySeq
    <2>2. ClosedEpoch(open)' = Append(OpenEpoch, id)
      BY <1>2, <1>11, HistoryKept DEF ClosedEpoch
    <2>3. \A e \in 1..open : ClosedEpoch(e - 1)' = ClosedEpochs[e]
      BY <1>1, <1>6, <1>11
    <2>4. ClosedEpochs' = [e \in 1..(open + 1) |-> IF e = open + 1 THEN Append(OpenEpoch, id) ELSE ClosedEpochs[e]]
      <3>1. \A e \in 1..(open + 1) : (e = open + 1 /\ e - 1 = open) \/ (e # open + 1 /\ e \in 1..open)
        OBVIOUS
      <3> QED BY <1>5, <1>11, <2>2, <2>3, <3>1
    <2>5. ClosedEpochs' = Append(ClosedEpochs, Append(OpenEpoch, id))
      <3>1. Append(OpenEpoch, id) \in Seq(Nat) /\ ClosedEpochs \in Seq(Seq(Nat))
        <4>1. OpenEpoch \in Seq(Nat)
          BY <1>1 DEF Ids
        <4>2. \A e \in 1..open : ClosedEpochs[e] \in Seq(Nat)
          BY <1>1, ElementOfSeq DEF Ids
        <4>3. ClosedEpochs \in [1..open -> Seq(Nat)]
          BY <1>1, <4>2
        <4> HIDE DEF ClosedEpochs, OpenEpoch
        <4> QED BY <1>3, <4>1, <4>3, AppendProperties, SeqDef, SMTT(60)
      <3> QED BY <1>1, <2>4, <3>1, AppendIs, SMTT(60)
    <2> QED BY <1>3, <1>4, <1>11, <2>1, <2>5 DEF Linear!Next, Linear!Close
  <1> QED BY <1>9, <1>10, <1>11 DEF HistoryStep

\* The message endpoint (submit_message, edit_message, delete_message and the
\* bots' one) implements LinearLog: every step extends the open epoch by one
\* message, closes it with one commit, or leaves the history as it is.
THEOREM LogIsLinear == Spec => ImplementsLinearLog
  <1>1. Init => Linear!Init
    <2> SUFFICES ASSUME Init
                 PROVE  Linear!Init
      OBVIOUS
    <2>1. epochRow.epoch = 0 /\ NumbersOf(0) = {}
      BY DEF Init, NumbersOf, NumberedIn, Ids
    <2>2. ClosedEpochs = <<>>
      BY <2>1 DEF ClosedEpochs
    <2>3. OpenEpoch = <<>>
      BY <2>1 DEF OpenEpoch, History
    <2> QED BY <2>2, <2>3 DEF Linear!Init
  <1>2. TypeOK /\ LinearInv /\ [Next]_vars => LinearInv' /\ [Linear!Next]_(Linear!vars)
    <2> SUFFICES ASSUME TypeOK, LinearInv, [Next]_vars
                 PROVE  LinearInv' /\ [Linear!Next]_(Linear!vars)
      OBVIOUS
    <2>1. PICK open \in Nat, last \in Nat, id \in Nat :
            open = epochRow.epoch /\ last = epochRow.sequence /\ id = Len(msgs) + 1
      BY RowType DEF TypeOK
    <2>2. HistoryStep(open, last, id)
      BY <2>1, LogSteps, HistorySteps
    <2>3. Len(msgs') <= MaxRows
      BY RowsBounded DEF LinearInv
    <2>4. LinearInv'
      BY <2>1, <2>2, <2>3, LinearStep
    <2>5. TypeOK'
      BY TypeNext
    <2> QED BY <2>1, <2>2, <2>4, <2>5, LinearSteps
  <1> QED BY <1>1, <1>2, LinearInit, TypeCorrect, PTL DEF Spec, ImplementsLinearLog, Linear!Spec

=============================================================================
