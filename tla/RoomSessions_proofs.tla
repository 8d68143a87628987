------------------------ MODULE RoomSessions_proofs ------------------------
(***************************************************************************)
(* Theorems about RoomSessions, for any users, clients, sessions, roles    *)
(* and limits.                                                             *)
(***************************************************************************)
EXTENDS RoomSessions, NatLemmas, FiniteSetTheorems, SequenceTheorems, TLAPS

(***************************************************************************)
(* Operators.                                                              *)
(***************************************************************************)

\* How many elements come before s, by value and then by id.
Rank(S, p, s) ==
  Cardinality({t \in S : p[t] < p[s] \/ (p[t] = p[s] /\ t < s)})

\* ORDER BY position, id is a total order: the ranks of a finite set are
\* exactly 0, 1, ..., one for each element.
LEMMA RanksDense ==
  ASSUME NEW S \in SUBSET Nat, IsFiniteSet(S), NEW p \in [S -> Nat]
  PROVE  /\ \A s \in S : Rank(S, p, s) \in Nat
         /\ {Rank(S, p, s) : s \in S} = 0 .. Cardinality(S) - 1
  <1> DEFINE Below(s) == {t \in S : p[t] < p[s] \/ (p[t] = p[s] /\ t < s)}
             rank == [s \in S |-> Cardinality(Below(s))]
             R == {rank[s] : s \in S}
  <1>1. \A s \in S : Below(s) \in SUBSET S /\ s \notin Below(s)
    OBVIOUS
  <1>2. Cardinality(S) \in Nat
    BY FS_CardinalityType
  <1>3. ASSUME NEW s \in S
        PROVE  Cardinality(Below(s)) \in 0 .. Cardinality(S) - 1
    <2> HIDE DEF Below
    <2>1. IsFiniteSet(Below(s)) /\ Cardinality(Below(s)) <= Cardinality(S)
      BY <1>1, FS_Subset
    <2>2. Cardinality(Below(s)) # Cardinality(S)
      BY <1>1, FS_Subset
    <2>3. Cardinality(Below(s)) \in Nat
      BY <2>1, FS_CardinalityType
    <2> QED BY <1>2, <2>1, <2>2, <2>3
  <1>4. ASSUME NEW s \in S, NEW t \in S, t \in Below(s)
        PROVE  Cardinality(Below(t)) < Cardinality(Below(s))
    <2>1. Below(t) \in SUBSET Below(s) /\ t \notin Below(t)
      <3>1. s \in Nat /\ t \in Nat /\ p[s] \in Nat /\ p[t] \in Nat
        OBVIOUS
      <3>2. ASSUME NEW u \in Below(t) PROVE u \in Below(s)
        <4>1. u \in S /\ u \in Nat /\ p[u] \in Nat
          OBVIOUS
        <4> QED BY <1>4, <3>1, <4>1
      <3> QED BY <1>1, <3>2
    <2> HIDE DEF Below
    <2>2. IsFiniteSet(Below(s)) /\ Cardinality(Below(s)) \in Nat
      BY <1>1, FS_Subset, FS_CardinalityType
    <2>3. Cardinality(Below(t)) <= Cardinality(Below(s)) /\ Below(t) # Below(s)
      BY <2>1, <2>2, <1>4, FS_Subset
    <2>4. Cardinality(Below(t)) # Cardinality(Below(s))
      BY <2>1, <2>2, <2>3, FS_Subset
    <2>5. Cardinality(Below(t)) \in Nat
      BY <1>3
    <2> QED BY <2>2, <2>3, <2>4, <2>5
  <1>5. ASSUME NEW s \in S, NEW t \in S, s # t
        PROVE  s \in Below(t) \/ t \in Below(s)
    <2>1. s \in Nat /\ t \in Nat /\ p[s] \in Nat /\ p[t] \in Nat
      OBVIOUS
    <2> QED BY <1>5, <2>1
  <1>6. \A s, t \in S : rank[s] = rank[t] => s = t
    <2> SUFFICES ASSUME NEW s \in S, NEW t \in S, rank[s] = rank[t], s # t PROVE FALSE
      <3> HIDE DEF rank
      <3> QED OBVIOUS
    <2>1. Cardinality(Below(s)) < Cardinality(Below(t))
          \/ Cardinality(Below(t)) < Cardinality(Below(s))
      BY <1>4, <1>5
    <2>2. rank[s] = Cardinality(Below(s)) /\ rank[t] = Cardinality(Below(t))
      OBVIOUS
    <2>3. Cardinality(Below(s)) \in Nat /\ Cardinality(Below(t)) \in Nat
      BY <1>3
    <2>4. ~ rank[s] < rank[t] /\ ~ rank[t] < rank[s]
      <3> rank[s] \in Nat /\ rank[t] \in Nat
        BY <2>2, <2>3
      <3> HIDE DEF Below, rank, R
      <3> QED OBVIOUS
    <2> HIDE DEF Below, rank, R
    <2> QED BY <2>1, <2>2, <2>4
  <1>7. rank \in Bijection(S, R)
    <2>1. rank \in [S -> R] /\ \A r \in R : \E s \in S : rank[s] = r
      <3>1. DOMAIN rank = S /\ rank = [s \in S |-> rank[s]]
        OBVIOUS
      <3> HIDE DEF rank
      <3> QED BY <3>1
    <2>2. \A s, t \in S : rank[s] = rank[t] => s = t
      BY <1>6
    <2> HIDE DEF Below, rank, R
    <2>3. rank \in Injection(S, R) /\ rank \in Surjection(S, R)
      BY <2>1, <2>2 DEF Injection, Surjection, IsInjective
    <2> QED BY <2>3 DEF Bijection
  <1>8. IsFiniteSet(R) /\ Cardinality(R) = Cardinality(S)
    <2> HIDE DEF R, rank
    <2>1. ExistsBijection(S, R)
      BY <1>7 DEF ExistsBijection
    <2> QED BY <2>1, FS_Bijection
  <1>9. R \in SUBSET (0 .. Cardinality(S) - 1)
    <2>1. \A s \in S : rank[s] \in 0 .. Cardinality(S) - 1
      BY <1>3
    <2> HIDE DEF rank
    <2> QED BY <2>1
  <1>10. IsFiniteSet(0 .. Cardinality(S) - 1)
         /\ Cardinality(0 .. Cardinality(S) - 1) = Cardinality(S)
    BY <1>2, FS_Interval, 0 \in Int, Cardinality(S) - 1 \in Int
  <1>11. R = 0 .. Cardinality(S) - 1
    <2> HIDE DEF R
    <2> QED BY <1>8, <1>9, <1>10, FS_Subset
  <1>12. \A s \in S : rank[s] = Rank(S, p, s)
    BY DEF Rank
  <1>13. R = {Rank(S, p, s) : s \in S}
    <2> HIDE DEF rank
    <2> QED BY <1>12
  <1>14. \A s \in S : Rank(S, p, s) \in Nat
    <2> HIDE DEF Below
    <2> QED BY <1>3, <1>12
  <1> QED BY <1>11, <1>13, <1>14

RowsOf(rows) == {s \in Sessions : rows[s] # NoRow}

\* resequence_positions keeps every row and leaves the positions dense.
LEMMA ResequencedDense ==
  ASSUME NEW rows \in [Sessions -> RowType \cup {NoRow}],
         IsFiniteSet(RowsOf(rows))
  PROVE  LET new == Resequenced(rows)
         IN  /\ new \in [Sessions -> RowType \cup {NoRow}]
             /\ RowsOf(new) = RowsOf(rows)
             /\ {new[s].position : s \in RowsOf(rows)} = 0 .. Cardinality(RowsOf(rows)) - 1
  <1> DEFINE S == RowsOf(rows)
             p == [s \in S |-> rows[s].position]
             new == Resequenced(rows)
  <1>1. S \in SUBSET Nat /\ S \subseteq Sessions
    BY RoomSessionsAssumption DEF RowsOf
  <1>2. \A s \in S : rows[s] \in RowType
    BY DEF RowsOf
  <1>3. p \in [S -> Nat]
    BY <1>2 DEF RowType
  <1>4. /\ \A s \in S : Rank(S, p, s) \in Nat
        /\ {Rank(S, p, s) : s \in S} = 0 .. Cardinality(S) - 1
    <2> HIDE DEF S, p
    <2> QED BY <1>1, <1>3, RanksDense DEF S
  <1>5. \A s \in Sessions \ S : rows[s] = NoRow /\ new[s] = NoRow
    BY DEF RowsOf, Resequenced
  <1>6. ASSUME NEW s \in S
        PROVE  new[s] = [rows[s] EXCEPT !.position = Rank(S, p, s)]
    <2>1. {t \in Sessions : rows[t] # NoRow /\
             (\/ rows[t].position < rows[s].position
              \/ rows[t].position = rows[s].position /\ t < s)}
          = {t \in S : p[t] < p[s] \/ (p[t] = p[s] /\ t < s)}
      BY DEF RowsOf
    <2>2. s \in Sessions /\ rows[s] # NoRow
      BY DEF RowsOf
    <2>3. new[s] = [rows[s] EXCEPT !.position =
            Cardinality({t \in Sessions : rows[t] # NoRow /\
             (\/ rows[t].position < rows[s].position
              \/ rows[t].position = rows[s].position /\ t < s)})]
      BY <2>2 DEF Resequenced
    <2> QED BY <2>1, <2>3 DEF Rank
  <1>7. ASSUME NEW s \in S
        PROVE  new[s] \in RowType /\ new[s] # NoRow /\ new[s].position = Rank(S, p, s)
    <2>1. rows[s] \in RowType /\ Rank(S, p, s) \in Nat
      BY <1>2, <1>4
    <2>2. new[s] = [rows[s] EXCEPT !.position = Rank(S, p, s)]
      BY <1>6
    <2> HIDE DEF new, p, S
    <2>3. new[s] \in RowType /\ new[s].position = Rank(S, p, s)
      BY <2>1, <2>2 DEF RowType
    <2> QED BY <2>3, RoomSessionsAssumption DEF RowType
  <1>8. DOMAIN new = Sessions /\ new = [s \in Sessions |-> new[s]]
    BY DEF Resequenced
  <1>9. RowsOf(new) = S
    <2> HIDE DEF new, p
    <2> QED BY <1>5, <1>7 DEF RowsOf
  <1>10. {new[s].position : s \in S} = {Rank(S, p, s) : s \in S}
    <2> HIDE DEF new, p, S
    <2> QED BY <1>7
  <1>11. new \in [Sessions -> RowType \cup {NoRow}]
    <2> \A s \in Sessions : new[s] \in RowType \cup {NoRow}
      <3> HIDE DEF new, p, S
      <3> QED BY <1>5, <1>7
    <2> HIDE DEF new, p, S
    <2> QED BY <1>8
  <1> QED BY <1>4, <1>9, <1>10, <1>11

(***************************************************************************)
(* The rows are in order.                                                  *)
(***************************************************************************)

\* What the positions rest on: the rows and the requests in flight have their
\* types, and a room has finitely many rows.
RowsInv ==
  /\ row \in [Sessions -> RowType \cup {NoRow}]
  /\ request \in [Users -> Request \cup {NoCall}]
  /\ IsFiniteSet(Rows)
  /\ PositionsDense

\* The rows, now and in the next state.
LEMMA RowsAreRowsOf == Rows = RowsOf(row) /\ Rows' = RowsOf(row')
  BY DEF Rows, RowsOf

\* A transaction that ends with resequence_positions leaves dense positions.
LEMMA ResequencedStep ==
  ASSUME NEW rows \in [Sessions -> RowType \cup {NoRow}],
         IsFiniteSet(RowsOf(rows)), row' = Resequenced(rows)
  PROVE  /\ row' \in [Sessions -> RowType \cup {NoRow}]
         /\ IsFiniteSet(Rows')
         /\ PositionsDense'
  <1>1. /\ row' \in [Sessions -> RowType \cup {NoRow}]
        /\ RowsOf(row') = RowsOf(rows)
        /\ {row'[s].position : s \in RowsOf(rows)} = 0 .. Cardinality(RowsOf(rows)) - 1
    BY ResequencedDense
  <1>2. Rows' = RowsOf(rows)
    BY <1>1, RowsAreRowsOf
  <1> QED BY <1>1, <1>2 DEF PositionsDense

\* The places a patch computes are naturals.
LEMMA MovedType ==
  ASSUME NEW s \in Sessions, NEW position \in Int, IsFiniteSet(Rows)
  PROVE  Moved(s, position) \in [Sessions -> Nat]
  <1> DEFINE rest == Rows \ {s}
             Before(t) == {o \in rest : row[o].position < row[t].position}
             target == IF position < 0 \/ position > Cardinality(rest)
                         THEN Cardinality(rest) ELSE position
  <1>1. IsFiniteSet(rest)
    BY FS_RemoveElement
  <1>2. Cardinality(rest) \in Nat
    BY <1>1, FS_CardinalityType
  <1>3. target \in Nat
    BY <1>2
  <1>4. ASSUME NEW t \in Sessions PROVE Cardinality(Before(t)) \in Nat
    <2>1. Before(t) \in SUBSET rest
      OBVIOUS
    <2> HIDE DEF Before, rest
    <2> QED BY <1>1, <2>1, FS_Subset, FS_CardinalityType
  <1>5. \A t \in Sessions : Cardinality(Before(t)) \in Nat
    BY <1>4
  <1>6. Moved(s, position) = [t \in Sessions |->
          IF t = s THEN target
          ELSE IF row[t] = NoRow THEN 0
          ELSE IF Cardinality(Before(t)) < target THEN Cardinality(Before(t))
          ELSE Cardinality(Before(t)) + 1]
    BY DEF Moved
  <1> HIDE DEF target, Before
  <1> QED BY <1>3, <1>5, <1>6

\* Every step keeps them.
LEMMA RowsStep == RowsInv /\ [Next]_vars => RowsInv'
  <1> SUFFICES ASSUME RowsInv, [Next]_vars PROVE RowsInv'
    OBVIOUS
  <1> USE DEF RowsInv
  <1>0. Cardinality(Rows) \in Nat /\ Rows \subseteq Sessions
    BY FS_CardinalityType DEF Rows
  <1>a. ASSUME UNCHANGED row
        PROVE  row' \in [Sessions -> RowType \cup {NoRow}] /\ IsFiniteSet(Rows') /\ PositionsDense'
    <2>1. Rows' = Rows
      BY <1>a DEF Rows
    <2> QED BY <1>a, <2>1 DEF PositionsDense
  <1>b. ASSUME NEW u \in Users, NEW r \in Request \cup {NoCall},
               request' = [request EXCEPT ![u] = r]
        PROVE  request' \in [Users -> Request \cup {NoCall}]
    BY <1>b
  <1>c. NoCall \in Request \cup {NoCall}
    OBVIOUS
  <1>1. ASSUME NEW u \in Users, CreateCheck(u) PROVE RowsInv'
    <2>1. [op |-> "create"] \in Request
      BY DEF Request
    <2> QED BY <1>1, <1>a, <1>b, <2>1 DEF CreateCheck, tables
  <1>2. ASSUME NEW u \in Users, NEW s \in Sessions, PatchRead(u, s) PROVE RowsInv'
    <2>1. row[s] \in RowType
      BY <1>2 DEF PatchRead
    <2>2. [op |-> "patch", session |-> s, version |-> row[s].version,
           position |-> row[s].position] \in Request
      BY <2>1 DEF Request, RowType
    <2> QED BY <1>2, <1>a, <1>b, <2>2 DEF PatchRead, tables
  <1>3. ASSUME NEW u \in Users, NEW s \in Sessions, DeleteRead(u, s) PROVE RowsInv'
    <2>1. [op |-> "delete", session |-> s] \in Request
      BY DEF Request
    <2> QED BY <1>3, <1>a, <1>b, <2>1 DEF DeleteRead, tables
  <1>4. ASSUME NEW u \in Users, NEW s \in Sessions, NEW position \in Positions,
               Create(u, s, position)
        PROVE  RowsInv'
    <2> DEFINE total == Cardinality(Rows)
               target == IF position >= total THEN total
                         ELSE IF position < 0 THEN 0 ELSE position
               moved == [t \in Sessions |->
                   IF row[t] # NoRow /\ row[t].position >= target
                     THEN [row[t] EXCEPT !.position = @ + 1] ELSE row[t]]
               rows == [moved EXCEPT ![s] = [by |-> u, version |-> 1, position |-> target]]
    <2>1. position \in Int
      BY RoomSessionsAssumption DEF Positions
    <2>2. target \in Nat
      BY <1>0, <2>1
    <2>3. moved \in [Sessions -> RowType \cup {NoRow}]
      <3> HIDE DEF target
      <3> \A t \in Sessions : row[t] # NoRow => [row[t] EXCEPT !.position = @ + 1] \in RowType
        BY DEF RowType
      <3> QED OBVIOUS
    <2>4. rows \in [Sessions -> RowType \cup {NoRow}]
      <3> HIDE DEF target, moved
      <3> [by |-> u, version |-> 1, position |-> target] \in RowType
        BY <2>2 DEF RowType
      <3> QED BY <2>3
    <2>5. RowsOf(rows) \in SUBSET (Rows \cup {s})
      <3>1. \A t \in Sessions : row[t] = NoRow => moved[t] = NoRow
        OBVIOUS
      <3>2. \A t \in Sessions : t # s => rows[t] = moved[t]
        <4> HIDE DEF target, moved
        <4> QED BY <2>3
      <3> HIDE DEF moved, rows, target
      <3> QED BY <3>1, <3>2 DEF RowsOf, Rows
    <2>6. IsFiniteSet(RowsOf(rows))
      <3> HIDE DEF rows
      <3>1. IsFiniteSet(Rows \cup {s})
        BY FS_AddElement
      <3> QED BY <2>5, <3>1, FS_Subset
    <2>7. row' = Resequenced(rows) /\ request' = [request EXCEPT ![u] = NoCall]
      BY <1>4 DEF Create
    <2> HIDE DEF rows
    <2> QED BY <2>4, <2>6, <2>7, <1>b, <1>c, ResequencedStep
  <1>5. ASSUME NEW u \in Users, NEW position \in Positions, NEW changed \in BOOLEAN,
               Patch(u, position, changed)
        PROVE  RowsInv'
    <2> DEFINE r == request[u]
               moved == IF position = r.position THEN row
                        ELSE [t \in Sessions |->
                               IF row[t] = NoRow THEN NoRow
                               ELSE [row[t] EXCEPT !.position = Moved(r.session, position)[t]]]
               rows == IF changed THEN [moved EXCEPT ![r.session].version = r.version + 1]
                       ELSE moved
    <2>1. r \in Request /\ r.op = "patch" /\ r.session \in Sessions /\ r.version \in Nat
      BY <1>5 DEF Patch, Request
    <2>2. \A t \in Sessions : Moved(r.session, position)[t] \in Nat
      <3>1. position \in Int
        BY RoomSessionsAssumption DEF Positions
      <3>2. IsFiniteSet(Rows)
        OBVIOUS
      <3>3. Moved(r.session, position) \in [Sessions -> Nat]
        BY <2>1, <3>1, <3>2, MovedType
      <3> QED BY <3>3
    <2>3. moved \in [Sessions -> RowType \cup {NoRow}]
      <3> DEFINE m == Moved(r.session, position)
      <3> HIDE DEF m
      <3>1. \A t \in Sessions : row[t] # NoRow => [row[t] EXCEPT !.position = m[t]] \in RowType
        BY <2>2 DEF RowType, m
      <3> QED BY <3>1 DEF m
    <2>4. \A t \in Sessions : row[t] = NoRow <=> moved[t] = NoRow
      <3> DEFINE m == Moved(r.session, position)
      <3>1. ASSUME NEW t \in Sessions, row[t] # NoRow
            PROVE  [row[t] EXCEPT !.position = m[t]] # NoRow
        <4>1. m[t] \in Nat
          BY <2>2
        <4> HIDE DEF m
        <4>2. [row[t] EXCEPT !.position = m[t]] \in RowType
          BY <3>1, <4>1 DEF RowType
        <4> QED BY <4>2, RoomSessionsAssumption DEF RowType
      <3> HIDE DEF m
      <3> QED BY <3>1 DEF m
    <2>5. moved[r.session] \in RowType
      <3> HIDE DEF moved, r
      <3>1. row[r.session] # NoRow
        BY <1>5 DEF Patch, r
      <3> QED BY <2>1, <2>3, <2>4, <3>1
    <2>6. rows \in [Sessions -> RowType \cup {NoRow}]
      <3> HIDE DEF moved, r
      <3>1. [moved[r.session] EXCEPT !.version = r.version + 1] \in RowType
        BY <2>1, <2>5 DEF RowType
      <3> QED BY <2>3, <3>1
    <2>7. RowsOf(rows) \in SUBSET Rows
      <3> HIDE DEF moved, r
      <3>1. \A t \in Sessions : t # r.session => rows[t] = moved[t]
        BY <2>3
      <3>2. moved[r.session] # NoRow
        BY <2>5, RoomSessionsAssumption DEF RowType
      <3>3. row[r.session] # NoRow
        BY <3>2, <2>1, <2>4
      <3> HIDE DEF rows
      <3> QED BY <3>1, <3>3, <2>4 DEF RowsOf, Rows
    <2>8. IsFiniteSet(RowsOf(rows))
      <3> HIDE DEF rows
      <3> QED BY <2>7, FS_Subset
    <2>9. row' = Resequenced(rows) /\ request' = [request EXCEPT ![u] = NoCall]
      BY <1>5 DEF Patch
    <2> HIDE DEF rows
    <2> QED BY <2>6, <2>8, <2>9, <1>b, <1>c, ResequencedStep
  <1>6. ASSUME NEW u \in Users, DeleteRow(u) PROVE RowsInv'
    <2> DEFINE rows == [row EXCEPT ![request[u].session] = NoRow]
    <2>1. rows \in [Sessions -> RowType \cup {NoRow}]
      OBVIOUS
    <2>2. RowsOf(rows) \in SUBSET Rows
      BY DEF RowsOf, Rows
    <2>3. IsFiniteSet(RowsOf(rows))
      <3> HIDE DEF rows
      <3> QED BY <2>2, FS_Subset
    <2>4. row' = Resequenced(rows) /\ request' = [request EXCEPT ![u].op = "teardown"]
      BY <1>6 DEF DeleteRow
    <2>5. [request[u] EXCEPT !.op = "teardown"] \in Request
      <3>1. request[u] \in Request /\ request[u].op = "delete"
        BY <1>6 DEF DeleteRow
      <3> QED BY <3>1 DEF Request
    <2> HIDE DEF rows
    <2> QED BY <2>1, <2>3, <2>4, <2>5, ResequencedStep
  <1>7. ASSUME NEW u \in Users, Teardown(u) PROVE RowsInv'
    BY <1>7, <1>a, <1>b, <1>c DEF Teardown, tables
  <1>8. ASSUME NEW u \in Users, RequestFails(u) PROVE RowsInv'
    BY <1>8, <1>a, <1>b, <1>c DEF RequestFails, tables
  <1>9. CASE Crash
    <2> request' \in [Users -> Request \cup {NoCall}]
      BY <1>9 DEF Crash
    <2> QED BY <1>9, <1>a DEF Crash, tables
  <1>d. ASSUME UNCHANGED <<row, request>> PROVE RowsInv'
    BY <1>a, <1>d
  <1>10. ASSUME NEW u \in Users, LeaveRoom(u) \/ EnterRoom(u) PROVE RowsInv'
    BY <1>10, <1>d DEF LeaveRoom, EnterRoom
  <1>11. ASSUME NEW c \in Clients, CallStep(c) PROVE RowsInv'
    BY <1>11, <1>d DEF CallStep, JoinCheck, LeaveCheck, HeartbeatCheck, Admitted, Join, Leave,
       Heartbeat, CallFails, tables
  <1>12. ASSUME NEW c \in Clients, NEW s \in Sessions, Silent(c, s) PROVE RowsInv'
    BY <1>12, <1>d DEF Silent, tables
  <1>13. CASE Cleanup
    BY <1>13, <1>d DEF Cleanup, tables
  <1>14. ASSUME NEW s \in Sessions, Debounce(s) \/ Deliver(s) \/ Lose(s) PROVE RowsInv'
    BY <1>14, <1>d DEF Debounce, Deliver, Lose, tables
  <1>15. CASE UNCHANGED vars
    BY <1>15, <1>d DEF vars, tables
  <1> QED BY <1>1, <1>2, <1>3, <1>4, <1>5, <1>6, <1>7, <1>8, <1>9, <1>10, <1>11, <1>12, <1>13,
             <1>14, <1>15 DEF Next, RowStep

\* A call in flight names a session.
CallsInv == call \in [Clients -> Call \cup {NoCall}]

\* Every step keeps that.
LEMMA CallsStep == CallsInv /\ [Next]_vars => CallsInv'
  <1> SUFFICES ASSUME CallsInv, [Next]_vars PROVE CallsInv'
    OBVIOUS
  <1> USE DEF CallsInv
  <1>1. ASSUME NEW c \in Clients, NEW r \in Call \cup {NoCall}, call' = [call EXCEPT ![c] = r]
        PROVE  CallsInv'
    BY <1>1
  <1>2. ASSUME NEW c \in Clients, NEW s \in Sessions, NEW op \in {"join", "leave", "heartbeat"},
               Admitted(c, op, s)
        PROVE  CallsInv'
    <2>1. [op |-> op, session |-> s] \in Call
      BY DEF Call
    <2> QED BY <1>1, <1>2, <2>1 DEF Admitted
  <1>3. ASSUME NEW c \in Clients, Answered(c) PROVE CallsInv'
    BY <1>1, <1>3 DEF Answered
  <1>4. ASSUME NEW c \in Clients, CallStep(c) PROVE CallsInv'
    <2>1. Joinable \subseteq Sessions
      BY RoomSessionsAssumption
    <2> QED BY <1>2, <1>3, <1>4, <2>1 DEF CallStep, JoinCheck, LeaveCheck, HeartbeatCheck, Join, Leave,
               Heartbeat, CallFails
  <1>5. CASE Crash
    BY <1>5 DEF Crash
  <1>6. ASSUME UNCHANGED call PROVE CallsInv'
    BY <1>6, SMTT(60)
  <1>7. ASSUME NEW u \in Users, RowStep(u) \/ LeaveRoom(u) \/ EnterRoom(u) PROVE CallsInv'
    BY <1>6, <1>7 DEF RowStep, CreateCheck, PatchRead, DeleteRead, Create, Patch, DeleteRow,
       Teardown, RequestFails, LeaveRoom, EnterRoom
  <1>8. ASSUME NEW c \in Clients, NEW s \in Sessions, Silent(c, s) PROVE CallsInv'
    BY <1>6, <1>8 DEF Silent
  <1>9. CASE Cleanup
    BY <1>6, <1>9 DEF Cleanup
  <1>10. ASSUME NEW s \in Sessions, Debounce(s) \/ Deliver(s) \/ Lose(s) PROVE CallsInv'
    BY <1>6, <1>10 DEF Debounce, Deliver, Lose
  <1>11. CASE UNCHANGED vars
    BY <1>6, <1>11 DEF vars
  <1> QED BY <1>4, <1>5, <1>7, <1>8, <1>9, <1>10, <1>11 DEF Next

\* The entries have their type and finitely many users take part in each.
CapInv ==
  /\ entry \in [Sessions -> Entry \cup {NoEntry}]
  /\ \A s \in Sessions : entry[s] # NoEntry => IsFiniteSet(Taking(entry[s]))
  /\ CapHolds

\* The server starts with no session and an empty map.
LEMMA InitInv == Init => RowsInv /\ CallsInv /\ CapInv
  <1> SUFFICES ASSUME Init PROVE RowsInv /\ CallsInv /\ CapInv
    OBVIOUS
  <1>1. Rows = {}
    BY DEF Init, Rows
  <1>2. IsFiniteSet({}) /\ Cardinality({}) = 0
    BY FS_EmptySet
  <1>3. PositionsDense
    BY <1>1, <1>2 DEF PositionsDense
  <1>4. RowsInv
    BY <1>1, <1>2, <1>3 DEF Init, RowsInv
  <1> QED BY <1>4 DEF Init, CallsInv, CapInv, CapHolds

\* However creations, moves and deletions interleave, the sessions of a room
\* are at 0, 1, 2, ... (sessions/crud.rs, resequence_positions).
THEOREM SessionsInOrder == Spec => []PositionsDense
  <1>1. Init => RowsInv
    BY InitInv
  <1>2. RowsInv => PositionsDense
    BY DEF RowsInv
  <1> QED BY <1>1, <1>2, RowsStep, PTL DEF Spec

(***************************************************************************)
(* Nobody is let in above the cap.                                         *)
(***************************************************************************)

\* An entry that lost clients is still an entry, with no user more.
LEMMA WithoutTakes ==
  ASSUME NEW e \in Entry, NEW gone \in SUBSET Clients, IsFiniteSet(Taking(e)),
         Count(e) <= Cap
  PROVE  /\ Without(e, gone) \in Entry
         /\ IsFiniteSet(Taking(Without(e, gone)))
         /\ Count(Without(e, gone)) <= Cap
  <1> DEFINE f == Without(e, gone)
  <1>1. f \in Entry /\ f.clients = e.clients \ gone
    BY DEF Without, Entry
  <1>2. Taking(f) \in SUBSET Taking(e)
    BY <1>1 DEF Taking
  <1> HIDE DEF f
  <1>3. IsFiniteSet(Taking(f)) /\ Cardinality(Taking(f)) <= Cardinality(Taking(e))
    BY <1>2, FS_Subset
  <1>4. Cardinality(Taking(f)) \in Nat /\ Cardinality(Taking(e)) \in Nat /\ Cap \in Nat
    BY <1>3, FS_CardinalityType, RoomSessionsAssumption
  <1> QED BY <1>1, <1>3, <1>4 DEF Count, f

\* The lock lets a join in only below the cap, whatever the handler saw before.
LEMMA JoinTakes ==
  ASSUME NEW c \in Clients, NEW e \in Entry, NEW f \in Entry, IsFiniteSet(Taking(e)),
         Count(e) <= Cap,
         UserOf[c] \in Taking(e) \/ Count(e) < Cap,
         f.clients = e.clients \cup {c}
  PROVE  IsFiniteSet(Taking(f)) /\ Count(f) <= Cap
  <1>1. Taking(f) = Taking(e) \cup {UserOf[c]}
    BY DEF Taking
  <1>2. /\ IsFiniteSet(Taking(f))
        /\ Cardinality(Taking(f)) = IF UserOf[c] \in Taking(e) THEN Cardinality(Taking(e))
                                    ELSE Cardinality(Taking(e)) + 1
    BY <1>1, FS_AddElement, SMTT(60)
  <1>3. Cardinality(Taking(e)) \in Nat /\ Cap \in Nat
    BY FS_CardinalityType, RoomSessionsAssumption
  <1> QED BY <1>2, <1>3 DEF Count

\* Every step keeps them.
LEMMA CapStep == RowsInv /\ CallsInv /\ CapInv /\ [Next]_vars => CapInv'
  <1> SUFFICES ASSUME RowsInv, CallsInv, CapInv, [Next]_vars PROVE CapInv'
    OBVIOUS
  <1>1. ASSUME NEW s \in Sessions, entry[s] # NoEntry
        PROVE  entry[s] \in Entry /\ IsFiniteSet(Taking(entry[s])) /\ Count(entry[s]) <= Cap
               /\ Count(entry[s]) \in Nat
    <2>1. entry[s] \in Entry /\ IsFiniteSet(Taking(entry[s])) /\ Count(entry[s]) <= Cap
      BY <1>1 DEF CapInv, CapHolds
    <2> QED BY <2>1, FS_CardinalityType DEF Count
  <1> DEFINE Good(e) == e \in Entry /\ IsFiniteSet(Taking(e)) /\ Count(e) <= Cap
  <1>2. ASSUME entry' \in [Sessions -> Entry \cup {NoEntry}],
               \A s \in Sessions : entry'[s] = NoEntry \/ Good(entry'[s])
        PROVE  CapInv'
    BY <1>2 DEF CapInv, CapHolds, Taking, Count
  <1>3. entry \in [Sessions -> Entry \cup {NoEntry}]
    BY DEF CapInv
  <1>4. ASSUME NEW s \in Sessions PROVE entry[s] = NoEntry \/ Good(entry[s])
    BY <1>1, <1>4
  <1> HIDE DEF Good
  <1>5. ASSUME NEW s \in Sessions, NEW e, e = NoEntry \/ Good(e),
               entry' = [entry EXCEPT ![s] = e]
        PROVE  CapInv'
    <2>1. e \in Entry \cup {NoEntry}
      BY <1>5 DEF Good
    <2>2. entry' \in [Sessions -> Entry \cup {NoEntry}]
      BY <1>3, <1>5, <2>1
    <2>3. \A t \in Sessions : entry'[t] = NoEntry \/ Good(entry'[t])
      BY <1>3, <1>4, <1>5
    <2> QED BY <1>2, <2>2, <2>3
  <1>6. ASSUME UNCHANGED entry PROVE CapInv'
    BY <1>2, <1>3, <1>4, <1>6
  <1>7. ASSUME NEW c \in Clients, Join(c), call[c].session \in Sessions PROVE CapInv'
    <2> DEFINE s == call[c].session
               e == IF entry[s] = NoEntry THEN Fresh ELSE entry[s]
               f == [e EXCEPT !.clients = @ \cup {c}, !.fresh = @ \cup {c}, !.debounce = TRUE]
    <2>1. /\ UserOf[c] \in Taking(e) \/ Count(e) < Cap
          /\ entry' = [entry EXCEPT ![s] = f]
      BY <1>7 DEF Join
    <2>2. e \in Entry /\ IsFiniteSet(Taking(e)) /\ Count(e) <= Cap
      <3>1. CASE entry[s] = NoEntry
        <4>1. e = Fresh /\ Fresh \in Entry /\ Taking(Fresh) = {}
          BY <3>1 DEF Fresh, Entry, Taking
        <4>2. IsFiniteSet({}) /\ Cardinality({}) = 0
          BY FS_EmptySet
        <4> HIDE DEF e
        <4> QED BY <4>1, <4>2, RoomSessionsAssumption DEF Count
      <3>2. CASE entry[s] # NoEntry
        <4>1. e = entry[s]
          BY <3>2
        <4> HIDE DEF e
        <4> QED BY <4>1, <3>2, <1>1, <1>7
      <3> QED BY <3>1, <3>2
    <2> HIDE DEF e
    <2>3. f \in Entry /\ f.clients = e.clients \cup {c}
      BY <2>2 DEF Entry
    <2> HIDE DEF f
    <2>4. IsFiniteSet(Taking(f)) /\ Count(f) <= Cap
      BY <2>1, <2>2, <2>3, JoinTakes
    <2> QED BY <1>5, <1>7, <2>1, <2>3, <2>4 DEF Good
  <1>8. ASSUME NEW e, Good(e), NEW gone \in SUBSET Clients PROVE Good(Without(e, gone))
    BY <1>8, WithoutTakes DEF Good
  <1>9. CASE Cleanup
    <2>1. entry' = [s \in Sessions |->
            IF entry[s] = NoEntry THEN NoEntry
            ELSE Without(entry[s], entry[s].clients \ entry[s].fresh)]
      BY <1>9 DEF Cleanup
    <2>2. ASSUME NEW s \in Sessions PROVE entry'[s] = NoEntry \/ Good(entry'[s])
      <3>1. CASE entry[s] = NoEntry
        BY <2>1, <3>1
      <3>2. CASE entry[s] # NoEntry
        <4>1. entry[s] \in Entry /\ Good(entry[s])
          BY <1>1, <1>4, <3>2
        <4>2. entry[s].clients \ entry[s].fresh \in SUBSET Clients
          BY <4>1 DEF Entry
        <4>3. Good(Without(entry[s], entry[s].clients \ entry[s].fresh))
          BY <4>1, <4>2, <1>8
        <4> QED BY <2>1, <3>2, <4>3
      <3> QED BY <3>1, <3>2
    <2>3. entry' \in [Sessions -> Entry \cup {NoEntry}]
      <3>1. \A s \in Sessions : entry'[s] \in Entry \cup {NoEntry}
        BY <2>2 DEF Good
      <3>2. entry' = [s \in Sessions |-> entry'[s]]
        BY <2>1
      <3> QED BY <3>1, <3>2
    <2> QED BY <1>2, <2>2, <2>3
  <1>10. CASE Crash
    BY <1>2, <1>10 DEF Crash
  <1>11. ASSUME NEW s \in Sessions, Debounce(s) PROVE CapInv'
    <2> DEFINE e == entry[s]
               f == IF Count(e) = 0 THEN NoEntry
                    ELSE [e EXCEPT !.debounce = FALSE, !.published = Count(e)]
    <2>1. Good(e) /\ e \in Entry /\ Count(e) \in Nat
      BY <1>1, <1>11 DEF Debounce, Good
    <2>2. entry' = [entry EXCEPT ![s] = f]
      BY <1>11 DEF Debounce
    <2>3. f = NoEntry \/ Good(f)
      <3> DEFINE g == [e EXCEPT !.debounce = FALSE, !.published = Count(e)]
      <3>1. g \in Entry /\ g.clients = e.clients
        <4> HIDE DEF e
        <4> QED BY <2>1 DEF Entry
      <3>2. Good(g)
        <4> HIDE DEF e, g
        <4> QED BY <2>1, <3>1 DEF Good, Count, Taking
      <3> QED BY <3>2
    <2> HIDE DEF f
    <2> QED BY <1>5, <2>2, <2>3
  <1>12. ASSUME NEW c \in Clients, Leave(c), call[c].session \in Sessions PROVE CapInv'
    <2> DEFINE s == call[c].session
    <2>1. CASE entry[s] = NoEntry
      BY <1>6, <1>12, <2>1 DEF Leave
    <2>2. CASE entry[s] # NoEntry
      <3>1. entry' = [entry EXCEPT ![s] = Without(entry[s], {c})]
        BY <1>12, <2>2 DEF Leave
      <3>2. Good(Without(entry[s], {c}))
        BY <1>4, <1>8, <1>12, <2>2
      <3> HIDE DEF s
      <3> QED BY <3>1, <3>2, <1>5, <1>12 DEF s
    <2> QED BY <2>1, <2>2
  <1>13. ASSUME NEW c \in Clients, NEW s \in Sessions, NEW F \in SUBSET Clients,
                entry[s] # NoEntry, entry' = [entry EXCEPT ![s].fresh = F]
         PROVE  CapInv'
    <2>1. entry[s] \in Entry /\ Good(entry[s])
      BY <1>1, <1>4, <1>13
    <2>2. [entry[s] EXCEPT !.fresh = F] \in Entry
          /\ [entry[s] EXCEPT !.fresh = F].clients = entry[s].clients
      BY <2>1 DEF Entry
    <2>3. Good([entry[s] EXCEPT !.fresh = F])
      BY <2>1, <2>2 DEF Good, Count, Taking
    <2>4. entry' = [entry EXCEPT ![s] = [entry[s] EXCEPT !.fresh = F]]
      BY <1>13
    <2> QED BY <2>3, <2>4, <1>5
  <1>14. ASSUME NEW c \in Clients, Heartbeat(c), call[c].session \in Sessions PROVE CapInv'
    <2> DEFINE s == call[c].session
    <2>1. entry[s] # NoEntry /\ entry' = [entry EXCEPT ![s].fresh = entry[s].fresh \cup {c}]
      BY <1>14 DEF Heartbeat
    <2>2. entry[s].fresh \cup {c} \in SUBSET Clients
      BY <1>1, <1>14, <2>1 DEF Entry
    <2> HIDE DEF s
    <2> QED BY <1>13, <1>14, <2>1, <2>2 DEF s
  <1>15. ASSUME NEW c \in Clients, NEW s \in Sessions, Silent(c, s) PROVE CapInv'
    <2>1. entry[s] # NoEntry /\ entry' = [entry EXCEPT ![s].fresh = entry[s].fresh \ {c}]
      BY <1>15 DEF Silent
    <2>2. entry[s].fresh \ {c} \in SUBSET Clients
      BY <1>1, <2>1 DEF Entry
    <2> QED BY <1>13, <2>1, <2>2
  <1>16. ASSUME NEW u \in Users, Teardown(u), request[u].session \in Sessions PROVE CapInv'
    BY <1>5, <1>16 DEF Teardown
  <1>17. ASSUME NEW u \in Users, RowStep(u), ~ Teardown(u) PROVE CapInv'
    BY <1>6, <1>17 DEF RowStep, CreateCheck, PatchRead, DeleteRead, Create, Patch, DeleteRow,
       RequestFails
  <1>18. ASSUME NEW u \in Users, LeaveRoom(u) \/ EnterRoom(u) PROVE CapInv'
    BY <1>6, <1>18 DEF LeaveRoom, EnterRoom
  <1>19. ASSUME NEW c \in Clients, CallStep(c), ~ Join(c), ~ Leave(c), ~ Heartbeat(c)
         PROVE  CapInv'
    BY <1>6, <1>19 DEF CallStep, JoinCheck, LeaveCheck, HeartbeatCheck, Admitted, CallFails
  <1>20. ASSUME NEW s \in Sessions, Deliver(s) \/ Lose(s) PROVE CapInv'
    BY <1>6, <1>20 DEF Deliver, Lose
  <1>21. CASE UNCHANGED vars
    BY <1>6, <1>21 DEF vars
  <1>22. \A c \in Clients : Calling(c, "join") \/ Calling(c, "leave") \/ Calling(c, "heartbeat")
           => call[c].session \in Sessions
    BY DEF CallsInv, Calling, Call
  <1>23. \A u \in Users : Teardown(u) => request[u].session \in Sessions
    BY DEF RowsInv, Teardown, Request
  <1>24. ASSUME NEW u \in Users, RowStep(u) PROVE CapInv'
    BY <1>16, <1>17, <1>23, <1>24, SMTT(60)
  <1>25. ASSUME NEW c \in Clients, CallStep(c) PROVE CapInv'
    BY <1>7, <1>12, <1>14, <1>19, <1>22, <1>25 DEF Join, Leave, Heartbeat
  <1> QED BY <1>9, <1>10, <1>11, <1>15, <1>18, <1>20, <1>21, <1>24, <1>25 DEF Next

\* No session ever has more participants than its type allows, also when its
\* entry was emptied and made anew, or outlives its row (sessions/occupancy.rs,
\* join: the count is compared under the same lock that adds the client).
THEOREM SessionsCapped == Spec => []CapHolds
  <1>1. Init => RowsInv /\ CallsInv /\ CapInv
    BY InitInv
  <1>2. CapInv => CapHolds
    BY DEF CapInv
  <1> QED BY <1>1, <1>2, RowsStep, CallsStep, CapStep, PTL DEF Spec

(***************************************************************************)
(* Types.                                                                  *)
(***************************************************************************)

\* The types of what is left: the membership, the ids given out and the counts
\* on their way to the room.
RestInv ==
  /\ members \subseteq Users
  /\ created \subseteq Sessions
  /\ outgoing \in [Sessions -> Seq(Nat)]
  /\ shown \in [Sessions -> Nat]
  /\ announced \in [Sessions -> Nat]
  /\ astray \subseteq Sessions
  /\ restarted \in BOOLEAN
  /\ {joins, others} \subseteq Nat

\* What is left of the publications of a session when one ends.
LEMMA EndsOne ==
  ASSUME NEW q \in Seq(Nat), NEW i \in DOMAIN q
  PROVE  /\ q[i] \in Nat /\ RemoveAt(q, i) \in Seq(Nat)
         /\ i = 1 => IF RemoveAt(q, i) = <<>> THEN q[i] = q[Len(q)]
                     ELSE RemoveAt(q, i)[Len(RemoveAt(q, i))] = q[Len(q)]
         /\ q # <<>>
  <1>1. i \in 1 .. Len(q) /\ Len(q) \in Nat /\ q[i] \in Nat
    OBVIOUS
  <1> DEFINE r == RemoveAt(q, i)
  <1>2. /\ r \in Seq(Nat) /\ Len(r) = Len(q) - 1
        /\ \A k \in 1 .. Len(q) - 1 : r[k] = IF k < i THEN q[k] ELSE q[k + 1]
    BY <1>1, RemoveAtIs
  <1> HIDE DEF r
  <1>3. q # <<>>
    BY <1>1
  <1>4. ASSUME i = 1
        PROVE  IF r = <<>> THEN q[i] = q[Len(q)] ELSE r[Len(r)] = q[Len(q)]
    <2>1. CASE Len(q) = 1
      <3>1. Len(r) = 0
        BY <1>2, <2>1
      <3>2. r = <<>>
        BY <1>2, <3>1
      <3> QED BY <1>4, <2>1, <3>2
    <2>2. CASE Len(q) # 1
      <3>1. Len(r) # 0 /\ Len(q) - 1 \in 1 .. Len(q) - 1
        BY <1>1, <1>2, <2>2
      <3>2. r # <<>>
        BY <3>1, Len(<<>>) = 0
      <3>3. r[Len(q) - 1] = q[(Len(q) - 1) + 1]
        BY <1>2, <1>4, <3>1
      <3>4. r[Len(r)] = q[Len(q)]
        BY <1>1, <1>2, <3>3
      <3> QED BY <3>2, <3>4
    <2> QED BY <2>1, <2>2
  <1> QED BY <1>1, <1>2, <1>3, <1>4 DEF r

\* Every step keeps them; a count published is the size of a finite set.
LEMMA RestStep == RowsInv /\ CapInv /\ RestInv /\ [Next]_vars => RestInv'
  <1> SUFFICES ASSUME RowsInv, CapInv, RestInv, [Next]_vars PROVE RestInv'
    OBVIOUS
  <1> USE DEF RestInv
  <1>1. ASSUME NEW s \in Sessions, NEW n \in Nat, Publish(s, n)
        PROVE  /\ outgoing' \in [Sessions -> Seq(Nat)] /\ announced' \in [Sessions -> Nat]
               /\ UNCHANGED <<shown, astray>>
    <2>1. Append(outgoing[s], n) \in Seq(Nat)
      OBVIOUS
    <2> QED BY <1>1, <2>1 DEF Publish
  <1>2. ASSUME NEW u \in Users, RowStep(u), ~ Teardown(u) PROVE RestInv'
    <2>1. UNCHANGED <<members, published, restarted, joins>>
      BY <1>2 DEF RowStep, CreateCheck, PatchRead, DeleteRead, Create, Patch, DeleteRow,
         RequestFails, tables, bounds
    <2>2. created' \subseteq Sessions
      BY <1>2 DEF RowStep, CreateCheck, PatchRead, DeleteRead, Create, Patch, DeleteRow,
         RequestFails, tables, bounds
    <2>3. others' = others \/ others' = others + 1
      BY <1>2 DEF RowStep, CreateCheck, PatchRead, DeleteRead, Create, Patch, DeleteRow,
         RequestFails, tables, bounds
    <2>4. others' \in Nat
      BY <2>3
    <2> QED BY <2>1, <2>2, <2>4 DEF published
  <1>3. ASSUME NEW u \in Users, Teardown(u) PROVE RestInv'
    <2>1. UNCHANGED <<members, created, restarted, joins, others>>
      BY <1>3 DEF Teardown, tables, bounds
    <2>2. request[u].session \in Sessions
      BY <1>3 DEF RowsInv, Teardown, Request
    <2>3. UNCHANGED published \/ Publish(request[u].session, 0)
      BY <1>3 DEF Teardown
    <2>4. CASE UNCHANGED published
      BY <2>1, <2>4 DEF published
    <2>5. CASE Publish(request[u].session, 0)
      BY <1>1, <2>1, <2>2, <2>5, 0 \in Nat
    <2> QED BY <2>3, <2>4, <2>5
  <1>4. ASSUME NEW u \in Users, LeaveRoom(u) \/ EnterRoom(u) PROVE RestInv'
    <2>1. /\ UNCHANGED <<created, published, restarted, joins>>
          /\ members' \subseteq Users /\ others' = others + 1
      BY <1>4 DEF LeaveRoom, EnterRoom
    <2> QED BY <2>1 DEF published
  <1>5. ASSUME NEW c \in Clients, CallStep(c) PROVE RestInv'
    <2>1. UNCHANGED <<members, created, published, restarted, others>>
      BY <1>5 DEF CallStep, JoinCheck, LeaveCheck, HeartbeatCheck, Admitted, Join, Leave, Heartbeat,
         CallFails, tables, bounds
    <2>2. joins' = joins \/ joins' = joins + 1
      BY <1>5 DEF CallStep, JoinCheck, LeaveCheck, HeartbeatCheck, Admitted, Join, Leave, Heartbeat,
         CallFails, tables, bounds
    <2>3. joins' \in Nat
      BY <2>2
    <2> QED BY <2>1, <2>3 DEF published
  <1>6. ASSUME NEW s \in Sessions, Debounce(s) PROVE RestInv'
    <2>1. UNCHANGED <<members, created, restarted, joins, others>>
      BY <1>6 DEF Debounce, tables, bounds
    <2>2. Count(entry[s]) \in Nat
      BY <1>6, FS_CardinalityType DEF CapInv, Debounce, Count
    <2>3. UNCHANGED published \/ Publish(s, Count(entry[s]))
      BY <1>6 DEF Debounce
    <2>4. CASE UNCHANGED published
      BY <2>1, <2>4 DEF published
    <2>5. CASE Publish(s, Count(entry[s]))
      BY <1>1, <2>1, <2>2, <2>5
    <2> QED BY <2>3, <2>4, <2>5
  <1>7. ASSUME NEW s \in Sessions, Deliver(s) \/ Lose(s) PROVE RestInv'
    <2>1. UNCHANGED <<members, created, announced, restarted, joins, others>>
      BY <1>7 DEF Deliver, Lose, tables, bounds
    <2>2. PICK i \in DOMAIN outgoing[s] :
            /\ outgoing' = [outgoing EXCEPT ![s] = RemoveAt(outgoing[s], i)]
            /\ shown' = shown \/ shown' = [shown EXCEPT ![s] = outgoing[s][i]]
            /\ astray' = astray \/ astray' = astray \cup {s}
      BY <1>7 DEF Deliver, Lose
    <2>3. outgoing[s][i] \in Nat /\ RemoveAt(outgoing[s], i) \in Seq(Nat)
      BY EndsOne
    <2>4. outgoing' \in [Sessions -> Seq(Nat)] /\ shown' \in [Sessions -> Nat]
      BY <2>2, <2>3
    <2>5. astray' \subseteq Sessions
      BY <2>2
    <2> QED BY <2>1, <2>4, <2>5
  <1>8. CASE Crash
    <2>1. /\ UNCHANGED <<members, created, shown, announced, joins>>
          /\ restarted' = TRUE /\ others' = others + 1 /\ astray' \subseteq Sessions
      BY <1>8 DEF Crash, tables
    <2>2. outgoing' \in [Sessions -> Seq(Nat)]
      BY <1>8 DEF Crash
    <2> QED BY <2>1, <2>2
  <1>9. ASSUME UNCHANGED <<members, created, published, bounds>> PROVE RestInv'
    BY <1>9 DEF bounds, published
  <1>10. ASSUME NEW c \in Clients, NEW s \in Sessions, Silent(c, s) PROVE RestInv'
    BY <1>10, <1>9 DEF Silent, tables
  <1>11. CASE Cleanup
    BY <1>11, <1>9 DEF Cleanup, tables
  <1>12. CASE UNCHANGED vars
    BY <1>12, <1>9 DEF vars, tables
  <1> QED BY <1>2, <1>3, <1>4, <1>5, <1>6, <1>7, <1>8, <1>10, <1>11, <1>12, SMTT(60) DEF Next

\* What every variable starts with has its type.
LEMMA InitRest == Init => RestInv
  <1> SUFFICES ASSUME Init PROVE RestInv
    OBVIOUS
  <1>1. <<>> \in Seq(Nat)
    OBVIOUS
  <1>2. members \subseteq Users
    BY DEF Init
  <1>3. /\ outgoing \in [Sessions -> Seq(Nat)] /\ shown \in [Sessions -> Nat]
        /\ announced \in [Sessions -> Nat] /\ astray \subseteq Sessions
    BY <1>1 DEF Init
  <1>4. created \subseteq Sessions /\ restarted \in BOOLEAN /\ {joins, others} \subseteq Nat
    <2>1. restarted = FALSE /\ others = 0
      BY DEF Init
    <2>2. PICK start \in Starts : created = start.created /\ joins = start.joins
      BY DEF Init
    <2>3. start \in [created : SUBSET Sessions, joins : Nat]
      BY RoomSessionsAssumption
    <2>4. created \subseteq Sessions /\ joins \in Nat
      BY <2>2, <2>3
    <2>5. restarted \in BOOLEAN /\ others \in Nat
      BY <2>1
    <2> QED BY <2>4, <2>5
  <1> QED BY <1>2, <1>3, <1>4 DEF RestInv

\* Every variable stays within its type: the published counts are numbers, and
\* a request names a session that was given out (sessions/crud.rs,
\* sessions/occupancy.rs).
THEOREM TypeCorrect == Spec => []TypeOK
  <1>1. Init => RowsInv /\ CallsInv /\ CapInv /\ RestInv
    BY InitInv, InitRest
  <1>2. RowsInv /\ CallsInv /\ CapInv /\ RestInv => TypeOK
    BY DEF RowsInv, CallsInv, CapInv, RestInv, TypeOK
  <1> QED BY <1>1, <1>2, RowsStep, CallsStep, CapStep, RestStep, PTL DEF Spec

(***************************************************************************)
(* The room is told the true count.                                        *)
(***************************************************************************)

\* What is announced of an entry: the count it published last, and a task
\* sleeps whenever that is not the count any more, or nothing was published.
Told(e, a, lost) ==
  IF e = NoEntry THEN a = 0 \/ lost
  ELSE /\ IF e.published = 0 THEN e.debounce /\ (a = 0 \/ lost) ELSE a = e.published
       /\ ~ e.debounce => e.published = Count(e)

\* That of every session.
CountsInv == \A s \in Sessions : Told(entry[s], announced[s], restarted)

\* The count the room was shown last, or will be if the publications under way
\* arrive in order.
Latest(s) == IF outgoing[s] = <<>> THEN shown[s] ELSE outgoing[s][Len(outgoing[s])]

\* It is the one announced last as long as no publication went astray.
ShownInv == \A s \in Sessions : s \notin astray => Latest(s) = announced[s]

\* When nothing is under way, it is the true count.
LEMMA CountsInvRests == CountsInv /\ ShownInv => CountsAtRest
  <1> SUFFICES ASSUME CountsInv, ShownInv, NEW s \in Sessions,
                      entry[s] # NoEntry => ~ entry[s].debounce,
                      ~ (restarted /\ entry[s] = NoEntry)
               PROVE  /\ announced[s] = TrueCount(s)
                      /\ outgoing[s] = <<>> /\ s \notin astray => shown[s] = TrueCount(s)
    BY DEF CountsAtRest
  <1>1. announced[s] = TrueCount(s)
    BY DEF CountsInv, Told, TrueCount
  <1>2. outgoing[s] = <<>> /\ s \notin astray => shown[s] = announced[s]
    BY DEF ShownInv, Latest
  <1> QED BY <1>1, <1>2

\* A publication that begins is the last one, one that ends out of order or
\* fails is astray.
LEMMA ShownStep == RowsInv /\ CapInv /\ RestInv /\ ShownInv /\ [Next]_vars => ShownInv'
  <1> SUFFICES ASSUME RowsInv, CapInv, RestInv, ShownInv, [Next]_vars PROVE ShownInv'
    OBVIOUS
  <1>1. /\ outgoing \in [Sessions -> Seq(Nat)] /\ shown \in [Sessions -> Nat]
        /\ announced \in [Sessions -> Nat] /\ astray \subseteq Sessions
    BY DEF RestInv
  <1>2. ASSUME UNCHANGED published PROVE ShownInv'
    BY <1>2 DEF ShownInv, Latest, published
  <1>3. ASSUME NEW s \in Sessions, NEW n \in Nat, Publish(s, n) PROVE ShownInv'
    <2> DEFINE q == outgoing[s]
    <2>1. /\ q \in Seq(Nat) /\ outgoing'[s] = Append(q, n) /\ announced'[s] = n
          /\ \A t \in Sessions : t # s => outgoing'[t] = outgoing[t] /\ announced'[t] = announced[t]
          /\ UNCHANGED <<shown, astray>>
      BY <1>1, <1>3 DEF Publish
    <2> HIDE DEF q
    <2>2. Len(q) \in Nat /\ Len(Append(q, n)) = Len(q) + 1 /\ Append(q, n)[Len(q) + 1] = n
      BY <2>1, AppendProperties
    <2>3. Append(q, n) # <<>>
      BY <2>1, <2>2, AppendProperties, ZenonT(60)
    <2>4. Latest(s)' = announced'[s]
      BY <2>1, <2>2, <2>3 DEF Latest
    <2>5. ASSUME NEW t \in Sessions, t # s, t \notin astray' PROVE Latest(t)' = announced'[t]
      BY <2>1, <2>5 DEF Latest, ShownInv
    <2> QED BY <2>4, <2>5 DEF ShownInv
  <1>4. ASSUME NEW s \in Sessions, Deliver(s) \/ Lose(s) PROVE ShownInv'
    <2> DEFINE q == outgoing[s]
    <2>1. PICK i \in DOMAIN q :
            /\ outgoing' = [outgoing EXCEPT ![s] = RemoveAt(q, i)]
            /\ \/ /\ shown' = [shown EXCEPT ![s] = q[i]]
                  /\ i = 1
               \/ s \in astray'
            /\ \A t \in Sessions : t # s => shown'[t] = shown[t]
            /\ astray \subseteq astray'
            /\ UNCHANGED announced
      BY <1>1, <1>4 DEF Deliver, Lose
    <2>2. q \in Seq(Nat)
      BY <1>1
    <2>3. ASSUME i = 1, shown' = [shown EXCEPT ![s] = q[i]], s \notin astray
          PROVE  Latest(s)' = announced'[s]
      <3> DEFINE r == RemoveAt(q, i)
      <3>1. outgoing'[s] = r /\ shown'[s] = q[i]
        BY <1>1, <2>1, <2>3
      <3>2. Latest(s) = announced[s] /\ Latest(s) = q[Len(q)]
        BY <2>2, <2>3, EndsOne DEF ShownInv, Latest
      <3>3. IF r = <<>> THEN q[i] = q[Len(q)] ELSE r[Len(r)] = q[Len(q)]
        BY <2>2, <2>3, EndsOne
      <3> HIDE DEF r, q
      <3> QED BY <2>1, <3>1, <3>2, <3>3 DEF Latest
    <2>4. ASSUME NEW t \in Sessions, t # s, t \notin astray' PROVE Latest(t)' = announced'[t]
      <3>1. outgoing'[t] = outgoing[t] /\ shown'[t] = shown[t] /\ t \notin astray
        BY <1>1, <2>1, <2>4
      <3> QED BY <2>1, <3>1 DEF Latest, ShownInv
    <2> HIDE DEF q
    <2>5. s \notin astray' => Latest(s)' = announced'[s]
      BY <2>1, <2>3
    <2> QED BY <2>4, <2>5 DEF ShownInv
  <1>5. CASE Crash
    <2>1. ASSUME NEW s \in Sessions, s \notin astray' PROVE Latest(s)' = announced'[s]
      <3>1. outgoing[s] = <<>> /\ s \notin astray
        BY <1>5, <2>1 DEF Crash
      <3>2. outgoing'[s] = <<>> /\ shown' = shown /\ announced' = announced
        BY <1>5 DEF Crash
      <3> QED BY <3>1, <3>2 DEF Latest, ShownInv
    <2> QED BY <2>1 DEF ShownInv
  <1>6. ASSUME NEW u \in Users, RowStep(u), ~ Teardown(u) PROVE ShownInv'
    BY <1>2, <1>6 DEF RowStep, CreateCheck, PatchRead, DeleteRead, Create, Patch, DeleteRow,
       RequestFails
  <1>7. ASSUME NEW u \in Users, Teardown(u) PROVE ShownInv'
    <2>1. request[u].session \in Sessions
      BY <1>7 DEF RowsInv, Teardown, Request
    <2>2. UNCHANGED published \/ Publish(request[u].session, 0)
      BY <1>7 DEF Teardown
    <2> QED BY <1>2, <1>3, <2>1, <2>2, 0 \in Nat
  <1>8. ASSUME NEW s \in Sessions, Debounce(s) PROVE ShownInv'
    <2>1. Count(entry[s]) \in Nat
      BY <1>8, FS_CardinalityType DEF CapInv, Debounce, Count
    <2>2. UNCHANGED published \/ Publish(s, Count(entry[s]))
      BY <1>8 DEF Debounce
    <2> QED BY <1>2, <1>3, <2>1, <2>2
  <1>9. ASSUME NEW c \in Clients, CallStep(c) PROVE ShownInv'
    BY <1>2, <1>9 DEF CallStep, JoinCheck, LeaveCheck, HeartbeatCheck, Admitted, Join, Leave,
       Heartbeat, CallFails
  <1>10. ASSUME NEW u \in Users, LeaveRoom(u) \/ EnterRoom(u) PROVE ShownInv'
    BY <1>2, <1>10 DEF LeaveRoom, EnterRoom
  <1>11. ASSUME NEW c \in Clients, NEW s \in Sessions, Silent(c, s) PROVE ShownInv'
    BY <1>2, <1>11 DEF Silent
  <1>12. CASE Cleanup
    BY <1>2, <1>12 DEF Cleanup
  <1>13. CASE UNCHANGED vars
    BY <1>2, <1>13 DEF vars
  <1> QED BY <1>4, <1>5, <1>6, <1>7, <1>8, <1>9, <1>10, <1>11, <1>12, <1>13, SMTT(60) DEF Next

\* Who is dropped from an entry is noticed by a task.
LEMMA WithoutTold ==
  ASSUME NEW e \in Entry, NEW gone \in SUBSET Clients, NEW a, NEW lost,
         Told(e, a, lost)
  PROVE  Told(Without(e, gone), a, lost)
  <1> DEFINE left == [e EXCEPT !.clients = @ \ gone, !.fresh = @ \ gone]
             f == Without(e, gone)
  <1>1. left \in Entry /\ left.published = e.published /\ left.debounce = e.debounce
    BY DEF Entry
  <1>2. f = [left EXCEPT !.debounce = @ \/ Taking(left) # Taking(e)]
    BY DEF Without
  <1> HIDE DEF left, f
  <1>3. /\ f \in Entry /\ f.published = e.published /\ f.clients = left.clients
        /\ f.debounce = (e.debounce \/ Taking(left) # Taking(e))
    BY <1>1, <1>2 DEF Entry
  <1>4. Taking(f) = Taking(left)
    BY <1>3 DEF Taking
  <1>5. e # NoEntry /\ f # NoEntry
    BY <1>3, RoomSessionsAssumption DEF Entry
  <1>6. ~ f.debounce => ~ e.debounce /\ Count(f) = Count(e)
    BY <1>3, <1>4 DEF Count
  <1>7. e.debounce => f.debounce
    BY <1>3
  <1>8. Told(f, a, lost)
    BY <1>3, <1>5, <1>6, <1>7 DEF Told
  <1> QED BY <1>8 DEF f

\* Every step keeps it.
LEMMA CountsStep == RowsInv /\ CallsInv /\ CapInv /\ RestInv /\ CountsInv /\ [Next]_vars => CountsInv'
  <1> SUFFICES ASSUME RowsInv, CallsInv, CapInv, RestInv, CountsInv, [Next]_vars
               PROVE  CountsInv'
    OBVIOUS
  <1>1. /\ entry \in [Sessions -> Entry \cup {NoEntry}]
        /\ announced \in [Sessions -> Nat]
        /\ restarted \in BOOLEAN
    BY DEF CapInv, RestInv
  <1>2. ASSUME NEW s \in Sessions PROVE Told(entry[s], announced[s], restarted)
    BY DEF CountsInv
  <1>3. ASSUME NEW s \in Sessions, entry[s] # NoEntry
        PROVE  entry[s] \in Entry /\ Count(entry[s]) \in Nat
    BY <1>1, <1>3, FS_CardinalityType DEF CapInv, Count
  <1>4. ASSUME UNCHANGED <<entry, announced, restarted>> PROVE CountsInv'
    BY <1>2, <1>4 DEF CountsInv
  \* A handler that changes one entry and publishes nothing.
  <1>5. ASSUME NEW s \in Sessions, NEW e, entry' = [entry EXCEPT ![s] = e],
               Told(e, announced[s], restarted), UNCHANGED <<announced, restarted>>
        PROVE  CountsInv'
    <2>1. \A t \in Sessions : entry'[t] = IF t = s THEN e ELSE entry[t]
      BY <1>1, <1>5
    <2>2. \A t \in Sessions : Told(entry'[t], announced[t], restarted)
      BY <1>2, <1>5, <2>1
    <2> QED BY <1>5, <2>2 DEF CountsInv
  \* One that publishes too.
  <1>6. ASSUME NEW s \in Sessions, NEW e, NEW n \in Nat, entry' = [entry EXCEPT ![s] = e],
               announced' = [announced EXCEPT ![s] = n],
               Told(e, n, restarted), UNCHANGED restarted
        PROVE  CountsInv'
    <2>1. \A t \in Sessions : entry'[t] = IF t = s THEN e ELSE entry[t]
      BY <1>1, <1>6
    <2>2. \A t \in Sessions : announced'[t] = IF t = s THEN n ELSE announced[t]
      BY <1>1, <1>6
    <2>3. \A t \in Sessions : Told(entry'[t], announced'[t], restarted)
      BY <1>2, <1>6, <2>1, <2>2
    <2> QED BY <1>6, <2>3 DEF CountsInv
  <1>7. ASSUME NEW c \in Clients, Join(c), call[c].session \in Sessions PROVE CountsInv'
    <2> DEFINE s == call[c].session
               e == IF entry[s] = NoEntry THEN Fresh ELSE entry[s]
               f == [e EXCEPT !.clients = @ \cup {c}, !.fresh = @ \cup {c}, !.debounce = TRUE]
    <2>1. entry' = [entry EXCEPT ![s] = f] /\ UNCHANGED <<announced, restarted>>
      BY <1>7 DEF Join, published, bounds
    <2>2. e \in Entry
      <3>1. Fresh \in Entry
        BY DEF Fresh, Entry
      <3> QED BY <1>3, <1>7, <3>1
    <2>3. IF e.published = 0 THEN announced[s] = 0 \/ restarted ELSE announced[s] = e.published
      <3>1. CASE entry[s] = NoEntry
        <4>1. e.published = 0
          BY <3>1 DEF Fresh
        <4> QED BY <1>2, <1>7, <3>1, <4>1 DEF Told
      <3>2. CASE entry[s] # NoEntry
        <4>1. e = entry[s]
          BY <3>2
        <4> HIDE DEF e
        <4> QED BY <1>2, <1>7, <3>2, <4>1 DEF Told
      <3> QED BY <3>1, <3>2
    <2> HIDE DEF e
    <2>4. f \in Entry /\ f.published = e.published /\ f.debounce = TRUE
      BY <2>2 DEF Entry
    <2> HIDE DEF f
    <2>5. Told(f, announced[s], restarted)
      BY <2>3, <2>4, RoomSessionsAssumption DEF Told, Entry
    <2> HIDE DEF s
    <2> QED BY <1>5, <1>7, <2>1, <2>5 DEF s
  <1>8. ASSUME NEW c \in Clients, Leave(c), call[c].session \in Sessions PROVE CountsInv'
    <2> DEFINE s == call[c].session
    <2>0. UNCHANGED <<announced, restarted>>
      BY <1>8 DEF Leave, published, bounds
    <2>1. CASE entry[s] = NoEntry
      BY <1>4, <1>8, <2>0, <2>1 DEF Leave
    <2>2. CASE entry[s] # NoEntry
      <3>1. entry' = [entry EXCEPT ![s] = Without(entry[s], {c})]
        BY <1>8, <2>2 DEF Leave
      <3>2. Told(Without(entry[s], {c}), announced[s], restarted)
        BY <1>2, <1>3, <1>8, <2>2, WithoutTold
      <3> HIDE DEF s
      <3> QED BY <1>5, <1>8, <2>0, <3>1, <3>2 DEF s
    <2> QED BY <2>1, <2>2
  <1>9. ASSUME NEW s \in Sessions, NEW F \in SUBSET Clients, entry[s] # NoEntry,
               entry' = [entry EXCEPT ![s].fresh = F], UNCHANGED <<announced, restarted>>
        PROVE  CountsInv'
    <2> DEFINE e == entry[s]
               f == [e EXCEPT !.fresh = F]
    <2>1. e \in Entry /\ Told(e, announced[s], restarted)
      BY <1>2, <1>3, <1>9
    <2>2. entry' = [entry EXCEPT ![s] = f]
      BY <1>9
    <2> HIDE DEF e
    <2>3. /\ f \in Entry /\ f.published = e.published /\ f.debounce = e.debounce
          /\ f.clients = e.clients
      BY <2>1 DEF Entry
    <2> HIDE DEF f
    <2>4. e # NoEntry /\ f # NoEntry /\ Count(f) = Count(e)
      BY <2>1, <2>3, RoomSessionsAssumption DEF Entry, Count, Taking
    <2>5. Told(f, announced[s], restarted)
      BY <2>1, <2>3, <2>4 DEF Told
    <2> QED BY <1>5, <1>9, <2>2, <2>5
  <1>10. ASSUME NEW c \in Clients, Heartbeat(c), call[c].session \in Sessions PROVE CountsInv'
    <2> DEFINE s == call[c].session
    <2>1. /\ entry[s] # NoEntry /\ entry' = [entry EXCEPT ![s].fresh = entry[s].fresh \cup {c}]
          /\ UNCHANGED <<announced, restarted>>
      BY <1>10 DEF Heartbeat, published, bounds
    <2>2. entry[s].fresh \cup {c} \in SUBSET Clients
      BY <1>3, <1>10, <2>1 DEF Entry
    <2> HIDE DEF s
    <2> QED BY <1>9, <1>10, <2>1, <2>2 DEF s
  <1>11. ASSUME NEW c \in Clients, NEW s \in Sessions, Silent(c, s) PROVE CountsInv'
    <2>1. /\ entry[s] # NoEntry /\ entry' = [entry EXCEPT ![s].fresh = entry[s].fresh \ {c}]
          /\ UNCHANGED <<announced, restarted>>
      BY <1>11 DEF Silent, published, bounds
    <2>2. entry[s].fresh \ {c} \in SUBSET Clients
      BY <1>3, <2>1 DEF Entry
    <2> QED BY <1>9, <2>1, <2>2
  <1>12. CASE Cleanup
    <2>1. /\ entry' = [s \in Sessions |->
               IF entry[s] = NoEntry THEN NoEntry
               ELSE Without(entry[s], entry[s].clients \ entry[s].fresh)]
          /\ UNCHANGED <<announced, restarted>>
      BY <1>12 DEF Cleanup, published, bounds
    <2>2. ASSUME NEW s \in Sessions PROVE Told(entry'[s], announced[s], restarted)
      <3>1. CASE entry[s] = NoEntry
        <4>1. entry'[s] = entry[s]
          BY <2>1, <3>1
        <4> QED BY <1>2, <4>1
      <3>2. CASE entry[s] # NoEntry
        <4>1. entry'[s] = Without(entry[s], entry[s].clients \ entry[s].fresh)
          BY <2>1, <3>2
        <4>2. entry[s] \in Entry /\ entry[s].clients \ entry[s].fresh \in SUBSET Clients
          BY <1>3, <3>2 DEF Entry
        <4> QED BY <1>2, <4>1, <4>2, WithoutTold
      <3> QED BY <3>1, <3>2
    <2> QED BY <2>1, <2>2 DEF CountsInv
  <1>13. ASSUME NEW s \in Sessions, Debounce(s) PROVE CountsInv'
    <2> DEFINE e == entry[s]
               n == Count(e)
               f == [e EXCEPT !.debounce = FALSE, !.published = n]
               g == IF n = 0 THEN NoEntry ELSE f
    <2>1. /\ e # NoEntry
          /\ entry' = [entry EXCEPT ![s] = g]
          /\ announced' = IF n = e.published THEN announced
                          ELSE [announced EXCEPT ![s] = n]
          /\ UNCHANGED restarted
      BY <1>13 DEF Debounce, Publish, published, bounds
    <2>2. e \in Entry /\ n \in Nat /\ Told(e, announced[s], restarted)
      BY <1>2, <1>3, <2>1
    <2> HIDE DEF e
    <2>3. n = Count(e)
      OBVIOUS
    <2> HIDE DEF n
    <2>4. f \in Entry /\ f.published = n /\ f.debounce = FALSE /\ f.clients = e.clients
      BY <2>2 DEF Entry
    <2> HIDE DEF f
    <2>5. f # NoEntry /\ Count(f) = n
      BY <2>3, <2>4, RoomSessionsAssumption DEF Entry, Count, Taking
    <2>6. CASE n = e.published
      <3>1. Told(g, announced[s], restarted)
        BY <2>1, <2>2, <2>4, <2>5, <2>6 DEF Told
      <3> HIDE DEF g
      <3> QED BY <1>5, <2>1, <2>6, <3>1
    <2>7. CASE n # e.published
      <3>1. Told(g, n, restarted)
        BY <2>4, <2>5 DEF Told
      <3> HIDE DEF g
      <3> QED BY <1>6, <2>1, <2>2, <2>7, <3>1
    <2> QED BY <2>6, <2>7
  <1>14. ASSUME NEW s \in Sessions, Deliver(s) \/ Lose(s) PROVE CountsInv'
    BY <1>4, <1>14 DEF Deliver, Lose, bounds
  <1>15. ASSUME NEW u \in Users, Teardown(u), request[u].session \in Sessions PROVE CountsInv'
    <2> DEFINE s == request[u].session
    <2>1. /\ entry' = [entry EXCEPT ![s] = NoEntry]
          /\ announced' = IF entry[s] = NoEntry THEN announced
                          ELSE [announced EXCEPT ![s] = 0]
          /\ UNCHANGED restarted
      BY <1>15 DEF Teardown, Publish, published, bounds
    <2>2. Told(NoEntry, 0, restarted)
      BY DEF Told
    <2>3. s \in Sessions
      BY <1>15
    <2> HIDE DEF s
    <2>4. CASE entry[s] = NoEntry
      <3>1. Told(NoEntry, announced[s], restarted)
        BY <1>2, <2>3, <2>4
      <3> QED BY <1>5, <2>1, <2>3, <2>4, <3>1
    <2>5. CASE entry[s] # NoEntry
      BY <1>6, <2>1, <2>2, <2>3, <2>5, 0 \in Nat
    <2> QED BY <2>4, <2>5
  <1>16. CASE Crash
    <2>1. restarted' = TRUE /\ \A s \in Sessions : entry'[s] = NoEntry
      BY <1>16, SMTT(60) DEF Crash
    <2> QED BY <2>1 DEF CountsInv, Told
  <1>17. ASSUME NEW u \in Users, RowStep(u), ~ Teardown(u) PROVE CountsInv'
    BY <1>4, <1>17 DEF RowStep, CreateCheck, PatchRead, DeleteRead, Create, Patch, DeleteRow,
       RequestFails, published, bounds
  <1>18. ASSUME NEW u \in Users, LeaveRoom(u) \/ EnterRoom(u) PROVE CountsInv'
    BY <1>4, <1>18 DEF LeaveRoom, EnterRoom, published
  <1>19. ASSUME NEW c \in Clients, CallStep(c), ~ Join(c), ~ Leave(c), ~ Heartbeat(c)
         PROVE  CountsInv'
    BY <1>4, <1>19 DEF CallStep, JoinCheck, LeaveCheck, HeartbeatCheck, Admitted, CallFails, published, bounds
  <1>20. CASE UNCHANGED vars
    BY <1>4, <1>20 DEF vars, published, bounds
  <1>21. \A c \in Clients : Calling(c, "join") \/ Calling(c, "leave") \/ Calling(c, "heartbeat")
           => call[c].session \in Sessions
    BY DEF CallsInv, Calling, Call
  <1>22. \A u \in Users : Teardown(u) => request[u].session \in Sessions
    BY DEF RowsInv, Teardown, Request
  <1>23. ASSUME NEW u \in Users, RowStep(u) PROVE CountsInv'
    BY <1>15, <1>17, <1>22, <1>23, SMTT(60)
  <1>24. ASSUME NEW c \in Clients, CallStep(c) PROVE CountsInv'
    BY <1>7, <1>8, <1>10, <1>19, <1>21, <1>24 DEF Join, Leave, Heartbeat
  <1> QED BY <1>11, <1>12, <1>13, <1>14, <1>16, <1>18, <1>20, <1>23, <1>24 DEF Next

\* When no task sleeps for a session, the count announced last is the true
\* number of participants (sessions/occupancy.rs: ensure_debounce reads the
\* count and notes it under one lock, teardown_session publishes the zero of an
\* entry it drops), and the room was shown it if no publication failed or was
\* overtaken; only a restart may have left an old number standing.
THEOREM CountsTrueAtRest == Spec => []CountsAtRest
  <1>1. Init => CountsInv /\ ShownInv
    BY DEF Init, CountsInv, ShownInv, Latest, Told
  <1> QED BY <1>1, InitInv, InitRest, CountsInvRests, RowsStep, CallsStep, CapStep, RestStep,
             CountsStep, ShownStep, PTL DEF Spec

=============================================================================
