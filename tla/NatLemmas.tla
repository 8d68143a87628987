----------------------------- MODULE NatLemmas -----------------------------
(***************************************************************************)
(* Facts about sets and finite sequences of naturals -- the queries of the *)
(* server that compute MAX(seq) and MAX(edit_seq) are well defined --,     *)
(* about removing an element of a sequence, and about increasing order.    *)
(***************************************************************************)
EXTENDS Integers, FiniteSetsExt, SequencesExt, SequenceTheorems, FiniteSetTheorems,
        WellFoundedInduction, TLAPS

\* Every non-empty set of naturals has a smallest element.
LEMMA NatMin ==
  ASSUME NEW T \in SUBSET Nat, T # {}
  PROVE  \E n \in T : \A m \in T : n <= m
  <1>1. PICK n \in T : \A m \in T : ~ <<m, n>> \in OpToRel(<, Nat)
    BY NatLessThanWellFounded, WFMin
  <1>2. \A m \in T : ~ m < n
    BY <1>1 DEF OpToRel
  <1> QED BY <1>2

\* Every finite sequence of naturals has an upper bound (max_seq and
\* max_edit_seq of the queries exist).
LEMMA BoundedFunction ==
  ASSUME NEW n \in Nat, NEW f \in [1..n -> Nat]
  PROVE  \E b \in Nat : \A k \in 1..n : f[k] <= b
  <1> DEFINE T == {m \in 0..n : \A b \in Nat : \E k \in 1..m : ~ f[k] <= b}
  <1>1. SUFFICES ASSUME \A b \in Nat : \E k \in 1..n : ~ f[k] <= b
                 PROVE  FALSE
    OBVIOUS
  <1>2. n \in T
    BY <1>1
  <1>3. T \in SUBSET Nat /\ T # {}
    <2>1. \A m \in T : m \in Nat
      OBVIOUS
    <2> HIDE DEF T
    <2> QED BY <1>2, <2>1
  <1>4. PICK m \in T : \A l \in T : m <= l
    <2> HIDE DEF T
    <2> QED BY <1>3, NatMin
  <1>5. m \in 0..n /\ \A b \in Nat : \E k \in 1..m : ~ f[k] <= b
    OBVIOUS
  <1>6. m # 0
    BY <1>5, 0 \in Nat
  <1>7. m \in 1..n /\ m - 1 \in 0..n /\ m - 1 \notin T
    <2> HIDE DEF T
    <2> QED BY <1>4, <1>5, <1>6
  <1>8. PICK b \in Nat : \A k \in 1..(m - 1) : f[k] <= b
    BY <1>7
  <1>9. f[m] \in Nat /\ b + f[m] \in Nat
    BY <1>7
  <1>10. PICK k \in 1..m : ~ f[k] <= b + f[m]
    BY <1>5, <1>9
  <1>11. f[k] \in Nat
    BY <1>5
  <1>12. CASE k = m
    BY <1>9, <1>10, <1>12
  <1>13. CASE k \in 1..(m - 1)
    BY <1>8, <1>9, <1>10, <1>11, <1>13
  <1> QED BY <1>5, <1>12, <1>13

\* Max picks the largest element of a bounded set.
LEMMA MaxOfBounded ==
  ASSUME NEW S \in SUBSET Nat, S # {},
         NEW b \in Nat, \A s \in S : s <= b
  PROVE  Max(S) \in S /\ \A s \in S : s <= Max(S)
  <1> DEFINE T == {c \in Nat : \A s \in S : s <= c}
  <1>1. T # {} /\ T \in SUBSET Nat
    OBVIOUS
  <1>2. PICK c \in T : \A d \in T : c <= d
    <2> HIDE DEF T
    <2> QED BY <1>1, NatMin
  <1>3. c \in S
    <2>1. SUFFICES ASSUME c \notin S PROVE FALSE
      OBVIOUS
    <2>2. PICK s \in S : TRUE
      OBVIOUS
    <2>3. s < c
      BY <2>1
    <2>4. c - 1 \in Nat /\ \A x \in S : x <= c - 1
      BY <2>1, <2>3
    <2>5. c - 1 \in T
      BY <2>4
    <2> QED BY <2>5, <1>2
  <1>4. \E x \in S : \A y \in S : x >= y
    BY <1>3
  <1>5. Max(S) \in S /\ \A y \in S : Max(S) >= y
    BY <1>4 DEF Max
  <1> QED BY <1>5

\* So MAX over some of the values of a column, 0 standing for no row, is 0 or
\* one of them, and at least each of them.
LEMMA MaxOfValues ==
  ASSUME NEW n \in Nat, NEW f \in [1..n -> Nat],
         NEW S, S # {}, S \subseteq {0} \cup {f[k] : k \in 1..n}
  PROVE  Max(S) \in S /\ Max(S) \in Nat /\ \A s \in S : s <= Max(S)
  <1>1. PICK b \in Nat : \A k \in 1..n : f[k] <= b
    BY BoundedFunction
  <1>2. S \in SUBSET Nat /\ \A s \in S : s <= b
    BY <1>1
  <1>3. Max(S) \in S /\ \A s \in S : s <= Max(S)
    BY <1>2, MaxOfBounded
  <1> QED BY <1>2, <1>3

\* A sequence without its i-th element: the later ones move up.
LEMMA RemoveAtIs ==
  ASSUME NEW S, NEW s \in Seq(S), NEW i \in 1..Len(s)
  PROVE  /\ RemoveAt(s, i) \in Seq(S)
         /\ Len(RemoveAt(s, i)) = Len(s) - 1
         /\ \A k \in 1..(Len(s) - 1) :
              RemoveAt(s, i)[k] = IF k < i THEN s[k] ELSE s[k + 1]
  <1> DEFINE n == Len(s)
             a == SubSeq(s, 1, i - 1)
             b == SubSeq(s, i + 1, n)
  <1>1. n \in Nat /\ i \in Nat /\ 1 <= i /\ i <= n /\ \A k \in 1..n : s[k] \in S
    BY LenProperties, ElementOfSeq
  <1> HIDE DEF n
  <1>2. /\ a \in Seq(S)
        /\ Len(a) = i - 1
        /\ \A k \in 1..(i - 1) : a[k] = s[k]
    <2>1. 1 \in Int /\ i - 1 \in Int /\ \A k \in 1..(i - 1) : s[k] \in S
      BY <1>1
    <2>2. /\ a \in Seq(S)
          /\ Len(a) = IF 1 <= i - 1 THEN (i - 1) - 1 + 1 ELSE 0
          /\ \A k \in 1..((i - 1) - 1 + 1) : a[k] = s[1 + k - 1]
      BY <2>1, SubSeqProperties
    <2> HIDE DEF a
    <2>3. (i - 1) - 1 + 1 = i - 1 /\ (~ 1 <= i - 1 => i - 1 = 0)
      BY <1>1
    <2>4. \A k \in 1..(i - 1) : 1 + k - 1 = k
      BY <1>1
    <2> QED BY <2>2, <2>3, <2>4
  <1>3. /\ b \in Seq(S)
        /\ Len(b) = n - i
        /\ \A k \in 1..(n - i) : b[k] = s[i + k]
    <2>1. i + 1 \in Int /\ n \in Int /\ \A k \in (i + 1)..n : s[k] \in S
      BY <1>1
    <2>2. /\ b \in Seq(S)
          /\ Len(b) = IF i + 1 <= n THEN n - (i + 1) + 1 ELSE 0
          /\ \A k \in 1..(n - (i + 1) + 1) : b[k] = s[(i + 1) + k - 1]
      BY <2>1, SubSeqProperties
    <2> HIDE DEF b
    <2>3. n - (i + 1) + 1 = n - i /\ (~ i + 1 <= n => n - i = 0)
      BY <1>1
    <2>4. \A k \in 1..(n - i) : (i + 1) + k - 1 = i + k
      BY <1>1
    <2> QED BY <2>2, <2>3, <2>4
  <1> HIDE DEF a, b
  <1>4. /\ a \o b \in Seq(S)
        /\ Len(a \o b) = (i - 1) + (n - i)
        /\ \A k \in 1..((i - 1) + (n - i)) :
             (a \o b)[k] = IF k <= i - 1 THEN a[k] ELSE b[k - (i - 1)]
    <2>1. /\ a \o b \in Seq(S)
          /\ Len(a \o b) = Len(a) + Len(b)
          /\ \A k \in 1..(Len(a) + Len(b)) :
               (a \o b)[k] = IF k <= Len(a) THEN a[k] ELSE b[k - Len(a)]
      BY <1>2, <1>3, ConcatProperties
    <2> QED BY <1>2, <1>3, <2>1
  <1>5. ASSUME NEW k \in 1..(n - 1)
        PROVE  (a \o b)[k] = IF k < i THEN s[k] ELSE s[k + 1]
    <2>1. (i - 1) + (n - i) = n - 1 /\ k \in Nat
      BY <1>1
    <2>2. CASE k < i
      <3>1. k <= i - 1 /\ k \in 1..(i - 1)
        BY <1>1, <2>1, <2>2
      <3> QED BY <1>2, <1>4, <2>1, <2>2, <3>1
    <2>3. CASE ~ k < i
      <3>1. /\ ~ k <= i - 1 /\ k - (i - 1) \in 1..(n - i)
            /\ i + (k - (i - 1)) = k + 1
        BY <1>1, <2>1, <2>3
      <3>2. (a \o b)[k] = b[k - (i - 1)]
        BY <1>4, <2>1, <3>1
      <3>3. b[k - (i - 1)] = s[i + (k - (i - 1))]
        BY <1>3, <3>1
      <3> QED BY <2>3, <3>1, <3>2, <3>3
    <2> QED BY <2>2, <2>3
  <1>6. (i - 1) + (n - i) = n - 1
    BY <1>1
  <1> QED BY <1>4, <1>5, <1>6 DEF RemoveAt, a, b, n

\* Some numbers up to n, in increasing order.
LEMMA OrderExists ==
  ASSUME NEW n \in Nat, NEW K \in SUBSET (1..n)
  PROVE  /\ Cardinality(K) \in Nat
         /\ \E f \in [1..Cardinality(K) -> K] : \A j, k \in 1..Cardinality(K) : j < k => f[j] < f[k]
  <1> DEFINE Good(S) == /\ IsFiniteSet(S) /\ Cardinality(S) \in Nat
                        /\ \E f \in [1..Cardinality(S) -> S] :
                             \A j, k \in 1..Cardinality(S) : j < k => f[j] < f[k]
             T == {m \in Nat : \E S \in SUBSET (1..m) : ~ Good(S)}
  <1>1. ASSUME T # {}
        PROVE  FALSE
    <2>1. PICK m \in T : \A l \in T : m <= l
      <3>1. T \in SUBSET Nat
        OBVIOUS
      <3> HIDE DEF T
      <3> QED BY <1>1, <3>1, NatMin
    <2>2. PICK S \in SUBSET (1..m) : ~ Good(S)
      OBVIOUS
    <2>3. Good({})
      <3>1. IsFiniteSet({}) /\ Cardinality({}) = 0 /\ 1..0 = {}
        BY FS_EmptySet
      <3> DEFINE f == [k \in {} |-> 0]
      <3>2. f \in [1..Cardinality({}) -> {}]
        BY <3>1
      <3> HIDE DEF f
      <3>3. \A j, k \in 1..Cardinality({}) : j < k => f[j] < f[k]
        BY <3>1
      <3>4. Cardinality({}) \in Nat
        BY <3>1
      <3> QED BY <3>1, <3>2, <3>3, <3>4, Zenon
    <2>4. m # 0
      <3>1. m = 0 => S = {}
        BY <2>2
      <3> HIDE DEF Good
      <3> QED BY <2>2, <2>3, <3>1
    <2>5. m \in Nat /\ m - 1 \in Nat /\ m - 1 \notin T
      <3> HIDE DEF T
      <3>1. m \in Nat
        BY <2>1 DEF T
      <3> QED BY <2>1, <2>4, <3>1
    <2> DEFINE R == S \ {m}
    <2>6. R \in SUBSET (1..(m - 1))
      BY <2>2, <2>5
    <2>7. Good(R)
      <3> HIDE DEF Good, R
      <3> QED BY <2>5, <2>6
    <2> DEFINE c == Cardinality(R)
    <2>8. PICK f \in [1..c -> R] : \A j, k \in 1..c : j < k => f[j] < f[k]
      BY <2>7
    <2>9. c \in Nat /\ IsFiniteSet(R)
      BY <2>7
    <2>10. m \in S
      <3>1. m \notin S => R = S
        OBVIOUS
      <3> HIDE DEF Good, R
      <3> QED BY <2>2, <2>7, <3>1
    <2>11. IsFiniteSet(S) /\ Cardinality(S) = c + 1
      <3>1. S = R \cup {m} /\ m \notin R
        BY <2>10
      <3> HIDE DEF R
      <3> QED BY <2>9, <3>1, FS_AddElement
    <2> DEFINE g == [k \in 1..(c + 1) |-> IF k = c + 1 THEN m ELSE f[k]]
    <2>12. \A k \in 1..(c + 1) : k # c + 1 => k \in 1..c /\ f[k] \in R /\ f[k] \in S /\ f[k] < m
      <3> HIDE DEF c
      <3>1. \A x \in R : x \in S /\ x < m
        BY <2>5, <2>6
      <3> HIDE DEF R
      <3> QED BY <2>8, <2>9, <3>1
    <2>13. g \in [1..(c + 1) -> S]
      <3> HIDE DEF c, R
      <3> QED BY <2>10, <2>12
    <2>14. \A j, k \in 1..(c + 1) : j < k => g[j] < g[k]
      <3> HIDE DEF c, R
      <3> TAKE j, k \in 1..(c + 1)
      <3>1. CASE k = c + 1
        BY <2>9, <2>12, <3>1
      <3>2. CASE k # c + 1
        <4>1. j < k => j # c + 1
          BY <2>9, <3>2
        <4> QED BY <2>8, <2>12, <3>2, <4>1
      <3> QED BY <3>1, <3>2
    <2>15. Good(S)
      <3>1. Cardinality(S) \in Nat
        BY <2>9, <2>11
      <3> HIDE DEF c, R, g
      <3> QED BY <2>11, <2>13, <2>14, <3>1
    <2> HIDE DEF Good
    <2> QED BY <2>2, <2>15
  <1>2. Good(K)
    <2> HIDE DEF Good
    <2>1. n \notin T
      <3> HIDE DEF T
      <3> QED BY <1>1
    <2> QED BY <2>1
  <1> QED BY <1>2

\* All of them in increasing order are themselves.
LEMMA OrderOfAll ==
  ASSUME NEW n \in Nat, NEW f \in [1..n -> 1..n],
         \A j, k \in 1..n : j < k => f[j] < f[k]
  PROVE  \A k \in 1..n : f[k] = k
  <1> DEFINE T == {k \in 1..n : f[k] < k}
             U == {k \in 0..n : n - k \in 1..n /\ f[n - k] > n - k}
  <1>1. ASSUME T # {}
        PROVE  FALSE
    <2>1. PICK m \in T : \A l \in T : m <= l
      <3>1. T \in SUBSET Nat
        OBVIOUS
      <3> HIDE DEF T
      <3> QED BY <1>1, <3>1, NatMin
    <2>2. m \in 1..n /\ f[m] < m /\ f[m] \in 1..n
      OBVIOUS
    <2>3. f[m] \notin T
      <3> HIDE DEF T
      <3> QED BY <2>1, <2>2
    <2>4. f[f[m]] < f[m]
      BY <2>2
    <2> QED BY <2>2, <2>3, <2>4
  <1>2. ASSUME U # {}
        PROVE  FALSE
    <2>1. PICK m \in U : \A l \in U : m <= l
      <3>1. U \in SUBSET Nat
        OBVIOUS
      <3> HIDE DEF U
      <3> QED BY <1>2, <3>1, NatMin
    <2>2. m \in 0..n /\ n - m \in 1..n /\ f[n - m] > n - m
      OBVIOUS
    <2>3. PICK x \in 1..n : x = f[n - m] /\ x > n - m
      BY <2>2
    <2>4. f[x] > x
      BY <2>2, <2>3
    <2>5. n - x \in 0..n /\ n - (n - x) = x /\ n - x < m
      BY <2>2, <2>3, SMTT(60)
    <2>6. n - x \in U
      BY <2>3, <2>4, <2>5
    <2> HIDE DEF U
    <2> QED BY <2>1, <2>2, <2>5, <2>6
  <1>3. ASSUME NEW k \in 1..n
        PROVE  f[k] = k
    <2>1. ~ f[k] < k
      BY <1>1
    <2>2. n - k \in 0..n /\ n - (n - k) = k
      OBVIOUS
    <2>3. ~ f[k] > k
      BY <1>2, <2>2
    <2> QED BY <2>1, <2>3
  <1> QED BY <1>3

=============================================================================
