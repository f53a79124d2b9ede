---------------------------- MODULE ByteArrayProofs ----------------------------
(***************************************************************************)
(* Theorems about ByteArray, for every set of block sizes, all widths of   *)
(* bytes and integers, all values and strings that are written, and        *)
(* histories of any length.                                                *)
(***************************************************************************)
EXTENDS ByteArray, FiniteSetTheorems, SequenceTheorems, TLAPS

(* Induction over the natural numbers, as a statement about sets             *)

LEMMA SetInduction ==
    ASSUME NEW S, 0 \in S, \A n \in Nat : n \in S => n + 1 \in S
    PROVE  Nat \subseteq S
<1>1. SUFFICES ASSUME Nat \ S # {} PROVE FALSE
  OBVIOUS
<1>2. PICK x \in Nat \ S : \A y \in Nat \ S : x <= y
  <2> DEFINE R == OpToRel(<, Nat)
  <2>1. IsWellFoundedOn(R, Nat)
    BY NatLessThanWellFounded, Zenon
  <2>2. PICK x \in Nat \ S : \A y \in Nat \ S : ~ (<<y, x>> \in R)
    <3> HIDE DEF R
    <3> QED BY <1>1, <2>1, WFMin
  <2>3. ASSUME NEW y \in Nat \ S PROVE x <= y
    <3>1. <<y, x>> \notin {ss \in Nat \X Nat : ss[1] < ss[2]}
      BY <2>2, Zenon DEF OpToRel
    <3> HIDE DEF R
    <3> QED BY <3>1
  <2> HIDE DEF R
  <2> QED BY <2>3
<1>3. x - 1 \in Nat /\ x - 1 < x /\ x - 1 + 1 = x
  BY <1>1
<1>4. x - 1 \in S
  BY <1>2, <1>3
<1> QED BY <1>2, <1>3, <1>4

-----------------------------------------------------------------------------
(* Quotients, remainders and powers of two                                   *)

LEMMA DivMod ==
    ASSUME NEW a \in Int, NEW b \in Nat \ {0}
    PROVE  /\ a \div b \in Int /\ a % b \in 0 .. b - 1
           /\ a = b * (a \div b) + (a % b)
OBVIOUS

LEMMA ProductLess ==
    ASSUME NEW b \in Nat \ {0}, NEW q \in Int, NEW p \in Int, q < p
    PROVE  b * q + b <= b * p
OBVIOUS

LEMMA ProductFacts ==
    ASSUME NEW b \in Nat \ {0}, NEW q \in Int, NEW p \in Int
    PROVE  /\ b * q \in Int /\ b * p \in Int
           /\ q <= p <=> b * q <= b * p
           /\ b * (q + p) = b * q + b * p
           /\ b * q = q * b
OBVIOUS

LEMMA DivModUnique ==
    ASSUME NEW a \in Int, NEW b \in Nat \ {0}, NEW q \in Int, NEW r \in 0 .. b - 1,
           a = b * q + r
    PROVE  a \div b = q /\ a % b = r
<1>1. /\ a \div b \in Int /\ a % b \in 0 .. b - 1
      /\ a = b * (a \div b) + (a % b)
  BY DivMod
<1>2. ~(a \div b < q) /\ ~(q < a \div b)
  BY <1>1, ProductLess
<1> QED BY <1>1, <1>2

\* Going n on from the remainder of a is going n on from a.
LEMMA DivAdd ==
    ASSUME NEW a \in Int, NEW b \in Nat \ {0}, NEW n \in Int
    PROVE  /\ (a \div b) + (((a % b) + n) \div b) = (a + n) \div b
           /\ ((a % b) + n) % b = (a + n) % b
<1> DEFINE q == a \div b
           r == a % b
           p == (r + n) \div b
           s == (r + n) % b
<1>1. q \in Int /\ r \in 0 .. b - 1 /\ a = b * q + r
  BY DivMod
<1>2. r + n \in Int
  BY <1>1
<1>3. p \in Int /\ s \in 0 .. b - 1 /\ r + n = b * p + s
  BY <1>2, DivMod
<1> HIDE DEF q, r, p, s
<1>4. a + n = b * (q + p) + s
  BY <1>1, <1>3, ProductFacts
<1>5. (a + n) \div b = q + p /\ (a + n) % b = s
  BY <1>1, <1>3, <1>4, DivModUnique
<1> QED BY <1>5 DEF q, r, p, s

\* A position is in one of the first m blocks if it is below their size.
LEMMA DivBelow ==
    ASSUME NEW a \in Nat, NEW b \in Nat \ {0}, NEW m \in Nat
    PROVE  /\ a \div b \in Nat
           /\ a \div b + 1 <= m <=> a < m * b
<1> DEFINE q == a \div b
           r == a % b
<1>1. q \in Int /\ r \in 0 .. b - 1 /\ a = b * q + r
  BY DivMod
<1> HIDE DEF q, r
<1>2. ~(q < 0)
  BY <1>1, ProductLess
<1>3. q < m => a < m * b
  BY <1>1, ProductLess, ProductFacts
<1>4. ~(q < m) => ~(a < m * b)
  BY <1>1, ProductFacts
<1> QED BY <1>1, <1>2, <1>3, <1>4 DEF q

LEMMA PowerNat == ASSUME NEW n \in Nat PROVE 2 ^ n \in Nat
<1>1. IsFiniteSet(1 .. n) /\ Cardinality(1 .. n) = n
  BY FS_Interval
<1>2. IsFiniteSet(SUBSET (1 .. n)) /\ Cardinality(SUBSET (1 .. n)) = 2 ^ n
  BY <1>1, FS_SUBSET
<1> QED BY <1>2, FS_CardinalityType

LEMMA PowerZero == 2 ^ 0 = 1
<1>1. Cardinality({}) = 0 /\ IsFiniteSet({})
  BY FS_EmptySet
<1>2. Cardinality(SUBSET {}) = 2 ^ 0
  BY <1>1, FS_SUBSET
<1>3. SUBSET {} = {{}}
  OBVIOUS
<1>4. Cardinality({{}}) = 1
  BY FS_Singleton
<1> QED BY <1>2, <1>3, <1>4

\* 2 ^ n is the number of subsets of a set of n elements; one more element doubles
\* them.
LEMMA PowerNext == ASSUME NEW n \in Nat PROVE 2 ^ (n + 1) = 2 * 2 ^ n
<1> DEFINE S == 1 .. n
           x == n + 1
           A == SUBSET S
           B == {T \cup {x} : T \in A}
<1>1. IsFiniteSet(S) /\ Cardinality(S) = n
  BY FS_Interval
<1>2. IsFiniteSet(A) /\ Cardinality(A) = 2 ^ n
  BY <1>1, FS_SUBSET
<1>3. x \notin S
  OBVIOUS
<1>4. IsFiniteSet(S \cup {x}) /\ Cardinality(S \cup {x}) = n + 1
  <2> HIDE DEF S, x
  <2> QED BY <1>1, <1>3, FS_AddElement
<1>5. IsFiniteSet(SUBSET (S \cup {x})) /\ Cardinality(SUBSET (S \cup {x})) = 2 ^ (n + 1)
  <2> HIDE DEF S, x
  <2> QED BY <1>4, FS_SUBSET
<1>6. SUBSET (S \cup {x}) = A \cup B
  <2> HIDE DEF S, x
  <2>1. ASSUME NEW T \in SUBSET (S \cup {x}) PROVE T \in A \cup B
    <3>1. CASE x \in T
      <4>1. T \ {x} \in A /\ T = (T \ {x}) \cup {x}
        BY <3>1
      <4> QED BY <4>1
    <3>2. CASE x \notin T
      BY <3>2
    <3> QED BY <3>1, <3>2
  <2> QED BY <2>1
<1>7. A \cap B = {}
  BY <1>3
<1>8. IsFiniteSet(B) /\ Cardinality(B) = Cardinality(A)
  <2> DEFINE f == [T \in A |-> T \cup {x}]
  <2>1. f \in Bijection(A, B)
    <3> HIDE DEF S, x
    <3>1. f \in [A -> B]
      OBVIOUS
    <3>2. \A T, U \in A : f[T] = f[U] => T = U
      BY <1>3
    <3>3. \A b \in B : \E T \in A : f[T] = b
      OBVIOUS
    <3> QED BY <3>1, <3>2, <3>3 DEF Bijection, Injection, Surjection, IsInjective
  <2>2. ExistsBijection(A, B)
    BY <2>1, Zenon DEF ExistsBijection
  <2> HIDE DEF A, B, f
  <2> QED BY <1>2, <2>2, FS_Bijection
<1>9. Cardinality(A \cup B) = Cardinality(A) + Cardinality(B) - Cardinality(A \cap B)
  <2> HIDE DEF A, B
  <2> QED BY <1>2, <1>8, FS_Union
<1>10. Cardinality(A \cap B) = 0
  BY <1>7, FS_EmptySet
<1>11. 2 ^ n \in Nat
  BY PowerNat
<1> DEFINE p == 2 ^ n
           r == 2 ^ (n + 1)
<1>12. Cardinality(A \cup B) = r /\ Cardinality(A) = p /\ Cardinality(B) = p /\ p \in Nat
  <2> HIDE DEF A, B, S, x
  <2> QED BY <1>2, <1>5, <1>6, <1>8, <1>11
<1> HIDE DEF A, B, S, x, p, r
<1>13. r = 2 * p
  BY <1>9, <1>10, <1>12
<1> QED BY <1>13 DEF p, r

LEMMA PowerPositive == ASSUME NEW n \in Nat PROVE 2 ^ n \in Nat \ {0}
<1> DEFINE S == {k \in Nat : 2 ^ k # 0}
<1>1. 0 \in S
  BY PowerZero
<1>2. \A k \in Nat : k \in S => k + 1 \in S
  BY PowerNext, PowerNat
<1> HIDE DEF S
<1>3. Nat \subseteq S
  BY <1>1, <1>2, SetInduction
<1> QED BY <1>3, PowerNat DEF S

LEMMA PowerSum ==
    ASSUME NEW m \in Nat, NEW n \in Nat PROVE 2 ^ (m + n) = 2 ^ m * 2 ^ n
<1> DEFINE S == {k \in Nat : 2 ^ (m + k) = 2 ^ m * 2 ^ k}
<1>1. 0 \in S
  BY PowerZero, PowerNat
<1>2. ASSUME NEW k \in Nat, k \in S PROVE k + 1 \in S
  <2> DEFINE a == 2 ^ m
             b == 2 ^ k
  <2>1. a \in Nat /\ b \in Nat
    BY PowerNat
  <2>2. 2 ^ (m + k) = a * b
    BY <1>2
  <2>3. 2 ^ ((m + k) + 1) = 2 * 2 ^ (m + k) /\ 2 ^ (k + 1) = 2 * b
    BY PowerNext
  <2>4. (m + k) + 1 = m + (k + 1)
    OBVIOUS
  <2> HIDE DEF a, b
  <2>5. 2 * (a * b) = a * (2 * b)
    BY <2>1
  <2>6. 2 ^ (m + (k + 1)) = a * 2 ^ (k + 1)
    BY <2>2, <2>3, <2>4, <2>5
  <2> QED BY <2>6 DEF a
<1> HIDE DEF S
<1>3. Nat \subseteq S
  BY <1>1, <1>2, SetInduction
<1> QED BY <1>3 DEF S

LEMMA PowerMonotonic ==
    ASSUME NEW m \in Nat, NEW n \in Nat, m <= n PROVE 2 ^ m <= 2 ^ n
<1>1. n - m \in Nat /\ n = m + (n - m)
  OBVIOUS
<1>2. 2 ^ n = 2 ^ m * 2 ^ (n - m)
  BY <1>1, PowerSum
<1>3. 2 ^ m \in Nat /\ 2 ^ (n - m) \in Nat \ {0}
  BY <1>1, PowerPositive, PowerNat
<1> QED BY <1>2, <1>3

-----------------------------------------------------------------------------
(* The two recursive functions                                               *)

\* The array after k writes is what the k-th makes of the array after k - 1.
LEMMA AfterSteps ==
    ASSUME NEW b, NEW pieces, Len(pieces) \in Nat
    PROVE  /\ After(b, pieces)[0] = b
           /\ \A k \in 1 .. Len(pieces) :
                 After(b, pieces)[k] = Write(After(b, pieces)[k - 1], pieces[k])
<1> DEFINE D(f, n) == [k \in 0 .. n |-> IF k = 0 THEN b ELSE Write(f[k - 1], pieces[k])]
           S == {n \in Nat : \E f : f = D(f, n)}
<1>1. 0 \in S
  <2> DEFINE f == [k \in 0 .. 0 |-> b]
  <2>1. f = D(f, 0)
    OBVIOUS
  <2> QED BY <2>1
<1>2. ASSUME NEW n \in Nat, n \in S PROVE n + 1 \in S
  <2>1. PICK f : f = D(f, n)
    BY <1>2
  <2> DEFINE g == [k \in 0 .. n + 1 |-> IF k = n + 1 THEN Write(f[n], pieces[n + 1]) ELSE f[k]]
  <2>2. \A k \in 0 .. n : f[k] = IF k = 0 THEN b ELSE Write(f[k - 1], pieces[k])
    BY <2>1
  <2>3. ASSUME NEW k \in 0 .. n + 1
        PROVE  g[k] = IF k = 0 THEN b ELSE Write(g[k - 1], pieces[k])
    <3>1. CASE k = n + 1
      BY <3>1
    <3>2. CASE k # n + 1
      <4>1. k \in 0 .. n /\ g[k] = f[k] /\ (k # 0 => g[k - 1] = f[k - 1])
        BY <3>2
      <4> QED BY <4>1, <2>2
    <3> QED BY <3>1, <3>2
  <2>4. g = D(g, n + 1)
    BY <2>3
  <2>5. \E h : h = D(h, n + 1)
    <3> HIDE DEF D, g
    <3> QED BY <2>4
  <2> QED BY <2>5
<1>3. Nat \subseteq S
  <2> HIDE DEF S
  <2> QED BY <1>1, <1>2, SetInduction
<1>4. \E f : f = D(f, Len(pieces))
  BY <1>3
<1>5. After(b, pieces) = CHOOSE f : f = D(f, Len(pieces))
  BY Zenon DEF After
<1>6. After(b, pieces) = D(After(b, pieces), Len(pieces))
  <2> HIDE DEF D
  <2> QED BY <1>4, <1>5
<1>7. ASSUME NEW k \in 0 .. Len(pieces)
      PROVE  After(b, pieces)[k] = IF k = 0 THEN b ELSE Write(After(b, pieces)[k - 1], pieces[k])
  BY <1>6
<1> QED BY <1>7

\* The sum of k + 1 digits is the sum of k digits and the next one at its place.
LEMMA SumsSteps ==
    ASSUME NEW s, NEW d, Len(s) \in Nat
    PROVE  /\ Sums(s, d)[0] = 0
           /\ \A k \in 1 .. Len(s) :
                 Sums(s, d)[k] = Sums(s, d)[k - 1] + s[k] * 2 ^ (d * (k - 1))
<1> DEFINE T(k) == s[k] * 2 ^ (d * (k - 1))
           D(f, n) == [k \in 0 .. n |-> IF k = 0 THEN 0 ELSE f[k - 1] + T(k)]
           S == {n \in Nat : \E f : f = D(f, n)}
<1>1. Sums(s, d) = CHOOSE f : f = D(f, Len(s))
  BY Zenon DEF Sums
<1>2. Sums(s, d) = D(Sums(s, d), Len(s))
  <2> HIDE DEF T
  <2>1. 0 \in S
    <3> DEFINE f == [k \in 0 .. 0 |-> 0]
    <3>1. f = D(f, 0)
      OBVIOUS
    <3> QED BY <3>1
  <2>2. ASSUME NEW n \in Nat, n \in S PROVE n + 1 \in S
    <3>1. PICK f : f = D(f, n)
      BY <2>2
    <3> DEFINE g == [k \in 0 .. n + 1 |-> IF k = n + 1 THEN f[n] + T(n + 1) ELSE f[k]]
    <3>2. \A k \in 0 .. n : f[k] = IF k = 0 THEN 0 ELSE f[k - 1] + T(k)
      BY <3>1
    <3>3. ASSUME NEW k \in 0 .. n + 1
          PROVE  g[k] = IF k = 0 THEN 0 ELSE g[k - 1] + T(k)
      <4>1. CASE k = n + 1
        BY <4>1
      <4>2. CASE k # n + 1
        <5>1. k \in 0 .. n /\ g[k] = f[k] /\ (k # 0 => g[k - 1] = f[k - 1])
          BY <4>2
        <5> QED BY <5>1, <3>2
      <4> QED BY <4>1, <4>2
    <3>4. g = D(g, n + 1)
      BY <3>3
    <3>5. \E h : h = D(h, n + 1)
      <4> HIDE DEF D, g
      <4> QED BY <3>4
    <3> QED BY <3>5
  <2>3. Nat \subseteq S
    <3> HIDE DEF S
    <3> QED BY <2>1, <2>2, SetInduction
  <2>4. \E f : f = D(f, Len(s))
    BY <2>3
  <2> HIDE DEF D
  <2> QED BY <1>1, <2>4
<1>3. ASSUME NEW k \in 0 .. Len(s)
      PROVE  Sums(s, d)[k] = IF k = 0 THEN 0 ELSE Sums(s, d)[k - 1] + T(k)
  <2> HIDE DEF T
  <2> QED BY <1>2
<1> QED BY <1>3

-----------------------------------------------------------------------------
(* Blocks and positions                                                      *)

\* The cell at an address, counted from the first cell of the first block.
At(b, a) == b.nodes[1 + a \div b.m_baseSize][a % b.m_baseSize]

\* The cells there are.
Room(b) == Len(b.nodes) * b.m_baseSize

LEMMA ArrayTypes ==
    ASSUME NEW b, WellFormed(b)
    PROVE  /\ b.m_baseSize \in Nat \ {0} /\ b.m_baseSize \in Bases
           /\ b.m_position \in Nat /\ b.m_size \in Nat /\ b.m_capacity \in Nat
           /\ Len(b.nodes) \in Nat /\ b.m_cur \in 0 .. Len(b.nodes)
           /\ Room(b) \in Nat /\ Offset(b) \in 0 .. b.m_baseSize - 1
           /\ b.asked \in Nat
<1>1. b \in Arrays /\ b.m_cur <= Len(b.nodes)
  BY DEF WellFormed
<1>2. /\ b.m_baseSize \in Bases /\ b.m_position \in Nat /\ b.m_size \in Nat
      /\ b.m_capacity \in Nat /\ Len(b.nodes) \in Nat /\ b.m_cur \in Nat /\ b.asked \in Nat
  BY <1>1 DEF Arrays
<1>3. b.m_baseSize \in Nat \ {0}
  BY <1>2, ByteArrayAssumption
<1>4. Room(b) \in Nat
  BY <1>2, <1>3, ProductFacts DEF Room
<1>5. Offset(b) \in 0 .. b.m_baseSize - 1
  <2>1. b.m_position \in Int
    BY <1>2
  <2> QED BY <1>3, <2>1, DivMod, Zenon DEF Offset
<1> QED BY <1>1, <1>2, <1>3, <1>4, <1>5

LEMMA CellType ==
    ASSUME NEW b, WellFormed(b), NEW a \in Nat, a < Room(b)
    PROVE  At(b, a) \in Cell
<1>1. /\ b.m_baseSize \in Nat \ {0} /\ Len(b.nodes) \in Nat
      /\ \A j \in 1 .. Len(b.nodes) : b.nodes[j] \in [0 .. b.m_baseSize - 1 -> Cell]
  BY ArrayTypes DEF WellFormed
<1>2. 1 + a \div b.m_baseSize \in 1 .. Len(b.nodes)
  BY <1>1, DivBelow DEF Room
<1>3. a % b.m_baseSize \in 0 .. b.m_baseSize - 1
  <2>1. a \in Int
    OBVIOUS
  <2> QED BY <1>1, <2>1, DivMod, Zenon
<1> QED BY <1>1, <1>2, <1>3 DEF At

\* Where m_cur is, and that it is null exactly when the position is at the end.
LEMMA CurWhere ==
    ASSUME NEW b, WellFormed(b), Placed(b)
    PROVE  /\ b.m_position <= b.m_size /\ b.m_size <= Room(b)
           /\ b.m_cur # Null <=> b.m_position < Room(b)
           /\ b.m_cur # Null => b.m_cur = b.m_position \div b.m_baseSize + 1
<1>1. /\ b.m_baseSize \in Nat \ {0} /\ Len(b.nodes) \in Nat /\ b.m_position \in Nat
  BY ArrayTypes
<1>2. /\ b.m_position \div b.m_baseSize \in Nat
      /\ b.m_position \div b.m_baseSize + 1 <= Len(b.nodes) <=> b.m_position < Room(b)
  BY <1>1, DivBelow DEF Room
<1> QED BY <1>1, <1>2 DEF Placed, Null, Room

\* If m_cur is the position's block, the loops over blocks reach n bytes exactly if
\* there are as many from the position on.
LEMMA ReachesWhat ==
    ASSUME NEW b, WellFormed(b), b.m_cur # Null => b.m_cur = b.m_position \div b.m_baseSize + 1,
           NEW n \in Nat
    PROVE  Reaches(b, b.m_cur, Offset(b), n) <=>
              b.m_cur # Null /\ (n > 0 => b.m_position + n <= Room(b))
<1> DEFINE pos == b.m_position
           base == b.m_baseSize
           N == Len(b.nodes)
<1>1. base \in Nat \ {0} /\ N \in Nat /\ pos \in Nat
  BY ArrayTypes
<1>2. CASE b.m_cur # Null /\ n > 0
  <2>1. b.m_cur = pos \div base + 1
    BY <1>2
  <2>2. (pos \div base) + ((Offset(b) + (n - 1)) \div base) = (pos + (n - 1)) \div base
    <3>1. pos \in Int /\ n - 1 \in Int
      BY <1>1
    <3> QED BY <1>1, <3>1, DivAdd, Zenon DEF Offset
  <2>3. Offset(b) + (n - 1) = Offset(b) + n - 1
    BY ArrayTypes
  <2>4. pos + (n - 1) \in Nat
    BY <1>1, <1>2
  <2>5. /\ (pos + (n - 1)) \div base \in Nat
        /\ (pos + (n - 1)) \div base + 1 <= N <=> pos + (n - 1) < N * base
    BY <1>1, <2>4, DivBelow
  <2>6. pos \div base \in Int /\ (Offset(b) + n - 1) \div base \in Int
    <3>1. Offset(b) + n - 1 \in Int /\ pos \in Int
      BY <1>1, ArrayTypes
    <3> QED BY <1>1, <3>1, DivMod, Zenon
  <2>7. b.m_cur + (Offset(b) + n - 1) \div base = (pos + (n - 1)) \div base + 1
    <3> HIDE DEF pos, base
    <3> QED BY <2>1, <2>2, <2>3, <2>6
  <2>8. N * base \in Int
    BY <1>1, ProductFacts
  <2>9. pos + (n - 1) < N * base <=> pos + n <= N * base
    <3> HIDE DEF pos, base, N
    <3> QED BY <1>1, <2>8
  <2>10. Room(b) = N * base
    BY DEF Room
  <2> HIDE DEF pos, base, N
  <2>11. Reaches(b, b.m_cur, Offset(b), n) <=> pos + n <= Room(b)
    BY <1>2, <2>5, <2>7, <2>9, <2>10 DEF Reaches, base, N
  <2> QED BY <1>2, <2>11 DEF pos
<1>3. CASE ~(b.m_cur # Null /\ n > 0)
  BY <1>3 DEF Reaches
<1> QED BY <1>2, <1>3

\* The cells that the loops find from the position on are those at the addresses
\* from there on.
LEMMA CellsAhead ==
    ASSUME NEW b, WellFormed(b), b.m_cur = b.m_position \div b.m_baseSize + 1, NEW n \in Nat
    PROVE  CellsFrom(b, b.m_cur, Offset(b), n) = [i \in 1 .. n |-> At(b, b.m_position + i - 1)]
<1> DEFINE pos == b.m_position
           base == b.m_baseSize
<1>1. base \in Nat \ {0} /\ pos \in Nat /\ Offset(b) \in Nat
  BY ArrayTypes
<1>2. ASSUME NEW i \in 1 .. n
      PROVE  b.nodes[b.m_cur + (Offset(b) + i - 1) \div base][(Offset(b) + i - 1) % base]
             = At(b, pos + i - 1)
  <2>1. /\ (pos \div base) + ((Offset(b) + (i - 1)) \div base) = (pos + (i - 1)) \div base
        /\ (Offset(b) + (i - 1)) % base = (pos + (i - 1)) % base
    <3>1. pos \in Int /\ i - 1 \in Int
      BY <1>1
    <3> QED BY <1>1, <3>1, DivAdd, Zenon DEF Offset
  <2>2. Offset(b) + (i - 1) = Offset(b) + i - 1 /\ pos + (i - 1) = pos + i - 1
    BY <1>1
  <2>3. Offset(b) + i - 1 \in Int /\ pos \in Int
    BY <1>1
  <2>4. pos \div base \in Int /\ (Offset(b) + i - 1) \div base \in Int
    BY <1>1, <2>3, DivMod, Zenon
  <2>5. b.m_cur + (Offset(b) + i - 1) \div base = 1 + (pos + i - 1) \div base
    <3> HIDE DEF pos, base
    <3>1. b.m_cur = pos \div base + 1
      BY DEF pos, base
    <3> QED BY <2>1, <2>2, <2>4, <3>1
  <2> QED BY <2>1, <2>2, <2>5 DEF At
<1> QED BY <1>2 DEF CellsFrom

\* The same from address p, for the loops that start in the first block.
LEMMA CellsAny ==
    ASSUME NEW b, NEW p, NEW n
    PROVE  CellsFrom(b, 1, p, n) = [i \in 1 .. n |-> At(b, p + i - 1)]
BY DEF CellsFrom, At

-----------------------------------------------------------------------------
(* addCapacity                                                               *)

Blocks == UNION {[0 .. base - 1 -> Cell] : base \in Bases}

\* What growth leaves as it was, and what it adds.
Grows(b, c) ==
    /\ WellFormed(c) /\ c.failed = "none" /\ Counted(c)
    /\ c.m_baseSize = b.m_baseSize /\ c.m_position = b.m_position /\ c.m_size = b.m_size
    /\ c.m_endian = b.m_endian
    /\ Len(b.nodes) <= Len(c.nodes)
    /\ c.m_cur # Null => c.m_cur = c.m_position \div c.m_baseSize + 1
    /\ \A a \in Nat : a < Room(b) => At(c, a) = At(b, a)

LEMMA BlocksForType ==
    ASSUME NEW b, Sound(b), NEW size \in Nat
    PROVE  /\ BlocksFor(b, size) \in Nat
           /\ ~(size % b.m_baseSize \in 1 .. getCapacity(b))
                => size <= b.m_baseSize * BlocksFor(b, size)
<1> DEFINE base == b.m_baseSize
           q == size \div base
           r == size % base
           old == getCapacity(b)
<1>1. /\ base \in Nat \ {0} /\ b.m_capacity \in Nat /\ b.m_position \in Nat
      /\ Room(b) \in Nat
  BY ArrayTypes DEF Sound
<1>2. b.m_position <= Room(b) /\ Room(b) <= b.m_capacity
  BY <1>1, CurWhere, ArrayTypes DEF Sound, Counted, Room
<1>3. old \in Nat
  BY <1>1, <1>2 DEF getCapacity
<1>4. size \in Int
  OBVIOUS
<1>5. q \in Int /\ r \in 0 .. base - 1 /\ size = base * q + r
  BY <1>1, <1>4, DivMod, Zenon
<1>6. q \in Nat
  BY <1>1, DivBelow
<1>7. BlocksFor(b, size) = q + (IF r > old THEN 1 ELSE 0)
  BY DEF BlocksFor
<1> HIDE DEF base, q, r, old
<1>8. BlocksFor(b, size) \in Nat
  BY <1>6, <1>7
<1>9. ASSUME r \notin 1 .. old PROVE size <= base * BlocksFor(b, size)
  <2>1. CASE r > old
    <3>1. BlocksFor(b, size) = q + 1
      BY <1>7, <2>1
    <3>2. base * (q + 1) = base * q + base /\ base * q \in Int
      BY <1>1, <1>5, ProductFacts
    <3> QED BY <1>1, <1>5, <3>1, <3>2
  <2>2. CASE ~(r > old)
    <3>1. r = 0 /\ BlocksFor(b, size) = q
      BY <1>3, <1>5, <1>7, <1>9, <2>2
    <3>2. base * q \in Int
      BY <1>1, <1>5, ProductFacts
    <3> QED BY <1>5, <3>1, <3>2
  <2> QED BY <2>1, <2>2
<1> QED BY <1>8, <1>9 DEF base, r, old

LEMMA NewNodeType ==
    ASSUME NEW base \in Bases PROVE NewNode(base) \in [0 .. base - 1 -> Cell]
BY DEF NewNode, Cell

\* The array with count more blocks.
Extended(b, count, cur) ==
    [b EXCEPT !.nodes = @ \o [i \in 1 .. count |-> NewNode(b.m_baseSize)],
              !.m_capacity = @ + count * b.m_baseSize,
              !.m_cur = cur]

LEMMA MoreBlocks ==
    ASSUME NEW b, Sound(b), NEW count \in Nat, NEW cur \in 0 .. Len(b.nodes) + count,
           cur # Null => cur = b.m_position \div b.m_baseSize + 1
    PROVE  /\ Grows(b, Extended(b, count, cur))
           /\ Len(Extended(b, count, cur).nodes) = Len(b.nodes) + count
           /\ Extended(b, count, cur).m_cur = cur
<1> DEFINE c == Extended(b, count, cur)
           base == b.m_baseSize
           more == [i \in 1 .. count |-> NewNode(base)]
           nodes == b.nodes \o more
           N == Len(b.nodes)
<1>1. /\ base \in Nat \ {0} /\ base \in Bases /\ N \in Nat
      /\ b.m_capacity \in Nat /\ b.m_position \in Nat
  BY ArrayTypes DEF Sound
<1>2. WellFormed(b) /\ b \in Arrays /\ b.nodes \in Seq(Blocks) /\ b.failed = "none" /\ Counted(b)
  BY DEF Sound, WellFormed, Arrays, Blocks
<1>3. NewNode(base) \in Blocks
  BY <1>1, NewNodeType DEF Blocks
<1>4. more \in Seq(Blocks) /\ Len(more) = count
  <2> HIDE DEF base
  <2> QED BY <1>3
<1>5. /\ nodes \in Seq(Blocks) /\ Len(nodes) = N + count
      /\ \A i \in 1 .. N + count : nodes[i] = IF i <= N THEN b.nodes[i] ELSE more[i - N]
  <2> HIDE DEF more
  <2> QED BY <1>2, <1>4, ConcatProperties
<1>6. count * base \in Nat /\ count * base = base * count /\ N * base \in Nat
  <2> HIDE DEF base, N
  <2> QED BY <1>1, ProductFacts
<1>7. (N + count) * base = N * base + count * base
  <2> HIDE DEF base, N
  <2> QED BY <1>1, ProductFacts
<1>8. c = [b EXCEPT !.nodes = nodes, !.m_capacity = b.m_capacity + count * base, !.m_cur = cur]
  BY DEF Extended
<1> HIDE DEF nodes, c
<1>9. /\ c \in Arrays /\ c.nodes = nodes /\ c.m_cur = cur
      /\ c.m_capacity = b.m_capacity + count * base
      /\ c.m_baseSize = base /\ c.m_position = b.m_position /\ c.m_size = b.m_size
      /\ c.m_endian = b.m_endian /\ c.failed = "none"
  <2>1. cur \in Nat /\ b.m_capacity + count * base \in Nat
    <3> HIDE DEF base
    <3> QED BY <1>1, <1>6
  <2> HIDE DEF more
  <2> QED BY <1>2, <1>5, <1>8, <2>1 DEF Arrays, Blocks
<1>10. \A j \in 1 .. N + count : nodes[j] \in [0 .. base - 1 -> Cell]
  <2>1. ASSUME NEW j \in 1 .. N + count PROVE nodes[j] \in [0 .. base - 1 -> Cell]
    <3>1. CASE j <= N
      <4>1. j \in 1 .. N /\ nodes[j] = b.nodes[j]
        BY <1>1, <1>5, <3>1
      <4> QED BY <1>2, <4>1 DEF WellFormed
    <3>2. CASE ~(j <= N)
      <4>1. j - N \in 1 .. count /\ nodes[j] = more[j - N]
        BY <1>1, <1>5, <3>2
      <4>2. nodes[j] = NewNode(base)
        BY <4>1
      <4> QED BY <4>2, <1>1, NewNodeType
    <3> QED BY <3>1, <3>2
  <2> QED BY <2>1
<1>11. WellFormed(c)
  <2> HIDE DEF base, N
  <2> QED BY <1>5, <1>9, <1>10 DEF WellFormed, N
<1>12. Counted(c)
  <2>1. Len(b.nodes) >= 1 /\ N * base <= b.m_capacity
    BY <1>2 DEF Counted
  <2>2. N + count >= 1 /\ (N + count) * base <= b.m_capacity + count * base
    <3> HIDE DEF base
    <3> QED BY <1>1, <1>6, <1>7, <2>1
  <2> QED BY <1>5, <1>9, <2>2 DEF Counted
<1>13. ASSUME NEW a \in Nat, a < Room(b) PROVE At(c, a) = At(b, a)
  <2>1. a \div base \in Nat /\ a \div base + 1 <= N
    BY <1>1, <1>13, DivBelow DEF Room
  <2>2. nodes[1 + a \div base] = b.nodes[1 + a \div base]
    <3> DEFINE i == 1 + a \div base
    <3>1. i \in 1 .. N + count /\ i <= N
      BY <1>1, <2>1
    <3> HIDE DEF i
    <3>2. nodes[i] = b.nodes[i]
      BY <1>5, <3>1
    <3> QED BY <3>2 DEF i
  <2> QED BY <1>9, <2>2 DEF At
<1>14. Grows(b, c)
  BY <1>1, <1>5, <1>9, <1>11, <1>12, <1>13 DEF Grows
<1> QED BY <1>5, <1>9, <1>14 DEF c

\* addCapacity( n ) keeps what is there; it makes room for n bytes unless clear()
\* dropped blocks or a remainder got none.
Enough(b, n) ==
    LET old == getCapacity(b)
    IN ~Short(b) /\ ~(n > old /\ (n - old) % b.m_baseSize \in 1 .. old)

LEMMA Grown ==
    ASSUME NEW b, Sound(b), NEW n \in Nat
    PROVE  /\ Grows(b, AddCapacity(b, n))
           /\ n > 0 /\ Enough(b, n) => /\ AddCapacity(b, n).m_cur # Null
                                       /\ b.m_position + n <= Room(AddCapacity(b, n))
<1> DEFINE c == AddCapacity(b, n)
           base == b.m_baseSize
           N == Len(b.nodes)
           old == getCapacity(b)
           count == BlocksFor(b, n - old)
           cur == IF old # 0 THEN b.m_cur ELSE IF count = 0 THEN Null ELSE N + 1
<1>1. /\ base \in Nat \ {0} /\ N \in Nat /\ b.m_cur \in 0 .. N
      /\ b.m_capacity \in Nat /\ b.m_position \in Nat /\ Room(b) \in Nat
  BY ArrayTypes DEF Sound
<1>2. /\ b.m_position <= Room(b) /\ Room(b) <= b.m_capacity
      /\ b.m_cur # Null <=> b.m_position < Room(b)
      /\ b.m_cur # Null => b.m_cur = b.m_position \div base + 1
  BY <1>1, CurWhere, ArrayTypes DEF Sound, Counted, Room
<1>3. old \in Nat /\ old = b.m_capacity - b.m_position
  BY <1>1, <1>2 DEF getCapacity
<1>4. Short(b) <=> Room(b) < b.m_capacity
  BY DEF Short, Room
<1>5. CASE n = 0 \/ old >= n
  <2>1. c = b
    BY <1>5 DEF AddCapacity
  <2>2. Grows(b, b)
    BY <1>1, <1>2 DEF Grows, Sound
  <2>3. n > 0 /\ Enough(b, n) => b.m_cur # Null /\ b.m_position + n <= Room(b)
    <3> HIDE DEF base, N, old
    <3> QED BY <1>1, <1>2, <1>3, <1>4, <1>5 DEF Enough
  <2> QED BY <2>1, <2>2, <2>3
<1>6. CASE ~(n = 0 \/ old >= n)
  <2>1. n - old \in Nat /\ n - old > 0 /\ n > old
    BY <1>3, <1>6
  <2>2. /\ count \in Nat
        /\ ~((n - old) % base \in 1 .. old) => n - old <= base * count
    BY <2>1, BlocksForType
  <2>3. old = 0 => b.m_position \div base + 1 = N + 1
    <3>1. old = 0 => b.m_position = base * N + 0
      <4>1. Room(b) = base * N
        BY <1>1, ProductFacts DEF Room
      <4> HIDE DEF base, N, old
      <4> QED BY <1>1, <1>2, <1>3, <4>1
    <3>2. b.m_position \in Int /\ N \in Int /\ 0 \in 0 .. base - 1
      BY <1>1
    <3>3. old = 0 => b.m_position \div base = N
      BY <1>1, <3>1, <3>2, DivModUnique, Zenon
    <3> QED BY <3>3
  <2>4. cur \in 0 .. N + count /\ (cur # Null => cur = b.m_position \div base + 1)
    <3> HIDE DEF base, N, old, count
    <3> QED BY <1>1, <1>2, <2>2, <2>3 DEF Null
  <2>5. c = Extended(b, count, cur)
    <3>1. cur = IF old # 0 THEN b.m_cur ELSE IF count = 0 THEN Null ELSE Len(b.nodes) + 1
      OBVIOUS
    <3> HIDE DEF cur
    <3> QED BY <1>6, <3>1 DEF AddCapacity, Extended
  <2>6. Grows(b, c) /\ Len(c.nodes) = N + count /\ c.m_cur = cur
    <3> HIDE DEF count, cur, c
    <3> QED BY <2>2, <2>4, <2>5, MoreBlocks
  <2>7. ASSUME Enough(b, n) PROVE cur # Null /\ b.m_position + n <= Room(c)
    <3>1. ~Short(b) /\ ~((n - old) % base \in 1 .. old)
      BY <2>1, <2>7 DEF Enough
    <3>2. n - old <= base * count
      BY <2>2, <3>1
    <3>3. Room(b) = base * N /\ Room(c) = base * (N + count)
      <4>1. c.m_baseSize = base /\ Len(c.nodes) = N + count
        BY <2>6 DEF Grows
      <4> QED BY <1>1, <2>2, <4>1, ProductFacts DEF Room
    <3>4. base * (N + count) = base * N + base * count /\ base * N \in Int /\ base * count \in Int
      BY <1>1, <2>2, ProductFacts
    <3>5. count # 0
      <4>1. count = 0 => base * count = 0
        BY <1>1
      <4> HIDE DEF base, N, old, count
      <4> QED BY <1>3, <2>1, <3>2, <4>1
    <3> HIDE DEF base, N, old, count, c
    <3>6. b.m_position + n <= Room(c)
      BY <1>1, <1>2, <1>3, <1>4, <2>1, <3>1, <3>2, <3>3, <3>4
    <3>7. cur # Null
      BY <1>1, <1>2, <1>3, <1>4, <3>1, <3>5 DEF Null
    <3> QED BY <3>6, <3>7
  <2> QED BY <2>6, <2>7
<1> QED BY <1>5, <1>6

-----------------------------------------------------------------------------
(* write, read, setPosition                                                  *)

\* The blocks of c with the n cells of f from address first on.
Overlay(c, first, n, f) ==
    [j \in 1 .. Len(c.nodes) |-> [o \in 0 .. c.m_baseSize - 1 |->
        IF (j - 1) * c.m_baseSize + o - first \in 0 .. n - 1
        THEN f[(j - 1) * c.m_baseSize + o - first] ELSE c.nodes[j][o]]]

\* What the blocks are then: of the same shape, with f in place.
Overlays(c, first, n, f) ==
    /\ Overlay(c, first, n, f) \in Seq(Blocks)
    /\ Len(Overlay(c, first, n, f)) = Len(c.nodes)
    /\ \A j \in 1 .. Len(c.nodes) :
          Overlay(c, first, n, f)[j] \in [0 .. c.m_baseSize - 1 -> Cell]
    /\ \A a \in Nat : a < Room(c) =>
          Overlay(c, first, n, f)[1 + a \div c.m_baseSize][a % c.m_baseSize]
             = IF a \in first .. first + n - 1 THEN f[a - first] ELSE At(c, a)

LEMMA OverlayFacts ==
    ASSUME NEW c, WellFormed(c), NEW first \in Nat, NEW n \in Nat, NEW f \in [0 .. n - 1 -> Cell]
    PROVE  Overlays(c, first, n, f)
<1> DEFINE base == c.m_baseSize
           N == Len(c.nodes)
           g(j, o) == IF (j - 1) * base + o - first \in 0 .. n - 1
                      THEN f[(j - 1) * base + o - first] ELSE c.nodes[j][o]
           ov == Overlay(c, first, n, f)
<1>1. /\ base \in Nat \ {0} /\ base \in Bases /\ N \in Nat
      /\ \A j \in 1 .. N : c.nodes[j] \in [0 .. base - 1 -> Cell]
  BY ArrayTypes DEF WellFormed
<1>2. ov = [j \in 1 .. N |-> [o \in 0 .. base - 1 |-> g(j, o)]]
  BY DEF Overlay
<1>3. ASSUME NEW j \in 1 .. N, NEW o \in 0 .. base - 1 PROVE g(j, o) \in Cell
  BY <1>1
<1> HIDE DEF g, ov
<1>4. \A j \in 1 .. N : ov[j] \in [0 .. base - 1 -> Cell]
  BY <1>2, <1>3
<1>5. ov \in Seq(Blocks) /\ Len(ov) = N
  <2>1. \A j \in 1 .. N : [o \in 0 .. base - 1 |-> g(j, o)] \in Blocks
    BY <1>1, <1>3 DEF Blocks
  <2> HIDE DEF base, N
  <2> QED BY <1>1, <1>2, <2>1
<1>6. ASSUME NEW a \in Nat, a < Room(c)
      PROVE  ov[1 + a \div base][a % base] = IF a \in first .. first + n - 1 THEN f[a - first] ELSE At(c, a)
  <2> DEFINE q == a \div base
             r == a % base
  <2>1. a \in Int
    OBVIOUS
  <2>2. q \in Int /\ r \in 0 .. base - 1 /\ a = base * q + r
    BY <1>1, <2>1, DivMod, Zenon
  <2>3. q \in Nat /\ q + 1 <= N
    BY <1>1, <1>6, DivBelow DEF Room
  <2>4. At(c, a) = c.nodes[1 + q][r]
    BY DEF At
  <2> HIDE DEF q, r
  <2>5. (1 + q) - 1 = q /\ 1 + q \in 1 .. N
    BY <1>1, <2>3
  <2>6. q * base + r = a
    BY <1>1, <2>2, ProductFacts
  <2>7. ov[1 + q][r] = g(1 + q, r)
    BY <1>2, <2>2, <2>5
  <2>8. g(1 + q, r) = IF a - first \in 0 .. n - 1 THEN f[a - first] ELSE c.nodes[1 + q][r]
    BY <2>5, <2>6 DEF g
  <2>9. a - first \in 0 .. n - 1 <=> a \in first .. first + n - 1
    OBVIOUS
  <2>10. ov[1 + q][r] = IF a \in first .. first + n - 1 THEN f[a - first] ELSE At(c, a)
    BY <2>4, <2>7, <2>8, <2>9
  <2> QED BY <2>10 DEF q, r
<1> QED BY <1>4, <1>5, <1>6 DEF Overlays, ov

\* The address of m_cur and the offset in it is the position.
LEMMA FirstIsPosition ==
    ASSUME NEW c, WellFormed(c), c.m_cur = c.m_position \div c.m_baseSize + 1
    PROVE  (c.m_cur - 1) * c.m_baseSize + Offset(c) = c.m_position
<1> DEFINE base == c.m_baseSize
           q == c.m_position \div base
<1>1. base \in Nat \ {0} /\ c.m_position \in Int
  BY ArrayTypes
<1>2. q \in Int /\ Offset(c) \in 0 .. base - 1 /\ c.m_position = base * q + Offset(c)
  BY <1>1, DivMod, Zenon DEF Offset
<1>3. c.m_cur - 1 = q
  <2>1. c.m_cur = q + 1
    OBVIOUS
  <2> HIDE DEF q
  <2> QED BY <1>2, <2>1
<1> HIDE DEF q, base
<1>4. q * base = base * q /\ base * q \in Int
  BY <1>1, <1>2, ProductFacts
<1> QED BY <1>2, <1>3, <1>4 DEF base

LEMMA SourceFacts ==
    ASSUME NEW c, WellFormed(c), NEW buf \in Seq(Cell), NEW k \in 0 .. Len(buf) - 1
    PROVE  /\ Source(c, buf, k) \in Cell
           /\ Offset(c) = 0 /\ Len(buf) <= c.m_baseSize => Source(c, buf, k) = buf[k + 1]
<1> DEFINE n == Len(buf)
           npos == Offset(c)
           base == c.m_baseSize
           bpos == IF npos + n <= base THEN 0 ELSE ((npos + n - 1) \div base) * base - npos
           i == IF k < bpos THEN k ELSE (k - bpos) + (IF bpos = 0 THEN npos ELSE 0)
<1>1. base \in Nat \ {0} /\ npos \in Nat /\ n \in Nat
  BY ArrayTypes
<1>2. bpos \in Int
  <2>1. npos + n - 1 \in Int
    BY <1>1
  <2>2. (npos + n - 1) \div base \in Int
    BY <1>1, <2>1, DivMod, Zenon
  <2>3. ((npos + n - 1) \div base) * base \in Int
    <3> DEFINE q == (npos + n - 1) \div base
    <3> HIDE DEF q
    <3> QED BY <1>1, <2>2, ProductFacts DEF q
  <2> QED BY <1>1, <2>3
<1>3. Source(c, buf, k) = IF i < n THEN buf[i + 1] ELSE Junk
  BY DEF Source
<1>4. npos + n <= base => bpos = 0
  OBVIOUS
<1> HIDE DEF bpos
<1>5. i \in Nat
  BY <1>1, <1>2
<1>6. npos = 0 /\ n <= base => i = k
  BY <1>1, <1>4
<1> HIDE DEF i
<1>7. ASSUME i < n PROVE buf[i + 1] \in Cell
  BY <1>1, <1>5, <1>7
<1>8. Junk \in Cell
  BY DEF Cell
<1> QED BY <1>1, <1>3, <1>5, <1>6, <1>7, <1>8

\* d is b after n bytes were stored at its position, which moved over them.
Stored(b, d, n) ==
    /\ Sound(d)
    /\ d.m_baseSize = b.m_baseSize /\ d.m_endian = b.m_endian
    /\ d.m_position = b.m_position + n
    /\ d.m_size = IF d.m_position > b.m_size THEN d.m_position ELSE b.m_size
    /\ Room(b) <= Room(d)
    /\ \A a \in Nat : a < Room(b) /\ a \notin b.m_position .. b.m_position + n - 1 => At(d, a) = At(b, a)

\* d is b after a call on it ended the process.
Died(b, d) ==
    /\ WellFormed(d) /\ d.failed # "none" /\ FailedWell(d)
    /\ d.m_baseSize = b.m_baseSize /\ d.m_endian = b.m_endian

\* A larger array of the same base size has the more room.
LEMMA RoomGrows ==
    ASSUME NEW b, WellFormed(b), NEW c, WellFormed(c), c.m_baseSize = b.m_baseSize,
           Len(b.nodes) <= Len(c.nodes)
    PROVE  Room(b) <= Room(c)
<1> DEFINE base == c.m_baseSize
           m == Len(b.nodes)
           n == Len(c.nodes)
<1>1. base \in Nat \ {0} /\ m \in Nat /\ n \in Nat /\ m <= n
  BY ArrayTypes
<1>2. Room(b) = m * base /\ Room(c) = n * base
  BY DEF Room
<1> HIDE DEF base, m, n
<1>3. base * m <= base * n /\ base * m = m * base /\ base * n = n * base
  BY <1>1, ProductFacts
<1> QED BY <1>2, <1>3

\* Writing into c, which has grown from b, the n cells of f at the position.
LEMMA Overlaid ==
    ASSUME NEW b, Sound(b), NEW c, Grows(b, c), NEW n \in Nat,
           NEW f \in [0 .. n - 1 -> Cell],
           c.m_cur # Null, c.m_position + n <= Room(c),
           NEW d, WellFormed(d), d.m_baseSize = c.m_baseSize, d.m_endian = c.m_endian,
           d.failed = "none", d.m_capacity = c.m_capacity,
           d.nodes = Overlay(c, (c.m_cur - 1) * c.m_baseSize + Offset(c), n, f),
           d.m_position = c.m_position + n,
           d.m_size = IF d.m_position > c.m_size THEN d.m_position ELSE c.m_size,
           d.m_cur = IF d.m_position \div d.m_baseSize + 1 <= Len(c.nodes)
                     THEN d.m_position \div d.m_baseSize + 1 ELSE Null
    PROVE  /\ Stored(b, d, n)
           /\ \A k \in 0 .. n - 1 : At(d, b.m_position + k) = f[k]
<1> DEFINE pos == b.m_position
<1>1. /\ WellFormed(c) /\ Counted(c) /\ c.m_baseSize = b.m_baseSize /\ c.m_position = pos
      /\ c.m_size = b.m_size /\ c.m_endian = b.m_endian /\ Len(b.nodes) <= Len(c.nodes)
      /\ c.m_cur = c.m_position \div c.m_baseSize + 1
      /\ \A a \in Nat : a < Room(b) => At(c, a) = At(b, a)
  BY DEF Grows
<1>2. /\ c.m_baseSize \in Nat \ {0} /\ pos \in Nat /\ Len(c.nodes) \in Nat /\ Len(b.nodes) \in Nat
      /\ Room(c) \in Nat /\ Room(b) \in Nat /\ b.m_size \in Nat
  BY <1>1, ArrayTypes DEF Sound
<1>3. Room(b) <= Room(c)
  BY <1>1, RoomGrows DEF Sound
<1>4. (c.m_cur - 1) * c.m_baseSize + Offset(c) = pos
  BY <1>1, FirstIsPosition
<1>5. d.nodes = Overlay(c, pos, n, f)
  BY <1>4
<1>6. /\ Len(d.nodes) = Len(c.nodes) /\ Room(d) = Room(c)
      /\ \A a \in Nat : a < Room(c) =>
            At(d, a) = IF a \in pos .. pos + n - 1 THEN f[a - pos] ELSE At(c, a)
  <2> HIDE DEF pos
  <2>1. /\ Len(Overlay(c, pos, n, f)) = Len(c.nodes)
        /\ \A a \in Nat : a < Room(c) =>
                 Overlay(c, pos, n, f)[1 + a \div c.m_baseSize][a % c.m_baseSize]
                    = IF a \in pos .. pos + n - 1 THEN f[a - pos] ELSE At(c, a)
    <3>1. Overlays(c, pos, n, f)
      <4>1. WellFormed(c) /\ pos \in Nat
        BY <1>1, <1>2
      <4> QED BY <4>1, OverlayFacts, Zenon
    <3> QED BY <3>1 DEF Overlays
  <2>2. \A a : At(d, a) = Overlay(c, pos, n, f)[1 + a \div c.m_baseSize][a % c.m_baseSize]
    BY <1>5 DEF At
  <2>3. Len(d.nodes) = Len(c.nodes)
    BY <1>5, <2>1
  <2> QED BY <2>1, <2>2, <2>3 DEF Room
<1> HIDE DEF pos
<1>7. b.m_size <= Room(b)
  BY CurWhere DEF Sound
<1>8. d.m_position = pos + n /\ pos + n <= Room(d)
  BY <1>1, <1>2, <1>6
<1>9. d.m_size = (IF pos + n > b.m_size THEN pos + n ELSE b.m_size) /\ d.m_size <= Room(d)
  BY <1>1, <1>2, <1>3, <1>6, <1>7, <1>8
<1>10. Placed(d)
  <2>1. d.m_position <= d.m_size
    BY <1>2, <1>8, <1>9
  <2> QED BY <1>6, <1>8, <1>9, <2>1 DEF Placed, Room
<1>11. Counted(d)
  BY <1>1, <1>6 DEF Counted
<1>12. ASSUME NEW a \in Nat, a < Room(b), a \notin pos .. pos + n - 1 PROVE At(d, a) = At(b, a)
  BY <1>1, <1>2, <1>3, <1>6, <1>12
<1>13. ASSUME NEW k \in 0 .. n - 1 PROVE At(d, pos + k) = f[k]
  <2>1. /\ pos + k \in Nat /\ pos + k < Room(c) /\ pos + k \in pos .. pos + n - 1
        /\ (pos + k) - pos = k
    BY <1>1, <1>2
  <2> QED BY <1>6, <2>1
<1>14. Stored(b, d, n)
  BY <1>1, <1>3, <1>6, <1>8, <1>9, <1>10, <1>11, <1>12 DEF Stored, Sound, pos
<1> QED BY <1>13, <1>14 DEF pos

\* The block of position p.
CurAt(c, p) ==
    IF p \div c.m_baseSize + 1 <= Len(c.nodes) THEN p \div c.m_baseSize + 1 ELSE Null

LEMMA CurAtType ==
    ASSUME NEW c, WellFormed(c), NEW p \in Nat PROVE CurAt(c, p) \in 0 .. Len(c.nodes)
<1>1. c.m_baseSize \in Nat \ {0} /\ Len(c.nodes) \in Nat
  BY ArrayTypes
<1>2. p \div c.m_baseSize \in Nat
  BY <1>1, DivBelow
<1> QED BY <1>1, <1>2 DEF CurAt, Null

LEMMA CurAfterIs ==
    ASSUME NEW c, WellFormed(c), c.m_cur = c.m_position \div c.m_baseSize + 1, NEW n \in Nat
    PROVE  CurAfter(c, n) = CurAt(c, c.m_position + n)
<1> DEFINE pos == c.m_position
           base == c.m_baseSize
<1>1. base \in Nat \ {0} /\ pos \in Nat /\ pos \in Int /\ n \in Int /\ pos + n \in Nat
  BY ArrayTypes
<1>2. (pos \div base) + ((Offset(c) + n) \div base) = (pos + n) \div base
  BY <1>1, DivAdd, Zenon DEF Offset
<1>3. pos \div base \in Nat /\ (Offset(c) + n) \div base \in Nat
  <2>1. Offset(c) + n \in Nat
    BY ArrayTypes
  <2> QED BY <1>1, <2>1, DivBelow
<1>4. c.m_cur = pos \div base + 1
  OBVIOUS
<1> HIDE DEF pos, base
<1>5. c.m_cur + (Offset(c) + n) \div base = (pos + n) \div base + 1
  BY <1>2, <1>3, <1>4
<1> QED BY <1>5 DEF CurAfter, CurAt, pos, base

\* c with the n cells of f at its position, and the position behind them.
Over(c, n, f) ==
    [c EXCEPT !.nodes = Overlay(c, (c.m_cur - 1) * c.m_baseSize + Offset(c), n, f),
              !.m_cur = CurAt(c, c.m_position + n),
              !.m_position = @ + n,
              !.m_size = IF c.m_position + n > @ THEN c.m_position + n ELSE @]

LEMMA OverFacts ==
    ASSUME NEW b, Sound(b), NEW c, Grows(b, c), NEW n \in Nat,
           NEW f \in [0 .. n - 1 -> Cell], c.m_cur # Null, c.m_position + n <= Room(c)
    PROVE  /\ Stored(b, Over(c, n, f), n)
           /\ \A k \in 0 .. n - 1 : At(Over(c, n, f), b.m_position + k) = f[k]
<1> DEFINE d == Over(c, n, f)
           first == (c.m_cur - 1) * c.m_baseSize + Offset(c)
           nodes == Overlay(c, first, n, f)
           cur == CurAt(c, c.m_position + n)
           size == IF c.m_position + n > c.m_size THEN c.m_position + n ELSE c.m_size
<1>1. /\ WellFormed(c) /\ c \in Arrays /\ c.failed = "none"
      /\ c.m_cur = c.m_position \div c.m_baseSize + 1
  BY DEF Grows, WellFormed
<1>2. c.m_position \in Nat /\ c.m_size \in Nat /\ Len(c.nodes) \in Nat
  BY <1>1, ArrayTypes
<1>3. Overlays(c, first, n, f)
  <2>1. first \in Nat
    BY <1>1, <1>2, FirstIsPosition
  <2> HIDE DEF first
  <2> QED BY <1>1, <2>1, OverlayFacts, Zenon
<1>4. /\ nodes \in Seq(Blocks) /\ Len(nodes) = Len(c.nodes)
      /\ \A j \in 1 .. Len(c.nodes) : nodes[j] \in [0 .. c.m_baseSize - 1 -> Cell]
  <2> HIDE DEF first
  <2> QED BY <1>3, Zenon DEF Overlays
<1>5. cur \in 0 .. Len(c.nodes) /\ size \in Nat /\ c.m_position + n \in Nat
  <2>1. c.m_position + n \in Nat /\ size \in Nat
    BY <1>2
  <2> QED BY <1>1, <2>1, CurAtType, Zenon
<1>6. d = [c EXCEPT !.nodes = nodes, !.m_cur = cur, !.m_position = @ + n, !.m_size = size]
  BY DEF Over
<1> HIDE DEF nodes, cur, size, d
<1>7. /\ d \in Arrays /\ d.nodes = nodes /\ d.m_cur = cur /\ d.m_size = size
      /\ d.m_position = c.m_position + n /\ d.m_capacity = c.m_capacity
      /\ d.m_baseSize = c.m_baseSize /\ d.m_endian = c.m_endian /\ d.failed = "none"
  <2>1. c.m_position + n \in Nat /\ cur \in Nat /\ size \in Nat /\ nodes \in Seq(Blocks)
    BY <1>2, <1>4, <1>5
  <2>2. d = [c EXCEPT !.nodes = nodes, !.m_cur = cur, !.m_position = c.m_position + n, !.m_size = size]
    BY <1>6
  <2> QED BY ONLY <1>1, <2>1, <2>2 DEF Arrays, Blocks
<1>8. WellFormed(d)
  <2>1. cur <= Len(c.nodes)
    BY <1>2, <1>5
  <2> QED BY <1>4, <1>7, <2>1, Zenon DEF WellFormed
<1>9. d.m_size = IF d.m_position > c.m_size THEN d.m_position ELSE c.m_size
  BY <1>7 DEF size
<1>10. d.m_cur = IF d.m_position \div d.m_baseSize + 1 <= Len(c.nodes)
                 THEN d.m_position \div d.m_baseSize + 1 ELSE Null
  <2>1. d.m_cur = CurAt(c, d.m_position) /\ d.m_baseSize = c.m_baseSize
    BY <1>7 DEF cur
  <2> QED BY <2>1, Zenon DEF CurAt
<1>11. d.nodes = Overlay(c, (c.m_cur - 1) * c.m_baseSize + Offset(c), n, f)
  BY <1>7 DEF nodes
<1>12. /\ Stored(b, d, n)
       /\ \A k \in 0 .. n - 1 : At(d, b.m_position + k) = f[k]
  <2>1. /\ d.m_baseSize = c.m_baseSize /\ d.m_endian = c.m_endian
        /\ d.failed = "none" /\ d.m_capacity = c.m_capacity
        /\ d.m_position = c.m_position + n
    BY <1>7
  <2> QED BY <1>8, <1>9, <1>10, <1>11, <2>1, Overlaid
<1> QED BY <1>12 DEF d

\* Nothing stored is nothing changed.
LEMMA StoredNothing == ASSUME NEW b, Sound(b) PROVE Stored(b, b, 0)
<1>1. b.m_position \in Nat /\ b.m_size \in Nat /\ Room(b) \in Nat
  BY ArrayTypes DEF Sound
<1>2. b.m_position <= b.m_size
  BY CurWhere DEF Sound
<1> QED BY <1>1, <1>2 DEF Stored

\* b after a write of n bytes that found no blocks for them.
FailedWriting(b, n) == [b EXCEPT !.failed = "write", !.asked = n]

\* A write of n bytes finds no blocks for them only if Enough says so.
LEMMA DiedWriting ==
    ASSUME NEW b, Sound(b), NEW n \in Nat, n > 0, ~Enough(b, n)
    PROVE  Died(b, FailedWriting(b, n))
<1> DEFINE d == FailedWriting(b, n)
<1>1. WellFormed(b) /\ b \in Arrays
  BY DEF Sound, WellFormed
<1>2. /\ d \in Arrays /\ d.nodes = b.nodes /\ d.m_cur = b.m_cur
      /\ d.m_capacity = b.m_capacity /\ d.m_position = b.m_position /\ d.m_size = b.m_size
      /\ d.m_baseSize = b.m_baseSize /\ d.m_endian = b.m_endian
      /\ d.failed = "write" /\ d.asked = n
  BY <1>1 DEF Arrays, FailedWriting
<1> HIDE DEF d
<1>3. WellFormed(d)
  BY <1>1, <1>2, Zenon DEF WellFormed
<1>4. getCapacity(d) = getCapacity(b) /\ (Short(d) <=> Short(b))
  BY <1>2 DEF getCapacity, Short
<1>5. ~Enough(b, n) => Short(b) \/ (n > getCapacity(b) /\ (n - getCapacity(b)) % b.m_baseSize \in 1 .. getCapacity(b))
  BY Zenon DEF Enough
<1>6. FailedWell(d)
  <2>1. Short(d) \/ (d.asked > getCapacity(d)
                        /\ (d.asked - getCapacity(d)) % d.m_baseSize \in 1 .. getCapacity(d))
    BY <1>2, <1>4, <1>5, Zenon
  <2>2. d.failed # "read" /\ d.failed # "seek" /\ d.failed # "file"
    BY <1>2
  <2> QED BY <2>1, <2>2, Zenon DEF FailedWell
<1>7. d.failed # "none"
  BY <1>2
<1> QED BY <1>2, <1>3, <1>6, <1>7, Zenon DEF Died, d

\* What write( buf ) does: it stores as many bytes, exactly these if it starts a
\* block and fits, or the process ends.
WriteDone(b, d, buf) ==
    \/ Stored(b, d, Len(buf))
       /\ (Offset(b) = 0 /\ Len(buf) <= b.m_baseSize =>
             \A k \in 0 .. Len(buf) - 1 : At(d, b.m_position + k) = buf[k + 1])
    \/ Died(b, d)

LEMMA WriteStep ==
    ASSUME NEW b, Sound(b), NEW buf \in Seq(Cell)
    PROVE  WriteDone(b, Write(b, buf), buf)
<1> DEFINE n == Len(buf)
           c == AddCapacity(b, n)
           d == Write(b, buf)
<1>1. n \in Nat /\ b.failed = "none"
  BY DEF Sound
<1>2. CASE n = 0
  <2>1. d = b
    BY <1>2 DEF Write
  <2> HIDE DEF d
  <2>2. Stored(b, d, n)
    BY <1>2, <2>1, StoredNothing
  <2> QED BY <1>2, <2>2 DEF WriteDone, d
<1>3. CASE n > 0
  <2>1. /\ Grows(b, c)
        /\ Enough(b, n) => c.m_cur # Null /\ b.m_position + n <= Room(c)
    BY <1>1, <1>3, Grown
  <2>2. /\ WellFormed(c) /\ c.m_position = b.m_position /\ c.m_size = b.m_size
        /\ c.m_baseSize = b.m_baseSize
        /\ c.m_cur # Null => c.m_cur = c.m_position \div c.m_baseSize + 1
    BY <2>1 DEF Grows
  <2> DEFINE reaches == Reaches(c, c.m_cur, Offset(c), n)
             first == (c.m_cur - 1) * b.m_baseSize + Offset(c)
             end == c.m_position + n
  <2>3. reaches <=> c.m_cur # Null /\ c.m_position + n <= Room(c)
    <3> HIDE DEF c, n
    <3> QED BY <1>1, <1>3, <2>2, ReachesWhat
  <2> DEFINE nodes == [j \in 1 .. Len(c.nodes) |-> [o \in 0 .. b.m_baseSize - 1 |->
                            IF (j - 1) * b.m_baseSize + o - first \in 0 .. n - 1
                            THEN Source(c, buf, (j - 1) * b.m_baseSize + o - first)
                            ELSE c.nodes[j][o]]]
             size == IF end > c.m_size THEN end ELSE c.m_size
  <2>4. d = IF ~reaches THEN FailedWriting(b, n)
            ELSE [c EXCEPT !.nodes = nodes, !.m_cur = CurAfter(c, n), !.m_position = end, !.m_size = size]
    <3>1. d = IF b.failed # "none" \/ n = 0 THEN b
              ELSE IF ~reaches THEN FailedWriting(b, n)
              ELSE [c EXCEPT !.nodes = nodes, !.m_cur = CurAfter(c, n), !.m_position = end, !.m_size = size]
      BY DEF Write, FailedWriting
    <3>2. ~(b.failed # "none" \/ n = 0)
      BY <1>1, <1>3
    <3> HIDE DEF d, nodes, size, reaches, c, n, end, first
    <3> QED BY <3>1, <3>2, Zenon
  <2> HIDE DEF nodes, size
  <2>5. CASE ~reaches
    <3>1. ~Enough(b, n)
      BY <2>1, <2>2, <2>3, <2>5
    <3>2. d = FailedWriting(b, n)
      BY <2>4, <2>5
    <3> HIDE DEF d
    <3>3. Died(b, d)
      BY <1>1, <1>3, <3>1, <3>2, DiedWriting
    <3> QED BY <3>3 DEF WriteDone, d
  <2>6. CASE reaches
    <3> DEFINE f == [k \in 0 .. n - 1 |-> Source(c, buf, k)]
    <3>1. f \in [0 .. n - 1 -> Cell]
      <4> HIDE DEF c
      <4> QED BY <2>2, SourceFacts
    <3>2. d = Over(c, n, f)
      <4> HIDE DEF reaches
      <4>1. d = [c EXCEPT !.nodes = nodes, !.m_cur = CurAfter(c, n), !.m_position = end, !.m_size = size]
        BY <2>4, <2>6
      <4> HIDE DEF d, c, n
      <4>2. nodes = Overlay(c, (c.m_cur - 1) * c.m_baseSize + Offset(c), n, f)
        <5>1. first = (c.m_cur - 1) * c.m_baseSize + Offset(c)
          BY <2>2
        <5> HIDE DEF first
        <5> QED BY <2>2, <5>1 DEF Overlay, nodes
      <4>3. CurAfter(c, n) = CurAt(c, c.m_position + n)
        BY <1>1, <2>2, <2>3, <2>6, CurAfterIs
      <4> HIDE DEF nodes, f
      <4> QED BY <4>1, <4>2, <4>3 DEF Over, size
    <3>3. Stored(b, d, n) /\ \A k \in 0 .. n - 1 : At(d, b.m_position + k) = f[k]
      <4>1. c.m_cur # Null /\ c.m_position + n <= Room(c)
        BY <2>3, <2>6
      <4> HIDE DEF reaches, f, c, d, n
      <4> QED BY <1>1, <2>1, <3>1, <3>2, <4>1, OverFacts
    <3>4. ASSUME Offset(b) = 0, n <= b.m_baseSize, NEW k \in 0 .. n - 1
          PROVE  At(d, b.m_position + k) = buf[k + 1]
      <4>1. Offset(c) = 0
        BY <2>2, <3>4 DEF Offset
      <4>2. Source(c, buf, k) = buf[k + 1]
        <5> HIDE DEF c
        <5> QED BY <2>2, <3>4, <4>1, SourceFacts
      <4>3. f[k] = Source(c, buf, k)
        OBVIOUS
      <4> HIDE DEF c, d, f
      <4> QED BY <3>3, <4>2, <4>3
    <3> HIDE DEF reaches, f, c, d
    <3> QED BY <3>3, <3>4 DEF WriteDone, d
  <2> QED BY <2>5, <2>6
<1> QED BY <1>1, <1>2, <1>3

\* After the process has ended, a write changes nothing.
LEMMA WriteDead ==
    ASSUME NEW b, b.failed # "none", NEW buf PROVE Write(b, buf) = b
BY DEF Write

\* d is b with the position at p, and the size too if it was smaller.
MovedTo(b, d, p) ==
    /\ Sound(d)
    /\ d.m_baseSize = b.m_baseSize /\ d.m_endian = b.m_endian
    /\ d.nodes = b.nodes
    /\ d.m_position = p
    /\ d.m_size = IF p > b.m_size THEN p ELSE b.m_size

\* The array with the position there.
Moved(b, p) ==
    [b EXCEPT !.m_position = p,
              !.m_size = IF p > b.m_size THEN p ELSE b.m_size,
              !.m_cur = CurAt(b, p)]

LEMMA MovedFacts ==
    ASSUME NEW b, Sound(b), NEW p \in Nat, p <= Room(b)
    PROVE  MovedTo(b, Moved(b, p), p)
<1> DEFINE d == Moved(b, p)
           size == IF p > b.m_size THEN p ELSE b.m_size
           cur == CurAt(b, p)
<1>1. WellFormed(b) /\ b \in Arrays /\ b.failed = "none" /\ Counted(b)
  BY DEF Sound, WellFormed
<1>2. b.m_size \in Nat /\ b.m_size <= Room(b) /\ Room(b) \in Nat /\ Len(b.nodes) \in Nat
  BY <1>1, ArrayTypes, CurWhere DEF Sound
<1>3. cur \in 0 .. Len(b.nodes)
  BY <1>1, CurAtType, Zenon
<1>4. size \in Nat /\ p <= size /\ size <= Room(b)
  BY <1>2
<1>5. d = [b EXCEPT !.m_position = p, !.m_size = size, !.m_cur = cur]
  BY DEF Moved
<1> HIDE DEF d, cur
<1>6. /\ d \in Arrays /\ d.nodes = b.nodes /\ d.m_cur = cur
      /\ d.m_capacity = b.m_capacity /\ d.m_position = p /\ d.m_size = size
      /\ d.m_baseSize = b.m_baseSize /\ d.m_endian = b.m_endian
      /\ d.failed = "none"
  <2>1. cur \in Nat
    BY <1>2, <1>3
  <2> HIDE DEF size
  <2> QED BY ONLY <1>1, <1>4, <1>5, <2>1 DEF Arrays
<1>7. WellFormed(d)
  <2>1. cur <= Len(b.nodes)
    BY <1>2, <1>3
  <2> QED BY <1>1, <1>6, <2>1, Zenon DEF WellFormed
<1>8. Counted(d)
  BY <1>1, <1>6, Zenon DEF Counted
<1>9. Placed(d)
  <2> HIDE DEF size
  <2>1. cur = IF p \div d.m_baseSize + 1 <= Len(d.nodes) THEN p \div d.m_baseSize + 1 ELSE Null
    BY <1>6, Zenon DEF cur, CurAt
  <2>2. d.m_position <= d.m_size /\ d.m_size <= Len(d.nodes) * d.m_baseSize
    BY <1>4, <1>6 DEF Room
  <2> QED BY <1>6, <2>1, <2>2, Zenon DEF Placed
<1> QED BY <1>6, <1>7, <1>8, <1>9, Zenon DEF MovedTo, Sound, d

\* b, dead of an access through m_cur of the kind.
Gone(b, kind) == [b EXCEPT !.failed = kind]

LEMMA GoneFacts ==
    ASSUME NEW b, Sound(b), NEW kind,
           \/ kind = "read" /\ b.m_cur = Null /\ getReadSize(b) = 0
           \/ kind = "seek" /\ Short(b)
           \/ kind = "file" /\ Offset(b) > 0 /\ getReadSize(b) \in 1 .. b.m_baseSize - 1
    PROVE  Died(b, Gone(b, kind))
<1> DEFINE d == Gone(b, kind)
<1>1. WellFormed(b) /\ b \in Arrays
  BY DEF Sound, WellFormed
<1>2. /\ d \in Arrays /\ d.nodes = b.nodes /\ d.m_cur = b.m_cur
      /\ d.m_capacity = b.m_capacity /\ d.m_position = b.m_position /\ d.m_size = b.m_size
      /\ d.m_baseSize = b.m_baseSize /\ d.m_endian = b.m_endian
      /\ d.failed = kind
  BY <1>1 DEF Arrays, Gone
<1> HIDE DEF d
<1>3. WellFormed(d)
  BY <1>1, <1>2, Zenon DEF WellFormed
<1>4. /\ getReadSize(d) = getReadSize(b) /\ Offset(d) = Offset(b)
      /\ Short(d) <=> Short(b)
  BY <1>2 DEF getReadSize, Short, Offset
<1>5. FailedWell(d) /\ d.failed # "none"
  BY <1>2, <1>4 DEF FailedWell
<1> QED BY <1>2, <1>3, <1>5, Zenon DEF Died, d

\* What setPosition( val ) does.
LEMMA SetPositionStep ==
    ASSUME NEW b, Sound(b), NEW val \in Nat
    PROVE  \/ SetPosition(b, val) = b
           \/ MovedTo(b, SetPosition(b, val), val)
           \/ Died(b, SetPosition(b, val))
<1> DEFINE d == SetPosition(b, val)
<1>1. Room(b) \in Nat /\ b.m_capacity \in Nat
  BY ArrayTypes DEF Sound
<1>2. d = IF val > b.m_capacity THEN b ELSE IF val > Room(b) THEN Gone(b, "seek") ELSE Moved(b, val)
  BY DEF SetPosition, Room, Gone, Moved, CurAt
<1> HIDE DEF d
<1>3. CASE val > b.m_capacity
  BY <1>2, <1>3 DEF d
<1>4. CASE ~(val > b.m_capacity) /\ val > Room(b)
  <2>1. Short(b)
    BY <1>1, <1>4 DEF Short, Room
  <2>2. d = Gone(b, "seek")
    BY <1>2, <1>4
  <2>3. Died(b, d)
    BY <2>1, <2>2, GoneFacts
  <2> QED BY <2>3 DEF d
<1>5. CASE ~(val > b.m_capacity) /\ ~(val > Room(b))
  <2>1. d = Moved(b, val)
    BY <1>2, <1>5
  <2>2. val <= Room(b)
    BY <1>1, <1>5
  <2>3. MovedTo(b, d, val)
    BY <2>1, <2>2, MovedFacts
  <2> QED BY <2>3 DEF d
<1> QED BY <1>3, <1>4, <1>5

\* What read( buf, n ) does: it hands out the next n cells and moves the position
\* over them, or throws, or the process ends.
ReadDone(b, r, n) ==
    \/ /\ r.ok /\ n <= getReadSize(b)
       /\ MovedTo(b, r.b, b.m_position + n)
       /\ r.cells = [i \in 1 .. n |-> At(b, b.m_position + i - 1)]
    \/ ~r.ok /\ r.cells = <<>> /\ (r.b = b \/ Died(b, r.b))

LEMMA ReadStep ==
    ASSUME NEW b, Sound(b), NEW n \in Nat
    PROVE  ReadDone(b, Read(b, n), n)
<1> DEFINE r == Read(b, n)
           pos == b.m_position
           cells == CellsFrom(b, b.m_cur, Offset(b), n)
           reaches == Reaches(b, b.m_cur, Offset(b), n)
<1>1. WellFormed(b) /\ b \in Arrays /\ b.failed = "none"
  BY DEF Sound, WellFormed
<1>2. /\ pos \in Nat /\ b.m_size \in Nat /\ Room(b) \in Nat /\ Len(b.nodes) \in Nat
      /\ pos <= b.m_size /\ b.m_size <= Room(b)
      /\ b.m_cur # Null <=> pos < Room(b)
      /\ b.m_cur # Null => b.m_cur = b.m_position \div b.m_baseSize + 1
  BY <1>1, ArrayTypes, CurWhere DEF Sound
<1>3. getReadSize(b) = b.m_size - pos
  BY DEF getReadSize
<1>4. reaches <=> b.m_cur # Null /\ (n > 0 => pos + n <= Room(b))
  BY <1>1, <1>2, ReachesWhat
<1>5. r = IF n > getReadSize(b) THEN [b |-> b, cells |-> <<>>, ok |-> FALSE]
          ELSE IF ~reaches THEN [b |-> Gone(b, "read"), cells |-> <<>>, ok |-> FALSE]
          ELSE [b |-> [b EXCEPT !.m_cur = CurAfter(b, n), !.m_position = @ + n],
                cells |-> cells, ok |-> TRUE]
  BY <1>1 DEF Read, Gone
<1> HIDE DEF r, reaches, cells
<1>6. CASE n > getReadSize(b)
  BY <1>5, <1>6 DEF ReadDone, r
<1>7. CASE ~(n > getReadSize(b)) /\ ~reaches
  <2>1. b.m_cur = Null /\ getReadSize(b) = 0
    <3> HIDE DEF pos
    <3> QED BY <1>2, <1>3, <1>4, <1>7
  <2>2. r.b = Gone(b, "read") /\ r.cells = <<>> /\ ~r.ok
    BY <1>5, <1>7
  <2>3. Died(b, r.b)
    BY <2>1, <2>2, GoneFacts
  <2> QED BY <2>2, <2>3 DEF ReadDone, r
<1>8. CASE ~(n > getReadSize(b)) /\ reaches
  <2>1. r.b = [b EXCEPT !.m_cur = CurAfter(b, n), !.m_position = @ + n] /\ r.cells = cells /\ r.ok
    BY <1>5, <1>8
  <2>2. b.m_cur = b.m_position \div b.m_baseSize + 1
    BY <1>2, <1>4, <1>8
  <2>3. CurAfter(b, n) = CurAt(b, pos + n)
    BY <1>1, <2>2, CurAfterIs
  <2>4. pos + n \in Nat /\ pos + n <= b.m_size /\ pos + n <= Room(b) /\ n <= getReadSize(b)
    <3> HIDE DEF pos
    <3> QED BY <1>2, <1>3, <1>8
  <2>5. r.b = Moved(b, pos + n)
    <3> DEFINE cur == CurAt(b, pos + n)
               p == pos + n
               size == IF p > b.m_size THEN p ELSE b.m_size
    <3>1. size = b.m_size
      BY <1>2, <2>4
    <3>2. r.b = [b EXCEPT !.m_cur = cur, !.m_position = p]
      BY <2>1, <2>3
    <3>3. Moved(b, p) = [b EXCEPT !.m_position = p, !.m_size = b.m_size, !.m_cur = cur]
      BY <3>1 DEF Moved
    <3> HIDE DEF cur, p, size
    <3>4. r.b = Moved(b, p)
      BY <1>1, <3>2, <3>3 DEF Arrays
    <3> QED BY <3>4 DEF p
  <2>6. MovedTo(b, r.b, pos + n)
    <3> DEFINE p == pos + n
    <3> HIDE DEF p
    <3>1. p \in Nat /\ p <= Room(b) /\ r.b = Moved(b, p)
      BY <2>4, <2>5 DEF p
    <3>2. MovedTo(b, r.b, p)
      BY <3>1, MovedFacts
    <3> QED BY <3>2 DEF p
  <2>7. cells = [i \in 1 .. n |-> At(b, pos + i - 1)]
    BY <1>1, <2>2, CellsAhead DEF cells
  <2> QED BY <2>1, <2>4, <2>6, <2>7, Zenon DEF ReadDone, r
<1> QED BY <1>6, <1>7, <1>8

-----------------------------------------------------------------------------
(* Calls that make several writes or reads                                   *)

LEMMA StoredTwice ==
    ASSUME NEW b, Sound(b), NEW c, NEW d, NEW m \in Nat, NEW n \in Nat,
           Stored(b, c, m), Stored(c, d, n)
    PROVE  Stored(b, d, m + n)
<1> DEFINE pos == b.m_position
<1>1. /\ Sound(c) /\ Sound(d)
      /\ c.m_baseSize = b.m_baseSize /\ c.m_endian = b.m_endian
      /\ d.m_baseSize = b.m_baseSize /\ d.m_endian = b.m_endian
      /\ c.m_position = pos + m /\ d.m_position = c.m_position + n
      /\ c.m_size = IF c.m_position > b.m_size THEN c.m_position ELSE b.m_size
      /\ d.m_size = IF d.m_position > c.m_size THEN d.m_position ELSE c.m_size
      /\ Room(b) <= Room(c) /\ Room(c) <= Room(d)
  BY DEF Stored
<1>2. /\ \A a \in Nat : a < Room(b) /\ a \notin pos .. pos + m - 1 => At(c, a) = At(b, a)
      /\ \A a \in Nat : a < Room(c) /\ a \notin c.m_position .. c.m_position + n - 1
            => At(d, a) = At(c, a)
  BY DEF Stored
<1>3. pos \in Nat /\ b.m_size \in Nat /\ Room(b) \in Nat /\ Room(c) \in Nat /\ Room(d) \in Nat
  BY <1>1, ArrayTypes DEF Sound
<1> HIDE DEF pos
<1>4. d.m_position = pos + (m + n)
  BY <1>1, <1>3
<1>5. d.m_size = IF d.m_position > b.m_size THEN d.m_position ELSE b.m_size
  BY <1>1, <1>3
<1>6. Room(b) <= Room(d)
  BY <1>1, <1>3
<1>7. ASSUME NEW a \in Nat, a < Room(b), a \notin pos .. pos + (m + n) - 1
      PROVE  At(d, a) = At(b, a)
  <2>1. a \notin pos .. pos + m - 1
    BY <1>3, <1>7
  <2>2. a \notin c.m_position .. c.m_position + n - 1
    BY <1>1, <1>3, <1>7
  <2>3. a < Room(c)
    BY <1>1, <1>3, <1>7
  <2> QED BY <1>2, <1>7, <2>1, <2>2, <2>3
<1> QED BY <1>1, <1>4, <1>5, <1>6, <1>7 DEF Stored, pos

LEMMA StoredDied ==
    ASSUME NEW b, NEW c, NEW d, NEW m, Stored(b, c, m), Died(c, d)
    PROVE  Died(b, d)
BY DEF Stored, Died

\* After k of the writes some bytes are stored, or the process has ended.
LEMMA AfterAll ==
    ASSUME NEW b, Sound(b), NEW pieces \in Seq(Seq(Cell)), NEW k \in 0 .. Len(pieces)
    PROVE  (\E n \in Nat : Stored(b, After(b, pieces)[k], n)) \/ Died(b, After(b, pieces)[k])
<1> DEFINE A(i) == After(b, pieces)[i]
           P(i) == i <= Len(pieces) => (\E n \in Nat : Stored(b, A(i), n)) \/ Died(b, A(i))
           S == {i \in Nat : P(i)}
<1>1. /\ Len(pieces) \in Nat
      /\ A(0) = b
      /\ \A i \in 1 .. Len(pieces) : A(i) = Write(A(i - 1), pieces[i])
  BY AfterSteps
<1> HIDE DEF A
<1>2. 0 \in S
  <2>1. Stored(b, A(0), 0)
    BY <1>1, StoredNothing
  <2> QED BY <2>1
<1>3. ASSUME NEW i \in Nat, i \in S PROVE i + 1 \in S
  <2> SUFFICES ASSUME i + 1 <= Len(pieces)
               PROVE  (\E n \in Nat : Stored(b, A(i + 1), n)) \/ Died(b, A(i + 1))
    OBVIOUS
  <2>1. /\ i + 1 \in 1 .. Len(pieces) /\ (i + 1) - 1 = i /\ i <= Len(pieces)
    BY <1>1
  <2>2. A(i + 1) = Write(A(i), pieces[i + 1]) /\ pieces[i + 1] \in Seq(Cell)
    BY <1>1, <2>1
  <2>3. CASE \E n \in Nat : Stored(b, A(i), n)
    <3>1. PICK m \in Nat : Stored(b, A(i), m)
      BY <2>3
    <3>2. Sound(A(i))
      BY <3>1 DEF Stored
    <3>3. WriteDone(A(i), A(i + 1), pieces[i + 1])
      BY <2>2, <3>2, WriteStep
    <3>4. Stored(A(i), A(i + 1), Len(pieces[i + 1])) \/ Died(A(i), A(i + 1))
      BY <3>3 DEF WriteDone
    <3>5. CASE Stored(A(i), A(i + 1), Len(pieces[i + 1]))
      <4>1. Len(pieces[i + 1]) \in Nat
        BY <2>2
      <4>2. Stored(b, A(i + 1), m + Len(pieces[i + 1]))
        BY <3>1, <3>5, <4>1, StoredTwice
      <4>3. m + Len(pieces[i + 1]) \in Nat
        BY <4>1
      <4> QED BY <4>2, <4>3
    <3>6. CASE Died(A(i), A(i + 1))
      BY <3>1, <3>6, StoredDied
    <3> QED BY <3>4, <3>5, <3>6
  <2>4. CASE Died(b, A(i))
    <3>1. A(i).failed # "none"
      BY <2>4 DEF Died
    <3>2. A(i + 1) = A(i)
      BY <2>2, <3>1, WriteDead
    <3> QED BY <2>4, <3>2
  <2>5. P(i)
    BY <1>3
  <2> QED BY <2>1, <2>3, <2>4, <2>5
<1>4. Nat \subseteq S
  <2> HIDE DEF S
  <2> QED BY <1>2, <1>3, SetInduction
<1>5. k \in Nat /\ k <= Len(pieces)
  BY <1>1
<1> QED BY <1>4, <1>5 DEF A

\* The n cells from address p on.
Slice(b, p, n) == [i \in 1 .. n |-> At(b, p + i - 1)]

LEMMA SliceType ==
    ASSUME NEW b, WellFormed(b), NEW p \in Nat, NEW n \in Nat, p + n <= Room(b)
    PROVE  Slice(b, p, n) \in Seq(Cell) /\ Len(Slice(b, p, n)) = n
<1>1. Room(b) \in Nat
  BY ArrayTypes
<1>2. ASSUME NEW i \in 1 .. n PROVE At(b, p + i - 1) \in Cell
  <2> DEFINE a == p + i - 1
  <2>1. a \in Nat /\ a < Room(b)
    BY <1>1
  <2> HIDE DEF a
  <2>2. At(b, a) \in Cell
    BY <2>1, CellType
  <2> QED BY <2>2 DEF a
<1> QED BY <1>2 DEF Slice

\* Bytes before p, then bytes from there.
LEMMA SliceConcat ==
    ASSUME NEW b, WellFormed(b), NEW p \in Nat, NEW m \in Nat, NEW n \in Nat, p + m + n <= Room(b)
    PROVE  Slice(b, p, m) \o Slice(b, p + m, n) = Slice(b, p, m + n)
<1>1. Room(b) \in Nat
  BY ArrayTypes
<1>2. /\ p + m \in Nat /\ m + n \in Nat
      /\ p + m <= Room(b) /\ (p + m) + n <= Room(b) /\ p + (m + n) <= Room(b)
  BY <1>1
<1> DEFINE s == Slice(b, p, m)
           t == Slice(b, p + m, n)
           u == Slice(b, p, m + n)
<1>3. /\ s \in Seq(Cell) /\ Len(s) = m /\ t \in Seq(Cell) /\ Len(t) = n
      /\ u \in Seq(Cell) /\ Len(u) = m + n
  BY <1>2, SliceType
<1>4. /\ \A i \in 1 .. m : s[i] = At(b, p + i - 1)
      /\ \A i \in 1 .. n : t[i] = At(b, (p + m) + i - 1)
      /\ \A i \in 1 .. m + n : u[i] = At(b, p + i - 1)
  BY DEF Slice
<1> HIDE DEF s, t, u
<1>5. /\ s \o t \in Seq(Cell) /\ Len(s \o t) = m + n
      /\ \A i \in 1 .. m + n : (s \o t)[i] = IF i <= m THEN s[i] ELSE t[i - m]
  BY <1>3, ConcatProperties
<1>6. ASSUME NEW i \in 1 .. m + n PROVE (s \o t)[i] = u[i]
  <2>1. CASE i <= m
    <3>1. i \in 1 .. m
      BY <2>1
    <3> QED BY <1>4, <1>5, <2>1, <3>1
  <2>2. CASE ~(i <= m)
    <3>1. i - m \in 1 .. n /\ (p + m) + (i - m) - 1 = p + i - 1
      BY <2>2
    <3> QED BY <1>4, <1>5, <2>2, <3>1
  <2> QED BY <2>1, <2>2
<1>7. s \o t = u
  BY <1>3, <1>5, <1>6, SeqEqual
<1> QED BY <1>7 DEF s, t, u

\* What is read next lies at the addresses from the position on.
LEMMA AheadIs ==
    ASSUME NEW b, Sound(b), NEW n \in Nat
    PROVE  \E m \in 0 .. getReadSize(b) :
              /\ m = (IF n < getReadSize(b) THEN n ELSE getReadSize(b))
              /\ Ahead(b, n) = Slice(b, b.m_position, m)
<1> DEFINE m == IF n < getReadSize(b) THEN n ELSE getReadSize(b)
<1>1. WellFormed(b) /\ b.m_position \in Nat /\ b.m_size \in Nat /\ Room(b) \in Nat
  BY ArrayTypes DEF Sound
<1>2. /\ b.m_position <= b.m_size /\ b.m_size <= Room(b)
      /\ b.m_cur # Null <=> b.m_position < Room(b)
      /\ b.m_cur # Null => b.m_cur = b.m_position \div b.m_baseSize + 1
  BY CurWhere DEF Sound
<1>3. getReadSize(b) \in Nat /\ getReadSize(b) = b.m_size - b.m_position
  BY <1>1, <1>2 DEF getReadSize
<1>4. m \in 0 .. getReadSize(b)
  BY <1>3
<1>5. Ahead(b, n) = IF m = 0 THEN <<>> ELSE CellsFrom(b, b.m_cur, Offset(b), m)
  BY DEF Ahead
<1> HIDE DEF m
<1>6. CASE m = 0
  <2>1. Ahead(b, n) = <<>> /\ Slice(b, b.m_position, 0) = <<>>
    BY <1>5, <1>6 DEF Slice
  <2> QED BY <1>4, <1>6, <2>1 DEF m
<1>7. CASE m # 0
  <2>1. b.m_cur = b.m_position \div b.m_baseSize + 1
    BY <1>1, <1>2, <1>3, <1>4, <1>7
  <2>2. CellsFrom(b, b.m_cur, Offset(b), m) = Slice(b, b.m_position, m)
    BY <1>1, <1>3, <1>4, <2>1, CellsAhead DEF Slice
  <2> QED BY <1>4, <1>5, <1>7, <2>2 DEF m
<1> QED BY <1>6, <1>7

\* What StreamRead makes of the array, when came is what recv delivers.
Received(b, length, came) ==
    LET c == AddCapacity(b, length)
        n == Len(came)
        first == (c.m_cur - 1) * c.m_baseSize + Offset(c)
    IN IF ~Reaches(c, c.m_cur, Offset(c), length)
       THEN FailedWriting(b, length)
       ELSE LET d == [c EXCEPT !.nodes = [j \in 1 .. Len(@) |->
                        [o \in 0 .. c.m_baseSize - 1 |->
                           LET k == (j - 1) * c.m_baseSize + o - first
                           IN IF k \in 0 .. n - 1 THEN came[k + 1] ELSE @[j][o]]]]
            IN IF n > 0 THEN SetPosition(d, d.m_position + n) ELSE d

\* The bytes that came are stored, or the process ends.
ReceiveDone(b, d, came) ==
    \/ Stored(b, d, Len(came))
       /\ \A k \in 0 .. Len(came) - 1 : At(d, b.m_position + k) = came[k + 1]
    \/ Died(b, d)

LEMMA ReceiveStep ==
    ASSUME NEW b, Sound(b), NEW length \in Nat \ {0}, NEW came \in Seq(Cell), Len(came) <= length
    PROVE  ReceiveDone(b, Received(b, length, came), came)
<1> DEFINE c == AddCapacity(b, length)
           n == Len(came)
           first == (c.m_cur - 1) * c.m_baseSize + Offset(c)
           reaches == Reaches(c, c.m_cur, Offset(c), length)
           nodes == [j \in 1 .. Len(c.nodes) |-> [o \in 0 .. c.m_baseSize - 1 |->
                       IF (j - 1) * c.m_baseSize + o - first \in 0 .. n - 1
                       THEN came[((j - 1) * c.m_baseSize + o - first) + 1] ELSE c.nodes[j][o]]]
           e == [c EXCEPT !.nodes = nodes]
           d == Received(b, length, came)
           f == [k \in 0 .. n - 1 |-> came[k + 1]]
<1>1. n \in Nat /\ n <= length
  OBVIOUS
<1>2. /\ Grows(b, c)
      /\ Enough(b, length) => c.m_cur # Null /\ b.m_position + length <= Room(c)
  <2>1. length \in Nat /\ length > 0
    OBVIOUS
  <2> QED BY <2>1, Grown, Zenon
<1>3. /\ WellFormed(c) /\ c \in Arrays /\ c.m_position = b.m_position /\ Counted(c)
      /\ c.m_cur # Null => c.m_cur = c.m_position \div c.m_baseSize + 1
  BY <1>2 DEF Grows, WellFormed
<1>4. reaches <=> c.m_cur # Null /\ c.m_position + length <= Room(c)
  <2> HIDE DEF c
  <2> QED BY <1>3, ReachesWhat
<1>5. d = IF ~reaches THEN FailedWriting(b, length)
          ELSE IF n > 0 THEN SetPosition(e, e.m_position + n) ELSE e
  BY DEF Received
<1> HIDE DEF d, e
<1>6. CASE ~reaches
  <2>1. ~Enough(b, length)
    <3> HIDE DEF c, reaches
    <3> QED BY <1>2, <1>3, <1>4, <1>6
  <2>2. d = FailedWriting(b, length)
    BY <1>5, <1>6
  <2>3. Died(b, d)
    BY <2>1, <2>2, DiedWriting
  <2> QED BY <2>3 DEF ReceiveDone, d
<1>7. CASE reaches
  <2> HIDE DEF c
  <2>1. /\ c.m_cur # Null /\ c.m_position + n <= Room(c)
        /\ c.m_position \in Nat /\ c.m_size \in Nat /\ Room(c) \in Nat /\ c.m_capacity \in Nat
        /\ Len(c.nodes) \in Nat /\ Room(c) <= c.m_capacity
    <3>1. /\ c.m_position \in Nat /\ c.m_size \in Nat /\ Room(c) \in Nat /\ c.m_capacity \in Nat
          /\ Len(c.nodes) \in Nat
      BY <1>3, ArrayTypes
    <3>2. c.m_cur # Null /\ c.m_position + n <= Room(c)
      <4> HIDE DEF reaches, n
      <4> QED BY <1>1, <1>3, <1>4, <1>7, <3>1
    <3>3. Room(c) <= c.m_capacity
      BY <1>3 DEF Counted, Room
    <3> QED BY <3>1, <3>2, <3>3
  <2>2. f \in [0 .. n - 1 -> Cell]
    OBVIOUS
  <2>3. nodes = Overlay(c, (c.m_cur - 1) * c.m_baseSize + Offset(c), n, f)
    <3> HIDE DEF first, n
    <3>1. ASSUME NEW j \in 1 .. Len(c.nodes), NEW o \in 0 .. c.m_baseSize - 1,
                 (j - 1) * c.m_baseSize + o - first \in 0 .. n - 1
          PROVE  f[(j - 1) * c.m_baseSize + o - first] = came[((j - 1) * c.m_baseSize + o - first) + 1]
      BY <3>1
    <3>2. nodes = Overlay(c, first, n, f)
      <4> HIDE DEF f
      <4> QED BY <3>1 DEF Overlay
    <3> QED BY <3>2 DEF first
  <2> HIDE DEF nodes, f, reaches
  <2>4. /\ e.m_capacity = c.m_capacity /\ e.m_baseSize = c.m_baseSize /\ e.nodes = nodes
        /\ e.m_position = c.m_position /\ e.m_size = c.m_size /\ e.m_cur = c.m_cur
    BY <1>3 DEF e, Arrays
  <2>5. Len(nodes) = Len(c.nodes)
    BY <2>1 DEF nodes
  <2> DEFINE p == c.m_position + n
             size == IF p > c.m_size THEN p ELSE c.m_size
             o == [c EXCEPT !.nodes = nodes, !.m_cur = CurAt(c, p), !.m_position = p, !.m_size = size]
  <2>6. Over(c, n, f) = o
    BY <2>3 DEF Over
  <2>7. CurAt(e, p) = CurAt(c, p)
    BY <2>4, <2>5, Zenon DEF CurAt
  <2>8. d = o
    <3>1. CASE n > 0
      <4>1. ~(p > e.m_capacity) /\ ~(p > Room(e))
        <5>1. Room(e) = Room(c)
          BY <2>4, <2>5 DEF Room
        <5> QED BY <1>1, <2>1, <2>4, <5>1
      <4>2. SetPosition(e, p) = Moved(e, p)
        <5>1. SetPosition(e, p) = IF p > e.m_capacity THEN e ELSE IF p > Room(e) THEN Gone(e, "seek") ELSE Moved(e, p)
          BY DEF SetPosition, Room, Gone, Moved, CurAt
        <5> QED BY <4>1, <5>1
      <4>3. d = SetPosition(e, p)
        BY <1>5, <1>7, <2>4, <3>1
      <4>4. Moved(e, p) = [e EXCEPT !.m_position = p, !.m_size = size, !.m_cur = CurAt(c, p)]
        BY <2>4, <2>7 DEF Moved
      <4> HIDE DEF p, size, d
      <4>5. Moved(e, p) = o
        <5> DEFINE cur == CurAt(c, p)
        <5> HIDE DEF cur
        <5>1. /\ Moved(e, p) = [e EXCEPT !.m_position = p, !.m_size = size, !.m_cur = cur]
              /\ o = [c EXCEPT !.nodes = nodes, !.m_cur = cur, !.m_position = p, !.m_size = size]
              /\ e = [c EXCEPT !.nodes = nodes]
          BY <4>4 DEF cur, e
        <5> QED BY ONLY <1>3, <5>1 DEF Arrays
      <4> QED BY <4>2, <4>3, <4>5
    <3>2. CASE n = 0
      <4>1. d = e
        BY <1>5, <1>7, <3>2
      <4>2. p = c.m_position
        BY <2>1, <3>2
      <4>3. CurAt(c, p) = c.m_cur
        <5>1. c.m_cur = c.m_position \div c.m_baseSize + 1 /\ c.m_cur <= Len(c.nodes)
          BY <1>3, <2>1 DEF WellFormed
        <5> HIDE DEF p
        <5> QED BY <4>2, <5>1 DEF CurAt
      <4>4. size = c.m_size
        <5>1. c.m_position <= c.m_size
          BY <1>2, CurWhere DEF Grows, Sound
        <5> QED BY <2>1, <4>2, <5>1
      <4>5. o = [c EXCEPT !.nodes = nodes, !.m_cur = c.m_cur, !.m_position = c.m_position, !.m_size = c.m_size]
        BY <4>2, <4>3, <4>4
      <4>6. e = [c EXCEPT !.nodes = nodes]
        BY DEF e
      <4> HIDE DEF o
      <4>7. o = e
        BY ONLY <1>3, <4>5, <4>6 DEF Arrays
      <4> QED BY <4>1, <4>7
    <3> QED BY <1>1, <3>1, <3>2
  <2>9. d = Over(c, n, f)
    BY <2>6, <2>8
  <2>10. Stored(b, d, n) /\ \A k \in 0 .. n - 1 : At(d, b.m_position + k) = f[k]
    <3> HIDE DEF n
    <3> QED BY <1>1, <1>2, <2>1, <2>2, <2>9, OverFacts
  <2>11. \A k \in 0 .. n - 1 : f[k] = came[k + 1]
    BY DEF f
  <2> HIDE DEF o, d
  <2> QED BY <2>10, <2>11 DEF ReceiveDone, d
<1> QED BY <1>6, <1>7

-----------------------------------------------------------------------------
(* Conversions: their types                                                  *)

LEMMA Least ==
    ASSUME NEW S, S \subseteq Nat, S # {}
    PROVE  \E x \in S : \A y \in S : x <= y
<1> SUFFICES ASSUME \A x \in S : \E y \in S : ~(x <= y) PROVE FALSE
  OBVIOUS
<1> DEFINE T == {n \in Nat : \A m \in 0 .. n : m \notin S}
<1>1. 0 \in T
  <2>1. 0 \notin S
    OBVIOUS
  <2> QED BY <2>1
<1>2. ASSUME NEW n \in Nat, n \in T PROVE n + 1 \in T
  <2>1. \A m \in 0 .. n : m \notin S
    BY <1>2
  <2>2. n + 1 \notin S
    BY <2>1
  <2> QED BY <2>1, <2>2
<1>3. Nat \subseteq T
  <2> HIDE DEF T
  <2> QED BY <1>1, <1>2, SetInduction
<1>4. PICK x \in S : TRUE
  OBVIOUS
<1>5. x \in T /\ x \in 0 .. x
  BY <1>3
<1> QED BY <1>5

LEMMA Widths ==
    /\ ByteBits \in Nat /\ ByteBits >= 2 /\ Group \in Nat /\ Group >= 1 /\ Group + 1 = ByteBits
    /\ Bits32 \in Nat /\ Bits32 >= 2 /\ Bits64 \in Nat /\ Bits64 >= 2 /\ Bits32 < Bits64
    /\ High \in Nat \ {0} /\ 2 ^ ByteBits = 2 * High
<1>1. /\ ByteBits \in Nat /\ ByteBits >= 2 /\ Group \in Nat /\ Group >= 1 /\ Group + 1 = ByteBits
      /\ Bits32 \in Nat /\ Bits32 >= 2 /\ Bits64 \in Nat /\ Bits64 >= 2 /\ Bits32 < Bits64
  BY ByteArrayAssumption DEF Group
<1>2. High \in Nat \ {0}
  BY <1>1, PowerPositive DEF High
<1>3. 2 ^ (Group + 1) = 2 * 2 ^ Group
  BY <1>1, PowerNext
<1> QED BY <1>1, <1>2, <1>3 DEF High

LEMMA ByteIsCell == Byte \subseteq Cell /\ Byte \subseteq Nat /\ Junk \in Cell
BY PowerNat, Widths DEF Byte, Cell

\* Dividing a number below b * c by b leaves one below c.
LEMMA QuotientBelow ==
    ASSUME NEW a \in Nat, NEW b \in Nat \ {0}, NEW c \in Nat, a < b * c
    PROVE  a \div b \in Nat /\ a \div b < c
<1>1. a < c * b
  BY ProductFacts
<1>2. a \div b \in Nat /\ a \div b + 1 <= c
  BY <1>1, DivBelow
<1> QED BY <1>2

LEMMA WidthOf ==
    ASSUME NEW bits \in {ByteBits, Bits32, Bits64}
    PROVE  /\ bits \in Nat \ {0} /\ bits \div ByteBits \in Nat \ {0}
           /\ bits = ByteBits * (bits \div ByteBits)
<1>1. bits \in Nat \ {0} /\ ByteBits \in Nat \ {0} /\ bits \in Int
  BY Widths
<1>2. bits % ByteBits = 0
  <2>1. ByteBits % ByteBits = 0
    <3>1. ByteBits = ByteBits * 1 + 0 /\ ByteBits \in Int /\ 1 \in Int /\ 0 \in 0 .. ByteBits - 1
      BY <1>1
    <3> QED BY <1>1, <3>1, DivModUnique, Zenon
  <2> QED BY <2>1, ByteArrayAssumption, Zenon
<1> DEFINE q == bits \div ByteBits
<1>3. q \in Int /\ bits = ByteBits * q + (bits % ByteBits)
  BY <1>1, DivMod, Zenon
<1>4. q \in Nat
  BY <1>1, DivBelow
<1> HIDE DEF q
<1>5. bits = ByteBits * q
  <2>1. ByteBits * q \in Int
    BY <1>1, <1>3, ProductFacts
  <2> QED BY <1>2, <1>3, <2>1
<1>6. q # 0
  BY <1>1, <1>5
<1> QED BY <1>1, <1>4, <1>5, <1>6 DEF q

LEMMA MemoryType ==
    ASSUME NEW v \in Int, NEW bits \in {ByteBits, Bits32, Bits64}
    PROVE  /\ Memory(v, bits) \in Seq(Byte) /\ Len(Memory(v, bits)) = bits \div ByteBits
           /\ v % 2 ^ bits \in 0 .. 2 ^ bits - 1
<1> DEFINE u == v % 2 ^ bits
           n == bits \div ByteBits
           m(i) == (u \div 2 ^ (ByteBits * (i - 1))) % 2 ^ ByteBits
<1>1. bits \in Nat /\ n \in Nat /\ ByteBits \in Nat
  BY WidthOf, Widths
<1>2. u \in 0 .. 2 ^ bits - 1
  <2>1. 2 ^ bits \in Nat \ {0}
    BY <1>1, PowerPositive
  <2> QED BY <2>1, DivMod, Zenon
<1>3. ASSUME NEW i \in 1 .. n PROVE m(i) \in Byte
  <2>1. i - 1 \in Nat
    OBVIOUS
  <2>2. ByteBits * (i - 1) \in Nat
    BY <1>1, <2>1
  <2> DEFINE p == 2 ^ (ByteBits * (i - 1))
             h == 2 ^ ByteBits
             q == u \div p
  <2>3. p \in Nat \ {0} /\ h \in Nat \ {0}
    BY <1>1, <2>2, PowerPositive
  <2>4. u \in Int
    <3>1. 2 ^ bits \in Nat
      BY <1>1, PowerNat
    <3> HIDE DEF u
    <3> QED BY <1>2, <3>1
  <2>5. q \in Int
    <3> HIDE DEF u, p
    <3> QED BY <2>3, <2>4, DivMod, Zenon
  <2>6. q % h \in 0 .. h - 1
    <3> HIDE DEF q, h
    <3> QED BY <2>3, <2>5, DivMod, Zenon
  <2> QED BY <2>6 DEF Byte
<1>4. Memory(v, bits) = [i \in 1 .. n |-> m(i)]
  BY DEF Memory
<1> HIDE DEF m, n
<1>5. Memory(v, bits) \in Seq(Byte) /\ Len(Memory(v, bits)) = n
  BY <1>1, <1>3, <1>4
<1> QED BY <1>2, <1>5 DEF n

LEMMA ReverseType ==
    ASSUME NEW S, NEW s \in Seq(S)
    PROVE  /\ Reverse(s) \in Seq(S) /\ Len(Reverse(s)) = Len(s)
           /\ \A i \in 1 .. Len(s) : Reverse(s)[i] = s[Len(s) - i + 1]
<1>1. Len(s) \in Nat /\ \A i \in 1 .. Len(s) : Len(s) - i + 1 \in 1 .. Len(s) /\ s[Len(s) - i + 1] \in S
  OBVIOUS
<1>2. Reverse(s) = [i \in 1 .. Len(s) |-> s[Len(s) - i + 1]]
  BY DEF Reverse
<1> QED BY <1>1, <1>2

LEMMA FixedType ==
    ASSUME NEW endian, NEW v \in Int, NEW bits \in {ByteBits, Bits32, Bits64}
    PROVE  /\ Fixed(endian, v, bits) \in Seq(Byte)
           /\ Len(Fixed(endian, v, bits)) = bits \div ByteBits
<1>1. Memory(v, bits) \in Seq(Byte) /\ Len(Memory(v, bits)) = bits \div ByteBits
  BY MemoryType
<1>2. byteswap(Memory(v, bits)) \in Seq(Byte) /\ Len(byteswap(Memory(v, bits))) = bits \div ByteBits
  BY <1>1, ReverseType DEF byteswap
<1> QED BY <1>1, <1>2, Zenon DEF Fixed

\* The bytes of a varint: as few as hold the number.
Fits(u, k) == u < 2 ^ (Group * k) /\ (k > 1 => u >= 2 ^ (Group * (k - 1)))

LEMMA VarintLength ==
    ASSUME NEW u \in Nat, u < 2 ^ Bits64
    PROVE  \E k \in 1 .. Bits64 : Fits(u, k)
<1> DEFINE S == {k \in 1 .. Bits64 : u < 2 ^ (Group * k)}
<1>1. Bits64 \in Nat /\ Bits64 >= 2 /\ Group \in Nat /\ Group >= 1
  BY Widths
<1>2. \A k \in Nat : Group * k \in Nat /\ 2 ^ (Group * k) \in Nat
  BY <1>1, PowerNat
<1>3. Bits64 \in S
  <2>1. Group * Bits64 \in Nat /\ Bits64 <= Group * Bits64
    BY <1>1
  <2>2. 2 ^ Bits64 <= 2 ^ (Group * Bits64)
    BY <1>1, <2>1, PowerMonotonic
  <2>3. 2 ^ Bits64 \in Nat /\ 2 ^ (Group * Bits64) \in Nat
    BY <1>1, <1>2, PowerNat
  <2> QED BY <1>1, <2>2, <2>3
<1>4. PICK k \in S : \A y \in S : k <= y
  <2>1. S \subseteq Nat
    BY <1>1
  <2> HIDE DEF S
  <2>2. S # {}
    BY <1>3
  <2> QED BY <2>1, <2>2, Least
<1>5. k \in 1 .. Bits64 /\ u < 2 ^ (Group * k)
  OBVIOUS
<1>6. ASSUME k > 1 PROVE u >= 2 ^ (Group * (k - 1))
  <2>1. k - 1 \in 1 .. Bits64 /\ ~(k <= k - 1)
    BY <1>1, <1>5, <1>6
  <2>2. k - 1 \notin S
    BY <1>4, <2>1
  <2>3. ~(u < 2 ^ (Group * (k - 1)))
    BY <2>1, <2>2
  <2>4. 2 ^ (Group * (k - 1)) \in Nat
    BY <1>2, <2>1
  <2> QED BY <2>3, <2>4
<1> QED BY <1>5, <1>6 DEF Fits

\* Its length, and its bytes.
VarintBytes(u, n) ==
    [i \in 1 .. n |-> ((u \div 2 ^ (Group * (i - 1))) % High) + (IF i < n THEN High ELSE 0)]

LEMMA VarintIs ==
    ASSUME NEW u \in Nat, u < 2 ^ Bits64
    PROVE  \E n \in 1 .. Bits64 : Fits(u, n) /\ Varint(u) = VarintBytes(u, n)
<1> DEFINE n == CHOOSE k \in 1 .. Bits64 : Fits(u, k)
<1>1. n \in 1 .. Bits64 /\ Fits(u, n)
  BY VarintLength, Zenon
<1>2. Varint(u) = VarintBytes(u, n)
  BY DEF Varint, VarintBytes, Fits
<1> HIDE DEF n
<1> QED BY <1>1, <1>2

LEMMA GroupType ==
    ASSUME NEW u \in Nat, NEW i \in Nat \ {0}
    PROVE  (u \div 2 ^ (Group * (i - 1))) % High \in 0 .. High - 1
<1> DEFINE p == 2 ^ (Group * (i - 1))
           q == u \div p
<1>1. p \in Nat \ {0}
  <2>1. Group * (i - 1) \in Nat
    BY Widths
  <2> QED BY <2>1, PowerPositive
<1>2. u \in Int /\ High \in Nat \ {0}
  BY Widths
<1> HIDE DEF p
<1>3. q \in Int
  BY <1>1, <1>2, DivMod, Zenon
<1> HIDE DEF q
<1>4. q % High \in 0 .. High - 1
  BY <1>2, <1>3, DivMod, Zenon
<1> QED BY <1>4 DEF p, q

LEMMA VarintType ==
    ASSUME NEW u \in Nat, u < 2 ^ Bits64
    PROVE  Varint(u) \in Seq(Byte)
<1>1. PICK n \in 1 .. Bits64 : Fits(u, n) /\ Varint(u) = VarintBytes(u, n)
  BY VarintIs
<1> DEFINE g(i) == (u \div 2 ^ (Group * (i - 1))) % High
<1>2. n \in Nat
  BY Widths
<1>3. ASSUME NEW i \in 1 .. n PROVE g(i) + (IF i < n THEN High ELSE 0) \in Byte
  <2>1. g(i) \in 0 .. High - 1
    BY GroupType
  <2>2. High \in Nat \ {0} /\ Byte = 0 .. 2 * High - 1
    BY Widths DEF Byte
  <2> DEFINE x == g(i)
             y == IF i < n THEN High ELSE 0
  <2>3. x \in 0 .. High - 1 /\ y \in {0, High}
    BY <2>1
  <2> HIDE DEF x, y
  <2>4. x + y \in Byte
    BY <2>2, <2>3
  <2> QED BY <2>4 DEF x, y
<1>4. Varint(u) = [i \in 1 .. n |-> g(i) + (IF i < n THEN High ELSE 0)]
  BY <1>1 DEF VarintBytes
<1> HIDE DEF g
<1> QED BY <1>2, <1>3, <1>4

LEMMA ModuloPower ==
    ASSUME NEW v \in Int, NEW bits \in Nat
    PROVE  v % 2 ^ bits \in Nat /\ v % 2 ^ bits < 2 ^ bits
<1> DEFINE p == 2 ^ bits
<1>1. p \in Nat \ {0}
  BY PowerPositive
<1> HIDE DEF p
<1>2. v % p \in 0 .. p - 1
  BY <1>1, DivMod, Zenon
<1>3. v % p \in Nat /\ v % p < p
  BY <1>1, <1>2
<1> QED BY <1>3 DEF p

LEMMA ZigzagTypes ==
    ASSUME NEW v \in Int
    PROVE  /\ EncodeZigzag32(v) \in Nat /\ EncodeZigzag32(v) < 2 ^ Bits32
           /\ EncodeZigzag64(v) \in Int
           /\ Signed(EncodeZigzag32(v), Bits32) \in Int
<1>1. Zigzag(v) \in Int
  BY DEF Zigzag
<1>2. Bits32 \in Nat /\ Bits32 - 1 \in Nat
  BY Widths
<1> DEFINE u == Zigzag(v) % 2 ^ Bits32
<1>3. u \in Nat /\ u < 2 ^ Bits32
  BY <1>1, <1>2, ModuloPower
<1>4. 2 ^ Bits32 \in Nat /\ 2 ^ (Bits32 - 1) \in Nat
  BY <1>2, PowerNat
<1> HIDE DEF u
<1>5. Signed(u, Bits32) \in Int
  BY <1>3, <1>4 DEF Signed
<1> QED BY <1>3, <1>5 DEF EncodeZigzag32, EncodeZigzag64, u

LEMMA BelowBits64 ==
    ASSUME NEW u \in Nat, u < 2 ^ Bits32 PROVE u < 2 ^ Bits64
<1>1. Bits32 \in Nat /\ Bits64 \in Nat /\ Bits32 <= Bits64
  BY Widths
<1>2. 2 ^ Bits32 \in Nat /\ 2 ^ Bits64 \in Nat /\ 2 ^ Bits32 <= 2 ^ Bits64
  BY <1>1, PowerNat, PowerMonotonic
<1> QED BY <1>2

IntegerKinds == {"F8", "F32", "F64", "U32", "I32", "U64", "I64"}
StringKinds == {"SF32", "SF64", "SVint", "S"}

LEMMA CellsOfBytes == ASSUME NEW s \in Seq(Byte) PROVE s \in Seq(Cell)
BY ByteIsCell, SeqMonotonic

LEMMA EncodingType ==
    ASSUME NEW kind \in IntegerKinds, NEW v \in Int
    PROVE  Encoding(kind, v) \in Seq(Seq(Cell))
<1>1. ASSUME NEW s, s \in Seq(Byte) PROVE <<s>> \in Seq(Seq(Cell))
  BY <1>1, CellsOfBytes
<1>2. CASE kind = "F8"
  <2>1. Memory(v, ByteBits) \in Seq(Byte)
    BY MemoryType
  <2>2. Encoding(kind, v) = <<Memory(v, ByteBits)>>
    BY <1>2 DEF Encoding
  <2> QED BY <1>1, <2>1, <2>2, Zenon
<1>3. CASE kind = "F32"
  <2>1. Fixed(ba.m_endian, v, Bits32) \in Seq(Byte)
    BY FixedType
  <2>2. Encoding(kind, v) = <<Fixed(ba.m_endian, v, Bits32)>>
    BY <1>3 DEF Encoding
  <2> QED BY <1>1, <2>1, <2>2, Zenon
<1>4. CASE kind = "F64"
  <2>1. Fixed(ba.m_endian, v, Bits64) \in Seq(Byte)
    BY FixedType
  <2>2. Encoding(kind, v) = <<Fixed(ba.m_endian, v, Bits64)>>
    BY <1>4 DEF Encoding
  <2> QED BY <1>1, <2>1, <2>2, Zenon
<1>5. CASE kind = "U32"
  <2> DEFINE u == v % 2 ^ Bits32
  <2>1. u \in Nat /\ u < 2 ^ Bits32
    BY ModuloPower, Widths
  <2> HIDE DEF u
  <2>2. Varint(u) \in Seq(Byte)
    BY <2>1, BelowBits64, VarintType
  <2>3. Encoding(kind, v) = <<Varint(u)>>
    BY <1>5 DEF Encoding, u
  <2> QED BY <1>1, <2>2, <2>3, Zenon
<1>6. CASE kind = "I32"
  <2> DEFINE u == EncodeZigzag32(Signed(EncodeZigzag32(v), Bits32))
  <2>1. u \in Nat /\ u < 2 ^ Bits32
    BY ZigzagTypes
  <2>2. Encoding(kind, v) = <<Varint(u)>>
    BY <1>6 DEF Encoding
  <2> HIDE DEF u
  <2>3. Varint(u) \in Seq(Byte)
    BY <2>1, BelowBits64, VarintType
  <2> QED BY <1>1, <2>2, <2>3, Zenon
<1>7. CASE kind = "U64"
  <2> DEFINE u == v % 2 ^ Bits64
  <2>1. u \in Nat /\ u < 2 ^ Bits64
    BY ModuloPower, Widths
  <2>2. Encoding(kind, v) = <<Varint(u)>>
    BY <1>7 DEF Encoding
  <2> HIDE DEF u
  <2>3. Varint(u) \in Seq(Byte)
    BY <2>1, VarintType
  <2> QED BY <1>1, <2>2, <2>3, Zenon
<1>8. CASE kind = "I64"
  <2> DEFINE z == EncodeZigzag64(v)
             u == z % 2 ^ Bits64
  <2>1. z \in Int
    BY ZigzagTypes
  <2>2. Encoding(kind, v) = <<Varint(u)>>
    BY <1>8 DEF Encoding
  <2> HIDE DEF z
  <2>3. u \in Nat /\ u < 2 ^ Bits64
    BY <2>1, ModuloPower, Widths
  <2> HIDE DEF u
  <2>4. Varint(u) \in Seq(Byte)
    BY <2>3, VarintType
  <2> QED BY <1>1, <2>2, <2>4, Zenon
<1> QED BY <1>2, <1>3, <1>4, <1>5, <1>6, <1>7, <1>8 DEF IntegerKinds

LEMMA StringEncodingType ==
    ASSUME NEW kind \in StringKinds, NEW s \in Strings
    PROVE  /\ StringEncoding(kind, s) \in Seq(Seq(Cell))
           /\ <<s>> \in Seq(Seq(Cell))
<1>1. s \in Seq(Byte) /\ Len(s) \in Nat /\ Len(s) \in Int /\ Len(s) < 2 ^ Bits64
  BY ByteArrayAssumption
<1>2. s \in Seq(Cell)
  BY <1>1, CellsOfBytes
<1>3. ASSUME NEW t, t \in Seq(Byte) PROVE <<t, s>> \in Seq(Seq(Cell))
  BY <1>2, <1>3, CellsOfBytes
<1>4. CASE kind = "SF32"
  <2>1. Fixed(ba.m_endian, Len(s), Bits32) \in Seq(Byte)
    BY <1>1, FixedType
  <2>2. StringEncoding(kind, s) = <<Fixed(ba.m_endian, Len(s), Bits32), s>>
    BY <1>4 DEF StringEncoding
  <2> QED BY <1>2, <1>3, <2>1, <2>2
<1>5. CASE kind = "SF64"
  <2>1. Fixed(ba.m_endian, Len(s), Bits64) \in Seq(Byte)
    BY <1>1, FixedType
  <2>2. StringEncoding(kind, s) = <<Fixed(ba.m_endian, Len(s), Bits64), s>>
    BY <1>5 DEF StringEncoding
  <2> QED BY <1>2, <1>3, <2>1, <2>2
<1>6. CASE kind = "SVint"
  <2>1. Varint(Len(s)) \in Seq(Byte)
    BY <1>1, VarintType
  <2>2. StringEncoding(kind, s) = <<Varint(Len(s)), s>>
    BY <1>6 DEF StringEncoding
  <2> QED BY <1>2, <1>3, <2>1, <2>2
<1>7. CASE kind = "S"
  <2>1. StringEncoding(kind, s) = <<s>>
    BY <1>7 DEF StringEncoding
  <2> QED BY <1>2, <2>1
<1> QED BY <1>4, <1>5, <1>6, <1>7 DEF StringKinds

\* The pieces of a file, and where each ends.
Ends(s, n, i) == IF i * n < Len(s) THEN i * n ELSE Len(s)

\* What s holds from a to z is in piece.
PieceIs(s, n, a, z, piece) ==
    /\ a \in Nat /\ a < Len(s) /\ z \in a + 1 .. Len(s) /\ z - a <= n
    /\ Len(piece) = z - a
    /\ \A j \in 1 .. Len(piece) : piece[j] = s[a + j]

LEMMA PiecesType ==
    ASSUME NEW s \in Seq(Cell), NEW n \in Nat \ {0}
    PROVE  /\ Pieces(s, n) \in Seq(Seq(Cell))
           /\ Len(Pieces(s, n)) = (Len(s) + n - 1) \div n
           /\ \A i \in 1 .. Len(Pieces(s, n)) :
                 PieceIs(s, n, (i - 1) * n, Ends(s, n, i), Pieces(s, n)[i])
           /\ Len(s) <= Len(Pieces(s, n)) * n
<1> DEFINE k == (Len(s) + n - 1) \div n
           P(i) == SubSeq(s, (i - 1) * n + 1, Ends(s, n, i))
           What(i) == P(i) \in Seq(Cell) /\ PieceIs(s, n, (i - 1) * n, Ends(s, n, i), P(i))
<1>1. Len(s) \in Nat /\ Len(s) + n - 1 \in Nat /\ \A i \in 1 .. Len(s) : s[i] \in Cell
  OBVIOUS
<1>2. k \in Nat /\ \A m \in Nat : k + 1 <= m <=> Len(s) + n - 1 < m * n
  BY <1>1, DivBelow
<1>3. Pieces(s, n) = [i \in 1 .. k |-> P(i)]
  BY DEF Pieces, Ends
<1> HIDE DEF k
<1>4. ASSUME NEW i \in 1 .. k PROVE What(i)
  <2> DEFINE a == (i - 1) * n
             z == Ends(s, n, i)
  <2>1. i \in Nat /\ i - 1 \in Nat /\ ~(k + 1 <= i)
    BY <1>2
  <2>2. i * n \in Nat /\ a \in Nat /\ i * n = a + n
    <3>1. i \in Int /\ i - 1 \in Int /\ 1 \in Int /\ i = (i - 1) + 1
      BY <2>1
    <3>2. n * ((i - 1) + 1) = n * (i - 1) + n * 1
      BY <3>1, ProductFacts
    <3>3. n * (i - 1) = a /\ n * i = i * n
      BY <3>1, ProductFacts
    <3>4. a \in Nat
      BY <2>1
    <3> HIDE DEF a
    <3> QED BY <3>1, <3>2, <3>3, <3>4
  <2>3. ~(Len(s) + n - 1 < i * n)
    BY <1>2, <2>1
  <2>4. a < Len(s)
    <3> HIDE DEF a
    <3> QED BY <1>1, <2>2, <2>3
  <2>5. z \in a + 1 .. Len(s) /\ z - a <= n
    <3>1. z = IF i * n < Len(s) THEN i * n ELSE Len(s)
      BY DEF Ends
    <3> HIDE DEF a, z
    <3> QED BY <1>1, <2>2, <2>4, <3>1
  <2>6. P(i) = SubSeq(s, a + 1, z)
    OBVIOUS
  <2> HIDE DEF a, z, P
  <2>7. /\ a + 1 \in Int /\ z \in Int /\ a + 1 <= z
        /\ \A j \in a + 1 .. z : s[j] \in Cell
    BY <1>1, <2>2, <2>5
  <2>8. /\ P(i) \in Seq(Cell) /\ Len(P(i)) = z - (a + 1) + 1
        /\ \A j \in 1 .. z - (a + 1) + 1 : P(i)[j] = s[(a + 1) + j - 1]
    BY <2>6, <2>7, SubSeqProperties
  <2>9. z - (a + 1) + 1 = z - a /\ \A j \in Nat : (a + 1) + j - 1 = a + j
    BY <2>2, <2>7
  <2>10. \A j \in 1 .. z - a : P(i)[j] = s[a + j]
    BY <2>8, <2>9
  <2>11. Len(P(i)) = z - a
    BY <2>8, <2>9
  <2> QED BY <2>2, <2>4, <2>5, <2>8, <2>10, <2>11 DEF a, z, PieceIs
<1>5. Len(s) <= k * n
  <2>1. k + 1 \in Nat /\ k + 1 <= k + 1
    BY <1>2
  <2>2. Len(s) + n - 1 < (k + 1) * n
    BY <1>2, <2>1
  <2>3. (k + 1) * n = k * n + n /\ k * n \in Nat
    <3>1. n * (k + 1) = n * k + n * 1 /\ n * k = k * n /\ n * (k + 1) = (k + 1) * n
      BY <1>2, ProductFacts
    <3> QED BY <1>2, <3>1
  <2> QED BY <1>1, <2>2, <2>3
<1> HIDE DEF P
<1>6. Pieces(s, n) \in Seq(Seq(Cell)) /\ Len(Pieces(s, n)) = k
  <2>1. \A i \in 1 .. k : P(i) \in Seq(Cell)
    BY <1>4
  <2> HIDE DEF What
  <2> QED BY <1>2, <1>3, <2>1
<1>7. \A i \in 1 .. k : Pieces(s, n)[i] = P(i)
  BY <1>3
<1> QED BY <1>4, <1>5, <1>6, <1>7 DEF k

LEMMA SumsType ==
    ASSUME NEW s \in Seq(Nat), NEW d \in Nat, NEW k \in 0 .. Len(s)
    PROVE  Sums(s, d)[k] \in Nat
<1> DEFINE F(i) == Sums(s, d)[i]
           S == {i \in Nat : i <= Len(s) => F(i) \in Nat}
<1>1. /\ Len(s) \in Nat /\ F(0) = 0
      /\ \A i \in 1 .. Len(s) : F(i) = F(i - 1) + s[i] * 2 ^ (d * (i - 1))
  BY SumsSteps
<1> HIDE DEF F
<1>2. 0 \in S
  BY <1>1
<1>3. ASSUME NEW i \in Nat, i \in S PROVE i + 1 \in S
  <2> SUFFICES ASSUME i + 1 <= Len(s) PROVE F(i + 1) \in Nat
    OBVIOUS
  <2>1. i + 1 \in 1 .. Len(s) /\ (i + 1) - 1 = i /\ i <= Len(s)
    BY <1>1
  <2>2. F(i) \in Nat
    BY <1>3, <2>1
  <2>3. F(i + 1) = F(i) + s[i + 1] * 2 ^ (d * i)
    BY <1>1, <2>1
  <2>4. s[i + 1] \in Nat /\ d * i \in Nat
    BY <2>1
  <2> DEFINE p == 2 ^ (d * i)
  <2>5. p \in Nat
    BY <2>4, PowerNat
  <2> HIDE DEF p
  <2>6. F(i + 1) = F(i) + s[i + 1] * p
    BY <2>3 DEF p
  <2> DEFINE x == s[i + 1]
             y == F(i)
  <2>7. x \in Nat /\ y \in Nat
    BY <2>2, <2>4
  <2> HIDE DEF x, y
  <2>8. y + x * p \in Nat
    BY <2>5, <2>7
  <2> QED BY <2>6, <2>8 DEF x, y
<1>4. Nat \subseteq S
  <2> HIDE DEF S
  <2> QED BY <1>2, <1>3, SetInduction
<1>5. k \in Nat /\ k <= Len(s)
  BY <1>1
<1> QED BY <1>4, <1>5 DEF F

LEMMA DigitsType ==
    ASSUME NEW s \in Seq(Nat), NEW d \in Nat PROVE Digits(s, d) \in Nat
<1>1. Len(s) \in 0 .. Len(s)
  OBVIOUS
<1> QED BY <1>1, SumsType DEF Digits

LEMMA UnfixedType ==
    ASSUME NEW endian, NEW s \in Seq(Byte) PROVE Unfixed(endian, s) \in Nat
<1>1. s \in Seq(Nat) /\ byteswap(s) \in Seq(Nat) /\ ByteBits \in Nat
  <2>1. byteswap(s) \in Seq(Byte)
    BY ReverseType DEF byteswap
  <2> QED BY <2>1, ByteIsCell, SeqMonotonic, Widths
<1>2. Digits(s, ByteBits) \in Nat /\ Digits(byteswap(s), ByteBits) \in Nat
  BY <1>1, DigitsType
<1> QED BY <1>2, Zenon DEF Unfixed

LEMMA UnvarintType ==
    ASSUME NEW s \in Seq(Byte), NEW bits \in Nat PROVE Unvarint(s, bits) \in Nat
<1> DEFINE t == [i \in 1 .. Len(s) |-> s[i] % High]
<1>1. t \in Seq(Nat)
  <2>1. ASSUME NEW i \in 1 .. Len(s) PROVE s[i] % High \in Nat
    <3>1. s[i] \in Int /\ High \in Nat \ {0}
      <4>1. s[i] \in Byte
        OBVIOUS
      <4>2. Byte \subseteq Nat /\ High \in Nat \ {0}
        BY ByteIsCell, Widths
      <4>3. s[i] \in Nat
        BY <4>1, <4>2, Zenon
      <4> QED BY ONLY <4>2, <4>3
    <3>2. s[i] % High \in 0 .. High - 1
      BY <3>1, DivMod, Zenon
    <3> QED BY <3>1, <3>2
  <2>2. Len(s) \in Nat
    OBVIOUS
  <2> QED BY <2>1, <2>2
<1>2. Digits(t, Group) \in Nat
  <2> HIDE DEF t
  <2> QED BY <1>1, Widths, DigitsType
<1> DEFINE x == Digits(t, Group)
<1>3. x \in Int
  BY <1>2
<1>4. Unvarint(s, bits) = x % 2 ^ bits
  BY DEF Unvarint
<1> HIDE DEF x
<1> QED BY <1>3, <1>4, ModuloPower

\* What the memory may hold is a sequence of bytes of the same length.
LEMMA ResolvedType ==
    ASSUME NEW cells \in Seq(Cell), NEW view \in Resolved(cells)
    PROVE  /\ view \in Seq(Byte) /\ Len(view) = Len(cells)
           /\ \A i \in 1 .. Len(cells) : cells[i] # Junk => view[i] = cells[i]
BY DEF Resolved

LEMMA TakenType ==
    ASSUME NEW view \in Seq(Byte), NEW bits
    PROVE  /\ TakenOf(view, bits) \in 0 .. Len(view)
           /\ view # <<>> => TakenOf(view, bits) \in 1 .. Len(view)
           /\ SubSeq(view, 1, TakenOf(view, bits)) \in Seq(Byte)
<1> DEFINE ends == {i \in 1 .. Len(view) : view[i] < High}
           i0 == CHOOSE i \in ends : \A j \in ends : i <= j
           t == TakenOf(view, bits)
<1>1. Len(view) \in Nat /\ (view # <<>> => Len(view) > 0)
  BY EmptySeq
<1>2. ends # {} => i0 \in ends
  <2>1. ends \subseteq Nat
    OBVIOUS
  <2> HIDE DEF ends
  <2>2. ends # {} => \E i \in ends : \A j \in ends : i <= j
    BY <2>1, Least
  <2> QED BY <2>2, Zenon
<1>3. t = IF bits = Bits32 \/ ends = {} THEN Len(view) ELSE i0
  BY DEF TakenOf
<1> HIDE DEF t, i0
<1>4. t \in 0 .. Len(view) /\ (view # <<>> => t \in 1 .. Len(view))
  BY <1>1, <1>2, <1>3
<1>5. \A i \in 1 .. t : view[i] \in Byte
  BY <1>1, <1>4
<1>6. SubSeq(view, 1, t) \in Seq(Byte)
  <2>1. 1 \in Int /\ t \in Int
    BY <1>1, <1>4
  <2> QED BY <1>5, <2>1, SubSeqProperties
<1> QED BY <1>4, <1>6 DEF t

-----------------------------------------------------------------------------
(* Calls                                                                     *)

\* What a call of kind k may do to the array b: become d and hand out o.
Outcome(b, d, o, k) ==
    \/ /\ k = "write" /\ o = <<>>
       /\ \E n \in Nat : Stored(b, d, n)
    \/ /\ k = "read"
       /\ \E n \in 0 .. getReadSize(b) :
             MovedTo(b, d, b.m_position + n) /\ o = Slice(b, b.m_position, n)
    \/ /\ k = "peek" /\ d = b
       /\ \E n \in 0 .. getReadSize(b) : o = Slice(b, b.m_position, n)
    \/ /\ k = "seek" /\ o = <<>>
       /\ Sound(d) /\ d.nodes = b.nodes /\ d.m_baseSize = b.m_baseSize
       /\ d.m_size = IF d.m_position > b.m_size THEN d.m_position ELSE b.m_size
    \/ /\ k = "clear" /\ o = <<>>
       /\ Sound(d) /\ d.m_position = 0 /\ d.m_size = 0
    \/ /\ k \in {"write", "read", "peek", "seek", "clear"} /\ o \in Seq(Cell)
       /\ WellFormed(d) /\ d.failed # "none" /\ FailedWell(d)

\* What a call that reads makes of the array, with the cells it hands out: it moves
\* over what it takes, whether or not it throws then.
ReadOut(b, r) ==
    \/ \E n \in 0 .. getReadSize(b) :
          MovedTo(b, r.b, b.m_position + n) /\ r.cells = Slice(b, b.m_position, n)
    \/ r.cells \in Seq(Cell) /\ Died(b, r.b)

LEMMA ReadSizeType ==
    ASSUME NEW b, Sound(b)
    PROVE  /\ getReadSize(b) \in Nat /\ b.m_position \in Nat /\ Room(b) \in Nat
           /\ b.m_position + getReadSize(b) = b.m_size /\ b.m_size <= Room(b) /\ b.m_size \in Nat
           /\ b.m_position <= b.m_size /\ Room(b) <= b.m_capacity /\ b.m_capacity \in Nat
<1>1. b.m_position \in Nat /\ b.m_size \in Nat /\ Room(b) \in Nat /\ b.m_capacity \in Nat
  BY ArrayTypes DEF Sound
<1>2. b.m_position <= b.m_size /\ b.m_size <= Room(b)
  BY CurWhere DEF Sound
<1>3. Room(b) <= b.m_capacity
  BY DEF Sound, Counted, Room
<1> QED BY <1>1, <1>2, <1>3 DEF getReadSize

LEMMA StaysPut ==
    ASSUME NEW b, Sound(b)
    PROVE  MovedTo(b, b, b.m_position + 0) /\ Slice(b, b.m_position, 0) = <<>>
<1>1. b.m_position \in Nat /\ b.m_size \in Nat /\ b.m_position <= b.m_size
  BY ReadSizeType
<1>2. MovedTo(b, b, b.m_position + 0)
  BY <1>1 DEF MovedTo
<1>3. Slice(b, b.m_position, 0) = <<>>
  BY DEF Slice
<1> QED BY <1>2, <1>3

LEMMA ReadOutOf ==
    ASSUME NEW b, Sound(b), NEW n \in Nat
    PROVE  ReadOut(b, Read(b, n))
<1> DEFINE r == Read(b, n)
<1>1. ReadDone(b, r, n)
  BY ReadStep
<1>2. getReadSize(b) \in Nat
  BY ReadSizeType
<1> HIDE DEF r
<1>3. CASE /\ r.ok /\ n <= getReadSize(b)
           /\ MovedTo(b, r.b, b.m_position + n)
           /\ r.cells = [i \in 1 .. n |-> At(b, b.m_position + i - 1)]
  <2>1. n \in 0 .. getReadSize(b)
    BY <1>2, <1>3
  <2>2. r.cells = Slice(b, b.m_position, n)
    BY <1>3 DEF Slice
  <2> QED BY <1>3, <2>1, <2>2 DEF ReadOut, r
<1>4. CASE r.cells = <<>> /\ r.b = b
  <2>1. MovedTo(b, r.b, b.m_position + 0) /\ r.cells = Slice(b, b.m_position, 0)
    BY <1>4, StaysPut
  <2>2. 0 \in 0 .. getReadSize(b)
    BY <1>2
  <2> QED BY <2>1, <2>2 DEF ReadOut, r
<1>5. CASE r.cells = <<>> /\ Died(b, r.b)
  <2>1. r.cells \in Seq(Cell)
    BY <1>5
  <2> QED BY <1>5, <2>1 DEF ReadOut, r
<1> QED BY <1>1, <1>3, <1>4, <1>5 DEF ReadDone

\* Reading on after a read that returned.
LEMMA ReadOutTwice ==
    ASSUME NEW b, Sound(b), NEW c, NEW m \in 0 .. getReadSize(b),
           MovedTo(b, c, b.m_position + m), NEW r, ReadOut(c, r),
           NEW s, s.b = r.b, s.cells = Slice(b, b.m_position, m) \o r.cells
    PROVE  ReadOut(b, s)
<1> DEFINE pos == b.m_position
<1>1. /\ pos \in Nat /\ getReadSize(b) \in Nat /\ Room(b) \in Nat
      /\ pos + getReadSize(b) = b.m_size /\ b.m_size <= Room(b) /\ b.m_size \in Nat
  BY ReadSizeType
<1>2. /\ Sound(c) /\ c.m_baseSize = b.m_baseSize /\ c.m_endian = b.m_endian
      /\ c.nodes = b.nodes /\ c.m_position = pos + m
      /\ c.m_size = IF pos + m > b.m_size THEN pos + m ELSE b.m_size
  BY DEF MovedTo
<1>3. m \in Nat /\ c.m_size = b.m_size /\ getReadSize(c) = getReadSize(b) - m
  <2>1. m \in Nat /\ c.m_size = b.m_size
    BY <1>1, <1>2
  <2>2. getReadSize(c) = c.m_size - c.m_position /\ getReadSize(b) = b.m_size - pos
    BY DEF getReadSize
  <2> HIDE DEF pos
  <2> QED BY <1>1, <1>2, <2>1, <2>2
<1>4. \A p, n : Slice(c, p, n) = Slice(b, p, n)
  BY <1>2 DEF Slice, At
<1>5. CASE \E n \in 0 .. getReadSize(c) :
              MovedTo(c, r.b, c.m_position + n) /\ r.cells = Slice(c, c.m_position, n)
  <2>1. PICK n \in 0 .. getReadSize(c) :
              MovedTo(c, r.b, c.m_position + n) /\ r.cells = Slice(c, c.m_position, n)
    BY <1>5
  <2>2. n \in Nat /\ m + n \in 0 .. getReadSize(b) /\ c.m_position + n = pos + (m + n)
    BY <1>1, <1>2, <1>3
  <2>3. MovedTo(b, s.b, pos + (m + n))
    <3> HIDE DEF pos
    <3>1. /\ Sound(s.b) /\ s.b.m_baseSize = c.m_baseSize /\ s.b.m_endian = c.m_endian
          /\ s.b.nodes = c.nodes /\ s.b.m_position = pos + (m + n)
          /\ s.b.m_size = IF pos + (m + n) > c.m_size THEN pos + (m + n) ELSE c.m_size
      BY <2>1, <2>2 DEF MovedTo
    <3> QED BY <1>2, <1>3, <3>1 DEF MovedTo
  <2>4. s.cells = Slice(b, pos, m + n)
    <3>1. s.cells = Slice(b, pos, m) \o Slice(b, pos + m, n)
      BY <1>2, <1>4, <2>1
    <3>2. pos + m + n <= Room(b)
      BY <1>1, <2>2
    <3> HIDE DEF pos
    <3>3. WellFormed(b) /\ m \in Nat /\ n \in Nat /\ pos \in Nat
      BY <1>1, <1>3, <2>2 DEF Sound
    <3>4. Slice(b, pos, m) \o Slice(b, pos + m, n) = Slice(b, pos, m + n)
      BY <3>2, <3>3, SliceConcat, Zenon
    <3> QED BY <3>1, <3>4
  <2> QED BY <2>2, <2>3, <2>4 DEF ReadOut
<1>6. CASE r.cells \in Seq(Cell) /\ Died(c, r.b)
  <2>1. Died(b, s.b)
    BY <1>2, <1>6 DEF Died
  <2>2. Slice(b, pos, m) \in Seq(Cell)
    <3> HIDE DEF pos
    <3>1. pos + m <= Room(b)
      BY <1>1, <1>3
    <3>2. WellFormed(b)
      BY DEF Sound
    <3> QED BY <1>1, <1>3, <3>1, <3>2, SliceType
  <2>3. s.cells \in Seq(Cell)
    <3> HIDE DEF pos
    <3>1. s.cells = Slice(b, pos, m) \o r.cells
      BY DEF pos
    <3> QED BY <1>6, <2>2, <3>1, ConcatProperties
  <2> QED BY <2>1, <2>3 DEF ReadOut
<1> QED BY <1>5, <1>6 DEF ReadOut

Done == Outcome(ba, ba', out', op')

LEMMA SoundNow == ASSUME ArrayInv, Running PROVE Sound(ba)
BY DEF ArrayInv, TypeOK, Sound, Running

LEMMA WriteAllDone ==
    ASSUME ArrayInv, NEW kind, NEW value, NEW pieces \in Seq(Seq(Cell)), WriteAll(kind, value, pieces)
    PROVE  Done
<1>1. Sound(ba) /\ op' = "write" /\ out' = <<>> /\ ba' = After(ba, pieces)[Len(pieces)]
  BY SoundNow DEF WriteAll, Step, Running
<1>2. Len(pieces) \in 0 .. Len(pieces)
  OBVIOUS
<1>3. (\E n \in Nat : Stored(ba, ba', n)) \/ Died(ba, ba')
  BY <1>1, <1>2, AfterAll
<1>4. <<>> \in Seq(Cell)
  OBVIOUS
<1> QED BY <1>1, <1>3, <1>4 DEF Done, Outcome, Died

LEMMA TakeDone ==
    ASSUME ArrayInv, NEW kind, NEW value, NEW r, ReadOut(ba, r), Take(kind, value, r)
    PROVE  Done
<1>1. op' = "read" /\ ba' = r.b /\ out' = r.cells
  BY DEF Take, Step
<1> QED BY <1>1 DEF Done, Outcome, ReadOut, Died

LEMMA WriteIntegerDone ==
    ASSUME ArrayInv, NEW kind \in IntegerKinds, NEW v \in Ints, WriteInteger(kind, v)
    PROVE  Done
<1>1. v \in Int
  BY ByteArrayAssumption
<1>2. Encoding(kind, v) \in Seq(Seq(Cell))
  BY <1>1, EncodingType
<1> QED BY <1>2, WriteAllDone DEF WriteInteger

LEMMA WriteStringDone ==
    ASSUME ArrayInv, NEW s \in Strings,
           (\E kind \in StringKinds : WriteString(kind, s)) \/ WriteStringF16(s)
    PROVE  Done
<1>1. ASSUME NEW kind \in StringKinds, WriteString(kind, s) PROVE Done
  <2>1. StringEncoding(kind, s) \in Seq(Seq(Cell))
    BY StringEncodingType
  <2> QED BY <1>1, <2>1, WriteAllDone DEF WriteString
<1>2. ASSUME WriteStringF16(s) PROVE Done
  <2>1. <<s>> \in Seq(Seq(Cell))
    <3>1. "S" \in StringKinds
      BY DEF StringKinds
    <3> QED BY <3>1, StringEncodingType
  <2> QED BY <1>2, <2>1, WriteAllDone DEF WriteStringF16
<1> QED BY <1>1, <1>2

LEMMA ReadFromFileDone == ASSUME ArrayInv, ReadFromFile PROVE Done
<1>1. file \in Seq(Cell) /\ ba.m_baseSize \in Nat \ {0}
  BY ArrayTypes DEF ArrayInv, TypeOK
<1>2. Pieces(file, ba.m_baseSize) \in Seq(Seq(Cell))
  BY <1>1, PiecesType
<1> QED BY <1>2, WriteAllDone DEF ReadFromFile

LEMMA AheadType ==
    ASSUME NEW b, Sound(b), NEW n \in Nat
    PROVE  Ahead(b, n) \in Seq(Cell) /\ Len(Ahead(b, n)) <= getReadSize(b)
<1>1. PICK m \in 0 .. getReadSize(b) : Ahead(b, n) = Slice(b, b.m_position, m)
  BY AheadIs
<1> DEFINE pos == b.m_position
<1>2. /\ pos \in Nat /\ getReadSize(b) \in Nat /\ Room(b) \in Nat
      /\ pos + getReadSize(b) = b.m_size /\ b.m_size <= Room(b) /\ b.m_size \in Nat
  BY ReadSizeType
<1>3. WellFormed(b) /\ Ahead(b, n) = Slice(b, pos, m)
  BY <1>1 DEF Sound
<1> HIDE DEF pos
<1>4. pos + m <= Room(b) /\ m \in Nat
  BY <1>2
<1>5. Slice(b, pos, m) \in Seq(Cell) /\ Len(Slice(b, pos, m)) = m
  BY <1>2, <1>3, <1>4, SliceType
<1> QED BY <1>2, <1>3, <1>5

LEMMA ReadFixedDone ==
    ASSUME ArrayInv, NEW kind \in {"F8", "F32", "F64"}, ReadFixed(kind)
    PROVE  Done
<1> DEFINE bits == CASE kind = "F8" -> ByteBits [] kind = "F32" -> Bits32 [] kind = "F64" -> Bits64
           n == bits \div ByteBits
<1>1. n \in Nat
  <2>1. bits \in {ByteBits, Bits32, Bits64}
    OBVIOUS
  <2> HIDE DEF bits
  <2> QED BY <2>1, WidthOf
<1>2. \E value : Take(kind, value, Read(ba, n))
  <2> HIDE DEF n
  <2> QED BY DEF ReadFixed, n
<1>3. ba.failed = "none"
  BY <1>2 DEF Take, Step
<1>4. ReadOut(ba, Read(ba, n))
  <2> HIDE DEF n
  <2> QED BY <1>1, <1>3, SoundNow, ReadOutOf DEF Running
<1> QED BY <1>2, <1>4, TakeDone

\* readUint32, readUint64
LEMMA ReadVarintOf ==
    ASSUME NEW b, Sound(b), NEW view \in Seq(Byte), NEW bits
    PROVE  ReadOut(b, ReadVarint(b, view, bits))
<1> DEFINE taken == TakenOf(view, bits)
           r == Read(b, taken)
           s == ReadVarint(b, view, bits)
<1>1. CASE view = <<>>
  <2>1. s.b = b /\ s.cells = <<>>
    BY <1>1 DEF ReadVarint
  <2>2. MovedTo(b, s.b, b.m_position + 0) /\ s.cells = Slice(b, b.m_position, 0)
    BY <2>1, StaysPut
  <2>3. 0 \in 0 .. getReadSize(b)
    BY ReadSizeType
  <2> HIDE DEF s
  <2> QED BY <2>2, <2>3 DEF ReadOut, s
<1>2. CASE view # <<>>
  <2>1. taken \in Nat
    BY TakenType
  <2>2. ReadOut(b, r)
    <3> HIDE DEF taken
    <3> QED BY <2>1, ReadOutOf
  <2>3. s.b = r.b /\ s.cells = r.cells
    <3>1. \E ok : s = [r EXCEPT !.ok = ok]
      BY <1>2 DEF ReadVarint
    <3>2. r = [b |-> r.b, cells |-> r.cells, ok |-> r.ok]
      BY DEF Read
    <3> HIDE DEF s, r
    <3> QED BY <3>1, <3>2
  <2> HIDE DEF r, s
  <2> QED BY <2>2, <2>3 DEF ReadOut, s
<1> QED BY <1>1, <1>2

LEMMA ReadVintDone ==
    ASSUME ArrayInv, NEW kind, ReadVint(kind)
    PROVE  Done
<1> DEFINE bits == IF kind \in {"U32", "I32"} THEN Bits32 ELSE Bits64
<1>1. PICK view \in Resolved(Ahead(ba, Groups(bits))) :
         \E value : Take(kind, value, ReadVarint(ba, view, bits))
  <2> HIDE DEF bits
  <2> QED BY DEF ReadVint, bits
<1>2. Sound(ba)
  BY <1>1, SoundNow DEF Take, Step, Running
<1>3. Groups(bits) \in Nat
  <2>1. bits \in Nat /\ Group \in Nat \ {0} /\ bits + Group - 1 \in Nat
    BY Widths
  <2> HIDE DEF bits
  <2> QED BY <2>1, DivBelow DEF Groups
<1> HIDE DEF bits
<1>4. Ahead(ba, Groups(bits)) \in Seq(Cell)
  BY <1>2, <1>3, AheadType
<1>5. view \in Seq(Byte)
  BY <1>4, ResolvedType
<1>6. ReadOut(ba, ReadVarint(ba, view, bits))
  BY <1>2, <1>5, ReadVarintOf
<1> QED BY <1>1, <1>6, TakeDone

\* A read that returned moved over what it hands out.
ReadMoved(b, r) ==
    \E n \in 0 .. getReadSize(b) :
        MovedTo(b, r.b, b.m_position + n) /\ r.cells = Slice(b, b.m_position, n)

LEMMA ReadReturned ==
    ASSUME NEW b, Sound(b), NEW n \in Nat, Read(b, n).ok
    PROVE  ReadMoved(b, Read(b, n))
<1> DEFINE r == Read(b, n)
<1>1. ReadDone(b, r, n)
  BY ReadStep
<1>2. getReadSize(b) \in Nat /\ r.ok
  BY ReadSizeType
<1> HIDE DEF r
<1>3. /\ n <= getReadSize(b)
      /\ MovedTo(b, r.b, b.m_position + n)
      /\ r.cells = [i \in 1 .. n |-> At(b, b.m_position + i - 1)]
  BY <1>1, <1>2 DEF ReadDone
<1>4. n \in 0 .. getReadSize(b)
  BY <1>2, <1>3
<1>5. r.cells = Slice(b, b.m_position, n)
  BY <1>3 DEF Slice
<1> QED BY <1>3, <1>4, <1>5 DEF ReadMoved, r

LEMMA ReadVarintReturned ==
    ASSUME NEW b, Sound(b), NEW view \in Seq(Byte), NEW bits, ReadVarint(b, view, bits).ok
    PROVE  ReadMoved(b, ReadVarint(b, view, bits))
<1> DEFINE taken == TakenOf(view, bits)
           r == Read(b, taken)
           s == ReadVarint(b, view, bits)
<1>1. view # <<>>
  BY DEF ReadVarint
<1>2. taken \in Nat
  BY TakenType
<1>3. s.b = r.b /\ s.cells = r.cells /\ (s.ok => r.ok)
  <2> DEFINE over == \/ Len(view) = Groups(bits)
                     \/ bits = Bits64 /\ view[taken] < High
  <2>1. s = [r EXCEPT !.ok = r.ok /\ over]
    BY <1>1 DEF ReadVarint
  <2>2. r = [b |-> r.b, cells |-> r.cells, ok |-> r.ok]
    BY DEF Read
  <2> HIDE DEF s, r, over
  <2> QED BY <2>1, <2>2
<1>4. r.ok
  BY <1>3
<1>5. ReadMoved(b, r)
  <2> HIDE DEF taken
  <2> QED BY <1>2, <1>4, ReadReturned
<1> HIDE DEF s, r
<1> QED BY <1>3, <1>5 DEF ReadMoved, s

\* What readString* takes before the string itself.
LengthOf(kind, view) ==
    IF kind = "SVint" THEN ReadVarint(ba, view, Bits64)
    ELSE Read(ba, (IF kind = "SF32" THEN Bits32 ELSE Bits64) \div ByteBits)

\* How many bytes it looks at for the length, the length it finds, the read of the
\* string, and what the call hands out.
LookFor(kind) ==
    IF kind = "SVint" THEN Groups(Bits64)
    ELSE (IF kind = "SF32" THEN Bits32 ELSE Bits64) \div ByteBits

LengthIs(kind, view) ==
    IF kind = "SVint" THEN VarintValue(view, Bits64) ELSE Unfixed(ba.m_endian, view)

StringRead(kind, view) == Read(LengthOf(kind, view).b, LengthIs(kind, view))

StringOut(kind, view) ==
    [StringRead(kind, view) EXCEPT !.cells = LengthOf(kind, view).cells \o StringRead(kind, view).cells]

StringTaken(kind, view) ==
    \/ /\ ~LengthOf(kind, view).ok
       /\ Take(kind, 0, LengthOf(kind, view)) /\ ReadOut(ba, LengthOf(kind, view))
    \/ /\ LengthOf(kind, view).ok
       /\ Take(kind, StringRead(kind, view).cells, StringOut(kind, view))
       /\ ReadOut(ba, StringOut(kind, view))
       /\ StringOut(kind, view).ok = StringRead(kind, view).ok

LEMMA ReadStringTakes ==
    ASSUME ArrayInv, NEW kind \in {"SF32", "SF64", "SVint"}, ReadString(kind)
    PROVE  \E view \in Resolved(Ahead(ba, LookFor(kind))) : StringTaken(kind, view)
<1> DEFINE bits == IF kind = "SF32" THEN Bits32 ELSE Bits64
           n == IF kind = "SVint" THEN Groups(Bits64) ELSE bits \div ByteBits
           len(view) == IF kind = "SVint" THEN VarintValue(view, Bits64) ELSE Unfixed(ba.m_endian, view)
           p(view) == LengthOf(kind, view)
           r(view) == Read(p(view).b, len(view))
           s(view) == [r(view) EXCEPT !.cells = p(view).cells \o r(view).cells]
<1>1. PICK view \in Resolved(Ahead(ba, n)) :
         IF ~p(view).ok THEN Take(kind, 0, p(view)) ELSE Take(kind, r(view).cells, s(view))
  BY DEF ReadString, LengthOf
<1>9. n = LookFor(kind) /\ len(view) = LengthIs(kind, view) /\ r(view) = StringRead(kind, view)
      /\ s(view) = StringOut(kind, view)
  BY DEF LookFor, LengthIs, StringRead, StringOut
<1>2. Sound(ba)
  <2>1. ba.failed = "none"
    BY <1>1 DEF Take, Step
  <2> QED BY <2>1, SoundNow DEF Running
<1>3. n \in Nat
  <2>1. bits \div ByteBits \in Nat
    BY WidthOf
  <2>2. Groups(Bits64) \in Nat
    <3>1. Bits64 \in Nat /\ Group \in Nat \ {0} /\ Bits64 + Group - 1 \in Nat
      BY Widths
    <3> QED BY <3>1, DivBelow DEF Groups
  <2> HIDE DEF bits
  <2> QED BY <2>1, <2>2
<1>4. view \in Seq(Byte)
  <2> HIDE DEF n
  <2>1. Ahead(ba, n) \in Seq(Cell)
    BY <1>2, <1>3, AheadType
  <2> QED BY <2>1, ResolvedType
<1>5. len(view) \in Nat
  <2>1. VarintValue(view, Bits64) \in Nat
    <3>1. SubSeq(view, 1, TakenOf(view, Bits64)) \in Seq(Byte) /\ Bits64 \in Nat
      BY <1>4, TakenType, Widths
    <3> QED BY <3>1, UnvarintType DEF VarintValue
  <2>2. Unfixed(ba.m_endian, view) \in Nat
    BY <1>4, UnfixedType
  <2> QED BY <2>1, <2>2
<1>6. ReadOut(ba, p(view)) /\ (p(view).ok => ReadMoved(ba, p(view)))
  <2>1. CASE kind = "SVint"
    <3>1. p(view) = ReadVarint(ba, view, Bits64)
      BY <2>1 DEF LengthOf
    <3> HIDE DEF p
    <3> QED BY <1>2, <1>4, <3>1, ReadVarintOf, ReadVarintReturned
  <2>2. CASE kind # "SVint"
    <3> DEFINE m == bits \div ByteBits
    <3>1. p(view) = Read(ba, m)
      BY <2>2 DEF LengthOf
    <3>2. m \in Nat
      BY WidthOf
    <3> HIDE DEF p, m
    <3> QED BY <1>2, <3>1, <3>2, ReadOutOf, ReadReturned
  <2> QED BY <2>1, <2>2
<1> HIDE DEF p, len
<1>7. CASE ~p(view).ok
  <2>1. Take(kind, 0, p(view))
    BY <1>1, <1>7
  <2>2. StringTaken(kind, view)
    BY <1>6, <1>7, <2>1 DEF StringTaken, p
  <2> HIDE DEF n
  <2> QED BY <1>9, <2>2
<1>8. CASE p(view).ok
  <2>1. Take(kind, r(view).cells, s(view))
    BY <1>1, <1>8
  <2>2. PICK m \in 0 .. getReadSize(ba) :
           /\ MovedTo(ba, p(view).b, ba.m_position + m)
           /\ p(view).cells = Slice(ba, ba.m_position, m)
    BY <1>6, <1>8 DEF ReadMoved
  <2>3. Sound(p(view).b)
    BY <2>2 DEF MovedTo
  <2>4. ReadOut(p(view).b, r(view))
    BY <1>5, <2>3, ReadOutOf
  <2>5. /\ s(view).b = r(view).b /\ s(view).cells = p(view).cells \o r(view).cells
        /\ s(view).ok = r(view).ok
    <3>1. r(view) = [b |-> r(view).b, cells |-> r(view).cells, ok |-> r(view).ok]
      BY DEF Read
    <3> DEFINE x == r(view)
               y == p(view).cells \o x.cells
    <3>2. s(view) = [x EXCEPT !.cells = y]
      OBVIOUS
    <3> HIDE DEF r, s, x, y
    <3>3. s(view).b = x.b /\ s(view).cells = y /\ s(view).ok = x.ok
      BY <3>1, <3>2 DEF x
    <3> QED BY <3>3 DEF x, y
  <2>6. ReadOut(ba, s(view))
    <3> HIDE DEF r, s
    <3>1. s(view).cells = Slice(ba, ba.m_position, m) \o r(view).cells
      BY <2>2, <2>5
    <3> QED BY <1>2, <2>2, <2>4, <2>5, <3>1, ReadOutTwice
  <2> HIDE DEF r, s
  <2> QED BY <1>8, <1>9, <2>1, <2>5, <2>6 DEF StringTaken, p
<1> HIDE DEF n
<1> QED BY <1>7, <1>8, <1>9

LEMMA ReadStringDone ==
    ASSUME ArrayInv, NEW kind \in {"SF32", "SF64", "SVint"}, ReadString(kind)
    PROVE  Done
<1>1. PICK view \in Resolved(Ahead(ba, LookFor(kind))) : StringTaken(kind, view)
  BY ReadStringTakes
<1> QED BY <1>1, TakeDone DEF StringTaken

LEMMA PeekDone == ASSUME ArrayInv, Peek PROVE Done
<1>1. Sound(ba) /\ op' = "peek" /\ ba' = ba
  BY SoundNow DEF Peek, Step, Running
<1> DEFINE n == getReadSize(ba)
<1>2. n \in Nat
  BY <1>1, ReadSizeType
<1>3. out' = IF n = 0 THEN <<>> ELSE CellsFrom(ba, ba.m_cur, Offset(ba), n)
  BY DEF Peek, ReadAt, Offset
<1>4. out' = Ahead(ba, n)
  BY <1>3 DEF Ahead
<1>5. \E m \in 0 .. n : Ahead(ba, n) = Slice(ba, ba.m_position, m)
  BY <1>1, <1>2, AheadIs
<1> QED BY <1>1, <1>4, <1>5 DEF Done, Outcome

LEMMA WriteToFileDone == ASSUME ArrayInv, WriteToFile PROVE Done /\ file' \in Seq(Cell)
<1>1. Sound(ba) /\ op' = "peek" /\ file \in Seq(Cell) /\ out \in Seq(Cell)
  BY SoundNow DEF WriteToFile, Step, Running, ArrayInv, TypeOK
<1> DEFINE n == getReadSize(ba)
<1>2. n \in Nat
  BY <1>1, ReadSizeType
<1>3. CASE /\ ba' = Gone(ba, "file") /\ file' = file /\ out' = out
           /\ Offset(ba) > 0 /\ n \in 1 .. ba.m_baseSize - 1
  <2>1. Died(ba, Gone(ba, "file"))
    BY <1>1, <1>3, GoneFacts
  <2> QED BY <1>1, <1>3, <2>1 DEF Done, Outcome, Died
<1>4. CASE file' = Ahead(ba, n) /\ out' = file' /\ ba' = ba
  <2>1. PICK m \in 0 .. n : Ahead(ba, n) = Slice(ba, ba.m_position, m)
    BY <1>1, <1>2, AheadIs
  <2>2. Ahead(ba, n) \in Seq(Cell)
    BY <1>1, <1>2, AheadType
  <2> QED BY <1>1, <1>4, <2>1, <2>2 DEF Done, Outcome
<1>5. \/ /\ ba' = Gone(ba, "file") /\ file' = file /\ out' = out
         /\ Offset(ba) > 0 /\ n \in 1 .. ba.m_baseSize - 1
      \/ file' = Ahead(ba, n) /\ out' = file' /\ ba' = ba
  BY DEF WriteToFile, Gone
<1> QED BY <1>3, <1>4, <1>5

\* A moved position, and one that stayed, are positions sought.
LEMMA SoughtDone ==
    ASSUME ArrayInv, Running, op' = "seek", out' = <<>>,
           \/ ba' = ba
           \/ \E p : MovedTo(ba, ba', p)
           \/ Died(ba, ba')
    PROVE  Done
<1>1. Sound(ba)
  BY SoundNow
<1>2. ba.m_position \in Nat /\ ba.m_size \in Nat /\ ba.m_position <= ba.m_size
  BY <1>1, ReadSizeType
<1>3. CASE ba' = ba
  BY <1>1, <1>2, <1>3 DEF Done, Outcome
<1>4. CASE \E p : MovedTo(ba, ba', p)
  BY <1>4 DEF Done, Outcome, MovedTo
<1>5. CASE Died(ba, ba')
  <2>1. out' \in Seq(Cell)
    OBVIOUS
  <2> QED BY <1>5, <2>1 DEF Done, Outcome, Died
<1> QED BY <1>3, <1>4, <1>5

LEMMA SetPosDone == ASSUME ArrayInv, NEW p \in 0 .. MaxSize, SetPos(p) PROVE Done
<1>1. Running /\ Sound(ba) /\ op' = "seek" /\ out' = <<>> /\ ba' = SetPosition(ba, p)
  BY SoundNow DEF SetPos, Step, Running
<1>2. p \in Nat
  BY ByteArrayAssumption
<1>3. \/ ba' = ba
      \/ MovedTo(ba, ba', p)
      \/ Died(ba, ba')
  BY <1>1, <1>2, SetPositionStep
<1> QED BY <1>1, <1>3, SoughtDone

LEMMA SetIsLittleEndianDone ==
    ASSUME ArrayInv, NEW val \in BOOLEAN, SetIsLittleEndian(val)
    PROVE  Done
<1> DEFINE e == IF val THEN "little" ELSE "big"
           d == [ba EXCEPT !.m_endian = e]
<1>1. Sound(ba) /\ op' = "seek" /\ out' = <<>> /\ ba' = d
  BY SoundNow DEF SetIsLittleEndian, Step, Running
<1>2. WellFormed(ba) /\ ba \in Arrays /\ ba.failed = "none"
  BY <1>1 DEF Sound, WellFormed
<1>3. e \in {"little", "big"}
  OBVIOUS
<1> HIDE DEF e
<1>4. /\ d \in Arrays /\ d.nodes = ba.nodes /\ d.m_cur = ba.m_cur
      /\ d.m_capacity = ba.m_capacity /\ d.m_position = ba.m_position /\ d.m_size = ba.m_size
      /\ d.m_baseSize = ba.m_baseSize /\ d.failed = "none"
  BY <1>2, <1>3 DEF Arrays
<1> HIDE DEF d
<1>5. Sound(d)
  <2>1. WellFormed(d)
    BY <1>2, <1>4, Zenon DEF WellFormed
  <2>2. Placed(d)
    BY <1>1, <1>4, Zenon DEF Sound, Placed
  <2>3. Counted(d)
    BY <1>1, <1>4, Zenon DEF Sound, Counted
  <2> QED BY <1>4, <2>1, <2>2, <2>3 DEF Sound
<1>6. ba.m_position \in Nat /\ ba.m_size \in Nat /\ ba.m_position <= ba.m_size
  BY <1>1, ReadSizeType
<1> QED BY <1>1, <1>4, <1>5, <1>6 DEF Done, Outcome

LEMMA ClearDone == ASSUME ArrayInv, Clear PROVE Done
<1> DEFINE first == <<ba.nodes[1]>>
           d == [ba EXCEPT !.m_position = 0, !.m_size = 0, !.m_cur = 1, !.nodes = first]
           base == ba.m_baseSize
           N == Len(ba.nodes)
<1>1. Sound(ba) /\ op' = "clear" /\ out' = <<>> /\ ba' = d
  BY SoundNow DEF Clear, Step, Running
<1>2. /\ WellFormed(ba) /\ ba \in Arrays /\ ba.failed = "none" /\ Counted(ba)
      /\ ba.nodes \in Seq(Blocks)
  BY <1>1 DEF Sound, WellFormed, Arrays, Blocks
<1>3. base \in Nat \ {0} /\ N \in Nat /\ N >= 1 /\ N * base <= ba.m_capacity /\ ba.m_capacity \in Nat
  BY <1>2, ArrayTypes DEF Counted
<1>4. ba.nodes[1] \in [0 .. base - 1 -> Cell] /\ ba.nodes[1] \in Blocks
  <2>1. 1 \in 1 .. N
    BY <1>3
  <2> QED BY <1>2, <2>1 DEF WellFormed
<1>5. first \in Seq(Blocks) /\ Len(first) = 1 /\ first[1] = ba.nodes[1]
  BY <1>4
<1> HIDE DEF first
<1>6. /\ d \in Arrays /\ d.nodes = first /\ d.m_cur = 1
      /\ d.m_capacity = ba.m_capacity /\ d.m_position = 0 /\ d.m_size = 0
      /\ d.m_baseSize = base /\ d.failed = "none"
  <2> HIDE DEF base, N
  <2> QED BY ONLY <1>2, <1>5 DEF Arrays, Blocks, base
<1> HIDE DEF d, base, N
<1>7. Len(d.nodes) = 1 /\ d.nodes[1] = ba.nodes[1] /\ d.m_baseSize = base
  BY <1>5, <1>6, Zenon
<1>8. WellFormed(d)
  <2>1. \A j \in 1 .. Len(d.nodes) : d.nodes[j] \in [0 .. d.m_baseSize - 1 -> Cell]
    <3>1. \A j \in 1 .. Len(d.nodes) : j = 1
      BY ONLY <1>7
    <3> QED BY <1>4, <1>7, <3>1, Zenon
  <2>2. d.m_cur <= Len(d.nodes)
    <3>1. d.m_cur = 1
      BY <1>6
    <3> QED BY ONLY <1>7, <3>1
  <2> QED BY <1>6, <2>1, <2>2, Zenon DEF WellFormed
<1>9. Counted(d)
  <2>1. 1 * base <= ba.m_capacity
    <3>1. base * 1 <= base * N /\ base * 1 = 1 * base /\ base * N = N * base /\ base * N \in Int
      <4> HIDE DEF base, N
      <4> QED BY <1>3, ProductFacts
    <3> HIDE DEF base, N
    <3> QED BY <1>3, <3>1
  <2>2. d.m_capacity = ba.m_capacity
    BY <1>6
  <2> QED BY ONLY <1>7, <2>1, <2>2 DEF Counted
<1>10. Placed(d)
  <2>1. 0 \div base = 0
    <3>1. 0 = base * 0 + 0 /\ 0 \in Int /\ 0 \in 0 .. base - 1
      BY <1>3
    <3> QED BY <1>3, <3>1, DivModUnique, Zenon
  <2>2. d.m_position \div d.m_baseSize + 1 = 1
    BY <1>6, <2>1
  <2>3. 0 <= 1 * base
    BY <1>3
  <2>4. d.m_position = 0 /\ d.m_size = 0 /\ d.m_cur = 1
    BY <1>6
  <2> QED BY ONLY <1>7, <2>2, <2>3, <2>4 DEF Placed
<1>11. Sound(d)
  BY <1>6, <1>8, <1>9, <1>10 DEF Sound
<1> QED BY <1>1, <1>6, <1>11 DEF Done, Outcome

LEMMA StreamReadDone ==
    ASSUME ArrayInv, NEW length \in 1 .. MaxSize, NEW came \in Strings \cup {<<>>},
           StreamRead(length, came)
    PROVE  Done
<1>1. came \in Seq(Cell)
  <2>1. CASE came \in Strings
    BY <2>1, CellsOfBytes, ByteArrayAssumption
  <2>2. CASE came = <<>>
    BY <2>2
  <2> QED BY <2>1, <2>2
<1>2. length \in Nat \ {0}
  BY ByteArrayAssumption
<1>3. /\ Sound(ba) /\ op' = "write" /\ out' = <<>> /\ Len(came) <= length
  BY SoundNow DEF StreamRead, Step, Running
<1>4. ba' = Received(ba, length, came)
  BY DEF StreamRead, Received, FailedWriting
<1>5. ReceiveDone(ba, ba', came)
  BY <1>1, <1>2, <1>3, <1>4, ReceiveStep
<1>6. Len(came) \in Nat /\ <<>> \in Seq(Cell)
  BY <1>1
<1> QED BY <1>3, <1>5, <1>6 DEF ReceiveDone, Done, Outcome, Died

LEMMA StreamWriteDone ==
    ASSUME ArrayInv, NEW length \in 1 .. MaxSize, NEW sent \in 0 .. MaxSize,
           StreamWrite(length, sent)
    PROVE  Done
<1> DEFINE pos == ba.m_position
           n == getReadSize(ba)
<1>1. length \in Nat /\ sent \in Nat
  BY ByteArrayAssumption
<1>2. /\ Sound(ba) /\ op' = "read" /\ sent <= Len(Ahead(ba, length)) /\ out' = Ahead(ba, sent)
      /\ ba' = IF sent > 0 THEN SetPosition(ba, pos + sent) ELSE ba
  BY SoundNow DEF StreamWrite, Step, Running
<1>3. /\ n \in Nat /\ pos \in Nat /\ Room(ba) \in Nat /\ pos + n = ba.m_size
      /\ ba.m_size <= Room(ba) /\ ba.m_size \in Nat /\ Room(ba) <= ba.m_capacity
      /\ ba.m_capacity \in Nat
  BY <1>2, ReadSizeType
<1>4. Ahead(ba, length) \in Seq(Cell) /\ Len(Ahead(ba, length)) <= n
  BY <1>1, <1>2, AheadType
<1>5. sent \in 0 .. n
  BY <1>1, <1>2, <1>3, <1>4
<1>6. out' = Slice(ba, pos, sent)
  <2>1. PICK m \in 0 .. n : /\ m = (IF sent < n THEN sent ELSE n)
                            /\ Ahead(ba, sent) = Slice(ba, pos, m)
    BY <1>1, <1>2, AheadIs
  <2>2. m = sent
    BY <1>3, <1>5, <2>1
  <2> QED BY <1>2, <2>1, <2>2
<1>7. MovedTo(ba, ba', pos + sent)
  <2>1. CASE sent > 0
    <3> DEFINE p == pos + sent
    <3>1. p \in Nat /\ ~(p > ba.m_capacity) /\ ~(p > Room(ba)) /\ p <= Room(ba)
      <4> HIDE DEF pos, n
      <4> QED BY <1>3, <1>5
    <3>2. ba' = SetPosition(ba, p)
      BY <1>2, <2>1
    <3>3. SetPosition(ba, p) = IF p > ba.m_capacity THEN ba ELSE IF p > Room(ba) THEN Gone(ba, "seek") ELSE Moved(ba, p)
      BY DEF SetPosition, Room, Gone, Moved, CurAt
    <3> HIDE DEF p
    <3>4. ba' = Moved(ba, p)
      BY <3>1, <3>2, <3>3
    <3>5. MovedTo(ba, ba', p)
      BY <1>2, <3>1, <3>4, MovedFacts
    <3> QED BY <3>5 DEF p
  <2>2. CASE sent = 0
    <3>1. ba' = ba
      BY <1>2, <2>2
    <3> QED BY <1>2, <2>2, <3>1, StaysPut
  <2> QED BY <1>1, <2>1, <2>2
<1> QED BY <1>2, <1>5, <1>6, <1>7 DEF Done, Outcome

LEMMA NextDone == ASSUME ArrayInv, Next PROVE Done
<1>1. CASE \E kind \in {"F8", "F32", "F64", "U32", "I32", "U64", "I64"}, v \in Ints : WriteInteger(kind, v)
  BY <1>1, WriteIntegerDone DEF IntegerKinds
<1>2. CASE \E kind \in {"SF32", "SF64", "SVint", "S"}, s \in Strings : WriteString(kind, s)
  BY <1>2, WriteStringDone DEF StringKinds
<1>3. CASE \E s \in Strings : WriteStringF16(s)
  BY <1>3, WriteStringDone
<1>4. CASE \E kind \in {"F8", "F32", "F64"} : ReadFixed(kind)
  BY <1>4, ReadFixedDone
<1>5. CASE \E kind \in {"U32", "I32", "U64", "I64"} : ReadVint(kind)
  BY <1>5, ReadVintDone
<1>6. CASE \E kind \in {"SF32", "SF64", "SVint"} : ReadString(kind)
  BY <1>6, ReadStringDone
<1>7. CASE Peek \/ WriteToFile \/ ReadFromFile
  BY <1>7, PeekDone, WriteToFileDone, ReadFromFileDone
<1>8. CASE \E p \in 0 .. MaxSize : SetPos(p)
  BY <1>8, SetPosDone
<1>9. CASE Clear
  BY <1>9, ClearDone
<1>10. CASE \E val \in BOOLEAN : SetIsLittleEndian(val)
  BY <1>10, SetIsLittleEndianDone
<1>11. CASE \E length \in 1 .. MaxSize, came \in Strings \cup {<<>>} : StreamRead(length, came)
  BY <1>11, StreamReadDone
<1>12. CASE \E length \in 1 .. MaxSize, sent \in 0 .. MaxSize : StreamWrite(length, sent)
  BY <1>12, StreamWriteDone
<1> QED BY <1>1, <1>2, <1>3, <1>4, <1>5, <1>6, <1>7, <1>8, <1>9, <1>10, <1>11, <1>12 DEF Next

-----------------------------------------------------------------------------
(* The invariant                                                             *)

\* What every outcome leaves of a sound array.
LEMMA OutcomeInv ==
    ASSUME NEW b, Sound(b), NEW d, NEW o, NEW k, Outcome(b, d, o, k)
    PROVE  /\ WellFormed(d) /\ FailedWell(d)
           /\ d.failed = "none" => Placed(d) /\ Counted(d)
           /\ o \in Seq(Cell)
           /\ k \in {"write", "read", "peek", "seek", "clear"}
<1>1. ASSUME Sound(d)
      PROVE  /\ WellFormed(d) /\ FailedWell(d)
             /\ d.failed = "none" => Placed(d) /\ Counted(d)
  BY <1>1 DEF Sound, FailedWell
<1>2. <<>> \in Seq(Cell)
  OBVIOUS
<1>3. ASSUME NEW n \in 0 .. getReadSize(b) PROVE Slice(b, b.m_position, n) \in Seq(Cell)
  <2> DEFINE pos == b.m_position
  <2>1. /\ pos \in Nat /\ getReadSize(b) \in Nat /\ Room(b) \in Nat
        /\ pos + getReadSize(b) = b.m_size /\ b.m_size <= Room(b) /\ b.m_size \in Nat
    BY ReadSizeType
  <2> HIDE DEF pos
  <2>2. n \in Nat /\ pos + n <= Room(b)
    BY <2>1
  <2>3. WellFormed(b)
    BY DEF Sound
  <2>4. Slice(b, pos, n) \in Seq(Cell)
    BY <2>1, <2>2, <2>3, SliceType
  <2> QED BY <2>4 DEF pos
<1>4. CASE k = "write" /\ o = <<>> /\ \E n \in Nat : Stored(b, d, n)
  <2>1. Sound(d)
    BY <1>4 DEF Stored
  <2> QED BY <1>1, <1>2, <1>4, <2>1
<1>5. CASE /\ k = "read"
           /\ \E n \in 0 .. getReadSize(b) :
                MovedTo(b, d, b.m_position + n) /\ o = Slice(b, b.m_position, n)
  <2>1. Sound(d)
    BY <1>5 DEF MovedTo
  <2> QED BY <1>1, <1>3, <1>5, <2>1
<1>6. CASE /\ k = "peek" /\ d = b
           /\ \E n \in 0 .. getReadSize(b) : o = Slice(b, b.m_position, n)
  BY <1>1, <1>3, <1>6
<1>7. CASE k = "seek" /\ o = <<>> /\ Sound(d)
  BY <1>1, <1>2, <1>7
<1>8. CASE k = "clear" /\ o = <<>> /\ Sound(d)
  BY <1>1, <1>2, <1>8
<1>9. CASE /\ k \in {"write", "read", "peek", "seek", "clear"} /\ o \in Seq(Cell)
           /\ WellFormed(d) /\ d.failed # "none" /\ FailedWell(d)
  BY <1>9
<1> QED BY <1>4, <1>5, <1>6, <1>7, <1>8, <1>9 DEF Outcome

\* What the calls leave of the other variables.
LEMMA NextTypes ==
    ASSUME ArrayInv, Next
    PROVE  /\ file' \in Seq(Cell) /\ wrote'.kind \in Kinds /\ got'.kind \in Kinds
           /\ ops' \in 0 .. MaxOps /\ Running
<1>1. /\ file \in Seq(Cell) /\ wrote.kind \in Kinds /\ got.kind \in Kinds
      /\ ops \in 0 .. MaxOps /\ MaxOps \in Nat
  BY ByteArrayAssumption DEF ArrayInv, TypeOK
<1>2. ASSUME NEW k, Step(k) PROVE ops' \in 0 .. MaxOps /\ Running
  BY <1>1, <1>2 DEF Step, Running
<1>3. Nothing.kind \in Kinds
  BY DEF Nothing, Kinds
<1>4. ASSUME NEW kind \in Kinds, NEW value, NEW pieces, WriteAll(kind, value, pieces)
      PROVE  /\ file' \in Seq(Cell) /\ wrote'.kind \in Kinds /\ got'.kind \in Kinds
             /\ ops' \in 0 .. MaxOps /\ Running
  BY <1>1, <1>2, <1>3, <1>4 DEF WriteAll
<1>5. ASSUME NEW kind \in Kinds, NEW value, NEW r, Take(kind, value, r)
      PROVE  /\ file' \in Seq(Cell) /\ wrote'.kind \in Kinds /\ got'.kind \in Kinds
             /\ ops' \in 0 .. MaxOps /\ Running
  BY <1>1, <1>2, <1>3, <1>5 DEF Take
<1>6. CASE \E kind \in {"F8", "F32", "F64", "U32", "I32", "U64", "I64"}, v \in Ints : WriteInteger(kind, v)
  BY <1>4, <1>6 DEF WriteInteger, Kinds
<1>7. CASE \E kind \in {"SF32", "SF64", "SVint", "S"}, s \in Strings : WriteString(kind, s)
  BY <1>4, <1>7 DEF WriteString, Kinds
<1>8. CASE \E s \in Strings : WriteStringF16(s)
  BY <1>4, <1>8 DEF WriteStringF16, Kinds
<1>9. CASE \E kind \in {"F8", "F32", "F64"} : ReadFixed(kind)
  BY <1>5, <1>9 DEF ReadFixed, Kinds
<1>10. CASE \E kind \in {"U32", "I32", "U64", "I64"} : ReadVint(kind)
  BY <1>5, <1>10 DEF ReadVint, Kinds
<1>11. CASE \E kind \in {"SF32", "SF64", "SVint"} : ReadString(kind)
  <2>1. PICK kind \in {"SF32", "SF64", "SVint"} : ReadString(kind)
    BY <1>11
  <2>2. \E value, r : Take(kind, value, r)
    BY <2>1 DEF ReadString
  <2>3. kind \in Kinds
    BY DEF Kinds
  <2> QED BY <1>5, <2>2, <2>3
<1>12. CASE Peek
  BY <1>1, <1>2, <1>12 DEF Peek
<1>13. CASE WriteToFile
  BY <1>1, <1>2, <1>13, WriteToFileDone DEF WriteToFile
<1>14. CASE ReadFromFile
  BY <1>4, <1>14 DEF ReadFromFile, Kinds
<1>15. CASE \E p \in 0 .. MaxSize : SetPos(p)
  BY <1>1, <1>2, <1>3, <1>15 DEF SetPos
<1>16. CASE Clear
  BY <1>1, <1>2, <1>3, <1>16 DEF Clear
<1>17. CASE \E val \in BOOLEAN : SetIsLittleEndian(val)
  BY <1>1, <1>2, <1>3, <1>17 DEF SetIsLittleEndian
<1>18. CASE \E length \in 1 .. MaxSize, came \in Strings \cup {<<>>} : StreamRead(length, came)
  <2>1. PICK length, came : StreamRead(length, came)
    BY <1>18
  <2>2. Step("write") /\ wrote'.kind = "stream" /\ got' = Nothing /\ file' = file
    BY <2>1 DEF StreamRead
  <2> QED BY <1>1, <1>2, <1>3, <2>2 DEF Kinds
<1>19. CASE \E length \in 1 .. MaxSize, sent \in 0 .. MaxSize : StreamWrite(length, sent)
  BY <1>1, <1>2, <1>3, <1>19 DEF StreamWrite
<1> QED BY <1>6, <1>7, <1>8, <1>9, <1>10, <1>11, <1>12, <1>13, <1>14, <1>15, <1>16, <1>17, <1>18, <1>19
        DEF Next

\* A new array is sound.
LEMMA NewSound == ASSUME NEW base \in Bases PROVE Sound(New(base))
<1> DEFINE b == New(base)
<1>1. base \in Nat \ {0}
  BY ByteArrayAssumption
<1>2. NewNode(base) \in [0 .. base - 1 -> Cell]
  BY NewNodeType
<1>3. /\ b.m_baseSize = base /\ b.m_position = 0 /\ b.m_capacity = base /\ b.m_size = 0
      /\ b.m_endian = "big" /\ b.nodes = <<NewNode(base)>> /\ b.m_cur = 1
      /\ b.failed = "none" /\ b.asked = 0
  BY DEF New
<1>4. b \in Arrays
  <2> DEFINE node == NewNode(base)
  <2>1. node \in Blocks
    BY <1>2 DEF Blocks
  <2> HIDE DEF node
  <2>2. <<node>> \in Seq(Blocks)
    BY <2>1
  <2> DEFINE nodes == <<node>>
  <2> HIDE DEF nodes
  <2>3. b = [m_baseSize |-> base, m_position |-> 0, m_capacity |-> base, m_size |-> 0,
             m_endian |-> "big", nodes |-> nodes, m_cur |-> 1, failed |-> "none", asked |-> 0]
    BY DEF New, nodes, node
  <2> QED BY <1>1, <2>2, <2>3 DEF Arrays, Blocks, nodes
<1> HIDE DEF b
<1>5. Len(b.nodes) = 1 /\ b.nodes[1] = NewNode(base)
  <2> DEFINE node == NewNode(base)
  <2>1. b.nodes = <<node>>
    BY <1>3
  <2> HIDE DEF node
  <2>2. Len(b.nodes) = 1 /\ b.nodes[1] = node
    BY <2>1
  <2> QED BY <2>2 DEF node
<1>6. WellFormed(b)
  <2>1. \A j \in 1 .. Len(b.nodes) : j = 1
    BY <1>5
  <2>2. \A j \in 1 .. Len(b.nodes) : b.nodes[j] \in [0 .. b.m_baseSize - 1 -> Cell]
    BY <1>2, <1>3, <1>5, <2>1, Zenon
  <2>3. b.m_cur <= Len(b.nodes)
    BY <1>3, <1>5
  <2> QED BY <1>4, <2>2, <2>3 DEF WellFormed
<1>7. Counted(b)
  BY <1>1, <1>3, <1>5 DEF Counted
<1>8. Placed(b)
  <2>1. 0 \div base = 0
    <3>1. 0 = base * 0 + 0 /\ 0 \in Int /\ 0 \in 0 .. base - 1
      BY <1>1
    <3> QED BY <1>1, <3>1, DivModUnique, Zenon
  <2>2. b.m_position \div b.m_baseSize + 1 = 1
    BY <1>3, <2>1
  <2>3. 0 <= 1 * base
    BY <1>1
  <2> QED BY <1>3, <1>5, <2>2, <2>3 DEF Placed
<1> QED BY <1>3, <1>6, <1>7, <1>8 DEF Sound, b

LEMMA ArrayInvInit == ASSUME Init PROVE ArrayInv
<1>1. Sound(ba)
  BY NewSound DEF Init
<1>2. /\ file \in Seq(Cell) /\ out \in Seq(Cell) /\ op = "new"
      /\ wrote.kind \in Kinds /\ got.kind \in Kinds /\ ops \in 0 .. MaxOps
  BY ByteArrayAssumption DEF Init, Nothing, Kinds
<1> QED BY <1>1, <1>2 DEF ArrayInv, TypeOK, Sound, FailedWell

LEMMA ArrayInvariant == Spec => []ArrayInv
<1>1. Init => ArrayInv
  BY ArrayInvInit
<1>2. ArrayInv /\ [Next]_vars => ArrayInv'
  <2> SUFFICES ASSUME ArrayInv, [Next]_vars PROVE ArrayInv'
    OBVIOUS
  <2>1. CASE Next
    <3>1. Done /\ Running
      BY <2>1, NextDone, NextTypes
    <3>2. Sound(ba)
      BY <3>1, SoundNow
    <3>3. /\ WellFormed(ba') /\ FailedWell(ba')
          /\ ba'.failed = "none" => Placed(ba') /\ Counted(ba')
          /\ out' \in Seq(Cell)
          /\ op' \in {"write", "read", "peek", "seek", "clear"}
      BY <3>1, <3>2, OutcomeInv DEF Done
    <3>4. /\ file' \in Seq(Cell) /\ wrote'.kind \in Kinds /\ got'.kind \in Kinds
          /\ ops' \in 0 .. MaxOps
      BY <2>1, NextTypes
    <3> QED BY <3>3, <3>4 DEF ArrayInv, TypeOK, Running
  <2>2. CASE UNCHANGED vars
    BY <2>2 DEF vars, ArrayInv, TypeOK, Running
  <2> QED BY <2>1, <2>2
<1> QED BY <1>1, <1>2, PTL DEF Spec

\* Whatever is written, read, sought and cleared, every block stays of m_baseSize cells,
\* m_cur in the list or null, and the sizes natural numbers.
THEOREM TypeCorrect == Spec => []TypeOK
<1>1. ArrayInv => TypeOK
  BY DEF ArrayInv
<1> QED BY <1>1, ArrayInvariant, PTL

\* While the process runs, m_cur is the block of m_position and the blocks hold m_size
\* bytes, for all block sizes and histories of any length (bytearray.cpp:384-578).
THEOREM CursorIsPosition == Spec => []CurIsPosition
<1>1. ArrayInv => CurIsPosition
  BY DEF ArrayInv, CurIsPosition
<1> QED BY <1>1, ArrayInvariant, PTL

\* A write, a receive, a read, setPosition and writeToFile run off the list of blocks in
\* four situations only: after a clear() that dropped blocks, when a remainder of the
\* growth got no block, when nothing is read at the end of the last block, and when a
\* file is written from inside a block with less than a block left
\* (bytearray.cpp:370-578).
THEOREM FailsInFourWays == Spec => []FailsOnly
<1>1. ArrayInv => FailsOnly
  BY DEF ArrayInv, FailsOnly
<1> QED BY <1>1, ArrayInvariant, PTL

-----------------------------------------------------------------------------
(* One array of bytes                                                        *)

\* The bytes of the array, up to its size.
Bytes(b) == Slice(b, 0, b.m_size)

LEMMA BytesType ==
    ASSUME NEW b, Sound(b)
    PROVE  /\ Bytes(b) \in Seq(Cell) /\ Len(Bytes(b)) = b.m_size
           /\ \A i \in 1 .. b.m_size : Bytes(b)[i] = At(b, i - 1)
<1>1. WellFormed(b) /\ b.m_size \in Nat /\ 0 + b.m_size <= Room(b)
  BY ReadSizeType DEF Sound
<1>2. Slice(b, 0, b.m_size) \in Seq(Cell) /\ Len(Slice(b, 0, b.m_size)) = b.m_size
  BY <1>1, SliceType
<1>3. \A i \in 1 .. b.m_size : 0 + i - 1 = i - 1
  BY <1>1
<1>4. \A i \in 1 .. b.m_size : Slice(b, 0, b.m_size)[i] = At(b, 0 + i - 1)
  BY DEF Slice
<1> QED BY <1>2, <1>3, <1>4 DEF Bytes

LEMMA BytesSlice ==
    ASSUME NEW b, Sound(b), NEW p \in Nat, NEW n \in Nat, p + n <= b.m_size
    PROVE  Slice(b, p, n) = SubSeq(Bytes(b), p + 1, p + n) /\ Len(Slice(b, p, n)) = n
<1> DEFINE s == Bytes(b)
           t == Slice(b, p, n)
           u == SubSeq(s, p + 1, p + n)
<1>1. /\ WellFormed(b) /\ b.m_size \in Nat /\ b.m_size <= Room(b) /\ Room(b) \in Nat
  BY ReadSizeType DEF Sound
<1>2. /\ s \in Seq(Cell) /\ Len(s) = b.m_size
      /\ \A i \in 1 .. b.m_size : s[i] = At(b, i - 1)
  BY BytesType
<1>3. t \in Seq(Cell) /\ Len(t) = n /\ \A i \in 1 .. n : t[i] = At(b, p + i - 1)
  <2>1. p + n <= Room(b)
    BY <1>1
  <2>2. t \in Seq(Cell) /\ Len(t) = n
    BY <1>1, <2>1, SliceType
  <2> QED BY <2>2 DEF Slice
<1> HIDE DEF s, t
<1>4. \A i \in p + 1 .. p + n : s[i] \in Cell
  BY <1>1, <1>2
<1>5. p + 1 \in Int /\ p + n \in Int
  OBVIOUS
<1>6. /\ u \in Seq(Cell)
      /\ Len(u) = IF p + 1 <= p + n THEN p + n - (p + 1) + 1 ELSE 0
      /\ \A i \in 1 .. p + n - (p + 1) + 1 : u[i] = s[p + 1 + i - 1]
  BY <1>4, <1>5, SubSeqProperties
<1>7. Len(u) = n /\ p + n - (p + 1) + 1 = n
  BY <1>6
<1> HIDE DEF u
<1>8. ASSUME NEW i \in 1 .. n PROVE u[i] = t[i]
  <2>1. /\ p + 1 + i - 1 = p + i /\ p + i \in 1 .. b.m_size /\ (p + i) - 1 = p + i - 1
    BY <1>1
  <2> QED BY <1>2, <1>3, <1>6, <1>7, <2>1
<1>9. u = t
  BY <1>3, <1>6, <1>7, <1>8, SeqEqual
<1> QED BY <1>3, <1>9 DEF s, t, u

\* The array's bytes, before and after a step.
LEMMA ContentIs ==
    /\ Sound(ba) => (IF Running THEN CellsFrom(ba, 1, 0, ba.m_size) ELSE <<>>) = Bytes(ba)
    /\ Sound(ba') => (IF Running THEN CellsFrom(ba, 1, 0, ba.m_size) ELSE <<>>)' = Bytes(ba')
BY DEF Running, Sound, CellsFrom, Bytes, Slice, At

LEMMA FlatStep == ASSUME ArrayInv, Next PROVE Flat!Next
<1> DEFINE c == Bytes(ba)
           d == Bytes(ba')
           pos == ba.m_position
           new == ba'.m_position
           con == IF Running THEN CellsFrom(ba, 1, 0, ba.m_size) ELSE <<>>
           con2 == IF ba'.failed = "none" THEN CellsFrom(ba', 1, 0, ba'.m_size) ELSE <<>>
<1>1. Done /\ Running /\ Sound(ba)
  BY NextDone, NextTypes, SoundNow
<1>2. con = c /\ c \in Seq(Cell) /\ Len(c) = ba.m_size /\ \A i \in 1 .. ba.m_size : c[i] = At(ba, i - 1)
  BY <1>1, ContentIs, BytesType
<1>3. /\ ba.m_size \in Nat /\ pos \in Nat /\ getReadSize(ba) \in Nat
      /\ pos + getReadSize(ba) = ba.m_size /\ Room(ba) \in Nat /\ ba.m_size <= Room(ba)
  BY <1>1, ReadSizeType
<1>4. ASSUME Sound(ba')
      PROVE  /\ con2 = d /\ d \in Seq(Cell) /\ Len(d) = ba'.m_size
             /\ \A i \in 1 .. ba'.m_size : d[i] = At(ba', i - 1)
             /\ ba'.failed = "none" /\ ba'.m_size \in Nat /\ new \in Nat
  <2>1. con2 = d
    BY <1>4, ContentIs DEF Running
  <2>2. ba'.m_size \in Nat /\ new \in Nat
    BY <1>4, ReadSizeType
  <2> HIDE DEF con2
  <2> QED BY <1>4, <2>1, <2>2, BytesType DEF Sound
<1>5. CASE op' = "write" /\ out' = <<>> /\ \E n \in Nat : Stored(ba, ba', n)
  <2>1. PICK n \in Nat : Stored(ba, ba', n)
    BY <1>5
  <2>2. /\ Sound(ba') /\ new = pos + n
        /\ ba'.m_size = IF new > ba.m_size THEN new ELSE ba.m_size
        /\ \A a \in Nat : a < Room(ba) /\ a \notin pos .. pos + n - 1 => At(ba', a) = At(ba, a)
    BY <2>1 DEF Stored
  <2>3. new >= pos /\ Len(d) = Flat!Larger(Len(c), new)
    <3> HIDE DEF pos, new, c, d
    <3> QED BY <1>2, <1>3, <1>4, <2>2 DEF Flat!Larger
  <2>4. ASSUME NEW i \in 1 .. Len(c), i <= pos \/ i > new PROVE d[i] = c[i]
    <3> HIDE DEF pos, new, c, d, con2, con
    <3>1. /\ i - 1 \in Nat /\ i - 1 < Room(ba) /\ i - 1 \notin pos .. pos + n - 1
          /\ i \in 1 .. ba.m_size /\ i \in 1 .. ba'.m_size
      BY <1>2, <1>3, <1>4, <2>2, <2>4
    <3> QED BY <1>2, <1>4, <2>2, <3>1
  <2>5. Flat!Write
    <3>1. con = c /\ con2 = d
      BY <1>2, <1>4, <2>2
    <3> HIDE DEF c, d
    <3> QED BY <1>5, <2>3, <2>4, <3>1 DEF Flat!Write, Running
  <2>6. (~Running)' = (~Running)
    BY <1>1, <1>4, <2>2 DEF Running
  <2> QED BY <1>1, <2>5, <2>6 DEF Flat!Next
<1>6. CASE /\ op' = "read"
           /\ \E n \in 0 .. getReadSize(ba) :
                MovedTo(ba, ba', ba.m_position + n) /\ out' = Slice(ba, ba.m_position, n)
  <2>1. PICK n \in 0 .. getReadSize(ba) : MovedTo(ba, ba', pos + n) /\ out' = Slice(ba, pos, n)
    BY <1>6
  <2>2. /\ Sound(ba') /\ new = pos + n /\ ba'.nodes = ba.nodes /\ ba'.m_baseSize = ba.m_baseSize
        /\ ba'.m_size = IF new > ba.m_size THEN new ELSE ba.m_size
    BY <2>1 DEF MovedTo
  <2>3. n \in Nat /\ pos + n <= ba.m_size /\ ba'.m_size = ba.m_size
    <3> HIDE DEF pos, new
    <3> QED BY <1>3, <2>2
  <2>4. d = c
    BY <2>2, <2>3 DEF Bytes, Slice, At
  <2>5. out' = SubSeq(c, pos + 1, new)
    <3>1. Slice(ba, pos, n) = SubSeq(c, pos + 1, pos + n)
      <4> HIDE DEF pos
      <4> QED BY <1>1, <1>3, <2>3, BytesSlice
    <3> QED BY <2>1, <2>2, <3>1
  <2>6. Flat!Read
    <3>1. con = c /\ con2 = d
      BY <1>2, <1>4, <2>2
    <3>2. new \in pos .. Len(c)
      <4> HIDE DEF pos, new, c
      <4> QED BY <1>2, <1>3, <2>2, <2>3
    <3> HIDE DEF c, d
    <3> QED BY <1>6, <2>4, <2>5, <3>1, <3>2 DEF Flat!Read, Running
  <2>7. (~Running)' = (~Running)
    BY <1>1, <1>4, <2>2 DEF Running
  <2> QED BY <1>1, <2>6, <2>7 DEF Flat!Next
<1>7. CASE /\ op' = "peek" /\ ba' = ba
           /\ \E n \in 0 .. getReadSize(ba) : out' = Slice(ba, ba.m_position, n)
  <2>1. PICK n \in 0 .. getReadSize(ba) : out' = Slice(ba, pos, n)
    BY <1>7
  <2>2. n \in Nat /\ pos + n <= ba.m_size
    <3> HIDE DEF pos
    <3> QED BY <1>3
  <2>3. out' = SubSeq(c, pos + 1, pos + n) /\ Len(out') = n
    <3>1. Slice(ba, pos, n) = SubSeq(c, pos + 1, pos + n) /\ Len(Slice(ba, pos, n)) = n
      <4> HIDE DEF pos
      <4> QED BY <1>1, <1>3, <2>2, BytesSlice
    <3> QED BY <2>1, <3>1
  <2>4. Flat!Peek
    <3>1. con = c
      BY <1>2
    <3>2. con2 = con /\ new = pos
      BY <1>7 DEF Running
    <3>3. Len(out') <= Len(c) - pos
      <4> HIDE DEF pos, c
      <4> QED BY <1>2, <1>3, <2>2, <2>3
    <3> HIDE DEF c
    <3> QED BY <1>7, <2>3, <3>1, <3>2, <3>3 DEF Flat!Peek, Running
  <2>5. (~Running)' = (~Running)
    BY <1>7 DEF Running
  <2> QED BY <1>1, <2>4, <2>5 DEF Flat!Next
<1>8. CASE /\ op' = "seek" /\ out' = <<>>
           /\ Sound(ba') /\ ba'.nodes = ba.nodes /\ ba'.m_baseSize = ba.m_baseSize
           /\ ba'.m_size = IF ba'.m_position > ba.m_size THEN ba'.m_position ELSE ba.m_size
  <2>1. Len(d) = Flat!Larger(Len(c), new)
    <3> HIDE DEF c, d
    <3> QED BY <1>2, <1>4, <1>8 DEF Flat!Larger
  <2>2. ASSUME NEW i \in 1 .. Len(c) PROVE d[i] = c[i]
    <3>1. At(ba', i - 1) = At(ba, i - 1)
      BY <1>8 DEF At
    <3>2. i \in 1 .. ba.m_size /\ i \in 1 .. ba'.m_size
      <4> HIDE DEF c, d, con, con2
      <4> QED BY <1>2, <1>3, <1>4, <1>8, <2>2
    <3> HIDE DEF c, d, con, con2
    <3> QED BY <1>2, <1>4, <1>8, <3>1, <3>2
  <2>3. Flat!Seek
    <3>1. con = c /\ con2 = d
      BY <1>2, <1>4, <1>8
    <3> HIDE DEF c, d
    <3> QED BY <1>8, <2>1, <2>2, <3>1 DEF Flat!Seek, Running
  <2>4. (~Running)' = (~Running)
    BY <1>1, <1>4, <1>8 DEF Running
  <2> QED BY <1>1, <2>3, <2>4 DEF Flat!Next
<1>9. CASE op' = "clear" /\ out' = <<>> /\ Sound(ba') /\ ba'.m_position = 0 /\ ba'.m_size = 0
  <2>1. d = <<>>
    BY <1>9 DEF Bytes, Slice
  <2>2. Flat!Clear
    <3>1. con2 = d
      BY <1>4, <1>9
    <3> HIDE DEF d
    <3> QED BY <1>9, <2>1, <3>1 DEF Flat!Clear, Running
  <2>3. (~Running)' = (~Running)
    BY <1>1, <1>4, <1>9 DEF Running
  <2> QED BY <1>1, <2>2, <2>3 DEF Flat!Next
<1>10. CASE ba'.failed # "none"
  <2>1. (~Running)'
    BY <1>10 DEF Running
  <2> QED BY <1>1, <2>1 DEF Flat!Next
<1> QED BY <1>1, <1>5, <1>6, <1>7, <1>8, <1>9, <1>10 DEF Done, Outcome

\* Through its blocks, a ByteArray behaves like one array of bytes with a position: every
\* step of it is a step of FlatArray, however the bytes are spread over the blocks
\* (bytearray.cpp:384-480, 504-545, 580-704).
THEOREM ImplementsFlatArray == Spec => FlatSpec
<1>1. Init => Flat!Init
  <2> SUFFICES ASSUME Init PROVE Flat!Init
    OBVIOUS
  <2>1. PICK base \in Bases : ba = New(base)
    BY DEF Init
  <2>2. ba.m_size = 0 /\ ba.m_position = 0 /\ ba.failed = "none"
    BY <2>1 DEF New
  <2>3. (IF Running THEN CellsFrom(ba, 1, 0, ba.m_size) ELSE <<>>) = <<>>
    BY <2>2 DEF CellsFrom
  <2> QED BY <2>2, <2>3 DEF Init, Flat!Init, Running
<1>2. ArrayInv /\ [Next]_vars => [Flat!Next]_(Flat!vars)
  <2> SUFFICES ASSUME ArrayInv, [Next]_vars PROVE [Flat!Next]_(Flat!vars)
    OBVIOUS
  <2>1. CASE Next
    BY <2>1, FlatStep
  <2>2. CASE UNCHANGED vars
    BY <2>2 DEF vars, Flat!vars, Running
  <2> QED BY <2>1, <2>2
<1> QED BY <1>1, <1>2, ArrayInvariant, PTL DEF Spec, FlatSpec, Flat!Spec

-----------------------------------------------------------------------------
(* Files and receives                                                        *)

\* The first n cells of s are in d from p on.
Holds(d, p, s, n) == \A j \in 0 .. n - 1 : At(d, p + j) = s[j + 1]

LEMMA OffsetBlocks ==
    ASSUME NEW a \in Nat, NEW base \in Nat \ {0}, a % base = 0, NEW k \in Nat
    PROVE  (a + k * base) % base = 0
<1> DEFINE q == a \div base
<1>1. a \in Int
  OBVIOUS
<1>2. q \in Int /\ a = base * q + (a % base)
  BY <1>1, DivMod, Zenon
<1> HIDE DEF q
<1>3. base * q \in Int /\ base * k \in Int /\ k * base = base * k /\ base * (q + k) = base * q + base * k
  BY <1>2, ProductFacts
<1> DEFINE x == a + k * base
<1>4. x = base * (q + k) + 0
  BY <1>2, <1>3
<1>5. x \in Int /\ q + k \in Int /\ 0 \in 0 .. base - 1
  BY <1>2, <1>3
<1> HIDE DEF x
<1>6. x % base = 0
  BY <1>4, <1>5, DivModUnique, Zenon
<1> QED BY <1>6 DEF x

\* One more piece of the file.
LEMMA NextPiece ==
    ASSUME NEW b, Sound(b), Offset(b) = 0, NEW s \in Seq(Cell),
           NEW k \in Nat, k + 1 <= Len(Pieces(s, b.m_baseSize)),
           NEW c, Stored(b, c, k * b.m_baseSize), Holds(c, b.m_position, s, k * b.m_baseSize),
           NEW d, d = Write(c, Pieces(s, b.m_baseSize)[k + 1])
    PROVE  \/ /\ Stored(b, d, Ends(s, b.m_baseSize, k + 1))
              /\ Holds(d, b.m_position, s, Ends(s, b.m_baseSize, k + 1))
           \/ Died(b, d)
<1> DEFINE base == b.m_baseSize
           pos == b.m_position
           piece == Pieces(s, base)[k + 1]
           m == k * base
           n == Len(piece)
           e == Ends(s, base, k + 1)
<1>1. base \in Nat \ {0} /\ pos \in Nat /\ pos % base = 0
  BY ArrayTypes DEF Sound, Offset
<1>2. /\ k + 1 \in 1 .. Len(Pieces(s, base)) /\ (k + 1) - 1 = k
      /\ Pieces(s, base) \in Seq(Seq(Cell))
  <2>1. Pieces(s, base) \in Seq(Seq(Cell))
    BY <1>1, PiecesType
  <2> HIDE DEF base
  <2> QED BY <2>1 DEF base
<1>3. PieceIs(s, base, m, e, piece)
  <2>1. \A i \in 1 .. Len(Pieces(s, base)) :
           PieceIs(s, base, (i - 1) * base, Ends(s, base, i), Pieces(s, base)[i])
    BY <1>1, PiecesType
  <2>2. PieceIs(s, base, ((k + 1) - 1) * base, Ends(s, base, k + 1), Pieces(s, base)[k + 1])
    <3> HIDE DEF base
    <3> QED BY <1>2, <2>1, Zenon
  <2>3. ((k + 1) - 1) * base = m
    BY <1>2, Zenon
  <2> QED BY <2>2, <2>3, Zenon
<1>4. piece \in Seq(Cell)
  <2> HIDE DEF base
  <2> QED BY <1>2
<1> HIDE DEF base, piece, m, e
<1>11. /\ m \in Nat /\ m < Len(s) /\ e \in m + 1 .. Len(s) /\ e - m <= base /\ n = e - m
       /\ Len(s) \in Nat /\ n \in Nat /\ e \in Nat /\ m + n = e
       /\ \A j \in 1 .. n : piece[j] = s[m + j]
  <2>1. Len(s) \in Nat
    OBVIOUS
  <2>2. m \in Nat /\ e \in m + 1 .. Len(s) /\ n = e - m
    BY <1>3 DEF PieceIs
  <2>3. n \in Nat /\ e \in Nat /\ m + n = e
    <3> HIDE DEF n
    <3> QED BY <2>1, <2>2
  <2> QED BY <1>3, <2>1, <2>3 DEF PieceIs
<1> HIDE DEF n
<1>5. /\ Sound(c) /\ c.m_baseSize = base /\ c.m_endian = b.m_endian /\ c.m_position = pos + m
      /\ Holds(c, pos, s, m) /\ Stored(b, c, m) /\ d = Write(c, piece)
  BY DEF Stored, base, m, piece
<1>6. Offset(c) = 0
  BY <1>1, <1>5, OffsetBlocks DEF Offset, m
<1>7. WriteDone(c, d, piece)
  BY <1>4, <1>5, WriteStep
<1>8. CASE Died(c, d)
  <2>1. Died(b, d)
    BY <1>5, <1>8, StoredDied
  <2> QED BY <2>1
<1>9. CASE /\ Stored(c, d, n)
           /\ \A j \in 0 .. n - 1 : At(d, c.m_position + j) = piece[j + 1]
  <2>1. n \in Nat /\ e \in Nat /\ m + n = e
    BY <1>11
  <2>2. Stored(b, d, e)
    <3>1. Stored(b, d, m + n)
      BY <1>11, <1>5, <1>9, <2>1, StoredTwice
    <3> QED BY <2>1, <3>1
  <2>3. /\ Room(c) \in Nat /\ pos + m <= Room(c)
        /\ \A a \in Nat : a < Room(c) /\ a \notin c.m_position .. c.m_position + n - 1
              => At(d, a) = At(c, a)
    <3>1. Room(c) \in Nat /\ c.m_position <= c.m_size /\ c.m_size <= Room(c) /\ c.m_size \in Nat /\ c.m_position \in Nat
      BY <1>5, ReadSizeType
    <3>2. c.m_position <= Room(c)
      BY <3>1
    <3> QED BY <1>5, <1>9, <3>1, <3>2 DEF Stored
  <2>4. ASSUME NEW j \in 0 .. e - 1 PROVE At(d, pos + j) = s[j + 1]
    <3>1. CASE j < m
      <4>1. /\ j \in 0 .. m - 1 /\ pos + j \in Nat /\ pos + j < Room(c)
            /\ pos + j \notin c.m_position .. c.m_position + n - 1
        <5>1. c.m_position = pos + m /\ pos \in Nat /\ m \in Nat /\ Room(c) \in Nat /\ pos + m <= Room(c)
          BY <1>1, <1>5, <1>11, <2>3
        <5> HIDE DEF pos
        <5> QED BY <2>1, <3>1, <5>1
      <4>2. At(c, pos + j) = s[j + 1]
        BY <1>5, <4>1 DEF Holds
      <4> QED BY <2>3, <4>1, <4>2
    <3>2. CASE ~(j < m)
      <4> DEFINE i == j - m
      <4>1. i \in 0 .. n - 1 /\ c.m_position + i = pos + j /\ m + (i + 1) = j + 1 /\ i + 1 \in 1 .. n
        <5>1. c.m_position = pos + m /\ pos \in Nat /\ m \in Nat
          BY <1>1, <1>5, <1>11
        <5> HIDE DEF pos
        <5>2. j \in Nat /\ j < m + n /\ m <= j
          BY <2>1, <3>2, <5>1
        <5>3. i \in Nat /\ i < n /\ m + i = j
          BY <2>1, <5>1, <5>2
        <5> HIDE DEF i
        <5>4. c.m_position + i = pos + j
          BY <5>1, <5>2, <5>3
        <5> QED BY <2>1, <5>1, <5>2, <5>3, <5>4
      <4> HIDE DEF i
      <4>2. At(d, c.m_position + i) = piece[i + 1] /\ piece[i + 1] = s[m + (i + 1)]
        BY <1>11, <1>9, <4>1
      <4> QED BY <4>1, <4>2
    <3> QED BY <3>1, <3>2
  <2> QED BY <2>2, <2>4 DEF Holds, e, base
<1>10. n <= base
  BY <1>11
<1> QED BY <1>5, <1>6, <1>7, <1>8, <1>9, <1>10 DEF WriteDone, n

\* After k pieces the file is stored up to where they end.
LEMMA FileStored ==
    ASSUME NEW b, Sound(b), Offset(b) = 0, NEW s \in Seq(Cell)
    PROVE  LET d == After(b, Pieces(s, b.m_baseSize))[Len(Pieces(s, b.m_baseSize))]
           IN \/ Stored(b, d, Len(s)) /\ Holds(d, b.m_position, s, Len(s))
              \/ Died(b, d)
<1> DEFINE base == b.m_baseSize
           pieces == Pieces(s, base)
           N == Len(pieces)
           A(i) == After(b, pieces)[i]
           E(i) == Ends(s, base, i)
           P(i) == i <= N => \/ Stored(b, A(i), E(i)) /\ Holds(A(i), b.m_position, s, E(i))
                             \/ Died(b, A(i))
           S == {i \in Nat : P(i)}
<1>1. base \in Nat \ {0} /\ Len(s) \in Nat
  BY ArrayTypes DEF Sound
<1>2. /\ pieces \in Seq(Seq(Cell)) /\ N \in Nat
      /\ \A i \in 1 .. N : (i - 1) * base \in Nat /\ (i - 1) * base < Len(s)
      /\ Len(s) <= N * base
  <2>1. /\ pieces \in Seq(Seq(Cell)) /\ Len(s) <= N * base
        /\ \A i \in 1 .. N : PieceIs(s, base, (i - 1) * base, Ends(s, base, i), pieces[i])
    BY <1>1, PiecesType
  <2> HIDE DEF base, pieces
  <2> QED BY <2>1 DEF PieceIs
<1>3. /\ A(0) = b
      /\ \A i \in 1 .. N : A(i) = Write(A(i - 1), pieces[i])
  <2> HIDE DEF pieces
  <2> QED BY <1>2, AfterSteps
<1>4. 0 \in S
  <2>1. E(0) = 0
    <3>1. 0 * base = 0
      BY <1>1
    <3> HIDE DEF base
    <3> QED BY <1>1, <3>1 DEF Ends
  <2> HIDE DEF A, E
  <2>2. Stored(b, A(0), 0)
    BY <1>3, StoredNothing
  <2>3. Holds(A(0), b.m_position, s, 0)
    BY DEF Holds
  <2> QED BY <2>1, <2>2, <2>3
<1>5. ASSUME NEW i \in Nat, i \in S PROVE i + 1 \in S
  <2> SUFFICES ASSUME i + 1 <= N
               PROVE  \/ Stored(b, A(i + 1), E(i + 1)) /\ Holds(A(i + 1), b.m_position, s, E(i + 1))
                      \/ Died(b, A(i + 1))
    OBVIOUS
  <2>1. P(i)
    BY <1>5
  <2>2. i + 1 \in 1 .. N /\ (i + 1) - 1 = i /\ i <= N
    BY <1>2
  <2>3. A(i + 1) = Write(A(i), pieces[i + 1])
    <3> HIDE DEF A, pieces, N
    <3> QED BY <1>3, <2>2
  <2>4. E(i) = i * base
    <3>1. i * base < Len(s)
      <4> HIDE DEF base, N
      <4> QED BY <1>2, <2>2
    <3> QED BY <3>1 DEF Ends
  <2>5. CASE Stored(b, A(i), E(i)) /\ Holds(A(i), b.m_position, s, E(i))
    <3>1. Stored(b, A(i), i * base) /\ Holds(A(i), b.m_position, s, i * base)
      <4> HIDE DEF A, E
      <4> QED BY <2>4, <2>5
    <3> HIDE DEF A
    <3> QED BY <2>3, <3>1, NextPiece
  <2>6. CASE Died(b, A(i))
    <3> HIDE DEF A
    <3>1. A(i).failed # "none"
      BY <2>6 DEF Died
    <3>2. A(i + 1) = A(i)
      BY <2>3, <3>1, WriteDead
    <3> QED BY <2>6, <3>2
  <2> HIDE DEF A, E
  <2> QED BY <2>1, <2>2, <2>5, <2>6
<1>6. Nat \subseteq S
  <2> HIDE DEF S
  <2> QED BY <1>4, <1>5, SetInduction
<1>7. P(N)
  <2> HIDE DEF P
  <2> QED BY <1>2, <1>6
<1>8. E(N) = Len(s)
  <2> DEFINE x == N * base
  <2>1. Len(s) <= x /\ x \in Nat
    <3> HIDE DEF N, base
    <3> QED BY <1>1, <1>2
  <2>2. E(N) = IF x < Len(s) THEN x ELSE Len(s)
    BY DEF Ends
  <2> HIDE DEF x, E
  <2> QED BY <1>1, <2>1, <2>2
<1>9. N <= N
  BY <1>2
<1> HIDE DEF A, E, N
<1>10. \/ Stored(b, A(N), Len(s)) /\ Holds(A(N), b.m_position, s, Len(s))
       \/ Died(b, A(N))
  BY <1>7, <1>8, <1>9
<1> QED BY <1>10 DEF A, N

\* What is held from p on is what the loops find there.
LEMMA HeldIs ==
    ASSUME NEW d, NEW p \in Nat, NEW s \in Seq(Cell), Holds(d, p, s, Len(s))
    PROVE  CellsFrom(d, 1, p, Len(s)) = s
<1> DEFINE t == CellsFrom(d, 1, p, Len(s))
           n == Len(s)
<1>1. n \in Nat /\ s \in [1 .. n -> Cell]
  OBVIOUS
<1>2. t = [i \in 1 .. n |-> At(d, p + i - 1)]
  BY DEF CellsFrom, At
<1>3. ASSUME NEW i \in 1 .. n PROVE At(d, p + i - 1) = s[i]
  <2>1. i - 1 \in 0 .. n - 1 /\ p + (i - 1) = p + i - 1 /\ (i - 1) + 1 = i
    BY <1>1
  <2>2. At(d, p + (i - 1)) = s[(i - 1) + 1]
    BY <2>1, Zenon DEF Holds
  <2> QED BY <2>1, <2>2
<1> HIDE DEF t, n
<1>4. t = s
  BY <1>1, <1>2, <1>3
<1> QED BY <1>4 DEF t, n

\* What a call that stores s where ba stands leaves.
BulkStored(s) == Stored(ba, ba', Len(s)) /\ Holds(ba', ba.m_position, s, Len(s))

\* What BulkExact says of the step.
Bulk ==
    (Running' /\ wrote' # wrote
        /\ (wrote'.kind = "stream" \/ (wrote'.kind = "file" /\ Offset(ba) = 0)))
    => LET n == Len(wrote'.value) IN
       /\ ba'.m_position = ba.m_position + n
       /\ CellsFrom(ba', 1, ba.m_position, n) = wrote'.value

LEMMA BulkHolds ==
    ASSUME ArrayInv, Running, NEW s \in Seq(Cell), wrote'.value = s, BulkStored(s)
    PROVE  Bulk
<1>1. ba.m_position \in Nat
  BY ArrayTypes DEF ArrayInv, TypeOK
<1>2. CellsFrom(ba', 1, ba.m_position, Len(s)) = s
  BY <1>1, HeldIs DEF BulkStored
<1>3. ba'.m_position = ba.m_position + Len(s)
  BY DEF BulkStored, Stored
<1> QED BY <1>2, <1>3 DEF Bulk

LEMMA BulkFile == ASSUME ArrayInv, ReadFromFile PROVE Bulk
<1> SUFFICES ASSUME Running', Offset(ba) = 0 PROVE Bulk
  <2>1. wrote'.kind = "file"
    BY DEF ReadFromFile, WriteAll
  <2> QED BY <2>1 DEF Bulk
<1>1. /\ Sound(ba) /\ Running /\ wrote'.value = file /\ file \in Seq(Cell)
      /\ ba' = After(ba, Pieces(file, ba.m_baseSize))[Len(Pieces(file, ba.m_baseSize))]
  BY SoundNow DEF ReadFromFile, WriteAll, Step, Running, ArrayInv, TypeOK
<1>2. \/ Stored(ba, ba', Len(file)) /\ Holds(ba', ba.m_position, file, Len(file))
      \/ Died(ba, ba')
  BY <1>1, FileStored
<1>3. ~Died(ba, ba')
  BY DEF Died, Running
<1> QED BY <1>1, <1>2, <1>3, BulkHolds DEF BulkStored

LEMMA BulkStream ==
    ASSUME ArrayInv, NEW length \in 1 .. MaxSize, NEW came \in Strings \cup {<<>>},
           StreamRead(length, came)
    PROVE  Bulk
<1> SUFFICES ASSUME Running' PROVE Bulk
  BY DEF Bulk
<1>1. came \in Seq(Cell)
  <2>1. CASE came \in Strings
    BY <2>1, CellsOfBytes, ByteArrayAssumption
  <2>2. CASE came = <<>>
    BY <2>2
  <2> QED BY <2>1, <2>2
<1>2. length \in Nat \ {0}
  BY ByteArrayAssumption
<1>3. Sound(ba) /\ Running /\ wrote'.value = came /\ Len(came) <= length
  BY SoundNow DEF StreamRead, Step, Running
<1>4. ba' = Received(ba, length, came)
  BY DEF StreamRead, Received, FailedWriting
<1>5. ReceiveDone(ba, ba', came)
  BY <1>1, <1>2, <1>3, <1>4, ReceiveStep
<1>6. ~Died(ba, ba')
  BY DEF Died, Running
<1>7. BulkStored(came)
  BY <1>5, <1>6 DEF ReceiveDone, BulkStored, Holds
<1> QED BY <1>1, <1>3, <1>7, BulkHolds

\* The other calls write no file and no stream.
LEMMA BulkNext == ASSUME ArrayInv, Next PROVE Bulk
<1>1. ASSUME NEW kind \in IntegerKinds \cup StringKinds \cup {"none"}, NEW value, NEW pieces,
             WriteAll(kind, value, pieces)
      PROVE  Bulk
  <2>1. wrote'.kind = kind
    BY <1>1 DEF WriteAll
  <2>2. kind # "stream" /\ kind # "file"
    BY <1>1 DEF IntegerKinds, StringKinds
  <2> QED BY <2>1, <2>2 DEF Bulk
<1>2. ASSUME wrote' = wrote PROVE Bulk
  BY <1>2 DEF Bulk
<1>3. ASSUME wrote' = Nothing PROVE Bulk
  BY <1>3 DEF Bulk, Nothing
<1>4. ASSUME NEW kind \in IntegerKinds, NEW v, WriteInteger(kind, v) PROVE Bulk
  BY <1>1, <1>4 DEF WriteInteger
<1>5. ASSUME NEW kind \in StringKinds, NEW s, WriteString(kind, s) PROVE Bulk
  BY <1>1, <1>5 DEF WriteString
<1>6. ASSUME NEW s, WriteStringF16(s) PROVE Bulk
  BY <1>1, <1>6 DEF WriteStringF16
<1>7. ASSUME NEW kind, NEW value, NEW r, Take(kind, value, r) PROVE Bulk
  BY <1>2, <1>7 DEF Take
<1>8. ASSUME NEW kind, ReadFixed(kind) PROVE Bulk
  BY <1>7, <1>8 DEF ReadFixed
<1>9. ASSUME NEW kind, ReadVint(kind) PROVE Bulk
  BY <1>7, <1>9 DEF ReadVint
<1>10. ASSUME NEW kind, ReadString(kind) PROVE Bulk
  BY <1>7, <1>10 DEF ReadString
<1>11. ASSUME Peek \/ WriteToFile \/ (\E p \in 0 .. MaxSize : SetPos(p)) PROVE Bulk
  BY <1>2, <1>11 DEF Peek, WriteToFile, SetPos
<1>12. ASSUME Clear \/ (\E val \in BOOLEAN : SetIsLittleEndian(val)) PROVE Bulk
  BY <1>3, <1>12 DEF Clear, SetIsLittleEndian
<1>13. ASSUME NEW length, NEW sent, StreamWrite(length, sent) PROVE Bulk
  BY <1>2, <1>13 DEF StreamWrite
<1> QED BY <1>4, <1>5, <1>6, <1>8, <1>9, <1>10, <1>11, <1>12, <1>13, BulkFile, BulkStream, Zenon
        DEF Next, IntegerKinds, StringKinds

\* readFromFile at the start of a block stores the bytes of the file, whatever its length
\* and the base size, and SocketStream::read stores what recv delivered, wherever the
\* array stands, unless the process ends (bytearray.cpp:529-545, socket_stream.cpp:31-45).
THEOREM BulkTransfersExact == Spec => BulkExact
<1>1. ArrayInv /\ [Next]_vars => [Bulk]_vars
  <2>1. ASSUME ArrayInv, Next PROVE Bulk
    BY <2>1, BulkNext
  <2> QED BY <2>1
<1> QED BY <1>1, ArrayInvariant, PTL DEF Spec, BulkExact, Bulk

-----------------------------------------------------------------------------
(* What is read back from an encoding                                        *)

\* The low part of u up to p * h is its low part up to p and the next digit.
LEMMA DigitStep ==
    ASSUME NEW u \in Nat, NEW p \in Nat \ {0}, NEW h \in Nat \ {0}
    PROVE  u % (p * h) = (u % p) + ((u \div p) % h) * p
<1> DEFINE q == u \div p
           r == u % p
           q2 == q \div h
           r2 == q % h
<1>1. u \in Int
  OBVIOUS
<1>2. q \in Int /\ r \in 0 .. p - 1 /\ u = p * q + r
  BY <1>1, DivMod, Zenon
<1> HIDE DEF q, r
<1>3. q2 \in Int /\ r2 \in 0 .. h - 1 /\ q = h * q2 + r2
  BY <1>2, DivMod, Zenon
<1> HIDE DEF q2, r2
<1> DEFINE x == p * h
           y == p * r2
<1>4. x \in Nat \ {0} /\ r2 \in Int /\ h \in Int /\ r2 < h
  BY <1>3
<1>5. y \in Int /\ y + p <= x /\ p * 0 <= y
  BY <1>3, <1>4, ProductLess, ProductFacts
<1>6. p * q = x * q2 + y
  <2>1. h * q2 \in Int
    BY <1>3
  <2>2. p * (h * q2 + r2) = p * (h * q2) + p * r2
    BY <1>4, <2>1, ProductFacts
  <2>3. p * (h * q2) = (p * h) * q2
    BY <1>3
  <2> QED BY <1>3, <2>2, <2>3
<1>7. x * q2 \in Int /\ p * 0 = 0
  BY <1>3, <1>4
<1> DEFINE z == x * q2
<1> HIDE DEF x, y, z
<1>8. u = x * q2 + (y + r)
  <2>1. z \in Int /\ u = z + y + r
    BY <1>2, <1>6, <1>7 DEF z
  <2>2. u = z + (y + r)
    BY <1>2, <1>5, <2>1
  <2> QED BY <2>2 DEF z
<1>9. y + r \in 0 .. x - 1
  BY <1>2, <1>4, <1>5, <1>7
<1>10. u % x = y + r
  BY <1>1, <1>3, <1>4, <1>8, <1>9, DivModUnique, Zenon
<1>11. r2 * p = y
  BY <1>4 DEF y
<1>12. y + r = r + r2 * p
  BY <1>2, <1>5, <1>11
<1> QED BY <1>10, <1>12 DEF x, q, r, r2

LEMMA ModBelow ==
    ASSUME NEW u \in Nat, NEW m \in Nat \ {0}, u < m
    PROVE  u % m = u
<1>1. u \in Int /\ 0 \in Int /\ u \in 0 .. m - 1 /\ u = m * 0 + u
  OBVIOUS
<1> QED BY <1>1, DivModUnique, Zenon

LEMMA ModOne == ASSUME NEW u \in Nat PROVE u % 1 = 0
<1>1. u \in Int /\ 1 \in Nat \ {0} /\ 0 \in 0 .. 1 - 1 /\ u = 1 * u + 0
  OBVIOUS
<1> QED BY <1>1, DivModUnique, Zenon

LEMMA ModPlus ==
    ASSUME NEW u \in Nat, NEW m \in Nat \ {0}, u < m
    PROVE  (u + m) % m = u
<1> DEFINE x == u + m
<1>1. x \in Int /\ 1 \in Int /\ u \in 0 .. m - 1 /\ x = m * 1 + u
  OBVIOUS
<1> HIDE DEF x
<1>2. x % m = u
  BY <1>1, DivModUnique, Zenon
<1> QED BY <1>2 DEF x

\* The k-th of the digits of d bits of u.
DigitOf(u, d, k) == (u \div 2 ^ (d * (k - 1))) % 2 ^ d

\* The first k digits of d bits of u make up u up to their bits.
LEMMA DigitsAre ==
    ASSUME NEW s, Len(s) \in Nat, NEW d \in Nat, NEW u \in Nat,
           \A i \in 1 .. Len(s) : s[i] = DigitOf(u, d, i)
    PROVE  Digits(s, d) = u % 2 ^ (d * Len(s))
<1> DEFINE F(i) == Sums(s, d)[i]
           M(i) == u % 2 ^ (d * i)
           S == {i \in Nat : i <= Len(s) => F(i) = M(i)}
<1>1. /\ F(0) = 0
      /\ \A i \in 1 .. Len(s) : F(i) = F(i - 1) + s[i] * 2 ^ (d * (i - 1))
  BY SumsSteps
<1> HIDE DEF F
<1>2. 0 \in S
  <2>1. d * 0 = 0
    OBVIOUS
  <2>2. M(0) = 0
    BY <2>1, PowerZero, ModOne
  <2> HIDE DEF M
  <2> QED BY <1>1, <2>2
<1>3. ASSUME NEW i \in Nat, i \in S PROVE i + 1 \in S
  <2> SUFFICES ASSUME i + 1 <= Len(s) PROVE F(i + 1) = M(i + 1)
    OBVIOUS
  <2>1. i + 1 \in 1 .. Len(s) /\ (i + 1) - 1 = i /\ i <= Len(s)
    OBVIOUS
  <2> DEFINE p == 2 ^ (d * i)
             h == 2 ^ d
             x == (u \div p) % h
  <2>2. d * i \in Nat /\ d * (i + 1) = d * i + d
    OBVIOUS
  <2>3. p \in Nat \ {0} /\ h \in Nat \ {0}
    BY <2>2, PowerPositive
  <2>4. s[i + 1] = x
    <3>1. s[i + 1] = DigitOf(u, d, i + 1)
      BY <2>1
    <3>2. DigitOf(u, d, i + 1) = (u \div 2 ^ (d * ((i + 1) - 1))) % 2 ^ d
      BY DEF DigitOf
    <3> QED BY <2>1, <3>1, <3>2, Zenon
  <2>5. F(i + 1) = F(i) + s[i + 1] * p
    <3> HIDE DEF p
    <3>1. F(i + 1) = F((i + 1) - 1) + s[i + 1] * 2 ^ (d * ((i + 1) - 1))
      BY <1>1, <2>1, Zenon
    <3> QED BY <2>1, <3>1, Zenon DEF p
  <2>6. F(i) = u % p
    <3>1. F(i) = M(i)
      BY <1>3, <2>1
    <3> QED BY <3>1
  <2>7. M(i + 1) = u % (p * h)
    <3>1. 2 ^ (d * i + d) = p * h
      BY <2>2, PowerSum
    <3> QED BY <2>2, <3>1, Zenon
  <2>8. u % (p * h) = (u % p) + x * p
    <3> HIDE DEF p, h, x
    <3>1. u % (p * h) = (u % p) + ((u \div p) % h) * p
      BY <2>3, DigitStep, Zenon
    <3> QED BY <3>1, Zenon DEF x
  <2> HIDE DEF M, p, h, x
  <2> QED BY <2>4, <2>5, <2>6, <2>7, <2>8, Zenon
<1>4. Nat \subseteq S
  <2> HIDE DEF S
  <2> QED BY <1>2, <1>3, SetInduction
<1>5. F(Len(s)) = M(Len(s))
  <2> HIDE DEF M
  <2>1. Len(s) \in S /\ Len(s) <= Len(s)
    BY <1>4
  <2> QED BY <2>1
<1> QED BY <1>5 DEF Digits, F

\* The memory of an integer is its digits of ByteBits bits.
LEMMA MemoryDigits ==
    ASSUME NEW v \in Int, NEW bits \in {ByteBits, Bits32, Bits64}
    PROVE  /\ Digits(Memory(v, bits), ByteBits) = v % 2 ^ bits
           /\ Memory(v % 2 ^ bits, bits) = Memory(v, bits)
<1> DEFINE u == v % 2 ^ bits
           n == bits \div ByteBits
           s == Memory(v, bits)
<1>1. bits \in Nat /\ n \in Nat /\ ByteBits \in Nat /\ bits = ByteBits * n
  BY WidthOf, Widths
<1>2. u \in Nat /\ u < 2 ^ bits
  BY <1>1, ModuloPower
<1>3. 2 ^ bits \in Nat \ {0}
  BY <1>1, PowerPositive
<1>4. u % 2 ^ bits = u
  <2> DEFINE p == 2 ^ bits
  <2> HIDE DEF u, p
  <2>1. u \in Nat /\ p \in Nat \ {0} /\ u < p
    BY <1>2, <1>3 DEF p
  <2>2. u % p = u
    BY <2>1, ModBelow, Zenon
  <2> QED BY <2>2 DEF p
<1>5. Len(s) = n /\ \A i \in 1 .. n : s[i] = DigitOf(u, ByteBits, i)
  <2>1. Len(s) = n
    BY MemoryType
  <2>2. s = [i \in 1 .. n |-> DigitOf(u, ByteBits, i)]
    BY DEF Memory, DigitOf
  <2> HIDE DEF s, u, n
  <2> QED BY <2>1, <2>2
<1>6. Digits(s, ByteBits) = u % 2 ^ (ByteBits * Len(s))
  <2> HIDE DEF s, u, n
  <2> QED BY <1>1, <1>2, <1>5, DigitsAre
<1>7. Memory(u, bits) = s
  <2>1. Memory(u, bits) = [i \in 1 .. n |-> DigitOf(u % 2 ^ bits, ByteBits, i)]
    BY DEF Memory, DigitOf
  <2>2. s = [i \in 1 .. n |-> DigitOf(u, ByteBits, i)]
    BY DEF Memory, DigitOf
  <2> QED BY <1>4, <2>1, <2>2, Zenon
<1> HIDE DEF s, n
<1>8. ByteBits * Len(s) = bits
  BY <1>1, <1>5, Zenon
<1>9. Digits(s, ByteBits) = u
  BY <1>4, <1>6, <1>8, Zenon
<1> QED BY <1>7, <1>9, Zenon DEF s

\* Swapping the bytes twice leaves them.
LEMMA FixedReads ==
    ASSUME NEW endian, NEW v \in Int, NEW bits \in {ByteBits, Bits32, Bits64}
    PROVE  /\ Unfixed(endian, Fixed(endian, v, bits)) = v % 2 ^ bits
           /\ Fixed(endian, v % 2 ^ bits, bits) = Fixed(endian, v, bits)
<1> DEFINE s == Memory(v, bits)
           u == v % 2 ^ bits
<1>1. s \in Seq(Byte)
  BY MemoryType
<1>2. Digits(s, ByteBits) = u /\ Memory(u, bits) = s
  BY MemoryDigits
<1>3. byteswap(byteswap(s)) = s
  <2> HIDE DEF s
  <2> DEFINE t == Reverse(s)
             r == Reverse(t)
  <2>1. /\ t \in Seq(Byte) /\ Len(t) = Len(s) /\ Len(s) \in Nat
        /\ \A i \in 1 .. Len(s) : t[i] = s[Len(s) - i + 1]
    BY <1>1, ReverseType
  <2> HIDE DEF t
  <2>2. /\ r \in Seq(Byte) /\ Len(r) = Len(t)
        /\ \A i \in 1 .. Len(t) : r[i] = t[Len(t) - i + 1]
    BY <2>1, ReverseType
  <2> HIDE DEF r
  <2>3. ASSUME NEW i \in 1 .. Len(s) PROVE r[i] = s[i]
    <3>1. Len(s) - i + 1 \in 1 .. Len(s) /\ Len(s) - (Len(s) - i + 1) + 1 = i
      BY <2>1
    <3> QED BY <2>1, <2>2, <3>1
  <2>4. r = s
    BY <1>1, <2>1, <2>2, <2>3, SeqEqual
  <2> QED BY <2>4 DEF byteswap, r, t
<1>4. Fixed(endian, v, bits) = IF endian # SYLAR_BYTE_ORDER THEN byteswap(s) ELSE s
  BY Zenon DEF Fixed
<1>5. Fixed(endian, u, bits) = IF endian # SYLAR_BYTE_ORDER THEN byteswap(s) ELSE s
  <2>1. Fixed(endian, u, bits) = IF endian # SYLAR_BYTE_ORDER THEN byteswap(Memory(u, bits)) ELSE Memory(u, bits)
    BY Zenon DEF Fixed
  <2> HIDE DEF u, s
  <2> QED BY <1>2, <2>1, Zenon
<1> HIDE DEF s, u
<1>6. Unfixed(endian, Fixed(endian, v, bits)) = u
  <2>1. CASE endian = SYLAR_BYTE_ORDER
    BY <1>2, <1>4, <2>1, Zenon DEF Unfixed
  <2>2. CASE endian # SYLAR_BYTE_ORDER
    BY <1>2, <1>3, <1>4, <2>2, Zenon DEF Unfixed
  <2> QED BY <2>1, <2>2
<1>7. Fixed(endian, u, bits) = Fixed(endian, v, bits)
  BY <1>4, <1>5
<1> QED BY <1>6, <1>7, Zenon DEF u

\* A varint of u: how long it is, and that its last byte is the first without the mark.
VarintShape(u, e) ==
    /\ e \in Seq(Byte) /\ Len(e) \in 1 .. Groups(Bits64)
    /\ \A i \in 1 .. Len(e) - 1 : ~(e[i] < High)
    /\ e[Len(e)] < High
    /\ Unvarint(e, Bits64) = u

LEMMA GroupsCover ==
    /\ Groups(Bits64) \in Nat \ {0}
    /\ Bits64 <= Group * Groups(Bits64)
<1> DEFINE a == Bits64 + Group - 1
           q == a \div Group
<1>1. Bits64 \in Nat /\ Bits64 >= 2 /\ Group \in Nat \ {0} /\ a \in Nat /\ Group <= a
  BY Widths
<1>2. q \in Nat /\ \A m \in Nat : q + 1 <= m <=> a < m * Group
  <2> HIDE DEF a
  <2> QED BY <1>1, DivBelow
<1> HIDE DEF q
<1>3. a < (q + 1) * Group
  <2>1. q + 1 \in Nat /\ q + 1 <= q + 1
    BY <1>2
  <2> QED BY <1>2, <2>1
<1>4. (q + 1) * Group = Group * q + Group /\ Group * q \in Int
  <2>1. Group * (q + 1) = Group * q + Group * 1 /\ Group * (q + 1) = (q + 1) * Group /\ Group * q \in Int
    BY <1>1, <1>2, ProductFacts
  <2> QED BY <1>1, <2>1
<1> DEFINE z == Group * q
<1>5. Bits64 <= z
  <2> HIDE DEF z
  <2>1. z \in Int /\ a < z + Group
    BY <1>3, <1>4 DEF z
  <2> QED BY <1>1, <2>1
<1>6. q # 0
  <2>1. q = 0 => z = 0
    BY <1>1
  <2> HIDE DEF z
  <2> QED BY <1>1, <1>5, <2>1
<1> QED BY <1>2, <1>5, <1>6 DEF Groups, q, z

LEMMA VarintReads ==
    ASSUME NEW u \in Nat, u < 2 ^ Bits64
    PROVE  VarintShape(u, Varint(u))
<1>1. PICK n \in 1 .. Bits64 : Fits(u, n) /\ Varint(u) = VarintBytes(u, n)
  BY VarintIs
<1> DEFINE e == VarintBytes(u, n)
           g(i) == (u \div 2 ^ (Group * (i - 1))) % High
           t == [i \in 1 .. Len(e) |-> e[i] % High]
<1>2. /\ n \in Nat \ {0} /\ Bits64 \in Nat /\ Group \in Nat \ {0} /\ High \in Nat \ {0}
      /\ u \in Int
  BY Widths
<1>3. e \in Seq(Byte)
  BY <1>1, VarintType
<1>4. Len(e) = n /\ \A i \in 1 .. n : e[i] = g(i) + (IF i < n THEN High ELSE 0)
  BY <1>2 DEF VarintBytes
<1>5. \A i \in 1 .. n : g(i) \in 0 .. High - 1
  BY GroupType
<1>6. \A i \in 1 .. n : g(i) = DigitOf(u, Group, i)
  BY DEF DigitOf, High
<1> HIDE DEF e, g
<1>7. ASSUME NEW i \in 1 .. n PROVE e[i] % High = g(i)
  <2> DEFINE x == g(i)
  <2>1. x \in Nat /\ x < High
    BY <1>2, <1>5
  <2> HIDE DEF x
  <2>2. CASE i < n
    <3>1. e[i] = x + High
      BY <1>4, <2>2 DEF x
    <3>2. (x + High) % High = x
      BY <1>2, <2>1, ModPlus, Zenon
    <3> QED BY <3>1, <3>2, Zenon DEF x
  <2>3. CASE ~(i < n)
    <3>1. e[i] = x + 0
      BY <1>4, <2>3 DEF x
    <3>2. e[i] = x
      BY <2>1, <3>1
    <3>3. x % High = x
      BY <1>2, <2>1, ModBelow, Zenon
    <3> QED BY <3>2, <3>3, Zenon DEF x
  <2> QED BY <2>2, <2>3
<1>8. /\ \A i \in 1 .. n - 1 : ~(e[i] < High)
      /\ e[n] < High
  <2>1. ASSUME NEW i \in 1 .. n - 1 PROVE ~(e[i] < High)
    <3>1. i \in 1 .. n /\ i < n
      BY <1>2
    <3>2. e[i] = g(i) + High /\ g(i) \in 0 .. High - 1
      BY <1>4, <1>5, <3>1
    <3> QED BY <1>2, <3>2
  <2>2. e[n] < High
    <3>1. n \in 1 .. n /\ ~(n < n)
      BY <1>2
    <3>2. e[n] = g(n) + 0 /\ g(n) \in 0 .. High - 1
      BY <1>4, <1>5, <3>1
    <3> QED BY <1>2, <3>2
  <2> QED BY <2>1, <2>2
<1>9. n <= Groups(Bits64)
  <2> SUFFICES ASSUME ~(n <= Groups(Bits64)) PROVE FALSE
    OBVIOUS
  <2> DEFINE q == Groups(Bits64)
  <2>1. q \in Nat \ {0} /\ Bits64 <= Group * q
    BY GroupsCover
  <2> HIDE DEF q
  <2>2. n - 1 \in Nat /\ q <= n - 1 /\ n > 1
    BY <1>2, <2>1 DEF q
  <2>3. Group * q <= Group * (n - 1) /\ Group * (n - 1) \in Int /\ Group * q \in Int
    <3>1. q \in Int /\ n - 1 \in Int
      BY <2>1, <2>2
    <3> QED BY <1>2, <2>2, <3>1, ProductFacts
  <2> DEFINE k == Group * (n - 1)
             j == Group * q
  <2>4. k \in Nat /\ Bits64 <= k
    <3>1. j <= k /\ k \in Int /\ j \in Int /\ Bits64 <= j
      BY <2>1, <2>3
    <3> HIDE DEF k, j
    <3> QED BY <1>2, <3>1
  <2>5. u >= 2 ^ k
    BY <1>1, <2>2 DEF Fits
  <2> HIDE DEF k
  <2>6. 2 ^ Bits64 <= 2 ^ k /\ 2 ^ Bits64 \in Nat /\ 2 ^ k \in Nat
    BY <1>2, <2>4, PowerMonotonic, PowerNat
  <2> QED BY <2>5, <2>6
<1>10. Unvarint(e, Bits64) = u
  <2>1. Len(t) = n /\ \A i \in 1 .. n : t[i] = DigitOf(u, Group, i)
    <3>1. t = [i \in 1 .. n |-> e[i] % High]
      BY <1>4
    <3>2. \A i \in 1 .. n : t[i] = e[i] % High
      BY <3>1
    <3> HIDE DEF t
    <3> QED BY <1>2, <1>6, <1>7, <3>1, <3>2
  <2> HIDE DEF t
  <2>2. Digits(t, Group) = u % 2 ^ (Group * Len(t))
    BY <1>2, <2>1, DigitsAre
  <2> DEFINE p == 2 ^ (Group * n)
             m == 2 ^ Bits64
  <2>3. p \in Nat \ {0} /\ u < p
    <3>1. Group * n \in Nat
      BY <1>2
    <3> QED BY <1>1, <3>1, PowerPositive DEF Fits
  <2>4. m \in Nat \ {0} /\ u < m
    BY <1>2, PowerPositive
  <2>5. Digits(t, Group) = u % p
    BY <2>1, <2>2, Zenon
  <2>6. Unvarint(e, Bits64) = Digits(t, Group) % m
    BY DEF Unvarint, t
  <2> HIDE DEF p, m
  <2>7. u % p = u
    BY <2>3, ModBelow, Zenon
  <2>8. u % m = u
    BY <2>4, ModBelow, Zenon
  <2> QED BY <2>5, <2>6, <2>7, <2>8, Zenon
<1>11. Len(e) \in 1 .. Groups(Bits64)
  BY <1>2, <1>4, <1>9, GroupsCover
<1>12. VarintShape(u, e)
  BY <1>3, <1>4, <1>8, <1>10, <1>11 DEF VarintShape
<1> QED BY <1>1, <1>12 DEF e

\* A zigzag that 32 bits hold as a positive number comes back.
LEMMA ZigzagReads ==
    ASSUME NEW v \in Int, Zigzag(v) < 2 ^ (Bits32 - 1)
    PROVE  /\ EncodeZigzag64(v) = Zigzag(v)
           /\ Zigzag(v) \in Nat /\ Zigzag(v) < 2 ^ Bits64
           /\ DecodeZigzag64(Zigzag(v)) = v
<1> DEFINE u == Zigzag(v)
           h == 2 ^ (Bits32 - 1)
           p == 2 ^ Bits32
<1>1. u = IF v < 0 THEN -v * 2 - 1 ELSE v * 2
  BY DEF Zigzag
<1> HIDE DEF u
<1>2. u \in Nat
  BY <1>1
<1>3. Bits32 \in Nat /\ Bits32 - 1 \in Nat /\ Bits64 \in Nat /\ Bits32 - 1 <= Bits32 /\ Bits32 - 1 <= Bits64
  BY Widths
<1>4. h \in Nat /\ p \in Nat \ {0} /\ h <= p /\ h <= 2 ^ Bits64 /\ 2 ^ Bits64 \in Nat
  BY <1>3, PowerNat, PowerPositive, PowerMonotonic
<1>5. u < h
  BY DEF u
<1>6. EncodeZigzag64(v) = u
  <2> HIDE DEF h, p
  <2>1. u < p
    BY <1>2, <1>4, <1>5
  <2>2. u % p = u
    BY <1>2, <1>4, <2>1, ModBelow, Zenon
  <2>3. EncodeZigzag64(v) = Signed(u % p, Bits32)
    BY DEF EncodeZigzag64, u, p
  <2>4. Signed(u, Bits32) = IF u >= h THEN u - p ELSE u
    BY DEF Signed, h, p
  <2>5. Signed(u, Bits32) = u
    BY <1>2, <1>4, <1>5, <2>4
  <2> QED BY <2>2, <2>3, <2>5, Zenon
<1>7. DecodeZigzag64(u) = v
  <2>1. CASE v < 0
    <3> DEFINE k == -v - 1
    <3>1. k \in Int /\ u = 2 * k + 1 /\ 1 \in 0 .. 2 - 1 /\ 2 \in Nat \ {0} /\ u \in Int
      BY <1>1, <1>2, <2>1
    <3> HIDE DEF k
    <3>2. u \div 2 = k /\ u % 2 = 1
      BY <3>1, DivModUnique, Zenon
    <3>3. -k - 1 = v
      BY DEF k
    <3> QED BY <3>2, <3>3 DEF DecodeZigzag64
  <2>2. CASE ~(v < 0)
    <3>1. u = 2 * v + 0 /\ 0 \in 0 .. 2 - 1 /\ 2 \in Nat \ {0} /\ u \in Int
      BY <1>1, <1>2, <2>2
    <3>2. u \div 2 = v /\ u % 2 = 0
      BY <3>1, DivModUnique, Zenon
    <3> QED BY <3>2 DEF DecodeZigzag64
  <2> QED BY <2>1, <2>2
<1>8. u < 2 ^ Bits64
  <2> DEFINE m == 2 ^ Bits64
  <2> HIDE DEF h, m
  <2>1. m \in Nat /\ h \in Nat /\ h <= m
    BY <1>4 DEF m
  <2>2. u < m
    BY <1>2, <1>5, <2>1
  <2> QED BY <2>2 DEF m
<1> QED BY <1>2, <1>6, <1>7, <1>8 DEF u

-----------------------------------------------------------------------------
(* What a typed write leaves in the array until it is read                   *)

Numbers == {"F8", "F32", "F64", "U64", "I64"}
Lengthy == {"SF32", "SF64", "SVint"}

\* The values that are read back as kind, the first bytes of one in the array, and
\* the width of those of a fixed size.
Residues(bits) == {v \in Int : v = v % 2 ^ bits}

Values(kind) ==
    CASE kind = "F8" -> Residues(ByteBits)
      [] kind = "F32" -> Residues(Bits32)
      [] kind = "F64" -> Residues(Bits64)
      [] kind = "U64" -> Residues(Bits64)
      [] kind = "I64" -> Int
      [] kind \in Lengthy -> Strings

Lead(endian, kind, v) ==
    CASE kind = "F8" -> Memory(v, ByteBits)
      [] kind = "F32" -> Fixed(endian, v, Bits32)
      [] kind = "F64" -> Fixed(endian, v, Bits64)
      [] kind = "U64" -> Varint(v % 2 ^ Bits64)
      [] kind = "I64" -> Varint(EncodeZigzag64(v) % 2 ^ Bits64)
      [] kind = "SF32" -> Fixed(endian, Len(v), Bits32)
      [] kind = "SF64" -> Fixed(endian, Len(v), Bits64)
      [] kind = "SVint" -> Varint(Len(v))

\* e is in the array from p on.
Kept(b, p, e) == p + Len(e) <= b.m_size /\ Holds(b, p, e, Len(e))

\* Exact, of the array b.
ExactIn(b, p, n) == p % b.m_baseSize = 0 /\ n <= b.m_baseSize

\* Every write of w started a block and fitted.
ExactWrites(b, w) ==
    LET n == Len(Lead(b.m_endian, w.kind, w.value)) IN
    /\ ExactIn(b, w.at, n)
    /\ w.kind \in Lengthy => ExactIn(b, w.at + n, Len(w.value))

\* The bytes of w are where they were written.
Intact(b, w) ==
    LET e == Lead(b.m_endian, w.kind, w.value) IN
    /\ Kept(b, w.at, e)
    /\ w.kind \in Lengthy => Kept(b, w.at + Len(e), w.value)

Remembers(b, w) ==
    w.kind \in Numbers \cup Lengthy =>
        /\ w.at \in Nat /\ w.value \in Values(w.kind)
        /\ (b.failed = "none" /\ ExactWrites(b, w)) => Intact(b, w)

\* The conversions lose nothing of w.
Lossless(w) ==
    /\ w.kind = "I64" => Zigzag(w.value) < 2 ^ (Bits32 - 1)
    /\ w.kind = "SF32" => Len(w.value) < 2 ^ Bits32

\* What TypedRoundTrip says of an array, what was written and what was read.
RoundTrips(b, w, g) ==
    (g.kind = w.kind /\ g.at = w.at /\ g.kind \in Numbers \cup Lengthy)
        => ((ExactWrites(b, w) /\ Lossless(w)) => g.value = w.value)

LEMMA LeadFacts ==
    ASSUME NEW endian, NEW kind \in Numbers \cup Lengthy, NEW v \in Values(kind)
    PROVE  /\ Lead(endian, kind, v) \in Seq(Byte)
           /\ Lead(endian, kind, v) \in Seq(Cell)
           /\ Len(Lead(endian, kind, v)) \in Nat
           /\ kind \in Lengthy => v \in Seq(Byte) /\ v \in Seq(Cell) /\ Len(v) \in Nat
<1> DEFINE e == Lead(endian, kind, v)
<1>1. kind \in Numbers => v \in Int
  BY DEF Numbers, Lengthy, Values, Residues
<1>2. kind \in Lengthy => v \in Strings
  BY DEF Lengthy, Values
<1>3. kind \in Lengthy => v \in Seq(Byte) /\ Len(v) \in Nat /\ Len(v) \in Int /\ Len(v) < 2 ^ Bits64
  <2> SUFFICES ASSUME kind \in Lengthy PROVE v \in Seq(Byte) /\ Len(v) \in Nat /\ Len(v) \in Int /\ Len(v) < 2 ^ Bits64
    OBVIOUS
  <2>1. v \in Seq(Byte) /\ Len(v) < 2 ^ Bits64
    BY <1>2, ByteArrayAssumption
  <2> QED BY <2>1
<1>4. Bits64 \in Nat
  BY Widths
<1>5. e \in Seq(Byte)
  <2>1. CASE kind = "F8"
    BY <1>1, <2>1, MemoryType DEF Lead, Numbers
  <2>2. CASE kind = "F32"
    BY <1>1, <2>2, FixedType DEF Lead, Numbers
  <2>3. CASE kind = "F64"
    BY <1>1, <2>3, FixedType DEF Lead, Numbers
  <2>4. CASE kind = "U64"
    <3>1. v \in Int
      BY <1>1, <2>4 DEF Numbers
    <3>2. v % 2 ^ Bits64 \in Nat /\ v % 2 ^ Bits64 < 2 ^ Bits64
      BY <1>4, <3>1, ModuloPower
    <3>3. e = Varint(v % 2 ^ Bits64)
      BY <2>4 DEF Lead
    <3> HIDE DEF e
    <3> DEFINE x == v % 2 ^ Bits64
    <3> HIDE DEF x
    <3>4. Varint(x) \in Seq(Byte)
      BY <3>2, VarintType DEF x
    <3> QED BY <3>3, <3>4 DEF x
  <2>5. CASE kind = "I64"
    <3>1. EncodeZigzag64(v) \in Int
      BY <1>1, <2>5, ZigzagTypes DEF Numbers
    <3> DEFINE x == EncodeZigzag64(v)
    <3> HIDE DEF x
    <3>2. x % 2 ^ Bits64 \in Nat /\ x % 2 ^ Bits64 < 2 ^ Bits64
      BY <1>4, <3>1, ModuloPower DEF x
    <3>3. e = Varint(x % 2 ^ Bits64)
      BY <2>5 DEF Lead, x
    <3> HIDE DEF e
    <3> DEFINE y == x % 2 ^ Bits64
    <3> HIDE DEF y
    <3>4. Varint(y) \in Seq(Byte)
      BY <3>2, VarintType DEF y
    <3> QED BY <3>3, <3>4 DEF y
  <2>6. CASE kind = "SF32"
    BY <1>3, <2>6, FixedType DEF Lead, Lengthy
  <2>7. CASE kind = "SF64"
    BY <1>3, <2>7, FixedType DEF Lead, Lengthy
  <2>8. CASE kind = "SVint"
    BY <1>3, <2>8, VarintType DEF Lead, Lengthy
  <2> QED BY <2>1, <2>2, <2>3, <2>4, <2>5, <2>6, <2>7, <2>8 DEF Numbers, Lengthy
<1> HIDE DEF e
<1>6. e \in Seq(Cell) /\ Len(e) \in Nat
  BY <1>5, CellsOfBytes
<1>7. kind \in Lengthy => v \in Seq(Cell)
  BY <1>3, CellsOfBytes
<1> QED BY <1>3, <1>5, <1>6, <1>7 DEF e

\* Calls that leave the bytes of the array and its order leave what is remembered.
Keeps(b, d) ==
    /\ d.m_baseSize = b.m_baseSize /\ d.m_endian = b.m_endian
    /\ d.failed = "none" => d.nodes = b.nodes /\ b.m_size <= d.m_size

LEMMA RemembersOn ==
    ASSUME NEW b, Sound(b), NEW d, Keeps(b, d), d.m_size \in Nat, NEW w, Remembers(b, w)
    PROVE  Remembers(d, w)
<1> SUFFICES ASSUME w.kind \in Numbers \cup Lengthy
             PROVE  /\ w.at \in Nat /\ w.value \in Values(w.kind)
                    /\ (d.failed = "none" /\ ExactWrites(d, w)) => Intact(d, w)
  BY DEF Remembers
<1>1. w.at \in Nat /\ w.value \in Values(w.kind) /\ (ExactWrites(b, w) => Intact(b, w))
  BY DEF Remembers, Sound
<1> DEFINE e == Lead(b.m_endian, w.kind, w.value)
<1>2. Len(e) \in Nat /\ (w.kind \in Lengthy => Len(w.value) \in Nat)
  <2> DEFINE kind == w.kind
             v == w.value
             endian == b.m_endian
  <2>1. kind \in Numbers \cup Lengthy /\ v \in Values(kind)
    BY <1>1
  <2> HIDE DEF kind, v, endian
  <2>2. Len(Lead(endian, kind, v)) \in Nat /\ (kind \in Lengthy => Len(v) \in Nat)
    BY <2>1, LeadFacts
  <2> QED BY <2>2 DEF kind, v, endian
<1>3. ExactWrites(d, w) <=> ExactWrites(b, w)
  BY DEF ExactWrites, ExactIn, Keeps
<1>4. ASSUME NEW p \in Nat, NEW s, Len(s) \in Nat, Kept(b, p, s), d.failed = "none"
      PROVE  Kept(d, p, s)
  <2>1. b.m_size \in Nat /\ b.m_size <= d.m_size
    BY <1>4, ReadSizeType DEF Keeps
  <2>2. p + Len(s) <= d.m_size
    BY <1>4, <2>1 DEF Kept
  <2>3. Holds(d, p, s, Len(s))
    BY <1>4 DEF Kept, Holds, At, Keeps
  <2> QED BY <2>2, <2>3 DEF Kept
<1>5. ASSUME d.failed = "none", ExactWrites(d, w) PROVE Intact(d, w)
  <2>1. Intact(b, w)
    BY <1>1, <1>3, <1>5
  <2>2. Lead(d.m_endian, w.kind, w.value) = e
    BY DEF Keeps
  <2>3. Kept(b, w.at, e) /\ (w.kind \in Lengthy => Kept(b, w.at + Len(e), w.value))
    BY <2>1 DEF Intact
  <2> HIDE DEF e
  <2>4. Kept(d, w.at, e)
    BY <1>1, <1>2, <1>4, <1>5, <2>3
  <2>5. w.kind \in Lengthy => Kept(d, w.at + Len(e), w.value)
    <3>1. w.at + Len(e) \in Nat
      BY <1>1, <1>2
    <3> QED BY <1>2, <1>4, <1>5, <2>3, <3>1
  <2> QED BY <2>2, <2>4, <2>5 DEF Intact
<1> QED BY <1>1, <1>5

LEMMA RoundTripsOn ==
    ASSUME NEW b, NEW d, Keeps(b, d), NEW w, NEW g, RoundTrips(b, w, g)
    PROVE  RoundTrips(d, w, g)
BY DEF Keeps, RoundTrips, ExactWrites, ExactIn

LEMMA NothingRead == ASSUME NEW b, NEW w PROVE RoundTrips(b, w, Nothing)
BY DEF RoundTrips, Nothing, Numbers, Lengthy

LEMMA OthersWritten ==
    ASSUME NEW b, NEW w, w.kind \notin Numbers \cup Lengthy, NEW g
    PROVE  Remembers(b, w) /\ RoundTrips(b, w, g)
BY DEF Remembers, RoundTrips

LEMMA ModTwice ==
    ASSUME NEW v \in Int, NEW bits \in Nat
    PROVE  (v % 2 ^ bits) % 2 ^ bits = v % 2 ^ bits /\ v % 2 ^ bits \in Int
<1> DEFINE m == 2 ^ bits
           u == v % m
<1>1. u \in Nat /\ u < m /\ m \in Nat \ {0}
  BY ModuloPower, PowerPositive
<1> HIDE DEF m, u
<1>2. u % m = u
  BY <1>1, ModBelow, Zenon
<1>3. u \in Int
  BY <1>1
<1> QED BY <1>2, <1>3 DEF m, u

\* What writes of numbers hand to write(): the encoding of the value as it is read back.
LEMMA EncodingIs ==
    ASSUME NEW kind \in Numbers, NEW v \in Int
    PROVE  /\ Encoding(kind, v) = <<Lead(ba.m_endian, kind, Value(kind, v))>>
           /\ Value(kind, v) \in Values(kind)
<1>1. ByteBits \in Nat /\ Bits32 \in Nat /\ Bits64 \in Nat
  BY Widths
<1>2. CASE kind = "F8"
  <2> DEFINE u == v % 2 ^ ByteBits
  <2>1. Encoding(kind, v) = <<Memory(v, ByteBits)>>
    BY <1>2 DEF Encoding
  <2>6. Value(kind, v) = u
    BY <1>2  DEF Value
  <2>2. u \in Residues(ByteBits) /\ u % 2 ^ ByteBits = u
    BY <1>1, ModTwice DEF Residues
  <2>3. Memory(u, ByteBits) = Memory(v, ByteBits)
    BY MemoryDigits
  <2> HIDE DEF u
  <2>4. Lead(ba.m_endian, kind, u) = Memory(u, ByteBits)
    BY <1>2 DEF Lead
  <2>5. u \in Values(kind)
    BY <1>2, <2>2 DEF Values, Lengthy
  <2> QED BY <2>1, <2>6, <2>3, <2>4, <2>5
<1>3. CASE kind = "F32"
  <2> DEFINE u == v % 2 ^ Bits32
  <2>1. Encoding(kind, v) = <<Fixed(ba.m_endian, v, Bits32)>>
    BY <1>3 DEF Encoding
  <2>6. Value(kind, v) = u
    BY <1>3  DEF Value
  <2>2. u \in Residues(Bits32) /\ u % 2 ^ Bits32 = u
    BY <1>1, ModTwice DEF Residues
  <2>3. Fixed(ba.m_endian, u, Bits32) = Fixed(ba.m_endian, v, Bits32)
    BY FixedReads
  <2> HIDE DEF u
  <2>4. Lead(ba.m_endian, kind, u) = Fixed(ba.m_endian, u, Bits32)
    BY <1>3 DEF Lead
  <2>5. u \in Values(kind)
    BY <1>3, <2>2 DEF Values, Lengthy
  <2> QED BY <2>1, <2>6, <2>3, <2>4, <2>5
<1>4. CASE kind = "F64"
  <2> DEFINE u == v % 2 ^ Bits64
  <2>1. Encoding(kind, v) = <<Fixed(ba.m_endian, v, Bits64)>>
    BY <1>4 DEF Encoding
  <2>6. Value(kind, v) = u
    BY <1>4  DEF Value
  <2>2. u \in Residues(Bits64) /\ u % 2 ^ Bits64 = u
    BY <1>1, ModTwice DEF Residues
  <2>3. Fixed(ba.m_endian, u, Bits64) = Fixed(ba.m_endian, v, Bits64)
    BY FixedReads
  <2> HIDE DEF u
  <2>4. Lead(ba.m_endian, kind, u) = Fixed(ba.m_endian, u, Bits64)
    BY <1>4 DEF Lead
  <2>5. u \in Values(kind)
    BY <1>4, <2>2 DEF Values, Lengthy
  <2> QED BY <2>1, <2>6, <2>3, <2>4, <2>5
<1>5. CASE kind = "U64"
  <2> DEFINE u == v % 2 ^ Bits64
  <2>1. Encoding(kind, v) = <<Varint(u)>>
    BY <1>5 DEF Encoding
  <2>6. Value(kind, v) = u
    BY <1>5  DEF Value
  <2>2. u \in Residues(Bits64) /\ u % 2 ^ Bits64 = u
    BY <1>1, ModTwice DEF Residues
  <2> HIDE DEF u
  <2>4. Lead(ba.m_endian, kind, u) = Varint(u % 2 ^ Bits64)
    BY <1>5 DEF Lead
  <2>5. u \in Values(kind)
    BY <1>5, <2>2 DEF Values, Lengthy
  <2> QED BY <2>1, <2>6, <2>2, <2>4, <2>5
<1>6. CASE kind = "I64"
  <2>1. Encoding(kind, v) = <<Varint(EncodeZigzag64(v) % 2 ^ Bits64)>>
    BY <1>6 DEF Encoding
  <2>6. Value(kind, v) = v
    BY <1>6  DEF Value
  <2>2. Lead(ba.m_endian, kind, v) = Varint(EncodeZigzag64(v) % 2 ^ Bits64)
    BY <1>6 DEF Lead
  <2>3. v \in Values(kind)
    BY <1>6 DEF Values, Lengthy
  <2> QED BY <2>1, <2>6, <2>2, <2>3
<1> QED BY <1>2, <1>3, <1>4, <1>5, <1>6 DEF Numbers

LEMMA StringEncodingIs ==
    ASSUME NEW kind \in Lengthy, NEW s \in Strings
    PROVE  /\ StringEncoding(kind, s) = <<Lead(ba.m_endian, kind, s), s>>
           /\ s \in Values(kind)
BY DEF Lengthy, StringEncoding, Lead, Values

\* One write that starts a block and fits.
LEMMA KeptWrite ==
    ASSUME NEW b, Sound(b), NEW e \in Seq(Cell), Write(b, e).failed = "none"
    PROVE  /\ Stored(b, Write(b, e), Len(e))
           /\ ExactIn(b, b.m_position, Len(e)) => Kept(Write(b, e), b.m_position, e)
<1> DEFINE d == Write(b, e)
<1>1. WriteDone(b, d, e)
  BY WriteStep
<1> HIDE DEF d
<1>2. ~Died(b, d)
  BY DEF Died, d
<1>3. /\ Stored(b, d, Len(e))
      /\ (Offset(b) = 0 /\ Len(e) <= b.m_baseSize
            => \A k \in 0 .. Len(e) - 1 : At(d, b.m_position + k) = e[k + 1])
  BY <1>1, <1>2 DEF WriteDone
<1>4. b.m_position + Len(e) <= d.m_size
  <2>1. d.m_position = b.m_position + Len(e) /\ Sound(d)
    BY <1>3 DEF Stored
  <2>2. d.m_position <= d.m_size
    BY <2>1, ReadSizeType
  <2> QED BY <2>1, <2>2
<1>5. ASSUME ExactIn(b, b.m_position, Len(e)) PROVE Holds(d, b.m_position, e, Len(e))
  BY <1>3, <1>5 DEF ExactIn, Offset, Holds
<1> QED BY <1>3, <1>4, <1>5 DEF Kept, d

\* Later writes are elsewhere.
LEMMA KeptBefore ==
    ASSUME NEW b, Sound(b), NEW d, NEW n \in Nat, Stored(b, d, n),
           NEW p \in Nat, NEW e, Len(e) \in Nat, p + Len(e) <= b.m_position, Kept(b, p, e)
    PROVE  Kept(d, p, e)
<1> DEFINE pos == b.m_position
           m == Len(e)
           room == Room(b)
<1>1. pos \in Nat /\ pos <= b.m_size /\ b.m_size <= room /\ b.m_size \in Nat /\ room \in Nat /\ m \in Nat
  BY ReadSizeType
<1>2. /\ d.m_size = IF d.m_position > b.m_size THEN d.m_position ELSE b.m_size
      /\ d.m_position = pos + n
      /\ \A a \in Nat : a < room /\ a \notin pos .. pos + n - 1 => At(d, a) = At(b, a)
  BY DEF Stored
<1>3. p + m <= pos /\ \A j \in 0 .. m - 1 : At(b, p + j) = e[j + 1]
  BY DEF Kept, Holds
<1> HIDE DEF pos, m, room
<1>4. p + m <= d.m_size
  BY <1>1, <1>2, <1>3
<1>5. ASSUME NEW j \in 0 .. m - 1 PROVE At(d, p + j) = e[j + 1]
  <2>1. p + j \in Nat /\ p + j < pos /\ p + j < room /\ p + j \notin pos .. pos + n - 1
    BY <1>1, <1>3
  <2> QED BY <1>2, <1>3, <2>1
<1> QED BY <1>4, <1>5 DEF Kept, Holds, m

LEMMA WroteNumber ==
    ASSUME ArrayInv, NEW kind \in Numbers, NEW v \in Int, WriteInteger(kind, v)
    PROVE  Remembers(ba', wrote')
<1> DEFINE x == Value(kind, v)
           e == Lead(ba.m_endian, kind, x)
           pieces == Encoding(kind, v)
           d == Write(ba, e)
<1>1. pieces = <<e>> /\ x \in Values(kind)
  BY EncodingIs
<1>2. e \in Seq(Cell) /\ Len(e) \in Nat
  <2> HIDE DEF x
  <2> QED BY <1>1, LeadFacts
<1> HIDE DEF pieces
<1>3. /\ Sound(ba) /\ ba' = After(ba, pieces)[Len(pieces)]
      /\ wrote' = [kind |-> kind, value |-> x, at |-> ba.m_position]
  BY SoundNow DEF WriteInteger, WriteAll, Step, Running, pieces
<1>4. ba' = d
  <2>1. Len(pieces) = 1 /\ pieces[1] = e
    BY <1>1
  <2>2. After(ba, pieces)[0] = ba /\ After(ba, pieces)[1] = Write(After(ba, pieces)[1 - 1], pieces[1])
    BY <2>1, AfterSteps
  <2>3. 1 - 1 = 0
    OBVIOUS
  <2> QED BY <1>3, <2>1, <2>2, <2>3
<1>5. ba.m_position \in Nat
  BY <1>3, ReadSizeType
<1> HIDE DEF x
<1>6. wrote'.kind = kind /\ wrote'.value = x /\ wrote'.at = ba.m_position
  BY <1>3
<1>7. ASSUME ba'.failed = "none", ExactWrites(ba', wrote') PROVE Intact(ba', wrote')
  <2>1. d.failed = "none" /\ ExactWrites(d, wrote')
    BY <1>4, <1>7
  <2> HIDE DEF d
  <2>2. Stored(ba, d, Len(e)) /\ (ExactIn(ba, ba.m_position, Len(e)) => Kept(d, ba.m_position, e))
    <3>1. Write(ba, e).failed = "none"
      BY <2>1 DEF d
    <3> HIDE DEF e
    <3> QED BY <1>2, <1>3, <3>1, KeptWrite DEF d
  <2>3. d.m_baseSize = ba.m_baseSize /\ d.m_endian = ba.m_endian
    BY <2>2 DEF Stored
  <2>4. Lead(d.m_endian, wrote'.kind, wrote'.value) = e
    BY <1>6, <2>3
  <2> HIDE DEF e
  <2>5. ExactIn(ba, ba.m_position, Len(e))
    BY <1>6, <2>1, <2>3, <2>4 DEF ExactWrites, ExactIn
  <2>6. wrote'.kind \notin Lengthy
    BY <1>6 DEF Numbers, Lengthy
  <2>7. Intact(d, wrote')
    BY <1>6, <2>2, <2>4, <2>5, <2>6 DEF Intact
  <2> QED BY <1>4, <2>7
<1>8. wrote'.at \in Nat /\ wrote'.value \in Values(wrote'.kind)
  BY <1>1, <1>5, <1>6
<1> QED BY <1>7, <1>8 DEF Remembers

LEMMA WroteString ==
    ASSUME ArrayInv, NEW kind \in Lengthy, NEW s \in Strings, WriteString(kind, s)
    PROVE  Remembers(ba', wrote')
<1> DEFINE e == Lead(ba.m_endian, kind, s)
           pieces == StringEncoding(kind, s)
           c == Write(ba, e)
           d == Write(c, s)
           pos == ba.m_position
<1>1. pieces = <<e, s>> /\ s \in Values(kind)
  BY StringEncodingIs
<1>2. e \in Seq(Cell) /\ Len(e) \in Nat /\ s \in Seq(Cell) /\ Len(s) \in Nat
  BY <1>1, LeadFacts
<1> HIDE DEF pieces
<1>3. /\ Sound(ba) /\ ba' = After(ba, pieces)[Len(pieces)]
      /\ wrote' = [kind |-> kind, value |-> s, at |-> pos]
  BY SoundNow DEF WriteString, WriteAll, Step, Running, pieces
<1>4. ba' = d
  <2>1. Len(pieces) = 2 /\ pieces[1] = e /\ pieces[2] = s
    BY <1>1
  <2>2. /\ After(ba, pieces)[0] = ba /\ After(ba, pieces)[1] = Write(After(ba, pieces)[1 - 1], pieces[1])
        /\ After(ba, pieces)[2] = Write(After(ba, pieces)[2 - 1], pieces[2])
    BY <2>1, AfterSteps
  <2>3. 1 - 1 = 0 /\ 2 - 1 = 1
    OBVIOUS
  <2> QED BY <1>3, <2>1, <2>2, <2>3
<1>5. pos \in Nat
  BY <1>3, ReadSizeType
<1>6. wrote'.kind = kind /\ wrote'.value = s /\ wrote'.at = pos
  BY <1>3
<1>7. ASSUME ba'.failed = "none", ExactWrites(ba', wrote') PROVE Intact(ba', wrote')
  <2>1. d.failed = "none" /\ ExactWrites(d, wrote')
    BY <1>4, <1>7
  <2>2. c.failed = "none"
    <3> SUFFICES ASSUME c.failed # "none" PROVE FALSE
      OBVIOUS
    <3> HIDE DEF c
    <3>1. d = c
      BY WriteDead
    <3> QED BY <2>1, <3>1
  <2>3. Stored(ba, c, Len(e)) /\ (ExactIn(ba, pos, Len(e)) => Kept(c, pos, e))
    <3>1. Write(ba, e).failed = "none"
      BY <2>2
    <3> HIDE DEF e
    <3> QED BY <1>2, <1>3, <3>1, KeptWrite
  <2>4. Sound(c) /\ c.m_baseSize = ba.m_baseSize /\ c.m_endian = ba.m_endian /\ c.m_position = pos + Len(e)
    BY <2>3 DEF Stored
  <2> HIDE DEF c
  <2>5. Stored(c, d, Len(s)) /\ (ExactIn(c, c.m_position, Len(s)) => Kept(d, c.m_position, s))
    <3>1. Write(c, s).failed = "none"
      BY <2>1
    <3> QED BY <1>2, <2>4, <3>1, KeptWrite
  <2> HIDE DEF d
  <2>6. d.m_baseSize = ba.m_baseSize /\ d.m_endian = ba.m_endian
    BY <2>4, <2>5 DEF Stored
  <2>7. Lead(d.m_endian, wrote'.kind, wrote'.value) = e
    BY <1>6, <2>6
  <2> HIDE DEF e
  <2>8. ExactIn(ba, pos, Len(e)) /\ ExactIn(c, c.m_position, Len(s))
    BY <1>6, <2>1, <2>4, <2>6, <2>7 DEF ExactWrites, ExactIn
  <2>9. Kept(c, pos, e) /\ Kept(d, c.m_position, s)
    BY <2>3, <2>5, <2>8
  <2>10. Kept(d, pos, e)
    <3>1. pos + Len(e) <= c.m_position
      BY <1>2, <1>5, <2>4
    <3> HIDE DEF pos
    <3> QED BY <1>2, <1>5, <2>4, <2>5, <2>9, <3>1, KeptBefore
  <2>11. Intact(d, wrote')
    BY <1>6, <2>4, <2>7, <2>9, <2>10 DEF Intact
  <2> QED BY <1>4, <2>11
<1>8. wrote'.at \in Nat /\ wrote'.value \in Values(wrote'.kind)
  BY <1>1, <1>5, <1>6
<1> QED BY <1>7, <1>8 DEF Remembers

-----------------------------------------------------------------------------
(* Reading it back                                                           *)

LEMMA KeptAt ==
    ASSUME NEW b, NEW p \in Nat, NEW e, Len(e) \in Nat, Kept(b, p, e)
    PROVE  \A i \in 1 .. Len(e) : At(b, p + i - 1) = e[i]
<1>1. ASSUME NEW i \in 1 .. Len(e) PROVE At(b, p + i - 1) = e[i]
  <2>1. i - 1 \in 0 .. Len(e) - 1 /\ p + (i - 1) = p + i - 1 /\ (i - 1) + 1 = i
    OBVIOUS
  <2>2. At(b, p + (i - 1)) = e[(i - 1) + 1]
    BY <2>1, Zenon DEF Kept, Holds
  <2> QED BY <2>1, <2>2
<1> QED BY <1>1

\* A look at m cells or more of an array sees the bytes that are there.
LEMMA ViewIs ==
    ASSUME NEW b, Sound(b), NEW e \in Seq(Byte), Kept(b, b.m_position, e),
           NEW m \in Nat, Len(e) <= m, NEW view \in Resolved(Ahead(b, m))
    PROVE  /\ view \in Seq(Byte) /\ Len(view) \in Len(e) .. m
           /\ \A i \in 1 .. Len(e) : view[i] = e[i]
<1> DEFINE pos == b.m_position
           n == Len(e)
           z == getReadSize(b)
<1>1. /\ pos \in Nat /\ z \in Nat /\ Room(b) \in Nat /\ pos + z = b.m_size
      /\ b.m_size \in Nat /\ b.m_size <= Room(b) /\ WellFormed(b) /\ n \in Nat
  BY ReadSizeType DEF Sound
<1>2. PICK k \in 0 .. z : /\ k = (IF m < z THEN m ELSE z)
                          /\ Ahead(b, m) = Slice(b, pos, k)
  BY AheadIs
<1>3. pos + n <= b.m_size
  BY DEF Kept
<1>4. \A i \in 1 .. n : At(b, pos + i - 1) = e[i]
  <2> HIDE DEF pos
  <2>1. Kept(b, pos, e)
    BY DEF pos
  <2>2. pos \in Nat /\ Len(e) \in Nat
    BY <1>1
  <2> QED BY <2>1, <2>2, KeptAt, Zenon
<1>5. \A i \in 1 .. n : e[i] \in Byte
  OBVIOUS
<1> HIDE DEF pos, z, n
<1>6. k \in Nat /\ n <= k /\ k <= m /\ pos + k <= Room(b)
  <2>1. n <= z /\ n <= m
    BY <1>1, <1>3 DEF n
  <2> QED BY <1>1, <1>2, <2>1
<1>7. Slice(b, pos, k) \in Seq(Cell) /\ Len(Slice(b, pos, k)) = k
  BY <1>1, <1>6, SliceType
<1>8. /\ view \in Seq(Byte) /\ Len(view) = k
      /\ \A i \in 1 .. k : Slice(b, pos, k)[i] # Junk => view[i] = Slice(b, pos, k)[i]
  <2> DEFINE cells == Slice(b, pos, k)
  <2>1. cells \in Seq(Cell) /\ Len(cells) = k /\ view \in Resolved(cells)
    BY <1>2, <1>7
  <2> HIDE DEF cells
  <2>2. /\ view \in Seq(Byte) /\ Len(view) = Len(cells)
        /\ \A i \in 1 .. Len(cells) : cells[i] # Junk => view[i] = cells[i]
    BY <2>1, ResolvedType
  <2> QED BY <2>1, <2>2 DEF cells
<1>9. ASSUME NEW i \in 1 .. n PROVE view[i] = e[i]
  <2>1. i \in 1 .. k
    BY <1>1, <1>6
  <2>2. Slice(b, pos, k)[i] = e[i]
    BY <1>4, <2>1 DEF Slice
  <2>3. e[i] # Junk
    BY <1>5, ByteArrayAssumption
  <2> QED BY <1>8, <2>1, <2>2, <2>3
<1>10. Len(view) \in n .. m
  BY <1>1, <1>6, <1>8
<1> QED BY <1>8, <1>9, <1>10 DEF n

LEMMA LeadFixed ==
    ASSUME NEW b, Sound(b), NEW e \in Seq(Byte), Kept(b, b.m_position, e),
           NEW view \in Resolved(Ahead(b, Len(e)))
    PROVE  view = e
<1>1. Len(e) \in Nat /\ Len(e) <= Len(e)
  OBVIOUS
<1>2. /\ view \in Seq(Byte) /\ Len(view) \in Len(e) .. Len(e)
      /\ \A i \in 1 .. Len(e) : view[i] = e[i]
  BY <1>1, ViewIs
<1>3. Len(view) = Len(e)
  BY <1>1, <1>2
<1> QED BY <1>2, <1>3, SeqEqual

\* A varint ends where it was written to end, whatever follows.
LEMMA LeadVarint ==
    ASSUME NEW b, Sound(b), NEW u \in Nat, u < 2 ^ Bits64, Kept(b, b.m_position, Varint(u)),
           NEW view \in Resolved(Ahead(b, Groups(Bits64)))
    PROVE  /\ VarintValue(view, Bits64) = u
           /\ view \in Seq(Byte) /\ view # <<>>
           /\ TakenOf(view, Bits64) = Len(Varint(u))
<1> DEFINE e == Varint(u)
           n == Len(e)
           ends == {i \in 1 .. Len(view) : view[i] < High}
           first(i) == \A j \in ends : i <= j
<1>1. VarintShape(u, e)
  BY VarintReads
<1> HIDE DEF e
<1>2. /\ e \in Seq(Byte) /\ n \in Nat \ {0} /\ n <= Groups(Bits64) /\ Groups(Bits64) \in Nat
      /\ \A i \in 1 .. n - 1 : ~(e[i] < High)
      /\ e[n] < High
      /\ Unvarint(e, Bits64) = u
  BY <1>1, GroupsCover DEF VarintShape
<1>3. /\ view \in Seq(Byte) /\ Len(view) \in n .. Groups(Bits64)
      /\ \A i \in 1 .. n : view[i] = e[i]
  <2>1. Kept(b, b.m_position, e)
    BY DEF e
  <2> QED BY <1>2, <2>1, ViewIs
<1> HIDE DEF n
<1>4. n \in 1 .. Len(view) /\ Len(view) \in Nat
  BY <1>2, <1>3
<1>5. n \in ends
  <2>1. n \in 1 .. n
    BY <1>2
  <2> QED BY <1>2, <1>3, <1>4, <2>1
<1>6. ASSUME NEW j \in ends PROVE n <= j
  <2> SUFFICES ASSUME ~(n <= j) PROVE FALSE
    OBVIOUS
  <2>1. j \in 1 .. n - 1 /\ j \in 1 .. n
    BY <1>2, <1>4
  <2>2. view[j] = e[j] /\ ~(e[j] < High)
    BY <1>2, <1>3, <2>1
  <2> QED BY <2>2
<1>7. TakenOf(view, Bits64) = n
  <2>1. ends # {} /\ Bits64 # Bits32
    BY <1>5, Widths
  <2>2. TakenOf(view, Bits64) = CHOOSE i \in ends : first(i)
    BY <2>1 DEF TakenOf
  <2>3. \A i \in ends : i \in Nat
    BY <1>4
  <2>4. first(n)
    BY <1>6
  <2>5. \A i \in ends : first(i) => i = n
    BY <1>2, <1>5, <1>6, <2>3
  <2> HIDE DEF ends, first
  <2>6. (CHOOSE i \in ends : first(i)) = n
    BY <1>5, <2>4, <2>5
  <2> QED BY <2>2, <2>6
<1>8. SubSeq(view, 1, n) = e
  <2> DEFINE t == SubSeq(view, 1, n)
  <2>1. 1 \in Int /\ n \in Int /\ 1 <= n /\ \A i \in 1 .. n : view[i] \in Byte
    BY <1>2, <1>3, <1>4
  <2>2. /\ t \in Seq(Byte) /\ Len(t) = n - 1 + 1
        /\ \A i \in 1 .. n - 1 + 1 : t[i] = view[1 + i - 1]
    BY <2>1, SubSeqProperties
  <2>3. n - 1 + 1 = n /\ \A i \in 1 .. n : 1 + i - 1 = i
    BY <1>2
  <2> HIDE DEF t
  <2>4. Len(t) = n /\ \A i \in 1 .. n : t[i] = e[i]
    BY <1>3, <2>2, <2>3
  <2>5. Len(t) = Len(e) /\ \A i \in 1 .. Len(e) : t[i] = e[i]
    BY <2>4 DEF n
  <2>6. t = e
    BY <1>2, <2>2, <2>5, SeqEqual
  <2> QED BY <2>6 DEF t
<1>9. VarintValue(view, Bits64) = u
  BY <1>2, <1>7, <1>8 DEF VarintValue
<1>10. view # <<>>
  BY <1>4
<1> QED BY <1>3, <1>7, <1>9, <1>10 DEF e, n

\* What a read leaves is what was there.
LEMMA KeepsRead ==
    ASSUME NEW b, Sound(b), NEW r, ReadOut(b, r)
    PROVE  Keeps(b, r.b) /\ r.b.m_size \in Nat
<1>1. ASSUME NEW n \in 0 .. getReadSize(b), MovedTo(b, r.b, b.m_position + n)
      PROVE  Keeps(b, r.b) /\ r.b.m_size \in Nat
  <2>1. b.m_size \in Nat /\ b.m_position \in Nat /\ n \in Nat
    BY ReadSizeType
  <2>2. r.b.m_size \in Nat /\ b.m_size <= r.b.m_size
    BY <1>1, <2>1 DEF MovedTo
  <2> QED BY <1>1, <2>2 DEF MovedTo, Keeps
<1>2. ASSUME Died(b, r.b) PROVE Keeps(b, r.b) /\ r.b.m_size \in Nat
  <2>1. WellFormed(r.b)
    BY <1>2 DEF Died
  <2> QED BY <1>2, <2>1, ArrayTypes DEF Died, Keeps
<1> QED BY <1>1, <1>2 DEF ReadOut

\* What is remembered, when a read at its place is about to return it.
Due(kind) ==
    /\ wrote.kind = kind /\ wrote.at = ba.m_position /\ kind \in Numbers \cup Lengthy
    /\ ExactWrites(ba, wrote) /\ Lossless(wrote)

\* The part of the invariant that round trips need.
RoundInv == ArrayInv /\ Remembers(ba, wrote) /\ RoundTrips(ba, wrote, got)

RoundNext == Remembers(ba', wrote') /\ RoundTrips(ba', wrote', got')

LEMMA TakeTrips ==
    ASSUME RoundInv, Sound(ba), NEW kind, NEW value, NEW r, Take(kind, value, r),
           ReadOut(ba, r), (Due(kind) /\ r.ok) => value = wrote.value
    PROVE  RoundNext
<1>1. ba' = r.b /\ wrote' = wrote
  BY DEF Take
<1>2. Keeps(ba, r.b) /\ r.b.m_size \in Nat
  BY KeepsRead
<1>3. Remembers(ba', wrote')
  BY <1>1, <1>2, RemembersOn DEF RoundInv
<1>4. CASE got' = Nothing
  BY <1>3, <1>4, NothingRead DEF RoundNext
<1>5. CASE r.ok /\ got' = [kind |-> kind, value |-> value, at |-> ba.m_position]
  <2>1. got'.kind = kind /\ got'.value = value /\ got'.at = ba.m_position
    BY <1>5
  <2>2. ExactWrites(r.b, wrote) <=> ExactWrites(ba, wrote)
    BY <1>2 DEF Keeps, ExactWrites, ExactIn
  <2>3. RoundTrips(ba', wrote', got')
    BY <1>1, <1>5, <2>1, <2>2 DEF RoundTrips, Due
  <2> QED BY <1>3, <2>3 DEF RoundNext
<1> QED BY <1>4, <1>5 DEF Take

\* What is due lies before the position, whole.
LEMMA DueIntact ==
    ASSUME RoundInv, Sound(ba), NEW kind, Due(kind)
    PROVE  /\ wrote.value \in Values(kind)
           /\ Kept(ba, ba.m_position, Lead(ba.m_endian, kind, wrote.value))
           /\ kind \in Lengthy =>
                Kept(ba, ba.m_position + Len(Lead(ba.m_endian, kind, wrote.value)), wrote.value)
BY DEF Due, RoundInv, Remembers, Intact, Sound

LEMMA ReadFixedTrips ==
    ASSUME RoundInv, NEW kind \in {"F8", "F32", "F64"}, ReadFixed(kind)
    PROVE  RoundNext
<1> DEFINE bits == CASE kind = "F8" -> ByteBits [] kind = "F32" -> Bits32 [] kind = "F64" -> Bits64
           n == bits \div ByteBits
           value(view) == IF kind = "F8" THEN Digits(view, ByteBits) ELSE Unfixed(ba.m_endian, view)
<1>1. n \in Nat /\ bits \in {ByteBits, Bits32, Bits64}
  <2>1. bits \in {ByteBits, Bits32, Bits64}
    OBVIOUS
  <2> HIDE DEF bits
  <2> QED BY <2>1, WidthOf
<1>2. PICK view \in Resolved(Ahead(ba, n)) : Take(kind, value(view), Read(ba, n))
  <2> HIDE DEF n
  <2> QED BY DEF ReadFixed, n
<1>3. Sound(ba)
  <2>1. ba.failed = "none"
    BY <1>2 DEF Take, Step
  <2> QED BY <2>1, SoundNow DEF Running, RoundInv
<1>4. ReadOut(ba, Read(ba, n))
  <2> HIDE DEF n
  <2> QED BY <1>1, <1>3, ReadOutOf
<1>5. ASSUME Due(kind) PROVE value(view) = wrote.value
  <2> DEFINE v == wrote.value
             e == Lead(ba.m_endian, kind, v)
  <2>1. v \in Values(kind) /\ Kept(ba, ba.m_position, e)
    BY <1>3, <1>5, DueIntact
  <2> HIDE DEF v
  <2>2. v \in Residues(bits)
    BY <2>1 DEF Values, Lengthy
  <2>3. v \in Int /\ v = v % 2 ^ bits
    <3> HIDE DEF bits
    <3> QED BY <2>2 DEF Residues
  <2>4. e = IF kind = "F8" THEN Memory(v, bits) ELSE Fixed(ba.m_endian, v, bits)
    BY DEF Lead
  <2>5. /\ Memory(v, bits) \in Seq(Byte) /\ Len(Memory(v, bits)) = n
        /\ Fixed(ba.m_endian, v, bits) \in Seq(Byte) /\ Len(Fixed(ba.m_endian, v, bits)) = n
    <3> HIDE DEF bits
    <3> QED BY <1>1, <2>3, MemoryType, FixedType
  <2> HIDE DEF n, e
  <2>6. e \in Seq(Byte) /\ Len(e) = n
    BY <2>4, <2>5
  <2>7. view = e
    BY <1>3, <2>1, <2>6, LeadFixed
  <2>8. CASE kind = "F8"
    <3>1. bits = ByteBits
      BY <2>8
    <3> HIDE DEF bits
    <3>2. Digits(Memory(v, bits), ByteBits) = v % 2 ^ bits
      BY <1>1, <2>3, MemoryDigits
    <3>3. value(view) = Digits(Memory(v, bits), ByteBits)
      BY <2>4, <2>7, <2>8
    <3> QED BY <2>3, <3>2, <3>3, Zenon DEF v
  <2>9. CASE kind # "F8"
    <3> HIDE DEF bits
    <3>1. Unfixed(ba.m_endian, Fixed(ba.m_endian, v, bits)) = v % 2 ^ bits
      BY <1>1, <2>3, FixedReads
    <3>2. value(view) = Unfixed(ba.m_endian, Fixed(ba.m_endian, v, bits))
      BY <2>4, <2>7, <2>9
    <3> QED BY <2>3, <3>1, <3>2, Zenon DEF v
  <2> QED BY <2>8, <2>9
<1> HIDE DEF n, value
<1> QED BY <1>2, <1>3, <1>4, <1>5, TakeTrips

LEMMA ReadVintTrips ==
    ASSUME RoundInv, NEW kind \in {"U32", "I32", "U64", "I64"}, ReadVint(kind)
    PROVE  RoundNext
<1> DEFINE bits == IF kind \in {"U32", "I32"} THEN Bits32 ELSE Bits64
           number(u) == CASE kind = "I32" -> DecodeZigzag32(u)
                          [] kind = "I64" -> DecodeZigzag64(u)
                          [] OTHER -> u
<1>1. PICK view \in Resolved(Ahead(ba, Groups(bits))) :
         Take(kind, number(VarintValue(view, bits)), ReadVarint(ba, view, bits))
  <2> HIDE DEF bits
  <2> QED BY DEF ReadVint, bits
<1>2. Sound(ba)
  <2>1. ba.failed = "none"
    BY <1>1 DEF Take, Step
  <2> QED BY <2>1, SoundNow DEF Running, RoundInv
<1>3. Groups(bits) \in Nat
  <2>1. bits \in Nat /\ Group \in Nat \ {0} /\ bits + Group - 1 \in Nat
    BY Widths
  <2> HIDE DEF bits
  <2> QED BY <2>1, DivBelow DEF Groups
<1>4. ReadOut(ba, ReadVarint(ba, view, bits))
  <2> HIDE DEF bits
  <2>1. Ahead(ba, Groups(bits)) \in Seq(Cell)
    BY <1>2, <1>3, AheadType
  <2>2. view \in Seq(Byte)
    BY <2>1, ResolvedType
  <2> QED BY <1>2, <2>2, ReadVarintOf
<1>5. ASSUME Due(kind) PROVE number(VarintValue(view, bits)) = wrote.value
  <2> DEFINE v == wrote.value
             e == Lead(ba.m_endian, kind, v)
  <2>1. v \in Values(kind) /\ Kept(ba, ba.m_position, e)
    BY <1>2, <1>5, DueIntact
  <2>2. kind \in {"U64", "I64"} /\ (kind = "I64" => Zigzag(v) < 2 ^ (Bits32 - 1))
    BY <1>5 DEF Due, Lossless, Numbers, Lengthy
  <2> HIDE DEF v
  <2>3. bits = Bits64 /\ Bits64 \in Nat
    BY <2>2, Widths
  <2> HIDE DEF bits
  <2>4. CASE kind = "U64"
    <3>1. v \in Int /\ v = v % 2 ^ Bits64
      BY <2>1, <2>4 DEF Values, Lengthy, Residues
    <3>2. v % 2 ^ Bits64 \in Nat /\ v % 2 ^ Bits64 < 2 ^ Bits64
      BY <2>3, <3>1, ModuloPower
    <3>3. v \in Nat /\ v < 2 ^ Bits64
      BY <3>1, <3>2, Zenon
    <3>4. e = Varint(v)
      <4>1. e = Varint(v % 2 ^ Bits64)
        BY <2>4 DEF Lead
      <4> HIDE DEF e
      <4> QED BY <3>1, <4>1, Zenon
    <3> HIDE DEF e
    <3>5. VarintValue(view, Bits64) = v
      BY <1>2, <2>1, <2>3, <3>3, <3>4, LeadVarint
    <3>6. \A u : number(u) = u
      BY <2>4
    <3> QED BY <2>3, <3>5, <3>6, Zenon DEF v
  <2>5. CASE kind = "I64"
    <3>1. v \in Int
      BY <2>1, <2>5 DEF Values, Lengthy
    <3> DEFINE u == Zigzag(v)
    <3>2. EncodeZigzag64(v) = u /\ u \in Nat /\ u < 2 ^ Bits64 /\ DecodeZigzag64(u) = v
      BY <2>2, <2>5, <3>1, ZigzagReads
    <3>3. 2 ^ Bits64 \in Nat \ {0}
      BY <2>3, PowerPositive
    <3> HIDE DEF u
    <3>4. u % 2 ^ Bits64 = u
      BY <3>2, <3>3, ModBelow, Zenon
    <3>5. e = Varint(u)
      <4>1. e = Varint(EncodeZigzag64(v) % 2 ^ Bits64)
        BY <2>5 DEF Lead
      <4> HIDE DEF e
      <4> QED BY <3>2, <3>4, <4>1, Zenon
    <3> HIDE DEF e
    <3>6. VarintValue(view, Bits64) = u
      BY <1>2, <2>1, <2>3, <3>2, <3>5, LeadVarint
    <3>7. \A x : number(x) = DecodeZigzag64(x)
      BY <2>5
    <3> QED BY <2>3, <3>2, <3>6, <3>7, Zenon DEF v
  <2> QED BY <2>2, <2>4, <2>5
<1> HIDE DEF bits, number
<1> QED BY <1>1, <1>2, <1>4, <1>5, TakeTrips

\* The length of a string that is due, as readString* reads it.
LEMMA DueLength ==
    ASSUME RoundInv, Sound(ba), NEW kind \in Lengthy, Due(kind), NEW view,
           view \in Resolved(Ahead(ba, LookFor(kind)))
    PROVE  /\ LengthIs(kind, view) = Len(wrote.value)
           /\ LengthOf(kind, view).ok =>
                MovedTo(ba, LengthOf(kind, view).b,
                        ba.m_position + Len(Lead(ba.m_endian, kind, wrote.value)))
<1> DEFINE s == wrote.value
           e == Lead(ba.m_endian, kind, s)
           l == Len(s)
<1>1. s \in Values(kind) /\ Kept(ba, ba.m_position, e)
  BY DueIntact
<1>2. kind = "SF32" => l < 2 ^ Bits32
  BY DEF Due, Lossless
<1>3. s \in Strings
  BY <1>1 DEF Values, Lengthy
<1> HIDE DEF s
<1>4. l \in Nat /\ l \in Int /\ l < 2 ^ Bits64
  <2>1. s \in Seq(Byte) /\ Len(s) < 2 ^ Bits64
    BY <1>3, ByteArrayAssumption
  <2>2. Len(s) \in Nat
    BY <2>1
  <2> QED BY <2>1, <2>2
<1> HIDE DEF l
<1>5. CASE kind = "SVint"
  <2>1. e = Varint(l)
    BY <1>5 DEF Lead, l
  <2>2. view \in Resolved(Ahead(ba, Groups(Bits64)))
    BY <1>5 DEF LookFor
  <2> HIDE DEF e
  <2>3. /\ VarintValue(view, Bits64) = l /\ view \in Seq(Byte) /\ view # <<>>
        /\ TakenOf(view, Bits64) = Len(e)
    BY <1>1, <1>4, <2>1, <2>2, LeadVarint
  <2> DEFINE r == Read(ba, Len(e))
             o == LengthOf(kind, view)
  <2>4. o.b = r.b /\ (o.ok => r.ok)
    <3> DEFINE over == \/ Len(view) = Groups(Bits64)
                       \/ Bits64 = Bits64 /\ view[TakenOf(view, Bits64)] < High
    <3>1. o = [r EXCEPT !.ok = r.ok /\ over]
      BY <1>5, <2>3 DEF LengthOf, ReadVarint
    <3>2. r = [b |-> r.b, cells |-> r.cells, ok |-> r.ok]
      BY DEF Read
    <3> HIDE DEF r, o, over
    <3> QED BY <3>1, <3>2
  <2>5. ReadDone(ba, r, Len(e))
    <3>1. Len(e) \in Nat
      BY <2>3, TakenType
    <3> QED BY <3>1, ReadStep
  <2> HIDE DEF r, o
  <2>6. o.ok => MovedTo(ba, o.b, ba.m_position + Len(e))
    BY <2>4, <2>5 DEF ReadDone
  <2> QED BY <1>5, <2>3, <2>6 DEF e, s, l, o, LengthIs
<1>6. CASE kind # "SVint"
  <2> DEFINE bits == IF kind = "SF32" THEN Bits32 ELSE Bits64
             n == bits \div ByteBits
  <2>1. e = Fixed(ba.m_endian, l, bits)
    BY <1>6 DEF Lead, l, Lengthy
  <2>2. view \in Resolved(Ahead(ba, n))
    BY <1>6 DEF LookFor
  <2>3. bits \in {ByteBits, Bits32, Bits64} /\ l < 2 ^ bits /\ bits \in Nat
    BY <1>2, <1>4, Widths
  <2>4. LengthOf(kind, view) = Read(ba, n)
    BY <1>6 DEF LengthOf
  <2> HIDE DEF bits
  <2>5. e \in Seq(Byte) /\ Len(e) = n
    BY <1>4, <2>1, <2>3, FixedType
  <2>6. Unfixed(ba.m_endian, Fixed(ba.m_endian, l, bits)) = l % 2 ^ bits
    BY <1>4, <2>3, FixedReads
  <2>7. l % 2 ^ bits = l
    <3>1. 2 ^ bits \in Nat \ {0}
      BY <2>3, PowerPositive
    <3> QED BY <1>4, <2>3, <3>1, ModBelow, Zenon
  <2> HIDE DEF n, e
  <2>8. view = e
    BY <1>1, <2>2, <2>5, LeadFixed
  <2>9. Unfixed(ba.m_endian, view) = l
    BY <2>1, <2>6, <2>7, <2>8, Zenon
  <2> DEFINE r == Read(ba, n)
  <2>10. ReadDone(ba, r, n)
    <3>1. n \in Nat
      BY <2>5
    <3> QED BY <3>1, ReadStep
  <2> HIDE DEF r
  <2>11. r.ok => MovedTo(ba, r.b, ba.m_position + Len(e))
    BY <2>5, <2>10 DEF ReadDone
  <2> QED BY <1>6, <2>4, <2>9, <2>11 DEF e, s, l, r, LengthIs
<1> QED BY <1>5, <1>6

\* Reading as many bytes as the string has, right behind its length.
LEMMA StringBehind ==
    ASSUME NEW b, Sound(b), NEW p \in Nat, NEW s \in Seq(Byte), Kept(b, p, s),
           NEW c, MovedTo(b, c, p), Read(c, Len(s)).ok
    PROVE  Read(c, Len(s)).cells = s
<1> DEFINE r == Read(c, Len(s))
<1>1. Len(s) \in Nat /\ s \in [1 .. Len(s) -> Byte]
  OBVIOUS
<1>2. Sound(c) /\ c.m_baseSize = b.m_baseSize /\ c.nodes = b.nodes /\ c.m_position = p
  BY DEF MovedTo
<1>3. ReadDone(c, r, Len(s)) /\ r.ok
  BY <1>1, <1>2, ReadStep
<1> HIDE DEF r
<1>4. r.cells = [i \in 1 .. Len(s) |-> At(c, p + i - 1)]
  BY <1>2, <1>3 DEF ReadDone
<1>5. \A i \in 1 .. Len(s) : At(b, p + i - 1) = s[i]
  BY <1>1, KeptAt
<1>6. \A a : At(c, a) = At(b, a)
  BY <1>2 DEF At
<1>7. r.cells = s
  BY <1>1, <1>4, <1>5, <1>6
<1> QED BY <1>7 DEF r

LEMMA ReadStringTrips ==
    ASSUME RoundInv, NEW kind \in {"SF32", "SF64", "SVint"}, ReadString(kind)
    PROVE  RoundNext
<1>1. ArrayInv /\ kind \in Lengthy
  BY DEF RoundInv, Lengthy
<1>2. PICK view \in Resolved(Ahead(ba, LookFor(kind))) : StringTaken(kind, view)
  BY <1>1, ReadStringTakes
<1>3. Sound(ba)
  <2>1. ba.failed = "none"
    BY <1>2 DEF StringTaken, Take, Step
  <2> QED BY <1>1, <2>1, SoundNow DEF Running
<1> DEFINE p == LengthOf(kind, view)
           r == StringRead(kind, view)
           o == StringOut(kind, view)
<1>4. CASE ~p.ok /\ Take(kind, 0, p) /\ ReadOut(ba, p)
  <2> HIDE DEF p
  <2> QED BY <1>3, <1>4, TakeTrips
<1>5. CASE p.ok /\ Take(kind, r.cells, o) /\ ReadOut(ba, o) /\ o.ok = r.ok
  <2>1. ASSUME Due(kind), o.ok PROVE r.cells = wrote.value
    <3> DEFINE s == wrote.value
               e == Lead(ba.m_endian, kind, s)
               q == ba.m_position + Len(e)
    <3>1. s \in Values(kind) /\ Kept(ba, q, s)
      BY <1>1, <1>3, <2>1, DueIntact
    <3>2. s \in Seq(Byte) /\ Len(e) \in Nat
      <4> HIDE DEF s
      <4> QED BY <1>1, <3>1, LeadFacts
    <3>3. LengthIs(kind, view) = Len(s) /\ MovedTo(ba, p.b, q)
      BY <1>1, <1>3, <1>5, <2>1, DueLength
    <3>4. r = Read(p.b, Len(s)) /\ r.ok
      BY <1>5, <2>1, <3>3 DEF StringRead
    <3>5. q \in Nat
      BY <1>3, <3>2, ReadSizeType
    <3> HIDE DEF p, q, r, s
    <3>6. r.cells = s
      BY <1>3, <3>1, <3>2, <3>3, <3>4, <3>5, StringBehind
    <3> QED BY <3>6 DEF s
  <2> HIDE DEF p, r, o
  <2> QED BY <1>3, <1>5, <2>1, TakeTrips
<1> QED BY <1>2, <1>4, <1>5 DEF StringTaken

\* The other calls that leave what was written.
LEMMA StaysTrips ==
    ASSUME RoundInv, Sound(ba), wrote' = wrote, got' \in {got, Nothing},
           ba' = ba \/ (\E p \in Nat : MovedTo(ba, ba', p)) \/ Died(ba, ba')
    PROVE  RoundNext
<1>1. Keeps(ba, ba') /\ ba'.m_size \in Nat
  <2>1. ba.m_size \in Nat
    BY ReadSizeType
  <2>2. CASE ba' = ba
    BY <2>1, <2>2 DEF Keeps
  <2>3. ASSUME NEW p \in Nat, MovedTo(ba, ba', p) PROVE Keeps(ba, ba') /\ ba'.m_size \in Nat
    <3>1. ba'.m_size \in Nat /\ ba.m_size <= ba'.m_size
      BY <2>1, <2>3 DEF MovedTo
    <3> QED BY <2>3, <3>1 DEF MovedTo, Keeps
  <2>4. CASE Died(ba, ba')
    <3>1. WellFormed(ba')
      BY <2>4 DEF Died
    <3> QED BY <2>4, <3>1, ArrayTypes DEF Died, Keeps
  <2> QED BY <2>2, <2>3, <2>4
<1>2. Remembers(ba', wrote')
  BY <1>1, RemembersOn DEF RoundInv
<1>3. RoundTrips(ba', wrote', got')
  <2>1. RoundTrips(ba', wrote, got)
    BY <1>1, RoundTripsOn DEF RoundInv
  <2> QED BY <2>1, NothingRead
<1> QED BY <1>2, <1>3 DEF RoundNext

LEMMA SeekTrips ==
    ASSUME RoundInv, Sound(ba), wrote' = wrote, got' = Nothing, NEW p \in Nat, ba' = SetPosition(ba, p)
    PROVE  RoundNext
<1>1. ba' = ba \/ MovedTo(ba, ba', p) \/ Died(ba, ba')
  BY SetPositionStep
<1> QED BY <1>1, StaysTrips

LEMMA LookTrips ==
    ASSUME RoundInv, Peek \/ WriteToFile PROVE RoundNext
<1>1. Sound(ba) /\ wrote' = wrote /\ got' = got
  BY SoundNow DEF Peek, WriteToFile, Step, Running, RoundInv
<1>2. CASE ba' = ba
  BY <1>1, <1>2, StaysTrips
<1>3. CASE /\ ba' = [ba EXCEPT !.failed = "file"]
           /\ Offset(ba) > 0 /\ getReadSize(ba) \in 1 .. ba.m_baseSize - 1
  <2>1. ba' = Gone(ba, "file")
    BY <1>3 DEF Gone
  <2>2. Died(ba, ba')
    BY <1>1, <1>3, <2>1, GoneFacts
  <2> QED BY <1>1, <2>2, StaysTrips
<1> QED BY <1>2, <1>3 DEF Peek, WriteToFile

LEMMA RoundStep == ASSUME RoundInv, Next PROVE RoundNext
<1>1. ArrayInv /\ ba.m_position \in Nat
  BY ArrayTypes DEF RoundInv, ArrayInv, TypeOK
<1>2. ASSUME wrote'.kind \notin Numbers \cup Lengthy PROVE RoundNext
  BY <1>2, OthersWritten DEF RoundNext
<1>3. ASSUME got' = Nothing, Remembers(ba', wrote') PROVE RoundNext
  BY <1>3, NothingRead DEF RoundNext
<1>4. ASSUME NEW kind \in IntegerKinds, NEW v \in Ints, WriteInteger(kind, v) PROVE RoundNext
  <2>1. v \in Int /\ got' = Nothing /\ wrote'.kind = kind
    BY <1>4, ByteArrayAssumption DEF WriteInteger, WriteAll
  <2>2. CASE kind \in Numbers
    <3>1. Remembers(ba', wrote')
      BY <1>1, <1>4, <2>1, <2>2, WroteNumber
    <3> QED BY <1>3, <2>1, <3>1
  <2>3. CASE kind \notin Numbers
    <3>1. kind \notin Numbers \cup Lengthy
      BY <1>4, <2>3 DEF IntegerKinds, Lengthy
    <3> QED BY <1>2, <2>1, <3>1
  <2> QED BY <2>2, <2>3
<1>5. ASSUME NEW kind \in StringKinds, NEW s \in Strings, WriteString(kind, s) PROVE RoundNext
  <2>1. got' = Nothing /\ wrote'.kind = kind
    BY <1>5 DEF WriteString, WriteAll
  <2>2. CASE kind \in Lengthy
    <3>1. Remembers(ba', wrote')
      BY <1>1, <1>5, <2>2, WroteString
    <3> QED BY <1>3, <2>1, <3>1
  <2>3. CASE kind \notin Lengthy
    <3>1. kind \notin Numbers \cup Lengthy
      BY <1>5, <2>3 DEF StringKinds, Numbers, Lengthy
    <3> QED BY <1>2, <2>1, <3>1
  <2> QED BY <2>2, <2>3
<1>6. ASSUME NEW kind \in {"none", "file"}, NEW value, NEW pieces, WriteAll(kind, value, pieces)
      PROVE  RoundNext
  <2>1. wrote'.kind \notin Numbers \cup Lengthy
    BY <1>6 DEF WriteAll, Numbers, Lengthy
  <2> QED BY <1>2, <2>1
<1>7. ASSUME NEW s, WriteStringF16(s) PROVE RoundNext
  BY <1>6, <1>7 DEF WriteStringF16
<1>8. ASSUME ReadFromFile PROVE RoundNext
  BY <1>6, <1>8 DEF ReadFromFile
<1>9. ASSUME NEW p \in 0 .. MaxSize, SetPos(p) PROVE RoundNext
  <2>1. Sound(ba) /\ wrote' = wrote /\ got' = Nothing /\ ba' = SetPosition(ba, p) /\ p \in Nat
    BY <1>1, <1>9, SoundNow, ByteArrayAssumption DEF SetPos, Step, Running
  <2> QED BY <2>1, SeekTrips
<1>10. ASSUME Clear \/ (\E val \in BOOLEAN : SetIsLittleEndian(val)) PROVE RoundNext
  <2>1. wrote'.kind \notin Numbers \cup Lengthy
    BY <1>10 DEF Clear, SetIsLittleEndian, Nothing, Numbers, Lengthy
  <2> QED BY <1>2, <2>1
<1>11. ASSUME NEW length, NEW came, StreamRead(length, came) PROVE RoundNext
  <2>1. wrote'.kind \notin Numbers \cup Lengthy
    BY <1>11 DEF StreamRead, Numbers, Lengthy
  <2> QED BY <1>2, <2>1
<1>12. ASSUME NEW length, NEW sent \in 0 .. MaxSize, StreamWrite(length, sent) PROVE RoundNext
  <2>1. /\ Sound(ba) /\ wrote' = wrote /\ got' = Nothing
        /\ ba' = IF sent > 0 THEN SetPosition(ba, ba.m_position + sent) ELSE ba
    BY <1>1, <1>12, SoundNow DEF StreamWrite, Step, Running
  <2>2. CASE sent > 0
    <3>1. ba.m_position + sent \in Nat /\ ba' = SetPosition(ba, ba.m_position + sent)
      BY <1>1, <2>1, <2>2, ByteArrayAssumption
    <3> QED BY <2>1, <3>1, SeekTrips
  <2>3. CASE ~(sent > 0)
    BY <2>1, <2>3, StaysTrips
  <2> QED BY <2>2, <2>3
<1> QED BY <1>4, <1>5, <1>7, <1>8, <1>9, <1>10, <1>11, <1>12,
           ReadFixedTrips, ReadVintTrips, ReadStringTrips, LookTrips, Zenon
        DEF Next, IntegerKinds, StringKinds

LEMMA RoundInvariant == Spec => []RoundInv
<1>1. Init => RoundInv
  <2> SUFFICES ASSUME Init PROVE RoundInv
    OBVIOUS
  <2>1. ArrayInv
    BY ArrayInvInit
  <2>2. wrote.kind \notin Numbers \cup Lengthy
    BY DEF Init, Nothing, Numbers, Lengthy
  <2> QED BY <2>1, <2>2, OthersWritten DEF RoundInv
<1>2. ArrayInv' /\ RoundInv /\ [Next]_vars => RoundInv'
  <2> SUFFICES ASSUME ArrayInv', RoundInv, [Next]_vars PROVE RoundInv'
    OBVIOUS
  <2>1. CASE Next
    <3>1. RoundNext
      BY <2>1, RoundStep
    <3> QED BY <3>1 DEF RoundNext, RoundInv
  <2>2. CASE UNCHANGED vars
    <3>1. ba' = ba /\ wrote' = wrote /\ got' = got
      BY <2>2 DEF vars
    <3> QED BY <3>1 DEF RoundInv
  <2> QED BY <2>1, <2>2
<1> QED BY <1>1, <1>2, ArrayInvariant, PTL DEF Spec

LEMMA RoundTripHolds == RoundInv => TypedRoundTrip
<1> SUFFICES ASSUME RoundInv, got.kind = wrote.kind, got.at = wrote.at,
                    got.kind \in {"F8", "F32", "F64", "U64", "I64", "SF32", "SF64", "SVint"},
                    Exact(wrote.at, Sizes(wrote)[1]),
                    Len(Sizes(wrote)) = 2 => Exact(wrote.at + Sizes(wrote)[1], Sizes(wrote)[2]),
                    wrote.kind = "I64" => Zigzag(wrote.value) < 2 ^ (Bits32 - 1),
                    wrote.kind = "SF32" => Len(wrote.value) < 2 ^ Bits32
             PROVE  got.value = wrote.value
  BY DEF TypedRoundTrip
<1> DEFINE kind == wrote.kind
           v == wrote.value
           e == Lead(ba.m_endian, kind, v)
<1>1. kind \in Numbers \cup Lengthy /\ v \in Values(kind)
  BY DEF RoundInv, Remembers, Numbers, Lengthy
<1>2. kind \in Numbers => Sizes(wrote) = <<Len(e)>>
  <2> SUFFICES ASSUME kind \in Numbers PROVE Sizes(wrote) = <<Len(e)>>
    OBVIOUS
  <2> DEFINE x == Encoding(kind, v)[1]
  <2>1. Sizes(wrote) = <<Len(x)>>
    <3>1. kind \in {"F8", "F32", "F64", "U64", "I64"}
      BY DEF Numbers
    <3> HIDE DEF x
    <3> QED BY <3>1 DEF Sizes, x
  <2>2. x = e
    <3>1. v \in Int /\ Encoding(kind, v) = <<Lead(ba.m_endian, kind, Value(kind, v))>>
      <4>1. v \in Int
        BY <1>1 DEF Numbers, Lengthy, Values, Residues
      <4> QED BY <4>1, EncodingIs
    <3>2. Value(kind, v) = v
      <4>1. CASE kind = "F8"
        BY <1>1, <4>1 DEF Value, Values, Residues, Lengthy
      <4>2. CASE kind = "F32"
        BY <1>1, <4>2 DEF Value, Values, Residues, Lengthy
      <4>3. CASE kind \in {"F64", "U64"}
        BY <1>1, <4>3 DEF Value, Values, Residues, Lengthy
      <4>4. CASE kind = "I64"
        BY <4>4 DEF Value
      <4> QED BY <4>1, <4>2, <4>3, <4>4 DEF Numbers
    <3> QED BY <3>1, <3>2
  <2> HIDE DEF x, e
  <2> QED BY <2>1, <2>2
<1>3. kind \in Lengthy => Sizes(wrote) = <<Len(e), Len(v)>>
  <2> SUFFICES ASSUME kind \in Lengthy PROVE Sizes(wrote) = <<Len(e), Len(v)>>
    OBVIOUS
  <2> DEFINE x == StringEncoding(kind, v)
  <2>1. Sizes(wrote) = [i \in 1 .. 2 |-> Len(x[i])]
    <3>1. kind \in {"SF32", "SF64", "SVint"}
      BY DEF Lengthy
    <3> HIDE DEF x
    <3> QED BY <3>1 DEF Sizes, x
  <2>2. x = <<e, v>>
    <3>1. v \in Strings
      BY <1>1 DEF Lengthy, Values
    <3> QED BY <3>1, StringEncodingIs
  <2> HIDE DEF x, e, v
  <2> QED BY <2>1, <2>2
<1>4. ExactWrites(ba, wrote)
  <2>1. CASE kind \in Numbers
    <3>1. kind \notin Lengthy /\ Sizes(wrote)[1] = Len(e)
      BY <1>2, <2>1 DEF Numbers, Lengthy
    <3> QED BY <3>1 DEF ExactWrites, ExactIn, Exact
  <2>2. CASE kind \in Lengthy
    <3>1. Sizes(wrote)[1] = Len(e) /\ Sizes(wrote)[2] = Len(v) /\ Len(Sizes(wrote)) = 2
      BY <1>3, <2>2
    <3> QED BY <3>1 DEF ExactWrites, ExactIn, Exact
  <2> QED BY <1>1, <2>1, <2>2
<1>5. Lossless(wrote)
  BY DEF Lossless
<1> QED BY <1>1, <1>4, <1>5 DEF RoundInv, RoundTrips

\* A typed read returns what the typed write of its kind stored at that position, for all
\* fixed-size integers, 64-bit varints and zigzags and strings with a length in front, in
\* both byte orders, if the writes started a block and fitted (bytearray.cpp:61-368).
THEOREM TypedReadsReturnWhatWasWritten == Spec => []TypedRoundTrip
<1>1. RoundInv => TypedRoundTrip
  BY RoundTripHolds
<1> QED BY <1>1, RoundInvariant, PTL
===============================================================================
