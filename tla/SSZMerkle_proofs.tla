---------------------------- MODULE SSZMerkle_proofs ----------------------------
(***************************************************************************)
(* What a claim that passes the contract's checks means, for lists of any  *)
(* depth, any beacon state and any arguments: it is true of the state, the *)
(* service's own check says the same of it, and both compute the same      *)
(* generalized indices.  The argument follows a branch downwards from the  *)
(* block root: hashes are injective, so the fold that ends in the root     *)
(* passes at every level through the node the tree has there, and can      *)
(* enter neither a leaf nor the padding; the bits of the generalized index *)
(* tell which node.  Induction over levels and bits is induction over the  *)
(* set of numbers that have a property (InSetByInduction).                 *)
(***************************************************************************)
EXTENDS SSZMerkle, FiniteSetTheorems, SequenceTheorems, WellFoundedInduction, TLAPS
-----------------------------------------------------------------------------
\* Numbers: induction, powers of two, shifts, the or of generalized indices.

\* Induction over the numbers, on the set of those that have a property.
LEMMA InSetByInduction ==
  ASSUME NEW S, 0 \in S, \A n \in Nat : n \in S => n + 1 \in S
  PROVE  \A n \in Nat : n \in S
<1> DEFINE R == OpToRel(<, Nat)
<1>1. \A x, y \in Nat : <<x, y>> \in R <=> x < y
  BY DEF OpToRel
<1>2. IsWellFoundedOn(R, Nat)
  BY NatLessThanWellFounded
<1> HIDE DEF R
<1>3. SUFFICES ASSUME Nat \ S # {} PROVE FALSE
  OBVIOUS
<1>4. PICK x \in Nat \ S : \A y \in Nat \ S : ~ (<<y, x>> \in R)
  BY <1>2, <1>3, WFMin
<1>5. x # 0 /\ x - 1 \in Nat /\ x - 1 < x /\ (x - 1) + 1 = x
  BY <1>4
<1> QED BY <1>1, <1>4, <1>5

\* The powers of two by their recurrence, out of the number of subsets of a set:
\* the provers know no more of 2^n than that it is one.
LEMMA PowerOfTwo ==
  ASSUME NEW n \in Nat
  PROVE  2^n \in Nat /\ 2^n > 0 /\ 2^0 = 1 /\ 2^(n + 1) = 2 * 2^n
<1> DEFINE A == SUBSET (1..n)
           Ax == {B \cup {n + 1} : B \in A}
           f == [B \in A |-> B \cup {n + 1}]
<1>1. \A m \in Nat : /\ IsFiniteSet(SUBSET (1..m)) /\ IsFiniteSet(1..m) /\ Cardinality(1..m) = m
                     /\ Cardinality(SUBSET (1..m)) = 2^m
  <2> TAKE m \in Nat
  <2>1. IsFiniteSet(1..m) /\ Cardinality(1..m) = m
    BY FS_Interval
  <2> QED BY <2>1, FS_SUBSET
<1>2. SUBSET (1..(n + 1)) = A \cup Ax
  <2>1. ASSUME NEW T \in SUBSET (1..(n + 1)) PROVE T \in A \cup Ax
    <3>1. CASE n + 1 \in T
      <4>1. T \ {n + 1} \in A /\ T = (T \ {n + 1}) \cup {n + 1}
        BY <3>1
      <4> QED BY <4>1
    <3>2. CASE n + 1 \notin T
      BY <3>2
    <3> QED BY <3>1, <3>2
  <2>2. ASSUME NEW T \in A \cup Ax PROVE T \in SUBSET (1..(n + 1))
    <3>1. 1..n \subseteq 1..(n + 1) /\ n + 1 \in 1..(n + 1)
      OBVIOUS
    <3> QED BY <3>1
  <2> QED BY <2>1, <2>2
<1>3. A \cap Ax = {}
  OBVIOUS
<1>4. f \in Bijection(A, Ax)
  <2>1. f \in [A -> Ax]
    OBVIOUS
  <2>2. \A B, C \in A : f[B] = f[C] => B = C
    <3> TAKE B, C \in A
    <3>1. n + 1 \notin B /\ n + 1 \notin C
      OBVIOUS
    <3> QED BY <3>1
  <2>3. \A T \in Ax : \E B \in A : f[B] = T
    OBVIOUS
  <2> QED BY <2>1, <2>2, <2>3, Zenon DEF Bijection, Injection, Surjection, IsInjective
<1>5. IsFiniteSet(Ax) /\ Cardinality(Ax) = Cardinality(A)
  <2>1. ExistsBijection(A, Ax)
    BY <1>4, Zenon DEF ExistsBijection
  <2>2. IsFiniteSet(A)
    BY <1>1
  <2> HIDE DEF A, Ax
  <2> QED BY <2>1, <2>2, FS_Bijection
<1>6. Cardinality(A \cup Ax) = Cardinality(A) + Cardinality(Ax) - Cardinality(A \cap Ax)
  BY <1>1, <1>5, FS_Union
<1>7. Cardinality(A \cap Ax) = 0 /\ Cardinality(A) \in Nat /\ Cardinality(A) = 2^n
  BY <1>1, <1>3, FS_EmptySet, FS_CardinalityType
<1>8. Cardinality(SUBSET (1..(n + 1))) = 2^(n + 1)
  <2> n + 1 \in Nat
    OBVIOUS
  <2> QED BY <1>1, Zenon
<1>9. 2^n # 0
  <2>1. A # {}
    OBVIOUS
  <2> QED BY <2>1, <1>1, <1>7, FS_EmptySet
<1>10. 2^0 = 1
  OBVIOUS
<1> DEFINE c == Cardinality(A)
<1> HIDE DEF A, Ax, f
<1>14. Cardinality(A \cup Ax) = Cardinality(A) + Cardinality(A)
  BY <1>5, <1>6, <1>7
<1>11. Cardinality(SUBSET (1..(n + 1))) = c + c /\ c \in Nat
  BY <1>2, <1>7, <1>14
<1>12. c = 2^n /\ c # 0 /\ c + c = 2^(n + 1)
  BY <1>7, <1>8, <1>9, <1>11, Zenon
<1> HIDE DEF c
<1>13. c > 0 /\ c + c = 2 * c
  BY <1>11, <1>12
<1> QED BY <1>10, <1>11, <1>12, <1>13, Zenon

\* A right shift by one more bit halves once more, and the bit shifted out is the
\* remainder: what verifyProof's index does level by level.
LEMMA Halves ==
  ASSUME NEW g \in Nat
  PROVE  /\ g \div 2^0 = g
         /\ \A k \in Nat : /\ g \div 2^k \in Nat
                           /\ g \div 2^(k + 1) = (g \div 2^k) \div 2
                           /\ g \div 2^k = 2 * (g \div 2^(k + 1)) + ((g \div 2^k) % 2)
                           /\ (g \div 2^k) % 2 \in {0, 1}
<1>1. g \div 2^0 = g
  OBVIOUS
<1>2. ASSUME NEW k \in Nat
      PROVE  /\ g \div 2^k \in Nat
             /\ g \div 2^(k + 1) = (g \div 2^k) \div 2
             /\ g \div 2^k = 2 * (g \div 2^(k + 1)) + ((g \div 2^k) % 2)
             /\ (g \div 2^k) % 2 \in {0, 1}
  <2> DEFINE p == 2^k
  <2>1. p \in Nat /\ p > 0 /\ 2^(k + 1) = 2 * p
    BY PowerOfTwo
  <2> HIDE DEF p
  <2>2. g \div p \in Nat
    BY <2>1
  <2>3. g \div (2 * p) = (g \div p) \div 2
    BY <2>1
  <2> QED BY <2>1, <2>2, <2>3 DEF p
<1> QED BY <1>1, <1>2

\* The bitwise or, as the recursive function defines it.
LEMMA OrEquation ==
  /\ Or \in [Nat -> [Nat -> Nat]]
  /\ \A a, b \in Nat :
       Or[a][b] = IF a = 0 \/ b = 0 THEN a + b
                  ELSE 2 * Or[a \div 2][b \div 2] + (IF a % 2 = 1 \/ b % 2 = 1 THEN 1 ELSE 0)
<1> DEFINE F == [Nat -> [Nat -> Nat]]
           Step(f, a, b) ==
             IF a = 0 \/ b = 0 THEN a + b
             ELSE 2 * f[a \div 2][b \div 2] + (IF a % 2 = 1 \/ b % 2 = 1 THEN 1 ELSE 0)
           Good(n) == {f \in F : \A a \in 0..n, b \in Nat : f[a][b] = Step(f, a, b)}
           Found == {n \in Nat : Good(n) # {}}
           Same == {k \in Nat : \A n, m \in Nat : \A f \in Good(n), h \in Good(m) :
                                   \A a \in 0..k : a <= n /\ a <= m => f[a] = h[a]}
<1>1. \A f \in F, a, b \in Nat : Step(f, a, b) \in Nat
  <2> TAKE f \in F, a, b \in Nat
  <2>1. a \div 2 \in Nat /\ b \div 2 \in Nat
    OBVIOUS
  <2> DEFINE v == f[a \div 2][b \div 2]
  <2>2. v \in Nat
    BY <2>1
  <2> HIDE DEF v
  <2>3. (IF a = 0 \/ b = 0 THEN a + b
         ELSE 2 * v + (IF a % 2 = 1 \/ b % 2 = 1 THEN 1 ELSE 0)) \in Nat
    BY <2>2
  <2> QED BY <2>3 DEF v
<1>2. 0 \in Found
  <2> DEFINE z == [a \in Nat |-> [b \in Nat |-> a + b]]
  <2>1. z \in F
    OBVIOUS
  <2>2. \A a \in 0..0, b \in Nat : z[a][b] = Step(z, a, b)
    OBVIOUS
  <2> HIDE DEF z, Step
  <2>3. z \in Good(0) /\ 0 \in Nat
    BY <2>1, <2>2
  <2> HIDE DEF Good
  <2> QED BY <2>3
<1>3. ASSUME NEW n \in Nat, n \in Found PROVE n + 1 \in Found
  <2>1. PICK f \in F : \A a \in 0..n, b \in Nat : f[a][b] = Step(f, a, b)
    BY <1>3
  <2> DEFINE g == [a \in Nat |-> [b \in Nat |-> Step(f, a, b)]]
  <2>2. g \in F
    BY <1>1
  <2>3. \A a \in 0..n, b \in Nat : g[a][b] = f[a][b]
    BY <2>1
  <2>4. ASSUME NEW a \in 0..(n + 1), NEW b \in Nat PROVE g[a][b] = Step(g, a, b)
    <3>1. a \in Nat /\ g[a][b] = Step(f, a, b)
      OBVIOUS
    <3>2. CASE a = 0 \/ b = 0
      BY <3>1, <3>2
    <3>3. CASE a # 0 /\ b # 0
      <4>1. a \div 2 \in 0..n /\ b \div 2 \in Nat
        BY <3>3
      <4>2. g[a \div 2][b \div 2] = f[a \div 2][b \div 2]
        BY <4>1, <2>3
      <4> HIDE DEF g
      <4> QED BY <3>1, <3>3, <4>2
    <3> QED BY <3>2, <3>3
  <2> HIDE DEF g
  <2>5. g \in Good(n + 1)
    BY <2>2, <2>4
  <2> HIDE DEF Good, Step
  <2> QED BY <2>5
<1>4. \A n \in Nat : n \in Found
  <2> HIDE DEF Found
  <2> QED BY <1>2, <1>3, InSetByInduction
<1>5. 0 \in Same
  <2> SUFFICES ASSUME NEW n \in Nat, NEW m \in Nat, NEW f \in Good(n), NEW h \in Good(m),
                      NEW a \in 0..0
               PROVE  f[a] = h[a]
    <3> HIDE DEF Good
    <3> QED OBVIOUS
  <2>1. f \in F /\ h \in F /\ a = 0 /\ a \in Nat /\ a \in 0..n /\ a \in 0..m
    OBVIOUS
  <2>2. \A b \in Nat : f[a][b] = Step(f, a, b) /\ h[a][b] = Step(h, a, b)
    <3> HIDE DEF Step
    <3> QED BY <2>1
  <2>3. f[a] \in [Nat -> Nat] /\ h[a] \in [Nat -> Nat]
    BY <2>1
  <2>4. \A b \in Nat : f[a][b] = h[a][b]
    BY <2>1, <2>2
  <2> QED BY <2>3, <2>4
<1>6. ASSUME NEW k \in Nat, k \in Same PROVE k + 1 \in Same
  <2> SUFFICES ASSUME NEW n \in Nat, NEW m \in Nat, NEW f \in Good(n), NEW h \in Good(m),
                      NEW a \in 0..(k + 1), a <= n, a <= m
               PROVE  f[a] = h[a]
    <3> HIDE DEF Good
    <3> QED OBVIOUS
  <2>1. f \in F /\ h \in F /\ a \in Nat /\ a \in 0..n /\ a \in 0..m
    OBVIOUS
  <2>2. f[a] \in [Nat -> Nat] /\ h[a] \in [Nat -> Nat]
    BY <2>1
  <2>3. ASSUME NEW b \in Nat PROVE f[a][b] = h[a][b]
    <3>1. f[a][b] = Step(f, a, b) /\ h[a][b] = Step(h, a, b)
      BY <2>1
    <3>2. CASE a = 0 \/ b = 0
      BY <3>1, <3>2
    <3>3. CASE a # 0 /\ b # 0
      <4>1. a \div 2 \in 0..k /\ a \div 2 <= n /\ a \div 2 <= m
        BY <3>3
      <4>2. f[a \div 2] = h[a \div 2]
        BY <4>1, <1>6
      <4> QED BY <3>1, <3>3, <4>2
    <3> QED BY <3>2, <3>3
  <2> HIDE DEF Good, F
  <2> QED BY <2>2, <2>3
<1>7. \A k \in Nat : k \in Same
  <2> HIDE DEF Same
  <2> QED BY <1>5, <1>6, InSetByInduction
<1> DEFINE pick(a) == CHOOSE f : f \in Good(a)
           G == [a \in Nat |-> pick(a)[a]]
<1>8. \A a \in Nat : pick(a) \in Good(a)
  BY <1>4
<1>9. G \in F
  <2> SUFFICES ASSUME NEW a \in Nat PROVE pick(a)[a] \in [Nat -> Nat]
    OBVIOUS
  <2>1. pick(a) \in F
    BY <1>8
  <2> HIDE DEF pick
  <2> QED BY <2>1
<1>10. ASSUME NEW a \in Nat, NEW b \in Nat PROVE G[a][b] = Step(G, a, b)
  <2> DEFINE f == pick(a)
  <2>1. f \in Good(a) /\ a \in 0..a
    <3> HIDE DEF Good, pick
    <3> QED BY <1>8
  <2> HIDE DEF pick, f
  <2>2. f[a][b] = Step(f, a, b)
    BY <2>1
  <2>3. CASE a = 0 \/ b = 0
    BY <2>2, <2>3 DEF f
  <2>4. CASE a # 0 /\ b # 0
    <3> DEFINE h == a \div 2
    <3>1. h \in Nat /\ h <= a /\ h \in 0..h
      OBVIOUS
    <3>2. pick(h) \in Good(h)
      BY <1>8, <3>1
    <3>3. f[h] = pick(h)[h]
      <4> HIDE DEF h, Good
      <4> QED BY <3>1, <3>2, <2>1, <1>7
    <3> QED BY <2>2, <2>4, <3>1, <3>3 DEF f
  <2> QED BY <2>3, <2>4
<1> HIDE DEF G
<1>11. G = [a \in Nat |-> [b \in Nat |-> Step(G, a, b)]]
  <2>1. \A a \in Nat : G[a] = [b \in Nat |-> Step(G, a, b)]
    <3> TAKE a \in Nat
    <3>1. G[a] \in [Nat -> Nat]
      BY <1>9
    <3> HIDE DEF Step
    <3> QED BY <1>10, <3>1
  <2> HIDE DEF Step
  <2> QED BY <1>9, <2>1
<1>12. Or = [a \in Nat |-> [b \in Nat |-> Step(Or, a, b)]]
  BY <1>11, Zenon DEF Or
<1> DEFINE Typed == {k \in Nat : \A a \in 0..k : Or[a] \in [Nat -> Nat]}
<1>13. Or \in F
  <2>1. 0 \in Typed
    <3>1. Or[0] = [b \in Nat |-> b]
      BY <1>12
    <3> QED BY <3>1
  <2>2. ASSUME NEW k \in Nat, k \in Typed PROVE k + 1 \in Typed
    <3>1. SUFFICES ASSUME NEW b \in Nat PROVE Step(Or, k + 1, b) \in Nat
      <4>1. Or[k + 1] = [b \in Nat |-> Step(Or, k + 1, b)]
        <5> HIDE DEF Step
        <5> QED BY <1>12
      <4>2. Or[k + 1] \in [Nat -> Nat]
        <5> HIDE DEF Step
        <5> QED BY <3>1, <4>1
      <4> QED BY <2>2, <4>2
    <3> DEFINE v == Or[(k + 1) \div 2][b \div 2]
    <3>2. (k + 1) \div 2 \in 0..k /\ b \div 2 \in Nat
      OBVIOUS
    <3>3. v \in Nat
      BY <2>2, <3>2
    <3> HIDE DEF v
    <3>4. (IF k + 1 = 0 \/ b = 0 THEN k + 1 + b
           ELSE 2 * v + (IF (k + 1) % 2 = 1 \/ b % 2 = 1 THEN 1 ELSE 0)) \in Nat
      BY <3>3
    <3> QED BY <3>4 DEF v
  <2>3. \A k \in Nat : k \in Typed
    <3> HIDE DEF Typed
    <3> QED BY <2>1, <2>2, InSetByInduction
  <2>4. \A a \in Nat : Or[a] \in [Nat -> Nat]
    BY <2>3
  <2> HIDE DEF Step
  <2> QED BY <1>12, <2>4
<1>14. \A a, b \in Nat : Or[a][b] = Step(Or, a, b)
  <2> HIDE DEF Step
  <2> QED BY <1>12
<1> QED BY <1>13, <1>14

\* Shifting by m + n bits multiplies as shifting by m and then by n does.
LEMMA PowerOfSum ==
  ASSUME NEW m \in Nat, NEW n \in Nat
  PROVE  2^(m + n) = 2^m * 2^n
<1> DEFINE S == {k \in Nat : 2^(m + k) = 2^m * 2^k}
<1>1. 0 \in S
  <2>1. m + 0 = m /\ 2^m \in Nat /\ 2^0 = 1
    BY PowerOfTwo
  <2> QED BY <2>1
<1>2. ASSUME NEW k \in Nat, k \in S PROVE k + 1 \in S
  <2> DEFINE p == 2^m
             q == 2^k
             r == 2^(m + k)
  <2>1. p \in Nat /\ q \in Nat /\ r \in Nat /\ 2^(k + 1) = 2 * q /\ 2^((m + k) + 1) = 2 * r
    BY PowerOfTwo
  <2>2. r = p * q /\ m + (k + 1) = (m + k) + 1
    BY <1>2
  <2> HIDE DEF p, q, r
  <2>3. 2 * r = p * (2 * q)
    BY <2>1, <2>2
  <2> QED BY <2>1, <2>2, <2>3 DEF p
<1> HIDE DEF S
<1>3. \A k \in Nat : k \in S
  BY <1>1, <1>2, InSetByInduction
<1> QED BY <1>3 DEF S

\* A quotient is unique.
LEMMA Divided ==
  ASSUME NEW d \in Nat, d > 0, NEW q \in Nat, NEW r \in Nat, r < d
  PROVE  (d * q + r) \div d = q
<1> DEFINE x == d * q + r
           y == x \div d
<1>1. x \in Nat /\ d * q \in Nat
  OBVIOUS
<1>2. y \in Nat /\ d * y <= x /\ x < d * y + d
  <2> HIDE DEF x
  <2> QED BY <1>1
<1> HIDE DEF y
<1>3. ~ (y < q)
  <2> SUFFICES ASSUME y < q PROVE FALSE
    OBVIOUS
  <2>1. y + 1 <= q
    BY <1>2
  <2>2. d * (y + 1) <= d * q
    BY <2>1, <1>2
  <2>3. d * (y + 1) = d * y + d
    BY <1>2
  <2> QED BY <1>1, <1>2, <2>2, <2>3
<1>4. ~ (q < y)
  <2> SUFFICES ASSUME q < y PROVE FALSE
    OBVIOUS
  <2>1. q + 1 <= y
    BY <1>2
  <2>2. d * (q + 1) <= d * y
    BY <2>1, <1>2
  <2>3. d * (q + 1) = d * q + d
    OBVIOUS
  <2> QED BY <1>1, <1>2, <2>2, <2>3
<1> QED BY <1>2, <1>3, <1>4 DEF y

\* The low bits of a number, and that a number below 2^n has none above them.
LEMMA Remainder ==
  ASSUME NEW g \in Nat, NEW n \in Nat
  PROVE  /\ g \div 2^n \in Nat
         /\ g - 2^n * (g \div 2^n) \in 0..2^n - 1
         /\ g < 2^n => g \div 2^n = 0
<1> DEFINE p == 2^n
<1>1. p \in Nat /\ p > 0
  BY PowerOfTwo
<1> HIDE DEF p
<1>2. g \div p \in Nat /\ p * (g \div p) <= g /\ g < p * (g \div p) + p
  BY <1>1
<1>3. g < p => g \div p = 0
  BY <1>1
<1>4. g - p * (g \div p) \in 0..p - 1
  <2> DEFINE z == p * (g \div p)
  <2>1. z \in Nat
    BY <1>1, <1>2
  <2> HIDE DEF z
  <2> QED BY <1>1, <1>2, <2>1 DEF z
<1> QED BY <1>2, <1>3, <1>4 DEF p

\* Shifting right by m and then by n bits shifts by m + n.
LEMMA Shifts ==
  ASSUME NEW g \in Nat, NEW m \in Nat, NEW n \in Nat
  PROVE  g \div 2^(m + n) = (g \div 2^m) \div 2^n
<1> DEFINE p == 2^m
           q == 2^n
<1>1. p \in Nat /\ p > 0 /\ q \in Nat /\ q > 0 /\ 2^(m + n) = p * q
  BY PowerOfTwo, PowerOfSum
<1> DEFINE x == g \div p
           y == x \div q
<1>2. x \in Nat /\ g - p * x \in 0..p - 1
  BY Remainder
<1>3. y \in Nat /\ x - q * y \in 0..q - 1
  BY <1>2, Remainder
<1> HIDE DEF p, q, x, y
<1>4. PICK a \in 0..p - 1 : g = p * x + a
  <2>1. p * x \in Nat
    BY <1>1, <1>2
  <2> QED BY <1>2, <2>1
<1>5. PICK b \in 0..q - 1 : x = q * y + b
  <2>1. q * y \in Nat
    BY <1>1, <1>3
  <2> QED BY <1>3, <2>1, <1>2
<1>6. p * (b + 1) <= p * q
  <2>1. b + 1 <= q /\ b + 1 \in Nat
    BY <1>1
  <2> QED BY <2>1, <1>1
<1>7. p * (b + 1) = p * b + p /\ p * b \in Nat
  BY <1>1
<1>8. p * b + a \in Nat /\ p * b + a < p * q
  BY <1>1, <1>6, <1>7
<1>9. g = (p * q) * y + (p * b + a)
  <2>1. p * (q * y + b) = (p * q) * y + p * b
    BY <1>1, <1>3
  <2> QED BY <1>1, <1>3, <1>4, <1>5, <2>1
<1>10. p * q \in Nat /\ p * q > 0
  BY <1>1
<1>11. g \div (p * q) = y
  BY <1>3, <1>8, <1>9, <1>10, Divided
<1> QED BY <1>1, <1>11 DEF p, q, x, y

\* The or of two numbers bit by bit.
LEMMA OrBits ==
  ASSUME NEW a \in Nat, NEW b \in Nat
  PROVE  /\ Or[a][b] \in Nat
         /\ Or[a][b] \div 2 = Or[a \div 2][b \div 2]
         /\ Or[a][b] % 2 = 1 <=> a % 2 = 1 \/ b % 2 = 1
         /\ Or[a][0] = a /\ Or[0][b] = b
<1> DEFINE h == Or[a \div 2][b \div 2]
<1>1. Or[a][b] \in Nat /\ h \in Nat
  <2>1. a \div 2 \in Nat /\ b \div 2 \in Nat
    OBVIOUS
  <2> QED BY <2>1, OrEquation
<1>2. Or[a][0] = a /\ Or[0][b] = b
  <2>1. Or[a][0] = a + 0 /\ Or[0][b] = 0 + b
    BY OrEquation
  <2> QED BY <2>1
<1>3. CASE a = 0 \/ b = 0
  <2>1. a \div 2 \in Nat /\ b \div 2 \in Nat /\ (a = 0 => a \div 2 = 0) /\ (b = 0 => b \div 2 = 0)
    OBVIOUS
  <2>2. h = (a \div 2) + (b \div 2) /\ Or[a][b] = a + b
    BY <1>3, <2>1, OrEquation
  <2> HIDE DEF h
  <2>3. CASE a = 0
    BY <2>1, <2>2, <2>3, <1>2 DEF h
  <2>4. CASE b = 0
    BY <2>1, <2>2, <2>4, <1>2 DEF h
  <2> QED BY <1>3, <2>3, <2>4
<1>4. CASE a # 0 /\ b # 0
  <2>1. Or[a][b] = 2 * h + (IF a % 2 = 1 \/ b % 2 = 1 THEN 1 ELSE 0)
    BY <1>4, OrEquation
  <2> HIDE DEF h
  <2>2. Or[a][b] \div 2 = h /\ (Or[a][b] % 2 = 1 <=> a % 2 = 1 \/ b % 2 = 1)
    BY <1>1, <2>1
  <2> QED BY <1>1, <1>2, <2>2 DEF h
<1> QED BY <1>3, <1>4

\* gindex << n | i: the low bits are those of i, and what i has beyond them is or-ed
\* into gindex; an index within its list leaves gindex as it is.
LEMMA ShiftOrValue ==
  ASSUME NEW g \in Nat, NEW n \in Nat, NEW i \in Nat
  PROVE  /\ ShiftOr(g, n, i) \in Nat
         /\ ShiftOr(g, n, i) = 2^n * Or[g][i \div 2^n] + (i - 2^n * (i \div 2^n))
         /\ ShiftOr(g, n, i) \div 2^n = Or[g][i \div 2^n]
         /\ i < 2^n => ShiftOr(g, n, i) = 2^n * g + i
<1> DEFINE Law(m, j) == Or[g * 2^m][j] = 2^m * Or[g][j \div 2^m] + (j - 2^m * (j \div 2^m))
           S == {m \in Nat : \A j \in Nat : Law(m, j)}
<1>1. 0 \in S
  <2> SUFFICES ASSUME NEW j \in Nat PROVE Law(0, j)
    OBVIOUS
  <2>1. 2^0 = 1 /\ j \div 1 = j /\ g * 1 = g /\ Or[g][j] \in Nat
    BY OrBits
  <2> QED BY <2>1
<1>2. ASSUME NEW m \in Nat, m \in S PROVE m + 1 \in S
  <2> SUFFICES ASSUME NEW j \in Nat PROVE Law(m + 1, j)
    OBVIOUS
  <2> DEFINE p == 2^m
             q == j \div 2^(m + 1)
             t == Or[g][q]
             h == j \div 2
             x == g * 2^(m + 1)
             o == Or[x][j]
  <2>1. p \in Nat /\ p > 0 /\ 2^(m + 1) = 2 * p
    BY PowerOfTwo
  <2>2. h \in Nat /\ q \in Nat /\ h \div p = q /\ j = 2 * h + (j % 2) /\ j % 2 \in {0, 1}
    <3>1. 2^1 = 2 /\ 1 + m = m + 1
      OBVIOUS
    <3>2. j \div 2^(1 + m) = (j \div 2^1) \div 2^m
      BY Shifts
    <3>3. h \in Nat /\ j = 2 * h + (j % 2) /\ j % 2 \in {0, 1}
      OBVIOUS
    <3>4. h \div p \in Nat
      BY <3>3, Remainder
    <3> QED BY <3>1, <3>2, <3>3, <3>4
  <2>3. Or[g * p][h] = p * t + (h - p * q)
    BY <1>2, <2>2
  <2>4. x \in Nat /\ x \div 2 = g * p /\ x % 2 = 0
    <3> DEFINE y == g * p
    <3>1. y \in Nat /\ x = 2 * y
      BY <2>1
    <3> HIDE DEF x, y
    <3> QED BY <3>1 DEF y
  <2>5. o \in Nat /\ o \div 2 = Or[g * p][h] /\ (o % 2 = 1 <=> j % 2 = 1)
    <3>1. j % 2 \in {0, 1} /\ ~(0 = 1)
      OBVIOUS
    <3>2. o \in Nat /\ o \div 2 = Or[x \div 2][h] /\ (o % 2 = 1 <=> x % 2 = 1 \/ j % 2 = 1)
      BY <2>4, OrBits
    <3> HIDE DEF o, h, x
    <3> QED BY <3>2, <2>4
  <2>6. t \in Nat
    BY <2>2, OrBits
  <2> HIDE DEF o, p, q, t, h, x
  <2>7. o = 2 * (p * t + (h - p * q)) + (j % 2)
    <3>1. o % 2 = j % 2 /\ o = 2 * (o \div 2) + (o % 2)
      BY <2>2, <2>5
    <3> QED BY <2>3, <2>5, <3>1
  <2> DEFINE pt == p * t
             pq == p * q
  <2>8. pt \in Nat /\ pq \in Nat /\ (2 * p) * t = 2 * pt /\ (2 * p) * q = 2 * pq
    BY <2>1, <2>2, <2>6
  <2>9. o = 2 * (pt + (h - pq)) + (j % 2)
    BY <2>7
  <2> HIDE DEF pt, pq
  <2>10. o = 2 * pt + (j - 2 * pq)
    BY <2>2, <2>8, <2>9
  <2>11. o = (2 * p) * t + (j - (2 * p) * q)
    BY <2>8, <2>10
  <2> QED BY <2>1, <2>11 DEF o, q, t, x
<1> HIDE DEF S
<1>3. n \in S
  BY <1>1, <1>2, InSetByInduction
<1> USE DEF S
<1>4. ShiftOr(g, n, i) = 2^n * Or[g][i \div 2^n] + (i - 2^n * (i \div 2^n))
  BY <1>3 DEF ShiftOr
<1> DEFINE p == 2^n
           r == i - p * (i \div p)
           t == Or[g][i \div p]
<1>5. p \in Nat /\ p > 0 /\ i \div p \in Nat /\ r \in 0..p - 1 /\ (i < p => i \div p = 0)
  BY Remainder, PowerOfTwo
<1>6. t \in Nat /\ (i < p => t = g)
  BY <1>5, OrBits
<1>7. i < p => r = i
  BY <1>5
<1>8. ShiftOr(g, n, i) = p * t + r
  BY <1>4
<1> HIDE DEF p, r, t
<1>9. p * t + r \in Nat /\ (p * t + r) \div p = t
  BY <1>5, <1>6, Divided
<1> QED BY <1>5, <1>6, <1>7, <1>8, <1>9 DEF p, r, t

\* g >> n.  (Opaque to the provers, which lose themselves in powers and quotients.)
Shr(g, n) == g \div 2^n

\* A shift by no bits.
LEMMA ShrZero ==
  ASSUME NEW g, g \in Nat
  PROVE  Shr(g, 0) = g
BY Halves DEF Shr

\* Shifts of numbers are numbers.
LEMMA ShrType ==
  ASSUME NEW g, NEW n, g \in Nat, n \in Nat
  PROVE  Shr(g, n) \in Nat
BY Halves DEF Shr

\* Two shifts are one.
LEMMA ShrSum ==
  ASSUME NEW g, NEW m, NEW n, g \in Nat, m \in Nat, n \in Nat
  PROVE  Shr(g, m + n) = Shr(Shr(g, m), n)
BY Shifts DEF Shr

\* The last of n + 1 shifts ...
LEMMA ShrUp ==
  ASSUME NEW g, NEW n, g \in Nat, n \in Nat
  PROVE  Shr(g, n + 1) = Shr(g, n) \div 2
BY Halves DEF Shr

\* ... and the first.
LEMMA ShrDown ==
  ASSUME NEW g, NEW n, g \in Nat, n \in Nat
  PROVE  Shr(g, n + 1) = Shr(g \div 2, n)
<1>1. 0 \in Nat /\ 0 + 1 = 1 /\ n + 1 = 1 + n /\ 1 \in Nat
  OBVIOUS
<1>2. Shr(g, 1) = g \div 2
  BY <1>1, ShrZero, ShrUp
<1>3. Shr(g, 1 + n) = Shr(Shr(g, 1), n)
  <2> DEFINE m == 1
  <2>1. m \in Nat
    OBVIOUS
  <2> HIDE DEF m
  <2>2. Shr(g, m + n) = Shr(Shr(g, m), n)
    BY <2>1, ShrSum
  <2> QED BY <2>2 DEF m
<1> QED BY <1>1, <1>2, <1>3

\* A number by the bit shifted out and the rest.
LEMMA ShrHalf ==
  ASSUME NEW g, NEW n, g \in Nat, n \in Nat
  PROVE  /\ Shr(g, n) = 2 * Shr(g, n + 1) + (Shr(g, n) % 2)
         /\ Shr(g, n) % 2 \in {0, 1}
<1>1. Shr(g, n) \in Nat /\ Shr(g, n + 1) = Shr(g, n) \div 2
  BY ShrType, ShrUp
<1> QED BY <1>1

\* 2^n, opaque like the shift.
Pow(n) == 2^n

\* Powers are positive numbers.
LEMMA PowType ==
  ASSUME NEW n, n \in Nat
  PROVE  Pow(n) \in Nat /\ Pow(n) > 0
BY PowerOfTwo DEF Pow

\* The next power.
LEMMA PowStep ==
  ASSUME NEW n, n \in Nat
  PROVE  Pow(n + 1) = 2 * Pow(n)
BY PowerOfTwo DEF Pow

\* The product of two powers.
LEMMA PowSum ==
  ASSUME NEW m, NEW n, m \in Nat, n \in Nat
  PROVE  Pow(m + n) = Pow(m) * Pow(n)
BY PowerOfSum DEF Pow

\* The powers the real depths of the contract need.
LEMMA PowValues == Pow(0) = 1 /\ Pow(1) = 2 /\ Pow(3) = 8 /\ Pow(6) = 64
BY DEF Pow

\* A shift is a quotient, and its remainder is below the power.
LEMMA ShrValue ==
  ASSUME NEW g, NEW n, g \in Nat, n \in Nat
  PROVE  /\ Shr(g, n) = g \div Pow(n)
         /\ g - Pow(n) * Shr(g, n) \in 0..Pow(n) - 1
         /\ g < Pow(n) => Shr(g, n) = 0
BY Remainder DEF Shr, Pow

\* Shifting out the low bits leaves the high ones.
LEMMA ShrOfSum ==
  ASSUME NEW q, NEW r, NEW n, q \in Nat, r \in Nat, n \in Nat, r < Pow(n)
  PROVE  Pow(n) * q + r \in Nat /\ Shr(Pow(n) * q + r, n) = q
<1> DEFINE p == Pow(n)
<1>1. p \in Nat /\ p > 0
  BY PowType
<1> HIDE DEF p
<1>2. p * q + r \in Nat /\ (p * q + r) \div p = q
  BY <1>1, Divided DEF p
<1> QED BY <1>2, ShrValue DEF p

\* ShiftOr by its high and its low bits.
LEMMA ShiftOrShr ==
  ASSUME NEW g, NEW n, NEW i, g \in Nat, n \in Nat, i \in Nat
  PROVE  /\ ShiftOr(g, n, i) \in Nat /\ Shr(ShiftOr(g, n, i), n) = Or[g][Shr(i, n)]
         /\ ShiftOr(g, n, i) = Pow(n) * Or[g][Shr(i, n)] + (i - Pow(n) * Shr(i, n))
BY ShiftOrValue DEF Shr, Pow

\* For an index within its list ShiftOr is a sum.
LEMMA ShiftOrSum ==
  ASSUME NEW g, NEW n, NEW i, g \in Nat, n \in Nat, i \in Nat, i < Pow(n)
  PROVE  ShiftOr(g, n, i) = Pow(n) * g + i
BY ShiftOrValue DEF Pow

\* The place of a node's ancestor chain in a tree of that depth: the bits of the
\* generalized index from bit a on.
Place(g, a, depth) == Shr(g, a) - Pow(depth) * Shr(g, a + depth)

\* A place is one of the tree's leaves ...
LEMMA PlaceRange ==
  ASSUME NEW g, NEW a, NEW depth, g \in Nat, a \in Nat, depth \in Nat
  PROVE  /\ Place(g, a, depth) \in 0..Pow(depth) - 1
         /\ Place(g, a, depth) = Shr(g, a) - Pow(depth) * Shr(Shr(g, a), depth)
<1> DEFINE x == Shr(g, a)
<1>1. x \in Nat /\ Shr(g, a + depth) = Shr(x, depth)
  BY ShrType, ShrSum
<1> HIDE DEF x
<1>2. x - Pow(depth) * Shr(x, depth) \in 0..Pow(depth) - 1
  BY <1>1, ShrValue
<1>3. Place(g, a, depth) = x - Pow(depth) * Shr(x, depth)
  BY <1>1 DEF Place, x
<1> QED BY <1>2, <1>3 DEF x

\* ... as a number.
LEMMA PlaceType ==
  ASSUME NEW g, NEW a, NEW depth, g \in Nat, a \in Nat, depth \in Nat
  PROVE  Place(g, a, depth) \in Nat /\ Place(g, a, depth) < Pow(depth)
<1> DEFINE p == Place(g, a, depth)
<1>1. Pow(depth) \in Nat
  BY PowType
<1>2. p \in 0..Pow(depth) - 1
  BY PlaceRange, Zenon
<1> HIDE DEF p
<1> QED BY <1>1, <1>2 DEF p

-----------------------------------------------------------------------------
\* Folds: a branch hashed from its leaf upwards.

\* One step of a fold: the node beside a sibling, on the side a bit of the index says.
Join(g, k, node, sibling) ==
  IF Shr(g, k) % 2 = 0 THEN HashPair(node, sibling) ELSE HashPair(sibling, node)

\* A hash of a pair, not a 32-byte chunk.
IsPair(x) == \E a, b : x = HashPair(a, b)

\* The hashes from a leaf to the root that a branch gives, at each height.
IsFold(c, leaf, branch, g) ==
  c = [k \in 0..Len(branch) |-> IF k = 0 THEN leaf ELSE Join(g, k - 1, c[k - 1], branch[k])]

\* SHA-256 is taken to have no collisions.
LEMMA HashPairInjective ==
  ASSUME NEW a, NEW b, NEW x, NEW y, HashPair(a, b) = HashPair(x, y)
  PROVE  a = x /\ b = y
BY DEF HashPair

\* A step of a fold puts the node on the left for an even bit, else on the right.
LEMMA JoinSides ==
  ASSUME NEW g, NEW k, NEW node, NEW sibling
  PROVE  /\ Shr(g, k) % 2 = 0 => Join(g, k, node, sibling) = HashPair(node, sibling)
         /\ Shr(g, k) % 2 # 0 => Join(g, k, node, sibling) = HashPair(sibling, node)
         /\ IsPair(Join(g, k, node, sibling))
BY Zenon DEF Join, IsPair

\* Equal steps of two folds have equal nodes and siblings.
LEMMA JoinInjective ==
  ASSUME NEW g, NEW k, NEW x, NEW y, NEW u, NEW v, Join(g, k, x, y) = Join(g, k, u, v)
  PROVE  x = u /\ y = v
<1>1. CASE Shr(g, k) % 2 = 0
  BY <1>1, HashPairInjective, JoinSides
<1>2. CASE Shr(g, k) % 2 # 0
  BY <1>2, HashPairInjective, JoinSides
<1> QED BY <1>1, <1>2

\* A fold starts from its leaf ...
LEMMA FoldStart ==
  ASSUME NEW leaf, NEW branch, NEW g, NEW c, Len(branch) \in Nat, IsFold(c, leaf, branch, g)
  PROVE  c[0] = leaf
<1>1. 0 \in 0..Len(branch)
  OBVIOUS
<1> QED BY <1>1 DEF IsFold

\* ... goes up one level with each sibling ...
LEMMA FoldStep ==
  ASSUME NEW leaf, NEW branch, NEW g, NEW c, Len(branch) \in Nat, IsFold(c, leaf, branch, g)
  PROVE  \A k \in 0..Len(branch) - 1 : c[k + 1] = Join(g, k, c[k], branch[k + 1])
<1> TAKE k \in 0..Len(branch) - 1
<1>1. k + 1 \in 0..Len(branch) /\ k + 1 # 0 /\ (k + 1) - 1 = k
  OBVIOUS
<1> QED BY <1>1 DEF IsFold

\* ... and is a hash of a pair from then on.
LEMMA FoldsArePairs ==
  ASSUME NEW leaf, NEW branch, NEW g, NEW c, Len(branch) \in Nat, IsFold(c, leaf, branch, g)
  PROVE  \A k \in 1..Len(branch) : IsPair(c[k])
<1> TAKE k \in 1..Len(branch)
<1> DEFINE m == k - 1
<1>1. m \in 0..Len(branch) - 1 /\ m + 1 = k
  OBVIOUS
<1> HIDE DEF m
<1>2. \A n \in 0..Len(branch) - 1 : c[n + 1] = Join(g, n, c[n], branch[n + 1])
  BY FoldStep
<1>3. c[m + 1] = Join(g, m, c[m], branch[m + 1])
  BY <1>1, <1>2
<1> QED BY <1>1, <1>3, JoinSides

\* Every branch has a fold.
LEMMA FoldExists ==
  ASSUME NEW leaf, NEW branch, NEW g, Len(branch) \in Nat
  PROVE  \E c : IsFold(c, leaf, branch, g)
<1> DEFINE Up(x, k) == Join(g, k - 1, x, branch[k])
           Fold(c, n) == c = [k \in 0..n |-> IF k = 0 THEN leaf ELSE Up(c[k - 1], k)]
           S == {n \in Nat : \E c : Fold(c, n)}
<1>1. 0 \in S
  <2>1. Fold([k \in 0..0 |-> leaf], 0)
    OBVIOUS
  <2> HIDE DEF Fold
  <2> QED BY <2>1
<1>2. ASSUME NEW n \in Nat, n \in S PROVE n + 1 \in S
  <2>1. PICK c : Fold(c, n)
    BY <1>2
  <2> DEFINE d == [k \in 0..(n + 1) |-> IF k <= n THEN c[k] ELSE Up(c[n], k)]
  <2> HIDE DEF Up
  <2>2. \A k \in 0..(n + 1) : d[k] = IF k = 0 THEN leaf ELSE Up(d[k - 1], k)
    <3> TAKE k \in 0..(n + 1)
    <3>1. CASE k = 0
      BY <2>1, <3>1
    <3>2. CASE k \in 1..n
      <4>1. k - 1 \in 0..n /\ k \in 0..n /\ d[k] = c[k] /\ d[k - 1] = c[k - 1]
        BY <3>2
      <4> QED BY <2>1, <3>2, <4>1
    <3>3. CASE k = n + 1
      <4>1. k - 1 = n /\ d[n] = c[n] /\ d[k] = Up(c[n], k)
        BY <3>3
      <4> QED BY <3>3, <4>1
    <3> QED BY <3>1, <3>2, <3>3
  <2>3. Fold(d, n + 1)
    BY <2>2
  <2> HIDE DEF Fold
  <2> QED BY <2>3
<1>3. Len(branch) \in S
  <2> HIDE DEF S
  <2> QED BY <1>1, <1>2, InSetByInduction
<1> QED BY <1>3 DEF IsFold

\* Nothing but its leaf and branch leads a fold to its end: equal ends have equal beginnings.
LEMMA FoldIsInjective ==
  ASSUME NEW leaf, NEW branch, NEW leaf2, NEW branch2, NEW g, NEW c, NEW d,
         Len(branch) \in Nat, Len(branch2) = Len(branch),
         IsFold(c, leaf, branch, g), IsFold(d, leaf2, branch2, g),
         c[Len(branch)] = d[Len(branch)]
  PROVE  /\ leaf = leaf2 /\ \A k \in 1..Len(branch) : branch[k] = branch2[k]
<1> DEFINE N == Len(branch)
           S == {n \in Nat : n <= N => c[N - n] = d[N - n]}
<1>1. 0 \in S
  OBVIOUS
<1>0. /\ \A k \in 0..N - 1 : c[k + 1] = Join(g, k, c[k], branch[k + 1])
      /\ \A k \in 0..N - 1 : d[k + 1] = Join(g, k, d[k], branch2[k + 1])
  BY FoldStep
<1>2. ASSUME NEW k \in Nat, k + 1 <= N, c[k + 1] = d[k + 1]
      PROVE  c[k] = d[k] /\ branch[k + 1] = branch2[k + 1]
  <2>0. k \in 0..N - 1
    BY <1>2
  <2>1. c[k + 1] = Join(g, k, c[k], branch[k + 1])
    BY <1>0, <2>0
  <2>2. d[k + 1] = Join(g, k, d[k], branch2[k + 1])
    BY <1>0, <2>0
  <2> DEFINE x == c[k]
             y == branch[k + 1]
             u == d[k]
             v == branch2[k + 1]
  <2>3. Join(g, k, x, y) = Join(g, k, u, v)
    BY <1>2, <2>1, <2>2
  <2> HIDE DEF x, y, u, v
  <2>4. x = u /\ y = v
    BY <2>3, JoinInjective
  <2> QED BY <2>4 DEF x, y, u, v
<1>3. ASSUME NEW n \in Nat, n \in S PROVE n + 1 \in S
  <2> SUFFICES ASSUME n + 1 <= N PROVE c[N - (n + 1)] = d[N - (n + 1)]
    OBVIOUS
  <2> DEFINE k == N - (n + 1)
  <2>1. k \in Nat /\ k + 1 = N - n /\ k + 1 <= N
    OBVIOUS
  <2>2. c[k + 1] = d[k + 1]
    BY <1>3, <2>1
  <2> HIDE DEF k
  <2>3. c[k] = d[k]
    BY <1>2, <2>1, <2>2
  <2> QED BY <2>3 DEF k
<1>4. \A n \in Nat : n \in S
  <2> HIDE DEF S
  <2> QED BY <1>1, <1>3, InSetByInduction
<1>5. ASSUME NEW k \in Nat, k <= N PROVE c[k] = d[k]
  <2> DEFINE n == N - k
  <2>1. n \in Nat /\ n <= N /\ N - n = k
    BY <1>5
  <2> HIDE DEF n
  <2> QED BY <1>4, <2>1
<1>6. leaf = leaf2
  <2>1. c[0] = leaf /\ d[0] = leaf2
    BY FoldStart
  <2> QED BY <1>5, <2>1
<1>7. ASSUME NEW k \in 1..N PROVE branch[k] = branch2[k]
  <2> DEFINE m == k - 1
  <2>1. m \in Nat /\ m + 1 = k /\ m + 1 <= N
    OBVIOUS
  <2> HIDE DEF m
  <2>2. c[m + 1] = d[m + 1]
    BY <1>5, <2>1
  <2> QED BY <1>2, <2>1, <2>2
<1> QED BY <1>6, <1>7

\* And only one.
LEMMA FoldIsUnique ==
  ASSUME NEW leaf, NEW branch, NEW g, NEW c, NEW d,
         Len(branch) \in Nat, IsFold(c, leaf, branch, g), IsFold(d, leaf, branch, g)
  PROVE  c = d
<1> DEFINE N == Len(branch)
           Up(x, k) == Join(g, k - 1, x, branch[k])
           S == {n \in Nat : n <= N => c[n] = d[n]}
<1>1. /\ c = [k \in 0..N |-> IF k = 0 THEN leaf ELSE Up(c[k - 1], k)]
      /\ d = [k \in 0..N |-> IF k = 0 THEN leaf ELSE Up(d[k - 1], k)]
  BY DEF IsFold
<1> HIDE DEF N, Up
<1>2. 0 \in S
  BY <1>1 DEF N
<1>3. ASSUME NEW n \in Nat, n \in S PROVE n + 1 \in S
  <2> SUFFICES ASSUME n + 1 <= N PROVE c[n + 1] = d[n + 1]
    OBVIOUS
  <2>1. c[n + 1] = Up(c[n], n + 1) /\ d[n + 1] = Up(d[n], n + 1)
    BY <1>1 DEF N
  <2> QED BY <1>3, <2>1 DEF N
<1>4. \A n \in Nat : n \in S
  <2> HIDE DEF S
  <2> QED BY <1>2, <1>3, InSetByInduction
<1> QED BY <1>1, <1>4 DEF N

-----------------------------------------------------------------------------
\* Trees: their layers, and what a fold that ends in a root started from.

\* verifyProof computes the fold of the leaf along the branch.
LEMMA VerifyProofFolds ==
  ASSUME NEW root, NEW leaf, NEW proof, NEW g, NEW c,
         Len(proof) \in Nat, g \in Nat, g > 1, IsFold(c, leaf, proof, g)
  PROVE  VerifyProof(root, leaf, proof, g) <=> Len(proof) = Log2(g) /\ c[Len(proof)] = root
<1> DEFINE N == Len(proof)
           Up(l, i) == [computed |-> IF l.index % 2 = 0 THEN HashPair(l.computed, proof[i])
                                     ELSE HashPair(proof[i], l.computed),
                        index    |-> l.index \div 2]
           Loop(f) == [i \in 0..N |->
                         IF i = 0 THEN [computed |-> leaf, index |-> g] ELSE Up(f[i - 1], i)]
           loop == CHOOSE f : f = Loop(f)
           d == [k \in 0..N |-> [computed |-> c[k], index |-> Shr(g, k)]]
<1>0. /\ c[0] = leaf /\ Shr(g, 0) = g
      /\ \A k \in 0..N - 1 : c[k + 1] = Join(g, k, c[k], proof[k + 1])
  BY FoldStart, FoldStep, ShrZero
<1>1. d = Loop(d)
  <2> SUFFICES ASSUME NEW i \in 0..N PROVE d[i] = Loop(d)[i]
    OBVIOUS
  <2>1. CASE i = 0
    BY <1>0, <2>1
  <2>2. CASE i # 0
    <3> DEFINE k == i - 1
    <3>1. k \in 0..N /\ k \in Nat /\ k \in 0..N - 1 /\ k + 1 = i
      BY <2>2
    <3> HIDE DEF k
    <3>2. Shr(g, k + 1) = Shr(g, k) \div 2
      BY <3>1, ShrUp
    <3>3. c[k + 1] = Join(g, k, c[k], proof[k + 1])
      BY <1>0, <3>1
    <3>4. d[k] = [computed |-> c[k], index |-> Shr(g, k)]
      BY <3>1
    <3>5. d[i] = [computed |-> c[i], index |-> Shr(g, i)]
      OBVIOUS
    <3>6. Up(d[k], i) = [computed |-> c[i], index |-> Shr(g, i)]
      <4> HIDE DEF d
      <4> QED BY <3>1, <3>2, <3>3, <3>4 DEF Join
    <3>7. Loop(d)[i] = Up(d[k], i)
      BY <2>2 DEF k
    <3> QED BY <3>5, <3>6, <3>7
  <2> QED BY <2>1, <2>2
<1>2. loop = Loop(loop)
  <2> HIDE DEF Loop, d
  <2> QED BY <1>1
<1> DEFINE e == [k \in 0..N |-> loop[k].computed]
           S == {k \in Nat : k <= N => loop[k].index = Shr(g, k)}
<1> HIDE DEF loop
<1>9. loop[0] = [computed |-> leaf, index |-> g]
  <2> HIDE DEF Up
  <2> QED BY <1>2
<1>10. ASSUME NEW k \in Nat, k + 1 <= N PROVE loop[k + 1] = Up(loop[k], k + 1)
  <2> HIDE DEF Up
  <2>1. k + 1 \in 0..N /\ (k + 1) - 1 = k /\ k + 1 # 0
    BY <1>10
  <2> QED BY <1>2, <2>1
<1>3. \A k \in Nat : k \in S
  <2>1. 0 \in S
    BY <1>0, <1>9
  <2>2. ASSUME NEW k \in Nat, k \in S PROVE k + 1 \in S
    <3> SUFFICES ASSUME k + 1 <= N PROVE loop[k + 1].index = Shr(g, k + 1)
      OBVIOUS
    <3>1. loop[k + 1] = Up(loop[k], k + 1)
      BY <1>10
    <3>2. loop[k + 1].index = loop[k].index \div 2
      BY <3>1
    <3>3. loop[k].index = Shr(g, k) /\ Shr(g, k + 1) = Shr(g, k) \div 2
      BY <2>2, ShrUp
    <3> QED BY <3>2, <3>3
  <2> HIDE DEF S
  <2> QED BY <2>1, <2>2, InSetByInduction
<1>4. IsFold(e, leaf, proof, g)
  <2> SUFFICES ASSUME NEW i \in 0..N
               PROVE  e[i] = IF i = 0 THEN leaf ELSE Join(g, i - 1, e[i - 1], proof[i])
    BY DEF IsFold
  <2>1. CASE i = 0
    BY <1>9, <2>1
  <2>2. CASE i # 0
    <3> DEFINE k == i - 1
    <3>1. k \in 0..N /\ k \in Nat /\ k + 1 = i /\ k + 1 <= N /\ k <= N
      BY <2>2
    <3>2. loop[k].index = Shr(g, k) /\ e[k] = loop[k].computed
      BY <3>1, <1>3
    <3> HIDE DEF k
    <3>3. loop[k + 1] = Up(loop[k], k + 1)
      BY <3>1, <1>10
    <3>4. loop[i].computed = Join(g, k, e[k], proof[i])
      <4> HIDE DEF e
      <4> QED BY <3>1, <3>2, <3>3 DEF Join
    <3> QED BY <2>2, <3>4 DEF k
  <2> QED BY <2>1, <2>2
<1>5. e = c
  <2> HIDE DEF e
  <2> QED BY <1>4, FoldIsUnique
<1>6. loop[N].computed = c[N]
  <2>1. e[N] = loop[N].computed
    OBVIOUS
  <2> HIDE DEF e
  <2> QED BY <1>5, <2>1
<1>7. VerifyProof(root, leaf, proof, g) <=> N = Log2(g) /\ loop[N].computed = root
  <2>1. VerifyProof(root, leaf, proof, g)
          = CASE g = 0 -> FALSE
              [] g = 1 -> Len(proof) = 0 /\ leaf = root
              [] OTHER -> Len(proof) = Log2(g) /\ loop[Len(proof)].computed = root
    BY Zenon DEF VerifyProof, loop
  <2>2. g # 0 /\ g # 1
    OBVIOUS
  <2> QED BY <2>1, <2>2
<1> QED BY <1>6, <1>7

\* So does the library behind verify_proof_bundle.
LEMMA IsValidBranchFolds ==
  ASSUME NEW root, NEW leaf, NEW branch, NEW g, NEW c,
         Len(branch) \in Nat, g \in Nat, IsFold(c, leaf, branch, g)
  PROVE  IsValidBranch(leaf, branch, g, root) <=> Len(branch) = Log2(g) /\ c[Len(branch)] = root
<1> DEFINE N == Len(branch)
           Up(x, k) == IF (g \div 2^(k - 1)) % 2 = 1 THEN HashPair(branch[k], x) ELSE HashPair(x, branch[k])
           Node(f) == [k \in 0..N |-> IF k = 0 THEN leaf ELSE Up(f[k - 1], k)]
           node == CHOOSE f : f = Node(f)
<1>1. \A x : \A k \in 1..N : Up(x, k) = Join(g, k - 1, x, branch[k])
  <2> TAKE x
  <2> TAKE k \in 1..N
  <2>1. k - 1 \in Nat
    OBVIOUS
  <2>2. Shr(g, k - 1) \in Nat /\ Shr(g, k - 1) = g \div 2^(k - 1)
    BY <2>1, ShrType DEF Shr
  <2>3. Shr(g, k - 1) % 2 = 0 <=> ~ (Shr(g, k - 1) % 2 = 1)
    BY <2>2
  <2> QED BY <2>2, <2>3, Zenon DEF Join
<1> HIDE DEF Up
<1>2. c = Node(c)
  BY <1>1 DEF IsFold
<1>3. node = Node(node)
  <2> HIDE DEF Node
  <2> QED BY <1>2
<1> HIDE DEF node
<1>4. IsFold(node, leaf, branch, g)
  BY <1>1, <1>3 DEF IsFold
<1>5. node = c
  BY <1>4, FoldIsUnique
<1>6. IsValidBranch(leaf, branch, g, root) <=> N = Log2(g) /\ node[N] = root
  BY Zenon DEF IsValidBranch, node, Node, Up
<1> QED BY <1>5, <1>6

\* The nodes of a tree, layer by layer from the leaves.
IsLayers(l, chunks, depth) ==
  l = [d \in 0..depth |->
         IF d = 0
         THEN [i \in 0..2^depth - 1 |-> IF i < Len(chunks) THEN chunks[i + 1] ELSE ZeroChunk]
         ELSE [i \in 0..2^(depth - d) - 1 |-> HashPair(l[d - 1][2 * i], l[d - 1][2 * i + 1])]]

\* The root of a tree is its top layer.
LEMMA MerkleizeLayers ==
  ASSUME NEW chunks, NEW depth, depth \in Nat
  PROVE  \E l : IsLayers(l, chunks, depth) /\ Merkleize(chunks, depth) = l[depth][0]
<1> DEFINE base == [i \in 0..2^depth - 1 |-> IF i < Len(chunks) THEN chunks[i + 1] ELSE ZeroChunk]
           Up(x, d) == [i \in 0..2^(depth - d) - 1 |-> HashPair(x[2 * i], x[2 * i + 1])]
           Layers(l, n) == l = [d \in 0..n |-> IF d = 0 THEN base ELSE Up(l[d - 1], d)]
           S == {n \in Nat : \E l : Layers(l, n)}
<1>1. 0 \in S
  <2>1. Layers([d \in 0..0 |-> base], 0)
    <3> HIDE DEF base, Up
    <3> QED OBVIOUS
  <2> HIDE DEF Layers
  <2> QED BY <2>1
<1>2. ASSUME NEW n \in Nat, n \in S PROVE n + 1 \in S
  <2>1. PICK l : Layers(l, n)
    BY <1>2
  <2> DEFINE m == [d \in 0..(n + 1) |-> IF d <= n THEN l[d] ELSE Up(l[n], d)]
  <2> HIDE DEF Up, base
  <2>2. \A d \in 0..(n + 1) : m[d] = IF d = 0 THEN base ELSE Up(m[d - 1], d)
    <3> TAKE d \in 0..(n + 1)
    <3>1. CASE d = 0
      BY <2>1, <3>1
    <3>2. CASE d \in 1..n
      <4>1. d - 1 \in 0..n /\ d \in 0..n /\ m[d] = l[d] /\ m[d - 1] = l[d - 1]
        BY <3>2
      <4> QED BY <2>1, <3>2, <4>1
    <3>3. CASE d = n + 1
      <4>1. d - 1 = n /\ m[n] = l[n] /\ m[d] = Up(l[n], d)
        BY <3>3
      <4> QED BY <3>3, <4>1
    <3> QED BY <3>1, <3>2, <3>3
  <2>3. Layers(m, n + 1)
    BY <2>2
  <2> HIDE DEF Layers
  <2> QED BY <2>3
<1>3. depth \in S
  <2> HIDE DEF S
  <2> QED BY <1>1, <1>2, InSetByInduction
<1> DEFINE layer == CHOOSE l : l = [d \in 0..depth |-> IF d = 0 THEN base ELSE Up(l[d - 1], d)]
<1>4. layer = [d \in 0..depth |-> IF d = 0 THEN base ELSE Up(layer[d - 1], d)]
  <2>1. \E l : l = [d \in 0..depth |-> IF d = 0 THEN base ELSE Up(l[d - 1], d)]
    BY <1>3
  <2> HIDE DEF base, Up
  <2> QED BY <2>1
<1>5. Merkleize(chunks, depth) = layer[depth][0]
  BY Zenon DEF Merkleize
<1>6. IsLayers(layer, chunks, depth)
  <2> HIDE DEF layer
  <2> QED BY <1>4, Zenon DEF IsLayers
<1> QED BY <1>5, <1>6, Zenon

\* The layers by their nodes.
LEMMA LayerNodes ==
  ASSUME NEW l, NEW chunks, NEW depth, depth \in Nat, IsLayers(l, chunks, depth)
  PROVE  /\ \A i \in Nat : i < Pow(depth) => l[0][i] = GetLeaf(chunks, i)
         /\ \A d, i \in Nat : d + 1 <= depth /\ i < Pow(depth - (d + 1)) =>
               l[d + 1][i] = HashPair(l[d][2 * i], l[d][2 * i + 1])
<1>1. ASSUME NEW i \in Nat, i < Pow(depth) PROVE l[0][i] = GetLeaf(chunks, i)
  <2>1. 0 \in 0..depth
    OBVIOUS
  <2>2. l[0] = [j \in 0..2^depth - 1 |-> IF j < Len(chunks) THEN chunks[j + 1] ELSE ZeroChunk]
    BY <2>1, Zenon DEF IsLayers
  <2>3. Pow(depth) \in Nat
    BY PowType
  <2>4. i \in 0..2^depth - 1
    BY <1>1, <2>3 DEF Pow
  <2> QED BY <2>2, <2>4 DEF GetLeaf
<1>2. ASSUME NEW d \in Nat, NEW i \in Nat, d + 1 <= depth, i < Pow(depth - (d + 1))
      PROVE  l[d + 1][i] = HashPair(l[d][2 * i], l[d][2 * i + 1])
  <2> DEFINE e == d + 1
  <2>1. e \in 0..depth /\ e # 0 /\ e - 1 = d /\ depth - e \in Nat
    BY <1>2
  <2> HIDE DEF e
  <2>2. l[e] = [j \in 0..2^(depth - e) - 1 |-> HashPair(l[e - 1][2 * j], l[e - 1][2 * j + 1])]
    BY <2>1, Zenon DEF IsLayers
  <2>3. Pow(depth - e) \in Nat
    BY <2>1, PowType
  <2>4. i \in 0..2^(depth - e) - 1
    BY <1>2, <2>3 DEF Pow, e
  <2>5. l[e][i] = HashPair(l[e - 1][2 * i], l[e - 1][2 * i + 1])
    BY <2>2, <2>4
  <2> QED BY <2>1, <2>5 DEF e
<1> QED BY <1>1, <1>2

\* A branch that folds to the root of a tree leads, by the bits of the index,
\* to a leaf of the tree.
LEMMA FoldReachesLeaf ==
  ASSUME NEW leaf, NEW branch, NEW g, NEW c, NEW a, NEW depth, NEW top, NEW chunks,
         Len(branch) \in Nat, g \in Nat, IsFold(c, leaf, branch, g), a \in Nat, depth \in Nat,
         top = a + depth, top <= Len(branch), c[top] = Merkleize(chunks, depth)
  PROVE  c[a] = GetLeaf(chunks, Place(g, a, depth))
<1> DEFINE J(e) == Shr(g, top - e) - Pow(e) * Shr(g, top)
<1>1. PICK l : IsLayers(l, chunks, depth) /\ Merkleize(chunks, depth) = l[depth][0]
  BY MerkleizeLayers
<1>2. /\ \A i \in Nat : i < Pow(depth) => l[0][i] = GetLeaf(chunks, i)
      /\ \A d, i \in Nat : d + 1 <= depth /\ i < Pow(depth - (d + 1)) =>
            l[d + 1][i] = HashPair(l[d][2 * i], l[d][2 * i + 1])
  BY <1>1, LayerNodes
<1>3. \A k \in 0..Len(branch) - 1 : c[k + 1] = Join(g, k, c[k], branch[k + 1])
  BY FoldStep
<1> DEFINE S == {e \in Nat : e <= depth =>
                   J(e) \in Nat /\ J(e) < Pow(e) /\ c[top - e] = l[depth - e][J(e)]}
<1>4. 0 \in S
  <2>1. Shr(g, top) \in Nat /\ top - 0 = top /\ depth - 0 = depth /\ Pow(0) = 1
    BY ShrType, PowValues
  <2>2. J(0) = 0
    BY <2>1
  <2> HIDE DEF J
  <2> QED BY <2>1, <2>2, <1>1
<1>5. ASSUME NEW e \in Nat, e \in S PROVE e + 1 \in S
  <2> SUFFICES ASSUME e + 1 <= depth
               PROVE  /\ J(e + 1) \in Nat /\ J(e + 1) < Pow(e + 1)
                      /\ c[top - (e + 1)] = l[depth - (e + 1)][J(e + 1)]
    <3> HIDE DEF J
    <3> QED OBVIOUS
  <2> DEFINE k == top - (e + 1)
             j == J(e)
             d == depth - (e + 1)
             p == Pow(e)
             t == Shr(g, top)
             b == Shr(g, k) % 2
  <2>1. /\ k \in Nat /\ k + 1 = top - e /\ k \in 0..Len(branch) - 1 /\ top - (e + 1) = k
        /\ d \in Nat /\ d + 1 = depth - e /\ d + 1 <= depth /\ depth - (d + 1) = e
        /\ depth - (e + 1) = d
    OBVIOUS
  <2>2. j \in Nat /\ j < p /\ c[k + 1] = l[d + 1][j]
    <3> HIDE DEF J
    <3> QED BY <1>5, <2>1
  <2>3. Shr(g, k) = 2 * Shr(g, k + 1) + b /\ b \in {0, 1} /\ Shr(g, k + 1) \in Nat /\ t \in Nat
    <3> HIDE DEF k
    <3>1. k + 1 \in Nat
      BY <2>1
    <3> QED BY <2>1, <3>1, ShrHalf, ShrType
  <2>4. p \in Nat /\ Pow(e + 1) = 2 * p
    BY PowType, PowStep
  <2>5. J(e + 1) = Shr(g, k) - (2 * p) * t /\ j = Shr(g, k + 1) - p * t
    BY <2>1, <2>4
  <2>6. c[k + 1] = Join(g, k, c[k], branch[k + 1])
    <3> HIDE DEF k
    <3> QED BY <1>3, <2>1
  <2>7. l[d + 1][j] = HashPair(l[d][2 * j], l[d][2 * j + 1])
    <3> HIDE DEF d, j
    <3>1. d \in Nat /\ d + 1 <= depth /\ j < Pow(depth - (d + 1))
      BY <2>1, <2>2
    <3> QED BY <1>2, <2>2, <3>1
  <2> HIDE DEF J, k, j, d, p, t
  <2>8. J(e + 1) = 2 * j + b
    <3> DEFINE z == p * t
    <3>1. z \in Nat /\ (2 * p) * t = 2 * z
      BY <2>3, <2>4
    <3> HIDE DEF z, b
    <3> QED BY <2>2, <2>3, <2>5, <3>1 DEF z
  <2>9. J(e + 1) \in Nat /\ J(e + 1) < Pow(e + 1)
    <3> HIDE DEF b
    <3> QED BY <2>2, <2>3, <2>4, <2>8
  <2>10. Join(g, k, c[k], branch[k + 1]) = HashPair(l[d][2 * j], l[d][2 * j + 1])
    BY <2>2, <2>6, <2>7
  <2> DEFINE x == c[k]
             y == branch[k + 1]
             u == l[d][2 * j]
             v == l[d][2 * j + 1]
  <2>12. Join(g, k, x, y) = HashPair(u, v)
    BY <2>10
  <2>11. c[k] = l[d][J(e + 1)]
    <3>1. CASE b = 0
      <4>2. x = u
        <5> HIDE DEF x, y, u, v
        <5>1. HashPair(x, y) = HashPair(u, v)
          BY <2>12, <3>1, JoinSides
        <5> QED BY <5>1, HashPairInjective
      <4>3. J(e + 1) = 2 * j
        BY <2>2, <2>8, <3>1
      <4> QED BY <4>2, <4>3
    <3>2. CASE b # 0
      <4>2. x = v
        <5> HIDE DEF x, y, u, v
        <5>1. HashPair(y, x) = HashPair(u, v)
          BY <2>12, <3>2, JoinSides
        <5> QED BY <5>1, HashPairInjective
      <4>3. J(e + 1) = 2 * j + 1
        <5> HIDE DEF b
        <5> QED BY <2>2, <2>3, <2>8, <3>2
      <4> QED BY <4>2, <4>3
    <3> QED BY <3>1, <3>2
  <2> QED BY <2>1, <2>9, <2>11
<1>6. depth \in S
  <2> HIDE DEF S
  <2> QED BY <1>4, <1>5, InSetByInduction
<1>7. top - depth = a /\ depth - depth = 0 /\ J(depth) = Place(g, a, depth)
  BY DEF Place
<1> HIDE DEF J
<1>8. J(depth) \in Nat /\ J(depth) < Pow(depth) /\ c[a] = l[0][J(depth)]
  BY <1>6, <1>7
<1> QED BY <1>2, <1>7, <1>8

-----------------------------------------------------------------------------
\* The state: where a branch below the block root can lead.

\* A beacon state has 37 fields ...
LEMMA FieldCount ==
  ASSUME NEW w,
         w \in World
  PROVE  Len(FieldRoots(w)) = 37 /\ DOMAIN FieldRoots(w) = 1..37
BY DEF FieldRoots, BEACON_STATE_FIELD_COUNT

\* ... a header five ...
LEMMA HeaderCount ==
  ASSUME NEW w,
         w \in World
  PROVE  Len(HeaderChunks(w)) = 5
BY DEF HeaderChunks

\* ... and a list as many hashes as items.
LEMMA HashCount ==
  ASSUME NEW w,
         w \in World
  PROVE  /\ Len(ValidatorHashes(w)) = Len(w.validators) /\ Len(w.validators) \in Nat
         /\ Len(ConsolidationHashes(w)) = Len(w.pending) /\ Len(w.pending) \in Nat
<1>1. /\ DOMAIN w.validators = 1..Len(w.validators) /\ Len(w.validators) \in Nat
      /\ DOMAIN w.pending = 1..Len(w.pending) /\ Len(w.pending) \in Nat
  BY WorldAssumption
<1>2. Len(ValidatorHashes(w)) = Len(w.validators)
  BY <1>1 DEF ValidatorHashes
<1>3. Len(ConsolidationHashes(w)) = Len(w.pending)
  BY <1>1 DEF ConsolidationHashes
<1> QED BY <1>1, <1>2, <1>3

\* A leaf is no pair of hashes.
LEMMA LeavesAreNoPairs ==
  /\ ~ IsPair(ZeroChunk)
  /\ \A n : ~ IsPair(Opaque(n)) /\ ~ IsPair(LittleEndian(n))
<1>1. \A p, q, r, s, a, b : <<p, q, r, s>> # <<a, b>>
  OBVIOUS
<1> QED BY <1>1 DEF IsPair, HashPair, ZeroChunk, Opaque, LittleEndian

\* A branch whose fold ends in the block root and that goes on below the state.
EntersState(w, leaf, branch, g, c, n) ==
  /\ w \in World /\ Len(branch) \in Nat /\ g \in Nat /\ IsFold(c, leaf, branch, g)
  /\ n \in Nat /\ n > 0 /\ Len(branch) = (n + STATE_DEPTH) + HEADER_DEPTH
  /\ c[Len(branch)] = BlockRoot[w]

\* It leads through the state root into the field its generalized index names.
LEMMA FoldReachesField ==
  ASSUME NEW w, NEW leaf, NEW branch, NEW g, NEW c, NEW n,
         EntersState(w, leaf, branch, g, c, n)
  PROVE  c[n] = GetLeaf(FieldRoots(w), Place(g, n, STATE_DEPTH))
<1> DEFINE s == n + STATE_DEPTH
           top == s + HEADER_DEPTH
<1>h1. /\ w \in World /\ Len(branch) \in Nat /\ g \in Nat /\ IsFold(c, leaf, branch, g) /\ n \in Nat
       /\ top = Len(branch) /\ c[top] = BlockRoot[w] /\ n > 0
  BY DEF EntersState
<1>h2. s = n + STATE_DEPTH
  OBVIOUS
<1>h3. top = s + HEADER_DEPTH
  OBVIOUS
<1> HIDE DEF s, top
<1>1. /\ s \in Nat /\ top <= Len(branch) /\ s <= Len(branch) /\ s > 0
      /\ HEADER_DEPTH \in Nat /\ STATE_DEPTH \in Nat
  BY <1>h1, <1>h2, <1>h3 DEF STATE_DEPTH, HEADER_DEPTH
<1> DEFINE j == Place(g, s, HEADER_DEPTH)
<1>7. Place(g, s, HEADER_DEPTH) \in 0..7
  <2>1. Pow(HEADER_DEPTH) = 8
    BY PowValues DEF HEADER_DEPTH
  <2>2. Place(g, s, HEADER_DEPTH) \in Nat /\ Place(g, s, HEADER_DEPTH) < Pow(HEADER_DEPTH)
    BY <1>h1, <1>1, PlaceType
  <2>4. \A x \in Nat : x < 8 => x \in 0..7
    OBVIOUS
  <2> QED BY <2>1, <2>2, <2>4
<1>2. c[s] = GetLeaf(HeaderChunks(w), j)
  <2>1. c[top] = Merkleize(HeaderChunks(w), HEADER_DEPTH)
    BY <1>h1 DEF BlockRoot
  <2> DEFINE chunks == HeaderChunks(w)
             depth == HEADER_DEPTH
  <2>2. /\ Len(branch) \in Nat /\ g \in Nat /\ IsFold(c, leaf, branch, g) /\ s \in Nat
        /\ depth \in Nat /\ top = s + depth /\ top <= Len(branch) /\ c[top] = Merkleize(chunks, depth)
    BY <1>h1, <1>h3, <1>1, <2>1
  <2> HIDE DEF chunks, depth
  <2>3. c[s] = GetLeaf(chunks, Place(g, s, depth))
    BY <2>2, FoldReachesLeaf
  <2> QED BY <2>3 DEF chunks, depth
<1>3. IsPair(c[s])
  <2>1. s \in 1..Len(branch)
    BY <1>h1, <1>1
  <2>2. \A k \in 1..Len(branch) : IsPair(c[k])
    BY <1>h1, FoldsArePairs
  <2> QED BY <2>1, <2>2
<1>4. c[s] = Merkleize(FieldRoots(w), STATE_DEPTH)
  <2>2. j \in 0..7
    BY <1>7
  <2> HIDE DEF j
  <2>3. j < 5 /\ c[s] = HeaderChunks(w)[j + 1]
    BY <1>2, <1>3, <2>2, <1>h1, HeaderCount, LeavesAreNoPairs DEF GetLeaf
  <2>4. j + 1 \in 1..5
    BY <2>2, <2>3
  <2>5. HeaderChunks(w)[j + 1] = IF j + 1 = 4 THEN Merkleize(FieldRoots(w), STATE_DEPTH) ELSE Opaque(j + 1)
    BY <2>4 DEF HeaderChunks, STATE_ROOT_FIELD_INDEX
  <2> QED BY <1>3, <2>3, <2>5, LeavesAreNoPairs
<1> QED BY <1>h1, <1>h2, <1>1, <1>4, FoldReachesLeaf

\* The generalized indices of the two lists in the contract.
LEMMA FieldGindexes ==
  /\ FieldGindex(PENDING_CONSOLIDATIONS_FIELD_INDEX) = 740 /\ ConsolidationData = 1480
  /\ FieldGindex(VALIDATORS_FIELD_INDEX) = 715 /\ ValidatorData = 1430
<1>1. Pow(STATE_DEPTH) = 64 /\ STATE_DEPTH \in Nat /\ STATE_ROOT_GINDEX_IN_HEADER = 11
  BY PowValues DEF STATE_DEPTH, STATE_ROOT_GINDEX_IN_HEADER
<1>2. ASSUME NEW i \in Nat, i < 64 PROVE FieldGindex(i) = 64 * 11 + i
  <2> DEFINE g == STATE_ROOT_GINDEX_IN_HEADER
  <2>1. g \in Nat /\ i < Pow(STATE_DEPTH)
    BY <1>1, <1>2
  <2> HIDE DEF g
  <2>2. ShiftOr(g, STATE_DEPTH, i) = Pow(STATE_DEPTH) * g + i
    BY <1>1, <2>1, ShiftOrSum
  <2> QED BY <1>1, <2>2 DEF FieldGindex, g
<1>3. FieldGindex(36) = 740 /\ FieldGindex(11) = 715
  BY <1>2
<1> QED
  BY <1>3 DEF ConsolidationData, ValidatorData, PENDING_CONSOLIDATIONS_FIELD_INDEX,
              VALIDATORS_FIELD_INDEX

\* Whatever is or-ed into the generalized index, a path from the place of field 36
\* can only lead to it or to the padding beyond.
LEMMA ConsolidationPlaces ==
  ASSUME NEW i, NEW g, NEW a,
         i \in Nat, g = ConsolidationSourceGindex(i), a = ConsolidationListDepth + 2
  PROVE  /\ g \in Nat /\ g % 2 = 0 /\ a \in Nat
         /\ Place(g, a, STATE_DEPTH) \in 36..63
         /\ g >= 2
<1> DEFINE C == ConsolidationListDepth
           data == ConsolidationData
           inner == ShiftOr(data, C, i)
           y == Shr(i, C)
           o == Shr(g, a)
<1>0. C \in Nat /\ a = (C + 1) + 1 /\ C + 1 \in Nat
  BY DepthAssumption
<1>1. C \in Nat /\ a = (C + 1) + 1 /\ C + 1 \in Nat /\ y \in Nat
  BY <1>0, ShrType
<1>2. inner \in Nat /\ Shr(inner, C) = Or[1480][y]
  <2>1. data \in Nat /\ data = 1480
    BY FieldGindexes
  <2> HIDE DEF data
  <2>2. data \in Nat /\ C \in Nat
    BY <1>0, <2>1
  <2>3. inner \in Nat /\ Shr(inner, C) = Or[data][y]
    BY <2>2, ShiftOrShr, Zenon
  <2> QED BY <2>1, <2>3
<1>3. g = ShiftOr(inner, CONSOLIDATION_DEPTH, 0)
  BY FieldGindexes DEF ConsolidationSourceGindex, SOURCE_INDEX_FIELD_INDEX
<1> HIDE DEF inner, C, y
<1>4. g = 2 * inner
  <2>1. CONSOLIDATION_DEPTH \in Nat /\ Pow(CONSOLIDATION_DEPTH) = 2
    BY PowValues DEF CONSOLIDATION_DEPTH
  <2> QED BY <1>2, <1>3, <2>1, ShiftOrSum
<1>5. g \in Nat /\ g % 2 = 0 /\ g \div 2 = inner
  BY <1>2, <1>4
<1>6. o = Or[740][y \div 2]
  <2>1. o = Shr(inner, C + 1)
    BY <1>1, <1>5, ShrDown
  <2>2. Shr(inner, C + 1) = Shr(inner, C) \div 2
    BY <1>1, <1>2, ShrUp
  <2>3. Or[1480][y] \div 2 = Or[740][y \div 2]
    <3>1. Or[1480][y] \div 2 = Or[1480 \div 2][y \div 2] /\ 1480 \div 2 = 740
      BY <1>1, OrBits
    <3> QED BY <3>1
  <2> QED BY <1>2, <2>1, <2>2, <2>3
<1> DEFINE z == y \div 2
           z1 == z \div 2
           z2 == z1 \div 2
           z3 == z2 \div 2
           z4 == z3 \div 2
           z5 == z4 \div 2
<1>7. z \in Nat /\ z1 \in Nat /\ z2 \in Nat /\ z3 \in Nat /\ z4 \in Nat /\ z5 \in Nat
  BY <1>1
<1> HIDE DEF z, z1, z2, z3, z4, z5, o
<1>8. /\ Or[740][z] \in Nat /\ Or[740][z] \div 2 = Or[370][z1]
      /\ Or[370][z1] \in Nat /\ Or[370][z1] \div 2 = Or[185][z2]
      /\ Or[185][z2] \in Nat /\ Or[185][z2] \div 2 = Or[92][z3] /\ Or[185][z2] % 2 = 1
      /\ Or[92][z3] \in Nat /\ Or[92][z3] \div 2 = Or[46][z4]
      /\ Or[46][z4] \in Nat /\ Or[46][z4] \div 2 = Or[23][z5]
      /\ Or[23][z5] \in Nat /\ Or[23][z5] % 2 = 1
  <2>1. /\ 740 \div 2 = 370 /\ 370 \div 2 = 185 /\ 185 \div 2 = 92 /\ 185 % 2 = 1
        /\ 92 \div 2 = 46 /\ 46 \div 2 = 23 /\ 23 % 2 = 1
    OBVIOUS
  <2>2. Or[740][z] \in Nat /\ Or[740][z] \div 2 = Or[370][z1]
    BY <1>7, <2>1, OrBits DEF z1
  <2>3. Or[370][z1] \in Nat /\ Or[370][z1] \div 2 = Or[185][z2]
    BY <1>7, <2>1, OrBits DEF z2
  <2>4. Or[185][z2] \in Nat /\ Or[185][z2] \div 2 = Or[92][z3] /\ Or[185][z2] % 2 = 1
    BY <1>7, <2>1, OrBits DEF z3
  <2>5. Or[92][z3] \in Nat /\ Or[92][z3] \div 2 = Or[46][z4]
    BY <1>7, <2>1, OrBits DEF z4
  <2>6. Or[46][z4] \in Nat /\ Or[46][z4] \div 2 = Or[23][z5]
    BY <1>7, <2>1, OrBits DEF z5
  <2>7. Or[23][z5] \in Nat /\ Or[23][z5] % 2 = 1
    BY <1>7, <2>1, OrBits
  <2> QED BY <2>2, <2>3, <2>4, <2>5, <2>6, <2>7
<1>9. o \in Nat /\ o - 64 * (o \div 64) >= 36 /\ o >= 36
  <2>1. o = Or[740][z]
    BY <1>6 DEF z
  <2> DEFINE p == Or[185][z2]
             q == Or[23][z5]
  <2>2. p \in Nat /\ q \in Nat /\ p % 2 = 1 /\ q % 2 = 1 /\ o \in Nat
        /\ p = (o \div 2) \div 2 /\ q = ((p \div 2) \div 2) \div 2
    BY <1>8, <2>1
  <2> HIDE DEF p, q
  <2>3. p = o \div 4 /\ q = o \div 32
    BY <2>2
  <2>4. q = 2 * (o \div 64) + 1
    BY <2>2, <2>3
  <2>5. p = 8 * q + (p % 8) /\ p % 8 \in 0..7 /\ (p % 8) % 2 = 1
    BY <2>2
  <2>6. o >= 4 * p
    BY <2>2, <2>3
  <2> QED BY <2>2, <2>4, <2>5, <2>6
<1>10. Place(g, a, STATE_DEPTH) = o - 64 * (o \div 64)
  <2>1. STATE_DEPTH \in Nat /\ Pow(STATE_DEPTH) = 64 /\ a \in Nat
    BY <1>1, <1>0, PowValues DEF STATE_DEPTH
  <2>2. Place(g, a, STATE_DEPTH) = o - Pow(STATE_DEPTH) * Shr(o, STATE_DEPTH)
    BY <1>5, <2>1, PlaceRange DEF o
  <2>3. Shr(o, STATE_DEPTH) = o \div Pow(STATE_DEPTH)
    BY <1>9, <2>1, ShrValue
  <2> QED BY <2>1, <2>2, <2>3
<1>13. g >= 2
  <2>1. g # 0
    <3> SUFFICES ASSUME g = 0 PROVE FALSE
      OBVIOUS
    <3>1. 0 < Pow(a) /\ a \in Nat
      BY <1>1, PowType
    <3>2. o = 0
      BY <1>5, <3>1, ShrValue DEF o
    <3> QED BY <3>2, <1>9
  <2> QED BY <1>5, <2>1
<1>14. a \in Nat /\ Place(g, a, STATE_DEPTH) \in 36..63
  <2>1. o \div 64 \in Nat /\ o - 64 * (o \div 64) \in 0..63
    BY <1>9
  <2> QED BY <1>1, <1>9, <1>10, <2>1
<1> QED BY <1>5, <1>13, <1>14
\* The hashes of a list and the chunks of its items, which are no pairs.
IsListOf(hashes, items, depth) ==
  \A k \in 1..Len(hashes) : /\ hashes[k] = Merkleize(items[k], depth)
                            /\ \A j \in Nat : ~ IsPair(GetLeaf(items[k], j))

\* A branch that enters a list at least as deep as the chunks of its items.
EntersItem(w, leaf, branch, g, c, n, hashes, depth, items, inner) ==
  /\ EntersState(w, leaf, branch, g, c, n)
  /\ Len(hashes) \in Nat /\ depth \in Nat /\ inner \in Nat /\ inner > 0
  /\ GetLeaf(FieldRoots(w), Place(g, n, STATE_DEPTH)) = ListRoot(hashes, depth)
  /\ IsListOf(hashes, items, inner) /\ n >= inner + depth + 1

\* It is exactly that deep and leads to a chunk of an item: whatever the index, it
\* ends neither in the padding nor in the list's length.
LEMMA FoldReachesItem ==
  ASSUME NEW w, NEW leaf, NEW branch, NEW g, NEW c, NEW n,
         NEW hashes, NEW depth, NEW items, NEW inner,
         EntersItem(w, leaf, branch, g, c, n, hashes, depth, items, inner)
  PROVE  /\ n = inner + depth + 1
         /\ Place(g, inner, depth) \in Nat /\ Place(g, inner, depth) < Len(hashes)
         /\ Shr(g, inner + depth) % 2 = 0
         /\ leaf = GetLeaf(items[Place(g, inner, depth) + 1], Place(g, 0, inner))
<1> DEFINE field == Place(g, n, STATE_DEPTH)
           m == n - 1
           a == m - depth
           b == a - inner
<1>h1. /\ EntersState(w, leaf, branch, g, c, n)
       /\ Len(branch) \in Nat /\ g \in Nat /\ IsFold(c, leaf, branch, g) /\ n \in Nat /\ n > 0
       /\ n <= Len(branch)
  BY DEF EntersItem, EntersState, STATE_DEPTH, HEADER_DEPTH
<1>h2. /\ Len(hashes) \in Nat /\ depth \in Nat /\ inner \in Nat /\ inner > 0
       /\ GetLeaf(FieldRoots(w), field) = ListRoot(hashes, depth)
       /\ IsListOf(hashes, items, inner) /\ n >= inner + depth + 1
  BY DEF EntersItem
<1>0. n \in Nat /\ n <= Len(branch) /\ depth \in Nat /\ inner \in Nat /\ n >= inner + depth + 1
  BY <1>h1, <1>h2
<1>1. /\ m \in Nat /\ m + 1 = n /\ m > 0 /\ m <= Len(branch) /\ m + 1 <= Len(branch)
      /\ a \in Nat /\ m = a + depth /\ a > 0 /\ a <= Len(branch)
      /\ b \in Nat /\ a = b + inner /\ b <= Len(branch) /\ n = (b + inner) + depth + 1
  BY <1>0, <1>h1, <1>h2
<1> HIDE DEF m, a, b
<1>2. c[n] = HashPair(Merkleize(hashes, depth), LittleEndian(Len(hashes)))
  <2>0. c[n] = GetLeaf(FieldRoots(w), Place(g, n, STATE_DEPTH))
    BY <1>h1, FoldReachesField
  <2> QED BY <2>0, <1>h2 DEF ListRoot
<1>3. IsPair(c[m]) /\ IsPair(c[a])
  <2> DEFINE e == Len(branch)
  <2>1. e \in Nat /\ m <= e /\ a <= e
    BY <1>h1, <1>h1, <1>h2, <1>1
  <2>2. \A k \in 1..e : IsPair(c[k])
    BY <1>h1, FoldsArePairs
  <2> HIDE DEF e
  <2>3. m \in 1..e /\ a \in 1..e
    BY <1>1, <2>1
  <2> QED BY <2>2, <2>3
<1>4. c[m] = Merkleize(hashes, depth) /\ Shr(g, m) % 2 = 0
  <2> DEFINE x == c[m]
             y == branch[m + 1]
             u == Merkleize(hashes, depth)
             v == LittleEndian(Len(hashes))
  <2>1. m \in 0..Len(branch) - 1
    BY <1>h1, <1>1
  <2>2. \A k \in 0..Len(branch) - 1 : c[k + 1] = Join(g, k, c[k], branch[k + 1])
    BY <1>h1, FoldStep
  <2>3. Join(g, m, x, y) = HashPair(u, v)
    BY <1>h1, <1>h2, <1>1, <1>2, <2>1, <2>2
  <2>4. x # v
    BY <1>3, LeavesAreNoPairs
  <2> HIDE DEF x, y, u, v
  <2>5. CASE Shr(g, m) % 2 = 0
    <3>1. HashPair(x, y) = HashPair(u, v)
      BY <2>3, <2>5, JoinSides
    <3>2. x = u
      BY <3>1, HashPairInjective
    <3> QED BY <2>5, <3>2 DEF x, u
  <2>6. CASE Shr(g, m) % 2 # 0
    <3>1. HashPair(y, x) = HashPair(u, v)
      BY <2>3, <2>6, JoinSides
    <3>2. x = v
      BY <3>1, HashPairInjective
    <3> QED BY <2>4, <3>2
  <2> QED BY <2>5, <2>6
<1> DEFINE j == Place(g, a, depth)
<1>5. c[a] = GetLeaf(hashes, j)
  BY <1>h1, <1>h2, <1>1, <1>4, FoldReachesLeaf
<1>6. j \in Nat
  BY <1>h1, <1>h2, <1>1, PlaceType
<1> HIDE DEF j
<1>7. j \in 0..Len(hashes) - 1 /\ c[a] = hashes[j + 1]
  BY <1>h2, <1>3, <1>5, <1>6, LeavesAreNoPairs DEF GetLeaf
<1>8. j + 1 \in 1..Len(hashes)
  BY <1>h2, <1>7
<1>9. c[a] = Merkleize(items[j + 1], inner)
  BY <1>h2, <1>7, <1>8 DEF IsListOf
<1>10. c[b] = GetLeaf(items[j + 1], Place(g, b, inner))
  BY <1>h1, <1>h2, <1>1, <1>9, FoldReachesLeaf
<1>11. Place(g, b, inner) \in Nat
  BY <1>h1, <1>h2, <1>1, PlaceType
<1>12. ~ IsPair(c[b])
  BY <1>h2, <1>8, <1>10, <1>11, Zenon DEF IsListOf
<1>13. b = 0
  <2> SUFFICES ASSUME b > 0 PROVE FALSE
    BY <1>1
  <2>1. \A k \in 1..Len(branch) : IsPair(c[k])
    BY <1>h1, FoldsArePairs
  <2>2. b \in 1..Len(branch)
    BY <1>h1, <1>1
  <2>3. IsPair(c[b])
    BY <2>1, <2>2
  <2> QED BY <1>12, <2>3
<1>14. a = inner /\ m = inner + depth /\ n = inner + depth + 1
  BY <1>h2, <1>1, <1>13
<1>15. c[0] = leaf
  BY <1>h1, FoldStart
<1> QED BY <1>4, <1>7, <1>10, <1>13, <1>14, <1>15 DEF j

\* The chunks of each consolidation ...
ConsolidationItems(w) == [k \in DOMAIN w.pending |-> ConsolidationChunks(w.pending[k])]
\* ... and of each validator.
ValidatorItems(w) == [k \in DOMAIN w.validators |-> ValidatorChunks(w.validators[k])]

\* The lists' hashes are the roots of their items.
LEMMA ListsOfItems ==
  ASSUME NEW w, w \in World
  PROVE  /\ IsListOf(ConsolidationHashes(w), ConsolidationItems(w), CONSOLIDATION_DEPTH)
         /\ IsListOf(ValidatorHashes(w), ValidatorItems(w), VALIDATOR_DEPTH)
<1>1. /\ DOMAIN w.pending = 1..Len(w.pending) /\ DOMAIN w.validators = 1..Len(w.validators)
      /\ w.validators \in Seq(Validator)
  BY WorldAssumption
<1>2. IsListOf(ConsolidationHashes(w), ConsolidationItems(w), CONSOLIDATION_DEPTH)
  <2> SUFFICES ASSUME NEW k \in 1..Len(ConsolidationHashes(w))
               PROVE  /\ ConsolidationHashes(w)[k] = Merkleize(ConsolidationItems(w)[k], CONSOLIDATION_DEPTH)
                      /\ \A j \in Nat : ~ IsPair(GetLeaf(ConsolidationItems(w)[k], j))
    BY Zenon DEF IsListOf
  <2>1. k \in DOMAIN w.pending
    BY <1>1, HashCount
  <2> DEFINE items == ConsolidationItems(w)[k]
  <2>2. /\ items = ConsolidationChunks(w.pending[k])
        /\ ConsolidationHashes(w)[k] = Merkleize(items, CONSOLIDATION_DEPTH)
    BY <2>1 DEF ConsolidationHashes, ConsolidationItems
  <2> HIDE DEF items
  <2>3. Len(items) = 2
    BY <2>2 DEF ConsolidationChunks
  <2>4. /\ items[1] = LittleEndian(w.pending[k].source_index)
        /\ items[2] = LittleEndian(w.pending[k].target_index)
    BY <2>2 DEF ConsolidationChunks
  <2>5. ASSUME NEW j \in Nat PROVE ~ IsPair(GetLeaf(items, j))
    <3>1. CASE j = 0
      BY <2>3, <2>4, <3>1, LeavesAreNoPairs DEF GetLeaf
    <3>2. CASE j = 1
      BY <2>3, <2>4, <3>2, LeavesAreNoPairs DEF GetLeaf
    <3>3. CASE j > 1
      <4>1. GetLeaf(items, j) = ZeroChunk
        BY <2>3, <3>3 DEF GetLeaf
      <4> QED BY <4>1, LeavesAreNoPairs
    <3> QED BY <3>1, <3>2, <3>3
  <2> QED BY <2>2, <2>5 DEF items
<1>3. IsListOf(ValidatorHashes(w), ValidatorItems(w), VALIDATOR_DEPTH)
  <2> SUFFICES ASSUME NEW k \in 1..Len(ValidatorHashes(w))
               PROVE  /\ ValidatorHashes(w)[k] = Merkleize(ValidatorItems(w)[k], VALIDATOR_DEPTH)
                      /\ \A j \in Nat : ~ IsPair(GetLeaf(ValidatorItems(w)[k], j))
    BY Zenon DEF IsListOf
  <2> DEFINE v == w.validators[k]
  <2>1. k \in DOMAIN w.validators /\ v \in Validator
    BY <1>1, HashCount
  <2> DEFINE items == ValidatorItems(w)[k]
  <2>2. items = ValidatorChunks(v) /\ ValidatorHashes(w)[k] = Merkleize(items, VALIDATOR_DEPTH)
    BY <2>1 DEF ValidatorHashes, ValidatorItems
  <2> HIDE DEF items, v
  <2>3. Len(items) = 8
    BY <2>2 DEF ValidatorChunks
  <2>4. ~ IsPair(v.withdrawal_credentials)
    <3>1. v.withdrawal_credentials \in Chunk
      BY <2>1 DEF Validator
    <3>2. PICK p, q, r, s : v.withdrawal_credentials = <<p, q, r, s>>
      BY <3>1 DEF Chunk
    <3>3. \A a, b : <<p, q, r, s>> # <<a, b>>
      OBVIOUS
    <3> QED BY <3>2, <3>3 DEF IsPair, HashPair
  <2>5. ASSUME NEW j \in Nat PROVE ~ IsPair(GetLeaf(items, j))
    <3>1. CASE j > 7
      <4>1. GetLeaf(items, j) = ZeroChunk
        BY <2>3, <3>1 DEF GetLeaf
      <4> QED BY <4>1, LeavesAreNoPairs
    <3>2. CASE j <= 7
      <4> DEFINE m == j + 1
      <4>1. m \in 1..8 /\ GetLeaf(items, j) = items[m]
        BY <2>3, <3>2 DEF GetLeaf
      <4> HIDE DEF m
      <4>2. items[m] \in {v.withdrawal_credentials, LittleEndian(v.activation_epoch), Opaque(m)}
        BY <4>1, <2>2 DEF ValidatorChunks, WITHDRAWAL_CREDENTIALS_FIELD_INDEX, ACTIVATION_EPOCH_FIELD_INDEX
      <4> QED BY <2>4, <4>1, <4>2, LeavesAreNoPairs
    <3> QED BY <3>1, <3>2
  <2> QED BY <2>2, <2>5 DEF items
<1> QED BY <1>2, <1>3

\* The fields of the two lists, and the padding beyond the last field.
LEMMA ListFields ==
  ASSUME NEW w, w \in World
  PROVE  /\ GetLeaf(FieldRoots(w), PENDING_CONSOLIDATIONS_FIELD_INDEX)
              = ListRoot(ConsolidationHashes(w), ConsolidationListDepth)
         /\ GetLeaf(FieldRoots(w), VALIDATORS_FIELD_INDEX) = ListRoot(ValidatorHashes(w), ValidatorListDepth)
         /\ \A j \in Nat : j >= 37 => GetLeaf(FieldRoots(w), j) = ZeroChunk
<1>1. Len(FieldRoots(w)) = 37
  BY FieldCount
<1>2. FieldRoots(w)[37] = ListRoot(ConsolidationHashes(w), ConsolidationListDepth)
  BY DEF FieldRoots, BEACON_STATE_FIELD_COUNT, PENDING_CONSOLIDATIONS_FIELD_INDEX, VALIDATORS_FIELD_INDEX
<1>3. FieldRoots(w)[12] = ListRoot(ValidatorHashes(w), ValidatorListDepth)
  BY DEF FieldRoots, BEACON_STATE_FIELD_COUNT, PENDING_CONSOLIDATIONS_FIELD_INDEX, VALIDATORS_FIELD_INDEX
<1> QED BY <1>1, <1>2, <1>3 DEF GetLeaf, PENDING_CONSOLIDATIONS_FIELD_INDEX, VALIDATORS_FIELD_INDEX

\* A branch that goes on below the state enters a field that exists.
LEMMA FoldEntersField ==
  ASSUME NEW w, NEW leaf, NEW branch, NEW g, NEW c, NEW n,
         EntersState(w, leaf, branch, g, c, n)
  PROVE  /\ Place(g, n, STATE_DEPTH) \in Nat
         /\ IsPair(GetLeaf(FieldRoots(w), Place(g, n, STATE_DEPTH)))
         /\ Place(g, n, STATE_DEPTH) < 37
<1> DEFINE field == Place(g, n, STATE_DEPTH)
           e == Len(branch)
<1>1. /\ w \in World /\ e \in Nat /\ g \in Nat /\ IsFold(c, leaf, branch, g) /\ n \in Nat
      /\ e = (n + STATE_DEPTH) + HEADER_DEPTH /\ n > 0
  BY DEF EntersState
<1>2. field \in Nat /\ STATE_DEPTH \in Nat /\ HEADER_DEPTH \in Nat
  <2>1. STATE_DEPTH \in Nat /\ HEADER_DEPTH \in Nat
    BY DEF STATE_DEPTH, HEADER_DEPTH
  <2> QED BY <1>1, <2>1, PlaceType
<1>3. c[n] = GetLeaf(FieldRoots(w), field)
  BY FoldReachesField
<1>4. \A k \in 1..e : IsPair(c[k])
  BY <1>1, FoldsArePairs
<1> HIDE DEF e, field
<1>5. n \in 1..e
  BY <1>1, <1>2
<1>6. IsPair(c[n])
  BY <1>4, <1>5
<1>7. ~ (field >= 37)
  BY <1>1, <1>2, <1>3, <1>6, ListFields, LeavesAreNoPairs
<1> QED BY <1>2, <1>3, <1>6, <1>7 DEF field

\* A branch into field 36 or the padding beyond, at least as long as a consolidation
\* is deep, shows a chunk of a pending consolidation and is no longer than that.
LEMMA FoldReachesConsolidation ==
  ASSUME NEW w, NEW leaf, NEW branch, NEW g, NEW c, NEW n, NEW place,
         EntersState(w, leaf, branch, g, c, n),
         Place(g, n, STATE_DEPTH) >= PENDING_CONSOLIDATIONS_FIELD_INDEX,
         n >= CONSOLIDATION_DEPTH + ConsolidationListDepth + 1,
         place = Place(g, CONSOLIDATION_DEPTH, ConsolidationListDepth)
  PROVE  /\ n = CONSOLIDATION_DEPTH + ConsolidationListDepth + 1
         /\ place \in Nat /\ place < Len(w.pending)
         /\ leaf = GetLeaf(ConsolidationItems(w)[place + 1], Place(g, 0, CONSOLIDATION_DEPTH))
<1> DEFINE field == Place(g, n, STATE_DEPTH)
           hashes == ConsolidationHashes(w)
           items == ConsolidationItems(w)
<1>1. field = PENDING_CONSOLIDATIONS_FIELD_INDEX
  <2>1. field \in Nat /\ field < 37
    BY FoldEntersField
  <2> HIDE DEF field
  <2>2. field >= 36
    BY DEF field, PENDING_CONSOLIDATIONS_FIELD_INDEX
  <2> QED BY <2>1, <2>2 DEF PENDING_CONSOLIDATIONS_FIELD_INDEX
<1>2. w \in World
  BY DEF EntersState
<1>3. /\ GetLeaf(FieldRoots(w), field) = ListRoot(hashes, ConsolidationListDepth)
      /\ Len(hashes) \in Nat /\ Len(hashes) = Len(w.pending)
      /\ IsListOf(hashes, items, CONSOLIDATION_DEPTH)
  BY <1>1, <1>2, ListFields, ListsOfItems, HashCount
<1>4. CONSOLIDATION_DEPTH \in Nat /\ CONSOLIDATION_DEPTH > 0 /\ ConsolidationListDepth \in Nat
  BY DepthAssumption DEF CONSOLIDATION_DEPTH
<1> HIDE DEF hashes, items
<1>5. EntersItem(w, leaf, branch, g, c, n, hashes, ConsolidationListDepth, items, CONSOLIDATION_DEPTH)
  BY <1>3, <1>4 DEF EntersItem
<1>6. /\ n = CONSOLIDATION_DEPTH + ConsolidationListDepth + 1
      /\ place \in Nat /\ place < Len(hashes)
      /\ leaf = GetLeaf(items[place + 1], Place(g, 0, CONSOLIDATION_DEPTH))
  BY <1>5, FoldReachesItem
<1> QED BY <1>3, <1>6 DEF items

\* The same for the validators, where the branch is known to lead into their list.
LEMMA FoldReachesValidator ==
  ASSUME NEW w, NEW leaf, NEW branch, NEW g, NEW c, NEW n, NEW place,
         EntersState(w, leaf, branch, g, c, n),
         Place(g, n, STATE_DEPTH) = VALIDATORS_FIELD_INDEX,
         n >= VALIDATOR_DEPTH + ValidatorListDepth + 1,
         place = Place(g, VALIDATOR_DEPTH, ValidatorListDepth)
  PROVE  /\ n = VALIDATOR_DEPTH + ValidatorListDepth + 1
         /\ Shr(g, VALIDATOR_DEPTH + ValidatorListDepth) % 2 = 0
         /\ place \in Nat /\ place < Len(w.validators)
         /\ leaf = GetLeaf(ValidatorItems(w)[place + 1], Place(g, 0, VALIDATOR_DEPTH))
<1> DEFINE hashes == ValidatorHashes(w)
           items == ValidatorItems(w)
<1>1. w \in World
  BY DEF EntersState
<1>2. /\ GetLeaf(FieldRoots(w), VALIDATORS_FIELD_INDEX) = ListRoot(hashes, ValidatorListDepth)
      /\ Len(hashes) \in Nat /\ Len(hashes) = Len(w.validators)
      /\ IsListOf(hashes, items, VALIDATOR_DEPTH)
  BY <1>1, ListFields, ListsOfItems, HashCount
<1>3. VALIDATOR_DEPTH \in Nat /\ VALIDATOR_DEPTH > 0 /\ ValidatorListDepth \in Nat
  BY DepthAssumption DEF VALIDATOR_DEPTH
<1> HIDE DEF hashes, items
<1>4. EntersItem(w, leaf, branch, g, c, n, hashes, ValidatorListDepth, items, VALIDATOR_DEPTH)
  BY <1>2, <1>3 DEF EntersItem
<1>5. /\ n = VALIDATOR_DEPTH + ValidatorListDepth + 1
      /\ Shr(g, VALIDATOR_DEPTH + ValidatorListDepth) % 2 = 0
      /\ place \in Nat /\ place < Len(hashes)
      /\ leaf = GetLeaf(items[place + 1], Place(g, 0, VALIDATOR_DEPTH))
  BY <1>4, FoldReachesItem
<1> QED BY <1>2, <1>5 DEF items

-----------------------------------------------------------------------------
\* The contract's checks of one branch.

\* toLittleEndian64 is what the consensus layer serializes, and no two numbers have
\* the same bytes.
LEMMA LittleEndianInjective ==
  ASSUME NEW m \in Nat, NEW n \in Nat
  PROVE  /\ ToLittleEndian64(n) = LittleEndian(n)
         /\ LittleEndian(m) = LittleEndian(n) => m = n
<1>1. Reverse(<<n \div 256, n % 256>>) = <<n % 256, n \div 256>>
  BY DEF Reverse
<1>2. ToLittleEndian64(n) = LittleEndian(n)
  <2> DEFINE a == n % 256
             b == n \div 256
  <2>1. ToLittleEndian64(n) = <<a, b>> \o <<0, 0>>
    BY <1>1 DEF ToLittleEndian64
  <2>3. a \in Nat /\ b \in Nat
    OBVIOUS
  <2> HIDE DEF a, b
  <2> DEFINE front == <<a, b>>
             back == <<0, 0>>
             t == front \o back
  <2>4. /\ front \in Seq(Nat) /\ back \in Seq(Nat) /\ Len(front) = 2 /\ Len(back) = 2
        /\ front[1] = a /\ front[2] = b /\ back[1] = 0 /\ back[2] = 0
    BY <2>3
  <2> HIDE DEF front, back
  <2>5. /\ t \in Seq(Nat) /\ Len(t) = 4
        /\ t[1] = a /\ t[2] = b /\ t[3] = 0 /\ t[4] = 0
    <3>1. t \in Seq(Nat) /\ Len(t) = Len(front) + Len(back)
      BY <2>4, ConcatProperties
    <3>2. \A k \in 1..(Len(front) + Len(back)) :
            t[k] = IF k <= Len(front) THEN front[k] ELSE back[k - Len(front)]
      BY <2>4, ConcatProperties
    <3> HIDE DEF t
    <3> QED BY <2>4, <3>1, <3>2
  <2> HIDE DEF t
  <2>2. t = <<a, b, 0, 0>>
    BY <2>3, <2>5
  <2> USE DEF t, front, back
  <2> QED BY <2>1, <2>2 DEF LittleEndian, a, b
<1>3. ASSUME LittleEndian(m) = LittleEndian(n) PROVE m = n
  <2>1. m % 256 = n % 256 /\ m \div 256 = n \div 256
    BY <1>3 DEF LittleEndian
  <2> QED BY <2>1
<1> QED BY <1>2, <1>3

\* Check 5 of claimReward: a leaf proven at consolidationSourceGindex of any number
\* is the source index of some pending consolidation.
LEMMA ConsolidationBranch ==
  ASSUME NEW w, NEW leaf, NEW branch, NEW i,
         w \in World, i \in Nat, Len(branch) = CONSOLIDATION_PROOF_LENGTH,
         VerifyProof(BlockRoot[w], leaf, branch, ConsolidationSourceGindex(i))
  PROVE  \E k \in DOMAIN w.pending : leaf = LittleEndian(w.pending[k].source_index)
<1> DEFINE g == ConsolidationSourceGindex(i)
           n == ConsolidationListDepth + 2
           place == Place(g, CONSOLIDATION_DEPTH, ConsolidationListDepth)
<1>1. /\ ConsolidationListDepth \in Nat /\ n \in Nat /\ n > 0
      /\ n >= CONSOLIDATION_DEPTH + ConsolidationListDepth + 1
      /\ Len(branch) = (n + STATE_DEPTH) + HEADER_DEPTH /\ Len(branch) \in Nat
  BY DepthAssumption DEF CONSOLIDATION_PROOF_LENGTH, CONSOLIDATION_DEPTH, STATE_DEPTH, HEADER_DEPTH
<1>2. /\ g \in Nat /\ g % 2 = 0 /\ g >= 2
      /\ Place(g, n, STATE_DEPTH) \in 36..63
  BY ConsolidationPlaces
<1> HIDE DEF g, n
<1>3. PICK c : IsFold(c, leaf, branch, g)
  BY <1>1, FoldExists
<1>4. c[Len(branch)] = BlockRoot[w]
  <2>1. VerifyProof(BlockRoot[w], leaf, branch, g)
    BY DEF g
  <2>2. g > 1
    BY <1>2
  <2> QED BY <1>1, <1>2, <1>3, <2>1, <2>2, VerifyProofFolds
<1>5. EntersState(w, leaf, branch, g, c, n)
  BY <1>1, <1>2, <1>3, <1>4 DEF EntersState
<1>6. Place(g, n, STATE_DEPTH) >= PENDING_CONSOLIDATIONS_FIELD_INDEX
  <2> DEFINE x == Place(g, n, STATE_DEPTH)
  <2>1. x \in 36..63
    BY <1>2
  <2> HIDE DEF x
  <2>2. x >= 36
    BY <2>1
  <2> QED BY <2>2 DEF x, PENDING_CONSOLIDATIONS_FIELD_INDEX
<1>7. /\ place \in Nat /\ place < Len(w.pending)
      /\ leaf = GetLeaf(ConsolidationItems(w)[place + 1], Place(g, 0, CONSOLIDATION_DEPTH))
  BY <1>1, <1>5, <1>6, FoldReachesConsolidation
<1>8. Place(g, 0, CONSOLIDATION_DEPTH) = 0
  <2>1. 0 \in Nat /\ CONSOLIDATION_DEPTH = 1 /\ 0 + 1 = 1
    BY DEF CONSOLIDATION_DEPTH
  <2>2. Shr(g, 0) = g /\ Shr(g, 0 + 1) = Shr(g, 0) \div 2
    BY <1>2, <2>1, ShrZero, ShrUp
  <2>3. Place(g, 0, CONSOLIDATION_DEPTH) = g - 2 * (g \div 2)
    BY <2>1, <2>2, PowValues DEF Place
  <2> QED BY <1>2, <2>3
<1> HIDE DEF place
<1>9. DOMAIN w.pending = 1..Len(w.pending) /\ Len(w.pending) \in Nat
  BY WorldAssumption
<1>10. place + 1 \in DOMAIN w.pending
  BY <1>7, <1>9
<1>11. ConsolidationItems(w)[place + 1] = ConsolidationChunks(w.pending[place + 1])
  BY <1>10 DEF ConsolidationItems
<1> DEFINE pending == w.pending[place + 1]
<1> HIDE DEF pending
<1>12. GetLeaf(ConsolidationChunks(pending), 0) = LittleEndian(pending.source_index)
  BY DEF GetLeaf, ConsolidationChunks
<1>13. leaf = LittleEndian(pending.source_index)
  BY <1>7, <1>8, <1>11, <1>12 DEF pending
<1> QED BY <1>10, <1>13 DEF pending

\* What validator s of a pending consolidation can at most or into the generalized
\* index: the field stays field 11, and a path into the list's data is that of s.
LEMMA ValidatorPlaces ==
  ASSUME NEW s, NEW field, NEW g, NEW n,
         s \in Nat, s < Pow(ValidatorListDepth + 1), field \in Nat, field < 8,
         g = ValidatorGindex(s, field), n = ValidatorListDepth + 4
  PROVE  /\ g \in Nat /\ g > 1 /\ n \in Nat
         /\ Place(g, n, STATE_DEPTH) = 11
         /\ Place(g, 0, VALIDATOR_DEPTH) = field
         /\ Shr(g, VALIDATOR_DEPTH + ValidatorListDepth) % 2 = 0
              => Place(g, VALIDATOR_DEPTH, ValidatorListDepth) = s
<1> DEFINE L == ValidatorListDepth
           V == VALIDATOR_DEPTH
           data == ValidatorData
           inner == ShiftOr(data, L, s)
           y == Shr(s, L)
           o == Or[data][y]
           p == Pow(L)
<1>1. L \in Nat /\ L + 1 \in Nat /\ n = (V + L) + 1 /\ V \in Nat /\ Pow(V) = 8 /\ V = 3 /\ V + L \in Nat
  BY DepthAssumption, PowValues DEF VALIDATOR_DEPTH
<1>2. data = 1430 /\ data \in Nat
  BY FieldGindexes
<1>3. p \in Nat /\ p > 0
  BY <1>1, PowType
<1> HIDE DEF data, L, V
<1>4. y \in {0, 1}
  <2>1. Shr(s, L + 1) = 0
    BY <1>1, ShrValue DEF L
  <2>2. Shr(s, L) = 2 * Shr(s, L + 1) + (Shr(s, L) % 2) /\ Shr(s, L) % 2 \in {0, 1}
    BY <1>1, ShrHalf
  <2> QED BY <2>1, <2>2
<1>5. inner \in Nat /\ Shr(inner, L) = o
  BY <1>1, <1>2, ShiftOrShr
<1>6. inner = p * o + (s - p * y)
  BY <1>1, <1>2, ShiftOrShr
<1> HIDE DEF y, p
<1>7. o \in Nat /\ o \div 2 = 715 /\ (o % 2 = 0 => y = 0)
  <2>1. y \in Nat /\ y \div 2 = 0 /\ (y % 2 = 1 <=> y = 1) /\ 1430 \div 2 = 715
    BY <1>4
  <2>2. o \in Nat /\ o \div 2 = Or[data \div 2][y \div 2] /\ (y % 2 = 1 => o % 2 = 1)
    BY <1>2, <2>1, OrBits
  <2>3. Or[715][0] = 715
    BY OrBits
  <2> QED BY <1>2, <1>4, <2>1, <2>2, <2>3
<1> HIDE DEF inner, o
<1>8. g = 8 * inner + field
  <2>1. g = ShiftOr(inner, V, field)
    BY DEF ValidatorGindex, inner, data, L, V
  <2>2. field < Pow(V)
    BY <1>1
  <2>3. g = Pow(V) * inner + field
    BY <1>1, <1>5, <2>1, <2>2, ShiftOrSum
  <2> QED BY <1>1, <2>3
<1>9. g \in Nat /\ g \div 8 = inner
  BY <1>5, <1>8
<1>10. Shr(g, V) = inner
  BY <1>1, <1>9, ShrValue
<1>11. Shr(g, V + L) = o
  <2>1. Shr(g, V + L) = Shr(Shr(g, V), L)
    BY <1>1, <1>9, ShrSum
  <2> QED BY <1>5, <1>10, <2>1
<1>12. Shr(g, n) = 715
  <2>1. Shr(g, (V + L) + 1) = Shr(g, V + L) \div 2
    BY <1>1, <1>9, ShrUp
  <2> QED BY <1>1, <1>7, <1>11, <2>1
<1>13. n \in Nat /\ Place(g, n, STATE_DEPTH) = 11
  <2>1. STATE_DEPTH \in Nat /\ Pow(STATE_DEPTH) = 64 /\ n \in Nat
    BY <1>1, PowValues DEF STATE_DEPTH
  <2> DEFINE x == Shr(g, n)
  <2>2. Place(g, n, STATE_DEPTH) = x - Pow(STATE_DEPTH) * Shr(x, STATE_DEPTH)
    BY <1>9, <2>1, PlaceRange
  <2>3. x \in Nat /\ x = 715
    BY <1>12
  <2> HIDE DEF x
  <2>4. Shr(x, STATE_DEPTH) = x \div Pow(STATE_DEPTH)
    BY <2>1, <2>3, ShrValue
  <2> QED BY <2>1, <2>2, <2>3, <2>4
<1>14. Place(g, 0, V) = field
  <2>1. 0 + V = V /\ Shr(g, 0) = g
    BY <1>1, <1>9, ShrZero
  <2>2. Place(g, 0, V) = g - 8 * inner
    BY <1>1, <1>10, <2>1 DEF Place
  <2> QED BY <1>5, <1>8, <2>2
<1>15. ASSUME o % 2 = 0 PROVE Place(g, V, L) = s
  <2>1. Place(g, V, L) = inner - p * o
    BY <1>10, <1>11 DEF Place, p
  <2>2. y = 0
    BY <1>7, <1>15
  <2> DEFINE z == p * o
  <2>3. z \in Nat /\ p * y = 0
    BY <1>3, <1>7, <2>2
  <2> HIDE DEF z
  <2>4. inner = z + (s - p * y) /\ Place(g, V, L) = inner - z
    BY <1>6, <2>1 DEF z
  <2> QED BY <2>3, <2>4
<1>16. g > 1
  <2>1. inner # 0
    <3> SUFFICES ASSUME inner = 0 PROVE FALSE
      OBVIOUS
    <3>1. Shr(inner, L) = 0
      BY <1>1, <1>3, ShrValue DEF p
    <3> QED BY <3>1, <1>5, <1>7
  <2> QED BY <1>5, <1>8, <2>1
<1> QED BY <1>9, <1>11, <1>13, <1>14, <1>15, <1>16 DEF V, L

\* What the contract finds out of a leaf of validator s.
ShowsValidator(w, leaf, branch, s, field) ==
  /\ w \in World /\ s \in Nat /\ s < Pow(ValidatorListDepth + 1) /\ field \in Nat /\ field < 8
  /\ Len(branch) = VALIDATOR_PROOF_LENGTH
  /\ VerifyProof(BlockRoot[w], leaf, branch, ValidatorGindex(s, field))

\* Checks 6 and 7: a leaf proven at a generalized index of validator s is that chunk
\* of validator s, who exists.
LEMMA ValidatorBranch ==
  ASSUME NEW w, NEW leaf, NEW branch, NEW s, NEW field, ShowsValidator(w, leaf, branch, s, field)
  PROVE  s + 1 \in DOMAIN w.validators /\ leaf = ValidatorChunks(w.validators[s + 1])[field + 1]
<1> DEFINE g == ValidatorGindex(s, field)
           n == ValidatorListDepth + 4
           place == Place(g, VALIDATOR_DEPTH, ValidatorListDepth)
<1>0. /\ w \in World /\ s \in Nat /\ s < Pow(ValidatorListDepth + 1) /\ field \in Nat /\ field < 8
      /\ Len(branch) = VALIDATOR_PROOF_LENGTH
      /\ VerifyProof(BlockRoot[w], leaf, branch, g)
  BY DEF ShowsValidator
<1>1. /\ ValidatorListDepth \in Nat /\ n \in Nat /\ n > 0
      /\ n >= VALIDATOR_DEPTH + ValidatorListDepth + 1
      /\ Len(branch) = (n + STATE_DEPTH) + HEADER_DEPTH /\ Len(branch) \in Nat
  BY <1>0, DepthAssumption DEF VALIDATOR_PROOF_LENGTH, VALIDATOR_DEPTH, STATE_DEPTH, HEADER_DEPTH
<1>2. /\ g \in Nat /\ g > 1
      /\ Place(g, n, STATE_DEPTH) = 11
      /\ Place(g, 0, VALIDATOR_DEPTH) = field
      /\ Shr(g, VALIDATOR_DEPTH + ValidatorListDepth) % 2 = 0 => place = s
  BY <1>0, ValidatorPlaces
<1> HIDE DEF g, n
<1>3. PICK c : IsFold(c, leaf, branch, g)
  BY <1>1, FoldExists
<1>4. c[Len(branch)] = BlockRoot[w]
  BY <1>0, <1>1, <1>2, <1>3, VerifyProofFolds
<1>5. EntersState(w, leaf, branch, g, c, n)
  BY <1>0, <1>1, <1>2, <1>3, <1>4 DEF EntersState
<1>6. Place(g, n, STATE_DEPTH) = VALIDATORS_FIELD_INDEX
  BY <1>2 DEF VALIDATORS_FIELD_INDEX
<1>7. /\ Shr(g, VALIDATOR_DEPTH + ValidatorListDepth) % 2 = 0
      /\ place \in Nat /\ place < Len(w.validators)
      /\ leaf = GetLeaf(ValidatorItems(w)[place + 1], Place(g, 0, VALIDATOR_DEPTH))
  BY <1>1, <1>5, <1>6, FoldReachesValidator
<1> HIDE DEF place
<1>8. s < Len(w.validators) /\ leaf = GetLeaf(ValidatorItems(w)[s + 1], field)
  BY <1>2, <1>7
<1>9. DOMAIN w.validators = 1..Len(w.validators) /\ Len(w.validators) \in Nat
  BY <1>0, WorldAssumption
<1>10. s + 1 \in DOMAIN w.validators
  BY <1>0, <1>8, <1>9
<1>11. ValidatorItems(w)[s + 1] = ValidatorChunks(w.validators[s + 1])
  BY <1>10 DEF ValidatorItems
<1> DEFINE v == w.validators[s + 1]
<1> HIDE DEF v
<1>12. Len(ValidatorChunks(v)) = 8
  BY DEF ValidatorChunks
<1>13. GetLeaf(ValidatorChunks(v), field) = ValidatorChunks(v)[field + 1]
  BY <1>0, <1>12 DEF GetLeaf
<1> QED BY <1>8, <1>10, <1>11, <1>13 DEF v

\* The chunks of a validator that checks 6 and 7 prove.
LEMMA ClaimedChunks ==
  ASSUME NEW v
  PROVE  /\ ValidatorChunks(v)[WITHDRAWAL_CREDENTIALS_FIELD_INDEX + 1] = v.withdrawal_credentials
         /\ ValidatorChunks(v)[ACTIVATION_EPOCH_FIELD_INDEX + 1] = LittleEndian(v.activation_epoch)
BY DEF ValidatorChunks, WITHDRAWAL_CREDENTIALS_FIELD_INDEX, ACTIVATION_EPOCH_FIELD_INDEX

\* A claim whose proofs pass checks 4 to 7 of claimReward is true of the state,
\* whatever its indices, leaves and branches: AcceptedIsTrue without the bounds on
\* what a caller submits.
THEOREM PassedClaimIsTrue ==
  ASSUME NEW w, NEW c, w \in World, ProofsPass(BlockRoot[w], c),
         c.consolidationIndex \in Nat, c.sourceIndex \in Nat, c.activationEpoch \in Nat
  PROVE  \E v \in DOMAIN w.validators :
           /\ c.sourceIndex = v - 1
           /\ \E i \in DOMAIN w.pending : w.pending[i].source_index = v - 1
           /\ c.sourceCredentials = w.validators[v].withdrawal_credentials
           /\ c.activationEpoch = w.validators[v].activation_epoch
<1> DEFINE s == c.sourceIndex
           v == s + 1
           E == ACTIVATION_EPOCH_FIELD_INDEX
           C == WITHDRAWAL_CREDENTIALS_FIELD_INDEX
<1>1. PICK i \in DOMAIN w.pending : w.pending[i].source_index = s
  <2>1. PICK i \in DOMAIN w.pending : ToLittleEndian64(s) = LittleEndian(w.pending[i].source_index)
    BY ConsolidationBranch DEF ProofsPass
  <2>2. w.pending[i] \in PendingConsolidation
    BY <2>1, WorldAssumption
  <2> DEFINE p == w.pending[i].source_index
  <2>3. p \in Nat
    BY <2>2, PowType, DepthAssumption DEF PendingConsolidation, Pow
  <2> HIDE DEF p, s
  <2>4. s \in Nat /\ ToLittleEndian64(s) = LittleEndian(p)
    BY <2>1 DEF p, s
  <2>5. p = s
    BY <2>3, <2>4, LittleEndianInjective
  <2> QED BY <2>1, <2>5 DEF p
<1>2. s \in Nat /\ s < Pow(ValidatorListDepth + 1)
  <2>1. w.pending[i] \in PendingConsolidation
    BY <1>1, WorldAssumption
  <2>2. s \in 0..Pow(ValidatorListDepth + 1) - 1
    BY <1>1, <2>1 DEF PendingConsolidation, Pow
  <2>3. Pow(ValidatorListDepth + 1) \in Nat
    BY PowType, DepthAssumption
  <2> DEFINE b == Pow(ValidatorListDepth + 1)
  <2> HIDE DEF b, s
  <2> QED BY <2>2, <2>3 DEF b
<1>3. C \in Nat /\ E \in Nat /\ C < 8 /\ E < 8
  BY DEF WITHDRAWAL_CREDENTIALS_FIELD_INDEX, ACTIVATION_EPOCH_FIELD_INDEX
<1>4. /\ Len(c.proofCredentials) = VALIDATOR_PROOF_LENGTH
      /\ Len(c.proofActivationEpoch) = VALIDATOR_PROOF_LENGTH
      /\ VerifyProof(BlockRoot[w], c.sourceCredentials, c.proofCredentials, ValidatorGindex(s, C))
      /\ VerifyProof(BlockRoot[w], ToLittleEndian64(c.activationEpoch), c.proofActivationEpoch,
                     ValidatorGindex(s, E))
  BY DEF ProofsPass
<1> HIDE DEF s, C, E
<1>5. ShowsValidator(w, c.sourceCredentials, c.proofCredentials, s, C)
  BY <1>2, <1>3, <1>4 DEF ShowsValidator
<1>6. ShowsValidator(w, ToLittleEndian64(c.activationEpoch), c.proofActivationEpoch, s, E)
  BY <1>2, <1>3, <1>4 DEF ShowsValidator
<1>10. v \in DOMAIN w.validators /\ c.sourceCredentials = ValidatorChunks(w.validators[v])[C + 1]
  BY <1>5, ValidatorBranch
<1>11. ToLittleEndian64(c.activationEpoch) = ValidatorChunks(w.validators[v])[E + 1]
  BY <1>6, ValidatorBranch
<1> HIDE DEF v
<1>7. c.sourceCredentials = w.validators[v].withdrawal_credentials
  BY <1>10, ClaimedChunks DEF C
<1>8. c.activationEpoch = w.validators[v].activation_epoch
  <2>1. w.validators[v] \in Validator
    BY <1>10, WorldAssumption
  <2> DEFINE e == w.validators[v].activation_epoch
             d == c.activationEpoch
  <2>2. e \in Nat /\ d \in Nat
    BY <2>1 DEF Validator
  <2>3. ToLittleEndian64(d) = LittleEndian(e)
    BY <1>11, ClaimedChunks DEF E
  <2> HIDE DEF e, d
  <2>4. d = e
    BY <2>2, <2>3, LittleEndianInjective
  <2> QED BY <2>4 DEF d, e
<1>9. s = v - 1
  BY <1>2 DEF v
<1> QED BY <1>1, <1>10, <1>7, <1>8, <1>9 DEF s

-----------------------------------------------------------------------------
\* Generalized indices of the contract and of the service.

\* Powers grow.
LEMMA PowMonotone ==
  ASSUME NEW m, NEW n, m \in Nat, n \in Nat, m <= n
  PROVE  Pow(m) <= Pow(n)
<1> DEFINE d == n - m
<1>1. d \in Nat /\ m + d = n
  OBVIOUS
<1> HIDE DEF d
<1>2. Pow(m + d) = Pow(m) * Pow(d)
  BY <1>1, PowSum
<1>3. Pow(m) \in Nat /\ Pow(d) \in Nat /\ Pow(d) >= 1
  BY <1>1, PowType
<1> DEFINE x == Pow(m)
           y == Pow(d)
<1> HIDE DEF x, y
<1>4. x * y >= x
  <2>1. x \in Nat /\ y \in Nat /\ y >= 1
    BY <1>3 DEF x, y
  <2>2. PICK z \in Nat : y = z + 1
    <3>1. y - 1 \in Nat /\ y = (y - 1) + 1
      BY <2>1
    <3> QED BY <3>1
  <2>3. x * y = x * z + x /\ x * z \in Nat
    BY <2>1, <2>2
  <2> QED BY <2>1, <2>3
<1> QED BY <1>1, <1>2, <1>4 DEF x, y

\* A shift takes as many bits from a number as its width says.
LEMMA ShrBounds ==
  ASSUME NEW x, NEW n, NEW r, x \in Nat, n \in Nat, r \in Nat, r <= n,
         Pow(n) <= x, x < Pow(n + 1)
  PROVE  Pow(n - r) <= Shr(x, r) /\ Shr(x, r) < Pow((n - r) + 1)
<1> DEFINE d == n - r
           q == Shr(x, r)
           p == Pow(r)
           u == Pow(d)
<1>1. d \in Nat /\ r + d = n
  OBVIOUS
<1>2. q \in Nat /\ p \in Nat /\ p > 0 /\ u \in Nat
  BY <1>1, ShrType, PowType
<1>3. x - p * q \in 0..p - 1
  BY ShrValue
<1> HIDE DEF d
<1>4. Pow(n) = p * u
  BY <1>1, PowSum
<1>5. Pow(n + 1) = 2 * Pow(n) /\ Pow(d + 1) = 2 * u
  BY <1>1, PowStep
<1> HIDE DEF q, p, u
<1>6. p * u <= x /\ x < p * (2 * u)
  <2>1. p * (2 * u) = 2 * (p * u)
    BY <1>2
  <2> QED BY <1>4, <1>5, <2>1
<1>7. p * q \in Nat /\ p * q <= x /\ x < p * q + p
  <2>1. p * q \in Nat
    BY <1>2
  <2> QED BY <1>2, <1>3, <2>1
<1>8. u <= q
  <2> SUFFICES ASSUME q + 1 <= u PROVE FALSE
    BY <1>2
  <2>1. p * (q + 1) <= p * u
    BY <1>2
  <2>2. p * (q + 1) = p * q + p
    BY <1>2
  <2> QED BY <1>6, <1>7, <2>1, <2>2, <1>2
<1>9. q < 2 * u
  <2> SUFFICES ASSUME 2 * u <= q PROVE FALSE
    BY <1>2
  <2>1. p * (2 * u) <= p * q
    BY <1>2
  <2>2. p * (2 * u) \in Nat
    BY <1>2
  <2> QED BY <1>6, <1>7, <2>1, <2>2
<1> QED BY <1>5, <1>8, <1>9 DEF d, u, q

\* The binary search of _log2 finds the highest bit of any number of the word.
LEMMA Log2Value ==
  ASSUME NEW x, NEW n, x \in Nat, n \in Nat, Pow(n) <= x, x < Pow(n + 1), n < Pow(WordSteps)
  PROVE  Log2(x) = n
<1> DEFINE W == WordSteps
           Up(s, k) == LET bits == 2^(W - k)
                       IN  IF s.x >= 2^bits THEN [x |-> s.x \div 2^bits, result |-> s.result + bits] ELSE s
           Search(f) == [k \in 0..W |-> IF k = 0 THEN [x |-> x, result |-> 0] ELSE Up(f[k - 1], k)]
           search == CHOOSE f : f = Search(f)
           r(e) == Pow(e) * Shr(n, e)
           state(e) == [x |-> Shr(x, r(e)), result |-> r(e)]
           d == [k \in 0..W |-> state(W - k)]
<1>0. W \in Nat
  BY DepthAssumption
<1>1. \A e \in Nat : r(e) \in Nat /\ r(e) <= n /\ n < r(e) + Pow(e) /\ Pow(e) \in Nat
  <2> TAKE e \in Nat
  <2>1. Pow(e) \in Nat /\ Pow(e) > 0 /\ Shr(n, e) \in Nat
    BY PowType, ShrType
  <2>2. n - Pow(e) * Shr(n, e) \in 0..Pow(e) - 1
    BY ShrValue
  <2> DEFINE p == Pow(e)
             q == Shr(n, e)
             z == p * q
  <2>3. z \in Nat
    BY <2>1
  <2> HIDE DEF p, q, z
  <2>4. n - z \in 0..p - 1 /\ p \in Nat /\ p > 0
    BY <2>1, <2>2 DEF p, q, z
  <2>5. z <= n /\ n < z + p
    BY <2>3, <2>4
  <2> QED BY <2>1, <2>3, <2>5 DEF p, q, z
<1>2. state(W) = [x |-> x, result |-> 0]
  <2>1. Shr(n, W) = 0
    BY <1>0, ShrValue
  <2>2. Pow(W) \in Nat /\ 0 \in Nat
    BY <1>0, PowType
  <2>3. r(W) = 0
    BY <2>1, <2>2
  <2>4. Shr(x, 0) = x
    BY ShrZero
  <2> QED BY <2>3, <2>4
<1>3. ASSUME NEW k \in 1..W PROVE Up(state((W - k) + 1), k) = state(W - k)
  <2> DEFINE e == W - k
             bits == Pow(e)
             s == r(e + 1)
             t == r(e)
             b == Shr(n, e) % 2
             y == Shr(x, s)
  <2>1. e \in Nat /\ e + 1 \in Nat
    BY <1>0
  <2> HIDE DEF e
  <2>2. s \in Nat /\ s <= n /\ t \in Nat /\ t <= n /\ n < t + bits /\ bits \in Nat
    BY <1>1, <2>1
  <2>3. t = s + bits * b /\ b \in {0, 1}
    <3>1. Shr(n, e) = 2 * Shr(n, e + 1) + b /\ b \in {0, 1} /\ Pow(e + 1) = 2 * bits
      BY <2>1, ShrHalf, PowStep
    <3>2. Shr(n, e + 1) \in Nat
      BY <2>1, ShrType
    <3> DEFINE h == Shr(n, e + 1)
    <3> HIDE DEF b, h, bits
    <3>3. bits * (2 * h + b) = (2 * bits) * h + bits * b
      BY <2>2, <3>1, <3>2 DEF h
    <3> QED BY <3>1, <3>3 DEF h, bits
  <2> HIDE DEF b, s, t, bits
  <2>4. Pow(n - s) <= y /\ y < Pow((n - s) + 1) /\ y \in Nat
    BY <2>2, ShrBounds, ShrType
  <2>5. state(e + 1) = [x |-> y, result |-> s] /\ state(e) = [x |-> Shr(x, t), result |-> t]
    BY DEF s, t
  <2>6. Pow(bits) \in Nat /\ Pow(n - s) \in Nat /\ Pow((n - s) + 1) \in Nat
    BY <2>2, PowType
  <2> HIDE DEF y
  <2>7. CASE b = 1
    <3>1. t = s + bits
      BY <2>2, <2>3, <2>7
    <3>2. bits <= n - s /\ n - s \in Nat
      BY <2>2, <3>1
    <3>3. Pow(bits) <= Pow(n - s)
      BY <2>2, <3>2, PowMonotone
    <3>4. y >= Pow(bits)
      BY <2>4, <2>6, <3>3
    <3>5. Shr(x, t) = Shr(y, bits)
      <4>1. Shr(x, s + bits) = Shr(Shr(x, s), bits)
        BY <2>2, ShrSum
      <4> QED BY <3>1, <4>1 DEF y
    <3>6. Up([x |-> y, result |-> s], k) = [x |-> Shr(y, bits), result |-> s + bits]
      BY <3>4 DEF Pow, Shr, bits, e
    <3> QED BY <2>5, <3>1, <3>5, <3>6 DEF e
  <2>8. CASE b = 0
    <3>1. t = s
      BY <2>2, <2>3, <2>8
    <3>2. (n - s) + 1 <= bits /\ (n - s) + 1 \in Nat
      BY <2>2, <3>1
    <3>3. Pow((n - s) + 1) <= Pow(bits)
      BY <2>2, <3>2, PowMonotone
    <3>4. ~ (y >= Pow(bits))
      BY <2>4, <2>6, <3>3
    <3>5. Up([x |-> y, result |-> s], k) = [x |-> y, result |-> s]
      BY <3>4 DEF Pow, bits, e
    <3> QED BY <2>5, <3>1, <3>5 DEF e, y
  <2> QED BY <2>3, <2>7, <2>8
<1>4. state(0).result = n
  <2>1. Pow(0) = 1 /\ Shr(n, 0) = n
    BY PowValues, ShrZero
  <2>2. r(0) = n
    BY <2>1
  <2> QED BY <2>2
<1> HIDE DEF Up, state
<1>5. d = Search(d)
  <2> SUFFICES ASSUME NEW k \in 0..W
               PROVE  d[k] = IF k = 0 THEN [x |-> x, result |-> 0] ELSE Up(d[k - 1], k)
    BY Zenon
  <2>1. CASE k = 0
    <3>1. W - 0 = W
      BY <1>0
    <3> QED BY <1>0, <1>2, <2>1, <3>1
  <2>2. CASE k # 0
    <3>1. k \in 1..W /\ k - 1 \in 0..W /\ W - (k - 1) = (W - k) + 1
      BY <1>0, <2>2
    <3>2. d[k - 1] = state((W - k) + 1) /\ d[k] = state(W - k)
      BY <3>1
    <3> QED BY <1>3, <2>2, <3>1, <3>2
  <2> QED BY <2>1, <2>2
<1>6. search = Search(search)
  <2> HIDE DEF Search, d
  <2> QED BY <1>5
<1> HIDE DEF search, d, W
<1> DEFINE S == {k \in Nat : k <= W => search[k] = d[k]}
<1>7. \A k \in Nat : k \in S
  <2>1. 0 \in S
    BY <1>0, <1>5, <1>6
  <2>2. ASSUME NEW k \in Nat, k \in S PROVE k + 1 \in S
    <3> SUFFICES ASSUME k + 1 <= W PROVE search[k + 1] = d[k + 1]
      OBVIOUS
    <3>1. search[k + 1] = Up(search[k], k + 1) /\ d[k + 1] = Up(d[k], k + 1)
      BY <1>0, <1>5, <1>6
    <3> QED BY <1>0, <2>2, <3>1
  <2> HIDE DEF S
  <2> QED BY <2>1, <2>2, InSetByInduction
<1>8. search[W] = d[W]
  BY <1>0, <1>7
<1>9. d[W] = state(0)
  <2>1. W \in 0..W /\ W - W = 0
    BY <1>0
  <2> QED BY <2>1 DEF d
<1>10. Log2(x) = search[W].result
  BY Zenon DEF Log2, search, Search, Up, W
<1> QED BY <1>4, <1>8, <1>9, <1>10

\* The highest bit of x is bit n.
IsTopBit(x, n) == x \in Nat /\ n \in Nat /\ Pow(n) <= x /\ x < Pow(n + 1)

\* The highest bit moves with a shift.
LEMMA TopBitOfShift ==
  ASSUME NEW q, NEW a, NEW r, NEW n, IsTopBit(q, a), r \in Nat, n \in Nat, r < Pow(n)
  PROVE  IsTopBit(ShiftOr(q, n, r), n + a)
<1>0. q \in Nat /\ a \in Nat /\ Pow(a) <= q /\ q < Pow(a + 1)
  BY DEF IsTopBit
<1> DEFINE p == Pow(n)
           u == Pow(a)
           v == Pow(n + a)
<1>1. p \in Nat /\ p > 0 /\ u \in Nat /\ v \in Nat /\ n + a \in Nat
  BY <1>0, PowType
<1>2. v = p * u
  BY <1>0, PowSum
<1>3. Pow(a + 1) = 2 * u /\ Pow((n + a) + 1) = 2 * v
  BY <1>0, <1>1, PowStep
<1> HIDE DEF p, u, v
<1>4. u <= q /\ q + 1 <= 2 * u /\ r < p
  BY <1>0, <1>1, <1>3 DEF p, u
<1>5. p * u <= p * q /\ p * (q + 1) <= p * (2 * u)
  BY <1>0, <1>1, <1>4
<1>6. p * (q + 1) = p * q + p /\ p * (2 * u) = 2 * (p * u) /\ p * q \in Nat
  BY <1>0, <1>1
<1>7. v <= p * q + r /\ p * q + r < 2 * v
  BY <1>1, <1>2, <1>4, <1>5, <1>6
<1>8. ShiftOr(q, n, r) = p * q + r
  BY <1>0, ShiftOrSum DEF p
<1> QED BY <1>1, <1>3, <1>6, <1>7, <1>8 DEF IsTopBit, v

\* A number that fits the service's integers is kept as it is.
LEMMA U64Fits ==
  ASSUME NEW x, NEW n, x \in Nat, n \in Nat, x < Pow(n), n <= U64Bits
  PROVE  U64(x) = x
<1> DEFINE p == 2^U64Bits
<1>1. p \in Nat /\ Pow(n) \in Nat /\ Pow(n) <= p
  BY PowType, PowMonotone, U64Assumption DEF Pow
<1>2. x < p
  BY <1>1
<1> HIDE DEF p
<1>3. x % p = x
  BY <1>1, <1>2
<1> QED BY <1>3 DEF U64, p

\* A shift whose highest bit stays within the service's integers loses nothing.
LEMMA U64Step ==
  ASSUME NEW q, NEW a, NEW n, NEW i, IsTopBit(q, a), n \in Nat, i \in Nat, i < Pow(n),
         (n + a) + 1 <= U64Bits
  PROVE  U64ShiftOr(q, n, i) = ShiftOr(q, n, i) /\ IsTopBit(ShiftOr(q, n, i), n + a)
<1>1. q \in Nat /\ a \in Nat /\ q < Pow(a + 1)
  BY DEF IsTopBit
<1> DEFINE u == Pow(n)
           v == Pow(a + 1)
           x == q * u
<1>2. u \in Nat /\ u > 0 /\ v \in Nat /\ a + 1 \in Nat /\ n + (a + 1) \in Nat
  BY <1>1, PowType
<1>3. Pow(n + (a + 1)) = u * v
  BY <1>2, PowSum
<1> HIDE DEF u, v
<1>4. x \in Nat /\ x < u * v
  <2>1. q < v
    BY <1>1 DEF v
  <2> QED BY <1>1, <1>2, <2>1
<1>5. n + (a + 1) <= U64Bits
  BY <1>1
<1> HIDE DEF x
<1>6. U64(x) = x
  BY <1>2, <1>3, <1>4, <1>5, U64Fits
<1>7. U64(q * 2^n) = q * 2^n
  BY <1>6 DEF x, u, Pow
<1>8. U64ShiftOr(q, n, i) = ShiftOr(q, n, i)
  BY <1>7 DEF U64ShiftOr, ShiftOr
<1> QED BY <1>8, TopBitOfShift

\* concat_gindices index by index.
LEMMA ConcatSteps ==
  ASSUME NEW gindices, Len(gindices) \in Nat
  PROVE  \E r : /\ r[0] = 1 /\ ConcatGindices(gindices) = r[Len(gindices)]
                /\ \A k \in Nat : k < Len(gindices) =>
                     r[k + 1] = U64ShiftOr(r[k], Log2(gindices[k + 1]),
                                           gindices[k + 1] - 2^Log2(gindices[k + 1]))
<1> DEFINE N == Len(gindices)
           Up(x, k) == LET depth == Log2(gindices[k]) IN U64ShiftOr(x, depth, gindices[k] - 2^depth)
           Results(f, n) == f = [k \in 0..n |-> IF k = 0 THEN 1 ELSE Up(f[k - 1], k)]
           S == {n \in Nat : \E f : Results(f, n)}
<1>1. 0 \in S
  <2>1. Results([k \in 0..0 |-> 1], 0)
    <3> HIDE DEF Up
    <3> QED OBVIOUS
  <2> HIDE DEF Results
  <2> QED BY <2>1
<1>2. ASSUME NEW n \in Nat, n \in S PROVE n + 1 \in S
  <2>1. PICK f : Results(f, n)
    BY <1>2
  <2> DEFINE d == [k \in 0..(n + 1) |-> IF k <= n THEN f[k] ELSE Up(f[n], k)]
  <2> HIDE DEF Up
  <2>2. \A k \in 0..(n + 1) : d[k] = IF k = 0 THEN 1 ELSE Up(d[k - 1], k)
    <3> TAKE k \in 0..(n + 1)
    <3>1. CASE k = 0
      BY <2>1, <3>1
    <3>2. CASE k \in 1..n
      <4>1. k - 1 \in 0..n /\ k \in 0..n /\ d[k] = f[k] /\ d[k - 1] = f[k - 1]
        BY <3>2
      <4> QED BY <2>1, <3>2, <4>1
    <3>3. CASE k = n + 1
      <4>1. k - 1 = n /\ d[n] = f[n] /\ d[k] = Up(f[n], k)
        BY <3>3
      <4> QED BY <3>3, <4>1
    <3> QED BY <3>1, <3>2, <3>3
  <2>3. Results(d, n + 1)
    BY <2>2
  <2> HIDE DEF Results
  <2> QED BY <2>3
<1>3. N \in S
  <2> HIDE DEF S
  <2> QED BY <1>1, <1>2, InSetByInduction
<1> DEFINE result == CHOOSE f : f = [k \in 0..N |-> IF k = 0 THEN 1 ELSE Up(f[k - 1], k)]
<1>4. result = [k \in 0..N |-> IF k = 0 THEN 1 ELSE Up(result[k - 1], k)]
  <2>1. \E f : f = [k \in 0..N |-> IF k = 0 THEN 1 ELSE Up(f[k - 1], k)]
    BY <1>3
  <2> HIDE DEF Up
  <2> QED BY <2>1
<1>5. ConcatGindices(gindices) = result[N]
  BY Zenon DEF ConcatGindices
<1> HIDE DEF result, Up
<1>6. result[0] = 1
  BY <1>4
<1>7. \A k \in Nat : k < N => result[k + 1] = Up(result[k], k + 1)
  BY <1>4
<1> QED BY <1>5, <1>6, <1>7, Zenon DEF Up

\* The depth of a node given as the leading bit and the rest, and the rest.
LEMMA Log2OfSum ==
  ASSUME NEW x, NEW n, NEW i, n \in Nat, i \in Nat, i < Pow(n), n < Pow(WordSteps), x = Pow(n) + i
  PROVE  Log2(x) = n /\ x - 2^Log2(x) = i
<1>1. Pow(n) \in Nat /\ Pow(n + 1) = 2 * Pow(n)
  BY PowType, PowStep
<1>2. x \in Nat /\ Pow(n) <= x /\ x < Pow(n + 1)
  BY <1>1
<1>3. Log2(x) = n
  BY <1>2, Log2Value
<1> QED BY <1>1, <1>3 DEF Pow

\* A node below the state by its place there, and below that by its place in a list,
\* where the service's integers have room for all of it.
LEMMA ConcatPath ==
  ASSUME NEW field, NEW depth, NEW i, NEW inner, NEW leaf,
         field \in Nat, field < 64, depth \in Nat, depth < Pow(WordSteps), i \in Nat, i < Pow(depth),
         inner \in Nat, inner <= 3, leaf \in Nat, leaf < Pow(inner), Pow(WordSteps) > 6,
         (inner + depth) + 11 <= U64Bits
  PROVE  ConcatGindices(<<8 + 3, 64 + field, 2, Pow(depth) + i, Pow(inner) + leaf>>)
           = ShiftOr(ShiftOr(2 * FieldGindex(field), depth, i), inner, leaf)
<1> DEFINE path == <<8 + 3, 64 + field, 2, Pow(depth) + i, Pow(inner) + leaf>>
<1>1. PICK r : /\ r[0] = 1 /\ ConcatGindices(path) = r[Len(path)]
               /\ \A k \in Nat : k < Len(path) =>
                    r[k + 1] = U64ShiftOr(r[k], Log2(path[k + 1]), path[k + 1] - 2^Log2(path[k + 1]))
  <2>1. Len(path) \in Nat
    OBVIOUS
  <2> HIDE DEF path
  <2> QED BY <2>1, ConcatSteps
<1>2. /\ Len(path) = 5 /\ path[1] = 8 + 3 /\ path[2] = 64 + field /\ path[3] = 2 + 0
      /\ path[4] = Pow(depth) + i /\ path[5] = Pow(inner) + leaf
  OBVIOUS
<1> HIDE DEF path
<1>3. /\ r[1] = U64ShiftOr(r[0], Log2(path[1]), path[1] - 2^Log2(path[1]))
      /\ r[2] = U64ShiftOr(r[1], Log2(path[2]), path[2] - 2^Log2(path[2]))
      /\ r[3] = U64ShiftOr(r[2], Log2(path[3]), path[3] - 2^Log2(path[3]))
      /\ r[4] = U64ShiftOr(r[3], Log2(path[4]), path[4] - 2^Log2(path[4]))
      /\ r[5] = U64ShiftOr(r[4], Log2(path[5]), path[5] - 2^Log2(path[5]))
  <2>1. /\ 0 \in Nat /\ 0 + 1 = 1 /\ 0 < 5 /\ 1 \in Nat /\ 1 + 1 = 2 /\ 1 < 5
        /\ 2 \in Nat /\ 2 + 1 = 3 /\ 2 < 5 /\ 3 \in Nat /\ 3 + 1 = 4 /\ 3 < 5
        /\ 4 \in Nat /\ 4 + 1 = 5 /\ 4 < 5
    OBVIOUS
  <2> QED BY <1>1, <1>2, <2>1
<1> DEFINE three == 3
           six == 6
           one == 1
           zero == 0
<1>w. Pow(WordSteps) \in Nat
  BY PowType, DepthAssumption
<1>4. /\ three = 3 /\ six = 6 /\ one = 1 /\ zero = 0
      /\ Pow(three) = 8 /\ Pow(six) = 64 /\ Pow(one) = 2
  BY PowValues
<1> HIDE DEF three, six, one, zero
<1>5. /\ Log2(path[1]) = three /\ path[1] - 2^Log2(path[1]) = three
  <2>1. three \in Nat /\ three < Pow(three) /\ three < Pow(WordSteps) /\ path[1] = Pow(three) + three
    BY <1>2, <1>4, <1>w
  <2> QED BY <2>1, Log2OfSum
<1>6. Log2(path[2]) = six /\ path[2] - 2^Log2(path[2]) = field
  <2>1. six \in Nat /\ field < Pow(six) /\ six < Pow(WordSteps) /\ path[2] = Pow(six) + field
    BY <1>2, <1>4, <1>w
  <2> QED BY <2>1, Log2OfSum
<1>7. Log2(path[3]) = one /\ path[3] - 2^Log2(path[3]) = zero
  <2>1. one \in Nat /\ zero \in Nat /\ zero < Pow(one) /\ one < Pow(WordSteps) /\ path[3] = Pow(one) + zero
    BY <1>2, <1>4, <1>w
  <2> QED BY <2>1, Log2OfSum
<1>8. Log2(path[4]) = depth /\ path[4] - 2^Log2(path[4]) = i
  BY <1>2, Log2OfSum
<1>9. Log2(path[5]) = inner /\ path[5] - 2^Log2(path[5]) = leaf
  <2>1. inner < Pow(WordSteps)
    BY <1>w
  <2> QED BY <1>2, <2>1, Log2OfSum
<1>u. /\ U64Bits \in Nat /\ 11 <= U64Bits /\ depth + 11 <= U64Bits
      /\ (inner + (depth + 10)) + 1 <= U64Bits
  BY U64Assumption
<1>10. r[1] = 11 /\ IsTopBit(r[1], three)
  <2>1. one \in Nat /\ zero \in Nat /\ three \in Nat /\ three < Pow(three)
    BY <1>4
  <2>2. ShiftOr(one, three, three) = Pow(three) * one + three
    BY <2>1, ShiftOrSum
  <2>3. r[0] = one /\ r[1] = U64ShiftOr(one, three, three)
    BY <1>1, <1>3, <1>4, <1>5
  <2>4. IsTopBit(one, zero)
    BY <1>4, PowValues DEF IsTopBit
  <2>5. (three + zero) + 1 <= U64Bits /\ three + zero = three
    BY <1>4, <1>u
  <2>6. U64ShiftOr(one, three, three) = ShiftOr(one, three, three)
        /\ IsTopBit(ShiftOr(one, three, three), three + zero)
    BY <2>1, <2>4, <2>5, U64Step
  <2> QED BY <1>4, <2>2, <2>3, <2>5, <2>6
<1>11. r[2] = FieldGindex(field) /\ IsTopBit(r[2], six + three)
  <2>1. FieldGindex(field) = ShiftOr(r[1], six, field)
    BY <1>4, <1>10 DEF FieldGindex, STATE_DEPTH, STATE_ROOT_GINDEX_IN_HEADER
  <2>2. six \in Nat /\ field < Pow(six) /\ (six + three) + 1 <= U64Bits
    BY <1>4, <1>u
  <2>3. r[2] = U64ShiftOr(r[1], six, field)
    BY <1>3, <1>6
  <2> QED BY <1>10, <2>1, <2>2, <2>3, U64Step
<1>12. r[3] = 2 * FieldGindex(field) /\ IsTopBit(r[3], 10)
  <2>1. one \in Nat /\ zero \in Nat /\ zero < Pow(one) /\ (one + (six + three)) + 1 <= U64Bits
    BY <1>4, <1>u
  <2>2. r[2] \in Nat
    BY <1>11 DEF IsTopBit
  <2>3. ShiftOr(r[2], one, zero) = Pow(one) * r[2] + zero
    BY <2>1, <2>2, ShiftOrSum
  <2>4. U64ShiftOr(r[2], one, zero) = ShiftOr(r[2], one, zero)
        /\ IsTopBit(ShiftOr(r[2], one, zero), one + (six + three))
    BY <1>11, <2>1, U64Step
  <2>5. one + (six + three) = 10
    BY <1>4
  <2>6. r[3] = U64ShiftOr(r[2], one, zero)
    BY <1>3, <1>7
  <2>7. Pow(one) * r[2] + zero = 2 * r[2]
    BY <1>4, <2>2
  <2>8. r[3] = 2 * r[2]
    BY <2>3, <2>4, <2>6, <2>7
  <2>9. IsTopBit(r[3], 10)
    BY <2>4, <2>5, <2>6
  <2> QED BY <1>11, <2>8, <2>9
<1>13. r[4] = ShiftOr(r[3], depth, i) /\ IsTopBit(r[4], depth + 10)
  <2>1. r[4] = U64ShiftOr(r[3], depth, i)
    BY <1>3, <1>8
  <2> DEFINE ten == 10
  <2>2. (depth + ten) + 1 <= U64Bits /\ IsTopBit(r[3], ten)
    BY <1>u, <1>12
  <2> HIDE DEF ten
  <2>3. U64ShiftOr(r[3], depth, i) = ShiftOr(r[3], depth, i)
        /\ IsTopBit(ShiftOr(r[3], depth, i), depth + ten)
    BY <2>2, U64Step
  <2> QED BY <2>1, <2>3 DEF ten
<1>14. r[5] = ShiftOr(ShiftOr(r[3], depth, i), inner, leaf)
  <2>1. r[5] = U64ShiftOr(r[4], inner, leaf)
    BY <1>3, <1>9
  <2>2. U64ShiftOr(r[4], inner, leaf) = ShiftOr(r[4], inner, leaf)
    <3> DEFINE m == depth + 10
    <3>1. IsTopBit(r[4], m) /\ (inner + m) + 1 <= U64Bits
      BY <1>u, <1>13
    <3> HIDE DEF m
    <3> QED BY <3>1, U64Step
  <2> QED BY <1>13, <2>1, <2>2
<1> QED BY <1>1, <1>2, <1>12, <1>14 DEF path

\* What WordAssumption and U64Assumption leave room for.
LEMMA WordIsWide ==
  /\ U64Bits \in Nat /\ ConsolidationListDepth + 12 <= U64Bits /\ ValidatorListDepth + 15 <= U64Bits
  /\ Pow(WordSteps) > 6
  /\ ConsolidationListDepth \in Nat /\ ConsolidationListDepth < Pow(WordSteps)
  /\ ValidatorListDepth \in Nat /\ ValidatorListDepth < Pow(WordSteps)
  /\ ConsolidationListDepth + 23 < Pow(WordSteps) /\ ValidatorListDepth + 25 < Pow(WordSteps)
  /\ Pow(WordSteps) \in Nat
<1>1. Pow(WordSteps) \in Nat
  BY PowType, DepthAssumption
<1>2. ConsolidationListDepth + 23 < Pow(WordSteps) /\ ValidatorListDepth + 25 < Pow(WordSteps)
  BY WordAssumption DEF Pow
<1> QED BY <1>1, <1>2, DepthAssumption, U64Assumption

\* An element of a list is below the double of the list.
LEMMA U64Element ==
  ASSUME NEW depth, NEW i, depth \in Nat, i \in Nat, i < Pow(depth), depth + 1 <= U64Bits
  PROVE  U64(Pow(depth) + i) = Pow(depth) + i
<1> DEFINE n == depth + 1
           x == Pow(depth) + i
<1>1. Pow(depth) \in Nat /\ Pow(n) = 2 * Pow(depth) /\ n \in Nat
  BY PowType, PowStep
<1>2. x \in Nat /\ x < Pow(n)
  BY <1>1
<1> HIDE DEF n, x
<1>3. n <= U64Bits
  BY DEF n
<1>4. U64(x) = x
  BY <1>1, <1>2, <1>3, U64Fits
<1> QED BY <1>4 DEF x

\* The service and the contract name the same consolidation ...
LEMMA ConsolidationGindexes ==
  ASSUME NEW i, i \in Nat, i < Pow(ConsolidationListDepth)
  PROVE  ConsolidationSourceGindex(i) = ServiceConsolidationGindex(i)
<1> DEFINE field == PENDING_CONSOLIDATIONS_FIELD_INDEX
           inner == CONSOLIDATION_DEPTH
           leaf == SOURCE_INDEX_FIELD_INDEX
           C == ConsolidationListDepth
<1>1. /\ field \in Nat /\ field < 64 /\ field = 36 /\ inner \in Nat /\ inner <= 3
      /\ leaf \in Nat /\ leaf = 0 /\ Pow(inner) = 2 /\ leaf < Pow(inner)
  BY PowValues DEF PENDING_CONSOLIDATIONS_FIELD_INDEX, CONSOLIDATION_DEPTH, SOURCE_INDEX_FIELD_INDEX
<1>2. ServiceConsolidationGindex(i)
        = ConcatGindices(<<8 + 3, 64 + field, 2, Pow(C) + i, Pow(inner) + leaf>>)
  <2>1. U64(Pow(C) + i) = Pow(C) + i
    BY WordIsWide, U64Element
  <2> QED BY <1>1, <2>1 DEF ServiceConsolidationGindex, Pow
<1>3. ConsolidationSourceGindex(i) = ShiftOr(ShiftOr(2 * FieldGindex(field), C, i), inner, leaf)
  BY DEF ConsolidationSourceGindex, ConsolidationData
<1> HIDE DEF field, inner, leaf, C
<1>4. C \in Nat /\ C < Pow(WordSteps) /\ i < Pow(C) /\ Pow(WordSteps) > 6 /\ (inner + C) + 11 <= U64Bits
  BY <1>1, WordIsWide DEF C, inner, CONSOLIDATION_DEPTH
<1>5. ConcatGindices(<<8 + 3, 64 + field, 2, Pow(C) + i, Pow(inner) + leaf>>)
        = ShiftOr(ShiftOr(2 * FieldGindex(field), C, i), inner, leaf)
  BY <1>1, <1>4, ConcatPath
<1> QED BY <1>2, <1>3, <1>5

\* ... and the same chunk of a validator, within the limits of the lists.
LEMMA ValidatorGindexes ==
  ASSUME NEW i, NEW f, i \in Nat, i < Pow(ValidatorListDepth), f \in Nat, f < 8
  PROVE  ValidatorGindex(i, f) = ServiceValidatorGindex(i, f)
<1> DEFINE field == VALIDATORS_FIELD_INDEX
           inner == VALIDATOR_DEPTH
           L == ValidatorListDepth
<1>1. /\ field \in Nat /\ field < 64 /\ field = 11 /\ inner \in Nat /\ inner <= 3
      /\ Pow(inner) = 8 /\ f < Pow(inner)
  BY PowValues DEF VALIDATORS_FIELD_INDEX, VALIDATOR_DEPTH
<1>2. ServiceValidatorGindex(i, f)
        = ConcatGindices(<<8 + 3, 64 + field, 2, Pow(L) + i, Pow(inner) + f>>)
  <2>1. U64(Pow(L) + i) = Pow(L) + i
    BY WordIsWide, U64Element
  <2> QED BY <1>1, <2>1 DEF ServiceValidatorGindex, Pow
<1>3. ValidatorGindex(i, f) = ShiftOr(ShiftOr(2 * FieldGindex(field), L, i), inner, f)
  BY DEF ValidatorGindex, ValidatorData
<1> HIDE DEF field, inner, L
<1>4. L \in Nat /\ L < Pow(WordSteps) /\ i < Pow(L) /\ Pow(WordSteps) > 6 /\ (inner + L) + 11 <= U64Bits
  BY <1>1, WordIsWide DEF L, inner, VALIDATOR_DEPTH
<1>5. ConcatGindices(<<8 + 3, 64 + field, 2, Pow(L) + i, Pow(inner) + f>>)
        = ShiftOr(ShiftOr(2 * FieldGindex(field), L, i), inner, f)
  BY <1>1, <1>4, ConcatPath
<1> QED BY <1>2, <1>3, <1>5

\* In every state, because it is about the indices alone.
LEMMA GindexesAlwaysAgree == GindexesAgree
<1>1. ASSUME NEW i \in 0..2^ConsolidationListDepth - 1
      PROVE  ConsolidationSourceGindex(i) = ServiceConsolidationGindex(i)
  <2>1. i \in Nat /\ i < Pow(ConsolidationListDepth)
    BY PowType, DepthAssumption DEF Pow
  <2> QED BY <2>1, ConsolidationGindexes
<1>2. ASSUME NEW i \in 0..2^ValidatorListDepth - 1,
             NEW f \in {WITHDRAWAL_CREDENTIALS_FIELD_INDEX, ACTIVATION_EPOCH_FIELD_INDEX}
      PROVE  ValidatorGindex(i, f) = ServiceValidatorGindex(i, f)
  <2>1. i \in Nat /\ i < Pow(ValidatorListDepth)
    BY PowType, DepthAssumption DEF Pow
  <2>2. f \in Nat /\ f < 8
    BY DEF WITHDRAWAL_CREDENTIALS_FIELD_INDEX, ACTIVATION_EPOCH_FIELD_INDEX
  <2> QED BY <2>1, <2>2, ValidatorGindexes
<1> QED BY <1>1, <1>2, Zenon DEF GindexesAgree

\* Within the limits of the lists gindex.rs and SSZMerkleVerifier.sol compute the
\* same generalized indices.
THEOREM GindexesOfBothAgree == Spec => []GindexesAgree
<1>1. GindexesAgree
  BY GindexesAlwaysAgree
<1>2. []GindexesAgree
  BY <1>1, GindexesAlwaysAgree, PTL
<1> QED BY <1>2, PTL

-----------------------------------------------------------------------------
\* The service's check of one branch.

\* A power exceeds its exponent.
LEMMA PowAbove ==
  ASSUME NEW n, n \in Nat
  PROVE  n < Pow(n)
<1> DEFINE S == {k \in Nat : k < Pow(k)}
<1>1. 0 \in S
  BY PowValues
<1>2. ASSUME NEW k \in Nat, k \in S PROVE k + 1 \in S
  <2>1. Pow(k) \in Nat /\ Pow(k + 1) = 2 * Pow(k)
    BY PowType, PowStep
  <2> QED BY <1>2, <2>1
<1> HIDE DEF S
<1>3. \A k \in Nat : k \in S
  BY <1>1, <1>2, InSetByInduction
<1> QED BY <1>3 DEF S

\* Every number but zero has a highest bit.
LEMMA HighestBit ==
  ASSUME NEW x, x \in Nat, x > 0
  PROVE  \E d \in Nat : Pow(d) <= x /\ x < Pow(d + 1)
<1> SUFFICES ASSUME \A d \in Nat : ~ (Pow(d) <= x /\ x < Pow(d + 1)) PROVE FALSE
  OBVIOUS
<1> DEFINE S == {d \in Nat : Pow(d) <= x}
<1>1. 0 \in S
  BY PowValues
<1>2. ASSUME NEW d \in Nat, d \in S PROVE d + 1 \in S
  <2>1. Pow(d) <= x /\ ~ (x < Pow(d + 1))
    BY <1>2
  <2>2. d + 1 \in Nat /\ Pow(d + 1) \in Nat
    BY PowType
  <2> QED BY <2>1, <2>2
<1> HIDE DEF S
<1>3. \A d \in Nat : d \in S
  BY <1>1, <1>2, InSetByInduction
<1>4. x \in S
  BY <1>3
<1>5. Pow(x) <= x
  BY <1>4 DEF S
<1>6. Pow(x) \in Nat /\ x < Pow(x)
  BY PowType, PowAbove
<1> QED BY <1>5, <1>6

\* The numbers of a path through a list, below the data tree of the list.
IsPath(g, data, t, d, i, inner, leaf) ==
  /\ data \in Nat /\ d \in Nat /\ i \in Nat /\ i < Pow(d) /\ inner \in Nat /\ leaf \in Nat
  /\ leaf < Pow(inner) /\ IsTopBit(data, t)
  /\ g = ShiftOr(ShiftOr(data, d, i), inner, leaf)

\* The bits of a generalized index below the data of a list, from low to high: the
\* chunk, the item, the path to the data.
LEMMA PathGindex ==
  ASSUME NEW data, NEW d, NEW i, NEW inner, NEW leaf, NEW g, NEW t,
         IsPath(g, data, t, d, i, inner, leaf)
  PROVE  /\ g \in Nat /\ (inner + d) + 1 \in Nat
         /\ Shr(g, (inner + d) + 1) = data \div 2 /\ Shr(g, inner + d) = data
         /\ Place(g, inner, d) = i /\ Place(g, 0, inner) = leaf
         /\ IsTopBit(g, inner + (d + t))
<1>0. /\ data \in Nat /\ d \in Nat /\ i \in Nat /\ i < Pow(d) /\ inner \in Nat /\ leaf \in Nat
      /\ leaf < Pow(inner) /\ IsTopBit(data, t)
      /\ g = ShiftOr(ShiftOr(data, d, i), inner, leaf)
  BY DEF IsPath
<1> DEFINE x == ShiftOr(data, d, i)
           p == Pow(d)
<1>1. x = Pow(d) * data + i
  BY <1>0, ShiftOrSum
<1>2. x \in Nat /\ Shr(x, d) = data
  BY <1>0, <1>1, ShrOfSum
<1> DEFINE e == d + t
<1>3. IsTopBit(x, e)
  BY <1>0, TopBitOfShift
<1> HIDE DEF x
<1>4. g = Pow(inner) * x + leaf
  BY <1>0, <1>2, ShiftOrSum DEF x
<1>5. g \in Nat /\ Shr(g, inner) = x
  BY <1>0, <1>2, <1>4, ShrOfSum
<1>7. IsTopBit(g, inner + e)
  <2>1. g = ShiftOr(x, inner, leaf)
    BY <1>0 DEF x
  <2> HIDE DEF e
  <2> QED BY <1>0, <1>3, <2>1, TopBitOfShift
<1>8. Shr(g, inner + d) = data
  <2>1. Shr(g, inner + d) = Shr(Shr(g, inner), d)
    BY <1>0, <1>5, ShrSum
  <2> QED BY <1>0, <1>2, <1>5, <2>1
<1>9. Shr(g, (inner + d) + 1) = Shr(g, inner + d) \div 2
  <2>1. inner + d \in Nat
    BY <1>0
  <2> QED BY <1>0, <1>5, <2>1, ShrUp
<1>10. Place(g, inner, d) = i
  <2>1. Place(g, inner, d) = x - p * data
    BY <1>0, <1>5, <1>8 DEF Place
  <2>2. p * data \in Nat
    BY <1>0, PowType
  <2>3. x = p * data + i
    BY <1>0, <1>1
  <2> HIDE DEF p
  <2> QED BY <1>0, <2>1, <2>2, <2>3
<1>11. Place(g, 0, inner) = leaf
  <2> DEFINE u == Pow(inner)
  <2>1. Place(g, 0, inner) = g - u * x
    <3>1. 0 + inner = inner /\ Shr(g, 0) = g
      BY <1>0, <1>5, ShrZero
    <3> QED BY <1>0, <3>1, <1>5 DEF Place
  <2>2. u * x \in Nat
    BY <1>0, <1>2, PowType
  <2>3. g = u * x + leaf
    BY <1>0, <1>4
  <2> HIDE DEF u
  <2> QED BY <1>0, <2>1, <2>2, <2>3
<1>12. (inner + d) + 1 \in Nat /\ Shr(g, (inner + d) + 1) = data \div 2
  BY <1>0, <1>8, <1>9
<1> QED BY <1>0, <1>5, <1>7, <1>8, <1>10, <1>11, <1>12 DEF e

\* The contract and the library judge a branch alike wherever it is for the same place.
LEMMA VerdictsAgree ==
  ASSUME NEW root, NEW leaf, NEW branch, NEW g, g \in Nat, g > 1, Log2(g) \in Nat
  PROVE  VerifyProof(root, leaf, branch, g) <=> IsValidBranch(leaf, branch, g, root)
<1>1. CASE Len(branch) \notin Nat
  <2>1. Len(branch) # Log2(g)
    BY <1>1
  <2>2. ~ IsValidBranch(leaf, branch, g, root)
    BY <2>1, Zenon DEF IsValidBranch
  <2>3. ~ VerifyProof(root, leaf, branch, g)
    <3> DEFINE N == Len(branch)
               loop == CHOOSE loop : loop = [i \in 0..N |->
                  IF i = 0 THEN [computed |-> leaf, index |-> g]
                  ELSE LET l == loop[i - 1] IN
                       [computed |-> IF l.index % 2 = 0 THEN HashPair(l.computed, branch[i])
                                     ELSE HashPair(branch[i], l.computed),
                        index    |-> l.index \div 2]]
    <3>1. VerifyProof(root, leaf, branch, g)
          = CASE g = 0 -> FALSE
              [] g = 1 -> N = 0 /\ leaf = root
              [] OTHER -> N = Log2(g) /\ loop[N].computed = root
      BY Zenon DEF VerifyProof
    <3>2. g # 0 /\ g # 1
      OBVIOUS
    <3> HIDE DEF N, loop
    <3>3. N # Log2(g)
      BY <2>1 DEF N
    <3> QED BY <3>1, <3>2, <3>3
  <2> QED BY <2>2, <2>3
<1>2. CASE Len(branch) \in Nat
  <2>1. PICK c : IsFold(c, leaf, branch, g)
    BY <1>2, FoldExists
  <2>2. VerifyProof(root, leaf, branch, g) <=> Len(branch) = Log2(g) /\ c[Len(branch)] = root
    BY <1>2, <2>1, VerifyProofFolds
  <2>3. IsValidBranch(leaf, branch, g, root) <=> Len(branch) = Log2(g) /\ c[Len(branch)] = root
    BY <1>2, <2>1, IsValidBranchFolds
  <2> QED BY <2>2, <2>3
<1> QED BY <1>1, <1>2

\* _log2 finds the highest bit.
LEMMA TopBitLog2 ==
  ASSUME NEW x, NEW n, IsTopBit(x, n), n < Pow(WordSteps)
  PROVE  Log2(x) = n
BY Log2Value DEF IsTopBit

\* The data of both lists is ten levels below the block root.
DataDepth == 10

\* Their generalized indices.
LEMMA DataGindexes ==
  /\ ConsolidationData = 1480 /\ IsTopBit(ConsolidationData, DataDepth)
  /\ ValidatorData = 1430 /\ IsTopBit(ValidatorData, DataDepth)
<1>1. Pow(10) = 1024 /\ Pow(11) = 2048 /\ 10 + 1 = 11
  BY DEF Pow
<1> QED BY <1>1, FieldGindexes DEF IsTopBit, DataDepth

\* An index beyond its list, as the service concatenates it: its highest bit takes
\* the place of the list's leading one, at a depth no more than one too great.
LEMMA ListArgument ==
  ASSUME NEW depth, NEW i, depth \in Nat, i \in Nat, i < Pow(depth + 1)
  PROVE  \E d, rest \in Nat :
           /\ Pow(depth) + i = Pow(d) + rest /\ rest < Pow(d)
           /\ depth <= d /\ d <= depth + 1
           /\ d = depth => i < Pow(depth)
<1> DEFINE x == Pow(depth) + i
           u == depth + 1
<1>1. Pow(depth) \in Nat /\ Pow(depth) > 0 /\ u \in Nat /\ Pow(u) \in Nat /\ depth <= u
  BY PowType
<1>2. x \in Nat /\ x > 0
  BY <1>1
<1>3. PICK d \in Nat : Pow(d) <= x /\ x < Pow(d + 1)
  <2> HIDE DEF x
  <2> QED BY <1>2, HighestBit
<1>4. Pow(d) \in Nat /\ Pow(d + 1) = 2 * Pow(d) /\ d + 1 \in Nat /\ Pow(d + 1) \in Nat
  BY PowType, PowStep
<1> DEFINE rest == x - Pow(d)
<1>5. rest \in Nat /\ rest < Pow(d) /\ x = Pow(d) + rest
  BY <1>2, <1>3, <1>4
<1>6. depth <= d
  <2> SUFFICES ASSUME d + 1 <= depth PROVE FALSE
    OBVIOUS
  <2>1. Pow(d + 1) <= Pow(depth)
    BY <1>4, PowMonotone
  <2> QED BY <1>1, <1>3, <1>4, <2>1
<1>7. d <= u
  <2> SUFFICES ASSUME u + 1 <= d PROVE FALSE
    BY <1>1
  <2>1. u + 1 \in Nat /\ Pow(u + 1) <= Pow(d)
    BY <1>1, PowMonotone
  <2>2. Pow(u + 1) = 2 * Pow(u) /\ Pow(depth) <= Pow(u) /\ i < Pow(u)
    BY <1>1, PowStep, PowMonotone
  <2> HIDE DEF u
  <2> QED BY <1>1, <1>2, <1>3, <1>4, <2>1, <2>2
<1>8. d = depth => i < Pow(depth)
  BY <1>1, <1>4, <1>5
<1> QED BY <1>5, <1>6, <1>7, <1>8

\* A branch the service accepts for a validator is for an index within the list, when
\* the index is one that a consolidation can have for its source.
LEMMA ServiceValidatorBranch ==
  ASSUME NEW w, NEW leaf, NEW branch, NEW i, NEW f,
         w \in World, i \in Nat, i < Pow(ValidatorListDepth + 1), f \in Nat, f < 8,
         IsValidBranch(leaf, branch, ServiceValidatorGindex(i, f), BlockRoot[w])
  PROVE  i < Pow(ValidatorListDepth) /\ Len(branch) = VALIDATOR_PROOF_LENGTH
<1> DEFINE L == ValidatorListDepth
           data == ValidatorData
           field == VALIDATORS_FIELD_INDEX
           inner == VALIDATOR_DEPTH
           g == ServiceValidatorGindex(i, f)
           root == BlockRoot[w]
<1>1. /\ field \in Nat /\ field < 64 /\ field = 11 /\ inner \in Nat /\ inner = 3
      /\ Pow(inner) = 8 /\ f < Pow(inner)
  BY PowValues DEF VALIDATORS_FIELD_INDEX, VALIDATOR_DEPTH
<1>2. g = ConcatGindices(<<8 + 3, 64 + field, 2, U64(Pow(L) + i), Pow(inner) + f>>)
  BY <1>1 DEF ServiceValidatorGindex, Pow
<1>3. data = 2 * FieldGindex(field) /\ data = 1430 /\ IsTopBit(data, DataDepth) /\ data \in Nat
  BY DataGindexes DEF ValidatorData
<1>4. /\ L \in Nat /\ L + 25 < Pow(WordSteps) /\ Pow(WordSteps) > 6 /\ Pow(WordSteps) \in Nat
      /\ U64Bits \in Nat /\ L + 15 <= U64Bits
  BY WordIsWide
<1> HIDE DEF L, data, field, inner, g
<1>5. PICK d \in Nat, rest \in Nat :
        /\ Pow(L) + i = Pow(d) + rest /\ rest < Pow(d)
        /\ L <= d /\ d <= L + 1
        /\ d = L => i < Pow(L)
  BY <1>4, ListArgument DEF L
<1> DEFINE n == (inner + d) + 1
           top == inner + (d + DataDepth)
<1>u. (inner + d) + 11 <= U64Bits /\ d + 1 <= U64Bits
  BY <1>1, <1>4, <1>5
<1>6. d < Pow(WordSteps) /\ top < Pow(WordSteps) /\ inner <= 3 /\ top = d + 13 /\ top \in Nat
  BY <1>1, <1>4, <1>5 DEF DataDepth
<1>7. g = ShiftOr(ShiftOr(data, d, rest), inner, f)
  <2>1. g = ConcatGindices(<<8 + 3, 64 + field, 2, Pow(d) + rest, Pow(inner) + f>>)
    <3>1. U64(Pow(d) + rest) = Pow(d) + rest
      BY <1>5, <1>u, U64Element
    <3> QED BY <1>2, <1>5, <3>1
  <2>2. ConcatGindices(<<8 + 3, 64 + field, 2, Pow(d) + rest, Pow(inner) + f>>)
          = ShiftOr(ShiftOr(2 * FieldGindex(field), d, rest), inner, f)
    BY <1>1, <1>4, <1>5, <1>6, <1>u, ConcatPath
  <2> QED BY <1>3, <2>1, <2>2
<1>8. g \in Nat /\ n \in Nat /\ Shr(g, n) = 715 /\ IsTopBit(g, top)
  <2>1. g \in Nat /\ n \in Nat /\ Shr(g, n) = data \div 2 /\ IsTopBit(g, top)
    <3>1. IsPath(g, data, DataDepth, d, rest, inner, f)
      BY <1>1, <1>3, <1>5, <1>7 DEF IsPath
    <3> QED BY <3>1, PathGindex
  <2> QED BY <1>3, <2>1
<1> HIDE DEF n, top
<1>9. Log2(g) = top
  BY <1>6, <1>8, TopBitLog2
<1>10. Len(branch) = top
  <2>1. Len(branch) = Log2(g)
    BY Zenon DEF IsValidBranch, g
  <2> QED BY <1>9, <2>1
<1>11. Len(branch) \in Nat
  BY <1>6, <1>10
<1>12. PICK c : IsFold(c, leaf, branch, g)
  BY <1>11, FoldExists
<1>13. c[Len(branch)] = root
  <2>1. IsValidBranch(leaf, branch, g, root)
    BY DEF g
  <2> HIDE DEF root
  <2> QED BY <1>8, <1>11, <1>12, <2>1, IsValidBranchFolds
<1>14. Len(branch) = (n + STATE_DEPTH) + HEADER_DEPTH /\ n > 0
  BY <1>1, <1>6, <1>10 DEF STATE_DEPTH, HEADER_DEPTH, n
<1>15. EntersState(w, leaf, branch, g, c, n)
  BY <1>8, <1>11, <1>12, <1>13, <1>14 DEF EntersState
<1>16. Place(g, n, STATE_DEPTH) = VALIDATORS_FIELD_INDEX
  <2>1. STATE_DEPTH \in Nat /\ Pow(STATE_DEPTH) = 64
    BY PowValues DEF STATE_DEPTH
  <2> DEFINE x == Shr(g, n)
  <2>2. Place(g, n, STATE_DEPTH) = x - Pow(STATE_DEPTH) * Shr(x, STATE_DEPTH)
    BY <1>8, <2>1, PlaceRange
  <2>3. x \in Nat /\ x = 715
    BY <1>8
  <2> HIDE DEF x
  <2>4. Shr(x, STATE_DEPTH) = x \div Pow(STATE_DEPTH)
    BY <2>1, <2>3, ShrValue
  <2> QED BY <2>1, <2>2, <2>3, <2>4 DEF VALIDATORS_FIELD_INDEX
<1>17. n >= VALIDATOR_DEPTH + ValidatorListDepth + 1
  BY <1>1, <1>4, <1>5 DEF n, inner, L
<1>18. n = VALIDATOR_DEPTH + ValidatorListDepth + 1
  BY <1>15, <1>16, <1>17, FoldReachesValidator
<1>19. d = L
  BY <1>1, <1>4, <1>5, <1>18 DEF n, inner, L
<1> QED BY <1>4, <1>5, <1>6, <1>10, <1>19
  DEF L, VALIDATOR_PROOF_LENGTH, VALIDATOR_DEPTH, STATE_DEPTH, HEADER_DEPTH

\* The places within the lists: their depth.
LEMMA ExactGindexes ==
  /\ \A i \in Nat : i < Pow(ConsolidationListDepth) =>
       /\ ConsolidationSourceGindex(i) \in Nat /\ ConsolidationSourceGindex(i) > 1
       /\ Log2(ConsolidationSourceGindex(i)) = ConsolidationListDepth + 11
  /\ \A i, f \in Nat : i < Pow(ValidatorListDepth) /\ f < 8 =>
       /\ ValidatorGindex(i, f) \in Nat /\ ValidatorGindex(i, f) > 1
       /\ Log2(ValidatorGindex(i, f)) = ValidatorListDepth + 13
<1>0. \A x, n : IsTopBit(x, n) /\ n > 0 => x > 1
  <2> TAKE x, n
  <2> SUFFICES ASSUME IsTopBit(x, n), n > 0 PROVE x > 1
    OBVIOUS
  <2>1. n \in Nat /\ Pow(n) \in Nat /\ n < Pow(n) /\ x \in Nat /\ Pow(n) <= x
    BY PowAbove, PowType DEF IsTopBit
  <2> QED BY <2>1
<1>1. ASSUME NEW i \in Nat, i < Pow(ConsolidationListDepth)
      PROVE  /\ ConsolidationSourceGindex(i) \in Nat /\ ConsolidationSourceGindex(i) > 1
             /\ Log2(ConsolidationSourceGindex(i)) = ConsolidationListDepth + 11
  <2> DEFINE C == ConsolidationListDepth
             data == ConsolidationData
             inner == CONSOLIDATION_DEPTH
             item == SOURCE_INDEX_FIELD_INDEX
             g == ConsolidationSourceGindex(i)
             n == (inner + C) + 1
             top == inner + (C + DataDepth)
  <2>1. /\ inner \in Nat /\ inner = 1 /\ item \in Nat /\ item < Pow(inner)
        /\ IsTopBit(data, DataDepth) /\ data \in Nat
    BY PowValues, DataGindexes DEF CONSOLIDATION_DEPTH, SOURCE_INDEX_FIELD_INDEX
  <2>2. C \in Nat /\ C + 23 < Pow(WordSteps) /\ Pow(WordSteps) \in Nat
    BY WordIsWide
  <2>3. g = ShiftOr(ShiftOr(data, C, i), inner, item)
    BY DEF ConsolidationSourceGindex
  <2> HIDE DEF g, data, inner, item
  <2>4. g \in Nat /\ IsTopBit(g, top)
    <3>1. IsPath(g, data, DataDepth, C, i, inner, item)
      BY <1>1, <2>1, <2>2, <2>3 DEF IsPath
    <3> QED BY <3>1, PathGindex
  <2>5. top = C + 11 /\ top < Pow(WordSteps) /\ top > 0
    BY <2>1, <2>2 DEF DataDepth
  <2> HIDE DEF top
  <2>6. Log2(g) = top /\ g > 1
    BY <1>0, <2>4, <2>5, TopBitLog2
  <2> QED BY <2>4, <2>5, <2>6 DEF g
<1>2. ASSUME NEW i \in Nat, NEW f \in Nat, i < Pow(ValidatorListDepth), f < 8
      PROVE  /\ ValidatorGindex(i, f) \in Nat /\ ValidatorGindex(i, f) > 1
             /\ Log2(ValidatorGindex(i, f)) = ValidatorListDepth + 13
  <2> DEFINE L == ValidatorListDepth
             data == ValidatorData
             inner == VALIDATOR_DEPTH
             g == ValidatorGindex(i, f)
             n == (inner + L) + 1
             top == inner + (L + DataDepth)
  <2>1. /\ inner \in Nat /\ inner = 3 /\ f < Pow(inner) /\ IsTopBit(data, DataDepth) /\ data \in Nat
    BY <1>2, PowValues, DataGindexes DEF VALIDATOR_DEPTH
  <2>2. L \in Nat /\ L + 25 < Pow(WordSteps) /\ Pow(WordSteps) \in Nat
    BY WordIsWide
  <2>3. g = ShiftOr(ShiftOr(data, L, i), inner, f)
    BY DEF ValidatorGindex
  <2> HIDE DEF g, data, inner
  <2>4. g \in Nat /\ IsTopBit(g, top)
    <3>1. IsPath(g, data, DataDepth, L, i, inner, f)
      BY <1>2, <2>1, <2>2, <2>3 DEF IsPath
    <3> QED BY <3>1, PathGindex
  <2>5. top = L + 13 /\ top < Pow(WordSteps) /\ top > 0
    BY <2>1, <2>2 DEF DataDepth
  <2> HIDE DEF top
  <2>6. Log2(g) = top /\ g > 1
    BY <1>0, <2>4, <2>5, TopBitLog2
  <2> QED BY <2>4, <2>5, <2>6 DEF g
<1> QED BY <1>1, <1>2

-----------------------------------------------------------------------------
\* The verdicts on a claim.

\* The arguments of a call that is judged: any numbers.
IsClaim(c) == c.consolidationIndex \in Nat /\ c.sourceIndex \in Nat /\ c.activationEpoch \in Nat

\* Both verifiers decide alike on a branch of a place within its list.
LEMMA ConsolidationVerdicts ==
  ASSUME NEW root, NEW leaf, NEW branch, NEW i, i \in Nat, i < Pow(ConsolidationListDepth)
  PROVE  VerifyProof(root, leaf, branch, ConsolidationSourceGindex(i))
           <=> IsValidBranch(leaf, branch, ServiceConsolidationGindex(i), root)
<1> DEFINE g == ConsolidationSourceGindex(i)
<1>1. g \in Nat /\ g > 1 /\ Log2(g) \in Nat
  BY ExactGindexes, DepthAssumption
<1>2. ServiceConsolidationGindex(i) = g
  BY ConsolidationGindexes
<1> HIDE DEF g
<1>3. VerifyProof(root, leaf, branch, g) <=> IsValidBranch(leaf, branch, g, root)
  BY <1>1, VerdictsAgree
<1> QED BY <1>2, <1>3 DEF g

\* And on a branch of a validator.
LEMMA ValidatorVerdicts ==
  ASSUME NEW root, NEW leaf, NEW branch, NEW i, NEW f,
         i \in Nat, i < Pow(ValidatorListDepth), f \in Nat, f < 8
  PROVE  VerifyProof(root, leaf, branch, ValidatorGindex(i, f))
           <=> IsValidBranch(leaf, branch, ServiceValidatorGindex(i, f), root)
<1> DEFINE g == ValidatorGindex(i, f)
<1>1. g \in Nat /\ g > 1 /\ Log2(g) \in Nat
  BY ExactGindexes, DepthAssumption
<1>2. ServiceValidatorGindex(i, f) = g
  BY ValidatorGindexes
<1> HIDE DEF g
<1>3. VerifyProof(root, leaf, branch, g) <=> IsValidBranch(leaf, branch, g, root)
  BY <1>1, VerdictsAgree
<1> QED BY <1>2, <1>3 DEF g

\* For a consolidation index within the list verify_proof_bundle and checks 4 to 7 of
\* claimReward accept the same bundles: for any other arguments and any branches, also
\* where a shift of the service's integers would lose bits, because the consolidation's
\* leaf then has to be that of a source in the state.
THEOREM VerifiersDecideAlike ==
  ASSUME NEW w, NEW c, w \in World, IsClaim(c),
         c.consolidationIndex < Pow(ConsolidationListDepth)
  PROVE  VerifyProofBundle(c, BlockRoot[w]) <=> ProofsPass(BlockRoot[w], c)
<1> DEFINE root == BlockRoot[w]
           i == c.consolidationIndex
           s == c.sourceIndex
           e == c.activationEpoch
           F1 == WITHDRAWAL_CREDENTIALS_FIELD_INDEX
           F5 == ACTIVATION_EPOCH_FIELD_INDEX
           b1 == c.proofConsolidation
           b2 == c.proofCredentials
           b3 == c.proofActivationEpoch
           k == c.sourceCredentials
<1>1. i \in Nat /\ i < Pow(ConsolidationListDepth) /\ s \in Nat /\ e \in Nat
  BY DEF IsClaim
<1>2. F1 \in Nat /\ F1 < 8 /\ F5 \in Nat /\ F5 < 8
  BY DEF WITHDRAWAL_CREDENTIALS_FIELD_INDEX, ACTIVATION_EPOCH_FIELD_INDEX
<1>3. VerifyProofBundle(c, root) <=>
        /\ IsValidBranch(LittleEndian(s), b1, ServiceConsolidationGindex(i), root)
        /\ IsValidBranch(k, b2, ServiceValidatorGindex(s, F1), root)
        /\ IsValidBranch(LittleEndian(e), b3, ServiceValidatorGindex(s, F5), root)
  BY Zenon DEF VerifyProofBundle
<1>4. ProofsPass(root, c) <=>
        /\ Len(b1) = CONSOLIDATION_PROOF_LENGTH
        /\ Len(b2) = VALIDATOR_PROOF_LENGTH /\ Len(b3) = VALIDATOR_PROOF_LENGTH
        /\ VerifyProof(root, ToLittleEndian64(s), b1, ConsolidationSourceGindex(i))
        /\ VerifyProof(root, k, b2, ValidatorGindex(s, F1))
        /\ VerifyProof(root, ToLittleEndian64(e), b3, ValidatorGindex(s, F5))
  BY Zenon DEF ProofsPass
<1>5. ToLittleEndian64(s) = LittleEndian(s) /\ ToLittleEndian64(e) = LittleEndian(e)
  BY <1>1, LittleEndianInjective
<1>6. s < Pow(ValidatorListDepth) =>
        /\ VerifyProof(root, k, b2, ValidatorGindex(s, F1))
             <=> IsValidBranch(k, b2, ServiceValidatorGindex(s, F1), root)
        /\ VerifyProof(root, LittleEndian(e), b3, ValidatorGindex(s, F5))
             <=> IsValidBranch(LittleEndian(e), b3, ServiceValidatorGindex(s, F5), root)
  <2> HIDE DEF root, i, s, e, F1, F5, b1, b2, b3, k
  <2> QED BY <1>1, <1>2, ValidatorVerdicts
<1>7. VerifyProof(root, LittleEndian(s), b1, ConsolidationSourceGindex(i))
        <=> IsValidBranch(LittleEndian(s), b1, ServiceConsolidationGindex(i), root)
  <2> HIDE DEF root, i, s, e, F1, F5, b1, b2, b3, k
  <2> QED BY <1>1, ConsolidationVerdicts
<1>8. ASSUME VerifyProofBundle(c, root) PROVE ProofsPass(root, c)
  <2>1. Len(b1) = CONSOLIDATION_PROOF_LENGTH
    <3> DEFINE g == ConsolidationSourceGindex(i)
    <3>1. VerifyProof(root, LittleEndian(s), b1, g) /\ g > 1 /\ g \in Nat
          /\ Log2(g) = ConsolidationListDepth + 11
      BY <1>1, <1>3, <1>7, <1>8, ExactGindexes
    <3> HIDE DEF g, root, b1
    <3>2. Len(b1) = Log2(g)
      BY <3>1 DEF VerifyProof
    <3> QED BY <3>1, <3>2, DepthAssumption
      DEF CONSOLIDATION_PROOF_LENGTH, CONSOLIDATION_DEPTH, STATE_DEPTH, HEADER_DEPTH
  <2>s. s < Pow(ValidatorListDepth + 1)
    <3>1. PICK n \in DOMAIN w.pending : LittleEndian(s) = LittleEndian(w.pending[n].source_index)
      BY <1>1, <1>3, <1>7, <1>8, <2>1, ConsolidationBranch
    <3>2. w.pending[n] \in PendingConsolidation
      BY WorldAssumption
    <3>3. w.pending[n].source_index \in Nat /\ w.pending[n].source_index < Pow(ValidatorListDepth + 1)
      BY <3>2, PowType, DepthAssumption DEF PendingConsolidation, Pow
    <3> QED BY <1>1, <3>1, <3>3, LittleEndianInjective
  <2>2. s < Pow(ValidatorListDepth) /\ Len(b2) = VALIDATOR_PROOF_LENGTH
    <3> HIDE DEF i, s, e, F1, F5, b1, b2, b3, k
    <3> QED BY <1>1, <1>2, <1>3, <1>8, <2>s, ServiceValidatorBranch
  <2>3. Len(b3) = VALIDATOR_PROOF_LENGTH
    <3> HIDE DEF i, s, e, F1, F5, b1, b2, b3, k
    <3> QED BY <1>1, <1>2, <1>3, <1>8, <2>s, ServiceValidatorBranch
  <2> HIDE DEF root, i, s, e, F1, F5, b1, b2, b3, k
  <2> QED BY <1>3, <1>4, <1>5, <1>6, <1>7, <1>8, <2>1, <2>2, <2>3
<1>9. ASSUME ProofsPass(root, c) PROVE VerifyProofBundle(c, root)
  <2>1. PICK v \in DOMAIN w.validators : s = v - 1
    BY <1>1, <1>9, PassedClaimIsTrue
  <2>2. s < Pow(ValidatorListDepth)
    <3>1. /\ DOMAIN w.validators = 1..Len(w.validators) /\ Len(w.validators) \in Nat
          /\ Len(w.validators) <= Pow(ValidatorListDepth)
      BY WorldAssumption DEF Pow
    <3>2. Pow(ValidatorListDepth) \in Nat
      BY PowType, DepthAssumption
    <3> HIDE DEF s
    <3> QED BY <2>1, <3>1, <3>2
  <2> HIDE DEF root, i, s, e, F1, F5, b1, b2, b3, k
  <2> QED BY <1>3, <1>4, <1>5, <1>6, <1>7, <1>9, <2>2
<1> QED BY <1>8, <1>9

\* Inductive: the last verdict is about a claim judged against a state of World.
VerdictInv == world \in World /\ AcceptedIsTrue /\ VerifiersAgree

\* A claim that is judged makes the two properties true of its verdict.
LEMMA JudgedClaim ==
  ASSUME NEW c, NEW own, world \in World, Judge(c, own), IsClaim(c)
  PROVE  VerdictInv'
<1>1. world' = world /\ world' \in World
  BY DEF Judge
<1>2. ASSUME accepted' PROVE AcceptedIsTrue'
  <2>1. ProofsPass(BlockRoot[world], c)
    BY <1>2 DEF Judge
  <2>2. PICK v \in DOMAIN world.validators :
           /\ c.sourceIndex = v - 1
           /\ \E i \in DOMAIN world.pending : world.pending[i].source_index = v - 1
           /\ c.sourceCredentials = world.validators[v].withdrawal_credentials
           /\ c.activationEpoch = world.validators[v].activation_epoch
    BY <2>1, PassedClaimIsTrue DEF IsClaim
  <2>3. /\ claim'.sourceIndex = c.sourceIndex
        /\ claim'.sourceCredentials = c.sourceCredentials
        /\ claim'.activationEpoch = c.activationEpoch
    BY DEF Judge
  <2> QED BY <1>1, <2>2, <2>3 DEF AcceptedIsTrue
<1>3. VerifiersAgree'
  <2>1. /\ accepted' = ProofsPass(BlockRoot[world], c)
        /\ verified' = VerifyProofBundle(c, BlockRoot[world])
        /\ claim'.consolidationIndex = c.consolidationIndex
    BY DEF Judge
  <2>2. claim'.consolidationIndex < Pow(ConsolidationListDepth) => (verified' <=> accepted')
    BY <2>1, VerifiersDecideAlike
  <2> QED BY <2>2 DEF VerifiersAgree, Pow
<1> QED BY <1>1, <1>2, <1>3 DEF VerdictInv, AcceptedIsTrue

\* The types WorldAssumption gives.
LEMMA WorldTypes ==
  ASSUME NEW w, w \in World
  PROVE  /\ Len(w.pending) <= Pow(ConsolidationListDepth)
         /\ Len(w.validators) <= Pow(ValidatorListDepth)
         /\ Len(w.pending) \in Nat /\ DOMAIN w.pending = 1..Len(w.pending)
         /\ \A i \in DOMAIN w.pending : w.pending[i].source_index \in Nat
         /\ Len(w.validators) \in Nat /\ DOMAIN w.validators = 1..Len(w.validators)
         /\ \A v \in DOMAIN w.validators : w.validators[v].activation_epoch \in Nat
<1>1. ASSUME NEW i \in DOMAIN w.pending PROVE w.pending[i].source_index \in Nat
  <2>1. w.pending[i] \in PendingConsolidation
    BY WorldAssumption
  <2> QED BY <2>1, PowType, DepthAssumption DEF PendingConsolidation, Pow
<1>2. ASSUME NEW v \in DOMAIN w.validators PROVE w.validators[v].activation_epoch \in Nat
  <2>1. w.validators[v] \in Validator
    BY WorldAssumption
  <2> QED BY <2>1 DEF Validator
<1>3. /\ Len(w.pending) \in Nat /\ DOMAIN w.pending = 1..Len(w.pending)
      /\ Len(w.validators) \in Nat /\ DOMAIN w.validators = 1..Len(w.validators)
      /\ Len(w.pending) <= Pow(ConsolidationListDepth) /\ Len(w.validators) <= Pow(ValidatorListDepth)
  BY WorldAssumption DEF Pow
<1> QED BY <1>1, <1>2, <1>3

\* A claim with a bundle of the prover ...
LEMMA ProverClaimKeepsVerdicts ==
  ASSUME NEW i, i \in 0..Len(world.pending) - 1, world \in World, ProverClaim(i)
  PROVE  VerdictInv'
<1> DEFINE b == Bundle(world, i)
           source == world.pending[i + 1].source_index
<1>1. Judge(b, TRUE) /\ source < Len(world.validators)
  BY DEF ProverClaim
<1>2. b.consolidationIndex = i /\ b.sourceIndex = source
      /\ b.activationEpoch = world.validators[source + 1].activation_epoch
  BY DEF Bundle
<1> HIDE DEF b
<1>3. i \in Nat /\ i + 1 \in DOMAIN world.pending
  BY WorldTypes
<1>4. source \in Nat
  BY <1>3, WorldTypes
<1>5. source + 1 \in DOMAIN world.validators
  BY <1>1, <1>4, WorldTypes
<1>6. world.validators[source + 1].activation_epoch \in Nat
  BY <1>5, WorldTypes
<1>7. IsClaim(b)
  BY <1>2, <1>3, <1>4, <1>6 DEF IsClaim
<1> QED BY <1>1, <1>7, JudgedClaim

\* ... and one with arguments of the caller's choice.
LEMMA CallerClaimKeepsVerdicts ==
  ASSUME NEW c, NEW s, NEW v, c \in Nat, s \in Nat, v \in DOMAIN world.validators,
         world \in World, CallerClaim(c, s, v)
  PROVE  VerdictInv'
<1>1. world.validators[v].activation_epoch \in Nat
  BY WorldTypes
<1>2. PICK places \in {ContractPlaces(c, s), ServicePlaces(c, s)} :
        LET root == BlockRoot[world] IN
        Judge([consolidationIndex   |-> c,
               sourceIndex          |-> s,
               activationEpoch      |-> world.validators[v].activation_epoch,
               sourceCredentials    |-> world.validators[v].withdrawal_credentials,
               proofConsolidation   |-> Branch(root, places.source),
               proofCredentials     |-> Branch(root, places.credentials),
               proofActivationEpoch |-> Branch(root, places.epoch)], FALSE)
  BY Zenon DEF CallerClaim
<1> DEFINE root == BlockRoot[world]
           b == [consolidationIndex   |-> c,
                 sourceIndex          |-> s,
                 activationEpoch      |-> world.validators[v].activation_epoch,
                 sourceCredentials    |-> world.validators[v].withdrawal_credentials,
                 proofConsolidation   |-> Branch(root, places.source),
                 proofCredentials     |-> Branch(root, places.credentials),
                 proofActivationEpoch |-> Branch(root, places.epoch)]
<1>3. Judge(b, FALSE)
  BY <1>2
<1>4. b.consolidationIndex = c /\ b.sourceIndex = s
  OBVIOUS
<1>5. b.activationEpoch = world.validators[v].activation_epoch
  OBVIOUS
<1> HIDE DEF b
<1>6. IsClaim(b)
  BY <1>1, <1>4, <1>5 DEF IsClaim
<1> QED BY <1>3, <1>6, JudgedClaim

\* Every step keeps VerdictInv ...
LEMMA NextKeepsVerdicts == VerdictInv /\ [Next]_vars => VerdictInv'
<1> SUFFICES ASSUME VerdictInv, [Next]_vars PROVE VerdictInv'
  OBVIOUS
<1>1. world \in World
  BY DEF VerdictInv
<1>2. CASE UNCHANGED vars
  BY <1>2 DEF vars, VerdictInv, AcceptedIsTrue, VerifiersAgree
<1>3. ASSUME NEW i \in 0..Len(world.pending) - 1, ProverClaim(i) PROVE VerdictInv'
  BY <1>1, <1>3, ProverClaimKeepsVerdicts
<1>4. ASSUME NEW v \in DOMAIN world.validators, NEW c \in ConsolidationArg,
             CallerClaim(c, v - 1, v)
      PROVE  VerdictInv'
  <2>1. c \in Nat /\ v - 1 \in Nat
    BY <1>1, <1>4, WorldTypes DEF ConsolidationArg
  <2> QED BY <1>1, <1>4, <2>1, CallerClaimKeepsVerdicts
<1>5. ASSUME NEW v \in DOMAIN world.validators,
             NEW c \in 0..Len(world.pending) - 1, NEW s \in ValidatorArg, CallerClaim(c, s, v)
      PROVE  VerdictInv'
  <2>1. c \in Nat /\ s \in Nat
    BY <1>5 DEF ValidatorArg
  <2> QED BY <1>1, <1>5, <2>1, CallerClaimKeepsVerdicts
<1> QED BY <1>2, <1>3, <1>4, <1>5 DEF Next

\* ... which holds at first ...
LEMMA InitGivesVerdicts == Init => VerdictInv
BY DEF Init, VerdictInv, AcceptedIsTrue, VerifiersAgree

\* ... and so always.
LEMMA VerdictInvInductive == Spec => []VerdictInv
BY InitGivesVerdicts, NextKeepsVerdicts, PTL DEF Spec

\* A claim that passes checks 4 to 7 of claimReward names a validator that exists,
\* is a source of a pending consolidation and has what was claimed, for every state,
\* every index argument and every branch.
THEOREM AcceptedClaimIsTrue == Spec => []AcceptedIsTrue
<1>1. VerdictInv => AcceptedIsTrue
  BY DEF VerdictInv
<1> QED BY <1>1, VerdictInvInductive, PTL

\* So of every claim that is judged: with a consolidation index within the list the
\* service's own check tells what the contract's checks 4 to 7 will say.
THEOREM VerifiersAlwaysAgree == Spec => []VerifiersAgree
<1>1. VerdictInv => VerifiersAgree
  BY DEF VerdictInv
<1> QED BY <1>1, VerdictInvInductive, PTL
================================================================================
