--------------------------- MODULE ClaimVectors_proofs ---------------------------
(***************************************************************************)
(* What the provers make passes: the contract accepts every bundle, the    *)
(* sparse and the in-memory prover make the same ones, and every test      *)
(* vector gets the answer its file expects.  The argument goes upwards     *)
(* from a leaf: compute_subtree_root computes the nodes of the tree, so    *)
(* the fold of a branch of the prover climbs layer by layer to its root;   *)
(* a branch that folds to a root is the only one at its place, so whatever *)
(* is changed in a bundle no longer verifies.                              *)
(***************************************************************************)
EXTENDS ClaimVectors, SSZMerkle_proofs
-----------------------------------------------------------------------------
\* The prover's nodes are the tree's.

\* The hashes of all-zero subtrees, layer by layer.
LEMMA ZeroHashes ==
  /\ ZeroHash[0] = ZeroChunk
  /\ \A d \in Nat : ZeroHash[d + 1] = HashPair(ZeroHash[d], ZeroHash[d])
<1> DEFINE Up(x) == HashPair(x, x)
           Good(f, n) == f = [d \in 0..n |-> IF d = 0 THEN ZeroChunk ELSE Up(f[d - 1])]
           Found == {n \in Nat : \E f : Good(f, n)}
           Same == {k \in Nat : \A n, m \in Nat : \A f, h : Good(f, n) /\ Good(h, m) =>
                                   (k <= n /\ k <= m => f[k] = h[k])}
<1> HIDE DEF Up
<1>1. 0 \in Found
  <2>1. Good([d \in 0..0 |-> ZeroChunk], 0)
    OBVIOUS
  <2> HIDE DEF Good
  <2> QED BY <2>1
<1>2. ASSUME NEW n \in Nat, n \in Found PROVE n + 1 \in Found
  <2>1. PICK f : Good(f, n)
    BY <1>2
  <2> DEFINE h == [d \in 0..(n + 1) |-> IF d <= n THEN f[d] ELSE Up(f[n])]
  <2>2. \A d \in 0..(n + 1) : h[d] = IF d = 0 THEN ZeroChunk ELSE Up(h[d - 1])
    <3> TAKE d \in 0..(n + 1)
    <3>1. CASE d = 0
      BY <2>1, <3>1
    <3>2. CASE d \in 1..n
      <4>1. d - 1 \in 0..n /\ d \in 0..n /\ h[d] = f[d] /\ h[d - 1] = f[d - 1]
        BY <3>2
      <4> QED BY <2>1, <3>2, <4>1
    <3>3. CASE d = n + 1
      <4>1. d - 1 = n /\ h[n] = f[n] /\ h[d] = Up(f[n])
        BY <3>3
      <4> QED BY <3>3, <4>1
    <3> QED BY <3>1, <3>2, <3>3
  <2>3. Good(h, n + 1)
    BY <2>2
  <2> HIDE DEF Good
  <2> QED BY <2>3
<1>3. \A n \in Nat : n \in Found
  <2> HIDE DEF Found
  <2> QED BY <1>1, <1>2, InSetByInduction
<1>4. \A f : \A n \in Nat : Good(f, n) =>
        /\ f[0] = ZeroChunk
        /\ \A k \in Nat : k + 1 <= n => f[k + 1] = Up(f[k])
  <2> SUFFICES ASSUME NEW f, NEW n \in Nat, Good(f, n)
               PROVE  /\ f[0] = ZeroChunk
                      /\ \A k \in Nat : k + 1 <= n => f[k + 1] = Up(f[k])
    <3> HIDE DEF Good
    <3> QED OBVIOUS
  <2>1. f[0] = ZeroChunk
    OBVIOUS
  <2>2. ASSUME NEW k \in Nat, k + 1 <= n PROVE f[k + 1] = Up(f[k])
    <3>1. k + 1 \in 0..n /\ k + 1 # 0 /\ (k + 1) - 1 = k
      BY <2>2
    <3> QED BY <3>1
  <2> QED BY <2>1, <2>2
<1> HIDE DEF Good
<1>5. \A k \in Nat : k \in Same
  <2>1. 0 \in Same
    BY <1>4
  <2>2. ASSUME NEW k \in Nat, k \in Same PROVE k + 1 \in Same
    <3> SUFFICES ASSUME NEW n \in Nat, NEW m \in Nat, NEW f, NEW h, Good(f, n), Good(h, m),
                        k + 1 <= n, k + 1 <= m
                 PROVE  f[k + 1] = h[k + 1]
      OBVIOUS
    <3>1. f[k] = h[k]
      BY <2>2
    <3>2. f[k + 1] = Up(f[k]) /\ h[k + 1] = Up(h[k])
      BY <1>4
    <3> QED BY <3>1, <3>2
  <2> HIDE DEF Same
  <2> QED BY <2>1, <2>2, InSetByInduction
<1> DEFINE pick(n) == CHOOSE f : Good(f, n)
           G == [n \in Nat |-> pick(n)[n]]
<1>6. \A n \in Nat : Good(pick(n), n)
  BY <1>3
<1> HIDE DEF pick
<1>7. ASSUME NEW d \in Nat PROVE G[d] = IF d = 0 THEN ZeroChunk ELSE Up(G[d - 1])
  <2>1. CASE d = 0
    BY <1>4, <1>6, <2>1
  <2>2. CASE d # 0
    <3> DEFINE k == d - 1
    <3>1. k \in Nat /\ k + 1 = d /\ k <= d /\ k <= k
      BY <2>2
    <3> HIDE DEF k
    <3>2. Good(pick(d), d) /\ Good(pick(k), k)
      BY <1>6, <3>1
    <3>3. pick(d)[k + 1] = Up(pick(d)[k])
      BY <1>4, <3>1, <3>2
    <3>4. pick(d)[k] = pick(k)[k]
      BY <1>5, <3>1, <3>2
    <3>5. G[d] = pick(d)[d] /\ G[k] = pick(k)[k]
      BY <3>1
    <3>6. G[d] = Up(G[k])
      BY <3>1, <3>3, <3>4, <3>5
    <3> QED BY <2>2, <3>6 DEF k
  <2> QED BY <2>1, <2>2
<1>8. G = [d \in Nat |-> IF d = 0 THEN ZeroChunk ELSE Up(G[d - 1])]
  BY <1>7
<1> HIDE DEF G
<1>9. ZeroHash = [d \in Nat |-> IF d = 0 THEN ZeroChunk ELSE Up(ZeroHash[d - 1])]
  BY <1>8, Zenon DEF ZeroHash, Up
<1>10. ZeroHash[0] = ZeroChunk
  BY <1>9
<1>11. ASSUME NEW d \in Nat PROVE ZeroHash[d + 1] = Up(ZeroHash[d])
  <2>1. d + 1 \in Nat /\ d + 1 # 0 /\ (d + 1) - 1 = d
    OBVIOUS
  <2> QED BY <1>9, <2>1
<1> QED BY <1>10, <1>11 DEF Up

\* The halves of a node's width.
LEMMA NodeStart ==
  ASSUME NEW i, NEW d, i \in Nat, d \in Nat
  PROVE  /\ i * Pow(d) \in Nat
         /\ (2 * i) * Pow(d) = i * Pow(d + 1)
         /\ (2 * i + 1) * Pow(d) = i * Pow(d + 1) + Pow(d)
<1> DEFINE p == Pow(d)
<1>1. p \in Nat /\ Pow(d + 1) = 2 * p
  BY PowType, PowStep
<1> HIDE DEF p
<1>2. i * p \in Nat /\ (2 * i) * p = i * (2 * p) /\ (2 * i + 1) * p = i * (2 * p) + p
  BY <1>1
<1> QED BY <1>1, <1>2 DEF p

\* A child's place in its layer.
LEMMA ChildPlaces ==
  ASSUME NEW i, NEW d, NEW depth, i \in Nat, d \in Nat, depth \in Nat, d + 1 <= depth,
         i < Pow(depth - (d + 1))
  PROVE  /\ 2 * i \in Nat /\ 2 * i < Pow(depth - d)
         /\ 2 * i + 1 \in Nat /\ 2 * i + 1 < Pow(depth - d)
<1> DEFINE e == depth - (d + 1)
           p == Pow(e)
<1>1. e \in Nat /\ e + 1 = depth - d
  OBVIOUS
<1> HIDE DEF e
<1>2. p \in Nat /\ Pow(e + 1) = 2 * p /\ i < p
  BY <1>1, PowType, PowStep DEF e
<1> HIDE DEF p
<1> QED BY <1>1, <1>2

\* Beyond the chunks a tree is padding.
LEMMA PaddingLayer ==
  ASSUME NEW l, NEW chunks, NEW depth, depth \in Nat, Len(chunks) \in Nat, IsLayers(l, chunks, depth)
  PROVE  \A d, i \in Nat : d <= depth /\ i < Pow(depth - d) /\ i * Pow(d) >= Len(chunks)
           => l[d][i] = ZeroHash[d]
<1> DEFINE S == {d \in Nat : d <= depth => \A i \in Nat : i < Pow(depth - d) /\ i * Pow(d) >= Len(chunks)
                                              => l[d][i] = ZeroHash[d]}
           N == Len(chunks)
<1>1. /\ \A i \in Nat : i < Pow(depth) => l[0][i] = GetLeaf(chunks, i)
      /\ \A d, i \in Nat : d + 1 <= depth /\ i < Pow(depth - (d + 1)) =>
            l[d + 1][i] = HashPair(l[d][2 * i], l[d][2 * i + 1])
  BY LayerNodes
<1>2. 0 \in S
  <2> SUFFICES ASSUME NEW i \in Nat, i < Pow(depth - 0), i * Pow(0) >= Len(chunks)
               PROVE  l[0][i] = ZeroHash[0]
    OBVIOUS
  <2>1. depth - 0 = depth /\ i * Pow(0) = i
    BY PowValues
  <2>2. l[0][i] = GetLeaf(chunks, i) /\ ~ (i < Len(chunks))
    BY <2>1, <1>1
  <2> QED BY <2>2, ZeroHashes DEF GetLeaf
<1>3. ASSUME NEW d \in Nat, d \in S PROVE d + 1 \in S
  <2> SUFFICES ASSUME d + 1 <= depth, NEW i \in Nat, i < Pow(depth - (d + 1)),
                      i * Pow(d + 1) >= N
               PROVE  l[d + 1][i] = ZeroHash[d + 1]
    OBVIOUS
  <2> DEFINE x == 2 * i
             y == 2 * i + 1
  <2>1. x \in Nat /\ x < Pow(depth - d) /\ y \in Nat /\ y < Pow(depth - d)
    BY ChildPlaces
  <2>2. x * Pow(d) >= N /\ y * Pow(d) >= N
    <3>0. d + 1 \in Nat /\ i \in Nat /\ d \in Nat
      OBVIOUS
    <3>1. /\ x * Pow(d) = i * Pow(d + 1) /\ y * Pow(d) = i * Pow(d + 1) + Pow(d)
          /\ Pow(d) \in Nat /\ i * Pow(d + 1) \in Nat
      BY <3>0, NodeStart, PowType
    <3> DEFINE z == i * Pow(d + 1)
               p == Pow(d)
    <3>2. z >= N /\ z \in Nat /\ p \in Nat /\ N \in Nat
      BY <3>1
    <3> HIDE DEF z, p, N
    <3>3. z + p >= N
      BY <3>2
    <3> QED BY <3>1, <3>2, <3>3 DEF z, p
  <2>3. l[d + 1][i] = HashPair(l[d][x], l[d][y])
    BY <1>1
  <2>4. d <= depth
    OBVIOUS
  <2> HIDE DEF x, y
  <2>5. l[d][x] = ZeroHash[d] /\ l[d][y] = ZeroHash[d]
    BY <1>3, <2>1, <2>2, <2>4
  <2> QED BY <2>3, <2>5, ZeroHashes
<1>4. \A d \in Nat : d \in S
  <2> HIDE DEF S
  <2> QED BY <1>2, <1>3, InSetByInduction
<1> QED BY <1>4

\* The roots of the subtrees compute_subtree_root descends into.
IsRoots(r, chunks, depth) ==
  r = [d \in 0..depth |->
         [s \in Nat |->
            IF d = 0 THEN GetLeaf(chunks, s)
            ELSE IF s >= Len(chunks) THEN ZeroHash[d]
            ELSE HashPair(r[d - 1][s], r[d - 1][s + 2^(d - 1)])]]

\* Some such roots.
Roots(chunks, depth) == CHOOSE r : IsRoots(r, chunks, depth)

\* compute_subtree_root returns one of them.
LEMMA SubtreeRoots ==
  ASSUME NEW chunks, NEW depth, NEW start, depth \in Nat
  PROVE  /\ IsRoots(Roots(chunks, depth), chunks, depth)
         /\ SubtreeRoot(chunks, start, depth) = Roots(chunks, depth)[depth][start]
<1> DEFINE Row(x, d) == [s \in Nat |->
                           IF d = 0 THEN GetLeaf(chunks, s)
                           ELSE IF s >= Len(chunks) THEN ZeroHash[d]
                           ELSE HashPair(x[d - 1][s], x[d - 1][s + 2^(d - 1)])]
           Rows(r, n) == r = [d \in 0..n |-> Row(r, d)]
           S == {n \in Nat : \E r : Rows(r, n)}
<1>0. \A x, y : \A d \in Nat : d = 0 \/ x[d - 1] = y[d - 1] => Row(x, d) = Row(y, d)
  OBVIOUS
<1> HIDE DEF Row
<1>1. 0 \in S
  <2> DEFINE r == [d \in 0..0 |-> Row(<<>>, 0)]
  <2>1. Rows(r, 0)
    <3>1. \A d \in 0..0 : d \in Nat /\ d = 0
      OBVIOUS
    <3>2. Row(r, 0) = Row(<<>>, 0)
      BY <1>0, <3>1
    <3> QED BY <3>1, <3>2
  <2> HIDE DEF Rows
  <2> QED BY <2>1
<1>2. ASSUME NEW n \in Nat, n \in S PROVE n + 1 \in S
  <2>1. PICK r : Rows(r, n)
    BY <1>2
  <2> DEFINE m == [d \in 0..(n + 1) |-> IF d <= n THEN r[d] ELSE Row(r, d)]
  <2>2. \A d \in 0..(n + 1) : m[d] = Row(m, d)
    <3> TAKE d \in 0..(n + 1)
    <3>1. CASE d = 0
      <4>1. m[d] = r[d] /\ r[d] = Row(r, d) /\ d \in Nat
        BY <2>1, <3>1
      <4>2. Row(r, d) = Row(m, d)
        <5> HIDE DEF m
        <5> QED BY <4>1, <3>1, <1>0
      <4> QED BY <4>1, <4>2
    <3>2. CASE d # 0
      <4>1. m[d] = Row(r, d) /\ m[d - 1] = r[d - 1] /\ d \in Nat
        BY <2>1, <3>2
      <4>2. Row(r, d) = Row(m, d)
        <5> HIDE DEF m
        <5> QED BY <4>1, <3>2, <1>0
      <4> QED BY <4>1, <4>2
    <3> QED BY <3>1, <3>2
  <2>3. Rows(m, n + 1)
    BY <2>2
  <2> HIDE DEF Rows
  <2> QED BY <2>3
<1>3. depth \in S
  <2> HIDE DEF S
  <2> QED BY <1>1, <1>2, InSetByInduction
<1> DEFINE root == CHOOSE r : r = [d \in 0..depth |-> Row(r, d)]
<1>4. root = [d \in 0..depth |-> Row(root, d)]
  <2>1. \E r : r = [d \in 0..depth |-> Row(r, d)]
    BY <1>3
  <2> QED BY <2>1
<1>5. SubtreeRoot(chunks, start, depth) = root[depth][start]
  BY Zenon DEF SubtreeRoot, Row
<1>6. Roots(chunks, depth) = root
  BY Zenon DEF Roots, IsRoots, Row
<1>7. IsRoots(root, chunks, depth)
  <2> HIDE DEF root
  <2> QED BY <1>4, Zenon DEF IsRoots, Row
<1> HIDE DEF root
<1> QED BY <1>5, <1>6, <1>7

\* Node i of a layer of a tree.
IsNode(l, chunks, depth, level, i) ==
  /\ depth \in Nat /\ Len(chunks) \in Nat /\ IsLayers(l, chunks, depth)
  /\ level \in Nat /\ level <= depth /\ i \in Nat /\ i < Pow(depth - level)

\* compute_subtree_root computes the nodes of the tree.
LEMMA SubtreeIsLayer ==
  ASSUME NEW l, NEW chunks, NEW depth, NEW level, NEW i, IsNode(l, chunks, depth, level, i)
  PROVE  SubtreeRoot(chunks, i * 2^level, level) = l[level][i]
<1>0. /\ depth \in Nat /\ Len(chunks) \in Nat /\ IsLayers(l, chunks, depth)
      /\ level \in Nat /\ level <= depth /\ i \in Nat /\ i < Pow(depth - level)
  BY DEF IsNode
<1> DEFINE start == i * 2^level
           r == Roots(chunks, level)
<1>1. IsRoots(r, chunks, level) /\ SubtreeRoot(chunks, start, level) = r[level][start]
  <2> HIDE DEF start
  <2>1. level \in Nat
    BY <1>0
  <2>2. IsRoots(Roots(chunks, level), chunks, level)
    BY <2>1, SubtreeRoots
  <2>3. SubtreeRoot(chunks, start, level) = Roots(chunks, level)[level][start]
    BY <2>1, SubtreeRoots
  <2> QED BY <2>2, <2>3
<1> HIDE DEF start, r
<1>2. /\ \A j \in Nat : j < Pow(depth) => l[0][j] = GetLeaf(chunks, j)
      /\ \A d, j \in Nat : d + 1 <= depth /\ j < Pow(depth - (d + 1)) =>
            l[d + 1][j] = HashPair(l[d][2 * j], l[d][2 * j + 1])
  BY <1>0, LayerNodes
<1>3. /\ \A s \in Nat : r[0][s] = GetLeaf(chunks, s)
      /\ \A d, s \in Nat : d + 1 <= level =>
           r[d + 1][s] = IF s >= Len(chunks) THEN ZeroHash[d + 1]
                         ELSE HashPair(r[d][s], r[d][s + Pow(d)])
  <2>1. 0 \in 0..level
    BY <1>0
  <2>2. \A s \in Nat : r[0][s] = GetLeaf(chunks, s)
    BY <1>1, <2>1 DEF IsRoots
  <2>3. ASSUME NEW d \in Nat, NEW s \in Nat, d + 1 <= level
        PROVE  r[d + 1][s] = IF s >= Len(chunks) THEN ZeroHash[d + 1]
                             ELSE HashPair(r[d][s], r[d][s + Pow(d)])
    <3> DEFINE e == d + 1
    <3>1. e \in 0..level /\ e # 0 /\ e - 1 = d
      BY <2>3, <1>0
    <3> HIDE DEF e
    <3>2. r[e] = [t \in Nat |-> IF e = 0 THEN GetLeaf(chunks, t)
                               ELSE IF t >= Len(chunks) THEN ZeroHash[e]
                               ELSE HashPair(r[e - 1][t], r[e - 1][t + 2^(e - 1)])]
      BY <1>1, <3>1, Zenon DEF IsRoots
    <3>3. r[e][s] = IF s >= Len(chunks) THEN ZeroHash[e]
                    ELSE HashPair(r[e - 1][s], r[e - 1][s + Pow(e - 1)])
      BY <3>1, <3>2 DEF Pow
    <3> QED BY <3>1, <3>3 DEF e
  <2> QED BY <2>2, <2>3
<1> DEFINE S == {d \in Nat : d <= level =>
                   \A j \in Nat : j < Pow(depth - d) => r[d][j * Pow(d)] = l[d][j]}
<1>4. 0 \in S
  <2> SUFFICES ASSUME NEW j \in Nat, j < Pow(depth - 0) PROVE r[0][j * Pow(0)] = l[0][j]
    OBVIOUS
  <2>1. depth - 0 = depth /\ j * Pow(0) = j
    BY <1>0, PowValues
  <2> QED BY <1>2, <1>3, <2>1
<1>5. ASSUME NEW d \in Nat, d \in S PROVE d + 1 \in S
  <2> SUFFICES ASSUME d + 1 <= level, NEW j \in Nat, j < Pow(depth - (d + 1))
               PROVE  r[d + 1][j * Pow(d + 1)] = l[d + 1][j]
    OBVIOUS
  <2> DEFINE x == 2 * j
             y == 2 * j + 1
             s == j * Pow(d + 1)
  <2>0. d + 1 <= depth /\ d + 1 \in Nat /\ d <= level /\ depth \in Nat
    BY <1>0
  <2>1. x \in Nat /\ x < Pow(depth - d) /\ y \in Nat /\ y < Pow(depth - d)
    BY <2>0, ChildPlaces
  <2>2. s \in Nat /\ x * Pow(d) = s /\ y * Pow(d) = s + Pow(d)
    BY <2>0, NodeStart
  <2>3. l[d + 1][j] = HashPair(l[d][x], l[d][y])
    BY <1>2, <2>0
  <2> HIDE DEF x, y, s
  <2>4. r[d][s] = l[d][x] /\ r[d][s + Pow(d)] = l[d][y]
    BY <1>5, <2>0, <2>1, <2>2
  <2>5. CASE s >= Len(chunks)
    <3>1. r[d + 1][s] = ZeroHash[d + 1]
      BY <1>3, <2>2, <2>5
    <3>2. l[d + 1][j] = ZeroHash[d + 1]
      <4> DEFINE e == d + 1
      <4>1. e \in Nat /\ e <= depth /\ j < Pow(depth - e) /\ j * Pow(e) >= Len(chunks)
        BY <2>0, <2>5 DEF s
      <4> HIDE DEF e
      <4>2. l[e][j] = ZeroHash[e]
        BY <1>0, <4>1, PaddingLayer
      <4> QED BY <4>2 DEF e
    <3> QED BY <3>1, <3>2 DEF s
  <2>6. CASE ~ (s >= Len(chunks))
    <3>1. r[d + 1][s] = HashPair(r[d][s], r[d][s + Pow(d)])
      BY <1>3, <2>2, <2>6
    <3> QED BY <2>3, <2>4, <3>1 DEF s
  <2> QED BY <2>5, <2>6
<1>6. level \in S
  <2> HIDE DEF S
  <2> QED BY <1>0, <1>4, <1>5, InSetByInduction
<1>7. r[level][i * Pow(level)] = l[level][i]
  BY <1>0, <1>6
<1> QED BY <1>1, <1>7 DEF Pow, start

-----------------------------------------------------------------------------
\* The prover's branches fold to the root.

\* The bits of a generalized index from height a on are those of the place.
SharesBits(g, a, depth, index) ==
  /\ index \in Nat
  /\ \A e \in Nat : e <= depth => Shr(index, e) \in Nat /\ Shr(index, e) < Pow(depth - e)
  /\ \A e \in Nat : e < depth => Shr(g, a + e) % 2 = Shr(index, e) % 2

\* The bits of a place.
LEMMA PlaceBits ==
  ASSUME NEW g, NEW a, NEW depth, NEW index, g \in Nat, a \in Nat, depth \in Nat,
         index = Place(g, a, depth)
  PROVE  SharesBits(g, a, depth, index)
<1> DEFINE t == Shr(g, a + depth)
           S == {e \in Nat : e <= depth => /\ Shr(index, e) \in Nat /\ Shr(index, e) < Pow(depth - e)
                                           /\ Shr(g, a + e) = Pow(depth - e) * t + Shr(index, e)}
<1>1. index \in Nat /\ index < Pow(depth) /\ t \in Nat /\ Shr(g, a) = Pow(depth) * t + index
  <2>1. index \in Nat /\ index < Pow(depth)
    BY PlaceType
  <2>2. t \in Nat /\ Shr(g, a) \in Nat
    BY ShrType
  <2>3. index = Shr(g, a) - Pow(depth) * t
    BY DEF Place
  <2> HIDE DEF t
  <2>4. Pow(depth) \in Nat
    BY PowType
  <2> DEFINE z == Pow(depth) * t
  <2>5. z \in Nat
    BY <2>2, <2>4
  <2> HIDE DEF z
  <2>6. Shr(g, a) = z + index
    BY <2>1, <2>2, <2>3, <2>5 DEF z
  <2> QED BY <2>1, <2>2, <2>6 DEF z
<1> HIDE DEF t
<1>2. 0 \in S
  <2>1. depth - 0 = depth /\ a + 0 = a
    OBVIOUS
  <2>2. Shr(index, 0) = index
    BY <1>1, ShrZero
  <2> QED BY <1>1, <2>1, <2>2
<1>3. ASSUME NEW e \in Nat, e \in S, e + 1 <= depth
      PROVE  /\ e + 1 \in S
             /\ Shr(g, a + e) % 2 = Shr(index, e) % 2
  <2> DEFINE d == depth - (e + 1)
             p == Pow(d)
             y == Shr(index, e)
             x == Shr(g, a + e)
             z == p * t
  <2>1. d \in Nat /\ d + 1 = depth - e /\ a + e \in Nat /\ (a + e) + 1 = a + (e + 1) /\ e <= depth
    BY <1>3
  <2>2. p \in Nat /\ Pow(depth - e) = 2 * p
    <3> HIDE DEF d
    <3> QED BY <2>1, PowType, PowStep
  <2>3. y \in Nat /\ y < 2 * p /\ x = (2 * p) * t + y
    BY <1>3, <2>1, <2>2
  <2>4. Shr(index, e + 1) = y \div 2
    BY <1>1, ShrUp
  <2>5. Shr(g, a + (e + 1)) = x \div 2
    <3> DEFINE m == a + e
    <3> HIDE DEF m
    <3>1. m \in Nat /\ m + 1 = a + (e + 1)
      BY <2>1 DEF m
    <3>2. Shr(g, m + 1) = Shr(g, m) \div 2
      BY <3>1, ShrUp
    <3> QED BY <3>1, <3>2 DEF m
  <2> HIDE DEF y, x, p
  <2>6. z \in Nat /\ (2 * p) * t = 2 * z
    BY <1>1, <2>2
  <2> HIDE DEF z
  <2>7. x = 2 * z + y
    BY <2>3, <2>6
  <2>8. x \div 2 = z + (y \div 2) /\ x % 2 = y % 2 /\ y \div 2 \in Nat /\ y \div 2 < p
    BY <2>2, <2>3, <2>6, <2>7
  <2>9. e + 1 \in S
    BY <2>4, <2>5, <2>8 DEF z, p
  <2> QED BY <2>8, <2>9 DEF x, y
<1>4. \A e \in Nat : e \in S
  <2>1. ASSUME NEW e \in Nat, e \in S PROVE e + 1 \in S
    <3>1. CASE e + 1 <= depth
      BY <2>1, <3>1, <1>3
    <3>2. CASE ~ (e + 1 <= depth)
      BY <3>2
    <3> QED BY <3>1, <3>2
  <2> HIDE DEF S
  <2> QED BY <1>2, <2>1, InSetByInduction
<1>5. \A e \in Nat : e <= depth => Shr(index, e) \in Nat /\ Shr(index, e) < Pow(depth - e)
  BY <1>4
<1>6. ASSUME NEW e \in Nat, e < depth PROVE Shr(g, a + e) % 2 = Shr(index, e) % 2
  <2>1. e + 1 <= depth
    BY <1>6
  <2> HIDE DEF S
  <2> QED BY <1>3, <1>4, <2>1
<1> QED BY <1>1, <1>5, <1>6 DEF SharesBits

\* A branch that has, from height a on, the prover's siblings of a leaf of a tree.
Climbs(leaf, branch, g, c, a, depth, chunks, index) ==
  /\ Len(branch) \in Nat /\ g \in Nat /\ IsFold(c, leaf, branch, g)
  /\ a \in Nat /\ depth \in Nat /\ a + depth <= Len(branch)
  /\ Len(chunks) \in Nat /\ index = Place(g, a, depth)
  /\ \A k \in 1..depth : branch[a + k] = ProveAgainstLeafChunks(chunks, index, depth)[k]
  /\ c[a] = GetLeaf(chunks, index)

\* Its fold climbs from the leaf to the root of the tree.
LEMMA ClimbReachesRoot ==
  ASSUME NEW leaf, NEW branch, NEW g, NEW c, NEW a, NEW depth, NEW chunks, NEW index,
         Climbs(leaf, branch, g, c, a, depth, chunks, index)
  PROVE  c[a + depth] = Merkleize(chunks, depth)
<1>0. /\ Len(branch) \in Nat /\ g \in Nat /\ IsFold(c, leaf, branch, g)
      /\ a \in Nat /\ depth \in Nat /\ a + depth <= Len(branch)
      /\ Len(chunks) \in Nat /\ index = Place(g, a, depth)
      /\ \A k \in 1..depth : branch[a + k] = ProveAgainstLeafChunks(chunks, index, depth)[k]
      /\ c[a] = GetLeaf(chunks, index)
  BY DEF Climbs
<1>1. PICK l : IsLayers(l, chunks, depth) /\ Merkleize(chunks, depth) = l[depth][0]
  BY <1>0, MerkleizeLayers
<1>2. /\ \A i \in Nat : i < Pow(depth) => l[0][i] = GetLeaf(chunks, i)
      /\ \A d, i \in Nat : d + 1 <= depth /\ i < Pow(depth - (d + 1)) =>
            l[d + 1][i] = HashPair(l[d][2 * i], l[d][2 * i + 1])
  BY <1>0, <1>1, LayerNodes
<1>3. \A k \in 0..Len(branch) - 1 : c[k + 1] = Join(g, k, c[k], branch[k + 1])
  BY <1>0, FoldStep
<1>4. /\ index \in Nat
      /\ \A e \in Nat : e <= depth => Shr(index, e) \in Nat /\ Shr(index, e) < Pow(depth - e)
      /\ \A e \in Nat : e < depth => Shr(g, a + e) % 2 = Shr(index, e) % 2
  <2>1. SharesBits(g, a, depth, index)
    BY <1>0, PlaceBits
  <2> QED BY <2>1 DEF SharesBits
<1> DEFINE S == {e \in Nat : e <= depth => c[a + e] = l[e][Shr(index, e)]}
<1>5. 0 \in S
  <2>1. a + 0 = a /\ Shr(index, 0) = index /\ 0 \in Nat /\ 0 <= depth /\ depth - 0 = depth
    BY <1>0, <1>4, ShrZero
  <2>2. index < Pow(depth)
    BY <1>4, <2>1
  <2>3. l[0][index] = GetLeaf(chunks, index)
    BY <1>2, <1>4, <2>2
  <2> QED BY <1>0, <2>1, <2>3
<1>6. ASSUME NEW e \in Nat, e \in S PROVE e + 1 \in S
  <2> SUFFICES ASSUME e + 1 <= depth PROVE c[a + (e + 1)] = l[e + 1][Shr(index, e + 1)]
    OBVIOUS
  <2> DEFINE k == a + e
             j == Shr(index, e)
             i == Shr(index, e + 1)
             b == j % 2
             x == 2 * i
             y == 2 * i + 1
  <2>1. /\ k \in Nat /\ k + 1 = a + (e + 1) /\ k \in 0..Len(branch) - 1 /\ e <= depth /\ e < depth
        /\ e + 1 \in 1..depth /\ e + 1 \in Nat
    BY <1>0
  <2>2. j \in Nat /\ i \in Nat /\ j = 2 * i + b /\ b \in {0, 1} /\ i = j \div 2
    BY <1>4, <2>1, ShrHalf, ShrUp
  <2>3. i < Pow(depth - (e + 1)) /\ j < Pow(depth - e)
    BY <1>4, <2>1
  <2>4. l[e + 1][i] = HashPair(l[e][x], l[e][y])
    BY <1>2, <2>1, <2>2, <2>3
  <2>5. x \in Nat /\ x < Pow(depth - e) /\ y \in Nat /\ y < Pow(depth - e)
    <3> HIDE DEF i
    <3> QED BY <1>0, <2>1, <2>2, <2>3, ChildPlaces
  <2>6. c[k] = l[e][j] /\ Shr(g, k) % 2 = b
    BY <1>4, <1>6, <2>1
  <2>7. c[k + 1] = Join(g, k, c[k], branch[k + 1])
    <3> HIDE DEF k
    <3> QED BY <1>3, <2>1
  <2>8. branch[k + 1] = SubtreeRoot(chunks, Sibling(j) * 2^e, e)
    <3> DEFINE n == e + 1
    <3>1. n \in 1..depth /\ n - 1 = e
      BY <2>1
    <3> HIDE DEF n
    <3>2. ProveAgainstLeafChunks(chunks, index, depth)[n]
            = SubtreeRoot(chunks, Sibling(index \div 2^(n - 1)) * 2^(n - 1), n - 1)
      BY <3>1, Zenon DEF ProveAgainstLeafChunks
    <3>3. branch[a + n] = ProveAgainstLeafChunks(chunks, index, depth)[n]
      BY <1>0, <3>1
    <3>4. branch[a + n] = SubtreeRoot(chunks, Sibling(index \div 2^e) * 2^e, e)
      BY <3>1, <3>2, <3>3
    <3>5. index \div 2^e = j
      BY DEF Shr
    <3> QED BY <2>1, <3>4, <3>5 DEF n
  <2>9. ASSUME NEW u, u \in Nat, u < Pow(depth - e) PROVE SubtreeRoot(chunks, u * 2^e, e) = l[e][u]
    <3>1. IsNode(l, chunks, depth, e, u)
      BY <1>0, <1>1, <2>1, <2>9 DEF IsNode
    <3> QED BY <3>1, SubtreeIsLayer
  <2> HIDE DEF j, i, k
  <2>10. CASE b = 0
    <3>1. j = x /\ Sibling(j) = y
      BY <2>2, <2>10 DEF Sibling
    <3>2. Join(g, k, c[k], branch[k + 1]) = HashPair(c[k], branch[k + 1])
      BY <2>6, <2>10, JoinSides
    <3> HIDE DEF x, y
    <3>3. branch[k + 1] = l[e][y] /\ c[k] = l[e][x]
      BY <2>5, <2>6, <2>8, <2>9, <3>1
    <3> QED BY <2>1, <2>4, <2>7, <3>2, <3>3 DEF i
  <2>11. CASE b # 0
    <3>0. b = 1
      BY <2>2, <2>11
    <3>1. j = y /\ Sibling(j) = x
      BY <2>2, <3>0 DEF Sibling
    <3>2. Join(g, k, c[k], branch[k + 1]) = HashPair(branch[k + 1], c[k])
      <4>1. Shr(g, k) % 2 # 0
        BY <2>6, <2>11
      <4> QED BY <4>1, JoinSides
    <3> HIDE DEF x, y
    <3>3. branch[k + 1] = l[e][x] /\ c[k] = l[e][y]
      BY <2>5, <2>6, <2>8, <2>9, <3>1
    <3> QED BY <2>1, <2>4, <2>7, <3>2, <3>3 DEF i
  <2> QED BY <2>10, <2>11
<1>7. depth \in S
  <2> HIDE DEF S
  <2> QED BY <1>0, <1>5, <1>6, InSetByInduction
<1>8. Shr(index, depth) = 0
  <2>1. depth - depth = 0 /\ depth <= depth
    BY <1>0
  <2>2. Shr(index, depth) \in Nat /\ Shr(index, depth) < Pow(0)
    BY <1>0, <1>4, <2>1
  <2> QED BY <2>2, PowValues
<1> QED BY <1>0, <1>1, <1>7, <1>8

-----------------------------------------------------------------------------
\* The layers of a proof.

\* A sequence of n hashes.
IsSeqOf(s, n) == n \in Nat /\ \E S : s \in Seq(S) /\ Len(s) = n

\* Its length and elements.
LEMMA SeqOfType ==
  ASSUME NEW s, NEW n, IsSeqOf(s, n)
  PROVE  n \in Nat /\ Len(s) = n /\ DOMAIN s = 1..n /\ s = [k \in 1..n |-> s[k]]
BY DEF IsSeqOf

\* One sequence after the other.
IsConcat(u, s, t, m, n) ==
  /\ IsSeqOf(u, m + n)
  /\ \A k \in 1..m : u[k] = s[k]
  /\ \A k \in 1..n : u[m + k] = t[k]

\* What \o does.
LEMMA ConcatOf ==
  ASSUME NEW s, NEW t, NEW m, NEW n, IsSeqOf(s, m), IsSeqOf(t, n)
  PROVE  IsConcat(s \o t, s, t, m, n)
<1>1. PICK S : s \in Seq(S) /\ Len(s) = m
  BY DEF IsSeqOf
<1>2. PICK T : t \in Seq(T) /\ Len(t) = n
  BY DEF IsSeqOf
<1>3. m \in Nat /\ n \in Nat
  BY DEF IsSeqOf
<1> DEFINE U == S \cup T
           u == s \o t
<1>4. s \in Seq(U) /\ t \in Seq(U)
  BY <1>1, <1>2
<1> HIDE DEF U
<1>5. /\ u \in Seq(U) /\ Len(u) = m + n
      /\ \A i \in 1..m + n : u[i] = IF i <= m THEN s[i] ELSE t[i - m]
  BY <1>1, <1>2, <1>4, ConcatProperties
<1> HIDE DEF u
<1>6. IsSeqOf(u, m + n)
  BY <1>3, <1>5 DEF IsSeqOf
<1>7. \A k \in 1..m : u[k] = s[k]
  BY <1>3, <1>5
<1>8. ASSUME NEW k \in 1..n PROVE u[m + k] = t[k]
  <2>1. m + k \in 1..m + n /\ ~ (m + k <= m) /\ (m + k) - m = k
    BY <1>3
  <2> QED BY <1>5, <2>1
<1>9. IsConcat(u, s, t, m, n)
  BY <1>6, <1>7, <1>8 DEF IsConcat
<1> QED BY <1>9 DEF u

\* prove_against_leaf_chunks returns one sibling for each level.
LEMMA BranchOfTree ==
  ASSUME NEW chunks, NEW index, NEW depth, depth \in Nat
  PROVE  IsSeqOf(ProveAgainstLeafChunks(chunks, index, depth), depth)
<1> DEFINE p == ProveAgainstLeafChunks(chunks, index, depth)
           S == {p[k] : k \in 1..depth}
<1>1. p = [k \in 1..depth |-> p[k]]
  BY DEF ProveAgainstLeafChunks
<1> HIDE DEF p
<1>2. p \in [1..depth -> S]
  BY <1>1
<1> HIDE DEF S
<1>3. p \in Seq(S) /\ Len(p) = depth
  BY <1>2
<1> QED BY <1>3 DEF IsSeqOf, p

\* The one sibling of a list's data, its length.
LEMMA SingleSeq ==
  ASSUME NEW x
  PROVE  IsSeqOf(<<x>>, 1) /\ <<x>>[1] = x
<1>1. <<x>> \in Seq({x}) /\ Len(<<x>>) = 1 /\ <<x>>[1] = x
  OBVIOUS
<1> QED BY <1>1 DEF IsSeqOf

\* Where the layers of a proof from the state root stand in it.
StateLayers(b, w, inner, n, list, index, depth, field) ==
  /\ \A k \in 1..n : b[k] = inner[k]
  /\ \A k \in 1..depth : b[n + k] = ProveAgainstLeafChunks(list, index, depth)[k]
  /\ b[(n + depth) + 1] = LittleEndian(Len(list))
  /\ \A k \in 1..STATE_DEPTH :
       b[((n + depth) + 1) + k] = ProveAgainstLeafChunks(FieldRoots(w), field, STATE_DEPTH)[k]

\* Such a proof, of the right length.
StateLayout(b, w, inner, n, list, index, depth, field) ==
  /\ IsSeqOf(b, ((n + depth) + 1) + STATE_DEPTH)
  /\ StateLayers(b, w, inner, n, list, index, depth, field)

\* The layers the prover joins stand one after the other.
LEMMA StateProofLayout ==
  ASSUME NEW w, NEW inner, NEW n, NEW list, NEW index, NEW depth, NEW field,
         IsSeqOf(inner, n), depth \in Nat
  PROVE  StateLayout(StateProof(w, inner, list, index, depth, field),
                     w, inner, n, list, index, depth, field)
<1> DEFINE p == ProveAgainstLeafChunks(list, index, depth)
           x == LittleEndian(Len(list))
           one == <<x>>
           q == ProveAgainstLeafChunks(FieldRoots(w), field, STATE_DEPTH)
           s1 == inner \o p
           s2 == s1 \o one
           s3 == s2 \o q
           sd == STATE_DEPTH
           u == 1
<1>1. IsSeqOf(p, depth)
  BY BranchOfTree
<1>2. IsSeqOf(one, u) /\ one[1] = x
  <2> HIDE DEF x
  <2> QED BY SingleSeq
<1>3. sd \in Nat
  BY DEF STATE_DEPTH
<1>4. IsSeqOf(q, sd)
  <2> HIDE DEF sd
  <2> QED BY <1>3, BranchOfTree DEF sd
<1>5. n \in Nat
  BY SeqOfType
<1>6. StateProof(w, inner, list, index, depth, field) = s3
  BY DEF StateProof
<1> HIDE DEF p, x, one, q, sd, u
<1>7. /\ IsSeqOf(s1, n + depth)
      /\ \A k \in 1..n : s1[k] = inner[k]
      /\ \A k \in 1..depth : s1[n + k] = p[k]
  <2>1. IsConcat(s1, inner, p, n, depth)
    BY <1>1, ConcatOf
  <2> QED BY <2>1 DEF IsConcat
<1> HIDE DEF s1
<1> DEFINE a == n + depth
<1>8. a \in Nat
  BY <1>5
<1>9. IsSeqOf(s1, a)
  BY <1>7
<1> HIDE DEF a
<1>10. /\ IsSeqOf(s2, a + u)
       /\ \A k \in 1..a : s2[k] = s1[k]
       /\ \A k \in 1..u : s2[a + k] = one[k]
  <2>1. IsConcat(s2, s1, one, a, u)
    BY <1>2, <1>9, ConcatOf
  <2> QED BY <2>1 DEF IsConcat
<1> HIDE DEF s2
<1> DEFINE e == a + u
<1>11. e \in Nat /\ e = a + 1
  BY <1>8 DEF u
<1> HIDE DEF e
<1>12. /\ IsSeqOf(s3, e + sd)
       /\ \A k \in 1..e : s3[k] = s2[k]
       /\ \A k \in 1..sd : s3[e + k] = q[k]
  <2>1. IsConcat(s3, s2, q, e, sd)
    <3>1. IsSeqOf(s2, e)
      BY <1>10 DEF e
    <3> QED BY <1>4, <3>1, ConcatOf
  <2> QED BY <2>1 DEF IsConcat, e
<1> HIDE DEF s3
<1>13. ASSUME NEW k \in 1..n PROVE s3[k] = inner[k]
  <2>1. k \in 1..a /\ k \in 1..e
    BY <1>5, <1>11 DEF a
  <2> QED BY <1>7, <1>10, <1>12, <2>1
<1>14. ASSUME NEW k \in 1..depth PROVE s3[n + k] = p[k]
  <2>1. n + k \in 1..a /\ n + k \in 1..e
    BY <1>5, <1>11 DEF a
  <2> QED BY <1>7, <1>10, <1>12, <2>1
<1>15. s3[a + 1] = x
  <2>1. a + 1 \in 1..e /\ 1 \in 1..u
    BY <1>8, <1>11 DEF u
  <2> QED BY <1>2, <1>10, <1>12, <2>1
<1>16. /\ IsSeqOf(s3, (a + 1) + sd)
       /\ \A k \in 1..sd : s3[(a + 1) + k] = q[k]
  BY <1>11, <1>12
<1> QED BY <1>6, <1>13, <1>14, <1>15, <1>16, Zenon DEF StateLayout, StateLayers, a, sd, p, q, x

\* A proof from the state root followed by one from the block root.
FullLayout(b, w, inner, n, list, index, depth, field) ==
  /\ IsSeqOf(b, (((n + depth) + 1) + STATE_DEPTH) + HEADER_DEPTH)
  /\ StateLayers(b, w, inner, n, list, index, depth, field)
  /\ \A k \in 1..HEADER_DEPTH :
       b[(((n + depth) + 1) + STATE_DEPTH) + k]
         = ProveAgainstLeafChunks(HeaderChunks(w), STATE_ROOT_FIELD_INDEX, HEADER_DEPTH)[k]

\* The branch from the state root to the block root.
HeaderProof(w) == ProveAgainstLeafChunks(HeaderChunks(w), STATE_ROOT_FIELD_INDEX, HEADER_DEPTH)

\* They do so too with the header's branch behind them.
LEMMA FullProofLayout ==
  ASSUME NEW w, NEW inner, NEW n, NEW list, NEW index, NEW depth, NEW field,
         IsSeqOf(inner, n), depth \in Nat
  PROVE  FullLayout(StateProof(w, inner, list, index, depth, field) \o HeaderProof(w),
                    w, inner, n, list, index, depth, field)
<1> DEFINE s == StateProof(w, inner, list, index, depth, field)
           h == HeaderProof(w)
           b == s \o h
           a == n + depth
           sd == STATE_DEPTH
           e == (a + 1) + sd
           hd == HEADER_DEPTH
           x == LittleEndian(Len(list))
           p == ProveAgainstLeafChunks(list, index, depth)
           q == ProveAgainstLeafChunks(FieldRoots(w), field, STATE_DEPTH)
<1>1. StateLayout(s, w, inner, n, list, index, depth, field)
  BY StateProofLayout
<1>2. /\ IsSeqOf(s, e)
      /\ \A k \in 1..n : s[k] = inner[k]
      /\ \A k \in 1..depth : s[n + k] = p[k]
      /\ s[a + 1] = x
      /\ \A k \in 1..sd : s[(a + 1) + k] = q[k]
  BY <1>1, Zenon DEF StateLayout, StateLayers
<1>3. hd \in Nat /\ sd \in Nat
  BY DEF HEADER_DEPTH, STATE_DEPTH
<1>4. IsSeqOf(h, hd)
  <2> HIDE DEF hd
  <2> QED BY <1>3, BranchOfTree DEF hd, HeaderProof
<1>5. n \in Nat /\ a \in Nat
  BY SeqOfType
<1> HIDE DEF s, h, x, p, q, sd, hd
<1>6. e \in Nat
  BY <1>3, <1>5
<1> HIDE DEF e
<1>7. /\ IsSeqOf(b, e + hd)
      /\ \A k \in 1..e : b[k] = s[k]
      /\ \A k \in 1..hd : b[e + k] = h[k]
  <2>1. IsConcat(b, s, h, e, hd)
    BY <1>2, <1>4, ConcatOf
  <2> QED BY <2>1 DEF IsConcat
<1> HIDE DEF b
<1>8. ASSUME NEW k \in 1..n PROVE b[k] = inner[k]
  <2>1. k \in 1..e
    BY <1>3, <1>5 DEF e
  <2> QED BY <1>2, <1>7, <2>1
<1>9. ASSUME NEW k \in 1..depth PROVE b[n + k] = p[k]
  <2>1. n + k \in 1..e
    BY <1>3, <1>5 DEF e
  <2> QED BY <1>2, <1>7, <2>1
<1>10. b[a + 1] = x
  <2>1. a + 1 \in 1..e
    BY <1>3, <1>5 DEF e
  <2> QED BY <1>2, <1>7, <2>1
<1>11. ASSUME NEW k \in 1..sd PROVE b[(a + 1) + k] = q[k]
  <2>1. (a + 1) + k \in 1..e
    BY <1>3, <1>5 DEF e
  <2> QED BY <1>2, <1>7, <2>1
<1>12. \A k \in 1..hd : b[e + k] = h[k]
  BY <1>7
<1> HIDE DEF a
<1>13. FullLayout(b, w, inner, n, list, index, depth, field)
  BY <1>7, <1>8, <1>9, <1>10, <1>11, <1>12, Zenon
     DEF FullLayout, StateLayers, a, sd, e, hd, p, q, x, h, HeaderProof
<1> QED BY <1>13, Zenon DEF b, s, h

-----------------------------------------------------------------------------
\* From a leaf to the block root.

\* A leaf in an item of a list of the state, the place of both, and the prover's
\* branch for it.
IsItem(w, leaf, b, g, c, n, chunks, k, list, index, depth, field) ==
  /\ w \in World /\ g \in Nat /\ n \in Nat /\ depth \in Nat /\ IsFold(c, leaf, b, g)
  /\ StateLayers(b, w, ProveAgainstLeafChunks(chunks, k, n), n, list, index, depth, field)
  /\ Len(b) \in Nat /\ ((n + depth) + 1) + STATE_DEPTH <= Len(b)
  /\ k = Place(g, 0, n) /\ index = Place(g, n, depth) /\ Shr(g, n + depth) % 2 = 0
  /\ field = Place(g, (n + depth) + 1, STATE_DEPTH)
  /\ Len(chunks) \in Nat /\ leaf = GetLeaf(chunks, k)
  /\ Len(list) \in Nat /\ GetLeaf(list, index) = Merkleize(chunks, n)
  /\ GetLeaf(FieldRoots(w), field) = ListRoot(list, depth)

\* The prover's branch leads from the leaf to the root of its list ...
LEMMA ItemProofReachesList ==
  ASSUME NEW w, NEW leaf, NEW b, NEW g, NEW c, NEW n, NEW chunks, NEW k,
         NEW list, NEW index, NEW depth, NEW field,
         IsItem(w, leaf, b, g, c, n, chunks, k, list, index, depth, field)
  PROVE  c[(n + depth) + 1] = ListRoot(list, depth)
<1> DEFINE a == n + depth
           p == ProveAgainstLeafChunks(chunks, k, n)
           q == ProveAgainstLeafChunks(list, index, depth)
           zero == 0
<1>1. /\ g \in Nat /\ n \in Nat /\ depth \in Nat /\ IsFold(c, leaf, b, g)
      /\ k = Place(g, zero, n) /\ index = Place(g, n, depth) /\ Shr(g, a) % 2 = 0
      /\ Len(chunks) \in Nat /\ leaf = GetLeaf(chunks, k)
      /\ Len(list) \in Nat /\ GetLeaf(list, index) = Merkleize(chunks, n)
  BY Zenon DEF IsItem
<1>2. /\ \A i \in 1..n : b[i] = p[i]
      /\ \A i \in 1..depth : b[n + i] = q[i]
      /\ b[a + 1] = LittleEndian(Len(list))
  BY Zenon DEF IsItem, StateLayers
<1> HIDE DEF p, q
<1>3. Len(b) \in Nat /\ a + 7 <= Len(b) /\ a \in Nat /\ zero \in Nat
  <2>1. Len(b) \in Nat /\ (a + 1) + STATE_DEPTH <= Len(b)
    BY Zenon DEF IsItem
  <2>2. a \in Nat /\ STATE_DEPTH = 6
    BY <1>1 DEF STATE_DEPTH
  <2> HIDE DEF a
  <2> QED BY <2>1, <2>2
<1>4. c[0] = leaf
  BY <1>1, <1>3, FoldStart
<1>5. c[n] = Merkleize(chunks, n)
  <2>1. \A i \in 1..n : b[zero + i] = p[i]
    BY <1>1, <1>2
  <2>2. c[zero] = GetLeaf(chunks, k)
    BY <1>1, <1>4
  <2>3. zero + n <= Len(b) /\ zero + n = n
    BY <1>1, <1>3
  <2> HIDE DEF zero
  <2>4. Climbs(leaf, b, g, c, zero, n, chunks, k)
    BY <1>1, <1>3, <2>1, <2>2, <2>3 DEF Climbs, p
  <2>5. c[zero + n] = Merkleize(chunks, n)
    BY <2>4, ClimbReachesRoot
  <2> QED BY <2>3, <2>5
<1>6. c[a] = Merkleize(list, depth)
  <2>1. c[n] = GetLeaf(list, index)
    BY <1>1, <1>5
  <2>2. n + depth <= Len(b)
    BY <1>1, <1>3
  <2>3. Climbs(leaf, b, g, c, n, depth, list, index)
    BY <1>1, <1>2, <1>3, <2>1, <2>2 DEF Climbs, q
  <2> QED BY <2>3, ClimbReachesRoot
<1>7. c[a + 1] = Join(g, a, c[a], b[a + 1])
  <2>1. \A i \in 0..Len(b) - 1 : c[i + 1] = Join(g, i, c[i], b[i + 1])
    <3>1. Len(b) \in Nat /\ IsFold(c, leaf, b, g)
      BY <1>1, <1>3
    <3> QED BY <3>1, FoldStep
  <2>2. a \in 0..Len(b) - 1
    <3> HIDE DEF a
    <3> QED BY <1>3
  <2> HIDE DEF a
  <2> QED BY <2>1, <2>2
<1> HIDE DEF a
<1>8. Join(g, a, c[a], b[a + 1]) = HashPair(c[a], b[a + 1])
  BY <1>1, JoinSides
<1> QED BY <1>2, <1>6, <1>7, <1>8 DEF ListRoot, a

\* ... to the state root ...
LEMMA ItemProofReachesState ==
  ASSUME NEW w, NEW leaf, NEW b, NEW g, NEW c, NEW n, NEW chunks, NEW k,
         NEW list, NEW index, NEW depth, NEW field,
         IsItem(w, leaf, b, g, c, n, chunks, k, list, index, depth, field)
  PROVE  c[((n + depth) + 1) + STATE_DEPTH] = Merkleize(FieldRoots(w), STATE_DEPTH)
<1> DEFINE a == (n + depth) + 1
           sd == STATE_DEPTH
           f == FieldRoots(w)
           p == ProveAgainstLeafChunks(f, field, sd)
<1>1. /\ w \in World /\ g \in Nat /\ n \in Nat /\ depth \in Nat /\ IsFold(c, leaf, b, g)
      /\ field = Place(g, a, sd) /\ Len(b) \in Nat /\ a + sd <= Len(b)
      /\ GetLeaf(f, field) = ListRoot(list, depth)
  BY Zenon DEF IsItem
<1>2. \A i \in 1..sd : b[a + i] = p[i]
  BY Zenon DEF IsItem, StateLayers
<1>3. c[a] = ListRoot(list, depth)
  BY ItemProofReachesList
<1>4. sd \in Nat /\ a \in Nat
  BY <1>1 DEF STATE_DEPTH
<1>5. Len(f) \in Nat
  BY <1>1, FieldCount
<1> HIDE DEF sd, f, a
<1>6. Climbs(leaf, b, g, c, a, sd, f, field)
  BY <1>1, <1>2, <1>3, <1>4, <1>5, Zenon DEF Climbs, p
<1> DEFINE i == field
<1>7. c[a + sd] = Merkleize(f, sd)
  BY <1>6, ClimbReachesRoot
<1> QED BY <1>7 DEF a, sd, f

\* ... and on to the block root.
ProvesItem(w, leaf, b, g, c, n, chunks, k, list, index, depth, field) ==
  /\ IsItem(w, leaf, b, g, c, n, chunks, k, list, index, depth, field)
  /\ FullLayout(b, w, ProveAgainstLeafChunks(chunks, k, n), n, list, index, depth, field)
  /\ Place(g, ((n + depth) + 1) + STATE_DEPTH, HEADER_DEPTH) = STATE_ROOT_FIELD_INDEX

\* It ends in the block root.
LEMMA ItemProofReachesRoot ==
  ASSUME NEW w, NEW leaf, NEW b, NEW g, NEW c, NEW n, NEW chunks, NEW k,
         NEW list, NEW index, NEW depth, NEW field,
         ProvesItem(w, leaf, b, g, c, n, chunks, k, list, index, depth, field)
  PROVE  c[Len(b)] = BlockRoot[w] /\ Len(b) = ((n + depth) + 1) + 9
<1> DEFINE a == (n + depth) + 1
           sd == STATE_DEPTH
           hd == HEADER_DEPTH
           e == a + sd
           N == e + hd
           f == FieldRoots(w)
           h == HeaderChunks(w)
           x == STATE_ROOT_FIELD_INDEX
           q == ProveAgainstLeafChunks(h, x, hd)
<1>1. /\ w \in World /\ g \in Nat /\ n \in Nat /\ depth \in Nat /\ IsFold(c, leaf, b, g)
      /\ Place(g, e, hd) = x
  BY Zenon DEF ProvesItem, IsItem
<1>2. /\ IsSeqOf(b, N)
      /\ \A i \in 1..hd : b[e + i] = q[i]
  BY Zenon DEF ProvesItem, FullLayout
<1>3. c[e] = Merkleize(f, sd)
  <2>1. IsItem(w, leaf, b, g, c, n, chunks, k, list, index, depth, field)
    BY DEF ProvesItem
  <2> QED BY <2>1, ItemProofReachesState
<1>4. sd \in Nat /\ hd \in Nat /\ sd = 6 /\ hd = 3
  BY DEF STATE_DEPTH, HEADER_DEPTH
<1>5. Len(h) \in Nat
  BY <1>1, HeaderCount
<1>6. GetLeaf(h, x) = Merkleize(f, sd)
  BY <1>1, HeaderCount DEF GetLeaf, HeaderChunks, STATE_ROOT_FIELD_INDEX
<1>7. BlockRoot[w] = Merkleize(h, hd)
  BY <1>1 DEF BlockRoot
<1> HIDE DEF sd, hd, f, h, x
<1>8. a \in Nat /\ e \in Nat /\ N \in Nat /\ N = a + 9
  BY <1>1, <1>4
<1>9. Len(b) = N
  <2> HIDE DEF N
  <2> QED BY <1>2, SeqOfType
<1> HIDE DEF a, e, N
<1>10. e + hd <= Len(b) /\ Len(b) \in Nat /\ N = e + hd
  BY <1>4, <1>8, <1>9 DEF N
<1>11. c[e + hd] = Merkleize(h, hd)
  <2>1. c[e] = GetLeaf(h, x) /\ x = Place(g, e, hd)
    BY <1>1, <1>3, <1>6
  <2>2. Climbs(leaf, b, g, c, e, hd, h, x)
    BY <1>1, <1>2, <1>4, <1>5, <1>8, <1>10, <2>1, Zenon DEF Climbs, q
  <2> QED BY <2>2, ClimbReachesRoot
<1> QED BY <1>7, <1>8, <1>9, <1>10, <1>11 DEF a

\* A leaf of an item of a list of the state.
ItemOf(w, leaf, n, chunks, k, list, index, depth, field) ==
  /\ w \in World /\ n \in Nat /\ k \in Nat /\ index \in Nat /\ depth \in Nat /\ field \in Nat
  /\ k < Pow(n) /\ index < Pow(depth) /\ field < 64
  /\ Len(chunks) \in Nat /\ leaf = GetLeaf(chunks, k)
  /\ Len(list) \in Nat /\ GetLeaf(list, index) = Merkleize(chunks, n)
  /\ GetLeaf(FieldRoots(w), field) = ListRoot(list, depth)

\* Its generalized index under a root, where q is that of the state; t is the
\* depth of the list's data.
LeafGindex(q, n, k, index, depth, field) ==
  ShiftOr(ShiftOr(2 * (64 * q + field), depth, index), n, k)

\* What a fold along g needs to know of its bits.
LeadsToItem(g, q, t, n, k, index, depth, field) ==
  /\ g \in Nat /\ (n + depth) + 1 \in Nat
  /\ k = Place(g, 0, n) /\ index = Place(g, n, depth) /\ Shr(g, n + depth) % 2 = 0
  /\ field = Place(g, (n + depth) + 1, STATE_DEPTH)
  /\ Shr(g, ((n + depth) + 1) + STATE_DEPTH) = q
  /\ IsTopBit(g, n + (depth + t))

\* The generalized index of an item leads to it.
LEMMA ItemGindex ==
  ASSUME NEW w, NEW leaf, NEW n, NEW chunks, NEW k, NEW list, NEW index, NEW depth, NEW field,
         NEW g, NEW q, NEW t, ItemOf(w, leaf, n, chunks, k, list, index, depth, field),
         q \in Nat, IsTopBit(2 * (64 * q + field), t), g = LeafGindex(q, n, k, index, depth, field)
  PROVE  LeadsToItem(g, q, t, n, k, index, depth, field)
<1> DEFINE x == 64 * q + field
           data == 2 * x
           a == (n + depth) + 1
           sd == STATE_DEPTH
           m == a + sd
<1>1. /\ n \in Nat /\ k \in Nat /\ index \in Nat /\ depth \in Nat /\ field \in Nat
      /\ k < Pow(n) /\ index < Pow(depth) /\ field < 64
  BY DEF ItemOf
<1>2. data \in Nat /\ data \div 2 = x /\ data % 2 = 0 /\ x \in Nat
  BY <1>1
<1>3. g = ShiftOr(ShiftOr(data, depth, index), n, k) /\ IsTopBit(data, t)
  BY DEF LeafGindex
<1>4. sd \in Nat /\ Pow(sd) = 64
  BY PowValues DEF STATE_DEPTH
<1>5. x = Pow(sd) * q + field /\ field < Pow(sd)
  BY <1>1, <1>4
<1> HIDE DEF x, data, sd
<1>6. IsPath(g, data, t, depth, index, n, k)
  BY <1>1, <1>2, <1>3 DEF IsPath
<1>7. /\ g \in Nat /\ a \in Nat
      /\ Shr(g, a) = data \div 2 /\ Shr(g, n + depth) = data
      /\ Place(g, n, depth) = index /\ Place(g, 0, n) = k
      /\ IsTopBit(g, n + (depth + t))
  BY <1>6, PathGindex
<1> HIDE DEF a
<1>8. Shr(g, a) = x
  BY <1>2, <1>7
<1>9. Shr(x, sd) = q
  BY <1>1, <1>4, <1>5, ShrOfSum
<1>10. Shr(g, m) = q
  BY <1>4, <1>7, <1>8, <1>9, ShrSum
<1>11. Place(g, a, sd) = field
  <2>1. Place(g, a, sd) = x - Pow(sd) * q
    BY <1>8, <1>10 DEF Place
  <2> DEFINE z == Pow(sd) * q
  <2>2. z \in Nat
    BY <1>4
  <2> HIDE DEF z
  <2>3. x = z + field /\ Place(g, a, sd) = x - z
    BY <1>5, <2>1 DEF z
  <2> QED BY <1>1, <2>2, <2>3
<1> HIDE DEF m
<1>12. Shr(g, n + depth) % 2 = 0
  BY <1>2, <1>7
<1> QED BY <1>7, <1>10, <1>11, <1>12, Zenon DEF LeadsToItem, a, m, sd

\* And on through the state root's place in the header.
LEMMA HeaderPlace ==
  ASSUME NEW g, NEW m, g \in Nat, m \in Nat, Shr(g, m) = STATE_ROOT_GINDEX_IN_HEADER
  PROVE  Place(g, m, HEADER_DEPTH) = STATE_ROOT_FIELD_INDEX
<1> DEFINE hd == HEADER_DEPTH
           y == Shr(g, m)
<1>1. hd \in Nat /\ Pow(hd) = 8
  BY PowValues DEF HEADER_DEPTH
<1>2. y = 11 /\ y \in Nat
  BY DEF STATE_ROOT_GINDEX_IN_HEADER
<1> HIDE DEF hd
<1>3. Place(g, m, hd) = y - Pow(hd) * Shr(y, hd)
  BY <1>1, PlaceRange
<1>4. Shr(y, hd) = y \div 8
  <2> HIDE DEF y
  <2> QED BY <1>1, <1>2, ShrValue
<1> HIDE DEF y
<1> QED BY <1>1, <1>2, <1>3, <1>4 DEF STATE_ROOT_FIELD_INDEX, hd

\* What the prover makes of an item: a branch to the state root ...
ItemStateProof(w, n, chunks, k, list, index, depth, field) ==
  StateProof(w, ProveAgainstLeafChunks(chunks, k, n), list, index, depth, field)
\* ... and one to the block root.
ItemBlockProof(w, n, chunks, k, list, index, depth, field) ==
  ItemStateProof(w, n, chunks, k, list, index, depth, field) \o HeaderProof(w)

\* Their layers.
LEMMA ItemProofsLayout ==
  ASSUME NEW w, NEW leaf, NEW n, NEW chunks, NEW k, NEW list, NEW index, NEW depth, NEW field,
         ItemOf(w, leaf, n, chunks, k, list, index, depth, field)
  PROVE  /\ StateLayout(ItemStateProof(w, n, chunks, k, list, index, depth, field), w,
                        ProveAgainstLeafChunks(chunks, k, n), n, list, index, depth, field)
         /\ FullLayout(ItemBlockProof(w, n, chunks, k, list, index, depth, field), w,
                       ProveAgainstLeafChunks(chunks, k, n), n, list, index, depth, field)
<1> DEFINE inner == ProveAgainstLeafChunks(chunks, k, n)
<1>1. n \in Nat /\ depth \in Nat
  BY DEF ItemOf
<1>2. IsSeqOf(inner, n)
  BY <1>1, BranchOfTree
<1> HIDE DEF inner
<1>3. StateLayout(StateProof(w, inner, list, index, depth, field), w, inner, n, list, index, depth, field)
  BY <1>1, <1>2, StateProofLayout
<1>4. FullLayout(StateProof(w, inner, list, index, depth, field) \o HeaderProof(w),
                 w, inner, n, list, index, depth, field)
  BY <1>1, <1>2, FullProofLayout
<1> QED BY <1>3, <1>4, Zenon DEF ItemStateProof, ItemBlockProof, inner

\* The first folds to the state root ...
LEMMA ItemStateProofFolds ==
  ASSUME NEW w, NEW leaf, NEW n, NEW chunks, NEW k, NEW list, NEW index, NEW depth, NEW field,
         NEW b, NEW g, NEW c, NEW q, NEW t, ItemOf(w, leaf, n, chunks, k, list, index, depth, field),
         LeadsToItem(g, q, t, n, k, index, depth, field),
         b = ItemStateProof(w, n, chunks, k, list, index, depth, field), IsFold(c, leaf, b, g)
  PROVE  /\ IsSeqOf(b, ((n + depth) + 1) + STATE_DEPTH)
         /\ c[((n + depth) + 1) + STATE_DEPTH] = Merkleize(FieldRoots(w), STATE_DEPTH)
<1> DEFINE inner == ProveAgainstLeafChunks(chunks, k, n)
           m == ((n + depth) + 1) + STATE_DEPTH
<1>1. IsSeqOf(b, m) /\ StateLayers(b, w, inner, n, list, index, depth, field)
  BY ItemProofsLayout, Zenon DEF StateLayout
<1>2. m \in Nat
  BY DEF ItemOf, STATE_DEPTH
<1>3. Len(b) \in Nat /\ m <= Len(b)
  <2> HIDE DEF m
  <2>1. Len(b) = m
    BY <1>1, SeqOfType
  <2> QED BY <1>2, <2>1
<1>4. IsItem(w, leaf, b, g, c, n, chunks, k, list, index, depth, field)
  BY <1>1, <1>3, Zenon DEF IsItem, ItemOf, LeadsToItem
<1>5. c[m] = Merkleize(FieldRoots(w), STATE_DEPTH)
  BY <1>4, ItemProofReachesState
<1> QED BY <1>1, <1>5

\* ... and the second to the block root.
LEMMA ItemBlockProofFolds ==
  ASSUME NEW w, NEW leaf, NEW n, NEW chunks, NEW k, NEW list, NEW index, NEW depth, NEW field,
         NEW b, NEW g, NEW c, NEW t, ItemOf(w, leaf, n, chunks, k, list, index, depth, field),
         LeadsToItem(g, STATE_ROOT_GINDEX_IN_HEADER, t, n, k, index, depth, field),
         b = ItemBlockProof(w, n, chunks, k, list, index, depth, field), IsFold(c, leaf, b, g)
  PROVE  c[Len(b)] = BlockRoot[w] /\ Len(b) = ((n + depth) + 1) + 9
<1> DEFINE inner == ProveAgainstLeafChunks(chunks, k, n)
           m == ((n + depth) + 1) + STATE_DEPTH
           N == m + HEADER_DEPTH
<1>1. FullLayout(b, w, inner, n, list, index, depth, field)
  BY ItemProofsLayout, Zenon
<1>2. IsSeqOf(b, N) /\ StateLayers(b, w, inner, n, list, index, depth, field)
  BY <1>1, Zenon DEF FullLayout
<1>3. m \in Nat /\ N \in Nat /\ m <= N
  BY DEF ItemOf, STATE_DEPTH, HEADER_DEPTH
<1> HIDE DEF m, N
<1>4. Len(b) \in Nat /\ m <= Len(b)
  <2>1. Len(b) = N
    BY <1>2, SeqOfType
  <2> QED BY <1>3, <2>1
<1>5. IsItem(w, leaf, b, g, c, n, chunks, k, list, index, depth, field)
  BY <1>2, <1>4, Zenon DEF IsItem, ItemOf, LeadsToItem, m
<1>6. g \in Nat /\ Shr(g, m) = STATE_ROOT_GINDEX_IN_HEADER
  BY DEF LeadsToItem, m
<1>7. Place(g, m, HEADER_DEPTH) = STATE_ROOT_FIELD_INDEX
  BY <1>3, <1>6, HeaderPlace
<1>8. ProvesItem(w, leaf, b, g, c, n, chunks, k, list, index, depth, field)
  BY <1>1, <1>5, <1>7, Zenon DEF ProvesItem, m
<1> QED BY <1>8, ItemProofReachesRoot

\* The items the prover proves: the source index of a consolidation ...
LEMMA ConsolidationIsItem ==
  ASSUME NEW w, NEW i, w \in World, i \in Nat, i < Len(w.pending)
  PROVE  ItemOf(w, LittleEndian(w.pending[i + 1].source_index), CONSOLIDATION_DEPTH,
                ConsolidationChunks(w.pending[i + 1]), SOURCE_INDEX_FIELD_INDEX,
                ConsolidationHashes(w), i, ConsolidationListDepth, PENDING_CONSOLIDATIONS_FIELD_INDEX)
<1> DEFINE C == ConsolidationListDepth
           n == CONSOLIDATION_DEPTH
           k == SOURCE_INDEX_FIELD_INDEX
           chunks == ConsolidationChunks(w.pending[i + 1])
           leaf == LittleEndian(w.pending[i + 1].source_index)
           list == ConsolidationHashes(w)
           field == PENDING_CONSOLIDATIONS_FIELD_INDEX
<1>1. n \in Nat /\ k \in Nat /\ k = 0 /\ k < Pow(n) /\ field \in Nat /\ field < 64
  BY PowValues DEF CONSOLIDATION_DEPTH, SOURCE_INDEX_FIELD_INDEX, PENDING_CONSOLIDATIONS_FIELD_INDEX
<1>2. C \in Nat /\ i < Pow(C)
  <2>1. C \in Nat /\ Pow(C) \in Nat
    BY WordIsWide, PowType
  <2>2. Len(w.pending) <= Pow(C) /\ Len(w.pending) \in Nat
    BY WorldTypes
  <2> QED BY <2>1, <2>2
<1>3. Len(chunks) = 2 /\ chunks[1] = leaf
  BY DEF ConsolidationChunks
<1>4. GetLeaf(list, i) = Merkleize(chunks, n)
  <2>1. i + 1 \in DOMAIN w.pending /\ Len(list) = Len(w.pending)
    BY WorldTypes, HashCount
  <2>2. list[i + 1] = Merkleize(chunks, n)
    BY <2>1, Zenon DEF ConsolidationHashes
  <2> QED BY <2>1, <2>2 DEF GetLeaf
<1>5. GetLeaf(FieldRoots(w), field) = ListRoot(list, C)
  BY ListFields
<1>6. Len(list) \in Nat
  BY HashCount
<1>7. leaf = GetLeaf(chunks, k) /\ Len(chunks) \in Nat
  BY <1>1, <1>3 DEF GetLeaf
<1> QED BY <1>1, <1>2, <1>4, <1>5, <1>6, <1>7, Zenon DEF ItemOf

\* ... and a chunk of a validator.
LEMMA ValidatorIsItem ==
  ASSUME NEW w, NEW i, NEW f, w \in World, i \in Nat, i < Len(w.validators), f \in Nat, f < 8
  PROVE  ItemOf(w, ValidatorChunks(w.validators[i + 1])[f + 1], VALIDATOR_DEPTH,
                ValidatorChunks(w.validators[i + 1]), f,
                ValidatorHashes(w), i, ValidatorListDepth, VALIDATORS_FIELD_INDEX)
<1> DEFINE L == ValidatorListDepth
           n == VALIDATOR_DEPTH
           chunks == ValidatorChunks(w.validators[i + 1])
           leaf == chunks[f + 1]
           list == ValidatorHashes(w)
           field == VALIDATORS_FIELD_INDEX
<1>1. n \in Nat /\ f < Pow(n) /\ field \in Nat /\ field < 64
  BY PowValues DEF VALIDATOR_DEPTH, VALIDATORS_FIELD_INDEX
<1>2. L \in Nat /\ i < Pow(L)
  <2>1. L \in Nat /\ Pow(L) \in Nat
    BY WordIsWide, PowType
  <2>2. Len(w.validators) <= Pow(L) /\ Len(w.validators) \in Nat
    BY WorldTypes
  <2> QED BY <2>1, <2>2
<1>3. Len(chunks) = 8
  BY DEF ValidatorChunks
<1>4. GetLeaf(list, i) = Merkleize(chunks, n)
  <2>1. i + 1 \in DOMAIN w.validators /\ Len(list) = Len(w.validators)
    BY WorldTypes, HashCount
  <2>2. list[i + 1] = Merkleize(chunks, n)
    BY <2>1, Zenon DEF ValidatorHashes
  <2> QED BY <2>1, <2>2 DEF GetLeaf
<1>5. GetLeaf(FieldRoots(w), field) = ListRoot(list, L)
  BY ListFields
<1>6. Len(list) \in Nat
  BY HashCount
<1>7. leaf = GetLeaf(chunks, f) /\ Len(chunks) \in Nat
  <2> HIDE DEF chunks
  <2> QED BY <1>3 DEF GetLeaf
<1> QED BY <1>1, <1>2, <1>4, <1>5, <1>6, <1>7, Zenon DEF ItemOf

-----------------------------------------------------------------------------
\* The contract accepts the prover's bundles.

\* The contract's verifyProof accepts the proof of an item.
LEMMA ItemBlockProofVerifies ==
  ASSUME NEW w, NEW leaf, NEW n, NEW chunks, NEW k, NEW list, NEW index, NEW depth, NEW field,
         NEW b, NEW g, ItemOf(w, leaf, n, chunks, k, list, index, depth, field),
         LeadsToItem(g, STATE_ROOT_GINDEX_IN_HEADER, DataDepth, n, k, index, depth, field),
         b = ItemBlockProof(w, n, chunks, k, list, index, depth, field),
         n + (depth + DataDepth) < Pow(WordSteps)
  PROVE  /\ Len(b) = n + (depth + DataDepth) /\ Len(b) \in Nat
         /\ VerifyProof(BlockRoot[w], leaf, b, g)
<1> DEFINE N == n + (depth + DataDepth)
           root == BlockRoot[w]
           m == (((n + depth) + 1) + STATE_DEPTH) + HEADER_DEPTH
<1>1. N \in Nat /\ N > 0 /\ m = N /\ ((n + depth) + 1) + 9 = N
  BY DEF ItemOf, DataDepth, STATE_DEPTH, HEADER_DEPTH
<1>2. g \in Nat /\ IsTopBit(g, N)
  BY Zenon DEF LeadsToItem
<1>3. Len(b) \in Nat
  <2>1. FullLayout(b, w, ProveAgainstLeafChunks(chunks, k, n), n, list, index, depth, field)
    BY ItemProofsLayout, Zenon
  <2>2. IsSeqOf(b, m)
    BY <2>1 DEF FullLayout
  <2> HIDE DEF m, N
  <2> QED BY <1>1, <2>2, SeqOfType
<1> HIDE DEF root, m
<1>4. PICK c : IsFold(c, leaf, b, g)
  BY <1>3, FoldExists
<1>5. c[Len(b)] = root /\ Len(b) = N
  <2>1. c[Len(b)] = BlockRoot[w] /\ Len(b) = ((n + depth) + 1) + 9
    BY <1>4, ItemBlockProofFolds
  <2> QED BY <1>1, <2>1 DEF root
<1>6. N < Pow(WordSteps)
  OBVIOUS
<1> HIDE DEF N
<1>7. Log2(g) = N /\ g > 1
  <2>1. N < Pow(N) /\ Pow(N) \in Nat /\ Pow(N) <= g
    BY <1>1, <1>2, PowAbove, PowType DEF IsTopBit
  <2> QED BY <1>1, <1>2, <1>6, <2>1, TopBitLog2
<1>8. VerifyProof(root, leaf, b, g) <=> Len(b) = Log2(g) /\ c[Len(b)] = root
  BY <1>2, <1>3, <1>4, <1>7, VerifyProofFolds
<1> QED BY <1>3, <1>5, <1>7, <1>8 DEF N, root

\* The proofs generate_full_proof_bundle makes for pending_consolidations[i] ...
BundleConsolidationProof(w, i) == ConsolidationProof(w, i) \o HeaderProof(w)
\* ... and for a chunk of validator i.
BundleValidatorProof(w, i, f) == ValidatorProof(w, i, f) \o HeaderProof(w)

\* The contract accepts the first at consolidationSourceGindex ...
LEMMA ConsolidationProofVerifies ==
  ASSUME NEW w, NEW i, w \in World, i \in Nat, i < Len(w.pending)
  PROVE  /\ Len(BundleConsolidationProof(w, i)) = CONSOLIDATION_PROOF_LENGTH
         /\ VerifyProof(BlockRoot[w], LittleEndian(w.pending[i + 1].source_index),
                        BundleConsolidationProof(w, i), ConsolidationSourceGindex(i))
<1> DEFINE b == BundleConsolidationProof(w, i)
           g == ConsolidationSourceGindex(i)
           leaf == LittleEndian(w.pending[i + 1].source_index)
           C == ConsolidationListDepth
           n == CONSOLIDATION_DEPTH
           k == SOURCE_INDEX_FIELD_INDEX
           chunks == ConsolidationChunks(w.pending[i + 1])
           list == ConsolidationHashes(w)
           field == PENDING_CONSOLIDATIONS_FIELD_INDEX
           q == STATE_ROOT_GINDEX_IN_HEADER
           x == 2 * (64 * q + field)
<1>1. ItemOf(w, leaf, n, chunks, k, list, i, C, field)
  BY ConsolidationIsItem
<1>2. x = ConsolidationData /\ q \in Nat /\ IsTopBit(x, DataDepth)
  BY DataGindexes DEF STATE_ROOT_GINDEX_IN_HEADER, PENDING_CONSOLIDATIONS_FIELD_INDEX
<1>3. g = LeafGindex(q, n, k, i, C, field)
  BY <1>2, Zenon DEF LeafGindex, ConsolidationSourceGindex
<1>4. b = ItemBlockProof(w, n, chunks, k, list, i, C, field)
  BY Zenon DEF BundleConsolidationProof, ConsolidationProof, ItemBlockProof, ItemStateProof
<1>5. n + (C + DataDepth) = CONSOLIDATION_PROOF_LENGTH /\ n + (C + DataDepth) < Pow(WordSteps)
  BY WordIsWide DEF CONSOLIDATION_PROOF_LENGTH, CONSOLIDATION_DEPTH, STATE_DEPTH, HEADER_DEPTH, DataDepth
<1> HIDE DEF b, g, leaf, C, n, k, chunks, list, field, q
<1>6. LeadsToItem(g, q, DataDepth, n, k, i, C, field)
  BY <1>1, <1>2, <1>3, ItemGindex
<1>7. Len(b) = n + (C + DataDepth) /\ VerifyProof(BlockRoot[w], leaf, b, g)
  BY <1>1, <1>4, <1>5, <1>6, ItemBlockProofVerifies DEF q
<1> QED BY <1>5, <1>7 DEF b, g, leaf

\* ... and the second at the validator's generalized indices.
LEMMA ValidatorProofVerifies ==
  ASSUME NEW w, NEW i, NEW f, w \in World, i \in Nat, i < Len(w.validators), f \in Nat, f < 8
  PROVE  /\ Len(BundleValidatorProof(w, i, f)) = VALIDATOR_PROOF_LENGTH
         /\ VerifyProof(BlockRoot[w], ValidatorChunks(w.validators[i + 1])[f + 1],
                        BundleValidatorProof(w, i, f), ValidatorGindex(i, f))
<1> DEFINE b == BundleValidatorProof(w, i, f)
           g == ValidatorGindex(i, f)
           leaf == ValidatorChunks(w.validators[i + 1])[f + 1]
           L == ValidatorListDepth
           n == VALIDATOR_DEPTH
           chunks == ValidatorChunks(w.validators[i + 1])
           list == ValidatorHashes(w)
           field == VALIDATORS_FIELD_INDEX
           q == STATE_ROOT_GINDEX_IN_HEADER
           x == 2 * (64 * q + field)
<1>1. ItemOf(w, leaf, n, chunks, f, list, i, L, field)
  BY ValidatorIsItem
<1>2. x = ValidatorData /\ q \in Nat /\ IsTopBit(x, DataDepth)
  BY DataGindexes DEF STATE_ROOT_GINDEX_IN_HEADER, VALIDATORS_FIELD_INDEX
<1>3. g = LeafGindex(q, n, f, i, L, field)
  BY <1>2, Zenon DEF LeafGindex, ValidatorGindex
<1>4. b = ItemBlockProof(w, n, chunks, f, list, i, L, field)
  BY Zenon DEF BundleValidatorProof, ValidatorProof, ItemBlockProof, ItemStateProof
<1>5. n + (L + DataDepth) = VALIDATOR_PROOF_LENGTH /\ n + (L + DataDepth) < Pow(WordSteps)
  BY WordIsWide DEF VALIDATOR_PROOF_LENGTH, VALIDATOR_DEPTH, STATE_DEPTH, HEADER_DEPTH, DataDepth
<1> HIDE DEF b, g, leaf, L, n, chunks, list, field, q
<1>6. LeadsToItem(g, q, DataDepth, n, f, i, L, field)
  BY <1>1, <1>2, <1>3, ItemGindex
<1>7. Len(b) = n + (L + DataDepth) /\ VerifyProof(BlockRoot[w], leaf, b, g)
  BY <1>1, <1>4, <1>5, <1>6, ItemBlockProofVerifies DEF q
<1> QED BY <1>5, <1>7 DEF b, g, leaf

\* A bundle by its fields.
LEMMA BundleFields ==
  ASSUME NEW w, NEW i, NEW c, c = Bundle(w, i)
  PROVE  LET source == w.pending[i + 1].source_index IN
         /\ c.consolidationIndex = i /\ c.sourceIndex = source
         /\ c.activationEpoch = w.validators[source + 1].activation_epoch
         /\ c.sourceCredentials = w.validators[source + 1].withdrawal_credentials
         /\ c.proofConsolidation = BundleConsolidationProof(w, i)
         /\ c.proofCredentials = BundleValidatorProof(w, source, WITHDRAWAL_CREDENTIALS_FIELD_INDEX)
         /\ c.proofActivationEpoch = BundleValidatorProof(w, source, ACTIVATION_EPOCH_FIELD_INDEX)
BY DEF Bundle, HeaderProof, BundleConsolidationProof, BundleValidatorProof

\* Every bundle of the prover passes checks 4 to 7 of claimReward.
LEMMA BundlePasses ==
  ASSUME NEW w, NEW i, w \in World, i \in Nat, i < Len(w.pending),
         w.pending[i + 1].source_index < Len(w.validators)
  PROVE  ProofsPass(BlockRoot[w], Bundle(w, i))
<1> DEFINE s == w.pending[i + 1].source_index
           v == w.validators[s + 1]
           c == Bundle(w, i)
           wf == WITHDRAWAL_CREDENTIALS_FIELD_INDEX
           af == ACTIVATION_EPOCH_FIELD_INDEX
           root == BlockRoot[w]
<1>1. i + 1 \in DOMAIN w.pending
  BY WorldTypes
<1>2. s \in Nat
  BY <1>1, WorldTypes
<1>3. s + 1 \in DOMAIN w.validators /\ s < Len(w.validators)
  BY <1>2, WorldTypes
<1>4. v.activation_epoch \in Nat
  BY <1>3, WorldTypes
<1>5. /\ c.consolidationIndex = i /\ c.sourceIndex = s
      /\ c.activationEpoch = v.activation_epoch
      /\ c.sourceCredentials = v.withdrawal_credentials
      /\ c.proofConsolidation = BundleConsolidationProof(w, i)
      /\ c.proofCredentials = BundleValidatorProof(w, s, wf)
      /\ c.proofActivationEpoch = BundleValidatorProof(w, s, af)
  <2> HIDE DEF c, wf, af
  <2> QED BY BundleFields DEF c, wf, af
<1>6. /\ ValidatorChunks(v)[wf + 1] = v.withdrawal_credentials
      /\ ValidatorChunks(v)[af + 1] = LittleEndian(v.activation_epoch)
  <2> HIDE DEF v
  <2> QED BY ClaimedChunks
<1>7. wf \in Nat /\ wf < 8 /\ af \in Nat /\ af < 8
  BY DEF WITHDRAWAL_CREDENTIALS_FIELD_INDEX, ACTIVATION_EPOCH_FIELD_INDEX
<1>8. /\ ToLittleEndian64(s) = LittleEndian(s)
      /\ ToLittleEndian64(v.activation_epoch) = LittleEndian(v.activation_epoch)
  BY <1>2, <1>4, LittleEndianInjective
<1>9. /\ Len(BundleConsolidationProof(w, i)) = CONSOLIDATION_PROOF_LENGTH
      /\ VerifyProof(root, LittleEndian(s), BundleConsolidationProof(w, i), ConsolidationSourceGindex(i))
  BY ConsolidationProofVerifies
<1> HIDE DEF s, c, wf, af, root
<1>10. /\ Len(BundleValidatorProof(w, s, wf)) = VALIDATOR_PROOF_LENGTH
       /\ VerifyProof(root, ValidatorChunks(w.validators[s + 1])[wf + 1], BundleValidatorProof(w, s, wf),
                      ValidatorGindex(s, wf))
  BY <1>2, <1>3, <1>7, ValidatorProofVerifies DEF root
<1>11. /\ Len(BundleValidatorProof(w, s, af)) = VALIDATOR_PROOF_LENGTH
       /\ VerifyProof(root, ValidatorChunks(w.validators[s + 1])[af + 1], BundleValidatorProof(w, s, af),
                      ValidatorGindex(s, af))
  BY <1>2, <1>3, <1>7, ValidatorProofVerifies DEF root
<1>12. ProofsPass(root, c)
  BY <1>5, <1>6, <1>8, <1>9, <1>10, <1>11, Zenon DEF ProofsPass, v, wf, af
<1> QED BY <1>12 DEF root, c

\* Claims with bundles of the prover are accepted, step by step.
LEMMA NextKeepsBundles ==
  world \in World /\ ProverBundlesVerify /\ [Next]_vars => (world \in World /\ ProverBundlesVerify)'
<1> SUFFICES ASSUME world \in World, ProverBundlesVerify, [Next]_vars
             PROVE  (world \in World /\ ProverBundlesVerify)'
  OBVIOUS
<1>1. CASE UNCHANGED vars
  BY <1>1 DEF vars, ProverBundlesVerify
<1>2. ASSUME NEW i \in 0..Len(world.pending) - 1, ProverClaim(i)
      PROVE  (world \in World /\ ProverBundlesVerify)'
  <2>1. /\ world.pending[i + 1].source_index < Len(world.validators)
        /\ world' = world /\ accepted' = ProofsPass(BlockRoot[world], Bundle(world, i))
    BY <1>2, Zenon DEF ProverClaim, Judge
  <2>2. i \in Nat /\ i < Len(world.pending)
    BY <1>2, WorldTypes
  <2>3. ProofsPass(BlockRoot[world], Bundle(world, i))
    BY <2>1, <2>2, BundlePasses
  <2> QED BY <2>1, <2>3 DEF ProverBundlesVerify
<1>3. ASSUME NEW c, NEW s, NEW v, CallerClaim(c, s, v) PROVE (world \in World /\ ProverBundlesVerify)'
  <2>1. byProver' = FALSE /\ world' = world
    BY <1>3, Zenon DEF CallerClaim, Judge
  <2> QED BY <2>1 DEF ProverBundlesVerify
<1> QED BY <1>1, <1>2, <1>3 DEF Next

\* Every bundle generate_full_proof_bundle returns passes checks 4 to 7 of
\* claimReward, for every state and every index.
THEOREM ProverBundlesAlwaysVerify == Spec => []ProverBundlesVerify
<1>1. Init => world \in World /\ ProverBundlesVerify
  BY DEF Init, ProverBundlesVerify
<1> QED BY <1>1, NextKeepsBundles, PTL DEF Spec

-----------------------------------------------------------------------------
\* The branch at a generalized index of a whole tree.

\* The last k hashes of a branch.
LowestOf(b, n, k) == [j \in 1..k |-> b[(n - k) + j]]

\* One hash more.
LEMMA LowestOfGrows ==
  ASSUME NEW b, NEW n, NEW k, NEW m, NEW x, k \in Nat, m \in Nat, n = (m + k) + 1, x = b[m + 1]
  PROVE  <<x>> \o LowestOf(b, n, k) = LowestOf(b, n, k + 1)
<1> DEFINE s == <<x>>
           t == LowestOf(b, n, k)
           r == LowestOf(b, n, k + 1)
           u == s \o t
           one == 1
           K == k + 1
<1>1. IsSeqOf(s, one) /\ s[1] = x
  BY SingleSeq
<1>2. IsSeqOf(t, k)
  <2> DEFINE S == {t[j] : j \in 1..k}
  <2>1. t = [j \in 1..k |-> t[j]]
    BY DEF LowestOf
  <2> HIDE DEF t
  <2>2. t \in [1..k -> S]
    BY <2>1
  <2> HIDE DEF S
  <2>3. t \in Seq(S) /\ Len(t) = k
    BY <2>2
  <2> QED BY <2>3 DEF IsSeqOf
<1>3. \A j \in 1..k : t[j] = b[(n - k) + j]
  BY DEF LowestOf
<1> HIDE DEF s, t, one
<1>4. IsConcat(u, s, t, one, k)
  BY <1>1, <1>2, ConcatOf
<1> HIDE DEF u
<1>5. /\ IsSeqOf(u, one + k)
      /\ \A j \in 1..one : u[j] = s[j]
      /\ \A j \in 1..k : u[one + j] = t[j]
  BY <1>4 DEF IsConcat
<1>6. u = [j \in 1..one + k |-> u[j]]
  BY <1>5, SeqOfType
<1>7. one + k = K /\ one = 1 /\ K \in Nat
  BY DEF one
<1>8. r = [j \in 1..K |-> b[(n - K) + j]]
  BY DEF LowestOf
<1> HIDE DEF r
<1>9. ASSUME NEW j \in 1..K PROVE u[j] = b[(n - K) + j]
  <2>0. n - K = m /\ n - k = m + 1
    OBVIOUS
  <2>1. CASE j = 1
    BY <1>1, <1>5, <1>7, <2>0, <2>1
  <2>2. CASE j # 1
    <3> DEFINE i == j - 1
    <3>1. i \in 1..k /\ one + i = j /\ (n - k) + i = (n - K) + j
      BY <2>0, <2>2, <1>7
    <3> HIDE DEF i
    <3> QED BY <1>3, <1>5, <3>1
  <2> QED BY <2>1, <2>2
<1> HIDE DEF K
<1>10. u = r
  BY <1>6, <1>7, <1>8, <1>9
<1> QED BY <1>10 DEF u, s, t, r

\* The only branch that folds to a root is the one found by walking down from it.
LEMMA WalkFindsBranch ==
  ASSUME NEW root, NEW leaf, NEW b, NEW g, NEW c, NEW n, g \in Nat, n \in Nat, Log2(g) = n,
         IsSeqOf(b, n), IsFold(c, leaf, b, g), c[n] = root
  PROVE  Branch(root, g) = b
<1> DEFINE Bit(k) == (g \div 2^(n - k)) % 2
           Down(x, k) ==
             IF Len(x.node) # 2 THEN [x EXCEPT !.branch = <<ZeroChunk>> \o @]
             ELSE [node |-> x.node[1 + Bit(k)], branch |-> <<x.node[2 - Bit(k)]>> \o x.branch]
           Walk(f) == [k \in 0..n |-> IF k = 0 THEN [node |-> root, branch |-> <<>>]
                                      ELSE Down(f[k - 1], k)]
           walk == CHOOSE f : f = Walk(f)
           d == [k \in 0..n |-> [node |-> c[n - k], branch |-> LowestOf(b, n, k)]]
<1>1. Len(b) = n /\ b = [k \in 1..n |-> b[k]]
  BY SeqOfType
<1>2. \A k \in 0..n - 1 : c[k + 1] = Join(g, k, c[k], b[k + 1])
  <2>1. Len(b) \in Nat
    BY <1>1
  <2>2. \A k \in 0..Len(b) - 1 : c[k + 1] = Join(g, k, c[k], b[k + 1])
    BY <2>1, FoldStep
  <2> QED BY <1>1, <2>2
<1>3. ASSUME NEW k \in Nat, NEW m \in Nat, n = (m + k) + 1,
             NEW x, x = [node |-> c[m + 1], branch |-> LowestOf(b, n, k)]
      PROVE  Down(x, k + 1) = [node |-> c[m], branch |-> LowestOf(b, n, k + 1)]
  <2> DEFINE y == c[m]
             z == b[m + 1]
             bit == Bit(k + 1)
             l == LowestOf(b, n, k)
             r == LowestOf(b, n, k + 1)
  <2>1. c[m + 1] = Join(g, m, y, z)
    <3>1. m \in 0..n - 1
      BY <1>3
    <3> QED BY <1>2, <3>1
  <2>2. bit = Shr(g, m) % 2 /\ Shr(g, m) \in Nat
    <3>1. n - (k + 1) = m
      BY <1>3
    <3>2. Shr(g, m) \in Nat
      BY ShrType
    <3> QED BY <3>1, <3>2 DEF Shr
  <2>3. <<z>> \o l = r
    <3> HIDE DEF z
    <3> QED BY <1>3, LowestOfGrows DEF z
  <2>4. x.node = c[m + 1] /\ x.branch = l
    BY <1>3
  <2> HIDE DEF bit, y, z, l, r
  <2>5. CASE bit = 0
    <3>1. x.node = <<y, z>>
      BY <2>1, <2>2, <2>4, <2>5, JoinSides DEF HashPair
    <3>2. Len(x.node) = 2 /\ x.node[1 + bit] = y /\ x.node[2 - bit] = z
      BY <2>5, <3>1
    <3> QED BY <2>3, <2>4, <3>2 DEF bit, y, r
  <2>6. CASE bit # 0
    <3>0. bit = 1 /\ 1 + bit = 2 /\ 2 - bit = 1
      BY <2>2, <2>6
    <3>1. x.node = <<z, y>>
      BY <2>1, <2>2, <2>4, <2>6, JoinSides DEF HashPair
    <3>2. Len(x.node) = 2 /\ x.node[1 + bit] = y /\ x.node[2 - bit] = z
      BY <3>0, <3>1
    <3> QED BY <2>3, <2>4, <3>2 DEF bit, y, r
  <2> QED BY <2>5, <2>6
<1> HIDE DEF Down
<1>4. LowestOf(b, n, 0) = <<>> /\ LowestOf(b, n, n) = b
  <2>1. \A j \in 1..n : (n - n) + j = j
    OBVIOUS
  <2>2. LowestOf(b, n, n) = b
    BY <1>1, <2>1 DEF LowestOf
  <2>3. LowestOf(b, n, 0) = <<>>
    BY DEF LowestOf
  <2> QED BY <2>2, <2>3
<1>5. d = Walk(d)
  <2> SUFFICES ASSUME NEW k \in 0..n PROVE d[k] = Walk(d)[k]
    OBVIOUS
  <2>1. CASE k = 0
    BY <1>4, <2>1
  <2>2. CASE k # 0
    <3> DEFINE i == k - 1
               m == n - k
    <3>1. i \in Nat /\ m \in Nat /\ i + 1 = k /\ n = (m + i) + 1 /\ n - i = m + 1 /\ i \in 0..n
      BY <2>2
    <3>2. d[i] = [node |-> c[m + 1], branch |-> LowestOf(b, n, i)]
      BY <3>1
    <3> HIDE DEF i, m
    <3>3. Down(d[i], i + 1) = [node |-> c[m], branch |-> LowestOf(b, n, i + 1)]
      <4> DEFINE x == d[i]
      <4>1. x = [node |-> c[m + 1], branch |-> LowestOf(b, n, i)]
        BY <3>2
      <4> HIDE DEF x
      <4> QED BY <1>3, <3>1, <4>1 DEF x
    <3>4. Walk(d)[k] = Down(d[i], k)
      BY <2>2 DEF i
    <3>5. d[k] = [node |-> c[m], branch |-> LowestOf(b, n, k)]
      BY DEF m
    <3> HIDE DEF d
    <3> QED BY <3>1, <3>3, <3>4, <3>5
  <2> QED BY <2>1, <2>2
<1>6. walk = Walk(walk)
  <2> HIDE DEF Walk, d
  <2> QED BY <1>5
<1> HIDE DEF walk, d
<1> DEFINE S == {k \in Nat : k <= n => walk[k] = d[k]}
<1>7. n \in S
  <2>1. 0 \in S
    <3>1. 0 \in 0..n
      OBVIOUS
    <3> QED BY <3>1, <1>5, <1>6
  <2>2. ASSUME NEW k \in Nat, k \in S PROVE k + 1 \in S
    <3> SUFFICES ASSUME k + 1 <= n PROVE walk[k + 1] = d[k + 1]
      OBVIOUS
    <3>1. k + 1 \in 0..n /\ k + 1 # 0 /\ (k + 1) - 1 = k
      OBVIOUS
    <3>2. walk[k + 1] = Down(walk[k], k + 1) /\ d[k + 1] = Down(d[k], k + 1)
      BY <3>1, <1>5, <1>6
    <3> QED BY <2>2, <3>2
  <2> HIDE DEF S
  <2> QED BY <2>1, <2>2, InSetByInduction
<1>8. walk[n] = d[n]
  BY <1>7
<1>9. d[n].branch = b
  BY <1>4 DEF d
<1>10. Branch(root, g) = walk[n].branch
  BY Zenon DEF Branch, walk, Walk, Down, Bit
<1> QED BY <1>8, <1>9, <1>10

-----------------------------------------------------------------------------
\* The prover that holds the whole state.

\* compute_subtree_root of a whole tree is its root ...
LEMMA SubtreeIsTree ==
  ASSUME NEW chunks, NEW depth, depth \in Nat, Len(chunks) \in Nat
  PROVE  SubtreeRoot(chunks, 0, depth) = Merkleize(chunks, depth)
<1>1. PICK l : IsLayers(l, chunks, depth) /\ Merkleize(chunks, depth) = l[depth][0]
  BY MerkleizeLayers
<1>2. depth <= depth /\ depth - depth = 0
  OBVIOUS
<1>3. 0 < Pow(0) /\ 0 \in Nat
  BY PowValues
<1>4. IsNode(l, chunks, depth, depth, 0)
  BY <1>1, <1>2, <1>3 DEF IsNode
<1>5. SubtreeRoot(chunks, 0 * 2^depth, depth) = l[depth][0]
  BY <1>4, SubtreeIsLayer
<1>6. 0 * 2^depth = 0
  <2>1. 2^depth \in Nat
    BY PowType DEF Pow
  <2> QED BY <2>1
<1> QED BY <1>1, <1>5, <1>6

\* ... so the field roots given to the sparse prover are those of the state.
LEMMA GivenRootsAreRoots ==
  ASSUME NEW w, w \in World
  PROVE  GivenFieldRoots(w) = FieldRoots(w)
<1>1. Len(ValidatorHashes(w)) \in Nat /\ Len(ConsolidationHashes(w)) \in Nat
  BY HashCount
<1>2. ComputeListRoot(ValidatorHashes(w), ValidatorListDepth)
        = ListRoot(ValidatorHashes(w), ValidatorListDepth)
  BY <1>1, SubtreeIsTree, DepthAssumption DEF ComputeListRoot, ListRoot
<1>3. ComputeListRoot(ConsolidationHashes(w), ConsolidationListDepth)
        = ListRoot(ConsolidationHashes(w), ConsolidationListDepth)
  BY <1>1, SubtreeIsTree, DepthAssumption DEF ComputeListRoot, ListRoot
<1> DEFINE F == FieldRoots(w)
<1>4. /\ F[VALIDATORS_FIELD_INDEX + 1] = ListRoot(ValidatorHashes(w), ValidatorListDepth)
      /\ F[PENDING_CONSOLIDATIONS_FIELD_INDEX + 1]
           = ListRoot(ConsolidationHashes(w), ConsolidationListDepth)
  BY DEF FieldRoots, VALIDATORS_FIELD_INDEX, PENDING_CONSOLIDATIONS_FIELD_INDEX,
         BEACON_STATE_FIELD_COUNT
<1>5. F = [j \in DOMAIN F |-> F[j]]
  BY SMT DEF FieldRoots
<1> DEFINE a == VALIDATORS_FIELD_INDEX + 1
           b == PENDING_CONSOLIDATIONS_FIELD_INDEX + 1
<1>6. GivenFieldRoots(w) = [F EXCEPT ![a] = F[a], ![b] = F[b]]
  BY <1>2, <1>3, <1>4 DEF GivenFieldRoots
<1> HIDE DEF F, a, b
<1>7. [F EXCEPT ![a] = F[a], ![b] = F[b]] = F
  BY <1>5
<1> QED BY <1>6, <1>7 DEF F

\* The path of an item below the state root is its generalized index there.
LEMMA StatePathGindex ==
  ASSUME NEW field, NEW depth, NEW i, NEW inner, NEW leaf,
         field \in Nat, field < 64, depth \in Nat, depth < Pow(WordSteps), i \in Nat, i < Pow(depth),
         inner \in Nat, inner <= 3, leaf \in Nat, leaf < Pow(inner), Pow(WordSteps) > 6,
         (inner + depth) + 11 <= U64Bits
  PROVE  ConcatGindices(<<64 + field, 2, Pow(depth) + i, Pow(inner) + leaf>>)
           = LeafGindex(1, inner, leaf, i, depth, field)
<1> DEFINE path == <<64 + field, 2, Pow(depth) + i, Pow(inner) + leaf>>
<1>1. PICK r : /\ r[0] = 1 /\ ConcatGindices(path) = r[Len(path)]
               /\ \A k \in Nat : k < Len(path) =>
                    r[k + 1] = U64ShiftOr(r[k], Log2(path[k + 1]), path[k + 1] - 2^Log2(path[k + 1]))
  <2>1. Len(path) \in Nat
    OBVIOUS
  <2> HIDE DEF path
  <2> QED BY <2>1, ConcatSteps
<1>2. /\ Len(path) = 4 /\ path[1] = 64 + field /\ path[2] = 2 + 0
      /\ path[3] = Pow(depth) + i /\ path[4] = Pow(inner) + leaf
  OBVIOUS
<1> HIDE DEF path
<1>3. /\ r[1] = U64ShiftOr(r[0], Log2(path[1]), path[1] - 2^Log2(path[1]))
      /\ r[2] = U64ShiftOr(r[1], Log2(path[2]), path[2] - 2^Log2(path[2]))
      /\ r[3] = U64ShiftOr(r[2], Log2(path[3]), path[3] - 2^Log2(path[3]))
      /\ r[4] = U64ShiftOr(r[3], Log2(path[4]), path[4] - 2^Log2(path[4]))
  <2>1. /\ 0 \in Nat /\ 0 + 1 = 1 /\ 0 < 4 /\ 1 \in Nat /\ 1 + 1 = 2 /\ 1 < 4
        /\ 2 \in Nat /\ 2 + 1 = 3 /\ 2 < 4 /\ 3 \in Nat /\ 3 + 1 = 4 /\ 3 < 4
    OBVIOUS
  <2> QED BY <1>1, <1>2, <2>1
<1> DEFINE six == 6
           one == 1
           zero == 0
<1>w. Pow(WordSteps) \in Nat
  BY PowType, DepthAssumption
<1>4. six = 6 /\ one = 1 /\ zero = 0 /\ Pow(six) = 64 /\ Pow(one) = 2
  BY PowValues
<1> HIDE DEF six, one, zero
<1>5. Log2(path[1]) = six /\ path[1] - 2^Log2(path[1]) = field
  <2>1. six \in Nat /\ field < Pow(six) /\ six < Pow(WordSteps) /\ path[1] = Pow(six) + field
    BY <1>2, <1>4, <1>w
  <2> QED BY <2>1, Log2OfSum
<1>6. Log2(path[2]) = one /\ path[2] - 2^Log2(path[2]) = zero
  <2>1. one \in Nat /\ zero \in Nat /\ zero < Pow(one) /\ one < Pow(WordSteps) /\ path[2] = Pow(one) + zero
    BY <1>2, <1>4, <1>w
  <2> QED BY <2>1, Log2OfSum
<1>7. Log2(path[3]) = depth /\ path[3] - 2^Log2(path[3]) = i
  BY <1>2, Log2OfSum
<1>8. Log2(path[4]) = inner /\ path[4] - 2^Log2(path[4]) = leaf
  <2>1. inner < Pow(WordSteps)
    BY <1>w
  <2> QED BY <1>2, <2>1, Log2OfSum
<1>u. /\ U64Bits \in Nat /\ 11 <= U64Bits /\ (depth + 7) + 1 <= U64Bits
      /\ (inner + (depth + 7)) + 1 <= U64Bits
  BY U64Assumption
<1>9. r[1] = 64 * 1 + field /\ IsTopBit(r[1], six)
  <2>1. one \in Nat /\ zero \in Nat /\ six \in Nat /\ field < Pow(six)
    BY <1>4
  <2>2. ShiftOr(one, six, field) = Pow(six) * one + field
    BY <2>1, ShiftOrSum
  <2>3. r[0] = one /\ r[1] = U64ShiftOr(one, six, field)
    BY <1>1, <1>3, <1>4, <1>5
  <2>4. IsTopBit(one, zero)
    BY <1>4, PowValues DEF IsTopBit
  <2>5. (six + zero) + 1 <= U64Bits /\ six + zero = six
    BY <1>4, <1>u
  <2>6. U64ShiftOr(one, six, field) = ShiftOr(one, six, field)
        /\ IsTopBit(ShiftOr(one, six, field), six + zero)
    BY <2>1, <2>4, <2>5, U64Step
  <2> QED BY <1>4, <2>2, <2>3, <2>5, <2>6
<1>10. r[2] = 2 * (64 * 1 + field) /\ IsTopBit(r[2], 7)
  <2>1. one \in Nat /\ zero \in Nat /\ zero < Pow(one) /\ r[1] \in Nat /\ (one + six) + 1 <= U64Bits
    BY <1>4, <1>9, <1>u
  <2>2. ShiftOr(r[1], one, zero) = Pow(one) * r[1] + zero
    BY <2>1, ShiftOrSum
  <2>3. U64ShiftOr(r[1], one, zero) = ShiftOr(r[1], one, zero)
        /\ IsTopBit(ShiftOr(r[1], one, zero), one + six)
    BY <1>9, <2>1, U64Step
  <2>4. r[2] = U64ShiftOr(r[1], one, zero) /\ one + six = 7
    BY <1>3, <1>4, <1>6
  <2>5. Pow(one) * r[1] + zero = 2 * r[1]
    BY <1>4, <2>1
  <2>6. IsTopBit(r[2], 7)
    BY <2>3, <2>4
  <2>7. r[2] = 2 * r[1]
    BY <2>2, <2>3, <2>4, <2>5
  <2> QED BY <1>9, <2>6, <2>7
<1>11. r[4] = ShiftOr(ShiftOr(r[2], depth, i), inner, leaf)
  <2> DEFINE seven == 7
             m == depth + seven
  <2>1. IsTopBit(r[2], seven) /\ m + 1 <= U64Bits /\ (inner + m) + 1 <= U64Bits
    BY <1>u, <1>10
  <2>2. r[3] = U64ShiftOr(r[2], depth, i) /\ r[4] = U64ShiftOr(r[3], inner, leaf)
    BY <1>3, <1>7, <1>8
  <2> HIDE DEF seven
  <2>3. U64ShiftOr(r[2], depth, i) = ShiftOr(r[2], depth, i) /\ IsTopBit(ShiftOr(r[2], depth, i), m)
    BY <2>1, U64Step
  <2> HIDE DEF m
  <2>4. r[3] = ShiftOr(r[2], depth, i) /\ IsTopBit(r[3], m)
    BY <2>2, <2>3
  <2>5. U64ShiftOr(r[3], inner, leaf) = ShiftOr(r[3], inner, leaf)
    BY <2>1, <2>4, U64Step
  <2> QED BY <2>2, <2>4, <2>5
<1> QED BY <1>1, <1>2, <1>10, <1>11 DEF path, LeafGindex

\* ssz_rs' branch at an item of a state is the one the sparse prover computes.
LEMMA ProveFindsItem ==
  ASSUME NEW w, NEW leaf, NEW n, NEW chunks, NEW k, NEW list, NEW index, NEW depth, NEW field,
         ItemOf(w, leaf, n, chunks, k, list, index, depth, field), n <= 3,
         (n + depth) + 7 < Pow(WordSteps), (n + depth) + 11 <= U64Bits
  PROVE  Prove(Merkleize(FieldRoots(w), STATE_DEPTH), StatePath(field, depth, index, Pow(n) + k))
           = ItemStateProof(w, n, chunks, k, list, index, depth, field)
<1> DEFINE root == Merkleize(FieldRoots(w), STATE_DEPTH)
           g == LeafGindex(1, n, k, index, depth, field)
           b == ItemStateProof(w, n, chunks, k, list, index, depth, field)
           m == ((n + depth) + 1) + STATE_DEPTH
<1>1. /\ n \in Nat /\ k \in Nat /\ index \in Nat /\ depth \in Nat /\ field \in Nat
      /\ k < Pow(n) /\ index < Pow(depth) /\ field < 64
  BY DEF ItemOf
<1>2. Pow(WordSteps) \in Nat /\ depth < Pow(WordSteps) /\ Pow(WordSteps) > 6
  BY <1>1, WordIsWide
<1>3. ConcatGindices(StatePath(field, depth, index, Pow(n) + k)) = g
  <2>1. ConcatGindices(<<64 + field, 2, Pow(depth) + index, Pow(n) + k>>)
          = LeafGindex(1, n, k, index, depth, field)
    BY <1>1, <1>2, StatePathGindex
  <2> QED BY <2>1 DEF StatePath, Pow
<1>4. IsTopBit(2 * (64 * 1 + field), 7)
  <2>1. Pow(7) = 128 /\ Pow(8) = 256
    <3>1. Pow(6) = 64 /\ 6 + 1 = 7 /\ 7 + 1 = 8 /\ 6 \in Nat /\ 7 \in Nat
      BY PowValues
    <3> QED BY <3>1, PowStep
  <2> QED BY <1>1, <2>1 DEF IsTopBit
<1>5. LeadsToItem(g, 1, 7, n, k, index, depth, field)
  <2>1. 1 \in Nat
    OBVIOUS
  <2> HIDE DEF g
  <2> QED BY <2>1, <1>4, ItemGindex DEF g
<1>6. m \in Nat /\ m = n + (depth + 7) /\ m < Pow(WordSteps)
  BY <1>1 DEF STATE_DEPTH
<1> HIDE DEF g, b, root
<1>7. g \in Nat /\ Log2(g) = m
  <2>1. g \in Nat /\ IsTopBit(g, n + (depth + 7))
    BY <1>5 DEF LeadsToItem
  <2> HIDE DEF m
  <2> QED BY <1>6, <2>1, TopBitLog2
<1>8. IsSeqOf(b, m)
  <2>1. StateLayout(b, w, ProveAgainstLeafChunks(chunks, k, n), n, list, index, depth, field)
    BY ItemProofsLayout, Zenon DEF b
  <2> QED BY <2>1, Zenon DEF StateLayout
<1> HIDE DEF m
<1>9. Len(b) \in Nat
  BY <1>6, <1>8, SeqOfType
<1>10. PICK c : IsFold(c, leaf, b, g)
  BY <1>9, FoldExists
<1>11. c[m] = root
  <2>1. c[((n + depth) + 1) + STATE_DEPTH] = Merkleize(FieldRoots(w), STATE_DEPTH)
    BY <1>5, <1>10, ItemStateProofFolds DEF b
  <2> QED BY <2>1 DEF m, root
<1>12. Branch(root, g) = b
  BY <1>6, <1>7, <1>8, <1>10, <1>11, WalkFindsBranch
<1> QED BY <1>3, <1>12, Zenon DEF Prove, root, b

\* And so is its branch from the state root to the block root.
LEMMA HeaderBranchIsProof ==
  ASSUME NEW w, w \in World
  PROVE  HeaderBranch(w) = HeaderProof(w)
<1> DEFINE three == 3
           eleven == 11
           chunks == HeaderChunks(w)
           b == HeaderProof(w)
           root == Merkleize(chunks, three)
           leaf == GetLeaf(chunks, three)
<1>1. three \in Nat /\ three = 3 /\ three = HEADER_DEPTH /\ three = STATE_ROOT_FIELD_INDEX /\ Pow(three) = 8
  BY PowValues DEF HEADER_DEPTH, STATE_ROOT_FIELD_INDEX
<1>2. /\ eleven = 11 /\ eleven \in Nat /\ eleven = Pow(three) + three /\ three < Pow(three)
      /\ eleven = STATE_ROOT_GINDEX_IN_HEADER
  BY <1>1 DEF STATE_ROOT_GINDEX_IN_HEADER
<1>3. three < Pow(WordSteps)
  BY WordIsWide
<1> HIDE DEF three, eleven, chunks, b, root, leaf
<1>4. Log2(eleven) = three /\ eleven - 2^Log2(eleven) = three
  BY <1>1, <1>2, <1>3, Log2OfSum
<1>5. ConcatGindices(<<8 + STATE_ROOT_FIELD_INDEX>>) = eleven
  <2> DEFINE path == <<8 + STATE_ROOT_FIELD_INDEX>>
  <2>1. Len(path) = 1 /\ path[1] = eleven
    BY <1>2 DEF STATE_ROOT_FIELD_INDEX
  <2> HIDE DEF path
  <2>2. PICK r : /\ r[0] = 1 /\ ConcatGindices(path) = r[Len(path)]
                 /\ \A k \in Nat : k < Len(path) =>
                      r[k + 1] = U64ShiftOr(r[k], Log2(path[k + 1]), path[k + 1] - 2^Log2(path[k + 1]))
    <3>1. Len(path) \in Nat
      BY <2>1
    <3> QED BY <3>1, ConcatSteps
  <2>3. r[1] = U64ShiftOr(r[0], Log2(path[1]), path[1] - 2^Log2(path[1]))
    <3>1. 0 \in Nat /\ 0 < 1 /\ 0 + 1 = 1
      OBVIOUS
    <3> QED BY <2>1, <2>2, <3>1
  <2> DEFINE one == 1
  <2>4. one = 1 /\ one \in Nat
    OBVIOUS
  <2> HIDE DEF one
  <2>5. ShiftOr(one, three, three) = Pow(three) * one + three
    BY <1>1, <1>2, <2>4, ShiftOrSum
  <2> DEFINE zero == 0
  <2>z. zero \in Nat /\ IsTopBit(one, zero) /\ (three + zero) + 1 <= U64Bits
    BY <1>1, <2>4, PowValues, WordIsWide DEF IsTopBit
  <2> HIDE DEF zero
  <2>o. U64ShiftOr(one, three, three) = ShiftOr(one, three, three)
    <3>1. three \in Nat /\ three < Pow(three)
      BY <1>1, <1>2
    <3> QED BY <2>z, <3>1, U64Step
  <2>6. r[1] = ShiftOr(one, three, three)
    BY <1>4, <2>1, <2>2, <2>3, <2>4, <2>o
  <2>7. r[1] = eleven
    BY <1>1, <1>2, <2>4, <2>5, <2>6
  <2> QED BY <2>1, <2>2, <2>7 DEF path
<1>6. IsSeqOf(b, three)
  BY <1>1, BranchOfTree DEF b, HeaderProof
<1>7. Len(b) \in Nat /\ Len(b) = three
  BY <1>1, <1>6, SeqOfType
<1>8. PICK c : IsFold(c, leaf, b, eleven)
  BY <1>7, FoldExists
<1>9. Place(eleven, 0, three) = three
  <2>1. 0 \in Nat /\ Shr(eleven, 0) = STATE_ROOT_GINDEX_IN_HEADER
    BY <1>2, ShrZero
  <2> QED BY <1>1, <1>2, <2>1, HeaderPlace
<1>10. Climbs(leaf, b, eleven, c, 0, three, chunks, three)
  <2>1. Len(chunks) \in Nat
    BY HeaderCount DEF chunks
  <2>2. c[0] = leaf
    BY <1>7, <1>8, FoldStart
  <2>3. \A j \in 1..three : b[0 + j] = ProveAgainstLeafChunks(chunks, three, three)[j]
    <3>1. b = ProveAgainstLeafChunks(chunks, three, three)
      BY <1>1 DEF b, HeaderProof, chunks
    <3> QED BY <1>1, <3>1
  <2>4. 0 \in Nat /\ 0 + three <= Len(b)
    BY <1>1, <1>7
  <2> QED BY <1>1, <1>2, <1>7, <1>8, <1>9, <2>1, <2>2, <2>3, <2>4 DEF Climbs, leaf
<1>11. c[three] = root
  <2>1. c[0 + three] = Merkleize(chunks, three)
    BY <1>10, ClimbReachesRoot
  <2> QED BY <1>1, <2>1 DEF root
<1>12. Branch(root, eleven) = b
  BY <1>1, <1>2, <1>4, <1>6, <1>8, <1>11, WalkFindsBranch
<1> QED BY <1>1, <1>5, <1>12 DEF HeaderBranch, Prove, root, chunks, b

\* generate_proofs_from_state proves the items generate_full_proof_bundle proves.
LEMMA ConsolidationProvedAlike ==
  ASSUME NEW w, NEW i, w \in World, i \in Nat, i < Len(w.pending)
  PROVE  Prove(Merkleize(FieldRoots(w), STATE_DEPTH),
               StatePath(PENDING_CONSOLIDATIONS_FIELD_INDEX, ConsolidationListDepth, i,
                         2 + SOURCE_INDEX_FIELD_INDEX))
           = ConsolidationProof(w, i)
<1> DEFINE leaf == LittleEndian(w.pending[i + 1].source_index)
           C == ConsolidationListDepth
           n == CONSOLIDATION_DEPTH
           k == SOURCE_INDEX_FIELD_INDEX
           chunks == ConsolidationChunks(w.pending[i + 1])
           list == ConsolidationHashes(w)
           field == PENDING_CONSOLIDATIONS_FIELD_INDEX
<1>1. ItemOf(w, leaf, n, chunks, k, list, i, C, field)
  BY ConsolidationIsItem
<1>2. n <= 3 /\ (n + C) + 7 < Pow(WordSteps) /\ Pow(n) = 2 /\ (n + C) + 11 <= U64Bits
  BY WordIsWide, PowValues DEF CONSOLIDATION_DEPTH
<1>3. ConsolidationProof(w, i) = ItemStateProof(w, n, chunks, k, list, i, C, field)
  BY Zenon DEF ConsolidationProof, ItemStateProof
<1> HIDE DEF leaf, C, n, k, chunks, list, field
<1>4. Prove(Merkleize(FieldRoots(w), STATE_DEPTH), StatePath(field, C, i, Pow(n) + k))
        = ItemStateProof(w, n, chunks, k, list, i, C, field)
  BY <1>1, <1>2, ProveFindsItem
<1> QED BY <1>2, <1>3, <1>4 DEF field, C, k

\* The same for a chunk of a validator.
LEMMA ValidatorProvedAlike ==
  ASSUME NEW w, NEW i, NEW f, w \in World, i \in Nat, i < Len(w.validators), f \in Nat, f < 8
  PROVE  Prove(Merkleize(FieldRoots(w), STATE_DEPTH),
               StatePath(VALIDATORS_FIELD_INDEX, ValidatorListDepth, i, 8 + f))
           = ValidatorProof(w, i, f)
<1> DEFINE leaf == ValidatorChunks(w.validators[i + 1])[f + 1]
           L == ValidatorListDepth
           n == VALIDATOR_DEPTH
           chunks == ValidatorChunks(w.validators[i + 1])
           list == ValidatorHashes(w)
           field == VALIDATORS_FIELD_INDEX
<1>1. ItemOf(w, leaf, n, chunks, f, list, i, L, field)
  BY ValidatorIsItem
<1>2. n <= 3 /\ (n + L) + 7 < Pow(WordSteps) /\ Pow(n) = 8 /\ (n + L) + 11 <= U64Bits
  BY WordIsWide, PowValues DEF VALIDATOR_DEPTH
<1>3. ValidatorProof(w, i, f) = ItemStateProof(w, n, chunks, f, list, i, L, field)
  BY Zenon DEF ValidatorProof, ItemStateProof
<1> HIDE DEF leaf, L, n, chunks, list, field
<1>4. Prove(Merkleize(FieldRoots(w), STATE_DEPTH), StatePath(field, L, i, Pow(n) + f))
        = ItemStateProof(w, n, chunks, f, list, i, L, field)
  BY <1>1, <1>2, ProveFindsItem
<1> QED BY <1>2, <1>3, <1>4 DEF field, L

\* For a source of the registry the two bundles are the same.
LEMMA BundlesAreAlike ==
  ASSUME NEW w, NEW i, w \in World, i \in Nat, i < Len(w.pending), Refusal(w, i) = "none",
         w.pending[i + 1].source_index < Len(w.validators)
  PROVE  InMemoryBundle(w, i) = Bundle(w, i)
<1> DEFINE s == w.pending[i + 1].source_index
           v == w.validators[s + 1]
           a == ConsolidationProof(w, i)
           b == ValidatorProof(w, s, WITHDRAWAL_CREDENTIALS_FIELD_INDEX)
           d == ValidatorProof(w, s, ACTIVATION_EPOCH_FIELD_INDEX)
           h == HeaderProof(w)
           state == Merkleize(FieldRoots(w), STATE_DEPTH)
           p == GenerateProofsFromState(w, i)
<1>1. s \in Nat
  BY WorldTypes
<1>2. Prove(state, StatePath(PENDING_CONSOLIDATIONS_FIELD_INDEX, ConsolidationListDepth, i,
                             2 + SOURCE_INDEX_FIELD_INDEX)) = a
  BY ConsolidationProvedAlike
<1>3. /\ WITHDRAWAL_CREDENTIALS_FIELD_INDEX \in Nat /\ WITHDRAWAL_CREDENTIALS_FIELD_INDEX < 8
      /\ ACTIVATION_EPOCH_FIELD_INDEX \in Nat /\ ACTIVATION_EPOCH_FIELD_INDEX < 8
  BY DEF WITHDRAWAL_CREDENTIALS_FIELD_INDEX, ACTIVATION_EPOCH_FIELD_INDEX
<1>4. Prove(state, StatePath(VALIDATORS_FIELD_INDEX, ValidatorListDepth, s,
                             8 + WITHDRAWAL_CREDENTIALS_FIELD_INDEX)) = b
  BY <1>1, <1>3, ValidatorProvedAlike
<1>5. Prove(state, StatePath(VALIDATORS_FIELD_INDEX, ValidatorListDepth, s,
                             8 + ACTIVATION_EPOCH_FIELD_INDEX)) = d
  BY <1>1, <1>3, ValidatorProvedAlike
<1>6. p = [consolidationIndex |-> i, sourceIndex |-> s, activationEpoch |-> v.activation_epoch,
           sourceCredentials |-> v.withdrawal_credentials, proofConsolidation |-> a,
           proofCredentials |-> b, proofActivationEpoch |-> d]
  BY <1>2, <1>4, <1>5, Zenon DEF GenerateProofsFromState
<1>7. HeaderBranch(w) = h
  BY HeaderBranchIsProof
<1>8. Bundle(w, i)
        = [consolidationIndex |-> i, sourceIndex |-> s, activationEpoch |-> v.activation_epoch,
           sourceCredentials |-> v.withdrawal_credentials, proofConsolidation |-> a \o h,
           proofCredentials |-> b \o h, proofActivationEpoch |-> d \o h]
  BY Zenon DEF Bundle, HeaderProof
<1>9. InMemoryBundle(w, i)
        = [p EXCEPT !.proofConsolidation = @ \o h, !.proofCredentials = @ \o h,
                    !.proofActivationEpoch = @ \o h]
  BY <1>7 DEF InMemoryBundle
<1> DEFINE e == v.activation_epoch
           x == v.withdrawal_credentials
<1> HIDE DEF p, a, b, d, h, s, v, e, x
<1> QED BY <1>6, <1>8, <1>9 DEF e, x

\* The announced lengths are those of the depths.
LEMMA AnnouncedLengths ==
  ConsolidationProofLength = CONSOLIDATION_PROOF_LENGTH /\ ValidatorProofLength = VALIDATOR_PROOF_LENGTH
<1> DEFINE zero == 0
           f == WITHDRAWAL_CREDENTIALS_FIELD_INDEX
<1>1. /\ zero \in Nat /\ zero = 0 /\ zero < Pow(ConsolidationListDepth) /\ zero < Pow(ValidatorListDepth)
      /\ f \in Nat /\ f < 8
  BY PowType, WordIsWide DEF WITHDRAWAL_CREDENTIALS_FIELD_INDEX
<1> HIDE DEF zero, f
<1>2. Log2(ServiceConsolidationGindex(zero)) = ConsolidationListDepth + 11
  <2>1. ConsolidationSourceGindex(zero) = ServiceConsolidationGindex(zero)
    BY <1>1, ConsolidationGindexes
  <2>2. Log2(ConsolidationSourceGindex(zero)) = ConsolidationListDepth + 11
    BY <1>1, ExactGindexes
  <2> QED BY <2>1, <2>2
<1>3. Log2(ServiceValidatorGindex(zero, f)) = ValidatorListDepth + 13
  <2>1. ValidatorGindex(zero, f) = ServiceValidatorGindex(zero, f)
    BY <1>1, ValidatorGindexes
  <2>2. Log2(ValidatorGindex(zero, f)) = ValidatorListDepth + 13
    BY <1>1, ExactGindexes
  <2> QED BY <2>1, <2>2
<1>4. /\ CONSOLIDATION_PROOF_LENGTH = ConsolidationListDepth + 11
      /\ VALIDATOR_PROOF_LENGTH = ValidatorListDepth + 13
  BY WordIsWide DEF CONSOLIDATION_PROOF_LENGTH, VALIDATOR_PROOF_LENGTH, HEADER_DEPTH, STATE_DEPTH,
                    CONSOLIDATION_DEPTH, VALIDATOR_DEPTH
<1> QED BY <1>1, <1>2, <1>3, <1>4 DEF ConsolidationProofLength, ValidatorProofLength, f

\* What Refusal lets through.
LEMMA NotRefused ==
  ASSUME NEW w, NEW i, w \in World, i \in Nat, Refusal(w, i) = "none"
  PROVE  i < Len(w.pending) /\ w.pending[i + 1].source_index < Len(w.validators)
<1>1. Len(w.pending) \in Nat /\ Len(w.validators) \in Nat
  BY WorldTypes
<1>2. ASSUME i < Len(w.pending) PROVE w.pending[i + 1].source_index \in Nat
  BY <1>1, <1>2, WorldTypes
<1> QED BY <1>1, <1>2 DEF Refusal

\* The two provers answer alike for every index of a state.
LEMMA ProversAnswerAlike ==
  ASSUME NEW w, NEW i, w \in World, i \in Nat
  PROVE  /\ InMemoryBundle(w, i) = GenerateFullProofBundle(w, i)
         /\ Refusal(w, i) = "none" =>
              /\ Len(GenerateFullProofBundle(w, i).proofConsolidation) = ConsolidationProofLength
              /\ Len(GenerateFullProofBundle(w, i).proofCredentials) = ValidatorProofLength
              /\ Len(GenerateFullProofBundle(w, i).proofActivationEpoch) = ValidatorProofLength
<1>1. CASE Refusal(w, i) # "none"
  BY <1>1 DEF InMemoryBundle, GenerateFullProofBundle
<1>2. CASE Refusal(w, i) = "none"
  <2>1. i < Len(w.pending) /\ w.pending[i + 1].source_index < Len(w.validators)
    BY <1>2, NotRefused
  <2>2. GenerateFullProofBundle(w, i) = Bundle(w, i)
    BY <1>2 DEF GenerateFullProofBundle
  <2>3. InMemoryBundle(w, i) = Bundle(w, i)
    BY <1>2, <2>1, BundlesAreAlike
  <2>4. ProofsPass(BlockRoot[w], Bundle(w, i))
    BY <2>1, BundlePasses
  <2>5. /\ Len(Bundle(w, i).proofConsolidation) = CONSOLIDATION_PROOF_LENGTH
        /\ Len(Bundle(w, i).proofCredentials) = VALIDATOR_PROOF_LENGTH
        /\ Len(Bundle(w, i).proofActivationEpoch) = VALIDATOR_PROOF_LENGTH
    BY <2>4, Zenon DEF ProofsPass
  <2> QED BY <2>2, <2>3, <2>5, AnnouncedLengths
<1> QED BY <1>1, <1>2

\* So ProversAgree holds of every state of World.
LEMMA ProversAgreeOnStates == world \in World => ProversAgree
<1> SUFFICES ASSUME world \in World PROVE ProversAgree
  OBVIOUS
<1>1. GivenFieldRoots(world) = FieldRoots(world)
  BY GivenRootsAreRoots
<1>2. SubtreeRoot(FieldRoots(world), 0, STATE_DEPTH) = Merkleize(FieldRoots(world), STATE_DEPTH)
  <2>1. STATE_DEPTH \in Nat /\ Len(FieldRoots(world)) \in Nat
    BY FieldCount DEF STATE_DEPTH
  <2> QED BY <2>1, SubtreeIsTree
<1>3. ASSUME NEW i \in 0..Len(world.pending)
      PROVE  /\ InMemoryBundle(world, i) = GenerateFullProofBundle(world, i)
             /\ Refusal(world, i) = "none" =>
                 /\ Len(GenerateFullProofBundle(world, i).proofConsolidation) = ConsolidationProofLength
                 /\ Len(GenerateFullProofBundle(world, i).proofCredentials) = ValidatorProofLength
                 /\ Len(GenerateFullProofBundle(world, i).proofActivationEpoch) = ValidatorProofLength
  <2>1. i \in Nat
    BY WorldTypes
  <2> QED BY <2>1, ProversAnswerAlike
<1> QED BY <1>1, <1>2, <1>3, Zenon DEF ProversAgree, ComputeStateRoot

\* The state behind the root never changes.
LEMMA WorldStays == VSpec => [](world \in World)
<1>1. VInit => world \in World
  BY DEF VInit, Init
<1>2. world \in World /\ [VNext]_vectorVars => (world \in World)'
  <2>1. ASSUME NEW root, NEW v, Try(root, v) PROVE world' = world
    BY <2>1, Zenon DEF Try, Judge
  <2>2. ASSUME Next PROVE world' = world
    <3>1. \A c, own : Judge(c, own) => world' = world
      BY Zenon DEF Judge
    <3>2. \A i : ProverClaim(i) => world' = world
      BY <3>1, Zenon DEF ProverClaim
    <3>3. \A c, s, v : CallerClaim(c, s, v) => world' = world
      BY <3>1, Zenon DEF CallerClaim
    <3> QED BY <2>2, <3>2, <3>3, Zenon DEF Next
  <2>3. ASSUME NEW plan, CarryOut(plan) PROVE world' = world
    BY <2>1, <2>3, Zenon DEF CarryOut
  <2>4. ASSUME VNext PROVE world' = world
    BY <2>2, <2>1, <2>3, <2>4 DEF VNext
  <2> QED BY <2>4 DEF vectorVars, vars
<1> QED BY <1>1, <1>2, PTL DEF VSpec

\* The sparse prover of state_prover.rs and the in-memory prover of proof.rs give the
\* same bundle or the same error for every index of every state, under one root.
THEOREM ProversAlwaysAgree == VSpec => []ProversAgree
<1>1. world \in World => ProversAgree
  BY ProversAgreeOnStates
<1> QED BY <1>1, WorldStays, ProversAgreeOnStates, PTL

-----------------------------------------------------------------------------
\* Proofs that do not verify.

\* Two proofs of one length that verify_proof accepts for one place are the same
\* and prove the same leaf.
LEMMA ProofsOfOnePlace ==
  ASSUME NEW root, NEW x, NEW p, NEW y, NEW q, NEW g, g \in Nat, g > 1,
         Len(p) \in Nat, Len(q) = Len(p), VerifyProof(root, x, p, g), VerifyProof(root, y, q, g)
  PROVE  x = y /\ \A k \in 1..Len(p) : p[k] = q[k]
<1>1. PICK c : IsFold(c, x, p, g)
  BY FoldExists
<1>2. PICK d : IsFold(d, y, q, g)
  <2>1. Len(q) \in Nat
    OBVIOUS
  <2> QED BY <2>1, FoldExists
<1>3. c[Len(p)] = root
  BY <1>1, VerifyProofFolds
<1>4. d[Len(q)] = root
  <2>1. Len(q) \in Nat
    OBVIOUS
  <2> QED BY <1>2, <2>1, VerifyProofFolds
<1>5. c[Len(p)] = d[Len(p)]
  BY <1>3, <1>4
<1> QED BY <1>1, <1>2, <1>5, FoldIsInjective

\* A proof that tamper_proof can change: its first sibling starts with a byte.
CanTamper(p, n) ==
  IsSeqOf(p, n) /\ n > 0 /\ \E x \in Nat : \E a, b, d : p[1] = <<x, a, b, d>>

\* tamper_proof keeps the length and changes the first sibling.
LEMMA TamperedProof ==
  ASSUME NEW p, NEW n, CanTamper(p, n)
  PROVE  Len(TamperProof(p)) = n /\ n \in Nat /\ Len(p) = n /\ 1 \in 1..n /\ TamperProof(p)[1] # p[1]
<1>1. PICK x \in Nat : \E a, b, d : p[1] = <<x, a, b, d>>
  BY DEF CanTamper
<1>2. PICK a, b, d : p[1] = <<x, a, b, d>>
  BY <1>1
<1>3. IsSeqOf(p, n) /\ n > 0
  BY DEF CanTamper
<1>4. n \in Nat /\ Len(p) = n /\ DOMAIN p = 1..n /\ p = [k \in 1..n |-> p[k]]
  BY <1>3, SeqOfType
<1>5. TamperProof(p) = [p EXCEPT ![1][1] = Sibling(@)]
  <2>1. p # <<>>
    BY <1>3, <1>4
  <2> QED BY <2>1 DEF TamperProof
<1> DEFINE t == TamperProof(p)
           y == Sibling(x)
<1>6. y # x
  BY DEF Sibling
<1>7. t = [k \in 1..n |-> IF k = 1 THEN [p[1] EXCEPT ![1] = Sibling(@)] ELSE p[k]]
  BY <1>4, <1>5
<1>8. 1 \in 1..n
  BY <1>3, <1>4
<1> HIDE DEF t, y
<1>9. t[1] = [p[1] EXCEPT ![1] = Sibling(@)]
  BY <1>7, <1>8
<1>10. t[1][1] = y /\ p[1][1] = x
  BY <1>2, <1>9 DEF y
<1>11. Len(t) = n
  BY <1>4, <1>7
<1> QED BY <1>4, <1>6, <1>8, <1>10, <1>11 DEF t

\* A tampered proof does not verify.
LEMMA TamperedProofFails ==
  ASSUME NEW root, NEW x, NEW p, NEW n, NEW g, g \in Nat, g > 1, CanTamper(p, n),
         VerifyProof(root, x, p, g)
  PROVE  ~ VerifyProof(root, x, TamperProof(p), g)
<1> DEFINE t == TamperProof(p)
<1>1. Len(t) = n /\ n \in Nat /\ Len(p) = n /\ 1 \in 1..n /\ t[1] # p[1]
  BY TamperedProof
<1> HIDE DEF t
<1>2. SUFFICES ASSUME VerifyProof(root, x, t, g) PROVE FALSE
  BY DEF t
<1>3. \A k \in 1..Len(p) : p[k] = t[k]
  <2>1. Len(p) \in Nat /\ Len(t) = Len(p)
    BY <1>1
  <2> QED BY <1>2, <2>1, ProofsOfOnePlace
<1> QED BY <1>1, <1>3

\* The first sibling of a proof from the container of its leaf.
LEMMA FirstSibling ==
  ASSUME NEW w, NEW leaf, NEW n, NEW chunks, NEW k, NEW list, NEW index, NEW depth, NEW field,
         ItemOf(w, leaf, n, chunks, k, list, index, depth, field), n > 0
  PROVE  ItemBlockProof(w, n, chunks, k, list, index, depth, field)[1] = GetLeaf(chunks, Sibling(k))
<1> DEFINE b == ItemBlockProof(w, n, chunks, k, list, index, depth, field)
           inner == ProveAgainstLeafChunks(chunks, k, n)
<1>1. n \in Nat /\ k \in Nat /\ 1 \in 1..n
  BY DEF ItemOf
<1>2. StateLayers(b, w, inner, n, list, index, depth, field)
  <2>1. FullLayout(b, w, inner, n, list, index, depth, field)
    BY ItemProofsLayout, Zenon
  <2> QED BY <2>1, Zenon DEF FullLayout
<1>3. b[1] = inner[1]
  BY <1>1, <1>2 DEF StateLayers
<1>4. inner[1] = SubtreeRoot(chunks, Sibling(k \div 2^0) * 2^0, 0)
  BY <1>1 DEF ProveAgainstLeafChunks
<1>5. Sibling(k \div 2^0) * 2^0 = Sibling(k) /\ Sibling(k) \in Nat
  <2>1. 2^0 = 1 /\ Sibling(k) \in Nat
    BY <1>1, PowValues DEF Pow, Sibling
  <2>2. k \div 1 = k
    BY <1>1
  <2> QED BY <2>1, <2>2
<1>6. SubtreeRoot(chunks, Sibling(k), 0) = GetLeaf(chunks, Sibling(k))
  <2> DEFINE s == Sibling(k)
             r == Roots(chunks, 0)
  <2>1. IsRoots(r, chunks, 0) /\ SubtreeRoot(chunks, s, 0) = r[0][s]
    BY SubtreeRoots
  <2>2. s \in Nat
    BY <1>5
  <2> HIDE DEF s, r
  <2>3. r[0][s] = GetLeaf(chunks, s)
    BY <2>1, <2>2 DEF IsRoots
  <2> QED BY <2>1, <2>3 DEF s
<1> QED BY <1>3, <1>4, <1>5, <1>6

\* tamper_proof can change the proofs of a bundle: beside a source index stands the
\* target index ...
LEMMA ConsolidationProofTampers ==
  ASSUME NEW w, NEW i, w \in World, i \in Nat, i < Len(w.pending)
  PROVE  CanTamper(BundleConsolidationProof(w, i), CONSOLIDATION_PROOF_LENGTH)
<1> DEFINE b == BundleConsolidationProof(w, i)
           p == w.pending[i + 1]
           leaf == LittleEndian(p.source_index)
           C == ConsolidationListDepth
           n == CONSOLIDATION_DEPTH
           k == SOURCE_INDEX_FIELD_INDEX
           chunks == ConsolidationChunks(p)
           list == ConsolidationHashes(w)
           field == PENDING_CONSOLIDATIONS_FIELD_INDEX
           N == (((n + C) + 1) + STATE_DEPTH) + HEADER_DEPTH
<1>1. ItemOf(w, leaf, n, chunks, k, list, i, C, field)
  BY ConsolidationIsItem
<1>2. b = ItemBlockProof(w, n, chunks, k, list, i, C, field)
  BY Zenon DEF BundleConsolidationProof, ConsolidationProof, ItemBlockProof, ItemStateProof
<1>3. n > 0 /\ N = CONSOLIDATION_PROOF_LENGTH /\ N > 0 /\ k = 0
  BY WordIsWide DEF CONSOLIDATION_PROOF_LENGTH, CONSOLIDATION_DEPTH, STATE_DEPTH, HEADER_DEPTH,
                    SOURCE_INDEX_FIELD_INDEX
<1>4. p.target_index \in Nat
  <2>1. i + 1 \in DOMAIN w.pending
    BY WorldTypes
  <2>2. p \in PendingConsolidation
    BY <2>1, WorldAssumption
  <2> QED BY <2>2 DEF PendingConsolidation
<1>5. GetLeaf(chunks, Sibling(0)) = <<p.target_index % 256, p.target_index \div 256, 0, 0>>
  <2>1. Sibling(0) = 1 /\ Len(chunks) = 2 /\ chunks[2] = LittleEndian(p.target_index)
    BY DEF Sibling, ConsolidationChunks
  <2> HIDE DEF chunks, p
  <2> QED BY <2>1 DEF GetLeaf, LittleEndian
<1>6. p.target_index % 256 \in Nat
  BY <1>4
<1> HIDE DEF b, p, leaf, C, n, k, chunks, list, field, N
<1>7. b[1] = GetLeaf(chunks, Sibling(k))
  BY <1>1, <1>2, <1>3, FirstSibling
<1>8. IsSeqOf(b, N)
  <2>1. FullLayout(b, w, ProveAgainstLeafChunks(chunks, k, n), n, list, i, C, field)
    BY <1>1, <1>2, ItemProofsLayout
  <2> QED BY <2>1, Zenon DEF FullLayout, N
<1> QED BY <1>3, <1>5, <1>6, <1>7, <1>8 DEF CanTamper, b

\* ... and beside a chunk of a validator another of its fields.
LEMMA ValidatorProofTampers ==
  ASSUME NEW w, NEW i, NEW f, w \in World, i \in Nat, i < Len(w.validators),
         f \in {WITHDRAWAL_CREDENTIALS_FIELD_INDEX, ACTIVATION_EPOCH_FIELD_INDEX}
  PROVE  CanTamper(BundleValidatorProof(w, i, f), VALIDATOR_PROOF_LENGTH)
<1> DEFINE b == BundleValidatorProof(w, i, f)
           v == w.validators[i + 1]
           L == ValidatorListDepth
           n == VALIDATOR_DEPTH
           chunks == ValidatorChunks(v)
           leaf == chunks[f + 1]
           list == ValidatorHashes(w)
           field == VALIDATORS_FIELD_INDEX
           N == (((n + L) + 1) + STATE_DEPTH) + HEADER_DEPTH
<1>1. f \in Nat /\ f < 8 /\ f \in {1, 5}
  BY DEF WITHDRAWAL_CREDENTIALS_FIELD_INDEX, ACTIVATION_EPOCH_FIELD_INDEX
<1>2. ItemOf(w, leaf, n, chunks, f, list, i, L, field)
  BY <1>1, ValidatorIsItem
<1>3. b = ItemBlockProof(w, n, chunks, f, list, i, L, field)
  BY Zenon DEF BundleValidatorProof, ValidatorProof, ItemBlockProof, ItemStateProof
<1>4. n > 0 /\ N = VALIDATOR_PROOF_LENGTH /\ N > 0
  BY WordIsWide DEF VALIDATOR_PROOF_LENGTH, VALIDATOR_DEPTH, STATE_DEPTH, HEADER_DEPTH
<1>5. GetLeaf(chunks, Sibling(f)) = Opaque(Sibling(f) + 1)
  <2>1. Sibling(1) = 0 /\ Sibling(5) = 4
    BY DEF Sibling
  <2>2. Len(chunks) = 8 /\ chunks[1] = Opaque(1) /\ chunks[5] = Opaque(5)
    BY DEF ValidatorChunks, WITHDRAWAL_CREDENTIALS_FIELD_INDEX, ACTIVATION_EPOCH_FIELD_INDEX
  <2> HIDE DEF chunks
  <2> QED BY <1>1, <2>1, <2>2 DEF GetLeaf
<1> DEFINE j == Sibling(f) + 1
<1>6. Opaque(j) = <<255, j, 255, 255>> /\ 255 \in Nat
  BY DEF Opaque
<1> HIDE DEF b, v, leaf, L, n, chunks, list, field, N
<1>7. b[1] = GetLeaf(chunks, Sibling(f))
  BY <1>2, <1>3, <1>4, FirstSibling
<1>8. IsSeqOf(b, N)
  <2>1. FullLayout(b, w, ProveAgainstLeafChunks(chunks, f, n), n, list, i, L, field)
    BY <1>2, <1>3, ItemProofsLayout
  <2> QED BY <2>1, Zenon DEF FullLayout, N
<1>9. b[1] = <<255, j, 255, 255>>
  BY <1>5, <1>6, <1>7
<1> HIDE DEF j
<1> QED BY <1>4, <1>6, <1>8, <1>9 DEF CanTamper, b

\* A bundle that is not refused.
IsBundleOf(c, w, i) ==
  /\ c = Bundle(w, i) /\ w \in World /\ i \in Nat
  /\ i < Len(w.pending) /\ w.pending[i + 1].source_index < Len(w.validators)
\* The places of its leaves: the source index,
ConsolidationPlace(c) == ConsolidationSourceGindex(c.consolidationIndex)
\* the credentials
CredentialsPlace(c) == ValidatorGindex(c.sourceIndex, WITHDRAWAL_CREDENTIALS_FIELD_INDEX)
\* and the activation epoch.
EpochPlace(c) == ValidatorGindex(c.sourceIndex, ACTIVATION_EPOCH_FIELD_INDEX)

\* The types of its arguments and places.
BundleTypes(c) ==
  /\ c.consolidationIndex \in Nat /\ c.consolidationIndex < Pow(ConsolidationListDepth)
  /\ c.sourceIndex \in Nat /\ c.sourceIndex < Pow(ValidatorListDepth)
  /\ c.activationEpoch \in Nat /\ c.sourceCredentials \in Chunk
  /\ ConsolidationPlace(c) \in Nat /\ ConsolidationPlace(c) > 1
  /\ CredentialsPlace(c) \in Nat /\ CredentialsPlace(c) > 1
  /\ EpochPlace(c) \in Nat /\ EpochPlace(c) > 1
  /\ CanTamper(c.proofConsolidation, CONSOLIDATION_PROOF_LENGTH)
  /\ CanTamper(c.proofCredentials, VALIDATOR_PROOF_LENGTH)
  /\ CanTamper(c.proofActivationEpoch, VALIDATOR_PROOF_LENGTH)

\* Every bundle has them.
LEMMA BundlesAreTyped ==
  ASSUME NEW c, NEW w, NEW i, IsBundleOf(c, w, i)
  PROVE  BundleTypes(c)
<1> DEFINE s == w.pending[i + 1].source_index
           wf == WITHDRAWAL_CREDENTIALS_FIELD_INDEX
           af == ACTIVATION_EPOCH_FIELD_INDEX
<1>1. c = Bundle(w, i) /\ w \in World /\ i \in Nat /\ i < Len(w.pending) /\ s < Len(w.validators)
  BY DEF IsBundleOf
<1>2. /\ c.consolidationIndex = i /\ c.sourceIndex = s
      /\ c.activationEpoch = w.validators[s + 1].activation_epoch
      /\ c.sourceCredentials = w.validators[s + 1].withdrawal_credentials
      /\ c.proofConsolidation = BundleConsolidationProof(w, i)
      /\ c.proofCredentials = BundleValidatorProof(w, s, wf)
      /\ c.proofActivationEpoch = BundleValidatorProof(w, s, af)
  <2> HIDE DEF wf, af
  <2> QED BY <1>1, BundleFields DEF wf, af
<1>3. s \in Nat
  BY <1>1, WorldTypes
<1>4. s + 1 \in DOMAIN w.validators
  BY <1>1, <1>3, WorldTypes
<1>5. w.validators[s + 1] \in Validator
  <2> HIDE DEF s
  <2> QED BY <1>1, <1>4, WorldAssumption
<1>6. w.validators[s + 1].activation_epoch \in Nat /\ w.validators[s + 1].withdrawal_credentials \in Chunk
  <2> HIDE DEF s
  <2> QED BY <1>5 DEF Validator
<1>7. i < Pow(ConsolidationListDepth) /\ s < Pow(ValidatorListDepth)
  <2>1. Pow(ConsolidationListDepth) \in Nat /\ Pow(ValidatorListDepth) \in Nat
    BY PowType, DepthAssumption
  <2>2. /\ Len(w.pending) \in Nat /\ Len(w.pending) <= Pow(ConsolidationListDepth)
        /\ Len(w.validators) \in Nat /\ Len(w.validators) <= Pow(ValidatorListDepth)
    BY <1>1, WorldTypes
  <2> HIDE DEF s
  <2> QED BY <1>1, <1>3, <2>1, <2>2
<1>8. /\ wf \in Nat /\ wf < 8 /\ af \in Nat /\ af < 8
      /\ wf \in {WITHDRAWAL_CREDENTIALS_FIELD_INDEX, ACTIVATION_EPOCH_FIELD_INDEX}
      /\ af \in {WITHDRAWAL_CREDENTIALS_FIELD_INDEX, ACTIVATION_EPOCH_FIELD_INDEX}
  BY DEF WITHDRAWAL_CREDENTIALS_FIELD_INDEX, ACTIVATION_EPOCH_FIELD_INDEX
<1>9. CanTamper(BundleConsolidationProof(w, i), CONSOLIDATION_PROOF_LENGTH)
  BY <1>1, ConsolidationProofTampers
<1> HIDE DEF s, wf, af
<1>10. CanTamper(BundleValidatorProof(w, s, wf), VALIDATOR_PROOF_LENGTH)
  BY <1>1, <1>3, <1>8, ValidatorProofTampers
<1>11. CanTamper(BundleValidatorProof(w, s, af), VALIDATOR_PROOF_LENGTH)
  BY <1>1, <1>3, <1>8, ValidatorProofTampers
<1>12. ConsolidationSourceGindex(i) \in Nat /\ ConsolidationSourceGindex(i) > 1
  BY <1>1, <1>7, ExactGindexes
<1>13. ValidatorGindex(s, wf) \in Nat /\ ValidatorGindex(s, wf) > 1
  BY <1>3, <1>7, <1>8, ExactGindexes
<1>14. ValidatorGindex(s, af) \in Nat /\ ValidatorGindex(s, af) > 1
  BY <1>3, <1>7, <1>8, ExactGindexes
<1> QED BY <1>1, <1>2, <1>3, <1>6, <1>7, <1>9, <1>10, <1>11, <1>12, <1>13, <1>14, Zenon
        DEF BundleTypes, ConsolidationPlace, CredentialsPlace, EpochPlace, wf, af

-----------------------------------------------------------------------------
\* The verdict on a claim by its arguments.

\* The arguments of a claim one by one.
IsArguments(c, a, s, e, k, p, q, r) ==
  /\ c.consolidationIndex = a /\ c.sourceIndex = s /\ c.activationEpoch = e
  /\ c.sourceCredentials = k /\ c.proofConsolidation = p /\ c.proofCredentials = q
  /\ c.proofActivationEpoch = r

\* A bundle has all arguments of a claim.
LEMMA BundleArguments ==
  ASSUME NEW c, NEW w, NEW i, IsBundleOf(c, w, i)
  PROVE  /\ IsArguments(c, c.consolidationIndex, c.sourceIndex, c.activationEpoch, c.sourceCredentials,
                        c.proofConsolidation, c.proofCredentials, c.proofActivationEpoch)
         /\ DOMAIN c = {"consolidationIndex", "sourceIndex", "activationEpoch", "sourceCredentials",
                        "proofConsolidation", "proofCredentials", "proofActivationEpoch"}
         /\ c = [f \in DOMAIN c |-> c[f]]
BY DEF IsBundleOf, Bundle, IsArguments

\* A bundle with one argument changed.
LEMMA ChangedArgument ==
  ASSUME NEW c, NEW w, NEW i, NEW x, IsBundleOf(c, w, i),
         NEW a, NEW s, NEW e, NEW k, NEW p, NEW q, NEW r, IsArguments(c, a, s, e, k, p, q, r)
  PROVE  /\ IsArguments([c EXCEPT !.sourceIndex = x], a, x, e, k, p, q, r)
         /\ IsArguments([c EXCEPT !.activationEpoch = x], a, s, x, k, p, q, r)
         /\ IsArguments([c EXCEPT !.sourceCredentials = x], a, s, e, x, p, q, r)
         /\ IsArguments([c EXCEPT !.proofConsolidation = x], a, s, e, k, x, q, r)
         /\ IsArguments([c EXCEPT !.proofCredentials = x], a, s, e, k, p, x, r)
         /\ IsArguments([c EXCEPT !.proofActivationEpoch = x], a, s, e, k, p, q, x)
<1>1. /\ DOMAIN c = {"consolidationIndex", "sourceIndex", "activationEpoch", "sourceCredentials",
                     "proofConsolidation", "proofCredentials", "proofActivationEpoch"}
      /\ c = [f \in DOMAIN c |-> c[f]]
  BY BundleArguments
<1>2. IsArguments([c EXCEPT !.sourceIndex = x], a, x, e, k, p, q, r)
  BY <1>1 DEF IsArguments
<1>3. IsArguments([c EXCEPT !.activationEpoch = x], a, s, x, k, p, q, r)
  BY <1>1 DEF IsArguments
<1>4. IsArguments([c EXCEPT !.sourceCredentials = x], a, s, e, x, p, q, r)
  BY <1>1 DEF IsArguments
<1>5. IsArguments([c EXCEPT !.proofConsolidation = x], a, s, e, k, x, q, r)
  BY <1>1 DEF IsArguments
<1>6. IsArguments([c EXCEPT !.proofCredentials = x], a, s, e, k, p, x, r)
  BY <1>1 DEF IsArguments
<1>7. IsArguments([c EXCEPT !.proofActivationEpoch = x], a, s, e, k, p, q, x)
  BY <1>1 DEF IsArguments
<1> QED BY <1>2, <1>3, <1>4, <1>5, <1>6, <1>7

\* Check 4 of a claim in terms of its arguments ...
Lengths(p, q, r) ==
  Len(p) = CONSOLIDATION_PROOF_LENGTH /\ Len(q) = VALIDATOR_PROOF_LENGTH /\ Len(r) = VALIDATOR_PROOF_LENGTH
\* ... and checks 5 to 7.
Proofs(root, a, s, e, k, p, q, r) ==
  /\ VerifyProof(root, ToLittleEndian64(s), p, ConsolidationSourceGindex(a))
  /\ VerifyProof(root, k, q, ValidatorGindex(s, WITHDRAWAL_CREDENTIALS_FIELD_INDEX))
  /\ VerifyProof(root, ToLittleEndian64(e), r, ValidatorGindex(s, ACTIVATION_EPOCH_FIELD_INDEX))

\* The checks fail with the lengths first.
LEMMA ChecksOfArguments ==
  ASSUME NEW root, NEW c, NEW a, NEW s, NEW e, NEW k, NEW p, NEW q, NEW r,
         IsArguments(c, a, s, e, k, p, q, r)
  PROVE  /\ ProofsPass(root, c) <=> Lengths(p, q, r) /\ Proofs(root, a, s, e, k, p, q, r)
         /\ Lengths(p, q, r) => CheckProofs(root, c) = IF ProofsPass(root, c) THEN "ok" ELSE "InvalidProof"
         /\ ~ Lengths(p, q, r) => CheckProofs(root, c) = "InvalidProofLength"
<1>1. /\ c.consolidationIndex = a /\ c.sourceIndex = s /\ c.activationEpoch = e
      /\ c.sourceCredentials = k /\ c.proofConsolidation = p /\ c.proofCredentials = q
      /\ c.proofActivationEpoch = r
  BY DEF IsArguments
<1>2. ProofsPass(root, c) <=> Lengths(p, q, r) /\ Proofs(root, a, s, e, k, p, q, r)
  BY <1>1, Zenon DEF ProofsPass, Lengths, Proofs
<1>3. Lengths(p, q, r) => CheckProofs(root, c) = IF ProofsPass(root, c) THEN "ok" ELSE "InvalidProof"
  BY <1>1 DEF CheckProofs, Lengths
<1>4. ~ Lengths(p, q, r) => CheckProofs(root, c) = "InvalidProofLength"
  BY <1>1 DEF CheckProofs, Lengths
<1> QED BY <1>2, <1>3, <1>4

\* claimReward reverts with InvalidProof ...
LEMMA InvalidProofVerdict ==
  ASSUME NEW root, NEW c, NEW a, NEW s, NEW e, NEW k, NEW p, NEW q, NEW r,
         IsArguments(c, a, s, e, k, p, q, r), Lengths(p, q, r), ~ Proofs(root, a, s, e, k, p, q, r)
  PROVE  Verdict(root, c) = "InvalidProof"
<1>1. CheckProofs(root, c) = "InvalidProof"
  BY ChecksOfArguments
<1> QED BY <1>1 DEF Verdict

\* ... or with InvalidProofLength.
LEMMA InvalidLengthVerdict ==
  ASSUME NEW root, NEW c, NEW a, NEW s, NEW e, NEW k, NEW p, NEW q, NEW r,
         IsArguments(c, a, s, e, k, p, q, r), ~ Lengths(p, q, r)
  PROVE  Verdict(root, c) = "InvalidProofLength"
<1>1. CheckProofs(root, c) = "InvalidProofLength"
  BY ChecksOfArguments
<1> QED BY <1>1 DEF Verdict

\* The bundle itself passes them.
LEMMA BundleChecks ==
  ASSUME NEW c, NEW w, NEW i, IsBundleOf(c, w, i),
         NEW a, NEW s, NEW e, NEW k, NEW p, NEW q, NEW r, IsArguments(c, a, s, e, k, p, q, r)
  PROVE  /\ Lengths(p, q, r) /\ Proofs(BlockRoot[w], a, s, e, k, p, q, r)
         /\ CheckProofs(BlockRoot[w], c) = "ok"
<1>1. ProofsPass(BlockRoot[w], c)
  BY BundlePasses DEF IsBundleOf
<1> QED BY <1>1, ChecksOfArguments

\* A bundle with a tampered proof is refused for it.
LEMMA TamperedVerdict ==
  ASSUME NEW c, NEW w, NEW i, NEW v, IsBundleOf(c, w, i), v \in TamperedClaims(c)
  PROVE  Verdict(BlockRoot[w], v.claim) = v.expected
<1> DEFINE a == c.consolidationIndex
           s == c.sourceIndex
           e == c.activationEpoch
           k == c.sourceCredentials
           p == c.proofConsolidation
           q == c.proofCredentials
           r == c.proofActivationEpoch
           root == BlockRoot[w]
           g1 == ConsolidationPlace(c)
           g2 == CredentialsPlace(c)
           g3 == EpochPlace(c)
           x == ToLittleEndian64(s)
           y == ToLittleEndian64(e)
<1>1. v.expected = "InvalidProof"
      /\ \/ v.claim = [c EXCEPT !.proofConsolidation = TamperProof(p)]
         \/ v.claim = [c EXCEPT !.proofCredentials = TamperProof(q)]
         \/ v.claim = [c EXCEPT !.proofActivationEpoch = TamperProof(r)]
  BY DEF TamperedClaims, Vector
<1>2. IsArguments(c, a, s, e, k, p, q, r)
  BY BundleArguments
<1>3. BundleTypes(c)
  BY BundlesAreTyped
<1>4. /\ g1 \in Nat /\ g1 > 1 /\ g2 \in Nat /\ g2 > 1 /\ g3 \in Nat /\ g3 > 1
      /\ CanTamper(p, CONSOLIDATION_PROOF_LENGTH)
      /\ CanTamper(q, VALIDATOR_PROOF_LENGTH) /\ CanTamper(r, VALIDATOR_PROOF_LENGTH)
  BY <1>3 DEF BundleTypes
<1> HIDE DEF a, s, e, k, p, q, r, root
<1>5. Lengths(p, q, r) /\ Proofs(root, a, s, e, k, p, q, r)
  BY <1>2, BundleChecks DEF root
<1>6. \A P, Q, R : Proofs(root, a, s, e, k, P, Q, R) <=>
        VerifyProof(root, x, P, g1) /\ VerifyProof(root, k, Q, g2) /\ VerifyProof(root, y, R, g3)
  BY Zenon DEF Proofs, ConsolidationPlace, CredentialsPlace, EpochPlace, a, s
<1> HIDE DEF g1, g2, g3, x, y
<1>7. VerifyProof(root, x, p, g1) /\ VerifyProof(root, k, q, g2) /\ VerifyProof(root, y, r, g3)
  BY <1>5, <1>6
<1>8. CASE v.claim = [c EXCEPT !.proofConsolidation = TamperProof(p)]
  <2> DEFINE t == TamperProof(p)
  <2>1. ~ VerifyProof(root, x, t, g1)
    BY <1>4, <1>7, TamperedProofFails
  <2>2. Len(t) = CONSOLIDATION_PROOF_LENGTH
    BY <1>4, TamperedProof
  <2> HIDE DEF t
  <2>3. IsArguments([c EXCEPT !.proofConsolidation = t], a, s, e, k, t, q, r)
    BY <1>2, ChangedArgument
  <2>4. Lengths(t, q, r)
    BY <1>5, <2>2 DEF Lengths
  <2>5. ~ Proofs(root, a, s, e, k, t, q, r)
    BY <1>6, <2>1
  <2>6. Verdict(root, [c EXCEPT !.proofConsolidation = t]) = "InvalidProof"
    BY <2>3, <2>4, <2>5, InvalidProofVerdict
  <2> QED BY <1>1, <1>8, <2>6 DEF t, root
<1>9. CASE v.claim = [c EXCEPT !.proofCredentials = TamperProof(q)]
  <2> DEFINE t == TamperProof(q)
  <2>1. ~ VerifyProof(root, k, t, g2)
    BY <1>4, <1>7, TamperedProofFails
  <2>2. Len(t) = VALIDATOR_PROOF_LENGTH
    BY <1>4, TamperedProof
  <2> HIDE DEF t
  <2>3. IsArguments([c EXCEPT !.proofCredentials = t], a, s, e, k, p, t, r)
    BY <1>2, ChangedArgument
  <2>4. Lengths(p, t, r)
    BY <1>5, <2>2 DEF Lengths
  <2>5. ~ Proofs(root, a, s, e, k, p, t, r)
    BY <1>6, <2>1
  <2>6. Verdict(root, [c EXCEPT !.proofCredentials = t]) = "InvalidProof"
    BY <2>3, <2>4, <2>5, InvalidProofVerdict
  <2> QED BY <1>1, <1>9, <2>6 DEF t, root
<1>10. CASE v.claim = [c EXCEPT !.proofActivationEpoch = TamperProof(r)]
  <2> DEFINE t == TamperProof(r)
  <2>1. ~ VerifyProof(root, y, t, g3)
    BY <1>4, <1>7, TamperedProofFails
  <2>2. Len(t) = VALIDATOR_PROOF_LENGTH
    BY <1>4, TamperedProof
  <2> HIDE DEF t
  <2>3. IsArguments([c EXCEPT !.proofActivationEpoch = t], a, s, e, k, p, q, t)
    BY <1>2, ChangedArgument
  <2>4. Lengths(p, q, t)
    BY <1>5, <2>2 DEF Lengths
  <2>5. ~ Proofs(root, a, s, e, k, p, q, t)
    BY <1>6, <2>1
  <2>6. Verdict(root, [c EXCEPT !.proofActivationEpoch = t]) = "InvalidProof"
    BY <2>3, <2>4, <2>5, InvalidProofVerdict
  <2> QED BY <1>1, <1>10, <2>6 DEF t, root
<1> QED BY <1>1, <1>8, <1>9, <1>10

\* A proof shows one leaf at its place.
LEMMA ProofShowsOneLeaf ==
  ASSUME NEW root, NEW x, NEW y, NEW p, NEW n, NEW g, g \in Nat, g > 1, CanTamper(p, n),
         VerifyProof(root, x, p, g), VerifyProof(root, y, p, g)
  PROVE  x = y
<1>1. Len(p) \in Nat
  BY TamperedProof
<1> QED BY <1>1, ProofsOfOnePlace

\* Other credentials than those of the bundle ...
LEMMA OtherCredentials ==
  ASSUME NEW k, k \in Chunk
  PROVE  [k EXCEPT ![4] = 255 - @] # k
<1>1. k[4] \in 0..255 /\ DOMAIN k = 1..4 /\ 4 \in 1..4
  BY DEF Chunk, ByteValue
<1>2. 255 - k[4] # k[4]
  BY <1>1
<1>3. [k EXCEPT ![4] = 255 - @][4] = 255 - k[4]
  BY <1>1
<1> QED BY <1>2, <1>3

\* ... another source and another epoch are refused for their proofs.
LEMMA WrongVerdict ==
  ASSUME NEW c, NEW w, NEW i, NEW v, IsBundleOf(c, w, i), c.activationEpoch < MaxEpoch,
         v \in WrongClaims(c)
  PROVE  Verdict(BlockRoot[w], v.claim) = v.expected
<1> DEFINE a == c.consolidationIndex
           s == c.sourceIndex
           e == c.activationEpoch
           k == c.sourceCredentials
           p == c.proofConsolidation
           q == c.proofCredentials
           r == c.proofActivationEpoch
           root == BlockRoot[w]
           g1 == ConsolidationPlace(c)
           g2 == CredentialsPlace(c)
           g3 == EpochPlace(c)
           x == ToLittleEndian64(s)
           y == ToLittleEndian64(e)
<1>1. /\ v.expected = "InvalidProof"
      /\ \/ \E u \in (0..2^ValidatorListDepth) \ {s} : v.claim = [c EXCEPT !.sourceIndex = u]
         \/ v.claim = [c EXCEPT !.sourceCredentials = [k EXCEPT ![4] = 255 - @]]
         \/ \E u \in {MaxEpoch - 1} \ {e} : v.claim = [c EXCEPT !.activationEpoch = u]
  <2>1. PICK t : /\ v = Vector(t, "InvalidProof")
                 /\ t \in {[c EXCEPT !.sourceIndex = u] : u \in (0..2^ValidatorListDepth) \ {s}}
                          \cup {[c EXCEPT !.sourceCredentials[4] = 255 - @]}
                          \cup {[c EXCEPT !.activationEpoch = u] : u \in {MaxEpoch - 1} \ {e}}
    BY Zenon DEF WrongClaims
  <2>2. v.claim = t /\ v.expected = "InvalidProof"
    BY <2>1 DEF Vector
  <2>3. [c EXCEPT !.sourceCredentials[4] = 255 - @]
          = [c EXCEPT !.sourceCredentials = [k EXCEPT ![4] = 255 - @]]
    OBVIOUS
  <2> HIDE DEF s, k, e
  <2> QED BY <2>1, <2>2, <2>3
<1>2. IsArguments(c, a, s, e, k, p, q, r)
  BY BundleArguments
<1>3. BundleTypes(c)
  BY BundlesAreTyped
<1>4. /\ g1 \in Nat /\ g1 > 1 /\ g2 \in Nat /\ g2 > 1 /\ g3 \in Nat /\ g3 > 1
      /\ s \in Nat /\ e \in Nat /\ k \in Chunk
      /\ CanTamper(p, CONSOLIDATION_PROOF_LENGTH)
      /\ CanTamper(q, VALIDATOR_PROOF_LENGTH) /\ CanTamper(r, VALIDATOR_PROOF_LENGTH)
  BY <1>3 DEF BundleTypes
<1> HIDE DEF a, k, p, q, r, root
<1>5. Lengths(p, q, r) /\ Proofs(root, a, s, e, k, p, q, r)
  BY <1>2, BundleChecks DEF root
<1>6. VerifyProof(root, x, p, g1) /\ VerifyProof(root, k, q, g2) /\ VerifyProof(root, y, r, g3)
  BY <1>5, Zenon DEF Proofs, ConsolidationPlace, CredentialsPlace, EpochPlace, a
<1>7. e < MaxEpoch /\ MaxEpoch \in Nat
  BY VectorAssumption
<1>8. ASSUME NEW u \in (0..2^ValidatorListDepth) \ {s}, v.claim = [c EXCEPT !.sourceIndex = u]
      PROVE  Verdict(root, v.claim) = "InvalidProof"
  <2>1. IsArguments([c EXCEPT !.sourceIndex = u], a, u, e, k, p, q, r)
    <3> HIDE DEF s, e
    <3> QED BY <1>2, ChangedArgument
  <2>2. u \in Nat /\ u # s
    <3>1. 2^ValidatorListDepth \in Nat
      BY PowType, DepthAssumption DEF Pow
    <3> QED BY <3>1
  <2>3. ASSUME Proofs(root, a, u, e, k, p, q, r) PROVE FALSE
    <3>1. VerifyProof(root, ToLittleEndian64(u), p, g1)
      BY <2>3, Zenon DEF Proofs, ConsolidationPlace, a
    <3> HIDE DEF s, g1
    <3> DEFINE z == ToLittleEndian64(u)
    <3>2. VerifyProof(root, x, p, g1) /\ VerifyProof(root, z, p, g1)
      BY <1>6, <3>1
    <3> HIDE DEF x, z
    <3>3. x = z
      BY <1>4, <3>2, ProofShowsOneLeaf
    <3>4. x = LittleEndian(s) /\ z = LittleEndian(u)
      BY <1>4, <2>2, LittleEndianInjective DEF x, z
    <3>5. LittleEndian(s) = LittleEndian(u)
      BY <3>3, <3>4
    <3> QED BY <1>4, <2>2, <3>5, LittleEndianInjective
  <2> QED BY <1>5, <1>8, <2>1, <2>3, InvalidProofVerdict
<1>9. ASSUME v.claim = [c EXCEPT !.sourceCredentials = [k EXCEPT ![4] = 255 - @]]
      PROVE  Verdict(root, v.claim) = "InvalidProof"
  <2> DEFINE z == [k EXCEPT ![4] = 255 - @]
  <2>1. z # k
    BY <1>4, OtherCredentials
  <2> HIDE DEF z
  <2>2. IsArguments([c EXCEPT !.sourceCredentials = z], a, s, e, z, p, q, r)
    <3> HIDE DEF s, e
    <3> QED BY <1>2, ChangedArgument
  <2>3. ASSUME Proofs(root, a, s, e, z, p, q, r) PROVE FALSE
    <3>1. VerifyProof(root, z, q, g2)
      BY <2>3, Zenon DEF Proofs, CredentialsPlace
    <3> HIDE DEF g2
    <3> QED BY <1>4, <1>6, <2>1, <3>1, ProofShowsOneLeaf
  <2> QED BY <1>5, <1>9, <2>2, <2>3, InvalidProofVerdict DEF z
<1>10. ASSUME NEW u \in {MaxEpoch - 1} \ {e}, v.claim = [c EXCEPT !.activationEpoch = u]
       PROVE  Verdict(root, v.claim) = "InvalidProof"
  <2>1. IsArguments([c EXCEPT !.activationEpoch = u], a, s, u, k, p, q, r)
    <3> HIDE DEF s, e
    <3> QED BY <1>2, ChangedArgument
  <2>2. u \in Nat /\ u # e
    <3> HIDE DEF e
    <3> QED BY <1>4, <1>7
  <2>3. ASSUME Proofs(root, a, s, u, k, p, q, r) PROVE FALSE
    <3>1. VerifyProof(root, ToLittleEndian64(u), r, g3)
      BY <2>3, Zenon DEF Proofs, EpochPlace
    <3> HIDE DEF e, g3
    <3> DEFINE z == ToLittleEndian64(u)
    <3>2. VerifyProof(root, y, r, g3) /\ VerifyProof(root, z, r, g3)
      BY <1>6, <3>1
    <3> HIDE DEF y, z
    <3>3. y = z
      BY <1>4, <3>2, ProofShowsOneLeaf
    <3>4. y = LittleEndian(e) /\ z = LittleEndian(u)
      BY <1>4, <2>2, LittleEndianInjective DEF y, z
    <3>5. LittleEndian(e) = LittleEndian(u)
      BY <3>3, <3>4
    <3> QED BY <1>4, <2>2, <3>5, LittleEndianInjective
  <2> QED BY <1>5, <1>10, <2>1, <2>3, InvalidProofVerdict
<1> HIDE DEF s, e
<1>11. Verdict(root, v.claim) = "InvalidProof"
  BY <1>1, <1>8, <1>9, <1>10
<1> QED BY <1>1, <1>11 DEF root

-----------------------------------------------------------------------------
\* The test vectors.

\* A bundle with a proof of the other length is refused before any proof is checked.
LEMMA SwappedVerdict ==
  ASSUME NEW c, NEW w, NEW i, NEW v, IsBundleOf(c, w, i), v \in SwappedClaims(c)
  PROVE  Verdict(BlockRoot[w], v.claim) = v.expected
<1> DEFINE a == c.consolidationIndex
           s == c.sourceIndex
           e == c.activationEpoch
           k == c.sourceCredentials
           p == c.proofConsolidation
           q == c.proofCredentials
           r == c.proofActivationEpoch
           root == BlockRoot[w]
<1>1. v.expected = "InvalidProofLength" /\ v.claim = [c EXCEPT !.proofCredentials = p]
  BY DEF SwappedClaims, Vector
<1>2. IsArguments(c, a, s, e, k, p, q, r)
  BY BundleArguments
<1> HIDE DEF a, s, e, k, p, q, r, root
<1>3. Lengths(p, q, r)
  BY <1>2, BundleChecks
<1>4. ~ Lengths(p, p, r)
  BY <1>3, VectorAssumption DEF Lengths
<1>5. IsArguments([c EXCEPT !.proofCredentials = p], a, s, e, k, p, p, r)
  BY <1>2, ChangedArgument
<1>6. Verdict(root, [c EXCEPT !.proofCredentials = p]) = "InvalidProofLength"
  BY <1>4, <1>5, InvalidLengthVerdict
<1> QED BY <1>1, <1>6 DEF root

\* What claimReward answers a bundle after its proofs have passed.
LEMMA BundleVerdict ==
  ASSUME NEW c, NEW w, NEW i, IsBundleOf(c, w, i)
  PROVE  /\ c.activationEpoch \in Nat
         /\ c.activationEpoch >= MaxEpoch => Verdict(BlockRoot[w], c) = "NotEligible"
         /\ c.activationEpoch < MaxEpoch /\ c.sourceCredentials[1] \notin {1, 2}
              => Verdict(BlockRoot[w], c) = "InvalidCredentialsPrefix"
         /\ c.activationEpoch < MaxEpoch /\ c.sourceCredentials[1] \in {1, 2}
              => Verdict(BlockRoot[w], c) = AddressOf(c.sourceCredentials)
<1>1. BundleTypes(c)
  BY BundlesAreTyped
<1>2. c.activationEpoch \in Nat /\ MaxEpoch \in Nat
  BY <1>1, VectorAssumption DEF BundleTypes
<1> DEFINE root == BlockRoot[w]
<1>3. CheckProofs(root, c) = "ok"
  <2>1. IsArguments(c, c.consolidationIndex, c.sourceIndex, c.activationEpoch, c.sourceCredentials,
                    c.proofConsolidation, c.proofCredentials, c.proofActivationEpoch)
    BY BundleArguments
  <2> QED BY <2>1, BundleChecks
<1> HIDE DEF root
<1>4. Verdict(root, c) = IF c.activationEpoch >= MaxEpoch THEN "NotEligible"
                         ELSE IF c.sourceCredentials[1] \notin {1, 2} THEN "InvalidCredentialsPrefix"
                         ELSE AddressOf(c.sourceCredentials)
  BY <1>3, Zenon DEF Verdict
<1>5. c.activationEpoch < MaxEpoch => ~ (c.activationEpoch >= MaxEpoch)
  BY <1>2
<1> QED BY <1>2, <1>4, <1>5, Zenon DEF root

\* The bundles of a state the generator takes vectors from.
LEMMA BundleOfState ==
  ASSUME NEW w, NEW i, w \in World, i \in 0..Len(w.pending) - 1, Refusal(w, i) = "none"
  PROVE  IsBundleOf(Bundle(w, i), w, i)
<1>1. i \in Nat
  BY WorldTypes
<1>2. i < Len(w.pending) /\ w.pending[i + 1].source_index < Len(w.validators)
  BY <1>1, NotRefused
<1> QED BY <1>1, <1>2, Zenon DEF IsBundleOf

\* A claim the file calls valid is a bundle that will be paid.
LEMMA ValidClaim ==
  ASSUME NEW w, NEW v, w \in World, v \in ValidClaims(w)
  PROVE  /\ \E i : IsBundleOf(v.claim, w, i)
         /\ v.claim.activationEpoch < MaxEpoch
         /\ Verdict(BlockRoot[w], v.claim) = v.expected
<1>1. PICK i \in ValidIndexes(w) : v = BundleToClaim(Bundle(w, i))
  BY DEF ValidClaims
<1> DEFINE c == Bundle(w, i)
<1>2. /\ i \in 0..Len(w.pending) - 1 /\ Refusal(w, i) = "none"
      /\ c.activationEpoch < MaxEpoch /\ RecipientAddress(c) # "None"
  BY <1>1, Zenon DEF ValidIndexes
<1>3. IsBundleOf(c, w, i)
  BY <1>2, BundleOfState
<1> HIDE DEF c
<1>4. v.claim = c /\ v.expected = AddressOf(c.sourceCredentials)
  BY <1>1 DEF BundleToClaim, Vector, c
<1>5. c.sourceCredentials[1] \in {1, 2}
  BY <1>2 DEF RecipientAddress
<1>6. Verdict(BlockRoot[w], c) = AddressOf(c.sourceCredentials)
  BY <1>2, <1>3, <1>5, BundleVerdict
<1> QED BY <1>2, <1>3, <1>4, <1>6

\* A true claim of an epoch that is too late is NotEligible.
LEMMA IneligibleVerdict ==
  ASSUME NEW w, NEW v, w \in World, v \in IneligibleClaims(w)
  PROVE  Verdict(BlockRoot[w], v.claim) = v.expected
<1>1. PICK i \in 0..Len(w.pending) - 1 :
        /\ Refusal(w, i) = "none" /\ Bundle(w, i).activationEpoch = MaxEpoch
        /\ v = Vector(Bundle(w, i), "NotEligible")
  BY Zenon DEF IneligibleClaims
<1> DEFINE c == Bundle(w, i)
<1>2. IsBundleOf(c, w, i) /\ c.activationEpoch = MaxEpoch
  BY <1>1, BundleOfState
<1> HIDE DEF c
<1>3. v.claim = c /\ v.expected = "NotEligible"
  BY <1>1 DEF Vector, c
<1>4. c.activationEpoch >= MaxEpoch
  BY <1>2, VectorAssumption
<1> QED BY <1>2, <1>3, <1>4, BundleVerdict

\* And one with BLS credentials has the wrong prefix.
LEMMA BLSVerdict ==
  ASSUME NEW w, NEW v, w \in World, v \in BLSClaims(w)
  PROVE  Verdict(BlockRoot[w], v.claim) = v.expected
<1>1. PICK i \in 0..Len(w.pending) - 1 :
        /\ Refusal(w, i) = "none" /\ Bundle(w, i).activationEpoch < MaxEpoch
        /\ Bundle(w, i).sourceCredentials[1] = 0
        /\ v = Vector(Bundle(w, i), "InvalidCredentialsPrefix")
  BY Zenon DEF BLSClaims
<1> DEFINE c == Bundle(w, i)
<1>2. IsBundleOf(c, w, i) /\ c.activationEpoch < MaxEpoch /\ c.sourceCredentials[1] = 0
  BY <1>1, BundleOfState
<1> HIDE DEF c
<1>3. v.claim = c /\ v.expected = "InvalidCredentialsPrefix"
  BY <1>1 DEF Vector, c
<1>4. c.sourceCredentials[1] \notin {1, 2}
  BY <1>2
<1> QED BY <1>2, <1>3, <1>4, BundleVerdict

\* Every invalid claim of the file is refused for the reason the file gives.
LEMMA InvalidClaimVerdict ==
  ASSUME NEW w, NEW v, w \in World, v \in TestVectorFile(w).invalidClaims
  PROVE  Verdict(BlockRoot[w], v.claim) = v.expected
<1>1. v \in IneligibleClaims(w) \cup BLSClaims(w)
              \cup UNION {TamperedClaims(u.claim) \cup WrongClaims(u.claim)
                            \cup SwappedClaims(u.claim) : u \in ValidClaims(w)}
  BY DEF TestVectorFile
<1>2. CASE v \in IneligibleClaims(w) \cup BLSClaims(w)
  BY <1>2, IneligibleVerdict, BLSVerdict
<1>3. CASE \E u \in ValidClaims(w) :
             v \in TamperedClaims(u.claim) \cup WrongClaims(u.claim) \cup SwappedClaims(u.claim)
  <2>1. PICK u \in ValidClaims(w) :
          v \in TamperedClaims(u.claim) \cup WrongClaims(u.claim) \cup SwappedClaims(u.claim)
    BY <1>3
  <2> DEFINE c == u.claim
  <2>2. c.activationEpoch < MaxEpoch /\ \E i : IsBundleOf(c, w, i)
    BY ValidClaim
  <2>3. v \in TamperedClaims(c) \/ v \in WrongClaims(c) \/ v \in SwappedClaims(c)
    BY <2>1
  <2> HIDE DEF c
  <2>4. PICK i : IsBundleOf(c, w, i)
    BY <2>2
  <2> QED BY <2>2, <2>3, <2>4, TamperedVerdict, WrongVerdict, SwappedVerdict
<1> QED BY <1>1, <1>2, <1>3

\* The claims of the file are valid claims, in some order.
LEMMA ListedClaims ==
  ASSUME NEW w, w \in World
  PROVE  LET s == SetToSeq(ValidClaims(w)) IN
         Len(s) \in Nat /\ \A i \in 1..Len(s) : s[i] \in ValidClaims(w)
<1> DEFINE V == ValidClaims(w)
           n == Cardinality(V)
           s == SetToSeq(V)
<1>1. IsFiniteSet(V)
  <2> DEFINE Claim(i) == BundleToClaim(Bundle(w, i))
             I == ValidIndexes(w)
             D == 0..Len(w.pending) - 1
  <2>1. IsFiniteSet(D)
    BY WorldTypes, FS_Interval
  <2>2. I \subseteq D
    BY DEF ValidIndexes
  <2> HIDE DEF D
  <2>3. IsFiniteSet(I)
    BY <2>1, <2>2, FS_Subset
  <2> DEFINE f == [i \in I |-> Claim(i)]
  <2>4. V = {Claim(i) : i \in I}
    BY Zenon DEF ValidClaims
  <2> HIDE DEF I, Claim, V
  <2>5. f \in [I -> V] /\ \A c \in V : \E i \in I : f[i] = c
    BY <2>4
  <2> HIDE DEF f
  <2>6. f \in Surjection(I, V)
    BY <2>5, Zenon DEF Surjection
  <2> QED BY <2>3, <2>6, FS_Surjection
<1> HIDE DEF V
<1>2. n \in Nat /\ ExistsBijection(1..n, V)
  <2>1. PICK m \in Nat : ExistsBijection(1..m, V)
    BY <1>1, FS_NatBijection
  <2>2. n = m
    BY <2>1, FS_CountingElements
  <2> QED BY <2>1, <2>2
<1>3. \E f \in [1..n -> V] : IsInjective(f)
  BY <1>2 DEF ExistsBijection, Bijection, Injection, IsInjective
<1>4. s \in [1..n -> V]
  BY <1>3, Zenon DEF SetToSeq
<1> HIDE DEF s, n
<1>5. Len(s) = n
  BY <1>2, <1>4
<1>6. Len(s) \in Nat /\ \A i \in 1..Len(s) : s[i] \in V
  BY <1>2, <1>4, <1>5
<1> QED BY <1>6 DEF s, V

\* A vector that is tried gets what it expects.
LEMMA TriedVector ==
  ASSUME NEW v, Try(BlockRoot[world], v), Verdict(BlockRoot[world], v.claim) = v.expected
  PROVE  VectorsHold'
<1>1. vector' = [expected |-> v.expected, verdict |-> Verdict(BlockRoot[world], v.claim)]
  BY Zenon DEF Try
<1>2. vector'.verdict = Verdict(BlockRoot[world], v.claim) /\ vector'.expected = v.expected
  BY <1>1
<1> QED BY <1>2 DEF VectorsHold

\* The vector devnet-plan carries out is a valid claim of the file.
LEMMA CarriedOutClaim ==
  ASSUME NEW i, NEW w, w \in World, i \in 0..Len(TestVectorFile(w).claims),
         CarryOut(BuildPlan(TestVectorFile(w), i))
  PROVE  \E v \in ValidClaims(w) :
           \E u : u.claim = v.claim /\ u.expected = v.expected /\ Try(BlockRoot[w], u)
<1> DEFINE file == TestVectorFile(w)
           s == SetToSeq(ValidClaims(w))
           plan == BuildPlan(file, i)
<1>1. file.claims = s /\ file.blockRoot = BlockRoot[w]
  BY DEF TestVectorFile
<1>2. Len(s) \in Nat /\ \A j \in 1..Len(s) : s[j] \in ValidClaims(w)
  BY ListedClaims
<1>3. "error" \notin DOMAIN plan /\ Try(plan.setRoot, Vector(plan.claimReward, plan.expectedRecipient))
  BY Zenon DEF CarryOut
<1> HIDE DEF file, s
<1>4. i \in 0..Len(s)
  BY <1>1 DEF file
<1>5. i < Len(s)
  <2>1. SUFFICES ASSUME i >= Len(s) PROVE FALSE
    BY <1>2, <1>4
  <2>2. plan = [error |-> "claim index out of range"]
    BY <1>1, <2>1 DEF BuildPlan, Error
  <2> HIDE DEF plan
  <2> QED BY <1>3, <2>2
<1> DEFINE v == s[i + 1]
<1>6. v \in ValidClaims(w)
  BY <1>2, <1>4, <1>5
<1>7. plan = [setRoot |-> BlockRoot[w], claimReward |-> v.claim, expectedRecipient |-> v.expected]
  <2>1. ~ (i >= Len(file.claims))
    BY <1>1, <1>2, <1>4, <1>5
  <2> QED BY <1>1, <2>1 DEF BuildPlan
<1> HIDE DEF v, plan
<1>8. plan.setRoot = BlockRoot[w] /\ plan.claimReward = v.claim /\ plan.expectedRecipient = v.expected
  BY <1>7
<1> DEFINE u == Vector(v.claim, v.expected)
<1>9. u.claim = v.claim /\ u.expected = v.expected
  BY DEF Vector
<1>10. Try(BlockRoot[w], u)
  BY <1>3, <1>8
<1> HIDE DEF u
<1> QED BY <1>6, <1>9, <1>10

\* It gets what it expects as well.
LEMMA CarriedOutVector ==
  ASSUME NEW i, world \in World, i \in 0..Len(TestVectorFile(world).claims),
         CarryOut(BuildPlan(TestVectorFile(world), i))
  PROVE  VectorsHold'
<1>1. PICK v \in ValidClaims(world) :
        \E u : u.claim = v.claim /\ u.expected = v.expected /\ Try(BlockRoot[world], u)
  BY CarriedOutClaim
<1>2. PICK u : u.claim = v.claim /\ u.expected = v.expected /\ Try(BlockRoot[world], u)
  BY <1>1
<1>3. Verdict(BlockRoot[world], v.claim) = v.expected
  BY ValidClaim
<1>4. Verdict(BlockRoot[world], u.claim) = u.expected
  BY <1>2, <1>3
<1> QED BY <1>2, <1>4, TriedVector

\* Every test vector gets from claimReward what its file expects: the payment to the
\* address of the credentials or the error named, whichever check fails first; so
\* does the vector devnet-plan carries out.
THEOREM VectorsAlwaysHold == VSpec => []VectorsHold
<1> DEFINE Inv == world \in World /\ VectorsHold
<1>1. VInit => Inv
  BY DEF VInit, Init, VectorsHold
<1>2. Inv /\ [VNext]_vectorVars => VectorsHold'
  <2> SUFFICES ASSUME Inv, [VNext]_vectorVars PROVE VectorsHold'
    OBVIOUS
  <2>1. CASE vector' = vector
    BY <2>1 DEF VectorsHold
  <2>2. ASSUME NEW i \in 0..Len(TestVectorFile(world).claims),
               CarryOut(BuildPlan(TestVectorFile(world), i))
        PROVE  VectorsHold'
    BY <2>2, CarriedOutVector
  <2>3. ASSUME NEW v \in TestVectorFile(world).invalidClaims, Try(TestVectorFile(world).blockRoot, v)
        PROVE  VectorsHold'
    <3>1. Verdict(BlockRoot[world], v.claim) = v.expected
      BY <2>3, InvalidClaimVerdict
    <3>2. TestVectorFile(world).blockRoot = BlockRoot[world]
      BY DEF TestVectorFile
    <3> QED BY <2>3, <3>1, <3>2, TriedVector
  <2> QED BY <2>1, <2>2, <2>3, Zenon DEF VNext, vectorVars
<1> QED BY <1>1, <1>2, WorldStays, PTL DEF VSpec

-----------------------------------------------------------------------------
\* Vectors as claims.

\* What a vector claims are arguments a call can have.
LEMMA BundleIsClaim ==
  ASSUME NEW c, NEW w, NEW i, IsBundleOf(c, w, i)
  PROVE  IsClaim(c)
<1>1. BundleTypes(c)
  BY BundlesAreTyped
<1> QED BY <1>1 DEF BundleTypes, IsClaim

\* A claim with other arguments is one too ...
LEMMA ArgumentsAreClaim ==
  ASSUME NEW t, NEW c, NEW s, NEW e, NEW k, NEW p, NEW q, NEW r, IsClaim(c),
         IsArguments(t, c.consolidationIndex, s, e, k, p, q, r),
         s \in Nat, e \in Nat
  PROVE  IsClaim(t)
BY DEF IsClaim, IsArguments

\* ... as the tampered, wrong and swapped ones are ...
LEMMA ChangedClaim ==
  ASSUME NEW c, NEW w, NEW i, NEW v, IsBundleOf(c, w, i), c.activationEpoch < MaxEpoch,
         v \in TamperedClaims(c) \cup WrongClaims(c) \cup SwappedClaims(c)
  PROVE  IsClaim(v.claim)
<1> DEFINE a == c.consolidationIndex
           s == c.sourceIndex
           e == c.activationEpoch
           k == c.sourceCredentials
           p == c.proofConsolidation
           q == c.proofCredentials
           r == c.proofActivationEpoch
           t == v.claim
<1>1. IsClaim(c)
  BY BundleIsClaim
<1>2. IsArguments(c, a, s, e, k, p, q, r)
  BY BundleArguments
<1>3. s \in Nat /\ e \in Nat /\ MaxEpoch \in Nat
  BY <1>1, VectorAssumption DEF IsClaim
<1>4. \/ \E x : t = [c EXCEPT !.proofConsolidation = x]
      \/ \E x : t = [c EXCEPT !.proofCredentials = x]
      \/ \E x : t = [c EXCEPT !.proofActivationEpoch = x]
      \/ \E x \in 0..2^ValidatorListDepth : t = [c EXCEPT !.sourceIndex = x]
      \/ \E x : t = [c EXCEPT !.sourceCredentials = x]
      \/ t = [c EXCEPT !.activationEpoch = MaxEpoch - 1]
  <2>1. CASE v \in TamperedClaims(c)
    <3>1. \/ t = [c EXCEPT !.proofConsolidation = TamperProof(p)]
          \/ t = [c EXCEPT !.proofCredentials = TamperProof(q)]
          \/ t = [c EXCEPT !.proofActivationEpoch = TamperProof(r)]
      BY <2>1 DEF TamperedClaims, Vector
    <3> HIDE DEF t
    <3> QED BY <3>1, Zenon
  <2>2. CASE v \in SwappedClaims(c)
    <3>1. t = [c EXCEPT !.proofCredentials = p]
      BY <2>2 DEF SwappedClaims, Vector
    <3> HIDE DEF t
    <3> QED BY <3>1, Zenon
  <2>3. CASE v \in WrongClaims(c)
    <3>1. PICK u : /\ v = Vector(u, "InvalidProof")
                   /\ u \in {[c EXCEPT !.sourceIndex = x] : x \in (0..2^ValidatorListDepth) \ {s}}
                            \cup {[c EXCEPT !.sourceCredentials[4] = 255 - @]}
                            \cup {[c EXCEPT !.activationEpoch = x] : x \in {MaxEpoch - 1} \ {e}}
      BY <2>3, Zenon DEF WrongClaims
    <3>2. t = u
      BY <3>1 DEF Vector
    <3>3. [c EXCEPT !.sourceCredentials[4] = 255 - @]
            = [c EXCEPT !.sourceCredentials = [k EXCEPT ![4] = 255 - @]]
      OBVIOUS
    <3> HIDE DEF t, s, k, e
    <3>4. \/ \E x \in 0..2^ValidatorListDepth : t = [c EXCEPT !.sourceIndex = x]
          \/ t = [c EXCEPT !.sourceCredentials = [k EXCEPT ![4] = 255 - @]]
          \/ t = [c EXCEPT !.activationEpoch = MaxEpoch - 1]
      BY <3>1, <3>2, <3>3
    <3> QED BY <3>4, Zenon
  <2> QED BY <2>1, <2>2, <2>3
<1> HIDE DEF a, s, e, k, p, q, r, t
<1>5. ASSUME NEW x, t = [c EXCEPT !.proofConsolidation = x] PROVE IsClaim(t)
  <2>1. IsArguments(t, a, s, e, k, x, q, r)
    BY <1>2, <1>5, ChangedArgument
  <2> QED BY <1>1, <1>3, <2>1, ArgumentsAreClaim DEF a
<1>6. ASSUME NEW x, t = [c EXCEPT !.proofCredentials = x] PROVE IsClaim(t)
  <2>1. IsArguments(t, a, s, e, k, p, x, r)
    BY <1>2, <1>6, ChangedArgument
  <2> QED BY <1>1, <1>3, <2>1, ArgumentsAreClaim DEF a
<1>7. ASSUME NEW x, t = [c EXCEPT !.proofActivationEpoch = x] PROVE IsClaim(t)
  <2>1. IsArguments(t, a, s, e, k, p, q, x)
    BY <1>2, <1>7, ChangedArgument
  <2> QED BY <1>1, <1>3, <2>1, ArgumentsAreClaim DEF a
<1>8. ASSUME NEW x \in 0..2^ValidatorListDepth, t = [c EXCEPT !.sourceIndex = x] PROVE IsClaim(t)
  <2>1. IsArguments(t, a, x, e, k, p, q, r)
    BY <1>2, <1>8, ChangedArgument
  <2>2. x \in Nat
    OBVIOUS
  <2> QED BY <1>1, <1>3, <2>1, <2>2, ArgumentsAreClaim DEF a
<1>9. ASSUME NEW x, t = [c EXCEPT !.sourceCredentials = x] PROVE IsClaim(t)
  <2>1. IsArguments(t, a, s, e, x, p, q, r)
    BY <1>2, <1>9, ChangedArgument
  <2> QED BY <1>1, <1>3, <2>1, ArgumentsAreClaim DEF a
<1>10. ASSUME t = [c EXCEPT !.activationEpoch = MaxEpoch - 1] PROVE IsClaim(t)
  <2> DEFINE x == MaxEpoch - 1
  <2>1. x \in Nat
    BY <1>3 DEF e
  <2> HIDE DEF x
  <2>2. IsArguments(t, a, s, x, k, p, q, r)
    BY <1>2, <1>10, ChangedArgument DEF x
  <2> QED BY <1>1, <1>3, <2>1, <2>2, ArgumentsAreClaim DEF a
<1>11. IsClaim(t)
  BY <1>4, <1>5, <1>6, <1>7, <1>8, <1>9, <1>10
<1> QED BY <1>11 DEF t

\* ... and every invalid claim of the file.
LEMMA InvalidClaimIsClaim ==
  ASSUME NEW w, NEW v, w \in World, v \in TestVectorFile(w).invalidClaims
  PROVE  IsClaim(v.claim)
<1>1. v \in IneligibleClaims(w) \cup BLSClaims(w)
              \cup UNION {TamperedClaims(u.claim) \cup WrongClaims(u.claim)
                            \cup SwappedClaims(u.claim) : u \in ValidClaims(w)}
  BY DEF TestVectorFile
<1>2. ASSUME NEW i \in 0..Len(w.pending) - 1, NEW x, Refusal(w, i) = "none",
             v = Vector(Bundle(w, i), x)
      PROVE  IsClaim(v.claim)
  <2> DEFINE c == Bundle(w, i)
  <2>1. IsBundleOf(c, w, i)
    BY <1>2, BundleOfState
  <2>2. v.claim = c
    BY <1>2 DEF Vector
  <2> HIDE DEF c
  <2> QED BY <2>1, <2>2, BundleIsClaim
<1>3. CASE v \in IneligibleClaims(w)
  BY <1>2, <1>3, Zenon DEF IneligibleClaims
<1>4. CASE v \in BLSClaims(w)
  BY <1>2, <1>4, Zenon DEF BLSClaims
<1>5. CASE \E u \in ValidClaims(w) :
             v \in TamperedClaims(u.claim) \cup WrongClaims(u.claim) \cup SwappedClaims(u.claim)
  <2>1. PICK u \in ValidClaims(w) :
          v \in TamperedClaims(u.claim) \cup WrongClaims(u.claim) \cup SwappedClaims(u.claim)
    BY <1>5
  <2> DEFINE c == u.claim
  <2>2. c.activationEpoch < MaxEpoch /\ \E i : IsBundleOf(c, w, i)
    BY ValidClaim
  <2>3. v \in TamperedClaims(c) \cup WrongClaims(c) \cup SwappedClaims(c)
    BY <2>1
  <2> HIDE DEF c
  <2> QED BY <2>2, <2>3, ChangedClaim
<1> QED BY <1>1, <1>3, <1>4, <1>5

\* A vector tried is a claim like any other.
LEMMA TriedClaim ==
  ASSUME NEW v, world \in World, Try(BlockRoot[world], v), IsClaim(v.claim)
  PROVE  VerdictInv' /\ ProverBundlesVerify'
<1> DEFINE c == v.claim
<1>1. Judge(c, FALSE)
  BY Zenon DEF Try
<1> HIDE DEF c
<1>2. VerdictInv'
  BY <1>1, JudgedClaim DEF c
<1>3. byProver' = FALSE
  BY <1>1 DEF Judge
<1> QED BY <1>2, <1>3 DEF ProverBundlesVerify

\* The properties of SSZMerkle hold of the vectors and the plan as they do of calls.
THEOREM VectorsAreJudgedAlike ==
  VSpec => [](ProverBundlesVerify /\ AcceptedIsTrue /\ GindexesAgree /\ VerifiersAgree)
<1> DEFINE Inv == VerdictInv /\ ProverBundlesVerify
<1>1. VInit => Inv
  BY InitGivesVerdicts DEF VInit, Init, ProverBundlesVerify
<1>2. Inv /\ [VNext]_vectorVars => Inv'
  <2> SUFFICES ASSUME Inv, [VNext]_vectorVars PROVE Inv'
    OBVIOUS
  <2>0. world \in World
    BY DEF VerdictInv
  <2>1. CASE [Next]_vars
    BY <2>0, <2>1, NextKeepsVerdicts, NextKeepsBundles
  <2>2. ASSUME NEW i \in 0..Len(TestVectorFile(world).claims),
               CarryOut(BuildPlan(TestVectorFile(world), i))
        PROVE  Inv'
    <3>1. PICK v \in ValidClaims(world) :
            \E u : u.claim = v.claim /\ u.expected = v.expected /\ Try(BlockRoot[world], u)
      BY <2>0, <2>2, CarriedOutClaim
    <3>2. PICK u : u.claim = v.claim /\ u.expected = v.expected /\ Try(BlockRoot[world], u)
      BY <3>1
    <3>3. PICK j : IsBundleOf(v.claim, world, j)
      BY <2>0, ValidClaim
    <3>4. IsClaim(u.claim)
      BY <3>2, <3>3, BundleIsClaim
    <3> QED BY <2>0, <3>2, <3>4, TriedClaim
  <2>3. ASSUME NEW v \in TestVectorFile(world).invalidClaims, Try(TestVectorFile(world).blockRoot, v)
        PROVE  Inv'
    <3>1. IsClaim(v.claim)
      BY <2>0, <2>3, InvalidClaimIsClaim
    <3>2. TestVectorFile(world).blockRoot = BlockRoot[world]
      BY DEF TestVectorFile
    <3> QED BY <2>0, <2>3, <3>1, <3>2, TriedClaim
  <2>4. CASE UNCHANGED vectorVars
    BY <2>1, <2>4, Zenon DEF vectorVars
  <2>5. VNext \/ UNCHANGED vectorVars
    OBVIOUS
  <2> HIDE DEF Inv
  <2> QED BY <2>1, <2>2, <2>3, <2>4, <2>5, Zenon DEF VNext
<1>3. Inv => ProverBundlesVerify /\ AcceptedIsTrue /\ VerifiersAgree
  BY DEF VerdictInv
<1>4. GindexesAgree
  BY GindexesAlwaysAgree
<1> QED BY <1>1, <1>2, <1>3, GindexesAlwaysAgree, PTL DEF VSpec
================================================================================
