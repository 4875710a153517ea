------------------------ MODULE OwnershipClaimProofs ------------------------
(***************************************************************************)
(* The tree and the claim, for a tree of any depth, words of any width,    *)
(* any prime and any market id, any number of bets.                        *)
(*                                                                         *)
(* The tree: below a capacity of 2^Depth the left nodes that insert_leaf   *)
(* keeps are those of the complete tree, so the root is its root           *)
(* (TreeInv).  Hashes without collisions then lead from the root down to   *)
(* the one leaf of a position (PathDetermines).                            *)
(*                                                                         *)
(* The words: ge_bytes and sub_bytes are the order and the difference of   *)
(* the numbers the words stand for, and so reduce_mod_bn254 computes the   *)
(* remainder (GeLaw, SubLaw, ReducedLaw).                                  *)
(*                                                                         *)
(* The claim: the circuit fixes the field element of the nullifier, the    *)
(* verifier the word that stands for it, and the program keeps the words   *)
(* it has seen (SpendInv).                                                 *)
(***************************************************************************)
EXTENDS OwnershipClaim, InductionLemmas, SequenceTheorems

-----------------------------------------------------------------------------
(* The recursions over the levels of the tree.                             *)

(* A path from a leaf, with a neighbour on one side at each level.         *)
PathTo(n, leaf, neighbour, right, g) ==
    g = [l \in 0 .. n |->
            IF l = 0 THEN leaf
            ELSE IF right[l - 1] THEN Hash(neighbour[l - 1], g[l - 1])
                 ELSE Hash(g[l - 1], neighbour[l - 1])]

(* Every leaf has such a path.                                             *)
LEMMA PathExists ==
    ASSUME NEW leaf, NEW neighbour, NEW right, NEW n \in Nat
    PROVE  \E g : PathTo(n, leaf, neighbour, right, g)
  <1> DEFINE T == {k \in Nat : \E g : PathTo(k, leaf, neighbour, right, g)}
  <1>1. 0 \in T
    <2> DEFINE g == [l \in 0 .. 0 |-> leaf]
    <2>1. PathTo(0, leaf, neighbour, right, g)
      BY DEF PathTo
    <2> QED  BY <2>1
  <1>2. ASSUME NEW k \in Nat, k \in T
        PROVE  k + 1 \in T
    <2>1. PICK g : PathTo(k, leaf, neighbour, right, g)
      BY <1>2
    <2> DEFINE last == IF right[k] THEN Hash(neighbour[k], g[k]) ELSE Hash(g[k], neighbour[k])
               more == [l \in 0 .. k + 1 |-> IF l = k + 1 THEN last ELSE g[l]]
    <2>2. \A l \in 0 .. k + 1 : l # 0 => l - 1 \in 0 .. k /\ more[l - 1] = g[l - 1]
      OBVIOUS
    <2>3. ASSUME NEW l \in 0 .. k + 1
          PROVE  more[l] = IF l = 0 THEN leaf
                           ELSE IF right[l - 1] THEN Hash(neighbour[l - 1], more[l - 1])
                                ELSE Hash(more[l - 1], neighbour[l - 1])
      <3>1. CASE l = k + 1
        <4>1. l # 0 /\ l - 1 = k /\ more[l] = last
          BY <3>1
        <4>2. more[l - 1] = g[k]
          BY <2>2, <4>1
        <4> HIDE DEF more
        <4> QED  BY <4>1, <4>2
      <3>2. CASE l # k + 1
        <4>1. l \in 0 .. k /\ more[l] = g[l]
          BY <3>2
        <4>2. l # 0 => more[l - 1] = g[l - 1]
          BY <2>2
        <4> HIDE DEF more
        <4> QED  BY <2>1, <4>1, <4>2 DEF PathTo
      <3> QED  BY <3>1, <3>2
    <2>4. PathTo(k + 1, leaf, neighbour, right, more)
      <3>1. more = [l \in 0 .. k + 1 |-> more[l]]
        OBVIOUS
      <3> HIDE DEF more
      <3> QED  BY <2>3, <3>1 DEF PathTo
    <2> HIDE DEF more
    <2> QED  BY <2>4
  <1> HIDE DEF T
  <1>3. n \in T
    BY <1>1, <1>2, NumberInduction
  <1> QED  BY <1>3 DEF T

(* compute_zero_hashes, level by level.                                    *)
LEMMA ZeroLaw ==
    /\ ZeroHashes(0) = Zero
    /\ \A l \in Levels : ZeroHashes(l + 1) = Hash(ZeroHashes(l), ZeroHashes(l))
  <1> DEFINE ZerosTo(n, g) ==
                 g = [l \in 0 .. n |-> IF l = 0 THEN Zero ELSE Hash(g[l - 1], g[l - 1])]
             T == {k \in Nat : \E g : ZerosTo(k, g)}
  <1>1. 0 \in T
    <2> DEFINE g == [l \in 0 .. 0 |-> Zero]
    <2>1. ZerosTo(0, g)
      OBVIOUS
    <2> QED  BY <2>1
  <1>2. ASSUME NEW k \in Nat, k \in T
        PROVE  k + 1 \in T
    <2>1. PICK g : ZerosTo(k, g)
      BY <1>2
    <2> DEFINE more == [l \in 0 .. k + 1 |-> IF l = k + 1 THEN Hash(g[k], g[k]) ELSE g[l]]
    <2>2. \A l \in 0 .. k + 1 : l # 0 => l - 1 \in 0 .. k /\ more[l - 1] = g[l - 1]
      OBVIOUS
    <2>3. ASSUME NEW l \in 0 .. k + 1
          PROVE  more[l] = IF l = 0 THEN Zero ELSE Hash(more[l - 1], more[l - 1])
      <3>1. CASE l = k + 1
        <4>1. l # 0 /\ l - 1 = k /\ more[l] = Hash(g[k], g[k])
          BY <3>1
        <4>2. more[l - 1] = g[k]
          BY <2>2, <4>1
        <4> HIDE DEF more
        <4> QED  BY <4>1, <4>2
      <3>2. CASE l # k + 1
        <4>1. l \in 0 .. k /\ more[l] = g[l]
          BY <3>2
        <4>2. l # 0 => more[l - 1] = g[l - 1]
          BY <2>2
        <4> HIDE DEF more
        <4> QED  BY <2>1, <4>1, <4>2
      <3> QED  BY <3>1, <3>2
    <2>4. ZerosTo(k + 1, more)
      <3>1. more = [l \in 0 .. k + 1 |-> more[l]]
        OBVIOUS
      <3> HIDE DEF more
      <3> QED  BY <2>3, <3>1
    <2> HIDE DEF more
    <2> QED  BY <2>4
  <1> HIDE DEF T
  <1>3. Depth \in T
    BY <1>1, <1>2, NumberInduction, DepthAssumption
  <1>4. \E g : ZerosTo(Depth, g)
    BY <1>3 DEF T
  <1> DEFINE zeros == CHOOSE g : ZerosTo(Depth, g)
  <1>5. ZerosTo(Depth, zeros)
    <2> HIDE DEF ZerosTo
    <2> QED  BY <1>4, Zenon
  <1>6. \A l : ZeroHashes(l) = zeros[l]
    BY DEF ZeroHashes
  <1> HIDE DEF zeros
  <1>7. \A l \in 0 .. Depth :
            zeros[l] = IF l = 0 THEN Zero ELSE Hash(zeros[l - 1], zeros[l - 1])
    BY <1>5
  <1> HIDE DEF ZerosTo
  <1>8. \A l \in Levels : /\ l + 1 \in 0 .. Depth /\ l + 1 # 0 /\ (l + 1) - 1 = l
                          /\ 0 \in 0 .. Depth
    BY DepthAssumption DEF Levels
  <1>9. 0 \in Levels
    BY DepthAssumption DEF Levels
  <1> QED  BY <1>6, <1>7, <1>8, <1>9

(* The complete tree, level by level.                                      *)
LEMMA NodeLaw ==
    /\ \A m \in Nat : Node(0, m) = IF m < Len(inserted) THEN inserted[m + 1] ELSE Zero
    /\ \A l \in Levels : \A m \in Nat :
           Node(l + 1, m) = Hash(Node(l, 2 * m), Node(l, 2 * m + 1))
  <1> DEFINE bottom == [m \in Nat |-> IF m < Len(inserted) THEN inserted[m + 1] ELSE Zero]
             above(r) == [m \in Nat |-> Hash(r[2 * m], r[2 * m + 1])]
             RowsTo(n, g) == g = [l \in 0 .. n |-> IF l = 0 THEN bottom ELSE above(g[l - 1])]
             T == {k \in Nat : \E g : RowsTo(k, g)}
             row == CHOOSE g : RowsTo(Depth, g)
  <1>1. \A l, m : Node(l, m) = row[l][m]
    BY DEF Node
  <1>2. \A m \in Nat : bottom[m] = IF m < Len(inserted) THEN inserted[m + 1] ELSE Zero
    OBVIOUS
  <1>3. \A r : \A m \in Nat : above(r)[m] = Hash(r[2 * m], r[2 * m + 1])
    OBVIOUS
  <1> HIDE DEF bottom, above
  <1>4. 0 \in T
    <2> DEFINE g == [l \in 0 .. 0 |-> bottom]
    <2>1. RowsTo(0, g)
      OBVIOUS
    <2> QED  BY <2>1
  <1>5. ASSUME NEW k \in Nat, k \in T
        PROVE  k + 1 \in T
    <2>1. PICK g : RowsTo(k, g)
      BY <1>5
    <2> DEFINE more == [l \in 0 .. k + 1 |-> IF l = k + 1 THEN above(g[k]) ELSE g[l]]
    <2>2. \A l \in 0 .. k + 1 : l # 0 => l - 1 \in 0 .. k /\ more[l - 1] = g[l - 1]
      OBVIOUS
    <2>3. ASSUME NEW l \in 0 .. k + 1
          PROVE  more[l] = IF l = 0 THEN bottom ELSE above(more[l - 1])
      <3>1. CASE l = k + 1
        <4>1. l # 0 /\ l - 1 = k /\ more[l] = above(g[k])
          BY <3>1
        <4>2. more[l - 1] = g[k]
          BY <2>2, <4>1
        <4> HIDE DEF more
        <4> QED  BY <4>1, <4>2
      <3>2. CASE l # k + 1
        <4>1. l \in 0 .. k /\ more[l] = g[l]
          BY <3>2
        <4>2. l # 0 => more[l - 1] = g[l - 1]
          BY <2>2
        <4> HIDE DEF more
        <4> QED  BY <2>1, <4>1, <4>2
      <3> QED  BY <3>1, <3>2
    <2>4. RowsTo(k + 1, more)
      <3>1. more = [l \in 0 .. k + 1 |-> more[l]]
        OBVIOUS
      <3> HIDE DEF more
      <3> QED  BY <2>3, <3>1
    <2> HIDE DEF more
    <2> QED  BY <2>4
  <1> HIDE DEF T
  <1>6. Depth \in T
    BY <1>4, <1>5, NumberInduction, DepthAssumption
  <1>7. \E g : RowsTo(Depth, g)
    BY <1>6 DEF T
  <1>8. RowsTo(Depth, row)
    <2> HIDE DEF RowsTo
    <2> QED  BY <1>7, Zenon
  <1> HIDE DEF row
  <1>9. \A l \in 0 .. Depth : row[l] = IF l = 0 THEN bottom ELSE above(row[l - 1])
    BY <1>8
  <1> HIDE DEF RowsTo
  <1>10. \A l \in Levels : l + 1 \in 0 .. Depth /\ l + 1 # 0 /\ (l + 1) - 1 = l
    BY DepthAssumption DEF Levels
  <1>11. row[0] = bottom
    <2>1. 0 \in 0 .. Depth
      BY DepthAssumption
    <2> QED  BY <1>9, <2>1
  <1>12. \A l \in Levels : row[l + 1] = above(row[l])
    BY <1>9, <1>10
  <1>13. ASSUME NEW l \in Levels, NEW m \in Nat
         PROVE  Node(l + 1, m) = Hash(Node(l, 2 * m), Node(l, 2 * m + 1))
    BY <1>1, <1>3, <1>12
  <1>14. \A m \in Nat : Node(0, m) = IF m < Len(inserted) THEN inserted[m + 1] ELSE Zero
    BY <1>1, <1>2, <1>11
  <1> QED  BY <1>13, <1>14

(* current_index as it is halved.                                          *)
LEMMA IndexLaw ==
    ASSUME NEW n \in Nat
    PROVE  /\ IndexAt(n, 0) = n
           /\ \A l \in Levels : IndexAt(n, l + 1) = IndexAt(n, l) \div 2
           /\ \A l \in 0 .. Depth : IndexAt(n, l) \in Nat
  <1> DEFINE step == [k \in Nat |-> [v \in Nat |-> v \div 2]]
  <1>1. step \in [Nat -> [Nat -> Nat]] /\ \A k, v \in Nat : step[k][v] = v \div 2
    OBVIOUS
  <1> HIDE DEF step
  <1>2. PICK f \in [Nat -> Nat] : f[0] = n /\ \A k \in Nat : f[k + 1] = step[k][f[k]]
    BY <1>1, NumberRecursion
  <1>3. \A k \in Nat : f[k] \in Nat /\ f[k + 1] = f[k] \div 2
    BY <1>1, <1>2
  <1> DEFINE Halved(h) == h = [l \in 0 .. Depth |-> IF l = 0 THEN n ELSE h[l - 1] \div 2]
             g == [l \in 0 .. Depth |-> f[l]]
             at == CHOOSE h : Halved(h)
  <1>4. \A l : IndexAt(n, l) = at[l]
    BY DEF IndexAt
  <1>5. Halved(g)
    <2>1. ASSUME NEW l \in 0 .. Depth
          PROVE  g[l] = IF l = 0 THEN n ELSE g[l - 1] \div 2
      <3>1. CASE l = 0
        BY <1>2, <3>1
      <3>2. CASE l # 0
        <4>1. l - 1 \in Nat /\ l - 1 \in 0 .. Depth /\ (l - 1) + 1 = l
          BY <3>2, DepthAssumption
        <4>2. f[l] = f[l - 1] \div 2
          BY <1>3, <4>1
        <4> QED  BY <3>2, <4>1, <4>2
      <3> QED  BY <3>1, <3>2
    <2>2. g = [l \in 0 .. Depth |-> g[l]]
      OBVIOUS
    <2> HIDE DEF g, at
    <2> QED  BY <2>1, <2>2
  <1>6. Halved(at)
    <2> HIDE DEF Halved, g
    <2> QED  BY <1>5, Zenon
  <1> HIDE DEF at
  <1>7. \A l \in 0 .. Depth : at[l] = IF l = 0 THEN n ELSE at[l - 1] \div 2
    BY <1>6
  <1> HIDE DEF Halved, g
  <1>8. at[0] = n
    <2>1. 0 \in 0 .. Depth
      BY DepthAssumption
    <2> QED  BY <1>7, <2>1
  <1>9. \A l \in Levels : at[l + 1] = at[l] \div 2
    <2>1. \A l \in Levels : l + 1 \in 0 .. Depth /\ l + 1 # 0 /\ (l + 1) - 1 = l
      BY DepthAssumption DEF Levels
    <2> QED  BY <1>7, <2>1
  <1>10. \A l \in 0 .. Depth : at[l] \in Nat
    <2> DEFINE T == {l \in Nat : l <= Depth => at[l] \in Nat}
    <2>1. 0 \in T
      BY <1>8
    <2>2. ASSUME NEW l \in Nat, l \in T
          PROVE  l + 1 \in T
      <3> SUFFICES ASSUME l + 1 <= Depth PROVE at[l + 1] \in Nat
        OBVIOUS
      <3>1. l \in Levels /\ at[l] \in Nat
        BY <2>2, DepthAssumption DEF Levels
      <3>2. at[l] \div 2 \in Nat
        BY <3>1
      <3> QED  BY <1>9, <3>1, <3>2
    <2> HIDE DEF T
    <2>3. Nat \subseteq T
      BY <2>1, <2>2, NumberInduction
    <2> QED  BY <2>3, DepthAssumption DEF T
  <1> QED  BY <1>4, <1>8, <1>9, <1>10

(* The recursion of PowerOfTwo has a solution, in the naturals.            *)
LEMMA PowerOfTwoLaw ==
    /\ PowerOfTwo[0] = 1
    /\ \A k \in Nat : PowerOfTwo[k + 1] = 2 * PowerOfTwo[k]
    /\ \A k \in Nat : PowerOfTwo[k] \in Nat
  <1> DEFINE step == [k \in Nat |-> [v \in Nat |-> 2 * v]]
  <1>1. step \in [Nat -> [Nat -> Nat]] /\ \A k, v \in Nat : step[k][v] = 2 * v
    OBVIOUS
  <1> HIDE DEF step
  <1>2. PICK f \in [Nat -> Nat] : f[0] = 1 /\ \A k \in Nat : f[k + 1] = step[k][f[k]]
    <2>1. 1 \in Nat
      OBVIOUS
    <2> QED  BY <1>1, <2>1, NumberRecursion
  <1>3. \A k \in Nat : f[k + 1] = 2 * f[k]
    BY <1>1, <1>2
  <1>4. f = [k \in Nat |-> IF k = 0 THEN 1 ELSE 2 * f[k - 1]]
    <2>1. ASSUME NEW k \in Nat
          PROVE  f[k] = IF k = 0 THEN 1 ELSE 2 * f[k - 1]
      <3>1. CASE k = 0
        BY <3>1, <1>2
      <3>2. CASE k # 0
        <4>1. k - 1 \in Nat /\ (k - 1) + 1 = k
          BY <3>2
        <4> QED  BY <1>3, <3>2, <4>1
      <3> QED  BY <3>1, <3>2
    <2> QED  BY <1>2, <2>1
  <1>5. PowerOfTwo = [k \in Nat |-> IF k = 0 THEN 1 ELSE 2 * PowerOfTwo[k - 1]]
    BY <1>4 DEF PowerOfTwo
  <1>6. PowerOfTwo[0] = 1 /\ \A k \in Nat : PowerOfTwo[k + 1] = 2 * PowerOfTwo[k]
    <2>1. \A k \in Nat : k + 1 \in Nat /\ k + 1 # 0 /\ (k + 1) - 1 = k
      OBVIOUS
    <2> QED  BY <1>5, <2>1
  <1>7. \A k \in Nat : PowerOfTwo[k] \in Nat
    <2> DEFINE T == {k \in Nat : PowerOfTwo[k] \in Nat}
    <2>1. 0 \in T /\ \A k \in Nat : k \in T => k + 1 \in T
      BY <1>6
    <2> HIDE DEF T
    <2>2. Nat \subseteq T
      BY <2>1, NumberInduction
    <2> QED  BY <2>2 DEF T
  <1> QED  BY <1>6, <1>7

(* The capacity is a number.                                               *)
LEMMA CapacityType == Capacity \in Nat
  BY PowerOfTwoLaw, DepthAssumption DEF Capacity

(* The first position is first at every level.                             *)
LEMMA IndexOfZero == \A l \in 0 .. Depth : IndexAt(0, l) = 0
  <1> DEFINE T == {l \in Nat : l <= Depth => IndexAt(0, l) = 0}
  <1>1. 0 \in T
    BY IndexLaw
  <1>2. ASSUME NEW l \in Nat, l \in T
        PROVE  l + 1 \in T
    <2> SUFFICES ASSUME l + 1 <= Depth PROVE IndexAt(0, l + 1) = 0
      OBVIOUS
    <2>1. l \in Levels /\ IndexAt(0, l) = 0 /\ 0 \in Nat
      BY <1>2, DepthAssumption DEF Levels
    <2> QED  BY <2>1, IndexLaw
  <1> HIDE DEF T
  <1>3. Nat \subseteq T
    BY <1>1, <1>2, NumberInduction
  <1> QED  BY <1>3, DepthAssumption DEF T

(* A position within the capacity is halved to 0.                          *)
LEMMA TopIndex ==
    ASSUME NEW n \in Nat, n < Capacity
    PROVE  IndexAt(n, Depth) = 0
  <1> DEFINE T == {l \in Nat : l <= Depth => IndexAt(n, l) < PowerOfTwo[Depth - l]}
  <1>8. 0 \in T
    <2>1. Depth - 0 = Depth
      BY DepthAssumption
    <2> QED  BY <2>1, IndexLaw DEF Capacity
  <1>9. ASSUME NEW l \in Nat, l \in T
        PROVE  l + 1 \in T
    <2> SUFFICES ASSUME l + 1 <= Depth PROVE IndexAt(n, l + 1) < PowerOfTwo[Depth - (l + 1)]
      OBVIOUS
    <2> DEFINE k == Depth - (l + 1)
    <2>1. k \in Nat /\ k + 1 = Depth - l /\ l \in Levels /\ l \in 0 .. Depth
      BY DepthAssumption DEF Levels
    <2>2. PICK p \in Nat : p = PowerOfTwo[k]
      BY <2>1, PowerOfTwoLaw
    <2>3. PICK i \in Nat : i = IndexAt(n, l)
      BY <2>1, IndexLaw
    <2>4. i < 2 * p
      <3>1. PowerOfTwo[k + 1] = 2 * PowerOfTwo[k]
        BY <2>1, PowerOfTwoLaw
      <3>2. IndexAt(n, l) < PowerOfTwo[Depth - l]
        BY <1>9, <2>1, DepthAssumption
      <3> QED  BY <2>1, <2>2, <2>3, <3>1, <3>2
    <2>5. IndexAt(n, l + 1) = i \div 2
      BY <2>1, <2>3, IndexLaw
    <2>6. i \div 2 < p
      BY <2>4
    <2> QED  BY <2>2, <2>5, <2>6
  <1> HIDE DEF T
  <1>10. Depth \in T
    BY <1>8, <1>9, NumberInduction, DepthAssumption
  <1>11. IndexAt(n, Depth) < PowerOfTwo[Depth - Depth]
    BY <1>10, DepthAssumption DEF T
  <1>12. Depth - Depth = 0 /\ Depth \in 0 .. Depth
    BY DepthAssumption
  <1>13. IndexAt(n, Depth) < 1
    BY <1>11, <1>12, PowerOfTwoLaw
  <1>14. IndexAt(n, Depth) \in Nat
    BY <1>12, IndexLaw
  <1> QED  BY <1>13, <1>14

(* current_hash on its way up.                                             *)
LEMMA ClimbLaw ==
    ASSUME NEW leaf
    PROVE  /\ Climb(leaf)[0] = leaf
           /\ \A l \in Levels :
                  Climb(leaf)[l + 1] =
                      IF IsRight(count, l) THEN Hash(tree[l], Climb(leaf)[l])
                      ELSE Hash(Climb(leaf)[l], ZeroHashes(l))
  <1> DEFINE Climbs(h) ==
                 h = [l \in 0 .. Depth |->
                         IF l = 0 THEN leaf
                         ELSE IF IsRight(count, l - 1) THEN Hash(tree[l - 1], h[l - 1])
                              ELSE Hash(h[l - 1], ZeroHashes(l - 1))]
             right == [l \in Levels |-> IsRight(count, l)]
             neighbour == [l \in Levels |-> IF IsRight(count, l) THEN tree[l] ELSE ZeroHashes(l)]
             hash == CHOOSE h : Climbs(h)
  <1>1. Climb(leaf) = hash
    BY DEF Climb
  <1>2. PICK g : PathTo(Depth, leaf, neighbour, right, g)
    <2> HIDE DEF neighbour, right
    <2> QED  BY PathExists, DepthAssumption
  <1>3. \A l \in 0 .. Depth : l # 0 => l - 1 \in Levels
    BY DepthAssumption DEF Levels
  <1>4. Climbs(g)
    <2>1. ASSUME NEW l \in 0 .. Depth
          PROVE  g[l] = IF l = 0 THEN leaf
                        ELSE IF IsRight(count, l - 1) THEN Hash(tree[l - 1], g[l - 1])
                             ELSE Hash(g[l - 1], ZeroHashes(l - 1))
      BY <1>2, <1>3 DEF PathTo
    <2>2. g = [l \in 0 .. Depth |-> g[l]]
      BY <1>2 DEF PathTo
    <2> QED  BY <2>1, <2>2, Zenon
  <1>5. Climbs(hash)
    <2> HIDE DEF Climbs
    <2> QED  BY <1>4, Zenon
  <1> HIDE DEF hash
  <1>6. \A l \in 0 .. Depth :
            hash[l] = IF l = 0 THEN leaf
                      ELSE IF IsRight(count, l - 1) THEN Hash(tree[l - 1], hash[l - 1])
                           ELSE Hash(hash[l - 1], ZeroHashes(l - 1))
    BY <1>5
  <1> HIDE DEF Climbs, right, neighbour
  <1>7. \A l \in Levels : l + 1 \in 0 .. Depth /\ l + 1 # 0 /\ (l + 1) - 1 = l
    BY DepthAssumption DEF Levels
  <1>8. 0 \in 0 .. Depth
    BY DepthAssumption
  <1> QED  BY <1>1, <1>6, <1>7, <1>8

(* levelHash of the circuit.                                               *)
LEMMA CircuitLaw ==
    ASSUME NEW leaf, NEW sibling, NEW direction
    PROVE  \E h : /\ h[0] = leaf
                  /\ \A l \in Levels : h[l + 1] = Mux(direction[l], h[l], sibling[l])
                  /\ CircuitAccepts(leaf, sibling, direction) <=> h[Depth] = root
  <1> DEFINE Hashes(h) ==
                 h = [i \in 0 .. Depth |->
                         IF i = 0 THEN leaf ELSE Mux(direction[i - 1], h[i - 1], sibling[i - 1])]
             right == [l \in Levels |-> direction[l] # 0]
             levelHash == CHOOSE h : Hashes(h)
  <1>1. CircuitAccepts(leaf, sibling, direction) <=> levelHash[Depth] = root
    BY DEF CircuitAccepts, RootMatches
  <1>2. PICK g : PathTo(Depth, leaf, sibling, right, g)
    <2> HIDE DEF right
    <2> QED  BY PathExists, DepthAssumption
  <1>3. \A l \in 0 .. Depth : l # 0 => l - 1 \in Levels
    BY DepthAssumption DEF Levels
  <1>4. Hashes(g)
    <2>1. ASSUME NEW l \in 0 .. Depth
          PROVE  g[l] = IF l = 0 THEN leaf ELSE Mux(direction[l - 1], g[l - 1], sibling[l - 1])
      BY <1>2, <1>3 DEF PathTo, Mux
    <2>2. g = [l \in 0 .. Depth |-> g[l]]
      BY <1>2 DEF PathTo
    <2> QED  BY <2>1, <2>2, Zenon
  <1>5. Hashes(levelHash)
    <2> HIDE DEF Hashes
    <2> QED  BY <1>4, Zenon
  <1> HIDE DEF levelHash
  <1>6. \A l \in 0 .. Depth :
            levelHash[l] = IF l = 0 THEN leaf
                           ELSE Mux(direction[l - 1], levelHash[l - 1], sibling[l - 1])
    BY <1>5
  <1> HIDE DEF Hashes, right
  <1>7. \A l \in Levels : l + 1 \in 0 .. Depth /\ l + 1 # 0 /\ (l + 1) - 1 = l
    BY DepthAssumption DEF Levels
  <1>8. 0 \in 0 .. Depth
    BY DepthAssumption
  <1> QED  BY <1>1, <1>6, <1>7, <1>8

-----------------------------------------------------------------------------
(* An insertion                                                            *)

(* What an insertion does to the leaves.                                   *)
LEMMA InsertedLeaves ==
    ASSUME NEW S, inserted \in Seq(S), NEW leaf \in S, Len(inserted) = count, InsertLeaf(leaf)
    PROVE  /\ count \in Nat /\ count < Capacity /\ count' = count + 1
           /\ Len(inserted') = count + 1 /\ inserted' \in Seq(S)
           /\ \A m \in Nat : m < count => inserted'[m + 1] = inserted[m + 1]
           /\ inserted'[count + 1] = leaf
  <1>1. /\ inserted' = Append(inserted, leaf) /\ count < Capacity /\ count' = count + 1
    BY DEF InsertLeaf
  <1>2. count \in Nat
    BY LenProperties
  <1>3. \A m \in Nat : m < count => m + 1 \in 1 .. Len(inserted)
    BY <1>2
  <1> QED  BY <1>1, <1>2, <1>3, AppendProperties

(* The position of the next leaf, level by level, is that of the last one  *)
(* or the one after it.                                                    *)
LEMMA NextIndex ==
    ASSUME NEW c \in Nat
    PROVE  \A l \in 0 .. Depth : \/ IndexAt(c + 1, l) = IndexAt(c, l)
                                 \/ IndexAt(c + 1, l) = IndexAt(c, l) + 1
  <1> DEFINE T == {l \in Nat : l <= Depth => \/ IndexAt(c + 1, l) = IndexAt(c, l)
                                             \/ IndexAt(c + 1, l) = IndexAt(c, l) + 1}
  <1>1. 0 \in T
    BY IndexLaw
  <1>2. ASSUME NEW l \in Nat, l \in T
        PROVE  l + 1 \in T
    <2> SUFFICES ASSUME l + 1 <= Depth
                 PROVE  \/ IndexAt(c + 1, l + 1) = IndexAt(c, l + 1)
                        \/ IndexAt(c + 1, l + 1) = IndexAt(c, l + 1) + 1
      OBVIOUS
    <2>1. l \in Levels /\ l \in 0 .. Depth
      BY DepthAssumption DEF Levels
    <2>2. PICK i \in Nat : i = IndexAt(c, l)
      BY <2>1, IndexLaw
    <2>3. PICK j \in Nat : j = IndexAt(c + 1, l)
      BY <2>1, IndexLaw
    <2>4. IndexAt(c, l + 1) = i \div 2 /\ IndexAt(c + 1, l + 1) = j \div 2
      BY <2>1, <2>2, <2>3, IndexLaw
    <2>5. j = i \/ j = i + 1
      BY <1>2, <2>2, <2>3, DepthAssumption
    <2>6. j \div 2 = i \div 2 \/ j \div 2 = (i \div 2) + 1
      BY <2>5
    <2> QED  BY <2>4, <2>6
  <1> HIDE DEF T
  <1>3. Nat \subseteq T
    BY <1>1, <1>2, NumberInduction
  <1> QED  BY <1>3, DepthAssumption DEF T

(* An insertion changes only the nodes above the new leaf, and behind them *)
(* the tree is empty.                                                      *)
LEMMA NodesChanged ==
    ASSUME NEW S, inserted \in Seq(S), NEW leaf \in S, Len(inserted) = count, InsertLeaf(leaf),
           NEW c, c = count
    PROVE  \A l \in 0 .. Depth : \A m \in Nat :
               /\ m # IndexAt(c, l) => Node(l, m)' = Node(l, m)
               /\ m > IndexAt(c, l) => Node(l, m)' = ZeroHashes(l)
  <1> DEFINE T == {l \in Nat : l <= Depth =>
                      \A m \in Nat : /\ m # IndexAt(c, l) => Node(l, m)' = Node(l, m)
                                     /\ m > IndexAt(c, l) => Node(l, m)' = ZeroHashes(l)}
  <1>0. NodeLaw'
    BY NodeLaw, PTL
  <1>1. c \in Nat
    BY InsertedLeaves
  <1>2. 0 \in T
    <2> SUFFICES ASSUME NEW m \in Nat
                 PROVE  /\ m # c => Node(0, m)' = Node(0, m)
                        /\ m > c => Node(0, m)' = ZeroHashes(0)
      BY <1>1, IndexLaw
    <2>1. Node(0, m) = IF m < c THEN inserted[m + 1] ELSE Zero
      BY NodeLaw
    <2>2. Node(0, m)' = IF m < c + 1 THEN inserted'[m + 1] ELSE Zero
      BY <1>0, InsertedLeaves
    <2>3. m < c => inserted'[m + 1] = inserted[m + 1]
      BY InsertedLeaves
    <2> QED  BY <1>1, <2>1, <2>2, <2>3, ZeroLaw
  <1>3. ASSUME NEW l \in Nat, l \in T
        PROVE  l + 1 \in T
    <2> SUFFICES ASSUME l + 1 <= Depth, NEW m \in Nat
                 PROVE  /\ m # IndexAt(c, l + 1) => Node(l + 1, m)' = Node(l + 1, m)
                        /\ m > IndexAt(c, l + 1) => Node(l + 1, m)' = ZeroHashes(l + 1)
      OBVIOUS
    <2>1. l \in Levels /\ l \in 0 .. Depth
      BY DepthAssumption DEF Levels
    <2>2. PICK i \in Nat : i = IndexAt(c, l)
      BY <1>1, <2>1, IndexLaw
    <2>3. IndexAt(c, l + 1) = i \div 2
      BY <1>1, <2>1, <2>2, IndexLaw
    <2>4. 2 * m \in Nat /\ 2 * m + 1 \in Nat
      OBVIOUS
    <2>5. \A k \in Nat : /\ k # i => Node(l, k)' = Node(l, k)
                         /\ k > i => Node(l, k)' = ZeroHashes(l)
      BY <1>3, <2>1, <2>2, DepthAssumption
    <2>6. Node(l + 1, m) = Hash(Node(l, 2 * m), Node(l, 2 * m + 1))
      BY <2>1, NodeLaw
    <2>7. Node(l + 1, m)' = Hash(Node(l, 2 * m)', Node(l, 2 * m + 1)')
      BY <1>0, <2>1 DEF Hash
    <2>8. m # i \div 2 => 2 * m # i /\ 2 * m + 1 # i
      OBVIOUS
    <2>9. m > i \div 2 => 2 * m > i /\ 2 * m + 1 > i
      OBVIOUS
    <2>10. ZeroHashes(l + 1) = Hash(ZeroHashes(l), ZeroHashes(l))
      BY <2>1, ZeroLaw
    <2> QED  BY <2>3, <2>4, <2>5, <2>6, <2>7, <2>8, <2>9, <2>10
  <1> HIDE DEF T
  <1>4. Nat \subseteq T
    BY <1>2, <1>3, NumberInduction
  <1> QED  BY <1>4, DepthAssumption DEF T

(* The left nodes kept are those of the complete tree that the next leaf   *)
(* goes up beside.                                                         *)
LeftKept == \A l \in Levels : IsRight(count, l) => tree[l] = Node(l, IndexAt(count, l) - 1)

TreeInv ==
    /\ count \in 0 .. Capacity /\ Len(inserted) = count
    /\ LeftKept
    /\ RootIsReference

(* The hashes on the way up are nodes of the new tree.                     *)
LEMMA ClimbNodes ==
    ASSUME NEW S, inserted \in Seq(S), NEW leaf \in S, TreeInv, InsertLeaf(leaf),
           NEW c, c = count
    PROVE  \A l \in 0 .. Depth : Climb(leaf)[l] = Node(l, IndexAt(c, l))'
  <1> DEFINE T == {l \in Nat : l <= Depth => Climb(leaf)[l] = Node(l, IndexAt(c, l))'}
  <1>0. NodeLaw'
    BY NodeLaw, PTL
  <1>1. c \in Nat /\ Len(inserted) = count
    BY InsertedLeaves DEF TreeInv
  <1>2. 0 \in T
    <2>1. Node(0, c)' = leaf
      BY <1>0, <1>1, InsertedLeaves
    <2> QED  BY <1>1, <2>1, ClimbLaw, IndexLaw
  <1>3. ASSUME NEW l \in Nat, l \in T
        PROVE  l + 1 \in T
    <2> SUFFICES ASSUME l + 1 <= Depth
                 PROVE  Climb(leaf)[l + 1] = Node(l + 1, IndexAt(c, l + 1))'
      OBVIOUS
    <2>1. l \in Levels /\ l \in 0 .. Depth
      BY DepthAssumption DEF Levels
    <2>2. PICK i \in Nat : i = IndexAt(c, l)
      BY <1>1, <2>1, IndexLaw
    <2>3. PICK k \in Nat : k = i \div 2 /\ k = IndexAt(c, l + 1)
      BY <1>1, <2>1, <2>2, IndexLaw
    <2>4. Node(l + 1, k)' = Hash(Node(l, 2 * k)', Node(l, 2 * k + 1)')
      BY <1>0, <2>1 DEF Hash
    <2>5. Climb(leaf)[l] = Node(l, i)'
      BY <1>3, <2>1, <2>2, DepthAssumption
    <2>6. \A m \in Nat : /\ m # i => Node(l, m)' = Node(l, m)
                         /\ m > i => Node(l, m)' = ZeroHashes(l)
      BY <1>1, <2>1, <2>2, NodesChanged
    <2>7. CASE i % 2 = 1
      <3>1. 2 * k = i - 1 /\ 2 * k + 1 = i /\ i - 1 \in Nat /\ i - 1 # i
        BY <2>3, <2>7
      <3>2. IsRight(count, l)
        BY <2>2, <2>7 DEF IsRight
      <3>3. tree[l] = Node(l, i - 1)
        BY <2>1, <2>2, <3>2 DEF TreeInv, LeftKept
      <3>4. Climb(leaf)[l + 1] = Hash(tree[l], Climb(leaf)[l])
        BY <2>1, <3>2, ClimbLaw
      <3>5. Node(l, 2 * k)' = tree[l] /\ Node(l, 2 * k + 1)' = Climb(leaf)[l]
        BY <2>5, <2>6, <3>1, <3>3
      <3> QED  BY <2>3, <2>4, <3>4, <3>5
    <2>8. CASE i % 2 # 1
      <3>1. 2 * k = i /\ 2 * k + 1 \in Nat /\ 2 * k + 1 > i
        BY <2>3, <2>8
      <3>2. ~IsRight(count, l)
        BY <2>2, <2>8 DEF IsRight
      <3>3. Climb(leaf)[l + 1] = Hash(Climb(leaf)[l], ZeroHashes(l))
        BY <2>1, <3>2, ClimbLaw
      <3>4. Node(l, 2 * k)' = Climb(leaf)[l] /\ Node(l, 2 * k + 1)' = ZeroHashes(l)
        BY <2>5, <2>6, <3>1
      <3> QED  BY <2>3, <2>4, <3>3, <3>4
    <2> QED  BY <2>7, <2>8
  <1> HIDE DEF T
  <1>4. Nat \subseteq T
    BY <1>2, <1>3, NumberInduction
  <1> QED  BY <1>4, DepthAssumption DEF T

(* insert_leaf keeps the invariant of the tree.                            *)
LEMMA InsertKeepsTree ==
    ASSUME NEW S, inserted \in Seq(S), NEW leaf \in S, TreeInv, InsertLeaf(leaf)
    PROVE  TreeInv'
  <1>1. PICK c : c = count
    OBVIOUS
  <1>2. /\ c \in Nat /\ c < Capacity /\ count' = c + 1 /\ Len(inserted') = c + 1
    BY <1>1, InsertedLeaves DEF TreeInv
  <1>3. Capacity \in Nat
    BY CapacityType
  <1>4. LeftKept'
    <2> SUFFICES ASSUME NEW l \in Levels, IndexAt(c + 1, l) % 2 = 1
                 PROVE  tree'[l] = Node(l, IndexAt(c + 1, l) - 1)'
      BY <1>2 DEF LeftKept, IsRight
    <2>1. l \in 0 .. Depth
      BY DepthAssumption DEF Levels
    <2>2. PICK i \in Nat : i = IndexAt(c, l)
      BY <1>2, <2>1, IndexLaw
    <2>3. PICK j \in Nat : j = IndexAt(c + 1, l) /\ j % 2 = 1
      BY <1>2, <2>1, IndexLaw
    <2>4. tree'[l] = IF IsRight(count, l) THEN tree[l] ELSE Climb(leaf)[l]
      BY DEF InsertLeaf, Stored
    <2>5. CASE j = i
      <3>1. IsRight(count, l) /\ j - 1 \in Nat /\ j - 1 # i
        BY <1>1, <2>2, <2>3, <2>5 DEF IsRight
      <3>2. tree[l] = Node(l, j - 1)
        BY <1>1, <2>2, <2>5, <3>1 DEF TreeInv, LeftKept
      <3>3. Node(l, j - 1)' = Node(l, j - 1)
        BY <1>1, <2>1, <2>2, <3>1, NodesChanged DEF TreeInv
      <3> QED  BY <2>3, <2>4, <3>1, <3>2, <3>3
    <2>6. CASE j = i + 1
      <3>1. ~IsRight(count, l) /\ j - 1 = i
        BY <1>1, <2>2, <2>3, <2>6 DEF IsRight
      <3>2. Climb(leaf)[l] = Node(l, i)'
        BY <1>1, <2>1, <2>2, ClimbNodes
      <3> QED  BY <2>3, <2>4, <3>1, <3>2
    <2>7. j = i \/ j = i + 1
      BY <1>2, <2>1, <2>2, <2>3, NextIndex
    <2> QED  BY <2>5, <2>6, <2>7
  <1>5. RootIsReference'
    <2>1. IndexAt(c, Depth) = 0 /\ Depth \in 0 .. Depth
      BY <1>2, TopIndex, DepthAssumption
    <2>2. Climb(leaf)[Depth] = Node(Depth, 0)'
      BY <1>1, <2>1, ClimbNodes
    <2>3. root' = Node(Depth, 0)'
      BY <2>2 DEF InsertLeaf
    <2> QED  BY <2>3 DEF RootIsReference
  <1> QED  BY <1>2, <1>3, <1>4, <1>5 DEF TreeInv

(* It holds of the tree of a new market.                                   *)
LEMMA TreeInitially == Init => TreeInv /\ inserted = <<>>
  <1> SUFFICES ASSUME Init PROVE TreeInv
    BY DEF Init
  <1>1. count = 0 /\ inserted = <<>> /\ Len(inserted) = 0 /\ Capacity \in Nat
    BY CapacityType DEF Init
  <1>2. \A l \in 0 .. Depth : IndexAt(0, l) = 0
    BY IndexOfZero
  <1>3. LeftKept
    BY <1>1, <1>2, DepthAssumption DEF LeftKept, IsRight, Levels
  <1> QED  BY <1>1, <1>3 DEF TreeInv, RootIsReference

-----------------------------------------------------------------------------
(* Paths                                                                   *)

(* The nodes above a position, with their siblings and directions, are the *)
(* hashes of the circuit.                                                  *)
LEMMA NodeAbove ==
    ASSUME NEW n \in Nat, NEW l \in Levels
    PROVE  Node(l + 1, IndexAt(n, l + 1))
               = Mux(Direction(n)[l], Node(l, IndexAt(n, l)), Siblings(n)[l])
  <1>1. PICK i \in Nat : i = IndexAt(n, l)
    BY IndexLaw, DepthAssumption DEF Levels
  <1>2. IndexAt(n, l + 1) = i \div 2 /\ i \div 2 \in Nat
    BY <1>1, IndexLaw
  <1>3. Node(l + 1, i \div 2) = Hash(Node(l, 2 * (i \div 2)), Node(l, 2 * (i \div 2) + 1))
    BY <1>2, NodeLaw
  <1>4. Siblings(n)[l] = Node(l, IF i % 2 = 0 THEN i + 1 ELSE i - 1)
    BY <1>1 DEF Siblings, Neighbour
  <1>5. Direction(n)[l] = IF i % 2 = 1 THEN 1 ELSE 0
    BY <1>1 DEF Direction, IsRight
  <1>6. CASE i % 2 = 1
    <2>1. 2 * (i \div 2) = i - 1 /\ 2 * (i \div 2) + 1 = i
      BY <1>6
    <2> QED  BY <1>1, <1>2, <1>3, <1>4, <1>5, <1>6, <2>1 DEF Mux
  <1>7. CASE i % 2 = 0
    <2>1. 2 * (i \div 2) = i
      BY <1>7
    <2> QED  BY <1>1, <1>2, <1>3, <1>4, <1>5, <1>7, <2>1 DEF Mux
  <1> QED  BY <1>6, <1>7

(* The lowest row holds the leaves.                                        *)
LEMMA InsertedBottom ==
    ASSUME TreeInv, NEW n \in Nat
    PROVE  Node(0, n) = IF n < count THEN inserted[n + 1] ELSE Zero
  BY NodeLaw DEF TreeInv

(* The circuit accepts the path of an inserted leaf.                       *)
LEMMA PathAccepted ==
    ASSUME TreeInv, NEW n \in 0 .. count - 1
    PROVE  CircuitAccepts(inserted[n + 1], Siblings(n), Direction(n))
  <1>1. PICK h : /\ h[0] = inserted[n + 1]
                 /\ \A l \in Levels : h[l + 1] = Mux(Direction(n)[l], h[l], Siblings(n)[l])
                 /\ CircuitAccepts(inserted[n + 1], Siblings(n), Direction(n)) <=> h[Depth] = root
    BY CircuitLaw
  <1>2. count \in 0 .. Capacity /\ Capacity \in Nat /\ Len(inserted) = count
    BY CapacityType DEF TreeInv
  <1>3. n \in Nat /\ n < count /\ n < Capacity /\ inserted # <<>>
    BY <1>2
  <1> DEFINE T == {l \in Nat : l <= Depth => h[l] = Node(l, IndexAt(n, l))}
  <1>4. 0 \in T
    BY <1>1, <1>3, InsertedBottom, IndexLaw
  <1>5. ASSUME NEW l \in Nat, l \in T
        PROVE  l + 1 \in T
    <2> SUFFICES ASSUME l + 1 <= Depth PROVE h[l + 1] = Node(l + 1, IndexAt(n, l + 1))
      OBVIOUS
    <2>1. l \in Levels
      BY DepthAssumption DEF Levels
    <2>2. h[l] = Node(l, IndexAt(n, l))
      BY <1>5, DepthAssumption
    <2> QED  BY <1>1, <1>3, <2>1, <2>2, NodeAbove
  <1> HIDE DEF T
  <1>6. Depth \in T
    BY <1>4, <1>5, NumberInduction, DepthAssumption
  <1>7. h[Depth] = Node(Depth, 0)
    BY <1>3, <1>6, TopIndex, DepthAssumption DEF T
  <1>8. root = Node(Depth, 0)
    BY <1>3 DEF TreeInv, RootIsReference
  <1> QED  BY <1>1, <1>7, <1>8

(* Hashes being free of collisions, a path to the root goes through the    *)
(* nodes of the tree down to its leaf, whatever siblings it has.           *)
THEOREM PathDetermines ==
    ASSUME TreeInv, inserted # <<>>, NEW n \in 0 .. Capacity - 1, NEW leaf, NEW sibling,
           CircuitAccepts(leaf, sibling, Direction(n))
    PROVE  leaf = IF n < count THEN inserted[n + 1] ELSE Zero
  <1>1. PICK h : /\ h[0] = leaf
                 /\ \A l \in Levels : h[l + 1] = Mux(Direction(n)[l], h[l], sibling[l])
                 /\ h[Depth] = root
    BY CircuitLaw
  <1>2. n \in Nat /\ n < Capacity
    BY CapacityType
  <1> DEFINE T == {k \in Nat : k <= Depth => h[Depth - k] = Node(Depth - k, IndexAt(n, Depth - k))}
  <1>3. 0 \in T
    <2>1. Depth - 0 = Depth
      BY DepthAssumption
    <2> QED  BY <1>1, <1>2, <2>1, TopIndex DEF TreeInv, RootIsReference
  <1>4. ASSUME NEW k \in Nat, k \in T
        PROVE  k + 1 \in T
    <2> SUFFICES ASSUME k + 1 <= Depth
                 PROVE  h[Depth - (k + 1)] = Node(Depth - (k + 1), IndexAt(n, Depth - (k + 1)))
      OBVIOUS
    <2>1. PICK l \in Levels : l = Depth - (k + 1)
      BY DepthAssumption DEF Levels
    <2>2. l + 1 = Depth - k
      BY <2>1, DepthAssumption DEF Levels
    <2>3. h[l + 1] = Node(l + 1, IndexAt(n, l + 1))
      BY <1>4, <2>2, DepthAssumption
    <2>4. Mux(Direction(n)[l], h[l], sibling[l])
              = Mux(Direction(n)[l], Node(l, IndexAt(n, l)), Siblings(n)[l])
      BY <1>1, <1>2, <2>3, NodeAbove
    <2>5. h[l] = Node(l, IndexAt(n, l))
      BY <2>4 DEF Mux, Hash
    <2> QED  BY <2>1, <2>5
  <1> HIDE DEF T
  <1>5. Depth \in T
    BY <1>3, <1>4, NumberInduction, DepthAssumption
  <1>6. Depth - Depth = 0 /\ 0 \in 0 .. Depth
    BY DepthAssumption
  <1>7. h[0] = Node(0, n)
    BY <1>2, <1>5, <1>6, IndexLaw, DepthAssumption DEF T
  <1> QED  BY <1>1, <1>2, <1>7, InsertedBottom

-----------------------------------------------------------------------------
(* Words                                                                   *)

(* What the assumptions say of words.                                      *)
LEMMA WordTypes ==
    /\ Byte \in Nat /\ Byte > 1 /\ Width \in Nat /\ Prime \in Words
    /\ \A w \in Words : \A i \in 1 .. Width : w[i] \in 0 .. Byte - 1
  BY WordAssumption DEF Words

(* f holds what ValueOf has read after each byte of a word.                *)
Reads(word, f) ==
    /\ \A k \in 0 .. Width : f[k] \in Nat
    /\ f[0] = 0
    /\ \A k \in 0 .. Width - 1 : f[k + 1] = f[k] * Byte + word[k + 1]
    /\ ValueOf(word) = f[Width]

(* Every word is read so, and its value is a number.                       *)
LEMMA WordRead ==
    ASSUME NEW w \in Words
    PROVE  (\E f : Reads(w, f)) /\ ValueOf(w) \in Nat
  <1>1. w \in Seq(Int) /\ Len(w) = Width
    <2>1. w \in [1 .. Width -> 0 .. Byte - 1] /\ Width \in Nat
      BY WordTypes DEF Words
    <2>2. w \in [1 .. Width -> Int]
      BY <2>1, WordTypes
    <2> QED  BY <2>1, <2>2
  <1>2. ValueOf(w) = ReadIn(Byte, w)
    BY DEF ValueOf, ReadIn, FoldLeft, MapThenFoldSet
  <1>3. PICK f : /\ f[0] = 0
                 /\ \A k \in 0 .. Width - 1 : f[k + 1] = f[k] * Byte + w[k + 1]
                 /\ ReadIn(Byte, w) = f[Width]
    <2>1. Byte \in Int
      BY WordTypes
    <2> QED  BY <1>1, <2>1, NumberRead
  <1> DEFINE T == {k \in Nat : k <= Width => f[k] \in Nat}
  <1>4. 0 \in T
    BY <1>3
  <1>5. ASSUME NEW k \in Nat, k \in T
        PROVE  k + 1 \in T
    <2> SUFFICES ASSUME k + 1 <= Width PROVE f[k + 1] \in Nat
      OBVIOUS
    <2>1. k \in 0 .. Width - 1 /\ k + 1 \in 1 .. Width
      BY WordTypes
    <2>2. f[k] \in Nat
      BY <1>5, <2>1, WordTypes
    <2>3. w[k + 1] \in Nat /\ Byte \in Nat
      BY <2>1, WordTypes
    <2>4. f[k] * Byte \in Nat
      BY <2>2, <2>3
    <2>5. f[k] * Byte + w[k + 1] \in Nat
      BY <2>3, <2>4
    <2> QED  BY <1>3, <2>1, <2>5
  <1> HIDE DEF T
  <1>6. Nat \subseteq T
    BY <1>4, <1>5, NumberInduction
  <1>7. \A k \in 0 .. Width : f[k] \in Nat
    BY <1>6, WordTypes DEF T
  <1>8. Reads(w, f)
    BY <1>2, <1>3, <1>7 DEF Reads
  <1>9. f[Width] \in Nat
    BY <1>7, WordTypes
  <1> QED  BY <1>8, <1>9 DEF Reads

(* A digit more does not turn the order around.                            *)
LEMMA HigherStays ==
    ASSUME NEW b \in Nat, NEW x \in Nat, NEW y \in Nat, x > y,
           NEW d \in 0 .. b - 1, NEW e \in 0 .. b - 1
    PROVE  x * b + d > y * b + e
  <1>1. PICK z \in Nat : x = y + 1 + z
    <2>1. x - y - 1 \in Nat /\ x = y + 1 + (x - y - 1)
      OBVIOUS
    <2> QED  BY <2>1
  <1>2. x * b = y * b + b + z * b
    BY <1>1
  <1>3. z * b \in Nat /\ y * b \in Nat
    OBVIOUS
  <1> QED  BY <1>2, <1>3

(* The first byte that differs decides.                                    *)
LEMMA FirstDecides ==
    ASSUME NEW a \in Words, NEW b \in Words, NEW i \in 1 .. Width,
           a[i] > b[i], \A j \in 1 .. i - 1 : a[j] = b[j]
    PROVE  ValueOf(a) > ValueOf(b)
  <1>1. PICK f : Reads(a, f)
    BY WordRead
  <1>2. PICK g : Reads(b, g)
    BY WordRead
  <1> DEFINE T == {k \in Nat : k <= Width =>
                       IF k < i THEN f[k] = g[k] ELSE f[k] > g[k]}
  <1>3. 0 \in T
    BY <1>1, <1>2 DEF Reads
  <1>4. ASSUME NEW k \in Nat, k \in T
        PROVE  k + 1 \in T
    <2> SUFFICES ASSUME k + 1 <= Width
                 PROVE  IF k + 1 < i THEN f[k + 1] = g[k + 1] ELSE f[k + 1] > g[k + 1]
      OBVIOUS
    <2>1. k \in 0 .. Width - 1 /\ k \in 0 .. Width /\ k + 1 \in 1 .. Width
      BY WordTypes
    <2>2. IF k < i THEN f[k] = g[k] ELSE f[k] > g[k]
      BY <1>4, <2>1
    <2>3. f[k + 1] = f[k] * Byte + a[k + 1] /\ g[k + 1] = g[k] * Byte + b[k + 1]
      BY <1>1, <1>2, <2>1 DEF Reads
    <2>4. f[k] \in Nat /\ g[k] \in Nat /\ a[k + 1] \in 0 .. Byte - 1 /\ b[k + 1] \in 0 .. Byte - 1
      BY <1>1, <1>2, <2>1, WordTypes DEF Reads
    <2>5. CASE k + 1 < i
      <3>1. f[k] = g[k] /\ a[k + 1] = b[k + 1]
        BY <2>1, <2>2, <2>5
      <3> QED  BY <2>3, <2>5, <3>1
    <2>6. CASE k + 1 = i
      <3>1. f[k] = g[k] /\ a[k + 1] > b[k + 1]
        BY <2>2, <2>6
      <3>2. f[k] * Byte \in Nat
        BY <2>4, WordTypes
      <3>3. f[k + 1] > g[k + 1]
        BY <2>3, <2>4, <3>1, <3>2
      <3> QED  BY <2>6, <3>3
    <2>7. CASE k + 1 > i
      <3>1. f[k] > g[k]
        BY <2>2, <2>7
      <3>2. f[k + 1] > g[k + 1]
        BY <2>3, <2>4, <3>1, HigherStays, WordTypes
      <3> QED  BY <2>7, <3>2
    <2> QED  BY <2>5, <2>6, <2>7
  <1> HIDE DEF T
  <1>5. Width \in T
    BY <1>3, <1>4, NumberInduction, WordTypes
  <1>6. f[Width] > g[Width]
    BY <1>5, WordTypes DEF T
  <1> QED  BY <1>1, <1>2, <1>6 DEF Reads

(* ge_bytes is the order of the values, and words with one value are one.  *)
LEMMA GeLaw ==
    ASSUME NEW a \in Words, NEW b \in Words
    PROVE  /\ Ge(a, b) <=> ValueOf(a) >= ValueOf(b)
           /\ ValueOf(a) = ValueOf(b) => a = b
  <1>0. ValueOf(a) \in Nat /\ ValueOf(b) \in Nat /\ DOMAIN a = 1 .. Width
    BY WordRead DEF Words
  <1>1. CASE a = b
    BY <1>0, <1>1 DEF Ge
  <1>2. CASE a # b
    <2> DEFINE S == {i \in 1 .. Width : a[i] # b[i]}
    <2>1. S \in SUBSET Nat /\ S # {}
      <3>1. a = [i \in 1 .. Width |-> a[i]] /\ b = [i \in 1 .. Width |-> b[i]]
        BY DEF Words
      <3>2. \E i \in 1 .. Width : a[i] # b[i]
        BY <1>2, <3>1
      <3> QED  BY <3>2
    <2>2. PICK i \in S : \A j \in S : i <= j
      <3> HIDE DEF S
      <3> QED  BY <2>1, LeastNumber
    <2>3. i \in 1 .. Width /\ a[i] # b[i]
      OBVIOUS
    <2>4. \A j \in 1 .. i - 1 : a[j] = b[j]
      <3> SUFFICES ASSUME NEW j \in 1 .. i - 1, a[j] # b[j] PROVE FALSE
        OBVIOUS
      <3>1. j \in 1 .. Width /\ j < i
        BY <2>3, WordTypes
      <3>2. j \in S
        BY <3>1
      <3> QED  BY <2>2, <2>3, <3>1, <3>2
    <2> HIDE DEF S
    <2>5. a[i] \in Int /\ b[i] \in Int
      BY <2>3, WordTypes
    <2>6. CASE a[i] > b[i]
      <3>1. ValueOf(a) > ValueOf(b)
        BY <2>3, <2>4, <2>6, FirstDecides
      <3>2. Ge(a, b)
        BY <1>0, <2>3, <2>4, <2>6 DEF Ge
      <3> QED  BY <1>0, <3>1, <3>2
    <2>7. CASE b[i] > a[i]
      <3>1. ValueOf(b) > ValueOf(a)
        BY <2>3, <2>4, <2>7, FirstDecides
      <3>2. Ge(a, b) => ValueOf(a) > ValueOf(b)
        BY <1>0, <1>2, FirstDecides DEF Ge
      <3> QED  BY <1>0, <3>1, <3>2
    <2> QED  BY <2>3, <2>5, <2>6, <2>7
  <1> QED  BY <1>1, <1>2

(* sub_bytes goes from the last byte to the first.                         *)
SubtractsBy(a, b, d) ==
    d = [i \in 1 .. Width |->
            a[i] - b[i] - (IF i = Width THEN 0 ELSE Borrow(d[i + 1]))]

(* Every two words are subtracted so.                                      *)
LEMMA SubtractionExists ==
    ASSUME NEW a \in Words, NEW b \in Words
    PROVE  \E d : SubtractsBy(a, b, d)
  <1> DEFINE place(k) == a[Width - k] - b[Width - k]
             step == [k \in Nat |-> [v \in Int |->
                         IF k + 1 < Width THEN place(k + 1) - Borrow(v) ELSE 0]]
             base == IF Width = 0 THEN 0 ELSE place(0)
  <1>1. \A k \in Nat : k < Width => place(k) \in Int
    <2> SUFFICES ASSUME NEW k \in Nat, k < Width PROVE place(k) \in Int
      OBVIOUS
    <2>1. Width - k \in 1 .. Width
      BY WordTypes
    <2>2. a[Width - k] \in Int /\ b[Width - k] \in Int
      BY <2>1, WordTypes
    <2> QED  BY <2>2
  <1>2. \A k \in Nat : \A v \in Int :
            step[k][v] = IF k + 1 < Width THEN place(k + 1) - Borrow(v) ELSE 0
    OBVIOUS
  <1>3. \A v : Borrow(v) \in {0, 1}
    BY DEF Borrow
  <1> HIDE DEF place
  <1>4. step \in [Nat -> [Int -> Int]]
    <2>1. \A k \in Nat, v \in Int :
              (IF k + 1 < Width THEN place(k + 1) - Borrow(v) ELSE 0) \in Int
      BY <1>1, <1>3
    <2> QED  BY <2>1
  <1>5. base \in Int
    BY <1>1, WordTypes
  <1> HIDE DEF step, base
  <1>6. PICK e \in [Nat -> Int] : e[0] = base /\ \A k \in Nat : e[k + 1] = step[k][e[k]]
    BY <1>4, <1>5, IntegerRecursion
  <1> DEFINE d == [i \in 1 .. Width |-> e[Width - i]]
  <1>7. ASSUME NEW i \in 1 .. Width
        PROVE  d[i] = a[i] - b[i] - (IF i = Width THEN 0 ELSE Borrow(d[i + 1]))
    <2>1. PICK k \in Nat : k = Width - i /\ k < Width /\ Width - k = i
      BY WordTypes
    <2>2. d[i] = e[k] /\ place(k) = a[i] - b[i] /\ place(k) \in Int
      BY <1>1, <2>1 DEF place
    <2>3. CASE i = Width
      <3>1. k = 0 /\ Width # 0
        BY <2>1, <2>3, WordTypes
      <3>2. d[i] = place(k)
        BY <1>6, <2>2, <3>1 DEF base
      <3> HIDE DEF d
      <3> QED  BY <2>2, <2>3, <3>2
    <2>4. CASE i # Width
      <3>1. PICK j \in Nat : k = j + 1
        <4>1. k - 1 \in Nat /\ k = (k - 1) + 1
          BY <2>1, <2>4, WordTypes
        <4> QED  BY <4>1
      <3>2. i + 1 \in 1 .. Width /\ Width - (i + 1) = j
        BY <2>1, <2>4, <3>1, WordTypes
      <3>3. d[i + 1] = e[j]
        BY <3>2
      <3>4. e[k] = place(k) - Borrow(e[j])
        BY <1>2, <1>6, <2>1, <3>1
      <3> HIDE DEF d
      <3> QED  BY <2>2, <2>4, <3>3, <3>4
    <2> QED  BY <2>3, <2>4
  <1>8. d = [i \in 1 .. Width |-> d[i]]
    OBVIOUS
  <1> HIDE DEF d
  <1>9. SubtractsBy(a, b, d)
    BY <1>7, <1>8 DEF SubtractsBy
  <1> QED  BY <1>9

(* A byte of the difference, the borrow it takes and the borrow it makes.  *)
LEMMA ByteBorrowed ==
    ASSUME NEW base \in Nat, base > 1, NEW x \in 0 .. base - 1, NEW y \in 0 .. base - 1,
           NEW taken \in {0, 1}, NEW d, d = x - y - taken
    PROVE  d % base = d + base * Borrow(d) /\ d % base \in 0 .. base - 1
  <1>1. d \in Int /\ -base <= d /\ d < base
    OBVIOUS
  <1>2. CASE d < 0
    <2>1. d + base \in 0 .. base - 1 /\ d = (d + base) + base * (-1)
      BY <1>1, <1>2
    <2>2. d % base = d + base
      BY <2>1
    <2> QED  BY <1>2, <2>1, <2>2 DEF Borrow
  <1>3. CASE d >= 0
    <2>1. d % base = d
      BY <1>1, <1>3
    <2> QED  BY <1>1, <1>3, <2>1 DEF Borrow
  <1> QED  BY <1>1, <1>2, <1>3

(* What each byte of a difference stands for, with the borrow between the  *)
(* bytes: none goes into the last.                                         *)
LEMMA SubBytes ==
    ASSUME NEW a \in Words, NEW b \in Words
    PROVE  /\ Sub(a, b) \in Words
           /\ \E br : /\ br[Width] = 0 /\ \A k \in 0 .. Width : br[k] \in {0, 1}
                      /\ \A k \in 0 .. Width - 1 :
                             Sub(a, b)[k + 1]
                                 = a[k + 1] - b[k + 1] - br[k + 1] + Byte * br[k]
  <1> DEFINE d == CHOOSE d : SubtractsBy(a, b, d)
             br == [k \in 0 .. Width |-> IF k = Width THEN 0 ELSE Borrow(d[k + 1])]
  <1>1. Sub(a, b) = [i \in 1 .. Width |-> d[i] % Byte]
    BY DEF Sub, SubtractsBy
  <1>2. SubtractsBy(a, b, d)
    BY SubtractionExists, Zenon
  <1> HIDE DEF d
  <1>3. br[Width] = 0 /\ \A k \in 0 .. Width : br[k] \in {0, 1}
    BY WordTypes DEF Borrow
  <1>4. ASSUME NEW k \in 0 .. Width - 1
        PROVE  /\ Sub(a, b)[k + 1] \in 0 .. Byte - 1
               /\ Sub(a, b)[k + 1] = a[k + 1] - b[k + 1] - br[k + 1] + Byte * br[k]
    <2>1. PICK i \in 1 .. Width : i = k + 1
      BY WordTypes
    <2>2. d[i] = a[i] - b[i] - br[i]
      BY <1>2, <2>1, WordTypes DEF SubtractsBy
    <2>3. br[k] = Borrow(d[i]) /\ br[i] \in {0, 1} /\ br[k] \in {0, 1}
      <3>1. k \in 0 .. Width /\ i \in 0 .. Width /\ k # Width
        BY <2>1, WordTypes
      <3>2. br[k] = Borrow(d[k + 1])
        BY <3>1
      <3> HIDE DEF br
      <3> QED  BY <1>3, <2>1, <3>1, <3>2
    <2>4. Sub(a, b)[i] = d[i] % Byte
      BY <1>1
    <2>5. a[i] \in 0 .. Byte - 1 /\ b[i] \in 0 .. Byte - 1 /\ Byte \in Nat /\ Byte > 1
      BY WordTypes
    <2> HIDE DEF br
    <2>6. d[i] % Byte = d[i] + Byte * Borrow(d[i]) /\ d[i] % Byte \in 0 .. Byte - 1
      BY <2>2, <2>3, <2>5, ByteBorrowed
    <2> QED  BY <2>1, <2>2, <2>3, <2>4, <2>6
  <1> HIDE DEF br
  <1>5. \A i \in 1 .. Width : Sub(a, b)[i] \in 0 .. Byte - 1
    <2>1. \A i \in 1 .. Width : i - 1 \in 0 .. Width - 1 /\ (i - 1) + 1 = i
      BY WordTypes
    <2> QED  BY <1>4, <2>1
  <1>6. Sub(a, b) = [i \in 1 .. Width |-> Sub(a, b)[i]]
    BY <1>1
  <1>7. Sub(a, b) \in Words
    BY <1>5, <1>6 DEF Words
  <1> QED  BY <1>3, <1>4, <1>7

(* One place of a subtraction: y is the difference of what was read so far *)
(* but for the borrow.                                                     *)
LEMMA PlaceSubtracted ==
    ASSUME NEW base \in Nat, NEW f \in Nat, NEW g \in Nat, NEW x \in Nat, NEW y \in Nat,
           NEW taken \in {0, 1}, NEW made \in {0, 1}, NEW s, s = x - y - taken + base * made
    PROVE  (f * base + x) - (g * base + y) - taken = (f - g - made) * base + s
  OBVIOUS

(* A digit more does not make a negative number positive.                  *)
LEMMA NegativeStays ==
    ASSUME NEW base \in Nat, NEW m \in Int, m < 0, NEW s \in 0 .. base - 1
    PROVE  m * base + s < 0
  <1>1. PICK z \in Nat : m = -1 - z
    <2>1. -1 - m \in Nat /\ m = -1 - (-1 - m)
      OBVIOUS
    <2> QED  BY <2>1
  <1>2. m * base = -base - z * base /\ z * base \in Nat
    BY <1>1
  <1> QED  BY <1>2

(* sub_bytes subtracts, unless the result is negative.                     *)
LEMMA SubLaw ==
    ASSUME NEW a \in Words, NEW b \in Words, ValueOf(a) >= ValueOf(b)
    PROVE  Sub(a, b) \in Words /\ ValueOf(Sub(a, b)) = ValueOf(a) - ValueOf(b)
  <1> DEFINE s == Sub(a, b)
  <1>1. PICK br : /\ br[Width] = 0 /\ \A k \in 0 .. Width : br[k] \in {0, 1}
                  /\ \A k \in 0 .. Width - 1 :
                         s[k + 1] = a[k + 1] - b[k + 1] - br[k + 1] + Byte * br[k]
    BY SubBytes
  <1>2. s \in Words
    BY SubBytes
  <1> HIDE DEF s
  <1>3. PICK f : Reads(a, f)
    BY WordRead
  <1>4. PICK g : Reads(b, g)
    BY WordRead
  <1>5. PICK h : Reads(s, h)
    BY <1>2, WordRead
  <1> DEFINE Y(k) == f[k] - g[k] - br[k]
  <1>6. \A k \in 0 .. Width :
            /\ f[k] \in Nat /\ g[k] \in Nat /\ h[k] \in Nat /\ br[k] \in {0, 1} /\ Y(k) \in Int
    BY <1>1, <1>3, <1>4, <1>5 DEF Reads
  <1>7. ASSUME NEW k \in 0 .. Width - 1
        PROVE  /\ Y(k + 1) = Y(k) * Byte + s[k + 1]
               /\ h[k + 1] = h[k] * Byte + s[k + 1]
               /\ s[k + 1] \in 0 .. Byte - 1
    <2>1. k \in 0 .. Width /\ k + 1 \in 0 .. Width /\ k + 1 \in 1 .. Width
      BY WordTypes
    <2>2. a[k + 1] \in Nat /\ b[k + 1] \in Nat /\ s[k + 1] \in 0 .. Byte - 1
      BY <1>2, <2>1, WordTypes
    <2>3. f[k + 1] = f[k] * Byte + a[k + 1] /\ g[k + 1] = g[k] * Byte + b[k + 1]
          /\ h[k + 1] = h[k] * Byte + s[k + 1]
      BY <1>3, <1>4, <1>5 DEF Reads
    <2>4. s[k + 1] = a[k + 1] - b[k + 1] - br[k + 1] + Byte * br[k]
      BY <1>1
    <2>5. (f[k] * Byte + a[k + 1]) - (g[k] * Byte + b[k + 1]) - br[k + 1]
              = (f[k] - g[k] - br[k]) * Byte + s[k + 1]
      BY <1>6, <2>1, <2>2, <2>4, PlaceSubtracted, WordTypes
    <2> QED  BY <2>2, <2>3, <2>5
  <1>8. Y(0) = -br[0] /\ h[0] = 0 /\ 0 \in 0 .. Width /\ Width \in 0 .. Width
    BY <1>3, <1>4, <1>5, <1>6, WordTypes DEF Reads
  <1>9. Y(Width) = ValueOf(a) - ValueOf(b) /\ h[Width] = ValueOf(s)
    BY <1>1, <1>3, <1>4, <1>5, <1>6, <1>8 DEF Reads
  <1> HIDE DEF Y
  <1>10. br[0] = 0
    <2> SUFFICES ASSUME br[0] = 1 PROVE FALSE
      BY <1>6, <1>8
    <2> DEFINE T == {k \in Nat : k <= Width => Y(k) < 0}
    <2>1. 0 \in T
      BY <1>8
    <2>2. ASSUME NEW k \in Nat, k \in T
          PROVE  k + 1 \in T
      <3> SUFFICES ASSUME k + 1 <= Width PROVE Y(k + 1) < 0
        OBVIOUS
      <3>1. k \in 0 .. Width - 1 /\ k \in 0 .. Width /\ Y(k) < 0
        BY <2>2, WordTypes
      <3>2. Y(k) * Byte + s[k + 1] < 0
        BY <1>6, <1>7, <3>1, NegativeStays, WordTypes
      <3> QED  BY <1>7, <3>1, <3>2
    <2> HIDE DEF T
    <2>3. Width \in T
      BY <2>1, <2>2, NumberInduction, WordTypes
    <2>4. Y(Width) < 0
      BY <2>3, WordTypes DEF T
    <2>5. ValueOf(a) \in Nat /\ ValueOf(b) \in Nat
      BY WordRead
    <2> QED  BY <1>9, <2>4, <2>5
  <1> DEFINE T == {k \in Nat : k <= Width => Y(k) = h[k]}
  <1>11. 0 \in T
    BY <1>8, <1>10
  <1>12. ASSUME NEW k \in Nat, k \in T
         PROVE  k + 1 \in T
    <2> SUFFICES ASSUME k + 1 <= Width PROVE Y(k + 1) = h[k + 1]
      OBVIOUS
    <2>1. k \in 0 .. Width - 1 /\ Y(k) = h[k]
      BY <1>12, WordTypes
    <2> QED  BY <1>7, <2>1
  <1> HIDE DEF T
  <1>13. Width \in T
    BY <1>11, <1>12, NumberInduction, WordTypes
  <1>14. Y(Width) = h[Width]
    BY <1>13, WordTypes DEF T
  <1> QED  BY <1>2, <1>9, <1>14 DEF s

(* The prime is not zero.                                                  *)
LEMMA PrimePositive == ValueOf(Prime) \in Nat /\ ValueOf(Prime) > 0
  <1> DEFINE zero == [i \in 1 .. Width |-> 0]
  <1>1. zero \in Words
    BY WordTypes DEF Words
  <1>2. ValueOf(zero) \in Nat /\ ValueOf(Prime) \in Nat
    BY <1>1, WordRead, WordTypes
  <1>3. PICK i \in 1 .. Width : Prime[i] # 0
    BY WordAssumption
  <1>4. Prime # zero
    BY <1>3
  <1>5. \A j \in 1 .. Width : ~(zero[j] > Prime[j])
    BY WordTypes
  <1>6. DOMAIN zero = 1 .. Width
    OBVIOUS
  <1> HIDE DEF zero
  <1>7. ~Ge(zero, Prime)
    BY <1>4, <1>5, <1>6 DEF Ge
  <1>8. ~(ValueOf(zero) >= ValueOf(Prime))
    BY <1>1, <1>7, GeLaw, WordTypes
  <1> QED  BY <1>2, <1>8

(* Taking the prime off a word until it is below it reaches every word.    *)
LEMMA DescentByPrime ==
    ASSUME NEW T,
           \A w \in Words : ~Ge(w, Prime) => w \in T,
           \A w \in Words : Ge(w, Prime) /\ Sub(w, Prime) \in T => w \in T
    PROVE  Words \subseteq T
  <1> DEFINE bad  == {w \in Words : w \notin T}
             size == {ValueOf(w) : w \in bad}
  <1> SUFFICES ASSUME bad # {} PROVE FALSE
    OBVIOUS
  <1>1. size \in SUBSET Nat /\ size # {}
    BY WordRead
  <1>2. PICK v \in size : \A u \in size : v <= u
    <2> HIDE DEF size
    <2> QED  BY <1>1, LeastNumber
  <1>3. PICK w \in Words : w \notin T /\ ValueOf(w) = v
    BY <1>2
  <1>4. Ge(w, Prime)
    BY <1>3
  <1>5. Sub(w, Prime) \in Words /\ ValueOf(Sub(w, Prime)) = ValueOf(w) - ValueOf(Prime)
    BY <1>4, WordTypes, GeLaw, SubLaw
  <1>6. ValueOf(Sub(w, Prime)) \in size
    BY <1>3, <1>4, <1>5
  <1>7. v \in Nat /\ ValueOf(Prime) \in Nat /\ ValueOf(Prime) > 0
    BY <1>1, <1>2, PrimePositive
  <1> HIDE DEF size
  <1> QED  BY <1>2, <1>3, <1>5, <1>6, <1>7

(* v % p is what is left when p is taken off as often as it goes.          *)
LEMMA RemainderLaw ==
    ASSUME NEW p \in Nat, p > 0, NEW v \in Nat
    PROVE  /\ v % p \in 0 .. p - 1
           /\ v < p => v % p = v
           /\ v >= p => (v - p) % p = v % p
  <1>1. v % p \in 0 .. p - 1 /\ (v < p => v % p = v)
    OBVIOUS
  <1>2. ASSUME v >= p PROVE (v - p) % p = v % p
    <2>1. PICK q \in Int : q = v \div p
      OBVIOUS
    <2>2. PICK r \in 0 .. p - 1 : r = v % p
      BY <1>1
    <2>3. v = q * p + r
      BY <2>1, <2>2
    <2>4. v - p = (q - 1) * p + r
      BY <2>3
    <2>5. (v - p) % p = r
      BY <2>4
    <2> QED  BY <2>2, <2>5
  <1> QED  BY <1>1, <1>2

(* reduce_mod_bn254 comes to an end, with the word for the remainder.      *)
THEOREM ReducedLaw ==
    ASSUME NEW w \in Words
    PROVE  Reduced(w) \in Words /\ ValueOf(Reduced(w)) = ValueOf(w) % ValueOf(Prime)
  <1> DEFINE p == ValueOf(Prime)
             Reduces(r) == r = [x \in Words |-> IF Ge(x, Prime) THEN r[Sub(x, Prime)] ELSE x]
             least == [x \in Words |-> CHOOSE y \in Words : ValueOf(y) = ValueOf(x) % p]
             reduce == CHOOSE r : Reduces(r)
  <1>1. p \in Nat /\ p > 0
    BY PrimePositive
  <1>2. \A x \in Words : ~Ge(x, Prime) => ValueOf(x) \in Nat /\ ValueOf(x) % p = ValueOf(x)
    <2> SUFFICES ASSUME NEW x \in Words, ~Ge(x, Prime)
                 PROVE  ValueOf(x) \in Nat /\ ValueOf(x) % p = ValueOf(x)
      OBVIOUS
    <2>1. ValueOf(x) \in Nat /\ ~(ValueOf(x) >= p)
      BY GeLaw, WordRead, WordTypes
    <2> HIDE DEF p
    <2> QED  BY <1>1, <2>1, RemainderLaw
  <1>3. \A x \in Words : Ge(x, Prime) =>
            Sub(x, Prime) \in Words /\ ValueOf(Sub(x, Prime)) % p = ValueOf(x) % p
    <2> SUFFICES ASSUME NEW x \in Words, Ge(x, Prime)
                 PROVE  Sub(x, Prime) \in Words /\ ValueOf(Sub(x, Prime)) % p = ValueOf(x) % p
      OBVIOUS
    <2>1. ValueOf(x) \in Nat /\ ValueOf(x) >= p
      BY GeLaw, WordRead, WordTypes
    <2>2. Sub(x, Prime) \in Words /\ ValueOf(Sub(x, Prime)) = ValueOf(x) - p
      BY <2>1, SubLaw, WordTypes
    <2> HIDE DEF p
    <2> QED  BY <1>1, <2>1, <2>2, RemainderLaw
  <1> HIDE DEF p
  <1>4. \A x \in Words : \E y \in Words : ValueOf(y) = ValueOf(x) % p
    <2> DEFINE T == {x \in Words : \E y \in Words : ValueOf(y) = ValueOf(x) % p}
    <2>1. \A x \in Words : ~Ge(x, Prime) => x \in T
      BY <1>2
    <2>2. \A x \in Words : Ge(x, Prime) /\ Sub(x, Prime) \in T => x \in T
      BY <1>3
    <2> HIDE DEF T
    <2>3. Words \subseteq T
      BY <2>1, <2>2, DescentByPrime
    <2> QED  BY <2>3 DEF T
  <1>5. \A x \in Words : least[x] \in Words /\ ValueOf(least[x]) = ValueOf(x) % p
    BY <1>4
  <1>6. least = [x \in Words |-> least[x]]
    OBVIOUS
  <1> HIDE DEF least
  <1>7. ASSUME NEW x \in Words
        PROVE  least[x] = IF Ge(x, Prime) THEN least[Sub(x, Prime)] ELSE x
    <2>1. CASE Ge(x, Prime)
      <3>1. /\ Sub(x, Prime) \in Words /\ least[x] \in Words /\ least[Sub(x, Prime)] \in Words
            /\ ValueOf(least[x]) = ValueOf(least[Sub(x, Prime)])
        BY <1>3, <1>5, <2>1
      <3> QED  BY <2>1, <3>1, GeLaw
    <2>2. CASE ~Ge(x, Prime)
      <3>1. least[x] \in Words /\ ValueOf(least[x]) = ValueOf(x)
        BY <1>2, <1>5, <2>2
      <3> QED  BY <2>2, <3>1, GeLaw
    <2> QED  BY <2>1, <2>2
  <1>8. Reduces(least)
    BY <1>6, <1>7
  <1>9. Reduces(reduce)
    <2> HIDE DEF Reduces
    <2> QED  BY <1>8, Zenon
  <1>10. Reduced(w) = reduce[w]
    BY DEF Reduced
  <1> HIDE DEF reduce
  <1>11. \A x \in Words : reduce[x] = IF Ge(x, Prime) THEN reduce[Sub(x, Prime)] ELSE x
    BY <1>9
  <1> HIDE DEF Reduces
  <1>12. \A x \in Words : reduce[x] = least[x]
    <2> DEFINE T == {x \in Words : reduce[x] = least[x]}
    <2>1. \A x \in Words : ~Ge(x, Prime) => x \in T
      BY <1>7, <1>11
    <2>2. \A x \in Words : Ge(x, Prime) /\ Sub(x, Prime) \in T => x \in T
      BY <1>7, <1>11
    <2> HIDE DEF T
    <2>3. Words \subseteq T
      BY <2>1, <2>2, DescentByPrime
    <2> QED  BY <2>3 DEF T
  <1> QED  BY <1>5, <1>10, <1>12 DEF p

-----------------------------------------------------------------------------
(* The only word under which a secret can be spent.                        *)
SpentAs(secret) == Alias(Nullifier(Element(market_id), secret), 0)

ClaimsRecorded == \A c \in claims : c.nullifier = SpentAs(c.secret) /\ c.nullifier \in nullifiers

NullifiersDiffer == \A c, d \in claims : c.nullifier = d.nullifier => c = d

SpendInv == ClaimsRecorded /\ NullifiersDiffer

-----------------------------------------------------------------------------
(* An accepted claim spends its secret under that word, and for the first  *)
(* time.                                                                   *)
LEMMA AcceptedWord ==
    ASSUME NEW secret \in Secrets, NEW n, NEW inputs \in Inputs(secret), NEW nullifier,
           NEW amount, Accepts(secret, n, inputs, nullifier, amount)
    PROVE  nullifier = SpentAs(secret) /\ nullifier \notin nullifiers
  <1>1. PICK k \in {0, 1} :
            inputs.nullifier = Alias(Nullifier(Element(market_id), secret), k)
    BY DEF Inputs, NullifierWords
  <1>2. inputs.nullifier.alias = 0 /\ nullifier = inputs.nullifier /\ nullifier \notin nullifiers
    BY DEF Accepts, ProofVerified, Canonical, InputsValidated, NullifierMatches
  <1>3. k = 0
    BY <1>1, <1>2 DEF Alias
  <1> QED  BY <1>1, <1>2, <1>3 DEF SpentAs

(* Every step keeps the records of the claims apart.                       *)
LEMMA NextSpendInv == SpendInv /\ [OwnershipNext]_ovars => SpendInv'
  <1> SUFFICES ASSUME SpendInv, [OwnershipNext]_ovars PROVE SpendInv'
    OBVIOUS
  <1>1. ASSUME UNCHANGED <<market_id, nullifiers, claims>> PROVE SpendInv'
    BY <1>1 DEF SpendInv, ClaimsRecorded, NullifiersDiffer, SpentAs
  <1>2. ASSUME NEW secret \in Secrets, NEW n \in 0 .. count - 1, NEW inputs \in Inputs(secret),
               NEW nullifier \in NullifierWords(secret), NEW s \in Secrets,
               ClaimWinning(secret, n, inputs, nullifier, s.amount)
        PROVE  SpendInv'
    <2> DEFINE claim == [secret |-> secret, amount |-> s.amount, nullifier |-> nullifier]
    <2>1. nullifier = SpentAs(secret) /\ nullifier \notin nullifiers
      BY <1>2, AcceptedWord DEF ClaimWinning
    <2>2. /\ claims' = claims \cup {claim} /\ nullifiers' = nullifiers \cup {nullifier}
          /\ market_id' = market_id
      BY <1>2 DEF ClaimWinning
    <2>3. claim.secret = secret /\ claim.nullifier = nullifier
      OBVIOUS
    <2> HIDE DEF claim
    <2>4. ClaimsRecorded'
      BY <2>1, <2>2, <2>3 DEF SpendInv, ClaimsRecorded, SpentAs
    <2>5. \A c \in claims : c.nullifier # claim.nullifier
      BY <2>1, <2>3 DEF SpendInv, ClaimsRecorded
    <2>6. NullifiersDiffer'
      BY <2>2, <2>5 DEF SpendInv, NullifiersDiffer
    <2> QED  BY <2>4, <2>6 DEF SpendInv
  <1>3. ASSUME NEW secret \in Secrets, PlaceBet(secret) PROVE SpendInv'
    BY <1>3, <1>1 DEF PlaceBet, market
  <1>4. ASSUME NEW o \in {0, 1}, Resolve(o) PROVE SpendInv'
    BY <1>4, <1>1 DEF Resolve
  <1>5. CASE UNCHANGED ovars
    BY <1>5, <1>1 DEF ovars, market
  <1> QED  BY <1>2, <1>3, <1>4, <1>5 DEF OwnershipNext

-----------------------------------------------------------------------------
(* Invariance                                                              *)

(* What the tree holds was bet, and what was claimed is in the tree.       *)
OwnershipInv ==
    /\ inserted \in Seq({TicketOf(s) : s \in Secrets})
    /\ TreeInv
    /\ market_id \in MarketIds /\ outcome \in {0, 1, 255}
    /\ outcome = 255 => claims = {}
    /\ ClaimsBacked
    /\ nullifiers = {c.nullifier : c \in claims}
    /\ SpendInv

(* The leaf that was opened has the outcome and the amount that the claim  *)
(* goes by, and the nonce and the key that are spent.                      *)
LEMMA AcceptedLeaf ==
    ASSUME OwnershipInv, NEW secret \in Secrets, NEW n \in 0 .. count - 1,
           NEW inputs, NEW nullifier, NEW amount, Accepts(secret, n, inputs, nullifier, amount)
    PROVE  /\ n + 1 \in 1 .. Len(inserted)
           /\ inserted[n + 1] = Commitment(Element(inputs.market_id), outcome, amount, secret)
  <1> DEFINE leaf == Commitment(Element(inputs.market_id), inputs.outcome, inputs.amount, secret)
  <1>1. /\ CircuitAccepts(leaf, Siblings(n), Direction(n))
        /\ inputs.amount = amount /\ inputs.outcome = outcome
    BY DEF Accepts, ProofVerified, Satisfied, InputsValidated, AmountMatches, OutcomeMatches
  <1>2. count \in 0 .. Capacity /\ Capacity \in Nat /\ Len(inserted) = count
    BY CapacityType DEF OwnershipInv, TreeInv
  <1>3. inserted \in Seq({TicketOf(s) : s \in Secrets})
    BY DEF OwnershipInv
  <1> HIDE DEF leaf
  <1>4. n \in 0 .. Capacity - 1 /\ n < count /\ inserted # <<>> /\ n + 1 \in 1 .. Len(inserted)
    BY <1>2, <1>3
  <1>5. leaf = inserted[n + 1]
    BY <1>1, <1>4, PathDetermines DEF OwnershipInv
  <1> QED  BY <1>1, <1>4, <1>5 DEF leaf

(* So a bettor with that nonce and key made the bet that is claimed.       *)
LEMMA AcceptedTicket ==
    ASSUME OwnershipInv, NEW secret \in Secrets, NEW n \in 0 .. count - 1,
           NEW inputs, NEW nullifier, NEW amount, Accepts(secret, n, inputs, nullifier, amount)
    PROVE  \E s \in Secrets : /\ SameSecret(s, secret) /\ s.amount = amount /\ s.outcome = outcome
                             /\ Contains(inserted, TicketOf(s))
  <1> DEFINE T == {TicketOf(s) : s \in Secrets}
             leaf == Commitment(Element(inputs.market_id), outcome, amount, secret)
  <1>1. n + 1 \in 1 .. Len(inserted) /\ inserted[n + 1] = leaf
    BY AcceptedLeaf
  <1>2. inserted \in Seq(T)
    BY DEF OwnershipInv
  <1> HIDE DEF T, leaf
  <1>3. inserted[n + 1] \in T
    BY <1>1, <1>2
  <1>4. PICK s \in Secrets : inserted[n + 1] = TicketOf(s)
    BY <1>3 DEF T
  <1>5. Contains(inserted, TicketOf(s))
    BY <1>1, <1>4 DEF Contains
  <1>6. leaf = TicketOf(s)
    BY <1>1, <1>4
  <1>7. /\ s.outcome = outcome /\ s.amount = amount
        /\ s.nonce = secret.nonce /\ s.pubkey = secret.pubkey
    BY <1>6 DEF TicketOf, Commitment, leaf
  <1> QED  BY <1>5, <1>7 DEF SameSecret

(* A new market satisfies the invariant.                                   *)
LEMMA OwnershipInitially == OwnershipInit => OwnershipInv
  <1> SUFFICES ASSUME OwnershipInit PROVE OwnershipInv
    OBVIOUS
  <1>1. TreeInv /\ inserted = <<>>
    BY TreeInitially DEF OwnershipInit
  <1>2. inserted \in Seq({TicketOf(s) : s \in Secrets})
    BY <1>1
  <1>3. /\ market_id \in MarketIds /\ outcome = 255
        /\ claims = {} /\ nullifiers = {}
    BY DEF OwnershipInit
  <1> QED  BY <1>1, <1>2, <1>3
           DEF OwnershipInv, ClaimsBacked, SpendInv, ClaimsRecorded, NullifiersDiffer

(* Steps that leave the tree alone keep what is said of it.                *)
LEMMA TreeUnchanged == TreeInv /\ UNCHANGED vars => TreeInv'
  <1> SUFFICES ASSUME TreeInv, UNCHANGED vars PROVE TreeInv'
    OBVIOUS
  <1>1. tree' = tree /\ root' = root /\ count' = count /\ inserted' = inserted
    BY DEF vars
  <1>2. \A l, m : Node(l, m)' = Node(l, m)
    BY <1>1 DEF Node
  <1>3. LeftKept'
    BY <1>1, <1>2 DEF TreeInv, LeftKept
  <1>4. RootIsReference'
    BY <1>1, <1>2 DEF TreeInv, RootIsReference
  <1> QED  BY <1>1, <1>3, <1>4 DEF TreeInv

(* A bet keeps it: nothing was claimed yet.                                *)
LEMMA PlaceBetInv ==
    ASSUME OwnershipInv, NEW secret \in Secrets, PlaceBet(secret)
    PROVE  OwnershipInv'
  <1> DEFINE T == {TicketOf(s) : s \in Secrets}
             leaf == TicketOf(secret)
  <1>1. /\ inserted \in Seq(T) /\ leaf \in T /\ TreeInv /\ InsertLeaf(leaf)
        /\ outcome = 255 /\ claims = {}
        /\ market_id' = market_id /\ outcome' = outcome
        /\ nullifiers' = nullifiers /\ claims' = claims
    BY DEF OwnershipInv, PlaceBet, market
  <1>2. T' = T
    BY <1>1 DEF TicketOf
  <1> HIDE DEF T, leaf
  <1>3. TreeInv'
    BY <1>1, InsertKeepsTree
  <1>4. inserted' \in Seq(T)
    BY <1>1 DEF InsertLeaf
  <1>5. inserted' \in Seq(T')
    BY <1>2, <1>4
  <1>6. ClaimsBacked'
    BY <1>1 DEF ClaimsBacked
  <1>7. SpendInv'
    <2>1. [OwnershipNext]_ovars
      BY DEF OwnershipNext
    <2> QED  BY <2>1, NextSpendInv DEF OwnershipInv
  <1> QED  BY <1>1, <1>3, <1>5, <1>6, <1>7 DEF OwnershipInv, T

(* The resolution keeps it.                                                *)
LEMMA ResolveInv ==
    ASSUME OwnershipInv, NEW o \in {0, 1}, Resolve(o)
    PROVE  OwnershipInv'
  <1> DEFINE T == {TicketOf(s) : s \in Secrets}
  <1>1. /\ UNCHANGED vars /\ inserted' = inserted /\ market_id' = market_id /\ outcome' = o
        /\ claims = {} /\ claims' = claims /\ nullifiers' = nullifiers
    BY DEF OwnershipInv, Resolve, vars
  <1>2. T' = T
    BY <1>1 DEF TicketOf
  <1>3. inserted' \in Seq(T')
    BY <1>1, <1>2 DEF OwnershipInv
  <1> HIDE DEF T
  <1>4. TreeInv'
    BY <1>1, TreeUnchanged DEF OwnershipInv
  <1>5. ClaimsBacked' /\ nullifiers' = {c.nullifier : c \in claims'}
    BY <1>1 DEF ClaimsBacked, OwnershipInv
  <1>6. SpendInv'
    <2>1. [OwnershipNext]_ovars
      BY DEF OwnershipNext
    <2> QED  BY <2>1, NextSpendInv DEF OwnershipInv
  <1> QED  BY <1>1, <1>3, <1>4, <1>5, <1>6 DEF OwnershipInv, T

(* A claim keeps it: the ticket it goes by is in the tree.                 *)
LEMMA ClaimWinningInv ==
    ASSUME OwnershipInv, NEW secret \in Secrets, NEW n \in 0 .. count - 1,
           NEW inputs \in Inputs(secret), NEW nullifier \in NullifierWords(secret),
           NEW s \in Secrets, ClaimWinning(secret, n, inputs, nullifier, s.amount)
    PROVE  OwnershipInv'
  <1> DEFINE T == {TicketOf(t) : t \in Secrets}
             claim == [secret |-> secret, amount |-> s.amount, nullifier |-> nullifier]
  <1>1. /\ UNCHANGED vars /\ inserted' = inserted /\ market_id' = market_id /\ outcome' = outcome
        /\ claims' = claims \cup {claim} /\ nullifiers' = nullifiers \cup {nullifier}
        /\ Accepts(secret, n, inputs, nullifier, s.amount)
    BY DEF ClaimWinning, vars
  <1>2. T' = T
    BY <1>1 DEF TicketOf
  <1>3. inserted' \in Seq(T')
    BY <1>1, <1>2 DEF OwnershipInv
  <1>4. /\ claim.secret = secret /\ claim.amount = s.amount /\ claim.nullifier = nullifier
        /\ outcome \in {0, 1}
    BY <1>1 DEF Accepts
  <1> HIDE DEF T, claim
  <1>5. TreeInv'
    BY <1>1, TreeUnchanged DEF OwnershipInv
  <1>6. ClaimsBacked'
    <2>1. PICK t \in Secrets : /\ SameSecret(t, secret) /\ t.amount = s.amount
                               /\ t.outcome = outcome /\ Contains(inserted, TicketOf(t))
      BY <1>1, AcceptedTicket
    <2>2. \A u \in Secrets : TicketOf(u)' = TicketOf(u)
      BY <1>1 DEF TicketOf
    <2>3. ASSUME NEW c \in claims'
          PROVE  \E u \in Secrets : /\ SameSecret(u, c.secret) /\ u.amount = c.amount
                                    /\ u.outcome = outcome /\ Contains(inserted, TicketOf(u))
      BY <1>1, <1>4, <2>1, <2>3 DEF OwnershipInv, ClaimsBacked
    <2> QED  BY <1>1, <2>2, <2>3 DEF ClaimsBacked
  <1>7. nullifiers' = {c.nullifier : c \in claims'}
    BY <1>1, <1>4 DEF OwnershipInv
  <1>8. SpendInv'
    <2>1. [OwnershipNext]_ovars
      BY DEF OwnershipNext
    <2> QED  BY <2>1, NextSpendInv DEF OwnershipInv
  <1> QED  BY <1>1, <1>3, <1>4, <1>5, <1>6, <1>7, <1>8 DEF OwnershipInv, T

(* Every step keeps it.                                                    *)
LEMMA NextOwnershipInv == OwnershipInv /\ [OwnershipNext]_ovars => OwnershipInv'
  <1> SUFFICES ASSUME OwnershipInv, [OwnershipNext]_ovars PROVE OwnershipInv'
    OBVIOUS
  <1>1. CASE UNCHANGED ovars
    <2>1. UNCHANGED vars /\ UNCHANGED <<inserted, market_id, outcome, nullifiers, claims>>
      BY <1>1 DEF ovars, market, vars
    <2>2. TreeInv' /\ SpendInv'
      BY <1>1, <2>1, TreeUnchanged, NextSpendInv DEF OwnershipInv
    <2> QED  BY <2>1, <2>2 DEF OwnershipInv, ClaimsBacked, TicketOf
  <1>2. CASE OwnershipNext
    BY <1>2, PlaceBetInv, ResolveInv, ClaimWinningInv DEF OwnershipNext
  <1> QED  BY <1>1, <1>2

(* It holds always.                                                        *)
THEOREM OwnershipInvariance == OwnershipSpec => []OwnershipInv
  BY OwnershipInitially, NextOwnershipInv, PTL DEF OwnershipSpec

-----------------------------------------------------------------------------
(* What a market, its bettors and its prover may rely on                   *)

(* Whatever the depth of the tree and the number of bets, the root that    *)
(* insert_leaf keeps with one hash per level is that of the complete tree. *)
THEOREM RootCorrect == OwnershipSpec => []RootIsReference
  <1>1. OwnershipInv => RootIsReference
    BY DEF OwnershipInv, TreeInv
  <1> QED  BY <1>1, OwnershipInvariance, PTL

(* Every inserted leaf has a path under the current root.                  *)
THEOREM PathsCorrect == OwnershipSpec => []EveryLeafProvable
  <1>1. OwnershipInv => EveryLeafProvable
    BY PathAccepted DEF OwnershipInv, EveryLeafProvable
  <1> QED  BY <1>1, OwnershipInvariance, PTL

(* No leaf but the one inserted at a position has a path there.            *)
THEOREM OnlyInsertedCorrect == OwnershipSpec => []OnlyInsertedAccepted
  <1>1. OwnershipInv => OnlyInsertedAccepted
    <2> SUFFICES ASSUME OwnershipInv, inserted # <<>>, NEW n \in 0 .. Capacity - 1,
                        NEW leaf \in Leaves, NEW sibling,
                        CircuitAccepts(leaf, sibling, Direction(n))
                 PROVE  n < count /\ leaf = inserted[n + 1]
      BY DEF OnlyInsertedAccepted
    <2>1. leaf = IF n < count THEN inserted[n + 1] ELSE Zero
      BY PathDetermines DEF OwnershipInv
    <2> QED  BY <2>1, ZeroAssumption
  <1> QED  BY <1>1, OwnershipInvariance, PTL

(* A claim goes by the amount of a ticket in the tree that was made for    *)
(* the outcome of the market, with the nonce and the key of the claim.     *)
THEOREM ClaimsCorrect == OwnershipSpec => []ClaimsBacked
  <1>1. OwnershipInv => ClaimsBacked
    BY DEF OwnershipInv
  <1> QED  BY <1>1, OwnershipInvariance, PTL

(* The word a client computes for the id of a market is the one the        *)
(* program reduces the id to, and it is below the prime.                   *)
LEMMA ClientWord ==
    ASSUME NEW id \in Words
    PROVE  /\ (CHOOSE w \in Words : ValueOf(w) = Element(id)) = Reduced(id)
           /\ Element(Reduced(id)) = Element(id)
           /\ ~Ge(Reduced(id), Prime)
  <1>1. Reduced(id) \in Words /\ ValueOf(Reduced(id)) = Element(id)
    BY ReducedLaw DEF Element
  <1> DEFINE word == CHOOSE w \in Words : ValueOf(w) = Element(id)
  <1>2. word \in Words /\ ValueOf(word) = Element(id)
    BY <1>1, Zenon
  <1> HIDE DEF word
  <1>3. word = Reduced(id)
    BY <1>1, <1>2, GeLaw
  <1>4. ValueOf(Prime) \in Nat /\ ValueOf(Prime) > 0 /\ ValueOf(id) \in Nat
    BY PrimePositive, WordRead
  <1>5. Element(id) \in 0 .. ValueOf(Prime) - 1
    BY <1>4, RemainderLaw DEF Element
  <1>6. ~Ge(Reduced(id), Prime)
    BY <1>1, <1>4, <1>5, GeLaw, WordTypes
  <1>7. Element(Reduced(id)) = Element(id)
    <2>1. Element(id) \in Nat /\ Element(id) < ValueOf(Prime)
      BY <1>4, <1>5
    <2>2. Element(id) % ValueOf(Prime) = Element(id)
      BY <1>4, <2>1, RemainderLaw
    <2> QED  BY <1>1, <2>2 DEF Element
  <1> QED  BY <1>3, <1>6, <1>7 DEF word

(* Whoever holds a winning ticket that was not used can claim it: the path *)
(* is accepted, the id the client gives is the one the program expects,    *)
(* whatever the id of the market, and the nullifier has no account.        *)
THEOREM HoldersCorrect == OwnershipSpec => []HoldersCanClaim
  <1>1. OwnershipInv => HoldersCanClaim
    <2> SUFFICES ASSUME OwnershipInv, outcome \in {0, 1},
                        NEW secret \in Secrets, NEW n \in 0 .. count - 1,
                        secret.outcome = outcome, inserted[n + 1] = TicketOf(secret),
                        \A c \in claims : ~SameSecret(c.secret, secret)
                 PROVE  Accepts(secret, n, InputsOf(secret), InputsOf(secret).nullifier,
                                secret.amount)
      BY DEF HoldersCanClaim
    <2> DEFINE inputs == InputsOf(secret)
    <2>1. market_id \in Words
      BY WordAssumption DEF OwnershipInv
    <2>2. /\ inputs.market_id = Reduced(market_id) /\ inputs.outcome = outcome
          /\ inputs.nullifier = SpentAs(secret) /\ inputs.amount = secret.amount
      BY <2>1, ClientWord DEF InputsOf, SpentAs
    <2>3. /\ inputs.nullifier.alias = 0
          /\ inputs.nullifier.element = Nullifier(Element(market_id), secret)
      BY <2>2 DEF SpentAs, Alias
    <2> HIDE DEF inputs
    <2>4. Element(inputs.market_id) = Element(market_id) /\ ~Ge(inputs.market_id, Prime)
      BY <2>1, <2>2, ClientWord
    <2>5. CircuitAccepts(TicketOf(secret), Siblings(n), Direction(n))
      BY PathAccepted DEF OwnershipInv
    <2>6. TicketOf(secret)
              = Commitment(Element(inputs.market_id), inputs.outcome, inputs.amount, secret)
      BY <2>2, <2>4 DEF TicketOf
    <2>7. inputs.nullifier \notin nullifiers
      <3> SUFFICES ASSUME NEW c \in claims, c.nullifier = inputs.nullifier PROVE FALSE
        BY DEF OwnershipInv
      <3>1. SpentAs(c.secret) = SpentAs(secret)
        BY <2>2 DEF OwnershipInv, SpendInv, ClaimsRecorded
      <3>2. SameSecret(c.secret, secret)
        BY <3>1 DEF SpentAs, Alias, Nullifier, SameSecret
      <3> QED  BY <3>2
    <2>8. InputsValidated(inputs, inputs.nullifier, secret.amount)
      BY <2>2 DEF InputsValidated, NullifierMatches, AmountMatches, OutcomeMatches
    <2>9. ProofVerified(secret, n, inputs)
      BY <2>2, <2>3, <2>4, <2>5, <2>6 DEF ProofVerified, Canonical, Satisfied
    <2> QED  BY <2>7, <2>8, <2>9 DEF Accepts, inputs
  <1> QED  BY <1>1, OwnershipInvariance, PTL

(* Each ticket is claimed at most once, by whichever inputs.               *)
THEOREM NoDoubleClaim == OwnershipSpec => []ClaimedOnce
  <1>1. SpendInv => ClaimedOnce
    <2> SUFFICES ASSUME SpendInv, NEW c \in claims, NEW d \in claims,
                        SameSecret(c.secret, d.secret)
                 PROVE  c = d
      BY DEF ClaimedOnce
    <2>1. SpentAs(c.secret) = SpentAs(d.secret)
      BY DEF SameSecret, SpentAs, Nullifier
    <2> QED  BY <2>1 DEF SpendInv, ClaimsRecorded, NullifiersDiffer
  <1>2. OwnershipInv => SpendInv
    BY DEF OwnershipInv
  <1> QED  BY <1>1, <1>2, OwnershipInvariance, PTL

-----------------------------------------------------------------------------
(* A book of tickets                                                       *)

(* A bet enters its ticket.                                                *)
LEMMA BetEnters ==
    ASSUME OwnershipInv, NEW secret \in Secrets, PlaceBet(secret)
    PROVE  Promise!Next
  <1> DEFINE T == {TicketOf(s) : s \in Secrets}
             leaf == TicketOf(secret)
             ticket == Ticket(secret.outcome, secret.amount, secret.nonce, secret.pubkey)
             Of(l) == Ticket(l[3], l[4], l[5], l[6])
  <1>1. /\ inserted \in Seq(T) /\ leaf \in T /\ inserted' = Append(inserted, leaf)
        /\ outcome = 255 /\ outcome' = outcome /\ claims' = claims
    BY DEF OwnershipInv, PlaceBet, InsertLeaf, market
  <1>2. Of(leaf) = ticket
    BY DEF TicketOf, Commitment
  <1>3. TicketsBet = [k \in DOMAIN inserted |-> Of(inserted[k])]
    BY DEF TicketsBet
  <1>4. TicketsBet' = [k \in DOMAIN inserted' |-> Of(inserted'[k])]
    BY DEF TicketsBet
  <1> HIDE DEF T, leaf, ticket, Of
  <1>5. PICK n \in Nat : n = Len(inserted)
    BY <1>1
  <1>6. /\ DOMAIN inserted = 1 .. n /\ DOMAIN inserted' = 1 .. n + 1
        /\ inserted'[n + 1] = leaf /\ \A k \in 1 .. n : inserted'[k] = inserted[k]
    BY <1>1, <1>5, AppendProperties
  <1>7. TicketsBet' = Append(TicketsBet, ticket)
    <2>1. TicketsBet = [k \in 1 .. n |-> Of(inserted[k])]
      BY <1>3, <1>6
    <2> DEFINE S == {Of(inserted[k]) : k \in 1 .. n} \cup {ticket}
               more == Append(TicketsBet, ticket)
    <2>2. TicketsBet \in Seq(S) /\ Len(TicketsBet) = n /\ ticket \in S
      BY <2>1
    <2> HIDE DEF S
    <2>3. /\ more \in Seq(S) /\ Len(more) = n + 1 /\ more[n + 1] = ticket
          /\ \A k \in 1 .. n : more[k] = TicketsBet[k]
      BY <2>2, AppendProperties
    <2> HIDE DEF more
    <2>4. more = [k \in 1 .. n + 1 |-> more[k]]
      BY <2>3
    <2>5. TicketsBet' = [k \in 1 .. n + 1 |-> Of(inserted'[k])]
      BY <1>4, <1>6
    <2>6. ASSUME NEW k \in 1 .. n + 1
          PROVE  Of(inserted'[k]) = more[k]
      <3>1. CASE k = n + 1
        BY <3>1, <1>2, <1>6, <2>3
      <3>2. CASE k # n + 1
        <4>1. k \in 1 .. n
          BY <3>2
        <4> QED  BY <4>1, <2>1, <2>3, <1>6
      <3> QED  BY <3>1, <3>2
    <2>7. TicketsBet' = more
      BY <2>4, <2>5, <2>6
    <2> QED  BY <2>7 DEF more
  <1>8. TicketsPaid' = TicketsPaid
    BY <1>1 DEF TicketsPaid
  <1>9. ticket \in {Ticket(s.outcome, s.amount, s.nonce, s.pubkey) : s \in Secrets}
    BY DEF ticket
  <1>10. Promise!Enter(ticket)
    BY <1>1, <1>7, <1>8 DEF Promise!Enter
  <1> QED  BY <1>9, <1>10 DEF Promise!Next

(* The resolution declares the outcome; nothing has been paid.             *)
LEMMA ResolutionDeclares ==
    ASSUME OwnershipInv, NEW o \in {0, 1}, Resolve(o)
    PROVE  Promise!Next
  <1>1. outcome = 255 /\ outcome' = o /\ inserted' = inserted /\ claims = {} /\ claims' = {}
    BY DEF OwnershipInv, Resolve, vars
  <1>2. TicketsBet' = TicketsBet
    BY <1>1 DEF TicketsBet
  <1>3. TicketsPaid' = TicketsPaid
    BY <1>1 DEF TicketsPaid
  <1>4. Promise!Declare(o)
    BY <1>1, <1>2, <1>3 DEF Promise!Declare
  <1> QED  BY <1>4 DEF Promise!Next

(* A claim pays the ticket behind the leaf that was opened.                *)
LEMMA ClaimPays ==
    ASSUME OwnershipInv, NEW secret \in Secrets, NEW n \in 0 .. count - 1,
           NEW inputs \in Inputs(secret), NEW nullifier \in NullifierWords(secret),
           NEW s \in Secrets, ClaimWinning(secret, n, inputs, nullifier, s.amount)
    PROVE  Promise!Next
  <1> DEFINE ticket == Ticket(outcome, s.amount, secret.nonce, secret.pubkey)
             claim == [secret |-> secret, amount |-> s.amount, nullifier |-> nullifier]
             PaidBy(c) == Ticket(outcome, c.amount, c.secret.nonce, c.secret.pubkey)
  <1>1. /\ Accepts(secret, n, inputs, nullifier, s.amount)
        /\ inserted' = inserted /\ outcome' = outcome /\ claims' = claims \cup {claim}
    BY DEF ClaimWinning, vars
  <1>2. outcome \in {0, 1}
    BY <1>1 DEF Accepts
  <1>3. inserted \in Seq({TicketOf(t) : t \in Secrets})
    BY DEF OwnershipInv
  <1>4. /\ n + 1 \in DOMAIN inserted
        /\ inserted[n + 1] = Commitment(Element(inputs.market_id), outcome, s.amount, secret)
    BY <1>1, <1>3, AcceptedLeaf
  <1>5. n + 1 \in DOMAIN TicketsBet /\ TicketsBet[n + 1] = ticket
    BY <1>4 DEF TicketsBet, Commitment
  <1>6. /\ ticket.outcome = outcome /\ ticket.nonce = secret.nonce
        /\ ticket.pubkey = secret.pubkey /\ PaidBy(claim) = ticket
    BY DEF Ticket
  <1>7. ASSUME NEW paid \in TicketsPaid
        PROVE  ~Promise!SameKey(paid, ticket)
    <2>1. PICK c \in claims : paid = PaidBy(c)
      BY DEF TicketsPaid
    <2>2. paid.nonce = c.secret.nonce /\ paid.pubkey = c.secret.pubkey
      BY <2>1 DEF Ticket
    <2>3. c.nullifier = SpentAs(c.secret) /\ c.nullifier \in nullifiers
      BY DEF OwnershipInv, SpendInv, ClaimsRecorded
    <2>4. SpentAs(secret) \notin nullifiers
      BY <1>1, AcceptedWord
    <2>5. paid.nonce = secret.nonce /\ paid.pubkey = secret.pubkey
              => SpentAs(c.secret) = SpentAs(secret)
      BY <2>2 DEF SpentAs, Nullifier
    <2> QED  BY <1>6, <2>3, <2>4, <2>5 DEF Promise!SameKey
  <1>8. TicketsBet' = TicketsBet
    BY <1>1 DEF TicketsBet
  <1>9. TicketsPaid' = TicketsPaid \cup {ticket}
    <2>1. TicketsPaid = {PaidBy(c) : c \in claims}
      BY DEF TicketsPaid
    <2>2. TicketsPaid' = {PaidBy(c) : c \in claims'}
      BY <1>1 DEF TicketsPaid
    <2> HIDE DEF claim, ticket, PaidBy
    <2> QED  BY <1>1, <1>6, <2>1, <2>2
  <1> HIDE DEF ticket
  <1>10. Promise!Pay(n + 1)
    BY <1>1, <1>2, <1>5, <1>6, <1>7, <1>8, <1>9 DEF Promise!Pay
  <1> QED  BY <1>5, <1>10 DEF Promise!Next

(* A market without bets is a book without tickets.                        *)
LEMMA InitOfBook == OwnershipInit => Promise!Init
  <1> SUFFICES ASSUME OwnershipInit PROVE Promise!Init
    OBVIOUS
  <1>1. inserted = <<>> /\ outcome = 255 /\ claims = {}
    BY DEF OwnershipInit, Init
  <1>2. TicketsBet = <<>>
    BY <1>1 DEF TicketsBet
  <1>3. TicketsPaid = {}
    BY <1>1 DEF TicketsPaid
  <1> QED  BY <1>1, <1>2, <1>3 DEF Promise!Init

(* Every step is one of the book or leaves the book alone.                 *)
LEMMA NextOfBook == OwnershipInv /\ [OwnershipNext]_ovars => [Promise!Next]_(Promise!vars)
  <1> SUFFICES ASSUME OwnershipInv, [OwnershipNext]_ovars PROVE [Promise!Next]_(Promise!vars)
    OBVIOUS
  <1>1. CASE UNCHANGED ovars
    <2>1. inserted' = inserted /\ outcome' = outcome /\ claims' = claims
      BY <1>1 DEF ovars, vars, market
    <2>2. TicketsBet' = TicketsBet /\ TicketsPaid' = TicketsPaid
      BY <2>1 DEF TicketsBet, TicketsPaid
    <2> QED  BY <2>1, <2>2 DEF Promise!vars
  <1>2. CASE OwnershipNext
    BY <1>2, BetEnters, ResolutionDeclares, ClaimPays DEF OwnershipNext
  <1> QED  BY <1>1, <1>2

(* Whatever ids, paths, inputs and words a prover tries, a market with     *)
(* claims by zero knowledge is a book of tickets that pays each key once,  *)
(* for a ticket of its own on the outcome: what claim_winning takes for    *)
(* granted of a proof (claim_winning.rs:15-52).                            *)
THEOREM ImplementsBook == OwnershipSpec => ImplementsTicketBook
  BY InitOfBook, NextOfBook, OwnershipInvariance, PTL
     DEF OwnershipSpec, ImplementsTicketBook, Promise!Spec

=============================================================================
