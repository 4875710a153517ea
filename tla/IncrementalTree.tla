--------------------------- MODULE IncrementalTree ---------------------------
(***************************************************************************)
(* The commitment tree of a market: insert_leaf (place_bet.rs), which keeps*)
(* one hash per level, and the inclusion check of the ownership circuit    *)
(* (ownership.circom) against the root it leaves.  KrnMarket puts the      *)
(* sequence of the inserted tickets in its place; this module is why it    *)
(* may.                                                                    *)
(***************************************************************************)
EXTENDS Integers, Sequences

CONSTANTS
    Depth,   \* TREE_DEPTH
    Leaves,  \* commitment hashes that bettors of any market compute
    Zero     \* [0u8; 32]

ASSUME DepthAssumption == Depth \in Nat \ {0}
ASSUME ZeroAssumption  == Zero \notin Leaves

VARIABLES
    tree,     \* MarketAccount.commitment_tree
    root,     \* MarketAccount.commitment_root
    count,    \* MarketAccount.commitment_count
    inserted  \* the leaves so far (history variable)

vars == <<tree, root, count, inserted>>

(* Poseidon(2): no two pairs a program meets have the same hash.           *)
Hash(left, right) == <<left, right>>

Levels == 0 .. Depth - 1

PowerOfTwo[k \in Nat] == IF k = 0 THEN 1 ELSE 2 * PowerOfTwo[k - 1]

Capacity == PowerOfTwo[Depth]      \* 1u32 << TREE_DEPTH

-----------------------------------------------------------------------------
(* Mutants.                                                                *)
StoreAlways(level, old, current) == current
ZeroAtEveryLevel(level)          == Zero
RootIgnored(hash)                == TRUE

-----------------------------------------------------------------------------
(* insert_leaf                                                             *)

(* compute_zero_hashes                                                     *)
ZeroHashes(level) ==
    LET zeros[l \in 0 .. Depth] ==
            IF l = 0 THEN Zero ELSE Hash(zeros[l - 1], zeros[l - 1])
    IN  zeros[level]

(* current_index as it enters a level.                                     *)
IndexAt(index, level) ==
    LET at[l \in 0 .. Depth] == IF l = 0 THEN index ELSE at[l - 1] \div 2
    IN  at[level]

IsRight(index, level) == IndexAt(index, level) % 2 = 1

(* current_hash as it enters each level, the root last.                    *)
Climb(leaf) ==
    LET hash[l \in 0 .. Depth] ==
            IF l = 0 THEN leaf
            ELSE IF IsRight(count, l - 1)
                 THEN Hash(tree[l - 1], hash[l - 1])
                 ELSE Hash(hash[l - 1], ZeroHashes(l - 1))
    IN  hash

(* A left child is kept for the sibling that comes later.                  *)
Stored(level, old, current) == IF IsRight(count, level) THEN old ELSE current

InsertLeaf(leaf) ==
    /\ count < Capacity
    /\ tree' = [l \in Levels |-> Stored(l, tree[l], Climb(leaf)[l])]
    /\ root' = Climb(leaf)[Depth]
    /\ count' = count + 1
    /\ inserted' = Append(inserted, leaf)

Init ==
    /\ tree = [l \in Levels |-> Zero]
    /\ root = Zero
    /\ count = 0
    /\ inserted = <<>>

-----------------------------------------------------------------------------
(* The circuit's inclusion check: sibling and direction are the prover's   *)
(* private inputs, one per level, direction constrained to 0 or 1.         *)

Mux(direction, current, sibling) ==
    IF direction = 0 THEN Hash(current, sibling) ELSE Hash(sibling, current)

RootMatches(hash) == hash = root

CircuitAccepts(leaf, sibling, direction) ==
    LET levelHash[i \in 0 .. Depth] ==
            IF i = 0 THEN leaf
            ELSE Mux(direction[i - 1], levelHash[i - 1], sibling[i - 1])
    IN  RootMatches(levelHash[Depth])

-----------------------------------------------------------------------------
(* The reference: the complete binary tree over the inserted leaves, Zero  *)
(* where no leaf is yet.  Node(level, n) is its n-th node of a level.      *)

Node(level, n) ==
    LET row[l \in 0 .. Depth] ==
            IF l = 0 THEN [m \in Nat |-> IF m < Len(inserted) THEN inserted[m + 1] ELSE Zero]
            ELSE [m \in Nat |-> Hash(row[l - 1][2 * m], row[l - 1][2 * m + 1])]
    IN  row[level][n]

NodesOf(level) == {Node(level, n) : n \in 0 .. PowerOfTwo[Depth - level] - 1}

Direction(n) == [l \in Levels |-> IF IsRight(n, l) THEN 1 ELSE 0]

Neighbour(n) == IF n % 2 = 0 THEN n + 1 ELSE n - 1
Siblings(n)  == [l \in Levels |-> Node(l, Neighbour(IndexAt(n, l)))]

-----------------------------------------------------------------------------
(* Properties                                                              *)

(* However many leaves were inserted, the root kept with one hash per      *)
(* level is that of the complete tree (place_bet.rs:43-68).                *)
RootIsReference == inserted # <<>> => root = Node(Depth, 0)

(* Every inserted leaf, not only the first or the last, has a path the     *)
(* circuit accepts under the current root.  A path computed before a later *)
(* insertion need not: it must be computed when betting is over.           *)
EveryLeafProvable ==
    \A n \in 0 .. count - 1 : CircuitAccepts(inserted[n + 1], Siblings(n), Direction(n))

(* Whatever siblings and directions a prover picks, only a leaf that was   *)
(* inserted at that position is accepted.  Hashes being free of collisions,*)
(* siblings outside the tree need not be tried.                            *)
OnlyInsertedAccepted ==
    LET nodes    == [l \in Levels |-> NodesOf(l)]
        siblings == {s \in [Levels -> UNION {nodes[l] : l \in Levels}] :
                         \A l \in Levels : s[l] \in nodes[l]}
    IN  inserted # <<>> =>
            \A n \in 0 .. Capacity - 1, leaf \in Leaves, sibling \in siblings :
                CircuitAccepts(leaf, sibling, Direction(n)) =>
                    n < count /\ leaf = inserted[n + 1]

=============================================================================
