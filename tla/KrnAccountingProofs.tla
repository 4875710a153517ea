------------------------- MODULE KrnAccountingProofs -------------------------
(***************************************************************************)
(* The books of a market, for any number of bettors, any stakes and any    *)
(* commitment hashes.                                                      *)
(*   Records: what the leaf of a bet, its BetCommitment account and the    *)
(* NullifierAccount of a claim have to do with one another.                *)
(*   Solvency: if the hashes somebody can open are well formed, then in    *)
(* whatever order winners claim the pool covers each who was not paid yet. *)
(* The argument avoids sums: the stakes of one side are laid side by side  *)
(* as disjoint intervals of 0 .. pool-1, and what was paid is compared     *)
(* with the part of the winning pool that the paid winners' intervals      *)
(* cover.                                                                  *)
(*   Refinement: a market implements the parimutuel market of Parimutuel.  *)
(*   Sums: each pool is the sum of the stakes of its side, the pool        *)
(* account holds what was bet less one payout per nullifier, and once      *)
(* every winner is paid less than a lamport per winner remains.            *)
(***************************************************************************)
EXTENDS KrnRefinement, KrnMarketProofs, InductionLemmas

-----------------------------------------------------------------------------
(* Arithmetic                                                              *)

(* Multiplication by a natural is monotone.                                *)
LEMMA MulMonotone ==
    ASSUME NEW x \in Nat, NEW y \in Nat, NEW z \in Nat, x <= y
    PROVE  x * z <= y * z /\ z * x <= z * y
  OBVIOUS

(* A positive factor cancels on both sides of an inequation.               *)
LEMMA MulCancel ==
    ASSUME NEW x \in Int, NEW y \in Int, NEW z \in Nat \ {0}, x * z <= y * z
    PROVE  x <= y
  OBVIOUS

(* What the rounded-down quotient of claim_winning is between.             *)
LEMMA QuotientBounds ==
    ASSUME NEW x \in Nat, NEW w \in Nat \ {0}
    PROVE  /\ (x \div w) \in Nat
           /\ (x \div w) * w <= x
  OBVIOUS

(* The share of a stake in the winning pool is at most the whole pool, so  *)
(* the cast to u64 keeps it.                                               *)
LEMMA ShareBounds ==
    ASSUME NEW a \in Nat, NEW t \in Nat, NEW w \in Nat \ {0}, a <= w
    PROVE  /\ ((a * t) \div w) \in Nat
           /\ ((a * t) \div w) * w <= a * t
           /\ ((a * t) \div w) <= t
  <1> DEFINE q == (a * t) \div w
  <1>1. a * t \in Nat
    OBVIOUS
  <1>2. q \in Nat /\ q * w <= a * t
    BY <1>1, QuotientBounds
  <1> HIDE DEF q
  <1>3. a * t <= w * t /\ w * t = t * w
    BY MulMonotone
  <1>4. q * w <= t * w
    BY <1>2, <1>3
  <1>5. q <= t
    BY <1>2, <1>4, MulCancel
  <1> QED  BY <1>2, <1>5 DEF q

-----------------------------------------------------------------------------
(* The records of a bet and of a claim                                     *)

(* A leaf is the commitment hash of the bettor who paid for it.            *)
LeafIsBet ==
    \A k \in DOMAIN leaves :
        /\ leaves[k].bettor \in DOMAIN bets
        /\ leaves[k].hash = bets[leaves[k].bettor].commitment_hash

BetHasLeaf ==
    \A b \in DOMAIN bets : \E k \in DOMAIN leaves :
        leaves[k].bettor = b /\ leaves[k].hash = bets[b].commitment_hash

LeavesCounted ==
    IsFiniteSet(DOMAIN bets) /\ Len(leaves) = Cardinality(DOMAIN bets)

StakesPositive == \A b \in DOMAIN bets : bets[b].amount >= 1

(* A nullifier is that of a hash somebody could open, made for the outcome *)
(* and for the stake of a signer who bet on the outcome.                   *)
Recorded(n) ==
    /\ nullifiers[n].signer \in DOMAIN bets /\ nullifiers[n].bettor \in DOMAIN bets
    /\ n \in KnownKeys
    /\ n = bets[nullifiers[n].bettor].commitment_hash.key
    /\ bets[nullifiers[n].bettor].commitment_hash.outcome = outcome
    /\ bets[nullifiers[n].bettor].commitment_hash.amount = bets[nullifiers[n].signer].amount
    /\ bets[nullifiers[n].signer].side = outcome

ClaimsRecorded ==
    IsFiniteSet(DOMAIN nullifiers) /\ \A n \in DOMAIN nullifiers : Recorded(n)

(* Nothing is paid before the resolution.                                  *)
Untouched ==
    /\ state # "Resolved" => nullifiers = <<>> /\ pool = total_pool
    /\ state = "None" => bets = <<>> /\ leaves = <<>>

Records ==
    /\ LeafIsBet /\ BetHasLeaf /\ LeavesCounted /\ StakesPositive
    /\ ClaimsRecorded /\ Untouched

RecordInv == ResolutionInv /\ Records

(* The empty function is the empty sequence.                               *)
LEMMA NoneYet == DOMAIN <<>> = {} /\ Len(<<>>) = 0
  OBVIOUS

(* A market that does not exist yet has no records.                        *)
LEMMA InitRecordInv == Init => RecordInv
  <1> SUFFICES ASSUME Init PROVE RecordInv
    OBVIOUS
  <1>1. /\ DOMAIN bets = {} /\ DOMAIN leaves = {} /\ Len(leaves) = 0 /\ DOMAIN nullifiers = {}
    BY NoneYet DEF Init
  <1>2. Untouched
    BY DEF Init, Untouched
  <1>3. Records
    BY <1>1, <1>2, FS_EmptySet DEF Records, LeafIsBet, BetHasLeaf, LeavesCounted,
       StakesPositive, ClaimsRecorded
  <1> QED  BY <1>3, InitResolutionInv DEF RecordInv

(* What place_bet adds: one account and one leaf, of the same hash.        *)
LEMMA BetAdded ==
    ASSUME TypeOK, NEW b \in Bettors, NEW side \in 0 .. 2, NEW amount \in Stakes,
           NEW hash \in Commitments(b, side, amount), PlaceBet(b, side, amount, hash)
    PROVE  /\ state = "Open" /\ state' = "Open" /\ outcome' = outcome /\ nullifiers' = nullifiers
           /\ side \in {NO, YES} /\ amount \in Nat /\ amount >= 1
           /\ b \notin DOMAIN bets /\ DOMAIN bets' = DOMAIN bets \cup {b}
           /\ bets'[b].side = side /\ bets'[b].amount = amount
           /\ bets'[b].commitment_hash = hash
           /\ \A c \in DOMAIN bets : bets'[c] = bets[c]
           /\ DOMAIN leaves' = DOMAIN leaves \cup {Len(leaves) + 1}
           /\ Len(leaves) + 1 \notin DOMAIN leaves
           /\ Len(leaves') = Len(leaves) + 1 /\ Len(leaves) \in Nat
           /\ leaves'[Len(leaves) + 1].bettor = b /\ leaves'[Len(leaves) + 1].hash = hash
           /\ \A k \in DOMAIN leaves : leaves'[k] = leaves[k]
           /\ pool' = pool + amount /\ total_pool' = total_pool + amount
           /\ yes_pool' = yes_pool + YesPart(side, amount)
           /\ no_pool' = no_pool + NoPart(side, amount)
  <1>1. /\ state = "Open" /\ state' = "Open" /\ outcome' = outcome /\ nullifiers' = nullifiers
        /\ side \in {NO, YES} /\ amount \in Nat /\ amount >= 1 /\ b \notin DOMAIN bets
        /\ pool' = pool + amount /\ total_pool' = total_pool + amount
        /\ yes_pool' = yes_pool + YesPart(side, amount)
        /\ no_pool' = no_pool + NoPart(side, amount)
    BY StakesAssumption DEF PlaceBet, BettingOpen, CommitmentSlotFree, resolution
  <1>2. PICK bet : bet = [commitment_hash |-> hash, side |-> side, amount |-> amount,
                          claimed |-> FALSE]
    OBVIOUS
  <1>3. bets' = Put(bets, b, bet)
    BY <1>2 DEF PlaceBet
  <1>4. /\ DOMAIN bets' = DOMAIN bets \cup {b} /\ bets'[b] = bet
        /\ \A c \in DOMAIN bets : bets'[c] = bets[c]
    BY <1>1, <1>3 DEF Put
  <1>5. bet.side = side /\ bet.amount = amount /\ bet.commitment_hash = hash
    BY <1>2
  <1>6. PICK leaf : leaf = [hash |-> hash, bettor |-> b]
    OBVIOUS
  <1>7. leaf.hash = hash /\ leaf.bettor = b
    BY <1>6
  <1>8. hash \in Tickets
    BY <1>1, CommitmentTyped
  <1>9. leaf \in Leaf /\ leaves \in Seq(Leaf)
    BY <1>6, <1>8 DEF Leaf, TypeOK
  <1>10. leaves' = Append(leaves, leaf)
    BY <1>6 DEF PlaceBet, InsertLeaf
  <1>11. /\ DOMAIN leaves' = DOMAIN leaves \cup {Len(leaves) + 1}
         /\ Len(leaves) + 1 \notin DOMAIN leaves
         /\ Len(leaves') = Len(leaves) + 1 /\ Len(leaves) \in Nat
         /\ leaves'[Len(leaves) + 1] = leaf
         /\ \A k \in DOMAIN leaves : leaves'[k] = leaves[k]
    BY ONLY <1>9, <1>10
  <1> QED  BY ONLY <1>1, <1>4, <1>5, <1>7, <1>11

(* place_bet keeps the records: the account and the leaf carry one hash.   *)
LEMMA PlaceBetRecords ==
    ASSUME RecordInv, NEW b \in Bettors, NEW side \in 0 .. 2, NEW amount \in Stakes,
           NEW hash \in Commitments(b, side, amount), PlaceBet(b, side, amount, hash)
    PROVE  Records'
  <1>1. TypeOK /\ Records
    BY DEF RecordInv, ResolutionInv, TypeInv
  <1>2. PICK n : n = Len(leaves) + 1
    OBVIOUS
  <1>3. /\ b \notin DOMAIN bets /\ DOMAIN bets' = DOMAIN bets \cup {b}
        /\ bets'[b].amount = amount /\ bets'[b].commitment_hash = hash /\ amount >= 1
        /\ \A c \in DOMAIN bets : bets'[c] = bets[c]
        /\ DOMAIN leaves' = DOMAIN leaves \cup {n}
        /\ Len(leaves') = Len(leaves) + 1
        /\ leaves'[n].bettor = b /\ leaves'[n].hash = hash
        /\ \A k \in DOMAIN leaves : leaves'[k] = leaves[k]
    BY <1>1, <1>2, BetAdded
  <1>4. /\ state = "Open" /\ state' = "Open" /\ nullifiers' = nullifiers
        /\ pool' = pool + amount /\ total_pool' = total_pool + amount
    BY <1>1, BetAdded
  <1>5. LeafIsBet'
    BY <1>1, <1>3 DEF Records, LeafIsBet
  <1>6. BetHasLeaf'
    BY <1>1, <1>3 DEF Records, BetHasLeaf
  <1>7. LeavesCounted'
    <2>1. /\ IsFiniteSet(DOMAIN bets \cup {b})
          /\ Cardinality(DOMAIN bets \cup {b}) = Cardinality(DOMAIN bets) + 1
      BY <1>1, <1>3, FS_AddElement DEF Records, LeavesCounted
    <2> QED  BY <2>1, <1>1, <1>3 DEF Records, LeavesCounted
  <1>8. StakesPositive'
    BY <1>1, <1>3 DEF Records, StakesPositive
  <1>9. nullifiers = <<>> /\ pool = total_pool
    BY <1>1, <1>4 DEF Records, Untouched
  <1>10. ClaimsRecorded' /\ Untouched'
    BY <1>4, <1>9, NoneYet, FS_EmptySet DEF ClaimsRecorded, Untouched
  <1> QED  BY <1>5, <1>6, <1>7, <1>8, <1>10 DEF Records

(* What a claim establishes and adds, whoever opens which leaf.            *)
LEMMA ClaimAdded ==
    ASSUME RecordInv, NEW b \in Bettors, NEW k \in DOMAIN leaves, ClaimWinning(b, k),
           NEW x, x = leaves[k].bettor, NEW n, n = leaves[k].hash.key
    PROVE  /\ state = "Resolved" /\ b \in Winners /\ x \in DOMAIN bets /\ x \in Bettors
           /\ bets[x].commitment_hash.key = n /\ n \in KnownKeys
           /\ bets[x].commitment_hash.outcome = outcome
           /\ bets[x].commitment_hash.amount = bets[b].amount
           /\ n \notin DOMAIN nullifiers /\ DOMAIN nullifiers' = DOMAIN nullifiers \cup {n}
           /\ nullifiers'[n].signer = b /\ nullifiers'[n].bettor = x
           /\ \A m \in DOMAIN nullifiers : nullifiers'[m] = nullifiers[m]
           /\ pool' = pool - Share(b)
           /\ UNCHANGED <<total_pool, yes_pool, no_pool, leaves, bets, state, outcome>>
  <1>1. /\ x \in DOMAIN bets /\ leaves[k].hash = bets[x].commitment_hash
    BY DEF RecordInv, Records, LeafIsBet
  <1>2. x \in Bettors
    BY <1>1 DEF RecordInv, ResolutionInv, TypeInv, TypeOK
  <1>3. /\ state = "Resolved" /\ b \in Winners
        /\ leaves[k].hash.outcome = outcome /\ leaves[k].hash.amount = bets[b].amount
        /\ n \in Knows[b] /\ n \notin DOMAIN nullifiers
        /\ pool' = pool - Share(b)
    BY DEF ClaimWinning, PublicInputsMatch, OwnershipProven, FreshNullifier, NullifierOf,
           Winning, Winners, Share
  <1>4. n \in KnownKeys
    BY <1>3 DEF KnownKeys
  <1>5. PICK claim : claim = [signer |-> b, bettor |-> x]
    OBVIOUS
  <1>6. nullifiers' = Put(nullifiers, n, claim)
    BY <1>5 DEF ClaimWinning, NullifierOf
  <1>7. /\ DOMAIN nullifiers' = DOMAIN nullifiers \cup {n} /\ nullifiers'[n] = claim
        /\ \A m \in DOMAIN nullifiers : nullifiers'[m] = nullifiers[m]
    BY <1>3, <1>6 DEF Put
  <1>8. claim.signer = b /\ claim.bettor = x
    BY <1>5
  <1>9. UNCHANGED <<total_pool, yes_pool, no_pool, leaves, bets, state, outcome>>
    BY DEF ClaimWinning, resolution, book
  <1> QED  BY <1>1, <1>2, <1>3, <1>4, <1>7, <1>8, <1>9

(* claim_winning adds the nullifier of a leaf made for the outcome.        *)
LEMMA ClaimRecords ==
    ASSUME RecordInv, NEW b \in Bettors, NEW k \in DOMAIN leaves, ClaimWinning(b, k)
    PROVE  Records'
  <1>1. PICK x, n : x = leaves[k].bettor /\ n = leaves[k].hash.key
    OBVIOUS
  <1>2. /\ state = "Resolved" /\ b \in Winners /\ x \in DOMAIN bets
        /\ bets[x].commitment_hash.key = n /\ n \in KnownKeys
        /\ bets[x].commitment_hash.outcome = outcome
        /\ bets[x].commitment_hash.amount = bets[b].amount
        /\ n \notin DOMAIN nullifiers /\ DOMAIN nullifiers' = DOMAIN nullifiers \cup {n}
        /\ nullifiers'[n].signer = b /\ nullifiers'[n].bettor = x
        /\ \A m \in DOMAIN nullifiers : nullifiers'[m] = nullifiers[m]
        /\ UNCHANGED <<leaves, bets, state, outcome>>
    BY <1>1, ClaimAdded
  <1>3. Records
    BY DEF RecordInv
  <1>4. ASSUME NEW m \in DOMAIN nullifiers'
        PROVE  Recorded(m)'
    <2>1. CASE m = n
      BY <2>1, <1>2 DEF Recorded, Winners
    <2>2. CASE m \in DOMAIN nullifiers
      BY <2>2, <1>2, <1>3 DEF Recorded, Records, ClaimsRecorded
    <2> QED  BY <2>1, <2>2, <1>2
  <1>5. IsFiniteSet(DOMAIN nullifiers')
    BY <1>2, <1>3, FS_AddElement DEF Records, ClaimsRecorded
  <1>6. LeafIsBet' /\ BetHasLeaf' /\ LeavesCounted' /\ StakesPositive'
    BY <1>2, <1>3 DEF Records, LeafIsBet, BetHasLeaf, LeavesCounted, StakesPositive
  <1>7. Untouched'
    BY <1>2 DEF Untouched
  <1> QED  BY <1>4, <1>5, <1>6, <1>7 DEF Records, ClaimsRecorded

(* Steps that move no money and do not change a resolution.                *)
LEMMA IdleRecords ==
    ASSUME RecordInv, UNCHANGED <<leaves, bets, nullifiers, pool, total_pool>>,
           state = "Resolved" => UNCHANGED <<state, outcome>>,
           state' = "None" => state = "None"
    PROVE  Records'
  <1>1. Records
    BY DEF RecordInv
  <1>2. LeafIsBet' /\ BetHasLeaf' /\ LeavesCounted' /\ StakesPositive' /\ Untouched'
    BY <1>1 DEF Records, LeafIsBet, BetHasLeaf, LeavesCounted, StakesPositive, Untouched
  <1>3. CASE state = "Resolved"
    BY <1>1, <1>2, <1>3 DEF Records, ClaimsRecorded, Recorded
  <1>4. CASE state # "Resolved"
    <2>1. DOMAIN nullifiers = {} /\ DOMAIN nullifiers' = {}
      BY <1>1, <1>4, NoneYet DEF Records, Untouched
    <2> QED  BY <1>2, <2>1, FS_EmptySet DEF Records, ClaimsRecorded
  <1> QED  BY <1>3, <1>4

(* The steps other than place_bet and claim_winning move no money.         *)
LEMMA OtherSteps ==
    ASSUME RecordInv, [Next]_vars
    PROVE  \/ \E b \in Bettors, side \in 0 .. 2, amount \in Stakes :
                  \E hash \in Commitments(b, side, amount) : PlaceBet(b, side, amount, hash)
           \/ \E b \in Bettors : \E k \in DOMAIN leaves : ClaimWinning(b, k)
           \/ /\ UNCHANGED <<total_pool, yes_pool, no_pool, leaves, bets, nullifiers, pool>>
              /\ state = "Resolved" => UNCHANGED <<state, outcome>>
              /\ state' = "None" => state = "None"
  <1> DEFINE Idle ==
                /\ UNCHANGED <<total_pool, yes_pool, no_pool, leaves, bets, nullifiers, pool>>
                /\ state = "Resolved" => UNCHANGED <<state, outcome>>
                /\ state' = "None" => state = "None"
  <1>1. TypeInv /\ Records /\ state # "Failed"
    BY DEF RecordInv, ResolutionInv, TypeInv, Lifecycle
  <1>2. ASSUME NEW c \in Creators, NEW p \in MarketParams, InitMarket(c, p) PROVE Idle
    BY <1>1, <1>2 DEF InitMarket, accounts, TypeInv, Lifecycle, Records, Untouched
  <1>3. ASSUME CloseMarket PROVE Idle
    BY <1>3 DEF CloseMarket, book, accounts
  <1>4. ASSUME NEW i \in SourceIndices, NEW pd \in ProofData, SubmitProof(i, pd) PROVE Idle
    BY <1>4 DEF SubmitProof, book, accounts
  <1>5. ASSUME NEW listed, AggregateResolution(listed) PROVE Idle
    BY <1>5 DEF AggregateResolution, CanAggregate, book, accounts
  <1>6. ASSUME NEW caller \in Creators, NEW o \in 0 .. 2, FallbackResolve(caller, o) PROVE Idle
    BY <1>6 DEF FallbackResolve, book, accounts
  <1>7. ASSUME NEW b \in Bettors, RefundMarket(b) PROVE FALSE
    BY <1>1, <1>7 DEF RefundMarket
  <1>8. ASSUME Tick \/ UNCHANGED vars PROVE Idle
    BY <1>8 DEF Tick, vars, resolution, book, accounts
  <1> HIDE DEF Idle
  <1>9. \/ \E b \in Bettors, side \in 0 .. 2, amount \in Stakes :
               \E hash \in Commitments(b, side, amount) : PlaceBet(b, side, amount, hash)
        \/ \E b \in Bettors : \E k \in DOMAIN leaves : ClaimWinning(b, k)
        \/ Idle
    BY <1>2, <1>3, <1>4, <1>5, <1>6, <1>7, <1>8 DEF Next
  <1> QED  BY <1>9 DEF Idle

(* Every instruction keeps the records.                                    *)
LEMMA NextRecordInv == RecordInv /\ [Next]_vars => RecordInv'
  <1> SUFFICES ASSUME RecordInv, [Next]_vars PROVE RecordInv'
    OBVIOUS
  <1>1. ResolutionInv'
    BY NextResolutionInv DEF RecordInv
  <1>2. Records'
    BY OtherSteps, PlaceBetRecords, ClaimRecords, IdleRecords
  <1> QED  BY <1>1, <1>2 DEF RecordInv

(* The records hold together in every reachable state.                     *)
THEOREM RecordInvariance == Spec => []RecordInv
  BY InitRecordInv, NextRecordInv, PTL DEF Spec

(* Every bet has a leaf of its own, of the hash it was paid with: whatever *)
(* was bet, in whatever order and with whatever hashes, equal ones too.    *)
THEOREM BetsMatched == Spec => []BetsMatchLeaves
  <1>1. RecordInv => BetsMatchLeaves
    <2> SUFFICES ASSUME RecordInv, NEW b \in DOMAIN bets
                 PROVE  /\ Len(leaves) = Cardinality(DOMAIN bets)
                        /\ \E k \in DOMAIN leaves :
                               leaves[k] = [hash |-> bets[b].commitment_hash, bettor |-> b]
      BY DEF BetsMatchLeaves, RecordInv, Records, LeavesCounted
    <2>1. PICK k \in DOMAIN leaves :
              leaves[k].bettor = b /\ leaves[k].hash = bets[b].commitment_hash
      BY DEF RecordInv, Records, BetHasLeaf
    <2>2. leaves[k] \in Leaf
      BY DEF RecordInv, ResolutionInv, TypeInv, TypeOK
    <2>3. leaves[k] = [hash |-> leaves[k].hash, bettor |-> leaves[k].bettor]
      BY <2>2 DEF Leaf
    <2> QED  BY <2>1, <2>3 DEF RecordInv, Records, LeavesCounted
  <1> QED  BY <1>1, RecordInvariance, PTL

(* A well-formed hash that was opened is that of a winner's bet, for the   *)
(* stake of the signer's.                                                  *)
LEMMA OpenedByWinner ==
    ASSUME WellFormed, NEW x \in DOMAIN bets, NEW b \in DOMAIN bets,
           bets[x].commitment_hash.key \in KnownKeys,
           bets[x].commitment_hash.outcome = outcome,
           bets[x].commitment_hash.amount = bets[b].amount
    PROVE  x \in Winners /\ bets[x].amount = bets[b].amount
  BY DEF WellFormed, Winners

(* Only signers who won are paid, and only in a resolved market; with      *)
(* well-formed hashes it is also a winner's leaf that is opened, for what  *)
(* its bettor staked: a losing bet gains nothing from a winner's account.  *)
THEOREM WinnersOnly == Spec => []OnlyWinnersPaid
  <1>1. RecordInv => OnlyWinnersPaid
    <2> SUFFICES ASSUME RecordInv, NEW n \in DOMAIN nullifiers
                 PROVE  /\ state = "Resolved" /\ nullifiers[n].signer \in Winners
                        /\ WellFormed => /\ nullifiers[n].bettor \in Winners
                                         /\ bets[nullifiers[n].bettor].amount
                                                = bets[nullifiers[n].signer].amount
      BY DEF OnlyWinnersPaid
    <2>1. Recorded(n)
      BY DEF RecordInv, Records, ClaimsRecorded
    <2>2. state = "Resolved"
      BY NoneYet DEF RecordInv, Records, Untouched
    <2>3. nullifiers[n].signer \in Winners
      BY <2>1 DEF Recorded, Winners
    <2>4. ASSUME WellFormed
          PROVE  /\ nullifiers[n].bettor \in Winners
                 /\ bets[nullifiers[n].bettor].amount = bets[nullifiers[n].signer].amount
      BY <2>1, <2>4, OpenedByWinner DEF Recorded
    <2> QED  BY <2>2, <2>3, <2>4
  <1> QED  BY <1>1, RecordInvariance, PTL

-----------------------------------------------------------------------------
(* Solvency                                                                *)

PoolOf(side) == IF side = YES THEN yes_pool ELSE no_pool

(* start lays the stakes of each side out without overlap in its pool.     *)
Placement(start) ==
    /\ start \in [DOMAIN bets -> Nat]
    /\ \A b \in DOMAIN bets : start[b] + bets[b].amount <= PoolOf(bets[b].side)
    /\ \A b, c \in DOMAIN bets :
           b # c /\ bets[b].side = bets[c].side =>
               \/ start[b] + bets[b].amount <= start[c]
               \/ start[c] + bets[c].amount <= start[b]

Slot(start, b) == start[b] .. (start[b] + bets[b].amount - 1)

(* The part of the winning pool that belongs to winners already paid.      *)
Covered(start) == UNION {Slot(start, b) : b \in Winners \cap Paid}

PaidInProportion(start) ==
    (total_pool - pool) * WinningPool <= Cardinality(Covered(start)) * total_pool

Solvent ==
    \E start : Placement(start) /\ (state = "Resolved" /\ WellFormed => PaidInProportion(start))

SolvencyInv == RecordInv /\ Solvent

-----------------------------------------------------------------------------
(* Slots                                                                   *)

(* A bet has a side and a positive stake.                                  *)
LEMMA BetTyped ==
    ASSUME RecordInv, NEW b \in DOMAIN bets
    PROVE  /\ b \in Bettors /\ bets[b].side \in {NO, YES}
           /\ bets[b].amount \in Nat /\ bets[b].amount >= 1
           /\ bets[b].commitment_hash \in Tickets
  <1>1. bets[b] \in Bet /\ b \in Bettors
    BY DEF RecordInv, ResolutionInv, TypeInv, TypeOK
  <1>2. bets[b].amount >= 1
    BY DEF RecordInv, Records, StakesPositive
  <1> QED  BY <1>1, <1>2 DEF Bet

(* The pools are naturals.                                                 *)
LEMMA PoolsTyped ==
    ASSUME RecordInv
    PROVE  /\ yes_pool \in Nat /\ no_pool \in Nat /\ total_pool \in Nat /\ pool \in Nat
           /\ WinningPool \in Nat /\ \A side : PoolOf(side) \in Nat
           /\ total_pool = yes_pool + no_pool
  BY LimitsAssumption DEF RecordInv, ResolutionInv, TypeInv, TypeOK, PoolsAdd, WinningPool, PoolOf

(* Someone whose leaf can still be opened has not been paid for.           *)
LEMMA UnpaidNotPaid ==
    ASSUME RecordInv, NEW b \in Unpaid
    PROVE  b \in Winners \ Paid /\ b \in DOMAIN bets
  <1>1. b \in Winners /\ bets[b].commitment_hash.key \notin DOMAIN nullifiers
    BY DEF Unpaid, FreshNullifier, NullifierOf
  <1>2. ASSUME NEW n \in DOMAIN nullifiers, nullifiers[n].bettor = b
        PROVE  FALSE
    <2>1. n = bets[nullifiers[n].bettor].commitment_hash.key
      BY DEF RecordInv, Records, ClaimsRecorded, Recorded
    <2> QED  BY <1>1, <1>2, <2>1
  <1> QED  BY <1>1, <1>2 DEF Paid, Winners

(* A bet's slot lies in its side's pool and has the size of the stake.     *)
LEMMA SlotSize ==
    ASSUME RecordInv, NEW start, Placement(start), NEW b \in DOMAIN bets
    PROVE  /\ Slot(start, b) \subseteq 0 .. PoolOf(bets[b].side) - 1
           /\ IsFiniteSet(Slot(start, b))
           /\ Cardinality(Slot(start, b)) = bets[b].amount
           /\ bets[b].amount <= PoolOf(bets[b].side)
  <1>1. start[b] \in Nat /\ bets[b].amount \in Nat /\ bets[b].amount >= 1
    BY BetTyped DEF Placement
  <1>2. start[b] + bets[b].amount <= PoolOf(bets[b].side)
    BY DEF Placement
  <1>3. PoolOf(bets[b].side) \in Nat
    BY PoolsTyped
  <1> DEFINE lo == start[b]
             hi == start[b] + bets[b].amount - 1
  <1>4. lo \in Int /\ hi \in Int /\ lo <= hi
    BY <1>1
  <1>5. IsFiniteSet(lo .. hi) /\ Cardinality(lo .. hi) = hi - lo + 1
    <2> HIDE DEF lo, hi
    <2>1. IsFiniteSet(lo .. hi) /\ Cardinality(lo .. hi) = IF lo > hi THEN 0 ELSE hi - lo + 1
      BY <1>4, FS_Interval
    <2> QED  BY <2>1, <1>4
  <1> QED  BY <1>1, <1>2, <1>3, <1>5 DEF Slot

(* The covered part is finite, within the winning pool, and disjoint from  *)
(* the slot of any winner who is not paid yet.                             *)
LEMMA CoveredSet ==
    ASSUME RecordInv, NEW start, Placement(start)
    PROVE  /\ IsFiniteSet(Covered(start)) /\ Cardinality(Covered(start)) \in Nat
           /\ Covered(start) \subseteq 0 .. WinningPool - 1
           /\ \A b \in Winners \ Paid : Covered(start) \cap Slot(start, b) = {}
  <1>1. WinningPool \in Nat
    BY PoolsTyped
  <1>2. \A b \in Winners : Slot(start, b) \subseteq 0 .. WinningPool - 1
    BY SlotSize DEF Winners, WinningPool, PoolOf
  <1>3. Covered(start) \subseteq 0 .. WinningPool - 1
    BY <1>2 DEF Covered
  <1>4. IsFiniteSet(Covered(start))
    <2>1. Covered(start) \in SUBSET Nat /\ \A x \in Covered(start) : x <= WinningPool
      BY <1>1, <1>3
    <2> QED  BY <1>1, <2>1, FS_BoundedSetOfNaturals
  <1>5. ASSUME NEW b \in Winners \ Paid, NEW x \in Covered(start), x \in Slot(start, b)
        PROVE  FALSE
    <2>1. PICK c \in Winners \cap Paid : x \in Slot(start, c)
      BY DEF Covered
    <2>2. c # b /\ c \in DOMAIN bets /\ b \in DOMAIN bets /\ bets[c].side = bets[b].side
      BY <1>5, <2>1 DEF Winners
    <2>3. \/ start[c] + bets[c].amount <= start[b]
          \/ start[b] + bets[b].amount <= start[c]
      BY <2>2 DEF Placement
    <2>4. /\ start[c] \in Nat /\ start[b] \in Nat
          /\ bets[c].amount \in Nat /\ bets[b].amount \in Nat
      BY <2>2, BetTyped DEF Placement
    <2> QED  BY <1>5, <2>1, <2>3, <2>4 DEF Slot
  <1> QED  BY <1>3, <1>4, <1>5, FS_CardinalityType

(* A stake fits beside what is covered: together they are at most the      *)
(* winning pool.                                                           *)
LEMMA RoomForUnpaid ==
    ASSUME RecordInv, NEW start, Placement(start), NEW b \in Winners \ Paid
    PROVE  /\ Cardinality(Covered(start) \cup Slot(start, b))
                  = Cardinality(Covered(start)) + bets[b].amount
           /\ Cardinality(Covered(start)) + bets[b].amount <= WinningPool
           /\ bets[b].amount <= WinningPool
  <1>1. b \in DOMAIN bets /\ PoolOf(bets[b].side) = WinningPool
    BY DEF Winners, PoolOf, WinningPool
  <1>2. /\ Slot(start, b) \subseteq 0 .. WinningPool - 1
        /\ IsFiniteSet(Slot(start, b))
        /\ Cardinality(Slot(start, b)) = bets[b].amount
        /\ bets[b].amount <= WinningPool
    BY <1>1, SlotSize
  <1>3. WinningPool \in Nat /\ bets[b].amount \in Nat /\ bets[b].amount >= 1
    BY <1>1, PoolsTyped, BetTyped
  <1> DEFINE both == Covered(start) \cup Slot(start, b)
  <1>4. IsFiniteSet(both) /\ Cardinality(both) = Cardinality(Covered(start)) + bets[b].amount
    <2>1. Covered(start) \cap Slot(start, b) = {} /\ IsFiniteSet(Covered(start))
          /\ Cardinality(Covered(start)) \in Nat
      BY CoveredSet
    <2>2. /\ IsFiniteSet(both)
          /\ Cardinality(both) = Cardinality(Covered(start)) + Cardinality(Slot(start, b))
                                   - Cardinality(Covered(start) \cap Slot(start, b))
      BY <2>1, <1>2, FS_Union
    <2>3. Cardinality({}) = 0
      BY FS_EmptySet
    <2>4. Cardinality(Covered(start) \cap Slot(start, b)) = 0
      BY <2>1, <2>3
    <2> HIDE DEF both
    <2> QED  BY <1>2, <1>3, <2>1, <2>2, <2>4
  <1>5. Cardinality(both) <= WinningPool
    <2>1. both \subseteq 0 .. WinningPool - 1
      BY <1>2, CoveredSet
    <2>2. both \in SUBSET Nat /\ WinningPool - 1 \in Nat /\ \A x \in both : x <= WinningPool - 1
      BY <1>2, <1>3, <2>1
    <2>3. Cardinality(both) <= (WinningPool - 1) + 1
      BY <2>2, FS_BoundedSetOfNaturals
    <2> QED  BY <1>3, <2>3
  <1> QED  BY <1>2, <1>4, <1>5

-----------------------------------------------------------------------------
(* Payouts                                                                 *)

(* A value that fits in u64 is unchanged by the cast.                      *)
LEMMA SmallRemainder ==
    ASSUME NEW x \in Nat, NEW m \in Nat, x < m
    PROVE  x % m = x
  OBVIOUS

(* The payout of a winning stake is the rounded-down share, which the cast *)
(* keeps.                                                                  *)
LEMMA PayoutExact ==
    ASSUME TypeOK, NEW a \in Nat, a >= 1, a <= WinningPool
    PROVE  /\ WinningPool \in Nat \ {0}
           /\ Payout(a) = (a * total_pool) \div WinningPool
           /\ Payout(a) \in Nat
           /\ Payout(a) * WinningPool <= a * total_pool
           /\ Payout(a) <= total_pool
  <1>1. /\ WinningPool \in Nat \ {0} /\ total_pool \in Nat /\ total_pool <= U64Max
        /\ U64Max \in Nat
    BY LimitsAssumption DEF TypeOK, WinningPool
  <1> DEFINE q == (a * total_pool) \div WinningPool
  <1>2. q \in Nat /\ q * WinningPool <= a * total_pool /\ q <= total_pool
    BY <1>1, ShareBounds
  <1>3. Payout(a) = q % (U64Max + 1)
    BY DEF Payout, AsU64
  <1> HIDE DEF q
  <1>4. q % (U64Max + 1) = q
    BY <1>1, <1>2, SmallRemainder
  <1> QED  BY <1>1, <1>2, <1>3, <1>4 DEF q

(* What a winner is due, whatever the commitment hashes are.               *)
LEMMA ShareTyped ==
    ASSUME SolvencyInv, NEW b \in Winners
    PROVE  /\ bets[b].amount \in Nat /\ bets[b].amount >= 1 /\ bets[b].amount <= WinningPool
           /\ WinningPool \in Nat \ {0} /\ total_pool \in Nat /\ WinningPool <= total_pool
           /\ Share(b) \in Nat
           /\ Share(b) = (bets[b].amount * total_pool) \div WinningPool
           /\ Share(b) * WinningPool <= bets[b].amount * total_pool
           /\ Share(b) <= total_pool
  <1>1. TypeOK /\ RecordInv /\ b \in DOMAIN bets
    BY DEF SolvencyInv, RecordInv, ResolutionInv, TypeInv, Winners
  <1>2. PICK start : Placement(start)
    BY DEF SolvencyInv, Solvent
  <1>3. PICK a : a = bets[b].amount
    OBVIOUS
  <1>4. PoolOf(bets[b].side) = WinningPool
    BY DEF Winners, PoolOf, WinningPool
  <1>5. a \in Nat /\ a >= 1 /\ a <= WinningPool
    BY <1>1, <1>2, <1>3, <1>4, SlotSize, BetTyped
  <1>6. /\ WinningPool \in Nat \ {0}
        /\ Payout(a) = (a * total_pool) \div WinningPool
        /\ Payout(a) \in Nat
        /\ Payout(a) * WinningPool <= a * total_pool
        /\ Payout(a) <= total_pool
    BY <1>1, <1>5, PayoutExact
  <1>7. total_pool \in Nat /\ WinningPool <= total_pool
    BY <1>1, PoolsTyped DEF WinningPool
  <1>8. Share(b) = Payout(a)
    BY <1>3 DEF Share
  <1> QED  BY <1>3, <1>5, <1>6, <1>7, <1>8

(* An unpaid winner is covered: what the pool lost is in proportion to the *)
(* covered part, which leaves room for the stake.                          *)
LEMMA UnpaidCovered ==
    ASSUME SolvencyInv, NEW start, Placement(start), PaidInProportion(start),
           NEW b \in Winners \ Paid
    PROVE  Share(b) <= pool
  <1> DEFINE a == bets[b].amount
             c == Cardinality(Covered(start))
             w == WinningPool
             t == total_pool
             s == Share(b)
  <1>0. RecordInv
    BY DEF SolvencyInv
  <1>1. c \in Nat /\ c + a <= w
    BY <1>0, CoveredSet, RoomForUnpaid
  <1>2. a \in Nat /\ w \in Nat \ {0} /\ t \in Nat /\ s \in Nat /\ s * w <= a * t
    BY ShareTyped
  <1>3. pool \in Nat
    BY <1>0, PoolsTyped
  <1>4. (t - pool) * w <= c * t
    BY DEF PaidInProportion
  <1> HIDE DEF a, c, w, t, s
  <1>5. (c + a) * t <= w * t /\ (c + a) * t = c * t + a * t
    BY <1>1, <1>2, MulMonotone
  <1>6. (t - pool) * w = t * w - pool * w /\ w * t = t * w
    BY <1>2, <1>3
  <1>7. a * t \in Int /\ c * t \in Int /\ t * w \in Int /\ pool * w \in Int /\ s * w \in Int
    BY <1>1, <1>2, <1>3
  <1>8. s * w <= pool * w
    BY <1>2, <1>4, <1>5, <1>6, <1>7
  <1> QED  BY <1>2, <1>3, <1>8, MulCancel DEF s

-----------------------------------------------------------------------------
(* Steps                                                                   *)

(* An empty market owes nothing.                                           *)
LEMMA InitSolvencyInv == Init => SolvencyInv
  <1> SUFFICES ASSUME Init PROVE SolvencyInv
    OBVIOUS
  <1>1. DOMAIN bets = {} /\ state # "Resolved"
    BY NoneYet DEF Init
  <1> DEFINE start == [b \in DOMAIN bets |-> 0]
  <1>2. Placement(start)
    BY <1>1 DEF Placement
  <1> QED  BY <1>1, <1>2, InitRecordInv DEF SolvencyInv, Solvent

(* A bet is laid out at the end of its side's pool, which grows by it.     *)
LEMMA PlaceBetSolvent ==
    ASSUME SolvencyInv, NEW b \in Bettors, NEW side \in 0 .. 2, NEW amount \in Stakes,
           NEW hash \in Commitments(b, side, amount), PlaceBet(b, side, amount, hash)
    PROVE  Solvent'
  <1>1. TypeOK /\ RecordInv
    BY DEF SolvencyInv, RecordInv, ResolutionInv, TypeInv
  <1>2. PICK start : Placement(start)
    BY DEF SolvencyInv, Solvent
  <1>3. /\ amount \in Nat /\ amount >= 1 /\ side \in {NO, YES} /\ b \notin DOMAIN bets
        /\ DOMAIN bets' = DOMAIN bets \cup {b}
        /\ bets'[b].side = side /\ bets'[b].amount = amount
        /\ \A c \in DOMAIN bets : bets'[c] = bets[c]
        /\ yes_pool' = yes_pool + YesPart(side, amount)
        /\ no_pool' = no_pool + NoPart(side, amount)
        /\ state' = "Open"
    BY <1>1, BetAdded
  <1>4. /\ yes_pool \in Nat /\ no_pool \in Nat /\ PoolOf(side) \in Nat
        /\ PoolOf(side)' = PoolOf(side) + amount
        /\ \A s \in {NO, YES} : s # side => PoolOf(s)' = PoolOf(s)
    BY <1>1, <1>3, PoolsTyped DEF PoolOf, YesPart, NoPart
  <1>5. PICK longer : longer = Put(start, b, PoolOf(side))
    OBVIOUS
  <1>6. /\ longer \in [DOMAIN bets' -> Nat]
        /\ longer[b] = PoolOf(side)
        /\ \A c \in DOMAIN bets : longer[c] = start[c]
    BY <1>2, <1>3, <1>4, <1>5 DEF Placement, Put
  <1>7. \A c \in DOMAIN bets :
            /\ start[c] \in Nat /\ bets[c].amount \in Nat /\ bets[c].side \in {NO, YES}
            /\ start[c] + bets[c].amount <= PoolOf(bets[c].side)
    BY <1>1, <1>2, BetTyped DEF Placement
  <1>8. ASSUME NEW c \in DOMAIN bets'
        PROVE  longer[c] + bets'[c].amount <= PoolOf(bets[c].side)'
    <2>1. CASE c = b
      <3>1. PoolOf(bets[c].side)' = PoolOf(side)'
        BY <2>1, <1>3 DEF PoolOf
      <3> QED  BY <2>1, <3>1, <1>3, <1>4, <1>6
    <2>2. CASE c \in DOMAIN bets
      <3>1. bets'[c] = bets[c] /\ longer[c] = start[c]
        BY <2>2, <1>3, <1>6
      <3>2. PoolOf(bets[c].side) \in Nat /\ PoolOf(bets[c].side)' >= PoolOf(bets[c].side)
            /\ PoolOf(bets[c].side)' \in Nat
        BY <2>2, <3>1, <1>3, <1>4, <1>7 DEF PoolOf, YesPart, NoPart
      <3> QED  BY <2>2, <3>1, <3>2, <1>7
    <2> QED  BY <2>1, <2>2, <1>3
  <1>9. ASSUME NEW c \in DOMAIN bets', NEW d \in DOMAIN bets',
               c # d, bets'[c].side = bets'[d].side
        PROVE  \/ longer[c] + bets'[c].amount <= longer[d]
               \/ longer[d] + bets'[d].amount <= longer[c]
    <2>1. CASE c \in DOMAIN bets /\ d \in DOMAIN bets
      BY <2>1, <1>2, <1>3, <1>6, <1>9 DEF Placement
    <2>2. CASE c \in DOMAIN bets /\ d = b
      BY <2>2, <1>3, <1>6, <1>7, <1>9
    <2>3. CASE c = b /\ d \in DOMAIN bets
      BY <2>3, <1>3, <1>6, <1>7, <1>9
    <2> QED  BY <2>1, <2>2, <2>3, <1>3, <1>9
  <1>10. Placement(longer)'
    BY <1>6, <1>8, <1>9 DEF Placement
  <1> QED  BY <1>3, <1>10 DEF Solvent

(* Steps that move no money keep the pool solvent; the one that resolves   *)
(* finds nothing paid, so that nothing need be covered.                    *)
LEMMA IdleSolvent ==
    ASSUME SolvencyInv, RecordInv',
           UNCHANGED <<total_pool, yes_pool, no_pool, leaves, bets, nullifiers, pool>>,
           state = "Resolved" => UNCHANGED <<state, outcome>>
    PROVE  Solvent'
  <1>1. PICK start :
            Placement(start) /\ (state = "Resolved" /\ WellFormed => PaidInProportion(start))
    BY DEF SolvencyInv, Solvent
  <1>2. Placement(start)' /\ (WellFormed' <=> WellFormed)
    BY <1>1 DEF Placement, PoolOf, WellFormed
  <1>3. CASE state = "Resolved"
    <2>1. Covered(start)' = Covered(start) /\ WinningPool' = WinningPool
      BY <1>3 DEF Covered, Winners, Paid, Slot, WinningPool
    <2>2. PaidInProportion(start) => PaidInProportion(start)'
      BY <2>1 DEF PaidInProportion
    <2> QED  BY <1>1, <1>2, <1>3, <2>2 DEF Solvent
  <1>4. CASE state # "Resolved"
    <2>1. DOMAIN nullifiers' = {} /\ pool' = total_pool'
      BY <1>4, NoneYet DEF SolvencyInv, RecordInv, Records, Untouched
    <2>2. Covered(start)' = {} /\ Cardinality({}) = 0
      BY <2>1, FS_EmptySet DEF Covered, Paid
    <2>3. WinningPool' \in Nat /\ total_pool' \in Nat
      <3>1. (RecordInv => WinningPool \in Nat /\ total_pool \in Nat)'
        BY PoolsTyped, PTL
      <3> QED  BY <3>1
    <2>4. total_pool' - pool' = 0
      <3>1. \A x \in Nat : x - x = 0
        OBVIOUS
      <3> QED  BY <2>1, <2>3, <3>1, Zenon
    <2>5. Cardinality(Covered(start)') = 0
      BY <2>2, Zenon
    <2>6. \A x \in Nat : 0 * x = 0
      OBVIOUS
    <2>7. (total_pool' - pool') * WinningPool' <= Cardinality(Covered(start)') * total_pool'
      BY <2>3, <2>4, <2>5, <2>6
    <2> QED  BY <1>2, <2>7 DEF PaidInProportion, Solvent
  <1> QED  BY <1>3, <1>4

(* A claim covers the slot of the bettor whose leaf is opened, and pays no *)
(* more than its proportion.                                               *)
LEMMA ClaimSolvent ==
    ASSUME SolvencyInv, NEW b \in Bettors, NEW k \in DOMAIN leaves, ClaimWinning(b, k)
    PROVE  Solvent'
  <1>1. RecordInv
    BY DEF SolvencyInv
  <1>2. PICK x, n : x = leaves[k].bettor /\ n = leaves[k].hash.key
    OBVIOUS
  <1>3. /\ state = "Resolved" /\ b \in Winners /\ x \in DOMAIN bets
        /\ bets[x].commitment_hash.key = n /\ n \in KnownKeys
        /\ bets[x].commitment_hash.outcome = outcome
        /\ bets[x].commitment_hash.amount = bets[b].amount
        /\ n \notin DOMAIN nullifiers /\ DOMAIN nullifiers' = DOMAIN nullifiers \cup {n}
        /\ nullifiers'[n].bettor = x
        /\ \A m \in DOMAIN nullifiers : nullifiers'[m] = nullifiers[m]
        /\ pool' = pool - Share(b)
        /\ UNCHANGED <<total_pool, yes_pool, no_pool, leaves, bets, state, outcome>>
    BY <1>1, <1>2, ClaimAdded
  <1>4. PICK start : Placement(start) /\ (WellFormed => PaidInProportion(start))
    BY <1>3 DEF SolvencyInv, Solvent
  <1>5. Placement(start)' /\ (WellFormed' <=> WellFormed)
    BY <1>3, <1>4 DEF Placement, PoolOf, WellFormed
  <1>6. ASSUME WellFormed PROVE PaidInProportion(start)'
    <2>1. x \in Unpaid /\ bets[x].amount = bets[b].amount
      <3>1. x \in Winners /\ bets[x].amount = bets[b].amount
        BY <1>3, <1>6, OpenedByWinner DEF Winners
      <3> QED  BY <3>1, <1>3 DEF Unpaid, FreshNullifier, NullifierOf
    <2>2. x \in Winners \ Paid
      BY <1>1, <2>1, UnpaidNotPaid
    <2> DEFINE a == bets[x].amount
               c == Cardinality(Covered(start))
               w == WinningPool
               t == total_pool
               s == Share(b)
    <2>3. a \in Nat /\ w \in Nat \ {0} /\ t \in Nat /\ s \in Nat /\ s * w <= a * t
      BY <1>3, <2>1, ShareTyped
    <2>4. c \in Nat /\ pool \in Nat
      BY <1>1, <1>4, CoveredSet, PoolsTyped
    <2>5. Paid' = Paid \cup {x}
      BY <1>3 DEF Paid
    <2>6. Winners' = Winners /\ \A y \in DOMAIN bets : Slot(start, y)' = Slot(start, y)
      BY <1>3 DEF Winners, Slot
    <2>7. Covered(start)' = Covered(start) \cup Slot(start, x)
      <3>1. (Winners \cap Paid)' = (Winners \cap Paid) \cup {x}
        BY <2>2, <2>5, <2>6
      <3>2. \A y \in (Winners \cap Paid)' : y \in DOMAIN bets
        BY <2>6 DEF Winners
      <3> QED  BY <2>6, <3>1, <3>2, <1>3 DEF Covered
    <2>8. Cardinality(Covered(start)') = c + a
      BY <1>1, <1>4, <2>2, <2>7, RoomForUnpaid
    <2>9. (t - pool) * w <= c * t
      BY <1>4, <1>6 DEF PaidInProportion
    <2>10. (t - (pool - s)) * w <= (c + a) * t
      <3> HIDE DEF a, c, w, t, s
      <3>1. (t - (pool - s)) * w = (t - pool) * w + s * w
        BY <2>3, <2>4
      <3>2. (c + a) * t = c * t + a * t
        BY <2>3, <2>4
      <3>3. (t - pool) * w \in Int /\ s * w \in Int /\ c * t \in Int /\ a * t \in Int
        BY <2>3, <2>4
      <3> QED  BY <2>3, <2>9, <3>1, <3>2, <3>3
    <2>11. WinningPool' = WinningPool
      BY <1>3 DEF WinningPool
    <2> QED  BY <1>3, <2>8, <2>10, <2>11 DEF PaidInProportion
  <1> QED  BY <1>5, <1>6 DEF Solvent

(* Every instruction keeps the solvency invariant.                         *)
LEMMA NextSolvencyInv == SolvencyInv /\ [Next]_vars => SolvencyInv'
  <1> SUFFICES ASSUME SolvencyInv, [Next]_vars PROVE SolvencyInv'
    OBVIOUS
  <1>1. RecordInv /\ RecordInv'
    BY NextRecordInv DEF SolvencyInv
  <1>2. Solvent'
    BY <1>1, OtherSteps, PlaceBetSolvent, ClaimSolvent, IdleSolvent
  <1> QED  BY <1>1, <1>2 DEF SolvencyInv

(* The solvency invariant holds in every reachable state.                  *)
THEOREM SolvencyInvariance == Spec => []SolvencyInv
  BY InitSolvencyInv, NextSolvencyInv, PTL DEF Spec

(* For any bets, any outcome and any order of claims, whoever makes them   *)
(* with whichever accounts and leaves: as long as the hashes somebody can  *)
(* open are well formed, what is left in the pool covers each winner who   *)
(* was not paid yet.                                                       *)
THEOREM SolvencyCorrect == Spec => []NoWinnerShort
  <1>1. SolvencyInv => NoWinnerShort
    <2> SUFFICES ASSUME SolvencyInv, state = "Resolved", WellFormed, NEW b \in Unpaid
                 PROVE  Share(b) <= pool
      BY DEF NoWinnerShort
    <2>1. PICK start : Placement(start) /\ PaidInProportion(start)
      BY DEF SolvencyInv, Solvent
    <2>2. b \in Winners \ Paid
      BY UnpaidNotPaid DEF SolvencyInv
    <2> QED  BY <2>1, <2>2, UnpaidCovered
  <1> QED  BY <1>1, SolvencyInvariance, PTL

-----------------------------------------------------------------------------
(* A rounded-down quotient is at least every integer the exact one is at   *)
(* least.                                                                  *)
LEMMA QuotientAtLeast ==
    ASSUME NEW x \in Nat, NEW w \in Nat \ {0}, NEW a \in Nat, a * w <= x
    PROVE  a <= x \div w
  <1>1. x < ((x \div w) + 1) * w /\ (x \div w) \in Nat
    OBVIOUS
  <1> DEFINE q == x \div w
  <1> HIDE DEF q
  <1>2. x < (q + 1) * w /\ q \in Nat
    BY <1>1 DEF q
  <1>3. CASE a >= q + 1
    <2>1. (q + 1) * w <= a * w
      BY <1>2, <1>3, MulMonotone
    <2>2. (q + 1) * w \in Int /\ a * w \in Int
      BY <1>2
    <2> QED  BY <1>2, <2>1, <2>2
  <1> QED  BY <1>2, <1>3 DEF q

(* Every winner is due at least the stake, at most everything, and never   *)
(* more than the exact share; the cast to u64 loses nothing.               *)
THEOREM PayoutCorrect == Spec => []PayoutBounds
  <1>1. SolvencyInv => PayoutBounds
    <2> SUFFICES ASSUME SolvencyInv, NEW b \in Winners
                 PROVE  /\ bets[b].amount <= Share(b) /\ Share(b) <= total_pool
                        /\ Share(b) * WinningPool <= bets[b].amount * total_pool
      BY DEF PayoutBounds
    <2>1. PICK a : a = bets[b].amount
      OBVIOUS
    <2>2. /\ a \in Nat /\ WinningPool \in Nat \ {0} /\ total_pool \in Nat
          /\ WinningPool <= total_pool
          /\ Share(b) = (a * total_pool) \div WinningPool
          /\ Share(b) * WinningPool <= a * total_pool /\ Share(b) <= total_pool
      BY <2>1, ShareTyped
    <2>3. a * WinningPool <= a * total_pool /\ a * total_pool \in Nat
      BY <2>2, MulMonotone
    <2>4. a <= (a * total_pool) \div WinningPool
      BY <2>2, <2>3, QuotientAtLeast
    <2> QED  BY <2>1, <2>2, <2>4
  <1> QED  BY <1>1, SolvencyInvariance, PTL

-----------------------------------------------------------------------------
(* The refinement: each instruction is one step of the abstract market or  *)
(* none.                                                                   *)

(* A market account that does not exist is an abstract market where nobody *)
(* has bet.                                                                *)
LEMMA InitRefines == Init => Promise!Init
  <1> SUFFICES ASSUME Init PROVE Promise!Init
    OBVIOUS
  <1>1. StakesHeld = <<>> /\ Paid = {}
    BY NoneYet DEF Init, StakesHeld, Paid
  <1>2. Pots = [side \in Promise!Sides |-> 0]
    BY DEF Init, Pots, Promise!Sides
  <1> QED  BY <1>1, <1>2 DEF Init, Promise!Init, PhaseOf

(* init_market writes what an account that does not exist stands for.      *)
LEMMA InitMarketRefines ==
    ASSUME SolvencyInv, NEW c \in Creators, NEW p \in MarketParams, InitMarket(c, p)
    PROVE  UNCHANGED Promise!vars
  <1>1. state = "None" /\ outcome \in {NO, YES, UNRESOLVED} /\ outcome \notin {NO, YES}
    BY DEF InitMarket, SolvencyInv, RecordInv, ResolutionInv, TypeInv, TypeOK,
           OutcomeIffResolved
  <1>2. yes_pool = 0 /\ no_pool = 0
    BY <1>1 DEF SolvencyInv, RecordInv, ResolutionInv, TypeInv, Lifecycle
  <1> QED
    BY <1>1, <1>2 DEF InitMarket, accounts, Promise!vars, PhaseOf, StakesHeld, Pots, Paid

(* place_bet is a bet of the abstract market, whatever hash is inserted.   *)
LEMMA PlaceBetRefines ==
    ASSUME SolvencyInv, NEW b \in Bettors, NEW side \in 0 .. 2, NEW amount \in Stakes,
           NEW hash \in Commitments(b, side, amount), PlaceBet(b, side, amount, hash)
    PROVE  Promise!Next
  <1>1. TypeOK /\ RecordInv
    BY DEF SolvencyInv, RecordInv, ResolutionInv, TypeInv
  <1>2. /\ side \in {NO, YES} /\ amount >= 1 /\ amount \in Nat
        /\ state = "Open" /\ state' = "Open"
        /\ b \notin DOMAIN bets /\ DOMAIN bets' = DOMAIN bets \cup {b}
        /\ bets'[b].side = side /\ bets'[b].amount = amount
        /\ \A c \in DOMAIN bets : bets'[c] = bets[c]
        /\ yes_pool' = yes_pool + YesPart(side, amount)
        /\ no_pool' = no_pool + NoPart(side, amount)
        /\ pool' = pool + amount
        /\ outcome' = outcome /\ nullifiers' = nullifiers
    BY <1>1, BetAdded
  <1>3. PhaseOf(state) = "betting" /\ PhaseOf(state') = "betting" /\ Paid' = Paid
    BY <1>2 DEF PhaseOf, Paid
  <1>4. StakesHeld' = [x \in DOMAIN StakesHeld \cup {b} |->
                          IF x = b THEN [side |-> side, amount |-> amount] ELSE StakesHeld[x]]
    BY <1>2 DEF StakesHeld
  <1>5. Pots' = [Pots EXCEPT ![side] = @ + amount]
    <2>1. yes_pool \in Nat /\ no_pool \in Nat
      BY <1>1, PoolsTyped
    <2>2. Pots'[side] = Pots[side] + amount /\ \A s \in {NO, YES} \ {side} : Pots'[s] = Pots[s]
      BY <2>1, <1>2 DEF Pots, YesPart, NoPart, NO, YES
    <2>3. DOMAIN Pots' = {NO, YES} /\ DOMAIN Pots = {NO, YES}
      BY DEF Pots
    <2>4. Pots' = [s \in {NO, YES} |-> Pots'[s]]
      BY DEF Pots
    <2>5. [Pots EXCEPT ![side] = @ + amount]
              = [s \in {NO, YES} |-> IF s = side THEN Pots[s] + amount ELSE Pots[s]]
      BY <2>3
    <2> QED  BY <2>2, <2>4, <2>5
  <1>6. DOMAIN StakesHeld = DOMAIN bets
    BY DEF StakesHeld
  <1>7. Promise!Bet(b, side, amount)
    BY <1>2, <1>3, <1>4, <1>5, <1>6 DEF Promise!Bet
  <1> QED  BY <1>2, <1>7 DEF Promise!Next, Promise!Sides

(* aggregate_resolution and fallback_resolve declare the outcome they set. *)
LEMMA ResolveRefines ==
    ASSUME UNCHANGED <<book, accounts>>, state' = "Resolved", outcome' \in {NO, YES},
           state \in {"Closed", "Resolving"}
    PROVE  Promise!Next
  <1>1. Promise!Declare(outcome')
    BY DEF Promise!Declare, PhaseOf, StakesHeld, Pots, Paid, book, accounts
  <1> QED  BY <1>1 DEF Promise!Next, Promise!Sides

(* claim_winning pays what is due to whoever made the leaf that is opened, *)
(* whichever of the signer's accounts names the amount.                    *)
LEMMA ClaimRefines ==
    ASSUME SolvencyInv, WellFormed', NEW b \in Bettors, NEW k \in DOMAIN leaves,
           ClaimWinning(b, k)
    PROVE  Promise!Next
  <1>1. RecordInv
    BY DEF SolvencyInv
  <1>2. PICK x, n : x = leaves[k].bettor /\ n = leaves[k].hash.key
    OBVIOUS
  <1>3. /\ state = "Resolved" /\ b \in Winners /\ x \in DOMAIN bets /\ x \in Bettors
        /\ bets[x].commitment_hash.key = n /\ n \in KnownKeys
        /\ bets[x].commitment_hash.outcome = outcome
        /\ bets[x].commitment_hash.amount = bets[b].amount
        /\ n \notin DOMAIN nullifiers /\ DOMAIN nullifiers' = DOMAIN nullifiers \cup {n}
        /\ nullifiers'[n].bettor = x
        /\ \A m \in DOMAIN nullifiers : nullifiers'[m] = nullifiers[m]
        /\ pool' = pool - Share(b)
        /\ UNCHANGED <<total_pool, yes_pool, no_pool, leaves, bets, state, outcome>>
    BY <1>1, <1>2, ClaimAdded
  <1>4. WellFormed
    BY <1>3 DEF WellFormed
  <1>5. x \in Winners /\ bets[x].amount = bets[b].amount
    BY <1>3, <1>4, OpenedByWinner DEF Winners
  <1>6. x \notin Paid
    <2>1. x \in Unpaid
      BY <1>3, <1>5 DEF Unpaid, FreshNullifier, NullifierOf
    <2> QED  BY <1>1, <2>1, UnpaidNotPaid
  <1>7. Paid' = Paid \cup {x}
    BY <1>3 DEF Paid
  <1>8. outcome \in {NO, YES}
    BY <1>1, <1>3, <1>5, BetTyped DEF Winners
  <1>9. /\ Pots[outcome] = WinningPool
        /\ Pots[NO] + Pots[YES] = total_pool
    BY <1>8, <1>1, PoolsTyped DEF Pots, WinningPool, NO, YES
  <1>10. /\ DOMAIN StakesHeld = DOMAIN bets
         /\ StakesHeld[x].side = outcome /\ StakesHeld[x].amount = bets[b].amount
    BY <1>3, <1>5 DEF StakesHeld, Winners
  <1>11. Promise!Due(x) = Share(b)
    BY <1>3, <1>9, <1>10, ShareTyped DEF Promise!Due
  <1>12. UNCHANGED <<StakesHeld, Pots>> /\ PhaseOf(state) = "settled" /\ PhaseOf(state') = "settled"
    BY <1>3 DEF StakesHeld, Pots, PhaseOf
  <1>13. Promise!Pay(x)
    BY <1>3, <1>6, <1>7, <1>10, <1>11, <1>12 DEF Promise!Pay
  <1> QED  BY <1>3, <1>13 DEF Promise!Next

(* Every step of a market with well-formed hashes is a step of the         *)
(* abstract market or a stutter.                                           *)
LEMMA NextRefines ==
    SolvencyInv /\ [Next]_vars => [WellFormed' => Promise!Next \/ UNCHANGED Promise!vars]_vars
  <1> SUFFICES ASSUME SolvencyInv, Next, WellFormed'
               PROVE  Promise!Next \/ UNCHANGED Promise!vars
    OBVIOUS
  <1>1. state # "Failed"
    BY DEF SolvencyInv, RecordInv, ResolutionInv, TypeInv, Lifecycle
  <1> USE DEF book, accounts, resolution
  <1>2. ASSUME NEW c \in Creators, NEW p \in MarketParams, InitMarket(c, p)
        PROVE  UNCHANGED Promise!vars
    BY <1>2, InitMarketRefines
  <1>3. ASSUME NEW b \in Bettors, NEW side \in 0 .. 2, NEW amount \in Stakes,
               NEW hash \in Commitments(b, side, amount), PlaceBet(b, side, amount, hash)
        PROVE  Promise!Next
    BY <1>3, PlaceBetRefines
  <1>4. ASSUME CloseMarket PROVE Promise!Next
    <2>1. Promise!Close
      BY <1>4 DEF CloseMarket, Promise!Close, PhaseOf, StakesHeld, Pots, Paid
    <2> QED  BY <2>1 DEF Promise!Next
  <1>5. ASSUME NEW i \in SourceIndices, NEW pd \in ProofData, SubmitProof(i, pd)
        PROVE  UNCHANGED Promise!vars
    BY <1>5 DEF SubmitProof, Promise!vars, PhaseOf, StakesHeld, Pots, Paid
  <1>6. ASSUME NEW listed, AggregateResolution(listed)
        PROVE  Promise!Next
    BY <1>6, ResolveRefines DEF AggregateResolution, CanAggregate
  <1>7. ASSUME NEW caller \in Creators, NEW o \in 0 .. 2, FallbackResolve(caller, o)
        PROVE  Promise!Next
    BY <1>7, <1>1, ResolveRefines DEF FallbackResolve
  <1>8. ASSUME NEW b \in Bettors, NEW k \in DOMAIN leaves, ClaimWinning(b, k)
        PROVE  Promise!Next
    BY <1>8, ClaimRefines
  <1>9. ASSUME NEW b \in Bettors, RefundMarket(b) PROVE FALSE
    BY <1>9, <1>1 DEF RefundMarket
  <1>10. ASSUME Tick PROVE UNCHANGED Promise!vars
    BY <1>10 DEF Tick, Promise!vars, PhaseOf, StakesHeld, Pots, Paid
  <1> QED  BY <1>2, <1>3, <1>4, <1>5, <1>6, <1>7, <1>8, <1>9, <1>10 DEF Next

(* For any bettors, stakes, sources, hashes and claims: as long as the     *)
(* hashes somebody can open are well formed, a KRN market moves money only *)
(* as the abstract parimutuel market does.                                 *)
THEOREM Implements == Spec => ImplementsParimutuel
  BY InitRefines, NextRefines, SolvencyInvariance, PTL DEF Spec, ImplementsParimutuel

-----------------------------------------------------------------------------
(* The sums                                                                *)

Books == PoolsMatchBets /\ PoolAccounted

AccountingInv == SolvencyInv /\ Books

(* The bettors, the claims and the paid are finitely many, and hold        *)
(* amounts that can be added.                                              *)
LEMMA RecordsFinite ==
    ASSUME SolvencyInv
    PROVE  /\ IsFiniteSet(DOMAIN bets) /\ IsFiniteSet(DOMAIN nullifiers)
           /\ \A b \in DOMAIN bets : bets[b].amount \in Nat
           /\ \A n \in DOMAIN nullifiers :
                  nullifiers[n].signer \in Winners /\ Share(nullifiers[n].signer) \in Nat
           /\ Paid \subseteq DOMAIN bets
           /\ WellFormed => Paid \subseteq Winners
  <1>1. RecordInv
    BY DEF SolvencyInv
  <1>2. \A n \in DOMAIN nullifiers : Recorded(n)
    BY <1>1 DEF RecordInv, Records, ClaimsRecorded
  <1>3. \A n \in DOMAIN nullifiers : nullifiers[n].signer \in Winners
    BY <1>2 DEF Recorded, Winners
  <1>4. \A n \in DOMAIN nullifiers : Share(nullifiers[n].signer) \in Nat
    BY <1>3, ShareTyped
  <1>5. \A n \in DOMAIN nullifiers : nullifiers[n].bettor \in DOMAIN bets
    BY <1>2 DEF Recorded
  <1>6. ASSUME WellFormed, NEW n \in DOMAIN nullifiers
        PROVE  nullifiers[n].bettor \in Winners
    BY <1>2, <1>6, OpenedByWinner DEF Recorded
  <1>7. Paid \subseteq DOMAIN bets
    BY <1>5 DEF Paid
  <1>8. WellFormed => Paid \subseteq Winners
    BY <1>6 DEF Paid
  <1>9. IsFiniteSet(DOMAIN bets) /\ IsFiniteSet(DOMAIN nullifiers)
    BY <1>1 DEF RecordInv, Records, LeavesCounted, ClaimsRecorded
  <1>10. \A b \in DOMAIN bets : bets[b].amount \in Nat
    BY <1>1, BetTyped
  <1> QED  BY <1>3, <1>4, <1>7, <1>8, <1>9, <1>10

(* Nothing paid: the pool account holds everything.                        *)
LEMMA NothingPaid ==
    ASSUME RecordInv, state # "Resolved"
    PROVE  PoolAccounted
  <1>1. DOMAIN nullifiers = {} /\ pool = total_pool /\ total_pool \in Nat
    BY NoneYet, PoolsTyped DEF RecordInv, Records, Untouched
  <1>2. Paid = {}
    BY <1>1 DEF Paid
  <1>3. PaidOut = 0 /\ SharesOf(Paid) = 0
    BY <1>1, <1>2, SumEmpty DEF PaidOut, SharesOf
  <1> QED  BY <1>1, <1>3 DEF PoolAccounted

-----------------------------------------------------------------------------
(* Steps                                                                   *)

(* A market that does not exist has empty pools.                           *)
LEMMA InitAccountingInv == Init => AccountingInv
  <1> SUFFICES ASSUME Init PROVE AccountingInv
    OBVIOUS
  <1>1. SolvencyInv
    BY InitSolvencyInv
  <1>2. BetsOn(YES) = {} /\ BetsOn(NO) = {}
    BY NoneYet DEF Init, BetsOn
  <1>3. Staked({}) = 0
    BY SumEmpty DEF Staked
  <1>4. PoolsMatchBets
    BY <1>2, <1>3 DEF Init, PoolsMatchBets
  <1>5. PoolAccounted
    BY <1>1, NothingPaid DEF Init, SolvencyInv
  <1> QED  BY <1>1, <1>4, <1>5 DEF AccountingInv, Books

(* place_bet adds one account to its side, and the amount to that side's   *)
(* pool.                                                                   *)
LEMMA PlaceBetBooks ==
    ASSUME AccountingInv, SolvencyInv', NEW b \in Bettors, NEW side \in 0 .. 2,
           NEW amount \in Stakes, NEW hash \in Commitments(b, side, amount),
           PlaceBet(b, side, amount, hash)
    PROVE  Books'
  <1>1. TypeOK /\ SolvencyInv /\ RecordInv /\ RecordInv' /\ PoolsMatchBets
    BY DEF AccountingInv, Books, SolvencyInv, RecordInv, ResolutionInv, TypeInv
  <1>2. /\ side \in {NO, YES} /\ amount \in Nat
        /\ b \notin DOMAIN bets /\ DOMAIN bets' = DOMAIN bets \cup {b}
        /\ bets'[b].side = side /\ bets'[b].amount = amount
        /\ \A c \in DOMAIN bets : bets'[c] = bets[c]
        /\ yes_pool' = yes_pool + YesPart(side, amount)
        /\ no_pool' = no_pool + NoPart(side, amount)
        /\ state' = "Open"
    BY <1>1, BetAdded
  <1>3. ASSUME NEW s \in {NO, YES}
        PROVE  /\ Staked(BetsOn(s))' = Staked(BetsOn(s)) + (IF s = side THEN amount ELSE 0)
               /\ Staked(BetsOn(s)) \in Int
    <2> DEFINE B == BetsOn(s)
               f == [c \in B |-> bets[c].amount]
    <2>0. B \subseteq DOMAIN bets /\ b \notin B
      BY <1>2 DEF BetsOn
    <2>1. IsFiniteSet(B) /\ (\A c \in B : f[c] \in Int) /\ b \notin B
      <3>1. \A c \in B : f[c] = bets[c].amount
        OBVIOUS
      <3> HIDE DEF f, B
      <3> QED  BY <1>1, <2>0, <3>1, RecordsFinite, FS_Subset
    <2>2. Staked(B) = SumFunctionOnSet(f, B) /\ SumFunctionOnSet(f, B) \in Int
      <3> HIDE DEF f
      <3>1. SumFunctionOnSet(f, B) \in Int
        BY <2>1, SumType
      <3> QED  BY <3>1 DEF Staked, f
    <2>3. CASE s = side
      <3> DEFINE g == [c \in B \cup {b} |-> bets'[c].amount]
      <3>1. BetsOn(s)' = B \cup {b}
        BY <2>3, <1>2 DEF BetsOn
      <3>2. Staked(BetsOn(s))' = SumFunctionOnSet(g, B \cup {b})
        BY <3>1 DEF Staked
      <3>3. g[b] = amount /\ \A c \in B : g[c] = f[c]
        BY <1>2 DEF BetsOn
      <3> HIDE DEF f, g, B
      <3>5. amount \in Int
        BY <1>2
      <3>4. SumFunctionOnSet(g, B \cup {b}) = amount + SumFunctionOnSet(f, B)
        BY <3>3, <3>5, <2>1, SumGrows
      <3> QED  BY <2>2, <2>3, <3>2, <3>4, <1>2 DEF B
    <2>4. CASE s # side
      <3>1. BetsOn(s)' = B
        BY <2>4, <1>2 DEF BetsOn
      <3>2. [c \in B |-> bets'[c].amount] = f
        BY <1>2 DEF BetsOn
      <3>3. Staked(BetsOn(s))' = SumFunctionOnSet(f, B)
        BY <3>1, <3>2 DEF Staked
      <3> HIDE DEF f
      <3> QED  BY <2>2, <2>4, <3>3
    <2> QED  BY <2>2, <2>3, <2>4
  <1>4. /\ yes_pool' = yes_pool + (IF YES = side THEN amount ELSE 0)
        /\ no_pool' = no_pool + (IF NO = side THEN amount ELSE 0)
    BY <1>2 DEF YesPart, NoPart, NO, YES
  <1>5. PoolsMatchBets'
    <2>1. yes_pool' = Staked(BetsOn(YES))' /\ no_pool' = Staked(BetsOn(NO))'
      BY <1>1, <1>3, <1>4 DEF PoolsMatchBets
    <2>2. total_pool' = yes_pool' + no_pool'
      BY <1>1 DEF RecordInv, ResolutionInv, TypeInv, PoolsAdd
    <2> QED  BY <2>1, <2>2 DEF PoolsMatchBets
  <1>6. PoolAccounted'
    <2>1. (RecordInv /\ state # "Resolved" => PoolAccounted)'
      BY NothingPaid, PTL
    <2> QED  BY <1>1, <1>2, <2>1
  <1> QED  BY <1>5, <1>6 DEF Books

(* Steps that leave the bets and the pools alone keep the sums.            *)
LEMMA SumsKept ==
    ASSUME AccountingInv, UNCHANGED <<bets, total_pool, yes_pool, no_pool>>
    PROVE  PoolsMatchBets'
  <1>1. BetsOn(YES)' = BetsOn(YES) /\ BetsOn(NO)' = BetsOn(NO)
    BY DEF BetsOn
  <1>2. /\ Staked(BetsOn(YES))' = Staked(BetsOn(YES))
        /\ Staked(BetsOn(NO))' = Staked(BetsOn(NO))
    BY <1>1 DEF Staked
  <1> QED  BY <1>2 DEF AccountingInv, Books, PoolsMatchBets

(* Steps that move no money, up to the one that resolves.                  *)
LEMMA IdleBooks ==
    ASSUME AccountingInv, SolvencyInv',
           UNCHANGED <<total_pool, yes_pool, no_pool, leaves, bets, nullifiers, pool>>,
           state = "Resolved" => UNCHANGED <<state, outcome>>
    PROVE  Books'
  <1>1. PoolAccounted'
    <2>1. CASE state # "Resolved"
      <3>1. PoolAccounted
        BY DEF AccountingInv, Books
      <3>2. DOMAIN nullifiers = {} /\ pool = total_pool /\ total_pool \in Nat
        BY <2>1, NoneYet, PoolsTyped DEF AccountingInv, SolvencyInv, RecordInv, Records, Untouched
      <3>3. Paid' = {} /\ DOMAIN nullifiers' = {}
        BY <3>2 DEF Paid
      <3>4. PaidOut' = 0 /\ SharesOf(Paid)' = 0
        BY <3>3, SumEmpty DEF PaidOut, SharesOf
      <3> QED  BY <3>2, <3>4 DEF PoolAccounted
    <2>2. CASE state = "Resolved"
      <3>1. Paid' = Paid /\ (WellFormed' <=> WellFormed)
        BY DEF Paid, WellFormed
      <3>2. \A b : Share(b)' = Share(b)
        BY <2>2 DEF Share, Payout, WinningPool
      <3>3. SharesOf(Paid)' = SharesOf(Paid) /\ PaidOut' = PaidOut
        BY <3>1, <3>2 DEF SharesOf, PaidOut
      <3> QED  BY <3>1, <3>3 DEF AccountingInv, Books, PoolAccounted
    <2> QED  BY <2>1, <2>2
  <1> QED  BY <1>1, SumsKept DEF Books

(* claim_winning pays one share more and has one nullifier more.           *)
LEMMA ClaimBooks ==
    ASSUME AccountingInv, NEW b \in Bettors, NEW k \in DOMAIN leaves, ClaimWinning(b, k)
    PROVE  Books'
  <1>1. SolvencyInv /\ RecordInv
    BY DEF AccountingInv, SolvencyInv
  <1>2. PICK x, n : x = leaves[k].bettor /\ n = leaves[k].hash.key
    OBVIOUS
  <1>3. /\ state = "Resolved" /\ b \in Winners /\ x \in DOMAIN bets
        /\ bets[x].commitment_hash.key = n /\ n \in KnownKeys
        /\ bets[x].commitment_hash.outcome = outcome
        /\ bets[x].commitment_hash.amount = bets[b].amount
        /\ n \notin DOMAIN nullifiers /\ DOMAIN nullifiers' = DOMAIN nullifiers \cup {n}
        /\ nullifiers'[n].signer = b /\ nullifiers'[n].bettor = x
        /\ \A m \in DOMAIN nullifiers : nullifiers'[m] = nullifiers[m]
        /\ pool' = pool - Share(b)
        /\ UNCHANGED <<total_pool, yes_pool, no_pool, leaves, bets, state, outcome>>
    BY <1>1, <1>2, ClaimAdded
  <1>4. \A y : Share(y)' = Share(y)
    BY <1>3 DEF Share, Payout, WinningPool
  <1>5. Share(b) \in Nat /\ total_pool \in Nat
    BY <1>1, <1>3, ShareTyped
  <1>6. PaidOut' = Share(b) + PaidOut /\ PaidOut \in Int
    <2> DEFINE N == DOMAIN nullifiers
               f == [m \in N |-> Share(nullifiers[m].signer)]
               g == [m \in N \cup {n} |-> Share(nullifiers'[m].signer)]
    <2>1. IsFiniteSet(N) /\ \A m \in N : f[m] \in Int
      BY <1>1, RecordsFinite
    <2>2. g[n] = Share(b) /\ g[n] \in Int /\ \A m \in N : g[m] = f[m]
      BY <1>3, <1>5
    <2>3. PaidOut = SumFunctionOnSet(f, N)
      BY DEF PaidOut
    <2>4. PaidOut' = SumFunctionOnSet(g, N \cup {n})
      BY <1>3, <1>4 DEF PaidOut
    <2>5. n \notin N
      BY <1>3
    <2> HIDE DEF f, g, N
    <2>6. SumFunctionOnSet(g, N \cup {n}) = g[n] + SumFunctionOnSet(f, N)
      BY <2>1, <2>2, <2>5, SumGrows
    <2>7. SumFunctionOnSet(f, N) \in Int
      BY <2>1, SumType
    <2> QED  BY <2>2, <2>3, <2>4, <2>6, <2>7
  <1>7. ASSUME WellFormed
        PROVE  PaidOut' = SharesOf(Paid)'
    <2>1. x \in Winners /\ bets[x].amount = bets[b].amount
      BY <1>3, <1>7, OpenedByWinner DEF Winners
    <2>2. Share(x) = Share(b)
      BY <2>1 DEF Share
    <2>3. Paid' = Paid \cup {x} /\ x \notin Paid
      <3>1. x \in Unpaid
        BY <1>3, <2>1 DEF Unpaid, FreshNullifier, NullifierOf
      <3> QED  BY <1>1, <1>3, <3>1, UnpaidNotPaid DEF Paid
    <2>4. SharesOf(Paid)' = Share(x) + SharesOf(Paid)
      <3> DEFINE f == [y \in Paid |-> Share(y)]
                 g == [y \in Paid \cup {x} |-> Share(y)]
      <3>1. IsFiniteSet(Paid) /\ Paid \subseteq Winners
        BY <1>1, <1>7, RecordsFinite, FS_Subset
      <3>2. (\A y \in Paid : f[y] \in Int) /\ g[x] \in Int /\ g[x] = Share(x)
        BY <1>1, <2>1, <3>1, ShareTyped
      <3>3. \A y \in Paid : g[y] = f[y]
        OBVIOUS
      <3>4. SharesOf(Paid)' = SumFunctionOnSet(g, Paid \cup {x})
        BY <2>3, <1>4 DEF SharesOf
      <3>5. SharesOf(Paid) = SumFunctionOnSet(f, Paid)
        BY DEF SharesOf
      <3> HIDE DEF f, g
      <3>6. SumFunctionOnSet(g, Paid \cup {x}) = g[x] + SumFunctionOnSet(f, Paid)
        BY <2>3, <3>1, <3>2, <3>3, SumGrows
      <3> QED  BY <3>2, <3>4, <3>5, <3>6
    <2>5. PaidOut = SharesOf(Paid)
      BY <1>7 DEF AccountingInv, Books, PoolAccounted
    <2> QED  BY <1>6, <2>2, <2>4, <2>5
  <1>8. PoolAccounted'
    <2>1. pool = total_pool - PaidOut
      BY DEF AccountingInv, Books, PoolAccounted
    <2>2. WellFormed' <=> WellFormed
      BY <1>3 DEF WellFormed
    <2> QED  BY <1>3, <1>5, <1>6, <1>7, <2>1, <2>2 DEF PoolAccounted
  <1> QED  BY <1>3, <1>8, SumsKept DEF Books

(* Every instruction keeps the books.                                      *)
LEMMA NextAccountingInv == AccountingInv /\ [Next]_vars => AccountingInv'
  <1> SUFFICES ASSUME AccountingInv, [Next]_vars PROVE AccountingInv'
    OBVIOUS
  <1>1. SolvencyInv' /\ RecordInv
    BY NextSolvencyInv DEF AccountingInv, SolvencyInv
  <1>2. Books'
    BY <1>1, OtherSteps, PlaceBetBooks, ClaimBooks, IdleBooks
  <1> QED  BY <1>1, <1>2 DEF AccountingInv

(* The books add up in every reachable state.                              *)
THEOREM AccountingInvariance == Spec => []AccountingInv
  BY InitAccountingInv, NextAccountingInv, PTL DEF Spec

(* Each pool is the sum of the recorded stakes of its side: what claims    *)
(* are divided by is what was bet.                                         *)
THEOREM PoolsCorrect == Spec => []PoolsMatchBets
  <1>1. AccountingInv => PoolsMatchBets
    BY DEF AccountingInv, Books
  <1> QED  BY <1>1, AccountingInvariance, PTL

(* The pool account holds what was bet less one payout per nullifier,      *)
(* whatever the hashes; with well-formed ones that is the share of each    *)
(* bettor whose leaf was opened, once.                                     *)
THEOREM PoolCorrect == Spec => []PoolAccounted
  <1>1. AccountingInv => PoolAccounted
    BY DEF AccountingInv, Books
  <1> QED  BY <1>1, AccountingInvariance, PTL

-----------------------------------------------------------------------------
(* What rounding leaves behind                                             *)

(* A rounded-down quotient is short by less than one.                      *)
LEMMA QuotientShort ==
    ASSUME NEW x \in Nat, NEW w \in Nat \ {0}
    PROVE  x + 1 <= (x \div w) * w + w /\ (x \div w) \in Nat
  OBVIOUS

(* Over any set of winners, what the shares are short of the exact         *)
(* proportion is less than one winning pool for each.                      *)
LEMMA SharesShort ==
    ASSUME SolvencyInv, Winners # {}
    PROVE  \A U \in SUBSET Winners :
             /\ Staked(U) \in Int /\ SharesOf(U) \in Int /\ Cardinality(U) \in Nat
             /\ Staked(U) * total_pool + Cardinality(U)
                    <= SharesOf(U) * WinningPool + Cardinality(U) * WinningPool
  <1> DEFINE Short(U) ==
                /\ Staked(U) \in Int /\ SharesOf(U) \in Int /\ Cardinality(U) \in Nat
                /\ Staked(U) * total_pool + Cardinality(U)
                       <= SharesOf(U) * WinningPool + Cardinality(U) * WinningPool
             C == {U \in SUBSET Winners : Short(U)}
  <1>1. WinningPool \in Nat \ {0} /\ total_pool \in Nat
    BY ShareTyped
  <1>2. {} \in C
    <2>1. Staked({}) = 0 /\ SharesOf({}) = 0 /\ Cardinality({}) = 0
      BY SumEmpty, FS_EmptySet DEF Staked, SharesOf
    <2> QED  BY <1>1, <2>1
  <1>3. IsFiniteSet(Winners)
    BY RecordsFinite, FS_Subset DEF Winners
  <1>4. ASSUME NEW U \in SUBSET Winners, NEW b \in Winners \ U, Short(U)
        PROVE  Short(U \cup {b})
    <2>1. IsFiniteSet(U)
      BY <1>3, FS_Subset
    <2>2. Cardinality(U \cup {b}) = Cardinality(U) + 1 /\ Cardinality(U) \in Nat
      BY <2>1, FS_AddElement, FS_CardinalityType
    <2>3. \A c \in Winners : bets[c].amount \in Nat /\ Share(c) \in Nat
      BY ShareTyped
    <2>4. Staked(U \cup {b}) = bets[b].amount + Staked(U)
      <3> DEFINE f == [c \in U |-> bets[c].amount]
                 g == [c \in U \cup {b} |-> bets[c].amount]
      <3>1. (\A c \in U : f[c] \in Int /\ g[c] = f[c]) /\ g[b] \in Int /\ g[b] = bets[b].amount
        BY <2>3
      <3>2. Staked(U) = SumFunctionOnSet(f, U)
            /\ Staked(U \cup {b}) = SumFunctionOnSet(g, U \cup {b})
        BY DEF Staked
      <3> HIDE DEF f, g
      <3>3. SumFunctionOnSet(g, U \cup {b}) = g[b] + SumFunctionOnSet(f, U)
        BY <2>1, <3>1, SumGrows
      <3> QED  BY <3>1, <3>2, <3>3
    <2>5. SharesOf(U \cup {b}) = Share(b) + SharesOf(U)
      <3> DEFINE f == [c \in U |-> Share(c)]
                 g == [c \in U \cup {b} |-> Share(c)]
      <3>1. (\A c \in U : f[c] \in Int /\ g[c] = f[c]) /\ g[b] \in Int /\ g[b] = Share(b)
        BY <2>3
      <3>2. SharesOf(U) = SumFunctionOnSet(f, U)
            /\ SharesOf(U \cup {b}) = SumFunctionOnSet(g, U \cup {b})
        BY DEF SharesOf
      <3> HIDE DEF f, g
      <3>3. SumFunctionOnSet(g, U \cup {b}) = g[b] + SumFunctionOnSet(f, U)
        BY <2>1, <3>1, SumGrows
      <3> QED  BY <3>1, <3>2, <3>3
    <2>6. bets[b].amount * total_pool + 1 <= Share(b) * WinningPool + WinningPool
      <3>1. bets[b].amount * total_pool \in Nat
        BY <1>1, <2>3
      <3> QED  BY <1>1, <3>1, QuotientShort, ShareTyped
    <2> QED
      <3> DEFINE a == bets[b].amount
                 q == Share(b)
                 A == Staked(U)
                 Q == SharesOf(U)
                 n == Cardinality(U)
                 t == total_pool
                 w == WinningPool
      <3>1. a \in Int /\ q \in Int /\ A \in Int /\ Q \in Int /\ n \in Nat
            /\ t \in Int /\ w \in Int
        BY <1>1, <1>4, <2>2, <2>3
      <3>2. A * t + n <= Q * w + n * w /\ a * t + 1 <= q * w + w
        BY <1>4, <2>6
      <3>3. /\ Staked(U \cup {b}) = a + A /\ SharesOf(U \cup {b}) = q + Q
            /\ Cardinality(U \cup {b}) = n + 1
        BY <2>2, <2>4, <2>5
      <3> HIDE DEF a, q, A, Q, n, t, w
      <3>4. (a + A) * t + (n + 1) <= (q + Q) * w + (n + 1) * w
        <4>1. /\ (a + A) * t = a * t + A * t /\ (q + Q) * w = q * w + Q * w
              /\ (n + 1) * w = n * w + w
          BY <3>1
        <4>2. /\ a * t \in Int /\ A * t \in Int /\ q * w \in Int /\ Q * w \in Int
              /\ n * w \in Int
          BY <3>1
        <4> QED  BY <3>1, <3>2, <4>1, <4>2
      <3> QED  BY <3>1, <3>3, <3>4 DEF t, w
  <1>5. SUBSET Winners \subseteq C
    <2>1. \A U \in SUBSET Winners : \A b \in Winners \ U : U \in C => U \cup {b} \in C
      BY <1>4
    <2> HIDE DEF C
    <2> QED  BY <1>2, <1>3, <2>1, SubsetInduction
  <1> QED  BY <1>5

(* Once every winner is paid, less than a lamport for each of them stays   *)
(* in the pool, for any stakes and well-formed hashes.                     *)
THEOREM DustCorrect == Spec => []OnlyDustRemains
  <1>1. AccountingInv => OnlyDustRemains
    <2> SUFFICES ASSUME AccountingInv, state = "Resolved", WellFormed, Winners # {},
                        Winners \subseteq Paid
                 PROVE  pool < Cardinality(Winners)
      BY DEF OnlyDustRemains
    <2> DEFINE n == Cardinality(Winners)
               Q == SharesOf(Winners)
               t == total_pool
               w == WinningPool
    <2>1. SolvencyInv /\ RecordInv /\ w \in Nat \ {0} /\ t \in Nat
      BY ShareTyped DEF AccountingInv, SolvencyInv
    <2>2. Paid = Winners
      BY <2>1, RecordsFinite
    <2>3. Staked(Winners) = w
      <3>1. Winners = BetsOn(outcome)
        BY DEF Winners, BetsOn
      <3>2. outcome \in {NO, YES}
        BY <2>1 DEF RecordInv, ResolutionInv, OutcomeIffResolved
      <3> QED  BY <3>1, <3>2 DEF AccountingInv, Books, PoolsMatchBets, WinningPool, NO, YES
    <2>4. Q \in Int /\ n \in Nat /\ w * t + n <= Q * w + n * w
      BY <2>1, <2>3, SharesShort
    <2>5. pool = t - Q
      BY <2>2 DEF AccountingInv, Books, PoolAccounted
    <2>6. n >= 1
      <3>1. IsFiniteSet(Winners)
        BY <2>1, RecordsFinite, FS_Subset DEF Winners
      <3> QED  BY <3>1, <2>4, FS_EmptySet
    <2> HIDE DEF n, Q, t, w
    <2>7. (t - Q) * w < n * w
      <3>1. (t - Q) * w = w * t - Q * w /\ w * t \in Int /\ Q * w \in Int /\ n * w \in Int
        BY <2>1, <2>4
      <3> QED  BY <2>4, <2>6, <3>1
    <2>8. ~(n <= t - Q)
      <3> SUFFICES ASSUME n <= t - Q PROVE FALSE
        OBVIOUS
      <3>1. t - Q \in Nat /\ n * w <= (t - Q) * w
        <4>1. t - Q \in Nat
          BY <2>1, <2>4
        <4> QED  BY <4>1, <2>1, <2>4, MulMonotone
      <3> QED  BY <2>1, <2>4, <2>7, <3>1
    <2> QED  BY <2>1, <2>4, <2>5, <2>8 DEF n
  <1> QED  BY <1>1, AccountingInvariance, PTL

==============================================================================
