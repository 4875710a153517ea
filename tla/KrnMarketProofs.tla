--------------------------- MODULE KrnMarketProofs ---------------------------
(***************************************************************************)
(* Type correctness, and what can be said about the resolution of a market *)
(* from an invariant that involves no sums.                                *)
(***************************************************************************)
EXTENDS KrnMarket, FiniteSetTheorems, TLAPS

USE DEF NO, YES, UNRESOLVED, MaxSources, SourceIndices

(* What the type invariant needs to be inductive: the pools add up (so     *)
(* that the bound of total_pool bounds the others), the proofs are those   *)
(* that were counted, and a market that exists was created from arguments  *)
(* init_market accepted.                                                   *)
PoolsAdd == total_pool = yes_pool + no_pool

Created ==
    state # "None" =>
        /\ config \in MarketParams /\ authority \in Creators
        /\ config.required_sources >= 1
        /\ Len(config.source_configs) <= MaxSources

(* No instruction assigns Failed, and proofs need a closed market, one of  *)
(* its sources and an outcome.                                             *)
Lifecycle ==
    /\ state # "Failed"
    /\ state \in {"None", "Open", "Closed"} => proofs = <<>>
    /\ state = "None" => total_pool = 0 /\ yes_pool = 0 /\ no_pool = 0
    /\ \A i \in DOMAIN proofs : i < NumSources /\ proofs[i].outcome \in {NO, YES}

TypeInv == TypeOK /\ PoolsAdd /\ Created /\ Lifecycle /\ VotesCounted

-----------------------------------------------------------------------------

(* A map with one more entry is a function on one more key.                *)
LEMMA PutType ==
    ASSUME NEW S, NEW T, NEW f \in [S -> T], NEW k, NEW v \in T
    PROVE  Put(f, k, v) \in [S \cup {k} -> T]
  BY DEF Put

(* The source indices are finitely many, so sets of proofs can be counted. *)
LEMMA IndexSets ==
    ASSUME NEW S, S \subseteq SourceIndices
    PROVE  IsFiniteSet(S) /\ Cardinality(S) \in 0 .. MaxSources
  <1>1. S \in SUBSET Nat /\ 9 \in Nat /\ \A i \in S : i <= 9
    OBVIOUS
  <1>2. IsFiniteSet(S) /\ Cardinality(S) <= 9 + 1
    BY <1>1, FS_BoundedSetOfNaturals
  <1> QED  BY <1>2, FS_CardinalityType

(* Every argument init_market may store is typed, as ParamsAssumption      *)
(* says.                                                                   *)
LEMMA ParamsTyped ==
    ASSUME NEW p \in MarketParams
    PROVE  /\ p.close_timestamp \in Nat /\ p.resolution_deadline \in Nat
           /\ p.required_sources \in Nat /\ Len(p.source_configs) \in Nat
  BY ParamsAssumption DEF ParamsType

(* Whatever a bettor passes for a commitment hash stands for a ticket.     *)
LEMMA CommitmentTyped ==
    ASSUME NEW b \in Bettors, NEW side \in {NO, YES}, NEW amount \in Nat,
           NEW hash \in Commitments(b, side, amount)
    PROVE  hash \in Tickets
  BY TicketsAssumption DEF Commitments, Ticket, Tickets

(* An account that does not exist yet satisfies the invariant.             *)
LEMMA InitTypeInv == Init => TypeInv
  <1> SUFFICES ASSUME Init PROVE TypeInv
    OBVIOUS
  <1>1. IsFiniteSet({}) /\ Cardinality({}) = 0
    BY FS_EmptySet
  <1>2. DOMAIN <<>> = {}
    OBVIOUS
  <1>3. TypeOK
    BY <1>2, LimitsAssumption, TimeAssumption DEF Init, TypeOK, States
  <1>4. VotesCounted
    BY <1>1, <1>2 DEF Init, VotesCounted
  <1> QED  BY <1>2, <1>3, <1>4 DEF Init, TypeInv, PoolsAdd, Created, Lifecycle

-----------------------------------------------------------------------------
(* Each instruction preserves TypeInv.                                     *)

(* init_market: the stored arguments passed its checks, the counters are   *)
(* 0.                                                                      *)
LEMMA InitMarketTypeInv ==
    ASSUME TypeInv, NEW c \in Creators, NEW p \in MarketParams, InitMarket(c, p)
    PROVE  TypeInv'
  <1> USE DEF TypeInv, InitMarket, accounts
  <1>1. DOMAIN <<>> = {} /\ <<>> \in Seq(Leaf) /\ Len(<<>>) = 0
    OBVIOUS
  <1>2. TypeOK'
    BY <1>1, LimitsAssumption DEF TypeOK, States
  <1>3. VotesCounted'
    BY <1>1, FS_EmptySet DEF VotesCounted
  <1>4. PoolsAdd' /\ Created' /\ Lifecycle'
    BY <1>1, ParamsTyped DEF PoolsAdd, Created, Lifecycle, ParamsAccepted
  <1> QED  BY <1>2, <1>3, <1>4

(* place_bet: checked_add keeps the pools in u64, the capacity check keeps *)
(* the tree within its leaves, and the pools still add up.                 *)
LEMMA PlaceBetTypeInv ==
    ASSUME TypeInv, NEW b \in Bettors, NEW side \in 0 .. 2, NEW amount \in Stakes,
           NEW hash \in Commitments(b, side, amount), PlaceBet(b, side, amount, hash)
    PROVE  TypeInv'
  <1> USE DEF TypeInv, PlaceBet, resolution
  <1>1. amount \in Nat /\ amount > 0 /\ side \in {NO, YES}
    BY StakesAssumption
  <1>h. hash \in Tickets
    BY <1>1, CommitmentTyped
  <1>2. total_pool' \in 0 .. U64Max /\ yes_pool' \in 0 .. U64Max /\ no_pool' \in 0 .. U64Max
        /\ PoolsAdd'
    <2>1. /\ yes_pool \in Nat /\ no_pool \in Nat
          /\ total_pool = yes_pool + no_pool
      BY DEF TypeOK, PoolsAdd
    <2>2. /\ total_pool' = total_pool + amount /\ total_pool + amount <= U64Max
          /\ yes_pool' = yes_pool + YesPart(side, amount)
          /\ no_pool' = no_pool + NoPart(side, amount)
      OBVIOUS
    <2>3. \/ YesPart(side, amount) = amount /\ NoPart(side, amount) = 0
          \/ YesPart(side, amount) = 0 /\ NoPart(side, amount) = amount
      BY DEF YesPart, NoPart
    <2> QED  BY ONLY <1>1, <2>1, <2>2, <2>3, LimitsAssumption DEF PoolsAdd
  <1>3. leaves' \in Seq(Leaf) /\ Len(leaves') <= TreeCapacity
    <2> DEFINE leaf == [hash |-> hash, bettor |-> b]
    <2>1. leaf \in Leaf
      BY <1>h DEF Leaf
    <2>2. leaves' = Append(leaves, leaf) /\ Len(leaves) < TreeCapacity
      BY DEF InsertLeaf, TreeHasRoom
    <2>3. leaves \in Seq(Leaf)
      BY DEF TypeOK
    <2> HIDE DEF leaf
    <2> QED  BY ONLY <2>1, <2>2, <2>3, LimitsAssumption
  <1>4. bets' \in [DOMAIN bets' -> Bet] /\ DOMAIN bets' \subseteq Bettors
    <2> DEFINE bet == [commitment_hash |-> hash, side |-> side, amount |-> amount,
                       claimed |-> FALSE]
    <2>1. bet \in Bet
      BY <1>1, <1>h DEF Bet
    <2>2. bets \in [DOMAIN bets -> Bet] /\ DOMAIN bets \subseteq Bettors
      BY DEF TypeOK
    <2>3. bets' = Put(bets, b, bet)
      OBVIOUS
    <2> HIDE DEF bet
    <2>4. bets' \in [DOMAIN bets \cup {b} -> Bet]
      BY ONLY <2>1, <2>2, <2>3, PutType
    <2>5. DOMAIN bets' = DOMAIN bets \cup {b}
      BY <2>4
    <2> QED  BY <2>2, <2>4, <2>5
  <1>5. TypeOK'
    <2>1. pool' \in Nat
      BY <1>1 DEF TypeOK
    <2>2. /\ proofs' = proofs /\ nullifiers' = nullifiers /\ now' = now
          /\ UNCHANGED <<config, authority, state, outcome, source_count>>
      OBVIOUS
    <2> QED  BY ONLY TypeInv, <1>2, <1>3, <1>4, <2>1, <2>2 DEF TypeInv, TypeOK
  <1>6. Created' /\ Lifecycle' /\ VotesCounted'
    BY DEF Created, Lifecycle, VotesCounted, BettingOpen, NumSources
  <1> QED  BY <1>2, <1>5, <1>6

(* close_market changes the state alone.                                   *)
LEMMA CloseMarketTypeInv == TypeInv /\ CloseMarket => TypeInv'
  BY DEF TypeInv, CloseMarket, TypeOK, States, PoolsAdd, Created, Lifecycle, VotesCounted,
         NumSources, book, accounts

(* submit_proof: the new proof account is one that did not exist, so the   *)
(* count and the number of accounts grow together.                         *)
LEMMA SubmitProofTypeInv ==
    ASSUME TypeInv, NEW i \in SourceIndices, NEW pd \in ProofData, SubmitProof(i, pd)
    PROVE  TypeInv'
  <1> USE DEF TypeInv, SubmitProof, book, accounts
  <1>1. /\ DOMAIN proofs' = DOMAIN proofs \cup {i}
        /\ proofs' \in [DOMAIN proofs' -> ProofData]
        /\ DOMAIN proofs' \subseteq SourceIndices
    <2>1. proofs \in [DOMAIN proofs -> ProofData] /\ DOMAIN proofs \subseteq SourceIndices
      BY DEF TypeOK
    <2>2. proofs' = Put(proofs, i, pd)
      OBVIOUS
    <2>3. proofs' \in [DOMAIN proofs \cup {i} -> ProofData]
      BY ONLY <2>1, <2>2, PutType, pd \in ProofData
    <2>4. DOMAIN proofs' = DOMAIN proofs \cup {i}
      BY <2>3
    <2> QED  BY ONLY <2>1, <2>3, <2>4, i \in SourceIndices
  <1>2. VotesCounted'
    <2>1. IsFiniteSet(DOMAIN proofs)
      BY IndexSets DEF TypeOK
    <2>2. Cardinality(DOMAIN proofs \cup {i}) = Cardinality(DOMAIN proofs) + 1
      BY <2>1, FS_AddElement DEF ProofSlotFree
    <2> QED  BY <1>1, <2>2 DEF VotesCounted
  <1>3. source_count' \in 0 .. MaxSources
    BY <1>1, <1>2, IndexSets DEF VotesCounted
  <1>4. TypeOK'
    BY <1>1, <1>3 DEF TypeOK, States
  <1>5. PoolsAdd' /\ Created' /\ Lifecycle'
    <2>1. ASSUME NEW n \in DOMAIN proofs'
          PROVE  n < NumSources' /\ proofs'[n].outcome \in {NO, YES}
      BY <1>1, <2>1 DEF Lifecycle, NumSources, Put
    <2> QED  BY <2>1 DEF PoolsAdd, Created, Lifecycle
  <1> QED  BY <1>2, <1>4, <1>5

(* aggregate_resolution writes one of the two outcomes.                    *)
LEMMA AggregateTypeInv ==
    ASSUME TypeInv, NEW listed, AggregateResolution(listed)
    PROVE  TypeInv'
  BY DEF TypeInv, AggregateResolution, CanAggregate, TypeOK, States, PoolsAdd, Created,
         Lifecycle, VotesCounted, NumSources, book, accounts

(* fallback_resolve writes one of the two outcomes, in a market that has   *)
(* arguments.                                                              *)
LEMMA FallbackTypeInv ==
    ASSUME TypeInv, NEW caller \in Creators, NEW o \in 0 .. 2, FallbackResolve(caller, o)
    PROVE  TypeInv'
  BY DEF TypeInv, FallbackResolve, TypeOK, States, PoolsAdd, Created,
         Lifecycle, VotesCounted, NumSources, book, accounts

(* claim_winning: the payout does not exceed what the pool holds, and the  *)
(* new nullifier is that of a ticket.                                      *)
LEMMA ClaimTypeInv ==
    ASSUME TypeInv, NEW b \in Bettors, NEW k \in DOMAIN leaves, ClaimWinning(b, k)
    PROVE  TypeInv'
  <1> USE DEF TypeInv, ClaimWinning, resolution, book
  <1>1. Payout(bets[b].amount) \in Nat
    <2> DEFINE q == (bets[b].amount * total_pool) \div WinningPool
    <2>1. /\ bets[b].amount \in Nat /\ total_pool \in Nat
          /\ WinningPool \in Nat \ {0}
      BY DEF TypeOK, Bet, WinningPool
    <2>2. bets[b].amount * total_pool \in Nat
      BY <2>1
    <2>3. q \in Int
      BY <2>1, <2>2
    <2>4. U64Max + 1 \in Nat \ {0}
      BY LimitsAssumption
    <2> HIDE DEF q
    <2>5. q % (U64Max + 1) \in Nat
      BY <2>3, <2>4
    <2> QED  BY <2>5 DEF Payout, AsU64, q
  <1>2. pool' \in Nat
    BY <1>1 DEF TypeOK, TransferAllowed
  <1>3. nullifiers' \in [DOMAIN nullifiers' -> Claim] /\ DOMAIN nullifiers' \subseteq Keys
    <2> DEFINE n == NullifierOf(leaves[k].hash)
               claim == [signer |-> b, bettor |-> leaves[k].bettor]
    <2>1. leaves[k] \in Leaf
      BY DEF TypeOK
    <2>2. n \in Keys /\ claim \in Claim
      BY <2>1 DEF Leaf, NullifierOf, Tickets, Claim
    <2>3. nullifiers' = Put(nullifiers, n, claim)
      OBVIOUS
    <2>4. nullifiers \in [DOMAIN nullifiers -> Claim] /\ DOMAIN nullifiers \subseteq Keys
      BY DEF TypeOK
    <2> HIDE DEF n, claim
    <2>5. nullifiers' \in [DOMAIN nullifiers \cup {n} -> Claim]
      BY ONLY <2>2, <2>3, <2>4, PutType
    <2> QED  BY <2>2, <2>4, <2>5
  <1>4. TypeOK'
    BY <1>2, <1>3 DEF TypeOK
  <1> QED  BY <1>4 DEF PoolsAdd, Created, Lifecycle, VotesCounted, NumSources

(* refund_market needs MarketState::Failed, which no instruction sets.     *)
LEMMA RefundTypeInv ==
    ASSUME TypeInv, NEW b \in Bettors, RefundMarket(b)
    PROVE  TypeInv'
  BY DEF TypeInv, RefundMarket, Lifecycle

(* The clock stays within its bound.                                       *)
LEMMA TickTypeInv == TypeInv /\ Tick => TypeInv'
  BY TimeAssumption DEF TypeInv, Tick, TypeOK, PoolsAdd, Created, Lifecycle, VotesCounted,
     NumSources, resolution, book, accounts

(* The invariant and the type invariant as theorems of the specification:  *)
(* no sequence of instructions leaves a field outside its type, overfills  *)
(* the tree, overflows a pool, or counts a source twice.                   *)
THEOREM NextTypeInv == TypeInv /\ [Next]_vars => TypeInv'
  <1> SUFFICES ASSUME TypeInv, [Next]_vars PROVE TypeInv'
    OBVIOUS
  <1>1. ASSUME NEW c \in Creators, NEW p \in MarketParams, InitMarket(c, p) PROVE TypeInv'
    BY <1>1, InitMarketTypeInv
  <1>2. ASSUME NEW b \in Bettors, NEW side \in 0 .. 2, NEW amount \in Stakes,
               NEW hash \in Commitments(b, side, amount), PlaceBet(b, side, amount, hash)
        PROVE  TypeInv'
    BY <1>2, PlaceBetTypeInv
  <1>3. CASE CloseMarket
    BY <1>3, CloseMarketTypeInv
  <1>4. ASSUME NEW i \in SourceIndices, NEW pd \in ProofData, SubmitProof(i, pd) PROVE TypeInv'
    BY <1>4, SubmitProofTypeInv
  <1>5. ASSUME NEW listed \in Lists, AggregateResolution(listed) PROVE TypeInv'
    BY <1>5, AggregateTypeInv
  <1>6. ASSUME NEW caller \in Creators, NEW o \in 0 .. 2, FallbackResolve(caller, o)
        PROVE  TypeInv'
    BY <1>6, FallbackTypeInv
  <1>7. ASSUME NEW b \in Bettors, NEW k \in DOMAIN leaves, ClaimWinning(b, k) PROVE TypeInv'
    BY <1>7, ClaimTypeInv
  <1>8. ASSUME NEW b \in Bettors, RefundMarket(b) PROVE TypeInv'
    BY <1>8, RefundTypeInv
  <1>9. CASE Tick
    BY <1>9, TickTypeInv
  <1>10. CASE UNCHANGED vars
    BY <1>10 DEF vars, resolution, book, accounts, TypeInv, TypeOK, PoolsAdd, Created,
       Lifecycle, VotesCounted, NumSources
  <1> QED  BY <1>1, <1>2, <1>3, <1>4, <1>5, <1>6, <1>7, <1>8, <1>9, <1>10 DEF Next

(* The strengthened invariant holds in every reachable state.              *)
THEOREM TypeInvariance == Spec => []TypeInv
  BY InitTypeInv, NextTypeInv, PTL DEF Spec

(* The accounts hold values of the types of their fields: no overflow of a *)
(* pool, no leaf beyond the capacity, no proof of an unknown source.       *)
THEOREM TypeCorrect == Spec => []TypeOK
  <1>1. TypeInv => TypeOK
    BY DEF TypeInv
  <1> QED  BY <1>1, TypeInvariance, PTL

(* source_count is the number of proof accounts: no sequence of            *)
(* instructions counts a source twice.                                     *)
THEOREM CountCorrect == Spec => []VotesCounted
  <1>1. TypeInv => VotesCounted
    BY DEF TypeInv
  <1> QED  BY <1>1, TypeInvariance, PTL

-----------------------------------------------------------------------------
(* Resolution.                                                             *)

(* What a list of proof accounts of this market counts.                    *)
LEMMA OwnVotes ==
    ASSUME TypeOK, NEW S \in SUBSET DOMAIN proofs, NEW o
    PROVE  Votes(OwnList(S), o) = Cardinality({i \in S : proofs[i].outcome = o})
  <1>1. {n \in DOMAIN OwnList(S) : OwnList(S)[n].verified /\ OwnList(S)[n].outcome = o}
            = {i \in S : proofs[i].outcome = o}
    BY DEF OwnList
  <1> QED  BY <1>1 DEF Votes

(* Listing fewer proof accounts can only lose votes.                       *)
LEMMA VotesMonotone ==
    ASSUME TypeOK, NEW S \in SUBSET DOMAIN proofs, NEW o
    PROVE  /\ Votes(OwnList(S), o) \in Nat /\ Votes(OwnList(DOMAIN proofs), o) \in Nat
           /\ Votes(OwnList(S), o) <= Votes(OwnList(DOMAIN proofs), o)
  <1> DEFINE few == {i \in S : proofs[i].outcome = o}
             all == {i \in DOMAIN proofs : proofs[i].outcome = o}
  <1>1. all \subseteq SourceIndices /\ few \subseteq all
    BY DEF TypeOK
  <1>2. IsFiniteSet(all) /\ Cardinality(all) \in Nat
    BY <1>1, IndexSets
  <1>3. IsFiniteSet(few) /\ Cardinality(few) \in Nat
    <2>1. few \subseteq SourceIndices
      BY <1>1
    <2> QED  BY <2>1, IndexSets
  <1>4. Cardinality(few) <= Cardinality(all)
    BY <1>1, <1>2, FS_Subset
  <1>5. DOMAIN proofs \in SUBSET DOMAIN proofs
    OBVIOUS
  <1>6. Votes(OwnList(S), o) = Cardinality(few)
    BY OwnVotes
  <1>7. Votes(OwnList(DOMAIN proofs), o) = Cardinality(all)
    BY <1>5, OwnVotes
  <1> QED  BY <1>2, <1>3, <1>4, <1>6, <1>7

(* The threshold is at least half of the proofs that were counted.         *)
LEMMA ThresholdIsHalf ==
    ASSUME NEW count \in Nat
    PROVE  MajorityThreshold(count) \in Nat /\ 2 * MajorityThreshold(count) >= count
  BY DEF MajorityThreshold

ResolutionInv == TypeInv /\ OutcomeIffResolved /\ EarlyOutcomeHasQuorum

(* Before init_market nothing is resolved.                                 *)
LEMMA InitResolutionInv == Init => ResolutionInv
  BY InitTypeInv DEF Init, ResolutionInv, OutcomeIffResolved, EarlyOutcomeHasQuorum

(* Steps that touch neither the outcome nor the count keep the quorum,     *)
(* because the deadline is not taken back.                                 *)
LEMMA QuorumKept ==
    ASSUME TypeInv, EarlyOutcomeHasQuorum,
           UNCHANGED <<config, state, source_count>>, now' \in Nat, now' >= now
    PROVE  EarlyOutcomeHasQuorum'
  <1>1. CASE state = "Resolved"
    <2>1. config.resolution_deadline \in Nat /\ now \in Nat
      BY <1>1, ParamsTyped DEF TypeInv, Created, TypeOK
    <2>2. DeadlinePassed => DeadlinePassed'
      BY <2>1 DEF DeadlinePassed
    <2> QED  BY <2>2 DEF EarlyOutcomeHasQuorum
  <1>2. CASE state # "Resolved"
    BY <1>2 DEF EarlyOutcomeHasQuorum
  <1> QED  BY <1>1, <1>2

(* Every instruction keeps the resolution invariant.                       *)
LEMMA NextResolutionInv == ResolutionInv /\ [Next]_vars => ResolutionInv'
  <1> SUFFICES ASSUME ResolutionInv, [Next]_vars PROVE ResolutionInv'
    OBVIOUS
  <1> USE DEF ResolutionInv
  <1>1. TypeInv'
    BY NextTypeInv
  <1>2. OutcomeIffResolved'
    <2> USE DEF OutcomeIffResolved
    <2>1. ASSUME NEW c \in Creators, NEW p \in MarketParams, InitMarket(c, p)
          PROVE  OutcomeIffResolved'
      BY <2>1 DEF InitMarket
    <2>2. ASSUME NEW listed \in Lists, AggregateResolution(listed)
          PROVE  OutcomeIffResolved'
      BY <2>2 DEF AggregateResolution
    <2>3. ASSUME NEW caller \in Creators, NEW o \in 0 .. 2, FallbackResolve(caller, o)
          PROVE  OutcomeIffResolved'
      BY <2>3 DEF FallbackResolve
    <2>4. CASE CloseMarket
      BY <2>4 DEF CloseMarket
    <2>5. ASSUME NEW i \in SourceIndices, NEW pd \in ProofData, SubmitProof(i, pd)
          PROVE  OutcomeIffResolved'
      BY <2>5 DEF SubmitProof
    <2>6. ASSUME UNCHANGED resolution PROVE OutcomeIffResolved'
      BY <2>6 DEF resolution
    <2> QED  BY <2>1, <2>2, <2>3, <2>4, <2>5, <2>6
             DEF Next, vars, PlaceBet, ClaimWinning, RefundMarket, Tick
  <1>3. now \in Nat /\ now' \in Nat
    BY <1>1 DEF TypeInv, TypeOK
  <1>4. EarlyOutcomeHasQuorum'
    <2>1. ASSUME NEW c \in Creators, NEW p \in MarketParams, InitMarket(c, p)
          PROVE  EarlyOutcomeHasQuorum'
      BY <2>1 DEF InitMarket, EarlyOutcomeHasQuorum
    <2>2. ASSUME NEW b \in Bettors, NEW side \in 0 .. 2, NEW amount \in Stakes,
                 NEW hash \in Commitments(b, side, amount), PlaceBet(b, side, amount, hash)
          PROVE  EarlyOutcomeHasQuorum'
      BY <2>2, <1>3, QuorumKept DEF PlaceBet, resolution
    <2>3. CASE CloseMarket
      BY <2>3 DEF CloseMarket, EarlyOutcomeHasQuorum
    <2>4. ASSUME NEW i \in SourceIndices, NEW pd \in ProofData, SubmitProof(i, pd)
          PROVE  EarlyOutcomeHasQuorum'
      BY <2>4 DEF SubmitProof, EarlyOutcomeHasQuorum
    <2>5. ASSUME NEW listed \in Lists, AggregateResolution(listed)
          PROVE  EarlyOutcomeHasQuorum'
      BY <2>5 DEF AggregateResolution, CanAggregate, EarlyOutcomeHasQuorum
    <2>6. ASSUME NEW caller \in Creators, NEW o \in 0 .. 2, FallbackResolve(caller, o)
          PROVE  EarlyOutcomeHasQuorum'
      BY <2>6 DEF FallbackResolve, EarlyOutcomeHasQuorum, DeadlinePassed
    <2>7. ASSUME NEW b \in Bettors, NEW k \in DOMAIN leaves, ClaimWinning(b, k)
          PROVE  EarlyOutcomeHasQuorum'
      BY <2>7, <1>3, QuorumKept DEF ClaimWinning, resolution
    <2>8. ASSUME NEW b \in Bettors, RefundMarket(b) PROVE EarlyOutcomeHasQuorum'
      BY <2>8, <1>3, QuorumKept DEF RefundMarket, resolution
    <2>9. CASE Tick
      BY <2>9, <1>3, QuorumKept DEF Tick, resolution
    <2>10. CASE UNCHANGED vars
      BY <2>10, <1>3, QuorumKept DEF vars, resolution
    <2> QED  BY <2>1, <2>2, <2>3, <2>4, <2>5, <2>6, <2>7, <2>8, <2>9, <2>10 DEF Next
  <1> QED  BY <1>1, <1>2, <1>4

(* The resolution invariant holds in every reachable state.                *)
THEOREM ResolutionInvariance == Spec => []ResolutionInv
  BY InitResolutionInv, NextResolutionInv, PTL DEF Spec

(* An outcome that comes before the deadline comes after the quorum, for   *)
(* any sources, callers, listed accounts and timing.                       *)
THEOREM QuorumCorrect == Spec => []EarlyOutcomeHasQuorum
  <1>1. ResolutionInv => EarlyOutcomeHasQuorum
    BY DEF ResolutionInv
  <1> QED  BY <1>1, ResolutionInvariance, PTL

(* Whichever recorded proofs a caller lists, the outcome has at least half *)
(* of all recorded proofs behind it.                                       *)
THEOREM EarlyOutcomeCorrect == Spec => EarlyOutcomeBacked
  <1> DEFINE Backed ==
                 \A S \in SUBSET DOMAIN proofs :
                     AggregateResolution(OwnList(S)) =>
                         2 * Votes(OwnList(DOMAIN proofs), outcome') >= source_count
  <1>1. TypeInv /\ [Next]_vars => [Backed]_vars
    <2> SUFFICES ASSUME TypeInv, NEW S \in SUBSET DOMAIN proofs,
                        AggregateResolution(OwnList(S))
                 PROVE  2 * Votes(OwnList(DOMAIN proofs), outcome') >= source_count
      OBVIOUS
    <2>1. HasMajority(OwnList(S), outcome')
      BY DEF AggregateResolution
    <2>2. /\ Votes(OwnList(S), outcome') >= MajorityThreshold(source_count)
          /\ source_count \in Nat /\ TypeOK
      BY <2>1 DEF HasMajority, TypeInv, TypeOK
    <2>3. /\ Votes(OwnList(S), outcome') \in Nat
          /\ Votes(OwnList(DOMAIN proofs), outcome') \in Nat
          /\ Votes(OwnList(S), outcome') <= Votes(OwnList(DOMAIN proofs), outcome')
      BY <2>2, VotesMonotone
    <2> QED  BY <2>2, <2>3, ThresholdIsHalf
  <1> QED  BY <1>1, TypeInvariance, PTL DEF Spec, EarlyOutcomeBacked

(* There is an outcome exactly when the market is resolved.                *)
THEOREM OutcomeCorrect == Spec => []OutcomeIffResolved
  <1>1. ResolutionInv => OutcomeIffResolved
    BY DEF ResolutionInv
  <1> QED  BY <1>1, ResolutionInvariance, PTL

(* No instruction changes a resolved market's state or outcome.            *)
THEOREM ResolutionFinal == Spec => OutcomeFinal
  <1>1. [Next]_vars => [state = "Resolved" => state' = "Resolved" /\ outcome' = outcome]_vars
    BY DEF Next, vars, resolution, book, accounts, InitMarket, PlaceBet, CloseMarket,
           SubmitProof, AggregateResolution, FallbackResolve, ClaimWinning, RefundMarket,
           Tick, CanAggregate, BettingOpen
  <1> QED  BY <1>1, PTL DEF Spec, OutcomeFinal

(* No instruction changes the pools or the tree once betting is over.      *)
THEOREM BookIsFrozen == Spec => BookFrozen
  <1>1. [Next]_vars => [state \notin {"None", "Open"} => book' = book]_vars
    BY DEF Next, vars, resolution, book, accounts, InitMarket, PlaceBet, CloseMarket,
           SubmitProof, AggregateResolution, FallbackResolve, ClaimWinning, RefundMarket,
           Tick, CanAggregate, BettingOpen
  <1> QED  BY <1>1, PTL DEF Spec, BookFrozen

-----------------------------------------------------------------------------
(* What the recorded proofs say.                                           *)

(* A proof that answers the market's question at one of its sources.       *)
Answers(pd) ==
    /\ ProofVerified(pd) /\ SameQuestion(pd) /\ pd.outcome \in {NO, YES}
    /\ \E n \in DOMAIN config.source_configs : SourceMatches(pd, config.source_configs[n])

ProofsAnswer == \A i \in DOMAIN proofs : proofs[i] \in ProofData /\ Answers(proofs[i])

SourcesInv == TypeInv /\ ProofsAnswer

(* submit_proof records nothing else.                                      *)
LEMMA SubmitAnswers ==
    ASSUME SourcesInv, NEW i \in SourceIndices, NEW pd \in ProofData, SubmitProof(i, pd)
    PROVE  ProofsAnswer'
  <1>1. config' = config /\ proofs' = Put(proofs, i, pd)
    BY DEF SubmitProof
  <1>2. config.source_configs \in Seq([domain : STRING, path : STRING, json_path : STRING])
    BY ParamsAssumption DEF SubmitProof, SourcesInv, TypeInv, Created, ParamsType
  <1>3. i + 1 \in DOMAIN config.source_configs
    BY <1>2 DEF SubmitProof, NumSources
  <1>4. Answers(pd)
    BY <1>3 DEF SubmitProof, Answers
  <1>5. ASSUME NEW x \in DOMAIN proofs' PROVE proofs'[x] \in ProofData /\ Answers(proofs'[x])
    BY <1>1, <1>4, <1>5 DEF Put, SourcesInv, ProofsAnswer
  <1> QED  BY <1>1, <1>5 DEF ProofsAnswer, Answers, SameQuestion

(* The other instructions record none, and once there are proofs the       *)
(* arguments of the market do not change.                                  *)
LEMMA NextSourcesInv == SourcesInv /\ [Next]_vars => SourcesInv'
  <1> SUFFICES ASSUME SourcesInv, [Next]_vars PROVE SourcesInv'
    OBVIOUS
  <1>1. TypeInv'
    BY NextTypeInv DEF SourcesInv
  <1>2. ASSUME UNCHANGED <<config, proofs>> PROVE ProofsAnswer'
    BY <1>2 DEF SourcesInv, ProofsAnswer, Answers, SameQuestion
  <1>3. ASSUME NEW c \in Creators, NEW p \in MarketParams, InitMarket(c, p) PROVE ProofsAnswer'
    BY <1>3 DEF InitMarket, ProofsAnswer
  <1>4. ASSUME NEW i \in SourceIndices, NEW pd \in ProofData, SubmitProof(i, pd)
        PROVE  ProofsAnswer'
    BY <1>4, SubmitAnswers
  <1>5. ProofsAnswer'
    BY <1>2, <1>3, <1>4 DEF Next, vars, resolution, PlaceBet, CloseMarket,
       AggregateResolution, FallbackResolve, ClaimWinning, RefundMarket, Tick
  <1> QED  BY <1>1, <1>5 DEF SourcesInv

(* A quorum is at least one proof, so a majority has a voter.              *)
LEMMA MajorityHasVoter ==
    ASSUME TypeInv, NEW S \in SUBSET DOMAIN proofs, NEW o,
           CanAggregate, HasMajority(OwnList(S), o)
    PROVE  \E i \in S : proofs[i].outcome = o
  <1>1. source_count \in Nat /\ source_count >= 1
    BY ParamsTyped DEF CanAggregate, TypeInv, TypeOK, Created
  <1>2. Votes(OwnList(S), o) >= 1
    BY <1>1, VotesMonotone DEF HasMajority, MajorityThreshold, TypeInv
  <1>3. {i \in S : proofs[i].outcome = o} # {}
    BY <1>2, OwnVotes, FS_EmptySet DEF TypeInv
  <1> QED  BY <1>3

(* When all proofs of the question at the market's sources read the same,  *)
(* no order of submissions, no choice of recorded proofs and no caller     *)
(* make an aggregation of recorded proofs resolve the market otherwise.    *)
THEOREM OutcomeFromSources == Spec => OutcomeReadFromSources
  <1> DEFINE Agree(o) == \A pd \in Readings : pd.outcome = o
             Read == \A S \in SUBSET DOMAIN proofs :
                         AggregateResolution(OwnList(S)) =>
                             \A o \in {NO, YES} : Agree(o) => outcome' = o
  <1>1. Init => SourcesInv
    <2>1. ASSUME Init PROVE DOMAIN proofs = {}
      BY <2>1 DEF Init
    <2> QED  BY <2>1, InitTypeInv DEF SourcesInv, ProofsAnswer
  <1>2. SourcesInv /\ [Next]_vars => [Read]_vars
    <2> SUFFICES ASSUME SourcesInv, NEW S \in SUBSET DOMAIN proofs,
                        AggregateResolution(OwnList(S)), NEW o \in {NO, YES}, Agree(o)
                 PROVE  outcome' = o
      OBVIOUS
    <2>1. HasMajority(OwnList(S), outcome') /\ CanAggregate
      BY DEF AggregateResolution
    <2>2. PICK i \in S : proofs[i].outcome = outcome'
      BY <2>1, MajorityHasVoter DEF SourcesInv
    <2>3. proofs[i] \in ProofData /\ Answers(proofs[i])
      BY DEF SourcesInv, ProofsAnswer
    <2>4. proofs[i] \in Readings
      BY <2>3 DEF Answers, SourceMatches, Readings
    <2> QED  BY <2>2, <2>4
  <1> QED  BY <1>1, <1>2, NextSourcesInv, PTL DEF Spec, OutcomeReadFromSources

=============================================================================
