------------------------------ MODULE KrnMarket ------------------------------
(***************************************************************************)
(* One prediction market of the KRN on-chain program (programs/krn): the   *)
(* MarketAccount and the accounts derived from it.  Every instruction is   *)
(* one action: the runtime executes a transaction atomically, and an       *)
(* instruction that returns an error (or whose CPI fails, or that panics)  *)
(* changes nothing, so only successful executions are steps.  Markets      *)
(* share no account, hence one market is enough.                           *)
(***************************************************************************)
EXTENDS Integers, FiniteSets, Sequences

CONSTANTS
    Bettors,        \* wallets that may place a bet (one commitment PDA each)
    Keys,           \* the (owner_pubkey, secret_nonce) pairs behind tickets
    Knows,          \* Knows[b]: the keys the holder of wallet b knows
    Malformed,      \* tickets place_bet may be given in place of the bettor's own
    Creators,       \* wallets that may create the market
    Stakes,         \* the amounts place_bet is called with
    MarketParams,   \* the arguments init_market is called with
    ProofData,      \* the SP1 proofs submit_proof is called with
    AccountData,    \* what the data of an account listed for aggregation may read
    NoConfig        \* the account is not initialised yet

CONSTANTS
    MaxListed,      \* most accounts listed for aggregation (model bound)
    TreeCapacity,   \* 1 << TREE_DEPTH leaves
    RentMin,        \* rent-exempt minimum of an account without data
    U64Max,         \* largest u64
    MaxTime         \* bound of the clock (model bound)

NO         == 0
YES        == 1
ZeroedOutcome == 0   \* mutant: the field keeps the value the runtime zeroes it to
UNRESOLVED == 255
MaxSources == 10     \* length of MarketAccount.source_configs

(* The path of a source is stored in SourceConfig but no handler reads it. *)
ParamsType(p) ==
    /\ p.close_timestamp \in Nat
    /\ p.resolution_deadline \in Nat
    /\ p.resolution_deadline <= MaxTime
    /\ p.required_sources \in Nat
    /\ p.source_configs \in Seq([domain : STRING, path : STRING, json_path : STRING])

ASSUME TimeAssumption     == MaxTime \in Nat
ASSUME StakesAssumption   == Stakes \subseteq Nat
ASSUME LimitsAssumption   == TreeCapacity \in Nat /\ RentMin \in Nat /\ U64Max \in Nat
ASSUME ParamsAssumption   == \A p \in MarketParams : ParamsType(p)
(* A commitment hash stands for the secrets it was made from; a hash made  *)
(* from nothing is a ticket whose key nobody knows.                        *)
Tickets == [outcome : {NO, YES}, amount : Nat, key : Keys]

ASSUME TicketsAssumption ==
    /\ Bettors \subseteq Keys
    /\ Knows \in [Bettors -> SUBSET Keys]
    /\ Malformed \subseteq Tickets

(* A caller may list at least the proofs of all sources.                   *)
ASSUME ListsAssumption ==
    /\ AccountData \subseteq [verified : BOOLEAN, outcome : Nat]
    /\ [verified : {TRUE}, outcome : {NO, YES}] \subseteq AccountData
    /\ MaxListed \in Nat
    /\ \A p \in MarketParams : Len(p.source_configs) <= MaxListed

ASSUME NoConfigAssumption == NoConfig \notin MarketParams /\ NoConfig \notin Creators
ASSUME ReadingAssumption  == \A pd \in ProofData : pd.outcome \in Nat

VARIABLES
    config,       \* the arguments the market was created with
    authority,    \* MarketAccount.authority, the creator's wallet
    state,        \* MarketAccount.state; "None" until init_market
    outcome,      \* MarketAccount.outcome
    source_count, \* MarketAccount.source_count
    total_pool, yes_pool, no_pool,
    leaves,       \* the commitment tree: the hashes in order of insertion,
                  \* each with the bettor who paid for it (history)
    bets,         \* the BetCommitment accounts, by bettor
    proofs,       \* the ProofSubmission accounts, by source index
    nullifiers,   \* the NullifierAccounts, by nullifier, each with the signer
                  \* of its claim and the bettor of the leaf opened (history)
    pool,         \* lamports of the pool PDA
    now           \* Clock::unix_timestamp

resolution == <<state, outcome, source_count, proofs>>
book       == <<total_pool, yes_pool, no_pool, leaves>>
accounts   == <<bets, nullifiers, pool>>
vars       == <<config, authority, resolution, book, accounts, now>>

-----------------------------------------------------------------------------
(* The rules of the runtime and of the client library (external).          *)

(* Put(f, k, v): the accounts f after the account k was created or written *)
Put(f, k, v) == [x \in DOMAIN f \cup {k} |-> IF x = k THEN v ELSE f[x]]

(* No transaction may leave an account with less than the rent-exempt      *)
(* minimum, unless it leaves it with nothing.                              *)
RentOk(lamports) == lamports = 0 \/ lamports >= RentMin

TransferAllowed(balance, lamports) ==
    lamports <= balance /\ RentOk(balance - lamports)

(* The commitment hash as the client computes it from the arguments it     *)
(* passes: one bettor has one commitment, so the wallet names the key.     *)
Ticket(b, side, amount) == [outcome |-> side, amount |-> amount, key |-> b]

NullifierOf(ticket) == ticket.key

KnownKeys == UNION {Knows[b] : b \in Bettors}

-----------------------------------------------------------------------------
(* Mutants: each changes one rule below the way a slip in the code would;  *)
(* PROJECT.json pairs it with the property that then fails.                *)

BettingOpenUntilProofs == state \in {"Open", "Closed"}
InsertLeafInPlace(tree, leaf) ==
    IF tree = <<>> THEN <<leaf>> ELSE [tree EXCEPT ![Len(tree)] = leaf]
YesPartOfBoth(side, amount)  == amount
TreeHasRoomForOneMore(count) == count <= TreeCapacity
CloseOnTheDot                == now = config.close_timestamp
SlotReused(i)                == TRUE
AnySource(pd, source)        == TRUE
FloorOfHalf(count)           == count \div 2
QuorumUnchecked              == state = "Resolving"
AggregateAgain ==
    state \in {"Resolving", "Resolved"} /\ source_count >= config.required_sources
NullifierUnchecked(n)        == TRUE
OnlyYesWins(side)            == side = YES
OutcomeUnchecked(ticket, amount) == ticket.amount = amount
AmountUnchecked(ticket, amount)  == ticket.outcome = outcome
PayoutInverted(amount) ==
    LET w == IF outcome = YES THEN yes_pool ELSE no_pool
    IN  (amount * w) \div total_pool
PayoutOfOwnPool(amount)      == (amount * total_pool) \div total_pool
PayoutRoundedUp(amount) ==
    LET w == IF outcome = YES THEN yes_pool ELSE no_pool
    IN  (amount * total_pool + w - 1) \div w
ClaimedIgnored(b)            == TRUE

-----------------------------------------------------------------------------
(* init_market                                                             *)

NumSources == Len(config.source_configs)

ParamsAccepted(p) ==
    /\ Len(p.source_configs) >= p.required_sources
    /\ p.required_sources >= 1
    /\ Len(p.source_configs) <= MaxSources
    /\ p.close_timestamp < p.resolution_deadline
    /\ p.close_timestamp > now

InitMarket(creator, p) ==
    /\ state = "None"
    /\ ParamsAccepted(p)
    /\ config' = p
    /\ authority' = creator
    /\ state' = "Open"
    /\ outcome' = UNRESOLVED
    /\ source_count' = 0
    /\ proofs' = <<>>
    /\ total_pool' = 0 /\ yes_pool' = 0 /\ no_pool' = 0
    /\ leaves' = <<>>
    /\ UNCHANGED <<accounts, now>>

-----------------------------------------------------------------------------
(* place_bet                                                               *)

BettingOpen == state = "Open"

TreeHasRoom(count) == count < TreeCapacity

(* The root of the incremental tree determines the hashes inserted so      *)
(* far, and commitment_count is their number: the sequence stands for      *)
(* commitment_tree, commitment_root and commitment_count (IncrementalTree).*)
InsertLeaf(tree, leaf) == Append(tree, leaf)

YesPart(side, amount) == IF side = YES THEN amount ELSE 0
NoPart(side, amount)  == IF side = YES THEN 0 ELSE amount

CommitmentSlotFree(b) == b \notin DOMAIN bets

(* commitment_hash is an argument the program cannot check: it may commit  *)
(* to another side, another amount, another key or to nothing at all.      *)
Commitments(b, side, amount) == {Ticket(b, side, amount)} \cup Malformed

PlaceBet(b, side, amount, commitment_hash) ==
    /\ side \in {NO, YES}
    /\ amount > 0
    /\ BettingOpen
    /\ TreeHasRoom(Len(leaves))
    /\ RentOk(pool + amount)
    /\ total_pool + amount <= U64Max      \* checked_add
    /\ CommitmentSlotFree(b)
    /\ pool' = pool + amount
    /\ total_pool' = total_pool + amount
    /\ yes_pool' = yes_pool + YesPart(side, amount)
    /\ no_pool' = no_pool + NoPart(side, amount)
    /\ bets' = Put(bets, b, [commitment_hash |-> commitment_hash, side |-> side,
                             amount |-> amount, claimed |-> FALSE])
    /\ leaves' = InsertLeaf(leaves, [hash |-> commitment_hash, bettor |-> b])
    /\ UNCHANGED <<config, authority, resolution, nullifiers, now>>

-----------------------------------------------------------------------------
(* close_market                                                            *)

CloseReached == now >= config.close_timestamp

CloseMarket ==
    /\ state = "Open"
    /\ CloseReached
    /\ state' = "Closed"
    /\ UNCHANGED <<config, authority, outcome, source_count, proofs, book, accounts, now>>

-----------------------------------------------------------------------------
(* submit_proof                                                            *)

DeadlinePassed == now >= config.resolution_deadline

ProofSlotFree(i) == i \notin DOMAIN proofs

(* verify_sp1_zktls_proof: a proof of the guest program for these values.  *)
ProofVerified(pd) == pd.verified

(* The guest publishes the threshold and comparison it was run with.       *)
SameQuestion(pd) == pd.question = config.question

(* source.path is not compared: path_hash is stored and never read.        *)
SourceMatches(pd, source) ==
    pd.domain = source.domain /\ pd.json_path = source.json_path

(* i is the 0-based source_index of the instruction.                       *)
SubmitProof(i, pd) ==
    /\ state \in {"Closed", "Resolving"}
    /\ now < config.resolution_deadline
    /\ i < NumSources
    /\ ProofVerified(pd)
    /\ SameQuestion(pd)
    /\ SourceMatches(pd, config.source_configs[i + 1])
    /\ pd.outcome \in {NO, YES}
    /\ ProofSlotFree(i)
    /\ proofs' = Put(proofs, i, pd)
    /\ source_count' = source_count + 1
    /\ state' = "Resolving"
    /\ UNCHANGED <<config, authority, outcome, book, accounts, now>>

-----------------------------------------------------------------------------
(* aggregate_resolution                                                    *)

CanAggregate == state = "Resolving" /\ source_count >= config.required_sources

MajorityThreshold(count) == (count + 1) \div 2

(* The remaining accounts of a call, by position; a position without an    *)
(* entry is an account too short to be read, which is skipped.  Nothing    *)
(* else is asked of them: neither owner, discriminator, market or address, *)
(* nor that they differ.                                                   *)
Lists == UNION {[P -> AccountData] : P \in SUBSET (0 .. MaxListed - 1)}

Votes(listed, o) ==
    Cardinality({n \in DOMAIN listed : listed[n].verified /\ listed[n].outcome = o})

HasMajority(listed, o) == Votes(listed, o) >= MajorityThreshold(source_count)

(* A call that lists proof accounts of this market, each once: submit_proof *)
(* wrote verified = true and the outcome it was given.                     *)
OwnList(S) == [i \in S |-> [verified |-> TRUE, outcome |-> proofs[i].outcome]]

AggregateResolution(listed) ==
    /\ CanAggregate
    /\ \/ HasMajority(listed, YES) /\ outcome' = YES
       \/ ~HasMajority(listed, YES) /\ HasMajority(listed, NO) /\ outcome' = NO
    /\ state' = "Resolved"
    /\ UNCHANGED <<config, authority, source_count, proofs, book, accounts, now>>

-----------------------------------------------------------------------------
(* fallback_resolve                                                        *)

FallbackResolve(caller, o) ==
    /\ state \in {"Closed", "Resolving", "Failed"}
    /\ caller = authority
    /\ DeadlinePassed
    /\ o \in {NO, YES}
    /\ outcome' = o
    /\ state' = "Resolved"
    /\ UNCHANGED <<config, authority, source_count, proofs, book, accounts, now>>

-----------------------------------------------------------------------------
(* claim_winning                                                           *)

WinningPool == IF outcome = YES THEN yes_pool ELSE no_pool

Winning(side) == side = outcome

AsU64(x) == x % (U64Max + 1)

Payout(amount) == AsU64((amount * total_pool) \div WinningPool)

FreshNullifier(n) == n \notin DOMAIN nullifiers

(* What an accepted ownership proof establishes: the prover knows the      *)
(* secrets of a ticket in the tree (ownership.circom, IncrementalTree).    *)
OwnershipProven(b, ticket) == ticket.key \in Knows[b]

(* The ticket was made for the outcome and the amount the proof publishes, *)
(* which must be those of the market and of the commitment account.        *)
PublicInputsMatch(ticket, amount) == ticket.outcome = outcome /\ ticket.amount = amount

(* The claimer signs with wallet b, whose commitment account fixes side    *)
(* and amount, and proves ownership of the ticket behind the k-th leaf.    *)
ClaimWinning(b, k) ==
    /\ state = "Resolved"
    /\ b \in DOMAIN bets
    /\ k \in DOMAIN leaves
    /\ PublicInputsMatch(leaves[k].hash, bets[b].amount)
    /\ OwnershipProven(b, leaves[k].hash)
    /\ FreshNullifier(NullifierOf(leaves[k].hash))
    /\ Winning(bets[b].side)
    /\ WinningPool # 0                      \* checked_div
    /\ TransferAllowed(pool, Payout(bets[b].amount))
    /\ pool' = pool - Payout(bets[b].amount)
    /\ nullifiers' = Put(nullifiers, NullifierOf(leaves[k].hash),
                         [signer |-> b, bettor |-> leaves[k].bettor])
    /\ UNCHANGED <<config, authority, resolution, book, bets, now>>

-----------------------------------------------------------------------------
(* refund_market                                                           *)

NotRefunded(b) == ~bets[b].claimed

RefundMarket(b) ==
    /\ state = "Failed"
    /\ b \in DOMAIN bets
    /\ NotRefunded(b)
    /\ TransferAllowed(pool, bets[b].amount)
    /\ pool' = pool - bets[b].amount
    /\ bets' = [bets EXCEPT ![b].claimed = TRUE]
    /\ UNCHANGED <<config, authority, resolution, book, nullifiers, now>>

-----------------------------------------------------------------------------
(* The cluster's clock advances by any amount.                             *)
Tick ==
    /\ \E t \in (now + 1) .. MaxTime : now' = t
    /\ UNCHANGED <<config, authority, resolution, book, accounts>>

Init ==
    /\ config = NoConfig /\ authority = NoConfig
    /\ state = "None" /\ outcome = UNRESOLVED
    /\ source_count = 0 /\ proofs = <<>>
    /\ total_pool = 0 /\ yes_pool = 0 /\ no_pool = 0
    /\ leaves = <<>>
    /\ bets = <<>> /\ nullifiers = <<>> /\ pool = 0
    /\ now = 0

SourceIndices == 0 .. MaxSources - 1

Next ==
    \/ \E c \in Creators, p \in MarketParams : InitMarket(c, p)
    \/ \E b \in Bettors, side \in 0 .. 2, amount \in Stakes :
           \E commitment_hash \in Commitments(b, side, amount) :
               PlaceBet(b, side, amount, commitment_hash)
    \/ CloseMarket
    \/ \E i \in SourceIndices, pd \in ProofData : SubmitProof(i, pd)
    \/ \E listed \in Lists : AggregateResolution(listed)
    \/ \E caller \in Creators, o \in 0 .. 2 : FallbackResolve(caller, o)
    \/ \E b \in Bettors, k \in DOMAIN leaves : ClaimWinning(b, k)
    \/ \E b \in Bettors : RefundMarket(b)
    \/ Tick

Spec == Init /\ [][Next]_vars

(***************************************************************************)
(* Fairness.  Time passes; closing needs no permission, and bettors want   *)
(* it; the authority answers once the deadline is over; each bettor keeps  *)
(* claiming while a claim of theirs can succeed.  Nothing is assumed of    *)
(* whoever submits proofs or aggregates them.                              *)
(***************************************************************************)
Fairness ==
    /\ WF_vars(Tick)
    /\ WF_vars(CloseMarket)
    /\ WF_vars(\E caller \in Creators, o \in {NO, YES} : FallbackResolve(caller, o))
    /\ \A b \in Bettors : WF_vars(\E k \in DOMAIN leaves : ClaimWinning(b, k))

FairSpec == Spec /\ Fairness

-----------------------------------------------------------------------------
(* Properties                                                              *)

States  == {"None", "Open", "Closed", "Resolving", "Resolved", "Failed"}
Bet     == [commitment_hash : Tickets, side : {NO, YES}, amount : Nat, claimed : BOOLEAN]
Leaf    == [hash : Tickets, bettor : Bettors]
Claim   == [signer : Bettors, bettor : Bettors]

(* The accounts hold values of their fields' types: pools fit u64, the     *)
(* tree holds at most TreeCapacity leaves, one proof per configured source.*)
TypeOK ==
    /\ config \in MarketParams \cup {NoConfig}
    /\ authority \in Creators \cup {NoConfig}
    /\ state \in States
    /\ outcome \in {NO, YES, UNRESOLVED}
    /\ source_count \in 0 .. MaxSources
    /\ total_pool \in 0 .. U64Max /\ yes_pool \in 0 .. U64Max /\ no_pool \in 0 .. U64Max
    /\ leaves \in Seq(Leaf) /\ Len(leaves) <= TreeCapacity
    /\ bets \in [DOMAIN bets -> Bet] /\ DOMAIN bets \subseteq Bettors
    /\ proofs \in [DOMAIN proofs -> ProofData] /\ DOMAIN proofs \subseteq SourceIndices
    /\ nullifiers \in [DOMAIN nullifiers -> Claim] /\ DOMAIN nullifiers \subseteq Keys
    /\ pool \in Nat
    /\ now \in 0 .. MaxTime

(* The market has an outcome exactly when it is resolved (market.rs:44),   *)
(* and no path of the code fails, un-resolves or resolves it half.         *)
OutcomeIffResolved == outcome \in {NO, YES} <=> state = "Resolved"

(* source_count, which aggregate_resolution compares with the quorum,      *)
(* never counts a source twice (the proof PDA of an index is created once).*)
VotesCounted == source_count = Cardinality(DOMAIN proofs)

(* However proofs, aggregations and the deadline race and whatever accounts *)
(* are listed, an outcome set before the deadline comes after a quorum of  *)
(* proofs was accepted (aggregate_resolution.rs:13-16).                    *)
EarlyOutcomeHasQuorum ==
    state = "Resolved" /\ ~DeadlinePassed => source_count >= config.required_sources

(* Whichever of the market's proof accounts a caller lists, and however    *)
(* few, the outcome is one that no majority of all accepted proofs opposes:*)
(* the threshold counts the proofs that exist (aggregate_resolution.rs:39).*)
(* A caller who lists other accounts, or one twice, is not bound by this.  *)
EarlyOutcomeBacked ==
    [][\A S \in SUBSET DOMAIN proofs :
           AggregateResolution(OwnList(S)) =>
               2 * Votes(OwnList(DOMAIN proofs), outcome') >= source_count]_vars

(* Every commitment hash that was paid for has a leaf of its own, in the   *)
(* tree the final root is of: a later bet never takes the leaf of an       *)
(* earlier one, even when both carry one hash (place_bet.rs:131-139).      *)
BetsMatchLeaves ==
    /\ Len(leaves) = Cardinality(DOMAIN bets)
    /\ \A b \in DOMAIN bets : \E k \in DOMAIN leaves :
           leaves[k] = [hash |-> bets[b].commitment_hash, bettor |-> b]

(* A resolution is final: no later proof, aggregation or fallback changes  *)
(* the outcome claims are paid by.                                         *)
OutcomeFinal ==
    [][state = "Resolved" => state' = "Resolved" /\ outcome' = outcome]_vars

(* Once betting is over, the pools and the tree never change: the ratio    *)
(* every claim is paid at and the root every proof is made for are fixed.  *)
BookFrozen == [][state \notin {"None", "Open"} => book' = book]_vars

(* A proof the verifier accepts for the market's question, that reads NO   *)
(* or YES at the place a source of the market names.                       *)
Readings ==
    {pd \in ProofData :
        /\ ProofVerified(pd) /\ SameQuestion(pd) /\ pd.outcome \in {NO, YES}
        /\ \E n \in DOMAIN config.source_configs :
               /\ pd.domain = config.source_configs[n].domain
               /\ pd.json_path = config.source_configs[n].json_path}

(* When all sources of a market read the same, an aggregation of accounts  *)
(* that submit_proof created has that outcome: a proof of another page,    *)
(* question or key never gets as far as a vote.                            *)
OutcomeReadFromSources ==
    [][\A S \in SUBSET DOMAIN proofs :
           AggregateResolution(OwnList(S)) =>
               \A o \in {NO, YES} : (\A pd \in Readings : pd.outcome = o) => outcome' = o]_vars

(* Every market that was opened is resolved in the end, even if no proof   *)
(* is ever submitted.                                                      *)
EventuallyResolved == state = "Open" ~> state = "Resolved"

=============================================================================
