---------------------------- MODULE KrnAccounting ----------------------------
(***************************************************************************)
(* What the money of a KRN market must add up to: the pools the program    *)
(* keeps (MarketAccount), the bets they came from (BetCommitment), and the *)
(* lamports the pool PDA really holds while claims are paid from it.       *)
(***************************************************************************)
EXTENDS KrnMarket, Functions

(* What a commitment hash must be for the ownership proof to stand in for  *)
(* the commitment account: if anyone can open it, it is for the side and   *)
(* the amount of the bet it was paid with.  The program cannot check this  *)
(* (place_bet.rs:115-122); hashes nobody can open, one hash in two bets    *)
(* and keys shared by several wallets are all allowed.                     *)
WellFormed ==
    \A b \in DOMAIN bets :
        LET ticket == bets[b].commitment_hash
        IN  ticket.key \in KnownKeys =>
                ticket.outcome = bets[b].side /\ ticket.amount = bets[b].amount

Winners  == {b \in DOMAIN bets : bets[b].side = outcome}
Paid     == {nullifiers[n].bettor : n \in DOMAIN nullifiers}
Share(b) == Payout(bets[b].amount)

(* Winners whose leaf somebody can still open.                             *)
Unpaid ==
    {b \in Winners : LET ticket == bets[b].commitment_hash
                     IN  ticket.key \in KnownKeys /\ FreshNullifier(NullifierOf(ticket))}

BetsOn(side) == {b \in DOMAIN bets : bets[b].side = side}
Staked(B) == SumFunctionOnSet([b \in B |-> bets[b].amount], B)
SharesOf(B) == SumFunctionOnSet([b \in B |-> Share(b)], B)

(* What the claims took: each is paid by the signer's commitment account.  *)
PaidOut ==
    SumFunctionOnSet([n \in DOMAIN nullifiers |-> Share(nullifiers[n].signer)],
                     DOMAIN nullifiers)

(* The pools claims are divided by are the sums of the recorded bets.      *)
PoolsMatchBets ==
    /\ yes_pool = Staked(BetsOn(YES))
    /\ no_pool = Staked(BetsOn(NO))
    /\ total_pool = yes_pool + no_pool

(* The pool PDA holds every lamport bet less one payout per nullifier: no  *)
(* claim is paid without an account that keeps it from being repeated.     *)
(* With well-formed hashes that is exactly the share of each bettor paid   *)
(* for, although claims are paid by the amount of another account.         *)
PoolAccounted ==
    /\ pool = total_pool - PaidOut
    /\ WellFormed => PaidOut = SharesOf(Paid)

(* Payments are made only after the resolution, to signers whose own bet   *)
(* is on the outcome; and with well-formed hashes only the leaves of       *)
(* winners are opened, each for what its bettor staked.                    *)
OnlyWinnersPaid ==
    \A n \in DOMAIN nullifiers :
        LET claim == nullifiers[n]
        IN  /\ state = "Resolved" /\ claim.signer \in Winners
            /\ WellFormed => /\ claim.bettor \in Winners
                             /\ bets[claim.bettor].amount = bets[claim.signer].amount

(* In whatever order winners claim, what is left covers the next one:      *)
(* rounding never favours an early claimer at the cost of a later one.     *)
(* That is so when every hash somebody can open is well formed.            *)
NoWinnerShort ==
    state = "Resolved" /\ WellFormed => \A b \in Unpaid : Share(b) <= pool

(* A winner gets at least the stake and at most everything, and the cast   *)
(* of the u128 quotient to u64 loses nothing (claim_winning.rs:55-59).     *)
PayoutBounds ==
    state = "Resolved" => \A b \in Winners :
        /\ bets[b].amount <= Share(b) /\ Share(b) <= total_pool
        /\ Share(b) * WinningPool <= bets[b].amount * total_pool

(* When all winners are paid, less than one lamport per winner is left.    *)
OnlyDustRemains ==
    state = "Resolved" /\ WellFormed /\ Winners # {} /\ Winners \subseteq Paid =>
        pool < Cardinality(Winners)

(* With well-formed hashes, claims go on until each unpaid winner who can  *)
(* open the leaf is blocked by the rent rule on what the pool would be     *)
(* left with, and by nothing else.                                         *)
WinnersServed ==
    state = "Resolved" ~>
        (WellFormed => \A b \in Unpaid : bets[b].commitment_hash.key \in Knows[b] =>
                           ~RentOk(pool - Share(b)))

-----------------------------------------------------------------------------
(* A failed market, were there one: no stake is refunded twice, and what   *)
(* refunds and later claims took is what the pool lacks.  (A bettor who    *)
(* was refunded can still claim after a fallback from Failed: claim_winning*)
(* does not read claimed.)                                                 *)
Refunded == {b \in DOMAIN bets : bets[b].claimed}

RefundsAccounted == pool + Staked(Refunded) + PaidOut = total_pool

(* No instruction assigns MarketState::Failed, so refund_market and the    *)
(* fallback from Failed cannot happen in Spec.  To exercise them, this     *)
(* specification starts from a market some other program version or        *)
(* migration left in Failed, with any bets in place and nothing paid.      *)
Stake == [side : {NO, YES}, amount : Stakes \ {0}]

(* proper: the bettors whose commitment hash is their own ticket.          *)
FailedWith(placed, proper, malformed) ==
    LET of(side) == {b \in DOMAIN placed : placed[b].side = side}
        sum(B) == SumFunctionOnSet([b \in B |-> placed[b].amount], B)
        hash(b) == IF b \in proper THEN Ticket(b, placed[b].side, placed[b].amount)
                   ELSE malformed[b]
        order == CHOOSE q \in [1 .. Cardinality(DOMAIN placed) -> DOMAIN placed] :
                     \A x, y \in DOMAIN q : q[x] = q[y] => x = y
    IN  /\ bets = [b \in DOMAIN placed |-> [commitment_hash |-> hash(b),
                        side |-> placed[b].side, amount |-> placed[b].amount,
                        claimed |-> FALSE]]
        /\ leaves = [x \in DOMAIN order |-> [hash |-> hash(order[x]), bettor |-> order[x]]]
        /\ yes_pool = sum(of(YES)) /\ no_pool = sum(of(NO))
        /\ total_pool = sum(DOMAIN placed) /\ pool = sum(DOMAIN placed)

FailedInit ==
    /\ config \in MarketParams /\ authority \in Creators
    /\ state = "Failed" /\ outcome = UNRESOLVED
    /\ source_count = 0 /\ proofs = <<>> /\ nullifiers = <<>>
    /\ now = 0
    /\ \E B \in SUBSET Bettors : \E placed \in [B -> Stake], proper \in SUBSET B :
           \E malformed \in [B \ proper -> Malformed] : FailedWith(placed, proper, malformed)

FailedSpec == FailedInit /\ [][Next]_vars

-----------------------------------------------------------------------------
(* What the documentation says and the code does not do (the runs that     *)
(* expect a violation).                                                    *)

(* market.rs:24 "Finalized, winners can claim".                            *)
EveryWinnerPaid == state = "Resolved" ~> Unpaid = {}

(* market.rs:38 "Unix timestamp when betting closes".                      *)
NoBetAfterClose == [][leaves' # leaves => ~CloseReached]_vars

(* market.rs:8 "Hash of the valid API path for this market".               *)
PathsAsConfigured ==
    \A i \in DOMAIN proofs : proofs[i].path = config.source_configs[i + 1].path

=============================================================================
