# KRN in TLA+

KausaLayer Resolver Network (KRN) is a Solana program for prediction markets
(`programs/krn`) with a service that resolves markets from zkTLS proofs
(`prover-service`), a zkVM guest that turns a TLS session into an outcome
(`zktls-prover`) and a circuit by which winners claim without showing their
betting wallet (`circuits/ownership`). This directory specifies the parts that
keep state, checks them with TLC on small instances and proves the most
important facts with TLAPS for all sizes.

Run `tlc -config <cfg> <MC module>` and `tlapm <Proofs module>`.

## Inventory

| Part | State | Operations | Correct when |
|---|---|---|---|
| Market lifecycle (`init_market`, `close_market`, `submit_proof`, `aggregate_resolution`, `fallback_resolve`) | MarketAccount: state, outcome, source_count, sources, deadlines; one ProofSubmission per source | five instructions, each one transaction | an outcome comes with a quorum or after the deadline, is set once, and is set at last; whoever lists the market's own proofs gets what they say |
| Money (`place_bet`, `claim_winning`, `refund_market`) | three pool counters, one BetCommitment per wallet, nullifier accounts, lamports of the pool account | three instructions | counters, accounts and lamports agree; with well-formed commitment hashes each winner is paid once and the pool covers all of them |
| Commitment tree (`insert_leaf`) | one hash per level, root, count | one insertion per bet | the root is that of the complete tree and each bet has a path |
| Ownership circuit and verifier | none (nullifier accounts are the program's) | check of a proof and of its public inputs | only a holder of a winning ticket passes, for its amount, once; each holder does |
| SP1 verifier | none | check of a proof's envelope and public inputs | what it accepts is a run of the KRN guest that ended well, with these public values |
| Public values codec | none | the guest's commits, `parse_krn_public_values` | what is parsed is what the guest committed |
| zkVM guest | the slice navigated to, the values found | JSON navigation, comparison, commits | the value at the configured path decides |
| Host prover script | two files with fixed names | read the request, prove, write | the files a service reads are those of one run |
| Prover service | a snapshot of the market, a loop index, a transaction in flight; nothing on disk but the prover's files | poll, prove, submit, refetch, aggregate | a closed market is resolved before its deadline |
| Configuration, Reclaim prototype, circuit tooling, error codes, deployment | none | | not modelled |

The service and other callers reach the program by transactions alone. The
runtime executes a transaction atomically; a failed instruction changes
nothing. What makes the system hard is therefore not concurrency inside an
instruction but the order of instructions from many callers, the clock, the
delay between what a caller read and when its transaction lands, lost and late
transactions, and integer rounding spread over several claims. Every hazard is
listed at its line in `PROJECT.json`.

## Modules

| Module | Models | Uses |
|---|---|---|
| `KrnMarket` | one market: all eight instructions and the clock; lifecycle properties | |
| `KrnAccounting` | sums and payouts over a market: the money properties | `KrnMarket` |
| `Parimutuel` | the abstract market: stakes, one declared side, each winner paid once | |
| `KrnRefinement` | the mapping by which a market implements `Parimutuel` | `KrnAccounting`, `Parimutuel` |
| `ProverService` | instances of the service and the network between them and a market | `KrnMarket` |
| `IncrementalTree` | `insert_leaf`, the circuit's inclusion check and the complete tree | |
| `TicketBook` | what a claim promises: tickets, a declared outcome, each key paid once | |
| `OwnershipClaim` | the circuit's statement, the check of its public inputs, the reduction of market ids; the mapping by which this implements `TicketBook` | `IncrementalTree`, `TicketBook` |
| `KrnPublicValues` | the layout of public values: the guest's commits and the chain's parser | |
| `KrnGuest` | the guest as a state machine over a tokenised response | `KrnPublicValues` |
| `KrnExtraction` | JSON documents, the tokens a server sends for them, what a path means in them, the comparison with the guest | `KrnGuest` |
| `ProofPipeline` | services, host provers, their files, `submit_proof` with its verifier and parser | `KrnPublicValues` |
| `KrnMarketProofs` | type correctness and resolution, proved | `KrnMarket` |
| `ProverServiceProofs` | quorum, votes, and that the composition obeys the market, proved | `ProverService`, `KrnMarketProofs` |
| `KrnAccountingProofs` | the records of bets and claims, solvency, the refinement and the exact sums, proved | `KrnRefinement`, `KrnMarketProofs`, `InductionLemmas` |
| `OwnershipClaimProofs` | the tree, the word arithmetic and every property of the claim, proved | `OwnershipClaim`, `InductionLemmas` |
| `KrnDocumentProofs` | documents as tokens and what the guest's scans find in them, proved | `KrnExtraction`, `InductionLemmas` |
| `KrnGuestProofs` | the codec, what the guest commits and that it reads what a document has at a path, proved | `KrnDocumentProofs` |
| `ProofPipelineProofs` | the pipeline, proved | `ProofPipeline`, `KrnGuestProofs` |
| `InductionLemmas` | lemmas only: induction without operator parameters, sums over finite sets, recursions, folds, positional numbers | |
| `MCKrnMarket`, `MCProverService`, `MCOwnershipClaim`, `MCKrnExtraction`, `MCProofPipeline` | the constants of the runs | |

`KrnMarket` takes for granted what three other modules check: that a verified
proof says what a page showed (`ProofPipeline`, `KrnExtraction`), that a root
determines what can be proved against it (`IncrementalTree`), and that claims
are made as in a book of tickets (`TicketBook`, which `OwnershipClaim`
implements).

### How the state and the actions correspond to the code

*One market.* Accounts of different markets have different addresses, so one
market is enough. `config` holds the arguments of `init_market`; `state`,
`outcome`, `source_count`, `total_pool`, `yes_pool`, `no_pool` are the fields
of MarketAccount; the domains of `bets`, `proofs` and `nullifiers` are the
BetCommitment, ProofSubmission and NullifierAccount addresses that exist, so
that Anchor's `init` is the guard "not in the domain"; `pool` is the lamports
of the pool address, which is not a field but an account balance. Every
action is named for its instruction and has the `require!`s, the account
constraints, the checked arithmetic and the transfer as guards.

*Hashes and proofs.* Domains, JSON paths and paths are strings in place of
their hashes. A ProofData record is what an SP1 proof says, with `verified`
for whether the verifier accepts it. A commitment hash stands for the secrets
it was made from, so it is a ticket: an outcome, an amount and a key (the
owner's key pair and nonce). `place_bet` takes it as an argument it cannot
check, so `PlaceBet` takes the bettor's own ticket or any member of
`Malformed`: a ticket for another side, amount or key, one that equals another
bettor's, or one whose key nobody knows, which is what a hash made from nothing
is. `Knows` says which wallets know which keys: several wallets may share some,
and there are keys that belong to no wallet. A claim names the signer's wallet
and a leaf *separately*, since the program does: the commitment account is the
signer's, the leaf is known only to the circuit. The bettor in a leaf and the
signer and bettor in a nullifier are history: no guard reads them.

*Remaining accounts.* `aggregate_resolution` asks nothing of the accounts it is
given but that their data is long enough. `Lists` has every list of up to
`MaxListed` of them, each read as a vote, an unverified proof, some other
byte, or too short: those of this market, of others, forged ones, and one
listed twice, of which the program sees no difference. `OwnList(S)` is the list
of the market's proofs of the sources S, each once, as `submitter.ts` makes it.

*Runtime rules.* `TransferAllowed` is the system transfer and the rule that a
transaction leaves no account with less than the rent-exempt minimum unless it
leaves it empty. They decide which claims can succeed.

*Clock.* `Tick` moves the clock forward by any amount up to `MaxTime`.

*Service.* An instance is a program counter in `processMarket`, its loop index
and the transaction it awaits. `Poll` takes the snapshot, of which the loop
uses only `source_count`; all else it reads from it never changes. Between any
two of its steps the market, other instances and the clock may move, which
also stands for the time an instance spends on other markets of the same poll.
A transaction in flight is executed, refused, or expires. `GiveUp` is an
`rpc()` that throws while its transaction may still land, or a refetch that
fails; `Crash` loses the process, which has nothing on disk. A fault is *mild*
when the next poll starts as if nothing had been tried (a prover that fails on
the last source needed, a restart between two sources); the others are
recorded in `faults` by kind so that properties can speak of them.

*Claim.* In `OwnershipClaim` a Poseidon hash is the tuple it hashes. A word is
a sequence of bytes and a field element its value modulo the prime, so `Ge`,
`Sub` and `Reduced` are the loops of `ownership_verifier.rs` byte for byte. A
word for a nullifier is the element and how often the prime was added to it,
`Alias`: what a verifier that compares elements cannot tell apart. The prover
picks the public inputs, the program's arguments and the ticket separately.
One nonce and key may stand behind several tickets, which then share a
nullifier: `SameSecret` says so, and the properties of claims speak of secrets
and not of tickets. The path of a leaf and its position are those
`IncrementalTree` has, where `IndexAt` is `current_index` as the loop of
`insert_leaf` halves it; the map
marks `Alias` and the rule that inputs are below the prime as external (the
Groth16 library and the syscalls behind it).

*Guest.* A response is a sequence of tokens, one for each group of bytes that
the scanning loops treat alike: a mark, a string, a string that begins with a
digit, a bare number. Where a loop can stop inside a string, the tokens inside
follow it (`Tokens` in `KrnExtraction`). Each action is one call of main:
a navigation step, an extraction, the comparison with its commit; `Panic` is
every `panic!` and `expect`. What the TLS replay commits before is any bytes.
In `KrnExtraction` a document is a function from places to nodes, a place being
the numbers of the members and items on the way down to it; `PlacesAt` reads a
path the way README and comments describe it, `Tokens` and `Response` write a
document as a server does, compact or pretty-printed. Strings and names begin
with a letter: one that begins with a digit or a minus is a quoted number to
the guest and is one here.

*Codec.* `Committed` and `Parsed` are byte for byte. A byte has `Base` values
and a word `WordBytes` bytes, both small, so that lengths and numbers do not
fit when they should not.

*Pipeline.* An instance is in `generateProof` or after it; a host process reads
the request file after it was started, possibly after another request replaced
it, then writes the two files one after the other. A host may outlive the
service that started it, or its five minutes. The envelope of a proof and the
statement the Groth16 proof is about are separate records, and `OtherProofs`
has proofs of other programs, versions and failed runs, with envelopes that say
otherwise. Left out: a file read while it is half written (its digest matches
nothing, as that of two files of different runs), the nonce, the digest itself.

### What is assumed, and what properties ask for

Nothing is assumed of the arguments and accounts callers pass. Two things the
program does not check are hypotheses of the properties that need them:

* `WellFormed`: a commitment hash that somebody can open is for the side and
  the amount of the bet it was paid with. `NoWinnerShort`, `OnlyDustRemains`,
  `WinnersServed`, `ImplementsParimutuel` and the second parts of
  `PoolAccounted` and `OnlyWinnersPaid` need it; counters, records, the total
  paid and the bounds of a payout do not. It allows hashes nobody can open, one
  hash in two bets and wallets that share keys.
* `AggregateResolution(OwnList(S))`: the listed accounts are proofs of this
  market, each once. `EarlyOutcomeBacked` and `OutcomeReadFromSources` need it.
  For any other list what remains is `EarlyOutcomeHasQuorum`,
  `OutcomeIffResolved` and `OutcomeFinal`.

Assumed of the surroundings:

* A recipient's account is rent-exempt already, and nobody sends lamports to
  the pool address except through `place_bet`.
* Groth16 and SP1 are sound, Poseidon and SHA-256 have no collisions.

## Runs

| Run | Checks | Bounds and why they suffice |
|---|---|---|
| `settlement` | `PoolsMatchBets`, `BetsMatchLeaves`, `PoolAccounted`, `OnlyWinnersPaid`, `NoWinnerShort`, `PayoutBounds`, `OnlyDustRemains`, `BookFrozen`, `ImplementsParimutuel`; `EventuallyResolved`, `WinnersServed` under `FairSpec` | three wallets, two of one person; besides a bettor's own ticket, the hash of another bettor's, one under a key that belongs to no wallet, and one nobody can open; stakes of 0, 1 and 3 make shares that do not divide, stakes below `RentMin` = 2 and totals above `U64Max` = 8 |
| `resolution` | `TypeOK`, `OutcomeIffResolved`, `VotesCounted`, `EarlyOutcomeHasQuorum`, `EarlyOutcomeBacked`, `OutcomeFinal`, `OutcomeReadFromSources` | four sources give majorities, ties and a spare; one source is configured twice; arguments and proofs that must be refused; up to four listed accounts that read as either vote, an unverified proof or neither outcome; a tree of one leaf is full after the first bet |
| `refund` | `RefundsAccounted` under `FailedSpec` | any bets of three wallets, with any of the hashes above |
| `service` | `QuorumSourcesDecide`, `EveryVoteDecides`, `ServiceResolves` under `FairServiceSpec` | two instances, three markets (quorum 2 of 3, quorum 1, unusable sources), all kinds of faults any number of times, two transactions in flight |
| `ownership` | `RootIsReference`, `EveryLeafProvable`, `OnlyInsertedAccepted`, `HoldersCanClaim`, `ClaimedOnce`, `ClaimsBacked`, `ImplementsTicketBook` | depth 3: each level sees left, right and carried nodes. Words of three bytes of four values; the prime 11 goes five times into a word, as the real one does, and its subtraction borrows; ids 11, 32 and 63 are the prime, just below three times it, and the largest word. A winning and a losing ticket of different amounts |
| `extraction` | `QuotedValueDecides`, `FirstNumberDecides`, `ParsedAsCommitted` | documents of two members or items, up to three segments deep; every kind of value the scanners treat differently; compact and pretty; bytes of six values and words of two, so that two-digit numbers overflow and six-byte names have a length that does not fit; all outputs of up to six bytes over zero and the marker's bytes |
| `pipeline` | `AcceptedAsRead`, `CleanRunAccepted` | two services, two host runs (`MaxHosts`), so that each can overwrite or outlive the other; three requests, two of them the same bytes cut elsewhere and two differing in the threshold alone; seven proofs from elsewhere |

Amounts are scaled: one lamport of the model is a step of the rent-exempt
minimum, and `U64Max` is small so that the checked additions do fail. Model
bounds are `MaxTime`, `MaxInflight`, `MaxHosts`, the constants' sets and the
depth. Deadlock is not checked where a system may stop: a resolved market whose
claims are done, a full tree, a guest that has ended, no host run left.

`refund` needs a word. No instruction assigns `MarketState::Failed`, so
`refund_market` and the fallback from Failed are dead code. `FailedSpec`
starts from a Failed market with any bets in place, as another version of the
program could leave it, and checks that part of the code. It says nothing of
markets this version creates; `Spec` starts from an empty account. What it
shows is that no account is refunded twice and that refunds and later claims
together take no more than was bet. It does not show that a stake is taken
only once: after a fallback from Failed a refunded bettor can claim as well,
since `claim_winning` does not read `claimed`.

In `service` only instances of the service aggregate, each with the accounts
its snapshot has; that anybody else may, with any accounts, is part of
`resolution`.

What the properties of `extraction` exclude is as telling as what they say.
`Clear` excludes documents in which an earlier member has the name of the key
or mentions it anywhere in its value, since the guest takes the first equal
string, and earlier items with brackets in a string or that are strings with a
comma (`NothingToCount`), since the count does not know of strings. `InRange`
excludes numbers beyond u64, which wrap, and exponents, whose digits are
appended; negative numbers are in it and count as 0, as the code has it.
`Unambiguous` excludes a TLS output with a length and a marker of its own, also
one that is complete only with the bytes that follow: with `Base` = 6 and two
bytes of length, an output of 27 bytes that ends in 4, 0, 5 is followed by its
length 4, 3 and the marker 5, 4, 3, and the parser stops three bytes early. The
outputs of the run, of up to six bytes, are too short for that; `GuestCorrect`
is for outputs of any length.
`Readable` adds that the server name and the JSON path have fewer bytes than a
byte has values, which the properties of extraction need too (`Legible`): the
guest may have read the right number and the parser still misread the outcome.
Without these conditions the properties fail: the guest misreads such
documents, the parser such public values.

Every property of a passing run has a mutant: a small slip in one definition
(`PROJECT.json`) that makes the run fail.

### What the runs that expect a violation show

* `late_bet`: after `close_timestamp` bets are accepted until somebody calls
  `close_market`.
* `dust`: payouts are rounded down and nothing sweeps the remainder. When the
  last claim would leave dust below the rent-exempt minimum, it fails, for ever.
* `path`: `path_hash` is stored and never compared.
* `service_gap`: the service uses `source_count` as the index of the next
  source. After one failure that is not at the last source, the failed source
  is never tried again.
* `value_elsewhere`: after navigation the slice starts *behind* the colon, and a
  bare number is only recognised behind a colon. From `{"usd":7,"eur":8}` the
  path `usd` gives 8; quoted numbers are read as they should.

Disagreements without a run:

* The threshold `(source_count + 1) / 2` (`aggregate_resolution.rs:39`) is half
  of an even count, and YES is tested first: an even split resolves as YES,
  where line 6 of the file and README.md:37 speak of a majority.
* No instruction assigns `MarketState::Failed`, though `market.rs:26` and
  `refund_market.rs:5` speak of markets that failed: past the deadline a market
  without quorum waits for the authority.
* The comment at `place_bet.rs:115-122` says that a malformed commitment can harm
  only its bettor. The properties about money above hold for well-formed hashes
  and are not confirmed for others; the program keeps no record from which it
  could tell them apart.
* The comment at `aggregate_resolution.rs:18` says that votes are counted "from
  proof submissions"; nothing checks that the accounts listed are any.
* `market.rs:4` asks for at least 3 source configs and README.md:33 for "min 3
  sources", `init_market.rs:17-21` for one.
* `commitment.claimed` ("whether winnings have been claimed") and
  `nullifier_count` are never written by `claim_winning`.
* The comment at `place_bet.rs:88` speaks of 2^16 bets, the tree holds 2^10.
* The comment at `ownership_verifier.rs:144` says a word holds the prime less
  than four times and three subtractions suffice; it holds it five times. The
  loop does not rely on it; the mutant `ReducedThrice` does and fails.
* With a crash or a lost reply after the last proof, the service leaves the
  market unaggregated, because `monitor.ts:65` skips markets with enough
  proofs: this is why `ServiceResolves` excludes these faults.

## Fairness

`FairSpec`: time passes; anybody may call `close_market`, and bettors want it;
the authority calls `fallback_resolve` once the deadline is over; each bettor
goes on claiming while a claim of theirs can succeed. Nothing is assumed of
provers or aggregators. Weak fairness is enough: `close_market` and the
fallback stay enabled until they happen, and after the resolution a claim's
guard changes only by other claims, finitely often.

`FairServiceSpec`: the loop polls for ever and no await lasts for ever
(`execSync` and `rpc()` time out), which is weak fairness of each instance's
own steps; a prover run tried again and again succeeds at last, which is strong
fairness of `Submit`; a transaction that does not expire is executed or
refused. `Tick` is not fair there: "before the deadline" is a disjunct of the
property.

## Proofs

Assumptions: the named `ASSUME`s, which TLC evaluates for the constants of each
run. Those of `KrnMarket` and `ProverService` say that constants are of their
types; `DepthAssumption` and `ZeroAssumption` that the tree has a level and no
bet hashes to zero; `WordAssumption` that a byte has two values or more, the
prime is not zero and market ids are words; `WidthAssumption` the same of the
codec; `InputsAssumption`, `RequestAssumption` and `OutputAssumption` that
inputs and requests are made of bytes, and responses of tokens;
`DocumentAssumption` that a response is what a server sends for a document.
`SoundnessAssumption` is the one assumption on proofs from elsewhere: a Groth16
proof is about the run its record names. Nothing is assumed of the number of bettors, sources, bets,
services or hosts, of stakes, or of the width of bytes and words.

`KrnMarketProofs`. `TypeOK` is not inductive: `yes_pool` stays within u64 only
because the pools add up to `total_pool`, whose addition is checked; a market
that is not "None" must be known to have accepted arguments for its deadline
and sources to mean anything; `source_count` stays within 10 only because it
counts accounts. `TypeInv` adds these as `PoolsAdd`, `Created`, `Lifecycle`
and `VotesCounted`, and `NextTypeInv` has one lemma per instruction.
`ResolutionInv` adds the outcome and the quorum behind an early one, which no
later step takes back, since the deadline and the clock only move on
(`QuorumKept`); it holds for any lists of accounts. For `EarlyOutcomeBacked`,
listing fewer of the market's proofs can only lose votes (`VotesMonotone`), and
the threshold is at least half of the count (`ThresholdIsHalf`).
`ResolutionFinal` and `BookIsFrozen` are action properties from the same
invariant. `SourcesInv` keeps of each recorded proof that it answers the
market's question at one of its sources; since a quorum is at least one proof,
a majority has a voter (`MajorityHasVoter`), and `OutcomeFromSources` follows.

`InductionLemmas`. The library's induction theorems take an operator as a
parameter, which the provers cannot instantiate. Here a property is a set: the
set of the counterexamples has a least number (`LeastNumber`) or a minimal
subset (`MinimalSubset`), so a set closed under one step has every number
(`NumberInduction`) or every subset (`SubsetInduction`). The community modules
define a sum by a recursion that takes a *chosen* element off; `SumsUnique`
shows that the choice does not matter, from which `SumAdd`, `SumGrows` and
`SumSame` are what a proof about a step needs. `RecursionExists` and
`FoldExists` do the same for recursive functions and folds of sequences, and
`NumberRead` for the digits of a number.

`KrnAccountingProofs`, in four parts. Each holds for any commitment hashes,
with `WellFormed` as a hypothesis inside the invariant where it is needed, not
around it.

* *The records.* A claim names a signer and a leaf apart, so one must know what
  a leaf and a nullifier have to do with bets. `RecordInv` adds to the
  resolution invariant that a leaf carries the hash of its bettor's account
  (`LeafIsBet`), that every account has a leaf (`BetHasLeaf`) and as many were
  counted (`LeavesCounted`), that nothing is paid before the resolution
  (`Untouched`), and of each nullifier (`Recorded`) that it belongs to a hash
  somebody can open, made for the outcome and for the amount of a signer who
  bet on the outcome. `BetsMatched` follows, and `WinnersOnly`: what is
  recorded of the hash becomes a fact about its bettor if the hash is well
  formed (`OpenedByWinner`). `OtherSteps` sorts the instructions: but for
  `place_bet` and `claim_winning` none moves money.
* *Solvency.* That every unpaid winner is covered is a statement about a sum of
  rounded quotients. The proof takes no sum: it lays the stakes of each side as
  disjoint intervals in `0 .. pool - 1` (`Placement`; a bet is put at the end
  of its side's pool). What was paid is compared with the part of the winning
  pool that paid winners' intervals cover:
  `paid * winning_pool <= |covered| * total_pool` (`PaidInProportion`). A claim
  adds the interval of the bettor whose leaf is opened, who has not been paid
  for (`UnpaidNotPaid`), and pays at most its proportion. An unpaid winner's
  interval is disjoint from the covered part, so its proportion is still there
  (`UnpaidCovered`). `SolvencyCorrect` is the result; `PayoutCorrect`, which
  needs the intervals but not that hashes are well formed, bounds each payout
  and shows that the cast to u64 loses nothing.
* *The refinement.* `Implements` takes each instruction: a bet is a `Bet`,
  `close_market` is `Close`, the aggregation or the fallback that resolves is
  `Declare`, a claim is `Pay` of the bettor whose leaf was opened, and all else,
  also the creation of the market, changes nothing the abstract market has.
  That a payment is `Due` needs the cast of `PayoutBounds`, the pools of
  `TypeInv` and the equal stakes of signer and bettor.
* *The sums.* `AccountingInv` adds the sums. A bet adds one summand to the pool
  of its side (`PoolsMatchBets`); a claim adds one payout to what was paid,
  under a nullifier that was not there, and, if hashes are well formed, an equal
  share of a bettor not paid for before (`PoolAccounted`). For
  `OnlyDustRemains` each quotient is short by less than one winning pool
  (`QuotientShort`), and induction over the winners adds that up
  (`SharesShort`): when all are paid, what is left times the winning pool is
  less than the number of winners times the winning pool.

`ProverServiceProofs`. `QuorumInv`: transactions in flight and recorded proofs
are of sources within the quorum, and an instance is idle until there is a
market, so the quorum it compared with is the market's. `ServiceInv` adds the
types of what was sent to the market's `TypeInv`, with which an executed
transaction is an instruction of `KrnMarket` (`ExecuteIsInstruction`; what an
instance lists is a list a caller may pass, `ListedIsList`);
`MarketObeyed` follows, and with it every theorem about a market. `VotesDecide`
is inductive relative to `ServiceInv`: once resolved before the deadline, no
step but the clock changes what it reads. The guard of `Reject` is an ENABLED,
which no proof needs: the step changes nothing but the transactions in flight.

`OwnershipClaimProofs`, in three parts.

* *The tree.* That the root is right is not inductive: the next insertion reads
  what earlier ones left in `tree`. `LeftKept` says which of that matters:
  where the next leaf is on the right, the level holds its left neighbour in
  the complete tree; what other levels hold is old and not read. An insertion
  changes only the nodes above the new leaf and finds the tree empty behind it
  (`NodesChanged`), so the hashes on its way up are the new nodes
  (`ClimbNodes`), and at each level the next position is the same or one
  further (`NextIndex`), which keeps `LeftKept`. That the way ends at the root
  is where the check of the capacity is needed (`TopIndex`). For a path, the
  nodes above a position are the hashes of the circuit (`PathAccepted`); in the
  other direction an accepted path is followed down from the root, each hash
  giving both its arguments (`PathDetermines`), whatever the siblings. The run
  tries siblings that are nodes of the tree only.
* *The words.* What `ValueOf` has read after k bytes is the same for two words
  up to the first difference and stays larger behind it (`FirstDecides`,
  `GeLaw`). In `sub_bytes` the difference of what was read of the minuend and
  the subtrahend, less the borrow at that place, goes from byte to byte as the
  value of the result does (`SubBytes`, `SubLaw`); a borrow out of the first
  byte would make it negative to the end. So `reduce_mod_bn254` takes the prime
  off a number until it is below it (`DescentByPrime`), and `ReducedLaw` is
  that this ends with the remainder: however often the prime goes into a word.
* *The claim.* `OwnershipInv` has the tree's invariant, that every leaf is
  somebody's ticket, that nullifier accounts are those of the claims, and
  `SpendInv`: each claim's nullifier is the one canonical word of its secret
  (`SpentAs`), and claims differ in it. The circuit fixes the element, the
  verifier's bound on inputs the word (`AcceptedWord`). `ClaimsCorrect` reads
  the ticket off the leaf that was opened; `HoldersCorrect` puts the path, the
  reduced id and the unused nullifier together. `ImplementsBook` maps the
  leaves to the tickets of `TicketBook` and the claims to those paid: a bet
  enters its ticket, a claim pays the one behind the leaf that was opened
  (`AcceptedLeaf`), whose key was not paid before since a key has one word.

`KrnDocumentProofs`: documents of any depth and width, with any strings.

* *The tokens.* `Tokens` is a recursive function on places, and that it has its
  values at all must be proved: places have a bounded length (`Bounded`), so a
  function on the places of one length after the other exists
  (`RecursionExists`) and `TokensLaw` unfolds it once. `PlaceInduction` is the
  induction over documents, as a set of places closed towards the root.
* *The scan for a key.* What stands before the n-th member of an object is cut
  into its opening, the members before it and its name (`MemberAt`,
  `MembersBefore`). With `Clear`, none of it is the key, the colon and blanks
  behind the name are skipped (`SkipOver`), and every value begins with a token
  that is not skipped (`ValueStarts`): `KeyStep`.
* *The count for an index.* In the tokens of a node each closing bracket has
  its opening one before it (`Balanced`) and no comma is counted outside
  brackets (`Tight`); this is what `NothingToCount` is for
  (`DocumentBalanced`). So the items before the n-th one, with the commas
  between them, count n - 1 commas (`ItemsCounted`), not fewer before the last
  of them, and the count stops there (`ElementLater`): `ItemStep`.
* `StepDown` puts both together: one segment of a path leads from the tokens of
  a node, with anything behind them, to those of the member or item below it.
  `PlaceUnique`: with `Clear` a path leads to one place. `BodyIsDocument`: the
  body of the response is the document.

`KrnGuestProofs`, in four parts.

* *The codec.* After k of the `w` bytes of a number the fold has read what
  remains of it without its last `w - k` digits (`ReadBack`). Each field is
  then a slice of the bytes at an offset that adds up the lengths before it
  (`FieldsLayout`), no place before the end of the output describes itself
  (`FoundBehindOutput`), and `CodecCorrect` is that the parser returns what was
  committed, if `Readable`. An attempt without the second half of `Unambiguous`
  failed for the reason given under Runs.
* *What is committed.* `GuestInv`: whatever the response, what was found is a
  word, since each digit is added modulo u64, and what a guest that is done has
  committed is `Committed` of the output and its fields. `ParsedAsCommitted`
  follows by the codec; nothing of this uses that responses are documents.
* *Numbers.* The digits of a number are read with a wrap at each of them and
  compared with the number without one: what is read grows with each digit, so
  if the whole fits nothing wrapped on the way (`SameDigits`, `NoWrap`), and
  `NumberAsWritten` adds the sign and the point. A number is found at the start
  of a slice if it is quoted, and behind a colon in any case
  (`NumberFound`); before the first value of a document stand openings and
  names only (`BeforeStep`, `FirstFound`).
* *The run.* `ReadInv` is the inductive invariant. For a list of values w,
  `Expects(w)` says that every path of the question is `OnTheWay` to one of
  them from the body; `Progress(w)` that the guest has not panicked, that what
  is left of the path it follows is on the way to the next value of w from the
  slice it has come to, and that the values it has are the first of w. A
  navigation keeps this by `StepDown`, an extraction by `NumberFound`, and the
  next path begins at the body again. `ReadsWhatIsThere` is this invariant;
  `QuotedDecided` and `FirstDecided` follow with `CodecCorrect`, for outcomes
  as the chain reads them.

`ProofPipelineProofs`. `PipelineInv` has the types of files, hosts and
services, `CleanRuns`, and `Accounted`. `CleanRuns` says where a run that
nothing disturbs has got to: its host is the only one running, the request file
is its own until it was read, each file from when it is written. `Accounted`
says of what was accepted that its proof is about the run it names and the
values are those verified. `AcceptedCorrect` needs the second only,
`CleanRunCorrect` the first.

Only model-checked:

* liveness (`EventuallyResolved`, `WinnersServed`, `ServiceResolves`), which
  needs ENABLED;
* `RefundsAccounted`, about a state this version never reaches;
* `NoBetAfterClose`, `EveryWinnerPaid`, `PathsAsConfigured`,
  `FailedSourceRetried` and `ValueAtPath`, which do not hold.

## Plan

Done: the program, the service, the tree, the claim, the codec, the guest, the
documents it reads, the pipeline, the abstract market and the book of tickets.
Every safety property and every action property of a passing run is a theorem,
but for `RefundsAccounted`.

Left: liveness, which needs a prover with ENABLED.

## Not modelled

* Groth16, the curve arithmetic and syscalls of the two verifiers, Poseidon and
  SHA-256: taken as sound.
* TLS recording and replay, the SP1 network, the Solana runtime apart from
  atomic transactions, account creation and the rent rule: libraries. The mock
  modes of the host prove nothing that is accepted.
* Service configuration: constants from the environment.
* The Reclaim prototype: scripts around a third-party SDK that neither the
  program nor the service uses.
* Circuit tooling: format conversions run by hand on a fixed example.
* Error codes: an instruction that fails changes nothing, whatever its code.
* Deployment and tests: read for what is tested and how clients call.
