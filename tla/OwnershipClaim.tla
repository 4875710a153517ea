--------------------------- MODULE OwnershipClaim ---------------------------
(***************************************************************************)
(* A claim by zero knowledge: the statement ownership.circom proves, and   *)
(* what ownership_verifier.rs checks of its public inputs.  The tree the   *)
(* circuit opens is IncrementalTree.  The market id is any 32 bytes, but   *)
(* the circuit works in the scalar field of BN254, so the program reduces  *)
(* the id byte by byte before it compares.                                 *)
(***************************************************************************)
EXTENDS IncrementalTree, SequencesExt

CONSTANTS
    Byte,       \* values of a byte
    Width,      \* bytes of a word
    Prime,      \* BN254_SCALAR_PRIME, a word
    MarketIds,  \* the words a market may have as its id
    Secrets     \* tickets: outcome, amount, nonce and pubkey

Words == [1 .. Width -> 0 .. Byte - 1]

ASSUME WordAssumption ==
    /\ Byte \in Nat \ {0, 1} /\ Width \in Nat
    /\ Prime \in Words /\ (\E i \in 1 .. Width : Prime[i] # 0)
    /\ MarketIds \subseteq Words

VARIABLES
    market_id,
    outcome,     \* 255 until the market is resolved
    nullifiers,  \* nullifiers that have an account
    claims       \* the accepted claims (history variable)

market == <<market_id, outcome, nullifiers, claims>>
ovars  == <<vars, market>>

-----------------------------------------------------------------------------
(* Mutants.                                                                *)
AmountUnchecked(inputs, amount)       == TRUE
NullifierUnchecked(inputs, nullifier) == TRUE
OutcomeUnchecked(inputs)              == TRUE

-----------------------------------------------------------------------------
(* Words                                                                   *)

ValueOf(word) == FoldLeft(LAMBDA value, byte : value * Byte + byte, 0, word)

(* ge_bytes: the first byte that differs decides.                          *)
Ge(a, b) ==
    \/ a = b
    \/ \E i \in DOMAIN a : a[i] > b[i] /\ \A j \in 1 .. i - 1 : a[j] = b[j]

(* diff > 0xFF: the u16 has wrapped.                                       *)
Borrow(diff) == IF diff < 0 THEN 1 ELSE 0

(* sub_bytes, from the last byte to the first.                             *)
Sub(a, b) ==
    LET diff[i \in 1 .. Width] ==
            a[i] - b[i] - (IF i = Width THEN 0 ELSE Borrow(diff[i + 1]))
    IN  [i \in 1 .. Width |-> diff[i] % Byte]

(* Mutant: the three subtractions the comment of reduce_mod_bn254 speaks   *)
(* of, instead of as many as it takes.                                     *)
ReducedThrice(word) ==
    FoldLeft(LAMBDA w, k : IF Ge(w, Prime) THEN Sub(w, Prime) ELSE w, word, <<1, 2, 3>>)

(* reduce_mod_bn254                                                        *)
Reduced(word) ==
    LET reduce[w \in Words] == IF Ge(w, Prime) THEN reduce[Sub(w, Prime)] ELSE w
    IN  reduce[word]

-----------------------------------------------------------------------------
(* ownership.circom                                                        *)

(* The field element of a word: what the prover and the client compute.    *)
Element(word) == ValueOf(word) % ValueOf(Prime)

(* Poseidon(5) and Poseidon(3)                                             *)
Commitment(id, side, amount, secret) ==
    <<"commitment", id, side, amount, secret.nonce, secret.pubkey>>
Nullifier(id, secret) == <<"nullifier", id, secret.nonce, secret.pubkey>>

(* A word for an element e is e + alias * Prime.                           *)
Alias(element, k) == [element |-> element, alias |-> k]

(* The constraints.  The witness is a secret and the path of a position.   *)
Satisfied(secret, n, inputs) ==
    /\ CircuitAccepts(Commitment(Element(inputs.market_id), inputs.outcome, inputs.amount, secret),
                      Siblings(n), Direction(n))
    /\ inputs.nullifier.element = Nullifier(Element(inputs.market_id), secret)
    /\ inputs.outcome \in {0, 1}

-----------------------------------------------------------------------------
(* ownership_verifier.rs                                                   *)

(* The verifier takes public inputs below the prime only.                  *)
Canonical(inputs) == inputs.nullifier.alias = 0 /\ ~Ge(inputs.market_id, Prime)

(* verify_ownership_proof: a proof exists exactly for satisfied inputs.    *)
ProofVerified(secret, n, inputs) == Canonical(inputs) /\ Satisfied(secret, n, inputs)

AmountMatches(inputs, amount)       == inputs.amount = amount
NullifierMatches(inputs, nullifier) == inputs.nullifier = nullifier
OutcomeMatches(inputs)              == inputs.outcome = outcome

(* validate_ownership_public_inputs; the root is the one the circuit       *)
(* compares with.                                                          *)
InputsValidated(inputs, nullifier, amount) ==
    /\ NullifierMatches(inputs, nullifier)
    /\ AmountMatches(inputs, amount)
    /\ OutcomeMatches(inputs)
    /\ inputs.market_id = Reduced(market_id)

(* claim_winning, up to the nullifier account.  amount is that of the      *)
(* signer's commitment account, any that was staked; the check of its side *)
(* and the payment, which may still refuse the claim, are in KrnMarket.    *)
Accepts(secret, n, inputs, nullifier, amount) ==
    /\ outcome \in {0, 1}
    /\ InputsValidated(inputs, nullifier, amount)
    /\ ProofVerified(secret, n, inputs)
    /\ nullifier \notin nullifiers

-----------------------------------------------------------------------------
TicketOf(secret) == Commitment(Element(market_id), secret.outcome, secret.amount, secret)

PlaceBet(secret) ==
    /\ outcome = 255
    /\ InsertLeaf(TicketOf(secret))
    /\ UNCHANGED market

Resolve(o) ==
    /\ outcome = 255
    /\ outcome' = o
    /\ UNCHANGED <<vars, market_id, nullifiers, claims>>

ClaimWinning(secret, n, inputs, nullifier, amount) ==
    /\ Accepts(secret, n, inputs, nullifier, amount)
    /\ nullifiers' = nullifiers \cup {nullifier}
    /\ claims' = claims \cup {[secret |-> secret, amount |-> amount, nullifier |-> nullifier]}
    /\ UNCHANGED <<vars, market_id, outcome>>

(* The inputs a prover can choose from: the id as it is or reduced, the    *)
(* nullifier of the secret or another word for it.                         *)
NullifierWords(secret) ==
    {Alias(Nullifier(Element(market_id), secret), k) : k \in {0, 1}}

Inputs(secret) ==
    [market_id : {market_id, Reduced(market_id)}, outcome : {0, 1},
     nullifier : NullifierWords(secret),
     amount : {s.amount : s \in Secrets}]

OwnershipInit ==
    /\ Init
    /\ market_id \in MarketIds
    /\ outcome = 255
    /\ nullifiers = {} /\ claims = {}

OwnershipNext ==
    \/ \E secret \in Secrets : PlaceBet(secret)
    \/ \E o \in {0, 1} : Resolve(o)
    \/ \E secret \in Secrets, n \in 0 .. count - 1 :
           \E inputs \in Inputs(secret), nullifier \in NullifierWords(secret), s \in Secrets :
               ClaimWinning(secret, n, inputs, nullifier, s.amount)

OwnershipSpec == OwnershipInit /\ [][OwnershipNext]_ovars

-----------------------------------------------------------------------------
(* Properties                                                              *)

(* The public inputs a client gets from the prover.                        *)
InputsOf(secret) ==
    [market_id |-> CHOOSE w \in Words : ValueOf(w) = Element(market_id),
     outcome |-> outcome,
     nullifier |-> Alias(Nullifier(Element(market_id), secret), 0),
     amount |-> secret.amount]

(* One nonce and key may be behind several tickets; they have one          *)
(* nullifier.                                                              *)
SameSecret(s, t) == s.nonce = t.nonce /\ s.pubkey = t.pubkey

(* Whatever the id of the market, also one of several times the prime, and *)
(* whatever was bet before or after: each winning ticket in the tree that  *)
(* was not used yet is accepted, at its position (ownership_verifier.rs:   *)
(* 145-222, place_bet.rs:43-68, ownership.circom).                         *)
HoldersCanClaim ==
    outcome \in {0, 1} =>
        \A secret \in Secrets, n \in 0 .. count - 1 :
            /\ secret.outcome = outcome
            /\ inserted[n + 1] = TicketOf(secret)
            /\ \A c \in claims : ~SameSecret(c.secret, secret)
            => Accepts(secret, n, InputsOf(secret), InputsOf(secret).nullifier, secret.amount)

(* A ticket is claimed once, though a word may stand for its nullifier     *)
(* that is not the one its account has (claim_winning.rs:100-107).         *)
ClaimedOnce == \A c, d \in claims : SameSecret(c.secret, d.secret) => c = d

(* What is claimed was staked: the amount a payout is computed from is     *)
(* that of a ticket in the tree with the nonce and key of the claim, made  *)
(* for the outcome of the market.                                          *)
ClaimsBacked ==
    \A c \in claims : \E s \in Secrets :
        /\ SameSecret(s, c.secret) /\ s.amount = c.amount /\ s.outcome = outcome
        /\ Contains(inserted, TicketOf(s))

(* The tickets behind the leaves and those behind the claims.              *)
Ticket(side, amount, nonce, pubkey) ==
    [outcome |-> side, amount |-> amount, nonce |-> nonce, pubkey |-> pubkey]

TicketsBet == [n \in DOMAIN inserted |->
                  Ticket(inserted[n][3], inserted[n][4], inserted[n][5], inserted[n][6])]

TicketsPaid == {Ticket(outcome, c.amount, c.secret.nonce, c.secret.pubkey) : c \in claims}

Promise == INSTANCE TicketBook WITH
    Tickets   <- {Ticket(s.outcome, s.amount, s.nonce, s.pubkey) : s \in Secrets},
    Outcomes  <- {0, 1},
    Undecided <- 255,
    entered   <- TicketsBet,
    declared  <- outcome,
    paid      <- TicketsPaid

(* Whatever ids, positions, inputs and words a prover tries, a market with *)
(* claims by zero knowledge is a book of tickets: what claim_winning takes *)
(* for granted of a proof (claim_winning.rs:15-52, KrnMarket).             *)
ImplementsTicketBook == Promise!Spec

=============================================================================
