----------------------------- MODULE Parimutuel -----------------------------
(***************************************************************************)
(* What a KRN market promises its bettors, without instructions, clocks,   *)
(* proofs or accounts: stakes are collected in one pot per side; when      *)
(* betting is over a side is declared; each bettor of that side is paid    *)
(* once, in any order, the stake's part of both pots rounded down, and     *)
(* nothing else leaves the vault.  A market implements it as long as its   *)
(* commitment hashes are well formed (KrnRefinement).                      *)
(***************************************************************************)
EXTENDS Integers

CONSTANTS
    Bettors,
    Amounts,   \* the stakes bettors may make
    No, Yes,   \* the sides
    Undecided  \* no side has been declared

Sides == {No, Yes}

VARIABLES
    phase,   \* "betting", "closed" or "settled"
    stakes,  \* stakes[b]: side and amount of bettor b, for those who bet
    pot,     \* pot[side]: what was staked on a side
    result,  \* the declared side
    paid,    \* bettors already paid
    vault    \* what is left to pay from

vars == <<phase, stakes, pot, result, paid, vault>>

Bet(b, side, amount) ==
    /\ phase = "betting"
    /\ b \notin DOMAIN stakes
    /\ amount > 0
    /\ stakes' = [x \in DOMAIN stakes \cup {b} |->
                      IF x = b THEN [side |-> side, amount |-> amount] ELSE stakes[x]]
    /\ pot' = [pot EXCEPT ![side] = @ + amount]
    /\ vault' = vault + amount
    /\ UNCHANGED <<phase, result, paid>>

Close ==
    /\ phase = "betting"
    /\ phase' = "closed"
    /\ UNCHANGED <<stakes, pot, result, paid, vault>>

Declare(side) ==
    /\ phase = "closed"
    /\ phase' = "settled"
    /\ result' = side
    /\ UNCHANGED <<stakes, pot, paid, vault>>

Due(b) == (stakes[b].amount * (pot[No] + pot[Yes])) \div pot[result]

Pay(b) ==
    /\ phase = "settled"
    /\ b \in DOMAIN stakes \ paid
    /\ stakes[b].side = result
    /\ paid' = paid \cup {b}
    /\ vault' = vault - Due(b)
    /\ UNCHANGED <<phase, stakes, pot, result>>

Init ==
    /\ phase = "betting"
    /\ stakes = <<>>
    /\ pot = [side \in Sides |-> 0]
    /\ result = Undecided
    /\ paid = {}
    /\ vault = 0

Next ==
    \/ \E b \in Bettors, side \in Sides, amount \in Amounts : Bet(b, side, amount)
    \/ Close
    \/ \E side \in Sides : Declare(side)
    \/ \E b \in Bettors : Pay(b)

Spec == Init /\ [][Next]_vars

=============================================================================
