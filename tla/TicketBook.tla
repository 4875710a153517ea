----------------------------- MODULE TicketBook -----------------------------
(***************************************************************************)
(* What a claim by zero knowledge promises, without trees, proofs, fields  *)
(* and words: tickets are entered until an outcome is declared, and then   *)
(* each key is paid once, for a ticket of its own on the outcome.          *)
(* claim_winning relies on no more of a proof than this (KrnMarket), and   *)
(* OwnershipClaim implements it.                                           *)
(***************************************************************************)
EXTENDS Sequences

CONSTANTS
    Tickets,   \* records of outcome, amount, nonce and pubkey
    Outcomes,
    Undecided  \* no outcome has been declared

VARIABLES
    entered,   \* the tickets in the order they were entered
    declared,
    paid       \* the tickets that were paid

vars == <<entered, declared, paid>>

SameKey(t, u) == t.nonce = u.nonce /\ t.pubkey = u.pubkey

Enter(ticket) ==
    /\ declared = Undecided
    /\ entered' = Append(entered, ticket)
    /\ UNCHANGED <<declared, paid>>

Declare(outcome) ==
    /\ declared = Undecided
    /\ declared' = outcome
    /\ UNCHANGED <<entered, paid>>

Pay(n) ==
    /\ declared \in Outcomes
    /\ entered[n].outcome = declared
    /\ \A ticket \in paid : ~SameKey(ticket, entered[n])
    /\ paid' = paid \cup {entered[n]}
    /\ UNCHANGED <<entered, declared>>

Init == entered = <<>> /\ declared = Undecided /\ paid = {}

Next ==
    \/ \E ticket \in Tickets : Enter(ticket)
    \/ \E outcome \in Outcomes : Declare(outcome)
    \/ \E n \in DOMAIN entered : Pay(n)

Spec == Init /\ [][Next]_vars

=============================================================================
