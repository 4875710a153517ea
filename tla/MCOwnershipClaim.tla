-------------------------- MODULE MCOwnershipClaim --------------------------
(* Words of three bytes of four values; a prime that, like the real one,   *)
(* goes five times into a word and whose subtraction borrows.  Market ids  *)
(* around its multiples.                                                   *)
EXTENDS OwnershipClaim

Eleven == <<0, 2, 3>>

Word(n) == [k \in 1 .. Width |-> (n \div Byte ^ (Width - k)) % Byte]

BoundaryIds == {Word(n) : n \in {11, 32, 63}}

Tickets ==
    {[outcome |-> 1, amount |-> 1, nonce |-> 7, pubkey |-> 1],
     [outcome |-> 0, amount |-> 2, nonce |-> 8, pubkey |-> 2]}

(* The tickets of every market, with either outcome and amount.            *)
AllCommitments ==
    {Commitment(Element(id), s.outcome, s.amount, s) : id \in MarketIds, s \in Secrets}

=============================================================================
