---------------------------- MODULE KrnRefinement ----------------------------
(***************************************************************************)
(* A KRN market implements a parimutuel market: the lifecycle states are   *)
(* its phases, the BetCommitment accounts its stakes, the pool counters    *)
(* its pots, the bettors of the leaves opened by claims those it has paid, *)
(* and the lamports of the pool account its vault.                         *)
(***************************************************************************)
EXTENDS KrnAccounting

PhaseOf(s) ==
    CASE s \in {"None", "Open"} -> "betting"
      [] s = "Resolved"         -> "settled"
      [] OTHER                  -> "closed"

StakesHeld == [b \in DOMAIN bets |-> [side |-> bets[b].side, amount |-> bets[b].amount]]

Pots == [side \in {NO, YES} |-> IF side = YES THEN yes_pool ELSE no_pool]

Promise == INSTANCE Parimutuel WITH
    Amounts   <- Stakes,
    No        <- NO,
    Yes       <- YES,
    Undecided <- UNRESOLVED,
    phase     <- PhaseOf(state),
    stakes    <- StakesHeld,
    pot       <- Pots,
    result    <- outcome,
    paid      <- Paid,
    vault     <- pool

(* As long as every commitment hash that somebody can open is well formed, *)
(* and whatever instructions callers send and in whatever order, the money *)
(* of a market moves as in a parimutuel market: betting ends once, the     *)
(* side is declared once, and a claim pays for a winning bet, once, what   *)
(* that bet is due, although commitment account, ticket and recipient are  *)
(* three independent arguments of claim_winning.                           *)
ImplementsParimutuel ==
    /\ Promise!Init
    /\ [][WellFormed' => Promise!Next \/ UNCHANGED Promise!vars]_vars

=============================================================================
