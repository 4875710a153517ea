----------------------------- MODULE MCKrnMarket -----------------------------
(***************************************************************************)
(* Small instances of the market for TLC.  Amounts are scaled: one lamport *)
(* of the model stands for a step of the rent-exempt minimum.              *)
(***************************************************************************)
EXTENDS KrnRefinement, TLC

CONSTANTS b1, b2, b3, platform, other, spare, lost

TwoBettors   == {b1, b2}
ThreeBettors == {b1, b2, b3}
OnePlatform  == {platform}
TwoCallers   == {platform, other}

(* b2 and b3 are two wallets of one person, who also knows a key that      *)
(* belongs to no wallet; nobody knows the key that is lost.                *)
AllKeys == {b1, b2, b3, spare, lost}

SharedKeys ==
    [b \in Bettors |-> IF b = b1 THEN {b1} ELSE {b2, b3, spare}]

(* The ticket b1 would make for a stake of 3 on YES, perhaps in the hands  *)
(* of another bettor; one for NO under a key kept for later; and a hash    *)
(* nobody can open.                                                        *)
ForeignTicket == [outcome |-> YES, amount |-> 3, key |-> b1]
SpareTicket   == [outcome |-> NO, amount |-> 1, key |-> spare]
LostTicket    == [outcome |-> YES, amount |-> 3, key |-> lost]

Foreign  == {ForeignTicket}
Assorted == {ForeignTicket, SpareTicket, LostTicket}

(* Accounts that read as a vote, those of unverified proofs and those with *)
(* some other byte in the place of the outcome.                            *)
Vote(o)  == [verified |-> TRUE, outcome |-> o]
TwoVotes == {Vote(NO), Vote(YES)}
AnyData  == TwoVotes \cup {[verified |-> FALSE, outcome |-> YES], Vote(2)}

Source(d) == [domain |-> d, path |-> "/btc", json_path |-> "price"]

Params(close, deadline, sources, required) ==
    [close_timestamp |-> close, resolution_deadline |-> deadline,
     source_configs |-> sources, required_sources |-> required,
     question |-> "over"]

Reading(d, o) ==
    [verified |-> TRUE, question |-> "over", domain |-> d, path |-> "/btc",
     json_path |-> "price", outcome |-> o]

(* One source: the money runs. *)
OneSource       == {Params(1, 2, <<Source("coinbase")>>, 1)}
OneSourceProofs == {Reading("coinbase", NO), Reading("coinbase", YES)}

(* Four sources, of which coinbase and kraken may disagree, kraken is      *)
(* configured twice and binance always says NO; and arguments init_market  *)
(* must refuse.                                                            *)
ManySources ==
    {Params(1, 3, <<Source("coinbase"), Source("kraken"), Source("binance"), Source("kraken")>>, 2),
     Params(1, 3, <<Source("coinbase"), Source("kraken"), Source("binance")>>, 3),
     Params(1, 2, <<Source("binance"), Source("binance")>>, 1),
     Params(1, 2, <<Source("binance")>>, 2),
     Params(1, 2, <<Source("binance")>>, 0),
     Params(2, 2, <<Source("binance")>>, 1),
     Params(0, 2, <<Source("binance")>>, 1)}

ManyProofs ==
    {Reading(d, o) : d \in {"coinbase", "kraken"}, o \in {NO, YES}}
    \cup {Reading("binance", NO)}
    \cup {[Reading("binance", YES) EXCEPT !.verified = FALSE],
          [Reading("binance", YES) EXCEPT !.question = "under"],
          [Reading("binance", YES) EXCEPT !.json_path = "volume"],
          Reading("binance", 2)}

(* Two pages of one API whose JSON has the same key.                       *)
TwoPages      == OneSource
TwoPageProofs == {Reading("coinbase", YES), [Reading("coinbase", NO) EXCEPT !.path = "/eth"]}

=============================================================================
