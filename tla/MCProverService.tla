--------------------------- MODULE MCProverService ---------------------------
(***************************************************************************)
(* Small instances of the prover service for TLC.                          *)
(***************************************************************************)
EXTENDS ProverService, MCKrnMarket

CONSTANTS s1, s2

TwoServices == {s1, s2}
OneService  == {s1}

(* sources.json.  The second entry of coinbase is never reached, and the   *)
(* entry of bitstamp extracts another value than markets ask for.          *)
Entries ==
    <<Source("coinbase"), Source("kraken"),
      [Source("coinbase") EXCEPT !.path = "/eth"],
      [Source("bitstamp") EXCEPT !.json_path = "volume"]>>

(* A market whose two quorum sources are registered, with a spare source;  *)
(* one that needs a single proof; one whose first source is unknown and    *)
(* whose second source is registered with another extraction.              *)
ServiceParams ==
    {Params(1, 2, <<Source("coinbase"), Source("kraken"), Source("coinbase")>>, 2),
     Params(1, 2, <<Source("kraken")>>, 1),
     Params(1, 2, <<Source("binance"), Source("bitstamp")>>, 2)}

(* The price read from coinbase changes while the service works.           *)
ServiceReadings ==
    {Reading("coinbase", NO), Reading("coinbase", YES),
     Reading("kraken", NO),
     [Reading("bitstamp", YES) EXCEPT !.json_path = "volume"]}

=============================================================================
