---------------------------- MODULE MCPriceLoop ----------------------------
(***************************************************************************)
(* Two tokens for TLC: one whose Binance quote waits for Coinbase, and one *)
(* that needs both Pyth and its configured price.                          *)
(***************************************************************************)
EXTENDS PriceLoop

CONSTANTS spot, pegged

TwoSources    == [t \in {spot, pegged} |-> IF t = spot THEN <<"coinbase", "binance">>
                                           ELSE <<"pyth", "fixed">>]
TwoMinSources == [t \in {spot, pegged} |-> IF t = spot THEN 1 ELSE 2]
NowOrAhead    == {-1, 0}
=============================================================================
