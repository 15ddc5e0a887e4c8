----------------------------- MODULE MCProcess -----------------------------
(* Two tokens of two sources each, and what their fields may have by       *)
(* mistake.                                                                *)
EXTENDS Process

TokenOf(symbol, address, sources, binance, coinbase, pyth, fixed) ==
  [symbol |-> symbol, address |-> address, sources |-> sources,
   binance |-> binance, coinbase |-> coinbase, pyth |-> pyth, fixed |-> fixed,
   min_sources |-> 2, max_deviation_bps |-> 100, stale_after_seconds |-> 60,
   submit_threshold_bps |-> 10, pyth_max_confidence_bps |-> 100]

TwoTokens ==
  << TokenOf("btc", "c1", <<"binance", "pyth">>, "BTCUSDT", "none", "feed1", "none"),
     TokenOf("usd", "c2", <<"pyth", "fixed">>, "none", "USD", "feed2", "1") >>

Mistakes ==
  [symbol |-> {"", "btc"}, address |-> {"", "bad", "c1"},
   sources |-> {<<>>, <<"pyth">>, <<"pyth", "pyth">>, <<"pyth", "coinbase">>, <<"kraken", "pyth">>},
   binance |-> {"none", "", "bad", "BTCUSDT"}, coinbase |-> {"none", "bad"},
   pyth |-> {"none", "feed1"}, fixed |-> {"none", "bad"},
   min_sources |-> {0, 1, 3}, max_deviation_bps |-> {0, 10001},
   stale_after_seconds |-> {0}, submit_threshold_bps |-> {0, 10001},
   pyth_max_confidence_bps |-> {10001}]
=============================================================================
