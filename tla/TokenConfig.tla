---------------------------- MODULE TokenConfig ----------------------------
(***************************************************************************)
(* PRICE_FEED_CONFIG: the checks of parse_token_configs (shared/config/    *)
(* src/lib.rs) on every token, and then those of parse_price_feed_config   *)
(* (oracle/src/config.rs). The first token with a fault is reported.       *)
(*                                                                         *)
(* Symbols and addresses are compared in lower case, so they stand for     *)
(* their lower-case forms; feed names are compared as they are. A value    *)
(* that is not set is "none"; one that is malformed is "bad", and no two   *)
(* malformed values are equal.                                             *)
(***************************************************************************)
EXTENDS Naturals, FiniteSets, Sequences

Supported == {"binance", "coinbase", "pyth", "fixed"}
Unset == {"none", ""}
MaxBps == 10000   \* one, in basis points

(* The address has no unset value, and the form of a feed is not checked.  *)
Token ==
  [symbol : STRING, address : STRING \ {"none"}, sources : Seq(STRING),
   binance : STRING, coinbase : STRING, pyth : STRING \ {"bad"}, fixed : STRING,
   min_sources : Nat, max_deviation_bps : Nat, stale_after_seconds : Nat,
   submit_threshold_bps : Nat, pyth_max_confidence_bps : Nat]

SourcesOf(t) == {t.sources[n] : n \in DOMAIN t.sources}
Uses(t, source) == source \in SourcesOf(t)

(* The name of a token in the price cache.                                 *)
LookupKey(t) == IF t.address = "" THEN t.symbol ELSE t.address

Repeats(ts, i, field) == \E j \in 1..(i - 1) : ts[j][field] = ts[i][field]

RepeatsFeed(ts, i, field) == ts[i][field] \notin Unset \cup {"bad"} /\ Repeats(ts, i, field)

(* The faults parse_token_configs looks for in a token.                    *)
SharedFault(ts, i) ==
  LET t == ts[i] IN
  \/ t.symbol = "" \/ Repeats(ts, i, "symbol")
  \/ \E field \in {"address", "pyth", "binance", "coinbase"} : RepeatsFeed(ts, i, field)
  \/ Cardinality(SourcesOf(t)) # Len(t.sources)
  \/ \E source \in {"binance", "coinbase"} : Uses(t, source) /\ t[source] \in {"", "bad"}
  \/ ~(SourcesOf(t) \subseteq Supported)
  \/ t.max_deviation_bps \notin 1..MaxBps
  \/ t.stale_after_seconds = 0
  \/ t.submit_threshold_bps > MaxBps
  \/ t.min_sources = 0
  \/ t.pyth_max_confidence_bps > MaxBps

(* Mutant: the source minimum is not compared with the sources.            *)
OracleFaultNoQuorum(ts, i) ==
  LET t == ts[i] IN
  \/ t.address \in {"", "bad"}
  \/ t.sources = <<>>
  \/ \E source \in {"binance", "coinbase"} : Uses(t, source) /\ t[source] = "none"
  \/ Uses(t, "pyth") /\ t.pyth \in Unset
  \/ Uses(t, "fixed") /\ t.fixed \in Unset \cup {"bad"}

(* The faults parse_price_feed_config adds.                                *)
OracleFault(ts, i) ==
  LET t == ts[i] IN
  \/ t.address \in {"", "bad"}
  \/ t.sources = <<>>
  \/ \E source \in {"binance", "coinbase"} : Uses(t, source) /\ t[source] = "none"
  \/ Uses(t, "pyth") /\ t.pyth \in Unset
  \/ Uses(t, "fixed") /\ t.fixed \in Unset \cup {"bad"}
  \/ t.min_sources > Len(t.sources)

(* The token the error of PRICE_FEED_CONFIG is about, 0 if there is none.  *)
FaultyToken(ts) ==
  LET shared == {i \in DOMAIN ts : SharedFault(ts, i)}
      oracle == {i \in DOMAIN ts : OracleFault(ts, i)}
      First(S) == CHOOSE i \in S : \A j \in S : i <= j
  IN  IF shared # {} THEN First(shared) ELSE IF oracle # {} THEN First(oracle) ELSE 0

-----------------------------------------------------------------------------
(* What the loops rely on.                                                 *)

(* A source that can answer: it is known, and so is what to ask it for.    *)
CanAnswer(t, source) ==
  CASE source = "binance"  -> t.binance \notin Unset \cup {"bad"}
    [] source = "coinbase" -> t.coinbase \notin Unset \cup {"bad"}
    [] source = "pyth"     -> t.pyth \notin Unset
    [] source = "fixed"    -> t.fixed \notin Unset \cup {"bad"}
    [] OTHER               -> FALSE

TokensUsable(ts) ==
  /\ ts # <<>>
  /\ \A i, j \in DOMAIN ts : i # j =>
       /\ LookupKey(ts[i]) # LookupKey(ts[j])
       /\ \A s \in {"binance", "coinbase", "pyth"} :
            Uses(ts[i], s) /\ Uses(ts[j], s) => ts[i][s] # ts[j][s]
  /\ \A i \in DOMAIN ts :
       /\ ts[i].address \notin {"", "bad"}
       /\ ts[i].min_sources \in 1..Cardinality({s \in SourcesOf(ts[i]) : CanAnswer(ts[i], s)})
       /\ ts[i].max_deviation_bps \in 1..MaxBps
       /\ ts[i].stale_after_seconds > 0

=============================================================================
