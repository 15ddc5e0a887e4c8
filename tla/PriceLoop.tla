----------------------------- MODULE PriceLoop -----------------------------
(***************************************************************************)
(* The price loop (oracle/src/price_loop.rs): how a cycle fills the price  *)
(* cache from sources that are slow, fail, or answer with old prices, under *)
(* the cap on its duration.                                                *)
(*                                                                         *)
(* The unit of time is the timeout of the HTTP client (15 s): a request is *)
(* answered in the unit it is sent, or runs into its timeout in the next.  *)
(* The delays between attempts, all below a second, are left out. Prices   *)
(* carry their age instead of a timestamp, negative for a timestamp ahead  *)
(* of the clock. Whether the sources of a token agree is a choice: what an *)
(* aggregation uses and rejects is module Aggregate.                       *)
(***************************************************************************)
EXTENDS Integers, Sequences, FiniteSetsExt

CONSTANTS
  Tokens,
  Sources,         \* the sequence of sources of a token
  MinSources,      \* min_sources of a token
  StaleAfter,      \* stale_after_seconds, of every token
  PublishAges,     \* ages of the prices in an answer of Hermes
  Interval,        \* price_loop_interval
  CycleTimeout,    \* PRICE_CYCLE_TIMEOUT_SECS
  MaxFutureSkew    \* MAX_FUTURE_SKEW_SECONDS

Kinds == {"binance", "coinbase", "pyth", "fixed"}

ASSUME SourcesAssumption ==
  /\ Sources \in [Tokens -> Seq(Kinds)]
  /\ MinSources \in [Tokens -> Nat \ {0}]
ASSUME TimesAssumption ==
  {StaleAfter, Interval, CycleTimeout, MaxFutureSkew} \subseteq Nat \ {0}
ASSUME PublishAgesAssumption == PublishAges \subseteq Int /\ PublishAges # {}

HTTP_TIMEOUT == 1
LEDGER_SEQUENCE_RETRY_ATTEMPTS == 3
SOURCE_RETRY_ATTEMPTS == 3

\* ages beyond this one are not told apart; of a price, stale ones are not
MaxAge == StaleAfter + 1

Ages == Min(PublishAges \cup {0})..MaxAge

\* age: since its timestamp; lag: by how much the quote it rests on is older
Price == [age : Ages, lag : 0..CycleTimeout]

Idle == [status |-> "idle", try |-> 1, waited |-> 0]
Asking == [Idle EXCEPT !.status = "asking"]

Call == [status : {"idle", "asking", "ok", "failed"},
         try : 1..LEDGER_SEQUENCE_RETRY_ATTEMPTS, waited : 0..HTTP_TIMEOUT]

VARIABLES
  cache,           \* price_cache.prices
  pc,              \* where the cycle is
  since,           \* time since the last tick of the interval
  ledger, hermes, binance,  \* the requests of the whole cycle
  feeds,           \* pyth_prices: the ages of the feeds answered
  symbols,         \* binance_prices: the tokens that are in it
  batch_age,       \* time since Binance answered the batch
  fetch,           \* a token's next source, the attempt, the request's age
  got,             \* a token's quotes, by the position of the source
  calm             \* the services have become prompt and well, for good

batchVars == <<ledger, hermes, binance, feeds, symbols, batch_age>>
fetchVars == <<fetch, got>>
vars == <<cache, pc, since, batchVars, fetchVars, calm>>

\* a value for some of the tokens
Partial(S) == UNION {[T -> S] : T \in SUBSET Tokens}

Nothing == [t \in {} |-> 0]

NothingFetched == [t \in Tokens |-> [next |-> 1, try |-> 1, waited |-> 0]]
NothingGot == [t \in Tokens |-> Nothing]

TypeOK ==
  /\ cache \in Partial(Price)
  /\ pc \in {"idle", "join", "binance", "fetch"}
  /\ since \in 0..CycleTimeout
  /\ {ledger, hermes, binance} \subseteq Call
  /\ feeds \in Partial(Ages)
  /\ symbols \subseteq Tokens /\ batch_age \in 0..CycleTimeout
  /\ \A t \in Tokens :
       /\ fetch[t] \in [next : 1..Len(Sources[t]) + 1,
                        try : 1..SOURCE_RETRY_ATTEMPTS, waited : 0..HTTP_TIMEOUT]
       /\ DOMAIN got[t] \subseteq 1..(fetch[t].next - 1)
       /\ \A i \in DOMAIN got[t] : got[t][i] \in Price
  /\ calm \in BOOLEAN

Init ==
  /\ cache = Nothing
  /\ pc = "idle" /\ since = Interval
  /\ ledger = Idle /\ hermes = Idle /\ binance = Idle
  /\ feeds = Nothing /\ symbols = {} /\ batch_age = 0
  /\ fetch = NothingFetched /\ got = NothingGot
  /\ calm = FALSE

-----------------------------------------------------------------------------
(* The tick, and the requests of the whole cycle.                          *)

Uses(t, kind) == \E i \in 1..Len(Sources[t]) : Sources[t][i] = kind

StartCycle ==
  /\ pc = "idle" /\ since >= Interval
  /\ pc' = "join" /\ since' = 0
  /\ ledger' = Asking
  /\ hermes' = IF \E t \in Tokens : Uses(t, "pyth") THEN Asking
               ELSE [Idle EXCEPT !.status = "ok"]
  /\ UNCHANGED <<cache, binance, feeds, symbols, batch_age, fetchVars, calm>>

EndCycle ==
  /\ pc' = "idle"
  /\ ledger' = Idle /\ hermes' = Idle /\ binance' = Idle
  /\ feeds' = Nothing /\ symbols' = {} /\ batch_age' = 0
  /\ fetch' = NothingFetched /\ got' = NothingGot

\* an answer is in time, and a transient failure worth another attempt
InTime(call) == calm \/ call.waited < HTTP_TIMEOUT

LedgerAnswered ==
  /\ ledger.status = "asking" /\ InTime(ledger)
  /\ ledger' = [Idle EXCEPT !.status = "ok"]
  /\ UNCHANGED <<cache, pc, since, hermes, binance, feeds, symbols, batch_age,
                 fetchVars, calm>>

LedgerFailed ==
  /\ ledger.status = "asking" /\ ~calm
  /\ \/ /\ ledger.try < LEDGER_SEQUENCE_RETRY_ATTEMPTS
        /\ ledger' = [Asking EXCEPT !.try = ledger.try + 1]
     \/ /\ ledger.try = LEDGER_SEQUENCE_RETRY_ATTEMPTS \/ InTime(ledger)
        /\ ledger' = [Idle EXCEPT !.status = "failed"]
  /\ UNCHANGED <<cache, pc, since, hermes, binance, feeds, symbols, batch_age,
                 fetchVars, calm>>

HermesAnswered ==
  /\ hermes.status = "asking" /\ InTime(hermes)
  /\ hermes' = [Idle EXCEPT !.status = "ok"]
  /\ \E listed \in SUBSET {t \in Tokens : Uses(t, "pyth")} :
     \E ages \in [listed -> PublishAges] :
       /\ calm => \A t \in Tokens : Uses(t, "pyth") => t \in listed /\ ages[t] = 0
       /\ feeds' = ages
  /\ UNCHANGED <<cache, pc, since, ledger, binance, symbols, batch_age, fetchVars, calm>>

HermesFailed ==
  /\ hermes.status = "asking" /\ ~calm
  /\ hermes' = [Idle EXCEPT !.status = "failed"]
  /\ UNCHANGED <<cache, pc, since, ledger, binance, feeds, symbols, batch_age,
                 fetchVars, calm>>

Joined == pc = "join" /\ "asking" \notin {ledger.status, hermes.status}

(* No ledger sequence: the cycle returns and the cache stays as it is.     *)
GiveUp ==
  /\ Joined /\ ledger.status = "failed"
  /\ EndCycle
  /\ UNCHANGED <<cache, since, calm>>

AskBinance ==
  /\ Joined /\ ledger.status = "ok"
  /\ IF \E t \in Tokens : Uses(t, "binance")
     THEN pc' = "binance" /\ binance' = Asking
     ELSE pc' = "fetch" /\ binance' = [Idle EXCEPT !.status = "failed"]
  /\ UNCHANGED <<cache, since, ledger, hermes, feeds, symbols, batch_age, fetchVars, calm>>

BinanceAnswered ==
  /\ pc = "binance" /\ InTime(binance)
  /\ binance' = [Idle EXCEPT !.status = "ok"]
  /\ pc' = "fetch"
  /\ \E listed \in SUBSET {t \in Tokens : Uses(t, "binance")} :
       /\ calm => \A t \in Tokens : Uses(t, "binance") => t \in listed
       /\ symbols' = listed
  /\ UNCHANGED <<cache, since, ledger, hermes, feeds, batch_age, fetchVars, calm>>

BinanceFailed ==
  /\ pc = "binance" /\ ~calm
  /\ binance' = [Idle EXCEPT !.status = "failed"]
  /\ pc' = "fetch"
  /\ UNCHANGED <<cache, since, ledger, hermes, feeds, symbols, batch_age, fetchVars, calm>>

-----------------------------------------------------------------------------
(* build_cached_price: a token's sources, one after the other; the tokens  *)
(* concurrently.                                                           *)

Last(t) == Len(Sources[t])

Current(t) == Sources[t][fetch[t].next]

Fetching(t) == pc = "fetch" /\ fetch[t].next <= Last(t)

(* fetch_source_price asks the source itself, except where a batch answers *)
(* or rules the question out.                                              *)
NeedsRequest(t) ==
  \/ Current(t) = "coinbase"
  \/ Current(t) = "binance" /\ binance.status = "failed"
  \/ Current(t) = "pyth" /\ hermes.status = "ok" /\ t \notin DOMAIN feeds

\* on to the next source, with or without a quote of this one
Advance(t, quotes) ==
  /\ fetch' = [fetch EXCEPT ![t] = [next |-> @.next + 1, try |-> 1, waited |-> 0]]
  /\ got' = [got EXCEPT ![t] =
       [i \in DOMAIN @ \cup {j \in {fetch[t].next} : quotes # {}} |->
          IF i \in DOMAIN @ THEN @[i] ELSE CHOOSE q \in quotes : TRUE]]

\* validate_pyth_price, given the age at the time it is asked with
Acceptable(age) == age <= StaleAfter /\ -age <= MaxFutureSkew

(* What is there without a request: at most one quote. A Binance price is  *)
(* stamped with the time it is taken from the map, a Pyth price with its   *)
(* publication.                                                            *)
AtHand(t) ==
  CASE Current(t) = "binance" ->
         IF t \in symbols THEN {[age |-> 0, lag |-> batch_age]} ELSE {}
    [] Current(t) = "pyth" ->
         IF hermes.status = "ok" /\ Acceptable(feeds[t])
         THEN {[age |-> feeds[t], lag |-> 0]} ELSE {}
    [] OTHER -> {[age |-> 0, lag |-> 0]}

(* No request. A feed may also be refused for its confidence interval. An  *)
(* error here stays the same for every attempt.                            *)
TakeQuote(t) ==
  /\ Fetching(t) /\ ~NeedsRequest(t)
  /\ \/ Advance(t, AtHand(t))
     \/ Current(t) = "pyth" /\ ~calm /\ Advance(t, {})
  /\ UNCHANGED <<cache, pc, since, batchVars, calm>>

(* A request is answered with an acceptable price, stamped with the time   *)
(* the request began, a price of Hermes with its publication.              *)
SourceAnswered(t) ==
  /\ Fetching(t) /\ NeedsRequest(t) /\ InTime(fetch[t])
  /\ \/ /\ Current(t) # "pyth"
        /\ Advance(t, {[age |-> fetch[t].waited, lag |-> 0]})
     \/ /\ Current(t) = "pyth"
        /\ \E age \in PublishAges :
             /\ Acceptable(age - fetch[t].waited) /\ (calm => age = 0)
             /\ Advance(t, {[age |-> age, lag |-> 0]})
  /\ UNCHANGED <<cache, pc, since, batchVars, calm>>

(* Mutant: an attempt too many.                                            *)
SourceFailedLate(t) ==
  /\ Fetching(t) /\ NeedsRequest(t) /\ ~calm
  /\ \/ /\ fetch[t].try <= SOURCE_RETRY_ATTEMPTS
        /\ fetch' = [fetch EXCEPT ![t].try = @ + 1, ![t].waited = 0]
        /\ UNCHANGED got
     \/ /\ fetch[t].try > SOURCE_RETRY_ATTEMPTS \/ InTime(fetch[t])
        /\ Advance(t, {})
  /\ UNCHANGED <<cache, pc, since, batchVars, calm>>

(* It fails, runs into its timeout or brings a price too old: another      *)
(* attempt if the error is transient and one is left, otherwise the source *)
(* is passed over.                                                         *)
SourceFailed(t) ==
  /\ Fetching(t) /\ NeedsRequest(t) /\ ~calm
  /\ \/ /\ fetch[t].try < SOURCE_RETRY_ATTEMPTS
        /\ fetch' = [fetch EXCEPT ![t].try = @ + 1, ![t].waited = 0]
        /\ UNCHANGED got
     \/ /\ fetch[t].try = SOURCE_RETRY_ATTEMPTS \/ InTime(fetch[t])
        /\ Advance(t, {})
  /\ UNCHANGED <<cache, pc, since, batchVars, calm>>

-----------------------------------------------------------------------------
(* The one write at the end, and the cap.                                  *)

IsStale(price) == price.age < 0 \/ price.age >= StaleAfter

Fresh(t) == t \in DOMAIN cache /\ ~IsStale(cache[t])

(* The price of the sources used: the minimum of their observation times.  *)
Aggregated(quotes) ==
  LET oldest == Max({q.age : q \in quotes})
      seen   == Max({q.age + q.lag : q \in quotes})
  IN  [age |-> oldest, lag |-> seen - oldest]

(* Mutant: a token whose cached price is stale is skipped (#1209).         *)
UsableUnlessStale(t) ==
  {used \in SUBSET DOMAIN got[t] :
     /\ t \in DOMAIN cache => ~IsStale(cache[t])
     /\ Cardinality(used) >= MinSources[t] /\ (calm => used = DOMAIN got[t])}

(* The sets of sources an aggregation may use.                             *)
Usable(t) ==
  {used \in SUBSET DOMAIN got[t] :
     Cardinality(used) >= MinSources[t] /\ (calm => used = DOMAIN got[t])}

(* Mutant: the cache is cleared whenever no token got a price.             *)
WritePricesBuiltOnly ==
  /\ pc = "fetch" /\ \A t \in Tokens : fetch[t].next > Last(t)
  /\ \E built \in SUBSET {t \in Tokens : Usable(t) # {}} :
     \E used \in [built -> SUBSET (1..Max({Last(t) : t \in Tokens}))] :
       /\ calm => \A t \in Tokens : Usable(t) # {} => t \in built
       /\ \A t \in built : used[t] \in Usable(t)
       /\ cache' = [t \in IF built # {} THEN DOMAIN cache \cup built ELSE {} |->
                      IF t \in built THEN Aggregated({got[t][i] : i \in used[t]})
                      ELSE cache[t]]
  /\ EndCycle
  /\ UNCHANGED <<since, calm>>

(* Some tokens get a price, of the others the fresh ones keep theirs; with *)
(* neither the cache is cleared.                                           *)
WritePrices ==
  /\ pc = "fetch" /\ \A t \in Tokens : fetch[t].next > Last(t)
  /\ \E built \in SUBSET {t \in Tokens : Usable(t) # {}} :
     \E used \in [built -> SUBSET (1..Max({Last(t) : t \in Tokens}))] :
       /\ calm => \A t \in Tokens : Usable(t) # {} => t \in built
       /\ \A t \in built : used[t] \in Usable(t)
       /\ cache' = [t \in IF built # {} \/ \E k \in Tokens : Fresh(k)
                          THEN DOMAIN cache \cup built ELSE {} |->
                      IF t \in built THEN Aggregated({got[t][i] : i \in used[t]})
                      ELSE cache[t]]
  /\ EndCycle
  /\ UNCHANGED <<since, calm>>

CycleCap ==
  /\ pc # "idle" /\ since >= CycleTimeout
  /\ EndCycle
  /\ UNCHANGED <<cache, since, calm>>

-----------------------------------------------------------------------------
(* Time, and the services' recovery.                                       *)

Patient(call) == call.status = "asking" => call.waited < HTTP_TIMEOUT

\* only requests take time
Waiting ==
  \/ pc = "idle" /\ since < Interval
  \/ /\ pc # "idle" /\ since < CycleTimeout /\ ~calm
     /\ pc = "join" => ~Joined
     /\ Patient(ledger) /\ Patient(hermes) /\ Patient(binance)
     /\ pc = "fetch" =>
          /\ \E t \in Tokens : Fetching(t)
          /\ \A t \in Tokens : Fetching(t) => NeedsRequest(t) /\ fetch[t].waited < HTTP_TIMEOUT

Older(price) == [price EXCEPT !.age = Min({@ + 1, StaleAfter})]

Longer(call) == IF call.status = "asking" THEN [call EXCEPT !.waited = @ + 1] ELSE call

Tick ==
  /\ Waiting
  /\ since' = since + 1
  /\ cache' = [t \in DOMAIN cache |-> Older(cache[t])]
  /\ ledger' = Longer(ledger) /\ hermes' = Longer(hermes) /\ binance' = Longer(binance)
  /\ feeds' = [t \in DOMAIN feeds |-> Min({feeds[t] + 1, MaxAge})]
  /\ batch_age' = IF binance.status = "ok" THEN batch_age + 1 ELSE 0
  /\ fetch' = [t \in Tokens |-> IF Fetching(t) THEN [fetch[t] EXCEPT !.waited = @ + 1] ELSE fetch[t]]
  /\ got' = [t \in Tokens |-> [i \in DOMAIN got[t] |-> Older(got[t][i])]]
  /\ UNCHANGED <<pc, symbols, calm>>

ServicesRecover ==
  /\ ~calm
  /\ calm' = TRUE
  /\ UNCHANGED <<cache, pc, since, batchVars, fetchVars>>

CycleStep ==
  \/ LedgerAnswered \/ LedgerFailed \/ HermesAnswered \/ HermesFailed
  \/ GiveUp \/ AskBinance \/ BinanceAnswered \/ BinanceFailed
  \/ \E t \in Tokens : TakeQuote(t) \/ SourceAnswered(t) \/ SourceFailed(t)
  \/ WritePrices

Step == StartCycle \/ CycleStep \/ CycleCap \/ Tick

Next == Step \/ ServicesRecover

(* Time passes, the interval and the cap are timers of the runtime, and    *)
(* every request has the client's timeout: the loop never halts. That the  *)
(* services recover is not assumed.                                        *)
Spec == Init /\ [][Next]_vars /\ WF_vars(Step)

-----------------------------------------------------------------------------
(* A price that is still fresh stays as it is and grows older, or gives    *)
(* way to one that is as old as a quote of this very cycle, when at least  *)
(* min_sources of them came in. Failed sources, a missing ledger sequence, *)
(* the cap and the clearing of the cache, which is for the cycle left with *)
(* no valid price at all, never take it away.                              *)
FreshKept ==
  [][\A t \in Tokens : Fresh(t) =>
       /\ t \in DOMAIN cache'
       /\ \/ cache'[t] \in {cache[t], Older(cache[t])}
          \/ /\ Cardinality(DOMAIN got[t]) >= MinSources[t]
             /\ \E i \in DOMAIN got[t] : cache'[t].age = got[t][i].age]_vars

(* #1210 (price_loop.rs): the cache is updated after each token, so that   *)
(* one slow source does not stall the entire write. When a cycle ends with *)
(* a token still being fetched, a token that needs one source, is through  *)
(* with its own and got a quote from one of them, has a price.             *)
SlowSourceStallsNone ==
  [][(\E s \in Tokens : Fetching(s)) /\ pc' = "idle" =>
       \A t \in Tokens :
         ~Fetching(t) /\ MinSources[t] = 1 /\ DOMAIN got[t] # {} => t \in DOMAIN cache']_vars

(* A Binance quote of the batch is stamped when the token's sources before *)
(* it are through with their attempts, so a cached price may rest on a     *)
(* quote older than its timestamp: by a timeout per attempt of the sources *)
(* before it, at most.                                                     *)
StampLagBounded ==
  \A t \in DOMAIN cache :
    cache[t].lag <= HTTP_TIMEOUT * SOURCE_RETRY_ATTEMPTS * (Last(t) - 1)

(* #1209: tokens without a fresh price get one once the services are well, *)
(* all of them, whatever the cycles before left behind.                    *)
Recovers == calm ~> \A t \in Tokens : Fresh(t)
=============================================================================
