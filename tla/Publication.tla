---------------------------- MODULE Publication ----------------------------
(***************************************************************************)
(* Which prices the keeper loop publishes before it executes orders        *)
(* (oracle/src/keeper_loop.rs). A cycle works on the copy of the fresh     *)
(* prices it took when it began, publishes the tokens that moved by more   *)
(* than their threshold since they were last published, and once per       *)
(* heartbeat everything. A publication whose outcome stays unknown may     *)
(* land after the cycle that sent it has ended, with no record of it.      *)
(*                                                                         *)
(* The price loop, which fills the cache concurrently, is any supply of    *)
(* prices: a copy holds some of the tokens, at any median, each at any age *)
(* that is not stale. Time is discrete.                                    *)
(***************************************************************************)
EXTENDS Integers, FiniteSetsExt

CONSTANTS
  Tokens,
  MaxInt,          \* i128::MAX
  Medians,         \* the medians an aggregation of a token may yield
  Threshold,       \* submit_threshold_bps of a token
  StaleAfter,      \* stale_after_seconds of a token
  Heartbeat,       \* PRICE_HEARTBEAT_INTERVAL_SECS
  CycleTimeout,    \* KEEPER_CYCLE_TIMEOUT_SECS
  MaxLive,         \* bound: publications that can still land
  Horizon          \* bound: time

ASSUME MediansAssumption == Medians \in [Tokens -> SUBSET (1..MaxInt)]
ASSUME SettingsAssumption ==
  Threshold \in [Tokens -> Nat] /\ StaleAfter \in [Tokens -> Nat]
ASSUME TimesAssumption ==
  Heartbeat \in Nat \ {0} /\ {CycleTimeout, MaxLive, Horizon} \subseteq Nat

BPS_DENOMINATOR == 10000

VARIABLES
  now,
  \* price_cache, where the keeper writes it
  last_submitted_medians,
  last_full_submission,    \* -1: never
  \* execute_keeper_cycle
  kpc, k_started,
  fresh,                   \* the copy of the fresh prices
  batch,                   \* what is being published, since when it counts
  counts_from, is_heartbeat,
  \* the chain
  chain,                   \* the oracle contract's prices
  live,                    \* set_prices transactions that can still land
  landed,                  \* the one being polled has
  \* history
  unrecorded               \* one may have landed, or may land, with no record
                           \* since the last recorded full publication

recordVars == <<last_submitted_medians, last_full_submission, unrecorded>>
cycleVars == <<k_started, fresh, batch, counts_from, is_heartbeat>>
chainVars == <<chain, live, landed>>
vars == <<now, recordVars, kpc, cycleVars, chainVars>>

MaxAge == Max({StaleAfter[t] : t \in Tokens})

Times == -MaxAge..Horizon

Some == UNION {Medians[t] : t \in Tokens}

Price == [median : Some, timestamp : Times]

\* a value for some of the tokens
Partial(S) == UNION {[T -> S] : T \in SUBSET Tokens}

NothingPriced == [t \in {} |-> 0]

TypeOK ==
  /\ now \in 0..Horizon
  /\ {fresh, batch, chain} \subseteq Partial(Price)
  /\ last_submitted_medians \in Partial(Some)
  /\ last_full_submission \in -1..now
  /\ kpc \in {"idle", "read", "sent", "orders"} /\ k_started \in 0..now
  /\ counts_from \in 0..now
  /\ {is_heartbeat, landed, unrecorded} \subseteq BOOLEAN
  /\ live \subseteq [prices : Partial(Price), polled : BOOLEAN]
  /\ kpc # "idle" => now - k_started <= CycleTimeout

Init ==
  /\ now = 0
  /\ last_submitted_medians = NothingPriced
  /\ last_full_submission = -1
  /\ kpc = "idle" /\ k_started = 0
  /\ fresh = NothingPriced /\ batch = NothingPriced
  /\ counts_from = 0 /\ is_heartbeat = FALSE
  /\ chain = NothingPriced
  /\ live = {} /\ landed = FALSE
  /\ unrecorded = FALSE

Only(f, T) == [t \in DOMAIN f \cap T |-> f[t]]

Updated(f, g) ==
  [t \in DOMAIN f \cup DOMAIN g |-> IF t \in DOMAIN g THEN g[t] ELSE f[t]]

-----------------------------------------------------------------------------
(* execute_keeper_cycle, from the copy of the prices to the orders.        *)

EndKeeperCycle ==
  /\ kpc' = "idle" /\ k_started' = 0
  /\ fresh' = NothingPriced
  /\ batch' = NothingPriced /\ counts_from' = 0 /\ is_heartbeat' = FALSE
  /\ landed' = FALSE

(* CachedPrice::is_stale: a timestamp ahead of the clock is stale too.     *)
(* Mutant: fresh for one unit longer.                                      *)
IsStaleLate(t, price) == price.timestamp > now \/ now - price.timestamp > StaleAfter[t]

IsStale(t, price) == price.timestamp > now \/ now - price.timestamp >= StaleAfter[t]

BeginKeeperCycle ==
  /\ kpc = "idle"
  /\ kpc' = "read"
  /\ k_started' = now
  /\ \E T \in SUBSET Tokens :
     \E prices \in [T -> [median : Some, timestamp : Times]] :
       /\ \A t \in T : prices[t].median \in Medians[t] /\ ~IsStale(t, prices[t])
       /\ fresh' = prices
  /\ UNCHANGED <<now, recordVars, batch, counts_from, is_heartbeat, chainVars>>

(* Mutant: due one unit later.                                             *)
HeartbeatDueLate ==
  last_full_submission = -1 \/ now - last_full_submission > Heartbeat

HeartbeatDue ==
  last_full_submission = -1 \/ now - last_full_submission >= Heartbeat

(* The medians are positive, so the difference always fits.                *)
Distance(a, b) == IF b < a THEN a - b ELSE b - a

(* Mutant: a product that does not fit is taken for no move.               *)
MoveThatFits(last, median, bps) ==
  LET scaled_change == Distance(last, median) * BPS_DENOMINATOR  bound == last * bps
  IN  scaled_change <= MaxInt /\ bound <= MaxInt /\ scaled_change > bound

(* A product that does not fit counts as a move, whichever of the two.     *)
MoveExceedsBps(last, median, bps) ==
  LET scaled_change == Distance(last, median) * BPS_DENOMINATOR  bound == last * bps
  IN  /\ median # last
      /\ scaled_change <= MaxInt /\ bound <= MaxInt => scaled_change > bound

(* filter_prices_by_threshold: the tokens that moved.                      *)
Moved ==
  {t \in DOMAIN fresh :
     \/ t \notin DOMAIN last_submitted_medians
     \/ Threshold[t] = 0
     \/ MoveExceedsBps(last_submitted_medians[t], fresh[t].median, Threshold[t])}

(* No fresh price: neither publication nor orders. Nothing to publish: on  *)
(* to the orders. A publication that cannot be built or is refused ends    *)
(* the cycle. Each one asks for the account's sequence number, so all that *)
(* can still land have the same.                                           *)
Publish ==
  /\ kpc = "read"
  /\ LET due    == HeartbeatDue
         prices == IF due THEN fresh ELSE Only(fresh, Moved)
     IN
     \/ /\ DOMAIN fresh = {}
        /\ EndKeeperCycle
        /\ UNCHANGED live
     \/ /\ DOMAIN fresh # {}
        /\ DOMAIN prices = {} /\ ~due
        /\ kpc' = "orders"
        /\ UNCHANGED <<cycleVars, live, landed>>
     \/ /\ DOMAIN fresh # {}
        /\ DOMAIN prices # {} \/ due
        /\ \/ /\ kpc' = "sent"
              /\ batch' = prices
              /\ counts_from' = now
              /\ is_heartbeat' = due
              /\ Cardinality(live) < MaxLive
              /\ live' = live \cup {[prices |-> prices, polled |-> TRUE]}
              /\ UNCHANGED <<k_started, fresh, landed>>
           \/ /\ EndKeeperCycle
              /\ UNCHANGED live
  /\ UNCHANGED <<now, recordVars, chain>>

(* Mutant: everything fresh is recorded although only the tokens that      *)
(* moved were published.                                                   *)
MediansOf(prices) == [t \in DOMAIN prices |-> prices[t].median]

RecordFresh ==
  last_submitted_medians' = Updated(last_submitted_medians, MediansOf(fresh))

RecordMedians ==
  last_submitted_medians' =
    IF is_heartbeat THEN MediansOf(batch)
    ELSE Updated(last_submitted_medians, MediansOf(batch))

(* Confirmed: update_submitted_prices, and on to the orders.               *)
Confirmed ==
  /\ kpc = "sent" /\ landed
  /\ kpc' = "orders"
  /\ RecordMedians
  /\ last_full_submission' = IF is_heartbeat THEN counts_from ELSE last_full_submission
  /\ unrecorded' = (unrecorded /\ ~is_heartbeat)
  /\ UNCHANGED <<now, cycleVars, chainVars>>

(* Not polled any more: a batch that can still land is an orphan.          *)
Orphaned == {[b EXCEPT !.polled = FALSE] : b \in live}

(* The cycle ends: it has no pending work or no balance, any other report  *)
(* came back from the publication (nothing is recorded, whether or not the *)
(* batch has landed or will), the orders are done, or the cap drops it.    *)
GiveUp ==
  /\ kpc # "idle"
  /\ EndKeeperCycle
  /\ live' = Orphaned
  /\ unrecorded' = (unrecorded \/ (kpc = "sent" /\ (landed \/ \E b \in live : b.polled)))
  /\ UNCHANGED <<now, last_submitted_medians, last_full_submission, chain>>

-----------------------------------------------------------------------------
(* The Stellar network.                                                    *)

(* One of the account's transactions is included: none with the same       *)
(* number ever will be.                                                    *)
Land(b) ==
  /\ chain' = Updated(chain, b.prices)
  /\ live' = {}
  /\ landed' = (landed \/ b.polled)
  /\ UNCHANGED <<now, recordVars, kpc, cycleVars>>

(* Included and failed, or an order of another cycle.                      *)
Fail ==
  /\ live # {}
  /\ live' = {}
  /\ UNCHANGED <<now, recordVars, kpc, cycleVars, chain, landed>>

(* Dropped, past its max_time at the latest.                               *)
Expire(b) ==
  /\ live' = live \ {b}
  /\ UNCHANGED <<now, recordVars, kpc, cycleVars, chain, landed>>

(* An order of this cycle is executed, against the prices on chain.        *)
ExecuteOrder ==
  /\ kpc = "orders"
  /\ live' = {}
  /\ UNCHANGED <<now, recordVars, kpc, cycleVars, chain, landed>>

WithinCap == kpc # "idle" => now - k_started < CycleTimeout

Tick ==
  /\ now < Horizon
  /\ WithinCap
  /\ now' = now + 1
  /\ UNCHANGED <<recordVars, kpc, cycleVars, chainVars>>

Next ==
  \/ BeginKeeperCycle \/ Publish \/ Confirmed \/ GiveUp
  \/ \E b \in live : Land(b) \/ Expire(b)
  \/ Fail
  \/ ExecuteOrder
  \/ Tick

Spec == Init /\ [][Next]_vars

-----------------------------------------------------------------------------
(* Properties.                                                             *)

CloseTo(t) ==
  /\ t \in DOMAIN chain
  /\ Distance(chain[t].median, fresh[t].median) * BPS_DENOMINATOR
       <= chain[t].median * Threshold[t]

(* While orders are executed, what the chain says of every token that is   *)
(* fresh in this cycle is within its threshold of what the keeper has,     *)
(* however the tokens to publish were chosen in all the cycles before and  *)
(* whatever overflowed in choosing them; unless a publication went         *)
(* unrecorded (#1242, #1145).                                              *)
PublishedClose ==
  kpc = "orders" /\ ~unrecorded => \A t \in DOMAIN fresh : CloseTo(t)

(* And where one did, the heartbeat ends it: while the price on chain of a *)
(* fresh token is not close, the last full publication is less than a      *)
(* heartbeat, and the cycle, ago.                                          *)
DriftEnds ==
  kpc = "orders" =>
    \A t \in DOMAIN fresh :
      ~CloseTo(t) => now - last_full_submission < Heartbeat + CycleTimeout

(* The price on chain of a token that is fresh in this cycle is never      *)
(* older, when an order is executed, than a price about to be stale that   *)
(* waited a cycle to be published, a heartbeat to be published again, and  *)
(* a cycle for the order.                                                  *)
AgeBounded ==
  kpc = "orders" =>
    \A t \in DOMAIN fresh \cap DOMAIN chain :
      now - chain[t].timestamp
        <= (StaleAfter[t] - 1) + CycleTimeout + (Heartbeat - 1) + CycleTimeout

=============================================================================
