# The SO4 oracle keeper in TLA+

Models, model-checking configurations and proofs for the oracle keeper service
(`oracle/`): the process that collects prices, signs them, publishes them on
chain and executes the orders, deposits and withdrawals that users have
created. Paths below are relative to `oracle/src/` unless they say otherwise;
line numbers are in `PROJECT.json`, which maps every definition to the code it
stands for.

## 1. Inventory

One process, one Tokio runtime, one `Arc<AppState>`. Two background loops and
an HTTP server share that state; nothing is persisted.

| Component | State | Operations | Talks to |
|---|---|---|---|
| **keeper loop** (`keeper_loop.rs`) | `in_flight_keys`, `freeze_failure_counts`, `execution_failure_counts`, `frozen_order_blacklist` in `AppState`; a cycle's local work list | `run_keeper_loop`, `run_keeper_cycle` (50 s cap), `execute_keeper_cycle`, `sweep_expired_in_flight`, the freeze and blacklist paths | price cache (reads), Soroban RPC, admin handler (shared maps) |
| **pending keys** (`get_pending_keys`) | `pending_key_start_index`, one atomic for three lists | count, then keys, then rotation | reader contract by simulation |
| **sequence cache** (`execute_handler`, `set_prices_on_chain`) | a cycle's cached account sequence number | fetch, use, advance, drop | RPC |
| **submission** (`submit.rs`, `retry.rs`) | none beyond the call | `send_transaction_xdr`, `poll_until_confirmed`, `submit_and_poll` | RPC |
| **price publication** (`keeper_loop.rs`) | `last_submitted_medians`, `last_full_submission` | heartbeat, threshold filter, `set_prices`, record | price cache, oracle contract |
| **price loop** (`price_loop.rs`) | `price_cache.prices` | `run_price_cycle` (60 s cap), batches, per-token fetches, the one write | Binance, Coinbase, Pyth Hermes, RPC |
| **aggregation** (`prices.rs`) | none (pure) | cluster, outlier filter, median, band | price loop |
| **keeper status** (`state.rs`) | `keeper_status`, `cycle_status`, a generation counter | `keeper_status_snapshot` | HTTP handlers, keeper cycle |
| **process** (`main.rs`) | shutdown token, the three tasks | `select!`, drain, abort | signals, axum |
| **admin API** (`api/admin.rs`) | the keeper's maps | `clear_blacklisted_key`, reads | keeper loop |
| **readiness** (`api/prices.rs`) | `ready_cache`: the last result under one write lock | `/ready` | RPC and Horizon; the times of the last cycles |
| **admin authentication limiter** (`api/mod.rs`, `state.rs`) | failures and a window per client | `is_blocked`, `record_failure`, `record_success`, pruning | requests of the admin endpoints |
| **metrics** (`metrics.rs`, `api/mod.rs`) | counters under one mutex, two maps under their own, the in-flight gauge | the recorders, `track_metrics`, `to_prometheus` | price loop, every request |
| **sources** (`binance.rs`, `coinbase.rs`, `pyth.rs`, `fixed.rs`), **balance** (`stellar_rpc.rs`) | none | a reply becomes scaled integers or an error | price loop, keeper loop, readiness |
| **configuration** (`config.rs`, `shared/config`) | none after the start | `Config::from_lookup`, `parse_token_configs`, `parse_price_feed_config` | `main` |
| **RPC client, signing, encoding, failure log** | a ring buffer | I/O, cryptography | outside |

### What is hard here

* **Futures dropped at any await.** Both loops run their cycle under `timeout`:
  the cycle vanishes where it is suspended, with a transaction already sent and
  none of the bookkeeping behind the await done.
* **Outcomes nobody learns.** A request's answer is lost after the node took
  it; polls run out while the transaction may still land; a transaction lands
  one cycle later than the one that sent it.
* **State read before an await and used after it.** The copy of fresh prices,
  the in-flight mark, the cached sequence number, the shared rotating index.
* **Two writers.** The admin clears a key under three locks, one at a time,
  while the cycle executes, counts or blacklists that key.
* **Budgets.** Failure tallies, retry and poll limits, the heartbeat, the two
  halves of the shutdown, the wrong tokens a client may try in a window.
* **Check, then act.** Readiness looks at a cached result, waits for a lock and
  looks again; the limiter is asked before the token is compared and told of
  the result after; a request may be dropped between any two of these steps.
* **Locks taken in a lock.** A scrape holds the counters while it takes the maps.
* **Numeric edges.** Windows over sorted prices, tolerances in basis points,
  interpolated percentiles, staleness at its exact boundary, decimals that are
  cut, padded, signed, empty or too large.
* **Mistakes that hide each other.** An environment with several mistakes is to
  be refused once, with all of them named.

`PROJECT.json` lists each of these as a hazard at its line, with the properties
that would catch it.

### What makes each component correct

* keeper loop: a key whose transaction may still confirm is never submitted
  again; a blacklisted key is not executed; a mark never stays for good; a key
  that always fails is given up, and only for cause.
* pending keys: one read yields each key once, whatever the others do meanwhile.
* sequence cache: never ahead of the chain; a bad-sequence rejection has a
  cause outside the cycle; a fetch is paid for by an outcome.
* submission: one report; undecided only when it must be, and otherwise the last
  word on the transaction.
* publication: the chain is close to what the keeper has, and orders never run
  on a price older than a bound.
* price loop: a fresh price gives way only to one for which enough sources have
  answered, never to a failure; stale tokens recover;
  timestamps do not flatter quotes by more than a bound.
* aggregation: no minority decides, the signed median is within the tolerance
  of what it rests on, the band covers it.
* status: an answer that passed its check spans no cycle boundary.
* process: a shutdown ends within its grace period and each loop gets its stage.
* readiness: an `ok` is true of the recent past; a crowd of requests costs one
  check; a failure is not held against the service for good.
* limiter: no more guesses than the budget and what was under way; nobody's
  budget is forgotten early; a block ends.
* metrics: a page shows one generation of the counters; the gauge accounts for
  every request; a scrape never deadlocks.
* sources: a quote is the number its reply means, or an error.
* configuration: what is accepted can be worked with; what is wrong is named in
  one pass.

## 2. The modules

```
SubmitOutcome  the reports of a submission, which chain fates each allows
  |-- Keeper         one cycle after another, the in-memory maps, the chain
  |     |-- MCKeeper       environments for TLC
  |     `-- KeeperProofs   four theorems
  |-- Submission     what a submission promises (abstract)
  `-- Submit         submit_and_poll in detail, implements Submission
        `-- SubmitProofs   four theorems, the refinement among them
Sequence         the account sequence number over calls and cycles
  `-- SequenceProofs     three theorems
PendingKeys      the lists of keys and the index they share
Publication      heartbeat, thresholds, what lands and what is recorded
  |-- CycleProofs        five theorems, of the keys and of the prices
  `-- CycleParts     Sequence, PendingKeys and Publication
        `-- MCCycleParts       lists, medians and times for TLC
PriceLoop        a cycle's requests, their attempts, the one write
  |-- MCPriceLoop        sources and limits for TLC
  `-- PriceLoopProofs    two theorems
Aggregate        pure: one behaviour is one call
Quotes           pure: one behaviour is one reply
  `-- Pricing        Aggregate and Quotes
        `-- PricingProofs      six theorems
TokenConfig      pure: the rules for PRICE_FEED_CONFIG
  `-- Startup        environments, refused starts, corrections
Lifecycle        the running process and its shutdown
  `-- Process        Startup, then Lifecycle
        |-- MCProcess          tokens and mistakes for TLC
        `-- LifecycleProofs    five theorems, of the starts and of the shutdown
Readiness        /ready against the two loops
AdminAuth        the limiter of wrong admin tokens
Metrics          counters, gauge and scrape
StatusSnapshot   /keeper/status against a running cycle
  `-- Api            the four behind one server
        `-- ApiProofs          eight theorems, an invariant for each part
```

`Keeper` and `Submit` meet in `SubmitOutcome`. `Keeper` lets a submission
report anything that `MayReport` allows for what happened on chain; `Submit`
shows, and `SubmitProofs` proves, that `submit_and_poll` reports nothing else
(`Implements`). `Publication` and `PriceLoop` meet in the price cache:
`Publication` assumes of a copy only that `is_stale` let every price in it
through. `Process` runs `Startup` until the listener is bound and `Lifecycle`
from then on. `Api`, `Pricing` and `CycleParts` put modules side by side that share no state,
so a behaviour of theirs is a behaviour of one part, chosen at the start.

### How they correspond to the code

**Keeper.** `pc` is where the cycle is suspended (`fetch`, `set_prices`,
`scan`, `exec`, and the steps of the freeze and blacklist paths); each action
runs to the next await that another actor can use. The three execution loops of
`execute_keeper_cycle` differ in the freeze path only, so there is one
definition, parameterised by the type of the key. `orphans` are transactions
nobody polls any more: they land, fail or expire on their own. The `Faults` are
the cap, restarts, the admin (whole and aborted), users who cancel, stale
prices, a low balance, and failing reads. Time is ages and remaining lives, so
no clock grows. The one assumption on times, `CycleBudget + TxLife <= Expiry`,
is what the code's constants satisfy: 50 s for the cycle, 60 s of `max_time`
for a transaction, 300 s for `IN_FLIGHT_EXPIRY`.

**SubmitOutcome, Submission, Submit.** `Submission` has the chain's side (land
or expire), one lossy channel and a report. `Submit` has the attempts of
`retry_with_backoff`, requests that arrive after their sender gave up on them,
nodes that lag (a transaction that has landed is still PENDING, a DUPLICATE or
NOT_FOUND to them), and the polls. A step of `Submit` is a step of `Submission`
or a stutter. `doubt` and `fault` are history: an answer to the send, or to a
poll, that said nothing of the transaction. The delays between attempts are not
in `Submit`: whether a submission ends within its cycle depends on everything
else the cycle has done, and `Keeper` lets the cap cut it anywhere. A failed
transaction is a "budget" or a "paused" where the keeper finds that pattern in
its diagnostic events, and a "fail" where it does not (section 5).

**Sequence.** One cycle is a sequence of `execute_handler` calls after an
optional `set_prices`; the chain's number moves by the cycle's own
transactions, by orphans of earlier cycles and by another holder of the key.

**PendingKeys.** Two calls per list, any interleaving, lists that change
between them, simulations that fail.

**PriceLoop.** A cycle asks for the ledger sequence and Hermes at once, then
Binance, then every token's sources: tokens concurrently, the sources of a
token one after the other with three attempts each. A quote carries its age by
timestamp and, as `lag`, by how much the exchange's answer is older than that:
a Binance price of the batch gets `now` when the loop over the sources comes to
it. `WritePrices` is the processing of the results and the one write; `CycleCap`
drops everything before it. The unit of time is the HTTP client's timeout of
15 s, so the cap of 60 s is four units; the delays between attempts, below a
second, are left out and at the cap either may come first.

**Publication.** A cycle copies the fresh prices, publishes all of them when
the heartbeat is due and otherwise those that moved by their threshold, records
what a confirmed publication contained, and executes orders. A publication that
was cut or ran out of polls stays live and may land without a record.
`MoveExceedsBps` compares products of integers of the code's width and takes one
that does not fit for a move; `PublishedClose` compares exactly.

**Aggregate.** `FindCluster`, `FilterOutliers` and `ComputeBand` are the three
parts of `aggregate_prices`; `Init` chooses the answers and the settings. A
sort is given by what it results in: the n-th element is the one with n - 1
before it (`InOrder`), in the order of the code's comparison. `Scan` is the one
loop over the sorted answers, `WindowStart` its inner `while`.
Quotients the code compares as `f64` are compared exactly, by cross
multiplication (section 7). The standard-deviation branch of the filter is modelled too; it
cannot reject anything among four sources.

**Quotes.** A reply of Binance (a batch or one symbol), Coinbase, Pyth, Horizon,
or a configured price is read as its parser reads it: a numeral is its sign, its
digits on both sides of the point and whether anything else is in it; scaling
pads or cuts the fraction and fails beyond the integer's width; a power of the
base is the number of a one and zeros. The confidence of a Pyth price is compared
exactly, but where it is exactly the limit the price may be taken or refused
(`AtLimit`): the code divides in `f64` (`pyth.rs:217-218`), and the quotient may
be rounded to above the limit. `QuoteExact`
compares with what the numeral means, not with how the code gets there. The
digits are those of a small base, so that all short numerals can be enumerated.

**TokenConfig, Startup.** The faults of a token in the order the two parsers
look for them; the variables a start reports as a set. The operator begins with
what he has in mind, makes mistakes (a variable left out, blank, padded,
malformed, or with another role's contract; a field of a token), starts the
process, corrects what the report names and starts again.

**Readiness.** A request takes three looks at the caches, each under a read lock
of its own that it may wait for, so the loops move between them; then comes the
lock with the second look at the stored result,
the RPC probe and the balance probe with their attempts, and the store of the
result. It may be dropped at every one of these awaits, and its lock goes with
it. The keeper loop is its schedule only: the ticker, the idle back-off, the
cycle with its cap, and the end of the loop. A tick is one keeper interval.
`verified` is history: the time since both probes last succeeded.

**AdminAuth.** `Ask`, then `WrongToken` or `RightToken`: the limiter's lock is
taken twice, and what the second use sees may be any number of requests later.
Each request reads the clock once, at its start, so the readings reach the
limiter out of order (`Since` saturates as `duration_since` does).

**Metrics.** Every mutex is in the model with who holds it; the recorders take
one at a time, the scrape takes the maps' inside the counters'. A request in
`track_metrics` may be dropped while the handler runs.

`Readiness` has a specification of its own (`ReadySpec`), with the fairness that
its liveness needs.

**StatusSnapshot.** Each structure is the number of times it was written; the
two reads fall anywhere in a cycle.

**Lifecycle.** The three arms of the `select!`, the drain with its timeout, the
token that a signal cancels for server and loops at once, and loops that end or
die by themselves.

## 3. The runs

| Run | Asks |
|---|---|
| `keeper` | under every report and every disturbance: no resubmission while undecided, marks cover transactions, blacklisted keys rest, cycles and marks end, a key that always fails is given up |
| `keeper_cut` | *(violation)* a key over its failure budget is not executed again |
| `submit` | an undecided report is sound, any other is the last word, the promise is kept, a report comes |
| `cycle_parts` | (`MCCycleParts`) each key once per read; closeness, the end of drift, the age of prices orders run on; no gap in the numbers, explained rejections, few fetches |
| `aggregate` | (`Pricing`) every choice of four sources in five prices; every short reply |
| `price_loop` | (`MCPriceLoop`) fresh prices are kept, lag is bounded, tokens recover |
| `price_loop_slow` | *(violation)* one slow source does not stall the write of the others |
| `api` | readiness, limiter, scrape and status under concurrent requests; a scrape ends |
| `readiness` | (`Readiness`) requests are answered ok once loops and services are well |
| `ready_idle` | (`Readiness`) *(violation)* a keeper loop on its schedule is not taken for a dead one |
| `lifecycle` | (`MCProcess`) mistakes, refused starts and corrections; then shutdown within two stages, a whole stage for each loop |
| `lifecycle_unasked` | *(violation)* the process serves until it is asked to stop |

### What the properties say

* `UndecidedInFlight`, `NoResubmission`: a key is in flight, and too young to
  evict, as long as a transaction the code knows may still confirm can land; and
  no new one is built before. The mark is set before the transaction is, so a
  late item of a long cycle has an old mark with a young transaction; the sum
  stays within the expiry because of the assumption above.
* `BlacklistedNotExecuted` with the admin clearing between any two steps.
* `InFlightReleased`, `CyclesEnd`: under `CapFairness` only.
* `BrokenKeyBlacklisted`: a key whose submissions all settle as failures is
  blacklisted or leaves the pending state. Its premise, `SettledCycles`, says
  what must be true from some time on: the cycle takes its steps, nothing cuts
  it, and no restart or admin starts the count anew.
  `AbandonedNotExecuted` is what the cap breaks (`keeper_cut`).
* `TimeoutMeansAccepted`: an undecided report is only for a transaction the
  network took. `FreesOnlySettled`: any other report frees the key, and as long
  as every answer said something of the transaction it is the last word: the
  transaction landed as reported, or is not on the chain with no request left
  that could take it there. What
  happens otherwise is in section 5.
* `Implements`: the reports are those `Keeper` counts on, whatever was lost;
  `Reported`: one comes.
* `EachKeyOnce`: a read that succeeds returns each key once, though another read
  moves the index it started from.
* `NoGap`: the cached number is never beyond the next one the chain takes;
  `BadSeqExplained`: each bad-sequence rejection has its own unnoticed move of
  the account (an orphan, another user of the key, a lagging node, a lost
  answer); `FetchedSparingly`: one fetch per cycle and one per drop.
* `PublishedClose`: while orders run, the chain's price of every fresh token is
  within its threshold of the keeper's, unless a landing went unrecorded;
  `DriftEnds`: and then the last full publication is less than a heartbeat and a
  cycle ago; `AgeBounded`: no order runs on an on-chain price of a fresh token
  older than its staleness limit, a heartbeat and two cycles.
* `ClusterIsBest`: no consistent set of answers is larger than the cluster, or
  as large and tighter, or equal in both and lower; `MinorityPowerless`: when
  more than half of the answers are consistent, the signed median is consistent
  with one of them; `DeviationBounded`: of a cluster of more than two, no used
  source is further than twice the allowed deviation from the signed median;
  `BandCoversSources`: with enough sources for percentiles, the signed band
  contains every source used.
* `FreshKept`: a price that is still fresh stays as it is and grows older, or
  gives way to the price of a quote of this very cycle for which at least
  `min_sources` sources had answered; that price may itself be older than the
  staleness limit, as an accepted Pyth price may, and is then fetched again.
  `SlowSourceStallsNone`, the promise of #1210, is violated (`price_loop_slow`);
  `StampLagBounded`: a price's timestamp is later than its quote by at most one
  HTTP timeout per attempt of the sources before it; `Recovers`: all tokens get
  fresh prices once the services are well, out of any state.
* `QuoteExact`: the outcome of a reply is the number it means, cut at the scale,
  or an error when it has none, is stale, ahead of the clock or too uncertain;
  one bad entry fails its batch.
* `ReadySound`: at an `ok`, both probes have succeeded within the TTL, and each
  loop was, at most one request timeout ago, not stale; `ProbesCoalesced`: who
  probes holds the lock and no result of the last TTL is there; `ReadyAgain`:
  once the loops run and the probes succeed, requests that go on coming are
  answered `ok` again and again.
* `GuessesBounded`: wrong tokens counted in a window stay below the budget plus
  the requests that can be under way; `BudgetKept`: a count goes down only when
  its window has passed or by the client's own right token, so neither the
  pruning of a full map nor a late record forgets it; `BlockEnds`: nobody is
  blocked for a window or more without a break, whatever is still recorded.
* `ScrapeConsistent`: a finished page has every token of the price cycles it
  counts, each request once in totals and histogram, and no fewer source faults
  than those cycles had recorded; `GaugeAccounted`: the gauge is the requests
  running and, for good, those that were dropped; `ScrapeEnds`: a scrape ends.
* `NoBoundaryCrossed`: an answer that passed the generation check lies between
  two cycle boundaries.
* `OnePass`: a second refusal happens only after one of the mistakes that hide
  others (section 5); `AcceptedUsable`: what a process is started with has seven
  different contracts, keys of the right form, fees and intervals above zero,
  the network that was asked for, and tokens whose sources can answer.
* `ShutdownBounded`, `LoopsGetTheirStage`: a shutdown ends within two stages, and
  a loop is aborted only after a whole stage.

### Bounds, and why they are enough

* `keeper`: one key at a time, an order, a deposit or a withdrawal. Keys
  interact only through the blacklist's membership and the order of a cycle;
  every hazard listed is about two transactions, or a transaction and the admin,
  on one key. `MaxFreeze = 1`, `MaxExec = 2`: each budget is met and exceeded.
  `Expiry = 2`, `TxLife = 1`, `CycleBudget = 1` satisfy the assumption with
  equality, so one tick less anywhere breaks the properties.
* `submit`: the code's own numbers, three sends and six
  polls.
* `cycle_parts`, numbers: three calls and numbers up to 4: one call to fetch, one whose
  outcome matters and one that suffers from it.
* `cycle_parts`, keys: two lists over three keys. Two readers are enough for every
  race on one atomic; a list of three can be rotated, shortened and extended.
* `cycle_parts`, prices: one token that is published whenever fresh and one by
  threshold, whose medians lie just below, at and just above it.
  `MaxInt = 20300`: the scaled difference overflows between the outermost
  medians, the bound for the highest one. The horizon of
  3 is beyond the largest age `AgeBounded` allows here; with each bound in
  `DriftEnds` and `AgeBounded` lowered by one, TLC finds a violation.
* `aggregate`: five prices placed around the tolerances (agree at 100 bps, at
  200 bps, not at all), source minimums of 1 and 3, three deviations.
* `price_loop`, `price_loop_slow`: the real ratio of cap to HTTP timeout (4), the real three
  attempts; staleness 2 units, shorter than a slow cycle, so that prices go
  stale while others are awaited. One token has a source before Binance, the
  other needs both of its sources.
* `aggregate` also runs `Quotes`: numerals of up to five digits before and
  three after the point, in base 2 with a scale of 2 and integers up to 31, so
  that fractions are padded, exact and cut, and whole parts fit, just fit and
  overflow.
* `api`, `readiness`, `ready_idle`: two requests for each endpoint. A TTL and a check deadline of one tick
  and a request timeout of two let a result expire while others wait for its
  lock. The idle back-off of 4 intervals against a staleness limit of 3 is the
  code's own ratio. Two failures allowed, a window of two ticks, room for one
  client in the map: it is full, and pruned, as soon as one has failed; a clock
  reading may be one tick late. Two cycles with one record each against two reads.
* `lifecycle`: stages of three ticks, two requests; longer stages change nothing
  (`LifecycleProofs`). Two mistakes: one that hides and one that is hidden; two
  tokens, so that a mistake is a duplicate of the other.

Deadlock is checked except where a model ends: a call has returned (`submit`,
`aggregate`), the clients have had all the requests, cycles or records of the
bound (`api`, `readiness`, `ready_idle`), the process has exited (`lifecycle`,
`lifecycle_unasked`).

The type invariants (`TypeOK` of each module) document the state. Those of
`Keeper`, `Submit` and `Publication` are proved; the runs spend their time on
other properties.

### Fairness

* `CapFairness` (`keeper`): time passes, the ticker starts cycles, the cap
  fires. Nothing is assumed of RPC calls, of the chain or of the cycle's own
  steps: they may hang.
* `BrokenKeyBlacklisted` assumes on top, as a premise, that the steps of a cycle
  are taken. Each await returns: HTTP requests have a client timeout of 15 s
  (`http.rs`), retries and polls have a bound.
* `FairSpec` of `Submit`: the same, for one submission.
* `Spec` of `PriceLoop`: some step of time, ticker, cap or cycle is always
  taken. That the services recover is not assumed; `Recovers` begins at their
  recovery.
* `ReadySpec` of `Readiness`: time passes, the keeper's timers fire, requests run
  on. The write lock is strongly fair for each request: Tokio's locks queue their
  waiters. Neither the success of a probe nor the return of a loop is assumed;
  `ReadyAgain` has them as its premise.
* `Fairness` of `Api`: the scrape runs on. Nothing is assumed of the
  recorders, except that one that waits for the counters takes them once they
  are free (`Stamp`).

## 4. Proofs

Checked by TLAPS for every value of the constants that satisfies the named
assumptions.

**KeeperProofs.**
* `TypeCorrect`: `Spec => []TypeOK`, one step per action.
* `InFlightCover`: `Spec => [](UndecidedInFlight /\ NoResubmission)`. Neither
  is inductive: that an entry is too young to evict says nothing of how long
  its transaction still lives. `CoverInv` adds it: for each undecided
  transaction, watched or orphaned, the age of its key's mark plus the life it
  has left is at most `CycleBudget + TxLife`; and at `exec` the mark is no older
  than the cycle. Time adds to one what it takes from the other; a cycle that is
  cut hands its transaction over to `orphans` with the sum unchanged; a new
  transaction starts at no more than the bound because the cycle is within its
  budget. The assumption `CycleBudget + TxLife <= Expiry` is used exactly once
  (`CoveredNotEvictable`).
* `BlacklistRespected`: `Spec => []BlacklistedNotExecuted`, inductive as it
  stands.

**SubmitProofs.**
* `TypeCorrect`, with `TransitOK` (no more requests on the way than were sent).
* `ReportsSound` and `ReleasesFinal` (`TimeoutMeansAccepted`,
  `FreesOnlySettled`), from `KnownInv`. Neither is inductive: what a report is
  worth depends on the answers before it. As long as every answer to the send
  said something, nothing is on the way and the transaction is not on the chain;
  polling begins only with the network's word that it has the transaction; and a
  fault ends the poll there and then.
* `KeepsPromise`: `Spec => Implements`; initial states map to initial states
  (`RefineInit`), every step to a step of `Submission` or a stutter
  (`RefineNext`), for all numbers of attempts.

**SequenceProofs.** One invariant, `SeqInv`, for `CacheBehindChain`,
`RejectionsExplained` and `FetchesExplained`. `NoGap` alone is not inductive: it
needs that the transaction under way carries the cached number, and
`BadSeqExplained` needs to know before a rejection that the chain has moved
(`Behind`: then a surprise has been counted that no rejection has used up yet).

**CycleProofs** is about two parts of the keeper's cycle that share no state, the
publication of prices and the reading of keys.

*Publication.* `TypeCorrect`, and three theorems from one invariant,
`PubInv`, for all tokens, medians, thresholds, staleness limits and times. None
of `PublishedClose`, `DriftEnds` and `AgeBounded` is inductive, because each
compares the chain with this cycle's copy of the prices, while what links the
two was recorded cycles ago. The parts of `PubInv` are the links:
* `CycleInv`: what can still land is this cycle's own batch while it is polled,
  or was given up on; and once the own batch has landed, nothing else can before
  it is recorded.
* `ChoiceInv`: each fresh token is in the batch, or is recorded at a median that
  it has not moved away from (and then this is no heartbeat).
* `RecordInv`: unless a publication went unrecorded, the chain has what the
  record says, but for a batch that has just landed.
* `AgeInv`: whatever is recorded, or can still land, is at most a cycle and a
  staleness limit older than the last full publication; and when orders run,
  that publication is less than a heartbeat older than the cycle's begin.
* `BatchInv`: the batch is part of the copy and, when orders run, recorded.

`NoMove` is the link to the prices themselves: what the comparison that may
overflow does not call a move is within the threshold exactly.

*Pending keys.* `KeysReadOnce` (`EachKeyOnce`). The index that the three
lists share may be moved by any other read between a list's count and its keys;
the theorem needs nothing about it, because a rotation at any index, one past
the end included, keeps the keys. What the argument rests on is about sequences: a rotation has each
element of a list at exactly one position (`RotatedAt`, `RotatedKeepsKeys`), and
users who create and cancel keys leave the list without repetition
(`AppendedOnce`, `RemovedOnce`).

**PriceLoopProofs.** `LagIsBounded` (`StampLagBounded`) has
an invariant, `LagInv`, that follows a quote from the request to the cache: `AskedInv`,
which answers a phase may use; `FetchInv`, the batch is no older than the time
the token has spent on its sources so far; `QuotesInv`, the quotes a token has
collected; `CacheInv`, what was written. In the middle is that a source is left
after three attempts of one timeout each, so `Spent` is bounded by the position
in the list. `GreatestInt` shows from well-founded induction that the `Max` of
the aggregated quotes is one of them. `FreshPricesKept` (`FreshKept`) rests on
the same invariant: what is written over a price that was there is built from
quotes collected in this cycle, at least as many as `min_sources` (`EnoughCameIn`),
and has the age of one of them (`AggregatedAge`); everything else that the write
does leaves a fresh price alone.

**PricingProofs.** Six theorems of `PricingSpec`, for any prices, settings and
names of sources, any base, scale, integer width and time limits, and numerals
of any length. There is no induction over sequences in them: an order is
counting (`Ranks`: in a strict order of a finite set each element has its own
number of predecessors), and what a recursive definition computes is shown by
its least counterexample (`LeastNumber`, from the well-foundedness of the natural
numbers).

*Aggregation.* `StageInv`, the inductive invariant, says that each stage is the
function of the answers and the settings that the code computes; the theorems
are then about these functions.
* `ClusterIsAlwaysBest` (`ClusterIsBest`). `ScanInv` is the loop invariant of
  the scan: where the window starts, no earlier start would do, and no window
  that ended so far is better than the best. `AgreeingWindow` makes a window of
  any consistent set that is no smaller and no wider, so the best window is the
  best set.
* `MinorityIsPowerless` (`MinorityPowerless`): the cluster is no smaller than a
  consistent majority, so the two share an answer, and the signed median lies
  between two answers of the cluster (`MedianBetween`).
* `DeviationIsBounded` (`DeviationBounded`): what is used and the signed median
  are both within the deviation of the cluster's median.
* `BandIsOrdered`: the signed band is never inverted nor below zero, and holds
  its median, which is above zero, for any number of sources: a percentile lies
  between the two ranks it is interpolated from (`PercentileBetween`), and from
  three answers on the ranks of the 10th and the 90th lie on their sides of the
  median's.
* `BandAlwaysCoversSources` (`BandCoversSources`) has the hypothesis that there
  are at most four sources, which is what the code has (`binance`, `coinbase`,
  `pyth`, `fixed`). For many it is false: of eleven answers the 10th percentile
  is the second lowest, which may be further than the spread above the lowest.
  With four, all of them used or one rejected, the gap at each end is bounded by
  the deviation (`GapsOfFour`, `GapsOfThree`), and the spread makes up for the
  part of it that the percentile leaves out (`SpreadCovers`).

*Quotes.* `QuotesAreExact` (`QuoteExact`). `NumberConcat` is the fact behind all
of it: the number of two joined rows of digits. From it come `PowerSum`, and with
`QuotientIs`, that a fraction cut or filled up to scale is the quotient that the
numeral means (`ScaledNumber`, `MeaningIs`), though the code never divides.
The theorem excepts what `AtLimit` leaves open.
`PythTight` shows that comparing the confidence after scaling is comparing it
before, with no overflow of its own as long as the allowed share is at most 100%
(which the configuration enforces, `ClockAssumption`). `CurrencyNamed` and
`BatchReads` are about the names in the replies of Coinbase and Binance: a batch
may have any number of entries. The invariant, `QuoteInv`, adds to `QuoteExact`
only what kind of reply is being read.

**LifecycleProofs.** `ShutdownEnds` from `StageInv`: what has passed since the
shutdown began has passed of the stages, none of it before the first. The same
invariant gives `AbortedLate`, step by step. `StartedRuns` shows that every
behaviour of `Process` is one of `Lifecycle` with the start as stuttering, from
which `ProcessEnds` follows.

`CorrectedInOnePass` (`OnePass`) and `AcceptedIsUsable` (`AcceptedUsable`) are
about the starts before it, from `StartInv`. `OnePass` counts refusals and says
nothing of the environment; the invariant adds that the last report is what is
wrong with the environment that was refused, and that after the correction of a
first report that hid nothing, nothing is wrong. The step behind it is
`CorrectedOnce`: mistakes that are reported and corrected together leave no other
mistake to be found, if none of the reported ones is of the kind that hides.
`NoFaultyToken` shows that a list with a faulty token has a first one, for a
list of any length; `OracleRules` and `SharedRules` turn the absence of faults
of each parser into what the process relies on.

**ApiProofs.** `ApiSteps`: a step of the API is a step of each part or leaves its
variables alone; each part then has an invariant of its own.
* `OneProbe`, `OkIsRecent` from `ReadyInv`. That an `ok` is recent needs two
  facts about requests under way: a stored success is as old as the probes
  behind it (`ResultVerified`), and a request past its look at the loops has
  aged at least as much as they have since (`LoopsSeen`), which the timeout of
  the request bounds.
* `PagesAgree` from `PageInv`: the scrape holds the counters until its last group
  is rendered, so what it has rendered is of the counters as they are; the source
  faults need no lock, because a cycle is counted after its faults and the maps
  only grow.
* `GaugeNeverLow` from `GaugeInv`: the gauge is a cardinality plus the requests
  dropped; `RunningMoves` says how one request's move changes it.
* `OneWindow` from `SnapshotInv`: the generations seen by the reads of an attempt
  are in their order, so equal ends mean equal middles.
* `BlocksEnd`, `BudgetsLast` from `LimiterInv`: a client has been blocked no
  longer than its entry is old. The lemma `Recorded` carries both: a record, of
  this client or another, with whatever late reading of the clock, neither
  lowers the count nor moves the window of an entry whose window is open.
* `GuessesAreBounded` from `BudgetInv`. `GuessesBounded` bounds the count alone
  and is not inductive: many requests may have been let in before the first
  records its failure. What is preserved is the sum of the count and of the
  requests let in that would still count into the open window (`Counting`): a
  record moves one from the second to the first, and a request is let in only
  while the count is below the limit.

The type assumptions of the proofs are unbounded where the models' are bounded
(`Nat` for an age or a count), so that no theorem rests on a bound of a run.

The named assumptions say of the constants what the code's are: numbers above
zero where a zero would mean nothing (a heartbeat, a window, a number of
attempts), `CycleBudget + TxLife <= Expiry` (`Keeper`), a finite set of requests
under way (`AdminAuth`), a token list in the operator's mind that the parsers
accept, and mistakes in a token's field that leave it of the struct's types, as
what the deserializer rejects is not a token (`Startup`); finitely many sources,
prices and minimums above zero (`Aggregate`), digits of a base of at least two
and a confidence of at most 100% (`Quotes`).

Only model-checked is every liveness property (`InFlightReleased`, `CyclesEnd`,
`BrokenKeyBlacklisted`, `Reported`, `Recovers`, `ReadyAgain`, `ScrapeEnds`): they
rest on fairness, and so on `ENABLED`, which is out of the prover's reach. Every
invariant and every other action property that a passing run checks is proved.

## 5. What the code does otherwise

Four runs exhibit a disagreement between the code and its comments; they are the
findings in `PROJECT.json`.

* **A cut freeze undoes the failure budget** (`keeper_cut`,
  `keeper_loop.rs:629`). The blacklist insertion comes after the await of the
  freeze, and the cap may drop the cycle there.
* **The server is dropped 15 s after the start** (`lifecycle_unasked`,
  `main.rs:98`). The drain timeout wraps the server future itself.
* **One slow source stalls the write** (`price_loop_slow`, `price_loop.rs:323`).
  The comment of #1210 has the cache updated "incrementally after each token"; it
  is written once, after `join_all`. With Binance unreachable the batch takes
  15 s and a token's three fallbacks 45 s: the cap of 60 s drops the whole cycle,
  the quotes of all other tokens included.
* **An idle keeper is not ready** (`ready_idle`, `api/prices.rs:107`). `/ready`
  answers `keeper_loop_stale` three intervals after the last cycle; an idle loop
  backs off for four. `Cargo.toml:20-21` promises that the probe "reflects real
  liveness".

Seen while modelling, described here and in the models but not runs:

* `keeper_loop.rs:1241`: one index serves three lists, and each non-empty read
  advances it. Three lists of three keys start at the same key for ever, and a
  list of one key resets the index for all; the comments at 1237-1240 and
  1276-1277 promise each key its turn and a valid offset.
* `price_loop.rs:510` against 626-627: Binance batch prices are stamped with the
  time they are taken from the map, not the time they were fetched; the keeper
  may take a quote for fresh that is older by the attempts of the sources before
  it (`StampLagBounded` gives the bound).
* `price_loop.rs:521`: the single-symbol fallback asks the default Binance URL,
  not the configured one.
* `price_loop.rs:304-308` logs "removing", 237-238 "evicting": a stale entry
  stays in the cache unless the cycle has no valid price at all. Pyth prices up
  to 30 s ahead of the clock are accepted, but `is_stale` rejects any timestamp
  ahead of it; an age equal to `stale_after_seconds` is accepted by one and
  stale for the other.
* `pyth.rs`: "Stale prices might become fresh on retry": a retry looks at the
  same feed of the batch.
* `submit.rs:109-114`: "Every other variant is a definitive outcome". A fault, a
  body that does not parse or a transport error that is not retried ends the
  submission, also in answer to a poll after the node said PENDING (277-287); so
  do three sends without an answer. The keeper then frees the key while the
  transaction may still land: `FreesOnlySettled` excepts these (`doubt`,
  `fault`), and `NoResubmission` is about transactions the keeper knows to be
  undecided.
* `submit.rs:231-235`: the resend of a transaction that has landed in the meantime
  may be answered ERROR and is reported as rejected. `submit.rs:333` promises a
  check "on next cycle" that no code makes.
* `submit.rs:245`: the delays of one poll add up to 47 s, 61 s when every attempt
  meets a transport error, and the cycle that waits for it has 50 s for
  everything; a poll that begins late is cut (`Keeper`), and its outcome is
  nobody's.
* `keeper_loop.rs:1186-1188`: a paused market is looked for as plain text, while
  the diagnostic events of a node are XDR in base64; 1147-1179: the budget is
  looked for in the decoded bytes, but only if they are UTF-8 as a whole. A
  failure that is not recognised counts as any other.
* `keeper_loop.rs:588`: after a confirmed freeze the tally that was just
  dropped is counted up again. 591: a transient refusal counts like a failure,
  against `submit.rs:225-226`.
* `keeper_loop.rs:678-681`, 861: deposits and withdrawals are skipped with stale
  prices, against 228-229, 322-324 and 382-386; orders run when any token is fresh, so
  one on a token that never was published runs too.
* `keeper_loop.rs:1557`: a poll timeout clears the sequence cache, against
  1472-1475.
* `keeper_loop.rs:398-400`: after an unrecorded landing the threshold filter
  compares with a price that is not the one on chain (`PublishedClose`,
  `DriftEnds`).
* `api/admin.rs:177-180`: between its locks a key can be blacklisted again with
  fresh budgets.
* `state.rs:285-290`: a checked pair lies within one cycle, but is not "from a
  single point in time"; both structures are written inside the cycle.
* `main.rs:64-66`: the server does not drain first: a loop that is idle when the
  signal comes ends at once and the draining server is dropped.
* `prices.rs:7-8`: two sources are compared at 1000 bps whatever the token's own
  deviation; with more, the filter looks at the cluster's median and not at the
  one that is signed (hence the factor of two in `DeviationBounded`).
* `config.rs:648-663`, `api/prices.rs:134-153`, `184-206` do not parse (what a
  merge left). The models say what the statements evidently mean together.
* `config.rs`: an unknown network is taken for the test network, so the rules of
  mainnet are not applied in that pass; of a token list only the first fault is
  named; a contract that is missing is not compared with the others. These are
  the exceptions in `OnePass`. A `STELLAR_RPC_URL` that is blank counts as set on
  the test network; contract IDs are compared trimmed but stored as they are;
  Pyth feed ids are compared by exact notation, so one feed in two notations
  passes as two.
* `binance.rs`: symbols may have dashes and lower case that Binance does not know;
  one price it cannot read fails the batch of all tokens.
* `api/mod.rs:152`: the timeout layer lies outside of `track_metrics`; each
  request it drops stays in the in-flight gauge for good (`GaugeAccounted`).
* `api/mod.rs:268`: the comment wants `CatchPanicLayer` outermost; it is applied
  first and so is the innermost.
* `state.rs`: the comment of `MAX_TRACKED_ADMIN_CLIENTS` caps the map; a full map
  without an expired entry grows on.
* `api/admin.rs:240-255`: `oracle_last_set_prices_timestamp_seconds` is the time
  of the price cache's last update, not of a `set_prices`.
* `main.rs:77-80` says that the release profile aborts on panic, so that the arms
  which answer a panicking loop with a shutdown run in other builds only;
  `Cargo.toml:36` has `panic = "unwind"`, and they run in every build. The comments
  at `Cargo.toml:22-33` say the one and the other.
* `api/mod.rs:302-306` announces an immediate 503; the concurrency limit queues.

## 6. Not modelled, and why

* **Signing, XDR and StrKey encoding, JSON and TOML syntax, HTTP.** Pure
  conversions and I/O; a transaction is an element of a small set, a reply begins
  where the parsers of numbers begin.
* **The failure log and the listings** of prices and failures: one structure
  copied or pushed to under one lock.
* **Logging**, and which words an error has; which variable it names is modelled.
* **The wall clock stepping backward.** Ages only grow in the models, except for
  the clock readings of the limiter, which arrive out of order; timestamps ahead
  of the clock come from Pyth.
* **The contracts.** What a second execution of the same key does on chain is
  not in this repository.

## 7. What could follow

1. `Publication` over a `PriceLoop` cache in place of any supply, at least for
   one token, so that `AgeBounded` speaks of quotes and not of timestamps.
2. The `f64` of the deviations and percentiles, where prices of 1e30 have more
   digits than it holds: how far the cluster and the band can be from the exact
   ones that are modelled. The same holds for a Pyth confidence next to its limit
   but not at it, which `f64` tells apart as long as the products have no more
   than some fifteen digits that count.
3. What the three locks of `clear_blacklisted_key` owe together (#887: a fresh
   budget for the key that was cleared), against a cycle that counts or
   blacklists between them and a handler that is dropped there.
4. How long a cycle may take: the delays and timeouts of everything it awaits
   against its cap.
