------------------------------ MODULE Metrics ------------------------------
(***************************************************************************)
(* The counters of oracle/src/metrics.rs and those who use them: the price *)
(* cycle, the middleware around every request (track_metrics, oracle/src/  *)
(* api/mod.rs) and GET /metrics. Three mutexes guard them; only the scrape *)
(* takes one while it holds another.                                       *)
(*                                                                         *)
(* A token has one label set here, and a latency is on one side or the     *)
(* other of one bucket bound.                                              *)
(***************************************************************************)
EXTENDS Integers, FiniteSets

CONSTANTS
  Requests,       \* requests that may be in progress
  Tokens,         \* configured tokens
  MaxPriceCycles, \* bound: price cycles run
  MaxSourceFaults,\* bound: faults of sources recorded
  MaxServed       \* bound: requests begun

ASSUME MetricsAssumption ==
  /\ IsFiniteSet(Requests)
  /\ {Tokens, MaxPriceCycles, MaxSourceFaults, MaxServed} \subseteq Nat

VARIABLES
  counters,   \* Counters
  source,     \* token_source_fetch_failures and _outlier_rejections
  holder,     \* of the counters' mutex
  sourceHeld, \* which of the two maps' mutexes the price cycle holds
  recorder,   \* the price cycle: a call of record_token_source_*
  request,    \* track_metrics: where each request is
  begun,      \* requests begun
  dropped,    \* history: requests dropped while next.run was awaited
  told,       \* history: source, when the last price cycle was recorded
  scrape,     \* to_prometheus: where it is
  page        \* what it has rendered

metricVars == <<counters, source, holder, sourceHeld, recorder, request, begun, dropped,
                told, scrape, page>>
httpVars == <<request, begun, dropped>>
scrapeVars == <<scrape, page>>

Maps == {"fetch_failures", "outlier_rejections"}
Classes == {"2xx", "5xx"}
Nothing == [m \in Maps |-> 0]
None == "none"

CountersSet ==
  [price_cycle_count : 0..MaxPriceCycles,
   token_fetch_ok : 0..(Tokens * MaxPriceCycles),
   token_fetch_failures : 0..(Tokens * MaxPriceCycles),
   in_flight : 0..MaxServed,
   total : [Classes -> 0..MaxServed],
   fast : 0..MaxServed,
   inf : 0..MaxServed]

NoCounts ==
  [price_cycle_count |-> 0, token_fetch_ok |-> 0, token_fetch_failures |-> 0,
   in_flight |-> 0, total |-> [c \in Classes |-> 0], fast |-> 0, inf |-> 0]

(* What a page says of the counters, and the causes it could know of.      *)
NoPage == [cycles |-> 0, tokens |-> 0, source |-> Nothing, told |-> Nothing,
           total |-> 0, fast |-> 0, inf |-> 0]

MetricsTypeOK ==
  /\ counters \in CountersSet
  /\ source \in [Maps -> 0..MaxSourceFaults] /\ told \in [Maps -> 0..MaxSourceFaults]
  /\ holder \in {None, "scrape"}
  /\ sourceHeld \in Maps \cup {None}
  /\ recorder \in {"cycle", "stamp"}
  /\ request \in [Requests -> {"none", "arrived", "running", "done", "recording"}]
  /\ {begun, dropped} \subseteq 0..MaxServed
  /\ scrape \in Maps \cup {"idle", "totals", "histogram", "done"}

MetricsInit ==
  /\ counters = NoCounts
  /\ source = Nothing /\ told = Nothing
  /\ holder = None /\ sourceHeld = None
  /\ recorder = "cycle"
  /\ request = [r \in Requests |-> "none"]
  /\ begun = 0 /\ dropped = 0
  /\ scrape = "idle"
  /\ page = NoPage

-----------------------------------------------------------------------------
(* The price cycle.                                                        *)

(* Mutant: the map stays locked while the counters are stamped.            *)
RecordSourceNested(m) ==
  /\ recorder = "cycle"
  /\ scrape # m
  /\ source[m] < MaxSourceFaults
  /\ source' = [source EXCEPT ![m] = @ + 1]
  /\ sourceHeld' = m
  /\ recorder' = "stamp"
  /\ UNCHANGED <<counters, holder, httpVars, told, scrapeVars>>

(* record_token_source_fetch_failure, ..._outlier_rejection: the map's own *)
(* lock is let go before the counters' is taken.                           *)
RecordSource(m) ==
  /\ recorder = "cycle"
  /\ source[m] < MaxSourceFaults
  /\ source' = [source EXCEPT ![m] = @ + 1]
  /\ recorder' = "stamp"
  /\ UNCHANGED <<counters, holder, sourceHeld, httpVars, told, scrapeVars>>

Stamp ==
  /\ recorder = "stamp"
  /\ holder = None
  /\ recorder' = "cycle"
  /\ sourceHeld' = None
  /\ UNCHANGED <<counters, source, holder, httpVars, told, scrapeVars>>

(* record_price_cycle, the last call of a cycle.                           *)
RecordPriceCycle ==
  /\ recorder = "cycle"
  /\ holder = None
  /\ counters.price_cycle_count < MaxPriceCycles
  /\ \E ok \in 0..Tokens :
       counters' = [counters EXCEPT !.price_cycle_count = @ + 1,
                                    !.token_fetch_ok = @ + ok,
                                    !.token_fetch_failures = @ + Tokens - ok]
  /\ told' = source
  /\ UNCHANGED <<source, holder, sourceHeld, recorder, httpVars, scrapeVars>>

-----------------------------------------------------------------------------
(* track_metrics.                                                          *)

At(r, from, to) == request[r] = from /\ request' = [request EXCEPT ![r] = to]

IncInFlight(r) ==
  /\ begun < MaxServed /\ holder = None
  /\ At(r, "none", "running")
  /\ begun' = begun + 1
  /\ counters' = [counters EXCEPT !.in_flight = @ + 1]
  /\ UNCHANGED <<source, holder, sourceHeld, recorder, dropped, told, scrapeVars>>

Respond(r) ==
  /\ At(r, "running", "done")
  /\ UNCHANGED <<counters, source, holder, sourceHeld, recorder, begun, dropped, told, scrapeVars>>

(* The TimeoutLayer outside of track_metrics, or the end of the            *)
(* connection, drops it while it awaits the handler: nothing is taken off  *)
(* the gauge, nothing counted.                                             *)
DropRequest(r) ==
  /\ At(r, "running", "none")
  /\ dropped' = dropped + 1
  /\ UNCHANGED <<counters, source, holder, sourceHeld, recorder, begun, told, scrapeVars>>

(* Mutant: a request is taken off the gauge twice.                         *)
DecTwice(r) ==
  /\ holder = None
  /\ At(r, "done", "recording")
  /\ counters' = [counters EXCEPT !.in_flight = IF @ > 1 THEN @ - 2 ELSE 0]
  /\ UNCHANGED <<source, holder, sourceHeld, recorder, begun, dropped, told, scrapeVars>>

(* saturating_sub.                                                         *)
DecInFlight(r) ==
  /\ holder = None
  /\ At(r, "done", "recording")
  /\ counters' = [counters EXCEPT !.in_flight = IF @ > 0 THEN @ - 1 ELSE 0]
  /\ UNCHANGED <<source, holder, sourceHeld, recorder, begun, dropped, told, scrapeVars>>

(* record_http_request: the count by status class, the cumulative buckets. *)
RecordHttp(r) ==
  /\ holder = None
  /\ At(r, "recording", "none")
  /\ \E class \in Classes, fast \in 0..1 :
       counters' = [counters EXCEPT !.total[class] = @ + 1, !.fast = @ + fast, !.inf = @ + 1]
  /\ UNCHANGED <<source, holder, sourceHeld, recorder, begun, dropped, told, scrapeVars>>

-----------------------------------------------------------------------------
(* to_prometheus.                                                          *)

(* Mutant: the lock is let go after the first group.                       *)
ScrapeBeginsBriefly ==
  /\ scrape = "idle" /\ holder = None
  /\ scrape' = "fetch_failures"
  /\ page' = [page EXCEPT !.cycles = counters.price_cycle_count,
                          !.tokens = counters.token_fetch_ok + counters.token_fetch_failures,
                          !.told = told]
  /\ UNCHANGED <<counters, source, holder, sourceHeld, recorder, httpVars, told>>

(* The counters' lock is taken, and kept to the end of the page.           *)
ScrapeBegins ==
  /\ scrape = "idle" /\ holder = None
  /\ scrape' = "fetch_failures"
  /\ holder' = "scrape"
  /\ page' = [page EXCEPT !.cycles = counters.price_cycle_count,
                          !.tokens = counters.token_fetch_ok + counters.token_fetch_failures,
                          !.told = told]
  /\ UNCHANGED <<counters, source, sourceHeld, recorder, httpVars, told>>

ScrapeMap(m) ==
  /\ scrape = m
  /\ sourceHeld # m
  /\ page' = [page EXCEPT !.source[m] = source[m]]
  /\ scrape' = IF m = "fetch_failures" THEN "outlier_rejections" ELSE "totals"
  /\ UNCHANGED <<counters, source, holder, sourceHeld, recorder, httpVars, told>>

ScrapeTotals ==
  /\ scrape = "totals"
  /\ page' = [page EXCEPT !.total = counters.total["2xx"] + counters.total["5xx"]]
  /\ scrape' = "histogram"
  /\ UNCHANGED <<counters, source, holder, sourceHeld, recorder, httpVars, told>>

ScrapeHistogram ==
  /\ scrape = "histogram"
  /\ page' = [page EXCEPT !.fast = counters.fast, !.inf = counters.inf]
  /\ scrape' = "done"
  /\ holder' = None
  /\ UNCHANGED <<counters, source, sourceHeld, recorder, httpVars, told>>

(* The page is sent.                                                       *)
ScrapeSent ==
  /\ scrape = "done"
  /\ scrape' = "idle"
  /\ page' = NoPage
  /\ UNCHANGED <<counters, source, holder, sourceHeld, recorder, httpVars, told>>

ScrapeStep == (\E m \in Maps : ScrapeMap(m)) \/ ScrapeTotals \/ ScrapeHistogram

MetricsNext ==
  \/ \E m \in Maps : RecordSource(m)
  \/ Stamp \/ RecordPriceCycle
  \/ \E r \in Requests : IncInFlight(r) \/ Respond(r) \/ DropRequest(r) \/ DecInFlight(r) \/ RecordHttp(r)
  \/ ScrapeBegins \/ ScrapeStep \/ ScrapeSent

-----------------------------------------------------------------------------
(* Properties.                                                             *)

(* A page shows one generation of the counters (#599): every token of its  *)
(* price cycles, every request once in the totals and in the histogram.    *)
(* The faults of sources behind the cycles it counts are on it, though     *)
(* they are kept under other locks.                                        *)
ScrapeConsistent ==
  scrape = "done" =>
    /\ page.tokens = Tokens * page.cycles
    /\ page.total = page.inf /\ page.fast <= page.inf
    /\ \A m \in Maps : page.told[m] <= page.source[m]

(* The gauge counts the requests in progress and, for ever, those that     *)
(* were dropped: it never falls below the former.                          *)
GaugeAccounted ==
  counters.in_flight
    = Cardinality({r \in Requests : request[r] \in {"running", "done"}}) + dropped

(* A scrape ends, whoever records meanwhile: the order of the locks admits *)
(* no deadlock.                                                            *)
ScrapeEnds == scrape # "idle" ~> scrape \in {"done", "idle"}

=============================================================================
