----------------------------- MODULE Aggregate -----------------------------
(***************************************************************************)
(* aggregate_prices (oracle/src/prices.rs): from the answers of a token's  *)
(* sources to the band and the median that are signed. One behaviour is    *)
(* one call: the largest consistent cluster is found, its outliers are     *)
(* filtered, and the band is computed from what is left.                   *)
(*                                                                         *)
(* A source is its place in the order of the source names. Quotients that  *)
(* the code compares as f64 are compared exactly. A source never answers a *)
(* price that is not positive (it is an error in every one of them).       *)
(***************************************************************************)
EXTENDS Integers, SequencesExt

CONSTANTS
  Sources,       \* the source names a configuration may list
  Prices,        \* the answers
  MinSources,    \* min_sources of the token
  MaxDeviations  \* max_deviation_bps of the token

ASSUME SourcesAssumption == Sources \subseteq Nat /\ IsFiniteSet(Sources)
ASSUME PricesAssumption == Prices \subseteq Nat \ {0}
ASSUME SettingsAssumption == MinSources \subseteq Nat \ {0} /\ MaxDeviations \subseteq Nat

DEFAULT_CLUSTER_TOLERANCE_BPS == 500
MIN_SOURCES_FOR_PERCENTILE == 3
BPS == 10000

VARIABLES
  quotes,            \* the answers, in the order of the configuration
  min_sources,
  max_deviation_bps,
  pc,
  cluster,           \* what each stage keeps, by price
  used,
  result             \* min, median, max

vars == <<quotes, min_sources, max_deviation_bps, pc, cluster, used, result>>
call == <<quotes, min_sources, max_deviation_bps>>

Quote == [source : Sources, price : Prices]

Distinct(q) == \A i, j \in DOMAIN q : q[i].source = q[j].source => i = j

PriceSeq(q) == [i \in DOMAIN q |-> q[i].price]

TypeOK ==
  /\ {quotes, cluster, used} \subseteq Seq(Quote)
  /\ Distinct(quotes)
  /\ min_sources \in MinSources
  /\ max_deviation_bps \in MaxDeviations
  /\ pc \in {"cluster", "filter", "band", "ok", "error"}
  /\ result \in [min : Nat, median : Nat, max : Nat]

Init ==
  /\ \E n \in 0..Cardinality(Sources) : quotes \in {q \in [1..n -> Quote] : Distinct(q)}
  /\ min_sources \in MinSources
  /\ max_deviation_bps \in MaxDeviations
  /\ pc = "cluster"
  /\ cluster = <<>>
  /\ used = <<>>
  /\ result = [min |-> 0, median |-> 0, max |-> 0]

-----------------------------------------------------------------------------
(* Deviation from a price, in basis points.                                *)

Distance(p, m) == IF p < m THEN m - p ELSE p - m

Deviates(p, m, bps) == BPS * Distance(p, m) > bps * m

Tolerance(max_dev) ==
  IF max_dev > DEFAULT_CLUSTER_TOLERANCE_BPS THEN max_dev ELSE DEFAULT_CLUSTER_TOLERANCE_BPS

(* The elements of a set in a strict order of theirs.                      *)
InOrder(S, Before(_, _)) ==
  [n \in 1..Cardinality(S) |->
     CHOOSE x \in S : Cardinality({y \in S : Before(y, x)}) = n - 1]

Ascending(s) ==
  LET Before(i, j) == s[i] < s[j] \/ (s[i] = s[j] /\ i < j)
      place        == InOrder(DOMAIN s, Before)
  IN  [n \in DOMAIN s |-> s[place[n]]]

Median(s) ==
  LET t == Ascending(s)  h == Len(s) \div 2
  IN  IF Len(s) % 2 = 0 THEN (t[h] + t[h + 1]) \div 2 ELSE t[h + 1]

-----------------------------------------------------------------------------
(* find_largest_consistent_cluster.                                        *)

Earlier(a, b) == a.price < b.price \/ (a.price = b.price /\ a.source < b.source)

Sorted(q) == InOrder(Range(q), Earlier)

Width(s, w) == s[w[2]].price - s[w[1]].price
Size(w) == w[2] - w[1] + 1

(* Mutant: of clusters of one size the lowest is kept, however wide.       *)
BetterBySize(s, w, best) == Size(w) > Size(best)

Better(s, w, best) ==
  \/ Size(w) > Size(best)
  \/ Size(w) = Size(best) /\ Width(s, w) < Width(s, best)

(* Where the window that ends at e starts: it never moves back.            *)
WindowStart(s, e, from, tol) ==
  CHOOSE i \in from..e : /\ ~Deviates(s[e].price, s[i].price, tol)
                         /\ \A j \in from..(i - 1) : Deviates(s[e].price, s[j].price, tol)

(* The best window that ends no later than e.                              *)
NextWindow(s, e, before, tol) ==
  LET start == WindowStart(s, e, before.start, tol)
  IN  [start |-> start,
       best  |-> IF Better(s, <<start, e>>, before.best) THEN <<start, e>> ELSE before.best]

Scan(s, tol) ==
  LET scan[e \in 0..Len(s)] ==
        IF e = 0 THEN [start |-> 1, best |-> <<1, 1>>]
        ELSE NextWindow(s, e, scan[e - 1], tol)
  IN  scan[Len(s)].best

(* Mutant: the first source decides which answers are consistent with it   *)
(* (as before #1181).                                                      *)
SeedCluster(q, tol) ==
  SelectSeq(Sorted(q), LAMBDA a : ~Deviates(a.price, q[1].price, tol))

LargestCluster(q, tol) ==
  LET s == Sorted(q)  w == Scan(s, tol) IN SubSeq(s, w[1], w[2])

FindCluster ==
  /\ pc = "cluster"
  /\ LET c == LargestCluster(quotes, Tolerance(max_deviation_bps)) IN
     IF Len(quotes) < min_sources \/ Len(c) < min_sources
     THEN /\ pc' = "error"
          /\ UNCHANGED cluster
     ELSE /\ pc' = "filter"
          /\ cluster' = c
  /\ UNCHANGED <<call, used, result>>

-----------------------------------------------------------------------------
(* filter_outliers.                                                        *)

(* Two sources have to agree within 1000 bps of their average; otherwise   *)
(* the first is kept (it is as far from the average as the second).        *)
FilterTwo(c) ==
  LET a == c[1].price  b == c[2].price
  IN  IF 2 * BPS * Distance(a, b) > 1000 * (a + b) THEN <<c[1]>> ELSE c

SumOf(s) == FoldSeq(+, 0, s)

(* The median absolute deviation decides, and the standard deviation when  *)
(* that is zero: d > 3 * stddev, both sides squared and freed of fractions.*)
IsOutlier(p, s, max_dev) ==
  LET n   == Len(s)
      m   == Median(s)
      d   == Distance(p, m)
      mad == Median([i \in 1..n |-> Distance(s[i], m)])
      var == SumOf([i \in 1..n |-> (n * s[i] - SumOf(s)) * (n * s[i] - SumOf(s))])
  IN  \/ Deviates(p, m, max_dev)
      \/ mad > 0 /\ d > 6 * mad
      \/ mad = 0 /\ var > 0 /\ d * d * n * n * n > 9 * var

(* What is kept stays in its order, which is that of the cluster.          *)
FilterMany(c, max_dev) ==
  InOrder({a \in Range(c) : ~IsOutlier(a.price, PriceSeq(c), max_dev)}, Earlier)

(* Mutant: only the median absolute deviation is looked at.                *)
FilteredByMad(c, max_dev) == IF Len(c) = 2 THEN FilterTwo(c) ELSE FilterMany(c, BPS)

Filtered(c, max_dev) == IF Len(c) = 2 THEN FilterTwo(c) ELSE FilterMany(c, max_dev)

FilterOutliers ==
  /\ pc = "filter"
  /\ LET f == Filtered(cluster, max_deviation_bps) IN
     IF Len(f) < min_sources
     THEN /\ pc' = "error"
          /\ UNCHANGED used
     ELSE /\ pc' = "band"
          /\ used' = f
  /\ UNCHANGED <<call, cluster, result>>

-----------------------------------------------------------------------------
(* compute_confidence_interval_with_spread.                                *)

(* Interpolated between two ranks and rounded to the nearest integer.      *)
Percentile(s, p) ==
  LET lo   == (p * (Len(s) - 1)) \div 100
      rest == (p * (Len(s) - 1)) % 100
  IN  IF rest = 0 THEN s[lo + 1]
      ELSE (100 * s[lo + 1] + rest * (s[lo + 2] - s[lo + 1]) + 50) \div 100

Floor0(x) == IF x < 0 THEN 0 ELSE x

(* Mutant: no spread around the percentiles.                               *)
BandNarrow(s, spread_bps) ==
  LET mid == Median(s)  t == Ascending(s)
  IN  IF Len(s) >= MIN_SOURCES_FOR_PERCENTILE
      THEN [min |-> Percentile(t, 10), median |-> mid, max |-> Percentile(t, 90)]
      ELSE [min |-> mid, median |-> mid, max |-> mid]

Band(s, spread_bps) ==
  LET mid    == Median(s)
      spread == (mid * spread_bps) \div BPS
      many   == Len(s) >= MIN_SOURCES_FOR_PERCENTILE
      lo     == IF many THEN Percentile(Ascending(s), 10) ELSE mid
      hi     == IF many THEN Percentile(Ascending(s), 90) ELSE mid
  IN  [min |-> Floor0(lo - spread), median |-> mid, max |-> hi + spread]

ComputeBand ==
  /\ pc = "band"
  /\ result' = Band(PriceSeq(used), max_deviation_bps)
  /\ pc' = "ok"
  /\ UNCHANGED <<call, cluster, used>>

Next == FindCluster \/ FilterOutliers \/ ComputeBand

Spec == Init /\ [][Next]_vars

-----------------------------------------------------------------------------
(* Properties.                                                             *)

Answers == Range(quotes)

Consistent(S) ==
  \A a, b \in S :
    a.price <= b.price => ~Deviates(b.price, a.price, Tolerance(max_deviation_bps))

Lowest(S) == Min({a.price : a \in S})
Highest(S) == Max({a.price : a \in S})
Spread(S) == Highest(S) - Lowest(S)

(* The single pass over the sorted answers finds what a search through all *)
(* subsets would: a consistent set, none is larger, none of its size is    *)
(* tighter, and none of its size and spread is lower; whatever the order   *)
(* in which the configuration lists the sources (#1181).                   *)
ClusterIsBest ==
  pc = "filter" =>
    LET C == Range(cluster) IN
    /\ Consistent(C) /\ C \subseteq Answers
    /\ \A S \in (SUBSET Answers) \ {{}} : Consistent(S) =>
         \/ Cardinality(S) < Cardinality(C)
         \/ Cardinality(S) = Cardinality(C) /\ Spread(S) > Spread(C)
         \/ /\ Cardinality(S) = Cardinality(C) /\ Spread(S) = Spread(C)
            /\ Lowest(C) <= Lowest(S)

(* A colluding minority cannot dictate the median: when more than half of  *)
(* the answers are consistent with each other, the median that is signed   *)
(* is consistent with one of them.                                         *)
MinorityPowerless ==
  pc = "ok" =>
    \A H \in SUBSET Answers :
      Consistent(H) /\ 2 * Cardinality(H) > Len(quotes) =>
        \E h \in H : ~Deviates(result.median, h.price, Tolerance(max_deviation_bps))

(* What the outlier filter enforces of a deviation smaller than the        *)
(* cluster's tolerance: of a cluster of more than two, no source that is   *)
(* used is further from the median that is signed than twice that          *)
(* deviation. (Not once: the filter compares with the cluster's median,    *)
(* and the median moves when a source is rejected.)                        *)
DeviationBounded ==
  pc = "ok" /\ Len(cluster) > 2 =>
    \A a \in Range(used) :
      BPS * Distance(a.price, result.median)
        <= 2 * max_deviation_bps * Median(PriceSeq(cluster))

(* The band that is signed contains every source it was computed from,     *)
(* when there are enough for percentiles.                                  *)
BandCoversSources ==
  pc = "ok" /\ Len(used) >= MIN_SOURCES_FOR_PERCENTILE =>
    \A a \in Range(used) : result.min <= a.price /\ a.price <= result.max

=============================================================================
