--------------------------- MODULE PricingProofs ---------------------------
(***************************************************************************)
(* Proofs about the calculations of the price loop, for any prices, any    *)
(* source names, any minimum and any deviation.                            *)
(***************************************************************************)
EXTENDS Pricing, FiniteSetTheorems, WellFoundedInduction, TLAPS

(* A set of numbers has a least one.                                       *)
LEMMA LeastNumber ==
  ASSUME NEW T \in SUBSET Nat, T # {}
  PROVE  \E x \in T : \A y \in T : x <= y
  <1> DEFINE R == {w \in Nat \X Nat : w[1] < w[2]}
  <1>1. IsWellFoundedOn(R, Nat)
    BY NatLessThanWellFounded DEF OpToRel
  <1>2. PICK x \in T : \A y \in T : ~(<<y, x>> \in R)
    <2> HIDE DEF R
    <2> QED
      BY <1>1, WFMin
  <1>3. \A y \in T : ~(y < x)
    BY <1>2
  <1> QED
    BY <1>3

-----------------------------------------------------------------------------
(* A set in a strict order.                                                *)

StrictOrder(R, S) ==
  /\ \A x \in S : <<x, x>> \notin R
  /\ \A x, y, z \in S : <<x, y>> \in R /\ <<y, z>> \in R => <<x, z>> \in R
  /\ \A x, y \in S : x = y \/ <<x, y>> \in R \/ <<y, x>> \in R

Below(R, S, x) == {y \in S : <<y, x>> \in R}

LEMMA Ranks ==
  ASSUME NEW S, IsFiniteSet(S), NEW R, StrictOrder(R, S)
  PROVE  /\ \A x \in S : Cardinality(Below(R, S, x)) \in 0..(Cardinality(S) - 1)
         /\ \A x, y \in S : <<x, y>> \in R =>
              Cardinality(Below(R, S, x)) < Cardinality(Below(R, S, y))
         /\ \A n \in 1..Cardinality(S) : \E x \in S : Cardinality(Below(R, S, x)) = n - 1
  <1> DEFINE B(x) == Below(R, S, x)
  <1>1. Cardinality(S) \in Nat
    BY FS_CardinalityType
  <1>2. \A x \in S : IsFiniteSet(B(x)) /\ Cardinality(B(x)) \in Nat /\ B(x) \subseteq S /\ x \notin B(x)
    BY FS_Subset, FS_CardinalityType DEF Below, StrictOrder
  <1>3. ASSUME NEW x \in S PROVE Cardinality(B(x)) < Cardinality(S)
    BY <1>1, <1>2, FS_Subset
  <1>4. ASSUME NEW x \in S, NEW y \in S, <<x, y>> \in R
        PROVE  Cardinality(B(x)) < Cardinality(B(y))
    <2>1. B(x) \subseteq B(y) /\ x \in B(y) /\ x \notin B(x)
      BY <1>4, <1>2 DEF Below, StrictOrder
    <2> QED
      BY <2>1, <1>2, FS_Subset
  <1>5. ASSUME NEW n \in 1..Cardinality(S) PROVE \E x \in S : Cardinality(B(x)) = n - 1
    <2> DEFINE T == 1..Cardinality(S)
               f == [x \in S |-> Cardinality(B(x)) + 1]
    <2>1. f \in [S -> T]
      BY <1>1, <1>2, <1>3
    <2>2. \A x, y \in S : f[x] = f[y] => x = y
      <3> SUFFICES ASSUME NEW x \in S, NEW y \in S, f[x] = f[y], x # y PROVE FALSE
        OBVIOUS
      <3>1. Cardinality(B(x)) = Cardinality(B(y))
        BY <1>2
      <3>2. <<x, y>> \in R \/ <<y, x>> \in R
        BY DEF StrictOrder
      <3> QED
        BY <3>1, <3>2, <1>2, <1>4
    <2>3. f \in Injection(S, T)
      <3> HIDE DEF f, T
      <3> QED
        BY <2>1, <2>2 DEF Injection, IsInjective
    <2>4. IsFiniteSet(T) /\ Cardinality(T) = Cardinality(S)
      BY <1>1, FS_Interval
    <2>5. f \in Surjection(S, T)
      <3> HIDE DEF f, T
      <3> QED
        BY <2>3, <2>4, FS_Injection
    <2>6. PICK x \in S : f[x] = n
      BY <2>5 DEF Surjection
    <2> QED
      BY <2>6, <1>2
  <1> QED
    BY <1>1, <1>2, <1>3, <1>4, <1>5

(* A function that gives for each rank an element of it.                   *)
Lists(l, R, S) ==
  /\ DOMAIN l = 1..Cardinality(S)
  /\ \A n \in 1..Cardinality(S) : l[n] \in S /\ Cardinality(Below(R, S, l[n])) = n - 1

LEMMA ListedInOrder ==
  ASSUME NEW S, IsFiniteSet(S), NEW R, StrictOrder(R, S), NEW l,
         l = [n \in DOMAIN l |-> l[n]], Lists(l, R, S)
  PROVE  /\ Cardinality(S) \in Nat
         /\ l \in [1..Cardinality(S) -> S]
         /\ \A x \in S : \E n \in 1..Cardinality(S) : l[n] = x
         /\ \A m, n \in 1..Cardinality(S) : m < n => <<l[m], l[n]>> \in R
  <1> DEFINE C(x) == Cardinality(Below(R, S, x))
  <1>1. Cardinality(S) \in Nat
    BY FS_CardinalityType
  <1>2. \A n \in 1..Cardinality(S) : l[n] \in S /\ C(l[n]) = n - 1
    BY DEF Lists
  <1>3. ASSUME NEW x \in S, NEW y \in S, C(x) = C(y) PROVE x = y
    <2>1. C(x) \in Int /\ C(y) \in Int
      BY Ranks
    <2> QED
      <3>1. <<x, y>> \in R => C(x) < C(y)
        BY Ranks
      <3>2. <<y, x>> \in R => C(y) < C(x)
        BY Ranks
      <3>3. x = y \/ <<x, y>> \in R \/ <<y, x>> \in R
        BY DEF StrictOrder
      <3> HIDE DEF C
      <3> QED
        BY <1>3, <2>1, <3>1, <3>2, <3>3
  <1>4. l \in [1..Cardinality(S) -> S]
    BY <1>2 DEF Lists
  <1>5. ASSUME NEW x \in S PROVE \E n \in 1..Cardinality(S) : l[n] = x
    <2>1. C(x) \in 0..(Cardinality(S) - 1)
      BY Ranks
    <2>2. C(x) + 1 \in 1..Cardinality(S) /\ (C(x) + 1) - 1 = C(x)
      BY <2>1, <1>1
    <2>3. l[C(x) + 1] = x
      BY <2>2, <1>2, <1>3
    <2> QED
      BY <2>2, <2>3
  <1>6. ASSUME NEW m \in 1..Cardinality(S), NEW n \in 1..Cardinality(S), m < n
        PROVE  <<l[m], l[n]>> \in R
    <2>1. l[m] \in S /\ l[n] \in S /\ C(l[m]) = m - 1 /\ C(l[n]) = n - 1
      BY <1>2
    <2>2. C(l[m]) < C(l[n])
      BY <2>1, <1>6
    <2>3. l[m] # l[n] /\ <<l[n], l[m]>> \notin R
      <3>1. <<l[n], l[m]>> \in R => C(l[n]) < C(l[m])
        BY <2>1, Ranks
      <3> QED
        BY <2>1, <2>2, <3>1
    <2> QED
      BY <2>1, <2>3 DEF StrictOrder
  <1> QED
    BY <1>1, <1>4, <1>5, <1>6

-----------------------------------------------------------------------------
(* Quotes by price and source.                                             *)

LEMMA QuoteTyped ==
  \A a \in Quote : a.source \in Nat /\ a.price \in Nat /\ a.price > 0
  <1>1. \A a \in Quote : a.source \in Sources /\ a.price \in Prices
    BY DEF Quote
  <1>2. \A x \in Sources : x \in Nat
    BY SourcesAssumption
  <1>3. \A x \in Prices : x \in Nat /\ x > 0
    BY PricesAssumption
  <1> QED
    BY <1>1, <1>2, <1>3

LEMMA QuotesInOrder ==
  ASSUME NEW S \in SUBSET Quote, IsFiniteSet(S)
  PROVE  /\ Cardinality(S) \in Nat
         /\ InOrder(S, Earlier) \in [1..Cardinality(S) -> S]
         /\ \A a \in S : \E n \in 1..Cardinality(S) : InOrder(S, Earlier)[n] = a
         /\ \A m, n \in 1..Cardinality(S) :
              m < n => /\ InOrder(S, Earlier)[m] # InOrder(S, Earlier)[n]
                       /\ InOrder(S, Earlier)[m].price <= InOrder(S, Earlier)[n].price
  <1> DEFINE R == {w \in S \X S : Earlier(w[1], w[2])}
             o == InOrder(S, Earlier)
  <1>1. \A a, b \in S : <<a, b>> \in R <=> Earlier(a, b)
    OBVIOUS
  <1>2. \A a, b \in S : a.source = b.source /\ a.price = b.price => a = b
    BY DEF Quote
  <1>3. StrictOrder(R, S)
    <2> HIDE DEF R
    <2> USE QuoteTyped DEF Earlier
    <2>1. \A x \in S : <<x, x>> \notin R
      BY <1>1
    <2>2. ASSUME NEW x \in S, NEW y \in S, NEW z \in S, <<x, y>> \in R, <<y, z>> \in R
          PROVE  <<x, z>> \in R
      BY <1>1, <2>2
    <2>3. ASSUME NEW x \in S, NEW y \in S PROVE x = y \/ <<x, y>> \in R \/ <<y, x>> \in R
      BY <1>1, <1>2
    <2> QED
      BY <2>1, <2>2, <2>3 DEF StrictOrder
  <1>4. o = [n \in DOMAIN o |-> o[n]] /\ Lists(o, R, S)
    <2>1. \A x \in S : {y \in S : Earlier(y, x)} = Below(R, S, x)
      <3> HIDE DEF R
      <3> QED
        BY <1>1 DEF Below
    <2>2. o = [n \in 1..Cardinality(S) |->
                 CHOOSE x \in S : Cardinality({y \in S : Earlier(y, x)}) = n - 1]
      BY DEF InOrder
    <2>3. ASSUME NEW n \in 1..Cardinality(S)
          PROVE  o[n] \in S /\ Cardinality(Below(R, S, o[n])) = n - 1
      <3>1. \E x \in S : Cardinality(Below(R, S, x)) = n - 1
        <4> HIDE DEF R
        <4> QED
          BY <1>3, Ranks
      <3>2. \E x \in S : Cardinality({y \in S : Earlier(y, x)}) = n - 1
        BY <3>1, <2>1
      <3>3. o[n] \in S /\ Cardinality({y \in S : Earlier(y, o[n])}) = n - 1
        <4> HIDE DEF o
        <4> QED
          BY <3>2, <2>2
      <3> QED
        BY <3>3, <2>1
    <2>4. DOMAIN o = 1..Cardinality(S) /\ o = [n \in DOMAIN o |-> o[n]]
      <3> DEFINE e(n) == CHOOSE x \in S : Cardinality({y \in S : Earlier(y, x)}) = n - 1
      <3>1. o = [n \in 1..Cardinality(S) |-> e(n)]
        BY <2>2
      <3> HIDE DEF o, e
      <3> QED
        BY <3>1
    <2> HIDE DEF o, R
    <2> QED
      BY <2>3, <2>4 DEF Lists
  <1>5. o \in [1..Cardinality(S) -> S]
    <2> HIDE DEF R, o
    <2> QED
      BY <1>3, <1>4, ListedInOrder
  <1>6. \A m, n \in 1..Cardinality(S) : m < n => Earlier(o[m], o[n])
    <2> HIDE DEF R, o
    <2> QED
      BY <1>1, <1>3, <1>4, <1>5, ListedInOrder
  <1>7. \A m, n \in 1..Cardinality(S) : m < n => o[m] # o[n] /\ o[m].price <= o[n].price
    <2> HIDE DEF o
    <2> QED
      BY <1>5, <1>6, QuoteTyped DEF Earlier
  <1> QED
    <2> HIDE DEF R, o
    <2>1. /\ Cardinality(S) \in Nat
          /\ \A a \in S : \E n \in 1..Cardinality(S) : o[n] = a
      BY <1>3, <1>4, ListedInOrder
    <2> QED
      BY <2>1, <1>5, <1>7 DEF o

-----------------------------------------------------------------------------
(* Numbers in ascending order, and their median.                           *)

LEMMA AscendingOrders ==
  ASSUME NEW s \in Seq(Int)
  PROVE  /\ Ascending(s) \in Seq(Int) /\ Len(Ascending(s)) = Len(s)
         /\ \A m, n \in 1..Len(s) : m <= n => Ascending(s)[m] <= Ascending(s)[n]
         /\ \A n \in 1..Len(s) : \E i \in 1..Len(s) : Ascending(s)[n] = s[i]
         /\ \A i \in 1..Len(s) : \E n \in 1..Len(s) : Ascending(s)[n] = s[i]
  <1> DEFINE D == 1..Len(s)
             Bef(i, j) == s[i] < s[j] \/ (s[i] = s[j] /\ i < j)
             R == {w \in D \X D : Bef(w[1], w[2])}
             place == [n \in 1..Cardinality(D) |->
                         CHOOSE x \in D : Cardinality({y \in D : Bef(y, x)}) = n - 1]
             t == Ascending(s)
  <1>1. Len(s) \in Nat /\ DOMAIN s = D /\ \A i \in D : s[i] \in Int
    OBVIOUS
  <1>2. IsFiniteSet(D) /\ Cardinality(D) = Len(s)
    <2>1. ASSUME NEW n \in Nat PROVE IsFiniteSet(1..n) /\ Cardinality(1..n) = n
      BY FS_Interval
    <2> QED
      BY <1>1, <2>1
  <1>3. \A a, b \in D : <<a, b>> \in R <=> Bef(a, b)
    OBVIOUS
  <1>4. StrictOrder(R, D)
    <2> HIDE DEF R, D
    <2>0. \A i \in D : i \in Int
      BY <1>1 DEF D
    <2>1. \A x \in D : <<x, x>> \notin R
      BY <1>1, <1>3, <2>0
    <2>2. ASSUME NEW x \in D, NEW y \in D, NEW z \in D, <<x, y>> \in R, <<y, z>> \in R
          PROVE  <<x, z>> \in R
      BY <1>1, <1>3, <2>0, <2>2
    <2>3. ASSUME NEW x \in D, NEW y \in D PROVE x = y \/ <<x, y>> \in R \/ <<y, x>> \in R
      BY <1>1, <1>3, <2>0
    <2> QED
      BY <2>1, <2>2, <2>3 DEF StrictOrder
  <1>5. place = [n \in DOMAIN place |-> place[n]] /\ Lists(place, R, D)
    <2>1. \A x \in D : {y \in D : Bef(y, x)} = Below(R, D, x)
      <3> HIDE DEF R, D, Bef
      <3> QED
        BY <1>3 DEF Below
    <2>2. ASSUME NEW n \in 1..Cardinality(D)
          PROVE  place[n] \in D /\ Cardinality(Below(R, D, place[n])) = n - 1
      <3>1. \E x \in D : Cardinality(Below(R, D, x)) = n - 1
        <4> HIDE DEF R, D
        <4> QED
          BY <1>2, <1>4, Ranks
      <3>2. \E x \in D : Cardinality({y \in D : Bef(y, x)}) = n - 1
        <4> HIDE DEF R, D, Bef
        <4> QED
          BY <3>1, <2>1
      <3>3. place[n] \in D /\ Cardinality({y \in D : Bef(y, place[n])}) = n - 1
        <4> HIDE DEF D, Bef
        <4> QED
          BY <3>2
      <3> HIDE DEF D, Bef, R, place
      <3> QED
        BY <3>3, <2>1
    <2>3. DOMAIN place = 1..Cardinality(D) /\ place = [n \in DOMAIN place |-> place[n]]
      <3> DEFINE e(n) == CHOOSE x \in D : Cardinality({y \in D : Bef(y, x)}) = n - 1
      <3>1. place = [n \in 1..Cardinality(D) |-> e(n)]
        OBVIOUS
      <3> HIDE DEF place, e
      <3> QED
        BY <3>1
    <2> HIDE DEF R, D, Bef, place
    <2> QED
      BY <2>2, <2>3 DEF Lists
  <1>6. t = [n \in D |-> s[place[n]]]
    <2>1. t = [n \in DOMAIN s |-> s[InOrder(DOMAIN s, LAMBDA i, j : s[i] < s[j] \/ (s[i] = s[j] /\ i < j))[n]]]
      BY DEF Ascending
    <2>2. t = [n \in D |-> s[InOrder(D, LAMBDA i, j : s[i] < s[j] \/ (s[i] = s[j] /\ i < j))[n]]]
      BY <2>1, <1>1
    <2> QED
      BY <2>2 DEF InOrder
  <1>7. /\ place \in [D -> D]
        /\ \A i \in D : \E n \in D : place[n] = i
        /\ \A m, n \in D : m < n => <<place[m], place[n]>> \in R
    <2>1. /\ place \in [1..Cardinality(D) -> D]
          /\ \A i \in D : \E n \in 1..Cardinality(D) : place[n] = i
          /\ \A m, n \in 1..Cardinality(D) : m < n => <<place[m], place[n]>> \in R
      <3> HIDE DEF R, place, D
      <3> QED
        BY <1>2, <1>4, <1>5, ListedInOrder
    <2>2. 1..Cardinality(D) = D
      BY <1>2
    <2> HIDE DEF R, place, D
    <2> QED
      BY <2>1, <2>2
  <1> HIDE DEF place, R, t
  <1>8. t \in [1..Len(s) -> Int]
    BY <1>1, <1>6, <1>7
  <1>9. t \in Seq(Int) /\ Len(t) = Len(s)
    BY <1>1, <1>8
  <1>10. \A m, n \in D : m <= n => t[m] <= t[n]
    <2> SUFFICES ASSUME NEW m \in D, NEW n \in D, m <= n PROVE t[m] <= t[n]
      OBVIOUS
    <2>1. CASE m = n
      BY <2>1, <1>8
    <2>2. CASE m < n
      <3>1. Bef(place[m], place[n])
        BY <2>2, <1>3, <1>7
      <3>2. t[m] = s[place[m]] /\ t[n] = s[place[n]] /\ place[m] \in D /\ place[n] \in D
        BY <1>6, <1>7
      <3> QED
        BY <3>1, <3>2, <1>1
    <2> QED
      BY <2>1, <2>2, <1>1
  <1>11. \A n \in D : \E i \in D : t[n] = s[i]
    BY <1>6, <1>7
  <1>12. \A i \in D : \E n \in D : t[n] = s[i]
    BY <1>6, <1>7
  <1> QED
    BY <1>9, <1>10, <1>11, <1>12 DEF t

LEMMA MedianRank ==
  ASSUME NEW s \in Seq(Int), Len(s) > 0
  PROVE  /\ Median(s) \in Int
         /\ Ascending(s)[(Len(s) + 1) \div 2] <= Median(s)
         /\ Median(s) <= Ascending(s)[Len(s) \div 2 + 1]
  <1> DEFINE t == Ascending(s)
             n == Len(s)
             h == n \div 2
  <1>1. n \in Nat /\ n > 0
    OBVIOUS
  <1>2. t \in Seq(Int) /\ Len(t) = n /\ \A i, j \in 1..n : i <= j => t[i] <= t[j]
    BY AscendingOrders
  <1>3. Median(s) = IF n % 2 = 0 THEN (t[h] + t[h + 1]) \div 2 ELSE t[h + 1]
    BY DEF Median
  <1> HIDE DEF t
  <1>4. CASE n % 2 = 0
    <2>1. h \in 1..n /\ h + 1 \in 1..n /\ (n + 1) \div 2 = h
      BY <1>1, <1>4
    <2>2. t[h] \in Int /\ t[h + 1] \in Int /\ t[h] <= t[h + 1]
      BY <1>2, <2>1
    <2> HIDE DEF h
    <2>3. Median(s) = (t[h] + t[h + 1]) \div 2
      BY <1>3, <1>4
    <2>4. ASSUME NEW a \in Int, NEW b \in Int, a <= b
          PROVE  (a + b) \div 2 \in Int /\ a <= (a + b) \div 2 /\ (a + b) \div 2 <= b
      BY <2>4
    <2>5. Median(s) \in Int /\ t[h] <= Median(s) /\ Median(s) <= t[h + 1]
      BY <2>2, <2>3, <2>4
    <2> QED
      BY <2>1, <2>5 DEF h, t
  <1>5. CASE n % 2 # 0
    <2>1. h + 1 \in 1..n /\ (n + 1) \div 2 = h + 1
      BY <1>1, <1>5
    <2>2. t[h + 1] \in Int
      BY <1>2, <2>1
    <2> HIDE DEF h
    <2> QED
      BY <1>3, <1>5, <2>1, <2>2 DEF h, t
  <1> QED
    BY <1>4, <1>5

(* The median lies between two of the numbers.                             *)
LEMMA MedianBetween ==
  ASSUME NEW s \in Seq(Int), Len(s) > 0
  PROVE  /\ Median(s) \in Int
         /\ \E i \in 1..Len(s) : s[i] <= Median(s)
         /\ \E i \in 1..Len(s) : Median(s) <= s[i]
  <1>1. Len(s) \in Nat
    OBVIOUS
  <1>2. (Len(s) + 1) \div 2 \in 1..Len(s) /\ Len(s) \div 2 + 1 \in 1..Len(s)
    BY <1>1
  <1>3. \A n \in 1..Len(s) : \E i \in 1..Len(s) : Ascending(s)[n] = s[i]
    BY AscendingOrders
  <1> QED
    BY <1>2, <1>3, MedianRank

-----------------------------------------------------------------------------
(* The scan over the sorted answers.                                       *)

LEMMA DeviatesFar ==
  ASSUME NEW p \in Int, NEW r \in Int, NEW m \in Int, NEW tol \in Nat, m <= p, p <= r,
         Deviates(p, m, tol)
  PROVE  Deviates(r, m, tol)
  <1>1. Distance(p, m) = p - m /\ Distance(r, m) = r - m
    BY DEF Distance
  <1>2. tol * m \in Int
    OBVIOUS
  <1> QED
    BY <1>1, <1>2 DEF Deviates, BPS

LEMMA NoDeviation == ASSUME NEW p \in Nat, NEW tol \in Nat PROVE ~Deviates(p, p, tol)
  <1>1. tol * p \in Nat
    OBVIOUS
  <1> QED
    BY <1>1 DEF Deviates, Distance, BPS

ByPrice(s) ==
  /\ s \in Seq(Quote)
  /\ \A i, j \in 1..Len(s) : i <= j => s[i].price <= s[j].price

Window(s, v, tol) ==
  /\ v \in (1..Len(s)) \X (1..Len(s)) /\ v[1] <= v[2]
  /\ ~Deviates(s[v[2]].price, s[v[1]].price, tol)

(* By the rules for ties, v is no better than w.                           *)
NoBetter(s, v, w) ==
  \/ Size(v) < Size(w)
  \/ /\ Size(v) = Size(w)
     /\ \/ Width(s, v) > Width(s, w)
        \/ Width(s, v) = Width(s, w) /\ s[w[1]].price <= s[v[1]].price

ScanInv(s, tol, e, r) ==
  /\ r.start \in 1..Len(s) /\ (e > 0 => r.start <= e) /\ (e = 0 => r.start = 1)
  /\ \A j \in 1..(r.start - 1) : Deviates(s[e].price, s[j].price, tol)
  /\ Window(s, r.best, tol) /\ (r.best[2] <= e \/ r.best = <<1, 1>>)
  /\ \A v \in (1..Len(s)) \X (1..e) : Window(s, v, tol) => NoBetter(s, v, r.best)

LEMMA ScanStarts ==
  ASSUME NEW s, ByPrice(s), Len(s) > 0, NEW tol \in Nat
  PROVE  ScanInv(s, tol, 0, [start |-> 1, best |-> <<1, 1>>])
  <1>1. Len(s) \in Nat /\ s[1] \in Quote
    BY DEF ByPrice
  <1>2. ~Deviates(s[1].price, s[1].price, tol)
    BY <1>1, NoDeviation, QuoteTyped
  <1>3. Window(s, <<1, 1>>, tol)
    BY <1>1, <1>2 DEF Window
  <1> QED
    BY <1>1, <1>3 DEF ScanInv

LEMMA WindowFound ==
  ASSUME NEW s, ByPrice(s), NEW tol \in Nat, NEW e \in 1..Len(s), NEW from \in 1..e
  PROVE  LET i == WindowStart(s, e, from, tol) IN
         /\ i \in from..e
         /\ ~Deviates(s[e].price, s[i].price, tol)
         /\ \A j \in from..(i - 1) : Deviates(s[e].price, s[j].price, tol)
  <1> DEFINE T == {i \in from..e : ~Deviates(s[e].price, s[i].price, tol)}
             OK(i) == /\ ~Deviates(s[e].price, s[i].price, tol)
                      /\ \A j \in from..(i - 1) : Deviates(s[e].price, s[j].price, tol)
  <1>1. Len(s) \in Nat /\ s[e] \in Quote
    BY DEF ByPrice
  <1>2. e \in T
    BY <1>1, NoDeviation, QuoteTyped
  <1>3. T \in SUBSET Nat
    BY <1>1
  <1>4. PICK i \in T : \A j \in T : i <= j
    <2> HIDE DEF T
    <2> QED
      BY <1>2, <1>3, LeastNumber
  <1>5. OK(i)
    <2> SUFFICES ASSUME NEW j \in from..(i - 1), ~Deviates(s[e].price, s[j].price, tol) PROVE FALSE
      OBVIOUS
    <2>1. j \in T
      BY <1>4
    <2> QED
      BY <1>4, <2>1
  <1>6. \E k \in from..e : OK(k)
    BY <1>4, <1>5
  <1> HIDE DEF OK
  <1>7. WindowStart(s, e, from, tol) = CHOOSE k \in from..e : OK(k)
    BY DEF WindowStart, OK
  <1>8. WindowStart(s, e, from, tol) \in from..e /\ OK(WindowStart(s, e, from, tol))
    BY <1>6, <1>7
  <1> QED
    BY <1>8 DEF OK

LEMMA ScanSteps ==
  ASSUME NEW s, ByPrice(s), NEW tol \in Nat, NEW e \in Nat, e + 1 <= Len(s), NEW r,
         ScanInv(s, tol, e, r)
  PROVE  ScanInv(s, tol, e + 1, NextWindow(s, e + 1, r, tol))
  <1> DEFINE n == Len(s)
             st == WindowStart(s, e + 1, r.start, tol)
             new == <<st, e + 1>>
             b == r.best
             nb == IF Better(s, new, b) THEN new ELSE b
  <1>1. /\ n \in Nat /\ e + 1 \in 1..n
        /\ \A i \in 1..n : s[i] \in Quote /\ s[i].price \in Nat
        /\ \A i, j \in 1..n : i <= j => s[i].price <= s[j].price
    BY QuoteTyped DEF ByPrice
  <1>2. r.start \in 1..(e + 1)
    BY <1>1 DEF ScanInv
  <1>3. /\ st \in r.start..(e + 1)
        /\ ~Deviates(s[e + 1].price, s[st].price, tol)
        /\ \A j \in r.start..(st - 1) : Deviates(s[e + 1].price, s[j].price, tol)
    BY <1>1, <1>2, WindowFound
  <1> HIDE DEF st
  <1>4. st \in 1..(e + 1) /\ st \in 1..n
    BY <1>1, <1>2, <1>3
  <1>5. \A j \in 1..(st - 1) : Deviates(s[e + 1].price, s[j].price, tol)
    <2> SUFFICES ASSUME NEW j \in 1..(st - 1) PROVE Deviates(s[e + 1].price, s[j].price, tol)
      OBVIOUS
    <2>1. CASE j \in r.start..(st - 1)
      BY <1>3, <2>1
    <2>2. CASE j \in 1..(r.start - 1)
      <3>1. Deviates(s[e].price, s[j].price, tol) /\ e > 0 /\ j <= e
        BY <1>2, <2>2 DEF ScanInv
      <3>2. e \in 1..n /\ j \in 1..n
        BY <1>1, <3>1
      <3>3. s[j].price <= s[e].price /\ s[e].price <= s[e + 1].price
        BY <1>1, <3>1, <3>2
      <3> QED
        BY <1>1, <3>1, <3>2, <3>3, DeviatesFar
    <2> QED
      BY <1>2, <1>4, <2>1, <2>2
  <1>6. Window(s, new, tol)
    BY <1>1, <1>3, <1>4 DEF Window
  <1>7. /\ Window(s, b, tol) /\ (b[2] <= e \/ b = <<1, 1>>)
        /\ b \in (1..n) \X (1..n) /\ b[1] <= b[2]
    BY DEF ScanInv, Window
  <1>8. Window(s, nb, tol) /\ (nb[2] <= e + 1 \/ nb = <<1, 1>>)
    BY <1>1, <1>6, <1>7
  <1>9. ASSUME NEW v \in (1..n) \X (1..(e + 1)), Window(s, v, tol)
        PROVE  NoBetter(s, v, nb)
    <2>1. /\ v[1] \in 1..n /\ v[2] \in 1..n /\ v[2] <= e + 1 /\ v[1] <= v[2]
          /\ v = <<v[1], v[2]>>
      BY <1>1, <1>9 DEF Window
    <2>2. Size(v) \in Int /\ Size(new) \in Int /\ Size(b) \in Int
      BY <1>1, <1>4, <1>7, <2>1 DEF Size
    <2>3. Width(s, v) \in Int /\ Width(s, new) \in Int /\ Width(s, b) \in Int
      <3>1. ASSUME NEW i \in 1..n, NEW j \in 1..n PROVE s[j].price - s[i].price \in Int
        BY <1>1
      <3>2. b[1] \in 1..n /\ b[2] \in 1..n /\ new[1] \in 1..n /\ new[2] \in 1..n
        BY <1>1, <1>4, <1>7
      <3> HIDE DEF b, new, n
      <3> QED
        BY <2>1, <3>1, <3>2 DEF Width
    <2>4. CASE v[2] <= e
      <3>1. NoBetter(s, v, b)
        BY <2>1, <2>4, <1>9, <1>1 DEF ScanInv
      <3>2. CASE ~Better(s, new, b)
        BY <3>1, <3>2
      <3>3. CASE Better(s, new, b)
        <4>1. Size(v) < Size(new) \/ (Size(v) = Size(new) /\ Width(s, v) > Width(s, new))
          BY <3>1, <3>3, <2>2, <2>3 DEF Better, NoBetter
        <4> QED
          BY <4>1, <3>3 DEF NoBetter
      <3> QED
        BY <3>2, <3>3
    <2>5. CASE v[2] = e + 1
      <3>1. v[1] >= st
        BY <1>4, <1>5, <1>9, <2>1, <2>5 DEF Window
      <3>2. Size(v) <= Size(new)
        BY <1>4, <2>1, <2>5, <3>1 DEF Size
      <3>3. Size(v) = Size(new) => v = new
        BY <1>4, <2>1, <2>5 DEF Size
      <3>4. CASE Size(v) < Size(new)
        <4>1. Size(v) < Size(nb)
          BY <2>2, <3>4 DEF Better
        <4> QED
          BY <4>1 DEF NoBetter
      <3>5. CASE v = new
        <4>1. CASE Better(s, new, b)
          <5>1. s[new[1]].price <= s[v[1]].price
            BY <3>5, <2>1, <1>1
          <5> QED
            BY <3>5, <4>1, <5>1 DEF NoBetter
        <4>2. CASE ~Better(s, new, b)
          <5>1. Size(new) < Size(b) \/ (Size(new) = Size(b) /\ Width(s, new) >= Width(s, b))
            BY <4>2, <2>2, <2>3 DEF Better
          <5>2. Size(new) = Size(b) => b[1] <= st
            BY <1>1, <1>4, <1>7 DEF Size
          <5>3. Size(new) = Size(b) => s[b[1]].price <= s[st].price
            BY <5>2, <1>1, <1>4, <1>7
          <5>4. v[1] = st
            BY <3>5
          <5> QED
            BY <3>5, <4>2, <5>1, <5>3, <5>4, <2>2, <2>3 DEF NoBetter
        <4> QED
          BY <4>1, <4>2
      <3> QED
        BY <2>2, <3>2, <3>3, <3>4, <3>5
    <2> QED
      BY <2>1, <2>4, <2>5
  <1>10. NextWindow(s, e + 1, r, tol) = [start |-> st, best |-> nb]
    BY DEF NextWindow, st
  <1> HIDE DEF nb, b, new
  <1> QED
    BY <1>1, <1>4, <1>5, <1>8, <1>9, <1>10 DEF ScanInv

(* The function that Scan defines exists, and keeps the invariant.         *)
LEMMA ScanBest ==
  ASSUME NEW s, ByPrice(s), Len(s) > 0, NEW tol \in Nat
  PROVE  /\ Window(s, Scan(s, tol), tol)
         /\ \A v \in (1..Len(s)) \X (1..Len(s)) :
              Window(s, v, tol) => NoBetter(s, v, Scan(s, tol))
  <1> DEFINE first == [start |-> 1, best |-> <<1, 1>>]
             E(f, e) == IF e = 0 THEN first ELSE NextWindow(s, e, f[e - 1], tol)
             Scans(f, n) == f = [e \in 0..n |-> E(f, e)]
             None == {n \in Nat : ~\E f : Scans(f, n)}
  <1>0. Len(s) \in Nat
    BY DEF ByPrice
  <1>1. None = {}
    <2> SUFFICES ASSUME None # {} PROVE FALSE
      OBVIOUS
    <2>1. PICK n \in None : \A m \in None : n <= m
      <3>1. None \in SUBSET Nat
        OBVIOUS
      <3> HIDE DEF None
      <3> QED
        BY <3>1, LeastNumber
    <2>2. n # 0
      <3>1. Scans([e \in 0..0 |-> first], 0)
        OBVIOUS
      <3> QED
        BY <3>1
    <2>3. n - 1 \in Nat /\ n - 1 \notin None
      <3>1. n \in Nat
        BY <2>1
      <3> HIDE DEF None
      <3> QED
        BY <2>1, <2>2, <3>1
    <2>4. PICK f : Scans(f, n - 1)
      BY <2>3
    <2> DEFINE g == [e \in 0..n |-> IF e = n THEN NextWindow(s, n, f[n - 1], tol) ELSE f[e]]
    <2>5. \A e \in 0..(n - 1) : g[e] = f[e] /\ f[e] = E(f, e)
      <3>1. n \in Nat
        BY <2>3
      <3>2. \A e \in 0..(n - 1) : e \in 0..n /\ e # n
        BY <3>1
      <3> HIDE DEF E
      <3>3. \A e \in 0..(n - 1) : f[e] = E(f, e)
        BY <2>4
      <3> QED
        BY <3>2, <3>3
    <2>6. ASSUME NEW e \in 0..n PROVE g[e] = E(g, e)
      <3>1. CASE e = n
        <4>1. g[n - 1] = f[n - 1]
          BY <2>3, <2>5
        <4> QED
          BY <2>2, <3>1, <4>1
      <3>2. CASE e # n
        <4>1. e \in 0..(n - 1)
          BY <3>2
        <4>2. e # 0 => g[e - 1] = f[e - 1]
          <5>1. e # 0 => e - 1 \in 0..(n - 1)
            BY <4>1
          <5> QED
            BY <5>1, <2>5
        <4>3. g[e] = E(f, e)
          BY <2>5, <4>1
        <4> HIDE DEF g
        <4> QED
          BY <4>2, <4>3
      <3> QED
        BY <3>1, <3>2
    <2>7. Scans(g, n)
      <3>1. g = [e \in 0..n |-> g[e]]
        OBVIOUS
      <3> HIDE DEF g, E
      <3> QED
        BY <2>6, <3>1
    <2> QED
      BY <2>1, <2>7
  <1>2. \E f : Scans(f, Len(s))
    BY <1>0, <1>1
  <1> DEFINE scan == CHOOSE f : Scans(f, Len(s))
  <1>3. Scans(scan, Len(s))
    <2> HIDE DEF Scans
    <2> QED
      BY <1>2
  <1>4. Scan(s, tol) = scan[Len(s)].best
    BY DEF Scan
  <1> HIDE DEF scan
  <1>5. \A e \in 0..Len(s) : scan[e] = E(scan, e)
    BY <1>3
  <1> DEFINE Bad == {e \in Nat : e <= Len(s) /\ ~ScanInv(s, tol, e, scan[e])}
  <1>6. Bad = {}
    <2> SUFFICES ASSUME Bad # {} PROVE FALSE
      OBVIOUS
    <2>1. PICK e \in Bad : \A d \in Bad : e <= d
      <3>1. Bad \in SUBSET Nat
        OBVIOUS
      <3> HIDE DEF Bad
      <3> QED
        BY <3>1, LeastNumber
    <2>2. e # 0
      <3>1. scan[0] = first
        BY <1>0, <1>5
      <3> HIDE DEF first
      <3> QED
        BY <3>1, ScanStarts DEF first
    <2>3. e - 1 \in Nat /\ e - 1 <= Len(s) /\ ScanInv(s, tol, e - 1, scan[e - 1])
      BY <1>0, <2>1, <2>2
    <2>4. scan[e] = NextWindow(s, e, scan[e - 1], tol)
      BY <1>0, <1>5, <2>1, <2>2
    <2>5. (e - 1) + 1 = e /\ e <= Len(s)
      BY <2>1
    <2>6. ScanInv(s, tol, (e - 1) + 1, NextWindow(s, (e - 1) + 1, scan[e - 1], tol))
      BY <2>3, <2>5, ScanSteps
    <2> QED
      BY <2>1, <2>4, <2>5, <2>6
  <1>7. ScanInv(s, tol, Len(s), scan[Len(s)])
    BY <1>0, <1>6
  <1> QED
    BY <1>4, <1>7 DEF ScanInv

-----------------------------------------------------------------------------
(* The cluster.                                                            *)

LEMMA IntervalSize ==
  \A a, b \in Nat : a > 0 /\ a <= b + 1 => IsFiniteSet(a..b) /\ Cardinality(a..b) = b - a + 1
  <1> SUFFICES ASSUME NEW a \in Nat, NEW b \in Nat, a > 0, a <= b + 1
               PROVE  IsFiniteSet(a..b) /\ Cardinality(a..b) = b - a + 1
    OBVIOUS
  <1>1. IsFiniteSet(a..b) /\ Cardinality(a..b) = IF a > b THEN 0 ELSE b - a + 1
    BY FS_Interval
  <1> QED
    BY <1>1

LEMMA RangeSize ==
  ASSUME NEW A, NEW s \in Seq(A), \A i, j \in 1..Len(s) : s[i] = s[j] => i = j
  PROVE  IsFiniteSet(Range(s)) /\ Cardinality(Range(s)) = Len(s)
  <1> DEFINE D == 1..Len(s)
  <1>1. Len(s) \in Nat /\ DOMAIN s = D /\ s \in [D -> Range(s)]
    BY DEF Range
  <1>2. IsFiniteSet(D) /\ Cardinality(D) = Len(s)
    BY <1>1, IntervalSize
  <1> HIDE DEF D
  <1>3. s \in Surjection(D, Range(s)) /\ s \in Injection(D, Range(s))
    BY <1>1 DEF Surjection, Injection, IsInjective, Range, D
  <1> QED
    BY <1>2, <1>3, FS_Surjection

NoRepeats(q) == \A i, j \in 1..Len(q) : q[i] = q[j] => i = j

LEMMA SortedAnswers ==
  ASSUME NEW q \in Seq(Quote), Distinct(q)
  PROVE  /\ ByPrice(Sorted(q)) /\ Len(Sorted(q)) = Len(q)
         /\ Range(Sorted(q)) = Range(q) /\ NoRepeats(Sorted(q))
         /\ IsFiniteSet(Range(q)) /\ Cardinality(Range(q)) = Len(q)
  <1> DEFINE S == Range(q)
             s == InOrder(S, Earlier)
  <1>1. \A i, j \in 1..Len(q) : q[i] = q[j] => i = j
    BY DEF Distinct
  <1>2. IsFiniteSet(S) /\ Cardinality(S) = Len(q)
    BY <1>1, RangeSize
  <1>3. S \in SUBSET Quote /\ Len(q) \in Nat
    BY DEF Range
  <1> HIDE DEF S
  <1>4. /\ s \in [1..Len(q) -> S]
        /\ \A a \in S : \E n \in 1..Len(q) : s[n] = a
        /\ \A m, n \in 1..Len(q) : m < n => s[m] # s[n] /\ s[m].price <= s[n].price
    BY <1>2, <1>3, QuotesInOrder
  <1> HIDE DEF s
  <1>5. s \in Seq(Quote) /\ Len(s) = Len(q) /\ DOMAIN s = 1..Len(q)
    BY <1>3, <1>4
  <1>6. Range(s) = S
    BY <1>4, <1>5 DEF Range
  <1>7. \A i, j \in 1..Len(q) : s[i] = s[j] => i = j
    BY <1>3, <1>4
  <1>8. \A i, j \in 1..Len(q) : i <= j => s[i].price <= s[j].price
    <2> SUFFICES ASSUME NEW i \in 1..Len(q), NEW j \in 1..Len(q), i <= j
                 PROVE  s[i].price <= s[j].price
      OBVIOUS
    <2>1. s[i] \in Quote
      BY <1>3, <1>4
    <2> QED
      BY <1>3, <1>4, <2>1, QuoteTyped
  <1>9. Sorted(q) = s
    BY DEF Sorted, S, s
  <1> QED
    BY <1>2, <1>5, <1>6, <1>7, <1>8, <1>9 DEF ByPrice, NoRepeats, S

Agree(S, tol) ==
  \A a, b \in S : a.price <= b.price => ~Deviates(b.price, a.price, tol)

(* What LargestCluster returns is a window of the sorted answers.          *)
IsCluster(c, q, tol, w) ==
  /\ Window(Sorted(q), w, tol)
  /\ c \in Seq(Quote) /\ Len(c) = Size(w) /\ Size(w) \in Nat \ {0}
  /\ \A k \in 1..Len(c) : w[1] + k - 1 \in 1..Len(q) /\ c[k] = Sorted(q)[w[1] + k - 1]

LEMMA ClusterFound ==
  ASSUME NEW q \in Seq(Quote), Distinct(q), Len(q) > 0, NEW tol \in Nat
  PROVE  IsCluster(LargestCluster(q, tol), q, tol, Scan(Sorted(q), tol))
  <1> DEFINE s == Sorted(q)
             w == Scan(s, tol)
             c == LargestCluster(q, tol)
  <1>1. ByPrice(s) /\ Len(s) = Len(q) /\ s \in Seq(Quote) /\ Len(q) \in Nat
    BY SortedAnswers DEF ByPrice
  <1>2. Window(s, w, tol)
    BY <1>1, ScanBest
  <1>3. c = SubSeq(s, w[1], w[2])
    BY DEF LargestCluster
  <1> HIDE DEF s, w, c
  <1>4. w[1] \in 1..Len(q) /\ w[2] \in 1..Len(q) /\ w[1] <= w[2]
    BY <1>1, <1>2 DEF Window
  <1>5. Size(w) = w[2] - w[1] + 1 /\ Size(w) \in Nat \ {0}
    BY <1>1, <1>4 DEF Size
  <1> DEFINE a == w[1]
             b == w[2]
  <1> HIDE DEF a, b
  <1>6. SubSeq(s, a, b) \in Seq(Quote) /\ Len(SubSeq(s, a, b)) = b - a + 1
    BY <1>1, <1>4 DEF a, b
  <1>7. \A k \in 1..(b - a + 1) : a + k - 1 \in 1..Len(q) /\ SubSeq(s, a, b)[k] = s[a + k - 1]
    BY <1>1, <1>4 DEF a, b
  <1> QED
    BY <1>2, <1>3, <1>5, <1>6, <1>7 DEF IsCluster, a, b, s, w, c

LEMMA ClusterAgrees ==
  ASSUME NEW q \in Seq(Quote), Distinct(q), NEW tol \in Nat, NEW c, NEW w,
         IsCluster(c, q, tol, w)
  PROVE  /\ Range(c) \subseteq Range(q) /\ Range(c) # {} /\ Agree(Range(c), tol)
         /\ IsFiniteSet(Range(c)) /\ Cardinality(Range(c)) = Len(c) /\ NoRepeats(c)
         /\ \A k \in 1..Len(c) :
              c[1].price <= c[k].price /\ c[k].price <= c[Len(c)].price
         /\ c[1].price = Sorted(q)[w[1]].price /\ c[Len(c)].price = Sorted(q)[w[2]].price
  <1> DEFINE s == Sorted(q)
  <1>1. /\ ByPrice(s) /\ Len(s) = Len(q) /\ Range(s) = Range(q) /\ NoRepeats(s)
        /\ s \in Seq(Quote) /\ Len(q) \in Nat
    BY SortedAnswers DEF ByPrice
  <1> HIDE DEF s
  <1>2. /\ w[1] \in 1..Len(q) /\ w[2] \in 1..Len(q) /\ w[1] <= w[2]
        /\ ~Deviates(s[w[2]].price, s[w[1]].price, tol)
    BY <1>1 DEF IsCluster, Window, s
  <1>3. /\ c \in Seq(Quote) /\ Len(c) = w[2] - w[1] + 1 /\ Len(c) \in Nat \ {0}
        /\ \A k \in 1..Len(c) : w[1] + k - 1 \in 1..Len(q) /\ c[k] = s[w[1] + k - 1]
    BY DEF IsCluster, Size, s
  <1>4. \A i, j \in 1..Len(q) : i <= j => s[i].price <= s[j].price
    BY <1>1 DEF ByPrice
  <1>5. c[1] = s[w[1]] /\ c[Len(c)] = s[w[2]]
    <2>1. w[1] + 1 - 1 = w[1] /\ w[1] + Len(c) - 1 = w[2] /\ 1 \in 1..Len(c) /\ Len(c) \in 1..Len(c)
      BY <1>2, <1>3
    <2> QED
      BY <1>3, <2>1
  <1>6. \A k \in 1..Len(c) : c[1].price <= c[k].price /\ c[k].price <= c[Len(c)].price
    <2> SUFFICES ASSUME NEW k \in 1..Len(c)
                 PROVE  c[1].price <= c[k].price /\ c[k].price <= c[Len(c)].price
      OBVIOUS
    <2>1. w[1] <= w[1] + k - 1 /\ w[1] + k - 1 <= w[2]
      BY <1>2, <1>3
    <2> QED
      BY <1>2, <1>3, <1>4, <1>5, <2>1
  <1>7. DOMAIN c = 1..Len(c) /\ \A k \in 1..Len(c) : c[k] \in Quote
    BY <1>3
  <1>8. Agree(Range(c), tol)
    <2> SUFFICES ASSUME NEW i \in 1..Len(c), NEW j \in 1..Len(c), c[i].price <= c[j].price,
                        Deviates(c[j].price, c[i].price, tol)
                 PROVE  FALSE
      BY <1>7 DEF Agree, Range
    <2> DEFINE lo == c[1].price
               hi == c[Len(c)].price
               p == c[i].price
               r == c[j].price
    <2>1. {lo, hi, p, r} \subseteq Nat /\ lo <= p /\ p <= r /\ r <= hi
      <3>1. 1 \in 1..Len(c) /\ Len(c) \in 1..Len(c)
        BY <1>3
      <3> QED
        BY <3>1, <1>6, <1>7, QuoteTyped
    <2>2. Deviates(r, p, tol) /\ ~Deviates(hi, lo, tol)
      BY <1>2, <1>5
    <2> HIDE DEF lo, hi, p, r
    <2>3. BPS * (r - p) > tol * p /\ ~(BPS * (hi - lo) > tol * lo)
      BY <2>1, <2>2 DEF Deviates, Distance
    <2>4. tol * lo <= tol * p
      BY <2>1
    <2>5. tol * lo \in Int /\ tol * p \in Int
      BY <2>1
    <2> QED
      BY <2>1, <2>3, <2>4, <2>5 DEF BPS
  <1>9. \A i, j \in 1..Len(c) : c[i] = c[j] => i = j
    <2> SUFFICES ASSUME NEW i \in 1..Len(c), NEW j \in 1..Len(c), c[i] = c[j] PROVE i = j
      OBVIOUS
    <2>1. w[1] + i - 1 = w[1] + j - 1
      BY <1>1, <1>3 DEF NoRepeats
    <2> QED
      BY <2>1, <1>2
  <1>10. IsFiniteSet(Range(c)) /\ Cardinality(Range(c)) = Len(c)
    BY <1>3, <1>9, RangeSize
  <1>11. Range(c) \subseteq Range(q) /\ Range(c) # {}
    <2>1. DOMAIN s = 1..Len(q)
      BY <1>1
    <2>2. \A i \in 1..Len(q) : s[i] \in Range(s)
      BY <2>1 DEF Range
    <2>3. \A k \in 1..Len(c) : c[k] \in Range(q)
      BY <1>1, <1>3, <2>2
    <2>4. Range(c) = {c[k] : k \in 1..Len(c)} /\ 1 \in 1..Len(c)
      BY <1>3, <1>7 DEF Range
    <2> QED
      BY <2>3, <2>4
  <1> QED
    BY <1>5, <1>6, <1>8, <1>9, <1>10, <1>11 DEF s, NoRepeats

LEMMA LargestClusterFacts ==
  ASSUME NEW q \in Seq(Quote), Distinct(q), Len(q) > 0, NEW tol \in Nat
  PROVE  LET c == LargestCluster(q, tol) IN
         /\ c \in Seq(Quote) /\ Len(c) \in Nat \ {0} /\ NoRepeats(c)
         /\ Range(c) \subseteq Range(q) /\ Agree(Range(c), tol)
         /\ IsFiniteSet(Range(c)) /\ Cardinality(Range(c)) = Len(c)
  <1> DEFINE c == LargestCluster(q, tol)
             w == Scan(Sorted(q), tol)
  <1>1. IsCluster(c, q, tol, w)
    BY ClusterFound
  <1> HIDE DEF c, w
  <1>2. c \in Seq(Quote) /\ Len(c) \in Nat \ {0}
    BY <1>1 DEF IsCluster
  <1>3. /\ NoRepeats(c) /\ Range(c) \subseteq Range(q) /\ Agree(Range(c), tol)
        /\ IsFiniteSet(Range(c)) /\ Cardinality(Range(c)) = Len(c)
    BY <1>1, ClusterAgrees
  <1> QED
    BY <1>2, <1>3 DEF c

(* The extremes of a set of answers in the order of the prices.            *)
LEMMA AgreeingWindow ==
  ASSUME NEW q \in Seq(Quote), Distinct(q), NEW tol \in Nat,
         NEW S \in SUBSET Range(q), S # {}, Agree(S, tol)
  PROVE  \E v \in (1..Len(q)) \X (1..Len(q)) :
           /\ Window(Sorted(q), v, tol)
           /\ IsFiniteSet(S) /\ Cardinality(S) <= Size(v)
           /\ Sorted(q)[v[1]] \in S /\ Sorted(q)[v[2]] \in S
           /\ \A a \in S : /\ Sorted(q)[v[1]].price <= a.price
                           /\ a.price <= Sorted(q)[v[2]].price
  <1> DEFINE s == Sorted(q)
             n == Len(q)
             T == {i \in 1..n : s[i] \in S}
             U == {n - i : i \in T}
  <1>1. /\ ByPrice(s) /\ Len(s) = n /\ Range(s) = Range(q) /\ NoRepeats(s)
        /\ s \in Seq(Quote) /\ n \in Nat /\ DOMAIN s = 1..n
    BY SortedAnswers DEF ByPrice
  <1> HIDE DEF s, n
  <1>2. \A a \in S : \E i \in T : s[i] = a
    BY <1>1 DEF Range
  <1>3. T \in SUBSET Nat /\ T # {} /\ U \in SUBSET Nat /\ U # {}
    BY <1>1, <1>2
  <1> DEFINE IsLow(i) == \A j \in T : i <= j
             IsHigh(i) == \A j \in T : j <= i
  <1>4. PICK i \in T : IsLow(i)
    <2> HIDE DEF T
    <2> QED
      BY <1>3, LeastNumber
  <1>5. PICK k \in T : IsHigh(k)
    <2>1. PICK u \in U : \A w \in U : u <= w
      <3> HIDE DEF U
      <3> QED
        BY <1>3, LeastNumber
    <2>2. PICK x \in T : u = n - x
      BY <2>1
    <2>3. ASSUME NEW j \in T PROVE j <= x
      <3>1. u <= n - j
        BY <2>1
      <3> QED
        BY <1>1, <2>2, <3>1
    <2> QED
      BY <2>3
  <1>6. i \in 1..n /\ k \in 1..n /\ i <= k /\ s[i] \in S /\ s[k] \in S
    BY <1>4, <1>5
  <1>7. s[i].price <= s[k].price
    BY <1>1, <1>6 DEF ByPrice
  <1>8. Window(s, <<i, k>>, tol)
    BY <1>1, <1>6, <1>7 DEF Window, Agree
  <1>9. \A a \in S : s[i].price <= a.price /\ a.price <= s[k].price
    <2> SUFFICES ASSUME NEW j \in T PROVE s[i].price <= s[j].price /\ s[j].price <= s[k].price
      BY <1>2
    <2>1. i <= j /\ j <= k /\ j \in 1..n
      BY <1>4, <1>5
    <2> QED
      BY <1>1, <1>6, <2>1 DEF ByPrice
  <1>10. IsFiniteSet(S) /\ Cardinality(S) <= k - i + 1
    <2> DEFINE f == [a \in S |-> CHOOSE j \in T : s[j] = a]
    <2>1. \A a \in S : f[a] \in T /\ s[f[a]] = a
      BY <1>2
    <2>2. \A j \in T : j \in i..k
      BY <1>3, <1>4, <1>5, <1>6
    <2>3. f \in [S -> i..k]
      BY <2>1, <2>2
    <2> HIDE DEF f
    <2>4. f \in Injection(S, i..k)
      BY <2>1, <2>3 DEF Injection, IsInjective
    <2>5. i \in Nat /\ k \in Nat /\ i > 0 /\ i <= k + 1
      BY <1>1, <1>6
    <2>6. IsFiniteSet(i..k) /\ Cardinality(i..k) = k - i + 1
      BY <2>5, IntervalSize
    <2> QED
      BY <2>4, <2>6, FS_Injection
  <1>11. Size(<<i, k>>) = k - i + 1
    BY DEF Size
  <1> HIDE DEF T
  <1>12. <<i, k>> \in (1..n) \X (1..n) /\ <<i, k>>[1] = i /\ <<i, k>>[2] = k
    BY <1>6
  <1> DEFINE v == <<i, k>>
  <1>13. /\ v \in (1..n) \X (1..n) /\ Window(s, v, tol)
         /\ IsFiniteSet(S) /\ Cardinality(S) <= Size(v)
         /\ s[v[1]] \in S /\ s[v[2]] \in S
         /\ \A a \in S : s[v[1]].price <= a.price /\ a.price <= s[v[2]].price
    BY <1>6, <1>8, <1>9, <1>10, <1>11, <1>12
  <1> HIDE DEF v
  <1> QED
    BY <1>13 DEF s, n

LEMMA Extremes ==
  ASSUME NEW S \in SUBSET Quote, NEW lo \in S, NEW hi \in S,
         \A a \in S : lo.price <= a.price /\ a.price <= hi.price
  PROVE  Lowest(S) = lo.price /\ Highest(S) = hi.price
  <1> DEFINE T == {a.price : a \in S}
  <1>1. \A x \in T : x \in Int /\ lo.price <= x /\ x <= hi.price
    BY QuoteTyped
  <1>2. lo.price \in T /\ hi.price \in T
    OBVIOUS
  <1> HIDE DEF T
  <1>3. Min(T) \in T /\ \A y \in T : Min(T) <= y
    BY <1>1, <1>2 DEF Min
  <1>4. Max(T) \in T /\ \A y \in T : Max(T) >= y
    BY <1>1, <1>2 DEF Max
  <1>5. Min(T) = lo.price /\ Max(T) = hi.price
    BY <1>1, <1>2, <1>3, <1>4
  <1> QED
    BY <1>5 DEF Lowest, Highest, T

(* No set of answers that agree is better than the cluster.                *)
LEMMA BestCluster ==
  ASSUME NEW q \in Seq(Quote), Distinct(q), Len(q) > 0, NEW tol \in Nat,
         NEW S \in SUBSET Range(q), S # {}, Agree(S, tol)
  PROVE  LET C == Range(LargestCluster(q, tol)) IN
         \/ Cardinality(S) < Cardinality(C)
         \/ Cardinality(S) = Cardinality(C) /\ Spread(S) > Spread(C)
         \/ /\ Cardinality(S) = Cardinality(C) /\ Spread(S) = Spread(C)
            /\ Lowest(C) <= Lowest(S)
  <1> DEFINE s == Sorted(q)
             w == Scan(s, tol)
             c == LargestCluster(q, tol)
             C == Range(c)
  <1>1. /\ ByPrice(s) /\ Len(s) = Len(q) /\ s \in Seq(Quote) /\ Len(q) \in Nat
    BY SortedAnswers DEF ByPrice
  <1>0. Range(q) \subseteq Quote
    BY DEF Range
  <1>2. IsCluster(c, q, tol, w)
    BY ClusterFound
  <1>3. \A v \in (1..Len(q)) \X (1..Len(q)) : Window(s, v, tol) => NoBetter(s, v, w)
    BY <1>1, ScanBest
  <1> HIDE DEF s, w, c
  <1>4. PICK v \in (1..Len(q)) \X (1..Len(q)) :
           /\ Window(s, v, tol) /\ Cardinality(S) <= Size(v) /\ IsFiniteSet(S)
           /\ s[v[1]] \in S /\ s[v[2]] \in S
           /\ \A a \in S : s[v[1]].price <= a.price /\ a.price <= s[v[2]].price
    BY AgreeingWindow DEF s
  <1>5. NoBetter(s, v, w)
    BY <1>3, <1>4
  <1>6. Lowest(S) = s[v[1]].price /\ Highest(S) = s[v[2]].price
    BY <1>0, <1>1, <1>4, Extremes
  <1>7. Spread(S) = Width(s, v)
    BY <1>6 DEF Spread, Width
  <1>8. /\ C \subseteq Range(q) /\ Cardinality(C) = Len(c) /\ Len(c) = Size(w) /\ c \in Seq(Quote)
        /\ \A k \in 1..Len(c) : c[1].price <= c[k].price /\ c[k].price <= c[Len(c)].price
        /\ c[1].price = s[w[1]].price /\ c[Len(c)].price = s[w[2]].price /\ Size(w) \in Nat \ {0}
    <2>1. c \in Seq(Quote) /\ Len(c) = Size(w) /\ Size(w) \in Nat \ {0}
      BY <1>2 DEF IsCluster
    <2> HIDE DEF C
    <2>2. /\ Range(c) \subseteq Range(q) /\ Cardinality(Range(c)) = Len(c)
          /\ \A k \in 1..Len(c) : c[1].price <= c[k].price /\ c[k].price <= c[Len(c)].price
          /\ c[1].price = s[w[1]].price /\ c[Len(c)].price = s[w[2]].price
      BY <1>2, ClusterAgrees DEF s
    <2> QED
      BY <2>1, <2>2 DEF C
  <1>9. Lowest(C) = s[w[1]].price /\ Highest(C) = s[w[2]].price
    <2>1. DOMAIN c = 1..Len(c) /\ 1 \in 1..Len(c) /\ Len(c) \in 1..Len(c)
      BY <1>8
    <2>2. c[1] \in C /\ c[Len(c)] \in C
      BY <2>1 DEF Range
    <2>3. \A a \in C : c[1].price <= a.price /\ a.price <= c[Len(c)].price
      BY <1>8, <2>1 DEF Range
    <2>4. C \in SUBSET Quote
      BY <1>0, <1>8
    <2> QED
      BY <1>8, <2>2, <2>3, <2>4, Extremes
  <1>10. Spread(C) = Width(s, w)
    BY <1>9 DEF Spread, Width
  <1>11. /\ v[1] \in 1..Len(q) /\ v[2] \in 1..Len(q)
         /\ Size(v) = v[2] - v[1] + 1 /\ Cardinality(S) \in Nat
    BY <1>4, FS_CardinalityType DEF Size
  <1>12. Size(v) \in Int
    BY <1>1, <1>11
  <1> QED
    BY <1>4, <1>5, <1>6, <1>7, <1>8, <1>9, <1>10, <1>11, <1>12 DEF NoBetter, c

-----------------------------------------------------------------------------
(* What the outlier filter keeps.                                          *)

LEMMA PricesOf ==
  ASSUME NEW c \in Seq(Quote)
  PROVE  /\ PriceSeq(c) \in Seq(Int) /\ Len(PriceSeq(c)) = Len(c)
         /\ \A i \in 1..Len(c) : PriceSeq(c)[i] = c[i].price /\ c[i].price \in Nat
  <1>1. Len(c) \in Nat /\ DOMAIN c = 1..Len(c) /\ \A i \in 1..Len(c) : c[i].price \in Nat
    <2>1. \A i \in 1..Len(c) : c[i] \in Quote
      OBVIOUS
    <2> QED
      BY <2>1, QuoteTyped
  <1>2. PriceSeq(c) = [i \in 1..Len(c) |-> c[i].price]
    BY <1>1 DEF PriceSeq
  <1>3. PriceSeq(c) \in [1..Len(c) -> Int]
    BY <1>1, <1>2
  <1> QED
    BY <1>1, <1>2, <1>3

(* All that is kept is from the cluster; of more than two, all of it is    *)
(* within the deviation of the median, and in the order of the prices.     *)
LEMMA FilterKeeps ==
  ASSUME NEW c \in Seq(Quote), NoRepeats(c), Len(c) > 0, NEW dev \in Nat
  PROVE  LET u == Filtered(c, dev) IN
         /\ u \in Seq(Quote) /\ NoRepeats(u) /\ Range(u) \subseteq Range(c)
         /\ Len(c) # 2 =>
              /\ u = InOrder(Range(u), Earlier)
              /\ \A a \in Range(u) : ~Deviates(a.price, Median(PriceSeq(c)), dev)
  <1> DEFINE K == {a \in Range(c) : ~IsOutlier(a.price, PriceSeq(c), dev)}
             o == InOrder(K, Earlier)
             u == Filtered(c, dev)
  <1>1. /\ Len(c) \in Nat /\ DOMAIN c = 1..Len(c) /\ Range(c) \subseteq Quote
        /\ IsFiniteSet(Range(c))
    <2>1. IsFiniteSet(Range(c))
      BY RangeSize DEF NoRepeats
    <2> QED
      BY <2>1 DEF Range
  <1>2. CASE Len(c) = 2
    <2>1. u = <<c[1]>> \/ u = c
      BY <1>2 DEF Filtered, FilterTwo
    <2>2. c[1] \in Quote /\ c[1] \in Range(c)
      BY <1>1, <1>2 DEF Range
    <2>3. ASSUME NEW x PROVE Range(<<x>>) = {x} /\ NoRepeats(<<x>>)
      BY DEF Range, NoRepeats
    <2>4. <<c[1]>> \in Seq(Quote)
      BY <2>2
    <2> HIDE DEF u
    <2> QED
      BY <1>2, <2>1, <2>2, <2>3, <2>4 DEF u
  <1>3. CASE Len(c) # 2
    <2>1. u = o
      BY <1>3 DEF Filtered, FilterMany
    <2>2. K \in SUBSET Quote /\ IsFiniteSet(K) /\ K \subseteq Range(c)
      BY <1>1, FS_Subset
    <2>3. \A a \in K : ~Deviates(a.price, Median(PriceSeq(c)), dev)
      BY DEF IsOutlier
    <2> HIDE DEF K
    <2>4. /\ Cardinality(K) \in Nat /\ o \in [1..Cardinality(K) -> K]
          /\ \A a \in K : \E n \in 1..Cardinality(K) : o[n] = a
          /\ \A m, n \in 1..Cardinality(K) : m < n => o[m] # o[n]
      BY <2>2, QuotesInOrder
    <2> HIDE DEF o, u
    <2>5. o \in Seq(K) /\ Len(o) = Cardinality(K) /\ DOMAIN o = 1..Cardinality(K)
      BY <2>4
    <2>6. Range(o) = K
      BY <2>4, <2>5 DEF Range
    <2>7. NoRepeats(o)
      BY <2>4, <2>5 DEF NoRepeats
    <2>8. o \in Seq(Quote)
      BY <2>2, <2>5
    <2>9. o = InOrder(Range(o), Earlier)
      BY <2>6 DEF o
    <2> QED
      BY <2>1, <2>2, <2>3, <2>6, <2>7, <2>8, <2>9 DEF u
  <1> QED
    BY <1>2, <1>3

-----------------------------------------------------------------------------
(* What a call has computed so far: every stage of it is that of the       *)
(* answers and the token's settings.                                       *)

StageInv ==
  pc # "error" =>
    /\ quotes \in Seq(Quote) /\ Distinct(quotes)
    /\ min_sources \in Nat \ {0} /\ max_deviation_bps \in Nat
    /\ pc \in {"cluster", "filter", "band", "ok"}
    /\ pc # "cluster" =>
         /\ Len(quotes) > 0
         /\ cluster = LargestCluster(quotes, Tolerance(max_deviation_bps))
    /\ pc \in {"band", "ok"} =>
         used = Filtered(cluster, max_deviation_bps) /\ Len(used) >= min_sources
    /\ pc = "ok" => result = Band(PriceSeq(used), max_deviation_bps)

LEMMA StagesStart == PricingInit => StageInv
  <1>1. ASSUME Init PROVE StageInv
    <2>1. PICK n \in 0..Cardinality(Sources) : quotes \in [1..n -> Quote] /\ Distinct(quotes)
      BY <1>1 DEF Init
    <2>2. n \in Nat
      BY SourcesAssumption, FS_CardinalityType
    <2>3. quotes \in Seq(Quote)
      BY <2>1, <2>2
    <2>4. min_sources \in Nat \ {0} /\ max_deviation_bps \in Nat /\ pc = "cluster"
      BY <1>1, SettingsAssumption DEF Init
    <2> QED
      BY <2>1, <2>3, <2>4 DEF StageInv
  <1>2. ASSUME NoCall PROVE StageInv
    BY <1>2 DEF NoCall, StageInv
  <1> QED
    BY <1>1, <1>2 DEF PricingInit

LEMMA StagesFollow == StageInv /\ [PricingNext]_<<vars, quoteVars>> => StageInv'
  <1> SUFFICES ASSUME StageInv, [PricingNext]_<<vars, quoteVars>> PROVE StageInv'
    OBVIOUS
  <1>1. CASE FindCluster
    <2>1. CASE pc' = "error"
      BY <2>1 DEF StageInv
    <2>2. CASE pc' # "error"
      <3>1. /\ cluster' = LargestCluster(quotes, Tolerance(max_deviation_bps))
            /\ ~(Len(quotes) < min_sources) /\ pc' = "filter" /\ UNCHANGED call
        BY <1>1, <2>2 DEF FindCluster
      <3>2. Len(quotes) \in Nat /\ min_sources \in Nat \ {0} /\ quotes \in Seq(Quote)
            /\ Distinct(quotes) /\ max_deviation_bps \in Nat
        BY <1>1 DEF FindCluster, StageInv
      <3>3. Len(quotes) > 0
        BY <3>1, <3>2
      <3>4. quotes' = quotes /\ min_sources' = min_sources /\ max_deviation_bps' = max_deviation_bps
        BY <3>1 DEF call
      <3> QED
        BY <3>1, <3>2, <3>3, <3>4 DEF StageInv, Distinct, Tolerance
    <2> QED
      BY <2>1, <2>2
  <1>2. CASE FilterOutliers
    <2>1. CASE pc' = "error"
      BY <2>1 DEF StageInv
    <2>2. CASE pc' # "error"
      <3>1. /\ used' = Filtered(cluster, max_deviation_bps) /\ ~(Len(used') < min_sources)
            /\ pc' = "band" /\ UNCHANGED <<call, cluster>> /\ pc = "filter"
        BY <1>2, <2>2 DEF FilterOutliers
      <3>2. /\ min_sources \in Nat \ {0} /\ quotes \in Seq(Quote) /\ Distinct(quotes)
            /\ max_deviation_bps \in Nat /\ Len(quotes) > 0
            /\ cluster = LargestCluster(quotes, Tolerance(max_deviation_bps))
        BY <3>1 DEF StageInv
      <3>3. used' \in Seq(Quote)
        <4>1. Tolerance(max_deviation_bps) \in Nat
          BY <3>2 DEF Tolerance, DEFAULT_CLUSTER_TOLERANCE_BPS
        <4>2. cluster \in Seq(Quote) /\ NoRepeats(cluster) /\ Len(cluster) > 0
          BY <3>2, <4>1, LargestClusterFacts
        <4>3. Filtered(cluster, max_deviation_bps) \in Seq(Quote)
          BY <3>2, <4>2, FilterKeeps
        <4> QED
          BY <3>1, <4>3
      <3>4. Len(used') >= min_sources
        BY <3>1, <3>2, <3>3
      <3>5. /\ quotes' = quotes /\ min_sources' = min_sources /\ cluster' = cluster
            /\ max_deviation_bps' = max_deviation_bps
        BY <3>1 DEF call
      <3> QED
        BY <3>1, <3>2, <3>4, <3>5 DEF StageInv, Distinct
    <2> QED
      BY <2>1, <2>2
  <1>3. CASE ComputeBand
    <2>1. /\ pc = "band" /\ pc' = "ok" /\ result' = Band(PriceSeq(used), max_deviation_bps)
          /\ quotes' = quotes /\ min_sources' = min_sources /\ cluster' = cluster
          /\ max_deviation_bps' = max_deviation_bps /\ used' = used
      BY <1>3 DEF ComputeBand, call
    <2> QED
      BY <2>1 DEF StageInv, Distinct
  <1>4. CASE UNCHANGED vars
    BY <1>4 DEF vars, StageInv, Distinct
  <1> QED
    BY <1>1, <1>2, <1>3, <1>4 DEF PricingNext, Next, vars, quoteVars

LEMMA StagesHold == PricingSpec => []StageInv
  <1> QED
    BY StagesStart, StagesFollow, PTL DEF PricingSpec

(* What the stages mean for the answers.                                   *)
LEMMA Stages ==
  ASSUME StageInv, pc \in {"filter", "band", "ok"}
  PROVE  /\ quotes \in Seq(Quote) /\ Distinct(quotes) /\ Len(quotes) \in Nat \ {0}
         /\ max_deviation_bps \in Nat /\ Tolerance(max_deviation_bps) \in Nat
         /\ IsFiniteSet(Answers) /\ Cardinality(Answers) = Len(quotes)
         /\ cluster = LargestCluster(quotes, Tolerance(max_deviation_bps))
         /\ cluster \in Seq(Quote) /\ Len(cluster) \in Nat \ {0} /\ NoRepeats(cluster)
         /\ Range(cluster) \subseteq Answers
         /\ Agree(Range(cluster), Tolerance(max_deviation_bps))
         /\ IsFiniteSet(Range(cluster)) /\ Cardinality(Range(cluster)) = Len(cluster)
         /\ pc = "ok" =>
              /\ used \in Seq(Quote) /\ Len(used) \in Nat \ {0} /\ NoRepeats(used)
              /\ Range(used) \subseteq Range(cluster)
              /\ Len(cluster) # 2 =>
                   /\ used = InOrder(Range(used), Earlier)
                   /\ \A a \in Range(used) :
                        ~Deviates(a.price, Median(PriceSeq(cluster)), max_deviation_bps)
              /\ result = Band(PriceSeq(used), max_deviation_bps)
  <1>1. /\ quotes \in Seq(Quote) /\ Distinct(quotes) /\ Len(quotes) \in Nat \ {0}
        /\ max_deviation_bps \in Nat /\ min_sources \in Nat \ {0}
        /\ cluster = LargestCluster(quotes, Tolerance(max_deviation_bps))
    <2>1. quotes \in Seq(Quote) /\ Len(quotes) > 0
      BY DEF StageInv
    <2> QED
      BY <2>1 DEF StageInv
  <1>2. Tolerance(max_deviation_bps) \in Nat
    BY <1>1 DEF Tolerance, DEFAULT_CLUSTER_TOLERANCE_BPS
  <1>3. IsFiniteSet(Answers) /\ Cardinality(Answers) = Len(quotes)
    BY <1>1, SortedAnswers DEF Answers
  <1>4. /\ cluster \in Seq(Quote) /\ Len(cluster) \in Nat \ {0} /\ NoRepeats(cluster)
        /\ Range(cluster) \subseteq Answers
        /\ Agree(Range(cluster), Tolerance(max_deviation_bps))
        /\ IsFiniteSet(Range(cluster)) /\ Cardinality(Range(cluster)) = Len(cluster)
    BY <1>1, <1>2, LargestClusterFacts DEF Answers
  <1>5. ASSUME pc = "ok"
        PROVE  /\ used = Filtered(cluster, max_deviation_bps) /\ Len(used) >= min_sources
               /\ result = Band(PriceSeq(used), max_deviation_bps)
    BY <1>5 DEF StageInv
  <1>6. ASSUME pc = "ok"
        PROVE  /\ used \in Seq(Quote) /\ NoRepeats(used)
               /\ Range(used) \subseteq Range(cluster)
               /\ Len(cluster) # 2 =>
                    /\ used = InOrder(Range(used), Earlier)
                    /\ \A a \in Range(used) :
                         ~Deviates(a.price, Median(PriceSeq(cluster)), max_deviation_bps)
    <2>1. Len(cluster) > 0
      BY <1>4
    <2> DEFINE f == Filtered(cluster, max_deviation_bps)
    <2>2. /\ f \in Seq(Quote) /\ NoRepeats(f) /\ Range(f) \subseteq Range(cluster)
          /\ Len(cluster) # 2 =>
               /\ f = InOrder(Range(f), Earlier)
               /\ \A a \in Range(f) :
                    ~Deviates(a.price, Median(PriceSeq(cluster)), max_deviation_bps)
      BY <1>1, <1>4, <2>1, FilterKeeps
    <2>3. used = f
      BY <1>5, <1>6
    <2> HIDE DEF f
    <2> QED
      BY <2>2, <2>3
  <1>7. pc = "ok" => Len(used) \in Nat \ {0}
    BY <1>1, <1>5, <1>6
  <1> QED
    BY <1>1, <1>2, <1>3, <1>4, <1>5, <1>6, <1>7

-----------------------------------------------------------------------------
(* The cluster that the scan of find_largest_consistent_cluster returns is *)
(* the best of all sets of answers, in whatever order they are listed.     *)
THEOREM ClusterIsAlwaysBest == PricingSpec => []ClusterIsBest
  <1>1. ASSUME StageInv PROVE ClusterIsBest
    <2> SUFFICES ASSUME pc = "filter" PROVE ClusterIsBest
      BY DEF ClusterIsBest
    <2> DEFINE tol == Tolerance(max_deviation_bps)
    <2>1. \A S : Consistent(S) <=> Agree(S, tol)
      BY DEF Consistent, Agree
    <2>2. /\ Consistent(Range(cluster)) /\ Range(cluster) \subseteq Answers
          /\ cluster = LargestCluster(quotes, tol) /\ tol \in Nat
          /\ quotes \in Seq(Quote) /\ Distinct(quotes) /\ Len(quotes) > 0
      BY <1>1, <2>1, Stages
    <2> HIDE DEF tol
    <2>3. ASSUME NEW S \in (SUBSET Answers) \ {{}}, Consistent(S)
          PROVE  LET C == Range(cluster) IN
                 \/ Cardinality(S) < Cardinality(C)
                 \/ Cardinality(S) = Cardinality(C) /\ Spread(S) > Spread(C)
                 \/ /\ Cardinality(S) = Cardinality(C) /\ Spread(S) = Spread(C)
                    /\ Lowest(C) <= Lowest(S)
      <3>1. Agree(S, tol)
        BY <2>1, <2>3
      <3>2. S \in SUBSET Range(quotes) /\ S # {}
        BY DEF Answers
      <3> QED
        BY <2>2, <3>1, <3>2, BestCluster
    <2> QED
      BY <2>2, <2>3 DEF ClusterIsBest
  <1> QED
    BY <1>1, StagesHold, PTL

(* The signed median is the median of what is used, and lies between two   *)
(* of the answers that are.                                                *)
LEMMA SignedMedian ==
  ASSUME StageInv, pc = "ok"
  PROVE  /\ result.median = Median(PriceSeq(used)) /\ result.median \in Int
         /\ \E a \in Range(used) : a.price <= result.median
         /\ \E b \in Range(used) : result.median <= b.price
  <1>1. used \in Seq(Quote) /\ Len(used) \in Nat \ {0} /\ result = Band(PriceSeq(used), max_deviation_bps)
    BY Stages
  <1>2. result.median = Median(PriceSeq(used))
    BY <1>1 DEF Band
  <1> DEFINE s == PriceSeq(used)
  <1>3. s \in Seq(Int) /\ Len(s) = Len(used) /\ \A i \in 1..Len(used) : s[i] = used[i].price
    BY <1>1, PricesOf
  <1> HIDE DEF s
  <1>4. /\ Median(s) \in Int
        /\ \E i \in 1..Len(used) : s[i] <= Median(s)
        /\ \E i \in 1..Len(used) : Median(s) <= s[i]
    BY <1>1, <1>3, MedianBetween
  <1>5. \A i \in 1..Len(used) : used[i] \in Range(used)
    <2>1. DOMAIN used = 1..Len(used)
      BY <1>1
    <2> QED
      BY <2>1 DEF Range
  <1> QED
    BY <1>2, <1>3, <1>4, <1>5 DEF s

(* A median that is signed is consistent with one of any majority of the   *)
(* answers that are consistent with each other: no minority moves it away. *)
THEOREM MinorityIsPowerless == PricingSpec => []MinorityPowerless
  <1>1. ASSUME StageInv PROVE MinorityPowerless
    <2> DEFINE tol == Tolerance(max_deviation_bps)
               m == result.median
    <2> SUFFICES ASSUME pc = "ok", NEW H \in SUBSET Answers, Consistent(H),
                        2 * Cardinality(H) > Len(quotes)
                 PROVE  \E h \in H : ~Deviates(m, h.price, tol)
      BY DEF MinorityPowerless
    <2> DEFINE C == Range(cluster)
    <2>1. /\ quotes \in Seq(Quote) /\ Distinct(quotes) /\ Len(quotes) \in Nat \ {0}
          /\ tol \in Nat /\ IsFiniteSet(Answers) /\ Cardinality(Answers) = Len(quotes)
          /\ cluster = LargestCluster(quotes, tol)
          /\ C \subseteq Answers /\ Agree(C, tol) /\ IsFiniteSet(C) /\ Range(used) \subseteq C
          /\ Answers \subseteq Quote
      <3>1. Answers \subseteq Quote
        <4>1. quotes \in Seq(Quote)
          BY <1>1, Stages
        <4> QED
          BY <4>1 DEF Answers, Range
      <3> QED
        BY <1>1, <3>1, Stages
    <2>2. Agree(H, tol)
      BY DEF Consistent, Agree
    <2>3. IsFiniteSet(H) /\ Cardinality(H) \in Nat /\ Cardinality(C) \in Nat
      BY <2>1, FS_Subset, FS_CardinalityType
    <2>4. H # {}
      <3> SUFFICES ASSUME H = {} PROVE FALSE
        OBVIOUS
      <3>1. Cardinality(H) = 0
        BY FS_EmptySet
      <3> QED
        BY <2>1, <3>1
    <2> HIDE DEF tol, m
    <2>5. Cardinality(H) <= Cardinality(C)
      <3>1. H \in SUBSET Range(quotes) /\ Len(quotes) > 0
        BY <2>1 DEF Answers
      <3>2. LET D == Range(LargestCluster(quotes, tol)) IN
            Cardinality(H) < Cardinality(D) \/ Cardinality(H) = Cardinality(D)
        BY <2>1, <2>2, <2>4, <3>1, BestCluster
      <3> QED
        BY <2>1, <2>3, <3>2
    <2> HIDE DEF C
    <2>6. PICK h \in H : h \in C
      <3> SUFFICES ASSUME H \cap C = {} PROVE FALSE
        OBVIOUS
      <3>1. Cardinality(H \cup C) = Cardinality(H) + Cardinality(C) - Cardinality(H \cap C)
        BY <2>1, <2>3, FS_Union
      <3>2. Cardinality(H \cap C) = 0
        BY FS_EmptySet
      <3>3. Cardinality(H \cup C) <= Len(quotes) /\ Cardinality(H \cup C) \in Nat
        <4>1. H \cup C \subseteq Answers
          BY <2>1
        <4> QED
          BY <2>1, <4>1, FS_Subset, FS_CardinalityType
      <3> QED
        BY <2>1, <2>3, <2>5, <3>1, <3>2, <3>3
    <2>7. PICK a \in C : a.price <= m
      BY <1>1, <2>1, SignedMedian DEF m
    <2>8. PICK b \in C : m <= b.price
      BY <1>1, <2>1, SignedMedian DEF m
    <2>9. m \in Int
      BY <1>1, SignedMedian DEF m
    <2> DEFINE x == h.price
               lo == a.price
               hi == b.price
    <2>10. x \in Nat /\ lo \in Nat /\ hi \in Nat
      BY <2>1, <2>6, <2>7, <2>8, QuoteTyped
    <2>11. (x <= hi => ~Deviates(hi, x, tol)) /\ (lo <= x => ~Deviates(x, lo, tol))
      BY <2>1, <2>6, <2>7, <2>8 DEF Agree
    <2>12. lo <= m /\ m <= hi
      BY <2>7, <2>8
    <2> HIDE DEF x, lo, hi
    <2>13. ~Deviates(m, x, tol)
      <3>1. CASE x <= m
        <4>1. tol * x \in Int
          BY <2>1, <2>10
        <4> QED
          BY <2>9, <2>10, <2>11, <2>12, <3>1, <4>1 DEF Deviates, Distance, BPS
      <3>2. CASE m < x
        <4>1. tol * lo \in Int /\ tol * x \in Int /\ tol * lo <= tol * x
          BY <2>1, <2>9, <2>10, <2>12, <3>2
        <4> QED
          BY <2>9, <2>10, <2>11, <2>12, <3>2, <4>1 DEF Deviates, Distance, BPS
      <3> QED
        BY <2>9, <2>10, <3>1, <3>2
    <2> QED
      BY <2>13 DEF x
  <1> QED
    BY <1>1, StagesHold, PTL

(* Of a cluster of more than two, what is used is no further from the      *)
(* signed median than twice the deviation the filter enforces.             *)
THEOREM DeviationIsBounded == PricingSpec => []DeviationBounded
  <1>1. ASSUME StageInv PROVE DeviationBounded
    <2> DEFINE m == Median(PriceSeq(cluster))
               r == result.median
               d == max_deviation_bps
               X == d * m
    <2> SUFFICES ASSUME pc = "ok", Len(cluster) > 2, NEW a \in Range(used)
                 PROVE  BPS * Distance(a.price, r) <= 2 * d * m
      BY DEF DeviationBounded
    <2>1. /\ used \in Seq(Quote) /\ cluster \in Seq(Quote) /\ d \in Nat
          /\ Len(cluster) \in Nat \ {0} /\ \A u \in Range(used) : ~Deviates(u.price, m, d)
      BY <1>1, Stages
    <2>2. m \in Int
      <3>1. PriceSeq(cluster) \in Seq(Int) /\ Len(PriceSeq(cluster)) > 0
        BY <2>1, PricesOf
      <3> QED
        BY <3>1, MedianBetween
    <2>3. \A u \in Range(used) : u.price \in Nat
      <3>1. Range(used) \subseteq Quote
        BY <2>1 DEF Range
      <3> QED
        BY <3>1, QuoteTyped
    <2>4. PICK b \in Range(used) : b.price <= r
      BY <1>1, SignedMedian
    <2>5. PICK c \in Range(used) : r <= c.price
      BY <1>1, SignedMedian
    <2>6. r \in Int /\ X \in Int /\ 2 * d * m = 2 * X
      BY <1>1, <2>1, <2>2, SignedMedian
    <2> HIDE DEF m, r, d
    <2>7. \A u \in Range(used) : BPS * (u.price - m) <= X /\ BPS * (m - u.price) <= X
      <3> SUFFICES ASSUME NEW u \in Range(used)
                   PROVE  BPS * (u.price - m) <= X /\ BPS * (m - u.price) <= X
        OBVIOUS
      <3>1. ~(BPS * Distance(u.price, m) > X)
        BY <2>1 DEF Deviates
      <3> HIDE DEF X
      <3>2. u.price \in Nat
        BY <2>3
      <3> QED
        BY <2>2, <2>6, <3>1, <3>2 DEF Distance, BPS
    <2> HIDE DEF X
    <2> DEFINE p == a.price
               lo == b.price
               hi == c.price
    <2>8. /\ p \in Nat /\ lo \in Nat /\ hi \in Nat /\ lo <= r /\ r <= hi
          /\ BPS * (p - m) <= X /\ BPS * (m - p) <= X
          /\ BPS * (m - lo) <= X /\ BPS * (hi - m) <= X
      BY <2>3, <2>4, <2>5, <2>7
    <2> HIDE DEF p, lo, hi
    <2>9. BPS * Distance(p, r) <= 2 * X
      BY <2>2, <2>6, <2>8 DEF Distance, BPS
    <2> QED
      BY <2>6, <2>9 DEF p
  <1> QED
    BY <1>1, StagesHold, PTL

-----------------------------------------------------------------------------
(* The band of three or four answers, by the distances between them.       *)

LEMMA PercentileAt ==
  ASSUME NEW t, NEW p \in Nat, NEW lo \in Nat, NEW rest \in Nat \ {0}, NEW y \in Int, NEW z \in Int,
         (p * (Len(t) - 1)) \div 100 = lo, (p * (Len(t) - 1)) % 100 = rest,
         t[lo + 1] = y, t[lo + 2] = z
  PROVE  Percentile(t, p) = (100 * y + rest * (z - y) + 50) \div 100
  <1> DEFINE k == p * (Len(t) - 1)
  <1>1. Percentile(t, p) =
          IF k % 100 = 0 THEN t[(k \div 100) + 1]
          ELSE (100 * t[(k \div 100) + 1]
                + (k % 100) * (t[(k \div 100) + 2] - t[(k \div 100) + 1]) + 50) \div 100
    BY DEF Percentile
  <1>2. k \div 100 = lo /\ k % 100 = rest
    OBVIOUS
  <1> HIDE DEF k
  <1> QED
    BY <1>1, <1>2

LEMMA BandOfThree ==
  ASSUME NEW s \in Seq(Int), Len(s) = 3, NEW dev \in Nat, NEW x1 \in Nat, NEW x2 \in Nat,
         NEW x3 \in Nat, NEW w \in Nat,
         Ascending(s)[1] = x1, Ascending(s)[2] = x2, Ascending(s)[3] = x3,
         w = (x2 * dev) \div BPS,
         (20 * (x2 - x1) + 50) \div 100 <= w, (50 - 20 * (x3 - x2)) \div 100 >= -w
  PROVE  \A p \in x1..x3 : Band(s, dev).min <= p /\ p <= Band(s, dev).max
  <1> DEFINE t == Ascending(s)
  <1>1. Len(t) = 3
    BY AscendingOrders
  <1>2. Median(s) = x2
    BY DEF Median
  <1>3. Percentile(t, 10) = (100 * x1 + 20 * (x2 - x1) + 50) \div 100
    <2>1. (10 * (Len(t) - 1)) \div 100 = 0 /\ (10 * (Len(t) - 1)) % 100 = 20
      BY <1>1
    <2>2. t[0 + 1] = x1 /\ t[0 + 2] = x2
      OBVIOUS
    <2> HIDE DEF t
    <2> QED
      BY <2>1, <2>2, PercentileAt
  <1>4. Percentile(t, 90) = (100 * x2 + 80 * (x3 - x2) + 50) \div 100
    <2>1. (90 * (Len(t) - 1)) \div 100 = 1 /\ (90 * (Len(t) - 1)) % 100 = 80
      BY <1>1
    <2>2. t[1 + 1] = x2 /\ t[1 + 2] = x3
      OBVIOUS
    <2> HIDE DEF t
    <2> QED
      BY <2>1, <2>2, PercentileAt
  <1>5. (100 * x1 + 20 * (x2 - x1) + 50) \div 100 = x1 + (20 * (x2 - x1) + 50) \div 100
    OBVIOUS
  <1>6. (100 * x2 + 80 * (x3 - x2) + 50) \div 100 = x3 + (50 - 20 * (x3 - x2)) \div 100
    OBVIOUS
  <1>7. Band(s, dev) = [min |-> Floor0(Percentile(t, 10) - w), median |-> x2,
                        max |-> Percentile(t, 90) + w]
    BY <1>2 DEF Band, MIN_SOURCES_FOR_PERCENTILE, t
  <1> HIDE DEF t
  <1>8. (20 * (x2 - x1) + 50) \div 100 \in Int /\ (50 - 20 * (x3 - x2)) \div 100 \in Int
    OBVIOUS
  <1> QED
    BY <1>3, <1>4, <1>5, <1>6, <1>7, <1>8 DEF Floor0

LEMMA BandOfFour ==
  ASSUME NEW s \in Seq(Int), Len(s) = 4, NEW dev \in Nat, NEW x1 \in Nat, NEW x2 \in Nat,
         NEW x3 \in Nat, NEW x4 \in Nat, NEW w \in Nat,
         Ascending(s)[1] = x1, Ascending(s)[2] = x2, Ascending(s)[3] = x3, Ascending(s)[4] = x4,
         w = (((x2 + x3) \div 2) * dev) \div BPS,
         (30 * (x2 - x1) + 50) \div 100 <= w, (50 - 30 * (x4 - x3)) \div 100 >= -w
  PROVE  \A p \in x1..x4 : Band(s, dev).min <= p /\ p <= Band(s, dev).max
  <1> DEFINE t == Ascending(s)
             mid == (x2 + x3) \div 2
  <1>1. Len(t) = 4
    BY AscendingOrders
  <1>2. Median(s) = mid
    BY DEF Median
  <1>3. Percentile(t, 10) = (100 * x1 + 30 * (x2 - x1) + 50) \div 100
    <2>1. (10 * (Len(t) - 1)) \div 100 = 0 /\ (10 * (Len(t) - 1)) % 100 = 30
      BY <1>1
    <2>2. t[0 + 1] = x1 /\ t[0 + 2] = x2
      OBVIOUS
    <2> HIDE DEF t
    <2> QED
      BY <2>1, <2>2, PercentileAt
  <1>4. Percentile(t, 90) = (100 * x3 + 70 * (x4 - x3) + 50) \div 100
    <2>1. (90 * (Len(t) - 1)) \div 100 = 2 /\ (90 * (Len(t) - 1)) % 100 = 70
      BY <1>1
    <2>2. t[2 + 1] = x3 /\ t[2 + 2] = x4
      OBVIOUS
    <2> HIDE DEF t
    <2> QED
      BY <2>1, <2>2, PercentileAt
  <1>5. (100 * x1 + 30 * (x2 - x1) + 50) \div 100 = x1 + (30 * (x2 - x1) + 50) \div 100
    OBVIOUS
  <1>6. (100 * x3 + 70 * (x4 - x3) + 50) \div 100 = x4 + (50 - 30 * (x4 - x3)) \div 100
    OBVIOUS
  <1>7. Band(s, dev) = [min |-> Floor0(Percentile(t, 10) - w), median |-> mid,
                        max |-> Percentile(t, 90) + w]
    BY <1>2 DEF Band, MIN_SOURCES_FOR_PERCENTILE, t
  <1> HIDE DEF t, mid
  <1>8. (30 * (x2 - x1) + 50) \div 100 \in Int /\ (50 - 30 * (x4 - x3)) \div 100 \in Int
    OBVIOUS
  <1> QED
    BY <1>3, <1>4, <1>5, <1>6, <1>7, <1>8 DEF Floor0

(* The spread against a gap next to the median: of four, and of three.     *)
LEMMA SpreadCovers ==
  ASSUME NEW g \in Nat, NEW Y \in Nat
  PROVE  /\ Y \div BPS \in Nat
         /\ BPS * g <= Y => /\ (30 * g + 50) \div 100 <= Y \div BPS
                            /\ (50 - 30 * g) \div 100 >= -(Y \div BPS)
         /\ 19 * BPS * g <= 40 * Y => /\ (20 * g + 50) \div 100 <= Y \div BPS
                                      /\ (50 - 20 * g) \div 100 >= -(Y \div BPS)
  <1> DEFINE w == Y \div BPS
  <1>1. w \in Nat /\ BPS * w <= Y /\ Y < BPS * w + BPS
    BY DEF BPS
  <1> HIDE DEF w
  <1>2. ASSUME BPS * g <= Y PROVE (30 * g + 50) \div 100 <= w /\ (50 - 30 * g) \div 100 >= -w
    <2>1. g <= w
      BY <1>1, <1>2 DEF BPS
    <2> QED
      BY <1>1, <2>1
  <1>3. ASSUME 19 * BPS * g <= 40 * Y
        PROVE  (20 * g + 50) \div 100 <= w /\ (50 - 20 * g) \div 100 >= -w
    <2>1. 19 * g < 40 * w + 40
      BY <1>1, <1>3 DEF BPS
    <2> QED
      BY <1>1, <2>1
  <1> QED
    BY <1>1, <1>2, <1>3 DEF w

LEMMA FewAnswers ==
  ASSUME NEW q \in Seq(Quote), Distinct(q)
  PROVE  Len(q) <= Cardinality(Sources)
  <1> DEFINE n == Len(q)
             f == [i \in 1..n |-> q[i].source]
  <1>1. n \in Nat /\ DOMAIN q = 1..n /\ \A i \in 1..n : q[i].source \in Sources
    <2>1. \A i \in 1..n : q[i] \in Quote
      OBVIOUS
    <2> QED
      BY <2>1 DEF Quote
  <1>2. \A i, j \in 1..n : f[i] = f[j] => i = j
    BY <1>1 DEF Distinct
  <1>3. f \in [1..n -> Sources]
    BY <1>1
  <1> HIDE DEF f
  <1>4. f \in Injection(1..n, Sources)
    BY <1>2, <1>3 DEF Injection, IsInjective
  <1>5. Cardinality(1..n) = n
    BY <1>1, IntervalSize
  <1> QED
    BY <1>4, <1>5, SourcesAssumption, FS_Injection

(* The prices that are used, in ascending order.                           *)
LEMMA UsedInOrder ==
  ASSUME NEW u \in Seq(Quote)
  PROVE  LET x == Ascending(PriceSeq(u)) IN
         /\ PriceSeq(u) \in Seq(Int) /\ Len(PriceSeq(u)) = Len(u)
         /\ \A i \in 1..Len(u) : x[i] \in Nat /\ \E a \in Range(u) : x[i] = a.price
         /\ \A i, j \in 1..Len(u) : i <= j => x[i] <= x[j]
         /\ \A a \in Range(u) : \E i \in 1..Len(u) : x[i] = a.price
  <1> DEFINE s == PriceSeq(u)
             x == Ascending(s)
  <1>1. s \in Seq(Int) /\ Len(s) = Len(u) /\ \A i \in 1..Len(u) : s[i] = u[i].price /\ s[i] \in Nat
    BY PricesOf
  <1> HIDE DEF s
  <1>2. /\ \A m, n \in 1..Len(u) : m <= n => x[m] <= x[n]
        /\ \A n \in 1..Len(u) : \E i \in 1..Len(u) : x[n] = s[i]
        /\ \A i \in 1..Len(u) : \E n \in 1..Len(u) : x[n] = s[i]
    BY <1>1, AscendingOrders
  <1> HIDE DEF x
  <1>3. DOMAIN u = 1..Len(u)
    OBVIOUS
  <1>4. \A i \in 1..Len(u) : u[i] \in Range(u)
    BY <1>3 DEF Range
  <1>5. \A i \in 1..Len(u) : x[i] \in Nat /\ \E a \in Range(u) : x[i] = a.price
    <2> SUFFICES ASSUME NEW i \in 1..Len(u)
                 PROVE  x[i] \in Nat /\ \E a \in Range(u) : x[i] = a.price
      OBVIOUS
    <2>1. PICK j \in 1..Len(u) : x[i] = s[j]
      BY <1>2
    <2>2. x[i] \in Nat /\ x[i] = u[j].price /\ u[j] \in Range(u)
      BY <1>1, <1>4, <2>1
    <2> QED
      BY <2>2
  <1>6. \A a \in Range(u) : \E i \in 1..Len(u) : x[i] = a.price
    <2> SUFFICES ASSUME NEW j \in 1..Len(u) PROVE \E i \in 1..Len(u) : x[i] = u[j].price
      BY <1>3 DEF Range
    <2>1. PICK i \in 1..Len(u) : x[i] = s[j]
      BY <1>2
    <2> QED
      BY <1>1, <2>1
  <1> QED
    BY <1>1, <1>2, <1>5, <1>6 DEF s, x

(* With no more sources than four, the answers that are used are all of    *)
(* the cluster's as soon as they are four.                                 *)
LEMMA FourAreAll ==
  ASSUME StageInv, pc = "ok", Cardinality(Sources) <= 4, Len(used) >= 3
  PROVE  /\ Len(cluster) > 2 /\ Len(used) \in {3, 4}
         /\ Len(used) = 4 => used = cluster
  <1>1. /\ quotes \in Seq(Quote) /\ Distinct(quotes) /\ Len(quotes) \in Nat
        /\ IsFiniteSet(Answers) /\ Cardinality(Answers) = Len(quotes)
        /\ cluster \in Seq(Quote) /\ Len(cluster) \in Nat /\ Range(cluster) \subseteq Answers
        /\ IsFiniteSet(Range(cluster)) /\ Cardinality(Range(cluster)) = Len(cluster)
        /\ used \in Seq(Quote) /\ Len(used) \in Nat /\ NoRepeats(used)
        /\ Range(used) \subseteq Range(cluster)
        /\ Len(cluster) # 2 => used = InOrder(Range(used), Earlier)
        /\ Tolerance(max_deviation_bps) \in Nat /\ Len(quotes) > 0
        /\ cluster = LargestCluster(quotes, Tolerance(max_deviation_bps))
    BY Stages
  <1>2. Len(quotes) <= 4
    <2>1. Cardinality(Sources) \in Nat
      BY SourcesAssumption, FS_CardinalityType
    <2> QED
      BY <1>1, <2>1, FewAnswers
  <1>3. Cardinality(Range(used)) = Len(used)
    BY <1>1, RangeSize DEF NoRepeats
  <1>4. Len(used) <= Len(cluster) /\ Len(cluster) <= Len(quotes)
    BY <1>1, <1>3, FS_Subset
  <1>5. Len(cluster) > 2 /\ Len(used) \in {3, 4}
    <2> DEFINE u == Len(used)
               c == Len(cluster)
               q == Len(quotes)
    <2>1. u \in Nat /\ c \in Nat /\ q \in Nat
      BY <1>1
    <2>2. 3 <= u /\ u <= c /\ c <= q /\ q <= 4
      BY <1>2, <1>4, <2>1
    <2> HIDE DEF u, c, q
    <2>3. c > 2 /\ (u = 3 \/ u = 4)
      BY <2>1, <2>2
    <2> QED
      BY <2>3 DEF u, c
  <1>6. ASSUME Len(used) = 4 PROVE used = cluster
    <2>1. Len(cluster) = 4 /\ Len(quotes) = 4
      BY <1>1, <1>2, <1>4, <1>6
    <2>2. Range(used) = Range(cluster) /\ Range(cluster) = Answers
      BY <1>1, <1>3, <1>6, <2>1, FS_Subset
    <2>3. used = Sorted(quotes)
      BY <1>1, <2>1, <2>2 DEF Sorted, Answers
    <2> DEFINE tol == Tolerance(max_deviation_bps)
               w == Scan(Sorted(quotes), tol)
    <2>4. IsCluster(cluster, quotes, tol, w)
      BY <1>1, ClusterFound
    <2> HIDE DEF tol, w
    <2>5. /\ w[1] \in 1..4 /\ w[2] \in 1..4 /\ w[2] - w[1] + 1 = 4
          /\ \A k \in 1..4 : cluster[k] = used[w[1] + k - 1]
      BY <1>6, <2>1, <2>3, <2>4 DEF IsCluster, Window, Size
    <2>6. \A k \in 1..4 : cluster[k] = used[k]
      <3>1. w[1] = 1
        BY <2>5
      <3> QED
        BY <2>5, <3>1
    <2> QED
      BY <1>1, <1>6, <2>1, <2>6
  <1> QED
    BY <1>5, <1>6

(* The gaps between the answers that are used, in products of the median   *)
(* and the deviation.                                                      *)
LEMMA GapsOfFour ==
  ASSUME NEW x1 \in Nat, NEW x2 \in Nat, NEW x3 \in Nat, NEW x4 \in Nat, NEW d \in Nat, NEW m \in Nat,
         x1 <= x2, x2 <= m, m <= x3, x3 <= x4,
         \/ BPS * (x4 - x1) <= d * x1
         \/ BPS * (m - x1) <= d * m /\ BPS * (x4 - m) <= d * m
  PROVE  BPS * (x2 - x1) <= d * m /\ BPS * (x4 - x3) <= d * m
  <1>1. x1 <= m
    OBVIOUS
  <1>2. d * x1 \in Int /\ d * m \in Int /\ d * x1 <= d * m
    BY <1>1
  <1> QED
    BY <1>1, <1>2 DEF BPS

LEMMA GapsOfThree ==
  ASSUME NEW x1 \in Nat, NEW x2 \in Nat, NEW x3 \in Nat, NEW d \in Nat, NEW m \in Nat,
         x1 <= x2, x2 <= x3,
         \/ BPS * (x3 - x1) <= d * x1
         \/ /\ d < 500
            /\ BPS * (m - x1) <= d * m /\ BPS * (x3 - m) <= d * m /\ BPS * (m - x2) <= d * m
  PROVE  19 * BPS * (x2 - x1) <= 40 * (d * x2) /\ 19 * BPS * (x3 - x2) <= 40 * (d * x2)
  <1>1. d * x1 \in Int /\ d * x2 \in Int /\ d * x1 <= d * x2 /\ d * m \in Int /\ d * x2 >= 0
    OBVIOUS
  <1>2. CASE BPS * (x3 - x1) <= d * x1
    BY <1>1, <1>2 DEF BPS
  <1>3. CASE /\ d < 500
             /\ BPS * (m - x1) <= d * m /\ BPS * (x3 - m) <= d * m /\ BPS * (m - x2) <= d * m
    <2>1. d * m <= 500 * m
      BY <1>3
    <2>2. 19 * m <= 20 * x2
      BY <1>1, <1>3, <2>1 DEF BPS
    <2>3. d * (19 * m) <= d * (20 * x2)
      BY <2>2
    <2>4. d * (19 * m) = 19 * (d * m) /\ d * (20 * x2) = 20 * (d * x2)
      OBVIOUS
    <2>5. 19 * (d * m) <= 20 * (d * x2)
      BY <2>3, <2>4
    <2> QED
      BY <1>1, <1>3, <2>5 DEF BPS
  <1> QED
    BY <1>2, <1>3

(* With four sources, all that the code has, the signed band contains      *)
(* every answer that it was computed from.                                 *)
THEOREM BandAlwaysCoversSources ==
  ASSUME Cardinality(Sources) <= 4
  PROVE  PricingSpec => []BandCoversSources
  <1>1. ASSUME StageInv PROVE BandCoversSources
    <2> DEFINE s == PriceSeq(used)
               x == Ascending(s)
               d == max_deviation_bps
               m == Median(PriceSeq(cluster))
               n == Len(used)
    <2> SUFFICES ASSUME pc = "ok", n >= 3
                 PROVE  \A a \in Range(used) : result.min <= a.price /\ a.price <= result.max
      BY DEF BandCoversSources, MIN_SOURCES_FOR_PERCENTILE
    <2>1. /\ used \in Seq(Quote) /\ d \in Nat /\ result = Band(s, d)
          /\ cluster \in Seq(Quote) /\ Len(cluster) \in Nat
          /\ Agree(Range(used), Tolerance(d))
          /\ Len(cluster) # 2 => \A a \in Range(used) : ~Deviates(a.price, m, d)
      BY <1>1, Stages DEF Agree
    <2>2. Len(cluster) > 2 /\ n \in {3, 4} /\ (n = 4 => used = cluster)
      BY <1>1, FourAreAll
    <2>3. /\ s \in Seq(Int) /\ Len(s) = n
          /\ \A i \in 1..n : x[i] \in Nat /\ \E a \in Range(used) : x[i] = a.price
          /\ \A i, j \in 1..n : i <= j => x[i] <= x[j]
          /\ \A a \in Range(used) : \E i \in 1..n : x[i] = a.price
      BY <2>1, UsedInOrder
    <2>4. m \in Nat
      <3>1. /\ PriceSeq(cluster) \in Seq(Int) /\ Len(PriceSeq(cluster)) = Len(cluster)
            /\ \A i \in 1..Len(cluster) : PriceSeq(cluster)[i] \in Nat
        BY <2>1, PricesOf
      <3>2. /\ m \in Int
            /\ \E i \in 1..Len(cluster) : PriceSeq(cluster)[i] <= m
        BY <2>1, <2>2, <3>1, MedianBetween
      <3> QED
        BY <3>1, <3>2
    <2> HIDE DEF x, s, m, d
    (* Either the answers are consistent within the deviation, or they are *)
    (* all within it of the cluster's median.                              *)
    <2>5. \/ \A i, j \in 1..n : i <= j => BPS * (x[j] - x[i]) <= d * x[i]
          \/ d < 500 /\ \A i \in 1..n : BPS * (m - x[i]) <= d * m /\ BPS * (x[i] - m) <= d * m
      <3>1. CASE d >= 500
        <4>1. Tolerance(d) = d
          BY <2>1, <3>1 DEF Tolerance, DEFAULT_CLUSTER_TOLERANCE_BPS
        <4>2. ASSUME NEW i \in 1..n, NEW j \in 1..n, i <= j
              PROVE  BPS * (x[j] - x[i]) <= d * x[i]
          <5>1. ~Deviates(x[j], x[i], d)
            BY <2>1, <2>3, <4>1, <4>2 DEF Agree
          <5>2. x[i] \in Nat /\ x[j] \in Nat /\ x[i] <= x[j]
            BY <2>3, <4>2
          <5> DEFINE p == x[i]
                     r == x[j]
          <5> HIDE DEF p, r
          <5>3. ~Deviates(r, p, d) /\ p \in Nat /\ r \in Nat /\ p <= r
            BY <5>1, <5>2 DEF p, r
          <5>4. d * p \in Int
            BY <2>1, <5>3
          <5>5. BPS * (r - p) <= d * p
            BY <5>3, <5>4 DEF Deviates, Distance, BPS
          <5> QED
            BY <5>5 DEF p, r
        <4> QED
          BY <4>2
      <3>2. CASE d < 500
        <4> SUFFICES ASSUME NEW i \in 1..n
                     PROVE  BPS * (m - x[i]) <= d * m /\ BPS * (x[i] - m) <= d * m
          BY <3>2
        <4> DEFINE p == x[i]
        <4>1. ~Deviates(p, m, d) /\ p \in Nat
          <5>1. PICK a \in Range(used) : x[i] = a.price
            BY <2>3
          <5>2. Len(cluster) # 2
            BY <2>1, <2>2
          <5>3. ~Deviates(a.price, m, d)
            BY <2>1, <5>2
          <5> QED
            BY <2>3, <5>1, <5>3
        <4> HIDE DEF p
        <4>2. d * m \in Int
          BY <2>1, <2>4
        <4>3. BPS * (m - p) <= d * m /\ BPS * (p - m) <= d * m
          BY <2>4, <4>1, <4>2 DEF Deviates, Distance, BPS
        <4> QED
          BY <4>3 DEF p
      <3> QED
        BY <2>1, <3>1, <3>2
    <2>6. CASE n = 3
      <3> DEFINE x1 == x[1]
                 x2 == x[2]
                 x3 == x[3]
      <3>1. /\ x1 \in Nat /\ x2 \in Nat /\ x3 \in Nat /\ x1 <= x2 /\ x2 <= x3
            /\ \A a \in Range(used) : a.price \in x1..x3
        <4>1. x1 \in Nat /\ x2 \in Nat /\ x3 \in Nat /\ x1 <= x2 /\ x2 <= x3
          BY <2>3, <2>6
        <4>2. ASSUME NEW a \in Range(used) PROVE a.price \in x1..x3
          <5>1. PICK i \in 1..n : x[i] = a.price
            BY <2>3
          <5>2. i = 1 \/ i = 2 \/ i = 3
            BY <2>6
          <5> QED
            BY <4>1, <5>1, <5>2
        <4> QED
          BY <4>1, <4>2
      <3>2. \/ BPS * (x3 - x1) <= d * x1
            \/ /\ d < 500
               /\ BPS * (m - x1) <= d * m /\ BPS * (x3 - m) <= d * m /\ BPS * (m - x2) <= d * m
        BY <2>5, <2>6
      <3>0. Ascending(s)[1] = x1 /\ Ascending(s)[2] = x2 /\ Ascending(s)[3] = x3
        BY DEF x
      <3> HIDE DEF x1, x2, x3
      <3>3. 19 * BPS * (x2 - x1) <= 40 * (d * x2) /\ 19 * BPS * (x3 - x2) <= 40 * (d * x2)
        BY <2>1, <2>4, <3>1, <3>2, GapsOfThree
      <3> DEFINE Y == x2 * d
                 w == Y \div BPS
      <3>4. Y \in Nat /\ d * x2 = Y /\ x2 - x1 \in Nat /\ x3 - x2 \in Nat
        BY <2>1, <3>1
      <3>5. /\ w \in Nat
            /\ (20 * (x2 - x1) + 50) \div 100 <= w
            /\ (50 - 20 * (x3 - x2)) \div 100 >= -w
        <4> HIDE DEF Y
        <4> QED
          BY <3>3, <3>4, SpreadCovers
      <3>6. \A p \in x1..x3 : Band(s, d).min <= p /\ p <= Band(s, d).max
        <4>1. w = (x2 * d) \div BPS
          OBVIOUS
        <4> HIDE DEF w, Y
        <4> QED
          BY <2>1, <2>3, <2>6, <3>0, <3>1, <3>5, <4>1, BandOfThree
      <3> QED
        BY <2>1, <3>1, <3>6
    <2>7. CASE n = 4
      <3> DEFINE x1 == x[1]
                 x2 == x[2]
                 x3 == x[3]
                 x4 == x[4]
      <3>1. /\ x1 \in Nat /\ x2 \in Nat /\ x3 \in Nat /\ x4 \in Nat
            /\ x1 <= x2 /\ x2 <= x3 /\ x3 <= x4
            /\ \A a \in Range(used) : a.price \in x1..x4
        <4>1. /\ x1 \in Nat /\ x2 \in Nat /\ x3 \in Nat /\ x4 \in Nat
              /\ x1 <= x2 /\ x2 <= x3 /\ x3 <= x4
          BY <2>3, <2>7
        <4>2. ASSUME NEW a \in Range(used) PROVE a.price \in x1..x4
          <5>1. PICK i \in 1..n : x[i] = a.price
            BY <2>3
          <5>2. i = 1 \/ i = 2 \/ i = 3 \/ i = 4
            BY <2>7
          <5> QED
            BY <4>1, <5>1, <5>2
        <4> QED
          BY <4>1, <4>2
      <3>2. \/ BPS * (x4 - x1) <= d * x1
            \/ BPS * (m - x1) <= d * m /\ BPS * (x4 - m) <= d * m
        BY <2>5, <2>7
      <3>3. m = Median(s)
        BY <2>2, <2>7 DEF m, s
      <3>4. Median(s) = (x2 + x3) \div 2
        BY <2>3, <2>7 DEF Median, x
      <3>0. /\ Ascending(s)[1] = x1 /\ Ascending(s)[2] = x2
            /\ Ascending(s)[3] = x3 /\ Ascending(s)[4] = x4
        BY DEF x
      <3> HIDE DEF x1, x2, x3, x4
      <3>5. m = (x2 + x3) \div 2
        BY <3>3, <3>4
      <3>6. BPS * (x2 - x1) <= d * m /\ BPS * (x4 - x3) <= d * m
        <4>1. d \in Nat
          BY <2>1
        <4>2. /\ x1 \in Nat /\ x2 \in Nat /\ x3 \in Nat /\ x4 \in Nat
              /\ x1 <= x2 /\ x2 <= x3 /\ x3 <= x4
          BY <3>1
        <4>3. x2 <= m /\ m <= x3
          BY <3>5, <4>2
        <4> QED
          BY <2>4, <3>2, <4>1, <4>2, <4>3, GapsOfFour
      <3> DEFINE Y == m * d
                 w == Y \div BPS
      <3>7. Y \in Nat /\ d * m = Y /\ x2 - x1 \in Nat /\ x4 - x3 \in Nat
        BY <2>1, <2>4, <3>1
      <3>8. /\ w \in Nat
            /\ (30 * (x2 - x1) + 50) \div 100 <= w
            /\ (50 - 30 * (x4 - x3)) \div 100 >= -w
        <4> HIDE DEF Y
        <4> QED
          BY <3>6, <3>7, SpreadCovers
      <3>9. \A p \in x1..x4 : Band(s, d).min <= p /\ p <= Band(s, d).max
        <4>1. w = (((x2 + x3) \div 2) * d) \div BPS
          BY <3>5
        <4> HIDE DEF w, Y
        <4> QED
          BY <2>1, <2>3, <2>7, <3>0, <3>1, <3>8, <4>1, BandOfFour
      <3> QED
        BY <2>1, <3>1, <3>9
    <2> QED
      BY <2>2, <2>6, <2>7
  <1> QED
    BY <1>1, StagesHold, PTL

-----------------------------------------------------------------------------
(* The band is in order, however many answers there are.                   *)

LEMMA PercentileBetween ==
  ASSUME NEW t \in Seq(Int), Len(t) > 0, NEW p \in 0..99,
         \A i, j \in 1..Len(t) : i <= j => t[i] <= t[j]
  PROVE  LET lo   == (p * (Len(t) - 1)) \div 100
             rest == (p * (Len(t) - 1)) % 100
         IN  /\ Percentile(t, p) \in Int /\ lo + 1 \in 1..Len(t)
             /\ t[lo + 1] <= Percentile(t, p)
             /\ rest = 0 => Percentile(t, p) <= t[lo + 1]
             /\ rest # 0 => lo + 2 \in 1..Len(t) /\ Percentile(t, p) <= t[lo + 2]
  <1> DEFINE n == Len(t)
             k == p * (n - 1)
             lo == k \div 100
             rest == k % 100
  <1>1. n \in Nat /\ n > 0 /\ k \in Nat /\ k <= 99 * (n - 1)
    <2>1. n \in Nat /\ n > 0
      OBVIOUS
    <2>2. \A a, b \in Nat : a <= 99 => a * b \in Nat /\ a * b <= 99 * b
      OBVIOUS
    <2>3. n - 1 \in Nat
      BY <2>1
    <2> HIDE DEF n
    <2> QED
      BY <2>1, <2>2, <2>3
  <1>2. Percentile(t, p) =
          IF rest = 0 THEN t[lo + 1]
          ELSE (100 * t[lo + 1] + rest * (t[lo + 2] - t[lo + 1]) + 50) \div 100
    BY DEF Percentile
  <1>3. \A i \in 1..n : t[i] \in Int
    OBVIOUS
  <1> HIDE DEF n, k
  <1>4. /\ lo \in Nat /\ rest \in 0..99 /\ k = 100 * lo + rest
        /\ lo + 1 \in 1..n /\ (rest # 0 => lo + 2 \in 1..n)
    BY <1>1
  <1> HIDE DEF lo, rest
  <1>5. CASE rest = 0
    BY <1>2, <1>3, <1>4, <1>5 DEF lo, rest, k, n
  <1>6. CASE rest # 0
    <2> DEFINE y == t[lo + 1]
               z == t[lo + 2]
               g == z - y
               v == rest * g
    <2>1. y \in Int /\ z \in Int /\ y <= z /\ g \in Nat
      <3>1. lo + 1 \in 1..Len(t) /\ lo + 2 \in 1..Len(t) /\ lo + 1 <= lo + 2
        BY <1>4, <1>6 DEF n
      <3>2. y <= z /\ y \in Int /\ z \in Int
        BY <1>3, <3>1 DEF n
      <3> QED
        BY <3>2
    <2>2. v \in Nat /\ v <= 99 * g
      <3>1. \A a, b \in Nat : a <= 99 => a * b \in Nat /\ a * b <= 99 * b
        OBVIOUS
      <3> HIDE DEF g
      <3> QED
        BY <1>4, <2>1, <3>1
    <2>3. Percentile(t, p) = (100 * y + v + 50) \div 100
      BY <1>2, <1>6
    <2> HIDE DEF y, z, v
    <2>4. Percentile(t, p) \in Int /\ y <= Percentile(t, p) /\ Percentile(t, p) <= z
      <3>1. (100 * y + v + 50) \div 100 \in Int
        BY <2>1, <2>2
      <3>2. g = z - y
        OBVIOUS
      <3> HIDE DEF g
      <3> QED
        BY <2>1, <2>2, <2>3, <3>1, <3>2
    <2> QED
      BY <1>4, <1>6, <2>4 DEF y, z, lo, rest, k, n
  <1> QED
    BY <1>5, <1>6

(* The band that is signed is never inverted, holds its median and is not  *)
(* below zero, and the median is a price (the tests assert min <= max,     *)
(* prices.rs:481).                                                         *)
BandOrdered ==
  pc = "ok" =>
    /\ 0 <= result.min /\ result.min <= result.median
    /\ result.median <= result.max /\ result.median > 0

(* compute_confidence_interval_with_spread never signs an inverted band,   *)
(* for any number of sources: the interpolated ranks do not cross the      *)
(* middle.                                                                 *)
THEOREM BandIsOrdered == PricingSpec => []BandOrdered
  <1>1. ASSUME StageInv PROVE BandOrdered
    <2> DEFINE s == PriceSeq(used)
               x == Ascending(s)
               d == max_deviation_bps
               n == Len(used)
               m == Median(s)
               w == (m * d) \div BPS
    <2> SUFFICES ASSUME pc = "ok"
                 PROVE  /\ 0 <= result.min /\ result.min <= result.median
                        /\ result.median <= result.max /\ result.median > 0
      BY DEF BandOrdered
    <2>1. used \in Seq(Quote) /\ n \in Nat /\ n > 0 /\ d \in Nat /\ result = Band(s, d)
      BY <1>1, Stages
    <2>2. s \in Seq(Int) /\ Len(s) = n /\ \A i \in 1..n : s[i] \in Nat /\ s[i] > 0
      <3>1. s \in Seq(Int) /\ Len(s) = n /\ \A i \in 1..n : s[i] = used[i].price
        BY <2>1, PricesOf
      <3>2. \A i \in 1..n : used[i] \in Quote
        BY <2>1
      <3> QED
        BY <3>1, <3>2, QuoteTyped
    <2> HIDE DEF s, n, d
    <2>3. m \in Nat /\ m > 0
      <3>1. m \in Int /\ \E i \in 1..Len(s) : s[i] <= m
        BY <2>1, <2>2, MedianBetween
      <3> QED
        BY <2>2, <3>1
    <2>4. w \in Nat
      <3>1. m * d \in Nat
        BY <2>1, <2>3
      <3> HIDE DEF m
      <3> QED
        BY <3>1 DEF BPS
    <2>5. /\ x \in Seq(Int) /\ Len(x) = n /\ \A i, j \in 1..n : i <= j => x[i] <= x[j]
          /\ x[(n + 1) \div 2] <= m /\ m <= x[n \div 2 + 1]
      BY <2>1, <2>2, AscendingOrders, MedianRank
    <2>6. n < 3 => result = [min |-> Floor0(m - w), median |-> m, max |-> m + w]
      BY <2>1, <2>2 DEF Band, MIN_SOURCES_FOR_PERCENTILE
    <2>7. n >= 3 => result = [min |-> Floor0(Percentile(x, 10) - w), median |-> m,
                              max |-> Percentile(x, 90) + w]
      BY <2>1, <2>2 DEF Band, MIN_SOURCES_FOR_PERCENTILE
    <2> HIDE DEF x, m, w
    <2>8. CASE n < 3
      BY <2>3, <2>4, <2>6, <2>8 DEF Floor0
    <2>9. CASE n >= 3
      <3>1. \A i \in 1..n : x[i] \in Int
        BY <2>5
      <3>2. Percentile(x, 10) \in Int /\ Percentile(x, 10) <= m
        <4> DEFINE lo == (10 * (n - 1)) \div 100
                   rest == (10 * (n - 1)) % 100
                   top == IF rest = 0 THEN lo + 1 ELSE lo + 2
        <4>0. /\ Percentile(x, 10) \in Int /\ lo + 1 \in 1..n
              /\ rest = 0 => Percentile(x, 10) <= x[lo + 1]
              /\ rest # 0 => lo + 2 \in 1..n /\ Percentile(x, 10) <= x[lo + 2]
          <5>1. x \in Seq(Int) /\ Len(x) = n /\ Len(x) > 0 /\ 10 \in 0..99
            BY <2>1, <2>5
          <5>2. \A i, j \in 1..Len(x) : i <= j => x[i] <= x[j]
            BY <2>5
          <5> QED
            BY <5>1, <5>2, PercentileBetween
        <4>1. Percentile(x, 10) \in Int /\ top \in 1..n /\ Percentile(x, 10) <= x[top]
          <5> HIDE DEF lo, rest
          <5> QED
            BY <4>0
        <4>2. top <= (n + 1) \div 2 /\ (n + 1) \div 2 \in 1..n
          BY <2>1, <2>9
        <4> HIDE DEF top
        <4>3. x[top] <= x[(n + 1) \div 2]
          BY <2>5, <4>1, <4>2
        <4> QED
          BY <2>3, <2>5, <3>1, <4>1, <4>2, <4>3
      <3>3. Percentile(x, 90) \in Int /\ m <= Percentile(x, 90)
        <4> DEFINE lo == (90 * (n - 1)) \div 100
        <4>1. Percentile(x, 90) \in Int /\ lo + 1 \in 1..n /\ x[lo + 1] <= Percentile(x, 90)
          <5>1. x \in Seq(Int) /\ Len(x) = n /\ Len(x) > 0 /\ 90 \in 0..99
            BY <2>1, <2>5
          <5>2. \A i, j \in 1..Len(x) : i <= j => x[i] <= x[j]
            BY <2>5
          <5> QED
            BY <5>1, <5>2, PercentileBetween
        <4>2. n \div 2 + 1 <= lo + 1 /\ n \div 2 + 1 \in 1..n
          BY <2>1, <2>9
        <4> HIDE DEF lo
        <4>3. x[n \div 2 + 1] <= x[lo + 1]
          BY <2>5, <4>1, <4>2
        <4> QED
          BY <2>3, <2>5, <3>1, <4>1, <4>2, <4>3
      <3> QED
        BY <2>3, <2>4, <2>7, <2>9, <3>2, <3>3 DEF Floor0
    <2> QED
      BY <2>1, <2>8, <2>9
  <1> QED
    BY <1>1, StagesHold, PTL

-----------------------------------------------------------------------------
(* Numerals. The values of the prefixes of a numeral, as Number computes   *)
(* them.                                                                   *)

Digit == 0..(Base - 1)

LEMMA BaseInt == Base \in Nat /\ Base > 1 /\ Scale \in Nat /\ MaxInt \in Nat
  BY BaseAssumption

Values(f, s) ==
  /\ f \in [0..Len(s) -> Nat] /\ f[0] = 0
  /\ \A n \in 1..Len(s) : f[n] = f[n - 1] * Base + s[n]

LEMMA StepNat == \A a, d \in Nat : a * Base + d \in Nat
  <1>1. \A a, b, d \in Nat : a * b + d \in Nat
    OBVIOUS
  <1> QED
    BY <1>1, BaseInt

LEMMA ValuesSame ==
  ASSUME NEW s \in Seq(Nat), NEW f, NEW g, Values(f, s), NEW k \in 0..Len(s),
         NEW r \in Seq(Nat), Values(g, r), k <= Len(r), \A n \in 1..k : r[n] = s[n]
  PROVE  f[k] = g[k]
  <1> DEFINE Bad == {n \in Nat : n <= k /\ f[n] # g[n]}
  <1>1. k \in Nat /\ Len(s) \in Nat /\ Len(r) \in Nat
    OBVIOUS
  <1>2. Bad = {}
    <2> SUFFICES ASSUME Bad # {} PROVE FALSE
      OBVIOUS
    <2>1. PICK n \in Bad : \A m \in Bad : n <= m
      <3>1. Bad \in SUBSET Nat
        OBVIOUS
      <3> HIDE DEF Bad
      <3> QED
        BY <3>1, LeastNumber
    <2>2. n # 0
      BY <2>1 DEF Values
    <2>3. n \in Nat /\ n <= k /\ n \in 1..k /\ n \in 1..Len(s) /\ n \in 1..Len(r)
      BY <1>1, <2>1, <2>2
    <2>4. f[n - 1] = g[n - 1]
      <3>1. n - 1 \in Nat /\ n - 1 <= k /\ ~(n <= n - 1)
        BY <1>1, <2>3
      <3> QED
        BY <2>1, <3>1
    <2>5. f[n] = f[n - 1] * Base + s[n] /\ g[n] = g[n - 1] * Base + r[n]
      BY <2>3 DEF Values
    <2>6. r[n] = s[n]
      BY <2>3
    <2> QED
      BY <2>1, <2>4, <2>5, <2>6
  <1> QED
    BY <1>1, <1>2

LEMMA ValuesExist == \A s \in Seq(Nat) : \E f : Values(f, s) /\ Number(s) = f[Len(s)]
  <1> SUFFICES ASSUME NEW s \in Seq(Nat) PROVE \E f : Values(f, s) /\ Number(s) = f[Len(s)]
    OBVIOUS
  <1> DEFINE E(f, n) == IF n = 0 THEN 0 ELSE f[n - 1] * Base + s[n]
             Follows(f, n) == f = [i \in 0..n |-> E(f, i)]
             None == {n \in Nat : n <= Len(s) /\ ~\E f : Follows(f, n)}
  <1>0. Len(s) \in Nat
    OBVIOUS
  <1>1. None = {}
    <2> SUFFICES ASSUME None # {} PROVE FALSE
      OBVIOUS
    <2>1. PICK n \in None : \A m \in None : n <= m
      <3>1. None \in SUBSET Nat
        OBVIOUS
      <3> HIDE DEF None
      <3> QED
        BY <3>1, LeastNumber
    <2>2. n # 0
      <3>1. Follows([i \in 0..0 |-> 0], 0)
        OBVIOUS
      <3> QED
        BY <2>1, <3>1
    <2>3. n - 1 \in Nat /\ n - 1 \notin None /\ n - 1 <= Len(s)
      <3>1. n \in Nat /\ n <= Len(s)
        BY <2>1
      <3> HIDE DEF None
      <3> QED
        BY <1>0, <2>1, <2>2, <3>1
    <2>4. PICK f : Follows(f, n - 1)
      BY <2>3
    <2> DEFINE g == [i \in 0..n |-> IF i = n THEN f[n - 1] * Base + s[n] ELSE f[i]]
    <2>5. \A i \in 0..(n - 1) : g[i] = f[i] /\ f[i] = E(f, i)
      <3>1. \A i \in 0..(n - 1) : i \in 0..n /\ i # n
        BY <2>3
      <3> HIDE DEF E
      <3>2. \A i \in 0..(n - 1) : f[i] = E(f, i)
        BY <2>4
      <3> QED
        BY <3>1, <3>2
    <2>6. ASSUME NEW i \in 0..n PROVE g[i] = E(g, i)
      <3>1. CASE i = n
        <4>1. g[n - 1] = f[n - 1]
          BY <2>3, <2>5
        <4> QED
          BY <2>2, <3>1, <4>1
      <3>2. CASE i # n
        <4>1. i \in 0..(n - 1)
          BY <3>2
        <4>2. i # 0 => g[i - 1] = f[i - 1]
          <5>1. i # 0 => i - 1 \in 0..(n - 1)
            BY <4>1
          <5> QED
            BY <5>1, <2>5
        <4>3. g[i] = E(f, i)
          BY <2>5, <4>1
        <4> HIDE DEF g
        <4> QED
          BY <4>2, <4>3
      <3> QED
        BY <3>1, <3>2
    <2>7. Follows(g, n)
      <3>1. g = [i \in 0..n |-> g[i]]
        OBVIOUS
      <3> HIDE DEF g, E
      <3> QED
        BY <2>6, <3>1
    <2> QED
      BY <2>1, <2>7
  <1>2. \E f : Follows(f, Len(s))
    <2>1. Len(s) \notin None
      BY <1>1
    <2> QED
      BY <1>0, <2>1
  <1> DEFINE value == CHOOSE f : Follows(f, Len(s))
  <1>3. Follows(value, Len(s))
    <2> HIDE DEF Follows
    <2> QED
      BY <1>2
  <1>4. Number(s) = value[Len(s)]
    BY DEF Number
  <1> HIDE DEF value
  <1>5. \A n \in 0..Len(s) : value[n] = E(value, n)
    BY <1>3
  <1> DEFINE Bad == {n \in Nat : n <= Len(s) /\ value[n] \notin Nat}
  <1>6. Bad = {}
    <2> SUFFICES ASSUME Bad # {} PROVE FALSE
      OBVIOUS
    <2>1. PICK n \in Bad : \A m \in Bad : n <= m
      <3>1. Bad \in SUBSET Nat
        OBVIOUS
      <3> HIDE DEF Bad
      <3> QED
        BY <3>1, LeastNumber
    <2>2. n # 0
      BY <1>0, <1>5, <2>1
    <2>3. n - 1 \in Nat /\ n - 1 <= Len(s) /\ n \in 1..Len(s) /\ n - 1 \notin Bad
      <3>1. n \in Nat /\ n <= Len(s) /\ n \in Bad
        BY <2>1
      <3> HIDE DEF Bad
      <3> QED
        BY <1>0, <2>1, <2>2, <3>1
    <2>4. value[n - 1] \in Nat /\ s[n] \in Nat
      BY <2>3
    <2>5. value[n] = value[n - 1] * Base + s[n]
      BY <1>5, <2>2, <2>3
    <2> QED
      BY <2>1, <2>4, <2>5, StepNat
  <1>7. value \in [0..Len(s) -> Nat]
    <2>1. value = [n \in 0..Len(s) |-> value[n]]
      BY <1>3
    <2>2. \A n \in 0..Len(s) : value[n] \in Nat
      BY <1>0, <1>6
    <2> QED
      BY <2>1, <2>2
  <1>8. Values(value, s)
    BY <1>0, <1>5, <1>7 DEF Values
  <1> QED
    BY <1>4, <1>8

(* Whatever follows the rule of Number from the first digit on is Number.  *)
LEMMA NumberIs ==
  ASSUME NEW s \in Seq(Nat), NEW f, Values(f, s)
  PROVE  Number(s) = f[Len(s)] /\ Number(s) \in Nat
  <1>1. PICK g : Values(g, s) /\ Number(s) = g[Len(s)]
    BY ValuesExist
  <1>2. Len(s) \in 0..Len(s) /\ Len(s) <= Len(s)
    OBVIOUS
  <1>3. g[Len(s)] = f[Len(s)]
    BY <1>1, <1>2, ValuesSame
  <1>4. f[Len(s)] \in Nat
    BY <1>2 DEF Values
  <1> QED
    BY <1>1, <1>3, <1>4

LEMMA NumberNat == \A s \in Seq(Nat) : Number(s) \in Nat
  BY ValuesExist, NumberIs

OneZeros(k) == [i \in 1..(k + 1) |-> IF i = 1 THEN 1 ELSE 0]

LEMMA OneZerosSeq ==
  \A k \in Nat :
    /\ OneZeros(k) \in Seq(Nat) /\ Len(OneZeros(k)) = k + 1
    /\ \A i \in 1..(k + 1) : OneZeros(k)[i] = IF i = 1 THEN 1 ELSE 0
  BY DEF OneZeros

LEMMA PowerRule ==
  ASSUME NEW k \in Nat
  PROVE  Power(k) \in Nat /\ Power(0) = 1 /\ Power(k + 1) = Power(k) * Base
  <1>1. \A n \in Nat : Power(n) = Number(OneZeros(n))
    BY DEF Power, OneZeros
  <1>2. Power(0) = 1
    <2>0. OneZeros(0) \in Seq(Nat) /\ Len(OneZeros(0)) = 1 /\ OneZeros(0)[1] = 1
      <3>1. 0 \in Nat /\ 0 + 1 = 1 /\ 1 \in 1..(0 + 1)
        OBVIOUS
      <3> QED
        BY <3>1, OneZerosSeq
    <2>1. PICK f : Values(f, OneZeros(0)) /\ Number(OneZeros(0)) = f[1]
      BY <2>0, ValuesExist
    <2>2. f[1] = f[0] * Base + 1 /\ f[0] = 0
      <3>1. 1 \in 1..Len(OneZeros(0)) /\ OneZeros(0)[1] = 1
        BY <2>0
      <3>2. f[1] = f[1 - 1] * Base + OneZeros(0)[1]
        BY <2>1, <3>1 DEF Values
      <3> QED
        BY <2>1, <3>1, <3>2 DEF Values
    <2> QED
      BY <1>1, <2>1, <2>2, BaseInt
  <1> DEFINE s == OneZeros(k)
             r == OneZeros(k + 1)
  <1>3. /\ s \in Seq(Nat) /\ r \in Seq(Nat) /\ Len(s) = k + 1 /\ Len(r) = k + 2
        /\ r[k + 2] = 0 /\ \A i \in 1..(k + 1) : r[i] = s[i]
    <2>1. k + 1 \in Nat /\ (k + 1) + 1 = k + 2
      OBVIOUS
    <2>2. /\ s \in Seq(Nat) /\ Len(s) = k + 1
          /\ \A i \in 1..(k + 1) : s[i] = IF i = 1 THEN 1 ELSE 0
      BY OneZerosSeq
    <2>3. /\ r \in Seq(Nat) /\ Len(r) = k + 2
          /\ \A i \in 1..(k + 2) : r[i] = IF i = 1 THEN 1 ELSE 0
      BY <2>1, OneZerosSeq
    <2> HIDE DEF s, r
    <2> QED
      BY <2>2, <2>3
  <1> HIDE DEF s, r
  <1>4. PICK g : Values(g, s) /\ Number(s) = g[k + 1]
    BY <1>3, ValuesExist
  <1>5. PICK f : Values(f, r) /\ Number(r) = f[k + 2]
    BY <1>3, ValuesExist
  <1>6. g[k + 1] = f[k + 1]
    <2>1. k + 1 \in 0..Len(s) /\ k + 1 <= Len(r)
      BY <1>3
    <2> QED
      BY <1>3, <1>4, <1>5, <2>1, ValuesSame
  <1>7. f[k + 2] = f[k + 1] * Base + 0
    <2>1. k + 2 \in 1..Len(r) /\ (k + 2) - 1 = k + 1
      BY <1>3
    <2>2. f[k + 2] = f[(k + 2) - 1] * Base + r[k + 2]
      BY <1>5, <2>1 DEF Values
    <2> QED
      BY <1>3, <2>1, <2>2
  <1>8. Number(s) \in Nat
    BY <1>3, NumberNat
  <1>9. Power(k) = Number(s) /\ Power(k + 1) = Number(r)
    BY <1>1 DEF s, r
  <1>10. f[k + 1] \in Nat /\ f[k + 1] * Base + 0 = f[k + 1] * Base
    <2>1. f[k + 1] \in Nat
      BY <1>4, <1>6, <1>8
    <2>2. f[k + 1] * Base \in Int
      BY <2>1, BaseInt
    <2> QED
      BY <2>1, <2>2
  <1> QED
    BY <1>2, <1>4, <1>5, <1>6, <1>7, <1>8, <1>9, <1>10

LEMMA PowerPositive == \A k \in Nat : Power(k) \in Nat /\ Power(k) > 0
  <1> DEFINE Bad == {k \in Nat : ~(Power(k) > 0)}
  <1>1. \A k \in Nat : Power(k) \in Nat
    BY PowerRule
  <1>2. Bad = {}
    <2> SUFFICES ASSUME Bad # {} PROVE FALSE
      OBVIOUS
    <2>1. PICK n \in Bad : \A m \in Bad : n <= m
      <3>1. Bad \in SUBSET Nat
        OBVIOUS
      <3> HIDE DEF Bad
      <3> QED
        BY <3>1, LeastNumber
    <2>2. n # 0
      <3>1. Power(0) = 1
        BY PowerRule
      <3> QED
        BY <2>1, <3>1
    <2>3. n - 1 \in Nat /\ Power(n - 1) > 0 /\ (n - 1) + 1 = n
      <3>1. n \in Nat /\ n - 1 \in Nat
        BY <2>1, <2>2
      <3>2. n - 1 \notin Bad
        <4> HIDE DEF Bad
        <4> QED
          BY <2>1, <3>1
      <3> QED
        BY <3>1, <3>2
    <2>4. Power(n) = Power(n - 1) * Base /\ Power(n - 1) \in Nat
      BY <2>3, PowerRule
    <2>5. \A a, b \in Nat : a > 0 /\ b > 0 => a * b > 0
      OBVIOUS
    <2> QED
      BY <2>1, <2>3, <2>4, <2>5, BaseInt
  <1> QED
    BY <1>1, <1>2

Zeros(k) == [i \in 1..k |-> 0]

LEMMA NumberZeros == \A k \in Nat : Zeros(k) \in Seq(Nat) /\ Len(Zeros(k)) = k /\ Number(Zeros(k)) = 0
  <1> SUFFICES ASSUME NEW k \in Nat
               PROVE  Zeros(k) \in Seq(Nat) /\ Len(Zeros(k)) = k /\ Number(Zeros(k)) = 0
    OBVIOUS
  <1>1. Zeros(k) \in Seq(Nat) /\ Len(Zeros(k)) = k /\ \A i \in 1..k : Zeros(k)[i] = 0
    BY DEF Zeros
  <1> DEFINE f == [i \in 0..k |-> 0]
  <1>2. 0 = 0 * Base + 0
    BY BaseInt
  <1>3. Values(f, Zeros(k))
    BY <1>1, <1>2 DEF Values
  <1>4. f[k] = 0
    OBVIOUS
  <1> HIDE DEF f
  <1> QED
    BY <1>1, <1>3, <1>4, NumberIs

LEMMA NumberConcat ==
  ASSUME NEW a \in Seq(Nat), NEW b \in Seq(Nat)
  PROVE  Number(a \o b) = Number(a) * Power(Len(b)) + Number(b)
  <1> DEFINE m == Len(a)
             n == Len(b)
             c == a \o b
  <1>1. /\ m \in Nat /\ n \in Nat /\ c \in Seq(Nat) /\ Len(c) = m + n
        /\ \A i \in 1..m : c[i] = a[i]
        /\ \A i \in (m + 1)..(m + n) : c[i] = b[i - m]
    OBVIOUS
  <1>2. PICK f : Values(f, a) /\ Number(a) = f[m]
    BY ValuesExist
  <1>3. PICK g : Values(g, b) /\ Number(b) = g[n]
    BY ValuesExist
  <1> DEFINE A == Number(a)
             h == [i \in 0..(m + n) |-> IF i <= m THEN f[i] ELSE A * Power(i - m) + g[i - m]]
  <1>4. A \in Nat
    BY NumberNat
  <1> HIDE DEF m, n, c, A
  <1>5. /\ f \in [0..m -> Nat] /\ f[0] = 0 /\ \A i \in 1..m : f[i] = f[i - 1] * Base + a[i]
        /\ g \in [0..n -> Nat] /\ g[0] = 0 /\ \A i \in 1..n : g[i] = g[i - 1] * Base + b[i]
    BY <1>2, <1>3 DEF Values, m, n
  <1>6. ASSUME NEW i \in m..(m + n) PROVE h[i] = A * Power(i - m) + g[i - m]
    <2>1. CASE i = m
      <3>1. h[m] = f[m] /\ f[m] = A
        BY <1>1, <1>2, <2>1 DEF A
      <3>2. Power(0) = 1 /\ g[0] = 0 /\ m - m = 0
        <4>1. Power(0) = 1
          BY PowerRule
        <4> QED
          BY <1>1, <1>5, <4>1
      <3>3. A = A * 1 + 0
        BY <1>4
      <3> QED
        BY <2>1, <3>1, <3>2, <3>3
    <2>2. CASE i # m
      BY <1>1, <2>2
    <2> QED
      BY <2>1, <2>2
  <1>7. \A i \in 0..m : h[i] = f[i]
    BY <1>1
  <1>8. h \in [0..(m + n) -> Nat]
    <2> SUFFICES ASSUME NEW i \in 0..(m + n)
                 PROVE  (IF i <= m THEN f[i] ELSE A * Power(i - m) + g[i - m]) \in Nat
      OBVIOUS
    <2>1. CASE i <= m
      <3>1. i \in 0..m
        BY <1>1, <2>1
      <3> QED
        BY <1>5, <2>1, <3>1
    <2>2. CASE ~(i <= m)
      <3>1. i - m \in Nat /\ i - m \in 0..n
        BY <1>1, <2>2
      <3>2. Power(i - m) \in Nat /\ g[i - m] \in Nat
        BY <1>5, <3>1, PowerRule
      <3>3. \A x, y, z \in Nat : x * y + z \in Nat
        OBVIOUS
      <3> QED
        BY <1>4, <2>2, <3>2, <3>3
    <2> QED
      BY <2>1, <2>2
  <1>9. ASSUME NEW i \in 1..(m + n) PROVE h[i] = h[i - 1] * Base + c[i]
    <2>1. CASE i <= m
      <3>1. i \in 1..m /\ i \in 0..m /\ i - 1 \in 0..m
        BY <1>1, <2>1
      <3> HIDE DEF h
      <3> QED
        BY <1>1, <1>5, <1>7, <3>1
    <2>2. CASE i > m
      <3>1. /\ i \in m..(m + n) /\ i - 1 \in m..(m + n) /\ i - m \in 1..n /\ i \in (m + 1)..(m + n)
            /\ (i - m) - 1 \in Nat /\ (i - 1) - m = (i - m) - 1 /\ ((i - m) - 1) + 1 = i - m
        BY <1>1, <2>2
      <3> HIDE DEF h
      <3> DEFINE j == (i - m) - 1
                 P == Power(j)
                 q == g[j]
      <3>2. h[i] = A * Power(i - m) + g[i - m] /\ h[i - 1] = A * P + q
        BY <1>6, <3>1
      <3>3. Power(i - m) = P * Base /\ P \in Nat
        BY <3>1, PowerRule
      <3>4. g[i - m] = q * Base + b[i - m] /\ c[i] = b[i - m] /\ b[i - m] \in Nat
        <4>1. g[i - m] = q * Base + b[i - m] /\ c[i] = b[i - m]
          BY <1>1, <1>5, <3>1
        <4>2. b[i - m] \in Nat
          BY <3>1 DEF n
        <4> QED
          BY <4>1, <4>2
      <3>5. q \in Nat
        BY <1>1, <1>5, <3>1
      <3> HIDE DEF P, q, j
      <3>6. \A x, y, z, d, w \in Nat : x * (y * w) + (z * w + d) = (x * y + z) * w + d
        OBVIOUS
      <3> QED
        BY <1>4, <3>2, <3>3, <3>4, <3>5, <3>6, BaseInt
    <2> QED
      BY <1>1, <2>1, <2>2
  <1>10. h[0] = 0
    BY <1>1, <1>5
  <1>11. m + n \in m..(m + n) /\ (m + n) - m = n
    BY <1>1
  <1>12. h[m + n] = A * Power(n) + g[n]
    BY <1>6, <1>11
  <1> HIDE DEF h
  <1>13. Values(h, c)
    BY <1>1, <1>8, <1>9, <1>10 DEF Values
  <1>14. Number(c) = h[m + n]
    BY <1>1, <1>13, NumberIs
  <1> QED
    BY <1>3, <1>12, <1>14 DEF c, A, n

LEMMA ConcatIs ==
  ASSUME NEW a \in Seq(Nat), NEW b \in Seq(Nat), NEW c \in Seq(Nat), Len(c) = Len(a) + Len(b),
         \A i \in 1..Len(a) : c[i] = a[i], \A i \in 1..Len(b) : c[Len(a) + i] = b[i]
  PROVE  c = a \o b
  <1> DEFINE m == Len(a)
             n == Len(b)
             d == a \o b
  <1>1. m \in Nat /\ n \in Nat /\ d \in Seq(Nat) /\ Len(d) = m + n
    OBVIOUS
  <1>2. \A i \in 1..(m + n) : d[i] = IF i <= m THEN a[i] ELSE b[i - m]
    OBVIOUS
  <1> HIDE DEF d
  <1>3. ASSUME NEW i \in 1..(m + n) PROVE c[i] = d[i]
    <2>1. CASE i <= m
      BY <1>2, <2>1
    <2>2. CASE ~(i <= m)
      <3>1. i - m \in 1..n /\ m + (i - m) = i
        BY <1>1, <2>2
      <3> QED
        BY <1>2, <2>2, <3>1
    <2> QED
      BY <2>1, <2>2
  <1>4. c = d
    BY <1>1, <1>3
  <1> QED
    BY <1>4 DEF d

LEMMA PowerSum ==
  ASSUME NEW j \in Nat, NEW k \in Nat
  PROVE  Power(j + k) = Power(j) * Power(k)
  <1> DEFINE s == OneZeros(j)
             z == Zeros(k)
             r == OneZeros(j + k)
  <1>1. /\ s \in Seq(Nat) /\ Len(s) = j + 1
        /\ \A i \in 1..(j + 1) : s[i] = IF i = 1 THEN 1 ELSE 0
    BY OneZerosSeq
  <1>2. /\ r \in Seq(Nat) /\ Len(r) = j + k + 1
        /\ \A i \in 1..(j + k + 1) : r[i] = IF i = 1 THEN 1 ELSE 0
    <2>1. j + k \in Nat
      OBVIOUS
    <2> QED
      BY <2>1, OneZerosSeq
  <1>3. z \in Seq(Nat) /\ Len(z) = k /\ Number(z) = 0 /\ \A i \in 1..k : z[i] = 0
    BY NumberZeros DEF Zeros
  <1>4. Power(j) = Number(s) /\ Power(j + k) = Number(r)
    BY DEF Power, OneZeros
  <1> HIDE DEF s, z, r
  <1>5. r = s \o z
    <2>1. \A i \in 1..Len(s) : r[i] = s[i]
      BY <1>1, <1>2
    <2>2. \A i \in 1..Len(z) : r[Len(s) + i] = z[i]
      <3> SUFFICES ASSUME NEW i \in 1..k PROVE r[(j + 1) + i] = z[i]
        BY <1>1, <1>3
      <3>1. (j + 1) + i \in 1..(j + k + 1) /\ (j + 1) + i # 1
        OBVIOUS
      <3> QED
        BY <1>2, <1>3, <3>1
    <2>3. Len(r) = Len(s) + Len(z)
      BY <1>1, <1>2, <1>3
    <2>4. s \in Seq(Nat) /\ z \in Seq(Nat) /\ r \in Seq(Nat)
      BY <1>1, <1>2, <1>3
    <2> QED
      BY <2>1, <2>2, <2>3, <2>4, ConcatIs
  <1>6. Number(r) = Number(s) * Power(Len(z)) + Number(z)
    BY <1>1, <1>3, <1>5, NumberConcat
  <1>7. Number(s) * Power(k) \in Nat
    <2>1. Number(s) \in Nat /\ Power(k) \in Nat
      BY <1>1, NumberNat, PowerRule
    <2> QED
      BY <2>1
  <1> QED
    BY <1>3, <1>4, <1>6, <1>7

LEMMA NumberBound == \A s \in Seq(Digit) : s \in Seq(Nat) /\ Number(s) < Power(Len(s))
  <1> SUFFICES ASSUME NEW s \in Seq(Digit) PROVE s \in Seq(Nat) /\ Number(s) < Power(Len(s))
    OBVIOUS
  <1>1. s \in Seq(Nat) /\ \A i \in 1..Len(s) : s[i] \in Nat /\ s[i] <= Base - 1
    <2>1. Digit \subseteq Nat
      BY BaseInt DEF Digit
    <2>2. \A i \in 1..Len(s) : s[i] \in Digit
      OBVIOUS
    <2> QED
      BY <2>1, <2>2, BaseInt DEF Digit
  <1>2. PICK f : Values(f, s) /\ Number(s) = f[Len(s)]
    BY <1>1, ValuesExist
  <1> DEFINE Bad == {n \in Nat : n <= Len(s) /\ ~(f[n] < Power(n))}
  <1>3. Len(s) \in Nat
    OBVIOUS
  <1>4. Bad = {}
    <2> SUFFICES ASSUME Bad # {} PROVE FALSE
      OBVIOUS
    <2>1. PICK n \in Bad : \A m \in Bad : n <= m
      <3>1. Bad \in SUBSET Nat
        OBVIOUS
      <3> HIDE DEF Bad
      <3> QED
        BY <3>1, LeastNumber
    <2>2. n # 0
      <3>1. f[0] = 0
        BY <1>2 DEF Values
      <3>2. Power(0) = 1
        BY PowerRule
      <3> QED
        BY <2>1, <3>1, <3>2
    <2>3. n - 1 \in Nat /\ n - 1 <= Len(s) /\ n \in 1..Len(s) /\ n - 1 \notin Bad /\ (n - 1) + 1 = n
      <3>1. n \in Nat /\ n <= Len(s) /\ n \in Bad
        BY <2>1
      <3> HIDE DEF Bad
      <3> QED
        BY <1>3, <2>1, <2>2, <3>1
    <2> DEFINE x == f[n - 1]
               P == Power(n - 1)
    <2>4. x < P
      BY <2>3
    <2>5. f[n] = x * Base + s[n] /\ x \in Nat
      BY <1>2, <2>3 DEF Values
    <2>6. Power(n) = P * Base /\ P \in Nat
      BY <2>3, PowerRule
    <2>7. s[n] \in Nat /\ s[n] <= Base - 1
      BY <1>1, <2>3
    <2> HIDE DEF x, P
    <2>8. (x + 1) * Base <= P * Base
      <3>1. \A a, b, c \in Nat : a <= b => a * c <= b * c
        OBVIOUS
      <3>2. x + 1 \in Nat /\ x + 1 <= P
        BY <2>4, <2>5, <2>6
      <3> QED
        BY <2>6, <3>1, <3>2, BaseInt
    <2>9. (x + 1) * Base = x * Base + Base /\ x * Base \in Int /\ P * Base \in Int
      BY <2>5, <2>6, BaseInt
    <2>10. f[n] < Power(n)
      BY <2>5, <2>6, <2>7, <2>8, <2>9, BaseInt
    <2> QED
      BY <2>1, <2>10
  <1> QED
    BY <1>1, <1>2, <1>3, <1>4

(* Quotients.                                                              *)
LEMMA QuotientIs ==
  ASSUME NEW x \in Nat, NEW d \in Nat, d > 0, NEW q \in Nat, NEW r \in Nat,
         x = q * d + r, r < d
  PROVE  x \div d = q
  OBVIOUS

-----------------------------------------------------------------------------
(* The parsers.                                                            *)

Text(t) ==
  /\ t.whole \in Seq(Digit) /\ t.frac \in Seq(Digit)
  /\ t.sign \in {"none", "plus", "minus"} /\ t.point \in BOOLEAN /\ t.junk \in BOOLEAN

(* The fraction cut or filled up is the fraction scaled.                   *)
LEMMA ScaledNumber ==
  ASSUME NEW s \in Seq(Digit)
  PROVE  /\ Scaled(s) \in Seq(Nat) /\ Number(Scaled(s)) \in Nat
         /\ Len(s) <= Scale => Number(Scaled(s)) = Number(s) * Power(Scale - Len(s))
         /\ Len(s) > Scale => \E r \in Nat :
              /\ r < Power(Len(s) - Scale)
              /\ Number(s) = Number(Scaled(s)) * Power(Len(s) - Scale) + r
  <1> DEFINE L == Len(s)
             c == Scaled(s)
  <1>1. /\ L \in Nat /\ Scale \in Nat /\ s \in Seq(Nat) /\ Number(s) \in Nat
        /\ \A i \in 1..L : s[i] \in Nat
    <2>1. s \in Seq(Nat)
      BY NumberBound
    <2> QED
      BY <2>1, BaseInt, NumberNat
  <1>2. c = [i \in 1..Scale |-> IF i <= L THEN s[i] ELSE 0]
    BY DEF Scaled
  <1> HIDE DEF L
  <1>3. \A i \in 1..Scale : (IF i <= L THEN s[i] ELSE 0) \in Nat
    <2> SUFFICES ASSUME NEW i \in 1..Scale, i <= L PROVE s[i] \in Nat
      OBVIOUS
    <2>1. i \in 1..L
      BY <1>1
    <2> QED
      BY <1>1, <2>1
  <1>4. c \in Seq(Nat) /\ Len(c) = Scale /\ \A i \in 1..Scale : c[i] = IF i <= L THEN s[i] ELSE 0
    BY <1>1, <1>2, <1>3
  <1> HIDE DEF c
  <1>5. CASE L <= Scale
    <2> DEFINE k == Scale - L
               z == Zeros(k)
               e == s \o z
    <2>1. k \in Nat /\ L + k = Scale
      BY <1>1, <1>5
    <2>2. z \in Seq(Nat) /\ Len(z) = k /\ Number(z) = 0 /\ \A i \in 1..k : z[i] = 0
      <3> HIDE DEF k
      <3> QED
        BY <2>1, NumberZeros DEF Zeros
    <2>3. Number(e) = Number(s) * Power(k) + Number(z)
      <3> HIDE DEF z, k
      <3> QED
        BY <1>1, <2>2, NumberConcat
    <2> HIDE DEF z, k
    <2>7. c = e
      <3>1. Len(s) = L /\ Len(c) = L + k
        BY <1>4, <2>1 DEF L
      <3>2. \A i \in 1..L : c[i] = s[i]
        BY <1>1, <1>4, <1>5
      <3>3. \A i \in 1..k : c[L + i] = z[i]
        BY <1>1, <1>4, <2>1, <2>2
      <3> QED
        BY <1>1, <1>4, <2>2, <3>1, <3>2, <3>3, ConcatIs
    <2>8. Power(k) \in Nat
      BY <2>1, PowerRule
    <2>9. Number(s) * Power(k) \in Nat
      BY <1>1, <2>8
    <2>10. Number(c) = Number(s) * Power(k)
      BY <2>2, <2>3, <2>7, <2>9
    <2>11. Number(c) \in Nat
      BY <2>9, <2>10
    <2> QED
      BY <1>1, <1>4, <1>5, <2>10, <2>11 DEF k, L, c
  <1>6. CASE L > Scale
    <2> DEFINE k == L - Scale
               b == SubSeq(s, Scale + 1, L)
               e == c \o b
    <2>1. k \in Nat /\ Scale + k = L
      BY <1>1, <1>6
    <2>2. b \in Seq(Digit) /\ Len(b) = k /\ \A i \in 1..k : b[i] = s[i + Scale]
      BY <1>1, <1>6 DEF L
    <2> HIDE DEF k, b
    <2>3. b \in Seq(Nat) /\ Number(b) < Power(k) /\ Number(b) \in Nat
      BY <2>2, NumberBound, NumberNat
    <2>4. Number(e) = Number(c) * Power(k) + Number(b)
      BY <1>4, <2>2, <2>3, NumberConcat
    <2>8. s = e
      <3>1. Len(s) = L /\ Len(s) = Len(c) + Len(b)
        BY <1>4, <2>1, <2>2 DEF L
      <3>2. \A i \in 1..Scale : s[i] = c[i]
        BY <1>1, <1>4, <1>6
      <3>3. \A i \in 1..k : s[Scale + i] = b[i]
        BY <1>1, <2>2
      <3> QED
        BY <1>1, <1>4, <2>2, <2>3, <3>1, <3>2, <3>3, ConcatIs
    <2>9. Number(c) \in Nat
      BY <1>4, NumberNat
    <2>10. Number(s) = Number(c) * Power(k) + Number(b)
      BY <2>4, <2>8
    <2>11. \E r \in Nat : r < Power(k) /\ Number(s) = Number(c) * Power(k) + r
      BY <2>3, <2>10
    <2>12. ~(L <= Scale)
      BY <1>1, <1>6
    <2> QED
      BY <1>4, <2>9, <2>11, <2>12 DEF k, L, c
  <1> QED
    BY <1>1, <1>5, <1>6

LEMMA MeaningIs ==
  ASSUME NEW t, Text(t)
  PROVE  /\ Meaning(t) \in Nat
         /\ Number(t.whole) \in Nat /\ Number(t.whole) <= Meaning(t)
         /\ Meaning(t) = Number(t.whole) * Power(Scale) + Number(Scaled(t.frac))
  <1> DEFINE w == t.whole
             s == t.frac
             L == Len(s)
             W == Number(w)
             F == Number(s)
             C == Number(Scaled(s))
             P == Power(Scale)
             PL == Power(L)
  <1>1. w \in Seq(Digit) /\ s \in Seq(Digit)
    BY DEF Text
  <1>2. /\ w \in Seq(Nat) /\ s \in Seq(Nat) /\ L \in Nat /\ Scale \in Nat
        /\ W \in Nat /\ F \in Nat /\ C \in Nat
    BY <1>1, NumberBound, NumberNat, ScaledNumber, BaseInt
  <1>3. P \in Nat /\ P > 0 /\ PL \in Nat /\ PL > 0
    BY <1>2, PowerPositive
  <1>4. Number(w \o s) = W * PL + F
    BY <1>2, NumberConcat
  <1>5. Meaning(t) = ((W * PL + F) * P) \div PL
    BY <1>4 DEF Meaning
  <1>6. ASSUME L <= Scale PROVE Meaning(t) = W * P + C
    <2> DEFINE k == Scale - L
               Q == Power(k)
    <2>1. k \in Nat /\ L + k = Scale
      BY <1>2, <1>6
    <2>2. Q \in Nat /\ P = PL * Q
      <3> HIDE DEF k
      <3> QED
        BY <1>2, <2>1, PowerSum, PowerRule
    <2>3. C = F * Q
      BY <1>1, <1>6, ScaledNumber
    <2> HIDE DEF W, F, C, P, PL, Q
    <2>4. (W * PL + F) * P = (W * P + C) * PL + 0
      <3>1. \A a, b, c, d \in Nat : (a * b + c) * (b * d) = (a * (b * d) + c * d) * b + 0
        OBVIOUS
      <3> QED
        BY <1>2, <1>3, <2>2, <2>3, <3>1
    <2>5. W * P + C \in Nat /\ (W * PL + F) * P \in Nat
      <3>1. \A a, b, c \in Nat : a * b + c \in Nat /\ a * b \in Nat
        OBVIOUS
      <3> QED
        BY <1>2, <1>3, <3>1
    <2>6. ((W * PL + F) * P) \div PL = W * P + C
      BY <1>3, <2>4, <2>5, QuotientIs
    <2> QED
      BY <1>5, <2>6
  <1>7. ASSUME L > Scale PROVE Meaning(t) = W * P + C
    <2> DEFINE k == L - Scale
               Q == Power(k)
    <2>1. k \in Nat /\ Scale + k = L
      BY <1>2, <1>7
    <2>2. Q \in Nat /\ PL = P * Q
      <3> HIDE DEF k
      <3> QED
        BY <1>2, <2>1, PowerSum, PowerRule
    <2>3. PICK r \in Nat : r < Q /\ F = C * Q + r
      BY <1>1, <1>7, ScaledNumber
    <2> HIDE DEF W, F, C, P, PL, Q
    <2>4. (W * PL + F) * P = (W * P + C) * PL + r * P
      <3>1. \A a, b, c, d, e \in Nat :
              (a * (b * d) + (c * d + e)) * b = (a * b + c) * (b * d) + e * b
        OBVIOUS
      <3> QED
        BY <1>2, <1>3, <2>2, <2>3, <3>1
    <2>5. W * P + C \in Nat /\ (W * PL + F) * P \in Nat /\ r * P \in Nat
      <3>1. \A a, b, c \in Nat : a * b + c \in Nat /\ a * b \in Nat
        OBVIOUS
      <3> QED
        BY <1>2, <1>3, <3>1
    <2>6. r * P < PL
      <3>1. \A a, b, c \in Nat : a < b /\ c > 0 => a * c < c * b
        OBVIOUS
      <3> QED
        BY <1>3, <2>2, <2>3, <3>1
    <2>7. ((W * PL + F) * P) \div PL = W * P + C
      BY <1>3, <2>4, <2>5, <2>6, QuotientIs
    <2> QED
      BY <1>5, <2>7
  <1>8. Meaning(t) = W * P + C
    BY <1>2, <1>6, <1>7
  <1>9. W * P + C \in Nat /\ W <= W * P + C
    <2>1. \A a, b, c \in Nat : b > 0 => a * b + c \in Nat /\ a <= a * b + c
      OBVIOUS
    <2> HIDE DEF W, F, C, P, PL
    <2> QED
      BY <1>2, <1>3, <2>1
  <1> QED
    BY <1>2, <1>8, <1>9

(* What is read apart into a decimal is what it states, or refused.        *)
LEMMA DecimalReads ==
  ASSUME NEW t, Text(t)
  PROVE  /\ Decimal(t) = Reads(IsDecimal(t), Meaning(t), 0)
         /\ parse_price_to_precision(t) = Reads(IsDecimal(t), Meaning(t), 1)
  <1> DEFINE m == Number(t.whole) * Power(Scale) + Number(Scaled(t.frac))
  <1>1. /\ m \in Nat /\ Number(t.whole) \in Nat /\ Number(t.whole) <= m /\ Meaning(t) = m
        /\ MaxInt \in Nat
    BY MeaningIs, BaseInt
  <1>2. Decimal(t) = IF ~IsDecimal(t) \/ Number(t.whole) > MaxInt THEN Invalid
                     ELSE IF m > MaxInt THEN Invalid ELSE m
    BY DEF Decimal, IsDecimal
  <1> HIDE DEF m
  <1>3. Decimal(t) = Reads(IsDecimal(t), Meaning(t), 0)
    BY <1>1, <1>2 DEF Reads
  <1>4. parse_price_to_precision(t) = Reads(IsDecimal(t), Meaning(t), 1)
    BY <1>1, <1>3 DEF Reads, Invalid, parse_price_to_precision
  <1> QED
    BY <1>3, <1>4

LEMMA IntegerReads ==
  ASSUME NEW t, Text(t)
  PROVE  /\ Number(t.whole) \in Nat
         /\ ParseInt(t) \in Int
         /\ IsInteger(t) /\ Number(t.whole) <= MaxInt => ParseInt(t) = Number(t.whole)
         /\ ~(IsInteger(t) /\ Number(t.whole) <= MaxInt) => ParseInt(t) < 0
         /\ fixed_price(t) = Reads(IsInteger(t), Number(t.whole), 1)
  <1>1. Number(t.whole) \in Nat /\ MaxInt \in Nat
    BY MeaningIs, BaseInt
  <1>2. /\ ParseInt(t) \in Int
        /\ IsInteger(t) /\ Number(t.whole) <= MaxInt => ParseInt(t) = Number(t.whole)
        /\ ~(IsInteger(t) /\ Number(t.whole) <= MaxInt) => ParseInt(t) < 0
    BY <1>1 DEF ParseInt, IsInteger, Invalid
  <1>3. fixed_price(t) = Reads(IsInteger(t), Number(t.whole), 1)
    BY <1>1, <1>2 DEF fixed_price, Reads, Invalid
  <1> QED
    BY <1>1, <1>2, <1>3

(* The Pyth source scales by what the exponent leaves of Scale.            *)
PythMeaning(n, expo) == (n * Power(Scale)) \div Power(-expo)

LEMMA PythScale ==
  ASSUME NEW n \in Nat, NEW expo \in (-Scale)..0
  PROVE  /\ Power(Scale + expo) \in Nat /\ Power(Scale + expo) > 0
         /\ PythMeaning(n, expo) = n * Power(Scale + expo)
         /\ n * Power(Scale + expo) \in Nat /\ n <= n * Power(Scale + expo)
  <1> DEFINE j == Scale + expo
             k == -expo
             Q == Power(j)
             R == Power(k)
  <1>1. j \in Nat /\ k \in Nat /\ j + k = Scale
    BY BaseInt
  <1>2. /\ Power(j) \in Nat /\ Power(j) > 0 /\ Power(k) \in Nat /\ Power(k) > 0
        /\ Power(Scale) = Power(j) * Power(k)
    <2> HIDE DEF j, k
    <2> QED
      BY <1>1, PowerPositive, PowerSum
  <1> HIDE DEF Q, R
  <1>3. Q \in Nat /\ Q > 0 /\ R \in Nat /\ R > 0 /\ Power(Scale) = Q * R
    BY <1>2 DEF Q, R
  <1>4. n * Q \in Nat /\ n <= n * Q /\ n * (Q * R) = (n * Q) * R + 0 /\ n * (Q * R) \in Nat
    <2>1. \A a, b, c \in Nat : b > 0 =>
            a * b \in Nat /\ a <= a * b /\ a * (b * c) = (a * b) * c + 0 /\ a * (b * c) \in Nat
      OBVIOUS
    <2> QED
      BY <1>3, <2>1
  <1>5. (n * (Q * R)) \div R = n * Q
    BY <1>3, <1>4, QuotientIs
  <1> QED
    BY <1>3, <1>4, <1>5 DEF PythMeaning, Q, R

LEMMA PythNormal ==
  ASSUME NEW t, Text(t), NEW expo \in Int
  PROVE  LET n == Number(t.whole)
             p == normalize_pyth_price(t, expo)
         IN  /\ IsInteger(t) /\ expo \in (-Scale)..0 /\ n * Power(Scale + expo) <= MaxInt
                  => p = n * Power(Scale + expo)
             /\ ~(IsInteger(t) /\ expo \in (-Scale)..0 /\ n * Power(Scale + expo) <= MaxInt)
                  => p = Invalid
  <1> DEFINE n == Number(t.whole)
             Q == Power(Scale + expo)
             v == ParseInt(t)
  <1>1. /\ n \in Nat /\ MaxInt \in Nat /\ v \in Int
        /\ IsInteger(t) /\ n <= MaxInt => v = n
        /\ ~(IsInteger(t) /\ n <= MaxInt) => v < 0
    BY IntegerReads, BaseInt
  <1>2. expo \in (-Scale)..0 => Q \in Nat /\ n * Q \in Nat /\ n <= n * Q
    BY <1>1, PythScale
  <1>3. normalize_pyth_price(t, expo) =
          IF expo \notin (-Scale)..0 \/ v < 0 THEN Invalid
          ELSE IF v * Q > MaxInt THEN Invalid ELSE v * Q
    BY DEF normalize_pyth_price
  <1> HIDE DEF n, Q, v
  <1> SUFFICES
        /\ IsInteger(t) /\ expo \in (-Scale)..0 /\ n * Q <= MaxInt
             => normalize_pyth_price(t, expo) = n * Q
        /\ ~(IsInteger(t) /\ expo \in (-Scale)..0 /\ n * Q <= MaxInt)
             => normalize_pyth_price(t, expo) = Invalid
    BY DEF n, Q
  <1>4. CASE expo \notin (-Scale)..0
    BY <1>3, <1>4
  <1>5. CASE expo \in (-Scale)..0 /\ ~(IsInteger(t) /\ n <= MaxInt)
    <2>1. v < 0 /\ n * Q \in Nat /\ n <= n * Q
      BY <1>1, <1>2, <1>5
    <2>2. normalize_pyth_price(t, expo) = Invalid
      BY <1>3, <2>1
    <2>3. ~(IsInteger(t) /\ n * Q <= MaxInt)
      BY <1>1, <1>5, <2>1
    <2> QED
      BY <2>2, <2>3
  <1>6. CASE expo \in (-Scale)..0 /\ IsInteger(t) /\ n <= MaxInt
    <2>1. v = n /\ n * Q \in Nat /\ ~(v < 0)
      BY <1>1, <1>2, <1>6
    <2>2. normalize_pyth_price(t, expo) = IF n * Q > MaxInt THEN Invalid ELSE n * Q
      BY <1>3, <1>6, <2>1
    <2> QED
      BY <1>1, <1>6, <2>1, <2>2
  <1> QED
    BY <1>4, <1>5, <1>6

(* The width of the confidence interval is compared after scaling; what it *)
(* was scaled by falls out.                                                *)
LEMMA PythTight ==
  ASSUME NEW n \in Nat, NEW c \in Nat, NEW Q \in Nat, Q > 0, n * Q <= MaxInt
  PROVE  /\ (c * Q) * 10000 <= MaxConfidence * (n * Q) <=> c * 10000 <= MaxConfidence * n
         /\ c * 10000 <= MaxConfidence * n => c * Q <= MaxInt
  <1>1. MaxConfidence \in Nat /\ MaxConfidence <= 10000 /\ MaxInt \in Nat
    BY ClockAssumption, BaseInt
  <1> DEFINE a == c * 10000
             b == MaxConfidence * n
  <1>2. a \in Nat /\ b \in Nat
    BY <1>1
  <1>3. (c * Q) * 10000 = a * Q /\ MaxConfidence * (n * Q) = b * Q
    <2>1. \A x, y, z \in Nat : (x * y) * 10000 = (x * 10000) * y /\ z * (x * y) = (z * x) * y
      OBVIOUS
    <2> QED
      BY <1>1, <2>1
  <1>4. \A x, y, z \in Nat : z > 0 => (x * z <= y * z <=> x <= y)
    OBVIOUS
  <1>5. a <= b => c <= n
    <2>1. \A x, y, z \in Nat : z <= y => z * x <= y * x
      OBVIOUS
    <2>2. b <= 10000 * n
      BY <1>1, <2>1
    <2> QED
      BY <1>2, <2>2
  <1>6. c <= n => c * Q <= n * Q
    BY <1>4
  <1>7. c * Q \in Nat /\ n * Q \in Nat
    OBVIOUS
  <1>8. a * Q <= b * Q <=> a <= b
    <2> HIDE DEF a, b
    <2> QED
      BY <1>2, <1>4
  <1> QED
    BY <1>1, <1>3, <1>5, <1>6, <1>7, <1>8

PythReply(r) ==
  /\ Text(r.price) /\ Text(r.conf.text)
  /\ r.expo \in Int /\ r.publish_time \in Int /\ r.conf.set \in BOOLEAN

PythReadable(r) ==
  /\ IsInteger(r.price) /\ r.expo \in (-Scale)..0
  /\ r.publish_time >= 0
  /\ r.publish_time >= Now - StaleAfter /\ r.publish_time <= Now + Skew
  /\ r.conf.set =>
       /\ IsInteger(r.conf.text)
       /\ Number(r.conf.text.whole) * 10000 <= MaxConfidence * Number(r.price.whole)

LEMMA PythReads ==
  ASSUME NEW r, PythReply(r)
  PROVE  validate_pyth_price(r) =
           Reads(PythReadable(r), PythMeaning(Number(r.price.whole), r.expo), 1)
  <1> DEFINE n == Number(r.price.whole)
             c == Number(r.conf.text.whole)
             Q == Power(Scale + r.expo)
             price == normalize_pyth_price(r.price, r.expo)
             conf == normalize_pyth_price(r.conf.text, r.expo)
             InTime == /\ r.publish_time >= 0
                       /\ r.publish_time >= Now - StaleAfter /\ r.publish_time <= Now + Skew
             Fresh == /\ r.publish_time \in 0..(Now + Skew)
                      /\ Now - r.publish_time <= StaleAfter
             Tight == conf # Invalid /\ conf * 10000 <= MaxConfidence * price
             Sure == IsInteger(r.conf.text) /\ c * 10000 <= MaxConfidence * n
             InScale == r.expo \in (-Scale)..0
             InRange == IsInteger(r.price) /\ InScale /\ n * Q <= MaxInt
  <1>1. /\ Text(r.price) /\ Text(r.conf.text)
        /\ r.expo \in Int /\ r.publish_time \in Int /\ r.conf.set \in BOOLEAN
    BY DEF PythReply
  <1>2. n \in Nat /\ c \in Nat /\ MaxInt \in Nat
    BY <1>1, IntegerReads, BaseInt
  <1>3. InScale => /\ Q \in Nat /\ Q > 0 /\ n * Q \in Nat /\ c * Q \in Nat /\ n <= n * Q
                   /\ PythMeaning(n, r.expo) = n * Q
    BY <1>2, PythScale
  <1>4. (InRange => price = n * Q) /\ (~InRange => price = Invalid)
    BY <1>1, PythNormal
  <1>5. /\ IsInteger(r.conf.text) /\ InScale /\ c * Q <= MaxInt => conf = c * Q
        /\ ~(IsInteger(r.conf.text) /\ InScale /\ c * Q <= MaxInt) => conf = Invalid
    BY <1>1, PythNormal
  <1>6. Fresh <=> InTime
    <2>1. Skew \in Nat /\ StaleAfter \in Nat /\ Now \in Nat
      BY ClockAssumption
    <2> QED
      BY <1>1, <2>1
  <1>7. validate_pyth_price(r) = IF price > 0 /\ Fresh /\ (r.conf.set => Tight) THEN price ELSE Invalid
    BY DEF validate_pyth_price
  <1>8. PythReadable(r) <=> IsInteger(r.price) /\ InScale /\ InTime /\ (r.conf.set => Sure)
    BY DEF PythReadable
  <1>9. CASE ~InRange
    <2>1. validate_pyth_price(r) = Invalid
      <3>1. price = Invalid
        BY <1>4, <1>9
      <3> HIDE DEF price
      <3>2. ~(price > 0)
        BY <3>1 DEF Invalid
      <3> QED
        BY <1>7, <3>1, <3>2
    <2>2. ~(PythReadable(r) /\ PythMeaning(n, r.expo) \in 1..MaxInt)
      <3> SUFFICES ASSUME PythReadable(r), PythMeaning(n, r.expo) \in 1..MaxInt PROVE FALSE
        OBVIOUS
      <3>1. IsInteger(r.price) /\ InScale
        BY <1>8
      <3>2. n * Q <= MaxInt
        BY <1>3, <3>1
      <3> QED
        BY <1>9, <3>1, <3>2
    <2> HIDE DEF n
    <2> QED
      BY <2>1, <2>2 DEF Reads, n
  <1>10. CASE InRange
    <2>1. /\ InScale /\ IsInteger(r.price) /\ n * Q <= MaxInt /\ price = n * Q
          /\ Q \in Nat /\ Q > 0 /\ PythMeaning(n, r.expo) = n * Q /\ n * Q \in Nat /\ c * Q \in Nat
      BY <1>3, <1>4, <1>10
    <2>2. /\ (c * Q) * 10000 <= MaxConfidence * (n * Q) <=> c * 10000 <= MaxConfidence * n
          /\ c * 10000 <= MaxConfidence * n => c * Q <= MaxInt
      <3> HIDE DEF n, c, Q
      <3> QED
        BY <1>2, <2>1, PythTight
    <2>3. Tight <=> Sure
      <3>1. CASE IsInteger(r.conf.text) /\ c * Q <= MaxInt
        <4>1. conf = c * Q
          BY <1>5, <2>1, <3>1
        <4>2. c * Q # Invalid
          BY <2>1 DEF Invalid
        <4> HIDE DEF n, c, Q, price, conf
        <4> QED
          BY <2>1, <2>2, <3>1, <4>1, <4>2
      <3>2. CASE ~(IsInteger(r.conf.text) /\ c * Q <= MaxInt)
        <4>1. conf = Invalid
          BY <1>5, <3>2
        <4>2. ~Sure
          BY <2>2, <3>2
        <4> QED
          BY <4>1, <4>2
      <3> QED
        BY <3>1, <3>2
    <2>4. PythReadable(r) <=> Fresh /\ (r.conf.set => Tight)
      BY <1>6, <1>8, <2>1, <2>3
    <2> HIDE DEF n, c, Q, price, conf, Fresh, Tight, Sure
    <2>5. validate_pyth_price(r) = IF n * Q > 0 /\ PythReadable(r) THEN n * Q ELSE Invalid
      BY <1>7, <2>1, <2>4
    <2>6. n * Q > 0 <=> n * Q \in 1..MaxInt
      BY <1>2, <2>1
    <2>7. validate_pyth_price(r) = Reads(PythReadable(r), PythMeaning(n, r.expo), 1)
      BY <2>1, <2>5, <2>6 DEF Reads
    <2> QED
      BY <2>7 DEF n
  <1> QED
    BY <1>9, <1>10

LEMMA BoundedIsSeq == \A S : \A n : \A s \in BoundedSeq(S, n) : s \in Seq(S)
  <1> SUFFICES ASSUME NEW S, NEW n, NEW s \in BoundedSeq(S, n) PROVE s \in Seq(S)
    OBVIOUS
  <1>1. PICK m \in 0..n : s \in [1..m -> S]
    BY DEF BoundedSeq, SeqOf
  <1>2. m \in Nat
    OBVIOUS
  <1> QED
    BY <1>1, <1>2

LEMMA NumeralsAreTexts == \A t \in Numerals : Text(t)
  <1>1. \A n : \A s \in Digits(n) : s \in Seq(Digit)
    BY BoundedIsSeq DEF Digits, Digit
  <1>2. <<>> \in Seq(Digit)
    OBVIOUS
  <1> QED
    BY <1>1, <1>2 DEF Numerals, Text

LEMMA SamplesAreTexts ==
  /\ \A t \in Samples : Text(t)
  /\ Text(Plain(<<1>>, FALSE, <<>>)) /\ Text(Plain(<<0>>, FALSE, <<>>))
  <1>1. <<>> \in Seq(Digit) /\ <<0>> \in Seq(Digit) /\ <<1>> \in Seq(Digit)
    <2>1. 0 \in Digit /\ 1 \in Digit
      BY BaseInt DEF Digit
    <2> QED
      BY <2>1
  <1> QED
    BY <1>1 DEF Samples, Plain, Text

(* The currency that a Coinbase reply must be for is what is named.        *)
Parts == {"A", "USD", "USDT"}

LEMMA CurrencyNamed ==
  ASSUME NEW asked \in Seq(Parts), asked # <<>>, NEW currency \in Seq(Parts), currency # <<>>
  PROVE  currency = base_currency(asked) <=> Names(asked, currency)
  <1> DEFINE n == Len(asked)
             Quoted == n > 1 /\ asked[n] \in {"USD", "USDT"}
  <1>1. n \in Nat /\ n > 0 /\ asked[n] \in Parts /\ Len(currency) \in Nat /\ Len(currency) > 0
    OBVIOUS
  <1>2. Last(asked) = asked[n] /\ Front(asked) = SubSeq(asked, 1, n - 1)
    BY DEF Last, Front
  <1>3. CASE Quoted
    <2>1. base_currency(asked) = SubSeq(asked, 1, n - 1)
      BY <1>2, <1>3 DEF base_currency
    <2>2. Names(asked, currency) <=> \E quote \in {"USD", "USDT"} : asked = Append(currency, quote)
      BY <1>2, <1>3 DEF Names
    <2>3. asked = Append(SubSeq(asked, 1, n - 1), asked[n])
      BY <1>3
    <2>4. ASSUME NEW quote, asked = Append(currency, quote) PROVE currency = SubSeq(asked, 1, n - 1)
      <3>1. n = Len(currency) + 1 /\ \A i \in 1..Len(currency) : asked[i] = currency[i]
        BY <2>4
      <3>2. n - 1 = Len(currency)
        BY <1>1, <3>1
      <3> DEFINE f == SubSeq(asked, 1, n - 1)
      <3>3. f \in Seq(Parts) /\ Len(f) = n - 1 /\ \A i \in 1..(n - 1) : f[i] = asked[i]
        <4>1. \A m \in Nat : m <= n =>
                /\ SubSeq(asked, 1, m) \in Seq(Parts) /\ Len(SubSeq(asked, 1, m)) = m
                /\ \A i \in 1..m : SubSeq(asked, 1, m)[i] = asked[i]
          OBVIOUS
        <4>2. n - 1 \in Nat /\ n - 1 <= n
          BY <1>1
        <4> QED
          BY <4>1, <4>2
      <3> HIDE DEF f
      <3>4. f = currency
        BY <3>1, <3>2, <3>3
      <3> QED
        BY <3>4 DEF f
    <2> QED
      BY <1>3, <2>1, <2>2, <2>3, <2>4
  <1>4. CASE ~Quoted
    <2>1. base_currency(asked) = asked
      BY <1>2, <1>4 DEF base_currency
    <2>2. n = 1 \/ asked[n] = "A"
      <3>1. asked[n] = "A" \/ asked[n] = "USD" \/ asked[n] = "USDT"
        BY <1>1 DEF Parts
      <3>2. n > 1 \/ n = 1
        <4> HIDE DEF n
        <4> QED
          BY <1>1
      <3> QED
        BY <1>4, <3>1, <3>2
    <2>3. ASSUME NEW quote \in {"USD", "USDT"} PROVE asked # Append(currency, quote)
      <3> SUFFICES ASSUME asked = Append(currency, quote) PROVE FALSE
        OBVIOUS
      <3>1. n = Len(currency) + 1 /\ asked[n] = quote
        OBVIOUS
      <3> QED
        BY <1>1, <2>2, <3>1
    <2> QED
      BY <1>2, <2>1, <2>2, <2>3 DEF Names
  <1> QED
    BY <1>3, <1>4

LEMMA LeastIndex == \A S \in SUBSET Nat : S # {} => Min(S) \in S
  <1> SUFFICES ASSUME NEW S \in SUBSET Nat, S # {} PROVE Min(S) \in S
    OBVIOUS
  <1>1. \E x \in S : \A y \in S : x =< y
    BY LeastNumber
  <1> QED
    BY <1>1 DEF Min

(* A batch is read entry by entry.                                         *)
LEMMA BatchReads ==
  ASSUME NEW asked \in Seq(Symbols), NEW entries \in Seq(TickerEntries)
  PROVE  LET counting == UNION {FirstEntry(entries, s) : s \in Range(asked)}
             batch == TickerPrices(asked, entries)
         IN  IF \A e \in counting : Stated(e) # Invalid
             THEN /\ batch.st = "ok"
                  /\ Range(batch.prices) = {<<e.symbol, Stated(e)>> : e \in counting}
             ELSE batch = Failed
  <1> DEFINE Places(s) == {n \in DOMAIN entries : entries[n].symbol = s}
             counting == UNION {FirstEntry(entries, s) : s \in Range(asked)}
             batch == TickerPrices(asked, entries)
             present == {n \in DOMAIN asked : Places(asked[n]) # {}}
             entry(n) == entries[Min(Places(asked[n]))]
             price(n) == parse_price_to_precision(entry(n).text)
             list == [n \in present |-> <<asked[n], price(n)>>]
  <1>1. ASSUME NEW s, Places(s) # {} PROVE Min(Places(s)) \in Places(s)
    <2>1. Places(s) \in SUBSET Nat
      OBVIOUS
    <2> QED
      BY <1>1, <2>1, LeastIndex
  <1>2. \A n \in present :
          entry(n) \in TickerEntries /\ entry(n).symbol = asked[n] /\ price(n) = Stated(entry(n))
    <2> SUFFICES ASSUME NEW n \in present
                 PROVE  entry(n) \in TickerEntries /\ entry(n).symbol = asked[n]
                        /\ price(n) = Stated(entry(n))
      OBVIOUS
    <2>1. Min(Places(asked[n])) \in Places(asked[n])
      BY <1>1
    <2>2. entry(n) \in TickerEntries /\ entry(n).symbol = asked[n]
      BY <2>1
    <2> HIDE DEF entry
    <2>3. Text(entry(n).text)
      BY <2>2, SamplesAreTexts DEF TickerEntries
    <2> QED
      BY <2>2, <2>3, DecimalReads DEF Stated
  <1>3. counting = {entry(n) : n \in present}
    <2>1. \A s : FirstEntry(entries, s) = IF Places(s) = {} THEN {} ELSE {entries[Min(Places(s))]}
      BY DEF FirstEntry
    <2>2. Range(asked) = {asked[n] : n \in DOMAIN asked}
      BY DEF Range
    <2>3. \A n : n \in present <=> n \in DOMAIN asked /\ Places(asked[n]) # {}
      OBVIOUS
    <2>4. \A n : entry(n) = entries[Min(Places(asked[n]))]
      OBVIOUS
    <2> HIDE DEF Places, present, entry
    <2>5. ASSUME NEW e \in counting PROVE e \in {entry(n) : n \in present}
      <3>1. PICK n \in DOMAIN asked : e \in FirstEntry(entries, asked[n])
        BY <2>2
      <3>2. Places(asked[n]) # {} /\ e = entries[Min(Places(asked[n]))]
        BY <2>1, <3>1
      <3> QED
        BY <2>3, <2>4, <3>2
    <2>6. ASSUME NEW n \in present PROVE entry(n) \in counting
      <3>1. entry(n) \in FirstEntry(entries, asked[n]) /\ asked[n] \in Range(asked)
        BY <2>1, <2>2, <2>3, <2>4
      <3> QED
        BY <3>1
    <2> HIDE DEF counting
    <2> QED
      BY <2>5, <2>6
  <1>4. batch = IF \E n \in present : price(n) = Invalid THEN Failed ELSE Priced(list)
    BY DEF TickerPrices
  <1>5. Range(list) = {<<asked[n], price(n)>> : n \in present}
    <2> HIDE DEF present, price
    <2> QED
      BY DEF Range
  <1> HIDE DEF counting, batch, present, entry, price, list
  <1>6. (\A e \in counting : Stated(e) # Invalid) <=> ~\E n \in present : price(n) = Invalid
    BY <1>2, <1>3
  <1>7. {<<e.symbol, Stated(e)>> : e \in counting} = {<<asked[n], price(n)>> : n \in present}
    BY <1>2, <1>3
  <1>8. IF \A e \in counting : Stated(e) # Invalid
        THEN /\ batch.st = "ok"
             /\ Range(batch.prices) = {<<e.symbol, Stated(e)>> : e \in counting}
        ELSE batch = Failed
    BY <1>4, <1>5, <1>6, <1>7 DEF Priced
  <1> QED
    BY <1>8 DEF counting, batch

-----------------------------------------------------------------------------
(* The handlers.                                                           *)

ReplyTyped(r) ==
  \/ r.kind = "none"
  \/ r.kind \in {"horizon", "fixed"} /\ Text(r.text)
  \/ /\ r.kind = "coinbase" /\ Text(r.text) /\ r.has_usd \in BOOLEAN
     /\ r.asked \in Seq(Parts) /\ r.asked # <<>>
     /\ r.currency \in Seq(Parts) /\ r.currency # <<>>
  \/ r.kind = "binance" /\ r.asked \in Seq(Symbols) /\ r.entries \in Seq(TickerEntries)
  \/ r.kind = "pyth" /\ PythReply(r)

QuoteInv == ReplyTyped(reply) /\ QuoteExact

LEMMA RepliesTyped == QuoteInit => ReplyTyped(reply) /\ outcome = Waiting
  <1> SUFFICES ASSUME QuoteInit PROVE ReplyTyped(reply) /\ outcome = Waiting
    OBVIOUS
  <1>1. CASE reply \in [kind : {"horizon", "fixed"}, text : Numerals]
    BY <1>1, NumeralsAreTexts DEF ReplyTyped, QuoteInit
  <1>2. /\ {<<"A">>, <<"USD">>, <<"A", "USDT">>} \subseteq Seq(Parts) \ {<<>>}
        /\ <<"A">> # <<>>
    <2>1. /\ <<"A">> \in Seq(Parts) /\ <<"USD">> \in Seq(Parts) /\ <<"A", "USDT">> \in Seq(Parts)
          /\ <<"A">> # <<>> /\ <<"USD">> # <<>> /\ <<"A", "USDT">> # <<>>
      BY DEF Parts
    <2> QED
      BY <2>1
  <1>3. \A s \in BoundedSeq({"A", "USD", "USDT"}, 3) : s \in Seq(Parts)
    BY BoundedIsSeq DEF Parts
  <1>4. CASE reply \in [kind : {"coinbase"}, status : {200, 503}, has_usd : BOOLEAN,
                        asked : BoundedSeq({"A", "USD", "USDT"}, 3) \ {<<>>},
                        currency : {<<"A">>, <<"USD">>, <<"A", "USDT">>}, text : Samples]
    <2>1. /\ reply.kind = "coinbase" /\ reply.has_usd \in BOOLEAN
          /\ reply.asked \in BoundedSeq({"A", "USD", "USDT"}, 3) /\ reply.asked # <<>>
          /\ reply.currency \in {<<"A">>, <<"USD">>, <<"A", "USDT">>} /\ reply.text \in Samples
      BY <1>4
    <2>2. reply.currency \in Seq(Parts) /\ reply.currency # <<>>
      BY <1>2, <2>1
    <2> QED
      BY <1>3, <2>1, <2>2, SamplesAreTexts DEF ReplyTyped, QuoteInit
  <1>5. CASE reply \in [kind : {"coinbase"}, status : {200}, has_usd : {TRUE},
                        asked : {<<"A", "USDT">>}, currency : {<<"A">>}, text : Numerals]
    <2>1. /\ reply.kind = "coinbase" /\ reply.has_usd = TRUE
          /\ reply.asked = <<"A", "USDT">> /\ reply.currency = <<"A">> /\ reply.text \in Numerals
      BY <1>5
    <2>2. /\ reply.currency \in Seq(Parts) /\ reply.currency # <<>>
          /\ reply.asked \in Seq(Parts) /\ reply.asked # <<>>
      BY <1>2, <2>1
    <2> QED
      BY <2>1, <2>2, NumeralsAreTexts DEF ReplyTyped, QuoteInit
  <1>6. CASE reply \in [kind : {"binance"}, status : {200, 503},
                        asked : {<<"A">>, <<"A", "B">>, <<"B", "A">>},
                        entries : BoundedSeq(TickerEntries, 3)]
    <2>1. /\ reply.kind = "binance" /\ reply.asked \in {<<"A">>, <<"A", "B">>, <<"B", "A">>}
          /\ reply.entries \in BoundedSeq(TickerEntries, 3)
      BY <1>6
    <2>2. {<<"A">>, <<"A", "B">>, <<"B", "A">>} \subseteq Seq(Symbols)
      BY DEF Symbols
    <2>3. reply.entries \in Seq(TickerEntries)
      BY <2>1, BoundedIsSeq
    <2> QED
      BY <2>1, <2>2, <2>3 DEF ReplyTyped, QuoteInit
  <1>7. \A t \in Integrals : Text(t)
    BY NumeralsAreTexts DEF Integrals
  <1>8. /\ Scale \in Nat /\ Skew \in Nat /\ StaleAfter \in Nat /\ Now \in Nat
        /\ (-Scale - 1)..1 \subseteq Int /\ {Now - StaleAfter, Now + Skew} \subseteq Int
        /\ {Invalid} \cup 0..(Now + Skew + 1) \subseteq Int
    BY BaseInt, ClockAssumption DEF Invalid
  <1>9. CASE reply \in [kind : {"pyth"}, price : Integrals, expo : (-Scale - 1)..1,
                        conf : [set : BOOLEAN, text : Integrals],
                        publish_time : {Now - StaleAfter, Now + Skew}]
    <2>1. /\ reply.kind = "pyth" /\ reply.price \in Integrals /\ reply.expo \in (-Scale - 1)..1
          /\ reply.conf.set \in BOOLEAN /\ reply.conf.text \in Integrals
          /\ reply.publish_time \in {Now - StaleAfter, Now + Skew}
      BY <1>9
    <2> QED
      BY <1>7, <1>8, <2>1 DEF ReplyTyped, PythReply, QuoteInit
  <1>10. CASE reply \in [kind : {"pyth"}, price : {Plain(<<1>>, FALSE, <<>>)}, expo : {0},
                         conf : [set : {FALSE}, text : {Plain(<<0>>, FALSE, <<>>)}],
                         publish_time : {Invalid} \cup 0..(Now + Skew + 1)]
    <2>1. /\ reply.kind = "pyth" /\ reply.price = Plain(<<1>>, FALSE, <<>>) /\ reply.expo = 0
          /\ reply.conf.set = FALSE /\ reply.conf.text = Plain(<<0>>, FALSE, <<>>)
          /\ reply.publish_time \in {Invalid} \cup 0..(Now + Skew + 1)
      BY <1>10
    <2>2. Text(reply.price) /\ Text(reply.conf.text)
      BY <2>1, SamplesAreTexts
    <2>3. reply.expo \in Int /\ reply.publish_time \in Int /\ reply.conf.set \in BOOLEAN
      <3>1. reply.publish_time \in Int
        BY <1>8, <2>1
      <3>2. reply.expo \in Int
        BY <2>1
      <3>3. reply.conf.set \in BOOLEAN
        BY <2>1
      <3> QED
        BY <3>1, <3>2, <3>3
    <2>4. PythReply(reply)
      BY <2>2, <2>3 DEF PythReply
    <2> QED
      BY <2>1, <2>4 DEF ReplyTyped, QuoteInit
  <1> QED
    BY <1>1, <1>4, <1>5, <1>6, <1>9, <1>10 DEF QuoteInit

LEMMA SingleMeant ==
  ASSUME NEW r, ReplyTyped(r)
  PROVE  /\ r.kind = "horizon" => parse_xlm_balance_to_stroops(r.text) = Meant(r)
         /\ r.kind = "fixed" => fixed_price(r.text) = Meant(r)
         /\ r.kind = "pyth" => validate_pyth_price(r) = Meant(r)
         /\ r.kind = "coinbase" =>
              Single(Meant(r)) =
                IF r.status # 200 \/ r.currency # base_currency(r.asked) \/ ~r.has_usd
                THEN Failed ELSE Single(parse_price_to_precision(r.text))
  <1>1. CASE r.kind = "horizon"
    <2>1. Text(r.text) /\ Meant(r) = Reads(IsDecimal(r.text), Meaning(r.text), 0)
      BY <1>1 DEF ReplyTyped, Meant
    <2> QED
      BY <1>1, <2>1, DecimalReads DEF parse_xlm_balance_to_stroops
  <1>2. CASE r.kind = "fixed"
    <2>1. Text(r.text) /\ Meant(r) = Reads(IsInteger(r.text), Number(r.text.whole), 1)
      BY <1>2 DEF ReplyTyped, Meant
    <2> QED
      BY <1>2, <2>1, IntegerReads
  <1>3. CASE r.kind = "pyth"
    <2>1. PythReply(r)
      BY <1>3 DEF ReplyTyped
    <2>2. Meant(r) = Reads(PythReadable(r), PythMeaning(Number(r.price.whole), r.expo), 1)
      BY <1>3 DEF Meant, PythReadable, PythMeaning
    <2> QED
      BY <1>3, <2>1, <2>2, PythReads
  <1>4. CASE r.kind = "coinbase"
    <2>1. /\ Text(r.text) /\ r.has_usd \in BOOLEAN
          /\ r.asked \in Seq(Parts) /\ r.asked # <<>> /\ r.currency \in Seq(Parts) /\ r.currency # <<>>
      BY <1>4 DEF ReplyTyped
    <2>2. r.currency = base_currency(r.asked) <=> Names(r.asked, r.currency)
      BY <2>1, CurrencyNamed
    <2>3. Meant(r) =
            Reads(IsDecimal(r.text) /\ r.status = 200 /\ r.has_usd /\ Names(r.asked, r.currency),
                  Meaning(r.text), 1)
      BY <1>4 DEF Meant
    <2>4. parse_price_to_precision(r.text) = Reads(IsDecimal(r.text), Meaning(r.text), 1)
      BY <2>1, DecimalReads
    <2>5. CASE r.status # 200 \/ r.currency # base_currency(r.asked) \/ ~r.has_usd
      <3>1. Meant(r) = Invalid
        BY <2>2, <2>3, <2>5 DEF Reads
      <3>2. Single(Meant(r)) = Failed
        BY <3>1 DEF Single
      <3> QED
        BY <1>4, <2>5, <3>2
    <2>6. CASE ~(r.status # 200 \/ r.currency # base_currency(r.asked) \/ ~r.has_usd)
      <3>1. Meant(r) = Reads(IsDecimal(r.text), Meaning(r.text), 1)
        BY <2>2, <2>3, <2>6 DEF Reads
      <3> QED
        BY <1>4, <2>4, <2>6, <3>1
    <2> QED
      BY <2>5, <2>6
  <1> QED
    BY <1>1, <1>2, <1>3, <1>4

(* What a handler makes of a typed reply is exact.                         *)
LEMMA HandlersExact == QuoteInv /\ QuoteNext => QuoteInv'
  <1> SUFFICES ASSUME QuoteInv, QuoteNext PROVE QuoteInv'
    OBVIOUS
  <1>1. ReplyTyped(reply)
    BY DEF QuoteInv
  <1>2. reply' = reply
    BY DEF QuoteNext, Horizon, Fixed, Pyth, Coinbase, Binance, Handles
  <1>3. CASE Horizon \/ Fixed \/ Pyth \/ Coinbase
    <2>1. /\ reply.kind \in {"horizon", "fixed", "pyth", "coinbase"}
          /\ \/ outcome' = Single(Meant(reply))
             \/ reply.kind = "pyth" /\ AtLimit(reply) /\ outcome' = Failed
      <3>1. CASE Horizon
        BY <1>1, <3>1, SingleMeant DEF Horizon, Handles
      <3>2. CASE Fixed
        BY <1>1, <3>2, SingleMeant DEF Fixed, Handles
      <3>3. CASE Pyth
        BY <1>1, <3>3, SingleMeant DEF Pyth, Handles
      <3>4. CASE Coinbase
        BY <1>1, <3>4, SingleMeant DEF Coinbase, Handles
      <3> QED
        BY <1>3, <3>1, <3>2, <3>3, <3>4
    <2> QED
      BY <1>1, <1>2, <2>1 DEF QuoteInv, QuoteExact
  <1>4. CASE Binance
    <2>1. /\ reply.kind = "binance"
          /\ outcome' = IF reply.status # 200 THEN Failed ELSE TickerPrices(reply.asked, reply.entries)
      BY <1>4 DEF Binance, Handles
    <2>2. reply.asked \in Seq(Symbols) /\ reply.entries \in Seq(TickerEntries)
      BY <1>1, <2>1 DEF ReplyTyped
    <2>3. BatchExact(reply, outcome')
      <3>1. CASE reply.status # 200
        BY <2>1, <3>1 DEF BatchExact
      <3>2. CASE reply.status = 200
        BY <2>1, <2>2, <3>2, BatchReads DEF BatchExact
      <3> QED
        BY <3>1, <3>2
    <2> QED
      BY <1>1, <1>2, <2>1, <2>3 DEF QuoteInv, QuoteExact
  <1> QED
    BY <1>3, <1>4 DEF QuoteNext

(* No reply of a price source or of Horizon, however its numerals are      *)
(* written, becomes another number than the one it states, cut to the      *)
(* integer's digits, and none that states one in range is refused, but for *)
(* a Pyth price whose confidence is exactly the limit: for any base, any   *)
(* number of digits and any width of the integer.                          *)
THEOREM QuotesAreExact == PricingSpec => []QuoteExact
  <1>1. PricingInit => QuoteInv
    <2>1. ASSUME QuoteInit PROVE QuoteInv
      BY <2>1, RepliesTyped DEF QuoteInv, QuoteExact
    <2>2. ASSUME reply = NoReply, outcome = Waiting PROVE QuoteInv
      BY <2>2 DEF QuoteInv, QuoteExact, NoReply, ReplyTyped
    <2> QED
      BY <2>1, <2>2 DEF PricingInit
  <1>2. QuoteInv /\ [PricingNext]_<<vars, quoteVars>> => QuoteInv'
    <2> SUFFICES ASSUME QuoteInv, [PricingNext]_<<vars, quoteVars>> PROVE QuoteInv'
      OBVIOUS
    <2>1. CASE QuoteNext
      BY <2>1, HandlersExact
    <2>2. CASE UNCHANGED quoteVars
      BY <2>2 DEF quoteVars, QuoteInv, QuoteExact
    <2> QED
      BY <2>1, <2>2 DEF PricingNext, vars, quoteVars
  <1>3. QuoteInv => QuoteExact
    BY DEF QuoteInv
  <1> QED
    BY <1>1, <1>2, <1>3, PTL DEF PricingSpec

=============================================================================
