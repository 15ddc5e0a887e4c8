-------------------------- MODULE PriceLoopProofs --------------------------
(***************************************************************************)
(* Proofs about the price loop, for any tokens and sources, any staleness, *)
(* interval and cap, and any ages of the prices that are answered.         *)
(***************************************************************************)
EXTENDS PriceLoop, FiniteSetTheorems, WellFoundedInduction, TLAPS

(* A set of numbers has a least one, and one of integers with an upper     *)
(* bound a greatest.                                                       *)
LEMMA LeastNat ==
  ASSUME NEW T \in SUBSET Nat, T # {}
  PROVE  \E x \in T : \A y \in T : x <= y
  <1> DEFINE R == {ss \in Nat \X Nat : ss[1] < ss[2]}
  <1>1. IsWellFoundedOn(R, Nat)
    BY NatLessThanWellFounded DEF OpToRel
  <1>2. PICK x \in T : \A y \in T : ~(<<y, x>> \in R)
    <2> HIDE DEF R
    <2> QED
      BY <1>1, WFMin
  <1>3. \A y \in T : ~(y < x)
    BY <1>2
  <1> QED
    BY <1>3

LEMMA GreatestInt ==
  ASSUME NEW S \in SUBSET Int, S # {}, NEW b \in Int, \A x \in S : x <= b
  PROVE  Max(S) \in S /\ \A x \in S : x <= Max(S)
  <1> DEFINE T == {b - x : x \in S}
  <1>1. T \in SUBSET Nat
    BY \A x \in S : x \in Int /\ x <= b
  <1>2. T # {}
    OBVIOUS
  <1>3. PICK d \in T : \A y \in T : d <= y
    <2> HIDE DEF T
    <2> QED
      BY <1>1, <1>2, LeastNat
  <1>4. PICK m \in S : d = b - m
    OBVIOUS
  <1>5. ASSUME NEW y \in S PROVE m >= y
    <2>1. d <= b - y
      BY <1>3
    <2> QED
      BY <1>4, <2>1
  <1>6. \E x \in S : \A y \in S : x >= y
    BY <1>5
  <1>7. Max(S) \in S /\ \A y \in S : Max(S) >= y
    BY <1>6 DEF Max
  <1> QED
    BY <1>7

LEMMA MinPair == \A a, b \in Int : Min({a, b}) = IF a <= b THEN a ELSE b
  <1> SUFFICES ASSUME NEW a \in Int, NEW b \in Int PROVE Min({a, b}) = IF a <= b THEN a ELSE b
    OBVIOUS
  <1>1. \E x \in {a, b} : \A y \in {a, b} : x <= y
    OBVIOUS
  <1>2. Min({a, b}) \in {a, b} /\ \A y \in {a, b} : Min({a, b}) <= y
    BY <1>1 DEF Min
  <1> QED
    BY <1>2

-----------------------------------------------------------------------------
(* How old the batch may be when a token comes to a source: the attempts   *)
(* of the sources before it, each as long as a timeout, and those at the   *)
(* source itself.                                                          *)
Spent(t) ==
  HTTP_TIMEOUT * SOURCE_RETRY_ATTEMPTS * (fetch[t].next - 1)
    + HTTP_TIMEOUT * (fetch[t].try - 1) + fetch[t].waited

LagBound(t) == HTTP_TIMEOUT * SOURCE_RETRY_ATTEMPTS * (Last(t) - 1)

QuoteOf(t) == {q \in [age : Int, lag : Nat] : q.age <= MaxAge /\ q.lag <= LagBound(t)}
CachedOf(t) == {q \in [age : Int, lag : Int] : q.lag <= LagBound(t)}

Turn == [next : Nat \ {0}, try : 1..SOURCE_RETRY_ATTEMPTS, waited : 0..HTTP_TIMEOUT]

(* Who is asked, and when: what decides whether a source needs a request   *)
(* is settled when the tokens are fetched.                                 *)
AskedInv ==
  /\ pc \in {"idle", "join", "binance", "fetch"}
  /\ pc \in {"binance", "fetch"} => ledger.status # "asking" /\ hermes.status # "asking"
  /\ pc = "fetch" => binance.status # "asking"
  /\ pc # "fetch" => binance.status # "ok" /\ batch_age = 0 /\ fetch = NothingFetched

FetchInv ==
  /\ batch_age \in Nat
  /\ fetch \in [Tokens -> Turn]
  /\ \A t \in Tokens : Fetching(t) =>
       /\ batch_age <= Spent(t)
       /\ ~NeedsRequest(t) => fetch[t].try = 1 /\ fetch[t].waited = 0

QuotesInv ==
  /\ DOMAIN got = Tokens
  /\ \A t \in Tokens :
       /\ DOMAIN got[t] \subseteq 1..Last(t)
       /\ \A i \in DOMAIN got[t] : got[t][i] \in QuoteOf(t)

CacheInv ==
  /\ DOMAIN cache \subseteq Tokens
  /\ \A t \in DOMAIN cache : cache[t] \in CachedOf(t)

LagInv == AskedInv /\ FetchInv /\ QuotesInv /\ CacheInv

(* What the requests of the whole cycle have brought.                      *)
Request == [status : {"idle", "asking", "ok", "failed"}, try : Nat, waited : Nat]

AnswersInv ==
  /\ {ledger, hermes, binance} \subseteq Request
  /\ \A t \in DOMAIN feeds : feeds[t] \in Int

LEMMA Numbers ==
  /\ StaleAfter \in Nat /\ StaleAfter > 0 /\ MaxAge \in Nat /\ MaxAge = StaleAfter + 1
  /\ MaxFutureSkew \in Nat
  /\ \A t \in Tokens : Last(t) \in Nat /\ LagBound(t) = 3 * (Last(t) - 1) /\ LagBound(t) \in Int
  /\ \A age \in PublishAges : age \in Int
  <1>1. StaleAfter \in Nat /\ StaleAfter > 0 /\ MaxFutureSkew \in Nat
    BY TimesAssumption
  <1>2. \A t \in Tokens : Last(t) \in Nat
    BY SourcesAssumption DEF Last
  <1> QED
    BY <1>1, <1>2, PublishAgesAssumption
    DEF MaxAge, LagBound, HTTP_TIMEOUT, SOURCE_RETRY_ATTEMPTS

LEMMA SpentIs ==
  ASSUME fetch \in [Tokens -> Turn], NEW t \in Tokens
  PROVE  /\ Spent(t) = 3 * (fetch[t].next - 1) + (fetch[t].try - 1) + fetch[t].waited
         /\ fetch[t].next \in Nat /\ fetch[t].next > 0
         /\ fetch[t].try \in 1..3 /\ fetch[t].waited \in 0..1
  BY DEF Spent, Turn, HTTP_TIMEOUT, SOURCE_RETRY_ATTEMPTS

(* The aggregate of quotes is no older than its timestamp by more than one *)
(* of them.                                                                *)
LEMMA AggregatedLag ==
  ASSUME NEW t \in Tokens, NEW Q \in SUBSET QuoteOf(t), Q # {}
  PROVE  Aggregated(Q) \in CachedOf(t)
  <1> DEFINE ages == {q.age : q \in Q}
             seen == {q.age + q.lag : q \in Q}
  <1>1. \A q \in Q : /\ q.age \in Int /\ q.lag \in Nat
                     /\ q.age <= MaxAge /\ q.lag <= LagBound(t)
    BY DEF QuoteOf
  <1>2. MaxAge \in Int /\ LagBound(t) \in Int
    BY Numbers
  <1>3. Max(ages) \in ages /\ \A x \in ages : x <= Max(ages)
    <2>1. ages \in SUBSET Int /\ ages # {} /\ \A x \in ages : x <= MaxAge
      BY <1>1
    <2> HIDE DEF ages
    <2> QED
      BY <1>2, <2>1, GreatestInt
  <1>4. Max(seen) \in seen
    <2>1. seen \in SUBSET Int /\ seen # {} /\ \A x \in seen : x <= MaxAge + LagBound(t)
      BY <1>1, <1>2
    <2>2. MaxAge + LagBound(t) \in Int
      BY <1>2
    <2> HIDE DEF seen
    <2> QED
      BY <2>1, <2>2, GreatestInt
  <1>5. PICK q \in Q : Max(seen) = q.age + q.lag
    BY <1>4
  <1>6. Max(ages) \in Int /\ q.age <= Max(ages)
    BY <1>1, <1>3
  <1>7. Max(seen) - Max(ages) \in Int /\ Max(seen) - Max(ages) <= LagBound(t)
    BY <1>1, <1>2, <1>5, <1>6
  <1>8. Aggregated(Q) = [age |-> Max(ages), lag |-> Max(seen) - Max(ages)]
    BY DEF Aggregated
  <1> HIDE DEF ages, seen
  <1> QED
    BY <1>6, <1>7, <1>8 DEF CachedOf

(* Growing older leaves the lag alone.                                     *)
LEMMA OlderIs ==
  ASSUME NEW L, NEW q \in [age : Int, lag : L]
  PROVE  Older(q) \in [age : Int, lag : L] /\ Older(q).lag = q.lag /\ Older(q).age <= StaleAfter
  <1>1. q.age + 1 \in Int /\ StaleAfter \in Int
    BY Numbers
  <1>2. Min({q.age + 1, StaleAfter}) \in Int /\ Min({q.age + 1, StaleAfter}) <= StaleAfter
    BY <1>1, MinPair
  <1>3. Older(q) = [q EXCEPT !.age = Min({q.age + 1, StaleAfter})]
    BY DEF Older
  <1> QED
    BY <1>2, <1>3

-----------------------------------------------------------------------------
(* The actions. First what leaves the fetching alone.                      *)

LEMMA LagInit == Init => LagInv
  <1> SUFFICES ASSUME Init PROVE LagInv
    OBVIOUS
  <1>1. AskedInv
    BY DEF Init, AskedInv, Idle
  <1>2. FetchInv
    BY DEF Init, FetchInv, Fetching, NothingFetched, Turn, HTTP_TIMEOUT, SOURCE_RETRY_ATTEMPTS
  <1>3. QuotesInv /\ CacheInv
    BY DEF Init, QuotesInv, CacheInv, Nothing, NothingGot
  <1> QED
    BY <1>1, <1>2, <1>3 DEF LagInv

LEMMA NotFetching ==
  ASSUME LagInv, pc' # "fetch", AskedInv', UNCHANGED <<cache, got>>
  PROVE  LagInv'
  <1>1. batch_age' = 0 /\ fetch' = NothingFetched
    BY DEF AskedInv
  <1>2. NothingFetched \in [Tokens -> Turn]
    BY DEF NothingFetched, Turn, HTTP_TIMEOUT, SOURCE_RETRY_ATTEMPTS
  <1>3. FetchInv'
    BY <1>1, <1>2 DEF FetchInv, Fetching
  <1>4. QuotesInv' /\ CacheInv'
    BY DEF LagInv, QuotesInv, CacheInv
  <1> QED
    BY <1>3, <1>4 DEF LagInv

LEMMA CycleEnds ==
  ASSUME LagInv, EndCycle, CacheInv'
  PROVE  LagInv'
  <1>1. AskedInv'
    BY DEF EndCycle, AskedInv, Idle
  <1>2. FetchInv'
    <2>1. NothingFetched \in [Tokens -> Turn]
      BY DEF NothingFetched, Turn, HTTP_TIMEOUT, SOURCE_RETRY_ATTEMPTS
    <2> QED
      BY <2>1 DEF EndCycle, FetchInv, Fetching
  <1>3. QuotesInv'
    BY DEF EndCycle, QuotesInv, NothingGot, Nothing
  <1> QED
    BY <1>1, <1>2, <1>3 DEF LagInv

LEMMA CacheKept == ASSUME LagInv, UNCHANGED cache PROVE CacheInv'
  BY DEF LagInv, CacheInv

(* The tokens are fetched from the first source on, with the batch new.    *)
LEMMA FetchBegins ==
  ASSUME LagInv, pc # "fetch", pc' = "fetch", AskedInv',
         UNCHANGED <<cache, batch_age, fetchVars>>
  PROVE  LagInv'
  <1>1. batch_age = 0 /\ fetch = NothingFetched
    BY DEF LagInv, AskedInv
  <1>2. NothingFetched \in [Tokens -> Turn]
    BY DEF NothingFetched, Turn, HTTP_TIMEOUT, SOURCE_RETRY_ATTEMPTS
  <1>3. ASSUME NEW t \in Tokens
        PROVE  fetch'[t].next = 1 /\ fetch'[t].try = 1 /\ fetch'[t].waited = 0 /\ batch_age' = 0
    BY <1>1 DEF NothingFetched, fetchVars
  <1>4. ASSUME NEW t \in Tokens PROVE Spent(t)' = 0
    BY <1>3 DEF Spent, HTTP_TIMEOUT, SOURCE_RETRY_ATTEMPTS
  <1>5. FetchInv'
    BY <1>1, <1>2, <1>3, <1>4 DEF FetchInv, fetchVars
  <1>6. QuotesInv' /\ CacheInv'
    BY DEF LagInv, QuotesInv, CacheInv, fetchVars
  <1> QED
    BY <1>5, <1>6 DEF LagInv

(* The requests of the whole cycle.                                        *)
LEMMA RequestsKeep ==
  ASSUME LagInv,
         LedgerAnswered \/ LedgerFailed \/ HermesAnswered \/ HermesFailed
  PROVE  LagInv'
  <1>1. /\ pc' = pc /\ pc \in {"idle", "join"}
        /\ UNCHANGED <<cache, binance, batch_age, fetch, got>>
    BY DEF LedgerAnswered, LedgerFailed, HermesAnswered, HermesFailed, fetchVars, LagInv, AskedInv
  <1>2. AskedInv'
    BY <1>1 DEF LagInv, AskedInv
  <1> QED
    BY <1>1, <1>2, NotFetching

LEMMA AskBinanceKeeps == ASSUME LagInv, AskBinance PROVE LagInv'
  <1>1. /\ pc = "join" /\ ledger.status # "asking" /\ hermes.status # "asking"
        /\ UNCHANGED <<cache, ledger, hermes, batch_age, fetch, got>>
    BY DEF AskBinance, Joined, fetchVars
  <1>2. CASE pc' = "binance" /\ binance' = Asking
    <2>1. AskedInv'
      BY <1>1, <1>2 DEF LagInv, AskedInv, Asking, Idle
    <2> QED
      BY <1>1, <1>2, <2>1, NotFetching
  <1>3. CASE pc' = "fetch" /\ binance' = [Idle EXCEPT !.status = "failed"]
    <2>1. AskedInv'
      BY <1>1, <1>3 DEF LagInv, AskedInv, Idle
    <2> QED
      BY <1>1, <1>3, <2>1, FetchBegins DEF fetchVars
  <1> QED
    BY <1>2, <1>3 DEF AskBinance

LEMMA BinanceKeeps == ASSUME LagInv, BinanceAnswered \/ BinanceFailed PROVE LagInv'
  <1>1. /\ pc = "binance" /\ pc' = "fetch"
        /\ UNCHANGED <<cache, ledger, hermes, batch_age, fetchVars>>
        /\ \E status \in {"ok", "failed"} : binance' = [Idle EXCEPT !.status = status]
    BY DEF BinanceAnswered, BinanceFailed
  <1>2. AskedInv'
    BY <1>1 DEF LagInv, AskedInv, Idle
  <1> QED
    BY <1>1, <1>2, FetchBegins

-----------------------------------------------------------------------------
(* The sources of a token.                                                 *)

(* A step that turns to another attempt or source of one token, and leaves *)
(* the others where they are.                                              *)
LEMMA TurnKeeps ==
  ASSUME LagInv, NEW t \in Tokens, Fetching(t), UNCHANGED <<cache, pc, batchVars>>,
         fetch' \in [Tokens -> Turn],
         \A s \in Tokens \ {t} : fetch'[s] = fetch[s],
         fetch'[t].try = 1 \/ NeedsRequest(t)', fetch'[t].waited = 0,
         Spent(t) <= Spent(t)',
         QuotesInv'
  PROVE  LagInv'
  <1>1. pc = "fetch" /\ pc' = "fetch"
    BY DEF Fetching
  <1>2. AskedInv'
    BY <1>1 DEF LagInv, AskedInv, batchVars
  <1>3. ASSUME NEW s \in Tokens, Fetching(s)'
        PROVE  /\ batch_age' <= Spent(s)'
               /\ ~NeedsRequest(s)' => fetch'[s].try = 1 /\ fetch'[s].waited = 0
    <2>1. CASE s = t
      <3>1. batch_age \in Nat /\ batch_age <= Spent(t) /\ batch_age' = batch_age
        BY DEF LagInv, FetchInv, batchVars
      <3>2. Spent(t) \in Int /\ Spent(t)' \in Int
        BY SpentIs, fetch \in [Tokens -> Turn]
        DEF LagInv, FetchInv, Spent, Turn, HTTP_TIMEOUT, SOURCE_RETRY_ATTEMPTS
      <3> QED
        BY <2>1, <3>1, <3>2
    <2>2. CASE s # t
      <3>1. fetch'[s] = fetch[s] /\ Fetching(s)
        BY <1>3, <2>2 DEF Fetching
      <3>2. NeedsRequest(s)' = NeedsRequest(s)
        BY <3>1 DEF NeedsRequest, Current, batchVars
      <3>3. Spent(s)' = Spent(s) /\ batch_age' = batch_age
        BY <3>1 DEF Spent, batchVars
      <3> QED
        BY <3>1, <3>2, <3>3 DEF LagInv, FetchInv
    <2> QED
      BY <2>1, <2>2
  <1>4. FetchInv'
    BY <1>3 DEF LagInv, FetchInv, batchVars
  <1>5. CacheInv'
    BY CacheKept
  <1> QED
    BY <1>2, <1>4, <1>5 DEF LagInv

(* On to the next source.                                                  *)
LEMMA AdvanceKeeps ==
  ASSUME LagInv, NEW t \in Tokens, Fetching(t), UNCHANGED <<cache, pc, batchVars>>,
         NEW quotes, quotes \subseteq QuoteOf(t), Advance(t, quotes)
  PROVE  LagInv'
  <1>1. fetch \in [Tokens -> Turn] /\ DOMAIN got = Tokens
    BY DEF LagInv, FetchInv, QuotesInv
  <1>2. /\ fetch[t].next \in Nat /\ fetch[t].next > 0 /\ fetch[t].next <= Last(t)
        /\ fetch[t].try \in 1..3 /\ fetch[t].waited \in 0..1
    BY <1>1, SpentIs DEF Fetching
  <1>3. fetch' = [fetch EXCEPT ![t] = [next |-> fetch[t].next + 1, try |-> 1, waited |-> 0]]
    BY DEF Advance
  <1>4. [next |-> fetch[t].next + 1, try |-> 1, waited |-> 0] \in Turn
    BY <1>2 DEF Turn, HTTP_TIMEOUT, SOURCE_RETRY_ATTEMPTS
  <1>5. /\ fetch' \in [Tokens -> Turn]
        /\ fetch'[t].next = fetch[t].next + 1 /\ fetch'[t].try = 1 /\ fetch'[t].waited = 0
        /\ \A s \in Tokens \ {t} : fetch'[s] = fetch[s]
    BY <1>1, <1>3, <1>4
  <1>6. Spent(t) <= Spent(t)'
    BY <1>1, <1>2, <1>5, SpentIs DEF Spent, HTTP_TIMEOUT, SOURCE_RETRY_ATTEMPTS
  <1>7. QuotesInv'
    <2> DEFINE new == [i \in DOMAIN got[t] \cup {j \in {fetch[t].next} : quotes # {}} |->
                         IF i \in DOMAIN got[t] THEN got[t][i] ELSE CHOOSE q \in quotes : TRUE]
    <2>1. got' = [got EXCEPT ![t] = new]
      BY DEF Advance
    <2>2. DOMAIN got[t] \subseteq 1..Last(t) /\ \A i \in DOMAIN got[t] : got[t][i] \in QuoteOf(t)
      BY DEF LagInv, QuotesInv
    <2>3. fetch[t].next \in 1..Last(t)
      BY <1>2, Numbers
    <2>4. DOMAIN new \subseteq 1..Last(t)
      BY <2>2, <2>3
    <2>5. ASSUME NEW i \in DOMAIN new PROVE new[i] \in QuoteOf(t)
      <3>1. CASE i \in DOMAIN got[t]
        BY <2>2, <3>1
      <3>2. CASE i \notin DOMAIN got[t]
        <4>1. quotes # {} /\ new[i] = CHOOSE q \in quotes : TRUE
          BY <2>5, <3>2
        <4>2. (CHOOSE q \in quotes : TRUE) \in quotes
          BY <4>1
        <4> QED
          BY <4>1, <4>2
      <3> QED
        BY <3>1, <3>2
    <2> HIDE DEF new
    <2>6. DOMAIN got' = Tokens /\ got'[t] = new /\ \A s \in Tokens \ {t} : got'[s] = got[s]
      BY <1>1, <2>1
    <2>7. ASSUME NEW s \in Tokens
          PROVE  /\ DOMAIN got'[s] \subseteq 1..Last(s)
                 /\ \A i \in DOMAIN got'[s] : got'[s][i] \in QuoteOf(s)
      <3>1. CASE s = t
        BY <2>4, <2>5, <2>6, <3>1
      <3>2. CASE s # t
        BY <2>6, <3>2 DEF LagInv, QuotesInv
      <3> QED
        BY <3>1, <3>2
    <2> QED
      BY <2>6, <2>7 DEF QuotesInv
  <1> QED
    BY <1>5, <1>6, <1>7, TurnKeeps

LEMMA TakeQuoteKeeps == ASSUME LagInv, AnswersInv, NEW t \in Tokens, TakeQuote(t) PROVE LagInv'
  <1>1. Fetching(t) /\ ~NeedsRequest(t) /\ UNCHANGED <<cache, pc, batchVars>>
    BY DEF TakeQuote
  <1>2. AtHand(t) \subseteq QuoteOf(t)
    <2>1. fetch \in [Tokens -> Turn]
      BY DEF LagInv, FetchInv
    <2>2. batch_age \in Nat /\ batch_age <= Spent(t) /\ fetch[t].try = 1 /\ fetch[t].waited = 0
      BY <1>1 DEF LagInv, FetchInv
    <2>3. fetch[t].next \in Nat /\ fetch[t].next <= Last(t) /\ fetch[t].next > 0
      BY <1>1, <2>1, SpentIs DEF Fetching
    <2>4. batch_age <= LagBound(t) /\ 0 <= LagBound(t)
      BY <2>1, <2>2, <2>3, SpentIs, Numbers
    <2>5. [age |-> 0, lag |-> batch_age] \in QuoteOf(t) /\ [age |-> 0, lag |-> 0] \in QuoteOf(t)
      BY <2>2, <2>4, Numbers DEF QuoteOf
    <2>6. ASSUME Current(t) = "pyth", hermes.status = "ok", Acceptable(feeds[t])
          PROVE  [age |-> feeds[t], lag |-> 0] \in QuoteOf(t)
      <3>1. feeds[t] \in Int
        BY <1>1, <2>6 DEF NeedsRequest, AnswersInv
      <3> QED
        BY <2>4, <2>6, <3>1, Numbers DEF QuoteOf, Acceptable
    <2> QED
      BY <2>5, <2>6 DEF AtHand
  <1>3. Advance(t, AtHand(t)) \/ Advance(t, {})
    BY DEF TakeQuote
  <1> QED
    BY <1>1, <1>2, <1>3, AdvanceKeeps

LEMMA SourceAnsweredKeeps == ASSUME LagInv, NEW t \in Tokens, SourceAnswered(t) PROVE LagInv'
  <1>1. Fetching(t) /\ UNCHANGED <<cache, pc, batchVars>>
    BY DEF SourceAnswered
  <1>2. /\ fetch[t].next \in Nat /\ fetch[t].next <= Last(t) /\ fetch[t].next > 0
        /\ fetch[t].waited \in 0..1
    BY <1>1, SpentIs DEF Fetching, LagInv, FetchInv
  <1>3. 0 <= LagBound(t)
    BY <1>2, Numbers
  <1>4. CASE Advance(t, {[age |-> fetch[t].waited, lag |-> 0]})
    <2>1. {[age |-> fetch[t].waited, lag |-> 0]} \subseteq QuoteOf(t)
      BY <1>2, <1>3, Numbers DEF QuoteOf
    <2> QED
      BY <1>1, <1>4, <2>1, AdvanceKeeps
  <1>5. ASSUME NEW age \in PublishAges, Acceptable(age - fetch[t].waited),
               Advance(t, {[age |-> age, lag |-> 0]})
        PROVE  LagInv'
    <2>1. {[age |-> age, lag |-> 0]} \subseteq QuoteOf(t)
      BY <1>2, <1>3, <1>5, Numbers DEF QuoteOf, Acceptable
    <2> QED
      BY <1>1, <1>5, <2>1, AdvanceKeeps
  <1> QED
    BY <1>4, <1>5 DEF SourceAnswered

LEMMA SourceFailedKeeps == ASSUME LagInv, NEW t \in Tokens, SourceFailed(t) PROVE LagInv'
  <1>1. Fetching(t) /\ NeedsRequest(t) /\ UNCHANGED <<cache, pc, batchVars>>
    BY DEF SourceFailed
  <1>2. CASE Advance(t, {})
    BY <1>1, <1>2, AdvanceKeeps
  <1>3. CASE /\ fetch[t].try < SOURCE_RETRY_ATTEMPTS
             /\ fetch' = [fetch EXCEPT ![t].try = @ + 1, ![t].waited = 0]
             /\ UNCHANGED got
    <2>1. fetch \in [Tokens -> Turn]
      BY DEF LagInv, FetchInv
    <2>2. /\ fetch[t].next \in Nat /\ fetch[t].next > 0
          /\ fetch[t].try \in 1..3 /\ fetch[t].waited \in 0..1 /\ fetch[t].try < 3
      BY <1>3, <2>1, SpentIs DEF SOURCE_RETRY_ATTEMPTS
    <2>3. PICK f : f = [fetch EXCEPT ![t].try = @ + 1]
      OBVIOUS
    <2>4. PICK turn : turn = [fetch[t] EXCEPT !.try = @ + 1]
      OBVIOUS
    <2>5. /\ turn \in Turn
          /\ turn.next = fetch[t].next /\ turn.try = fetch[t].try + 1
      BY <2>1, <2>2, <2>4 DEF Turn, HTTP_TIMEOUT, SOURCE_RETRY_ATTEMPTS
    <2>6. f \in [Tokens -> Turn] /\ f[t] = turn /\ \A s \in Tokens \ {t} : f[s] = fetch[s]
      BY <2>1, <2>3, <2>4, <2>5
    <2>7. fetch' = [f EXCEPT ![t].waited = 0]
      BY <1>3, <2>3
    <2>8. PICK last : last = [turn EXCEPT !.waited = 0]
      OBVIOUS
    <2>9. last \in Turn /\ last.next = turn.next /\ last.try = turn.try /\ last.waited = 0
      BY <2>5, <2>8 DEF Turn, HTTP_TIMEOUT
    <2>10. fetch' \in [Tokens -> Turn] /\ fetch'[t] = last
           /\ \A s \in Tokens \ {t} : fetch'[s] = fetch[s]
      BY <2>6, <2>7, <2>8, <2>9
    <2>11. Spent(t) <= Spent(t)'
      <3>1. fetch'[t].next = fetch[t].next /\ fetch'[t].try = fetch[t].try + 1
            /\ fetch'[t].waited = 0
        BY <2>5, <2>9, <2>10
      <3> QED
        BY <2>1, <2>2, <3>1, SpentIs DEF Spent, HTTP_TIMEOUT, SOURCE_RETRY_ATTEMPTS
    <2>12. NeedsRequest(t)'
      BY <1>1, <2>5, <2>9, <2>10 DEF NeedsRequest, Current, batchVars
    <2>13. QuotesInv'
      BY <1>3 DEF LagInv, QuotesInv
    <2> QED
      BY <1>1, <2>9, <2>10, <2>11, <2>12, <2>13, TurnKeeps
  <1> QED
    BY <1>2, <1>3 DEF SourceFailed

-----------------------------------------------------------------------------
(* The end of a cycle, and time.                                           *)

(* A set of sources that an aggregation may use is one of the quotes that  *)
(* came in: there are at least as many.                                    *)
LEMMA EnoughCameIn ==
  ASSUME LagInv, NEW t \in Tokens, NEW used \in Usable(t)
  PROVE  Cardinality(DOMAIN got[t]) >= MinSources[t] /\ used # {}
  <1>1. used \subseteq DOMAIN got[t] /\ Cardinality(used) >= MinSources[t]
    BY DEF Usable
  <1>2. IsFiniteSet(DOMAIN got[t])
    <2>1. DOMAIN got[t] \subseteq 1..Last(t) /\ Last(t) \in Nat
      BY Numbers DEF LagInv, QuotesInv
    <2>2. IsFiniteSet(1..Last(t))
      BY <2>1, FS_Interval
    <2> QED
      BY <2>1, <2>2, FS_Subset
  <1>3. /\ Cardinality(used) \in Nat /\ Cardinality(DOMAIN got[t]) \in Nat
        /\ Cardinality(used) <= Cardinality(DOMAIN got[t])
    BY <1>1, <1>2, FS_Subset, FS_CardinalityType
  <1>4. MinSources[t] \in Nat /\ MinSources[t] > 0
    BY SourcesAssumption
  <1>5. used # {}
    <2> SUFFICES ASSUME used = {} PROVE FALSE
      OBVIOUS
    <2>1. 0 >= MinSources[t]
      BY <1>1, FS_EmptySet
    <2> QED
      BY <1>4, <2>1
  <1> QED
    BY <1>1, <1>3, <1>4, <1>5

LEMMA WritePricesKeeps == ASSUME LagInv, WritePrices PROVE LagInv'
  <1>1. EndCycle
    BY DEF WritePrices
  <1>2. PICK built \in SUBSET {t \in Tokens : Usable(t) # {}} :
          \E used \in [built -> SUBSET (1..Max({Last(t) : t \in Tokens}))] :
            /\ \A t \in built : used[t] \in Usable(t)
            /\ cache' = [t \in IF built # {} \/ \E k \in Tokens : Fresh(k)
                               THEN DOMAIN cache \cup built ELSE {} |->
                           IF t \in built THEN Aggregated({got[t][i] : i \in used[t]})
                           ELSE cache[t]]
    BY DEF WritePrices
  <1>3. PICK used \in [built -> SUBSET (1..Max({Last(t) : t \in Tokens}))] :
          /\ \A t \in built : used[t] \in Usable(t)
          /\ cache' = [t \in IF built # {} \/ \E k \in Tokens : Fresh(k)
                             THEN DOMAIN cache \cup built ELSE {} |->
                         IF t \in built THEN Aggregated({got[t][i] : i \in used[t]})
                         ELSE cache[t]]
    BY <1>2
  <1>4. ASSUME NEW t \in built PROVE Aggregated({got[t][i] : i \in used[t]}) \in CachedOf(t)
    <2>1. t \in Tokens /\ used[t] \in Usable(t) /\ used[t] \subseteq DOMAIN got[t]
      BY <1>3 DEF Usable
    <2>2. used[t] # {}
      BY <2>1, EnoughCameIn
    <2>3. \A i \in used[t] : got[t][i] \in QuoteOf(t)
      BY <2>1 DEF LagInv, QuotesInv
    <2> DEFINE Q == {got[t][i] : i \in used[t]}
    <2>4. Q \in SUBSET QuoteOf(t) /\ Q # {}
      BY <2>2, <2>3
    <2> HIDE DEF Q
    <2>5. Aggregated(Q) \in CachedOf(t)
      BY <2>1, <2>4, AggregatedLag
    <2> QED
      BY <2>5 DEF Q
  <1>5. CacheInv'
    <2>1. DOMAIN cache' \subseteq DOMAIN cache \cup built
      BY <1>3
    <2>2. ASSUME NEW t \in DOMAIN cache' PROVE cache'[t] \in CachedOf(t)
      <3>1. CASE t \in built
        BY <1>3, <1>4, <2>2, <3>1
      <3>2. CASE t \notin built
        <4>1. t \in DOMAIN cache /\ cache'[t] = cache[t]
          BY <1>3, <2>1, <2>2, <3>2
        <4> QED
          BY <4>1 DEF LagInv, CacheInv
      <3> QED
        BY <3>1, <3>2
    <2>3. DOMAIN cache' \subseteq Tokens
      BY <2>1 DEF LagInv, CacheInv
    <2> QED
      BY <2>2, <2>3 DEF CacheInv, CachedOf, LagBound, Last
  <1> QED
    BY <1>1, <1>5, CycleEnds

(* A request is waited for, and nothing else: the batch grows older with   *)
(* the time each token that is fetched has spent.                          *)
LEMMA TickKeeps == ASSUME LagInv, AnswersInv, Tick PROVE LagInv'
  <1>1. /\ pc' = pc /\ Waiting
        /\ cache' = [t \in DOMAIN cache |-> Older(cache[t])]
        /\ ledger' = Longer(ledger) /\ hermes' = Longer(hermes) /\ binance' = Longer(binance)
        /\ batch_age' = IF binance.status = "ok" THEN batch_age + 1 ELSE 0
        /\ fetch' = [t \in Tokens |->
             IF Fetching(t) THEN [fetch[t] EXCEPT !.waited = @ + 1] ELSE fetch[t]]
        /\ got' = [t \in Tokens |-> [i \in DOMAIN got[t] |-> Older(got[t][i])]]
        /\ DOMAIN feeds' = DOMAIN feeds
    BY DEF Tick
  <1>2. CacheInv'
    <2>1. DOMAIN cache' = DOMAIN cache /\ \A t \in DOMAIN cache : cache'[t] = Older(cache[t])
      BY <1>1
    <2>2. ASSUME NEW t \in DOMAIN cache PROVE Older(cache[t]) \in CachedOf(t)
      <3>1. cache[t] \in [age : Int, lag : Int] /\ cache[t].lag <= LagBound(t)
        BY DEF LagInv, CacheInv, CachedOf
      <3>2. /\ Older(cache[t]) \in [age : Int, lag : Int]
            /\ Older(cache[t]).lag = cache[t].lag
        BY <3>1, OlderIs
      <3> QED
        BY <3>1, <3>2 DEF CachedOf
    <2> QED
      BY <2>1, <2>2 DEF LagInv, CacheInv
  <1>3. QuotesInv'
    <2>1. ASSUME NEW t \in Tokens
          PROVE  /\ DOMAIN got'[t] = DOMAIN got[t]
                 /\ \A i \in DOMAIN got[t] : got'[t][i] = Older(got[t][i])
      BY <1>1
    <2>2. ASSUME NEW t \in Tokens, NEW i \in DOMAIN got[t] PROVE Older(got[t][i]) \in QuoteOf(t)
      <3>1. got[t][i] \in [age : Int, lag : Nat] /\ got[t][i].lag <= LagBound(t)
        BY DEF LagInv, QuotesInv, QuoteOf
      <3>2. /\ Older(got[t][i]) \in [age : Int, lag : Nat]
            /\ Older(got[t][i]).lag = got[t][i].lag /\ Older(got[t][i]).age <= StaleAfter
        BY <3>1, OlderIs
      <3>3. Older(got[t][i]).age \in Int
        BY <3>2
      <3>4. Older(got[t][i]).age <= MaxAge
        BY <3>2, <3>3, Numbers
      <3> QED
        BY <3>1, <3>2, <3>4 DEF QuoteOf
    <2>3. DOMAIN got' = Tokens
      BY <1>1
    <2>4. \A t \in Tokens : DOMAIN got[t] \subseteq 1..Last(t)
      BY DEF LagInv, QuotesInv
    <2> QED
      BY <2>1, <2>2, <2>3, <2>4 DEF QuotesInv
  <1>4. ASSUME NEW call \in Request PROVE Longer(call).status = call.status
    BY DEF Longer, Request
  <1>5. AskedInv'
    <2>1. /\ ledger'.status = ledger.status /\ hermes'.status = hermes.status
          /\ binance'.status = binance.status
      BY <1>1, <1>4 DEF AnswersInv
    <2>2. CASE pc = "fetch"
      BY <1>1, <2>1, <2>2 DEF LagInv, AskedInv
    <2>3. CASE pc # "fetch"
      <3>1. binance.status # "ok" /\ batch_age' = 0
        BY <1>1, <2>3 DEF LagInv, AskedInv
      <3>2. fetch' = fetch
        BY <1>1, <2>3 DEF Fetching, LagInv, AskedInv, NothingFetched
      <3> QED
        BY <1>1, <2>1, <2>3, <3>1, <3>2 DEF LagInv, AskedInv
    <2> QED
      BY <2>2, <2>3
  <1>6. FetchInv'
    <2>1. fetch \in [Tokens -> Turn] /\ batch_age \in Nat
      BY DEF LagInv, FetchInv
    <2>2. batch_age' \in Nat /\ batch_age' <= batch_age + 1
      BY <1>1, <2>1
    <2>3. ASSUME NEW t \in Tokens, Fetching(t)
          PROVE  /\ fetch'[t].next = fetch[t].next /\ fetch'[t].try = fetch[t].try
                 /\ fetch'[t].waited = fetch[t].waited + 1
                 /\ fetch'[t] \in Turn /\ NeedsRequest(t)
                 /\ Spent(t)' = Spent(t) + 1
      <3>1. fetch'[t] = [fetch[t] EXCEPT !.waited = @ + 1] /\ fetch[t] \in Turn
        BY <1>1, <2>1, <2>3
      <3>2. pc = "fetch" /\ NeedsRequest(t) /\ fetch[t].waited < 1
        BY <1>1, <2>3 DEF Waiting, Fetching, HTTP_TIMEOUT
      <3>3. /\ fetch'[t].next = fetch[t].next /\ fetch'[t].try = fetch[t].try
            /\ fetch'[t].waited = fetch[t].waited + 1
            /\ fetch'[t] \in Turn
        BY <3>1, <3>2 DEF Turn, HTTP_TIMEOUT
      <3>4. Spent(t)' = Spent(t) + 1
        BY <2>1, <3>3, SpentIs DEF Spent, HTTP_TIMEOUT, SOURCE_RETRY_ATTEMPTS
      <3> QED
        BY <3>2, <3>3, <3>4
    <2>4. ASSUME NEW t \in Tokens, ~Fetching(t) PROVE fetch'[t] = fetch[t]
      BY <1>1, <2>4
    <2>5. fetch' \in [Tokens -> Turn]
      <3>1. \A t \in Tokens : fetch'[t] \in Turn
        BY <2>1, <2>3, <2>4
      <3>2. fetch' = [t \in Tokens |-> fetch'[t]]
        BY <1>1
      <3> QED
        BY <3>1, <3>2
    <2>6. ASSUME NEW t \in Tokens, Fetching(t)'
          PROVE  /\ Fetching(t)
                 /\ batch_age' <= Spent(t)'
                 /\ NeedsRequest(t)'
      <3>1. Fetching(t)
        BY <1>1, <2>4, <2>6 DEF Fetching, Last
      <3>2. batch_age <= Spent(t) /\ Spent(t) \in Int
        BY <2>1, <3>1, SpentIs DEF LagInv, FetchInv
      <3>3. batch_age' <= Spent(t)'
        BY <2>1, <2>2, <2>3, <3>1, <3>2
      <3>4. Current(t)' = Current(t)
        BY <2>3, <3>1 DEF Current
      <3>5. NeedsRequest(t)'
        <4>1. /\ binance'.status = binance.status /\ hermes'.status = hermes.status
              /\ DOMAIN feeds' = DOMAIN feeds
          BY <1>1, <1>4 DEF AnswersInv
        <4> QED
          BY <2>3, <3>1, <3>4, <4>1 DEF NeedsRequest
      <3> QED
        BY <3>1, <3>3, <3>5
    <2> QED
      BY <2>2, <2>5, <2>6 DEF FetchInv
  <1> QED
    BY <1>2, <1>3, <1>5, <1>6 DEF LagInv

(* The answers are what their requests brought, whatever the step.         *)
LEMMA AnswersNext == ASSUME AnswersInv, [Next]_vars PROVE AnswersInv'
  <1>1. Idle \in Request /\ Asking \in Request
        /\ \A status \in {"ok", "failed"} : [Idle EXCEPT !.status = status] \in Request
        /\ \A n \in Nat : [Asking EXCEPT !.try = n] \in Request
    BY DEF Idle, Asking, Request
  <1>2. CASE LedgerAnswered \/ LedgerFailed \/ HermesFailed
    <2>1. \A call \in Request : call.try + 1 \in Nat
      BY DEF Request
    <2> QED
      BY <1>1, <1>2, <2>1 DEF AnswersInv, LedgerAnswered, LedgerFailed, HermesFailed
  <1>3. CASE HermesAnswered
    <2>1. \A t \in DOMAIN feeds' : feeds'[t] \in Int
      BY <1>3, Numbers DEF HermesAnswered
    <2> QED
      BY <1>1, <1>3, <2>1 DEF AnswersInv, HermesAnswered
  <1>4. CASE EndCycle
    BY <1>1, <1>4 DEF AnswersInv, EndCycle, Nothing
  <1>5. CASE StartCycle \/ AskBinance \/ BinanceAnswered \/ BinanceFailed
    BY <1>1, <1>5 DEF AnswersInv, StartCycle, AskBinance, BinanceAnswered, BinanceFailed
  <1>6. CASE Tick
    <2>1. \A call \in Request : Longer(call) \in Request
      BY DEF Longer, Request
    <2>2. ASSUME NEW t \in DOMAIN feeds' PROVE feeds'[t] \in Int
      <3>1. t \in DOMAIN feeds /\ feeds'[t] = Min({feeds[t] + 1, MaxAge})
        BY <1>6, <2>2 DEF Tick
      <3>2. feeds[t] + 1 \in Int /\ MaxAge \in Int
        BY <3>1, Numbers DEF AnswersInv
      <3> QED
        BY <3>1, <3>2, MinPair
    <2> QED
      BY <1>6, <2>1, <2>2 DEF AnswersInv, Tick
  <1>7. CASE UNCHANGED <<ledger, hermes, binance, feeds>>
    BY <1>7 DEF AnswersInv
  <1> QED
    BY <1>2, <1>3, <1>4, <1>5, <1>6, <1>7
    DEF Next, Step, CycleStep, GiveUp, TakeQuote, SourceAnswered, SourceFailed,
        WritePrices, CycleCap, ServicesRecover, vars, batchVars

LEMMA LagNext == ASSUME LagInv, AnswersInv, [Next]_vars PROVE LagInv'
  <1>1. CASE StartCycle
    <2>1. /\ pc' = "join" /\ pc = "idle"
          /\ UNCHANGED <<cache, got, fetch, binance, batch_age>>
      BY <1>1 DEF StartCycle, fetchVars
    <2>2. AskedInv'
      BY <2>1 DEF LagInv, AskedInv
    <2> QED
      BY <2>1, <2>2, NotFetching
  <1>2. CASE GiveUp \/ CycleCap
    BY <1>2, CacheKept, CycleEnds DEF GiveUp, CycleCap
  <1>3. CASE ServicesRecover \/ UNCHANGED vars
    <2>1. UNCHANGED <<cache, pc, batchVars, fetchVars>>
      BY <1>3 DEF ServicesRecover, vars
    <2>2. AskedInv' /\ QuotesInv' /\ CacheInv'
      BY <2>1 DEF LagInv, AskedInv, QuotesInv, CacheInv, batchVars, fetchVars
    <2>3. FetchInv'
      BY <2>1 DEF LagInv, FetchInv, Fetching, Spent, NeedsRequest, Current, batchVars, fetchVars
    <2> QED
      BY <2>2, <2>3 DEF LagInv
  <1> QED
    BY <1>1, <1>2, <1>3, RequestsKeep, AskBinanceKeeps, BinanceKeeps, TakeQuoteKeeps,
       SourceAnsweredKeeps, SourceFailedKeeps, WritePricesKeeps, TickKeeps
    DEF Next, Step, CycleStep

LEMMA LagAlways == Spec => [](LagInv /\ AnswersInv)
  <1>1. Init => LagInv /\ AnswersInv
    <2>1. Init => AnswersInv
      BY DEF Init, AnswersInv, Request, Idle, Nothing
    <2> QED
      BY <2>1, LagInit
  <1>2. LagInv /\ AnswersInv /\ [Next]_vars => LagInv' /\ AnswersInv'
    BY LagNext, AnswersNext
  <1> QED
    BY <1>1, <1>2, PTL DEF Spec

(* A cached price rests on quotes no older than its timestamp by more than *)
(* the attempts of the sources before the one the batch answers            *)
(* (build_cached_price asks them one after the other).                     *)
THEOREM LagIsBounded == Spec => []StampLagBounded
  <1>1. LagInv => StampLagBounded
    BY DEF LagInv, CacheInv, CachedOf, LagBound, StampLagBounded
  <1> QED
    BY <1>1, LagAlways, PTL

-----------------------------------------------------------------------------
(* What becomes of a fresh price.                                          *)

(* An aggregate is as old as one of its quotes.                            *)
LEMMA AggregatedAge ==
  ASSUME NEW t \in Tokens, NEW Q \in SUBSET QuoteOf(t), Q # {}
  PROVE  \E q \in Q : Aggregated(Q).age = q.age
  <1> DEFINE ages == {q.age : q \in Q}
  <1>1. ages \in SUBSET Int /\ ages # {} /\ \A x \in ages : x <= MaxAge
    BY DEF QuoteOf
  <1>2. Max(ages) \in ages
    <2>1. MaxAge \in Int
      BY Numbers
    <2> HIDE DEF ages
    <2> QED
      BY <1>1, <2>1, GreatestInt
  <1>3. Aggregated(Q).age = Max(ages)
    BY DEF Aggregated
  <1> QED
    BY <1>2, <1>3

(* A fresh price stays and grows older, or gives way to an aggregation of  *)
(* at least min_sources quotes of this cycle, as old as one of them        *)
(* (execute_price_cycle, from the first request to the write of the cache).*)
THEOREM FreshPricesKept == Spec => FreshKept
  <1> DEFINE Kept(t) ==
        /\ t \in DOMAIN cache'
        /\ \/ cache'[t] \in {cache[t], Older(cache[t])}
           \/ /\ Cardinality(DOMAIN got[t]) >= MinSources[t]
              /\ \E i \in DOMAIN got[t] : cache'[t].age = got[t][i].age
  <1>1. ASSUME LagInv, [Next]_vars, NEW t \in Tokens, Fresh(t) PROVE Kept(t)
    <2>1. t \in DOMAIN cache
      BY <1>1 DEF Fresh
    <2>2. CASE UNCHANGED cache
      BY <2>1, <2>2
    <2>3. CASE Tick
      BY <2>1, <2>3 DEF Tick
    <2>4. CASE WritePrices
      <3>1. PICK built \in SUBSET {k \in Tokens : Usable(k) # {}} :
              \E used \in [built -> SUBSET (1..Max({Last(k) : k \in Tokens}))] :
                /\ \A k \in built : used[k] \in Usable(k)
                /\ cache' = [k \in IF built # {} \/ \E j \in Tokens : Fresh(j)
                                   THEN DOMAIN cache \cup built ELSE {} |->
                               IF k \in built THEN Aggregated({got[k][i] : i \in used[k]})
                               ELSE cache[k]]
        BY <2>4 DEF WritePrices
      <3>2. PICK used \in [built -> SUBSET (1..Max({Last(k) : k \in Tokens}))] :
              /\ \A k \in built : used[k] \in Usable(k)
              /\ cache' = [k \in IF built # {} \/ \E j \in Tokens : Fresh(j)
                                 THEN DOMAIN cache \cup built ELSE {} |->
                             IF k \in built THEN Aggregated({got[k][i] : i \in used[k]})
                             ELSE cache[k]]
        BY <3>1
      <3>3. t \in DOMAIN cache'
        BY <1>1, <2>1, <3>2
      <3>4. CASE t \notin built
        BY <3>2, <3>3, <3>4
      <3>5. CASE t \in built
        <4> DEFINE Q == {got[t][i] : i \in used[t]}
        <4>1. used[t] \in Usable(t) /\ cache'[t] = Aggregated(Q)
          BY <3>2, <3>3, <3>5
        <4>2. Cardinality(DOMAIN got[t]) >= MinSources[t] /\ used[t] # {}
          BY <1>1, <4>1, EnoughCameIn
        <4>3. used[t] \subseteq DOMAIN got[t]
          BY <4>1 DEF Usable
        <4>4. Q \in SUBSET QuoteOf(t) /\ Q # {}
          BY <1>1, <4>2, <4>3 DEF LagInv, QuotesInv
        <4>5. PICK q \in Q : Aggregated(Q).age = q.age
          <5> HIDE DEF Q
          <5> QED
            BY <4>4, AggregatedAge
        <4>6. PICK i \in used[t] : q = got[t][i]
          BY <4>5
        <4> QED
          BY <3>3, <4>1, <4>2, <4>3, <4>5, <4>6
      <3> QED
        BY <3>4, <3>5
    <2> QED
      BY <1>1, <2>2, <2>3, <2>4
      DEF Next, Step, CycleStep, StartCycle, LedgerAnswered, LedgerFailed, HermesAnswered,
          HermesFailed, GiveUp, AskBinance, BinanceAnswered, BinanceFailed, TakeQuote,
          SourceAnswered, SourceFailed, CycleCap, ServicesRecover, vars
  <1>2. LagInv /\ [Next]_vars =>
          [\A t \in Tokens : Fresh(t) => Kept(t)]_vars
    BY <1>1
  <1>3. Spec => [](LagInv /\ AnswersInv)
    BY LagAlways
  <1> QED
    BY <1>2, <1>3, PTL DEF Spec, FreshKept

=============================================================================
