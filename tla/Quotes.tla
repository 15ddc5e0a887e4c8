------------------------------- MODULE Quotes -------------------------------
(***************************************************************************)
(* From the reply of a price source, or of Horizon, to an integer: the     *)
(* parsers of binance.rs, coinbase.rs, pyth.rs, fixed.rs and stellar_rpc.rs *)
(* in oracle/src. One behaviour is one reply and its outcome.              *)
(*                                                                         *)
(* Digits are those of a small Base and an integer has Scale of them after *)
(* the point. A numeral is read apart into its sign, its digits before and *)
(* after the point, and whether anything else is in it ("junk": a letter,  *)
(* a second point). Blanks around it are trimmed where the code does so.   *)
(***************************************************************************)
EXTENDS Integers, SequencesExt

CONSTANTS
  Base,           \* digits are 0..Base - 1
  Scale,          \* SCALE_DIGITS, HORIZON_XLM_DECIMALS
  MaxInt,         \* i128::MAX, i64::MAX
  WholeDigits,    \* bound: digits before the point
  FracDigits,     \* bound: digits after the point
  Skew,           \* MAX_FUTURE_SKEW_SECONDS
  StaleAfter,     \* stale_after_seconds
  MaxConfidence,  \* pyth_max_confidence_bps
  Now             \* the current time

ASSUME BaseAssumption == Base \in Nat /\ Base > 1 /\ {Scale, MaxInt} \subseteq Nat
ASSUME DigitsAssumption == {WholeDigits, FracDigits} \subseteq Nat
ASSUME ClockAssumption == {Skew, StaleAfter, Now} \subseteq Nat /\ MaxConfidence \in 0..10000

VARIABLES
  reply,   \* what was asked and what came back
  outcome  \* waiting, or prices by what was asked for, or an error

quoteVars == <<reply, outcome>>

Digits(n) == BoundedSeq(0..(Base - 1), n)

Numerals ==
  [sign : {"none", "plus", "minus"}, whole : Digits(WholeDigits),
   point : {TRUE}, frac : Digits(FracDigits), junk : BOOLEAN]
  \cup
  [sign : {"none", "plus", "minus"}, whole : Digits(WholeDigits),
   point : {FALSE}, frac : {<<>>}, junk : BOOLEAN]

Plain(whole, point, frac) ==
  [sign |-> "none", whole |-> whole, point |-> point, frac |-> frac, junk |-> FALSE]

Number(digits) ==
  LET value[n \in 0..Len(digits)] == IF n = 0 THEN 0 ELSE value[n - 1] * Base + digits[n]
  IN  value[Len(digits)]

(* Base to the k: a one and k zeros.                                       *)
Power(k) == Number([i \in 1..(k + 1) |-> IF i = 1 THEN 1 ELSE 0])

Invalid == -1

-----------------------------------------------------------------------------
(* The parsers. What is below zero is refused by every caller, so that one *)
(* negative number stands for all that is not read.                        *)

(* str::parse::<i128>.                                                     *)
ParseInt(t) ==
  IF t.junk \/ t.point \/ t.whole = <<>> \/ Number(t.whole) > MaxInt THEN Invalid
  ELSE IF t.sign = "minus" THEN -Number(t.whole) ELSE Number(t.whole)

(* Mutant: short fractions are filled up on the left.                      *)
ScaledOnLeft(frac) ==
  [i \in 1..Scale |->
     IF Len(frac) >= Scale THEN frac[i]
     ELSE IF i > Scale - Len(frac) THEN frac[i - (Scale - Len(frac))] ELSE 0]

(* The fraction cut or filled up with zeros to Scale digits.               *)
Scaled(frac) == [i \in 1..Scale |-> IF i <= Len(frac) THEN frac[i] ELSE 0]

Decimal(t) ==
  IF t.sign # "none" \/ t.junk \/ t.whole = <<>> \/ Number(t.whole) > MaxInt THEN Invalid
  ELSE LET n == Number(t.whole) * Power(Scale) + Number(Scaled(t.frac))
       IN  IF n > MaxInt THEN Invalid ELSE n

parse_price_to_precision(t) == IF Decimal(t) = 0 THEN Invalid ELSE Decimal(t)

(* Horizon's balance may be zero.                                          *)
parse_xlm_balance_to_stroops(t) == Decimal(t)

fixed_price(t) == IF ParseInt(t) > 0 THEN ParseInt(t) ELSE Invalid

normalize_pyth_price(t, expo) ==
  IF expo \notin (-Scale)..0 \/ ParseInt(t) < 0 THEN Invalid
  ELSE LET n == ParseInt(t) * Power(Scale + expo)
       IN  IF n > MaxInt THEN Invalid ELSE n

(* The confidence interval is optional; when it is there, it is scaled as  *)
(* the price is.                                                           *)
validate_pyth_price(r) ==
  LET price == normalize_pyth_price(r.price, r.expo)
      conf  == normalize_pyth_price(r.conf.text, r.expo)
      Fresh == /\ r.publish_time \in 0..(Now + Skew)
               /\ Now - r.publish_time <= StaleAfter
      Tight == conf # Invalid /\ conf * 10000 <= MaxConfidence * price
  IN  IF price > 0 /\ Fresh /\ (r.conf.set => Tight) THEN price ELSE Invalid

(* The share of the confidence in the price is taken in floating point     *)
(* (pyth.rs:217-218): where it is exactly the limit, the quotient may be   *)
(* rounded to above it. Nothing is rounded of a confidence of zero.        *)
AtLimit(r) ==
  LET price == normalize_pyth_price(r.price, r.expo)
      conf  == normalize_pyth_price(r.conf.text, r.expo)
  IN  r.conf.set /\ conf > 0 /\ conf * 10000 = MaxConfidence * price

(* A symbol is a sequence of parts; only a suffix that leaves something is *)
(* stripped.                                                               *)
base_currency(symbol) ==
  IF Len(symbol) > 1 /\ Last(symbol) \in {"USD", "USDT"} THEN Front(symbol) ELSE symbol

-----------------------------------------------------------------------------
(* The replies and their handlers.                                         *)

Waiting == [st |-> "waiting", prices |-> <<>>]
Failed == [st |-> "error", prices |-> <<>>]
Priced(ps) == [st |-> "ok", prices |-> ps]

(* One quantity was asked for.                                             *)
Single(n) == IF n = Invalid THEN Failed ELSE Priced(<<n>>)

Handles(kind, result) ==
  /\ outcome = Waiting
  /\ reply.kind = kind
  /\ outcome' = result
  /\ UNCHANGED reply

Horizon == Handles("horizon", Single(parse_xlm_balance_to_stroops(reply.text)))

Fixed == Handles("fixed", Single(fixed_price(reply.text)))

Pyth ==
  \/ Handles("pyth", Single(validate_pyth_price(reply)))
  \/ reply.kind = "pyth" /\ AtLimit(reply) /\ Handles("pyth", Failed)

(* The price of one token may be asked for under a name of its pair; the   *)
(* reply says what it is for.                                              *)
Coinbase ==
  Handles("coinbase",
    IF reply.status # 200 \/ reply.currency # base_currency(reply.asked) \/ ~reply.has_usd
    THEN Failed
    ELSE Single(parse_price_to_precision(reply.text)))

(* Of several entries for a symbol the first counts; a symbol with none is *)
(* left out; a price that cannot be read fails them all. The prices are at *)
(* the places of the symbols that were asked for.                          *)
TickerPrices(asked, entries) ==
  LET Entries(n) == {i \in DOMAIN entries : entries[i].symbol = asked[n]}
      present    == {n \in DOMAIN asked : Entries(n) # {}}
      price(n)   == parse_price_to_precision(entries[Min(Entries(n))].text)
  IN  IF \E n \in present : price(n) = Invalid THEN Failed
      ELSE Priced([n \in present |-> <<asked[n], price(n)>>])

Binance ==
  Handles("binance",
    IF reply.status # 200 THEN Failed ELSE TickerPrices(reply.asked, reply.entries))

QuoteNext == Horizon \/ Fixed \/ Pyth \/ Coinbase \/ Binance

-----------------------------------------------------------------------------
(* The replies that are looked at.                                         *)

(* Numerals for the fields that come with others.                          *)
Samples == {Plain(<<0>>, TRUE, <<1>>), Plain(<<1>>, FALSE, <<>>), Plain(<<0>>, FALSE, <<>>)}

Symbols == {"A", "B"}

TickerEntries == [symbol : Symbols, text : Samples]

Integrals == {t \in Numerals : ~t.point /\ Len(t.whole) <= Scale + 1 /\ t.sign # "plus"}

QuoteInit ==
  /\ outcome = Waiting
  /\ \/ reply \in [kind : {"horizon", "fixed"}, text : Numerals]
     \/ reply \in [kind : {"coinbase"}, status : {200, 503}, has_usd : BOOLEAN,
                   asked : BoundedSeq({"A", "USD", "USDT"}, 3) \ {<<>>},
                   currency : {<<"A">>, <<"USD">>, <<"A", "USDT">>}, text : Samples]
     \/ reply \in [kind : {"coinbase"}, status : {200}, has_usd : {TRUE},
                   asked : {<<"A", "USDT">>}, currency : {<<"A">>}, text : Numerals]
     \/ reply \in [kind : {"binance"}, status : {200, 503},
                   asked : {<<"A">>, <<"A", "B">>, <<"B", "A">>},
                   entries : BoundedSeq(TickerEntries, 3)]
     \/ reply \in [kind : {"pyth"}, price : Integrals, expo : (-Scale - 1)..1,
                   conf : [set : BOOLEAN, text : Integrals],
                   publish_time : {Now - StaleAfter, Now + Skew}]
     \/ reply \in [kind : {"pyth"}, price : {Plain(<<1>>, FALSE, <<>>)}, expo : {0},
                   conf : [set : {FALSE}, text : {Plain(<<0>>, FALSE, <<>>)}],
                   publish_time : {Invalid} \cup 0..(Now + Skew + 1)]

-----------------------------------------------------------------------------
(* Properties. What the numerals mean, without cutting and filling.        *)

Meaning(t) == (Number(t.whole \o t.frac) * Power(Scale)) \div Power(Len(t.frac))

IsInteger(t) == ~t.junk /\ ~t.point /\ t.whole # <<>> /\ (t.sign = "minus" => Number(t.whole) = 0)
IsDecimal(t) == ~t.junk /\ t.sign = "none" /\ t.whole # <<>>

Reads(readable, n, low) == IF readable /\ n \in low..MaxInt THEN n ELSE Invalid

(* What was asked for is the currency, perhaps with what it is paid in.    *)
Names(asked, currency) ==
  \/ asked = currency /\ (Len(asked) = 1 \/ Last(asked) = "A")
  \/ \E quote \in {"USD", "USDT"} : asked = Append(currency, quote)

Meant(r) ==
  CASE r.kind = "horizon" -> Reads(IsDecimal(r.text), Meaning(r.text), 0)
    [] r.kind = "fixed" -> Reads(IsInteger(r.text), Number(r.text.whole), 1)
    [] r.kind = "coinbase" ->
         Reads(IsDecimal(r.text) /\ r.status = 200 /\ r.has_usd /\ Names(r.asked, r.currency),
               Meaning(r.text), 1)
    [] r.kind = "pyth" ->
         Reads(/\ IsInteger(r.price) /\ r.expo \in (-Scale)..0
               /\ r.publish_time >= 0
               /\ r.publish_time >= Now - StaleAfter /\ r.publish_time <= Now + Skew
               /\ r.conf.set =>
                    /\ IsInteger(r.conf.text)
                    /\ Number(r.conf.text.whole) * 10000 <= MaxConfidence * Number(r.price.whole),
               (Number(r.price.whole) * Power(Scale)) \div Power(-r.expo), 1)

(* The entry that counts for a symbol, if it has one, and what it states.  *)
FirstEntry(entries, s) ==
  LET places == {n \in DOMAIN entries : entries[n].symbol = s}
  IN  IF places = {} THEN {} ELSE {entries[Min(places)]}

Stated(e) == Reads(IsDecimal(e.text), Meaning(e.text), 1)

(* A batch gives every symbol the price of its own entry.                  *)
BatchExact(r, result) ==
  LET counting == UNION {FirstEntry(r.entries, s) : s \in Range(r.asked)}
  IN  IF r.status = 200 /\ \A e \in counting : Stated(e) # Invalid
      THEN /\ result.st = "ok"
           /\ Range(result.prices) = {<<e.symbol, Stated(e)>> : e \in counting}
      ELSE result = Failed

(* No reply, however written, becomes another number than the one it       *)
(* states, cut to Scale digits (#736, #899: no rounding through f64), and  *)
(* none is refused that states one in range: prices are above zero (#604), *)
(* a Pyth price is neither stale nor of the future nor uncertain, and a    *)
(* batch gives every symbol the price of its own entry. Only a Pyth price  *)
(* whose confidence is exactly the limit may be taken or refused.          *)
QuoteExact ==
  outcome # Waiting =>
    IF reply.kind = "binance" THEN BatchExact(reply, outcome)
    ELSE \/ outcome = Single(Meant(reply))
         \/ reply.kind = "pyth" /\ AtLimit(reply) /\ outcome = Failed

=============================================================================
