------------------------------ MODULE Pricing ------------------------------
(***************************************************************************)
(* The two calculations of the price loop side by side: the reading of one *)
(* reply (Quotes) and the aggregation of one token's answers (Aggregate).  *)
(* They share no state: a behaviour is one or the other.                   *)
(***************************************************************************)
EXTENDS Aggregate, Quotes

NoReply == [kind |-> "none"]

NoCall ==
  /\ quotes = <<>> /\ cluster = <<>> /\ used = <<>>
  /\ min_sources = Min(MinSources) /\ max_deviation_bps = Min(MaxDeviations)
  /\ pc = "error"
  /\ result = [min |-> 0, median |-> 0, max |-> 0]

PricingInit ==
  \/ Init /\ reply = NoReply /\ outcome = Waiting
  \/ QuoteInit /\ NoCall

PricingNext ==
  \/ Next /\ UNCHANGED quoteVars
  \/ QuoteNext /\ UNCHANGED vars

PricingSpec == PricingInit /\ [][PricingNext]_<<vars, quoteVars>>

=============================================================================
