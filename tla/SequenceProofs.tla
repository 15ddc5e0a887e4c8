--------------------------- MODULE SequenceProofs ---------------------------
(***************************************************************************)
(* Proofs about the cached sequence number, for every number of calls and  *)
(* every choice of faults. One invariant carries the three properties of   *)
(* the cache: it says what a number that is behind the chain has cost.     *)
(***************************************************************************)
EXTENDS Sequence, TLAPS

(* As much of the types as the arithmetic needs.                           *)
Typed ==
  /\ account \in Nat
  /\ sequence_cache \in Nat
  /\ tx \in [st : {"none", "live", "landed", "gone"}, seq : Nat]
  /\ fetches \in Nat /\ drops \in Nat /\ bad_seqs \in Nat /\ surprises \in Nat
  /\ call_pc \in {"idle", "set_prices", "call", "sent"}

(* The number of the transaction under way is the cached one; no number is *)
(* cached before the first call.                                           *)
CacheUsed ==
  /\ call_pc = "sent" => tx.seq = sequence_cache /\ tx.seq # None
  /\ tx.st = "landed" \/ tx.st = "live" => call_pc = "sent"
  /\ call_pc \in {"idle", "set_prices"} => sequence_cache = None

LandedUsed == tx.st = "landed" => tx.seq <= account

(* The account has moved where the cycle does not know of it: the cached   *)
(* number is used up by another transaction than the cycle's own, or its   *)
(* own has landed and another one after it.                                *)
Behind ==
  IF tx.st = "landed" THEN tx.seq < account
  ELSE sequence_cache # None /\ sequence_cache <= account

BehindCounted == Behind => bad_seqs < surprises

FetchesPaid == fetches <= drops + (IF sequence_cache = None THEN 0 ELSE 1)

SeqInv ==
  /\ Typed /\ CacheUsed /\ LandedUsed
  /\ NoGap /\ BehindCounted /\ BadSeqExplained /\ FetchesPaid

LEMMA SeqInit == SequenceInit => SeqInv
  BY DEF SequenceInit, SeqInv, Typed, CacheUsed, LandedUsed, NoGap, Behind, BehindCounted,
         BadSeqExplained, FetchesPaid, None, NoTx

(* A cycle starts anew with nothing cached and nothing counted.            *)
LEMMA EndKeeps ==
  ASSUME SeqInv, EndCycle, account' \in Nat
  PROVE  SeqInv'
  BY DEF EndCycle, SeqInv, Typed, CacheUsed, LandedUsed, NoGap, Behind, BehindCounted,
         BadSeqExplained, FetchesPaid, None, NoTx

(* A move of the account that nobody tells the cycle of is counted.        *)
LEMMA SurpriseKeeps ==
  ASSUME SeqInv, NEW n, Use(n), surprises' = surprises + 1,
         UNCHANGED <<callVars, fetches, drops, bad_seqs>>
  PROVE  SeqInv'
  BY DEF Use, callVars, SeqInv, Typed, CacheUsed, LandedUsed, NoGap, Behind, BehindCounted,
         BadSeqExplained, FetchesPaid, None

(* What is reported settles the call: the number it leaves in the cache is *)
(* not ahead of the chain, and is behind it only by a counted move.        *)
LEMMA ReportKeeps == SeqInv /\ Report => SeqInv'
  <1> SUFFICES ASSUME SeqInv, Report PROVE SeqInv'
    OBVIOUS
  <1>1. PICK o \in Outcomes :
          /\ MayReport(o)
          /\ sequence_cache' = CacheAfter(o)
          /\ drops' = IF o \in {"bad_seq", "poll_timeout"} THEN drops + 1 ELSE drops
          /\ bad_seqs' = IF o = "bad_seq" THEN bad_seqs + 1 ELSE bad_seqs
          /\ surprises' = IF o \notin Told /\ tx.st = "landed" THEN surprises + 1 ELSE surprises
    BY DEF Report
  <1>2. /\ call_pc = "sent" /\ call_pc' = "call" /\ tx' = NoTx
        /\ account' = account /\ fetches' = fetches
    BY DEF Report
  <1>3. tx.seq = sequence_cache /\ tx.seq # None /\ tx.seq \in Nat /\ tx.seq <= account + 1
    BY <1>2 DEF SeqInv, CacheUsed, Typed, NoGap
  <1>4. CASE o \in Told
    <2>1. tx.st = "landed" /\ sequence_cache' = tx.seq + 1 /\ tx.seq <= account
      BY <1>1, <1>4 DEF MayReport, CacheAfter, SeqInv, LandedUsed
    <2>2. drops' = drops /\ bad_seqs' = bad_seqs /\ surprises' = surprises
      BY <1>1, <1>4 DEF Told
    <2> QED
      BY <1>2, <1>3, <2>1, <2>2
      DEF SeqInv, Typed, CacheUsed, LandedUsed, NoGap, Behind, BehindCounted,
          BadSeqExplained, FetchesPaid, None, NoTx
  <1>5. CASE o = "bad_seq"
    <2>1. sequence_cache' = None /\ drops' = drops + 1 /\ bad_seqs' = bad_seqs + 1
      BY <1>1, <1>5 DEF CacheAfter, Told
    <2>2. bad_seqs + 1 <= surprises'
      <3>1. tx.seq # account + 1
        BY <1>1, <1>5 DEF MayReport
      <3>2. CASE tx.st = "landed"
        BY <1>1, <1>5, <3>2 DEF Told, SeqInv, BadSeqExplained, Typed
      <3>3. CASE tx.st # "landed"
        <4>1. Behind
          BY <1>3, <3>1, <3>3 DEF Behind, SeqInv, Typed
        <4>2. surprises' = surprises
          BY <1>1, <3>3
        <4> QED
          BY <4>1, <4>2 DEF SeqInv, BehindCounted, Typed
      <3> QED
        BY <3>2, <3>3
    <2>3. surprises' \in Nat
      BY <1>1 DEF SeqInv, Typed
    <2> QED
      BY <1>2, <1>3, <2>1, <2>2, <2>3
      DEF SeqInv, Typed, CacheUsed, LandedUsed, NoGap, Behind, BehindCounted,
          BadSeqExplained, FetchesPaid, None, NoTx
  <1>6. CASE o = "poll_timeout"
    <2>1. sequence_cache' = None /\ drops' = drops + 1 /\ bad_seqs' = bad_seqs
      BY <1>1, <1>6 DEF CacheAfter, Told
    <2>2. surprises' \in Nat /\ surprises' >= surprises
      BY <1>1 DEF SeqInv, Typed
    <2> QED
      BY <1>2, <1>3, <2>1, <2>2
      DEF SeqInv, Typed, CacheUsed, LandedUsed, NoGap, Behind, BehindCounted,
          BadSeqExplained, FetchesPaid, None, NoTx
  <1>7. CASE o \notin Told \cup {"bad_seq", "poll_timeout"}
    <2>1. sequence_cache' = sequence_cache /\ drops' = drops /\ bad_seqs' = bad_seqs
      BY <1>1, <1>7 DEF CacheAfter, Told
    <2>2. surprises' = IF tx.st = "landed" THEN surprises + 1 ELSE surprises
      BY <1>1, <1>7
    <2>3. sequence_cache' <= account => bad_seqs < surprises'
      BY <1>3, <2>1, <2>2 DEF SeqInv, BehindCounted, BadSeqExplained, Behind, Typed
    <2> QED
      BY <1>2, <1>3, <2>1, <2>2, <2>3
      DEF SeqInv, Typed, CacheUsed, LandedUsed, NoGap, Behind, BehindCounted,
          BadSeqExplained, FetchesPaid, None, NoTx
  <1> QED
    BY <1>4, <1>5, <1>6, <1>7

LEMMA SeqNext == SeqInv /\ [SequenceNext]_seqVars => SeqInv'
  <1> SUFFICES ASSUME SeqInv, [SequenceNext]_seqVars PROVE SeqInv'
    OBVIOUS
  <1> USE DEF None, NoTx
  <1>1. CASE LandCall
    BY <1>1 DEF LandCall, Use, histVars, SeqInv, Typed, CacheUsed, LandedUsed, NoGap, Behind,
                BehindCounted, BadSeqExplained, FetchesPaid
  <1>2. CASE ExpireCall
    BY <1>2 DEF ExpireCall, histVars, SeqInv, Typed, CacheUsed, LandedUsed, NoGap, Behind,
                BehindCounted, BadSeqExplained, FetchesPaid
  <1>3. CASE LandOrphan
    BY <1>3, SurpriseKeeps DEF LandOrphan
  <1>4. CASE ExpireOrphan
    BY <1>4 DEF ExpireOrphan, callVars, histVars, SeqInv, Typed, CacheUsed, LandedUsed, NoGap,
                Behind, BehindCounted, BadSeqExplained, FetchesPaid
  <1>5. CASE OtherUse
    BY <1>5, SurpriseKeeps DEF OtherUse
  <1>6. CASE BeginCycle
    BY <1>6 DEF BeginCycle, histVars, SeqInv, Typed, CacheUsed, LandedUsed, NoGap, Behind,
                BehindCounted, BadSeqExplained, FetchesPaid
  <1>7. CASE SetPrices
    <2>1. CASE Use(account + 1) /\ call_pc' = "call" /\ UNCHANGED <<sequence_cache, tx, histVars>>
      BY <1>7, <2>1 DEF SetPrices, Use, histVars, SeqInv, Typed, CacheUsed, LandedUsed, NoGap,
                        Behind, BehindCounted, BadSeqExplained, FetchesPaid
    <2>2. CASE EndCycle /\ UNCHANGED account
      BY <2>2, EndKeeps DEF SeqInv, Typed
    <2> QED
      BY <1>7, <2>1, <2>2 DEF SetPrices
  <1>8. CASE Fetch
    BY <1>8 DEF Fetch, SeqInv, Typed, CacheUsed, LandedUsed, NoGap, Behind, BehindCounted,
                BadSeqExplained, FetchesPaid
  <1>9. CASE NotBuilt
    BY <1>9 DEF NotBuilt, histVars, SeqInv, Typed, CacheUsed, LandedUsed, NoGap, Behind,
                BehindCounted, BadSeqExplained, FetchesPaid
  <1>10. CASE Send
    BY <1>10 DEF Send, histVars, SeqInv, Typed, CacheUsed, LandedUsed, NoGap, Behind,
                 BehindCounted, BadSeqExplained, FetchesPaid
  <1>11. CASE Report
    BY <1>11, ReportKeeps
  <1>12. CASE Finish \/ CutCycle
    BY <1>12, EndKeeps DEF Finish, CutCycle, SeqInv, Typed
  <1>13. CASE UNCHANGED seqVars
    BY <1>13 DEF seqVars, SeqInv, Typed, CacheUsed, LandedUsed, NoGap, Behind, BehindCounted,
                 BadSeqExplained, FetchesPaid
  <1> QED
    BY <1>1, <1>2, <1>3, <1>4, <1>5, <1>6, <1>7, <1>8, <1>9, <1>10, <1>11, <1>12, <1>13
    DEF SequenceNext

(* The cache never runs ahead of the chain, whatever lands behind the      *)
(* cycle's back and whatever is reported.                                  *)
THEOREM CacheBehindChain == SequenceSpec => []NoGap
  <1>1. SeqInv => NoGap
    BY DEF SeqInv
  <1> QED
    BY <1>1, SeqInit, SeqNext, PTL DEF SequenceSpec

(* A rejection for the number has a cause outside the cycle, and each      *)
(* cause costs one call.                                                   *)
THEOREM RejectionsExplained == SequenceSpec => []BadSeqExplained
  <1>1. SeqInv => BadSeqExplained
    BY DEF SeqInv
  <1> QED
    BY <1>1, SeqInit, SeqNext, PTL DEF SequenceSpec

(* One fetch serves a cycle, and one more each outcome that drops the      *)
(* cache.                                                                  *)
THEOREM FetchesExplained == SequenceSpec => []FetchedSparingly
  <1>1. SeqInv => FetchedSparingly
    BY DEF SeqInv, FetchesPaid, FetchedSparingly, Typed
  <1> QED
    BY <1>1, SeqInit, SeqNext, PTL DEF SequenceSpec

=============================================================================
