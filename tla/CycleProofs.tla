---------------------------- MODULE CycleProofs ----------------------------
(***************************************************************************)
(* Proofs about what a keeper cycle reads and publishes before it executes *)
(* anything. First the reading of the pending keys, for any number of      *)
(* lists and keys: wherever the index that the reads share stands when a   *)
(* list is read, the order it gives is a rotation of the list. Then the    *)
(* publication of prices, for every set of tokens, every threshold,        *)
(* staleness, heartbeat and cycle cap, and every bound.                    *)
(***************************************************************************)
EXTENDS PendingKeys, Publication, TLAPS

(* Position by position, what a rotation is.                               *)
LEMMA RotatedAt ==
  ASSUME NEW S, NEW s \in Seq(S), NEW i \in Nat, i > 0, i < Len(s)
  PROVE  /\ Rotated(s, i) \in Seq(S) /\ Len(Rotated(s, i)) = Len(s)
         /\ \A k \in 1..Len(s) :
              Rotated(s, i)[k] = IF k <= Len(s) - i THEN s[k + i] ELSE s[k - (Len(s) - i)]
  <1> DEFINE a == SubSeq(s, i + 1, Len(s))
             b == SubSeq(s, 1, i)
  <1>1. Rotated(s, i) = a \o b
    BY DEF Rotated
  <1>2. Len(s) \in Nat
    OBVIOUS
  <1>3. a \in Seq(S) /\ Len(a) = Len(s) - i /\ \A k \in 1..(Len(s) - i) : a[k] = s[k + i]
    BY <1>2
  <1>4. b \in Seq(S) /\ Len(b) = i /\ \A k \in 1..i : b[k] = s[k]
    BY <1>2
  <1> HIDE DEF a, b
  <1>5. a \o b \in Seq(S) /\ Len(a \o b) = Len(a) + Len(b)
    <2>1. a \in Seq(S) /\ b \in Seq(S)
      BY <1>3, <1>4
    <2> QED
      BY <2>1
  <1>6. \A k \in 1..Len(s) : (a \o b)[k] = IF k <= Len(a) THEN a[k] ELSE b[k - Len(a)]
    <2>1. Len(s) = Len(a) + Len(b) /\ Len(a) \in Nat /\ Len(b) \in Nat
      BY <1>2, <1>3, <1>4
    <2>2. \A k \in 1..(Len(a) + Len(b)) : (a \o b)[k] = IF k <= Len(a) THEN a[k] ELSE b[k - Len(a)]
      BY <1>3, <1>4
    <2> QED
      BY <2>1, <2>2
  <1>7. ASSUME NEW k \in 1..Len(s)
        PROVE  (a \o b)[k] = IF k <= Len(s) - i THEN s[k + i] ELSE s[k - (Len(s) - i)]
    <2>1. k <= Len(s) - i => k \in 1..(Len(s) - i)
      BY <1>2
    <2>2. ~(k <= Len(s) - i) => k - (Len(s) - i) \in 1..i
      BY <1>2
    <2> QED
      BY <1>3, <1>4, <1>6, <2>1, <2>2
  <1> QED
    BY <1>1, <1>2, <1>3, <1>4, <1>5, <1>7

(* A rotation has each key of the list as often as the list has it.        *)
LEMMA RotatedKeepsKeys ==
  ASSUME NEW S, NEW s \in Seq(S), IsInjective(s), NEW i \in Nat
  PROVE  IsInjective(Rotated(s, i)) /\ Range(Rotated(s, i)) = Range(s)
  <1>1. CASE ~(i > 0 /\ i < Len(s))
    BY <1>1 DEF Rotated
  <1>2. CASE i > 0 /\ i < Len(s)
    <2> DEFINE r == Rotated(s, i)
               n == Len(s)
               from(k) == IF k <= n - i THEN k + i ELSE k - (n - i)
    <2>1. n \in Nat /\ DOMAIN s = 1..n
      OBVIOUS
    <2>2. DOMAIN r = 1..n /\ \A k \in 1..n : r[k] = s[from(k)]
      <3>1. r \in Seq(S) /\ Len(r) = n
        BY <1>2, RotatedAt
      <3>2. DOMAIN r = 1..n
        BY <3>1
      <3>3. \A k \in 1..n : r[k] = IF k <= n - i THEN s[k + i] ELSE s[k - (n - i)]
        BY <1>2, RotatedAt
      <3> QED
        BY <3>2, <3>3
    <2>3. \A k \in 1..n : from(k) \in 1..n
      BY <1>2, <2>1
    <2>4. \A j, k \in 1..n : from(j) = from(k) => j = k
      BY <1>2, <2>1
    <2>5. \A m \in 1..n : \E k \in 1..n : from(k) = m
      <3> SUFFICES ASSUME NEW m \in 1..n PROVE \E k \in 1..n : from(k) = m
        OBVIOUS
      <3>1. CASE m <= i
        <4>1. m + (n - i) \in 1..n /\ from(m + (n - i)) = m
          BY <1>2, <2>1, <3>1
        <4> QED
          BY <4>1
      <3>2. CASE m > i
        <4>1. m - i \in 1..n /\ from(m - i) = m
          BY <1>2, <2>1, <3>2
        <4> QED
          BY <4>1
      <3> QED
        BY <2>1, <3>1, <3>2
    <2> HIDE DEF r, n, from
    <2>6. IsInjective(r)
      BY <2>1, <2>2, <2>3, <2>4 DEF IsInjective
    <2>7. Range(r) = Range(s)
      BY <2>1, <2>2, <2>3, <2>5 DEF Range
    <2> QED
      BY <2>6, <2>7 DEF r
  <1> QED
    BY <1>1, <1>2

-----------------------------------------------------------------------------
(* A list has each key once, however work is added and taken out.          *)
ListInv ==
  /\ list \in [Lists -> Seq(Key)]
  /\ \A l \in Lists : IsInjective(list[l])
  /\ pending_key_start_index \in Nat
  /\ pc \in [Lists -> {"count", "keys", "ok", "error"}]
  /\ start \in [Lists -> Nat]
  /\ DOMAIN keys = Lists

LEMMA AppendedOnce ==
  ASSUME NEW S, NEW s \in Seq(S), IsInjective(s), NEW k \in S, k \notin Range(s)
  PROVE  Append(s, k) \in Seq(S) /\ IsInjective(Append(s, k))
  <1>1. Append(s, k) \in Seq(S) /\ Len(s) \in Nat /\ DOMAIN Append(s, k) = 1..(Len(s) + 1)
    OBVIOUS
  <1>2. \A j \in 1..Len(s) : Append(s, k)[j] = s[j] /\ s[j] # k
    BY DEF Range
  <1>3. Append(s, k)[Len(s) + 1] = k
    OBVIOUS
  <1> QED
    BY <1>1, <1>2, <1>3 DEF IsInjective

LEMMA RemovedOnce ==
  ASSUME NEW S, NEW s \in Seq(S), IsInjective(s), NEW i \in DOMAIN s
  PROVE  LET r == Front([s EXCEPT ![i] = Last(s)])
         IN  r \in Seq(S) /\ IsInjective(r)
  <1> DEFINE n == Len(s)
             e == [s EXCEPT ![i] = Last(s)]
             r == Front(e)
  <1>1. n \in Nat /\ n > 0 /\ DOMAIN s = 1..n /\ i \in 1..n /\ Last(s) = s[n] /\ s[n] \in S
    BY DEF Last
  <1>2. e \in Seq(S) /\ Len(e) = n /\ \A k \in 1..n : e[k] = IF k = i THEN s[n] ELSE s[k]
    BY <1>1
  <1> HIDE DEF e, n
  <1>3. r \in Seq(S) /\ DOMAIN r = 1..(n - 1) /\ \A k \in 1..(n - 1) : r[k] = e[k]
    BY <1>1, <1>2 DEF Front
  <1> HIDE DEF r
  <1>4. ASSUME NEW j \in 1..(n - 1), NEW k \in 1..(n - 1), r[j] = r[k] PROVE j = k
    <2>1. j \in 1..n /\ k \in 1..n /\ j # n /\ k # n
      BY <1>1
    <2>2. (IF j = i THEN s[n] ELSE s[j]) = (IF k = i THEN s[n] ELSE s[k])
      BY <1>2, <1>3, <1>4, <2>1
    <2>3. n \in 1..n
      BY <1>1
    <2> QED
      BY <1>1, <2>1, <2>2, <2>3 DEF IsInjective
  <1>5. IsInjective(r)
    BY <1>3, <1>4 DEF IsInjective
  <1> QED
    BY <1>3, <1>5 DEF r, e

LEMMA ListInit == KeysInit => ListInv
  BY InitialAssumption DEF KeysInit, ListInv

LEMMA NextIndexNat == ASSUME pending_key_start_index \in Nat, NEW n \in Nat PROVE NextIndex(n) \in Nat
  BY DEF NextIndex

LEMMA ListNext == ListInv /\ [KeysNext]_keysVars => ListInv'
  <1> SUFFICES ASSUME ListInv, [KeysNext]_keysVars PROVE ListInv'
    OBVIOUS
  <1>1. ASSUME NEW l \in Lists, ReadCount(l) PROVE ListInv'
    <2>1. Len(list[l]) \in Nat
      BY DEF ListInv
    <2>2. NextIndex(Len(list[l])) \in Nat
      BY <2>1, NextIndexNat DEF ListInv
    <2> QED
      BY <1>1, <2>2 DEF ReadCount, ListInv
  <1>2. ASSUME NEW l \in Lists, ReadKeys(l) PROVE ListInv'
    BY <1>2 DEF ReadKeys, ListInv
  <1>3. ASSUME NEW l \in Lists, ReadFails(l) PROVE ListInv'
    BY <1>3 DEF ReadFails, ListInv
  <1>4. CASE NextCycle
    BY <1>4 DEF NextCycle, ListInv
  <1>5. ASSUME NEW l \in Lists, NEW k \in Key, Append1(l, k) PROVE ListInv'
    <2>1. list[l] \in Seq(Key) /\ IsInjective(list[l]) /\ k \notin Range(list[l])
      BY <1>5 DEF Append1, ListInv
    <2>2. Append(list[l], k) \in Seq(Key) /\ IsInjective(Append(list[l], k))
      BY <2>1, AppendedOnce
    <2>3. list' = [list EXCEPT ![l] = Append(list[l], k)]
      BY <1>5 DEF Append1
    <2> QED
      BY <1>5, <2>2, <2>3 DEF Append1, ListInv
  <1>6. ASSUME NEW l \in Lists, NEW i \in DOMAIN list[l], Remove1(l, i) PROVE ListInv'
    <2> DEFINE r == Front([list[l] EXCEPT ![i] = Last(list[l])])
    <2>1. list[l] \in Seq(Key) /\ IsInjective(list[l])
      BY DEF ListInv
    <2>2. r \in Seq(Key) /\ IsInjective(r)
      BY <2>1, RemovedOnce
    <2>3. list' = [list EXCEPT ![l] = r]
      BY <1>6 DEF Remove1
    <2> HIDE DEF r
    <2> QED
      BY <1>6, <2>2, <2>3 DEF Remove1, ListInv
  <1>7. CASE UNCHANGED keysVars
    BY <1>7 DEF keysVars, ListInv
  <1> QED
    BY <1>1, <1>2, <1>3, <1>4, <1>5, <1>6, <1>7 DEF KeysNext, Read, Change

(* A read that succeeds has each key of its list once, whatever the other  *)
(* reads, and those of the cycles before, did to the index they share.     *)
THEOREM KeysReadOnce == KeysSpec => EachKeyOnce
  <1>1. ListInv /\ [KeysNext]_keysVars =>
          [\A l \in Lists : pc[l] = "keys" /\ pc'[l] = "ok" =>
             /\ IsInjective(keys'[l])
             /\ Range(keys'[l]) = Range(list[l])]_keysVars
    <2> SUFFICES ASSUME ListInv, KeysNext, NEW l \in Lists, pc[l] = "keys", pc'[l] = "ok"
                 PROVE  IsInjective(keys'[l]) /\ Range(keys'[l]) = Range(list[l])
      OBVIOUS
    <2>1. ReadKeys(l)
      <3>1. ASSUME NEW m \in Lists, ReadCount(m) PROVE FALSE
        BY <3>1 DEF ReadCount, ListInv
      <3>2. ASSUME NEW m \in Lists, ReadFails(m) PROVE FALSE
        BY <3>2 DEF ReadFails, ListInv
      <3>3. ASSUME NEW m \in Lists, ReadKeys(m), m # l PROVE FALSE
        BY <3>3 DEF ReadKeys, ListInv
      <3>4. ASSUME NextCycle \/ Change PROVE FALSE
        BY <3>4 DEF NextCycle, Change, Append1, Remove1
      <3> QED
        BY <3>1, <3>2, <3>3, <3>4 DEF KeysNext, Read
    <2>2. keys'[l] = Rotated(list[l], start[l])
      BY <2>1 DEF ReadKeys, ListInv
    <2>3. list[l] \in Seq(Key) /\ IsInjective(list[l]) /\ start[l] \in Nat
      BY DEF ListInv
    <2> QED
      BY <2>2, <2>3, RotatedKeepsKeys
  <1> QED
    BY <1>1, ListInit, ListNext, PTL DEF KeysSpec, EachKeyOnce

-----------------------------------------------------------------------------
(* The publication of prices.                                              *)

LEMMA TimesInt == /\ Times \subseteq Int
                  /\ Heartbeat \in Nat /\ Heartbeat > 0 /\ CycleTimeout \in Nat /\ Horizon \in Nat
                  /\ \A t \in Tokens : StaleAfter[t] \in Nat
  BY TimesAssumption, SettingsAssumption DEF Times

(* A partial function on the tokens, by what it is and by what makes it.   *)
LEMMA PartialElim ==
  ASSUME NEW S, NEW f \in Partial(S)
  PROVE  DOMAIN f \subseteq Tokens /\ f \in [DOMAIN f -> S] /\ \A t \in DOMAIN f : f[t] \in S
  BY DEF Partial

LEMMA PartialIntro ==
  ASSUME NEW S, NEW T \in SUBSET Tokens, NEW f \in [T -> S]
  PROVE  f \in Partial(S)
  BY DEF Partial

LEMMA NothingPartial == \A S : NothingPriced \in Partial(S) /\ DOMAIN NothingPriced = {}
  <1> SUFFICES ASSUME NEW S PROVE NothingPriced \in Partial(S) /\ DOMAIN NothingPriced = {}
    OBVIOUS
  <1>1. NothingPriced \in [{} -> S]
    BY DEF NothingPriced
  <1> QED
    BY <1>1, PartialIntro

LEMMA UpdatedPartial ==
  ASSUME NEW S, NEW f \in Partial(S), NEW g \in Partial(S)
  PROVE  /\ Updated(f, g) \in Partial(S)
         /\ DOMAIN Updated(f, g) = DOMAIN f \cup DOMAIN g
         /\ \A t \in DOMAIN f \cup DOMAIN g :
              Updated(f, g)[t] = IF t \in DOMAIN g THEN g[t] ELSE f[t]
  <1>1. DOMAIN f \cup DOMAIN g \in SUBSET Tokens
    BY PartialElim
  <1>2. Updated(f, g) \in [DOMAIN f \cup DOMAIN g -> S]
    BY PartialElim DEF Updated
  <1> QED
    BY <1>1, <1>2, PartialIntro DEF Updated

LEMMA OnlyPartial ==
  ASSUME NEW S, NEW f \in Partial(S), NEW T
  PROVE  /\ Only(f, T) \in Partial(S)
         /\ DOMAIN Only(f, T) = DOMAIN f \cap T
         /\ \A t \in DOMAIN f \cap T : Only(f, T)[t] = f[t]
  <1>1. DOMAIN f \cap T \in SUBSET Tokens
    BY PartialElim
  <1>2. Only(f, T) \in [DOMAIN f \cap T -> S]
    BY PartialElim DEF Only
  <1> QED
    BY <1>1, <1>2, PartialIntro DEF Only

LEMMA MediansPartial ==
  ASSUME NEW f \in Partial(Price)
  PROVE  /\ MediansOf(f) \in Partial(Some)
         /\ DOMAIN MediansOf(f) = DOMAIN f
         /\ \A t \in DOMAIN f : MediansOf(f)[t] = f[t].median
  <1>1. DOMAIN f \in SUBSET Tokens
    BY PartialElim
  <1>2. \A t \in DOMAIN f : f[t] \in Price
    BY PartialElim
  <1>3. \A t \in DOMAIN f : f[t].median \in Some
    BY <1>2 DEF Price
  <1>4. MediansOf(f) \in [DOMAIN f -> Some]
    BY <1>3 DEF MediansOf
  <1> QED
    BY <1>1, <1>4, PartialIntro DEF MediansOf

-----------------------------------------------------------------------------
(* Types.                                                                  *)

Batches == [prices : Partial(Price), polled : BOOLEAN]

LEMMA TypeInit == Init => TypeOK
  <1> SUFFICES ASSUME Init PROVE TypeOK
    OBVIOUS
  <1>1. {fresh, batch, chain} \subseteq Partial(Price) /\ last_submitted_medians \in Partial(Some)
    BY NothingPartial DEF Init
  <1>2. now \in 0..Horizon /\ last_full_submission \in -1..now /\ k_started \in 0..now
        /\ counts_from \in 0..now
    BY TimesInt DEF Init
  <1> QED
    BY <1>1, <1>2 DEF Init, TypeOK

(* What ends a cycle leaves it typed.                                      *)
LEMMA EndType ==
  ASSUME TypeOK, EndKeeperCycle
  PROVE  /\ {fresh', batch'} \subseteq Partial(Price)
         /\ kpc' = "idle" /\ k_started' = 0 /\ counts_from' = 0
         /\ {is_heartbeat', landed'} \subseteq BOOLEAN
  BY NothingPartial DEF EndKeeperCycle

LEMMA BeginType ==
  ASSUME TypeOK, BeginKeeperCycle
  PROVE  /\ TypeOK'
         /\ \A t \in DOMAIN fresh' : ~IsStale(t, fresh'[t])
  <1>1. PICK T \in SUBSET Tokens : \E prices \in [T -> Price] :
          fresh' = prices /\ \A t \in T : ~IsStale(t, prices[t])
    BY DEF BeginKeeperCycle, Price
  <1>2. fresh' \in [T -> Price] /\ \A t \in T : ~IsStale(t, fresh'[t])
    BY <1>1
  <1>3. fresh' \in Partial(Price) /\ DOMAIN fresh' = T
    BY <1>2, PartialIntro
  <1>4. TypeOK'
    BY <1>3, TimesInt DEF BeginKeeperCycle, recordVars, chainVars, TypeOK
  <1> QED
    BY <1>2, <1>3, <1>4

(* The prices of a publication are fresh ones.                             *)
Published == IF HeartbeatDue THEN fresh ELSE Only(fresh, Moved)

LEMMA PublishedFresh ==
  ASSUME TypeOK
  PROVE  /\ Published \in Partial(Price)
         /\ \A t \in DOMAIN Published : t \in DOMAIN fresh /\ Published[t] = fresh[t]
         /\ HeartbeatDue => DOMAIN Published = DOMAIN fresh
         /\ ~HeartbeatDue => DOMAIN Published = DOMAIN fresh \cap Moved
  <1>1. fresh \in Partial(Price)
    BY DEF TypeOK
  <1>2. CASE HeartbeatDue
    BY <1>1, <1>2 DEF Published
  <1>3. CASE ~HeartbeatDue
    <2>1. Published = Only(fresh, Moved)
      BY <1>3 DEF Published
    <2>2. /\ Only(fresh, Moved) \in Partial(Price)
          /\ DOMAIN Only(fresh, Moved) = DOMAIN fresh \cap Moved
          /\ \A t \in DOMAIN fresh \cap Moved : Only(fresh, Moved)[t] = fresh[t]
      BY <1>1, OnlyPartial
    <2> QED
      BY <1>3, <2>1, <2>2
  <1> QED
    BY <1>2, <1>3

(* The ways through Publish: the cycle ends, has nothing to publish, or    *)
(* publishes.                                                              *)
PublishEnds == kpc = "read" /\ EndKeeperCycle /\ UNCHANGED live

PublishNothing ==
  /\ kpc = "read" /\ DOMAIN Published = {} /\ ~HeartbeatDue
  /\ kpc' = "orders"
  /\ UNCHANGED <<cycleVars, live, landed>>

PublishSends ==
  /\ kpc = "read"
  /\ kpc' = "sent"
  /\ batch' = Published
  /\ counts_from' = now
  /\ is_heartbeat' = HeartbeatDue
  /\ live' = live \cup {[prices |-> Published, polled |-> TRUE]}
  /\ UNCHANGED <<k_started, fresh, landed>>

LEMMA PublishWays ==
  ASSUME Publish
  PROVE  /\ PublishEnds \/ PublishNothing \/ PublishSends
         /\ UNCHANGED <<now, recordVars, chain>>
  BY DEF Publish, PublishEnds, PublishNothing, PublishSends, Published

LEMMA PublishType == ASSUME TypeOK, Publish PROVE TypeOK'
  <1>1. UNCHANGED <<now, recordVars, chain>>
    BY PublishWays
  <1>2. CASE PublishEnds
    BY <1>1, <1>2, EndType, TimesInt DEF PublishEnds, recordVars, TypeOK
  <1>3. CASE PublishNothing
    BY <1>1, <1>3 DEF PublishNothing, recordVars, cycleVars, TypeOK
  <1>4. CASE PublishSends
    <2>1. batch' \in Partial(Price)
      BY <1>4, PublishedFresh DEF PublishSends
    <2>2. live' \subseteq [prices : Partial(Price), polled : BOOLEAN]
      <3>1. Published \in Partial(Price)
        BY PublishedFresh
      <3>2. [prices |-> Published, polled |-> TRUE] \in [prices : Partial(Price), polled : BOOLEAN]
        BY <3>1
      <3>3. live \subseteq [prices : Partial(Price), polled : BOOLEAN]
        BY DEF TypeOK
      <3> QED
        BY <1>4, <3>2, <3>3 DEF PublishSends
    <2>3. HeartbeatDue \in BOOLEAN
      BY DEF HeartbeatDue
    <2> QED
      BY <1>1, <1>4, <2>1, <2>2, <2>3 DEF PublishSends, recordVars, TypeOK
  <1> QED
    BY <1>2, <1>3, <1>4, PublishWays

LEMMA ConfirmedType ==
  ASSUME TypeOK, Confirmed
  PROVE  TypeOK'
  <1>1. /\ batch \in Partial(Price) /\ last_submitted_medians \in Partial(Some)
        /\ MediansOf(batch) \in Partial(Some)
    BY MediansPartial DEF TypeOK
  <1>2. last_submitted_medians' \in Partial(Some)
    BY <1>1, UpdatedPartial DEF Confirmed, RecordMedians
  <1>3. unrecorded' \in BOOLEAN
    BY DEF Confirmed, TypeOK
  <1>4. last_full_submission' \in -1..now
    BY DEF Confirmed, TypeOK
  <1> QED
    BY <1>2, <1>3, <1>4 DEF Confirmed, cycleVars, chainVars, TypeOK

LEMMA OrphanedType ==
  ASSUME live \subseteq Batches
  PROVE  /\ Orphaned \subseteq Batches
         /\ \A o \in Orphaned : ~o.polled /\ \E b \in live : o.prices = b.prices
  BY DEF Orphaned, Batches

LEMMA GiveUpType == ASSUME TypeOK, GiveUp PROVE TypeOK'
  <1>1. live' \subseteq [prices : Partial(Price), polled : BOOLEAN]
    BY OrphanedType DEF GiveUp, TypeOK, Batches
  <1>2. unrecorded' \in BOOLEAN
    BY DEF GiveUp, TypeOK
  <1> QED
    BY <1>1, <1>2, EndType, TimesInt DEF GiveUp, TypeOK

LEMMA LandType == ASSUME TypeOK, NEW b \in live, Land(b) PROVE TypeOK'
  <1>1. b.prices \in Partial(Price) /\ b.polled \in BOOLEAN /\ chain \in Partial(Price)
    BY DEF TypeOK
  <1>2. chain' \in Partial(Price) /\ landed' \in BOOLEAN
    BY <1>1, UpdatedPartial DEF Land, TypeOK
  <1> QED
    BY <1>2 DEF Land, recordVars, cycleVars, TypeOK

LEMMA TypeNext == TypeOK /\ [Next]_vars => TypeOK'
  <1> SUFFICES ASSUME TypeOK, [Next]_vars PROVE TypeOK'
    OBVIOUS
  <1>1. CASE BeginKeeperCycle
    BY <1>1, BeginType
  <1>2. CASE Publish
    BY <1>2, PublishType
  <1>3. CASE Confirmed
    BY <1>3, ConfirmedType
  <1>4. CASE GiveUp
    BY <1>4, GiveUpType
  <1>5. ASSUME NEW b \in live, Land(b) PROVE TypeOK'
    BY <1>5, LandType
  <1>6. ASSUME NEW b \in live, Expire(b) PROVE TypeOK'
    BY <1>6 DEF Expire, recordVars, cycleVars, TypeOK
  <1>7. CASE Fail \/ ExecuteOrder
    BY <1>7 DEF Fail, ExecuteOrder, recordVars, cycleVars, TypeOK
  <1>8. CASE Tick
    BY <1>8, TimesInt DEF Tick, WithinCap, recordVars, cycleVars, chainVars, TypeOK
  <1>9. CASE UNCHANGED vars
    BY <1>9 DEF vars, recordVars, cycleVars, chainVars, TypeOK
  <1> QED
    BY <1>1, <1>2, <1>3, <1>4, <1>5, <1>6, <1>7, <1>8, <1>9 DEF Next

(* The state of the publication is well-typed: no clock runs ahead, and no *)
(* cycle outlives its cap.                                                 *)
THEOREM TypeCorrect == Spec => []TypeOK
  BY TypeInit, TypeNext, PTL DEF Spec

-----------------------------------------------------------------------------
(* What the cycle that is under way publishes. Only a batch that is being  *)
(* polled is its own, and once it has landed nothing else can.             *)
CycleInv ==
  /\ kpc \in {"idle", "read"} => batch = NothingPriced /\ ~landed
  /\ landed => kpc \in {"sent", "orders"} /\ \A t \in DOMAIN batch : t \in DOMAIN chain
  /\ landed /\ kpc = "sent" => live = {} /\ \A t \in DOMAIN batch : chain[t] = batch[t]
  /\ \A b \in live : b.polled => kpc = "sent" /\ b.prices = batch
  /\ kpc = "sent" => k_started <= counts_from

(* A token that is fresh in the cycle is in the batch, or recorded at a    *)
(* median it has not moved away from.                                      *)
ChoiceInv ==
  kpc \in {"sent", "orders"} =>
    \A t \in DOMAIN fresh :
      \/ t \in DOMAIN batch /\ batch[t] = fresh[t]
      \/ /\ kpc = "sent" => ~is_heartbeat
         /\ t \in DOMAIN last_submitted_medians
         /\ ~MoveExceedsBps(last_submitted_medians[t], fresh[t].median, Threshold[t])

BatchInv ==
  /\ \A t \in DOMAIN batch : t \in DOMAIN fresh /\ batch[t] = fresh[t]
  /\ kpc = "orders" =>
       \A t \in DOMAIN batch :
         t \in DOMAIN last_submitted_medians /\ last_submitted_medians[t] = batch[t].median

(* With every publication recorded, the chain has what the record says,    *)
(* but for a batch that has just landed.                                   *)
RecordInv ==
  ~unrecorded =>
    /\ \A b \in live : b.polled
    /\ \A t \in DOMAIN last_submitted_medians :
         /\ t \in DOMAIN chain
         /\ \/ chain[t].median = last_submitted_medians[t]
            \/ (kpc = "sent" /\ landed /\ t \in DOMAIN batch)

(* Times.                                                                  *)
Since(t, ts, x) == ts > x - CycleTimeout - StaleAfter[t]

AgeInv ==
  /\ \A t \in DOMAIN fresh : fresh[t].timestamp > k_started - StaleAfter[t]
  /\ \A t \in DOMAIN last_submitted_medians :
       t \in DOMAIN chain /\ Since(t, chain[t].timestamp, last_full_submission)
  /\ \A b \in live : \A t \in DOMAIN b.prices :
       Since(t, b.prices[t].timestamp, last_full_submission)
  /\ kpc = "orders" \/ (kpc = "sent" /\ ~is_heartbeat) =>
       k_started - last_full_submission < Heartbeat

PubInv == CycleInv /\ ChoiceInv /\ BatchInv /\ RecordInv /\ AgeInv

LEMMA PubInit == Init => PubInv
  <1> SUFFICES ASSUME Init PROVE PubInv
    OBVIOUS
  <1>1. /\ DOMAIN fresh = {} /\ DOMAIN batch = {} /\ DOMAIN last_submitted_medians = {}
        /\ batch = NothingPriced /\ kpc = "idle" /\ ~landed /\ live = {}
    BY NothingPartial DEF Init
  <1> QED
    BY <1>1 DEF PubInv, CycleInv, ChoiceInv, BatchInv, RecordInv, AgeInv

LEMMA BeginKeeps == ASSUME TypeOK, PubInv, BeginKeeperCycle PROVE PubInv'
  <1>1. /\ kpc = "idle" /\ kpc' = "read" /\ k_started' = now
        /\ UNCHANGED <<now, last_submitted_medians, last_full_submission, unrecorded,
                       batch, counts_from, is_heartbeat, chain, live, landed>>
    BY DEF BeginKeeperCycle, recordVars, chainVars
  <1>2. batch = NothingPriced /\ DOMAIN batch = {} /\ ~landed
    BY <1>1, NothingPartial DEF PubInv, CycleInv
  <1>3. ASSUME NEW t \in DOMAIN fresh' PROVE fresh'[t].timestamp > k_started' - StaleAfter[t]
    <2>1. ~IsStale(t, fresh'[t]) /\ TypeOK'
      BY BeginType
    <2>2. t \in Tokens /\ fresh'[t] \in Price
      BY <2>1, PartialElim DEF TypeOK
    <2>3. fresh'[t].timestamp \in Int /\ StaleAfter[t] \in Nat /\ now \in Int
      BY <2>2, TimesInt DEF Price, TypeOK
    <2> QED
      BY <1>1, <2>1, <2>3 DEF IsStale
  <1>4. CycleInv' /\ ChoiceInv' /\ BatchInv' /\ RecordInv'
    BY <1>1, <1>2 DEF PubInv, CycleInv, ChoiceInv, BatchInv, RecordInv
  <1>5. AgeInv'
    BY <1>1, <1>3 DEF PubInv, AgeInv, Since
  <1> QED
    BY <1>4, <1>5 DEF PubInv

LEMMA EndKeeps ==
  ASSUME TypeOK, PubInv, EndKeeperCycle, UNCHANGED <<now, last_submitted_medians,
           last_full_submission, chain>>,
         \A o \in live' : ~o.polled /\ \E b \in live : o.prices = b.prices,
         unrecorded => unrecorded',
         ~unrecorded' => live' = {} /\ ~(kpc = "sent" /\ landed)
  PROVE  PubInv'
  <1>1. /\ kpc' = "idle" /\ batch' = NothingPriced /\ ~landed'
        /\ DOMAIN fresh' = {} /\ DOMAIN batch' = {}
    BY NothingPartial DEF EndKeeperCycle
  <1>2. CycleInv' /\ ChoiceInv' /\ BatchInv'
    BY <1>1 DEF CycleInv, ChoiceInv, BatchInv
  <1>3. RecordInv'
    BY <1>1 DEF PubInv, RecordInv
  <1>4. AgeInv'
    BY <1>1 DEF PubInv, AgeInv, Since
  <1> QED
    BY <1>2, <1>3, <1>4 DEF PubInv

LEMMA ReadIsClean ==
  ASSUME PubInv, kpc = "read"
  PROVE  ~landed /\ batch = NothingPriced /\ DOMAIN batch = {} /\ \A b \in live : ~b.polled
  BY NothingPartial DEF PubInv, CycleInv

(* A token that is fresh and not among those that moved.                   *)
LEMMA NotMoved ==
  ASSUME NEW t \in DOMAIN fresh, t \notin Moved
  PROVE  /\ t \in DOMAIN last_submitted_medians
         /\ ~MoveExceedsBps(last_submitted_medians[t], fresh[t].median, Threshold[t])
  BY DEF Moved

LEMMA HeartbeatNotDue ==
  ASSUME TypeOK, ~HeartbeatDue
  PROVE  k_started - last_full_submission < Heartbeat
  BY TimesInt DEF HeartbeatDue, TypeOK

LEMMA PublishKeeps == ASSUME TypeOK, PubInv, Publish PROVE PubInv'
  <1>1. UNCHANGED <<now, last_submitted_medians, last_full_submission, unrecorded, chain>>
    BY PublishWays DEF recordVars
  <1>2. kpc = "read"
    BY DEF Publish
  <1>3. CASE PublishEnds
    <2>1. EndKeeperCycle /\ live' = live /\ (~unrecorded' => live' = {})
      BY <1>1, <1>2, <1>3, ReadIsClean DEF PublishEnds, PubInv, RecordInv
    <2>2. \A o \in live' : ~o.polled /\ \E b \in live : o.prices = b.prices
      BY <1>2, <2>1, ReadIsClean
    <2> QED
      BY <1>1, <1>2, <2>1, <2>2, EndKeeps
  <1>4. CASE PublishNothing
    <2>1. /\ kpc' = "orders" /\ ~HeartbeatDue /\ DOMAIN Published = {}
          /\ UNCHANGED <<k_started, fresh, batch, counts_from, is_heartbeat, live, landed>>
      BY <1>4 DEF PublishNothing, cycleVars
    <2>2. \A t \in DOMAIN fresh : t \notin Moved
      BY <2>1, PublishedFresh
    <2>3. ChoiceInv'
      BY <1>1, <2>1, <2>2, NotMoved DEF ChoiceInv
    <2>4. CycleInv' /\ BatchInv' /\ RecordInv'
      BY <1>1, <1>2, <2>1, ReadIsClean DEF PubInv, CycleInv, BatchInv, RecordInv
    <2>5. AgeInv'
      BY <1>1, <1>2, <2>1, HeartbeatNotDue DEF PubInv, AgeInv, Since
    <2> QED
      BY <2>3, <2>4, <2>5 DEF PubInv
  <1>5. CASE PublishSends
    <2>1. /\ kpc' = "sent" /\ batch' = Published /\ counts_from' = now
          /\ is_heartbeat' = HeartbeatDue
          /\ live' = live \cup {[prices |-> Published, polled |-> TRUE]}
          /\ UNCHANGED <<k_started, fresh, landed>>
      BY <1>5 DEF PublishSends
    <2>2. /\ \A t \in DOMAIN Published : t \in DOMAIN fresh /\ Published[t] = fresh[t]
          /\ HeartbeatDue => DOMAIN Published = DOMAIN fresh
          /\ ~HeartbeatDue => DOMAIN Published = DOMAIN fresh \cap Moved
      BY PublishedFresh
    <2>3. ChoiceInv'
      BY <1>1, <2>1, <2>2, NotMoved DEF ChoiceInv
    <2>4. k_started <= now
      BY DEF TypeOK
    <2>5. CycleInv'
      BY <1>2, <2>1, <2>4, ReadIsClean DEF CycleInv
    <2>6. BatchInv'
      BY <2>1, <2>2 DEF BatchInv
    <2>7. RecordInv'
      BY <1>1, <1>2, <2>1 DEF PubInv, RecordInv
    <2>8. ASSUME NEW t \in DOMAIN fresh
          PROVE  Since(t, fresh[t].timestamp, last_full_submission)
      <3>1. t \in Tokens /\ fresh[t] \in Price
        BY PartialElim DEF TypeOK
      <3>2. fresh[t].timestamp \in Int /\ StaleAfter[t] \in Nat
        BY <3>1, TimesInt DEF Price
      <3>3. fresh[t].timestamp > k_started - StaleAfter[t]
        BY DEF PubInv, AgeInv
      <3>4. last_full_submission <= k_started + CycleTimeout /\ last_full_submission \in Int
            /\ k_started \in Int
        BY <1>2, TimesInt DEF TypeOK
      <3> QED
        BY <3>2, <3>3, <3>4, TimesInt DEF Since
    <2>9. AgeInv'
      <3>1. \A b \in live' : \A t \in DOMAIN b.prices :
              Since(t, b.prices[t].timestamp, last_full_submission)
        BY <2>1, <2>2, <2>8 DEF PubInv, AgeInv
      <3> QED
        BY <1>1, <2>1, <3>1, HeartbeatNotDue DEF PubInv, AgeInv, Since
    <2> QED
      BY <2>3, <2>5, <2>6, <2>7, <2>9 DEF PubInv
  <1> QED
    BY <1>3, <1>4, <1>5, PublishWays

LEMMA ConfirmedKeeps == ASSUME TypeOK, PubInv, Confirmed PROVE PubInv'
  <1>1. /\ kpc = "sent" /\ landed /\ kpc' = "orders"
        /\ UNCHANGED <<now, k_started, fresh, batch, counts_from, is_heartbeat, chain, live, landed>>
        /\ RecordMedians
        /\ last_full_submission' = IF is_heartbeat THEN counts_from ELSE last_full_submission
        /\ unrecorded' = (unrecorded /\ ~is_heartbeat)
    BY DEF Confirmed, cycleVars, chainVars
  <1>2. live = {} /\ (\A t \in DOMAIN batch : t \in DOMAIN chain /\ chain[t] = batch[t])
        /\ k_started <= counts_from
    BY <1>1 DEF PubInv, CycleInv
  <1>3. /\ DOMAIN last_submitted_medians' =
             DOMAIN batch \cup (IF is_heartbeat THEN {} ELSE DOMAIN last_submitted_medians)
        /\ \A t \in DOMAIN batch : last_submitted_medians'[t] = batch[t].median
        /\ \A t \in DOMAIN last_submitted_medians' \ DOMAIN batch :
             last_submitted_medians'[t] = last_submitted_medians[t]
    <2>1. batch \in Partial(Price) /\ last_submitted_medians \in Partial(Some)
      BY DEF TypeOK
    <2>2. /\ MediansOf(batch) \in Partial(Some) /\ DOMAIN MediansOf(batch) = DOMAIN batch
          /\ \A t \in DOMAIN batch : MediansOf(batch)[t] = batch[t].median
      BY <2>1, MediansPartial
    <2>3. CASE is_heartbeat
      BY <1>1, <2>2, <2>3 DEF RecordMedians
    <2>4. CASE ~is_heartbeat
      <3>1. last_submitted_medians' = Updated(last_submitted_medians, MediansOf(batch))
        BY <1>1, <2>4 DEF RecordMedians
      <3>2. /\ DOMAIN last_submitted_medians' = DOMAIN last_submitted_medians \cup DOMAIN batch
            /\ \A t \in DOMAIN last_submitted_medians \cup DOMAIN batch :
                 last_submitted_medians'[t] =
                   IF t \in DOMAIN batch THEN MediansOf(batch)[t] ELSE last_submitted_medians[t]
        BY <2>1, <2>2, <3>1, UpdatedPartial
      <3> QED
        BY <2>2, <2>4, <3>2
    <2> QED
      BY <2>3, <2>4
  <1>4. ChoiceInv'
    BY <1>1, <1>3 DEF PubInv, ChoiceInv, BatchInv
  <1>5. CycleInv' /\ BatchInv'
    BY <1>1, <1>2, <1>3 DEF PubInv, CycleInv, BatchInv
  <1>6. RecordInv'
    BY <1>1, <1>2, <1>3 DEF PubInv, RecordInv
  <1>7. /\ last_full_submission' \in Int /\ last_full_submission' <= k_started + CycleTimeout
        /\ k_started \in Int
    BY <1>1, TimesInt DEF TypeOK
  <1>8. ASSUME NEW t \in DOMAIN batch PROVE Since(t, batch[t].timestamp, last_full_submission')
    <2>1. t \in DOMAIN fresh /\ batch[t] = fresh[t] /\ t \in Tokens /\ batch[t] \in Price
      BY PartialElim DEF PubInv, BatchInv, TypeOK
    <2>2. batch[t].timestamp \in Int /\ StaleAfter[t] \in Nat
      BY <2>1, TimesInt DEF Price
    <2>3. batch[t].timestamp > k_started - StaleAfter[t]
      BY <2>1 DEF PubInv, AgeInv
    <2> QED
      BY <1>7, <2>2, <2>3, TimesInt DEF Since
  <1>9. \A t \in DOMAIN last_submitted_medians' :
          t \in DOMAIN chain /\ Since(t, chain[t].timestamp, last_full_submission')
    BY <1>1, <1>2, <1>3, <1>8 DEF PubInv, AgeInv
  <1>10. k_started - last_full_submission' < Heartbeat
    <2>1. CASE is_heartbeat
      BY <1>1, <1>2, <2>1, TimesInt DEF TypeOK
    <2>2. CASE ~is_heartbeat
      BY <1>1, <2>2 DEF PubInv, AgeInv
    <2> QED
      BY <2>1, <2>2
  <1>11. AgeInv'
    BY <1>1, <1>2, <1>9, <1>10 DEF PubInv, AgeInv, Since
  <1> QED
    BY <1>4, <1>5, <1>6, <1>11 DEF PubInv

LEMMA GiveUpKeeps == ASSUME TypeOK, PubInv, GiveUp PROVE PubInv'
  <1>1. /\ EndKeeperCycle /\ live' = Orphaned
        /\ unrecorded' = (unrecorded \/ (kpc = "sent" /\ (landed \/ \E b \in live : b.polled)))
        /\ UNCHANGED <<now, last_submitted_medians, last_full_submission, chain>>
    BY DEF GiveUp
  <1>2. \A o \in live' : ~o.polled /\ \E b \in live : o.prices = b.prices
    BY <1>1, OrphanedType DEF TypeOK, Batches
  <1>3. ~unrecorded' => live' = {} /\ ~(kpc = "sent" /\ landed)
    <2> SUFFICES ASSUME ~unrecorded', NEW o \in live' PROVE FALSE
      BY <1>1
    <2>1. PICK b \in live : TRUE
      BY <1>2
    <2>2. b.polled /\ kpc = "sent"
      BY <1>1 DEF PubInv, RecordInv, CycleInv
    <2> QED
      BY <1>1, <2>2
  <1> QED
    BY <1>1, <1>2, <1>3, EndKeeps

LEMMA LandKeeps == ASSUME TypeOK, PubInv, NEW b \in live, Land(b) PROVE PubInv'
  <1>1. /\ chain' = Updated(chain, b.prices) /\ live' = {} /\ landed' = (landed \/ b.polled)
        /\ UNCHANGED <<now, last_submitted_medians, last_full_submission, unrecorded, kpc,
                       k_started, fresh, batch, counts_from, is_heartbeat>>
    BY DEF Land, recordVars, cycleVars
  <1>2. /\ DOMAIN chain' = DOMAIN chain \cup DOMAIN b.prices
        /\ \A t \in DOMAIN chain \cup DOMAIN b.prices :
             chain'[t] = IF t \in DOMAIN b.prices THEN b.prices[t] ELSE chain[t]
    <2>1. PICK p : p = b.prices
      OBVIOUS
    <2>2. chain \in Partial(Price) /\ p \in Partial(Price)
      BY <2>1 DEF TypeOK
    <2>3. chain' = Updated(chain, p)
      BY <1>1, <2>1
    <2> QED
      BY <2>1, <2>2, <2>3, UpdatedPartial
  <1>3. CycleInv'
    BY <1>1, <1>2 DEF PubInv, CycleInv
  <1>4. ChoiceInv' /\ BatchInv'
    BY <1>1 DEF PubInv, ChoiceInv, BatchInv
  <1>5. RecordInv'
    BY <1>1, <1>2 DEF PubInv, RecordInv, CycleInv
  <1>6. AgeInv'
    BY <1>1, <1>2 DEF PubInv, AgeInv, Since
  <1> QED
    BY <1>3, <1>4, <1>5, <1>6 DEF PubInv

(* Whatever only takes transactions off the network, or lets time pass.    *)
LEMMA OthersKeep ==
  ASSUME PubInv, live' \subseteq live,
         UNCHANGED <<last_submitted_medians, last_full_submission, unrecorded, kpc, k_started,
                     fresh, batch, counts_from, is_heartbeat, chain, landed>>
  PROVE  PubInv'
  BY DEF PubInv, CycleInv, ChoiceInv, BatchInv, RecordInv, AgeInv, Since

LEMMA PubNext == TypeOK /\ PubInv /\ [Next]_vars => PubInv'
  <1> SUFFICES ASSUME TypeOK, PubInv, [Next]_vars PROVE PubInv'
    OBVIOUS
  <1>1. CASE BeginKeeperCycle
    BY <1>1, BeginKeeps
  <1>2. CASE Publish
    BY <1>2, PublishKeeps
  <1>3. CASE Confirmed
    BY <1>3, ConfirmedKeeps
  <1>4. CASE GiveUp
    BY <1>4, GiveUpKeeps
  <1>5. ASSUME NEW b \in live, Land(b) PROVE PubInv'
    BY <1>5, LandKeeps
  <1>6. ASSUME NEW b \in live, Expire(b) PROVE PubInv'
    BY <1>6, OthersKeep DEF Expire, recordVars, cycleVars
  <1>7. CASE Fail \/ ExecuteOrder \/ Tick
    BY <1>7, OthersKeep DEF Fail, ExecuteOrder, Tick, recordVars, cycleVars, chainVars
  <1>8. CASE UNCHANGED vars
    BY <1>8, OthersKeep DEF vars, recordVars, cycleVars, chainVars
  <1> QED
    BY <1>1, <1>2, <1>3, <1>4, <1>5, <1>6, <1>7, <1>8 DEF Next

LEMMA SpecPubInv == Spec => [](TypeOK /\ PubInv)
  BY TypeCorrect, PubInit, PubNext, PTL DEF Spec

-----------------------------------------------------------------------------
(* What has not moved is close, and so is what is the same: the comparison *)
(* that may overflow against the exact one.                                *)
LEMMA NoMove ==
  ASSUME NEW a \in Nat, NEW b \in Nat, NEW bps \in Nat, ~MoveExceedsBps(a, b, bps)
  PROVE  Distance(a, b) * BPS_DENOMINATOR <= a * bps
  <1>1. a * bps \in Nat /\ Distance(a, b) * BPS_DENOMINATOR \in Nat
    BY DEF Distance, BPS_DENOMINATOR
  <1>2. CASE a = b
    <2>1. Distance(a, b) * BPS_DENOMINATOR = 0
      BY <1>2 DEF Distance, BPS_DENOMINATOR
    <2> QED
      BY <1>1, <2>1
  <1>3. CASE a # b
    <2>1. ~(Distance(a, b) * BPS_DENOMINATOR > a * bps)
      BY <1>3 DEF MoveExceedsBps
    <2> QED
      BY <1>1, <2>1
  <1> QED
    BY <1>2, <1>3

(* With every publication recorded, orders are executed against prices     *)
(* within the threshold of the fresh ones, whatever the cycles before      *)
(* published (filter_prices_by_threshold, update_submitted_prices).        *)
THEOREM ExecutesClose == Spec => []PublishedClose
  <1>1. TypeOK /\ PubInv => PublishedClose
    <2> SUFFICES ASSUME TypeOK, PubInv, kpc = "orders", ~unrecorded, NEW t \in DOMAIN fresh
                 PROVE  CloseTo(t)
      BY DEF PublishedClose
    <2>1. \A u \in DOMAIN last_submitted_medians :
            u \in DOMAIN chain /\ chain[u].median = last_submitted_medians[u]
      BY DEF PubInv, RecordInv
    <2>2. fresh[t].median \in Nat /\ Threshold[t] \in Nat
      <3>1. t \in Tokens /\ fresh[t] \in Price
        BY PartialElim DEF TypeOK
      <3> QED
        BY <3>1, MediansAssumption, SettingsAssumption DEF Price, Some
    <2>3. CASE t \in DOMAIN batch /\ batch[t] = fresh[t]
      <3>1. t \in DOMAIN chain /\ chain[t].median = fresh[t].median
        BY <2>1, <2>3 DEF PubInv, BatchInv
      <3>2. ~MoveExceedsBps(fresh[t].median, fresh[t].median, Threshold[t])
        BY DEF MoveExceedsBps
      <3> QED
        BY <2>2, <3>1, <3>2, NoMove DEF CloseTo
    <2>4. CASE /\ t \in DOMAIN last_submitted_medians
               /\ ~MoveExceedsBps(last_submitted_medians[t], fresh[t].median, Threshold[t])
      <3>1. t \in DOMAIN chain /\ chain[t].median = last_submitted_medians[t]
        BY <2>1, <2>4
      <3>2. chain[t].median \in Nat
        <4>1. chain[t] \in Price
          BY <3>1, PartialElim DEF TypeOK
        <4> QED
          BY <4>1, MediansAssumption DEF Price, Some
      <3> QED
        BY <2>2, <2>4, <3>1, <3>2, NoMove DEF CloseTo
    <2> QED
      BY <2>3, <2>4 DEF PubInv, ChoiceInv
  <1> QED
    BY <1>1, SpecPubInv, PTL

(* A price on chain that is not close, because a publication went          *)
(* unrecorded, is one the heartbeat has yet to replace.                    *)
THEOREM HeartbeatEndsDrift == Spec => []DriftEnds
  <1>1. TypeOK /\ PubInv => DriftEnds
    <2> SUFFICES ASSUME TypeOK, PubInv, kpc = "orders"
                 PROVE  now - last_full_submission < Heartbeat + CycleTimeout
      BY DEF DriftEnds
    <2>1. k_started - last_full_submission < Heartbeat
      BY DEF PubInv, AgeInv
    <2> QED
      BY <2>1, TimesInt DEF TypeOK
  <1> QED
    BY <1>1, SpecPubInv, PTL

(* No order is executed against a price older than its staleness, two      *)
(* cycles and a heartbeat, whichever publications landed, and when.        *)
THEOREM ChainAgeBounded == Spec => []AgeBounded
  <1>1. TypeOK /\ PubInv => AgeBounded
    <2> SUFFICES ASSUME TypeOK, PubInv, kpc = "orders", NEW t \in DOMAIN fresh \cap DOMAIN chain
                 PROVE  now - chain[t].timestamp
                          <= (StaleAfter[t] - 1) + CycleTimeout + (Heartbeat - 1) + CycleTimeout
      BY DEF AgeBounded
    <2>1. t \in DOMAIN last_submitted_medians
      BY DEF PubInv, ChoiceInv, BatchInv
    <2>2. Since(t, chain[t].timestamp, last_full_submission)
      BY <2>1 DEF PubInv, AgeInv
    <2>3. t \in Tokens /\ chain[t] \in Price
      BY PartialElim DEF TypeOK
    <2>4. chain[t].timestamp \in Int /\ StaleAfter[t] \in Nat
      BY <2>3, TimesInt DEF Price
    <2>5. k_started - last_full_submission < Heartbeat
      BY DEF PubInv, AgeInv
    <2>6. /\ now \in Int /\ k_started \in Int /\ last_full_submission \in Int
          /\ now - k_started <= CycleTimeout
      BY TimesInt DEF TypeOK
    <2> QED
      BY <2>2, <2>4, <2>5, <2>6, TimesInt DEF Since
  <1> QED
    BY <1>1, SpecPubInv, PTL

=============================================================================
