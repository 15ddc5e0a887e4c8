---------------------------- MODULE PendingKeys ----------------------------
(***************************************************************************)
(* get_pending_keys (oracle/src/keeper_loop.rs): once a cycle the three    *)
(* lists of pending work are read concurrently, each by a call for its     *)
(* length and a call for its keys, and put in an order that starts at a    *)
(* rotating index. The index is one atomic shared by the three reads.      *)
(*                                                                         *)
(* The reader contract is outside the repository: as get_pending_keys uses *)
(* it, a call answers the whole list, in the order of the contract.        *)
(***************************************************************************)
EXTENDS Naturals, SequencesExt

CONSTANTS
  Lists,    \* get_order_keys, get_deposit_keys, get_withdrawal_keys
  Key,      \* the keys that may be in a list
  Initial   \* what is in each list at first

ASSUME InitialAssumption == Initial \in [Lists -> {s \in Seq(Key) : IsInjective(s)}]

VARIABLES
  list,                     \* on chain: the keys of each list
  pending_key_start_index,  \* AppState
  pc, count, start, keys    \* the three calls of get_pending_keys

keysVars == <<list, pending_key_start_index, pc, count, start, keys>>

MaxLen == Cardinality(Key)

KeysTypeOK ==
  /\ \A l \in Lists : list[l] \in Seq(Key) /\ IsInjective(list[l])
  /\ pending_key_start_index \in 0..MaxLen
  /\ pc \in [Lists -> {"count", "keys", "ok", "error"}]
  /\ count \in [Lists -> 0..MaxLen]
  /\ start \in [Lists -> 0..MaxLen]
  /\ \A l \in Lists : keys[l] \in Seq(Key)

KeysInit ==
  /\ list = Initial
  /\ pending_key_start_index = 0
  /\ pc = [l \in Lists |-> "count"]
  /\ count = [l \in Lists |-> 0]
  /\ start = [l \in Lists |-> 0]
  /\ keys = [l \in Lists |-> <<>>]

-----------------------------------------------------------------------------
NextIndex(n) == IF n <= 1 THEN 0 ELSE (pending_key_start_index + 1) % n

(* The first simulation answers, and the index is taken and advanced with  *)
(* no await in between. An empty list needs no more.                       *)
ReadCount(l) ==
  LET n == Len(list[l]) IN
  /\ pc[l] = "count"
  /\ count' = [count EXCEPT ![l] = n]
  /\ IF n = 0
     THEN /\ pc' = [pc EXCEPT ![l] = "ok"]
          /\ keys' = [keys EXCEPT ![l] = <<>>]
          /\ UNCHANGED <<start, pending_key_start_index>>
     ELSE /\ pc' = [pc EXCEPT ![l] = "keys"]
          /\ start' = [start EXCEPT ![l] = pending_key_start_index]
          /\ pending_key_start_index' = NextIndex(n)
          /\ UNCHANGED keys
  /\ UNCHANGED list

(* Mutant: the part before the start is forgotten.                         *)
TailOnly(s, i) == IF i > 0 /\ i < Len(s) THEN SubSeq(s, i + 1, Len(s)) ELSE s

Rotated(s, i) ==
  IF i > 0 /\ i < Len(s) THEN SubSeq(s, i + 1, Len(s)) \o SubSeq(s, 1, i) ELSE s

(* The second simulation answers. A list whose length has changed since is *)
(* an error, and the work of that type waits for the next cycle.           *)
ReadKeys(l) ==
  /\ pc[l] = "keys"
  /\ IF Len(list[l]) = count[l]
     THEN /\ pc' = [pc EXCEPT ![l] = "ok"]
          /\ keys' = [keys EXCEPT ![l] = Rotated(list[l], start[l])]
     ELSE /\ pc' = [pc EXCEPT ![l] = "error"]
          /\ UNCHANGED keys
  /\ UNCHANGED <<list, pending_key_start_index, count, start>>

(* Either simulation fails, after its retries: no work of that type in     *)
(* this cycle. An index already taken stays advanced.                      *)
ReadFails(l) ==
  /\ pc[l] \in {"count", "keys"}
  /\ pc' = [pc EXCEPT ![l] = "error"]
  /\ UNCHANGED <<list, pending_key_start_index, count, start, keys>>

(* The cycle goes on with the three results; the next one reads again.     *)
NextCycle ==
  /\ \A l \in Lists : pc[l] \in {"ok", "error"}
  /\ pc' = [l \in Lists |-> "count"]
  /\ keys' = [l \in Lists |-> <<>>]
  /\ count' = [l \in Lists |-> 0]
  /\ start' = [l \in Lists |-> 0]
  /\ UNCHANGED <<list, pending_key_start_index>>

(* Work is added at the end of a list and taken out anywhere, the last key *)
(* moving into the gap.                                                    *)
Append1(l, k) ==
  /\ k \notin Range(list[l])
  /\ list' = [list EXCEPT ![l] = Append(@, k)]
  /\ UNCHANGED <<pending_key_start_index, pc, count, start, keys>>

Remove1(l, i) ==
  /\ list' = [list EXCEPT ![l] = Front([list[l] EXCEPT ![i] = Last(list[l])])]
  /\ UNCHANGED <<pending_key_start_index, pc, count, start, keys>>

Change ==
  \E l \in Lists : \/ \E k \in Key : Append1(l, k)
                   \/ \E i \in DOMAIN list[l] : Remove1(l, i)

Read == \E l \in Lists : ReadCount(l) \/ ReadKeys(l) \/ ReadFails(l)

KeysNext == Read \/ NextCycle \/ Change

KeysSpec == KeysInit /\ [][KeysNext]_keysVars

-----------------------------------------------------------------------------
(* Properties.                                                             *)

(* A read that succeeds has each key of the list once, wherever the other  *)
(* reads have moved the shared index between the two calls. Stated at the  *)
(* step that reads the keys: the list may change afterwards.               *)
EachKeyOnce ==
  [][\A l \in Lists : pc[l] = "keys" /\ pc'[l] = "ok" =>
        /\ IsInjective(keys'[l])
        /\ Range(keys'[l]) = Range(list[l])]_keysVars
=============================================================================
