------------------------------ MODULE Sequence ------------------------------
(***************************************************************************)
(* The account sequence number of the keeper (oracle/src/keeper_loop.rs):  *)
(* set_prices fetches it for itself, the handler calls of one cycle share  *)
(* a cached value that each outcome advances, drops or leaves, and earlier *)
(* transactions nobody polls any more use numbers up behind the cache.     *)
(*                                                                         *)
(* One cycle is a sequence of calls of execute_handler, whatever the keys; *)
(* which keys are called is the business of module Keeper.                 *)
(***************************************************************************)
EXTENDS Naturals

CONSTANTS
  MaxSeq,    \* bound: the chain's number goes no further
  MaxCalls,  \* bound: calls of execute_handler in one cycle
  Faults     \* disturbances: see AllFaults

AllFaults == {"lost_answers", "other_user", "lagging_node", "cycle_timeout"}

ASSUME BoundsAssumption == MaxSeq \in Nat /\ MaxCalls \in Nat
ASSUME FaultsAssumption == Faults \subseteq AllFaults

VARIABLES
  account,         \* the account's number on chain: the last one used
  orphans,         \* numbers of transactions that can land and are not polled
  call_pc, calls,  \* the cycle
  sequence_cache,  \* None (0) or the number of the next transaction
  tx,              \* the transaction of the current call
  \* history of the cycle
  fetches,         \* answers of getLedgerEntries
  drops,           \* calls that dropped the cache
  bad_seqs,        \* calls rejected for their number
  surprises        \* moves of the account the cycle was not told of

callVars == <<call_pc, calls, sequence_cache, tx>>
histVars == <<fetches, drops, bad_seqs, surprises>>
seqVars == <<account, orphans, call_pc, calls, sequence_cache, tx,
             fetches, drops, bad_seqs, surprises>>

None == 0
Numbers == 1..(MaxSeq + 1)
Told == {"ok", "failed"}
Outcomes == Told \cup {"bad_seq", "refused", "poll_timeout", "rpc_error", "not_sent"}
NoTx == [st |-> "none", seq |-> None]

SequenceTypeOK ==
  /\ account \in 0..MaxSeq
  /\ orphans \subseteq Numbers
  /\ call_pc \in {"idle", "set_prices", "call", "sent"}
  /\ calls \in 0..MaxCalls
  /\ sequence_cache \in Numbers \cup {None}
  /\ tx \in [st : {"none", "live", "landed", "gone"}, seq : Numbers \cup {None}]
  /\ tx.st # "none" <=> call_pc = "sent"
  /\ call_pc = "sent" => tx.seq = sequence_cache /\ tx.seq # None
  /\ fetches \in 0..MaxCalls
  /\ drops \in 0..MaxCalls
  /\ bad_seqs \in 0..MaxCalls
  /\ surprises \in Nat

SequenceInit ==
  /\ account = 0
  /\ orphans = {}
  /\ call_pc = "idle" /\ calls = 0 /\ sequence_cache = None /\ tx = NoTx
  /\ fetches = 0 /\ drops = 0 /\ bad_seqs = 0 /\ surprises = 0

-----------------------------------------------------------------------------
(* The chain.                                                              *)

(* A number is used up by the transaction that carries the next one.       *)
Use(n) == n = account + 1 /\ n <= MaxSeq /\ account' = n

LandCall ==
  /\ tx.st = "live"
  /\ Use(tx.seq)
  /\ tx' = [tx EXCEPT !.st = "landed"]
  /\ UNCHANGED <<orphans, call_pc, calls, sequence_cache, histVars>>

ExpireCall ==
  /\ tx.st = "live"
  /\ tx' = [tx EXCEPT !.st = "gone"]
  /\ UNCHANGED <<account, orphans, call_pc, calls, sequence_cache, histVars>>

(* An orphan lands; those whose number is used up never will.              *)
LandOrphan ==
  /\ \E n \in orphans : Use(n)
  /\ orphans' = {n \in orphans : n > account'}
  /\ surprises' = surprises + 1
  /\ UNCHANGED <<callVars, fetches, drops, bad_seqs>>

ExpireOrphan ==
  /\ \E n \in orphans : orphans' = orphans \ {n}
  /\ UNCHANGED <<account, callVars, histVars>>

(* Somebody else signs with the keeper's key.                              *)
OtherUse ==
  /\ "other_user" \in Faults
  /\ Use(account + 1)
  /\ surprises' = surprises + 1
  /\ UNCHANGED <<orphans, callVars, fetches, drops, bad_seqs>>

-----------------------------------------------------------------------------
(* The cycle. Its cache is a local variable of execute_keeper_cycle.       *)

EndCycle ==
  /\ call_pc' = "idle" /\ calls' = 0 /\ sequence_cache' = None /\ tx' = NoTx
  /\ fetches' = 0 /\ drops' = 0 /\ bad_seqs' = 0 /\ surprises' = 0

BeginCycle ==
  /\ call_pc = "idle"
  /\ call_pc' \in {"set_prices", "call"}
  /\ UNCHANGED <<account, orphans, calls, sequence_cache, tx, histVars>>

(* set_prices_on_chain takes the number after the account's and leaves the *)
(* cache alone. Its failure ends the cycle, and may leave the transaction  *)
(* with the network.                                                       *)
SetPrices ==
  /\ call_pc = "set_prices"
  /\ \/ /\ Use(account + 1)
        /\ call_pc' = "call"
        /\ UNCHANGED <<orphans, calls, sequence_cache, tx, histVars>>
     \/ /\ orphans' \in {orphans, orphans \cup {account + 1}}
        /\ EndCycle
        /\ UNCHANGED account

(* A call without a cached number fetches one. A node that is behind the   *)
(* chain answers an older one, and the fetch may fail.                     *)
Fetch ==
  /\ call_pc = "call"
  /\ calls < MaxCalls
  /\ sequence_cache = None
  /\ \/ /\ sequence_cache' = account + 1
        /\ fetches' = fetches + 1
        /\ UNCHANGED <<calls, surprises>>
     \/ /\ "lagging_node" \in Faults
        /\ account > 0
        /\ sequence_cache' = account
        /\ fetches' = fetches + 1
        /\ surprises' = surprises + 1
        /\ UNCHANGED calls
     \/ /\ calls' = calls + 1
        /\ UNCHANGED <<sequence_cache, fetches, surprises>>
  /\ UNCHANGED <<account, orphans, call_pc, tx, drops, bad_seqs>>

Send ==
  /\ call_pc = "call"
  /\ calls < MaxCalls
  /\ sequence_cache # None
  /\ call_pc' = "sent"
  /\ calls' = calls + 1
  /\ tx' = [st |-> "live", seq |-> sequence_cache]
  /\ UNCHANGED <<account, orphans, sequence_cache, histVars>>

(* The key, the transaction or its signature cannot be made.               *)
NotBuilt ==
  /\ call_pc = "call"
  /\ calls < MaxCalls
  /\ calls' = calls + 1
  /\ UNCHANGED <<account, orphans, call_pc, sequence_cache, tx, histVars>>

(* What submit_and_poll may report: a landing that happened, a rejection   *)
(* for the number if it is not the next one, and of the others anything. A *)
(* landed transaction reported otherwise moves the account unnoticed.      *)
MayReport(o) ==
  /\ o \in Outcomes \ {"not_sent"}
  /\ o \in Told => tx.st = "landed"
  /\ o = "bad_seq" => tx.seq # account + 1
  /\ o \in {"bad_seq", "refused"} /\ tx.st = "landed" => "lost_answers" \in Faults
  /\ o = "rpc_error" => "lost_answers" \in Faults

(* A live transaction may still land after a poll that ran out or an RPC   *)
(* error, and after a refusal if an answer was lost before.                *)
MayBeLeft(o) ==
  tx.st = "live" /\ (o \in {"poll_timeout", "rpc_error"}
                       \/ (o = "refused" /\ "lost_answers" \in Faults))

(* Mutants: a failed transaction taken for one that used no number (before *)
(* #1288), a poll timeout for one that used it, and a cache dropped by     *)
(* every success (before #805).                                            *)
CacheAfterNoFail(o) ==
  IF o = "ok" THEN tx.seq + 1
  ELSE IF o \in {"bad_seq", "poll_timeout"} THEN None ELSE sequence_cache
CacheAfterGuess(o) ==
  IF o \in Told \cup {"poll_timeout"} THEN tx.seq + 1
  ELSE IF o = "bad_seq" THEN None ELSE sequence_cache
CacheAfterNone(o) == None

CacheAfter(o) ==
  IF o \in Told THEN tx.seq + 1
  ELSE IF o \in {"bad_seq", "poll_timeout"} THEN None
  ELSE sequence_cache

Report ==
  /\ call_pc = "sent"
  /\ \E o \in Outcomes :
       /\ MayReport(o)
       /\ sequence_cache' = CacheAfter(o)
       /\ orphans' \in {orphans} \cup (IF MayBeLeft(o) THEN {orphans \cup {tx.seq}} ELSE {})
       /\ drops' = IF o \in {"bad_seq", "poll_timeout"} THEN drops + 1 ELSE drops
       /\ bad_seqs' = IF o = "bad_seq" THEN bad_seqs + 1 ELSE bad_seqs
       /\ surprises' = IF o \notin Told /\ tx.st = "landed" THEN surprises + 1 ELSE surprises
  /\ call_pc' = "call"
  /\ tx' = NoTx
  /\ UNCHANGED <<account, calls, fetches>>

Finish ==
  /\ call_pc = "call"
  /\ EndCycle
  /\ UNCHANGED <<account, orphans>>

(* The cycle is dropped at an await: the transaction stays with the chain. *)
CutCycle ==
  /\ "cycle_timeout" \in Faults
  /\ call_pc # "idle"
  /\ orphans' = IF tx.st = "live" THEN orphans \cup {tx.seq} ELSE orphans
  /\ EndCycle
  /\ UNCHANGED account

SequenceNext ==
  \/ LandCall \/ ExpireCall \/ LandOrphan \/ ExpireOrphan \/ OtherUse
  \/ BeginCycle \/ SetPrices \/ Fetch \/ NotBuilt \/ Send \/ Report \/ Finish
  \/ CutCycle

SequenceSpec == SequenceInit /\ [][SequenceNext]_seqVars

-----------------------------------------------------------------------------
(* Properties.                                                             *)

(* The cache never runs ahead of the chain: a number that leaves a gap     *)
(* would fail every later call of the cycle, and no landing would close it.*)
NoGap == sequence_cache # None => sequence_cache <= account + 1

(* A call is rejected for its number only because the account moved behind *)
(* the cycle's back, and each such move costs one call at most: no outcome *)
(* the cycle was told of leaves a used number in the cache (#1288).        *)
BadSeqExplained == bad_seqs <= surprises

(* One fetch serves a cycle, and one more each outcome that makes the      *)
(* number uncertain (#805).                                                *)
FetchedSparingly == fetches <= 1 + drops

=============================================================================
