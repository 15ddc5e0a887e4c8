----------------------------- MODULE Readiness -----------------------------
(***************************************************************************)
(* GET /ready (oracle/src/api/prices.rs): the price cache, the age of the  *)
(* two loops and, under one write lock on a cache of the last result, the  *)
(* probes of the RPC node and of the keeper's balance; together with the   *)
(* schedule of the keeper loop (oracle/src/keeper_loop.rs), whose age it   *)
(* judges.                                                                 *)
(*                                                                         *)
(* Time is a number of ticks, one keeper_loop_interval each.               *)
(***************************************************************************)
EXTENDS Integers, FiniteSets

CONSTANTS
  Probes,        \* requests for /ready that may be in progress
  PriceStale,    \* 3 * price_loop_interval
  KeeperStale,   \* 3 * keeper_loop_interval
  Backoff,       \* IDLE_BACKOFF_MULTIPLIER * keeper_loop_interval
  CycleCap,      \* KEEPER_CYCLE_TIMEOUT_SECS
  TTL,           \* of the cached result (3 s)
  CheckCap,      \* READY_CHECK_TIMEOUT_SECS
  RequestCap,    \* the router's TimeoutLayer (30 s)
  Tries          \* READY_BALANCE_RETRY_ATTEMPTS

ASSUME ReadinessAssumption ==
  /\ {PriceStale, KeeperStale, Backoff, CycleCap} \subseteq Nat
  /\ {TTL, CheckCap, RequestCap, Tries} \subseteq Nat \ {0}
  /\ CheckCap < RequestCap

VARIABLES
  prices,     \* price_cache.prices has a price
  priceAge,   \* since last_price_cycle_at
  keeperAge,  \* since last_keeper_cycle_at
  keeper,     \* run_keeper_loop: what it waits for, since when; was_idle: idle_tick
  result,     \* ready_cache: its age and whether it holds an error
  lock,       \* who holds its write lock
  probe,      \* the requests
  verified    \* history: since both probes last succeeded

readyVars == <<prices, priceAge, keeperAge, keeper, result, lock, probe, verified>>
loopVars == <<prices, priceAge, keeperAge, keeper>>

Never == -1
Nobody == "nobody"
ASSUME NobodyAssumption == Nobody \notin Probes
Upto(n) == {Never} \cup 0..n

(* Ages are counted up to the first that tells nothing more.               *)
MaxPriceAge == PriceStale + RequestCap + 1
MaxKeeperAge == KeeperStale + RequestCap + 1

Steps == {"prices", "price_loop", "keeper_loop", "lock", "rpc", "balance"}

(* An error of the price checks or of the probes is any 503 but one.       *)
Answers == {"ok", "keeper_loop_stale", "unavailable"}
NoProbe == [st |-> "none"]
ProbeSet == {NoProbe}
  \cup [st : Steps, age : 0..RequestCap, check : 0..CheckCap, try : 1..Tries]
  \cup [st : {"answered"}, answer : Answers]

ReadyTypeOK ==
  /\ prices \in BOOLEAN
  /\ priceAge \in Upto(MaxPriceAge)
  /\ keeperAge \in Upto(MaxKeeperAge)
  /\ keeper \in [st : {"tick", "idle_tick", "backoff", "cycle", "late_cycle", "dead"},
                 age : 0..(Backoff + CycleCap + 1)]
  /\ result \in [age : Upto(TTL), ok : BOOLEAN]
  /\ lock \in Probes \cup {Nobody}
  /\ probe \in [Probes -> ProbeSet]
  /\ verified \in Upto(TTL)

ReadyInit ==
  /\ prices = FALSE /\ priceAge = Never /\ keeperAge = Never
  /\ keeper = [st |-> "tick", age |-> 1]
  /\ result = [age |-> Never, ok |-> FALSE]
  /\ lock = Nobody
  /\ probe = [r \in Probes |-> NoProbe]
  /\ verified = Never

-----------------------------------------------------------------------------
(* The two loops.                                                          *)

(* run_price_cycle ends; when it left no valid price it cleared the cache. *)
PriceCycleEnds ==
  /\ priceAge' = 0
  /\ prices' \in BOOLEAN
  /\ UNCHANGED <<keeperAge, keeper, result, lock, probe, verified>>

Waits(st) == [st |-> st, age |-> 0]

(* The ticker fires one interval after it last did, at once when late.     *)
KeeperTick ==
  /\ keeper.st \in {"tick", "idle_tick"} /\ keeper.age > 0
  /\ keeper' = Waits(IF keeper.st = "idle_tick" THEN "backoff" ELSE "cycle")
  /\ UNCHANGED <<prices, priceAge, keeperAge, result, lock, probe, verified>>

KeeperBackoffEnds ==
  /\ keeper.st = "backoff" /\ keeper.age >= Backoff
  /\ keeper' = Waits("late_cycle")
  /\ UNCHANGED <<prices, priceAge, keeperAge, result, lock, probe, verified>>

(* run_keeper_cycle ends; it was idle when it succeeded and executed       *)
(* nothing.                                                                *)
KeeperCycleEnds ==
  /\ keeper.st \in {"cycle", "late_cycle"}
  /\ keeperAge' = 0
  /\ \E st \in {"tick", "idle_tick"} :
       keeper' = [st |-> st, age |-> IF keeper.st = "late_cycle" \/ keeper.age > 0 THEN 1 ELSE 0]
  /\ UNCHANGED <<prices, priceAge, result, lock, probe, verified>>

(* The loop ends: a panic, which main answers with a shutdown.             *)
KeeperDies ==
  /\ keeper.st # "dead"
  /\ keeper' = Waits("dead")
  /\ UNCHANGED <<prices, priceAge, keeperAge, result, lock, probe, verified>>

-----------------------------------------------------------------------------
(* ready.                                                                  *)

Answer(r, a) == probe' = [probe EXCEPT ![r] = [st |-> "answered", answer |-> a]]
Goto(r, st) == probe' = [probe EXCEPT ![r].st = st, ![r].try = 1]

AskReady(r) ==
  /\ probe[r] = NoProbe
  /\ probe' = [probe EXCEPT ![r] = [st |-> "prices", age |-> 0, check |-> 0, try |-> 1]]
  /\ UNCHANGED <<loopVars, result, lock, verified>>

Stale(age, threshold) == age = Never \/ age > threshold

(* Three looks, each under a read lock of its own that may be waited for.  *)
Look(r, at, bad, answer, next) ==
  /\ probe[r].st = at
  /\ IF bad THEN Answer(r, answer) ELSE Goto(r, next)
  /\ UNCHANGED <<loopVars, result, lock, verified>>

CheckPrices(r) == Look(r, "prices", ~prices, "unavailable", "price_loop")

CheckPriceLoop(r) ==
  Look(r, "price_loop", Stale(priceAge, PriceStale), "unavailable", "keeper_loop")

CheckKeeperLoop(r) ==
  Look(r, "keeper_loop", Stale(keeperAge, KeeperStale), "keeper_loop_stale", "lock")

CheckLoops(r) == CheckPrices(r) \/ CheckPriceLoop(r) \/ CheckKeeperLoop(r)

(* Mutant: a result never expires.                                         *)
FreshForEver == result.age # Never

Fresh == result.age # Never /\ result.age < TTL

(* Mutant: the lock is let go for the checks.                              *)
TakeLockBriefly(r) ==
  /\ probe[r].st = "lock"
  /\ lock = Nobody
  /\ IF Fresh THEN Answer(r, IF result.ok THEN "ok" ELSE "unavailable")
              ELSE Goto(r, "rpc")
  /\ UNCHANGED <<loopVars, result, lock, verified>>

(* The lock is taken; a result of the last TTL is repeated, error or not,  *)
(* and otherwise the lock is kept for the checks (#1021).                  *)
TakeLock(r) ==
  /\ probe[r].st = "lock"
  /\ lock = Nobody
  /\ IF Fresh
     THEN /\ Answer(r, IF result.ok THEN "ok" ELSE "unavailable")
          /\ UNCHANGED lock
     ELSE /\ Goto(r, "rpc")
          /\ lock' = r
  /\ UNCHANGED <<loopVars, result, verified>>

(* Mutant: the error of an earlier check stays.                            *)
FinishKeepingError(r, a) ==
  /\ Answer(r, a)
  /\ result' = [age |-> 0, ok |-> result.ok \/ a = "ok"]
  /\ lock' = Nobody
  /\ verified' = IF a = "ok" THEN 0 ELSE verified
  /\ UNCHANGED loopVars

(* The checks are over: their result is stored and answered.               *)
Finish(r, a) ==
  /\ Answer(r, a)
  /\ result' = [age |-> 0, ok |-> a = "ok"]
  /\ lock' = Nobody
  /\ verified' = IF a = "ok" THEN 0 ELSE verified
  /\ UNCHANGED loopVars

(* retry_ready_probe: the next attempt, or the error of the last.          *)
Retry(r) ==
  IF probe[r].try < Tries
  THEN /\ probe' = [probe EXCEPT ![r].try = @ + 1]
       /\ UNCHANGED <<loopVars, result, lock, verified>>
  ELSE Finish(r, "unavailable")

RpcReached(r) ==
  /\ probe[r].st = "rpc"
  /\ Goto(r, "balance")
  /\ UNCHANGED <<loopVars, result, lock, verified>>

(* No answer within READY_RPC_PROBE_TIMEOUT_SECS, or not a success.        *)
RpcFails(r) == probe[r].st = "rpc" /\ Retry(r)

BalanceEnough(r) == probe[r].st = "balance" /\ Finish(r, "ok")

(* BalanceBelowMinimum is not retried.                                     *)
BalanceLow(r) == probe[r].st = "balance" /\ Finish(r, "unavailable")

BalanceFails(r) == probe[r].st = "balance" /\ Retry(r)

CheckTimesOut(r) ==
  /\ probe[r].st \in {"rpc", "balance"}
  /\ probe[r].check >= CheckCap
  /\ Finish(r, "unavailable")

(* The request is dropped, by the TimeoutLayer or because the client has   *)
(* gone: its lock goes with it and nothing is stored.                      *)
DropReady(r) ==
  /\ probe[r].st \in Steps
  /\ lock' = IF lock = r THEN Nobody ELSE lock
  /\ probe' = [probe EXCEPT ![r] = NoProbe]
  /\ UNCHANGED <<loopVars, result, verified>>

Receive(r) ==
  /\ probe[r].st = "answered"
  /\ probe' = [probe EXCEPT ![r] = NoProbe]
  /\ UNCHANGED <<loopVars, result, lock, verified>>

-----------------------------------------------------------------------------
(* Time. A timer that is due fires before time goes on, and run_keeper_    *)
(* cycle is cut by its cap.                                                *)

Aged(age, max) == IF age = Never \/ age = max THEN age ELSE age + 1

KeeperDue ==
  \/ keeper.st \in {"tick", "idle_tick"} /\ keeper.age > 0
  \/ keeper.st = "backoff" /\ keeper.age >= Backoff
  \/ keeper.st \in {"cycle", "late_cycle"} /\ keeper.age >= CycleCap

ProbeDue(r) ==
  \/ probe[r].st \in Steps /\ probe[r].age >= RequestCap
  \/ probe[r].st \in {"rpc", "balance"} /\ probe[r].check >= CheckCap

ReadyTick ==
  /\ ~KeeperDue
  /\ \A r \in Probes : ~ProbeDue(r)
  /\ priceAge' = Aged(priceAge, MaxPriceAge)
  /\ keeperAge' = Aged(keeperAge, MaxKeeperAge)
  /\ keeper' = IF keeper.st = "dead" THEN keeper ELSE [keeper EXCEPT !.age = @ + 1]
  /\ result' = [result EXCEPT !.age = Aged(@, TTL)]
  /\ verified' = Aged(verified, TTL)
  /\ probe' = [r \in Probes |->
       IF probe[r].st \notin Steps THEN probe[r]
       ELSE [probe[r] EXCEPT !.age = @ + 1,
                             !.check = @ + (IF probe[r].st \in {"rpc", "balance"} THEN 1 ELSE 0)]]
  /\ UNCHANGED <<prices, lock>>

KeeperStep == KeeperTick \/ KeeperBackoffEnds \/ KeeperCycleEnds
ProbeFault(r) == RpcFails(r) \/ BalanceLow(r) \/ BalanceFails(r) \/ CheckTimesOut(r) \/ DropReady(r)
ProbeStep(r) == RpcReached(r) \/ BalanceEnough(r)

(* What a request does once it is under way, the wait for the lock aside.  *)
ProbeRuns(r) == CheckLoops(r) \/ Receive(r) \/ ProbeStep(r) \/ CheckTimesOut(r)

ReadyNext ==
  \/ PriceCycleEnds \/ KeeperStep \/ KeeperDies \/ ReadyTick
  \/ \E r \in Probes : \/ AskReady(r) \/ CheckLoops(r) \/ TakeLock(r)
                       \/ ProbeStep(r) \/ ProbeFault(r) \/ Receive(r)

(* Time passes, timers fire and requests run on. A lock of tokio queues    *)
(* its waiters, so nobody waits for ever while others take it.             *)
ReadySpec ==
  /\ ReadyInit /\ [][ReadyNext]_readyVars
  /\ WF_readyVars(ReadyTick) /\ WF_readyVars(KeeperStep)
  /\ \A r \in Probes : WF_readyVars(ProbeRuns(r)) /\ SF_readyVars(TakeLock(r))

-----------------------------------------------------------------------------
(* Properties.                                                             *)

Answered(r, a) == probe[r].st # "answered" /\ probe'[r] = [st |-> "answered", answer |-> a]

(* An ok answer is true of the recent past: both probes have succeeded     *)
(* within the TTL of the cached result, and the loops, looked at before    *)
(* the wait for the lock, were not stale at most RequestCap ago (#894,     *)
(* #1021).                                                                 *)
ReadySound ==
  [][\A r \in Probes : Answered(r, "ok") =>
       /\ verified' \in 0..(TTL - 1)
       /\ keeperAge \in 0..(KeeperStale + RequestCap)
       /\ priceAge \in 0..(PriceStale + RequestCap)]_readyVars

(* Requests that miss the cache together cost one check: no two of them    *)
(* probe at a time, and none within the TTL of the result another has      *)
(* stored (#1021).                                                         *)
ProbesCoalesced ==
  \A r \in Probes : probe[r].st \in {"rpc", "balance"} => ~Fresh /\ lock = r

(* A failure is not held against the service for ever: once the loops run  *)
(* and the probes succeed, those who go on asking are told so.             *)
ReadyAgain ==
  <>[][/\ \A r \in Probes : ~ProbeFault(r)
       /\ prices /\ ~Stale(priceAge, PriceStale) /\ ~Stale(keeperAge, KeeperStale)]_readyVars
    => ([]<>(\E r \in Probes : probe[r].st = "prices")
          => []<>(\E r \in Probes : probe[r] = [st |-> "answered", answer |-> "ok"]))

(* Cargo.toml: the probe reflects real liveness, so that a keeper loop     *)
(* that is on its schedule is not taken for a dead one.                    *)
LiveLoopIsReady ==
  [][\A r \in Probes : Answered(r, "keeper_loop_stale") =>
       keeperAge = Never \/ keeper.st = "dead"]_readyVars

=============================================================================
