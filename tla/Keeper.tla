------------------------------- MODULE Keeper -------------------------------
(***************************************************************************)
(* The keeper loop of the oracle (oracle/src/keeper_loop.rs) executing     *)
(* orders, deposits and withdrawals on chain: which keys it may submit,    *)
(* what it remembers about a key between cycles (in-flight marks, failure  *)
(* tallies, the blacklist), the cycle cap that drops a cycle anywhere, the *)
(* admin handler that clears a blacklisted key while a cycle runs, and the *)
(* chain on which a submitted transaction lands, fails or expires.         *)
(*                                                                         *)
(* Time is a number of ticks: ages and remaining lifetimes, never a clock. *)
(* What a submission reports is abstract here (module SubmitOutcome); that *)
(* submit_and_poll keeps to it is shown in Submit and SubmitProofs.        *)
(***************************************************************************)
EXTENDS Naturals, FiniteSets, SubmitOutcome

CONSTANTS
  Orders, Deposits, Withdrawals,  \* the keys of each type of work
  MaxFreeze,    \* MAX_CONSECUTIVE_FREEZE_FAILURES
  MaxExec,      \* MAX_CONSECUTIVE_EXECUTION_FAILURES
  Expiry,       \* IN_FLIGHT_EXPIRY, in ticks
  TxLife,       \* TX_MAX_TIME_SECS, in ticks
  CycleBudget,  \* KEEPER_CYCLE_TIMEOUT_SECS, in ticks
  Outcomes,     \* what the chain and the RPC node may answer
  Faults,       \* which of the disturbing environment actions may happen
  MaxWork       \* bound: work items created

Keys == Orders \cup Deposits \cup Withdrawals

AllFaults == {"cycle_timeout", "restart", "admin", "admin_abort", "cancel",
              "stale_prices", "low_balance", "fetch_error", "set_prices_error"}

ASSUME KindsAssumption ==
  /\ Orders \cap Deposits = {}
  /\ Orders \cap Withdrawals = {}
  /\ Deposits \cap Withdrawals = {}
ASSUME ThresholdsAssumption == MaxFreeze \in Nat \ {0} /\ MaxExec \in Nat \ {0}
ASSUME TimesAssumption ==
  /\ Expiry \in Nat
  /\ TxLife \in Nat
  /\ CycleBudget \in Nat
  /\ CycleBudget + TxLife <= Expiry      \* 50 s + 60 s <= 300 s
ASSUME EnvironmentAssumption ==
  Outcomes \subseteq AllOutcomes /\ Faults \subseteq AllFaults /\ MaxWork \in Nat

VARIABLES
  \* on chain
  status,                   \* the work item behind each key
  orphans,                  \* live transactions nobody polls any more
  \* AppState
  in_flight_keys,           \* keys of the map,
  age,                      \* and Instant::elapsed() of their entries
  freeze_failure_counts,    \* 0: no entry
  execution_failure_counts, \* 0: no entry
  frozen_order_blacklist,
  \* the cycle
  pc, todo, cur, tx, cycle_age,
  \* the admin handler
  admin

chainVars  == <<status, orphans>>
flightVars == <<in_flight_keys, age>>
tallyVars  == <<freeze_failure_counts, execution_failure_counts>>
vars == <<status, orphans, in_flight_keys, age, freeze_failure_counts,
          execution_failure_counts, frozen_order_blacklist, pc, todo, cur, tx,
          cycle_age, admin>>

-----------------------------------------------------------------------------
NoKey == "no_key"

(* Where a cycle can be suspended: at an RPC call or at a lock.            *)
Awaiting == {"exec", "freeze_budget", "abandon_freeze"}
PCs == {"idle", "fetch", "set_prices", "scan", "insert_unfreezable",
        "count", "abandon_check", "insert_broken", "forget_tally"} \cup Awaiting

Statuses == {"absent", "pending", "frozen", "closed"}
Methods  == {"execute", "freeze"}
Fates    == {"undecided", "lost"}

(* An orphan is undecided when the code knows it may still confirm         *)
(* (PollTimeout, or the cycle was dropped) and marks the key in flight for *)
(* it; it is lost when it was reported under another error, when the       *)
(* process that sent it is gone, or when it is a freeze: the key leaves    *)
(* the in-flight map before a freeze is sent.                              *)
OrphanSet == [key : Keys, method : Methods, life : 0..TxLife, fate : Fates]

NoTx == [st |-> "none", life |-> 0]
FailureCap == MaxExec + MaxFreeze    \* the tallies are counted no further

Plus1(n) == IF n < FailureCap THEN n + 1 ELSE n
Method(p) == IF p = "exec" THEN "execute" ELSE "freeze"

Evictable(k) == age[k] > Expiry

TypeOK ==
  /\ status \in [Keys -> Statuses]
  /\ orphans \subseteq OrphanSet
  /\ in_flight_keys \subseteq Keys
  /\ age \in [Keys -> 0..(Expiry + 1)]
  /\ freeze_failure_counts \in [Keys -> 0..FailureCap]
  /\ execution_failure_counts \in [Keys -> 0..FailureCap]
  /\ frozen_order_blacklist \subseteq Keys
  /\ pc \in PCs
  /\ todo \subseteq Keys
  /\ cur \in Keys \cup {NoKey}
  /\ pc \in PCs \ {"idle", "fetch", "set_prices", "scan"} => cur \in Keys
  /\ tx \in [st : TxStates, life : 0..TxLife]
  /\ tx.st # "none" => pc \in Awaiting
  /\ cycle_age \in 0..CycleBudget
  /\ admin \in [pc : {"idle", "clear_freeze", "clear_exec"}, key : Keys \cup {NoKey}]
  /\ admin.pc # "idle" => admin.key \in Keys

(* Keys of the in-flight map and their ages, empty at start (AppState::new). *)
Init ==
  /\ status = [k \in Keys |-> "absent"]
  /\ orphans = {}
  /\ in_flight_keys = {}
  /\ age = [k \in Keys |-> 0]
  /\ freeze_failure_counts = [k \in Keys |-> 0]
  /\ execution_failure_counts = [k \in Keys |-> 0]
  /\ frozen_order_blacklist = {}
  /\ pc = "idle"
  /\ todo = {}
  /\ cur = NoKey
  /\ tx = NoTx
  /\ cycle_age = 0
  /\ admin = [pc |-> "idle", key |-> NoKey]

-----------------------------------------------------------------------------
(* The cycle: sweep, gates and pending keys.                               *)

Goto(p) == pc' = p /\ UNCHANGED <<todo, cur, tx, cycle_age>>
NextItem == pc' = "scan" /\ cur' = NoKey /\ tx' = NoTx /\ UNCHANGED <<todo, cycle_age>>
EndCycle == pc' = "idle" /\ todo' = {} /\ cur' = NoKey /\ tx' = NoTx /\ cycle_age' = 0

(* Remove keys from the in-flight map; the age of an absent entry is 0.    *)
Unmark(S) ==
  /\ in_flight_keys' = in_flight_keys \ S
  /\ age' = [k \in Keys |-> IF k \in S THEN 0 ELSE age[k]]

(* Mutant: no sweep at the start of the cycle (before #806).               *)
BeginCycleNoSweep ==
  /\ pc = "idle"
  /\ pc' = "fetch"
  /\ UNCHANGED <<flightVars, todo, cur, tx, cycle_age, chainVars, tallyVars,
                 frozen_order_blacklist, admin>>

(* A cycle starts by evicting every expired in-flight entry.               *)
BeginCycle ==
  /\ pc = "idle"
  /\ pc' = "fetch"
  /\ Unmark({k \in in_flight_keys : Evictable(k)})
  /\ UNCHANGED <<todo, cur, tx, cycle_age, chainVars, tallyVars,
                 frozen_order_blacklist, admin>>

(* Balance, price freshness and the three pending lists, each of which is  *)
(* empty when its fetch fails. Nothing to do, a balance known to be low,   *)
(* and stale prices (which skip the orders as a whole and every deposit    *)
(* and withdrawal one by one) all end the cycle without a submission.      *)
FetchPending ==
  /\ pc = "fetch"
  /\ \E fetched \in SUBSET {Orders, Deposits, Withdrawals},
        fresh \in {TRUE} \cup (IF "stale_prices" \in Faults THEN {FALSE} ELSE {}),
        funded \in {TRUE} \cup (IF "low_balance" \in Faults THEN {FALSE} ELSE {}),
        publish \in BOOLEAN :
       LET pending == {k \in UNION fetched : status[k] = "pending"} IN
       /\ "fetch_error" \in Faults \/ UNION fetched = Keys
       /\ IF pending = {} \/ ~funded \/ ~fresh
          THEN EndCycle
          ELSE /\ pc' = IF publish THEN "set_prices" ELSE "scan"
               /\ todo' = pending
               /\ UNCHANGED <<cur, tx, cycle_age>>
  /\ UNCHANGED <<chainVars, flightVars, tallyVars, frozen_order_blacklist, admin>>

(* set_prices_on_chain(..).await? : its failure ends the whole cycle.      *)
SetPrices ==
  /\ pc = "set_prices"
  /\ \/ Goto("scan")
     \/ "set_prices_error" \in Faults /\ EndCycle
  /\ UNCHANGED <<chainVars, flightVars, tallyVars, frozen_order_blacklist, admin>>

-----------------------------------------------------------------------------
(* One item: blacklist check, in-flight check and mark.                    *)

(* Only this task inserts into the blacklist and the in-flight map, so the *)
(* two checks and the mark are one step: nothing another task does between *)
(* them can forbid what they allowed.                                      *)
Skip(k) ==
  /\ k \in frozen_order_blacklist \/ (k \in in_flight_keys /\ ~Evictable(k))
  /\ UNCHANGED <<pc, cur, tx, flightVars>>

(* Mutants: one of the two checks forgotten.                               *)
AdmitInFlight(k) ==
  /\ k \notin frozen_order_blacklist
  /\ in_flight_keys' = in_flight_keys \cup {k}
  /\ age' = [age EXCEPT ![k] = 0]
  /\ pc' = "exec" /\ cur' = k /\ tx' = NoTx

AdmitBlacklisted(k) ==
  /\ k \in in_flight_keys => Evictable(k)
  /\ in_flight_keys' = in_flight_keys \cup {k}
  /\ age' = [age EXCEPT ![k] = 0]
  /\ pc' = "exec" /\ cur' = k /\ tx' = NoTx

Admit(k) ==
  /\ k \notin frozen_order_blacklist
  /\ k \in in_flight_keys => Evictable(k)
  /\ in_flight_keys' = in_flight_keys \cup {k}
  /\ age' = [age EXCEPT ![k] = 0]
  /\ pc' = "exec"
  /\ cur' = k
  /\ tx' = NoTx

(* The next key of one of the three lists, once the lists before it are    *)
(* done.                                                                   *)
Take(S, earlier) ==
  /\ pc = "scan"
  /\ todo \cap earlier = {}
  /\ \E k \in todo \cap S : todo' = todo \ {k} /\ (Skip(k) \/ Admit(k))
  /\ UNCHANGED <<cycle_age, chainVars, tallyVars, frozen_order_blacklist, admin>>

TakeOrder      == Take(Orders, {})
TakeDeposit    == Take(Deposits, Orders)
TakeWithdrawal == Take(Withdrawals, Orders \cup Deposits)

EndScan ==
  /\ pc = "scan"
  /\ todo = {}
  /\ EndCycle
  /\ UNCHANGED <<chainVars, flightVars, tallyVars, frozen_order_blacklist, admin>>

-----------------------------------------------------------------------------
(* A submission (execute_handler): build and send, land, report.           *)

(* What happens to the work item when a transaction on it is applied.      *)
Applied(k, method, r) ==
  /\ r = "fail" \/ status[k] = "pending"
  /\ status' = IF r # "ok" THEN status
               ELSE [status EXCEPT ![k] = IF method = "execute" THEN "closed" ELSE "frozen"]

Build ==
  /\ pc \in Awaiting
  /\ tx.st = "none"
  /\ tx' = [st |-> "live", life |-> TxLife]
  /\ UNCHANGED <<chainVars, flightVars, tallyVars, frozen_order_blacklist, pc, todo,
                 cur, cycle_age, admin>>

Land ==
  /\ tx.st = "live"
  /\ \E r \in Landings \cap Outcomes :
       /\ Applied(cur, Method(pc), r)
       /\ tx' = [st |-> r, life |-> 0]
  /\ UNCHANGED <<orphans, flightVars, tallyVars, frozen_order_blacklist, pc, todo, cur,
                 cycle_age, admin>>

LandOrphan ==
  /\ \E o \in orphans, r \in {"ok", "fail"} :
       /\ Applied(o.key, o.method, r)
       /\ orphans' = orphans \ {o}
  /\ UNCHANGED <<flightVars, tallyVars, frozen_order_blacklist, pc, todo, cur, tx,
                 cycle_age, admin>>

(* What submit_and_poll may report of the transaction (module Submission). *)
Reports(o) == o \in Outcomes /\ MayReport(o, tx.st)

(* The orphans once the current transaction is no longer polled. Of the    *)
(* orphans with the same key, method and fate only the last one sent is    *)
(* kept: it outlives the others, and two that land do what one does.       *)
OrphansWith(fate) ==
  LET f == IF pc = "exec" THEN fate ELSE "lost"
      twins == {o \in orphans : o.key = cur /\ o.method = Method(pc) /\ o.fate = f}
  IN IF tx.st # "live" THEN orphans
     ELSE (orphans \ twins)
            \cup {[key |-> cur, method |-> Method(pc), life |-> tx.life, fate |-> f]}

(* A refused transaction may still land if an earlier attempt to send it   *)
(* was accepted and the answer lost.                                       *)
Unwatch(o) ==
  \/ o = "poll_timeout" /\ orphans' = OrphansWith("undecided")
  \/ o \in Refusals \cup {"rpc_error"} /\ orphans' = OrphansWith("lost")
  \/ o \notin {"poll_timeout", "rpc_error"} /\ UNCHANGED orphans

-----------------------------------------------------------------------------
(* What the loop does with the report of execute_order / _deposit /        *)
(* _withdrawal.                                                            *)

Executed(S) ==
  /\ pc = "exec" /\ cur \in S
  /\ Reports("ok")
  /\ Unmark({cur})
  /\ execution_failure_counts' = [execution_failure_counts EXCEPT ![cur] = 0]
  /\ NextItem
  /\ UNCHANGED <<chainVars, frozen_order_blacklist, admin>>

OrderExecuted ==
  /\ Executed(Orders)
  /\ freeze_failure_counts' = [freeze_failure_counts EXCEPT ![cur] = 0]

DepositExecuted    == Executed(Deposits) /\ UNCHANGED freeze_failure_counts
WithdrawalExecuted == Executed(Withdrawals) /\ UNCHANGED freeze_failure_counts

(* may_still_confirm: the key stays in flight and nothing is counted.      *)
Undecided(S) ==
  /\ pc = "exec" /\ cur \in S
  /\ \E o \in {"poll_timeout"} : MayStillConfirm(o) /\ Reports(o) /\ Unwatch(o)
  /\ NextItem
  /\ UNCHANGED <<status, flightVars, tallyVars, frozen_order_blacklist, admin>>

OrderUndecided      == Undecided(Orders)
DepositUndecided    == Undecided(Deposits)
WithdrawalUndecided == Undecided(Withdrawals)

(* Any other error takes the key out of the in-flight map. A paused market *)
(* is not a failure.                                                       *)
Failed(S, o) ==
  /\ pc = "exec" /\ cur \in S
  /\ ~MayStillConfirm(o)
  /\ Reports(o)
  /\ Unwatch(o)
  /\ Unmark({cur})
  /\ UNCHANGED <<status, tallyVars, frozen_order_blacklist, admin>>

FailedToCount == pc' = "count" /\ tx' = NoTx /\ UNCHANGED <<todo, cur, cycle_age>>

(* A budget error on an order is answered by freezing it.                  *)
OrderFailed ==
  \E o \in AllOutcomes \ {"ok"} :
    /\ Failed(Orders, o)
    /\ IF IsMarketPaused(o) THEN NextItem
       ELSE IF IsBudgetExceeded(o)
       THEN pc' = "freeze_budget" /\ tx' = NoTx /\ UNCHANGED <<todo, cur, cycle_age>>
       ELSE FailedToCount

DepositFailed ==
  \E o \in AllOutcomes \ {"ok"} :
    Failed(Deposits, o) /\ IF IsMarketPaused(o) THEN NextItem ELSE FailedToCount

WithdrawalFailed ==
  \E o \in AllOutcomes \ {"ok"} :
    Failed(Withdrawals, o) /\ IF IsMarketPaused(o) THEN NextItem ELSE FailedToCount

(* The report of freeze_order after a budget error. Success drops both     *)
(* tallies, every error (a poll timeout too) is one more freeze failure.   *)
FreezeBudgetOk ==
  /\ pc = "freeze_budget"
  /\ Reports("ok")
  /\ freeze_failure_counts' = [freeze_failure_counts EXCEPT ![cur] = 0]
  /\ execution_failure_counts' = [execution_failure_counts EXCEPT ![cur] = 0]
  /\ pc' = "count"
  /\ tx' = NoTx
  /\ UNCHANGED <<chainVars, flightVars, frozen_order_blacklist, todo, cur, cycle_age, admin>>

FreezeBudgetFailed ==
  /\ pc = "freeze_budget"
  /\ \E o \in AllOutcomes \ {"ok"} : Reports(o) /\ Unwatch(o)
  /\ freeze_failure_counts' = [freeze_failure_counts EXCEPT ![cur] = Plus1(@)]
  /\ pc' = IF freeze_failure_counts'[cur] >= MaxFreeze THEN "insert_unfreezable" ELSE "count"
  /\ tx' = NoTx
  /\ UNCHANGED <<status, flightVars, execution_failure_counts, frozen_order_blacklist,
                 todo, cur, cycle_age, admin>>

InsertUnfreezable ==
  /\ pc = "insert_unfreezable"
  /\ frozen_order_blacklist' = frozen_order_blacklist \cup {cur}
  /\ Goto("count")
  /\ UNCHANGED <<chainVars, flightVars, tallyVars, admin>>

(* Every failure that reaches this point is counted, also the one whose    *)
(* order has just been frozen.                                             *)
Count ==
  /\ pc = "count"
  /\ execution_failure_counts' = [execution_failure_counts EXCEPT ![cur] = Plus1(@)]
  /\ IF execution_failure_counts'[cur] >= MaxExec THEN Goto("abandon_check") ELSE NextItem
  /\ UNCHANGED <<chainVars, flightVars, freeze_failure_counts, frozen_order_blacklist, admin>>

AbandonCheck ==
  /\ pc = "abandon_check"
  /\ IF cur \in frozen_order_blacklist
     THEN NextItem
     ELSE Goto("abandon_freeze")
  /\ UNCHANGED <<chainVars, flightVars, tallyVars, frozen_order_blacklist, admin>>

(* The freeze is best effort: whatever it reports, the key is blacklisted. *)
AbandonFreeze ==
  /\ pc = "abandon_freeze"
  /\ \E o \in AllOutcomes : Reports(o) /\ Unwatch(o)
  /\ pc' = "insert_broken"
  /\ tx' = NoTx
  /\ UNCHANGED <<status, flightVars, tallyVars, frozen_order_blacklist, todo, cur,
                 cycle_age, admin>>

(* Mutant: a failed freeze taken for the end of the matter.                *)
InsertNothing ==
  /\ pc = "insert_broken"
  /\ Goto("forget_tally")
  /\ UNCHANGED <<chainVars, flightVars, tallyVars, frozen_order_blacklist, admin>>

InsertBroken ==
  /\ pc = "insert_broken"
  /\ frozen_order_blacklist' = frozen_order_blacklist \cup {cur}
  /\ Goto("forget_tally")
  /\ UNCHANGED <<chainVars, flightVars, tallyVars, admin>>

ForgetTally ==
  /\ pc = "forget_tally"
  /\ execution_failure_counts' = [execution_failure_counts EXCEPT ![cur] = 0]
  /\ NextItem
  /\ UNCHANGED <<chainVars, flightVars, freeze_failure_counts, frozen_order_blacklist, admin>>

(* The consecutive-failure guard of each loop (#803, #892).                *)
Guard(S) ==
  /\ cur \in S
  /\ Count \/ AbandonCheck \/ AbandonFreeze \/ InsertBroken \/ ForgetTally

GuardOrder      == Guard(Orders)
GuardDeposit    == Guard(Deposits)
GuardWithdrawal == Guard(Withdrawals)

-----------------------------------------------------------------------------
(* The cycle cap, restarts, time.                                          *)

(* Mutant: the cap compared off by one.                                    *)
CycleTimeoutLate ==
  /\ "cycle_timeout" \in Faults
  /\ pc # "idle"
  /\ cycle_age > CycleBudget
  /\ orphans' = OrphansWith("undecided")
  /\ EndCycle
  /\ UNCHANGED <<status, flightVars, tallyVars, frozen_order_blacklist, admin>>

(* timeout(KEEPER_CYCLE_TIMEOUT_SECS, execute_keeper_cycle) drops the      *)
(* cycle where it is suspended; what it sent may still land.               *)
CycleTimeout ==
  /\ "cycle_timeout" \in Faults
  /\ pc # "idle"
  /\ cycle_age = CycleBudget
  /\ orphans' = OrphansWith("undecided")
  /\ EndCycle
  /\ UNCHANGED <<status, flightVars, tallyVars, frozen_order_blacklist, admin>>

(* Everything the keeper remembers is in memory.                           *)
Restart ==
  /\ "restart" \in Faults
  /\ orphans' = {[o EXCEPT !.fate = "lost"] : o \in OrphansWith("lost")}
  /\ in_flight_keys' = {}
  /\ age' = [k \in Keys |-> 0]
  /\ freeze_failure_counts' = [k \in Keys |-> 0]
  /\ execution_failure_counts' = [k \in Keys |-> 0]
  /\ frozen_order_blacklist' = {}
  /\ EndCycle
  /\ admin' = [pc |-> "idle", key |-> NoKey]
  /\ UNCHANGED status

(* A tick ages the in-flight entries and the transactions. The runtime     *)
(* polls the cycle's timer, so no cycle outlives its budget by a tick. A   *)
(* transaction whose max_time has passed is tx_too_late.                   *)
Tick ==
  /\ pc = "idle" \/ cycle_age < CycleBudget
  /\ cycle_age' = IF pc = "idle" THEN 0 ELSE cycle_age + 1
  /\ age' = [k \in Keys |-> IF k \in in_flight_keys /\ age[k] <= Expiry
                             THEN age[k] + 1 ELSE age[k]]
  /\ tx' = IF tx.st # "live" THEN tx
           ELSE IF tx.life = 0 THEN [st |-> "gone", life |-> 0]
           ELSE [tx EXCEPT !.life = @ - 1]
  /\ orphans' = {[o EXCEPT !.life = @ - 1] : o \in {p \in orphans : p.life > 0}}
  /\ UNCHANGED <<status, in_flight_keys, tallyVars, frozen_order_blacklist, pc, todo, cur,
                 admin>>

-----------------------------------------------------------------------------
(* The other actors: the users of the exchange and the admin API.          *)

Create(k) ==
  /\ status[k] = "absent"
  /\ Cardinality({j \in Keys : status[j] # "absent"}) < MaxWork
  /\ status' = [status EXCEPT ![k] = "pending"]
  /\ UNCHANGED <<orphans, flightVars, tallyVars, frozen_order_blacklist, pc, todo, cur, tx,
                 cycle_age, admin>>

Cancel(k) ==
  /\ "cancel" \in Faults
  /\ status[k] = "pending"
  /\ status' = [status EXCEPT ![k] = "closed"]
  /\ UNCHANGED <<orphans, flightVars, tallyVars, frozen_order_blacklist, pc, todo, cur, tx,
                 cycle_age, admin>>

(* clear_blacklisted_key takes three locks one after the other (and        *)
(* answers 404, changing nothing, when the key is not blacklisted).        *)
AdminClear(k) ==
  /\ "admin" \in Faults
  /\ admin.pc = "idle"
  /\ k \in frozen_order_blacklist
  /\ frozen_order_blacklist' = frozen_order_blacklist \ {k}
  /\ admin' = [pc |-> "clear_freeze", key |-> k]
  /\ UNCHANGED <<chainVars, flightVars, tallyVars, pc, todo, cur, tx, cycle_age>>

AdminClearFreeze ==
  /\ admin.pc = "clear_freeze"
  /\ freeze_failure_counts' = [freeze_failure_counts EXCEPT ![admin.key] = 0]
  /\ admin' = [admin EXCEPT !.pc = "clear_exec"]
  /\ UNCHANGED <<chainVars, flightVars, execution_failure_counts, frozen_order_blacklist,
                 pc, todo, cur, tx, cycle_age>>

AdminClearExec ==
  /\ admin.pc = "clear_exec"
  /\ execution_failure_counts' = [execution_failure_counts EXCEPT ![admin.key] = 0]
  /\ admin' = [pc |-> "idle", key |-> NoKey]
  /\ UNCHANGED <<chainVars, flightVars, freeze_failure_counts, frozen_order_blacklist,
                 pc, todo, cur, tx, cycle_age>>

(* The server drops a handler whose client has gone or whose request       *)
(* exceeded the request timeout.                                           *)
AdminAbort ==
  /\ "admin_abort" \in Faults
  /\ admin.pc # "idle"
  /\ admin' = [pc |-> "idle", key |-> NoKey]
  /\ UNCHANGED <<chainVars, flightVars, tallyVars, frozen_order_blacklist, pc, todo, cur,
                 tx, cycle_age>>

-----------------------------------------------------------------------------
OrderStep ==
  \/ TakeOrder \/ OrderExecuted \/ OrderUndecided \/ OrderFailed
  \/ FreezeBudgetOk \/ FreezeBudgetFailed \/ InsertUnfreezable \/ GuardOrder

DepositStep == TakeDeposit \/ DepositExecuted \/ DepositUndecided \/ DepositFailed \/ GuardDeposit

WithdrawalStep ==
  TakeWithdrawal \/ WithdrawalExecuted \/ WithdrawalUndecided \/ WithdrawalFailed \/ GuardWithdrawal

CycleStep ==
  FetchPending \/ SetPrices \/ OrderStep \/ DepositStep \/ WithdrawalStep \/ EndScan \/ Build

AdminStep ==
  \/ \E k \in Keys : AdminClear(k)
  \/ AdminClearFreeze
  \/ AdminClearExec
  \/ AdminAbort

Next ==
  \/ BeginCycle
  \/ CycleStep
  \/ CycleTimeout
  \/ Restart
  \/ Tick
  \/ Land
  \/ LandOrphan
  \/ \E k \in Keys : Create(k) \/ Cancel(k)
  \/ AdminStep

Spec == Init /\ [][Next]_vars

(* Nothing is assumed of the RPC node, of the chain or of the cycle's own  *)
(* steps: time passes, the loop's ticker starts cycles, and the cap ends   *)
(* them.                                                                   *)
CapFairness == WF_vars(Tick) /\ WF_vars(BeginCycle) /\ WF_vars(CycleTimeout)

CapSpec  == Spec /\ CapFairness

-----------------------------------------------------------------------------
(* Properties.                                                             *)

UndecidedOn(k) == {o \in orphans : o.key = k /\ o.method = "execute" /\ o.fate = "undecided"}

(* A key whose execute transaction may still confirm stays in the          *)
(* in-flight map, and its entry is not old enough to be evicted, so that   *)
(* neither the sweep nor the lazy eviction frees it while the transaction  *)
(* can land. The mark is set up to a whole cycle before the transaction is *)
(* built, and a dropped cycle leaves it without any bookkeeping.           *)
UndecidedInFlight ==
  \A k \in Keys : UndecidedOn(k) # {} => k \in in_flight_keys /\ ~Evictable(k)

(* No execute transaction is built for a key while an earlier one, which   *)
(* the code knows may still confirm, can land.                             *)
NoResubmission == pc = "exec" => UndecidedOn(cur) = {}

(* A blacklisted key is not executed, whatever the admin does meanwhile.   *)
BlacklistedNotExecuted == pc = "exec" => cur \notin frozen_order_blacklist

(* A key that has used up one of its failure budgets is not executed.      *)
AbandonedNotExecuted ==
  pc = "exec" => /\ execution_failure_counts[cur] < MaxExec
                 /\ freeze_failure_counts[cur] < MaxFreeze

(* Every in-flight mark is removed or renewed by a new submission some     *)
(* day, also that of a key whose cycle was dropped before its bookkeeping  *)
(* ran and which never shows up among the pending keys again (#806).       *)
InFlightReleased == \A k \in Keys : age[k] > 0 ~> age[k] = 0

(* Every cycle ends, however the RPC node behaves.                         *)
CyclesEnd == pc # "idle" ~> pc = "idle"

(* A key whose submissions all fail is blacklisted some day, unless it     *)
(* leaves the pending state first (#803), provided that from some time on  *)
(* each cycle takes its steps, reaches the key and ends with a settled     *)
(* failure of it: that no restart and no admin starts the count anew.      *)
SettledCycles ==
  /\ WF_vars(CycleStep)
  /\ <>[][/\ ~(CycleTimeout \/ Restart \/ AdminStep)
          /\ ~(pc \in {"fetch", "set_prices"} /\ pc' = "idle")
          /\ ~(pc = "exec" /\ pc' = "scan")]_vars

BrokenKeyBlacklisted ==
  SettledCycles =>
    \A k \in Keys :
      status[k] = "pending" ~> (k \in frozen_order_blacklist \/ status[k] # "pending")

=============================================================================
