---------------------------- MODULE KeeperProofs ----------------------------
(***************************************************************************)
(* What holds of the keeper loop for every set of keys and every value of  *)
(* the thresholds and times that the named assumptions of Keeper allow.    *)
(***************************************************************************)
EXTENDS Keeper, TLAPS

LEMMA CapNat == FailureCap \in Nat
  BY ThresholdsAssumption DEF FailureCap

(* Counting a failure stays within the range of the tallies.               *)
LEMMA Plus1Type ==
  ASSUME NEW n \in 0..FailureCap
  PROVE  Plus1(n) \in 0..FailureCap
  BY CapNat DEF Plus1

(* The orphans stay well-typed when the current transaction joins them.    *)
LEMMA OrphansWithType ==
  ASSUME TypeOK, NEW fate \in Fates
  PROVE  OrphansWith(fate) \subseteq OrphanSet
  BY DEF OrphansWith, TypeOK, OrphanSet, Fates, Methods, Method, Awaiting

LEMMA UnwatchType ==
  ASSUME TypeOK, NEW o, Unwatch(o)
  PROVE  orphans' \subseteq OrphanSet
  <1>1. "undecided" \in Fates /\ "lost" \in Fates
    BY DEF Fates
  <1>2. orphans \subseteq OrphanSet
    BY DEF TypeOK
  <1> QED
    BY <1>1, <1>2, OrphansWithType DEF Unwatch

(* A settled failure, whichever loop it is in.                             *)
AnyFailed ==
  /\ pc = "exec"
  /\ \E o \in AllOutcomes : ~MayStillConfirm(o) /\ Unwatch(o)
  /\ Unmark({cur})
  /\ UNCHANGED <<status, tallyVars, frozen_order_blacklist, admin>>
  /\ \/ NextItem
     \/ pc' \in {"count", "freeze_budget"} /\ tx' = NoTx /\ UNCHANGED <<todo, cur, cycle_age>>

LEMMA FailedStep ==
  ASSUME OrderFailed \/ DepositFailed \/ WithdrawalFailed
  PROVE  AnyFailed
  BY DEF OrderFailed, DepositFailed, WithdrawalFailed, Failed, FailedToCount, AnyFailed

-----------------------------------------------------------------------------
(* Type correctness.                                                       *)

LEMMA TypeInit == Init => TypeOK
  BY CapNat, TimesAssumption
  DEF Init, TypeOK, OrphanSet, Statuses, PCs, Awaiting, TxStates, NoTx, Landings

(* The components of the state that an action can put out of type are the  *)
(* ones it changes, hence one step per action.                             *)
LEMMA TypeNext == TypeOK /\ [Next]_vars => TypeOK'
  <1> SUFFICES ASSUME TypeOK, [Next]_vars PROVE TypeOK'
    OBVIOUS
  <1> USE CapNat, TimesAssumption DEF chainVars, flightVars, tallyVars
  <1>1. CASE BeginCycle
    BY <1>1 DEF BeginCycle, Unmark, TypeOK, PCs, Awaiting
  <1>2. CASE FetchPending
    BY <1>2 DEF FetchPending, EndCycle, NoTx, TypeOK, PCs, Awaiting, TxStates, Keys
  <1>3. CASE SetPrices
    BY <1>3 DEF SetPrices, Goto, EndCycle, NoTx, TypeOK, PCs, Awaiting, TxStates
  <1>4. ASSUME NEW S, NEW earlier, Take(S, earlier) PROVE TypeOK'
    BY <1>4 DEF Take, Skip, Admit, NoTx, TypeOK, PCs, Awaiting, TxStates
  <1>5. CASE EndScan
    BY <1>5 DEF EndScan, EndCycle, NoTx, TypeOK, PCs, Awaiting, TxStates
  <1>6. CASE Build
    BY <1>6 DEF Build, TypeOK, PCs, Awaiting, TxStates
  <1>7. CASE OrderExecuted \/ DepositExecuted \/ WithdrawalExecuted
    BY <1>7 DEF OrderExecuted, DepositExecuted, WithdrawalExecuted, Executed, Unmark, NextItem,
                NoTx, TypeOK, PCs, Awaiting, TxStates
  <1>8. ASSUME NEW S, Undecided(S) PROVE TypeOK'
    BY <1>8, UnwatchType DEF Undecided, NextItem, NoTx, TypeOK, PCs, Awaiting, TxStates
  <1>9. CASE OrderFailed \/ DepositFailed \/ WithdrawalFailed
    BY <1>9, FailedStep, UnwatchType
    DEF AnyFailed, Unmark, NextItem, NoTx, TypeOK, PCs, Awaiting, TxStates
  <1>10. CASE FreezeBudgetOk
    BY <1>10 DEF FreezeBudgetOk, NoTx, TypeOK, PCs, Awaiting, TxStates
  <1>11. CASE FreezeBudgetFailed
    BY <1>11, UnwatchType, Plus1Type
    DEF FreezeBudgetFailed, NoTx, TypeOK, PCs, Awaiting, TxStates
  <1>12. CASE InsertUnfreezable
    BY <1>12 DEF InsertUnfreezable, Goto, TypeOK, PCs, Awaiting
  <1>13. CASE Count
    BY <1>13, Plus1Type DEF Count, Goto, NextItem, NoTx, TypeOK, PCs, Awaiting, TxStates
  <1>14. CASE AbandonCheck
    BY <1>14 DEF AbandonCheck, Goto, NextItem, NoTx, TypeOK, PCs, Awaiting, TxStates
  <1>15. CASE AbandonFreeze
    BY <1>15, UnwatchType DEF AbandonFreeze, NoTx, TypeOK, PCs, Awaiting, TxStates
  <1>16. CASE InsertBroken
    BY <1>16 DEF InsertBroken, Goto, TypeOK, PCs, Awaiting
  <1>17. CASE ForgetTally
    BY <1>17 DEF ForgetTally, NextItem, NoTx, TypeOK, PCs, Awaiting, TxStates
  <1>18. CASE CycleTimeout
    BY <1>18, OrphansWithType
    DEF CycleTimeout, EndCycle, NoTx, TypeOK, PCs, Awaiting, TxStates, Fates
  <1>19. CASE Restart
    <2>1. OrphansWith("lost") \subseteq OrphanSet
      BY OrphansWithType DEF Fates
    <2>2. orphans' \subseteq OrphanSet
      BY <1>19, <2>1 DEF Restart, OrphanSet, Fates
    <2> QED
      BY <1>19, <2>2 DEF Restart, EndCycle, NoTx, TypeOK, PCs, Awaiting, TxStates
  <1>20. CASE Tick
    <2>1. orphans' \subseteq OrphanSet
      BY <1>20 DEF Tick, TypeOK, OrphanSet
    <2>2. age' \in [Keys -> 0..(Expiry + 1)] /\ cycle_age' \in 0..CycleBudget
      BY <1>20 DEF Tick, TypeOK
    <2>3. /\ tx' \in [st : TxStates, life : 0..TxLife]
          /\ tx'.st # "none" => pc' \in Awaiting
      BY <1>20 DEF Tick, TypeOK, TxStates
    <2> QED
      BY <1>20, <2>1, <2>2, <2>3 DEF Tick, TypeOK
  <1>21. CASE Land
    BY <1>21 DEF Land, Applied, TypeOK, Statuses, TxStates, Landings, PCs, Awaiting
  <1>22. CASE LandOrphan
    BY <1>22 DEF LandOrphan, Applied, TypeOK, Statuses
  <1>23. ASSUME NEW k \in Keys, Create(k) \/ Cancel(k) PROVE TypeOK'
    BY <1>23 DEF Create, Cancel, TypeOK, Statuses
  <1>24. CASE AdminStep
    BY <1>24 DEF AdminStep, AdminClear, AdminClearFreeze, AdminClearExec, AdminAbort, TypeOK
  <1>25. CASE UNCHANGED vars
    BY <1>25 DEF vars, TypeOK
  <1> QED
    BY <1>1, <1>2, <1>3, <1>4, <1>5, <1>6, <1>7, <1>8, <1>9, <1>10, <1>11, <1>12, <1>13,
       <1>14, <1>15, <1>16, <1>17, <1>18, <1>19, <1>20, <1>21, <1>22, <1>23, <1>24, <1>25
    DEF Next, CycleStep, OrderStep, DepositStep, WithdrawalStep, TakeOrder, TakeDeposit,
        TakeWithdrawal, OrderUndecided, DepositUndecided, WithdrawalUndecided, GuardOrder,
        GuardDeposit, GuardWithdrawal, Guard

(* Every reachable state of the keeper is well-typed.                      *)
THEOREM TypeCorrect == Spec => []TypeOK
  BY TypeInit, TypeNext, PTL DEF Spec

-----------------------------------------------------------------------------
(* The in-flight map and the transactions that may still confirm.          *)

(* The in-flight mark of a key is set at most CycleBudget before the       *)
(* transaction it is set for is built, and both age at the same pace: the  *)
(* age of the mark and the remaining life of the transaction never add up  *)
(* to more than CycleBudget + TxLife, which is no more than Expiry.        *)
Covered(k, life) == k \in in_flight_keys /\ age[k] + life <= CycleBudget + TxLife

CoverInv ==
  /\ \A o \in orphans :
       o.method = "execute" /\ o.fate = "undecided" => Covered(o.key, o.life)
  /\ pc = "exec" => /\ cur \in in_flight_keys
                    /\ age[cur] <= cycle_age
                    /\ tx.st = "live" => Covered(cur, tx.life)
                    /\ \A o \in orphans : o.key = cur /\ o.method = "execute"
                                              => o.fate # "undecided"

(* An entry that covers a transaction is not old enough to be evicted.     *)
LEMMA CoveredNotEvictable ==
  ASSUME TypeOK, NEW k \in Keys, NEW life \in 0..TxLife, Covered(k, life)
  PROVE  ~Evictable(k)
  BY TimesAssumption DEF Covered, Evictable, TypeOK

LEMMA CoverImplies == TypeOK /\ CoverInv => UndecidedInFlight /\ NoResubmission
  <1> SUFFICES ASSUME TypeOK, CoverInv PROVE UndecidedInFlight /\ NoResubmission
    OBVIOUS
  <1>1. UndecidedInFlight
    <2> SUFFICES ASSUME NEW k \in Keys, NEW o \in UndecidedOn(k)
                 PROVE  k \in in_flight_keys /\ ~Evictable(k)
      BY DEF UndecidedInFlight
    <2>1. o.life \in 0..TxLife /\ Covered(k, o.life)
      BY DEF CoverInv, UndecidedOn, TypeOK, OrphanSet
    <2> QED
      BY <2>1, CoveredNotEvictable DEF Covered
  <1>2. NoResubmission
    BY DEF CoverInv, NoResubmission, UndecidedOn
  <1> QED
    BY <1>1, <1>2

LEMMA CoverInit == Init => CoverInv
  BY DEF Init, CoverInv

(* Outside the execution of an item nothing but the orphans' cover is at   *)
(* stake, and the orphans a step adds are covered by its transaction.      *)
LEMMA OrphansCovered ==
  ASSUME TypeOK, CoverInv, NEW fate \in Fates, NEW o \in OrphansWith(fate),
         o.method = "execute", o.fate = "undecided"
  PROVE  Covered(o.key, o.life)
  BY DEF CoverInv, OrphansWith, Method

LEMMA CoverUnwatched ==
  ASSUME TypeOK, CoverInv, NEW fate \in Fates,
         orphans' \subseteq OrphansWith(fate) \cup orphans,
         UNCHANGED flightVars, pc' # "exec"
  PROVE  CoverInv'
  <1>1. ASSUME NEW o \in orphans', o.method = "execute", o.fate = "undecided"
        PROVE  Covered(o.key, o.life)'
    BY <1>1, OrphansCovered DEF Covered, flightVars, CoverInv
  <1> QED
    BY <1>1 DEF CoverInv

LEMMA CoverUnchanged ==
  ASSUME CoverInv, UNCHANGED <<orphans, flightVars>>, pc' # "exec"
  PROVE  CoverInv'
  BY DEF CoverInv, Covered, flightVars

LEMMA UnwatchWithin ==
  ASSUME NEW o, Unwatch(o)
  PROVE  \E fate \in Fates : orphans' \subseteq OrphansWith(fate) \cup orphans
  BY DEF Unwatch, Fates

LEMMA CoverNext == TypeOK /\ CoverInv /\ [Next]_vars => CoverInv'
  <1> SUFFICES ASSUME TypeOK, CoverInv, [Next]_vars PROVE CoverInv'
    OBVIOUS
  <1> USE TimesAssumption
  <1>1. CASE BeginCycle
    (* the sweep evicts no entry that covers a transaction *)
    <2>1. ASSUME NEW o \in orphans, o.method = "execute", o.fate = "undecided"
          PROVE  Covered(o.key, o.life)'
      <3>1. o.key \in Keys /\ o.life \in 0..TxLife /\ Covered(o.key, o.life)
        BY <2>1 DEF CoverInv, TypeOK, OrphanSet
      <3>2. ~Evictable(o.key)
        BY <3>1, CoveredNotEvictable
      <3> QED
        BY <1>1, <3>1, <3>2 DEF BeginCycle, Unmark, Covered
    <2> QED
      BY <1>1, <2>1 DEF BeginCycle, CoverInv, chainVars
  <1>2. ASSUME NEW S, NEW earlier, Take(S, earlier) PROVE CoverInv'
    <2>1. PICK k \in todo : Skip(k) \/ Admit(k)
      BY <1>2 DEF Take
    <2>2. k \in Keys /\ UNCHANGED <<orphans, cycle_age>>
      BY <1>2, <2>1 DEF Take, TypeOK, chainVars
    <2>3. CASE Skip(k)
      BY <1>2, <2>2, <2>3, CoverUnchanged DEF Take, Skip
    <2>4. CASE Admit(k)
      (* no undecided transaction of k can be left: it would be covered *)
      <3>1. ASSUME NEW o \in orphans, o.method = "execute", o.fate = "undecided"
            PROVE  o.key # k /\ Covered(o.key, o.life)
        <4>1. o.key \in Keys /\ o.life \in 0..TxLife /\ Covered(o.key, o.life)
          BY <3>1 DEF CoverInv, TypeOK, OrphanSet
        <4>2. ~Evictable(o.key) /\ o.key \in in_flight_keys
          BY <4>1, CoveredNotEvictable DEF Covered
        <4> QED
          BY <2>4, <4>1, <4>2 DEF Admit
      <3>2. ASSUME NEW o \in orphans', o.method = "execute", o.fate = "undecided"
            PROVE  o.key # k /\ Covered(o.key, o.life)'
        BY <2>2, <2>4, <3>1, <3>2 DEF Admit, Covered, TypeOK
      <3>3. /\ cur' = k /\ pc' = "exec" /\ k \in in_flight_keys' /\ tx'.st = "none"
            /\ age'[k] <= cycle_age'
        BY <2>2, <2>4 DEF Admit, NoTx, TypeOK
      <3> QED
        BY <3>2, <3>3 DEF CoverInv
    <2> QED
      BY <2>1, <2>3, <2>4
  <1>3. CASE Build
    <2>1. CASE pc = "exec"
      (* the mark was set earlier in this cycle *)
      <3>1. tx'.st = "live" /\ tx'.life = TxLife /\ age[cur] <= CycleBudget
        BY <1>3, <2>1 DEF Build, CoverInv, TypeOK
      <3>2. Covered(cur, tx'.life)
        BY <2>1, <3>1 DEF CoverInv, Covered, TypeOK
      <3> QED
        BY <1>3, <2>1, <3>2 DEF Build, CoverInv, Covered, chainVars, flightVars
    <2>2. CASE pc # "exec"
      BY <1>3, <2>2, CoverUnchanged DEF Build, chainVars
    <2> QED
      BY <2>1, <2>2
  <1>4. CASE Land
    BY <1>4 DEF Land, CoverInv, Covered, flightVars, Landings
  <1>5. CASE LandOrphan
    BY <1>5 DEF LandOrphan, CoverInv, Covered, flightVars
  <1>6. CASE OrderExecuted \/ DepositExecuted \/ WithdrawalExecuted
    BY <1>6 DEF OrderExecuted, DepositExecuted, WithdrawalExecuted, Executed, Unmark, NextItem, CoverInv, Covered, chainVars, TypeOK, OrphanSet
  <1>7. CASE OrderFailed \/ DepositFailed \/ WithdrawalFailed
    <2>1. PICK o \in AllOutcomes : ~MayStillConfirm(o) /\ Unwatch(o)
      BY <1>7, FailedStep DEF AnyFailed
    <2>2. ASSUME NEW p \in orphans', p.method = "execute", p.fate = "undecided"
          PROVE  p \in orphans
      BY <2>1, <2>2 DEF Unwatch, OrphansWith, MayStillConfirm
    <2>3. pc = "exec" /\ pc' # "exec" /\ Unmark({cur})
      BY <1>7, FailedStep DEF AnyFailed, NextItem
    <2>4. ASSUME NEW p \in orphans', p.method = "execute", p.fate = "undecided"
          PROVE  Covered(p.key, p.life)'
      <3>1. p \in orphans /\ p.key \in Keys /\ p.key # cur /\ Covered(p.key, p.life)
        BY <2>2, <2>3, <2>4 DEF CoverInv, TypeOK, OrphanSet
      <3> QED
        BY <2>3, <3>1 DEF Unmark, Covered
    <2> QED
      BY <2>3, <2>4 DEF CoverInv
  <1>8. ASSUME NEW S, Undecided(S) \/ FreezeBudgetFailed \/ AbandonFreeze PROVE CoverInv'
    <2>1. pc' # "exec" /\ UNCHANGED flightVars /\ \E o : Unwatch(o)
      BY <1>8 DEF Undecided, FreezeBudgetFailed, AbandonFreeze, NextItem
    <2> QED
      BY <2>1, UnwatchWithin, CoverUnwatched
  <1>9. CASE CycleTimeout
    <2>1. pc' # "exec" /\ UNCHANGED flightVars /\ orphans' = OrphansWith("undecided")
      BY <1>9 DEF CycleTimeout, EndCycle
    <2> QED
      BY <2>1, CoverUnwatched DEF Fates
  <1>10. CASE Restart
    <2>1. \A o \in orphans' : o.fate = "lost"
      BY <1>10, OrphansWithType DEF Restart, OrphanSet, Fates
    <2> QED
      BY <1>10, <2>1 DEF Restart, EndCycle, CoverInv
  <1>11. CASE Tick
    <2>1. ASSUME NEW k \in in_flight_keys PROVE age'[k] \in Nat /\ age'[k] <= age[k] + 1
      BY <1>11 DEF Tick, TypeOK
    <2>2. ASSUME NEW k \in Keys, NEW life \in 1..TxLife, Covered(k, life)
          PROVE  Covered(k, life - 1)'
      BY <1>11, <2>1, <2>2 DEF Tick, Covered, TypeOK
    <2>3. ASSUME NEW o \in orphans', o.method = "execute", o.fate = "undecided"
          PROVE  Covered(o.key, o.life)'
      <3>1. PICK p \in orphans : p.life > 0 /\ o = [p EXCEPT !.life = @ - 1]
        BY <1>11, <2>3 DEF Tick
      <3>2. /\ p.key \in Keys /\ p.life \in 1..TxLife
            /\ o.key = p.key /\ o.life = p.life - 1
            /\ p.method = "execute" /\ p.fate = "undecided"
        BY <2>3, <3>1 DEF TypeOK, OrphanSet
      <3> QED
        BY <2>2, <3>2 DEF CoverInv
    <2>4. ASSUME pc = "exec"
          PROVE  /\ cur' \in in_flight_keys' /\ age'[cur'] <= cycle_age'
                 /\ tx'.st = "live" => Covered(cur, tx.life)'
                 /\ \A o \in orphans' : o.key = cur' /\ o.method = "execute"
                                          => o.fate # "undecided"
      <3>1. cur \in Keys /\ cur' = cur /\ cur \in in_flight_keys /\ in_flight_keys' = in_flight_keys
        BY <1>11, <2>4 DEF Tick, CoverInv, TypeOK
      <3>2. age'[cur] <= cycle_age'
        BY <1>11, <2>1, <2>4, <3>1 DEF Tick, CoverInv, TypeOK
      <3>3. tx'.st = "live" => Covered(cur, tx.life)'
        <4> SUFFICES ASSUME tx'.st = "live" PROVE Covered(cur, tx.life)'
          OBVIOUS
        <4>1. tx.st = "live" /\ tx.life \in 1..TxLife /\ tx'.life = tx.life - 1
          BY <1>11 DEF Tick, TypeOK
        <4>2. Covered(cur, tx.life) /\ age[cur] \in Nat
          BY <2>4, <3>1, <4>1 DEF CoverInv, TypeOK
        <4> QED
          BY <2>1, <3>1, <4>1, <4>2 DEF Covered
      <3>4. ASSUME NEW o \in orphans', o.key = cur', o.method = "execute"
            PROVE  o.fate # "undecided"
        BY <1>11, <2>4, <3>1, <3>4 DEF Tick, CoverInv, TypeOK, OrphanSet
      <3> QED
        BY <3>1, <3>2, <3>3, <3>4
    <2> QED
      <3>1. pc' = pc /\ cur' = cur
        BY <1>11 DEF Tick
      <3> QED
        BY <2>3, <2>4, <3>1 DEF CoverInv, Covered
  <1>12. CASE \/ FetchPending \/ SetPrices \/ EndScan \/ FreezeBudgetOk
              \/ InsertUnfreezable \/ Count \/ AbandonCheck \/ InsertBroken \/ ForgetTally
    BY <1>12, CoverUnchanged
    DEF FetchPending, SetPrices, EndScan, FreezeBudgetOk, InsertUnfreezable, Count,
        AbandonCheck, InsertBroken, ForgetTally, Goto, NextItem, EndCycle, chainVars
  <1>13. ASSUME NEW k \in Keys, Create(k) \/ Cancel(k) PROVE CoverInv'
    BY <1>13 DEF Create, Cancel, CoverInv, Covered, flightVars
  <1>14. CASE AdminStep
    BY <1>14 DEF AdminStep, AdminClear, AdminClearFreeze, AdminClearExec, AdminAbort,
                 CoverInv, Covered, flightVars, chainVars
  <1>15. CASE UNCHANGED vars
    BY <1>15 DEF vars, CoverInv, Covered
  <1> QED
    BY <1>1, <1>2, <1>3, <1>4, <1>5, <1>6, <1>7, <1>8, <1>9, <1>10, <1>11, <1>12, <1>13,
       <1>14, <1>15
    DEF Next, CycleStep, OrderStep, DepositStep, WithdrawalStep, TakeOrder, TakeDeposit,
        TakeWithdrawal, OrderUndecided, DepositUndecided, WithdrawalUndecided, GuardOrder,
        GuardDeposit, GuardWithdrawal, Guard

(* While a transaction that the keeper knows may still confirm can land,   *)
(* its key stays in the in-flight map and is not submitted again. The one  *)
(* fact about the timers this needs is that a cycle's budget and a         *)
(* transaction's lifetime together fit into IN_FLIGHT_EXPIRY.              *)
THEOREM InFlightCover == Spec => [](UndecidedInFlight /\ NoResubmission)
  <1>1. Init => TypeOK /\ CoverInv
    BY TypeInit, CoverInit
  <1>2. TypeOK /\ CoverInv /\ [Next]_vars => TypeOK' /\ CoverInv'
    BY TypeNext, CoverNext
  <1>3. TypeOK /\ CoverInv => UndecidedInFlight /\ NoResubmission
    BY CoverImplies
  <1> QED
    BY <1>1, <1>2, <1>3, PTL DEF Spec

(* No execute transaction is built for a key while an earlier one that may *)
(* still confirm can land: the second half of the theorem above.           *)
THEOREM NeverResubmitted == Spec => []NoResubmission
  BY InFlightCover, PTL

(* A key in the blacklist is never the one being executed: only the item   *)
(* step inserts keys, and never the key it goes on to execute.             *)
LEMMA BlacklistNext == BlacklistedNotExecuted /\ [Next]_vars => BlacklistedNotExecuted'
  <1> SUFFICES ASSUME BlacklistedNotExecuted, [Next]_vars PROVE BlacklistedNotExecuted'
    OBVIOUS
  <1> USE DEF BlacklistedNotExecuted
  <1>1. ASSUME NEW S, NEW earlier, Take(S, earlier) PROVE BlacklistedNotExecuted'
    BY <1>1 DEF Take, Skip, Admit
  <1>2. CASE BeginCycle \/ Build \/ Land \/ LandOrphan \/ Tick \/ UNCHANGED vars
    BY <1>2 DEF BeginCycle, Build, Land, LandOrphan, Tick, vars
  <1>3. ASSUME NEW S, Executed(S) \/ Undecided(S) \/ Guard(S) PROVE BlacklistedNotExecuted'
    BY <1>3 DEF Executed, Undecided, Guard, Count, AbandonCheck, AbandonFreeze, InsertBroken,
                ForgetTally, Goto, NextItem
  <1>7. CASE OrderFailed \/ DepositFailed \/ WithdrawalFailed
    BY <1>7, FailedStep DEF AnyFailed, NextItem
  <1>6. CASE \/ FetchPending \/ SetPrices \/ EndScan \/ FreezeBudgetOk \/ FreezeBudgetFailed
             \/ InsertUnfreezable
    BY <1>6 DEF FetchPending, SetPrices, EndScan, FreezeBudgetOk, FreezeBudgetFailed,
                InsertUnfreezable, Goto, EndCycle
  <1>4. CASE CycleTimeout \/ Restart
    BY <1>4 DEF CycleTimeout, Restart, EndCycle
  <1>5. CASE AdminStep
    <2>1. frozen_order_blacklist' \subseteq frozen_order_blacklist
      BY <1>5 DEF AdminStep, AdminClear, AdminClearFreeze, AdminClearExec, AdminAbort
    <2>2. pc' = pc /\ cur' = cur
      BY <1>5 DEF AdminStep, AdminClear, AdminClearFreeze, AdminClearExec, AdminAbort
    <2> QED
      BY <2>1, <2>2
  <1>12. ASSUME NEW k \in Keys, Create(k) \/ Cancel(k) PROVE BlacklistedNotExecuted'
    BY <1>12 DEF Create, Cancel
  <1>8. CASE TakeOrder \/ TakeDeposit \/ TakeWithdrawal
    BY <1>8, <1>1 DEF TakeOrder, TakeDeposit, TakeWithdrawal
  <1>9. CASE OrderExecuted \/ DepositExecuted \/ WithdrawalExecuted
    BY <1>9, <1>3 DEF OrderExecuted, DepositExecuted, WithdrawalExecuted
  <1>10. CASE OrderUndecided \/ DepositUndecided \/ WithdrawalUndecided
    BY <1>10, <1>3 DEF OrderUndecided, DepositUndecided, WithdrawalUndecided
  <1>11. CASE GuardOrder \/ GuardDeposit \/ GuardWithdrawal
    BY <1>11, <1>3 DEF GuardOrder, GuardDeposit, GuardWithdrawal
  <1> QED
    BY <1>2, <1>4, <1>5, <1>6, <1>7, <1>8, <1>9, <1>10, <1>11, <1>12
    DEF Next, CycleStep, OrderStep, DepositStep, WithdrawalStep

(* No blacklisted key is executed, whatever the admin does meanwhile.      *)
THEOREM BlacklistRespected == Spec => []BlacklistedNotExecuted
  <1>1. Init => BlacklistedNotExecuted
    BY DEF Init, BlacklistedNotExecuted
  <1> QED
    BY <1>1, BlacklistNext, PTL DEF Spec

=============================================================================
