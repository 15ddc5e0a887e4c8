----------------------------- MODULE ApiProofs -----------------------------
(***************************************************************************)
(* What the API promises whatever the number of requests and clients, the  *)
(* limits, the windows and the bounds. Each part keeps an invariant of its *)
(* own; a step of one leaves the variables of the others alone.            *)
(***************************************************************************)
EXTENDS Api, FiniteSetTheorems, TLAPS

-----------------------------------------------------------------------------
(* Readiness: the inductive invariant of the probe.                        *)

(* As much of a request's type as the steps of others leave to be known.   *)
InProgress == [st : Steps, age : Nat, check : Nat, try : Nat]
ProbeTyped ==
  probe \in [Probes -> {NoProbe} \cup InProgress \cup [st : {"answered"}, answer : Answers]]

ReadyTyped ==
  /\ ProbeTyped
  /\ priceAge \in Upto(MaxPriceAge) /\ keeperAge \in Upto(MaxKeeperAge)
  /\ result \in [age : Upto(TTL), ok : BOOLEAN]
  /\ verified \in Upto(TTL)

(* A stored success is as old as the probes behind it.                     *)
ResultVerified == result.ok => verified # Never /\ verified = result.age

(* A request past the look at a loop has aged as much as that loop has.    *)
SeenBoth == {"lock", "rpc", "balance"}
SeenPrice == SeenBoth \cup {"keeper_loop"}

LoopsSeen ==
  \A r \in Probes :
    /\ probe[r].st \in SeenPrice => priceAge # Never /\ priceAge <= PriceStale + probe[r].age
    /\ probe[r].st \in SeenBoth => keeperAge # Never /\ keeperAge <= KeeperStale + probe[r].age

AgesBounded == \A r \in Probes : probe[r].st \in Steps => probe[r].age <= RequestCap

ReadyInv == ReadyTyped /\ ResultVerified /\ LoopsSeen /\ AgesBounded /\ ProbesCoalesced

LEMMA ReadyInvInit == ReadyInit => ReadyInv
  BY ReadinessAssumption
  DEF ReadyInit, ReadyInv, ReadyTyped, ProbeTyped, ResultVerified, LoopsSeen, AgesBounded,
      ProbesCoalesced, NoProbe, Upto, Never, Steps, SeenBoth, SeenPrice

(* A step that leaves the requests, the lock and the result alone, and     *)
(* takes neither loop back to an age it did not have.                      *)
LEMMA LoopsKeep ==
  ASSUME ReadyInv, UNCHANGED <<result, lock, probe, verified>>,
         priceAge' \in {priceAge, 0}, keeperAge' \in {keeperAge, 0}
  PROVE  ReadyInv'
  <1>1. ReadyTyped' /\ ResultVerified' /\ AgesBounded' /\ ProbesCoalesced'
    BY ReadinessAssumption
    DEF ReadyInv, ReadyTyped, ProbeTyped, ResultVerified, AgesBounded, ProbesCoalesced, Fresh,
        Upto, Never, MaxPriceAge, MaxKeeperAge
  <1>2. ASSUME NEW r \in Probes, probe[r].st \in SeenPrice
        PROVE  probe[r].age \in Nat
    BY <1>2 DEF ReadyInv, ReadyTyped, ProbeTyped, InProgress, NoProbe, SeenBoth, SeenPrice
  <1>3. LoopsSeen'
    BY <1>2, ReadinessAssumption DEF ReadyInv, LoopsSeen, Never, SeenPrice
  <1> QED
    BY <1>1, <1>3 DEF ReadyInv

(* A step of one request that stores nothing.                              *)
LEMMA ProbeKeeps ==
  ASSUME ReadyInv, NEW r \in Probes, UNCHANGED <<loopVars, result, verified>>, ProbeTyped',
         \A q \in Probes \ {r} : probe'[q] = probe[q],
         probe'[r].st \in SeenPrice =>
           /\ probe'[r].age = probe[r].age
           /\ probe[r].st \in SeenPrice \/ ~Stale(priceAge, PriceStale),
         probe'[r].st \in SeenBoth => probe[r].st \in SeenBoth \/ ~Stale(keeperAge, KeeperStale),
         probe'[r].st \in Steps =>
           (probe[r].st \in Steps /\ probe'[r].age = probe[r].age) \/ probe'[r].age = 0,
         probe'[r].st \in {"rpc", "balance"} => ~Fresh /\ lock' = r,
         lock' # lock => (lock' = r /\ lock = Nobody) \/ lock = r
  PROVE  ReadyInv'
  <1>1. ReadyTyped'
    BY DEF ReadyInv, ReadyTyped, loopVars
  <1>2. ResultVerified'
    BY DEF ReadyInv, ResultVerified
  <1>3. AgesBounded'
    BY ReadinessAssumption DEF ReadyInv, AgesBounded
  <1>4. LoopsSeen'
    <2>1. ASSUME probe'[r].st \in SeenPrice
          PROVE  /\ probe'[r].age \in Nat /\ probe'[r].age = probe[r].age
                 /\ keeperAge \in Upto(MaxKeeperAge) /\ priceAge \in Upto(MaxPriceAge)
      BY <1>1, <2>1 DEF ReadyInv, ReadyTyped, ProbeTyped, InProgress, NoProbe, SeenBoth, SeenPrice
    <2>2. ASSUME probe'[r].st \in SeenPrice
          PROVE  priceAge # Never /\ priceAge <= PriceStale + probe'[r].age
      <3>1. CASE probe[r].st \in SeenPrice
        BY <2>1, <2>2, <3>1 DEF ReadyInv, LoopsSeen
      <3>2. CASE ~Stale(priceAge, PriceStale)
        BY <2>1, <2>2, <3>2, ReadinessAssumption DEF Stale, Upto, Never, MaxPriceAge
      <3> QED
        BY <2>2, <3>1, <3>2
    <2>3. ASSUME probe'[r].st \in SeenBoth
          PROVE  keeperAge # Never /\ keeperAge <= KeeperStale + probe'[r].age
      <3>1. probe'[r].st \in SeenPrice
        BY <2>3 DEF SeenPrice
      <3>2. CASE probe[r].st \in SeenBoth
        BY <2>1, <3>1, <3>2 DEF ReadyInv, LoopsSeen
      <3>3. CASE ~Stale(keeperAge, KeeperStale)
        BY <2>1, <3>1, <3>3, ReadinessAssumption DEF Stale, Upto, Never, MaxKeeperAge
      <3> QED
        BY <2>3, <3>2, <3>3
    <2> QED
      BY <2>2, <2>3 DEF ReadyInv, LoopsSeen, loopVars
  <1>5. ProbesCoalesced'
    BY NobodyAssumption DEF ReadyInv, ProbesCoalesced, Fresh, Nobody
  <1> QED
    BY <1>1, <1>2, <1>3, <1>4, <1>5 DEF ReadyInv

(* What a step of a request leaves of the others.                          *)
LEMMA AnswerType ==
  ASSUME ProbeTyped, NEW r \in Probes, NEW a \in Answers, Answer(r, a)
  PROVE  /\ ProbeTyped' /\ probe'[r].st = "answered"
         /\ \A q \in Probes \ {r} : probe'[q] = probe[q]
  BY DEF ProbeTyped, Answer

LEMMA GotoType ==
  ASSUME ProbeTyped, NEW r \in Probes, probe[r].st \in Steps, NEW st \in Steps, Goto(r, st)
  PROVE  /\ ProbeTyped' /\ probe'[r].st = st /\ probe'[r].age = probe[r].age
         /\ \A q \in Probes \ {r} : probe'[q] = probe[q]
  <1>1. probe[r] \in InProgress
    BY DEF ProbeTyped, NoProbe, Steps
  <1>2. probe'[r] = [probe[r] EXCEPT !.st = st, !.try = 1]
    BY DEF ProbeTyped, Goto
  <1>3. PICK p : p = [probe[r] EXCEPT !.st = st]
    OBVIOUS
  <1>4. p \in InProgress /\ p.st = st /\ p.age = probe[r].age
    BY <1>1, <1>3 DEF InProgress
  <1>5. probe'[r] = [p EXCEPT !.try = 1]
    BY <1>2, <1>3
  <1>6. probe'[r] \in InProgress /\ probe'[r].st = st /\ probe'[r].age = probe[r].age
    BY <1>4, <1>5 DEF InProgress
  <1> QED
    BY <1>6 DEF ProbeTyped, Goto

(* The holder of the lock stores a result and lets go.                     *)
LEMMA FinishKeeps ==
  ASSUME ReadyInv, NEW r \in Probes, probe[r].st \in {"rpc", "balance"}, NEW a \in Answers,
         Finish(r, a)
  PROVE  ReadyInv'
  <1>1. /\ ProbeTyped' /\ probe'[r].st = "answered"
        /\ \A q \in Probes \ {r} : probe'[q] = probe[q]
    BY AnswerType DEF Finish, ReadyInv, ReadyTyped
  <1>2. ReadyTyped'
    BY <1>1, ReadinessAssumption DEF Finish, loopVars, ReadyInv, ReadyTyped, Upto
  <1>3. ResultVerified'
    <2>1. result'.ok = (a = "ok") /\ result'.age = 0
      BY DEF Finish
    <2>2. a = "ok" => verified' = 0
      BY DEF Finish
    <2>3. 0 # Never
      BY DEF Never
    <2> QED
      BY <2>1, <2>2, <2>3 DEF ResultVerified
  <1>4. LoopsSeen'
    BY <1>1 DEF Finish, loopVars, ReadyInv, LoopsSeen, SeenBoth, SeenPrice
  <1>5. AgesBounded'
    BY <1>1 DEF ReadyInv, AgesBounded, Steps
  <1>6. ASSUME NEW q \in Probes PROVE probe'[q].st \notin {"rpc", "balance"}
    <2>1. CASE q = r
      BY <1>1, <2>1
    <2>2. CASE q # r
      BY <1>1, <2>2 DEF ReadyInv, ProbesCoalesced
    <2> QED
      BY <2>1, <2>2
  <1> QED
    BY <1>2, <1>3, <1>4, <1>5, <1>6 DEF ReadyInv, ProbesCoalesced

LEMMA RetryKeeps ==
  ASSUME ReadyInv, NEW r \in Probes, probe[r].st \in {"rpc", "balance"}, Retry(r)
  PROVE  ReadyInv'
  <1>1. CASE Finish(r, "unavailable")
    BY <1>1, FinishKeeps DEF Answers
  <1>2. CASE /\ probe' = [probe EXCEPT ![r].try = @ + 1]
             /\ UNCHANGED <<loopVars, result, lock, verified>>
    <2>1. probe[r] \in InProgress
      BY DEF ReadyInv, ReadyTyped, ProbeTyped, NoProbe
    <2>2. probe'[r] = [probe[r] EXCEPT !.try = @ + 1]
      BY <1>2 DEF ReadyInv, ReadyTyped, ProbeTyped
    <2>3. /\ probe'[r] \in InProgress
          /\ probe'[r].st = probe[r].st /\ probe'[r].age = probe[r].age
      BY <2>1, <2>2 DEF InProgress
    <2>4. ProbeTyped' /\ \A q \in Probes \ {r} : probe'[q] = probe[q]
      BY <1>2, <2>3 DEF ReadyInv, ReadyTyped, ProbeTyped
    <2> QED
      BY <1>2, <2>3, <2>4, ProbeKeeps DEF Steps, ReadyInv, ProbesCoalesced, SeenBoth, SeenPrice
  <1> QED
    BY <1>1, <1>2 DEF Retry

(* Every request under way, both loops and the result age alike.           *)
LEMMA TickKeeps == ReadyInv /\ ReadyTick => ReadyInv'
  <1> SUFFICES ASSUME ReadyInv, ReadyTick PROVE ReadyInv'
    OBVIOUS
  <1>0. /\ \A r \in Probes : ~ProbeDue(r)
        /\ priceAge' = Aged(priceAge, MaxPriceAge) /\ keeperAge' = Aged(keeperAge, MaxKeeperAge)
        /\ verified' = Aged(verified, TTL)
        /\ result' = [result EXCEPT !.age = Aged(@, TTL)]
    BY DEF ReadyTick
  <1>1. ASSUME NEW r \in Probes
        PROVE  /\ probe'[r] \in {NoProbe} \cup InProgress \cup [st : {"answered"}, answer : Answers]
               /\ probe'[r].st = probe[r].st
               /\ probe[r].st \in Steps =>
                    probe'[r].age = probe[r].age + 1 /\ probe'[r].age <= RequestCap
    <2>1. CASE probe[r].st \notin Steps
      BY <2>1 DEF ReadyTick, ReadyInv, ReadyTyped, ProbeTyped
    <2>2. CASE probe[r].st \in Steps
      <3>1. probe[r] \in InProgress
        BY <2>2 DEF ReadyInv, ReadyTyped, ProbeTyped, NoProbe, Steps
      <3>2. PICK n \in {0, 1} : probe'[r] = [probe[r] EXCEPT !.age = @ + 1, !.check = @ + n]
        BY <2>2 DEF ReadyTick
      <3>3. PICK p : p = [probe[r] EXCEPT !.age = @ + 1]
        OBVIOUS
      <3>4. /\ p \in InProgress /\ p.st = probe[r].st /\ p.age = probe[r].age + 1
            /\ p.check = probe[r].check
        BY <3>1, <3>3 DEF InProgress
      <3>5. probe'[r] = [p EXCEPT !.check = @ + n]
        BY <3>2, <3>3, <3>4
      <3>6. /\ probe'[r] \in InProgress /\ probe'[r].st = probe[r].st
            /\ probe'[r].age = probe[r].age + 1
        BY <3>4, <3>5 DEF InProgress
      <3>7. probe[r].age < RequestCap
        BY <1>0, <2>2, <3>1, ReadinessAssumption DEF ProbeDue, InProgress
      <3> QED
        BY <3>1, <3>6, <3>7, ReadinessAssumption DEF InProgress
    <2> QED
      BY <2>1, <2>2
  <1>2. probe' = [r \in Probes |-> probe'[r]]
    BY DEF ReadyTick
  <1>3. ProbeTyped' /\ AgesBounded'
    BY <1>1, <1>2 DEF ProbeTyped, AgesBounded
  <1>4. /\ priceAge' \in Upto(MaxPriceAge) /\ keeperAge' \in Upto(MaxKeeperAge)
        /\ verified' \in Upto(TTL)
    BY <1>0, ReadinessAssumption
    DEF ReadyInv, ReadyTyped, Aged, Upto, Never, MaxPriceAge, MaxKeeperAge
  <1>5. /\ result' \in [age : Upto(TTL), ok : BOOLEAN]
        /\ result'.ok = result.ok /\ result'.age = Aged(result.age, TTL)
    <2>1. result \in [age : Upto(TTL), ok : BOOLEAN]
      BY DEF ReadyInv, ReadyTyped
    <2>2. Aged(result.age, TTL) \in Upto(TTL)
      BY <2>1, ReadinessAssumption DEF Aged, Upto, Never
    <2> QED
      BY <1>0, <2>1, <2>2
  <1>6. ResultVerified'
    <2>1. result.ok => verified # Never /\ verified = result.age
      BY DEF ReadyInv, ResultVerified
    <2>2. verified # Never /\ verified = result.age
            => verified' # Never /\ verified' = result'.age
      BY <1>0, <1>5, ReadinessAssumption DEF ReadyInv, ReadyTyped, Aged, Upto, Never
    <2> QED
      BY <1>5, <2>1, <2>2 DEF ResultVerified
  <1>7. LoopsSeen'
    <2> SUFFICES ASSUME NEW r \in Probes, probe[r].st \in SeenPrice
                 PROVE  /\ priceAge' # Never /\ priceAge' <= PriceStale + probe'[r].age
                        /\ probe[r].st \in SeenBoth =>
                             keeperAge' # Never /\ keeperAge' <= KeeperStale + probe'[r].age
      BY <1>1 DEF LoopsSeen, SeenPrice
    <2>1. probe[r].st \in Steps /\ probe[r].age \in Nat
      BY DEF ReadyInv, ReadyTyped, ProbeTyped, InProgress, NoProbe, Steps, SeenBoth, SeenPrice
    <2>2. probe'[r].age = probe[r].age + 1 /\ probe'[r].age <= RequestCap
      BY <1>1, <2>1
    <2>3. /\ priceAge # Never /\ priceAge <= PriceStale + probe[r].age
          /\ probe[r].st \in SeenBoth =>
               keeperAge # Never /\ keeperAge <= KeeperStale + probe[r].age
      BY DEF ReadyInv, LoopsSeen
    <2>4. keeperAge \in Upto(MaxKeeperAge) /\ priceAge \in Upto(MaxPriceAge)
      BY DEF ReadyInv, ReadyTyped
    <2> QED
      BY <1>0, <2>1, <2>2, <2>3, <2>4, ReadinessAssumption
      DEF Aged, Upto, Never, MaxPriceAge, MaxKeeperAge
  <1>8. ProbesCoalesced'
    <2>1. Fresh' => Fresh
      BY <1>5, ReadinessAssumption DEF Fresh, ReadyInv, ReadyTyped, Aged, Upto, Never
    <2> QED
      BY <1>1, <2>1 DEF ReadyTick, ReadyInv, ProbesCoalesced
  <1> QED
    BY <1>3, <1>4, <1>5, <1>6, <1>7, <1>8 DEF ReadyInv, ReadyTyped

LEMMA RequestKeeps ==
  ASSUME ReadyInv, NEW r \in Probes,
         \/ AskReady(r) \/ CheckLoops(r) \/ TakeLock(r)
         \/ ProbeStep(r) \/ ProbeFault(r) \/ Receive(r)
  PROVE  ReadyInv'
  <1>0. ProbeTyped
    BY DEF ReadyInv, ReadyTyped
  <1>1. CASE AskReady(r)
    <2>1. /\ ProbeTyped' /\ probe'[r].st = "prices" /\ probe'[r].age = 0
          /\ \A q \in Probes \ {r} : probe'[q] = probe[q]
      BY <1>0, <1>1 DEF AskReady, ProbeTyped, InProgress, Steps
    <2> QED
      BY <1>1, <2>1, ProbeKeeps DEF AskReady, SeenBoth, SeenPrice
  <1>2. CASE CheckLoops(r)
    <2>1. probe[r].st \in Steps /\ UNCHANGED <<loopVars, result, lock, verified>>
      BY <1>2 DEF CheckLoops, CheckPrices, CheckPriceLoop, CheckKeeperLoop, Look, Steps
    <2>2. CASE \E a \in Answers : Answer(r, a)
      BY <1>0, <2>1, <2>2, AnswerType, ProbeKeeps DEF Steps, SeenBoth, SeenPrice
    <2>3. ASSUME NEW next \in {"price_loop", "keeper_loop", "lock"}, Goto(r, next),
                 next = "keeper_loop" => ~Stale(priceAge, PriceStale),
                 next = "lock" => probe[r].st = "keeper_loop" /\ ~Stale(keeperAge, KeeperStale)
          PROVE  ReadyInv'
      <3>1. /\ ProbeTyped' /\ probe'[r].st = next /\ probe'[r].age = probe[r].age
            /\ \A q \in Probes \ {r} : probe'[q] = probe[q]
        <4>1. next \in Steps
          BY DEF Steps
        <4> QED
          BY <1>0, <2>1, <2>3, <4>1, GotoType
      <3> QED
        BY <2>1, <2>3, <3>1, ProbeKeeps DEF SeenBoth, SeenPrice
    <2> QED
      BY <1>2, <2>2, <2>3
      DEF CheckLoops, CheckPrices, CheckPriceLoop, CheckKeeperLoop, Look, Answers
  <1>3. CASE TakeLock(r)
    <2>1. CASE Fresh
      BY <1>0, <1>3, <2>1, AnswerType, ProbeKeeps DEF TakeLock, Answers, Steps, SeenBoth, SeenPrice
    <2>2. CASE ~Fresh
      <3>1. probe[r].st \in Steps /\ "rpc" \in Steps
        BY <1>3 DEF TakeLock, Steps
      <3>2. /\ ProbeTyped' /\ probe'[r].st = "rpc" /\ probe'[r].age = probe[r].age
            /\ \A q \in Probes \ {r} : probe'[q] = probe[q]
        BY <1>0, <1>3, <2>2, <3>1, GotoType DEF TakeLock
      <3> QED
        BY <1>3, <2>2, <3>1, <3>2, ProbeKeeps DEF TakeLock, SeenBoth, SeenPrice
    <2> QED
      BY <2>1, <2>2
  <1>4. CASE RpcReached(r)
    <2>1. probe[r].st \in Steps /\ "balance" \in Steps
      BY <1>4 DEF RpcReached, Steps
    <2>2. /\ ProbeTyped' /\ probe'[r].st = "balance" /\ probe'[r].age = probe[r].age
          /\ \A q \in Probes \ {r} : probe'[q] = probe[q]
      BY <1>0, <1>4, <2>1, GotoType DEF RpcReached
    <2> QED
      BY <1>4, <2>1, <2>2, ProbeKeeps DEF RpcReached, ReadyInv, ProbesCoalesced, SeenBoth, SeenPrice
  <1>5. CASE RpcFails(r) \/ BalanceFails(r)
    BY <1>5, RetryKeeps DEF RpcFails, BalanceFails
  <1>6. CASE BalanceEnough(r) \/ BalanceLow(r) \/ CheckTimesOut(r)
    BY <1>6, FinishKeeps DEF BalanceEnough, BalanceLow, CheckTimesOut, Answers
  <1>7. CASE DropReady(r) \/ Receive(r)
    <2>1. /\ ProbeTyped' /\ probe'[r].st = "none"
          /\ \A q \in Probes \ {r} : probe'[q] = probe[q]
      BY <1>0, <1>7 DEF DropReady, Receive, ProbeTyped, NoProbe
    <2> QED
      BY <1>7, <2>1, ProbeKeeps DEF DropReady, Receive, Steps, SeenBoth, SeenPrice
  <1> QED
    BY <1>1, <1>2, <1>3, <1>4, <1>5, <1>6, <1>7 DEF ProbeStep, ProbeFault

LEMMA ReadyInvNext == ReadyInv /\ [ReadyNext]_readyVars => ReadyInv'
  <1> SUFFICES ASSUME ReadyInv, [ReadyNext]_readyVars PROVE ReadyInv'
    OBVIOUS
  <1>1. CASE PriceCycleEnds \/ KeeperStep \/ KeeperDies
    BY <1>1, LoopsKeep
    DEF PriceCycleEnds, KeeperStep, KeeperTick, KeeperBackoffEnds, KeeperCycleEnds, KeeperDies
  <1>2. CASE ReadyTick
    BY <1>2, TickKeeps
  <1>3. ASSUME NEW r \in Probes,
               \/ AskReady(r) \/ CheckLoops(r) \/ TakeLock(r)
               \/ ProbeStep(r) \/ ProbeFault(r) \/ Receive(r)
        PROVE  ReadyInv'
    BY <1>3, RequestKeeps
  <1>4. CASE UNCHANGED readyVars
    BY <1>4, LoopsKeep DEF readyVars
  <1> QED
    BY <1>1, <1>2, <1>3, <1>4 DEF ReadyNext

(* The step that answers ok: it repeats a success of the last TTL, or has  *)
(* just had one, for a request that has seen both loops run.               *)
LEMMA OkIsTrue ==
  ReadyInv /\ [ReadyNext]_readyVars =>
    [\A r \in Probes : Answered(r, "ok") =>
       /\ verified' \in 0..(TTL - 1)
       /\ keeperAge \in 0..(KeeperStale + RequestCap)
       /\ priceAge \in 0..(PriceStale + RequestCap)]_readyVars
  <1> SUFFICES ASSUME ReadyInv, ReadyNext, NEW r \in Probes, Answered(r, "ok")
               PROVE  /\ verified' \in 0..(TTL - 1)
                      /\ keeperAge \in 0..(KeeperStale + RequestCap)
                      /\ priceAge \in 0..(PriceStale + RequestCap)
    OBVIOUS
  <1>0. probe[r].st # "answered" /\ probe'[r].st = "answered" /\ probe'[r].answer = "ok"
    BY DEF Answered
  <1>1. probe'[r] # probe[r] /\ ProbeTyped
    BY <1>0 DEF ReadyInv, ReadyTyped
  <1>2. ~ReadyTick
    <2>1. ReadyTick /\ probe[r].st \notin Steps => probe'[r] = probe[r]
      BY DEF ReadyTick
    <2>2. ReadyTick /\ probe[r].st \in Steps => probe'[r].st # "answered"
      <3> SUFFICES ASSUME ReadyTick, probe[r].st \in Steps PROVE probe'[r].st = probe[r].st
        BY DEF Steps
      <3>1. probe[r] \in InProgress
        BY <1>1 DEF ProbeTyped, NoProbe, Steps
      <3>2. PICK n \in {0, 1} : probe'[r] = [probe[r] EXCEPT !.age = @ + 1, !.check = @ + n]
        BY DEF ReadyTick
      <3> QED
        BY <3>1, <3>2 DEF InProgress
    <2> QED
      BY <1>0, <1>1, <2>1, <2>2
  <1>3. PICK q \in Probes : \/ AskReady(q) \/ CheckLoops(q) \/ TakeLock(q)
                            \/ ProbeStep(q) \/ ProbeFault(q) \/ Receive(q)
    <2>1. ~(PriceCycleEnds \/ KeeperStep \/ KeeperDies)
      BY <1>1 DEF PriceCycleEnds, KeeperStep, KeeperTick, KeeperBackoffEnds, KeeperCycleEnds,
                  KeeperDies
    <2> QED
      BY <1>2, <2>1 DEF ReadyNext
  <1>4. q = r
    <2>1. probe'[r] = probe[r] \/ q = r
      BY <1>1, <1>3
      DEF AskReady, CheckLoops, CheckPrices, CheckPriceLoop, CheckKeeperLoop, Look, TakeLock, ProbeStep, ProbeFault, Receive, RpcReached, RpcFails,
          BalanceEnough, BalanceLow, BalanceFails, CheckTimesOut, DropReady, Retry, Finish,
          Answer, Goto, ProbeTyped
    <2> QED
      BY <1>1, <2>1
  <1>5. \/ TakeLock(r) /\ Fresh /\ result.ok
        \/ BalanceEnough(r)
    <2>1. \A a \in Answers : Answer(r, a) => a = "ok"
      BY <1>0, <1>1 DEF Answer, ProbeTyped
    <2>2. probe[r].st \in Steps => \A st \in Steps : ~Goto(r, st)
      <3>1. \A st \in Steps : Goto(r, st) /\ probe[r].st \in Steps => probe'[r].st = st
        BY <1>1, GotoType
      <3> QED
        BY <1>0, <3>1 DEF Steps
    <2>3. ~AskReady(r) /\ ~Receive(r) /\ ~DropReady(r) /\ ~RpcReached(r)
      BY <1>0, <1>1, <2>2 DEF AskReady, Receive, DropReady, RpcReached, ProbeTyped, NoProbe, Steps
    <2>4. ~CheckLoops(r)
      BY <2>1, <2>2
      DEF CheckLoops, CheckPrices, CheckPriceLoop, CheckKeeperLoop, Look, Answers, Steps
    <2>5. TakeLock(r) => Fresh /\ result.ok
      BY <2>1, <2>2 DEF TakeLock, Answers, Steps
    <2>6. ~Finish(r, "unavailable")
      BY <2>1 DEF Finish, Answers
    <2>7. probe[r].st \in Steps => ~Retry(r)
      <3>1. probe[r].st \in Steps /\ probe' = [probe EXCEPT ![r].try = @ + 1] => FALSE
        <4> SUFFICES ASSUME probe[r].st \in Steps, probe' = [probe EXCEPT ![r].try = @ + 1]
                     PROVE  FALSE
          OBVIOUS
        <4>1. probe[r] \in InProgress
          BY <1>1 DEF ProbeTyped, NoProbe, Steps
        <4>2. probe'[r] = [probe[r] EXCEPT !.try = @ + 1]
          BY <1>1 DEF ProbeTyped
        <4>3. probe'[r].st = probe[r].st
          BY <4>1, <4>2 DEF InProgress
        <4> QED
          BY <1>0, <4>3
      <3> QED
        BY <2>6, <3>1 DEF Retry
    <2> QED
      BY <1>3, <1>4, <2>3, <2>4, <2>5, <2>6, <2>7
      DEF ProbeStep, ProbeFault, RpcFails, BalanceFails, BalanceLow, CheckTimesOut, Steps
  <1>6. probe[r].st \in {"lock", "rpc", "balance"}
    BY <1>5 DEF TakeLock, BalanceEnough
  <1>7. keeperAge \in 0..(KeeperStale + RequestCap) /\ priceAge \in 0..(PriceStale + RequestCap)
    <2>1. probe[r].age \in Nat /\ probe[r].age <= RequestCap
      BY <1>1, <1>6 DEF ReadyInv, AgesBounded, ProbeTyped, InProgress, NoProbe, Steps
    <2> QED
      BY <1>6, <2>1, ReadinessAssumption
      DEF ReadyInv, ReadyTyped, LoopsSeen, SeenBoth, SeenPrice, Upto, Never
  <1>8. verified' \in 0..(TTL - 1)
    <2>1. CASE TakeLock(r) /\ Fresh /\ result.ok
      BY <2>1, ReadinessAssumption
      DEF TakeLock, Fresh, ReadyInv, ReadyTyped, ResultVerified, Upto, Never
    <2>2. CASE BalanceEnough(r)
      BY <2>2, ReadinessAssumption DEF BalanceEnough, Finish
    <2> QED
      BY <1>5, <2>1, <2>2
  <1> QED
    BY <1>7, <1>8

-----------------------------------------------------------------------------
(* Metrics: the inductive invariants of the counters and the pages.        *)

Counts ==
  [price_cycle_count : Nat, token_fetch_ok : Nat, token_fetch_failures : Nat,
   in_flight : Nat, total : [Classes -> Nat], fast : Nat, inf : Nat]

Pages ==
  [cycles : Nat, tokens : Nat, source : [Maps -> Nat], told : [Maps -> Nat],
   total : Nat, fast : Nat, inf : Nat]

MetricsTyped ==
  /\ counters \in Counts
  /\ source \in [Maps -> Nat] /\ told \in [Maps -> Nat]
  /\ request \in [Requests -> {"none", "arrived", "running", "done", "recording"}]
  /\ dropped \in Nat
  /\ page \in Pages

(* What the counters are between two holders of their lock.                *)
CountersAgree ==
  /\ counters.token_fetch_ok + counters.token_fetch_failures = Tokens * counters.price_cycle_count
  /\ counters.total["2xx"] + counters.total["5xx"] = counters.inf
  /\ counters.fast <= counters.inf

ToldIsKept == \A m \in Maps : told[m] <= source[m]

(* The scrape keeps the lock until its last group is rendered, and what it *)
(* has rendered so far is of the counters as they still are.               *)
ScrapeHolds == scrape \in Maps \cup {"totals", "histogram"} => holder # None

Rendered ==
  /\ scrape # "idle" =>
       page.tokens = Tokens * page.cycles /\ \A m \in Maps : page.told[m] <= source[m]
  /\ scrape \in {"outlier_rejections", "totals", "histogram", "done"} =>
       page.told["fetch_failures"] <= page.source["fetch_failures"]
  /\ scrape \in {"totals", "histogram", "done"} =>
       page.told["outlier_rejections"] <= page.source["outlier_rejections"]
  /\ scrape = "histogram" => page.total = counters.total["2xx"] + counters.total["5xx"]
  /\ scrape = "done" => page.total = page.inf /\ page.fast <= page.inf

PageInv == MetricsTyped /\ CountersAgree /\ ToldIsKept /\ ScrapeHolds /\ Rendered

LEMMA PageInvInit == MetricsInit => PageInv
  BY MetricsAssumption
  DEF MetricsInit, PageInv, MetricsTyped, CountersAgree, ToldIsKept, ScrapeHolds, Rendered,
      NoCounts, NoPage, Nothing, Counts, Pages, Maps, Classes

(* What the three updates of several fields leave.                         *)
LEMMA CycleCounted ==
  ASSUME counters \in Counts, NEW ok \in 0..Tokens,
         counters' = [counters EXCEPT !.price_cycle_count = @ + 1, !.token_fetch_ok = @ + ok,
                       !.token_fetch_failures = @ + Tokens - ok]
  PROVE  /\ counters' \in Counts
         /\ counters'.price_cycle_count = counters.price_cycle_count + 1
         /\ counters'.token_fetch_ok = counters.token_fetch_ok + ok
         /\ counters'.token_fetch_failures = counters.token_fetch_failures + Tokens - ok
         /\ counters'.total = counters.total /\ counters'.fast = counters.fast /\ counters'.inf = counters.inf
         /\ counters'.in_flight = counters.in_flight
  <1>1. /\ counters'.price_cycle_count = counters.price_cycle_count + 1
        /\ counters'.token_fetch_ok = counters.token_fetch_ok + ok
        /\ counters'.token_fetch_failures = counters.token_fetch_failures + Tokens - ok
        /\ counters'.total = counters.total /\ counters'.fast = counters.fast /\ counters'.inf = counters.inf
        /\ counters'.in_flight = counters.in_flight
    BY DEF Counts
  <1>2. counters.token_fetch_failures + Tokens - ok \in Nat
    BY MetricsAssumption DEF Counts
  <1>3. counters' = [price_cycle_count |-> counters'.price_cycle_count, token_fetch_ok |-> counters'.token_fetch_ok,
             token_fetch_failures |-> counters'.token_fetch_failures, in_flight |-> counters'.in_flight,
             total |-> counters'.total, fast |-> counters'.fast, inf |-> counters'.inf]
    BY DEF Counts
  <1>4. counters' \in Counts
    BY <1>1, <1>2, <1>3 DEF Counts
  <1> QED
    BY <1>1, <1>4

LEMMA RequestCounted ==
  ASSUME counters \in Counts, NEW class \in Classes, NEW fast \in 0..1,
         counters' = [counters EXCEPT !.total[class] = @ + 1, !.fast = @ + fast, !.inf = @ + 1]
  PROVE  /\ counters' \in Counts
         /\ counters'.price_cycle_count = counters.price_cycle_count
         /\ counters'.token_fetch_ok = counters.token_fetch_ok
         /\ counters'.token_fetch_failures = counters.token_fetch_failures
         /\ counters'.total = [counters.total EXCEPT ![class] = @ + 1]
         /\ counters'.fast = counters.fast + fast /\ counters'.inf = counters.inf + 1
         /\ counters'.in_flight = counters.in_flight
  <1>1. /\ counters'.price_cycle_count = counters.price_cycle_count
        /\ counters'.token_fetch_ok = counters.token_fetch_ok
        /\ counters'.token_fetch_failures = counters.token_fetch_failures
        /\ counters'.total = [counters.total EXCEPT ![class] = @ + 1]
        /\ counters'.fast = counters.fast + fast /\ counters'.inf = counters.inf + 1
        /\ counters'.in_flight = counters.in_flight
    BY DEF Counts
  <1>2. [counters.total EXCEPT ![class] = @ + 1] \in [Classes -> Nat]
    BY DEF Counts
  <1>3. counters' = [price_cycle_count |-> counters'.price_cycle_count, token_fetch_ok |-> counters'.token_fetch_ok,
             token_fetch_failures |-> counters'.token_fetch_failures, in_flight |-> counters'.in_flight,
             total |-> counters'.total, fast |-> counters'.fast, inf |-> counters'.inf]
    BY DEF Counts
  <1>4. counters' \in Counts
    BY <1>1, <1>2, <1>3 DEF Counts
  <1> QED
    BY <1>1, <1>4

LEMMA PageBegun ==
  ASSUME page \in Pages, NEW cycles \in Nat, NEW tokens \in Nat,
         NEW known \in [Maps -> Nat],
         page' = [page EXCEPT !.cycles = cycles, !.tokens = tokens, !.told = known]
  PROVE  page' \in Pages /\ page'.cycles = cycles /\ page'.tokens = tokens /\ page'.told = known
  BY DEF Pages

(* A step that changes neither the counters nor the scrape.                *)
LEMMA BesidesScrape ==
  ASSUME PageInv, UNCHANGED <<counters, holder, scrape, page>>, MetricsTyped', ToldIsKept',
         \A m \in Maps : source'[m] >= source[m]
  PROVE  PageInv'
  <1>1. CountersAgree' /\ ScrapeHolds'
    BY DEF PageInv, CountersAgree, ScrapeHolds
  <1>2. \A m \in Maps : page.told[m] <= source[m] => page.told[m] <= source'[m]
    BY DEF PageInv, MetricsTyped, Pages
  <1>3. Rendered'
    BY <1>2 DEF PageInv, Rendered
  <1> QED
    BY <1>1, <1>3 DEF PageInv

(* A step of someone who takes the counters: the scrape does not hold them.*)
LEMMA CountersFree ==
  ASSUME PageInv, holder = None, UNCHANGED <<source, holder, scrape, page>>,
         MetricsTyped', CountersAgree', ToldIsKept'
  PROVE  PageInv'
  <1>1. scrape \notin Maps \cup {"totals", "histogram"}
    BY DEF PageInv, ScrapeHolds
  <1>2. ScrapeHolds' /\ Rendered'
    BY <1>1 DEF PageInv, ScrapeHolds, Rendered, Maps
  <1> QED
    BY <1>2 DEF PageInv

LEMMA ScrapeKeeps ==
  ASSUME PageInv, ScrapeBegins \/ ScrapeStep \/ ScrapeSent
  PROVE  PageInv'
  <1> USE DEF PageInv
  <1>1. CASE ScrapeBegins
    <2>1. /\ holder' = "scrape" /\ scrape' = "fetch_failures"
          /\ UNCHANGED <<counters, source, request, dropped, told>>
          /\ page' = [page EXCEPT !.cycles = counters.price_cycle_count,
                        !.tokens = counters.token_fetch_ok + counters.token_fetch_failures,
                        !.told = told]
      BY <1>1 DEF ScrapeBegins, httpVars
    <2>2. /\ page' \in Pages
          /\ page'.cycles = counters.price_cycle_count /\ page'.told = told
          /\ page'.tokens = counters.token_fetch_ok + counters.token_fetch_failures
      <3>1. /\ page \in Pages /\ told \in [Maps -> Nat] /\ counters.price_cycle_count \in Nat
            /\ counters.token_fetch_ok + counters.token_fetch_failures \in Nat
        BY DEF MetricsTyped, Counts
      <3> QED
        BY <2>1, <3>1, PageBegun
    <2>3. MetricsTyped' /\ CountersAgree' /\ ToldIsKept'
      BY <2>1, <2>2 DEF MetricsTyped, CountersAgree, ToldIsKept
    <2>4. ScrapeHolds' /\ Rendered'
      BY <2>1, <2>2 DEF ScrapeHolds, Rendered, CountersAgree, ToldIsKept, None
    <2> QED
      BY <2>3, <2>4
  <1>2. ASSUME NEW m \in Maps, ScrapeMap(m) PROVE PageInv'
    <2>1. /\ scrape = m /\ UNCHANGED <<counters, source, holder, request, dropped, told>>
          /\ scrape' = IF m = "fetch_failures" THEN "outlier_rejections" ELSE "totals"
          /\ page' = [page EXCEPT !.source[m] = source[m]]
      BY <1>2 DEF ScrapeMap, httpVars
    <2>2. /\ page' \in Pages
          /\ page'.cycles = page.cycles /\ page'.tokens = page.tokens /\ page'.told = page.told
          /\ page'.source = [page.source EXCEPT ![m] = source[m]]
      BY <2>1 DEF MetricsTyped, Pages
    <2>3. MetricsTyped' /\ CountersAgree' /\ ToldIsKept'
      BY <2>1, <2>2 DEF MetricsTyped, CountersAgree, ToldIsKept
    <2>4. ScrapeHolds'
      BY <2>1 DEF ScrapeHolds
    <2>5. page.source \in [Maps -> Nat]
      BY DEF MetricsTyped, Pages
    <2>6. Rendered'
      BY <2>1, <2>2, <2>5 DEF Rendered, Maps
    <2> QED
      BY <2>3, <2>4, <2>6
  <1>3. CASE ScrapeTotals
    <2>1. /\ scrape = "totals" /\ scrape' = "histogram"
          /\ UNCHANGED <<counters, source, holder, request, dropped, told>>
          /\ page' = [page EXCEPT !.total = counters.total["2xx"] + counters.total["5xx"]]
      BY <1>3 DEF ScrapeTotals, httpVars
    <2>2. counters.total["2xx"] + counters.total["5xx"] \in Nat
      BY DEF MetricsTyped, Counts, Classes
    <2>3. /\ page' \in Pages
          /\ page'.cycles = page.cycles /\ page'.tokens = page.tokens /\ page'.told = page.told
          /\ page'.source = page.source
          /\ page'.total = counters.total["2xx"] + counters.total["5xx"]
      BY <2>1, <2>2 DEF MetricsTyped, Pages
    <2>4. MetricsTyped' /\ CountersAgree' /\ ToldIsKept'
      BY <2>1, <2>3 DEF MetricsTyped, CountersAgree, ToldIsKept
    <2>5. ScrapeHolds' /\ Rendered'
      BY <2>1, <2>3 DEF ScrapeHolds, Rendered, Maps
    <2> QED
      BY <2>4, <2>5
  <1>4. CASE ScrapeHistogram
    <2>1. /\ scrape = "histogram" /\ scrape' = "done"
          /\ UNCHANGED <<counters, source, request, dropped, told>>
          /\ page' = [page EXCEPT !.fast = counters.fast, !.inf = counters.inf]
      BY <1>4 DEF ScrapeHistogram, httpVars
    <2>2. /\ page' \in Pages
          /\ page'.cycles = page.cycles /\ page'.tokens = page.tokens /\ page'.told = page.told
          /\ page'.source = page.source /\ page'.total = page.total
          /\ page'.fast = counters.fast /\ page'.inf = counters.inf
      BY <2>1 DEF MetricsTyped, Pages, Counts
    <2>3. MetricsTyped' /\ CountersAgree' /\ ToldIsKept'
      BY <2>1, <2>2 DEF MetricsTyped, CountersAgree, ToldIsKept
    <2>4. ScrapeHolds' /\ Rendered'
      BY <2>1, <2>2 DEF ScrapeHolds, Rendered, Maps, CountersAgree
    <2> QED
      BY <2>3, <2>4
  <1>5. CASE ScrapeSent
    BY <1>5
    DEF ScrapeSent, httpVars, MetricsTyped, CountersAgree, ToldIsKept, ScrapeHolds, Rendered,
        NoPage, Nothing, Pages, Maps
  <1> QED
    BY <1>1, <1>2, <1>3, <1>4, <1>5 DEF ScrapeStep

LEMMA PageInvNext == PageInv /\ [MetricsNext]_metricVars => PageInv'
  <1> SUFFICES ASSUME PageInv, [MetricsNext]_metricVars PROVE PageInv'
    OBVIOUS
  <1>0. MetricsTyped /\ CountersAgree /\ ToldIsKept
    BY DEF PageInv
  <1>1. ASSUME NEW m \in Maps, RecordSource(m) PROVE PageInv'
    BY <1>0, <1>1, BesidesScrape
    DEF RecordSource, httpVars, scrapeVars, MetricsTyped, ToldIsKept
  <1>2. CASE Stamp \/ UNCHANGED metricVars
    BY <1>0, <1>2, BesidesScrape
    DEF Stamp, metricVars, httpVars, scrapeVars, MetricsTyped, ToldIsKept
  <1>3. CASE RecordPriceCycle
    <2>1. PICK ok \in 0..Tokens :
            counters' = [counters EXCEPT !.price_cycle_count = @ + 1,
                                         !.token_fetch_ok = @ + ok,
                                         !.token_fetch_failures = @ + Tokens - ok]
      BY <1>3 DEF RecordPriceCycle
    <2>2. /\ counters' \in Counts
          /\ counters'.price_cycle_count = counters.price_cycle_count + 1
          /\ counters'.token_fetch_ok = counters.token_fetch_ok + ok
          /\ counters'.token_fetch_failures = counters.token_fetch_failures + Tokens - ok
          /\ counters'.total = counters.total /\ counters'.fast = counters.fast
          /\ counters'.inf = counters.inf
      BY <1>0, <2>1, CycleCounted DEF MetricsTyped
    <2>3. Tokens * (counters.price_cycle_count + 1) = Tokens * counters.price_cycle_count + Tokens
      BY <1>0, MetricsAssumption DEF MetricsTyped, Counts
    <2>4. CountersAgree'
      BY <1>0, <2>2, <2>3, MetricsAssumption DEF CountersAgree, MetricsTyped, Counts
    <2>5. MetricsTyped' /\ ToldIsKept'
      BY <1>0, <1>3, <2>2 DEF RecordPriceCycle, httpVars, scrapeVars, MetricsTyped, ToldIsKept
    <2> QED
      BY <1>3, <2>4, <2>5, CountersFree DEF RecordPriceCycle, scrapeVars
  <1>4. ASSUME NEW r \in Requests, IncInFlight(r) \/ DecInFlight(r) PROVE PageInv'
    <2>1. /\ counters' \in Counts
          /\ counters'.price_cycle_count = counters.price_cycle_count
          /\ counters'.token_fetch_ok = counters.token_fetch_ok
          /\ counters'.token_fetch_failures = counters.token_fetch_failures
          /\ counters'.total = counters.total /\ counters'.fast = counters.fast
          /\ counters'.inf = counters.inf
      BY <1>0, <1>4 DEF IncInFlight, DecInFlight, MetricsTyped, Counts
    <2>2. CountersAgree' /\ ToldIsKept'
      BY <1>0, <1>4, <2>1 DEF IncInFlight, DecInFlight, CountersAgree, ToldIsKept
    <2>3. MetricsTyped'
      BY <1>0, <1>4, <2>1 DEF IncInFlight, DecInFlight, At, scrapeVars, MetricsTyped
    <2> QED
      BY <1>4, <2>2, <2>3, CountersFree DEF IncInFlight, DecInFlight, scrapeVars
  <1>5. ASSUME NEW r \in Requests, Respond(r) \/ DropRequest(r) PROVE PageInv'
    BY <1>0, <1>5, BesidesScrape
    DEF Respond, DropRequest, At, scrapeVars, MetricsTyped, ToldIsKept
  <1>6. ASSUME NEW r \in Requests, RecordHttp(r) PROVE PageInv'
    <2>1. PICK class \in Classes, fast \in 0..1 :
            counters' = [counters EXCEPT !.total[class] = @ + 1, !.fast = @ + fast, !.inf = @ + 1]
      BY <1>6 DEF RecordHttp
    <2>2. /\ counters' \in Counts
          /\ counters'.price_cycle_count = counters.price_cycle_count
          /\ counters'.token_fetch_ok = counters.token_fetch_ok
          /\ counters'.token_fetch_failures = counters.token_fetch_failures
          /\ counters'.total = [counters.total EXCEPT ![class] = @ + 1]
          /\ counters'.fast = counters.fast + fast
          /\ counters'.inf = counters.inf + 1
      BY <1>0, <2>1, RequestCounted DEF MetricsTyped
    <2>3. counters'.total["2xx"] + counters'.total["5xx"]
            = counters.total["2xx"] + counters.total["5xx"] + 1
      BY <1>0, <2>2 DEF MetricsTyped, Counts, Classes
    <2>4. CountersAgree'
      BY <1>0, <2>2, <2>3 DEF CountersAgree, MetricsTyped, Counts
    <2>5. MetricsTyped' /\ ToldIsKept'
      BY <1>0, <1>6, <2>2 DEF RecordHttp, At, scrapeVars, MetricsTyped, ToldIsKept
    <2> QED
      BY <1>6, <2>4, <2>5, CountersFree DEF RecordHttp, scrapeVars
  <1>7. CASE ScrapeBegins \/ ScrapeStep \/ ScrapeSent
    BY <1>7, ScrapeKeeps
  <1> QED
    BY <1>1, <1>2, <1>3, <1>4, <1>5, <1>6, <1>7 DEF MetricsNext

-----------------------------------------------------------------------------
(* The gauge.                                                              *)

Running(req) == {r \in Requests : req[r] \in {"running", "done"}}

GaugeInv == MetricsTyped /\ counters.in_flight = Cardinality(Running(request)) + dropped

LEMMA RunningFinite ==
  ASSUME NEW req
  PROVE  IsFiniteSet(Running(req)) /\ Cardinality(Running(req)) \in Nat
  BY MetricsAssumption, FS_Subset, FS_CardinalityType DEF Running

LEMMA RunningMoves ==
  ASSUME NEW r \in Requests, \A q \in Requests \ {r} : request'[q] = request[q]
  PROVE  Cardinality(Running(request'))
           = Cardinality(Running(request))
               + (IF request'[r] \in {"running", "done"} THEN 1 ELSE 0)
               - (IF request[r] \in {"running", "done"} THEN 1 ELSE 0)
  <1>1. Running(request') = IF request'[r] \in {"running", "done"} THEN Running(request) \cup {r}
                            ELSE Running(request) \ {r}
    BY DEF Running
  <1>2. r \in Running(request) <=> request[r] \in {"running", "done"}
    BY DEF Running
  <1>3. /\ Cardinality(Running(request) \cup {r})
             = IF r \in Running(request) THEN Cardinality(Running(request))
               ELSE Cardinality(Running(request)) + 1
        /\ Cardinality(Running(request) \ {r})
             = IF r \in Running(request) THEN Cardinality(Running(request)) - 1
               ELSE Cardinality(Running(request))
    BY RunningFinite, FS_AddElement, FS_RemoveElement
  <1> QED
    BY <1>1, <1>2, <1>3, RunningFinite

LEMMA GaugeInvNext == PageInv' /\ GaugeInv /\ [MetricsNext]_metricVars => GaugeInv'
  <1> SUFFICES ASSUME MetricsTyped', GaugeInv, [MetricsNext]_metricVars PROVE GaugeInv'
    BY DEF PageInv
  <1>0. /\ counters \in Counts /\ DOMAIN request = Requests /\ dropped \in Nat
        /\ counters.in_flight = Cardinality(Running(request)) + dropped
        /\ Cardinality(Running(request)) \in Nat
    BY RunningFinite DEF GaugeInv, MetricsTyped
  <1>1. ASSUME UNCHANGED <<request, dropped>>, counters'.in_flight = counters.in_flight
        PROVE  GaugeInv'
    BY <1>1 DEF GaugeInv
  <1>2. CASE \/ \E m \in Maps : RecordSource(m)
             \/ Stamp \/ ScrapeBegins \/ ScrapeStep \/ ScrapeSent \/ UNCHANGED metricVars
    BY <1>1, <1>2
    DEF RecordSource, Stamp, ScrapeBegins, ScrapeStep, ScrapeMap, ScrapeTotals, ScrapeHistogram,
        ScrapeSent, metricVars, httpVars, scrapeVars
  <1>3. CASE RecordPriceCycle
    BY <1>0, <1>1, <1>3 DEF RecordPriceCycle, httpVars, Counts
  <1>4. ASSUME NEW r \in Requests, IncInFlight(r) PROVE GaugeInv'
    <2>1. /\ request[r] = "none" /\ request'[r] = "running"
          /\ \A q \in Requests \ {r} : request'[q] = request[q]
      BY <1>0, <1>4 DEF IncInFlight, At
    <2>2. counters'.in_flight = counters.in_flight + 1 /\ dropped' = dropped
      BY <1>0, <1>4 DEF IncInFlight, Counts
    <2>3. Cardinality(Running(request')) = Cardinality(Running(request)) + 1
      BY <1>0, <2>1, RunningMoves
    <2> QED
      BY <1>0, <2>2, <2>3 DEF GaugeInv
  <1>5. ASSUME NEW r \in Requests, Respond(r) PROVE GaugeInv'
    <2>1. /\ request[r] = "running" /\ request'[r] = "done"
          /\ \A q \in Requests \ {r} : request'[q] = request[q]
      BY <1>0, <1>5 DEF Respond, At
    <2>2. counters' = counters /\ dropped' = dropped
      BY <1>5 DEF Respond
    <2>3. Cardinality(Running(request')) = Cardinality(Running(request))
      BY <1>0, <2>1, RunningMoves
    <2> QED
      BY <1>0, <2>2, <2>3 DEF GaugeInv
  <1>6. ASSUME NEW r \in Requests, DropRequest(r) PROVE GaugeInv'
    <2>1. /\ request[r] = "running" /\ request'[r] = "none"
          /\ \A q \in Requests \ {r} : request'[q] = request[q]
      BY <1>0, <1>6 DEF DropRequest, At
    <2>2. counters' = counters /\ dropped' = dropped + 1
      BY <1>6 DEF DropRequest
    <2>3. Cardinality(Running(request')) = Cardinality(Running(request)) - 1
      BY <1>0, <2>1, RunningMoves
    <2> QED
      BY <1>0, <2>2, <2>3 DEF GaugeInv
  <1>7. ASSUME NEW r \in Requests, DecInFlight(r) PROVE GaugeInv'
    <2>1. /\ request[r] = "done" /\ request'[r] = "recording"
          /\ \A q \in Requests \ {r} : request'[q] = request[q]
      BY <1>0, <1>7 DEF DecInFlight, At
    <2>2. Cardinality(Running(request')) = Cardinality(Running(request)) - 1
      BY <1>0, <2>1, RunningMoves
    <2>3. Cardinality(Running(request')) \in Nat
      BY RunningFinite
    <2>4. counters'.in_flight = counters.in_flight - 1 /\ dropped' = dropped
      BY <1>0, <1>7, <2>2, <2>3 DEF DecInFlight, Counts
    <2> QED
      BY <1>0, <2>2, <2>4 DEF GaugeInv
  <1>8. ASSUME NEW r \in Requests, RecordHttp(r) PROVE GaugeInv'
    <2>1. /\ request[r] = "recording" /\ request'[r] = "none"
          /\ \A q \in Requests \ {r} : request'[q] = request[q]
      BY <1>0, <1>8 DEF RecordHttp, At
    <2>2. counters'.in_flight = counters.in_flight /\ dropped' = dropped
      BY <1>0, <1>8 DEF RecordHttp, Counts
    <2>3. Cardinality(Running(request')) = Cardinality(Running(request))
      BY <1>0, <2>1, RunningMoves
    <2> QED
      BY <1>0, <2>2, <2>3 DEF GaugeInv
  <1> QED
    BY <1>2, <1>3, <1>4, <1>5, <1>6, <1>7, <1>8 DEF MetricsNext

-----------------------------------------------------------------------------
(* The behaviours of the API.                                              *)


LEMMA ApiSteps ==
  [Next]_vars => /\ [ReadyNext]_readyVars /\ [AuthNext]_authVars
                 /\ [MetricsNext]_metricVars /\ [SnapshotNext]_snapshotVars
  BY DEF Next, Ready, Admin, Scraped, Status, vars

-----------------------------------------------------------------------------
(* Readiness.                                                              *)

LEMMA SpecReadyInv == Spec => []ReadyInv
  <1>1. Init => ReadyInv
    BY ReadyInvInit DEF Init
  <1>2. ReadyInv /\ [Next]_vars => ReadyInv'
    BY ApiSteps, ReadyInvNext
  <1> QED
    BY <1>1, <1>2, PTL DEF Spec

(* However many requests miss the cached result together, one of them at a *)
(* time probes the RPC node and the balance, and none while a result of    *)
(* the last TTL is there.                                                  *)
THEOREM OneProbe == Spec => []ProbesCoalesced
  <1>1. ReadyInv => ProbesCoalesced
    BY DEF ReadyInv
  <1> QED
    BY <1>1, SpecReadyInv, PTL

(* An ok answer is never older than the TTL of the probes behind it, nor   *)
(* the loops staler than their limit and the time a request may take.      *)
THEOREM OkIsRecent == Spec => ReadySound
  <1>1. ReadyInv /\ [Next]_vars =>
          [\A r \in Probes : Answered(r, "ok") =>
             /\ verified' \in 0..(TTL - 1)
             /\ keeperAge \in 0..(KeeperStale + RequestCap)
             /\ priceAge \in 0..(PriceStale + RequestCap)]_readyVars
    BY ApiSteps, OkIsTrue
  <1> QED
    BY <1>1, SpecReadyInv, PTL DEF Spec, ReadySound

-----------------------------------------------------------------------------
(* The metrics.                                                            *)

LEMMA SpecPageInv == Spec => []PageInv
  <1>1. Init => PageInv
    BY PageInvInit DEF Init
  <1>2. PageInv /\ [Next]_vars => PageInv'
    BY ApiSteps, PageInvNext
  <1> QED
    BY <1>1, <1>2, PTL DEF Spec

(* A page is of one generation of the counters, and the faults of sources  *)
(* behind the cycles it counts are on it, for any number of tokens, cycles *)
(* and requests.                                                           *)
THEOREM PagesAgree == Spec => []ScrapeConsistent
  <1>1. PageInv => ScrapeConsistent
    <2> SUFFICES ASSUME PageInv, scrape = "done" PROVE ScrapeConsistent
      BY DEF ScrapeConsistent
    <2> QED
      BY DEF PageInv, Rendered, ScrapeConsistent, Maps
  <1> QED
    BY <1>1, SpecPageInv, PTL

(* The gauge never loses a request that runs, and never forgets one that   *)
(* was dropped, for any number of requests.                                *)
THEOREM GaugeNeverLow == Spec => []GaugeAccounted
  <1>1. Init => GaugeInv
    <2>1. Init => MetricsTyped /\ counters.in_flight = 0 /\ dropped = 0
      BY PageInvInit DEF Init, MetricsInit, NoCounts, PageInv
    <2>2. Init => Running(request) = {}
      BY DEF Init, MetricsInit, Running
    <2> QED
      BY <2>1, <2>2, FS_EmptySet DEF GaugeInv
  <1>2. PageInv' /\ GaugeInv /\ [Next]_vars => GaugeInv'
    BY ApiSteps, GaugeInvNext
  <1>3. GaugeInv => GaugeAccounted
    BY DEF GaugeInv, GaugeAccounted, Running
  <1> QED
    BY <1>1, <1>2, <1>3, SpecPageInv, PTL DEF Spec

-----------------------------------------------------------------------------
(* The keeper's status.                                                    *)

(* The reads of an attempt happen at generations in their order, and the   *)
(* check admits only an attempt that began and ended at one.               *)
SnapshotInv ==
  /\ {generation, seen, keeper_gen, cycle_gen} \subseteq Nat
  /\ rpc = "keeper" => seen <= generation
  /\ rpc = "cycle" => seen <= keeper_gen /\ keeper_gen <= generation
  /\ rpc = "check" => seen <= keeper_gen /\ keeper_gen <= cycle_gen /\ cycle_gen <= generation
  /\ checked => rpc = "done" /\ keeper_gen = cycle_gen

LEMMA SnapshotInvNext == SnapshotInv /\ [SnapshotNext]_snapshotVars => SnapshotInv'
  <1> SUFFICES ASSUME SnapshotInv, [SnapshotNext]_snapshotVars PROVE SnapshotInv'
    OBVIOUS
  <1> USE DEF SnapshotInv
  <1>1. CASE OpenWindow \/ CloseWindow
    BY <1>1 DEF OpenWindow, CloseWindow, readVars
  <1>2. CASE MarkRunning \/ WritePending \/ RecordExecution \/ WriteTiming
    BY <1>2 DEF MarkRunning, WritePending, RecordExecution, WriteTiming, readVars
  <1>3. CASE LoadGeneration
    BY <1>3 DEF LoadGeneration, writerVars
  <1>4. CASE ReadKeeper
    BY <1>4 DEF ReadKeeper, writerVars
  <1>5. CASE ReadCycle
    BY <1>5 DEF ReadCycle, writerVars
  <1>6. CASE Check
    BY <1>6 DEF Check, writerVars
  <1>7. CASE UNCHANGED snapshotVars
    BY <1>7 DEF snapshotVars
  <1> QED
    BY <1>1, <1>2, <1>3, <1>4, <1>5, <1>6, <1>7 DEF SnapshotNext, Writer, Reader

(* However often the status is read, and however cycles and reads          *)
(* interleave, no cycle boundary lies within an answer that passed the     *)
(* check of the generation.                                                *)
THEOREM OneWindow == Spec => []NoBoundaryCrossed
  <1>1. Init => SnapshotInv
    BY DEF Init, SnapshotInit, SnapshotInv
  <1>2. SnapshotInv /\ [Next]_vars => SnapshotInv'
    BY ApiSteps, SnapshotInvNext
  <1>3. SnapshotInv => NoBoundaryCrossed
    BY DEF SnapshotInv, NoBoundaryCrossed
  <1> QED
    BY <1>1, <1>2, <1>3, PTL DEF Spec

-----------------------------------------------------------------------------
(* The limiter of the admin endpoints.                                     *)

Admitted == [st : {"admitted"}, client : Clients, age : Nat]

(* A client has been blocked no longer than its entry is old: nothing that *)
(* is recorded for a blocked client opens its window anew.                 *)
LimiterInv ==
  /\ failures \in [Clients -> Nat] /\ opened \in [Clients -> Nat] /\ shut \in [Clients -> Nat]
  /\ attempt \in [Attempts -> {NoAttempt} \cup Admitted]
  /\ \A c \in Clients : shut[c] > 0 =>
       failures[c] >= MaxFailures /\ opened[c] < Window /\ shut[c] <= opened[c]

(* What a wrong token does to a client, its own or another: only a window  *)
(* that has passed loses its count.                                        *)
LEMMA Recorded ==
  ASSUME LimiterInv, NEW c \in Clients, NEW lag \in Nat, RecordFailure(c, lag), NEW d \in Clients
  PROVE  /\ failures' \in [Clients -> Nat] /\ opened' \in [Clients -> Nat]
         /\ opened[d] < Window =>
              /\ failures'[d] >= failures[d]
              /\ failures[d] > 0 => opened'[d] = opened[d]
  <1> DEFINE kept == [e \in Clients |-> IF e \in Pruned(lag) THEN 0 ELSE failures[e]]
             new == kept[c] = 0 \/ Since(opened[c], lag) >= Window
  <1>1. /\ failures' = [kept EXCEPT ![c] = IF new THEN 1 ELSE @ + 1]
        /\ opened' = [e \in Clients |-> IF e = c THEN (IF new THEN lag ELSE opened[c])
                                         ELSE IF kept[e] = 0 THEN 0 ELSE opened[e]]
    BY DEF RecordFailure
  <1>2. \A e \in Clients : opened[e] < Window => Since(opened[e], lag) < Window
    BY LimiterAssumption DEF Since, LimiterInv
  <1>3. \A e \in Pruned(lag) : Since(opened[e], lag) >= Window
    BY DEF Pruned
  <1>4. \A e \in Clients : opened[e] < Window => e \notin Pruned(lag)
    <2> SUFFICES ASSUME NEW e \in Clients, opened[e] < Window, e \in Pruned(lag) PROVE FALSE
      OBVIOUS
    <2>1. Since(opened[e], lag) \in Nat
      BY DEF Since, LimiterInv
    <2> QED
      BY <1>2, <1>3, <2>1, LimiterAssumption
  <1>5. kept \in [Clients -> Nat]
    BY DEF LimiterInv
  <1>6. failures' \in [Clients -> Nat] /\ opened' \in [Clients -> Nat]
    <2> HIDE DEF kept, new
    <2> QED
      BY <1>1, <1>5 DEF LimiterInv
  <1>7. ASSUME opened[d] < Window
        PROVE  failures'[d] >= failures[d] /\ (failures[d] > 0 => opened'[d] = opened[d])
    <2>1. kept[d] = failures[d]
      BY <1>4, <1>7
    <2>2. d = c /\ failures[d] > 0 => ~new
      <3>1. Since(opened[d], lag) < Window /\ Since(opened[d], lag) \in Nat
        BY <1>2, <1>7 DEF Since, LimiterInv
      <3>2. failures[d] \in Nat
        BY DEF LimiterInv
      <3> HIDE DEF kept
      <3> QED
        BY <2>1, <3>1, <3>2, LimiterAssumption
    <2>3. failures[d] \in Nat /\ failures[c] \in Nat
      BY DEF LimiterInv
    <2> HIDE DEF kept, new
    <2> QED
      BY <1>1, <1>5, <2>1, <2>2, <2>3
  <1> QED
    BY <1>6, <1>7

LEMMA LimiterInvNext == LimiterInv /\ [AuthNext]_authVars => LimiterInv'
  <1> SUFFICES ASSUME LimiterInv, [AuthNext]_authVars PROVE LimiterInv'
    OBVIOUS
  <1>1. ASSUME NEW a \in Attempts, NEW c \in Clients, Ask(a, c) PROVE LimiterInv'
    BY <1>1 DEF Ask, LimiterInv, Admitted
  <1>2. ASSUME NEW a \in Attempts, WrongToken(a) PROVE LimiterInv'
    <2>1. /\ attempt[a].client \in Clients /\ attempt[a].age \in Nat
          /\ RecordFailure(attempt[a].client, attempt[a].age)
          /\ attempt' = [attempt EXCEPT ![a] = NoAttempt] /\ shut' = shut
      BY <1>2 DEF WrongToken, LimiterInv, Admitted, NoAttempt
    <2>2. attempt' \in [Attempts -> {NoAttempt} \cup Admitted]
      BY <2>1 DEF LimiterInv
    <2>3. ASSUME NEW d \in Clients
          PROVE  /\ failures' \in [Clients -> Nat] /\ opened' \in [Clients -> Nat]
                 /\ opened[d] < Window =>
                      /\ failures'[d] >= failures[d]
                      /\ failures[d] > 0 => opened'[d] = opened[d]
      BY <2>1, Recorded
    <2>4. failures' \in [Clients -> Nat] /\ opened' \in [Clients -> Nat]
      BY <2>1, <2>3
    <2>5. ASSUME NEW d \in Clients, shut'[d] > 0
          PROVE  failures'[d] >= MaxFailures /\ opened'[d] < Window /\ shut'[d] <= opened'[d]
      BY <2>1, <2>3, <2>4, <2>5, LimiterAssumption DEF LimiterInv
    <2> QED
      BY <2>1, <2>2, <2>4, <2>5 DEF LimiterInv
  <1>3. ASSUME NEW a \in Attempts, RightToken(a) PROVE LimiterInv'
    <2>1. attempt[a].client \in Clients
      BY <1>3 DEF RightToken, LimiterInv, Admitted, NoAttempt
    <2> QED
      BY <1>3, <2>1 DEF RightToken, RecordSuccess, LimiterInv
  <1>4. CASE AuthTick
    <2>1. attempt' \in [Attempts -> {NoAttempt} \cup Admitted]
      <3>1. ASSUME NEW a \in Attempts
            PROVE  (IF attempt[a] = NoAttempt THEN NoAttempt
                    ELSE [attempt[a] EXCEPT !.age = @ + 1]) \in {NoAttempt} \cup Admitted
        BY DEF LimiterInv, Admitted
      <3> QED
        BY <1>4, <3>1 DEF AuthTick
    <2>2. /\ failures' = failures
          /\ opened' = [c \in Clients |-> IF failures[c] = 0 THEN 0 ELSE Older(opened[c])]
          /\ shut' = [c \in Clients |->
                        IF Blocked(c) /\ Blocked(c)' THEN Older(shut[c]) ELSE 0]
      BY <1>4 DEF AuthTick
    <2>3. opened' \in [Clients -> Nat] /\ shut' \in [Clients -> Nat]
      BY <2>2 DEF LimiterInv, Older
    <2>4. ASSUME NEW c \in Clients, shut'[c] > 0
          PROVE  failures'[c] >= MaxFailures /\ opened'[c] < Window /\ shut'[c] <= opened'[c]
      <3>1. Blocked(c) /\ Blocked(c)' /\ shut'[c] = Older(shut[c])
        BY <2>2, <2>4
      <3>2. failures[c] >= MaxFailures /\ opened[c] < Window /\ opened'[c] < Window
        BY <3>1 DEF Blocked
      <3>3. failures[c] \in Nat /\ opened[c] \in Nat /\ shut[c] \in Nat
        BY DEF LimiterInv
      <3>4. opened'[c] = opened[c] + 1
        BY <2>2, <3>2, <3>3, LimiterAssumption DEF Older, MaxAge
      <3>5. shut[c] <= opened[c]
        BY <3>3 DEF LimiterInv
      <3>6. shut'[c] <= shut[c] + 1
        BY <3>1, <3>3 DEF Older
      <3>7. shut'[c] \in Nat
        BY <2>3
      <3> QED
        BY <2>2, <3>2, <3>3, <3>4, <3>5, <3>6, <3>7
    <2> QED
      BY <2>1, <2>2, <2>3, <2>4 DEF LimiterInv
  <1>5. CASE UNCHANGED authVars
    BY <1>5 DEF authVars, LimiterInv
  <1> QED
    BY <1>1, <1>2, <1>3, <1>4, <1>5 DEF AuthNext

LEMMA SpecLimiterInv == Spec => []LimiterInv
  <1>1. Init => LimiterInv
    BY DEF Init, AuthInit, LimiterInv
  <1>2. LimiterInv /\ [Next]_vars => LimiterInv'
    BY ApiSteps, LimiterInvNext
  <1> QED
    BY <1>1, <1>2, PTL DEF Spec

(* A blocked client is let in again when its window has passed, however    *)
(* many of its requests were under way and whatever they record.           *)
THEOREM BlocksEnd == Spec => []BlockEnds
  <1>1. LimiterInv => BlockEnds
    <2> SUFFICES ASSUME LimiterInv, NEW c \in Clients PROVE shut[c] < Window
      BY DEF BlockEnds
    <2>1. shut[c] \in Nat /\ opened[c] \in Nat
      BY DEF LimiterInv
    <2> QED
      BY <2>1, LimiterAssumption DEF LimiterInv
  <1> QED
    BY <1>1, SpecLimiterInv, PTL

(* Nothing but its own right token gives a client's failures back within   *)
(* the window: neither a full map nor a late request of anyone.            *)
THEOREM BudgetsLast == Spec => BudgetKept
  <1>1. LimiterInv /\ [Next]_vars =>
          [\A c \in Clients : failures'[c] < failures[c] =>
             \/ opened[c] >= Window
             \/ \E a \in Attempts : RightToken(a) /\ attempt[a].client = c]_authVars
    <2> SUFFICES ASSUME LimiterInv, AuthNext, NEW c \in Clients, failures'[c] < failures[c],
                        opened[c] < Window
                 PROVE  \E a \in Attempts : RightToken(a) /\ attempt[a].client = c
      <3>1. LimiterInv => \A c \in Clients : opened[c] \in Nat
        BY DEF LimiterInv
      <3> QED
        BY <3>1, ApiSteps, LimiterAssumption
    <2>1. failures[c] \in Nat
      BY DEF LimiterInv
    <2>2. ASSUME NEW a \in Attempts, WrongToken(a) PROVE FALSE
      <3>1. /\ attempt[a].client \in Clients /\ attempt[a].age \in Nat
            /\ RecordFailure(attempt[a].client, attempt[a].age)
        BY <2>2 DEF WrongToken, LimiterInv, Admitted, NoAttempt
      <3>2. failures' \in [Clients -> Nat] /\ failures'[c] >= failures[c]
        BY <3>1, Recorded
      <3> QED
        BY <2>1, <3>2
    <2>3. ASSUME NEW a \in Attempts, RightToken(a), attempt[a].client # c PROVE FALSE
      BY <2>1, <2>3 DEF RightToken, RecordSuccess, LimiterInv
    <2>4. ASSUME failures' = failures PROVE FALSE
      BY <2>1, <2>4
    <2> QED
      BY <2>2, <2>3, <2>4 DEF AuthNext, Ask, AuthTick
  <1> QED
    BY <1>1, SpecLimiterInv, PTL DEF Spec, BudgetKept

(* The attempts under way that would add to a client's count: not those    *)
(* that took the time when its window had passed, which open another.      *)
Counting(c) ==
  {a \in Attempts : /\ attempt[a].st = "admitted" /\ attempt[a].client = c
                    /\ Since(opened[c], attempt[a].age) < Window}

(* What a client has used of its budget, and what is under way.            *)
Budget(c) == failures[c] + Cardinality(Counting(c)) < MaxFailures + Cardinality(Attempts)

LagsBounded == \A a \in Attempts : attempt[a].st = "admitted" => attempt[a].age <= MaxLag

BudgetInv == LagsBounded /\ \A c \in Clients : Budget(c)

LEMMA AttemptsCount ==
  ASSUME NEW S \in SUBSET Attempts
  PROVE  /\ IsFiniteSet(S) /\ Cardinality(S) \in Nat /\ Cardinality(Attempts) \in Nat
         /\ Cardinality(S) <= Cardinality(Attempts)
         /\ \A a \in S : Cardinality(S \ {a}) = Cardinality(S) - 1
  <1>1. IsFiniteSet(S) /\ IsFiniteSet(Attempts)
    BY FS_Subset, LimiterAssumption
  <1>2. Cardinality(S) \in Nat /\ Cardinality(Attempts) \in Nat
    BY <1>1, FS_CardinalityType
  <1>3. Cardinality(S) <= Cardinality(Attempts)
    BY <1>1, FS_Subset
  <1>4. \A a \in S : Cardinality(S \ {a}) = Cardinality(S) - 1
    BY <1>1, FS_RemoveElement
  <1> QED
    BY <1>1, <1>2, <1>3, <1>4

LEMMA SubsetCount ==
  ASSUME NEW T \in SUBSET Attempts, NEW S \in SUBSET T
  PROVE  Cardinality(S) <= Cardinality(T)
  <1>1. IsFiniteSet(T)
    BY AttemptsCount
  <1> QED
    BY <1>1, FS_Subset

(* What keeps a client within its budget: attempts that do not count, a    *)
(* count below the limit, a count begun anew by an attempt that is over,   *)
(* and an attempt that has counted.                                        *)
LEMMA BudgetRules ==
  ASSUME LimiterInv, failures' \in [Clients -> Nat], NEW c \in Clients, Budget(c),
         \/ failures'[c] <= failures[c] /\ Counting(c)' \subseteq Counting(c)
         \/ failures'[c] < MaxFailures
         \/ \E a \in Attempts : failures'[c] <= 1 /\ a \notin Counting(c)'
         \/ \E a \in Counting(c) :
              failures'[c] <= failures[c] + 1 /\ Counting(c)' \subseteq Counting(c) \ {a}
  PROVE  Budget(c)'
  <1> DEFINE C == Counting(c)
             D == Counting(c)'
             n == Cardinality(Attempts)
  <1>1. C \subseteq Attempts /\ D \subseteq Attempts
    BY DEF Counting
  <1>2. failures[c] \in Nat /\ failures'[c] \in Nat /\ MaxFailures \in Nat /\ MaxFailures > 0
    BY LimiterAssumption DEF LimiterInv
  <1>3. failures[c] + Cardinality(C) < MaxFailures + n
    BY DEF Budget
  <1> HIDE DEF C, D
  <1>4. Cardinality(C) \in Nat /\ Cardinality(D) \in Nat /\ n \in Nat /\ Cardinality(D) <= n
    BY <1>1, AttemptsCount
  <1>5. SUFFICES failures'[c] + Cardinality(D) < MaxFailures + n
    BY DEF Budget, D
  <1>6. CASE failures'[c] <= failures[c] /\ D \subseteq C
    <2>1. Cardinality(D) <= Cardinality(C)
      BY <1>1, <1>6, SubsetCount
    <2> QED
      BY <1>2, <1>3, <1>4, <1>6, <2>1
  <1>7. CASE failures'[c] < MaxFailures
    BY <1>2, <1>4, <1>7
  <1>8. ASSUME NEW a \in Attempts, failures'[c] <= 1, a \notin D
        PROVE  failures'[c] + Cardinality(D) < MaxFailures + n
    <2>1. D \in SUBSET (Attempts \ {a}) /\ Attempts \ {a} \in SUBSET Attempts
      BY <1>1, <1>8
    <2>2. Cardinality(D) <= Cardinality(Attempts \ {a})
      BY <2>1, SubsetCount
    <2>3. Cardinality(Attempts \ {a}) = n - 1
      BY AttemptsCount
    <2> QED
      BY <1>2, <1>4, <1>8, <2>2, <2>3
  <1>9. ASSUME NEW a \in C, failures'[c] <= failures[c] + 1, D \subseteq C \ {a}
        PROVE  failures'[c] + Cardinality(D) < MaxFailures + n
    <2>1. Cardinality(D) <= Cardinality(C \ {a})
      <3>1. D \in SUBSET (C \ {a}) /\ C \ {a} \in SUBSET Attempts
        BY <1>1, <1>9
      <3> QED
        BY <3>1, SubsetCount
    <2>2. Cardinality(C \ {a}) = Cardinality(C) - 1
      BY <1>1, AttemptsCount
    <2> QED
      BY <1>2, <1>3, <1>4, <1>9, <2>1, <2>2
  <1> QED
    BY <1>6, <1>7, <1>8, <1>9 DEF C, D

(* A failure recorded for a client: its window has passed and a count      *)
(* begins, or it goes on; and of another, nothing or the loss of a passed  *)
(* count.                                                                  *)
LEMMA RecordedBudget ==
  ASSUME LimiterInv, NEW c \in Clients, NEW lag \in Nat, RecordFailure(c, lag)
  PROVE  /\ \/ failures'[c] = 1
            \/ /\ failures'[c] = failures[c] + 1 /\ opened'[c] = opened[c]
               /\ Since(opened[c], lag) < Window
         /\ \A d \in Clients \ {c} :
              \/ failures'[d] = 0
              \/ failures'[d] = failures[d] /\ opened'[d] = opened[d]
  <1> DEFINE kept == [e \in Clients |-> IF e \in Pruned(lag) THEN 0 ELSE failures[e]]
             new == kept[c] = 0 \/ Since(opened[c], lag) >= Window
  <1>1. /\ failures' = [kept EXCEPT ![c] = IF new THEN 1 ELSE @ + 1]
        /\ opened' = [e \in Clients |-> IF e = c THEN (IF new THEN lag ELSE opened[c])
                                         ELSE IF kept[e] = 0 THEN 0 ELSE opened[e]]
    BY DEF RecordFailure
  <1>2. \A e \in Clients : kept[e] = 0 \/ kept[e] = failures[e]
    OBVIOUS
  <1>3. kept \in [Clients -> Nat]
    BY DEF LimiterInv
  <1>4. Since(opened[c], lag) \in Nat /\ Window \in Nat
    BY LimiterAssumption DEF Since, LimiterInv
  <1>5. ~new => kept[c] = failures[c] /\ Since(opened[c], lag) < Window
    BY <1>2, <1>4
  <1> HIDE DEF kept, new
  <1>6. \A d \in Clients \ {c} :
          failures'[d] = kept[d] /\ opened'[d] = IF kept[d] = 0 THEN 0 ELSE opened[d]
    BY <1>1, <1>3
  <1>7. IF new THEN failures'[c] = 1 ELSE failures'[c] = kept[c] + 1 /\ opened'[c] = opened[c]
    BY <1>1, <1>3
  <1> QED
    BY <1>2, <1>5, <1>6, <1>7

(* Time does not make an attempt count that did not: both its age and its  *)
(* client's window grow, and where the window's age is counted no further  *)
(* there is room for the lag.                                              *)
LEMMA SinceKeeps ==
  ASSUME NEW age \in Nat, NEW lag \in Nat, lag < MaxLag, Since(age, lag) >= Window
  PROVE  Since(Older(age), lag + 1) >= Window
  BY LimiterAssumption DEF Since, Older, MaxAge

LEMMA BudgetNext == LimiterInv /\ LimiterInv' /\ BudgetInv /\ [AuthNext]_authVars => BudgetInv'
  <1> SUFFICES ASSUME LimiterInv, LimiterInv', BudgetInv, [AuthNext]_authVars PROVE BudgetInv'
    OBVIOUS
  <1>1. failures' \in [Clients -> Nat] /\ \A c \in Clients : failures'[c] \in Nat
    BY DEF LimiterInv
  <1>2. \A c \in Clients : Budget(c)
    BY DEF BudgetInv
  <1>3. LagsBounded
    BY DEF BudgetInv
  <1>4. ASSUME NEW a \in Attempts, NEW c \in Clients, Ask(a, c) PROVE BudgetInv'
    <2>1. /\ attempt' = [attempt EXCEPT ![a] = [st |-> "admitted", client |-> c, age |-> 0]]
          /\ failures' = failures /\ opened' = opened /\ ~Blocked(c)
      BY <1>4 DEF Ask
    <2>2. /\ attempt'[a] = [st |-> "admitted", client |-> c, age |-> 0]
          /\ \A b \in Attempts \ {a} : attempt'[b] = attempt[b]
      BY <2>1 DEF LimiterInv
    <2>3. LagsBounded'
      BY <1>3, <2>2, LimiterAssumption DEF LagsBounded
    <2>4. ASSUME NEW d \in Clients PROVE Budget(d)'
      <3>1. CASE d = c /\ failures[c] < MaxFailures
        BY <1>1, <1>2, <2>1, <3>1, BudgetRules
      <3>2. CASE d # c \/ opened[c] >= Window
        <4>1. d = c => Since(opened[d], 0) >= Window
          BY <3>2, LimiterAssumption DEF Since, LimiterInv
        <4>2. Since(opened[d], 0) \in Nat /\ Window \in Nat
          BY LimiterAssumption DEF Since, LimiterInv
        <4>3. Counting(d)' \subseteq Counting(d)
          BY <2>1, <2>2, <4>1, <4>2 DEF Counting
        <4> QED
          BY <1>1, <1>2, <2>1, <4>3, BudgetRules
      <3>3. d = c => failures[c] < MaxFailures \/ opened[c] >= Window
        BY <2>1, LimiterAssumption DEF Blocked, LimiterInv
      <3> QED
        BY <3>1, <3>2, <3>3
    <2> QED
      BY <2>3, <2>4 DEF BudgetInv
  <1>5. ASSUME NEW a \in Attempts, WrongToken(a) PROVE BudgetInv'
    <2>1. /\ attempt[a].st = "admitted" /\ attempt[a].client \in Clients /\ attempt[a].age \in Nat
          /\ RecordFailure(attempt[a].client, attempt[a].age)
          /\ attempt' = [attempt EXCEPT ![a] = NoAttempt]
      BY <1>5 DEF WrongToken, LimiterInv, Admitted, NoAttempt
    <2>2. /\ attempt'[a].st # "admitted"
          /\ \A b \in Attempts \ {a} : attempt'[b] = attempt[b]
      BY <2>1 DEF LimiterInv, NoAttempt
    <2>3. LagsBounded'
      BY <1>3, <2>2 DEF LagsBounded
    <2>4. ASSUME NEW d \in Clients PROVE Budget(d)'
      <3>1. a \notin Counting(d)'
        BY <2>2 DEF Counting
      <3>2. opened'[d] = opened[d] => Counting(d)' \subseteq Counting(d) \ {a}
        BY <2>2 DEF Counting
      <3>3. CASE d = attempt[a].client
        <4>1. \/ failures'[d] = 1
              \/ /\ failures'[d] = failures[d] + 1 /\ opened'[d] = opened[d]
                 /\ Since(opened[d], attempt[a].age) < Window
          BY <2>1, <3>3, RecordedBudget
        <4>2. CASE failures'[d] = 1
          BY <1>1, <1>2, <3>1, <4>2, BudgetRules
        <4>3. CASE /\ failures'[d] = failures[d] + 1 /\ opened'[d] = opened[d]
                   /\ Since(opened[d], attempt[a].age) < Window
          <5>1. a \in Counting(d)
            BY <2>1, <3>3, <4>3 DEF Counting
          <5>2. failures'[d] <= failures[d] + 1
            BY <1>1, <4>3
          <5> QED
            BY <1>1, <1>2, <3>2, <4>3, <5>1, <5>2, BudgetRules
        <4> QED
          BY <4>1, <4>2, <4>3
      <3>4. CASE d # attempt[a].client
        <4>1. failures'[d] = 0 \/ (failures'[d] = failures[d] /\ opened'[d] = opened[d])
          BY <2>1, <3>4, RecordedBudget
        <4>2. CASE failures'[d] = 0
          <5>1. failures'[d] < MaxFailures
            BY <4>2, LimiterAssumption
          <5> QED
            BY <1>1, <1>2, <5>1, BudgetRules
        <4>3. CASE failures'[d] = failures[d] /\ opened'[d] = opened[d]
          <5>1. failures'[d] <= failures[d] /\ Counting(d)' \subseteq Counting(d)
            BY <1>1, <3>2, <4>3
          <5> QED
            BY <1>1, <1>2, <5>1, BudgetRules
        <4> QED
          BY <4>1, <4>2, <4>3
      <3> QED
        BY <3>3, <3>4
    <2> QED
      BY <2>3, <2>4 DEF BudgetInv
  <1>6. ASSUME NEW a \in Attempts, RightToken(a) PROVE BudgetInv'
    <2>1. /\ attempt[a].client \in Clients
          /\ failures' = [failures EXCEPT ![attempt[a].client] = 0]
          /\ opened' = [opened EXCEPT ![attempt[a].client] = 0]
          /\ attempt' = [attempt EXCEPT ![a] = NoAttempt]
      BY <1>6 DEF RightToken, RecordSuccess, LimiterInv, Admitted, NoAttempt
    <2>2. /\ attempt'[a].st # "admitted"
          /\ \A b \in Attempts \ {a} : attempt'[b] = attempt[b]
      BY <2>1 DEF LimiterInv, NoAttempt
    <2>3. LagsBounded'
      BY <1>3, <2>2 DEF LagsBounded
    <2>4. ASSUME NEW d \in Clients PROVE Budget(d)'
      <3>1. CASE d = attempt[a].client
        <4>1. failures'[d] < MaxFailures
          BY <2>1, <3>1, LimiterAssumption DEF LimiterInv
        <4> QED
          BY <1>1, <1>2, <4>1, BudgetRules
      <3>2. CASE d # attempt[a].client
        <4>1. failures'[d] = failures[d] /\ opened'[d] = opened[d]
          BY <2>1, <3>2 DEF LimiterInv
        <4>2. failures'[d] <= failures[d] /\ Counting(d)' \subseteq Counting(d)
          BY <1>1, <2>2, <4>1 DEF Counting
        <4> QED
          BY <1>1, <1>2, <4>2, BudgetRules
      <3> QED
        BY <3>1, <3>2
    <2> QED
      BY <2>3, <2>4 DEF BudgetInv
  <1>7. CASE AuthTick
    <2>1. /\ failures' = failures
          /\ \A c \in Clients : opened'[c] = IF failures[c] = 0 THEN 0 ELSE Older(opened[c])
      BY <1>7 DEF AuthTick
    <2>2. ASSUME NEW a \in Attempts, attempt'[a].st = "admitted"
          PROVE  /\ attempt[a].st = "admitted" /\ attempt'[a].client = attempt[a].client
                 /\ attempt'[a].age = attempt[a].age + 1
                 /\ attempt[a].age \in Nat /\ attempt[a].age < MaxLag
      <3>1. /\ attempt'[a] = IF attempt[a] = NoAttempt THEN NoAttempt
                             ELSE [attempt[a] EXCEPT !.age = @ + 1]
            /\ attempt[a] # NoAttempt => attempt[a].age < MaxLag
        BY <1>7 DEF AuthTick
      <3>2. attempt[a] # NoAttempt
        BY <2>2, <3>1 DEF NoAttempt
      <3>3. attempt[a] \in Admitted
        BY <3>2 DEF LimiterInv
      <3>4. attempt'[a] = [attempt[a] EXCEPT !.age = @ + 1] /\ attempt[a].age < MaxLag
        BY <3>1, <3>2
      <3> QED
        BY <3>3, <3>4 DEF Admitted
    <2>3. LagsBounded'
      BY <2>2, LimiterAssumption DEF LagsBounded
    <2>4. ASSUME NEW d \in Clients PROVE Budget(d)'
      <3>1. CASE failures[d] = 0
        <4>1. failures'[d] < MaxFailures
          BY <2>1, <3>1, LimiterAssumption
        <4> QED
          BY <1>1, <1>2, <4>1, BudgetRules
      <3>2. CASE failures[d] # 0
        <4>1. opened'[d] = Older(opened[d]) /\ opened[d] \in Nat
          BY <2>1, <3>2 DEF LimiterInv
        <4>2. ASSUME NEW a \in Counting(d)' PROVE a \in Counting(d)
          <5>1. /\ a \in Attempts /\ attempt'[a].st = "admitted" /\ attempt'[a].client = d
                /\ Since(opened'[d], attempt'[a].age) < Window
            BY <4>2 DEF Counting
          <5>2. /\ attempt[a].st = "admitted" /\ attempt[a].client = d
                /\ attempt'[a].age = attempt[a].age + 1
                /\ attempt[a].age \in Nat /\ attempt[a].age < MaxLag
            BY <2>2, <5>1
          <5>3. Since(Older(opened[d]), attempt[a].age + 1) < Window
            BY <4>1, <5>1, <5>2
          <5>4. /\ Since(opened[d], attempt[a].age) \in Nat /\ Window \in Nat
                /\ Since(Older(opened[d]), attempt[a].age + 1) \in Int
            BY <4>1, <5>2, LimiterAssumption DEF Since, Older
          <5>5. Since(opened[d], attempt[a].age) < Window
            BY <4>1, <5>2, <5>3, <5>4, SinceKeeps
          <5> QED
            BY <5>1, <5>2, <5>5 DEF Counting
        <4>3. failures'[d] <= failures[d] /\ Counting(d)' \subseteq Counting(d)
          BY <1>1, <2>1, <4>2
        <4> QED
          BY <1>1, <1>2, <4>3, BudgetRules
      <3> QED
        BY <3>1, <3>2
    <2> QED
      BY <2>3, <2>4 DEF BudgetInv
  <1>8. CASE UNCHANGED authVars
    BY <1>8 DEF authVars, BudgetInv, LagsBounded, Budget, Counting
  <1> QED
    BY <1>4, <1>5, <1>6, <1>7, <1>8 DEF AuthNext

(* No client has more wrong tokens compared in a window than its budget    *)
(* and the requests that were under way when it ran out, however slow they *)
(* are between asking the limiter and recording their failure.             *)
THEOREM GuessesAreBounded == Spec => []GuessesBounded
  <1>1. Init => BudgetInv
    <2> SUFFICES ASSUME Init PROVE BudgetInv
      OBVIOUS
    <2>1. \A a \in Attempts : attempt[a].st # "admitted"
      BY DEF Init, AuthInit, NoAttempt
    <2>2. ASSUME NEW c \in Clients PROVE Budget(c)
      <3>1. failures[c] = 0 /\ Counting(c) = {}
        BY <2>1 DEF Init, AuthInit, Counting
      <3>2. Cardinality(Attempts) \in Nat /\ MaxFailures \in Nat /\ MaxFailures > 0
        BY AttemptsCount, LimiterAssumption
      <3> QED
        BY <3>1, <3>2, FS_EmptySet DEF Budget
    <2> QED
      BY <2>1, <2>2 DEF BudgetInv, LagsBounded
  <1>2. LimiterInv /\ LimiterInv' /\ BudgetInv /\ [Next]_vars => BudgetInv'
    BY ApiSteps, BudgetNext
  <1>3. LimiterInv /\ BudgetInv => GuessesBounded
    <2> SUFFICES ASSUME LimiterInv, BudgetInv, NEW c \in Clients
                 PROVE  failures[c] < MaxFailures + Cardinality(Attempts)
      BY DEF GuessesBounded
    <2>1. failures[c] \in Nat /\ MaxFailures \in Nat
      BY LimiterAssumption DEF LimiterInv
    <2>2. Cardinality(Counting(c)) \in Nat /\ Cardinality(Attempts) \in Nat
      BY AttemptsCount DEF Counting
    <2>3. failures[c] + Cardinality(Counting(c)) < MaxFailures + Cardinality(Attempts)
      BY DEF BudgetInv, Budget
    <2> QED
      BY <2>1, <2>2, <2>3
  <1> QED
    BY <1>1, <1>2, <1>3, SpecLimiterInv, PTL DEF Spec

=============================================================================
