---------------------------- MODULE SubmitProofs ----------------------------
(***************************************************************************)
(* Proofs about submit_and_poll, for every number of attempts: type        *)
(* correctness, what its reports mean, and that it implements Submission,  *)
(* which is all the keeper loop's model assumes of it.                     *)
(***************************************************************************)
EXTENDS Submit, TLAPS

(* An attempt number below the bound leaves room for one lost request more.*)
TransitOK == pc = "send" => transit <= attempt

TypeInv == TypeOK /\ TransitOK

LEMMA TypeInit == Init => TypeInv
  <1> SUFFICES ASSUME Init PROVE TypeInv
    OBVIOUS
  <1>1. 0 < SendAttempts /\ 0 \in 0..SendAttempts
    BY AttemptsAssumption
  <1>2. doubt \in BOOLEAN /\ fault \in BOOLEAN /\ report \in AllOutcomes \cup {"none"}
    BY DEF Init
  <1>3. /\ chain \in ChainStates /\ transit \in 0..SendAttempts /\ transit <= attempt
        /\ attempt \in Nat /\ attempt < SendAttempts
    BY <1>1 DEF Init, ChainStates
  <1>4. pc = "send" /\ report = "none"
    BY DEF Init
  <1> QED
    BY <1>2, <1>3, <1>4 DEF TypeInv, TransitOK, TypeOK

LEMMA TypeNext == TypeInv /\ [Next]_vars => TypeInv'
  <1> SUFFICES ASSUME TypeInv, [Next]_vars PROVE TypeInv'
    OBVIOUS
  <1> USE AttemptsAssumption DEF TypeInv
  <1>1. CASE Arrive
    BY <1>1 DEF Arrive, Offer, TypeOK, TransitOK, ChainStates
  <1>2. CASE Land
    BY <1>2 DEF Land, TypeOK, TransitOK, ChainStates
  <1>3. CASE Expire
    BY <1>3 DEF Expire, TypeOK, TransitOK, ChainStates
  <1>4. CASE SendAccepted
    BY <1>4 DEF SendAccepted, StartPoll, TypeOK, TransitOK, ChainStates
  <1>5. CASE SendRefused
    BY <1>5 DEF SendRefused, Done, TypeOK, TransitOK, netVars, Refusals, AllOutcomes
  <1>6. CASE SendFault
    BY <1>6 DEF SendFault, Offer, Done, TypeOK, TransitOK, ChainStates, AllOutcomes
  <1>7. CASE SendLost
    <2>1. transit' \in 0..SendAttempts /\ transit' <= attempt + 1 /\ chain' \in ChainStates
      BY <1>7 DEF SendLost, Offer, TypeOK, TransitOK, ChainStates
    <2>2. CASE attempt + 1 < SendAttempts /\ attempt' = attempt + 1 /\ UNCHANGED <<pc, report>>
      BY <1>7, <2>1, <2>2 DEF SendLost, TypeOK, TransitOK
    <2>3. CASE attempt + 1 = SendAttempts /\ Done("rpc_error")
      BY <1>7, <2>1, <2>3 DEF SendLost, Done, TypeOK, TransitOK, AllOutcomes
    <2> QED
      BY <1>7, <2>2, <2>3 DEF SendLost
  <1>8. CASE PollLanded
    BY <1>8 DEF PollLanded, Done, TypeOK, TransitOK, netVars, AllOutcomes, Landings
  <1>9. CASE PollAgain
    <2>1. CASE attempt' < PollAttempts
      BY <1>9, <2>1 DEF PollAgain, TypeOK, TransitOK, netVars
    <2>2. CASE ~(attempt' < PollAttempts)
      BY <1>9, <2>2 DEF PollAgain, TypeOK, TransitOK, netVars, AllOutcomes
    <2> QED
      BY <2>1, <2>2
  <1>10. CASE PollFault
    BY <1>10 DEF PollFault, Done, TypeOK, TransitOK, netVars, AllOutcomes
  <1>11. CASE UNCHANGED vars
    BY <1>11 DEF vars, TypeOK, TransitOK
  <1> QED
    BY <1>1, <1>2, <1>3, <1>4, <1>5, <1>6, <1>7, <1>8, <1>9, <1>10, <1>11
    DEF Next, SendStep, PollStep

(* The state of submit_and_poll is well-typed: no attempt beyond the retry *)
(* and poll bounds is ever made.                                           *)
THEOREM TypeCorrect == Spec => []TypeOK
  <1>1. TypeInv => TypeOK
    BY DEF TypeInv
  <1> QED
    BY <1>1, TypeInit, TypeNext, PTL DEF Spec

-----------------------------------------------------------------------------
(* As long as no answer was lost, no request is on its way and the         *)
(* transaction is with the network only once polling has begun; polling    *)
(* begins only with the network's word that it has it.                     *)
KnownInv ==
  /\ transit > 0 => doubt
  /\ pc = "send" /\ ~doubt => chain \in {"unsent", "gone"}
  /\ pc = "poll" => chain # "unsent"
  /\ fault => report = "rpc_error"
  /\ TimeoutMeansAccepted
  /\ FreesOnlySettled

LEMMA KnownInit == Init => KnownInv
  BY DEF Init, KnownInv, TimeoutMeansAccepted, FreesOnlySettled

LEMMA KnownNext == TypeOK /\ KnownInv /\ [Next]_vars => KnownInv'
  <1> SUFFICES ASSUME TypeOK, KnownInv, [Next]_vars PROVE KnownInv'
    OBVIOUS
  <1> USE DEF KnownInv, TimeoutMeansAccepted, FreesOnlySettled, MayStillConfirm, TypeOK,
              ChainStates, Refusals, Landings
  <1>1. CASE Arrive
    BY <1>1 DEF Arrive, Offer
  <1>2. CASE Land
    BY <1>2 DEF Land
  <1>3. CASE Expire
    BY <1>3 DEF Expire
  <1>4. CASE SendAccepted
    BY <1>4 DEF SendAccepted, StartPoll
  <1>5. CASE SendRefused
    BY <1>5 DEF SendRefused, Done, netVars
  <1>6. CASE SendFault
    BY <1>6 DEF SendFault, Offer, Done
  <1>7. CASE SendLost
    BY <1>7 DEF SendLost, Offer, Done
  <1>8. CASE PollLanded
    BY <1>8 DEF PollLanded, Done, netVars
  <1>9. CASE PollAgain
    BY <1>9 DEF PollAgain, netVars
  <1>10. CASE PollFault
    BY <1>10 DEF PollFault, Done, netVars
  <1>11. CASE UNCHANGED vars
    BY <1>11 DEF vars
  <1> QED
    BY <1>1, <1>2, <1>3, <1>4, <1>5, <1>6, <1>7, <1>8, <1>9, <1>10, <1>11
    DEF Next, SendStep, PollStep

(* A poll timeout is about a transaction the network has taken             *)
(* (SubmitError of submit.rs), for any number of attempts.                 *)
THEOREM ReportsSound == Spec => []TimeoutMeansAccepted
  <1>1. KnownInv => TimeoutMeansAccepted
    BY DEF KnownInv
  <1> QED
    BY <1>1, TypeCorrect, KnownInit, KnownNext, PTL DEF Spec

(* As long as every answer said something of the transaction, a report on  *)
(* which the keeper frees the key is the last word on it (SubmitError of   *)
(* submit.rs), for any number of attempts.                                 *)
THEOREM ReleasesFinal == Spec => []FreesOnlySettled
  <1>1. KnownInv => FreesOnlySettled
    BY DEF KnownInv
  <1> QED
    BY <1>1, TypeCorrect, KnownInit, KnownNext, PTL DEF Spec

-----------------------------------------------------------------------------
(* Refinement.                                                             *)

LEMMA RefineInit == Init => Promise!Init
  BY DEF Init, Promise!Init

LEMMA RefineNext == TypeOK /\ KnownInv /\ [Next]_vars => [Promise!Next]_(Promise!vars)
  <1> SUFFICES ASSUME TypeOK, KnownInv, [Next]_vars
               PROVE  Promise!Next \/ UNCHANGED Promise!vars
    OBVIOUS
  <1> USE DEF Promise!Next, Promise!vars, Promise!AllOutcomes, Promise!MayReport,
              Promise!Landings, Promise!Refusals
  <1>1. CASE Arrive
    BY <1>1 DEF Arrive, Offer
  <1>2. CASE Land
    <2>1. Promise!Land
      BY <1>2 DEF Land, Promise!Land, KnownInv, FreesOnlySettled, MayStillConfirm, Landings, Refusals
    <2> QED
      BY <2>1
  <1>3. CASE Expire
    <2>1. Promise!Expire
      BY <1>3 DEF Expire, Promise!Expire
    <2> QED
      BY <2>1
  <1>4. CASE SendAccepted
    BY <1>4 DEF SendAccepted, StartPoll
  <1>5. CASE SendRefused
    <2>1. PICK o \in Refusals : Done(o)
      BY <1>5 DEF SendRefused
    <2>2. report = "none" /\ UNCHANGED <<chain, doubt>> /\ o \in AllOutcomes /\ o \notin Landings
          /\ o # "not_sent"
      BY <1>5, <2>1 DEF SendRefused, TypeOK, netVars, AllOutcomes, Refusals, Landings
    <2>3. Promise!Report
      BY <2>1, <2>2 DEF Promise!Report, Done, TypeOK, ChainStates, Landings, Refusals
    <2> QED
      BY <2>3
  <1>6. CASE SendFault
    <2>1. Promise!LoseAnswer
      BY <1>6 DEF SendFault, Offer, Done, Promise!LoseAnswer, TypeOK
    <2> QED
      BY <2>1
  <1>7. CASE SendLost
    <2>1. Promise!LoseAnswer
      BY <1>7 DEF SendLost, Offer, Done, Promise!LoseAnswer, TypeOK
    <2> QED
      BY <2>1
  <1>8. CASE PollLanded
    <2>1. Promise!Report
      BY <1>8 DEF PollLanded, Done, netVars, Promise!Report, MayReport, TypeOK, AllOutcomes, Landings
    <2> QED
      BY <2>1
  <1>9. CASE PollAgain
    <2>1. /\ UNCHANGED <<chain, doubt>> /\ report = "none"
          /\ report' = report \/ report' = "poll_timeout"
      BY <1>9 DEF PollAgain, netVars, TypeOK
    <2>2. CASE report' = report
      BY <2>1, <2>2
    <2>3. CASE report' = "poll_timeout"
      <3>1. Promise!Report
        BY <2>1, <2>3 DEF Promise!Report, MayReport, AllOutcomes, Landings, TypeOK, ChainStates
      <3> QED
        BY <3>1
    <2> QED
      BY <2>1, <2>2, <2>3
  <1>10. CASE PollFault
    <2>1. Promise!Report
      BY <1>10 DEF PollFault, Done, netVars, Promise!Report, MayReport, AllOutcomes, Landings,
                   TypeOK, ChainStates
    <2> QED
      BY <2>1
  <1>11. CASE UNCHANGED vars
    BY <1>11 DEF vars
  <1> QED
    BY <1>1, <1>2, <1>3, <1>4, <1>5, <1>6, <1>7, <1>8, <1>9, <1>10, <1>11
    DEF Next, SendStep, PollStep

(* submit_and_poll keeps the promise the keeper loop relies on, for every  *)
(* number of attempts: one report, landings reported as they happened,     *)
(* refusals final unless an answer was lost.                               *)
THEOREM KeepsPromise == Spec => Implements
  <1> QED
    BY RefineInit, RefineNext, TypeCorrect, KnownInit, KnownNext, PTL
    DEF Spec, Implements, Promise!Spec

=============================================================================
