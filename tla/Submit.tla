------------------------------- MODULE Submit -------------------------------
(***************************************************************************)
(* submit_and_poll (oracle/src/submit.rs): send a signed transaction, with *)
(* retry_with_backoff around the request, then poll for its outcome.       *)
(* Requests and answers may be lost, a lost request may still arrive, and  *)
(* the node that answers may be behind the chain. The delays between       *)
(* attempts are left out: whatever they are, the network may move, or the  *)
(* transaction expire, between any two steps.                              *)
(***************************************************************************)
EXTENDS Naturals, SubmitOutcome

CONSTANTS
  SendAttempts,    \* SEND_TRANSACTION_RETRY_ATTEMPTS
  PollAttempts     \* MAX_POLL_ATTEMPTS

ASSUME AttemptsAssumption == SendAttempts \in Nat \ {0} /\ PollAttempts \in Nat \ {0}

VARIABLES
  \* the network
  chain,    \* "unsent", "accepted", how it landed, or "gone"
  transit,  \* lost requests that may still arrive
  \* submit_and_poll
  pc, attempt,
  report,
  \* history
  doubt,    \* an answer to sendTransaction was lost, or said nothing
  fault     \* an answer to getTransaction said nothing

netVars == <<chain, transit>>
vars == <<chain, transit, pc, attempt, report, doubt, fault>>

ChainStates == {"unsent", "accepted", "gone"} \cup Landings

TypeOK ==
  /\ chain \in ChainStates
  /\ transit \in 0..SendAttempts
  /\ pc \in {"send", "poll", "done"}
  /\ attempt \in Nat
  /\ pc = "send" => attempt < SendAttempts
  /\ pc = "poll" => attempt < PollAttempts
  /\ report \in AllOutcomes \cup {"none"}
  /\ pc = "done" <=> report # "none"
  /\ doubt \in BOOLEAN
  /\ fault \in BOOLEAN

Init ==
  /\ chain = "unsent"
  /\ transit = 0
  /\ pc = "send"
  /\ attempt = 0
  /\ report = "none"
  /\ doubt = FALSE
  /\ fault = FALSE

-----------------------------------------------------------------------------
(* The network.                                                            *)

(* The node may take the transaction when a request reaches it.            *)
Offer == chain' = chain \/ (chain = "unsent" /\ chain' = "accepted")

Arrive ==
  /\ transit > 0
  /\ Offer
  /\ transit' = transit - 1
  /\ UNCHANGED <<pc, attempt, report, doubt, fault>>

Land ==
  /\ chain = "accepted"
  /\ chain' \in Landings
  /\ UNCHANGED <<transit, pc, attempt, report, doubt, fault>>

(* max_time passes, or the network drops the transaction.                  *)
Expire ==
  /\ chain \in {"unsent", "accepted"}
  /\ chain' = "gone"
  /\ UNCHANGED <<transit, pc, attempt, report, doubt, fault>>

-----------------------------------------------------------------------------
(* send_transaction_xdr.                                                   *)

Done(o) == pc' = "done" /\ report' = o /\ UNCHANGED attempt
StartPoll == pc' = "poll" /\ attempt' = 0 /\ UNCHANGED report

(* PENDING: the node has taken the transaction; DUPLICATE: it already had  *)
(* it, from an attempt whose answer was lost. A node behind the chain      *)
(* answers either for one that has landed, or is too late, in the meantime.*)
SendAccepted ==
  /\ pc = "send"
  /\ chain' = IF chain = "unsent" THEN "accepted" ELSE chain
  /\ StartPoll
  /\ UNCHANGED <<transit, doubt, fault>>

(* Mutant: TRY_AGAIN_LATER polled for like PENDING.                        *)
SendRefusedPolled ==
  /\ pc = "send"
  /\ chain # "accepted"
  /\ StartPoll \/ Done("rejected")
  /\ UNCHANGED <<netVars, doubt, fault>>

(* TRY_AGAIN_LATER, ERROR or an unknown status, which a node answers that  *)
(* does not hold the transaction: it never took it, or it has landed (its  *)
(* sequence number is used up) or is too late.                             *)
SendRefused ==
  /\ pc = "send"
  /\ chain # "accepted"
  /\ \E o \in Refusals : Done(o)
  /\ UNCHANGED <<netVars, doubt, fault>>

(* An RPC fault, an HTTP error that is not retried or a body that does not *)
(* parse: an answer that says nothing of the transaction.                  *)
SendFault ==
  /\ pc = "send"
  /\ Offer
  /\ Done("rpc_error")
  /\ doubt' = TRUE
  /\ UNCHANGED <<transit, fault>>

(* Mutants: the attempts are not counted, or one too many is made.         *)
SendLostUncounted ==
  /\ pc = "send"
  /\ \/ Offer /\ UNCHANGED transit
     \/ transit < SendAttempts /\ transit' = transit + 1 /\ UNCHANGED chain
  /\ doubt' = TRUE
  /\ UNCHANGED <<pc, report, attempt, fault>>

(* A network error, 429 or 5xx: the request may have been processed, may   *)
(* still arrive, or is lost (then nothing differs from one that arrives    *)
(* and is not taken). retry_with_backoff tries again, up to its last       *)
(* attempt.                                                                *)
SendLost ==
  /\ pc = "send"
  /\ \/ Offer /\ UNCHANGED transit
     \/ transit' = transit + 1 /\ UNCHANGED chain
  /\ doubt' = TRUE
  /\ \/ /\ attempt + 1 < SendAttempts
        /\ attempt' = attempt + 1
        /\ UNCHANGED <<pc, report>>
     \/ /\ attempt + 1 = SendAttempts
        /\ Done("rpc_error")
  /\ UNCHANGED fault

-----------------------------------------------------------------------------
(* poll_until_confirmed.                                                   *)

(* Mutant: FAILED taken for a confirmation.                                *)
PollLandedOk ==
  /\ pc = "poll"
  /\ chain \in Landings
  /\ Done("ok")
  /\ UNCHANGED <<netVars, doubt, fault>>

(* SUCCESS or FAILED.                                                      *)
PollLanded ==
  /\ pc = "poll"
  /\ chain \in Landings
  /\ Done(chain)
  /\ UNCHANGED <<netVars, doubt, fault>>

(* Mutant: a poll that runs out fails like any other RPC call.             *)
PollExhausted ==
  /\ pc = "poll"
  /\ attempt' = attempt + 1
  /\ IF attempt' < PollAttempts
     THEN UNCHANGED <<pc, report>>
     ELSE pc' = "done" /\ report' = "rpc_error"
  /\ UNCHANGED <<netVars, doubt, fault>>

(* PENDING, NOT_FOUND or an unknown status, which a node behind the chain  *)
(* also answers for a transaction that has landed, or a network error, 429 *)
(* or 5xx: round the loop again, up to its last attempt.                   *)
PollAgain ==
  /\ pc = "poll"
  /\ attempt' = attempt + 1
  /\ IF attempt' < PollAttempts
     THEN UNCHANGED <<pc, report>>
     ELSE pc' = "done" /\ report' = "poll_timeout"
  /\ UNCHANGED <<netVars, doubt, fault>>

(* A transport error that is not retried, a fault or a malformed body.     *)
PollFault ==
  /\ pc = "poll"
  /\ Done("rpc_error")
  /\ fault' = TRUE
  /\ UNCHANGED <<netVars, doubt>>

-----------------------------------------------------------------------------
SendStep == SendAccepted \/ SendRefused \/ SendFault \/ SendLost
PollStep == PollLanded \/ PollAgain \/ PollFault

Next == Arrive \/ Land \/ Expire \/ SendStep \/ PollStep

Spec == Init /\ [][Next]_vars

(* Every request is answered or fails by the HTTP client's timeout (15 s), *)
(* and every sleep ends; the network owes nothing.                         *)
FairSpec == Spec /\ WF_vars(SendStep \/ PollStep)

-----------------------------------------------------------------------------
(* Properties.                                                             *)

(* What the keeper loop relies on: module Submission, in which a           *)
(* transaction is "live" until it lands or expires.                        *)
Promise == INSTANCE Submission WITH
  st <- IF chain \in {"unsent", "accepted"} THEN "live" ELSE chain

Implements == Promise!Spec

(* A poll that runs out was a poll for a transaction the network did take: *)
(* the caller keeps the key in flight for something that can really land.  *)
TimeoutMeansAccepted == report = "poll_timeout" => chain # "unsent"

(* The caller frees the key on every report but a poll timeout. As long as *)
(* every answer said something of the transaction, that report is the last *)
(* word: it landed as reported, or it never reached the network, with no   *)
(* request left that could still take it there.                            *)
FreesOnlySettled ==
  report # "none" /\ ~MayStillConfirm(report) /\ ~doubt /\ ~fault =>
    /\ transit = 0
    /\ IF report \in Landings THEN chain = report ELSE chain \in {"unsent", "gone"}

(* Every submission reports, however the network behaves.                  *)
Reported == <>(report # "none")

=============================================================================
