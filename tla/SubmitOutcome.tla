---------------------------- MODULE SubmitOutcome ----------------------------
(***************************************************************************)
(* What a submission of one transaction may report, and what a report says *)
(* of the transaction: the vocabulary shared by the keeper loop (Keeper)   *)
(* and by submit_and_poll (Submission, Submit).                            *)
(*                                                                         *)
(* A transaction is "none" before it is built, "live" while it may still   *)
(* be applied, "gone" once its max_time has passed, and otherwise it has   *)
(* landed in one of four ways: "ok", or failed on chain. A failure is told *)
(* by what the keeper makes of its diagnostic events: "budget" or "paused" *)
(* when it finds the one pattern or the other in them, "fail" when it      *)
(* finds none, whatever the contract meant.                                *)
(***************************************************************************)

Landings == {"ok", "fail", "budget", "paused"}
TxStates == {"none", "live", "gone"} \cup Landings

(* SubmitError, with TransactionFailed split by what the diagnostic events *)
(* say, and "not_sent" for what fails before a transaction is sent.        *)
Refusals == {"rejected", "try_again_later"}
AllOutcomes == Landings \cup Refusals \cup {"poll_timeout", "rpc_error", "not_sent"}

(* A landing is reported only if it happened. Anything else says little: a *)
(* poll that runs out, a transport error or a malformed answer may hide    *)
(* any outcome, and a refusal may be the answer to a resend of a           *)
(* transaction that was accepted, or has landed, in the meantime.          *)
MayReport(o, st) ==
  /\ o \in Landings => st = o
  /\ o = "not_sent" <=> st = "none"

(* Mutant: a poll timeout taken for a settled outcome.                     *)
NothingMayConfirm(o) == FALSE

(* Only a poll timeout counts as undecided.                                *)
MayStillConfirm(o) == o = "poll_timeout"

(* Whether the keeper finds the pattern: for the budget as plain text or   *)
(* in base64 that decodes to UTF-8, for a paused market as plain text only *)
(* (the events of a node are base64). A failure it does not recognise is a *)
(* "fail", and the model has it wherever it has the other two.             *)
IsBudgetExceeded(o) == o = "budget"
IsMarketPaused(o) == o = "paused"

=============================================================================
