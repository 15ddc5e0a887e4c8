----------------------------- MODULE Submission -----------------------------
(***************************************************************************)
(* What submitting one transaction promises, whatever happens on the way:  *)
(* one report, a landing reported only if it is the one that happened, and *)
(* a refusal that is final unless an answer to an earlier attempt was lost *)
(* (then the transaction may be with the network all the same). The keeper *)
(* loop's model relies on nothing else. Implemented by module Submit.      *)
(***************************************************************************)
EXTENDS SubmitOutcome

VARIABLES
  st,      \* the transaction, on chain
  doubt,   \* whether the answer to an attempt to send it was lost
  report   \* what the caller is told, "none" before

vars == <<st, doubt, report>>

Init == st = "live" /\ doubt = FALSE /\ report = "none"

Land ==
  /\ st = "live"
  /\ report \in Refusals => doubt
  /\ st' \in Landings
  /\ UNCHANGED <<doubt, report>>

Expire ==
  /\ st = "live"
  /\ st' = "gone"
  /\ UNCHANGED <<doubt, report>>

LoseAnswer ==
  /\ report = "none"
  /\ doubt' = TRUE
  /\ report' \in {"none", "rpc_error"}
  /\ UNCHANGED st

Report ==
  /\ report = "none"
  /\ report' \in {o \in AllOutcomes : MayReport(o, st)}
  /\ UNCHANGED <<st, doubt>>

Next == Land \/ Expire \/ LoseAnswer \/ Report

Spec == Init /\ [][Next]_vars

=============================================================================
