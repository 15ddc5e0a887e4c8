-------------------------------- MODULE Api --------------------------------
(***************************************************************************)
(* The HTTP API beside the loops: readiness, the limiter of the admin      *)
(* endpoints, the metrics and the keeper's status. The handlers share no   *)
(* state but the counters, so a behaviour is about the clients of one of   *)
(* them.                                                                   *)
(***************************************************************************)
EXTENDS Readiness, AdminAuth, Metrics, StatusSnapshot

VARIABLE called   \* what the clients of this behaviour call

vars == <<called, readyVars, authVars, metricVars, snapshotVars>>

Endpoints == {"ready", "admin", "metrics", "status"}

TypeOK ==
  /\ called \in Endpoints
  /\ ReadyTypeOK /\ AuthTypeOK /\ MetricsTypeOK /\ SnapshotTypeOK

Init == called \in Endpoints /\ ReadyInit /\ AuthInit /\ MetricsInit /\ SnapshotInit

Ready(A) == called = "ready" /\ A /\ UNCHANGED <<called, authVars, metricVars, snapshotVars>>
Admin(A) == called = "admin" /\ A /\ UNCHANGED <<called, readyVars, metricVars, snapshotVars>>
Scraped(A) == called = "metrics" /\ A /\ UNCHANGED <<called, readyVars, authVars, snapshotVars>>
Status(A) == called = "status" /\ A /\ UNCHANGED <<called, readyVars, authVars, metricVars>>

Next == Ready(ReadyNext) \/ Admin(AuthNext) \/ Scraped(MetricsNext) \/ Status(SnapshotNext)

(* A thread that holds a mutex runs on, and one that waits for it gets it. *)
(* What readiness owes its clients is said in its own module (ReadySpec).  *)
Fairness == WF_vars(Scraped(ScrapeStep)) /\ WF_vars(Scraped(Stamp))

Spec == Init /\ [][Next]_vars /\ Fairness

=============================================================================
