----------------------------- MODULE Lifecycle -----------------------------
(***************************************************************************)
(* The process (oracle/src/main.rs): the HTTP server, the two background   *)
(* loops, the shutdown token they share, and the main task that waits for  *)
(* the first of them to end and then drains the loops.                     *)
(*                                                                         *)
(* Time is a number of ticks; both stages of the shutdown have the same    *)
(* timeout, Drain, half of DEFAULT_SHUTDOWN_TIMEOUT_SECS.                  *)
(***************************************************************************)
EXTENDS Naturals

CONSTANTS
  Drain,       \* drain_timeout, in ticks
  MaxRequests, \* bound: requests served at a time
  LoopsDie     \* whether a loop may panic (without panic = "abort")

ASSUME DrainAssumption == Drain \in Nat /\ MaxRequests \in Nat
ASSUME DieAssumption == LoopsDie \in BOOLEAN

Loops == {"price", "keeper"}

VARIABLES
  asked,     \* SIGINT or SIGTERM was received
  token,     \* shutdown_token is cancelled
  server,    \* server_future
  requests,  \* requests in progress
  loop,      \* run_price_loop and run_keeper_loop
  main,      \* where main waits
  early,     \* exited_early
  elapsed,   \* since main began to wait there
  since      \* history: since a shutdown began, counted up to its bound

vars == <<asked, token, server, requests, loop, main, early, elapsed, since>>

Died == \E l \in Loops : loop[l] = "dead"
Ended(l) == loop[l] \in {"exited", "dead"}
Caused == asked \/ Died

TypeOK ==
  /\ asked \in BOOLEAN
  /\ token \in BOOLEAN
  /\ server \in {"serving", "draining", "closed", "dropped"}
  /\ requests \in 0..MaxRequests
  /\ loop \in [Loops -> {"waiting", "cycle", "exited", "dead", "aborted"}]
  /\ main \in {"select", "drain", "exited"}
  /\ early \in Loops \cup {"none"}
  /\ elapsed \in 0..Drain
  /\ since \in 0..(2 * Drain + 1)

Init ==
  /\ asked = FALSE
  /\ token = FALSE
  /\ server = "serving"
  /\ requests = 0
  /\ loop = [l \in Loops |-> "waiting"]
  /\ main = "select"
  /\ early = "none"
  /\ elapsed = 0
  /\ since = 0

Alive == main # "exited"

-----------------------------------------------------------------------------
(* shutdown_signal, awaited by the server: it cancels the token and then   *)
(* lets the server finish what it serves.                                  *)
Signal ==
  /\ Alive /\ ~asked
  /\ asked' = TRUE
  /\ token' = TRUE
  /\ server' = IF server = "serving" THEN "draining" ELSE server
  /\ UNCHANGED <<requests, loop, main, early, elapsed, since>>

Accept ==
  /\ Alive
  /\ server = "serving"
  /\ requests < MaxRequests
  /\ requests' = requests + 1
  /\ UNCHANGED <<asked, token, server, loop, main, early, elapsed, since>>

(* Connections are tasks of their own: they outlive a dropped server       *)
(* future, but not the process.                                            *)
Answer ==
  /\ Alive
  /\ requests > 0
  /\ requests' = requests - 1
  /\ UNCHANGED <<asked, token, server, loop, main, early, elapsed, since>>

ServerDrained ==
  /\ Alive
  /\ server = "draining"
  /\ requests = 0
  /\ server' = "closed"
  /\ UNCHANGED <<asked, token, requests, loop, main, early, elapsed, since>>

-----------------------------------------------------------------------------
(* A loop waits for its ticker (or its idle backoff) and runs a cycle, and *)
(* leaves either for a cancelled token: select! picks any ready branch.    *)
Work(l) ==
  /\ Alive
  /\ \/ loop[l] = "waiting" /\ loop' = [loop EXCEPT ![l] = "cycle"]
     \/ loop[l] = "cycle" /\ loop' = [loop EXCEPT ![l] = "waiting"]
  /\ UNCHANGED <<asked, token, server, requests, main, early, elapsed, since>>

Stops(l) ==
  /\ Alive
  /\ token
  /\ loop[l] \in {"waiting", "cycle"}
  /\ loop' = [loop EXCEPT ![l] = "exited"]
  /\ UNCHANGED <<asked, token, server, requests, main, early, elapsed, since>>

Dies(l) ==
  /\ Alive
  /\ LoopsDie
  /\ loop[l] = "cycle"
  /\ loop' = [loop EXCEPT ![l] = "dead"]
  /\ UNCHANGED <<asked, token, server, requests, main, early, elapsed, since>>

-----------------------------------------------------------------------------
(* main: select!, then drain.                                              *)

(* Mutants: each stage has the whole budget (before #870), and the second  *)
(* goes on with the clock of the first.                                    *)
WholeBudgetDue == elapsed >= 2 * Drain
DrainOnSameClock(e) ==
  /\ main' = "drain"
  /\ token' = TRUE
  /\ early' = e
  /\ UNCHANGED elapsed

(* Both stages are timeouts of drain_timeout, the first from the start of  *)
(* the process, the second from the end of the first.                      *)
SelectDue == elapsed >= Drain
DrainDue == elapsed >= Drain

StartDrain(e) ==
  /\ main' = "drain"
  /\ token' = TRUE
  /\ early' = e
  /\ elapsed' = 0

Dropped == IF server = "closed" THEN server ELSE "dropped"

SelectLoop ==
  /\ main = "select"
  /\ \E l \in Loops : Ended(l) /\ StartDrain(l)
  /\ server' = Dropped
  /\ UNCHANGED <<asked, requests, loop, since>>

SelectServer ==
  /\ main = "select"
  /\ server = "closed"
  /\ StartDrain("none")
  /\ UNCHANGED <<asked, server, requests, loop, since>>

(* timeout(drain_timeout, server_future): whether or not a shutdown has    *)
(* begun.                                                                  *)
SelectTimeout ==
  /\ main = "select"
  /\ SelectDue
  /\ StartDrain("none")
  /\ server' = Dropped
  /\ UNCHANGED <<asked, requests, loop, since>>

(* The loops still running have ended.                                     *)
Drained ==
  /\ main = "drain"
  /\ \A l \in Loops \ {early} : Ended(l)
  /\ main' = "exited"
  /\ UNCHANGED <<asked, token, server, requests, loop, early, elapsed, since>>

DrainTimeout ==
  /\ main = "drain"
  /\ DrainDue
  /\ loop' = [l \in Loops |-> IF Ended(l) THEN loop[l] ELSE "aborted"]
  /\ main' = "exited"
  /\ UNCHANGED <<asked, token, server, requests, early, elapsed, since>>

(* A timer that is due fires before time goes on.                          *)
Tick ==
  /\ (main = "select" /\ ~SelectDue) \/ (main = "drain" /\ ~DrainDue)
  /\ elapsed' = elapsed + 1
  /\ since' = IF (Caused \/ token) /\ since <= 2 * Drain THEN since + 1 ELSE since
  /\ UNCHANGED <<asked, token, server, requests, loop, main, early>>

MainStep == SelectLoop \/ SelectServer \/ SelectTimeout \/ Drained \/ DrainTimeout
LoopStep(l) == Work(l) \/ Stops(l) \/ Dies(l)

Next ==
  \/ Signal \/ Accept \/ Answer \/ ServerDrained
  \/ \E l \in Loops : LoopStep(l)
  \/ MainStep
  \/ Tick

Spec == Init /\ [][Next]_vars

-----------------------------------------------------------------------------
(* Properties.                                                             *)

(* A shutdown ends within the two stages of the budget, however slow the   *)
(* clients and the cycles are (#552, #807, #870): time does not get beyond *)
(* them with the process alive.                                            *)
ShutdownBounded == Alive => since <= 2 * Drain

(* A loop is aborted only when it has had a whole stage to end.            *)
LoopsGetTheirStage ==
  [][\A l \in Loops : loop[l] # "aborted" /\ loop'[l] = "aborted" => since >= Drain]_vars

(* main.rs: the process shuts down when it is asked to or when a loop      *)
(* ends; until then it serves.                                             *)
ServesUntilAsked == main # "select" => Caused

=============================================================================
