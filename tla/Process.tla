------------------------------ MODULE Process ------------------------------
(***************************************************************************)
(* The process from its start to its end: Startup until the listener is    *)
(* bound, and Lifecycle from then on.                                      *)
(***************************************************************************)
EXTENDS Startup, Lifecycle

processVars == <<startVars, vars>>

ProcessInit == StartInit /\ Init

Starting ==
  /\ phase # "serving"
  /\ StartNext
  /\ UNCHANGED vars

Running ==
  /\ phase = "serving"
  /\ Next
  /\ UNCHANGED startVars

ProcessNext == Starting \/ Running

ProcessSpec == ProcessInit /\ [][ProcessNext]_processVars

=============================================================================
