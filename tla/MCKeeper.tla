------------------------------ MODULE MCKeeper ------------------------------
(***************************************************************************)
(* Environments in which TLC runs the keeper loop: which reports a         *)
(* submission may get and which disturbances may happen.                   *)
(***************************************************************************)
EXTENDS Keeper

AnyReport == AllOutcomes
AnyFault  == AllFaults
CapOnly   == {"cycle_timeout"}

(* Submissions that fail at once, in every way that counts as a failure.   *)
AlwaysFailing == {"not_sent", "rejected", "rpc_error"}
=============================================================================
