--------------------------- MODULE StatusSnapshot ---------------------------
(***************************************************************************)
(* GET /keeper/status reads two structures under two locks while keeper    *)
(* cycles write them, and uses a generation counter, bumped at the start   *)
(* and the end of a cycle, to notice that a cycle boundary fell between    *)
(* its two reads (oracle/src/state.rs keeper_status_snapshot,              *)
(* oracle/src/keeper_loop.rs run_keeper_cycle).                            *)
(*                                                                         *)
(* The content of each structure is abstracted to the number of times it   *)
(* has been written.                                                       *)
(***************************************************************************)
EXTENDS Naturals

CONSTANTS
  MaxCycles,  \* bound: cycles run
  MaxRecords, \* bound: executions a cycle records
  Reads    \* reads before the best-effort pair (8)

ASSUME SnapshotAssumption == MaxCycles \in Nat /\ MaxRecords \in Nat /\ Reads \in Nat

VARIABLES
  \* AppState
  generation,     \* keeper_cycle_generation
  keeper_status,  \* pending counts and executions
  cycle_status,   \* running flag and timing
  \* run_keeper_cycle
  wpc, records,
  \* keeper_status_snapshot
  rpc, reads, seen,
  keeper_read, cycle_read,
  \* history of the answer
  checked,        \* it passed the generation check
  keeper_gen,     \* the generation when each structure was read
  cycle_gen

writerVars == <<generation, keeper_status, cycle_status, wpc, records>>
readVars == <<rpc, reads, seen, keeper_read, cycle_read, checked, keeper_gen, cycle_gen>>
snapshotVars == <<generation, keeper_status, cycle_status, wpc, records, rpc, reads, seen,
          keeper_read, cycle_read, checked, keeper_gen, cycle_gen>>

Writes == 0..(MaxCycles * (MaxRecords + 2))
Generations == 0..(2 * MaxCycles)

SnapshotTypeOK ==
  /\ generation \in Generations
  /\ {keeper_status, cycle_status, keeper_read, cycle_read} \subseteq Writes
  /\ wpc \in {"idle", "open", "running", "recording", "finishing"}
  /\ records \in 0..MaxRecords
  /\ rpc \in {"begin", "keeper", "cycle", "check", "fallback_keeper", "fallback_cycle", "done"}
  /\ reads \in 0..Reads
  /\ {seen, keeper_gen, cycle_gen} \subseteq Generations
  /\ checked \in BOOLEAN

SnapshotInit ==
  /\ generation = 0 /\ keeper_status = 0 /\ cycle_status = 0
  /\ wpc = "idle" /\ records = 0
  /\ rpc = "begin" /\ reads = 0 /\ seen = 0 /\ keeper_read = 0 /\ cycle_read = 0
  /\ checked = FALSE /\ keeper_gen = 0 /\ cycle_gen = 0

-----------------------------------------------------------------------------
(* run_keeper_cycle.                                                       *)

OpenWindow ==
  /\ wpc = "idle"
  /\ generation < 2 * MaxCycles
  /\ generation' = generation + 1
  /\ wpc' = "open"
  /\ UNCHANGED <<keeper_status, cycle_status, records, readVars>>

MarkRunning ==
  /\ wpc = "open"
  /\ cycle_status' = cycle_status + 1
  /\ wpc' = "running"
  /\ UNCHANGED <<generation, keeper_status, records, readVars>>

WritePending ==
  /\ wpc = "running"
  /\ keeper_status' = keeper_status + 1
  /\ wpc' = "recording"
  /\ UNCHANGED <<generation, cycle_status, records, readVars>>

RecordExecution ==
  /\ wpc = "recording"
  /\ records < MaxRecords
  /\ keeper_status' = keeper_status + 1
  /\ records' = records + 1
  /\ UNCHANGED <<generation, cycle_status, wpc, readVars>>

(* The cycle body ends, or the 50 s cap drops it, before or after it has   *)
(* written its pending counts; the timing is written either way.           *)
WriteTiming ==
  /\ wpc \in {"running", "recording"}
  /\ cycle_status' = cycle_status + 1
  /\ records' = 0
  /\ wpc' = "finishing"
  /\ UNCHANGED <<generation, keeper_status, readVars>>

CloseWindow ==
  /\ wpc = "finishing"
  /\ generation' = generation + 1
  /\ wpc' = "idle"
  /\ UNCHANGED <<keeper_status, cycle_status, records, readVars>>

-----------------------------------------------------------------------------
(* keeper_status_snapshot.                                                 *)

LoadGeneration ==
  /\ rpc = "begin"
  /\ IF reads < Reads
     THEN rpc' = "keeper" /\ reads' = reads + 1 /\ seen' = generation
     ELSE rpc' = "fallback_keeper" /\ UNCHANGED <<reads, seen>>
  /\ UNCHANGED <<writerVars, keeper_read, cycle_read, checked, keeper_gen, cycle_gen>>

ReadKeeper ==
  /\ rpc \in {"keeper", "fallback_keeper"}
  /\ keeper_read' = keeper_status
  /\ keeper_gen' = generation
  /\ rpc' = IF rpc = "keeper" THEN "cycle" ELSE "fallback_cycle"
  /\ UNCHANGED <<writerVars, reads, seen, cycle_read, checked, cycle_gen>>

ReadCycle ==
  /\ rpc \in {"cycle", "fallback_cycle"}
  /\ cycle_read' = cycle_status
  /\ cycle_gen' = generation
  /\ rpc' = IF rpc = "cycle" THEN "check" ELSE "done"
  /\ UNCHANGED <<writerVars, reads, seen, keeper_read, checked, keeper_gen>>

(* Mutant: the generation is not compared.                                 *)
CheckNothing ==
  /\ rpc = "check"
  /\ rpc' = "done"
  /\ checked' = TRUE
  /\ UNCHANGED <<writerVars, reads, seen, keeper_read, cycle_read, keeper_gen, cycle_gen>>

Check ==
  /\ rpc = "check"
  /\ IF generation = seen
     THEN rpc' = "done" /\ checked' = TRUE
     ELSE rpc' = "begin" /\ UNCHANGED checked
  /\ UNCHANGED <<writerVars, reads, seen, keeper_read, cycle_read, keeper_gen, cycle_gen>>

Writer == OpenWindow \/ MarkRunning \/ WritePending \/ RecordExecution \/ WriteTiming \/ CloseWindow
Reader == LoadGeneration \/ ReadKeeper \/ ReadCycle \/ Check

SnapshotNext == Writer \/ Reader

-----------------------------------------------------------------------------
(* Properties.                                                             *)

(* An answer that passed the check was read in one window: no boundary of  *)
(* a cycle lies between its two parts (#797).                              *)
NoBoundaryCrossed == checked => keeper_gen = cycle_gen

=============================================================================
