----------------------------- MODULE CycleParts -----------------------------
(***************************************************************************)
(* What a keeper cycle does beside its bookkeeping of keys (Keeper): it    *)
(* reads the lists of pending keys, publishes prices, and numbers its      *)
(* transactions. The three share no state, so a behaviour is about one.    *)
(***************************************************************************)
EXTENDS PendingKeys, Publication, Sequence

VARIABLE part   \* what this behaviour is about

Parts == {"keys", "prices", "numbers"}

PartsInit == part \in Parts /\ KeysInit /\ Init /\ SequenceInit

PartsNext ==
  \/ part = "keys" /\ KeysNext /\ UNCHANGED <<part, vars, seqVars>>
  \/ part = "prices" /\ Next /\ UNCHANGED <<part, keysVars, seqVars>>
  \/ part = "numbers" /\ SequenceNext /\ UNCHANGED <<part, keysVars, vars>>

PartsSpec == PartsInit /\ [][PartsNext]_<<part, keysVars, vars, seqVars>>

=============================================================================
