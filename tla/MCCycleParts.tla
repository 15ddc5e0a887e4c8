---------------------------- MODULE MCCycleParts ----------------------------
(***************************************************************************)
(* For TLC: two lists of pending keys, and two tokens, one that is         *)
(* published whenever it is fresh and one whose price moves by less, or by *)
(* more, than its threshold.                                               *)
(***************************************************************************)
EXTENDS CycleParts

CONSTANTS orders, deposits, k1, k2, k3, always, moving

MixedLists == (orders :> <<k1, k2, k3>>) @@ (deposits :> <<k2>>)

TwoThresholds == [t \in {always, moving} |-> IF t = moving THEN 200 ELSE 0]
TwoStaleAfter == [t \in {always, moving} |-> 1]
TwoMedians    == [t \in {always, moving} |-> IF t = moving THEN {100, 101, 103} ELSE {100}]
=============================================================================
