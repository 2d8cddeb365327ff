---------------------------- MODULE MCAccumulator ----------------------------
(***************************************************************************)
(* Small instances of Accumulator for TLC.                                 *)
(***************************************************************************)
EXTENDS Accumulator

CONSTANTS left, right

NodePair == {left, right}

(* Words of zeroes and of ones in all places, and small numbers.           *)
ExtremeIds ==
    [1 .. 4 -> {0, Base - 1}]
        \cup {[i \in 1 .. 4 |-> IF i = 1 THEN w ELSE 0] : w \in Word}
=============================================================================
