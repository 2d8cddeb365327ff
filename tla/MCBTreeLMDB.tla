----------------------------- MODULE MCBTreeLMDB -----------------------------
(***************************************************************************)
(* Small instances of BTreeLMDB for TLC.                                   *)
(***************************************************************************)
EXTENDS BTreeLMDB

CONSTANT N

AllItems == 1 .. N

(* A tree of three levels is filled and emptied, in two orders.            *)
Upwards == [i \in 1 .. N |-> i]
Drain   == {Reverse(Upwards) \o Upwards, Upwards \o Reverse(Upwards)}

(* A tree of a root and two or three leaves, to be changed in all ways.    *)
Few == {SelectSeq(s, LAMBDA i : i <= 12 /\ i % 3 # 0) :
            s \in {Upwards, Reverse(Upwards)}}

DrainOrFew == Drain \cup Few

NoTree == {}
=============================================================================
