------------------------------- MODULE MCBTree -------------------------------
(***************************************************************************)
(* Small instances of BTree for TLC, with the node sizes of the fuzz test  *)
(* build (NE_FUZZ_TEST in core.h).                                         *)
(***************************************************************************)
EXTENDS BTreeVerify

CONSTANT N

AllItems == 1 .. N

(* All items in the order k, 2k, 3k, ... modulo the prime N + 1, and all   *)
(* of them erased in such an order.                                        *)
Steps(k) == [i \in 1 .. N |-> (i * k) % (N + 1)]
Multipliers == (1 .. 6) \cup (N - 5 .. N)
FillAndDrain == {Steps(j) \o Steps(k) : j, k \in Multipliers}

(* Two out of three items, in the two extreme orders: ascending packs the  *)
(* nodes, descending halves them.  The others are left to be inserted.     *)
Ascending == SelectSeq(Steps(1), LAMBDA i : i % 3 # 0)
TwoThirds == {Ascending, Reverse(Ascending)}

(* All but some of the items erased again: small nodes everywhere, and     *)
(* fewer levels than there were.                                           *)
Left(n, s) == SubSeq(s, 1, Len(s) - n)
Drained == {Left(n, Steps(1) \o Steps(k)) : n \in {4, 13, 22}, k \in {5, N}}

Scripts == FillAndDrain \cup TwoThirds \cup Drained
=============================================================================
