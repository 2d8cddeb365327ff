----------------------------- MODULE Accumulator -----------------------------
(***************************************************************************)
(* The accumulator of negentropy/types.h: 32 bytes, four little-endian     *)
(* words, to which IDs and other accumulators are added and from which     *)
(* they are subtracted; and the accumulators of neighbouring B-tree nodes  *)
(* as items come, go, and move between them.                               *)
(*                                                                         *)
(* docs/negentropy-protocol-v1.md asks for "the addition mod 2^256 of the  *)
(* element IDs": modules BTree and Storage keep sums of integers instead,  *)
(* and this module shows that the accumulator is that sum modulo 2^256,    *)
(* whatever was added and taken away in between.                           *)
(***************************************************************************)
EXTENDS Integers

CONSTANTS
    Base,    \* of a word: 2^64
    Ids,     \* the IDs that exist, as buffers
    Nodes,   \* B-tree nodes
    MaxOps   \* bound: calls

Word   == 0 .. Base - 1
Buffer == [1 .. 4 -> Word]

ASSUME AccumulatorAssumption ==
    /\ Base \in Nat /\ Base >= 2
    /\ Ids \subseteq Buffer
    /\ MaxOps \in Nat

(* A buffer read as a little-endian integer.                               *)
Value(a) == a[1] + Base * (a[2] + Base * (a[3] + Base * a[4]))

Modulus == Base * (Base * (Base * Base))

-----------------------------------------------------------------------------
zero == [i \in 1 .. 4 |-> 0]                             \* setToZero
one  == [i \in 1 .. 4 |-> IF i = 1 THEN 1 ELSE 0]

next(orig, other, carry) == (((orig + carry) % Base) + other) % Base

(* Mutant: the carry that came in is not looked at again. *)
carryOfOther(orig, other, carry) ==
    IF next(orig, other, carry) < other THEN 1 ELSE 0

(* Either of the two additions of a word may wrap around.                  *)
carryOut(orig, other, carry) ==
    IF (orig + carry) % Base < orig \/ next(orig, other, carry) < other
    THEN 1 ELSE 0

add(a, b) ==
    LET c1 == carryOut(a[1], b[1], 0)
        c2 == carryOut(a[2], b[2], c1)
        c3 == carryOut(a[3], b[3], c2)
    IN  [i \in 1 .. 4 |-> CASE i = 1 -> next(a[1], b[1], 0)
                            [] i = 2 -> next(a[2], b[2], c1)
                            [] i = 3 -> next(a[3], b[3], c2)
                            [] i = 4 -> next(a[4], b[4], c3)]

complement(a) == [i \in 1 .. 4 |-> Base - 1 - a[i]]      \* ~ on every byte

negate(a) == add(complement(a), one)

(* Mutant: the one is not added to the complement. *)
subComplement(a, b) == add(a, complement(b))

sub(a, b) == add(a, negate(b))

-----------------------------------------------------------------------------
VARIABLES
    accum,   \* of every node
    total,   \* the integer it stands for
    ops

vars == <<accum, total, ops>>

Init ==
    /\ accum = [n \in Nodes |-> zero]
    /\ total = [n \in Nodes |-> 0]
    /\ ops = 0

(* An item is inserted or erased under a node.                             *)
AddItem(n, id) ==
    /\ accum' = [accum EXCEPT ![n] = add(@, id)]
    /\ total' = [total EXCEPT ![n] = @ + Value(id)]

SubItem(n, id) ==
    /\ accum' = [accum EXCEPT ![n] = sub(@, id)]
    /\ total' = [total EXCEPT ![n] = @ - Value(id)]

(* rebalance: the accumulator of what moves starts at zero.                *)
Move(from, to, id) ==
    /\ from # to
    /\ LET moving == add(zero, id)
       IN  accum' = [accum EXCEPT ![from] = sub(@, moving),
                                  ![to] = add(@, moving)]
    /\ total' = [total EXCEPT ![from] = @ - Value(id), ![to] = @ + Value(id)]

(* A node takes all items of its neighbour, which is deleted.              *)
Merge(from, to) ==
    /\ from # to
    /\ accum' = [accum EXCEPT ![to] = add(@, accum[from]), ![from] = zero]
    /\ total' = [total EXCEPT ![to] = @ + total[from], ![from] = 0]

Call ==
    \/ \E n \in Nodes, id \in Ids : AddItem(n, id) \/ SubItem(n, id)
    \/ \E from, to \in Nodes, id \in Ids : Move(from, to, id)
    \/ \E from, to \in Nodes : Merge(from, to)

Next == \/ ops < MaxOps /\ Call /\ ops' = ops + 1
        \/ ops = MaxOps /\ UNCHANGED vars

Spec == Init /\ [][Next]_vars

-----------------------------------------------------------------------------
TypeOK ==
    /\ accum \in [Nodes -> Buffer]
    /\ total \in [Nodes -> Int]
    /\ ops \in Nat

(* docs/negentropy-protocol-v1.md: "the addition mod 2^256 of the element  *)
(* IDs".  Additions and subtractions in any order, carries through all     *)
(* words and wrap arounds below zero included, leave the sum: two peers    *)
(* whose ranges hold the same IDs digest the same bytes.                   *)
SumOfIds == \A n \in Nodes : Value(accum[n]) = total[n] % Modulus
=============================================================================
