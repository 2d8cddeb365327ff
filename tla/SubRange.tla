------------------------------ MODULE SubRange ------------------------------
(***************************************************************************)
(* A SubRange, the proxy to a part of another storage, over a Vector that  *)
(* is sealed and unsealed (storage/Vector.h) or over a B-tree.  The object *)
(* keeps indices of its base, which may change under it.                   *)
(***************************************************************************)
EXTENDS Storage

CONSTANTS
    Items,       \* the items that exist
    MaxBound,    \* Bound(MAX_U64)
    SizeModulus, \* size_t arithmetic is modulo this
    MaxOps       \* bound: calls

ASSUME SubRangeAssumption ==
    /\ MaxBound \in Nat /\ Items \subseteq 1 .. MaxBound - 1
    /\ MaxOps \in Nat /\ SizeModulus \in Nat /\ SizeModulus > MaxOps + 1

VARIABLES
    kind,        \* of the base: "vector" or "btree"
    base,        \* the items of the base, as they are stored
    sealed,      \* of a Vector; a B-tree's seal() and unseal() are empty
    refused,     \* the last seal() found a duplicate
    sub,         \* the SubRange object: its fields, and what it was made for
    changed,     \* the base has changed since
    ops

vars == <<kind, base, sealed, refused, sub, changed, ops>>

NoSub == [subBegin |-> 0, subEnd |-> 0, subSize |-> 0, lower |-> 0,
          upper |-> 0]

HasSub == sub # NoSub

-----------------------------------------------------------------------------
(* The base.                                                               *)

Readable == kind = "btree" \/ sealed      \* checkSealed

Change == changed' = TRUE /\ UNCHANGED <<kind, sub>>

VectorInsert(item) ==
    /\ kind = "vector" /\ ~sealed
    /\ base' = Append(base, item)
    /\ Change
    /\ UNCHANGED <<sealed, refused>>

(* Mutant: duplicates are looked for before the items are sorted. *)
SealUnsorted ==
    /\ kind = "vector" /\ ~sealed
    /\ sealed' = TRUE
    /\ base' = sort(base)
    /\ refused' = ~WithoutTwins(base)
    /\ Change

(* A duplicate is an exception, but by then the storage is sealed. *)
Seal ==
    /\ kind = "vector" /\ ~sealed
    /\ sealed' = TRUE
    /\ base' = sort(base)
    /\ refused' = ~WithoutTwins(base')
    /\ Change

Unseal ==
    /\ kind = "vector"
    /\ sealed' = FALSE /\ refused' = FALSE
    /\ UNCHANGED <<kind, base, sub, changed>>

(* Insertions and erasures that change the tree. *)
TreeEdit(item) ==
    /\ kind = "btree"
    /\ base' = ascending(IF item \in ToSet(base) THEN ToSet(base) \ {item}
                                                 ELSE ToSet(base) \cup {item})
    /\ Change
    /\ UNCHANGED <<sealed, refused>>

BaseLowerBound(begin, end, bound) ==
    IF kind = "vector" THEN VectorLowerBound(base, begin, end, bound)
                       ELSE TreeLowerBound(base, begin, end, bound)

-----------------------------------------------------------------------------
(* The object.                                                             *)

(* Mutant: the item found is not compared with the upper bound. *)
EndUncompared(begin, lower, upper) ==
    LET n   == Len(base)
        end == IF upper = MaxBound THEN n ELSE BaseLowerBound(begin, n, upper)
    IN  IF end # n THEN end + 1 ELSE end

(* subEnd: an item equal to the upper bound is taken in. *)
End(begin, lower, upper) ==
    LET n   == Len(base)
        end == IF upper = MaxBound THEN n ELSE BaseLowerBound(begin, n, upper)
    IN  IF end # n /\ base[end + 1] = upper THEN end + 1 ELSE end

Construct(lower, upper) ==
    /\ Readable
    /\ LET begin == IF lower = 0 THEN 0
                    ELSE BaseLowerBound(0, Len(base), lower)
           end   == End(begin, lower, upper)
       IN  sub' = [subBegin |-> begin, subEnd |-> end,
                   subSize |-> (end - begin) % SizeModulus,
                   lower |-> lower, upper |-> upper]
    /\ changed' = FALSE
    /\ UNCHANGED <<kind, base, sealed, refused>>

size == sub.subSize

getItem(i) == base[sub.subBegin + i + 1]

iterate(begin, end) == slice(base, sub.subBegin + begin, sub.subBegin + end)

fingerprint(begin, end) ==
    sumOf(base, sub.subBegin + begin, sub.subBegin + end)

(* Mutant: the index of the base is returned. *)
findBaseLowerBound(begin, end, bound) ==
    Min({BaseLowerBound(sub.subBegin + begin, sub.subBegin + end, bound), size})

findLowerBound(begin, end, bound) ==
    LET index == BaseLowerBound(sub.subBegin + begin, sub.subBegin + end, bound)
    IN  Min({(index - sub.subBegin) % SizeModulus, size})

-----------------------------------------------------------------------------
Init ==
    /\ kind \in {"vector", "btree"}
    /\ base = <<>> /\ sealed = FALSE /\ refused = FALSE
    /\ sub = NoSub /\ changed = FALSE /\ ops = 0

Call ==
    \/ \E item \in Items : VectorInsert(item) \/ TreeEdit(item)
    \/ Seal
    \/ Unseal
    \/ \E lower, upper \in 0 .. MaxBound : Construct(lower, upper)

Next == \/ ops < MaxOps /\ Call /\ ops' = ops + 1
        \/ ops = MaxOps /\ UNCHANGED vars

Spec == Init /\ [][Next]_vars

-----------------------------------------------------------------------------
(* Types, and what a Vector guarantees to the binary searches: a storage   *)
(* that can be queried is sorted, and holds no item twice unless seal()    *)
(* threw.                                                                  *)
TypeOK ==
    /\ kind \in {"vector", "btree"} /\ base \in Seq(Items)
    /\ sealed \in BOOLEAN /\ refused \in BOOLEAN /\ changed \in BOOLEAN
    /\ sub.subSize \in 0 .. SizeModulus - 1
    /\ Readable => InOrder(base) /\ (WithoutTwins(base) \/ refused)

Fresh == HasSub /\ ~changed /\ Readable /\ ~refused

(* The items of the range, as cpp/README.md describes it: "As usual, lower *)
(* bounds are inclusive and upper bounds are exclusive". *)
copy == ascending({item \in ToSet(base) : sub.lower <= item /\ item < sub.upper})

(* No item is equal to the upper bound: see UpperBoundExclusive. *)
EndsBetweenItems == sub.upper \notin ToSet(base)

QueriesAsCopy ==
    /\ size = Len(copy)
    /\ \A i \in 0 .. Len(copy) - 1 : getItem(i) = copy[i + 1]
    /\ \A e \in 0 .. Len(copy) : \A b \in 0 .. e :
          /\ iterate(b, e) = slice(copy, b, e)
          /\ fingerprint(b, e) = sumOf(copy, b, e)

LowerBoundAsCopy(begin, end, bound) ==
    findLowerBound(begin, end, bound)
        = VectorLowerBound(copy, begin, end, bound)

(* cpp/README.md: "This storage is a proxy to a sub-range of another       *)
(* storage".  As long as the base does not change, a proxy to a Vector     *)
(* answers every query like a Vector that holds the items of the range     *)
(* alone, through its shifted indices and the wrap around of size_t,       *)
(* whatever the two bounds, unless there is an item equal to the upper one.*)
VectorProxy ==
    Fresh /\ kind = "vector" /\ EndsBetweenItems =>
        /\ QueriesAsCopy
        /\ \A bound \in 0 .. MaxBound :
              \A e \in 0 .. size : \A b \in 0 .. e :
                  LowerBoundAsCopy(b, e, bound)

(* A proxy to a B-tree, made for bounds in order, does so too, but for     *)
(* findLowerBound, which needs a begin not above the answer and a bound    *)
(* that does not separate items of the tree left of the range.             *)
TreeProxy ==
    Fresh /\ kind = "btree" /\ sub.lower <= sub.upper /\ EndsBetweenItems =>
        /\ QueriesAsCopy
        /\ \A bound \in 0 .. MaxBound :
              countBelow(base, bound) \in {0} \cup sub.subBegin .. Len(base) =>
                  \A e \in 0 .. size : \A b \in 0 .. Min({e, countBelow(copy, bound)}) :
                      LowerBoundAsCopy(b, e, bound)

(* cpp/README.md: "lower bounds are inclusive and upper bounds are         *)
(* exclusive".  The constructor takes an item equal to the upper bound in  *)
(* (SubRange.h:23): of two adjacent ranges both have it.                   *)
UpperBoundExclusive == Fresh /\ sub.lower <= sub.upper => QueriesAsCopy
=============================================================================
