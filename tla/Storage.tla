------------------------------- MODULE Storage -------------------------------
(***************************************************************************)
(* What the storages answer: the queries of StorageBase over the ascending *)
(* sequence of the items a storage holds.  Items and bounds are numbers in *)
(* their order; indices count from 0 and ranges are half open.             *)
(***************************************************************************)
EXTENDS Integers, Sequences, SequencesExt

InOrder(s) == \A i, j \in DOMAIN s : i < j => s[i] <= s[j]
WithoutTwins(s) == \A i \in 2 .. Len(s) : s[i - 1] # s[i]

(* std::sort: every item after those below it, twins as they stood.        *)
sort(s) ==
    LET place(i) == Cardinality({j \in DOMAIN s :
                                    s[j] < s[i] \/ (s[j] = s[i] /\ j < i)})
    IN  [k \in DOMAIN s |-> s[CHOOSE i \in DOMAIN s : place(i) = k - 1]]

(* The items of a finite set in ascending order.                           *)
ascending(S) ==
    [k \in 1 .. Cardinality(S) |->
        CHOOSE item \in S : Cardinality({other \in S : other < item}) = k - 1]

(* iterate(begin, end), when the callback never stops it. *)
slice(s, begin, end) == SubSeq(s, begin + 1, end)

countBelow(s, bound) == Cardinality({i \in DOMAIN s : s[i] < bound})

(* findLowerBound of a Vector: std::lower_bound within the range. *)
VectorLowerBound(s, begin, end, bound) ==
    begin + countBelow(slice(s, begin, end), bound)

(* findLowerBound of a B-tree, which counts in the whole tree: the same    *)
(* whenever no item below the bound is left of begin.                      *)
TreeLowerBound(s, begin, end, bound) ==
    IF s = <<>> THEN end
    ELSE IF bound <= s[1] THEN begin
    ELSE Min({countBelow(s, bound), end})

(* The sum of a sequence of numbers. *)
total(s) ==
    LET first[n \in 0 .. Len(s)] == IF n = 0 THEN 0 ELSE first[n - 1] + s[n]
    IN  first[Len(s)]

(* The set a fingerprint digests, as the sum the accumulator makes of it. *)
sumOf(s, begin, end) == total(slice(s, begin, end))
=============================================================================
