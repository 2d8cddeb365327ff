---------------------------- MODULE MCNegentropy ----------------------------
(***************************************************************************)
(* Small instances of Negentropy for TLC.                                  *)
(***************************************************************************)
EXTENDS NegentropyProperties

CONSTANT Digits      \* an ID is two digits in this base

(* The shortest zero-padded prefix of curr above prev: its first digit if  *)
(* that differs, else both.                                                *)
MCMinimalPrefix(prev, curr_) ==
    IF curr_ \div Digits # prev \div Digits
    THEN (curr_ \div Digits) * Digits
    ELSE curr_

item(t, k) == [timestamp |-> t, id |-> k]

SortedSeq(S) ==
    [i \in 1 .. Cardinality(S) |->
        CHOOSE a \in S : Cardinality({b \in S : b \prec a}) = i - 1]

(* Items sharing a timestamp with and without a common prefix, and items   *)
(* at the ends of the timestamp range.                                     *)
SixItems == {item(0, 4), item(1, 1), item(1, 2), item(1, 6), item(2, 0),
             item(2, 8)}

EightItems == SixItems \cup {item(0, 7), item(2, 5)}

(* Storages of at least n of the items. *)
StoresOf(items, n) ==
    {SortedSeq(S) : S \in {T \in SUBSET items : Cardinality(T) >= n}}

TenItems == EightItems \cup {item(0, 9), item(2, 12)}

LargeStores == StoresOf(EightItems, 5)

(* All of the ten items but at most two, which are among seven of them. *)
Missable == TenItems \ {item(0, 4), item(1, 2), item(2, 5)}
MostStores ==
    {SortedSeq(TenItems \ S) : S \in {T \in SUBSET Missable : Cardinality(T) <= 2}}

(* A peer's storage is a SubRange over a B-tree, of the last items of ten; *)
(* the other peer has most of the items.                                   *)
NoneBelow == [p \in Peer |-> {}]
BelowOf(peer, last) ==
    [p \in Peer |-> IF p = peer THEN TenItems \ last ELSE {}]

LastFive == {item(1, 6), item(2, 0), item(2, 5), item(2, 8), item(2, 12)}
NoRanges      == {NoneBelow}
ClientRange   == {BelowOf(Client, LastFive)}
ServerRange   == {BelowOf(Server, LastFive)}
MaybeClientRange == NoRanges \cup ClientRange
LastFiveOrMost == MostStores \cup StoresOf(LastFive, 4)
LastTwoOrMost  == StoresOf(TenItems, 7) \cup StoresOf(LastFive, 2)

(* Frame limits for the client and for the server.                         *)
Limits(c, s) == [p \in Peer |-> IF p = Client THEN c ELSE s]
Unlimited    == {Limits(0, 0)}
AtMostOne    == {Limits(0, 0), Limits(11, 0), Limits(0, 11)}
Both         == {Limits(11, 12)}
BothLimited  == Both \cup {Limits(11, 11)}

(* All the items, or half of them, the first and the last one included. *)
UnevenStores ==
    {SortedSeq(EightItems)} \cup
    {SortedSeq({item(0, 4), item(2, 8)} \cup S) :
        S \in {T \in SUBSET {item(0, 7), item(1, 2), item(1, 6)} :
                  Cardinality(T) = 2}}

(* Three storages that have the last item in common and little else. *)
ThreeStores ==
    {SortedSeq(SixItems),
     SortedSeq({item(0, 4), item(1, 2), item(2, 8)}),
     SortedSeq({item(1, 1), item(1, 6), item(2, 0), item(2, 8)})}
=============================================================================
