--------------------------- MODULE NegentropyProofs ---------------------------
(***************************************************************************)
(* Proofs about module Negentropy, for every width, storage, bucket count, *)
(* size and frame limit its assumptions allow: types, the frame limit, and *)
(* what the engine does with bounds - their order, the two codecs, the     *)
(* indices a bound has in a sorted storage, the ranges splitRange cuts.    *)
(***************************************************************************)
EXTENDS NegentropyProperties, SequenceTheorems, WellFoundedInduction, TLAPS

-----------------------------------------------------------------------------
(* Arithmetic.                                                             *)

(* Integer division by a bucket count, which splitRange relies on.         *)
LEMMA Division ==
    ASSUME NEW n \in Nat, NEW b \in Nat \ {0}
    PROVE  /\ n \div b \in Nat
           /\ n % b \in 0 .. b - 1
           /\ n = b * (n \div b) + (n % b)
  BY SMT

(* uint64_t arithmetic stays in its type.                                  *)
LEMMA WrapType == ASSUME NEW n \in Int PROVE Wrap(n) \in Timestamp
  BY WidthAssumption, SMT DEF Wrap, Timestamp

(* The i-th cut of splitRange lies in the range, and only the last one is  *)
(* at its end.                                                             *)
LEMMA CutsInRange ==
    ASSUME NEW lower \in Nat, NEW upper \in Nat,
           upper - lower >= 2 * Buckets,
           NEW i \in 0 .. Buckets
    PROVE  /\ curr(lower, upper, i) \in lower .. upper
           /\ i > 0 => curr(lower, upper, i) > lower
           /\ i < Buckets => curr(lower, upper, i) < upper
  <1> DEFINE n == upper - lower
             q == n \div Buckets
             r == n % Buckets
  <1>1. /\ Buckets \in Nat \ {0}
        /\ n \in Nat
    BY SizeAssumption, SMT
  <1>2. q \in Nat /\ r \in 0 .. Buckets - 1 /\ n = Buckets * q + r
    BY <1>1, Division
  <1>3. q >= 1
    BY <1>1, <1>2, SMT
  <1>4. curr(lower, upper, i) = lower + i * q + (IF i < r THEN i ELSE r)
    BY DEF curr
  <1> HIDE DEF n, q, r
  <1>5. i * q \in Nat /\ (i > 0 => i * q >= 1)
    BY <1>2, <1>3, SMT
  <1>6. (Buckets - i) * q \in Nat /\ (i < Buckets => (Buckets - i) * q >= 1)
    BY <1>1, <1>2, <1>3, SMT
  <1>7. i * q + (Buckets - i) * q = Buckets * q
    BY <1>1, <1>2, SMT
  <1>8. n = upper - lower
    BY DEF n
  <1> QED
    BY <1>1, <1>2, <1>4, <1>5, <1>6, <1>7, <1>8, SMT

-----------------------------------------------------------------------------
(* Types of what the engine computes.                                      *)

(* A minimal bound is a bound: it has an ID of the right width.            *)
LEMMA MinimalBoundType ==
    ASSUME NEW prev \in Item, NEW next \in Item, prev \prec next
    PROVE  getMinimalBound(prev, next) \in Bound
  BY PrefixAssumption, WidthAssumption, SMT
  DEF getMinimalBound, Bound, Item, Id, Timestamp, \prec

(* What decodeBound makes of any range is a bound.                         *)
LEMMA DecodeType ==
    ASSUME NEW range \in WireRange, NEW last \in Timestamp
    PROVE  decodeBound(range, last) \in Bound
  <1>1. range.timestamp \in Timestamp /\ range.prefix \in Id
    BY DEF WireRange
  <1>2. decodeTimestampIn(range.timestamp, last) \in Timestamp
    <2> DEFINE offset == IF range.timestamp = 0 THEN MAX_U64
                                                ELSE range.timestamp - 1
    <2>1. offset + last \in Int
      BY <1>1, WidthAssumption, SMT DEF Timestamp
    <2>2. Wrap(offset + last) \in Timestamp
      BY <2>1, WrapType
    <2>3. MAX_U64 \in Timestamp
      BY WidthAssumption, SMT DEF Timestamp
    <2> QED
      BY <2>2, <2>3 DEF decodeTimestampIn
  <1> QED
    BY <1>1, <1>2 DEF decodeBound, Bound

(* Encoding keeps every range on the wire's types, whatever was encoded    *)
(* before.                                                                 *)
LEMMA EncodeType ==
    ASSUME NEW ranges \in Seq(PlainRange), NEW last \in Timestamp
    PROVE  /\ encode(ranges, last) \in Seq(WireRange)
           /\ Len(encode(ranges, last)) = Len(ranges)
           /\ lastTimestampAfter(ranges, last) \in Timestamp
  <1>1. \A i \in 1 .. Len(ranges) :
           /\ ranges[i] \in PlainRange
           /\ ranges[i].upper.timestamp \in Timestamp
           /\ ranges[i].upper.id \in Id
    <2>1. \A i \in 1 .. Len(ranges) : ranges[i] \in PlainRange
      BY SMT
    <2> QED
      BY <2>1 DEF PlainRange, Bound
  <1>2. ASSUME NEW t \in Timestamp, NEW u \in Timestamp
        PROVE  encodeTimestampOut(t, u) \in Timestamp
    <2>1. Wrap(t - u) \in Timestamp
      <3>1. t - u \in Int
        BY WidthAssumption, SMT DEF Timestamp
      <3> QED
        BY <3>1, WrapType
    <2>2. Wrap(Wrap(t - u) + 1) \in Timestamp
      <3>1. Wrap(t - u) + 1 \in Int
        BY <2>1, WidthAssumption, SMT DEF Timestamp
      <3> QED
        BY <3>1, WrapType
    <2>3. 0 \in Timestamp
      BY WidthAssumption, SMT DEF Timestamp
    <2> QED
      BY <2>2, <2>3 DEF encodeTimestampOut
  <1>3. ASSUME NEW i \in 1 .. Len(ranges)
        PROVE  encode(ranges, last)[i] \in WireRange
    <2> DEFINE u == IF i = 1 THEN last ELSE ranges[i - 1].upper.timestamp
    <2>1. u \in Timestamp
      <3>1. CASE i = 1
        BY <3>1
      <3>2. CASE i # 1
        <4>1. i - 1 \in 1 .. Len(ranges)
          BY <3>2, SMT
        <4> QED
          BY <1>1, <3>2, <4>1
      <3> QED
        BY <3>1, <3>2
    <2>2. encodeTimestampOut(ranges[i].upper.timestamp, u) \in Timestamp
      BY <1>1, <1>2, <2>1
    <2> HIDE DEF u
    <2>3. encode(ranges, last)[i] =
             [timestamp |->
                 encodeTimestampOut(ranges[i].upper.timestamp, u),
              prefix |-> ranges[i].upper.id,
              mode   |-> ranges[i].mode,
              ids    |-> ranges[i].ids]
      BY DEF encode, u
    <2> QED
      BY <1>1, <2>2, <2>3 DEF WireRange, PlainRange
  <1>4. encode(ranges, last) \in Seq(WireRange)
        /\ Len(encode(ranges, last)) = Len(ranges)
    <2>1. encode(ranges, last) \in [1 .. Len(ranges) -> WireRange]
      BY <1>3 DEF encode
    <2> QED
      BY <2>1, SMT
  <1>5. lastTimestampAfter(ranges, last) \in Timestamp
    BY <1>1, SMT DEF lastTimestampAfter
  <1> QED
    BY <1>4, <1>5

(* IDs of a part of a storage.                                             *)
LEMMA IdsInType ==
    ASSUME NEW s \in Seq(Universe), NEW lower \in Nat,
           NEW upper \in 0 .. Len(s)
    PROVE  IdsIn(s, lower, upper) \in SUBSET Id
  <1>1. \A i \in (lower + 1) .. upper : s[i] \in Item
    BY DataAssumption, SMT
  <1> QED
    BY <1>1 DEF IdsIn, Item

(* splitRange produces ranges, at least one, whatever it splits.           *)
LEMMA SplitType ==
    ASSUME NEW s \in Seq(Universe), Sorted(s),
           NEW lower \in Nat, NEW upper \in lower .. Len(s),
           NEW upperBound \in Bound
    PROVE  splitRange(s, lower, upper, upperBound) \in Seq(PlainRange)
  <1>1. CASE upper - lower < 2 * Buckets
    <2>1. IdListRange(upperBound, IdsIn(s, lower, upper)) \in PlainRange
      BY IdsInType, SMT DEF IdListRange, PlainRange, Mode
    <2> QED
      BY <1>1, <2>1 DEF splitRange
  <1>2. CASE ~(upper - lower < 2 * Buckets)
    <2> DEFINE part(i) ==
            LET from == curr(lower, upper, i - 1)
                to   == curr(lower, upper, i)
            IN  FingerprintRange(
                    IF to = upper THEN upperBound
                                  ELSE getMinimalBound(s[to], s[to + 1]),
                    FingerprintOf(s, from, to))
    <2>1. upper \in Nat /\ upper - lower >= 2 * Buckets /\ Buckets \in Nat
      BY <1>2, SizeAssumption, SMT
    <2>2. ASSUME NEW i \in 1 .. Buckets
          PROVE  part(i) \in PlainRange
      <3> DEFINE from == curr(lower, upper, i - 1)
                 to   == curr(lower, upper, i)
      <3>1. from \in lower .. upper /\ to \in (lower + 1) .. upper
        BY <2>1, CutsInRange, SMT
      <3> HIDE DEF from, to
      <3>2. FingerprintOf(s, from, to) \in SUBSET Id
        BY <3>1, <2>1, IdsInType, SMT DEF FingerprintOf
      <3>3. ASSUME to # upper
            PROVE  getMinimalBound(s[to], s[to + 1]) \in Bound
        <4>1. to \in DOMAIN s /\ to + 1 \in DOMAIN s
          BY <2>1, <3>1, <3>3, SMT
        <4>2. s[to] \in Item /\ s[to + 1] \in Item /\ s[to] \prec s[to + 1]
          BY <4>1, DataAssumption, SMT DEF Sorted
        <4> QED
          BY <4>2, MinimalBoundType
      <3> QED
        BY <3>2, <3>3 DEF part, from, to, FingerprintRange, PlainRange, Mode
    <2>3. splitRange(s, lower, upper, upperBound) =
             [i \in 1 .. Buckets |-> part(i)]
      BY <1>2 DEF splitRange
    <2> HIDE DEF part
    <2> QED
      BY <2>1, <2>2, <2>3, SMT
  <1> QED
    BY <1>1, <1>2

(* The bytes of a split: never negative, never more than SizeAssumption    *)
(* reserves room for.                                                      *)
LEMMA SplitSizeRange ==
    ASSUME NEW n \in Nat
    PROVE  splitSize(n) \in HeaderSize .. LargestSplit
  <1>1. /\ Buckets \in Nat /\ Buckets >= 2 /\ HeaderSize \in Nat
        /\ FingerprintSize \in Nat /\ IdSize \in Nat
    BY SizeAssumption
  <1>2. n * IdSize \in Nat
    BY <1>1, SMT
  <1>3. /\ Buckets * (HeaderSize + FingerprintSize) \in Nat
        /\ Buckets * (HeaderSize + FingerprintSize)
              >= HeaderSize + FingerprintSize
    BY <1>1, SMT
  <1>4. ASSUME n < 2 * Buckets
        PROVE  n * IdSize <= (2 * Buckets - 1) * IdSize
    <2>1. ((2 * Buckets - 1) - n) * IdSize \in Nat
      BY <1>1, <1>4, SMT
    <2>2. ((2 * Buckets - 1) - n) * IdSize
             = (2 * Buckets - 1) * IdSize - n * IdSize
      BY <1>1, SMT
    <2> QED
      BY <1>1, <2>1, <2>2, <1>2, SMT
  <1>5. (2 * Buckets - 1) * IdSize \in Nat
    BY <1>1, SMT
  <1>6. CASE n < 2 * Buckets
    BY <1>1, <1>2, <1>3, <1>4, <1>5, <1>6, SMT DEF splitSize, LargestSplit
  <1>7. CASE ~(n < 2 * Buckets)
    BY <1>1, <1>3, <1>5, <1>7, SMT DEF splitSize, LargestSplit
  <1> QED
    BY <1>6, <1>7

LEMMA SplitSizeType == ASSUME NEW n \in Nat PROVE splitSize(n) \in Nat
  <1> DEFINE bytes == splitSize(n)
  <1>1. bytes \in HeaderSize .. LargestSplit
    BY SplitSizeRange
  <1>2. HeaderSize \in Nat
    BY SizeAssumption
  <1> HIDE DEF bytes
  <1>3. bytes \in Nat
    BY <1>1, <1>2, SMT
  <1> QED
    BY <1>3 DEF bytes

-----------------------------------------------------------------------------
(* Types of the output of one turn of the loop.                            *)

LEMMA OutputType ==
    /\ Nothing \in Output
    /\ \A a, b \in Output : a \bullet b \in Output
  <1>1. <<>> \in Seq(PlainRange)
    BY SMT
  <1>2. \A r, t \in Seq(PlainRange) : r \o t \in Seq(PlainRange)
    BY SMT
  <1>3. \A m, n \in Nat : m + n \in Nat
    BY SMT
  <1> QED
    BY <1>1, <1>2, <1>3 DEF Nothing, Output, \bullet

(* The pieces the branches of the loop write.                              *)
LEMMA PiecesType ==
    ASSUME TypeOK, NEW p \in Peer, active = p, query # <<>>,
           NEW upper \in 0 .. Len(store[p])
    PROVE  /\ currBound(p) \in Bound
           /\ doSkip \in Output
           /\ prevIndex <= upper => Split(p, upper) \in Output
           /\ Rest(p, upper) \in Output
           /\ \A end \in prevIndex .. upper : List(p, upper, end) \in Output
  <1>1. /\ store[p] \in Seq(Universe) /\ Sorted(store[p])
        /\ prevIndex \in Nat /\ prevBound \in Bound
        /\ lastTimestampIn[p] \in Timestamp
        /\ query \in Seq(WireRange)
    BY DEF TypeOK
  <1>2. HeaderSize \in Nat /\ FingerprintSize \in Nat /\ IdSize \in Nat
    BY SizeAssumption
  <1>3. upper \in Nat /\ upper <= Len(store[p])
    BY <1>1, SMT
  <1>4. Head(query) \in WireRange
    BY <1>1, SMT
  <1>5. currBound(p) \in Bound
    BY <1>1, <1>4, DecodeType DEF currBound
  <1>6. doSkip \in Output
    <2>1. SkipRange(prevBound) \in PlainRange
      BY <1>1 DEF SkipRange, PlainRange, Mode
    <2>2. <<SkipRange(prevBound)>> \in Seq(PlainRange)
      BY <2>1, SMT
    <2> QED
      BY <1>2, <2>2, OutputType DEF doSkip, Output
  <1>7. ASSUME prevIndex <= upper
        PROVE  Split(p, upper) \in Output
    <2>1. splitRange(store[p], prevIndex, upper, currBound(p))
             \in Seq(PlainRange)
      <3>1. upper \in prevIndex .. Len(store[p])
        BY <1>1, <1>3, <1>7, SMT
      <3> QED
        BY <1>1, <1>3, <1>5, <3>1, SplitType
    <2>2. splitSize(upper - prevIndex) \in Nat
      <3>1. upper - prevIndex \in Nat
        BY <1>1, <1>3, <1>7, SMT
      <3> QED
        BY <3>1, SplitSizeType
    <2> QED
      BY <2>1, <2>2 DEF Split, Output
  <1>8. Rest(p, upper) \in Output
    <2>1. FingerprintOf(store[p], upper, Len(store[p])) \in SUBSET Id
      BY <1>1, <1>3, IdsInType, SMT DEF FingerprintOf
    <2>2. Infinity \in Bound
      BY WidthAssumption, SMT DEF Infinity, Bound, Timestamp, Id
    <2>3. FingerprintRange(Infinity,
              FingerprintOf(store[p], upper, Len(store[p]))) \in PlainRange
      BY <2>1, <2>2 DEF FingerprintRange, PlainRange, Mode
    <2>4. <<FingerprintRange(Infinity,
              FingerprintOf(store[p], upper, Len(store[p])))>>
                 \in Seq(PlainRange)
      BY <2>3, SMT
    <2>5. HeaderSize + FingerprintSize \in Nat
      BY <1>2, SMT
    <2> QED
      BY <2>4, <2>5 DEF Rest, Output
  <1>9. ASSUME NEW end \in prevIndex .. upper
        PROVE  List(p, upper, end) \in Output
    <2> DEFINE endBound == IF end < upper THEN store[p][end + 1]
                                          ELSE currBound(p)
               list     == IdListRange(endBound,
                                       IdsIn(store[p], prevIndex, end))
    <2>1. endBound \in Bound
      <3>1. CASE end < upper
        <4>1. end + 1 \in 1 .. Len(store[p])
          BY <1>1, <1>3, <3>1, SMT
        <4>2. store[p][end + 1] \in Item
          BY <1>1, <4>1, DataAssumption, SMT
        <4>3. Item \subseteq Bound
          BY WidthAssumption, SMT DEF Item, Bound, Timestamp
        <4> QED
          BY <3>1, <4>2, <4>3
      <3>2. CASE ~(end < upper)
        BY <1>5, <3>2
      <3> QED
        BY <3>1, <3>2
    <2>2. IdsIn(store[p], prevIndex, end) \in SUBSET Id
      <3>1. end \in 0 .. Len(store[p])
        BY <1>1, <1>3, SMT
      <3> QED
        BY <1>1, <3>1, IdsInType
    <2>3. list \in PlainRange
      BY <2>1, <2>2 DEF IdListRange, PlainRange, Mode
    <2>4. HeaderSize + (end - prevIndex) * IdSize \in Nat
      <3>1. end - prevIndex \in Nat
        BY <1>1, <1>3, SMT
      <3> QED
        BY <1>2, <3>1, SMT
    <2>5. List(p, upper, end) =
             [ranges |-> <<list>>,
              size   |-> HeaderSize + (end - prevIndex) * IdSize]
      BY DEF List
    <2> HIDE DEF list
    <2>6. <<list>> \in Seq(PlainRange)
      BY <2>3, SMT
    <2> QED
      BY <2>4, <2>5, <2>6 DEF Output
  <1> QED
    BY <1>5, <1>6, <1>7, <1>8, <1>9

(* Writing output leaves the object and the call well typed.               *)
LEMMA WriteType ==
    ASSUME TypeOK, NEW p \in Peer, NEW o \in Output, Write(p, o)
    PROVE  /\ fullOutput' \in Seq(WireRange)
           /\ outputSize' \in Nat
           /\ lastTimestampOut' \in [Peer -> Timestamp]
  <1>1. /\ o.ranges \in Seq(PlainRange) /\ o.size \in Nat
    BY DEF Output
  <1>2. /\ lastTimestampOut \in [Peer -> Timestamp]
        /\ lastTimestampOut[p] \in Timestamp
        /\ fullOutput \in Seq(WireRange) /\ outputSize \in Nat
    BY DEF TypeOK
  <1>3. /\ encode(o.ranges, lastTimestampOut[p]) \in Seq(WireRange)
        /\ lastTimestampAfter(o.ranges, lastTimestampOut[p]) \in Timestamp
    BY <1>1, <1>2, EncodeType
  <1>4. fullOutput' \in Seq(WireRange)
    BY <1>2, <1>3, SMT DEF Write
  <1>5. outputSize' \in Nat
    BY <1>1, <1>2, SMT DEF Write
  <1>6. lastTimestampOut' \in [Peer -> Timestamp]
    BY <1>2, <1>3, SMT DEF Write
  <1> QED
    BY <1>4, <1>5, <1>6

(* So does the end of the loop's body, dropped output or not.              *)
LEMMA EndRangeType ==
    ASSUME TypeOK, NEW p \in Peer, active = p, query # <<>>,
           NEW upper \in 0 .. Len(store[p]),
           NEW written \in Output, NEW o \in Output,
           EndRange(p, written, o, upper)
    PROVE  /\ query' \in Seq(WireRange)
           /\ fullOutput' \in Seq(WireRange)
           /\ outputSize' \in Nat
           /\ lastTimestampOut' \in [Peer -> Timestamp]
           /\ prevBound' \in Bound
           /\ prevIndex' \in 0 .. Len(store[p])
  <1>1. /\ query \in Seq(WireRange)
        /\ store[p] \in Seq(Universe) /\ Len(store[p]) \in Nat
        /\ prevIndex \in 0 .. Len(store[p])
        /\ prevBound \in Bound
        /\ upper \in 0 .. Len(store[p])
    <2>1. /\ query \in Seq(WireRange) /\ prevBound \in Bound
          /\ store \in [Peer -> Seq(Universe)] /\ prevIndex \in Nat
          /\ active # NoPeer => prevIndex <= Len(store[active])
          /\ p # NoPeer
      BY PeerAssumption DEF TypeOK
    <2>2. store[p] \in Seq(Universe) /\ Len(store[p]) \in Nat
      BY <2>1, SMT
    <2>3. prevIndex <= Len(store[p])
      BY <2>1
    <2> QED
      BY <2>1, <2>2, <2>3, SMT
  <1>2. /\ currBound(p) \in Bound
        /\ Rest(p, upper) \in Output
    BY PiecesType
  <1>3. CASE exceededFrameSizeLimit(p, outputSize + written.size + o.size)
    <2>1. /\ Write(p, written \bullet Rest(p, upper))
          /\ query' = <<>>
          /\ prevIndex' = prevIndex /\ prevBound' = prevBound
      BY <1>3 DEF EndRange
    <2>2. query' \in Seq(WireRange)
      BY <2>1, SMT
    <2> QED
      BY <1>1, <1>2, <2>1, <2>2, OutputType, WriteType
  <1>4. CASE ~exceededFrameSizeLimit(p, outputSize + written.size + o.size)
    <2>1. /\ Write(p, written \bullet o)
          /\ query' = Tail(query)
          /\ prevIndex' = upper /\ prevBound' = currBound(p)
      BY <1>4 DEF EndRange
    <2>2. query' \in Seq(WireRange)
      BY <1>1, <2>1, SMT
    <2> QED
      BY <1>1, <1>2, <2>1, <2>2, OutputType, WriteType
  <1> QED
    BY <1>3, <1>4

-----------------------------------------------------------------------------
(* Type correctness.                                                       *)

LEMMA CountType ==
    ASSUME NEW a \in [Id -> Nat], NEW b \in [Id -> Nat], NEW ids
    PROVE  /\ NoIds \in [Id -> Nat]
           /\ Count(a, ids) \in [Id -> Nat]
           /\ AddCounts(a, b) \in [Id -> Nat]
  BY SMT DEF NoIds, Count, AddCounts

LEMMA InitType == Init => TypeOK
  <1> SUFFICES ASSUME Init PROVE TypeOK
    OBVIOUS
  <1>1. store \in [Peer -> Seq(Universe)] /\ \A p \in Peer : Sorted(store[p])
    BY DataAssumption DEF Init
  <1>2. \A S : <<>> \in Seq(S)
    BY SMT
  <1>3. 0 \in Timestamp /\ 0 \in Id /\ 0 \in 0 .. MaxEdits
        /\ 0 \in 0 .. MaxProbes /\ 0 \in Nat /\ 1 \in Nat
    BY WidthAssumption, BoundsAssumption, SMT DEF Timestamp, Id
  <1>4. ZeroBound \in Bound
    BY <1>3 DEF ZeroBound, Bound
  <1>5. NoIds \in [Id -> Nat]
    BY DEF NoIds
  <1>6. active = NoPeer /\ NoPeer \notin Peer
    BY PeerAssumption DEF Init
  <1> QED
    BY <1>1, <1>2, <1>3, <1>4, <1>5, <1>6 DEF Init, TypeOK, Phase

(* A message of well typed ranges, appended to an inbox.                   *)
LEMMA SendType ==
    ASSUME TypeOK, NEW to \in Peer, NEW ranges \in Seq(WireRange),
           NEW size \in Nat, Send(to, ranges, size)
    PROVE  inbox' \in [Peer -> Seq(Message)]
  <1>1. [version |-> PROTOCOL_VERSION, ranges |-> ranges, size |-> size]
           \in Message
    BY DEF Message
  <1>2. inbox \in [Peer -> Seq(Message)]
    BY DEF TypeOK
  <1> QED
    BY <1>1, <1>2, SMT DEF Send

(* The branch a turn takes; only a skipped range may end before prevIndex. *)
LEMMA BranchTaken ==
    ASSUME TypeOK, NEW p \in Peer, ReconcileRange(p)
    PROVE  \E upper \in 0 .. Len(store[p]) :
              \/ SkipStep(p, upper)
              \/ /\ prevIndex <= upper
                 /\ \/ FingerprintMatches(p, upper)
                    \/ FingerprintDiffers(p, upper)
                    \/ IdListAtInitiator(p, upper)
                    \/ IdListAtResponder(p, upper)
  <1>1. CASE \E upper \in 0 .. Len(store[p]) : SkipStep(p, upper)
    BY <1>1
  <1>2. CASE ~ \E upper \in 0 .. Len(store[p]) : SkipStep(p, upper)
    <2>1. PICK upper \in prevIndex .. Len(store[p]) :
             \/ FingerprintMatches(p, upper)
             \/ FingerprintDiffers(p, upper)
             \/ IdListAtInitiator(p, upper)
             \/ IdListAtResponder(p, upper)
      BY <1>2 DEF ReconcileRange
    <2>2. prevIndex \in Nat /\ store[p] \in Seq(Universe)
      BY DEF TypeOK
    <2>3. upper \in 0 .. Len(store[p]) /\ prevIndex <= upper
      BY <2>2, SMT
    <2> QED
      BY <2>1, <2>3
  <1> QED
    BY <1>1, <1>2

(* One turn of the loop.                                                   *)
LEMMA ReconcileRangeType ==
    ASSUME TypeOK, NEW p \in Peer, ReconcileRange(p)
    PROVE  TypeOK'
  <1>1. PICK upper \in 0 .. Len(store[p]) :
           \/ SkipStep(p, upper)
           \/ /\ prevIndex <= upper
              /\ \/ FingerprintMatches(p, upper)
                 \/ FingerprintDiffers(p, upper)
                 \/ IdListAtInitiator(p, upper)
                 \/ IdListAtResponder(p, upper)
    BY BranchTaken
  <1>2. \E mode : NextRange(p, mode, upper)
    BY <1>1 DEF SkipStep, FingerprintMatches, FingerprintDiffers,
                IdListAtInitiator, IdListAtResponder
  <1>3. active = p /\ query # <<>>
    BY <1>2 DEF NextRange
  <1>4. UNCHANGED <<storeVars, inbox, isInitiator, active, appVars>>
    BY <1>2 DEF NextRange
  <1>5. lastTimestampIn' \in [Peer -> Timestamp]
    <2>1. currBound(p).timestamp \in Timestamp
      BY <1>3, PiecesType DEF Bound
    <2>2. lastTimestampIn' =
             [lastTimestampIn EXCEPT ![p] = currBound(p).timestamp]
      BY <1>2 DEF NextRange
    <2> QED
      BY <2>1, <2>2, SMT DEF TypeOK
  <1>6. /\ store[p] \in Seq(Universe) /\ Len(store[p]) \in Nat
        /\ prevIndex \in Nat /\ upper \in Nat /\ upper <= Len(store[p])
        /\ haveIds \in [Id -> Nat] /\ needIds \in [Id -> Nat]
    BY SMT DEF TypeOK
  <1>7. \E written \in Output, o \in Output,
           end \in 0 .. Len(store[p]) :
              EndRange(p, written, o, end)
    <2>1. CASE SkipStep(p, upper)
      BY <2>1, OutputType DEF SkipStep
    <2>2. CASE FingerprintMatches(p, upper)
      BY <2>2, OutputType DEF FingerprintMatches
    <2>3. CASE FingerprintDiffers(p, upper)
      <3>1. prevIndex <= upper
        BY <1>1, <2>3
        DEF SkipStep, FingerprintDiffers, NextRange
      <3> QED
        BY <1>3, <2>3, <3>1, OutputType, PiecesType DEF FingerprintDiffers
    <2>4. CASE IdListAtInitiator(p, upper)
      BY <2>4, OutputType DEF IdListAtInitiator
    <2>5. CASE IdListAtResponder(p, upper)
      <3>1. PICK end \in prevIndex .. upper :
               EndRange(p, doSkip \bullet List(p, upper, end), Nothing, end)
        BY <2>5 DEF IdListAtResponder
      <3>2. end \in 0 .. Len(store[p])
        BY <1>6, SMT
      <3> QED
        BY <1>3, <3>1, <3>2, OutputType, PiecesType
    <2> QED
      BY <1>1, <2>1, <2>2, <2>3, <2>4, <2>5
  <1>8. /\ query' \in Seq(WireRange)
        /\ fullOutput' \in Seq(WireRange)
        /\ outputSize' \in Nat
        /\ lastTimestampOut' \in [Peer -> Timestamp]
        /\ prevBound' \in Bound
        /\ prevIndex' \in 0 .. Len(store[p])
    BY <1>3, <1>7, EndRangeType
  <1>9. skip' \in BOOLEAN
    BY <1>1 DEF SkipStep, FingerprintMatches, FingerprintDiffers,
                IdListAtInitiator, IdListAtResponder
  <1>10. haveIds' \in [Id -> Nat] /\ needIds' \in [Id -> Nat]
    <2>1. CASE IdListAtInitiator(p, upper)
      <3>1. PICK a, b : /\ haveIds' = Count(haveIds, a)
                        /\ needIds' = Count(needIds, b)
        BY <2>1 DEF IdListAtInitiator
      <3> QED
        BY <1>6, <3>1, CountType
    <2>2. CASE UNCHANGED <<haveIds, needIds>>
      BY <1>6, <2>2
    <2> QED
      BY <1>1, <2>1, <2>2
      DEF SkipStep, FingerprintMatches, FingerprintDiffers,
          IdListAtResponder
  <1>11. /\ store' = store /\ inbox' = inbox /\ isInitiator' = isInitiator
         /\ active' = active /\ touched' = touched /\ edits' = edits
         /\ phase' = phase /\ have' = have /\ need' = need
         /\ probes' = probes /\ faults' = faults
         /\ frameSizeLimit' = frameSizeLimit /\ base' = base
    BY <1>4 DEF storeVars, appVars
  <1>12. prevIndex' \in Nat /\ prevIndex' <= Len(store'[active'])
    BY <1>3, <1>6, <1>8, <1>11, SMT
  <1> QED
    BY <1>5, <1>8, <1>9, <1>10, <1>11, <1>12 DEF TypeOK

(* The library's facts about a concatenation, for items.                   *)
JoinedAt(a, b) ==
    /\ a \o b \in Seq(Universe)
    /\ Len(a \o b) = Len(a) + Len(b)
    /\ \A i \in 1 .. Len(a) + Len(b) :
          (a \o b)[i] = IF i <= Len(a) THEN a[i] ELSE b[i - Len(a)]

LEMMA Concatenation ==
    ASSUME NEW a \in Seq(Universe), NEW b \in Seq(Universe)
    PROVE  JoinedAt(a, b)
  BY ConcatProperties, Zenon DEF JoinedAt

(* A changed storage stays a sorted sequence of items.                     *)
(* What InsertAt and RemoveAt make of a storage. *)
LEMMA Inserted ==
    ASSUME NEW s \in Seq(Universe), NEW it \in Universe,
           NEW i \in 1 .. Len(s) + 1
    PROVE  /\ InsertAt(s, i, it) \in Seq(Universe)
           /\ Len(InsertAt(s, i, it)) = Len(s) + 1
           /\ \A j \in 1 .. Len(InsertAt(s, i, it)) :
                 InsertAt(s, i, it)[j] =
                    IF j < i THEN s[j] ELSE IF j = i THEN it ELSE s[j - 1]
  <1> DEFINE a == SubSeq(s, 1, i - 1)
             b == SubSeq(s, i, Len(s))
             c == <<it>>
  <1>1. /\ a \in Seq(Universe) /\ Len(a) = i - 1
        /\ \A j \in 1 .. i - 1 : a[j] = s[j]
    BY SMT
  <1>2. /\ b \in Seq(Universe) /\ Len(b) = Len(s) - i + 1
        /\ \A j \in 1 .. Len(s) - i + 1 : b[j] = s[i + j - 1]
    BY SMT
  <1>3. c \in Seq(Universe) /\ Len(c) = 1 /\ c[1] = it
    BY SMT
  <1> HIDE DEF a, b, c
  <1>4. /\ a \o c \in Seq(Universe) /\ Len(a \o c) = i
        /\ \A j \in 1 .. i : (a \o c)[j] = IF j < i THEN s[j] ELSE it
    <2>1. JoinedAt(a, c)
      BY <1>1, <1>3, Concatenation
    <2> QED
      BY <1>1, <1>3, <2>1, SMT DEF JoinedAt
  <1>5. /\ (a \o c) \o b \in Seq(Universe)
        /\ Len((a \o c) \o b) = Len(s) + 1
        /\ \A j \in 1 .. Len(s) + 1 :
              ((a \o c) \o b)[j] =
                  IF j < i THEN s[j] ELSE IF j = i THEN it ELSE s[j - 1]
    <2>1. JoinedAt(a \o c, b)
      BY <1>2, <1>4, Concatenation
    <2> QED
      BY <1>2, <1>4, <2>1, SMT DEF JoinedAt
  <1>6. InsertAt(s, i, it) = (a \o c) \o b
    BY DEF InsertAt, a, b, c
  <1> QED
    BY <1>5, <1>6

LEMMA InsertType ==
    ASSUME NEW s \in Seq(Universe), Sorted(s), NEW it \in Universe,
           NEW i \in 1 .. Len(s) + 1,
           \A j \in 1 .. i - 1 : s[j] \prec it,
           \A j \in i .. Len(s) : it \prec s[j]
    PROVE  /\ InsertAt(s, i, it) \in Seq(Universe)
           /\ Sorted(InsertAt(s, i, it))
  <1> DEFINE t == InsertAt(s, i, it)
  <1>1. /\ t \in Seq(Universe)
        /\ Len(t) = Len(s) + 1
        /\ \A j \in 1 .. Len(t) :
              t[j] = IF j < i THEN s[j] ELSE IF j = i THEN it ELSE s[j - 1]
    BY Inserted
  <1> HIDE DEF t
  <1>2. ASSUME NEW j \in 1 .. Len(t), NEW k \in 1 .. Len(t), j < k
        PROVE  t[j] \prec t[k]
    <2>1. \A m, n \in 1 .. Len(s) : m < n => s[m] \prec s[n]
      BY SMT DEF Sorted
    <2>2. CASE k < i
      BY <1>1, <1>2, <2>1, <2>2, SMT
    <2>3. CASE k = i
      BY <1>1, <1>2, <2>3, SMT
    <2>4. CASE k > i
      <3>1. t[k] = s[k - 1] /\ k - 1 \in i .. Len(s)
        BY <1>1, <1>2, <2>4, SMT
      <3>2. CASE j < i
        <4>1. t[j] = s[j] /\ j \in 1 .. Len(s) /\ j < k - 1
              /\ k - 1 \in 1 .. Len(s)
          BY <1>1, <1>2, <2>4, <3>2, SMT
        <4> QED
          BY <2>1, <3>1, <4>1
      <3>3. CASE j = i
        BY <1>1, <1>2, <3>1, <3>3
      <3>4. CASE j > i
        <4>1. t[j] = s[j - 1] /\ j - 1 \in 1 .. Len(s) /\ j - 1 < k - 1
              /\ k - 1 \in 1 .. Len(s)
          BY <1>1, <1>2, <2>4, <3>4, SMT
        <4> QED
          BY <2>1, <3>1, <4>1
      <3> QED
        BY <1>2, <3>2, <3>3, <3>4, SMT
    <2> QED
      BY <1>2, <2>2, <2>3, <2>4, SMT
  <1>3. Sorted(t)
    BY <1>1, <1>2, SMT DEF Sorted
  <1> QED
    BY <1>1, <1>3 DEF t

LEMMA Removed ==
    ASSUME NEW s \in Seq(Universe), NEW i \in 1 .. Len(s)
    PROVE  /\ RemoveAt(s, i) \in Seq(Universe)
           /\ Len(RemoveAt(s, i)) = Len(s) - 1
           /\ \A j \in 1 .. Len(RemoveAt(s, i)) :
                 RemoveAt(s, i)[j] = IF j < i THEN s[j] ELSE s[j + 1]
  <1> DEFINE a == SubSeq(s, 1, i - 1)
             b == SubSeq(s, i + 1, Len(s))
  <1>1. /\ a \in Seq(Universe) /\ Len(a) = i - 1
        /\ \A j \in 1 .. i - 1 : a[j] = s[j]
    BY SMT
  <1>2. /\ b \in Seq(Universe) /\ Len(b) = Len(s) - i
        /\ \A j \in 1 .. Len(s) - i : b[j] = s[i + j]
    BY SMT
  <1> HIDE DEF a, b
  <1>3. /\ a \o b \in Seq(Universe) /\ Len(a \o b) = Len(s) - 1
        /\ \A j \in 1 .. Len(s) - 1 :
              (a \o b)[j] = IF j < i THEN s[j] ELSE s[j + 1]
    <2>1. JoinedAt(a, b)
      BY <1>1, <1>2, Concatenation
    <2>2. Len(a) + Len(b) = Len(s) - 1
      BY <1>1, <1>2, SMT
    <2>3. ASSUME NEW j \in 1 .. Len(s) - 1
          PROVE  (a \o b)[j] = IF j < i THEN s[j] ELSE s[j + 1]
      <3>1. (a \o b)[j] = IF j <= i - 1 THEN a[j] ELSE b[j - (i - 1)]
        BY <1>1, <2>1, <2>2 DEF JoinedAt
      <3>2. CASE j < i
        BY <1>1, <3>1, <3>2, SMT
      <3>3. CASE j >= i
        <4>1. /\ j - (i - 1) \in 1 .. Len(s) - i
              /\ i + (j - (i - 1)) = j + 1
              /\ ~(j <= i - 1)
              /\ ~(j < i)
          <5> DEFINE n == Len(s)
          <5>1. n \in Nat /\ i \in 1 .. n /\ j \in 1 .. n - 1
            BY SMT
          <5> HIDE DEF n
          <5>2. /\ j - (i - 1) \in 1 .. n - i
                /\ i + (j - (i - 1)) = j + 1
                /\ ~(j <= i - 1)
                /\ ~(j < i)
            BY <3>3, <5>1, SMT
          <5> QED
            BY <5>2 DEF n
        <4>2. b[j - (i - 1)] = s[i + (j - (i - 1))]
          BY <1>2, <4>1
        <4> QED
          BY <3>1, <4>1, <4>2
      <3>4. i \in Int /\ j \in Int
        BY SMT
      <3>5. j < i \/ j >= i
        BY <3>4, SMT
      <3> QED
        BY <3>2, <3>3, <3>5, Zenon
    <2> QED
      BY <2>1, <2>2, <2>3 DEF JoinedAt
  <1>4. RemoveAt(s, i) = a \o b
    BY DEF RemoveAt, a, b
  <1> QED
    BY <1>3, <1>4

LEMMA EraseType ==
    ASSUME NEW s \in Seq(Universe), Sorted(s), NEW i \in 1 .. Len(s)
    PROVE  /\ RemoveAt(s, i) \in Seq(Universe)
           /\ Sorted(RemoveAt(s, i))
  <1> DEFINE t == RemoveAt(s, i)
  <1>1. /\ t \in Seq(Universe)
        /\ Len(t) = Len(s) - 1
        /\ \A j \in 1 .. Len(t) : t[j] = IF j < i THEN s[j] ELSE s[j + 1]
    BY Removed
  <1> HIDE DEF t
  <1>2. ASSUME NEW j \in 1 .. Len(t), NEW k \in 1 .. Len(t), j < k
        PROVE  t[j] \prec t[k]
    <2>1. \A m, n \in 1 .. Len(s) : m < n => s[m] \prec s[n]
      BY SMT DEF Sorted
    <2>2. CASE k < i
      <3>1. t[j] = s[j] /\ t[k] = s[k] /\ j \in 1 .. Len(s) /\ k \in 1 .. Len(s)
        BY <1>1, <1>2, <2>2, SMT
      <3> QED
        BY <1>2, <2>1, <3>1
    <2>3. CASE j < i /\ k >= i
      <3>1. /\ t[j] = s[j] /\ t[k] = s[k + 1]
            /\ j \in 1 .. Len(s) /\ k + 1 \in 1 .. Len(s) /\ j < k + 1
        BY <1>1, <1>2, <2>3, SMT
      <3> QED
        BY <2>1, <3>1
    <2>4. CASE j >= i
      <3>1. /\ t[j] = s[j + 1] /\ t[k] = s[k + 1]
            /\ j + 1 \in 1 .. Len(s) /\ k + 1 \in 1 .. Len(s) /\ j + 1 < k + 1
        BY <1>1, <1>2, <2>4, SMT
      <3> QED
        BY <2>1, <3>1
    <2>5. k < i \/ (j < i /\ k >= i) \/ j >= i
      BY <1>1, SMT
    <2> QED
      BY <2>2, <2>3, <2>4, <2>5, Zenon
  <1>3. Sorted(t)
    BY <1>1, <1>2, SMT DEF Sorted
  <1> QED
    BY <1>1, <1>3 DEF t

LEMMA EditStoreType ==
    ASSUME TypeOK, NEW p \in Peer, NEW s \in Seq(Universe), Sorted(s),
           NEW k \in Id, EditStore(p, s, k)
    PROVE  TypeOK'
  <1>1. /\ store' \in [Peer -> Seq(Universe)]
        /\ \A q \in Peer : Sorted(store'[q])
    BY DEF TypeOK, EditStore
  <1>2. edits' \in 0 .. MaxEdits
    BY BoundsAssumption, SMT DEF TypeOK, EditStore
  <1>3. touched' \in SUBSET Id
    BY DEF TypeOK, EditStore
  <1>4. active' \notin Peer
    BY PeerAssumption DEF EditStore
  <1> QED
    BY <1>1, <1>2, <1>3, <1>4
    DEF TypeOK, EditStore, objectVars, callVars, appVars

LEMMA StepType == TypeOK /\ [Next]_vars => TypeOK'
  <1> SUFFICES ASSUME TypeOK, [Next]_vars PROVE TypeOK'
    OBVIOUS
  <1> USE DEF Phase
  <1>0. /\ Client \in Peer /\ Server \in Peer /\ NoPeer \notin Peer
        /\ \A S : <<>> \in Seq(S)
        /\ 0 \in Timestamp /\ ZeroBound \in Bound
        /\ NoIds \in [Id -> Nat]
        /\ 0 \in Nat /\ 1 \in Nat
    <2>1. 0 \in Timestamp /\ 0 \in Id
      BY WidthAssumption, SMT DEF Timestamp, Id
    <2>2. \A S : <<>> \in Seq(S)
      BY SMT
    <2> QED
      BY <2>1, <2>2, PeerAssumption DEF Peer, ZeroBound, Bound, NoIds
  <1>1. CASE Initiate
    <2> DEFINE n      == Len(store[Client])
               ranges == splitRange(store[Client], 0, n, Infinity)
               last   == lastTimestampOut[Client]
    <2>1. /\ store[Client] \in Seq(Universe) /\ Sorted(store[Client])
          /\ n \in Nat /\ last \in Timestamp
      BY <1>0, SMT DEF TypeOK
    <2>2. Infinity \in Bound
      BY WidthAssumption, SMT DEF Infinity, Bound, Timestamp, Id
    <2>3. ranges \in Seq(PlainRange)
      <3>1. 0 \in Nat /\ n \in 0 .. Len(store[Client])
        BY <2>1, SMT
      <3> QED
        BY <2>1, <2>2, <3>1, SplitType
    <2>4. 1 + splitSize(n) \in Nat
      <3>1. splitSize(n) \in Nat
        BY <2>1, SplitSizeType
      <3> HIDE DEF n
      <3> QED
        BY <3>1, SMT
    <2>5. /\ encode(ranges, last) \in Seq(WireRange)
          /\ lastTimestampAfter(ranges, last) \in Timestamp
      BY <2>1, <2>3, EncodeType
    <2>6. /\ Send(Server, encode(ranges, last), 1 + splitSize(n))
          /\ lastTimestampOut' = [lastTimestampOut EXCEPT ![Client] =
                                     lastTimestampAfter(ranges, last)]
          /\ isInitiator' = [isInitiator EXCEPT ![Client] = TRUE]
          /\ phase' = "waiting"
      BY <1>1 DEF Initiate
    <2> HIDE DEF ranges, last, n
    <2>7. inbox' \in [Peer -> Seq(Message)]
      BY <1>0, <2>4, <2>5, <2>6, SendType
    <2>8. lastTimestampOut' \in [Peer -> Timestamp]
      BY <2>5, <2>6 DEF TypeOK
    <2>9. isInitiator' \in [Peer -> BOOLEAN]
      BY <2>6 DEF TypeOK
    <2> QED
      BY <1>1, <2>6, <2>7, <2>8, <2>9
      DEF Initiate, TypeOK, storeVars, callVars
  <1>2. CASE Downgrade
    <2>1. inbox' \in [Peer -> Seq(Message)]
      BY <1>0, <1>2, SMT DEF Downgrade, TypeOK
    <2> QED
      BY <1>2, <2>1 DEF Downgrade, TypeOK, storeVars, objectVars, callVars
  <1>3. CASE RefuseVersion
    <2>1. [version |-> PROTOCOL_VERSION, ranges |-> <<>>, size |-> 1]
             \in Message
      BY <1>0 DEF Message
    <2>2. /\ inbox \in [Peer -> Seq(Message)]
          /\ inbox[Server] # <<>>
          /\ inbox' = [inbox EXCEPT
                 ![Server] = Tail(@),
                 ![Client] = Append(@, [version |-> PROTOCOL_VERSION,
                                        ranges |-> <<>>, size |-> 1])]
      BY <1>3 DEF RefuseVersion, TypeOK
    <2>3. inbox' \in [Peer -> Seq(Message)]
      <3>1. Tail(inbox[Server]) \in Seq(Message)
        BY <1>0, <2>2, SMT
      <3>2. [inbox EXCEPT ![Server] = Tail(@)] \in [Peer -> Seq(Message)]
        BY <2>2, <3>1
      <3>3. \A s \in Seq(Message), m \in Message :
               Append(s, m) \in Seq(Message)
        BY SMT
      <3> QED
        BY <1>0, <2>1, <2>2, <3>2, <3>3
    <2>4. /\ lastTimestampIn' \in [Peer -> Timestamp]
          /\ lastTimestampOut' \in [Peer -> Timestamp]
      BY <1>0, <1>3 DEF RefuseVersion, resetTimestamps, TypeOK
    <2> QED
      BY <1>3, <2>3, <2>4 DEF RefuseVersion, TypeOK, storeVars, callVars,
                              appVars
  <1>4. ASSUME NEW p \in Peer, Receive(p)
        PROVE  TypeOK'
    <2>1. /\ inbox[p] # <<>> /\ inbox[p] \in Seq(Message)
          /\ query' = Head(inbox[p]).ranges
          /\ inbox' = [inbox EXCEPT ![p] = Tail(@)]
      BY <1>4 DEF Receive, TypeOK
    <2>2. Head(inbox[p]) \in Message /\ Tail(inbox[p]) \in Seq(Message)
      BY <2>1, SMT
    <2>3. query' \in Seq(WireRange)
      BY <2>1, <2>2 DEF Message
    <2>4. inbox' \in [Peer -> Seq(Message)]
      BY <2>1, <2>2 DEF TypeOK
    <2>5. /\ lastTimestampIn' \in [Peer -> Timestamp]
          /\ lastTimestampOut' \in [Peer -> Timestamp]
      BY <1>0, <1>4 DEF Receive, resetTimestamps, TypeOK
    <2>6. /\ active' = p /\ prevIndex' = 0 /\ store' = store
      BY <1>4 DEF Receive, storeVars
    <2>7. prevIndex' <= Len(store'[active'])
      BY <2>6, SMT DEF TypeOK
    <2> QED
      BY <1>0, <1>4, <2>3, <2>4, <2>5, <2>6, <2>7
      DEF Receive, TypeOK, storeVars, appVars
  <1>5. ASSUME NEW p \in Peer, ReconcileRange(p)
        PROVE  TypeOK'
    BY <1>5, ReconcileRangeType
  <1>6. ASSUME LeaveCall,
               inbox' \in [Peer -> Seq(Message)],
               phase' \in Phase,
               have' \in [Id -> Nat], need' \in [Id -> Nat]
        PROVE  TypeOK'
    BY <1>0, <1>6 DEF LeaveCall, DropLocals, TypeOK, storeVars, objectVars
  <1>7. /\ fullOutput \in Seq(WireRange) /\ outputSize \in Nat
        /\ phase \in Phase
        /\ have \in [Id -> Nat] /\ need \in [Id -> Nat]
        /\ haveIds \in [Id -> Nat] /\ needIds \in [Id -> Nat]
        /\ inbox \in [Peer -> Seq(Message)]
    BY DEF TypeOK
  <1>8. CASE ReturnAtResponder
    <2>1. inbox' \in [Peer -> Seq(Message)]
      BY <1>0, <1>7, <1>8, SendType DEF ReturnAtResponder
    <2> QED
      BY <1>6, <1>7, <1>8, <2>1 DEF ReturnAtResponder
  <1>9. ASSUME ReturnAtInitiator
        PROVE  have' \in [Id -> Nat] /\ need' \in [Id -> Nat]
    BY <1>7, <1>9, CountType DEF ReturnAtInitiator
  <1>10. CASE Continue
    <2>1. inbox' \in [Peer -> Seq(Message)]
      BY <1>0, <1>7, <1>10, SendType DEF Continue
    <2> QED
      BY <1>6, <1>7, <1>9, <1>10, <2>1 DEF Continue, ReturnAtInitiator
  <1>11. CASE Finish
    <2>1. inbox' \in [Peer -> Seq(Message)] /\ phase' \in Phase
      BY <1>7, <1>11 DEF Finish
    <2> QED
      BY <1>6, <1>9, <1>11, <2>1 DEF Finish, ReturnAtInitiator
  <1>12. CASE ProbeNewerVersion
    <2>1. [version |-> NEWER_VERSION, ranges |-> <<>>, size |-> 1] \in Message
      BY <1>0 DEF Message
    <2>2. inbox' \in [Peer -> Seq(Message)]
      BY <1>0, <1>7, <1>12, <2>1, SMT DEF ProbeNewerVersion
    <2>3. probes' \in 0 .. MaxProbes
      BY <1>12, BoundsAssumption, SMT DEF ProbeNewerVersion, TypeOK
    <2> QED
      BY <1>12, <2>2, <2>3
      DEF ProbeNewerVersion, TypeOK, storeVars, objectVars, callVars
  <1>13. ASSUME NEW p \in Peer, Insert(p)
         PROVE  TypeOK'
    <2>1. PICK it \in Universe, i \in 1 .. Len(store[p]) + 1 :
             /\ \A j \in 1 .. i - 1 : store[p][j] \prec it
             /\ \A j \in i .. Len(store[p]) : it \prec store[p][j]
             /\ EditStore(p, InsertAt(store[p], i, it), it.id)
      BY <1>13 DEF Insert
    <2>2. store[p] \in Seq(Universe) /\ Sorted(store[p])
      BY DEF TypeOK
    <2>3. it.id \in Id
      BY DataAssumption DEF Item
    <2>4. /\ InsertAt(store[p], i, it) \in Seq(Universe)
          /\ Sorted(InsertAt(store[p], i, it))
      BY <2>1, <2>2, InsertType
    <2> QED
      BY <2>1, <2>3, <2>4, EditStoreType
  <1>14. ASSUME NEW p \in Peer, Erase(p)
         PROVE  TypeOK'
    <2>1. PICK i \in 1 .. Len(store[p]) :
             EditStore(p, RemoveAt(store[p], i), store[p][i].id)
      BY <1>14 DEF Erase
    <2>2. store[p] \in Seq(Universe) /\ Sorted(store[p])
      BY DEF TypeOK
    <2>3. store[p][i] \in Item
      BY <2>2, DataAssumption, SMT
    <2>4. /\ RemoveAt(store[p], i) \in Seq(Universe)
          /\ Sorted(RemoveAt(store[p], i))
      BY <2>2, EraseType
    <2> QED
      BY <2>1, <2>3, <2>4, EditStoreType DEF Item
  <1>15. ASSUME NEW p \in Peer, Recreate(p)
         PROVE  TypeOK'
    <2>1. /\ lastTimestampIn' \in [Peer -> Timestamp]
          /\ lastTimestampOut' \in [Peer -> Timestamp]
      BY <1>0, <1>15 DEF Recreate, resetTimestamps, TypeOK
    <2>2. isInitiator' \in [Peer -> BOOLEAN]
      BY <1>15 DEF Recreate, TypeOK
    <2> QED
      BY <1>15, <2>1, <2>2 DEF Recreate, TypeOK, storeVars, callVars, appVars
  <1>16. CASE UNCHANGED vars
    BY <1>16 DEF TypeOK, vars, storeVars, objectVars, callVars, appVars
  <1>17. \A n \in Nat : n + 1 \in Nat
    BY SMT
  <1>18. ASSUME NEW p \in Peer, Throw(p)
         PROVE  TypeOK'
    BY <1>0, <1>17, <1>18
    DEF Throw, DropLocals, TypeOK, storeVars, objectVars
  <1>19. CASE Timeout
    <2>1. inbox' \in [Peer -> Seq(Message)]
      <3>1. inbox' \in {inbox, [r \in Peer |-> <<>>]}
        BY <1>19 DEF Timeout
      <3>2. inbox \in [Peer -> Seq(Message)]
        BY DEF TypeOK
      <3>3. <<>> \in Seq(Message)
        BY SMT
      <3>4. [r \in Peer |-> <<>>] \in [Peer -> Seq(Message)]
        BY <3>3, Zenon
      <3> QED
        BY <3>1, <3>2, <3>4, Zenon
    <2> QED
      BY <1>17, <1>19, <2>1
      DEF Timeout, TypeOK, storeVars, objectVars, callVars
  <1>20. CASE Retry
    <2>1. /\ lastTimestampIn' \in [Peer -> Timestamp]
          /\ lastTimestampOut' \in [Peer -> Timestamp]
      BY <1>0, <1>20 DEF Retry, resetTimestamps, TypeOK
    <2>2. isInitiator' \in [Peer -> BOOLEAN]
      BY <1>20 DEF Retry, TypeOK
    <2> QED
      BY <1>20, <2>1, <2>2 DEF Retry, TypeOK, storeVars, callVars
  <1> QED
    BY <1>1, <1>2, <1>3, <1>4, <1>5, <1>8, <1>10, <1>11, <1>12, <1>13,
       <1>14, <1>15, <1>16, <1>18, <1>19, <1>20
    DEF Next, Protocol, Terminated, StorageFails, BadRange

(* Type correctness, sorted storages included, whatever the storages, the  *)
(* width of the integers, the number of buckets, the sizes and the limits. *)
THEOREM TypeCorrect == Spec => []TypeOK
  <1> QED
    BY InitType, StepType, PTL DEF Spec

-----------------------------------------------------------------------------
(* The frame size limit.                                                   *)
(*                                                                         *)
(* The limit is not tested when a message is sent but while it is written, *)
(* against Reserve bytes less; what is written after the last test has to  *)
(* fit into the reserve.  The inductive invariant says how far a call may  *)
(* be: while ranges are left, the output has not exceeded the reduced      *)
(* limit; once none is left, it has not exceeded the limit itself.         *)

CallWithinFrameLimit ==
    active # NoPeer /\ frameSizeLimit[active] # 0 =>
        /\ outputSize <= frameSizeLimit[active]
        /\ query # <<>> => ~exceededFrameSizeLimit(active, outputSize)

FrameInv ==
    /\ TypeOK
    /\ CallWithinFrameLimit
    /\ WithinFrameLimit

(* An object keeps the limit it was constructed with.                      *)
LEMMA LimitFixed == [Next]_vars => UNCHANGED frameSizeLimit
  BY DEF Next, Protocol, Initiate, Downgrade, RefuseVersion, Receive,
         ReconcileRange, SkipStep, FingerprintMatches, FingerprintDiffers,
         IdListAtInitiator, IdListAtResponder, NextRange, ReturnAtResponder,
         ReturnAtInitiator, Continue, Finish, LeaveCall, Retry,
         ProbeNewerVersion, Timeout, StorageFails, BadRange, Throw, Insert,
         Erase, EditStore, Recreate, Terminated, vars, storeVars

LEMMA LimitType ==
    ASSUME TypeOK, NEW p \in Peer
    PROVE  /\ frameSizeLimit[p] \in Nat
           /\ frameSizeLimit[p] # 0 =>
                 frameSizeLimit[p] >= Reserve + 1 + HeaderSize + LargestSplit
           /\ Reserve \in Nat /\ HeaderSize \in Nat /\ FingerprintSize \in Nat
           /\ IdSize \in Nat /\ LargestSplit \in Nat
           /\ Reserve >= IdSize + 3 * HeaderSize + FingerprintSize
  <1>1. splitSize(0) \in HeaderSize .. LargestSplit
    BY SplitSizeRange
  <1>2. HeaderSize \in Nat /\ LargestSplit \in Int
    BY SizeAssumption, SMT DEF LargestSplit
  <1>3. LargestSplit \in Nat
    BY <1>1, <1>2, SMT
  <1>4. frameSizeLimit[p] \in Nat
    BY SizeAssumption DEF TypeOK
  <1>5. frameSizeLimit[p] # 0 =>
           frameSizeLimit[p] >= Reserve + 1 + HeaderSize + LargestSplit
    BY SizeAssumption DEF TypeOK
  <1>6. /\ Reserve \in Nat /\ FingerprintSize \in Nat /\ IdSize \in Nat
        /\ Reserve >= IdSize + 3 * HeaderSize + FingerprintSize
    BY SizeAssumption, SMT
  <1> QED
    BY <1>2, <1>3, <1>4, <1>5, <1>6

(* The end of the loop's body keeps the call within the limit if what it   *)
(* wrote before its test leaves room for the fingerprint of the rest.      *)
LEMMA EndRangeFrame ==
    ASSUME TypeOK, NEW p \in Peer, frameSizeLimit[p] # 0,
           NEW written \in Output, NEW o \in Output, NEW upper,
           outputSize + written.size + HeaderSize + FingerprintSize
              <= frameSizeLimit[p],
           EndRange(p, written, o, upper)
    PROVE  /\ outputSize' <= frameSizeLimit[p]
           /\ query' # <<>> => ~exceededFrameSizeLimit(p, outputSize')
  <1> DEFINE limit == frameSizeLimit[p]
             over  == exceededFrameSizeLimit(p,
                          outputSize + written.size + o.size)
  <1>1. /\ written.size \in Nat /\ o.size \in Nat /\ outputSize \in Nat
    BY DEF Output, TypeOK
  <1>2. /\ limit \in Nat /\ Reserve \in Nat
        /\ HeaderSize \in Nat /\ FingerprintSize \in Nat
    BY LimitType
  <1>3. CASE over
    <2>1. /\ query' = <<>>
          /\ outputSize' = outputSize
                 + (written.size + (HeaderSize + FingerprintSize))
      BY <1>3 DEF EndRange, Write, Rest, \bullet
    <2> QED
      BY <1>1, <1>2, <2>1, SMT
  <1>4. CASE ~over
    <2>1. outputSize' = outputSize + (written.size + o.size)
      BY <1>4 DEF EndRange, Write, \bullet
    <2>2. outputSize' = outputSize + written.size + o.size
      BY <1>1, <2>1, SMT
    <2>3. ~exceededFrameSizeLimit(p, outputSize')
      BY <1>4, <2>2
    <2>4. outputSize' <= limit
      BY <1>1, <1>2, <2>2, <2>3, SMT DEF exceededFrameSizeLimit
    <2> QED
      BY <2>3, <2>4
  <1> QED
    BY <1>3, <1>4

(* Every branch of the loop meets that condition.  A list that was cut     *)
(* short has at most one ID more than the reduced limit allows.            *)
LEMMA ReconcileRangeFrame ==
    ASSUME FrameInv, NEW p \in Peer, ReconcileRange(p)
    PROVE  CallWithinFrameLimit'
  <1> SUFFICES ASSUME frameSizeLimit[p] # 0
               PROVE  /\ outputSize' <= frameSizeLimit[p]
                      /\ query' # <<>> =>
                            ~exceededFrameSizeLimit(p, outputSize')
    <2>1. active' = p /\ active = p /\ UNCHANGED frameSizeLimit
      BY DEF ReconcileRange, SkipStep, FingerprintMatches,
             FingerprintDiffers, IdListAtInitiator, IdListAtResponder,
             NextRange, storeVars
    <2> QED
      BY <2>1 DEF CallWithinFrameLimit, exceededFrameSizeLimit
  <1> DEFINE limit == frameSizeLimit[p]
  <1>1. PICK upper \in 0 .. Len(store[p]) :
           \/ SkipStep(p, upper)
           \/ /\ prevIndex <= upper
              /\ \/ FingerprintMatches(p, upper)
                 \/ FingerprintDiffers(p, upper)
                 \/ IdListAtInitiator(p, upper)
                 \/ IdListAtResponder(p, upper)
    BY BranchTaken DEF FrameInv
  <1>2. TypeOK /\ active = p /\ query # <<>>
    BY <1>1 DEF FrameInv, SkipStep, FingerprintMatches, FingerprintDiffers,
                IdListAtInitiator, IdListAtResponder, NextRange
  <1>3. /\ limit \in Nat /\ Reserve \in Nat /\ HeaderSize \in Nat
        /\ FingerprintSize \in Nat /\ IdSize \in Nat
        /\ Reserve >= IdSize + 3 * HeaderSize + FingerprintSize
        /\ limit >= Reserve
    <2>1. /\ limit >= Reserve + 1 + HeaderSize + LargestSplit
          /\ LargestSplit \in Nat
      BY <1>2, LimitType
    <2> QED
      BY <1>2, <2>1, LimitType, SMT
  <1>4. outputSize \in Nat /\ outputSize <= limit - Reserve
    <2>1. CallWithinFrameLimit /\ active # NoPeer
      BY <1>2, PeerAssumption DEF FrameInv
    <2>2. ~exceededFrameSizeLimit(p, outputSize)
      BY <1>2, <2>1 DEF CallWithinFrameLimit
    <2> QED
      BY <1>2, <1>3, <2>2, SMT DEF exceededFrameSizeLimit, TypeOK
  <1>5. Nothing.size = 0 /\ Nothing \in Output
    BY OutputType DEF Nothing
  <1>6. outputSize + Nothing.size + HeaderSize + FingerprintSize <= limit
    BY <1>3, <1>4, <1>5, SMT
  <1>7. CASE SkipStep(p, upper)
    BY <1>2, <1>5, <1>6, <1>7, EndRangeFrame DEF SkipStep
  <1>8. CASE FingerprintMatches(p, upper)
    BY <1>2, <1>5, <1>6, <1>8, EndRangeFrame DEF FingerprintMatches
  <1>9. CASE FingerprintDiffers(p, upper)
    <2>1. doSkip \bullet Split(p, upper) \in Output
      <3>1. prevIndex <= upper
        BY <1>1, <1>9 DEF SkipStep, FingerprintDiffers, NextRange
      <3> QED
        BY <1>2, <3>1, PiecesType, OutputType
    <2> QED
      BY <1>2, <1>5, <1>6, <1>9, <2>1, EndRangeFrame DEF FingerprintDiffers
  <1>10. CASE IdListAtInitiator(p, upper)
    BY <1>2, <1>5, <1>6, <1>10, EndRangeFrame DEF IdListAtInitiator
  <1>11. CASE IdListAtResponder(p, upper)
    <2>1. PICK end \in prevIndex .. upper :
             /\ Listed(p, upper - prevIndex, end - prevIndex)
             /\ EndRange(p, doSkip \bullet List(p, upper, end), Nothing, end)
      BY <1>11 DEF IdListAtResponder
    <2> DEFINE count == end - prevIndex
    <2>2. count \in Nat /\ prevIndex \in Nat /\ end \in Nat
      <3>1. prevIndex \in Nat /\ upper \in Nat
        BY <1>2, SMT DEF TypeOK
      <3> QED
        BY <3>1, SMT
    <2>3. outputSize + count * IdSize <= limit - Reserve + IdSize
      <3>1. CASE count = 0
        BY <1>3, <1>4, <3>1, SMT
      <3>2. CASE count # 0
        <4>1. count - 1 \in 0 .. count - 1
          BY <2>2, <3>2, SMT
        <4>2. ~exceededFrameSizeLimit(p, outputSize + (count - 1) * IdSize)
          BY <2>1, <4>1 DEF Listed
        <4>3. /\ (count - 1) * IdSize = count * IdSize - IdSize
              /\ count * IdSize \in Nat
          BY <1>3, <2>2, SMT
        <4> HIDE DEF count
        <4>4. outputSize + (count * IdSize - IdSize) <= limit - Reserve
          <5>1. ~(outputSize + (count * IdSize - IdSize) > limit - Reserve)
            BY <4>2, <4>3 DEF exceededFrameSizeLimit
          <5> QED
            BY <1>3, <1>4, <4>3, <5>1, SMT
        <4> QED
          BY <1>3, <1>4, <4>3, <4>4, SMT
      <3> QED
        BY <3>1, <3>2
    <2>4. doSkip.size \in 0 .. HeaderSize
      BY <1>3, SMT DEF doSkip, Nothing
    <2>5. List(p, upper, end).size = HeaderSize + count * IdSize
          /\ count * IdSize \in Nat
      BY <1>3, <2>2, SMT DEF List
    <2>6. (doSkip \bullet List(p, upper, end)).size = doSkip.size + List(p, upper, end).size
      BY DEF \bullet
    <2>7. outputSize + (doSkip \bullet List(p, upper, end)).size + HeaderSize
             + FingerprintSize <= limit
      <3> DEFINE idsSize == count * IdSize
                 size    == List(p, upper, end).size
      <3>1. idsSize \in Nat /\ size = HeaderSize + idsSize
        BY <2>5
      <3>2. outputSize + idsSize <= limit - Reserve + IdSize
        BY <2>3
      <3> HIDE DEF count, limit, idsSize, size
      <3>3. outputSize + (doSkip.size + size) + HeaderSize + FingerprintSize
               <= limit
        BY <1>3, <1>4, <2>4, <3>1, <3>2, SMT
      <3> QED
        BY <2>6, <3>3 DEF size
    <2>8. doSkip \bullet List(p, upper, end) \in Output
      BY <1>2, <2>1, PiecesType, OutputType
    <2> QED
      BY <1>2, <1>5, <2>1, <2>7, <2>8, EndRangeFrame
  <1> QED
    BY <1>1, <1>7, <1>8, <1>9, <1>10, <1>11

LEMMA ToSetFacts ==
    ASSUME NEW s \in Seq(Message)
    PROVE  /\ s # <<>> => ToSet(Tail(s)) \subseteq ToSet(s)
           /\ \A m \in Message : ToSet(Append(s, m)) \subseteq ToSet(s) \cup {m}
  BY SMT DEF ToSet

(* A message joins those on their way only if it is within the limit.      *)
LEMMA InboxFrame ==
    ASSUME FrameInv, UNCHANGED frameSizeLimit, NEW p \in Peer, NEW m,
           m.version = PROTOCOL_VERSION /\ frameSizeLimit[p] # 0 =>
               m.size <= frameSizeLimit[p],
           inbox' = [inbox EXCEPT ![other(p)] = Append(@, m)]
    PROVE  WithinFrameLimit'
  <1> SUFFICES ASSUME NEW q \in Peer, NEW n \in ToSet(inbox'[other(q)]),
                      frameSizeLimit[q] # 0, n.version = PROTOCOL_VERSION
               PROVE  n.size <= frameSizeLimit[q]
    BY DEF WithinFrameLimit
  <1>1. other(p) \in Peer /\ other(q) \in Peer
        /\ (other(p) = other(q) => p = q)
    BY PeerAssumption DEF other, Peer
  <1>2. inbox \in [Peer -> Seq(Message)]
    BY DEF FrameInv, TypeOK
  <1>3. CASE n \in ToSet(inbox[other(q)])
    BY <1>3 DEF FrameInv, WithinFrameLimit
  <1>4. CASE n \notin ToSet(inbox[other(q)])
    <2>1. other(q) = other(p)
      BY <1>1, <1>2, <1>4
    <2>2. inbox'[other(q)] = Append(inbox[other(q)], m)
      BY <1>1, <1>2, <2>1
    <2>3. n \in ToSet(inbox[other(q)]) \cup {m}
      BY <1>1, <1>2, <2>2, SMT DEF ToSet
    <2> QED
      BY <1>1, <1>4, <2>1, <2>3
  <1> QED
    BY <1>3, <1>4

(* One that is taken out changes nothing for the others. *)
LEMMA TakenFrame ==
    ASSUME FrameInv, UNCHANGED frameSizeLimit, NEW p \in Peer,
           inbox[p] # <<>>,
           inbox' = [inbox EXCEPT ![p] = Tail(@)]
    PROVE  WithinFrameLimit'
  <1> SUFFICES ASSUME NEW q \in Peer, NEW n \in ToSet(inbox'[other(q)])
               PROVE  n \in ToSet(inbox[other(q)])
    BY DEF FrameInv, WithinFrameLimit
  <1>1. other(q) \in Peer /\ inbox \in [Peer -> Seq(Message)]
    BY DEF other, Peer, FrameInv, TypeOK
  <1> QED
    BY <1>1, ToSetFacts

LEMMA FrameStep == FrameInv /\ [Next]_vars => FrameInv'
  <1> SUFFICES ASSUME FrameInv, [Next]_vars PROVE FrameInv'
    OBVIOUS
  <1>0. UNCHANGED frameSizeLimit
    BY LimitFixed
  <1> USE <1>0
  <1>1. TypeOK' /\ TypeOK
    BY StepType DEF FrameInv
  <1>2. Client \in Peer /\ Server \in Peer /\ NoPeer \notin Peer
        /\ other(Client) = Server /\ other(Server) = Client
    BY PeerAssumption DEF Peer, other
  <1>3. CASE UNCHANGED <<inbox, active, query, outputSize>>
    BY <1>1, <1>3 DEF FrameInv, WithinFrameLimit, CallWithinFrameLimit,
                      exceededFrameSizeLimit
  <1>4. ASSUME UNCHANGED <<active, query, outputSize>>
        PROVE  CallWithinFrameLimit'
    BY <1>4 DEF FrameInv, CallWithinFrameLimit, exceededFrameSizeLimit
  <1>5. ASSUME LeaveCall
        PROVE  CallWithinFrameLimit'
    BY <1>5, <1>2 DEF LeaveCall, DropLocals, CallWithinFrameLimit
  <1>6. ASSUME NEW p \in Peer, active = p, frameSizeLimit[p] # 0
        PROVE  outputSize <= frameSizeLimit[p]
    BY <1>2, <1>6 DEF FrameInv, CallWithinFrameLimit
  <1>7. CASE Initiate
    <2> DEFINE n == Len(store[Client])
    <2>1. PICK ranges : inbox' = [inbox EXCEPT ![Server] = Append(@,
             [version |-> PROTOCOL_VERSION, ranges |-> ranges,
              size |-> 1 + splitSize(n)])]
      BY <1>7 DEF Initiate, Send
    <2>2. n \in Nat
      BY <1>2, SMT DEF FrameInv, TypeOK
    <2>3. frameSizeLimit[Client] # 0 =>
             1 + splitSize(n) <= frameSizeLimit[Client]
      <3> HIDE DEF n
      <3>1. splitSize(n) \in HeaderSize .. LargestSplit
        BY <2>2, SplitSizeRange
      <3> QED
        BY <1>2, <3>1, <1>1, LimitType, SMT
    <2>4. WithinFrameLimit'
      <3> HIDE DEF n
      <3> QED
        BY <1>2, <2>1, <2>3, InboxFrame
    <2> QED
      BY <1>1, <1>4, <1>7, <2>4 DEF Initiate, FrameInv, callVars
  <1>8. CASE ProbeNewerVersion
    <2>1. WithinFrameLimit'
      <3> DEFINE m == [version |-> NEWER_VERSION, ranges |-> <<>>, size |-> 1]
      <3>1. m.version # PROTOCOL_VERSION
        BY SMT DEF NEWER_VERSION, PROTOCOL_VERSION
      <3>2. inbox' = [inbox EXCEPT ![other(Client)] = Append(@, m)]
        BY <1>2, <1>8 DEF ProbeNewerVersion
      <3> QED
        BY <1>2, <3>1, <3>2, InboxFrame
    <2> QED
      BY <1>1, <1>4, <1>8, <2>1 DEF ProbeNewerVersion, FrameInv, callVars
  <1>9. CASE Downgrade
    <2>1. WithinFrameLimit'
      BY <1>2, <1>9, TakenFrame DEF Downgrade
    <2> QED
      BY <1>1, <1>4, <1>9, <2>1 DEF Downgrade, FrameInv, callVars
  <1>10. CASE RefuseVersion
    <2>1. ASSUME NEW q \in Peer, NEW m \in ToSet(inbox'[other(q)]),
                 frameSizeLimit[q] # 0, m.version = PROTOCOL_VERSION
          PROVE  m.size <= frameSizeLimit[q]
      <3> DEFINE reply == [version |-> PROTOCOL_VERSION, ranges |-> <<>>,
                           size |-> 1]
      <3>1. /\ inbox \in [Peer -> Seq(Message)] /\ inbox[Server] # <<>>
            /\ inbox' = [inbox EXCEPT ![Server] = Tail(@),
                                      ![Client] = Append(@, reply)]
        BY <1>10 DEF RefuseVersion, FrameInv, TypeOK
      <3>2. \/ other(q) = Server /\ inbox'[other(q)] = Tail(inbox[other(q)])
            \/ /\ other(q) = Client
               /\ inbox'[other(q)] = Append(inbox[other(q)], reply)
        BY <1>2, <3>1, PeerAssumption DEF Peer
      <3>3. inbox[Server] \in Seq(Message) /\ inbox[Client] \in Seq(Message)
        BY <1>2, <3>1
      <3>4. m \in ToSet(inbox[other(q)]) \cup {reply}
        <4> HIDE DEF reply
        <4>1. reply \in Message
          <5>1. <<>> \in Seq(WireRange) /\ 1 \in Nat
            BY SMT
          <5> QED
            BY <5>1 DEF reply, Message
        <4> QED
          BY <2>1, <3>1, <3>2, <3>3, <4>1, ToSetFacts
      <3>5. CASE m = reply
        <4>1. 1 <= frameSizeLimit[q]
          BY <2>1, <1>1, LimitType, SMT
        <4> QED
          BY <3>5, <4>1
      <3> QED
        BY <2>1, <3>4, <3>5 DEF FrameInv, WithinFrameLimit
    <2>2. WithinFrameLimit'
      BY <2>1 DEF WithinFrameLimit
    <2> QED
      BY <1>1, <1>4, <1>10, <2>2 DEF RefuseVersion, FrameInv, callVars
  <1>11. ASSUME NEW p \in Peer, Receive(p)
         PROVE  FrameInv'
    <2>1. WithinFrameLimit'
      BY <1>11, TakenFrame DEF Receive
    <2>2. active' = p /\ outputSize' = 1
      BY <1>11 DEF Receive
    <2>3. frameSizeLimit[p] # 0 => /\ 1 <= frameSizeLimit[p]
                                   /\ ~(1 > frameSizeLimit[p] - Reserve)
      BY <1>1, LimitType, SMT
    <2>4. CallWithinFrameLimit'
      BY <2>2, <2>3 DEF CallWithinFrameLimit, exceededFrameSizeLimit
    <2> QED
      BY <1>1, <2>1, <2>4 DEF FrameInv
  <1>12. ASSUME NEW p \in Peer, ReconcileRange(p)
         PROVE  FrameInv'
    <2>1. CallWithinFrameLimit'
      BY <1>12, ReconcileRangeFrame
    <2>2. inbox' = inbox
      BY <1>12 DEF ReconcileRange, SkipStep, FingerprintMatches,
             FingerprintDiffers, IdListAtInitiator, IdListAtResponder,
             NextRange
    <2> QED
      BY <1>1, <2>1, <2>2 DEF FrameInv, WithinFrameLimit
  <1>13. CASE ReturnAtResponder
    <2>1. WithinFrameLimit'
      BY <1>2, <1>6, <1>13, InboxFrame DEF ReturnAtResponder, Send
    <2> QED
      BY <1>1, <1>5, <1>13, <2>1 DEF ReturnAtResponder, FrameInv
  <1>14. CASE Continue
    <2>1. WithinFrameLimit'
      BY <1>2, <1>6, <1>14, InboxFrame DEF Continue, ReturnAtInitiator, Send
    <2> QED
      BY <1>1, <1>5, <1>14, <2>1 DEF Continue, ReturnAtInitiator, FrameInv
  <1>15. CASE Finish
    <2>1. WithinFrameLimit'
      BY <1>15 DEF Finish, FrameInv, WithinFrameLimit
    <2> QED
      BY <1>1, <1>5, <1>15, <2>1 DEF Finish, ReturnAtInitiator, FrameInv
  <1>16. CASE \E p \in Peer : Insert(p) \/ Erase(p) \/ Recreate(p)
    BY <1>3, <1>16 DEF Insert, Erase, EditStore, Recreate, callVars
  <1>17. CASE UNCHANGED vars
    BY <1>3, <1>17 DEF vars, callVars
  <1>18. ASSUME NEW p \in Peer, Throw(p)
         PROVE  FrameInv'
    <2>1. CallWithinFrameLimit'
      BY <1>2, <1>18 DEF Throw, DropLocals, CallWithinFrameLimit
    <2>2. inbox' = inbox
      BY <1>18 DEF Throw
    <2> QED
      BY <1>1, <2>1, <2>2 DEF FrameInv, WithinFrameLimit
  <1>19. CASE Timeout
    <2>1. CASE inbox' = inbox
      BY <1>3, <1>19, <2>1 DEF Timeout, callVars
    <2>2. CASE inbox' = [p \in Peer |-> <<>>]
      <3>1. \A p \in Peer : inbox'[other(p)] = <<>>
        BY <2>2 DEF other, Peer
      <3>2. ToSet(<<>>) = {}
        BY SMT DEF ToSet
      <3>3. WithinFrameLimit'
        BY <3>1, <3>2 DEF WithinFrameLimit
      <3> QED
        BY <1>1, <1>4, <1>19, <3>3 DEF Timeout, FrameInv, callVars
    <2> QED
      BY <1>19, <2>1, <2>2 DEF Timeout
  <1>20. CASE Retry
    BY <1>3, <1>20 DEF Retry, callVars
  <1> QED
    BY <1>7, <1>8, <1>9, <1>10, <1>11, <1>12, <1>13, <1>14, <1>15, <1>16,
       <1>17, <1>18, <1>19, <1>20
    DEF Next, Protocol, Terminated, StorageFails, BadRange

(* README, "Frame Size Limits": every message a peer creates is at most    *)
(* its frame size limit long - the first one, which initiate() builds      *)
(* without testing the limit, and those a list or a dropped split ends.    *)
THEOREM FrameLimit == Spec => []WithinFrameLimit
  <1>1. Init => FrameInv
    <2> SUFFICES ASSUME Init PROVE FrameInv
      OBVIOUS
    <2>1. TypeOK
      BY InitType
    <2>2. CallWithinFrameLimit
      BY PeerAssumption DEF Init, CallWithinFrameLimit
    <2>3. WithinFrameLimit
      <3>1. \A p \in Peer : inbox[other(p)] = <<>>
        BY DEF Init, other, Peer
      <3>2. ToSet(<<>>) = {}
        BY SMT DEF ToSet
      <3> QED
        BY <3>1, <3>2 DEF WithinFrameLimit
    <2> QED
      BY <2>1, <2>2, <2>3 DEF FrameInv
  <1>2. FrameInv => WithinFrameLimit
    BY DEF FrameInv
  <1> QED
    BY <1>1, <1>2, FrameStep, PTL DEF Spec

-----------------------------------------------------------------------------
(* The order of items and bounds.                                          *)

(* It is total, and items are bounds left of infinity.                     *)
LEMMA Order ==
    /\ \A a \in Bound : ~(a \prec a)
    /\ \A a, b \in Bound : a \prec b \/ a = b \/ b \prec a
    /\ \A a, b, c \in Bound : a \prec b /\ b \prec c => a \prec c
  BY WidthAssumption, SMT DEF Bound, Timestamp, Id, \prec

LEMMA Ends ==
    /\ Universe \subseteq Bound
    /\ ZeroBound \in Bound /\ Infinity \in Bound
    /\ ZeroBound \prec Infinity
    /\ \A b \in Bound : ~(b \prec ZeroBound)
    /\ \A it \in Universe : it \prec Infinity
  <1>1. Item \subseteq Bound
    BY WidthAssumption, SMT DEF Item, Bound, Timestamp
  <1>2. /\ ZeroBound \in Bound /\ Infinity \in Bound
        /\ ZeroBound \prec Infinity
        /\ \A b \in Bound : ~(b \prec ZeroBound)
    BY WidthAssumption, SMT
    DEF Bound, Timestamp, Id, ZeroBound, Infinity, \prec
  <1>3. \A it \in Item : it \prec Infinity
    BY WidthAssumption, SMT DEF Item, Infinity, \prec
  <1> QED
    BY <1>1, <1>2, <1>3, DataAssumption

(* A timestamp survives the delta encoding, the wrap around and the        *)
(* saturation, if it is not less than the one encoded before it or is that *)
(* of infinity.                                                            *)
LEMMA Codec ==
    ASSUME NEW t \in Timestamp, NEW last \in Timestamp,
           t >= last \/ t = MAX_U64
    PROVE  decodeTimestampIn(encodeTimestampOut(t, last), last) = t
  <1>1. MAX_U64 \in Nat \ {0} /\ t \in 0 .. MAX_U64 /\ last \in 0 .. MAX_U64
    BY WidthAssumption DEF Timestamp
  <1>2. \A n \in 0 .. MAX_U64 : Wrap(n) = n
    BY <1>1, SMT DEF Wrap
  <1>3. CASE t = MAX_U64
    <2>1. encodeTimestampOut(t, last) = 0
      BY <1>3 DEF encodeTimestampOut
    <2>2. CASE last = 0
      <3>1. Wrap(MAX_U64 + last) = MAX_U64
        BY <1>1, <1>2, <2>2, SMT
      <3> QED
        BY <1>3, <2>1, <3>1, Zenon DEF decodeTimestampIn
    <2>3. CASE last # 0
      <3>1. Wrap(MAX_U64 + last) = last - 1
        <4>1. MAX_U64 + last = (MAX_U64 + 1) + (last - 1)
          BY <1>1, SMT
        <4>2. last - 1 \in 0 .. MAX_U64
          BY <1>1, <2>3, SMT
        <4> QED
          BY <1>1, <4>1, <4>2, SMT DEF Wrap
      <3>2. Wrap(MAX_U64 + last) < last
        BY <1>1, <3>1, SMT
      <3> QED
        BY <1>3, <2>1, <3>2, Zenon DEF decodeTimestampIn
    <2> QED
      BY <2>2, <2>3
  <1>4. CASE t # MAX_U64
    <2>1. t - last \in 0 .. MAX_U64 /\ (t - last) + 1 \in 0 .. MAX_U64
      BY <1>1, <1>4, SMT
    <2>2. encodeTimestampOut(t, last) = (t - last) + 1
      BY <1>2, <1>4, <2>1, Zenon DEF encodeTimestampOut
    <2>3. (t - last) + 1 # 0 /\ ((t - last) + 1) - 1 + last = t
          /\ ~(t < last)
      BY <1>1, <1>4, SMT
    <2>4. Wrap(t) = t
      BY <1>1, <1>2
    <2> QED
      BY <2>2, <2>3, <2>4, Zenon DEF decodeTimestampIn
  <1> QED
    BY <1>3, <1>4

-----------------------------------------------------------------------------
(* The place of a bound in a storage.                                      *)

(* i items are left of the bound. *)
Place(s, bound, i) ==
    /\ i \in 0 .. Len(s)
    /\ \A j \in 1 .. i : s[j] \prec bound
    /\ \A j \in (i + 1) .. Len(s) : ~(s[j] \prec bound)

(* findLowerBound finds the place of a bound, searching from the place of  *)
(* an earlier one.                                                         *)
LEMMA LowerBoundPlace ==
    ASSUME NEW s \in Seq(Universe), NEW a \in Bound, NEW b \in Bound,
           NEW i, NEW j, Place(s, a, i), a \prec b \/ a = b,
           findLowerBound(s, i, b, j)
    PROVE  Place(s, b, j) /\ i <= j
  <1>1. i \in 0 .. Len(s) /\ j \in i .. Len(s) /\ Len(s) \in Nat
    BY SMT DEF Place, findLowerBound
  <1>2. ASSUME NEW k \in 1 .. j
        PROVE  s[k] \prec b
    <2>1. CASE k <= i
      <3>1. k \in 1 .. i /\ s[k] \in Universe
        BY <1>1, <2>1, SMT
      <3>2. s[k] \prec a
        BY <3>1 DEF Place
      <3> QED
        BY <3>1, <3>2, Order, Ends
    <2>2. CASE k > i
      <3>1. k \in (i + 1) .. j
        BY <1>1, <2>2, SMT
      <3> QED
        BY <3>1 DEF findLowerBound
    <2> QED
      BY <1>1, <2>1, <2>2, SMT
  <1>3. j \in 0 .. Len(s) /\ i <= j
    BY <1>1, SMT
  <1> QED
    BY <1>2, <1>3 DEF Place, findLowerBound

(* Bounds of different places are ordered as their places.                 *)
LEMMA PlacesOrdered ==
    ASSUME NEW s \in Seq(Universe), NEW a \in Bound, NEW b \in Bound,
           NEW i, NEW j, Place(s, a, i), Place(s, b, j), i < j
    PROVE  a \prec b
  <1>1. i + 1 \in 1 .. j /\ i + 1 \in (i + 1) .. Len(s)
    BY SMT DEF Place
  <1>2. s[i + 1] \in Universe
    BY SMT DEF Place
  <1>3. s[i + 1] \prec b /\ ~(s[i + 1] \prec a)
    BY <1>1 DEF Place
  <1> QED
    BY <1>2, <1>3, Order, Ends

(* The places of the two ends, of an item, and of the minimal bound        *)
(* between two neighbours.                                                 *)
LEMMA Places ==
    ASSUME NEW s \in Seq(Universe), Sorted(s)
    PROVE  /\ Place(s, ZeroBound, 0)
           /\ Place(s, Infinity, Len(s))
           /\ \A i \in 0 .. Len(s) - 1 : Place(s, s[i + 1], i)
           /\ \A i \in 1 .. Len(s) - 1 :
                 /\ getMinimalBound(s[i], s[i + 1]) \in Bound
                 /\ Place(s, getMinimalBound(s[i], s[i + 1]), i)
  <1>1. /\ Len(s) \in Nat
        /\ \A i \in 1 .. Len(s) : s[i] \in Universe /\ s[i] \in Bound
        /\ \A i, j \in 1 .. Len(s) : i < j => s[i] \prec s[j]
    <2>1. /\ Len(s) \in Nat
          /\ \A i \in 1 .. Len(s) : s[i] \in Universe
          /\ \A i, j \in 1 .. Len(s) : i < j => s[i] \prec s[j]
      BY SMT DEF Sorted
    <2> QED
      BY <2>1, Ends
  <1>2. Place(s, ZeroBound, 0)
    BY <1>1, Ends, SMT DEF Place
  <1>3. Place(s, Infinity, Len(s))
    BY <1>1, Ends, SMT DEF Place
  <1>4. ASSUME NEW i \in 0 .. Len(s) - 1
        PROVE  Place(s, s[i + 1], i)
    <2>1. i \in 0 .. Len(s) /\ i + 1 \in 1 .. Len(s)
      BY <1>1, SMT
    <2>2. ASSUME NEW j \in 1 .. i
          PROVE  s[j] \prec s[i + 1]
      BY <1>1, <2>1, SMT
    <2>3. ASSUME NEW j \in (i + 1) .. Len(s)
          PROVE  ~(s[j] \prec s[i + 1])
      <3>1. j \in 1 .. Len(s) /\ (j = i + 1 \/ i + 1 < j)
        BY <1>1, <2>1, SMT
      <3>2. s[j] = s[i + 1] \/ s[i + 1] \prec s[j]
        BY <1>1, <2>1, <3>1
      <3> QED
        BY <1>1, <2>1, <3>1, <3>2, Order
    <2> QED
      BY <2>1, <2>2, <2>3 DEF Place
  <1>5. ASSUME NEW i \in 1 .. Len(s) - 1
        PROVE  /\ getMinimalBound(s[i], s[i + 1]) \in Bound
               /\ Place(s, getMinimalBound(s[i], s[i + 1]), i)
    <2> DEFINE b == getMinimalBound(s[i], s[i + 1])
    <2>1. i \in 0 .. Len(s) - 1 /\ i \in 0 .. Len(s)
          /\ i \in 1 .. Len(s) /\ i + 1 \in 1 .. Len(s) /\ i < i + 1
      BY <1>1, SMT
    <2>2. /\ s[i] \in Item /\ s[i + 1] \in Item /\ s[i] \prec s[i + 1]
      BY <1>1, <2>1, DataAssumption
    <2>3. b \in Bound
      BY <2>2, MinimalBoundType
    <2>4. s[i] \prec b /\ ~(s[i + 1] \prec b)
      BY <2>2, PrefixAssumption, WidthAssumption, SMT
      DEF getMinimalBound, Item, Id, \prec
    <2> HIDE DEF b
    <2>5. ASSUME NEW j \in 1 .. i
          PROVE  s[j] \prec b
      <3>1. j \in 1 .. Len(s) /\ (j = i \/ j < i)
        BY <2>1, SMT
      <3>2. s[j] = s[i] \/ s[j] \prec s[i]
        BY <1>1, <2>1, <3>1
      <3> QED
        BY <1>1, <2>1, <2>3, <2>4, <3>1, <3>2, Order
    <2>6. ASSUME NEW j \in (i + 1) .. Len(s)
          PROVE  ~(s[j] \prec b)
      <3>1. j \in 1 .. Len(s) /\ (j = i + 1 \/ i + 1 < j)
        BY <1>1, <2>1, SMT
      <3>2. s[j] = s[i + 1] \/ s[i + 1] \prec s[j]
        BY <1>1, <2>1, <3>1
      <3> QED
        BY <1>1, <2>1, <2>3, <2>4, <3>1, <3>2, Order
    <2> QED
      BY <2>1, <2>3, <2>5, <2>6 DEF Place, b
  <1> QED
    BY <1>2, <1>3, <1>4, <1>5

-----------------------------------------------------------------------------
(* The IDs between two bounds.                                             *)

IdsOfBetween(s, lower, upper) ==
    {item.id : item \in {it \in ToSet(s) : lower \preceq it /\ it \prec upper}}

(* They are those of the indices between the places of the bounds: what a  *)
(* range is about for a peer is what the range's indices pick.             *)
LEMMA PlacedIds ==
    ASSUME NEW s \in Seq(Universe), NEW a \in Bound, NEW b \in Bound,
           NEW i, NEW j, Place(s, a, i), Place(s, b, j)
    PROVE  IdsIn(s, i, j) = IdsOfBetween(s, a, b)
  <1>1. /\ i \in 0 .. Len(s) /\ j \in 0 .. Len(s) /\ Len(s) \in Nat
        /\ \A k \in 1 .. Len(s) : s[k] \in Universe
        /\ ToSet(s) = {s[k] : k \in 1 .. Len(s)}
    BY SMT DEF Place, ToSet
  <1>2. ASSUME NEW k \in (i + 1) .. j
        PROVE  /\ s[k] \in ToSet(s)
               /\ a \preceq s[k] /\ s[k] \prec b
    <2>1. k \in 1 .. Len(s) /\ k \in 1 .. j /\ k \in (i + 1) .. Len(s)
      BY <1>1, SMT
    <2>2. s[k] \prec b /\ ~(s[k] \prec a) /\ s[k] \in Bound
      BY <1>1, <2>1, Ends DEF Place
    <2>3. a \preceq s[k]
      BY <2>2, Order DEF \preceq
    <2> QED
      BY <1>1, <2>1, <2>2, <2>3
  <1>3. ASSUME NEW it \in ToSet(s), a \preceq it, it \prec b
        PROVE  \E k \in (i + 1) .. j : s[k] = it
    <2>1. PICK k \in 1 .. Len(s) : s[k] = it
      BY <1>1
    <2>2. it \in Bound
      BY <1>1, <2>1, Ends
    <2>3. ~(k \in 1 .. i)
      <3>1. ~(it \prec a)
        BY <1>3, <2>2, Order DEF \preceq
      <3> QED
        BY <2>1, <3>1 DEF Place
    <2>4. ~(k \in (j + 1) .. Len(s))
      BY <1>3, <2>1 DEF Place
    <2>5. k \in (i + 1) .. j
      BY <1>1, <2>1, <2>3, <2>4, SMT
    <2> QED
      BY <2>1, <2>5
  <1>4. IdsIn(s, i, j) \subseteq IdsOfBetween(s, a, b)
    BY <1>2, Zenon DEF IdsIn, IdsOfBetween
  <1>5. IdsOfBetween(s, a, b) \subseteq IdsIn(s, i, j)
    BY <1>3, Zenon DEF IdsIn, IdsOfBetween
  <1> QED
    BY <1>4, <1>5

-----------------------------------------------------------------------------
(* Sequences of ranges, before their bounds are encoded.                   *)

(* The lower bound of a range is the upper bound of the one before it.     *)
lowerOf(ranges, from, i) == IF i = 1 THEN from ELSE ranges[i - 1].upper

lastOf(ranges, from) ==
    IF ranges = <<>> THEN from ELSE ranges[Len(ranges)].upper

(* The same of a sequence that goes on.                                    *)
Joins(c, a, b, from) ==
    /\ c \in Seq(PlainRange)
    /\ Len(a) \in Nat /\ Len(b) \in Nat /\ Len(c) = Len(a) + Len(b)
    /\ \A n \in 1 .. Len(a) :
          /\ c[n] = a[n]
          /\ lowerOf(c, from, n) = lowerOf(a, from, n)
    /\ \A n \in 1 .. Len(b) :
          /\ c[Len(a) + n] = b[n]
          /\ lowerOf(c, from, Len(a) + n) = lowerOf(b, lastOf(a, from), n)
    /\ lastOf(c, from) = lastOf(b, lastOf(a, from))

LEMMA Joined ==
    ASSUME NEW a \in Seq(PlainRange), NEW b \in Seq(PlainRange), NEW from
    PROVE  Joins(a \o b, a, b, from)
  <1>1. /\ a \o b \in Seq(PlainRange)
        /\ Len(a \o b) = Len(a) + Len(b)
        /\ \A i \in 1 .. Len(a) + Len(b) :
              (a \o b)[i] = IF i <= Len(a) THEN a[i] ELSE b[i - Len(a)]
    BY ConcatProperties, Zenon
  <1>2. /\ Len(a) \in Nat /\ Len(b) \in Nat
        /\ (a = <<>> <=> Len(a) = 0) /\ (b = <<>> <=> Len(b) = 0)
    BY SMT
  <1> DEFINE la == Len(a)
             lb == Len(b)
             c  == a \o b
  <1>3. /\ la \in Nat /\ lb \in Nat
        /\ (a = <<>> <=> la = 0) /\ (b = <<>> <=> lb = 0)
        /\ c \in Seq(PlainRange) /\ Len(c) = la + lb
        /\ \A i \in 1 .. la + lb : c[i] = IF i <= la THEN a[i] ELSE b[i - la]
    BY <1>1, <1>2
  <1>4. c = <<>> <=> Len(c) = 0
    BY <1>3, SMT
  <1> HIDE DEF c
  <1>5. ASSUME NEW n \in 1 .. la
        PROVE  c[n] = a[n] /\ lowerOf(c, from, n) = lowerOf(a, from, n)
    <2> HIDE DEF la, lb
    <2>1. c[n] = a[n]
      BY <1>3, SMT
    <2>2. n # 1 => c[n - 1] = a[n - 1]
      BY <1>3, SMT
    <2> QED
      BY <2>1, <2>2 DEF lowerOf
  <1>6. ASSUME NEW n \in 1 .. lb
        PROVE  /\ c[la + n] = b[n]
               /\ lowerOf(c, from, la + n) = lowerOf(b, lastOf(a, from), n)
    <2>0. a # <<>> => lastOf(a, from) = a[la].upper
      BY DEF lastOf
    <2> HIDE DEF la, lb
    <2>1. c[la + n] = b[n]
      <3>1. la + n \in 1 .. la + lb /\ ~(la + n <= la) /\ (la + n) - la = n
        BY <1>3, SMT
      <3> QED
        BY <1>3, <3>1
    <2>2. CASE n = 1
      <3>1. CASE la = 0
        <4>1. la + n = 1
          BY <2>2, <3>1, SMT
        <4> QED
          BY <1>3, <2>2, <3>1, <4>1 DEF lowerOf, lastOf
      <3>2. CASE la # 0
        <4>1. la + n # 1 /\ (la + n) - 1 = la /\ c[la] = a[la]
          BY <1>3, <2>2, <3>2, SMT
        <4> QED
          BY <1>3, <2>0, <2>2, <3>2, <4>1 DEF lowerOf
      <3> QED
        BY <3>1, <3>2
    <2>3. CASE n # 1
      <3>1. /\ la + n # 1 /\ (la + n) - 1 \in 1 .. la + lb
            /\ ~((la + n) - 1 <= la) /\ ((la + n) - 1) - la = n - 1
        BY <1>3, <2>3, SMT
      <3>2. c[(la + n) - 1] = b[n - 1]
        BY <1>3, <3>1
      <3> QED
        BY <2>1, <2>3, <3>1, <3>2 DEF lowerOf
    <2> QED
      BY <2>1, <2>2, <2>3
  <1>7. lastOf(c, from) = lastOf(b, lastOf(a, from))
    <2>1. /\ c # <<>> => lastOf(c, from) = c[la + lb].upper
          /\ b # <<>> => lastOf(b, lastOf(a, from)) = b[lb].upper
          /\ b = <<>> => lastOf(b, lastOf(a, from)) = lastOf(a, from)
          /\ a # <<>> => lastOf(a, from) = a[la].upper
      BY <1>3 DEF lastOf
    <2> HIDE DEF la, lb
    <2>2. CASE lb = 0
      <3>1. la + lb = la
        BY <1>3, <2>2, SMT
      <3>2. CASE la = 0
        BY <1>3, <1>4, <2>2, <3>1, <3>2 DEF lastOf
      <3>3. CASE la # 0
        <4>1. la \in 1 .. la /\ la \in 1 .. la + lb
          BY <1>3, <2>2, <3>3, SMT
        <4>2. c[la] = a[la]
          BY <1>5, <4>1
        <4> QED
          BY <1>3, <1>4, <2>1, <2>2, <3>1, <3>3, <4>2
      <3> QED
        BY <3>2, <3>3
    <2>3. CASE lb # 0
      <3>1. lb \in 1 .. lb /\ la + lb # 0
        BY <1>3, <2>3, SMT
      <3>2. c[la + lb] = b[lb]
        BY <1>6, <3>1
      <3> QED
        BY <1>3, <1>4, <2>1, <2>3, <3>1, <3>2
    <2> QED
      BY <2>2, <2>3
  <1> QED
    BY <1>1, <1>2, <1>5, <1>6, <1>7 DEF c, Joins

(* The same of a sequence without its first range.                         *)
Rests(b, a, from) ==
    /\ b \in Seq(PlainRange)
    /\ Len(a) \in Nat /\ 1 \in 1 .. Len(a) /\ Len(b) = Len(a) - 1
    /\ a[1] \in PlainRange /\ lowerOf(a, from, 1) = from
    /\ \A n \in 1 .. Len(b) :
          /\ n + 1 \in 1 .. Len(a)
          /\ b[n] = a[n + 1]
          /\ lowerOf(b, a[1].upper, n) = lowerOf(a, from, n + 1)

LEMMA Rested ==
    ASSUME NEW a \in Seq(PlainRange), a # <<>>, NEW from
    PROVE  Rests(Tail(a), a, from)
  <1>1. /\ Tail(a) \in Seq(PlainRange)
        /\ Len(a) \in Nat /\ Len(a) >= 1 /\ Len(Tail(a)) = Len(a) - 1
        /\ a[1] \in PlainRange
        /\ \A n \in 1 .. Len(Tail(a)) : Tail(a)[n] = a[n + 1]
    BY SMT
  <1> DEFINE b == Tail(a)
  <1> HIDE DEF b
  <1>2. ASSUME NEW n \in 1 .. Len(b), b = Tail(a)
        PROVE  /\ n + 1 \in 1 .. Len(a)
               /\ lowerOf(b, a[1].upper, n) = lowerOf(a, from, n + 1)
    <2>1. /\ n + 1 \in 1 .. Len(a) /\ n + 1 # 1 /\ (n + 1) - 1 = n
          /\ n # 1 => n - 1 \in 1 .. Len(b) /\ (n - 1) + 1 = n
      BY <1>1, <1>2, SMT
    <2>2. n # 1 => b[n - 1] = a[n]
      BY <1>1, <1>2, <2>1
    <2>3. CASE n = 1
      BY <2>1, <2>3 DEF lowerOf
    <2>4. CASE n # 1
      BY <2>1, <2>2, <2>4 DEF lowerOf
    <2> QED
      BY <2>1, <2>3, <2>4
  <1>3. 1 \in 1 .. Len(a) /\ lowerOf(a, from, 1) = from
    BY <1>1, SMT DEF lowerOf
  <1> QED
    BY <1>1, <1>2, <1>3 DEF b, Rests

(* Every range is of some width, and holds the IDs its peer has there.     *)
Exact(s, from, ranges) ==
    \A n \in 1 .. Len(ranges) :
        /\ lowerOf(ranges, from, n) \prec ranges[n].upper
        /\ ranges[n].upper \preceq Infinity
        /\ ranges[n].mode \in {"fingerprint", "idlist"}
        /\ ranges[n].ids =
               IdsOfBetween(s, lowerOf(ranges, from, n), ranges[n].upper)

(* The cuts of splitRange ascend from the lower to the upper index.        *)
LEMMA CutsAscend ==
    ASSUME NEW lower \in Nat, NEW upper \in Nat,
           upper - lower >= 2 * Buckets
    PROVE  /\ curr(lower, upper, 0) = lower
           /\ curr(lower, upper, Buckets) = upper
           /\ \A i \in 1 .. Buckets :
                 curr(lower, upper, i - 1) < curr(lower, upper, i)
  <1> DEFINE width == upper - lower
             q == width \div Buckets
             r == width % Buckets
  <1>1. Buckets \in Nat \ {0} /\ width \in Nat
    BY SizeAssumption, SMT
  <1>2. q \in Nat /\ r \in 0 .. Buckets - 1 /\ width = Buckets * q + r
    BY <1>1, Division
  <1>3. q >= 1
    BY <1>1, <1>2, SMT
  <1>4. \A i \in Nat :
           curr(lower, upper, i) = lower + i * q + (IF i < r THEN i ELSE r)
    BY DEF curr
  <1>5. width = upper - lower
    OBVIOUS
  <1> HIDE DEF width, q, r
  <1>6. curr(lower, upper, 0) = lower
    BY <1>2, <1>4, SMT
  <1>7. curr(lower, upper, Buckets) = upper
    <2>1. curr(lower, upper, Buckets) = lower + Buckets * q + r
      <3>1. curr(lower, upper, Buckets)
               = lower + Buckets * q + (IF Buckets < r THEN Buckets ELSE r)
        BY <1>1, <1>4
      <3>2. (IF Buckets < r THEN Buckets ELSE r) = r
        BY <1>1, <1>2, SMT
      <3> QED
        BY <3>1, <3>2
    <2>2. Buckets * q \in Nat
      BY <1>1, <1>2, SMT
    <2> QED
      BY <1>1, <1>2, <1>5, <2>1, <2>2, SMT
  <1>8. ASSUME NEW i \in 1 .. Buckets
        PROVE  curr(lower, upper, i - 1) < curr(lower, upper, i)
    <2>1. i \in Nat /\ i - 1 \in Nat
      BY <1>1, SMT
    <2>2. /\ curr(lower, upper, i)
                = lower + i * q + (IF i < r THEN i ELSE r)
          /\ curr(lower, upper, i - 1)
                = lower + (i - 1) * q + (IF i - 1 < r THEN i - 1 ELSE r)
      BY <1>4, <2>1
    <2>3. (i - 1) * q = i * q - q /\ i * q \in Nat
      BY <1>2, <2>1, SMT
    <2> DEFINE product == i * q
    <2> HIDE DEF product
    <2>4. /\ curr(lower, upper, i)
                = lower + product + (IF i < r THEN i ELSE r)
          /\ curr(lower, upper, i - 1)
                = lower + (product - q) + (IF i - 1 < r THEN i - 1 ELSE r)
          /\ product \in Nat
      BY <2>2, <2>3 DEF product
    <2> QED
      BY <1>2, <1>3, <2>1, <2>4, SMT
  <1> QED
    BY <1>6, <1>7, <1>8

(* splitRange covers the range it splits, cut for cut.                     *)
LEMMA SplitExact ==
    ASSUME NEW s \in Seq(Universe), Sorted(s),
           NEW a \in Bound, NEW b \in Bound, a \prec b, b \preceq Infinity,
           NEW lower, NEW upper, lower <= upper,
           Place(s, a, lower), Place(s, b, upper)
    PROVE  /\ splitRange(s, lower, upper, b) \in Seq(PlainRange)
           /\ splitRange(s, lower, upper, b) # <<>>
           /\ lastOf(splitRange(s, lower, upper, b), a) = b
           /\ Exact(s, a, splitRange(s, lower, upper, b))
  <1> DEFINE ranges == splitRange(s, lower, upper, b)
  <1>1. /\ Len(s) \in Nat /\ lower \in Nat /\ upper \in lower .. Len(s)
        /\ upper \in Nat /\ Buckets \in Nat /\ Buckets >= 2
    BY SizeAssumption, SMT DEF Place
  <1>2. ranges \in Seq(PlainRange)
    BY <1>1, SplitType
  <1>3. CASE upper - lower < 2 * Buckets
    <2> DEFINE list == IdListRange(b, IdsIn(s, lower, upper))
    <2>1. ranges = <<list>>
      BY <1>3 DEF splitRange
    <2>2. /\ list.upper = b /\ list.mode = "idlist"
          /\ list.ids = IdsOfBetween(s, a, b)
      BY PlacedIds DEF IdListRange
    <2> HIDE DEF list, ranges
    <2>3. Len(ranges) = 1 /\ ranges[1] = list /\ ranges # <<>>
      BY <2>1, SMT
    <2>4. lastOf(ranges, a) = b
      BY <2>2, <2>3 DEF lastOf
    <2>5. ASSUME NEW n \in 1 .. Len(ranges)
          PROVE  n = 1
      BY <2>3, SMT
    <2>6. Exact(s, a, ranges)
      BY <2>2, <2>3, <2>5 DEF Exact, lowerOf
    <2> QED
      BY <1>2, <2>3, <2>4, <2>6 DEF ranges
  <1>4. CASE ~(upper - lower < 2 * Buckets)
    <2> DEFINE cut(i)   == curr(lower, upper, i)
               bound(i) == IF cut(i) = upper THEN b
                           ELSE getMinimalBound(s[cut(i)], s[cut(i) + 1])
    <2>1. upper - lower >= 2 * Buckets
      BY <1>1, <1>4, SMT
    <2>2. /\ cut(0) = lower /\ cut(Buckets) = upper
          /\ \A i \in 1 .. Buckets : cut(i - 1) < cut(i)
      BY <1>1, <2>1, CutsAscend
    <2>3. \A i \in 0 .. Buckets :
             /\ cut(i) \in lower .. upper
             /\ i > 0 => cut(i) > lower
             /\ i < Buckets => cut(i) < upper
      BY <1>1, <2>1, CutsInRange
    <2>4. ranges = [i \in 1 .. Buckets |->
                       FingerprintRange(bound(i),
                           FingerprintOf(s, cut(i - 1), cut(i)))]
      BY <1>4 DEF splitRange
    <2> HIDE DEF cut
    <2>5. /\ Len(ranges) = Buckets
          /\ \A i \in 1 .. Buckets :
                /\ ranges[i].upper = bound(i)
                /\ ranges[i].mode = "fingerprint"
                /\ ranges[i].ids = IdsIn(s, cut(i - 1), cut(i))
      <3>1. Len(ranges) = Buckets
        BY <1>1, <2>4, SMT
      <3>2. ASSUME NEW i \in 1 .. Buckets
            PROVE  ranges[i] = FingerprintRange(bound(i),
                                   FingerprintOf(s, cut(i - 1), cut(i)))
        BY <2>4
      <3> HIDE DEF ranges, bound
      <3> QED
        BY <3>1, <3>2 DEF FingerprintRange, FingerprintOf
    <2>6. ASSUME NEW i \in 1 .. Buckets
          PROVE  bound(i) \in Bound /\ Place(s, bound(i), cut(i))
      <3>1. CASE cut(i) = upper
        BY <3>1
      <3>2. CASE cut(i) # upper
        <4>1. cut(i) \in 1 .. Len(s) - 1
          <5>1. i \in 0 .. Buckets /\ i > 0
            BY <1>1, SMT
          <5> QED
            BY <1>1, <2>3, <3>2, <5>1, SMT
        <4> QED
          BY <3>2, <4>1, Places
      <3> QED
        BY <3>1, <3>2
    <2> HIDE DEF bound, ranges
    <2>7. ASSUME NEW i \in 1 .. Buckets
          PROVE  /\ lowerOf(ranges, a, i) \in Bound
                 /\ Place(s, lowerOf(ranges, a, i), cut(i - 1))
      <3>1. CASE i = 1
        BY <2>2, <3>1, SMT DEF lowerOf
      <3>2. CASE i # 1
        <4>1. i - 1 \in 1 .. Buckets
          BY <1>1, <3>2, SMT
        <4> QED
          BY <2>5, <2>6, <3>2, <4>1 DEF lowerOf
      <3> QED
        BY <3>1, <3>2
    <2>8. ASSUME NEW i \in 1 .. Buckets
          PROVE  lowerOf(ranges, a, i) \prec ranges[i].upper
      BY <2>2, <2>5, <2>6, <2>7, PlacesOrdered
    <2>9. ASSUME NEW i \in 1 .. Buckets
          PROVE  ranges[i].ids =
                    IdsOfBetween(s, lowerOf(ranges, a, i), ranges[i].upper)
      BY <2>5, <2>6, <2>7, PlacedIds
    <2>10. Exact(s, a, ranges)
      <3>1. ASSUME NEW i \in 1 .. Buckets
            PROVE  bound(i) \preceq Infinity
        <4>1. CASE cut(i) = upper
          BY <4>1 DEF bound
        <4>2. CASE cut(i) # upper
          <5>1. i \in 0 .. Buckets
            BY <1>1, SMT
          <5>2. cut(i) < Len(s)
            BY <1>1, <2>3, <4>2, <5>1, SMT
          <5>3. Place(s, Infinity, Len(s)) /\ Infinity \in Bound
            BY Places, Ends
          <5>4. bound(i) \prec Infinity
            BY <2>6, <5>2, <5>3, PlacesOrdered
          <5> QED
            BY <5>4 DEF \preceq
        <4> QED
          BY <4>1, <4>2
      <3> QED
        BY <2>5, <2>8, <2>9, <3>1 DEF Exact
    <2>11. ranges # <<>>
      BY <1>1, <2>5, SMT
    <2>12. lastOf(ranges, a) = b
      <3>1. Buckets \in 1 .. Buckets
        BY <1>1, SMT
      <3>2. bound(Buckets) = b
        BY <2>2 DEF bound
      <3> QED
        BY <2>5, <2>11, <3>1, <3>2 DEF lastOf
    <2> QED
      BY <1>2, <2>10, <2>11, <2>12 DEF ranges
  <1> QED
    BY <1>3, <1>4 DEF ranges

-----------------------------------------------------------------------------
(* Encoding.                                                               *)

(* Element by element.                                                     *)
Encodes(x, a, from) ==
    /\ x \in Seq(WireRange)
    /\ Len(x) = Len(a)
    /\ \A n \in 1 .. Len(a) :
          /\ a[n] \in PlainRange
          /\ a[n].upper \in Bound /\ lowerOf(a, from, n) \in Bound
          /\ x[n] = [timestamp |->
                        encodeTimestampOut(a[n].upper.timestamp,
                            lowerOf(a, from, n).timestamp),
                     prefix |-> a[n].upper.id,
                     mode   |-> a[n].mode,
                     ids    |-> a[n].ids]
    /\ lastOf(a, from) \in Bound
    /\ lastTimestampAfter(a, from.timestamp) = lastOf(a, from).timestamp

LEMMA Encoded ==
    ASSUME NEW a \in Seq(PlainRange), NEW from \in Bound
    PROVE  Encodes(encode(a, from.timestamp), a, from)
  <1>1. from.timestamp \in Timestamp
    BY DEF Bound
  <1>2. /\ encode(a, from.timestamp) \in Seq(WireRange)
        /\ Len(encode(a, from.timestamp)) = Len(a)
    BY <1>1, EncodeType
  <1>3. /\ Len(a) \in Nat
        /\ \A n \in 1 .. Len(a) : a[n] \in PlainRange
        /\ a # <<>> => Len(a) \in 1 .. Len(a)
    BY SMT
  <1>4. \A n \in 1 .. Len(a) : a[n].upper \in Bound
    BY <1>3 DEF PlainRange
  <1>5. ASSUME NEW n \in 1 .. Len(a)
        PROVE  /\ lowerOf(a, from, n) \in Bound
               /\ encode(a, from.timestamp)[n] =
                       [timestamp |->
                           encodeTimestampOut(a[n].upper.timestamp,
                               lowerOf(a, from, n).timestamp),
                        prefix |-> a[n].upper.id,
                        mode   |-> a[n].mode,
                        ids    |-> a[n].ids]
    <2>1. n # 1 => n - 1 \in 1 .. Len(a)
      BY <1>3, SMT
    <2>2. lowerOf(a, from, n) \in Bound
      BY <1>4, <2>1 DEF lowerOf
    <2>3. lowerOf(a, from, n).timestamp =
             IF n = 1 THEN from.timestamp ELSE a[n - 1].upper.timestamp
      BY DEF lowerOf
    <2> QED
      BY <2>2, <2>3 DEF encode
  <1>6. /\ lastOf(a, from) \in Bound
        /\ lastTimestampAfter(a, from.timestamp) = lastOf(a, from).timestamp
    BY <1>3, <1>4 DEF lastOf, lastTimestampAfter
  <1> QED
    BY <1>2, <1>3, <1>4, <1>5, <1>6 DEF Encodes

(* Encoded sequences are equal if their elements are. *)
LEMMA SameRanges ==
    ASSUME NEW x \in Seq(WireRange), NEW y \in Seq(WireRange),
           Len(x) = Len(y), \A i \in 1 .. Len(x) : x[i] = y[i]
    PROVE  x = y
  BY SMT

(* What is written later continues the offsets of what was written before. *)
LEMMA EncodeJoined ==
    ASSUME NEW a \in Seq(PlainRange), NEW b \in Seq(PlainRange),
           NEW from \in Bound
    PROVE  encode(a \o b, from.timestamp) =
              encode(a, from.timestamp)
                 \o encode(b, lastOf(a, from).timestamp)
  <1> DEFINE c == a \o b
             x == encode(a, from.timestamp)
             y == encode(b, lastOf(a, from).timestamp)
             z == encode(c, from.timestamp)
  <1>1. Joins(c, a, b, from)
    BY Joined
  <1>2. Encodes(x, a, from)
    BY Encoded
  <1>3. Encodes(y, b, lastOf(a, from))
    BY <1>2, Encoded DEF Encodes
  <1>4. Encodes(z, c, from)
    BY <1>1, Encoded DEF Joins
  <1> HIDE DEF c, x, y, z
  <1> DEFINE la == Len(a)
             lb == Len(b)
  <1>5. /\ la \in Nat /\ lb \in Nat /\ Len(c) = la + lb
        /\ x \in Seq(WireRange) /\ Len(x) = la
        /\ y \in Seq(WireRange) /\ Len(y) = lb
        /\ z \in Seq(WireRange) /\ Len(z) = la + lb
    BY <1>1, <1>2, <1>3, <1>4 DEF Joins, Encodes
  <1>6. /\ x \o y \in Seq(WireRange)
        /\ Len(x \o y) = Len(x) + Len(y)
        /\ \A i \in 1 .. Len(x) + Len(y) :
              (x \o y)[i] = IF i <= Len(x) THEN x[i] ELSE y[i - Len(x)]
    <2>1. x \in Seq(WireRange) /\ y \in Seq(WireRange)
      BY <1>5
    <2> QED
      BY <2>1, ConcatProperties, Zenon
  <1>7. ASSUME NEW n \in 1 .. la
        PROVE  z[n] = x[n]
    <2>1. n \in 1 .. Len(c)
      BY <1>5, SMT
    <2> QED
      BY <1>1, <1>2, <1>4, <2>1 DEF Joins, Encodes
  <1>8. ASSUME NEW n \in 1 .. lb
        PROVE  z[la + n] = y[n]
    <2>1. la + n \in 1 .. Len(c)
      BY <1>5, SMT
    <2> QED
      BY <1>1, <1>3, <1>4, <2>1 DEF Joins, Encodes
  <1> HIDE DEF la, lb
  <1>9. ASSUME NEW i \in 1 .. la + lb
        PROVE  z[i] = (x \o y)[i]
    <2>1. CASE i <= la
      BY <1>5, <1>6, <1>7, <2>1, SMT
    <2>2. CASE i > la
      <3>1. /\ i - la \in 1 .. lb /\ la + (i - la) = i /\ ~(i <= la)
        BY <1>5, <2>2, SMT
      <3>2. z[i] = y[i - la]
        BY <1>8, <3>1
      <3> QED
        BY <1>5, <1>6, <3>1, <3>2
    <2> QED
      BY <1>5, <2>1, <2>2, SMT
  <1>10. z = x \o y
    BY <1>5, <1>6, <1>9, SameRanges
  <1> QED
    BY <1>10 DEF c, x, y, z

(* The receiver reads the first range as it was written, and has the rest  *)
(* before it, if the range goes on from the bound read last.               *)
LEMMA DecodeHead ==
    ASSUME NEW a \in Seq(PlainRange), a # <<>>, NEW from \in Bound,
           \/ a[1].upper.timestamp >= from.timestamp
           \/ a[1].upper.timestamp = MAX_U64
    PROVE  /\ encode(a, from.timestamp) # <<>>
           /\ decodeBound(Head(encode(a, from.timestamp)), from.timestamp)
                 = a[1].upper
           /\ Head(encode(a, from.timestamp)).mode = a[1].mode
           /\ Head(encode(a, from.timestamp)).ids = a[1].ids
           /\ Tail(encode(a, from.timestamp))
                 = encode(Tail(a), a[1].upper.timestamp)
  <1> DEFINE b == Tail(a)
             x == encode(a, from.timestamp)
             y == encode(b, a[1].upper.timestamp)
  <1>1. Rests(b, a, from)
    BY Rested
  <1>2. Encodes(x, a, from)
    BY Encoded
  <1>3. a[1].upper \in Bound
    BY <1>1, <1>2 DEF Rests, Encodes
  <1>4. Encodes(y, b, a[1].upper)
    BY <1>1, <1>3, Encoded DEF Rests
  <1> HIDE DEF b, x, y
  <1>5. /\ x \in Seq(WireRange) /\ y \in Seq(WireRange)
        /\ Len(a) \in Nat /\ Len(a) >= 1
        /\ Len(x) = Len(a) /\ Len(y) = Len(a) - 1
    <2>1. Len(a) \in Nat /\ 1 \in 1 .. Len(a)
      BY <1>1 DEF Rests
    <2>2. Len(a) >= 1
      BY <2>1, SMT
    <2> QED
      BY <1>1, <1>2, <1>4, <2>1, <2>2 DEF Rests, Encodes
  <1>6. x[1] = [timestamp |->
                   encodeTimestampOut(a[1].upper.timestamp, from.timestamp),
                prefix |-> a[1].upper.id,
                mode   |-> a[1].mode,
                ids    |-> a[1].ids]
    BY <1>1, <1>2 DEF Rests, Encodes
  <1>7. decodeBound(x[1], from.timestamp) = a[1].upper
    <2>1. /\ a[1].upper.timestamp \in Timestamp /\ from.timestamp \in Timestamp
          /\ a[1].upper = [timestamp |-> a[1].upper.timestamp,
                           id |-> a[1].upper.id]
      BY <1>3 DEF Bound
    <2>2. decodeTimestampIn(
              encodeTimestampOut(a[1].upper.timestamp, from.timestamp),
              from.timestamp) = a[1].upper.timestamp
      BY <2>1, Codec
    <2> QED
      BY <1>6, <2>1, <2>2 DEF decodeBound
  <1>8. /\ x # <<>> /\ Head(x) = x[1]
        /\ Tail(x) \in Seq(WireRange) /\ Len(Tail(x)) = Len(y)
        /\ \A n \in 1 .. Len(y) : Tail(x)[n] = x[n + 1]
    BY <1>5, SMT
  <1>9. ASSUME NEW n \in 1 .. Len(y)
        PROVE  y[n] = x[n + 1]
    BY <1>1, <1>2, <1>4 DEF Rests, Encodes
  <1>10. Tail(x) = y
    BY <1>5, <1>8, <1>9, SameRanges
  <1> QED
    BY <1>6, <1>7, <1>8, <1>10 DEF b, x, y

-----------------------------------------------------------------------------
(* The bounds as the receiver decodes them.                                *)

(* A set of numbers has a least one: what is wrong for some length of a    *)
(* sequence is wrong for a shortest one.                                   *)
LEMMA LeastNumber ==
    ASSUME NEW T, T \subseteq Nat, T # {}
    PROVE  \E m \in T : \A k \in T : m <= k
  <1> DEFINE R == OpToRel(<, Nat)
  <1>1. IsWellFoundedOn(R, Nat)
    BY NatLessThanWellFounded
  <1>2. \A x, y \in Nat : x < y => <<x, y>> \in R
    BY SMT DEF OpToRel
  <1> HIDE DEF R
  <1>3. PICK m \in T : \A k \in T : ~(<<k, m>> \in R)
    BY <1>1, WFMin
  <1>4. ASSUME NEW k \in T
        PROVE  m <= k
    <2>1. m \in Nat /\ k \in Nat
      OBVIOUS
    <2>2. ~(k < m)
      BY <1>2, <1>3, <2>1
    <2> QED
      BY <2>1, <2>2, SMT
  <1> QED
    BY <1>4

(* The bounds do not descend, so every offset is understood.               *)
Readable(a, from) ==
    \A n \in 1 .. Len(a) :
        \/ a[n].upper.timestamp >= lowerOf(a, from, n).timestamp
        \/ a[n].upper.timestamp = MAX_U64

(* The receiver's bounds are the sender's. *)
LEMMA DecodedBounds ==
    ASSUME NEW a \in Seq(PlainRange), Readable(a, ZeroBound),
           NEW n \in 1 .. Len(a)
    PROVE  /\ decodedBounds(encode(a, 0))[n - 1] = lowerOf(a, ZeroBound, n)
           /\ decodedBounds(encode(a, 0))[n] = a[n].upper
  <1> DEFINE x == encode(a, 0)
             f == decodedBounds(x)
             meant(i) == IF i = 0 THEN ZeroBound ELSE a[i].upper
             step(h) == [i \in 0 .. Len(x) |->
                           IF i = 0 THEN ZeroBound
                           ELSE decodeBound(x[i], h[i - 1].timestamp)]
             g == [i \in 0 .. Len(x) |-> meant(i)]
  <1>1. Encodes(x, a, ZeroBound) /\ Len(a) \in Nat
    <2>1. ZeroBound.timestamp = 0
      BY DEF ZeroBound
    <2>2. Len(a) \in Nat
      BY SMT
    <2> QED
      BY <2>1, <2>2, Ends, Encoded
  <1>2. f = CHOOSE h : h = step(h)
    BY DEF decodedBounds
  <1> HIDE DEF x
  <1>3. ASSUME NEW i \in 1 .. Len(a)
        PROVE  decodeBound(x[i], meant(i - 1).timestamp) = meant(i)
    <2>1. lowerOf(a, ZeroBound, i) = meant(i - 1) /\ meant(i) = a[i].upper
      <3>1. (i = 1 <=> i - 1 = 0) /\ i # 0
        BY SMT
      <3> QED
        BY <3>1 DEF lowerOf
    <2> HIDE DEF meant
    <2>2. /\ meant(i) \in Bound /\ meant(i - 1) \in Bound
          /\ x[i] = [timestamp |->
                        encodeTimestampOut(meant(i).timestamp,
                            meant(i - 1).timestamp),
                     prefix |-> meant(i).id,
                     mode   |-> a[i].mode,
                     ids    |-> a[i].ids]
      BY <1>1, <2>1 DEF Encodes
    <2>3. /\ meant(i).timestamp \in Timestamp
          /\ meant(i - 1).timestamp \in Timestamp
          /\ meant(i) = [timestamp |-> meant(i).timestamp,
                         id |-> meant(i).id]
      BY <2>2 DEF Bound
    <2>4. \/ meant(i).timestamp >= meant(i - 1).timestamp
          \/ meant(i).timestamp = MAX_U64
      BY <2>1 DEF Readable
    <2>5. decodeTimestampIn(
              encodeTimestampOut(meant(i).timestamp, meant(i - 1).timestamp),
              meant(i - 1).timestamp) = meant(i).timestamp
      BY <2>3, <2>4, Codec
    <2> QED
      BY <2>2, <2>3, <2>5 DEF decodeBound
  <1>4. Len(x) = Len(a)
    BY <1>1 DEF Encodes
  <1>5. g = step(g)
    <2>1. ASSUME NEW i \in 0 .. Len(x)
          PROVE  g[i] = step(g)[i]
      <3>1. CASE i = 0
        BY <3>1
      <3>2. CASE i # 0
        <4>1. i \in 1 .. Len(a) /\ i - 1 \in 0 .. Len(x)
          BY <1>1, <1>4, <3>2, SMT
        <4>2. g[i - 1] = meant(i - 1) /\ g[i] = meant(i)
          BY <4>1
        <4> HIDE DEF g, meant
        <4> QED
          BY <1>3, <3>2, <4>1, <4>2
      <3> QED
        BY <3>1, <3>2
    <2> QED
      BY <2>1
  <1> HIDE DEF g
  <1>6. f = step(f)
    <2> HIDE DEF step, f
    <2> QED
      BY <1>2, <1>5
  <1>7. ASSUME NEW i \in 0 .. Len(a)
        PROVE  f[i] = meant(i)
    <2> DEFINE T == {j \in Nat : j <= Len(a) /\ f[j] # meant(j)}
    <2>1. SUFFICES ASSUME T # {} PROVE FALSE
      BY <1>1, SMT
    <2>2. PICK j \in T : \A k \in T : j <= k
      BY <2>1, LeastNumber
    <2>3. /\ j \in Nat /\ j <= Len(a) /\ f[j] # meant(j)
      BY <2>2
    <2>4. j \in 0 .. Len(x)
      BY <1>1, <1>4, <2>3, SMT
    <2>5. f[j] = IF j = 0 THEN ZeroBound
                 ELSE decodeBound(x[j], f[j - 1].timestamp)
      <3> HIDE DEF f
      <3> QED
        BY <1>6, <2>4
    <2>6. j # 0
      BY <2>3, <2>5
    <2>7. /\ j - 1 \in Nat /\ j - 1 <= Len(a) /\ ~(j <= j - 1)
          /\ j \in 1 .. Len(a)
      BY <1>1, <2>3, <2>6, SMT
    <2>8. f[j - 1] = meant(j - 1)
      BY <2>2, <2>7
    <2> HIDE DEF f, meant, T
    <2> QED
      BY <1>3, <2>3, <2>5, <2>6, <2>7, <2>8
  <1> HIDE DEF f, meant
  <1>8. n \in 0 .. Len(a) /\ n - 1 \in 0 .. Len(a)
    BY <1>1, SMT
  <1>9. f[n] = meant(n) /\ f[n - 1] = meant(n - 1)
    BY <1>7, <1>8
  <1>10. meant(n) = a[n].upper /\ meant(n - 1) = lowerOf(a, ZeroBound, n)
    <2>1. n # 0 /\ (n - 1 = 0 <=> n = 1)
      BY <1>1, SMT
    <2> QED
      BY <2>1 DEF meant, lowerOf
  <1> QED
    BY <1>9, <1>10 DEF f, x

-----------------------------------------------------------------------------
(***************************************************************************)
(* What the messages on their way say is true, for every storage, width,   *)
(* bucket count and frame limit, and through changes of the storages, lost *)
(* and late messages, exceptions and retries.  Where it matters the        *)
(* storages are not SubRanges over B-trees (NoBases), whose findLowerBound *)
(* may leave the range.                                                    *)
(***************************************************************************)

-----------------------------------------------------------------------------
(* Messages.                                                               *)

(* A message on its way after a step was on its way before, or it has no   *)
(* ranges (a probe or its refusal), or it was built by initiate() or by a  *)
(* call of the other peer that returns.                                    *)
Arrives(p, m) ==
    \/ m \in ToSet(inbox[p])
    \/ (ProbeNewerVersion \/ RefuseVersion) /\ m.ranges = <<>>
    \/ /\ Initiate /\ p = Server
       /\ m.ranges = encode(splitRange(store[Client], 0, Len(store[Client]),
                                       Infinity), lastTimestampOut[Client])
    \/ ReturnAtResponder /\ p = Client /\ m.ranges = fullOutput
    \/ Continue /\ p = Server /\ m.ranges = fullOutput

LEMMA Arrivals ==
    ASSUME TypeOK, [Next]_vars, NEW p \in Peer, NEW m \in ToSet(inbox'[p])
    PROVE  Arrives(p, m)
  <1>1. inbox \in [Peer -> Seq(Message)] /\ Client # Server
        /\ Client \in Peer /\ Server \in Peer
    BY PeerAssumption DEF TypeOK, Peer
  <1>2. /\ \A q \in Peer : inbox[q] # <<>> =>
              ToSet(Tail(inbox[q])) \subseteq ToSet(inbox[q])
        /\ \A q \in Peer : \A n : m \in ToSet(Append(inbox[q], n)) =>
              m \in ToSet(inbox[q]) \cup {n}
    <2>1. \A q \in Peer : inbox[q] # <<>> =>
              ToSet(Tail(inbox[q])) \subseteq ToSet(inbox[q])
      BY <1>1, ToSetFacts
    <2>2. ASSUME NEW q \in Peer, NEW n, m \in ToSet(Append(inbox[q], n))
          PROVE  m \in ToSet(inbox[q]) \cup {n}
      <3>1. inbox[q] \in Seq(Message)
        BY <1>1
      <3> QED
        BY <2>2, <3>1, SMT DEF ToSet
    <2> QED
      BY <2>1, <2>2
  <1>3. ASSUME NEW q \in Peer, inbox[q] # <<>>,
               inbox' = [inbox EXCEPT ![q] = Tail(@)]
        PROVE  m \in ToSet(inbox[p])
    BY <1>1, <1>2, <1>3
  <1>4. ASSUME NEW q \in Peer, NEW n,
               inbox' = [inbox EXCEPT ![q] = Append(@, n)]
        PROVE  m \in ToSet(inbox[p]) \/ (p = q /\ m = n)
    <2>1. CASE p = q
      <3>1. inbox'[p] = Append(inbox[p], n)
        BY <1>1, <1>4, <2>1
      <3>2. m \in ToSet(inbox[p]) \cup {n}
        BY <1>2, <3>1
      <3> QED
        BY <2>1, <3>2
    <2>2. CASE p # q
      BY <1>1, <1>4, <2>2
    <2> QED
      BY <2>1, <2>2
  <1>5. CASE inbox' = inbox
    BY <1>5 DEF Arrives
  <1>6. CASE Initiate
    <2> DEFINE n == [version |-> PROTOCOL_VERSION,
                     ranges |-> encode(splitRange(store[Client], 0,
                                           Len(store[Client]), Infinity),
                                       lastTimestampOut[Client]),
                     size |-> 1 + splitSize(Len(store[Client]))]
    <2>1. inbox' = [inbox EXCEPT ![Server] = Append(@, n)]
      BY <1>6 DEF Initiate, Send
    <2>2. m \in ToSet(inbox[p]) \/ (p = Server /\ m = n)
      <3> HIDE DEF n
      <3> QED
        BY <1>1, <1>4, <2>1
    <2> QED
      BY <1>6, <2>2 DEF Arrives
  <1>7. CASE ProbeNewerVersion
    <2> DEFINE n == [version |-> NEWER_VERSION, ranges |-> <<>>, size |-> 1]
    <2>1. inbox' = [inbox EXCEPT ![Server] = Append(@, n)]
      BY <1>7 DEF ProbeNewerVersion
    <2>2. m \in ToSet(inbox[p]) \/ m = n
      BY <1>1, <1>4, <2>1
    <2> QED
      BY <1>7, <2>2 DEF Arrives
  <1>8. CASE Downgrade
    BY <1>1, <1>3, <1>8 DEF Downgrade, Arrives
  <1>9. CASE RefuseVersion
    <2> DEFINE n == [version |-> PROTOCOL_VERSION, ranges |-> <<>>, size |-> 1]
    <2>1. /\ inbox[Server] # <<>>
          /\ inbox' = [inbox EXCEPT ![Server] = Tail(@),
                                    ![Client] = Append(@, n)]
      BY <1>9 DEF RefuseVersion
    <2>2. CASE p = Server
      <3>1. inbox'[p] = Tail(inbox[p])
        BY <1>1, <2>1, <2>2
      <3> QED
        BY <1>2, <1>9, <2>1, <2>2, <3>1 DEF Arrives
    <2>3. CASE p = Client
      <3>1. inbox'[p] = Append(inbox[p], n)
        BY <1>1, <2>1, <2>3
      <3>2. m \in ToSet(inbox[p]) \cup {n}
        BY <1>2, <3>1
      <3> QED
        BY <1>9, <3>2 DEF Arrives
    <2> QED
      BY <2>2, <2>3 DEF Peer
  <1>10. ASSUME NEW q \in Peer, Receive(q)
         PROVE  Arrives(p, m)
    BY <1>3, <1>10 DEF Receive, Arrives
  <1>11. CASE ReturnAtResponder
    <2> DEFINE n == [version |-> PROTOCOL_VERSION, ranges |-> fullOutput,
                     size |-> outputSize]
    <2>1. inbox' = [inbox EXCEPT ![Client] = Append(@, n)]
      BY <1>11 DEF ReturnAtResponder, Send
    <2>2. m \in ToSet(inbox[p]) \/ (p = Client /\ m = n)
      BY <1>1, <1>4, <2>1
    <2> QED
      BY <1>11, <2>2 DEF Arrives
  <1>12. CASE Continue
    <2> DEFINE n == [version |-> PROTOCOL_VERSION, ranges |-> fullOutput,
                     size |-> outputSize]
    <2>1. inbox' = [inbox EXCEPT ![Server] = Append(@, n)]
      BY <1>12 DEF Continue, Send
    <2>2. m \in ToSet(inbox[p]) \/ (p = Server /\ m = n)
      BY <1>1, <1>4, <2>1
    <2> QED
      BY <1>12, <2>2 DEF Arrives
  <1>13. CASE Timeout
    <2>1. CASE inbox' = [q \in Peer |-> <<>>]
      <3>1. inbox'[p] = <<>>
        BY <2>1
      <3>2. ToSet(<<>>) = {}
        BY SMT DEF ToSet
      <3> QED
        BY <3>1, <3>2
    <2> QED
      BY <1>5, <1>13, <2>1 DEF Timeout
  <1>14. CASE \E q \in Peer : ReconcileRange(q)
    BY <1>5, <1>14 DEF ReconcileRange, SkipStep, FingerprintMatches,
           FingerprintDiffers, IdListAtInitiator, IdListAtResponder, NextRange
  <1>15. CASE \/ Finish \/ Retry \/ UNCHANGED vars
              \/ \E q \in Peer : \/ Throw(q) \/ Insert(q) \/ Erase(q)
                                 \/ Recreate(q)
    BY <1>5, <1>15 DEF Finish, Retry, vars, Throw, Insert, Erase, EditStore,
                       Recreate
  <1> QED
    BY <1>6, <1>7, <1>8, <1>9, <1>10, <1>11, <1>12, <1>13, <1>14, <1>15
    DEF Next, Protocol, Terminated, StorageFails, BadRange

-----------------------------------------------------------------------------
(* Skips.                                                                  *)

Coalesced(x) ==
    \A n \in 1 .. Len(x) :
        x[n].mode = "skip" => n < Len(x) /\ x[n + 1].mode # "skip"

LEMMA CoalescedJoin ==
    ASSUME NEW S, NEW a \in Seq(S), NEW b \in Seq(S),
           Coalesced(a), Coalesced(b)
    PROVE  Coalesced(a \o b)
  <1> DEFINE la == Len(a)
             lb == Len(b)
             c  == a \o b
  <1>1. /\ la \in Nat /\ lb \in Nat /\ Len(c) = la + lb
        /\ \A i \in 1 .. la + lb : c[i] = IF i <= la THEN a[i] ELSE b[i - la]
    <2>1. /\ Len(c) = Len(a) + Len(b)
          /\ \A i \in 1 .. Len(a) + Len(b) :
                c[i] = IF i <= Len(a) THEN a[i] ELSE b[i - Len(a)]
      BY ConcatProperties, Zenon
    <2>2. Len(a) \in Nat /\ Len(b) \in Nat
      BY SMT
    <2> QED
      BY <2>1, <2>2
  <1>2. /\ \A n \in 1 .. la :
              a[n].mode = "skip" => n < la /\ a[n + 1].mode # "skip"
        /\ \A n \in 1 .. lb :
              b[n].mode = "skip" => n < lb /\ b[n + 1].mode # "skip"
    BY DEF Coalesced
  <1> HIDE DEF la, lb, c
  <1> SUFFICES ASSUME NEW n \in 1 .. la + lb, c[n].mode = "skip"
               PROVE  n < la + lb /\ c[n + 1].mode # "skip"
    BY <1>1 DEF Coalesced, c
  <1>3. CASE n <= la
    <2>1. n \in 1 .. la /\ c[n] = a[n]
      BY <1>1, <1>3, SMT
    <2>2. n < la /\ a[n + 1].mode # "skip"
      BY <1>2, <2>1
    <2>3. n + 1 \in 1 .. la + lb /\ n + 1 <= la /\ n < la + lb
      BY <1>1, <2>1, <2>2, SMT
    <2> QED
      BY <1>1, <2>2, <2>3
  <1>4. CASE n > la
    <2>1. n - la \in 1 .. lb /\ c[n] = b[n - la]
      BY <1>1, <1>4, SMT
    <2>2. n - la < lb /\ b[(n - la) + 1].mode # "skip"
      BY <1>2, <2>1
    <2>3. /\ n + 1 \in 1 .. la + lb /\ ~(n + 1 <= la) /\ n < la + lb
          /\ (n + 1) - la = (n - la) + 1
      BY <1>1, <1>4, <2>1, <2>2, SMT
    <2>4. c[n + 1] = b[(n - la) + 1]
      BY <1>1, <2>3
    <2> QED
      BY <2>2, <2>3, <2>4
  <1> QED
    BY <1>1, <1>3, <1>4, SMT

(* Encoding leaves the modes alone. *)
LEMMA CoalescedEncoded ==
    ASSUME NEW a \in Seq(PlainRange), NEW last \in Timestamp, Coalesced(a)
    PROVE  encode(a, last) \in Seq(WireRange) /\ Coalesced(encode(a, last))
  <1>1. /\ encode(a, last) \in Seq(WireRange)
        /\ Len(encode(a, last)) = Len(a) /\ Len(a) \in Nat
    BY EncodeType, SMT
  <1>2. \A n \in 1 .. Len(a) : encode(a, last)[n].mode = a[n].mode
    BY DEF encode
  <1> DEFINE x == encode(a, last)
  <1> HIDE DEF x
  <1>3. ASSUME Len(x) = Len(a), \A n \in 1 .. Len(a) : x[n].mode = a[n].mode
        PROVE  Coalesced(x)
    BY <1>1, <1>3, SMT DEF Coalesced
  <1> QED
    BY <1>1, <1>2, <1>3 DEF x

(* Output that never ends with a skip, nor skips twice. *)
LEMMA CoalescedPieces ==
    ASSUME TypeOK, NEW p \in Peer, active = p, query # <<>>,
           NEW upper \in 0 .. Len(store[p])
    PROVE  /\ Coalesced(Nothing.ranges)
           /\ Coalesced(Rest(p, upper).ranges)
           /\ prevIndex <= upper =>
                 Coalesced((doSkip \bullet Split(p, upper)).ranges)
           /\ \A end \in prevIndex .. upper :
                 Coalesced((doSkip \bullet List(p, upper, end)).ranges)
  <1>1. ASSUME NEW b \in Seq(PlainRange), b # <<>>,
               \A n \in 1 .. Len(b) : b[n].mode # "skip"
        PROVE  Coalesced(doSkip.ranges \o b)
    <2>1. Len(b) \in Nat /\ 1 \in 1 .. Len(b)
      BY <1>1, SMT
    <2>2. CASE ~skip
      <3>1. doSkip.ranges = <<>>
        BY <2>2 DEF doSkip, Nothing
      <3>2. <<>> \o b = b
        BY <1>1, SMT
      <3> QED
        BY <1>1, <3>1, <3>2 DEF Coalesced
    <2>3. CASE skip
      <3> DEFINE a == <<SkipRange(prevBound)>>
                 c == a \o b
      <3>1. doSkip.ranges = a
        BY <2>3 DEF doSkip
      <3>2. SkipRange(prevBound) \in PlainRange
        BY DEF SkipRange, PlainRange, Mode, TypeOK
      <3>3. a \in Seq(PlainRange) /\ Len(a) = 1
        BY <3>2, SMT
      <3>4. Joins(c, a, b, ZeroBound)
        BY <1>1, <3>3, Joined
      <3> HIDE DEF a, c
      <3>5. Len(c) = 1 + Len(b) /\ \A n \in 1 .. Len(b) : c[1 + n] = b[n]
        BY <3>3, <3>4 DEF Joins
      <3>6. ASSUME NEW n \in 1 .. Len(c), c[n].mode = "skip"
            PROVE  n = 1
        <4>1. CASE n # 1
          <5>1. n - 1 \in 1 .. Len(b) /\ 1 + (n - 1) = n
            BY <2>1, <3>5, <4>1, SMT
          <5>2. c[n] = b[n - 1]
            BY <3>5, <5>1
          <5> QED
            BY <1>1, <3>6, <5>1, <5>2
        <4> QED
          BY <4>1
      <3>7. 1 < Len(c) /\ c[1 + 1].mode # "skip"
        <4>1. 1 < Len(c)
          BY <2>1, <3>5, SMT
        <4>2. c[1 + 1] = b[1]
          BY <2>1, <3>5
        <4> QED
          BY <1>1, <2>1, <4>1, <4>2
      <3>8. Coalesced(c)
        BY <3>6, <3>7 DEF Coalesced
      <3> QED
        BY <3>1, <3>8 DEF c
    <2> QED
      BY <2>2, <2>3
  <1>2. \A r \in PlainRange : /\ <<r>> \in Seq(PlainRange) /\ <<r>> # <<>>
                              /\ \A n \in 1 .. Len(<<r>>) : <<r>>[n] = r
    BY SMT
  <1>3. Coalesced(Nothing.ranges)
    <2>1. Len(<<>>) = 0
      BY SMT
    <2>2. \A n \in 1 .. 0 : FALSE
      BY SMT
    <2> QED
      BY <2>1, <2>2 DEF Nothing, Coalesced
  <1>4. Coalesced(Rest(p, upper).ranges)
    <2> DEFINE r == FingerprintRange(Infinity,
                        FingerprintOf(store[p], upper, Len(store[p])))
    <2>1. Rest(p, upper).ranges = <<r>> /\ r.mode = "fingerprint"
      BY DEF Rest, FingerprintRange
    <2> HIDE DEF r
    <2>2. \A n \in 1 .. Len(<<r>>) : <<r>>[n] = r
      BY SMT
    <2> QED
      BY <2>1, <2>2 DEF Coalesced
  <1>5. ASSUME prevIndex <= upper
        PROVE  Coalesced((doSkip \bullet Split(p, upper)).ranges)
    <2> DEFINE b == splitRange(store[p], prevIndex, upper, currBound(p))
    <2>1. /\ store[p] \in Seq(Universe) /\ Sorted(store[p])
          /\ prevIndex \in Nat /\ upper \in prevIndex .. Len(store[p])
          /\ Len(store[p]) \in Nat
          /\ currBound(p) \in Bound
      BY <1>5, PiecesType, SMT DEF TypeOK
    <2>2. b \in Seq(PlainRange)
      BY <2>1, SplitType
    <2>3. b # <<>> /\ \A n \in 1 .. Len(b) : b[n].mode # "skip"
      <3>1. CASE upper - prevIndex < 2 * Buckets
        <4>1. b = <<IdListRange(currBound(p), IdsIn(store[p], prevIndex, upper))>>
          BY <3>1 DEF splitRange
        <4> DEFINE r == IdListRange(currBound(p), IdsIn(store[p], prevIndex, upper))
        <4>2. r.mode = "idlist"
          BY DEF IdListRange
        <4> HIDE DEF r, b
        <4>3. \A n \in 1 .. Len(<<r>>) : <<r>>[n] = r
          BY SMT
        <4>4. b # <<>> /\ \A n \in 1 .. Len(b) : b[n] = r
          BY <4>1, <4>3 DEF r
        <4> QED
          BY <4>2, <4>4
      <3>2. CASE ~(upper - prevIndex < 2 * Buckets)
        <4>1. b = [i \in 1 .. Buckets |->
                      FingerprintRange(
                         IF curr(prevIndex, upper, i) = upper
                         THEN currBound(p)
                         ELSE getMinimalBound(
                                 store[p][curr(prevIndex, upper, i)],
                                 store[p][curr(prevIndex, upper, i) + 1]),
                         FingerprintOf(store[p], curr(prevIndex, upper, i - 1),
                                       curr(prevIndex, upper, i)))]
          BY <3>2 DEF splitRange
        <4>2. Len(b) = Buckets /\ Buckets \in Nat /\ Buckets >= 2
          BY <4>1, SizeAssumption, SMT
        <4>3. \A i \in 1 .. Buckets : b[i].mode = "fingerprint"
          BY <4>1 DEF FingerprintRange
        <4> HIDE DEF b
        <4>4. b # <<>>
          BY <4>2, SMT
        <4> QED
          BY <4>2, <4>3, <4>4
      <3> QED
        BY <3>1, <3>2
    <2>4. (doSkip \bullet Split(p, upper)).ranges = doSkip.ranges \o b
      BY DEF \bullet, Split
    <2> HIDE DEF b
    <2> QED
      BY <1>1, <2>2, <2>3, <2>4
  <1>6. ASSUME NEW end \in prevIndex .. upper
        PROVE  Coalesced((doSkip \bullet List(p, upper, end)).ranges)
    <2> DEFINE r == IdListRange(
                      IF end < upper THEN store[p][end + 1] ELSE currBound(p),
                      IdsIn(store[p], prevIndex, end))
    <2>1. List(p, upper, end).ranges = <<r>> /\ r.mode = "idlist"
      BY DEF List, IdListRange
    <2>2. List(p, upper, end).ranges \in Seq(PlainRange)
      BY PiecesType DEF Output
    <2>3. (doSkip \bullet List(p, upper, end)).ranges = doSkip.ranges \o <<r>>
      BY <2>1 DEF \bullet
    <2> HIDE DEF r
    <2>4. <<r>> # <<>> /\ \A n \in 1 .. Len(<<r>>) : <<r>>[n] = r
      BY SMT
    <2> QED
      BY <1>1, <2>1, <2>2, <2>3, <2>4
  <1> QED
    BY <1>3, <1>4, <1>5, <1>6

SkipInv ==
    /\ TypeOK
    /\ SkipsCoalesced
    /\ Coalesced(fullOutput)

(* What the end of the loop's body writes. *)
LEMMA EndRangeCoalesced ==
    ASSUME TypeOK, NEW p \in Peer, active = p, query # <<>>,
           Coalesced(fullOutput),
           NEW written \in Output, NEW o \in Output,
           NEW upper \in 0 .. Len(store[p]),
           Coalesced(written.ranges), Coalesced(o.ranges),
           EndRange(p, written, o, upper)
    PROVE  Coalesced(fullOutput')
  <1>1. PICK w \in Output : /\ Coalesced(w.ranges) /\ Write(p, w)
    <2>1. Rest(p, upper) \in Output /\ Coalesced(Rest(p, upper).ranges)
      BY PiecesType, CoalescedPieces
    <2>2. ASSUME NEW a \in Output, NEW b \in Output,
                 Coalesced(a.ranges), Coalesced(b.ranges)
          PROVE  a \bullet b \in Output /\ Coalesced((a \bullet b).ranges)
      <3>1. a.ranges \in Seq(PlainRange) /\ b.ranges \in Seq(PlainRange)
        BY DEF Output
      <3>2. Coalesced(a.ranges \o b.ranges)
        BY <2>2, <3>1, CoalescedJoin
      <3> QED
        BY <3>2, OutputType DEF \bullet
    <2>3. Write(p, written \bullet Rest(p, upper)) \/ Write(p, written \bullet o)
      BY DEF EndRange
    <2> QED
      BY <2>1, <2>2, <2>3
  <1>2. /\ w.ranges \in Seq(PlainRange)
        /\ lastTimestampOut[p] \in Timestamp
        /\ fullOutput \in Seq(WireRange)
    BY DEF Output, TypeOK
  <1>3. /\ encode(w.ranges, lastTimestampOut[p]) \in Seq(WireRange)
        /\ Coalesced(encode(w.ranges, lastTimestampOut[p]))
    BY <1>1, <1>2, CoalescedEncoded
  <1> QED
    BY <1>1, <1>2, <1>3, CoalescedJoin DEF Write

LEMMA SkipStepInv == SkipInv /\ [Next]_vars => SkipInv'
  <1> SUFFICES ASSUME SkipInv, [Next]_vars PROVE SkipInv'
    OBVIOUS
  <1>1. TypeOK /\ TypeOK'
    BY StepType DEF SkipInv
  <1>2. \A S : <<>> \in Seq(S) /\ Len(<<>>) = 0
    BY SMT
  <1>3. Coalesced(<<>>)
    <2>1. \A n \in 1 .. 0 : FALSE
      BY SMT
    <2> QED
      BY <1>2, <2>1 DEF Coalesced
  <1>4. Coalesced(fullOutput')
    <2>1. ASSUME NEW p \in Peer, ReconcileRange(p)
          PROVE  Coalesced(fullOutput')
      <3>1. PICK upper \in 0 .. Len(store[p]) :
               \/ SkipStep(p, upper)
               \/ /\ prevIndex <= upper
                  /\ \/ FingerprintMatches(p, upper)
                     \/ FingerprintDiffers(p, upper)
                     \/ IdListAtInitiator(p, upper)
                     \/ IdListAtResponder(p, upper)
        BY <1>1, <2>1, BranchTaken
      <3>2. active = p /\ query # <<>>
        BY <3>1 DEF SkipStep, FingerprintMatches, FingerprintDiffers,
                    IdListAtInitiator, IdListAtResponder, NextRange
      <3>3. Coalesced(fullOutput) /\ Nothing \in Output
            /\ Coalesced(Nothing.ranges)
        BY <1>1, <3>2, CoalescedPieces, OutputType DEF SkipInv
      <3>4. CASE EndRange(p, Nothing, Nothing, upper)
        BY <1>1, <3>2, <3>3, <3>4, EndRangeCoalesced
      <3>5. CASE prevIndex <= upper /\ FingerprintDiffers(p, upper)
        <4>1. EndRange(p, Nothing, doSkip \bullet Split(p, upper), upper)
          BY <3>5 DEF FingerprintDiffers
        <4>2. /\ doSkip \bullet Split(p, upper) \in Output
              /\ Coalesced((doSkip \bullet Split(p, upper)).ranges)
          BY <1>1, <3>2, <3>5, PiecesType, OutputType, CoalescedPieces
        <4> QED
          BY <1>1, <3>2, <3>3, <4>1, <4>2, EndRangeCoalesced
      <3>6. CASE prevIndex <= upper /\ IdListAtResponder(p, upper)
        <4>1. PICK end \in prevIndex .. upper :
                 EndRange(p, doSkip \bullet List(p, upper, end), Nothing, end)
          BY <3>6 DEF IdListAtResponder
        <4>2. end \in 0 .. Len(store[p])
          <5>1. prevIndex \in Nat /\ upper \in Nat
            BY <1>1, SMT DEF TypeOK
          <5> QED
            BY <5>1, SMT
        <4>3. /\ doSkip \bullet List(p, upper, end) \in Output
              /\ Coalesced((doSkip \bullet List(p, upper, end)).ranges)
          BY <1>1, <3>2, PiecesType, OutputType, CoalescedPieces
        <4> QED
          BY <1>1, <3>2, <3>3, <4>1, <4>2, <4>3, EndRangeCoalesced
      <3> QED
        BY <3>1, <3>4, <3>5, <3>6
        DEF SkipStep, FingerprintMatches, IdListAtInitiator
    <2>2. CASE fullOutput' = fullOutput \/ fullOutput' = <<>>
      BY <1>3, <2>2 DEF SkipInv
    <2> QED
      BY <2>1, <2>2
      DEF Next, Protocol, Terminated, StorageFails, BadRange, Initiate,
          Downgrade, RefuseVersion, Receive, ReturnAtResponder, Continue,
          Finish, ReturnAtInitiator, LeaveCall, DropLocals, Retry,
          ProbeNewerVersion, Timeout, Throw, Insert, Erase, EditStore,
          Recreate, vars, callVars
  <1>5. ASSUME NEW p \in Peer, NEW m \in ToSet(inbox'[p])
        PROVE  Coalesced(m.ranges)
    <2>1. Arrives(p, m)
      BY <1>1, Arrivals
    <2>2. CASE m \in ToSet(inbox[p])
      <3>1. \A i \in DOMAIN m.ranges :
               m.ranges[i].mode = "skip" =>
                  i < Len(m.ranges) /\ m.ranges[i + 1].mode # "skip"
        BY <2>2 DEF SkipInv, SkipsCoalesced
      <3>2. inbox[p] \in Seq(Message)
        BY <1>1 DEF TypeOK
      <3>3. m \in Message
        BY <2>2, <3>2, SMT DEF ToSet
      <3>4. DOMAIN m.ranges = 1 .. Len(m.ranges)
        BY <3>3, SMT DEF Message
      <3> QED
        BY <3>1, <3>4 DEF Coalesced
    <2>3. CASE Initiate /\ m.ranges = encode(splitRange(store[Client], 0,
                                Len(store[Client]), Infinity),
                                lastTimestampOut[Client])
      <3> DEFINE s == store[Client]
                 a == splitRange(s, 0, Len(s), Infinity)
      <3>1. /\ s \in Seq(Universe) /\ Sorted(s)
            /\ lastTimestampOut[Client] \in Timestamp
        BY <1>1 DEF TypeOK, Peer
      <3>2. /\ a \in Seq(PlainRange)
            /\ Exact(s, ZeroBound, a)
        <4>1. /\ Place(s, ZeroBound, 0) /\ Place(s, Infinity, Len(s))
              /\ 0 <= Len(s) /\ Infinity \preceq Infinity
          BY <3>1, Places, SMT DEF \preceq
        <4> QED
          BY <3>1, <4>1, Ends, SplitExact
      <3>3. Coalesced(a)
        BY <3>2 DEF Exact, Coalesced
      <3> HIDE DEF a
      <3>4. Coalesced(encode(a, lastTimestampOut[Client]))
        BY <3>1, <3>2, <3>3, CoalescedEncoded
      <3> QED
        BY <2>3, <3>4 DEF a
    <2> QED
      BY <1>3, <2>1, <2>2, <2>3 DEF Arrives, SkipInv
  <1>6. SkipsCoalesced'
    <2> SUFFICES ASSUME NEW p \in Peer, NEW m \in ToSet(inbox'[p]),
                        NEW i \in DOMAIN m.ranges, m.ranges[i].mode = "skip"
                 PROVE  i < Len(m.ranges) /\ m.ranges[i + 1].mode # "skip"
      BY DEF SkipsCoalesced
    <2>1. inbox'[p] \in Seq(Message)
      BY <1>1 DEF TypeOK
    <2>2. m \in Message
      BY <2>1, SMT DEF ToSet
    <2>3. DOMAIN m.ranges = 1 .. Len(m.ranges)
      BY <2>2, SMT DEF Message
    <2> QED
      BY <1>5, <2>3 DEF Coalesced
  <1> QED
    BY <1>1, <1>4, <1>6 DEF SkipInv

(* README, "Algorithm": in every message on its way adjacent Skip ranges   *)
(* are coalesced into one, and the last one is left implicit - for every   *)
(* storage, SubRange, frame limit, failure and edit.                       *)
THEOREM SkipsAreCoalesced == Spec => []SkipsCoalesced
  <1>1. Init => SkipInv
    <2> SUFFICES ASSUME Init PROVE SkipInv
      OBVIOUS
    <2>1. TypeOK
      BY InitType
    <2>2. ToSet(<<>>) = {} /\ Len(<<>>) = 0 /\ \A n \in 1 .. 0 : FALSE
      BY SMT DEF ToSet
    <2>3. SkipsCoalesced
      BY <2>2 DEF Init, SkipsCoalesced
    <2>4. Coalesced(fullOutput)
      BY <2>2 DEF Init, Coalesced
    <2> QED
      BY <2>1, <2>3, <2>4 DEF SkipInv
  <1>2. SkipInv => SkipsCoalesced
    BY DEF SkipInv
  <1> QED
    BY <1>1, <1>2, SkipStepInv, PTL DEF Spec

-----------------------------------------------------------------------------
(* What ranges mean.                                                       *)
(*                                                                         *)
(* The ranges of a message are the encoding of plain ranges a peer meant;  *)
(* the receiver reads them one by one.  Three things are said of them.     *)
(* Their bounds ascend - but the fingerprint of an empty rest may follow   *)
(* infinity.  A list, and the fingerprint of a peer without frame limit,   *)
(* hold the IDs its sender has there, but for those touched since.         *)

RestOfNothing == FingerprintRange(Infinity, {})

Ascends(a, from) ==
    \A n \in 1 .. Len(a) : /\ lowerOf(a, from, n) \prec a[n].upper
                          /\ a[n].upper \preceq Infinity

AscendsToEnd(a, from) ==
    \A n \in 1 .. Len(a) :
        \/ /\ lowerOf(a, from, n) \prec a[n].upper
           /\ a[n].upper \preceq Infinity
        \/ /\ n = Len(a)
           /\ lowerOf(a, from, n) = Infinity
           /\ a[n] = RestOfNothing

(* IDs of existing items between two bounds. *)
Located(ids, lower, upper) ==
    \A k \in ids : \E it \in Universe :
        it.id = k /\ lower \preceq it /\ it \prec upper

HonestRange(q, r, lower) ==
    /\ \/ r.mode = "idlist"
       \/ r.mode = "fingerprint" /\ frameSizeLimit[q] = 0
       => SameUntouched(r.ids, IdsBetween(q, lower, r.upper))
    /\ r.mode = "idlist" => Located(r.ids, lower, r.upper)

Honest(q, a, from) ==
    \A n \in 1 .. Len(a) : HonestRange(q, a[n], lowerOf(a, from, n))

(* x is the encoding of a, and a is what q meant. *)
Means(q, x, a, from) ==
    /\ a \in Seq(PlainRange)
    /\ x = encode(a, from.timestamp)
    /\ AscendsToEnd(a, from)
    /\ Honest(q, a, from)

(* An empty message means nothing. *)
LEMMA NothingMeant ==
    ASSUME NEW q, NEW from \in Bound
    PROVE  Means(q, <<>>, <<>>, from)
  <1>1. <<>> \in Seq(PlainRange) /\ Len(<<>>) = 0 /\ \A n \in 1 .. 0 : FALSE
    BY SMT
  <1>2. Encodes(encode(<<>>, from.timestamp), <<>>, from)
    BY <1>1, Encoded
  <1> DEFINE x == encode(<<>>, from.timestamp)
  <1> HIDE DEF x
  <1>3. x \in Seq(WireRange) /\ Len(x) = 0
    BY <1>1, <1>2 DEF Encodes, x
  <1>4. x = <<>>
    BY <1>3, SMT
  <1>5. AscendsToEnd(<<>>, from) /\ Honest(q, <<>>, from)
    BY <1>1 DEF AscendsToEnd, Honest
  <1> QED
    BY <1>1, <1>4, <1>5 DEF Means, x

(* No two bounds descend, so all are readable. *)
LEMMA AscendingReadable ==
    ASSUME NEW a \in Seq(PlainRange), NEW from \in Bound,
           AscendsToEnd(a, from)
    PROVE  Readable(a, from)
  <1> SUFFICES ASSUME NEW n \in 1 .. Len(a)
               PROVE  \/ a[n].upper.timestamp >= lowerOf(a, from, n).timestamp
                      \/ a[n].upper.timestamp = MAX_U64
    BY DEF Readable
  <1>1. a[n].upper \in Bound /\ lowerOf(a, from, n) \in Bound
    BY Encoded DEF Encodes
  <1>2. CASE lowerOf(a, from, n) \prec a[n].upper
    <2>1. /\ a[n].upper.timestamp \in 0 .. MAX_U64
          /\ lowerOf(a, from, n).timestamp \in 0 .. MAX_U64
      BY <1>1 DEF Bound, Timestamp
    <2> QED
      BY <1>2, <2>1, WidthAssumption, SMT DEF \prec
  <1>3. CASE a[n] = RestOfNothing
    BY <1>3 DEF RestOfNothing, FingerprintRange, Infinity
  <1> QED
    BY <1>2, <1>3 DEF AscendsToEnd

(* Meanings join. *)
LEMMA MeaningsJoin ==
    ASSUME NEW q, NEW a \in Seq(PlainRange), NEW b \in Seq(PlainRange),
           NEW from \in Bound
    PROVE  /\ a \o b \in Seq(PlainRange)
           /\ lastOf(a \o b, from) = lastOf(b, lastOf(a, from))
           /\ lastOf(a, from) \in Bound
           /\ Ascends(a, from) /\ Ascends(b, lastOf(a, from)) =>
                  Ascends(a \o b, from)
           /\ Ascends(a, from) /\ AscendsToEnd(b, lastOf(a, from)) =>
                  AscendsToEnd(a \o b, from)
           /\ Honest(q, a, from) /\ Honest(q, b, lastOf(a, from)) =>
                  Honest(q, a \o b, from)
  <1> DEFINE c == a \o b
             la == Len(a)
             lb == Len(b)
             last == lastOf(a, from)
  <1>1. Joins(c, a, b, from) /\ last \in Bound
    BY Joined, Encoded DEF Encodes
  <1> HIDE DEF c
  <1>2. /\ c \in Seq(PlainRange) /\ lastOf(c, from) = lastOf(b, last)
        /\ la \in Nat /\ lb \in Nat /\ Len(c) = la + lb
        /\ \A n \in 1 .. la :
              c[n] = a[n] /\ lowerOf(c, from, n) = lowerOf(a, from, n)
        /\ \A n \in 1 .. lb :
              c[la + n] = b[n] /\ lowerOf(c, from, la + n) = lowerOf(b, last, n)
    BY <1>1 DEF Joins
  <1> HIDE DEF la, lb, last
  <1>3. ASSUME NEW n \in 1 .. Len(c)
        PROVE  \/ n \in 1 .. la
               \/ /\ n - la \in 1 .. lb /\ la + (n - la) = n
                  /\ n - la = lb => n = Len(c)
    BY <1>2, SMT
  <1>4. ASSUME Ascends(a, from), Ascends(b, last)
        PROVE  Ascends(c, from)
    BY <1>2, <1>3, <1>4 DEF Ascends, la, lb
  <1>5. ASSUME Ascends(a, from), AscendsToEnd(b, last)
        PROVE  AscendsToEnd(c, from)
    <2> SUFFICES ASSUME NEW n \in 1 .. Len(c)
                 PROVE  \/ /\ lowerOf(c, from, n) \prec c[n].upper
                           /\ c[n].upper \preceq Infinity
                        \/ /\ n = Len(c)
                           /\ lowerOf(c, from, n) = Infinity
                           /\ c[n] = RestOfNothing
      BY DEF AscendsToEnd
    <2>1. CASE n \in 1 .. la
      <3>1. lowerOf(a, from, n) \prec a[n].upper /\ a[n].upper \preceq Infinity
        BY <1>5, <2>1 DEF Ascends, la
      <3> QED
        BY <1>2, <2>1, <3>1
    <2>2. CASE n \notin 1 .. la
      <3> DEFINE k == n - la
      <3>1. /\ k \in 1 .. lb /\ la + k = n
            /\ k = lb => n = Len(c)
        BY <1>3, <2>2
      <3> HIDE DEF k
      <3>2. c[n] = b[k] /\ lowerOf(c, from, n) = lowerOf(b, last, k)
        BY <1>2, <3>1
      <3>3. \/ /\ lowerOf(b, last, k) \prec b[k].upper
               /\ b[k].upper \preceq Infinity
            \/ /\ k = lb
               /\ lowerOf(b, last, k) = Infinity
               /\ b[k] = RestOfNothing
        BY <1>5, <3>1 DEF AscendsToEnd, lb
      <3> QED
        BY <3>1, <3>2, <3>3
    <2> QED
      BY <2>1, <2>2
  <1>6. ASSUME Honest(q, a, from), Honest(q, b, last)
        PROVE  Honest(q, c, from)
    BY <1>2, <1>3, <1>6 DEF Honest, la, lb
  <1> QED
    BY <1>1, <1>2, <1>4, <1>5, <1>6 DEF c, last

(* A single range.                                                         *)
LEMMA OneRange ==
    ASSUME NEW r \in PlainRange, NEW from
    PROVE  /\ <<r>> \in Seq(PlainRange) /\ <<r>> # <<>>
           /\ Len(<<r>>) = 1 /\ <<r>>[1] = r
           /\ \A n \in 1 .. Len(<<r>>) : n = 1
           /\ lowerOf(<<r>>, from, 1) = from
           /\ lastOf(<<r>>, from) = r.upper
  <1>1. /\ <<r>> \in Seq(PlainRange) /\ <<r>> # <<>>
        /\ Len(<<r>>) = 1 /\ <<r>>[1] = r
        /\ \A n \in 1 .. 1 : n = 1
    BY SMT
  <1> QED
    BY <1>1 DEF lowerOf, lastOf

(* Exact ranges are honest, and ascend. *)
LEMMA StoredBetween ==
    ASSUME NEW q, store[q] \in Seq(Universe), NEW lower, NEW upper
    PROVE  Located(IdsBetween(q, lower, upper), lower, upper)
  <1>1. ToSet(store[q]) \subseteq Universe
    BY SMT DEF ToSet
  <1> QED
    BY <1>1 DEF Located, IdsBetween

LEMMA ExactMeans ==
    ASSUME NEW q, store[q] \in Seq(Universe), NEW a, NEW from,
           Exact(store[q], from, a)
    PROVE  Ascends(a, from) /\ AscendsToEnd(a, from) /\ Honest(q, a, from)
  <1>1. Ascends(a, from) /\ AscendsToEnd(a, from)
    BY DEF Exact, Ascends, AscendsToEnd
  <1>2. ASSUME NEW n \in 1 .. Len(a)
        PROVE  HonestRange(q, a[n], lowerOf(a, from, n))
    <2>1. a[n].ids = IdsBetween(q, lowerOf(a, from, n), a[n].upper)
      BY <1>2 DEF Exact, IdsBetween, IdsOfBetween
    <2> QED
      BY <2>1, StoredBetween DEF HonestRange, SameUntouched
  <1> QED
    BY <1>1, <1>2 DEF Honest

(* The first range, and what is left without it.                           *)
LEMMA MeaningsRest ==
    ASSUME NEW q, NEW a \in Seq(PlainRange), a # <<>>, NEW from \in Bound,
           Means(q, encode(a, from.timestamp), a, from)
    PROVE  /\ a[1] \in PlainRange /\ a[1].upper \in Bound
           /\ \/ from \prec a[1].upper /\ a[1].upper \preceq Infinity
              \/ from = Infinity /\ a[1] = RestOfNothing /\ Tail(a) = <<>>
           /\ HonestRange(q, a[1], from)
           /\ LET x == encode(a, from.timestamp)
              IN  /\ decodeBound(Head(x), from.timestamp) = a[1].upper
                  /\ Head(x).mode = a[1].mode
                  /\ Head(x).ids = a[1].ids
                  /\ Means(q, Tail(x), Tail(a), a[1].upper)
  <1> DEFINE b == Tail(a)
  <1>1. /\ AscendsToEnd(a, from) /\ Honest(q, a, from)
        /\ Rests(b, a, from) /\ Readable(a, from)
    BY AscendingReadable, Rested DEF Means
  <1>2. /\ a[1] \in PlainRange /\ a[1].upper \in Bound
        /\ 1 \in 1 .. Len(a) /\ lowerOf(a, from, 1) = from
    BY <1>1 DEF Rests, PlainRange
  <1>3. \/ from \prec a[1].upper /\ a[1].upper \preceq Infinity
        \/ from = Infinity /\ a[1] = RestOfNothing /\ b = <<>>
    <2>1. b \in Seq(PlainRange) /\ Len(b) = Len(a) - 1
      BY <1>1 DEF Rests
    <2> HIDE DEF b
    <2>2. CASE 1 = Len(a)
      <3>1. Len(b) = 0
        BY <1>1, <2>1, <2>2, SMT DEF Rests
      <3>2. b = <<>>
        BY <2>1, <3>1, SMT
      <3> QED
        BY <1>1, <1>2, <3>2 DEF AscendsToEnd
    <2> QED
      BY <1>1, <1>2, <2>2 DEF AscendsToEnd
  <1>4. HonestRange(q, a[1], from)
    BY <1>1, <1>2 DEF Honest
  <1>5. \/ a[1].upper.timestamp >= from.timestamp
        \/ a[1].upper.timestamp = MAX_U64
    BY <1>1, <1>2 DEF Readable
  <1> DEFINE x == encode(a, from.timestamp)
  <1>6. /\ decodeBound(Head(x), from.timestamp) = a[1].upper
        /\ Head(x).mode = a[1].mode
        /\ Head(x).ids = a[1].ids
        /\ Tail(x) = encode(b, a[1].upper.timestamp)
    BY <1>5, DecodeHead
  <1> HIDE DEF b, x
  <1>7. /\ b \in Seq(PlainRange) /\ Len(b) = Len(a) - 1 /\ Len(a) \in Nat
        /\ \A n \in 1 .. Len(b) :
              /\ n + 1 \in 1 .. Len(a)
              /\ b[n] = a[n + 1]
              /\ lowerOf(b, a[1].upper, n) = lowerOf(a, from, n + 1)
    BY <1>1 DEF Rests
  <1>8. AscendsToEnd(b, a[1].upper)
    <2>1. \A n \in 1 .. Len(b) : n + 1 = Len(a) => n = Len(b)
      BY <1>7, SMT
    <2> QED
      BY <1>1, <1>7, <2>1 DEF AscendsToEnd
  <1>9. Honest(q, b, a[1].upper)
    BY <1>1, <1>7 DEF Honest
  <1>10. Means(q, Tail(x), b, a[1].upper)
    BY <1>6, <1>7, <1>8, <1>9 DEF Means
  <1> QED
    BY <1>2, <1>3, <1>4, <1>6, <1>10 DEF b, x

NoBases == \A b \in Bases : \A p \in Peer : b[p] = {}

-----------------------------------------------------------------------------
(* The invariant of a call.                                                *)

(* What is left of the query is the encoding of a, of which the other peer *)
(* meant every range; the part that is read ends at prevBound, left of     *)
(* which are the storage's first prevIndex items.                          *)
Reading(p, a) ==
    /\ Means(other(p), query, a, prevBound)
    /\ query # <<>> => /\ lastTimestampIn[p] = prevBound.timestamp
                       /\ Place(store[p], prevBound, prevIndex)

(* The output is the encoding of out, which is true of p's storage.  It    *)
(* has reached prevBound, or will with the skip that is due; a full frame  *)
(* ends it.                                                                *)
Written(p, out) ==
    /\ Means(p, fullOutput, out, ZeroBound)
    /\ lastTimestampOut[p] = lastOf(out, ZeroBound).timestamp
    /\ query # <<>> => /\ Ascends(out, ZeroBound)
                       /\ skip => lastOf(out, ZeroBound) \prec prevBound
                       /\ ~skip => lastOf(out, ZeroBound) = prevBound

(* What a turn learns of the range it reads, the first one of a.           *)
ReadsHead(p, a, upper) ==
    /\ active = p /\ query # <<>> /\ a # <<>>
    /\ currBound(p) = a[1].upper /\ currBound(p) \in Bound
    /\ Head(query).mode = a[1].mode /\ Head(query).ids = a[1].ids
    /\ \/ prevBound \prec currBound(p) /\ currBound(p) \preceq Infinity
       \/ /\ prevBound = Infinity /\ a[1] = RestOfNothing
          /\ Tail(query) = <<>>
    /\ prevIndex \in Nat /\ upper \in prevIndex .. Len(store[p])
    /\ Place(store[p], prevBound, prevIndex)
    /\ Place(store[p], currBound(p), upper)
    /\ IdsIn(store[p], prevIndex, upper)
          = IdsBetween(p, prevBound, currBound(p))
    /\ HonestRange(other(p), a[1], prevBound)
    /\ Tail(a) \in Seq(PlainRange)
    /\ Means(other(p), Tail(query), Tail(a), currBound(p))

LEMMA OtherPeer ==
    ASSUME NEW p \in Peer
    PROVE  other(p) \in Peer /\ other(other(p)) = p
  BY PeerAssumption DEF other, Peer

LEMMA HeadRead ==
    ASSUME NoBases, TypeOK, NEW p \in Peer, NEW a, Reading(p, a),
           NEW mode, NEW upper, NextRange(p, mode, upper)
    PROVE  ReadsHead(p, a, upper)
  <1>1. /\ active = p /\ query # <<>>
        /\ storageLowerBound(p, prevIndex, currBound(p), upper)
    BY DEF NextRange
  <1>2. /\ a \in Seq(PlainRange) /\ query = encode(a, prevBound.timestamp)
        /\ Means(other(p), query, a, prevBound)
        /\ lastTimestampIn[p] = prevBound.timestamp
        /\ Place(store[p], prevBound, prevIndex)
        /\ prevBound \in Bound
        /\ store[p] \in Seq(Universe)
    BY <1>1 DEF Reading, Means, TypeOK
  <1>3. a # <<>>
    <2>1. Encodes(query, a, prevBound)
      BY <1>2, Encoded
    <2>2. Len(query) = Len(a) /\ query \in Seq(WireRange)
      BY <2>1 DEF Encodes
    <2>3. CASE a = <<>>
      <3>1. Len(query) = 0
        BY <2>2, <2>3, SMT
      <3>2. query = <<>>
        BY <2>2, <3>1, SMT
      <3> QED
        BY <1>1, <3>2
    <2> QED
      BY <2>3
  <1>4. /\ a[1] \in PlainRange /\ a[1].upper \in Bound
        /\ \/ prevBound \prec a[1].upper /\ a[1].upper \preceq Infinity
           \/ prevBound = Infinity /\ a[1] = RestOfNothing /\ Tail(a) = <<>>
        /\ HonestRange(other(p), a[1], prevBound)
        /\ decodeBound(Head(query), prevBound.timestamp) = a[1].upper
        /\ Head(query).mode = a[1].mode
        /\ Head(query).ids = a[1].ids
        /\ Means(other(p), Tail(query), Tail(a), a[1].upper)
    BY <1>2, <1>3, MeaningsRest
  <1>5. currBound(p) = a[1].upper
    BY <1>2, <1>4 DEF currBound
  <1>6. findLowerBound(store[p], prevIndex, currBound(p), upper)
    <2>1. base[p] = {}
      BY DEF NoBases, TypeOK
    <2> QED
      BY <1>1, <2>1 DEF storageLowerBound
  <1>7. prevBound \prec currBound(p) \/ prevBound = currBound(p)
    BY <1>4, <1>5 DEF RestOfNothing, FingerprintRange
  <1>8. Place(store[p], currBound(p), upper) /\ prevIndex <= upper
    BY <1>2, <1>4, <1>5, <1>6, <1>7, LowerBoundPlace
  <1>9. prevIndex \in Nat /\ upper \in prevIndex .. Len(store[p])
    BY <1>6 DEF findLowerBound, TypeOK
  <1>10. IdsIn(store[p], prevIndex, upper)
            = IdsOfBetween(store[p], prevBound, currBound(p))
    BY <1>2, <1>4, <1>5, <1>8, PlacedIds
  <1>11. /\ Tail(a) \in Seq(PlainRange)
         /\ Tail(a) = <<>> => Tail(query) = <<>>
    <2>1. <<>> = encode(<<>>, a[1].upper.timestamp)
      BY <1>4, NothingMeant DEF Means
    <2> QED
      BY <1>4, <2>1 DEF Means
  <1> QED
    BY <1>1, <1>2, <1>3, <1>4, <1>5, <1>8, <1>9, <1>10, <1>11
    DEF ReadsHead, IdsBetween, IdsOfBetween

(* Nothing these formulas speak of changes during a call. *)
Still == UNCHANGED <<frameSizeLimit, store, touched>>

LEMMA StillHonest ==
    ASSUME Still, NEW q, NEW a, NEW from, Honest(q, a, from)
    PROVE  Honest(q, a, from)'
  BY DEF Still, Honest, HonestRange, SameUntouched, IdsBetween

(* The range is read, the rest of the query is as it was. *)
LEMMA ReadOn ==
    ASSUME Still, NEW p \in Peer, NEW a, NEW upper, ReadsHead(p, a, upper),
           query' = Tail(query), prevBound' = currBound(p),
           prevIndex' = upper, lastTimestampIn'[p] = currBound(p).timestamp
    PROVE  Reading(p, Tail(a))'
  <1> DEFINE b == Tail(a)
             q == other(p)
             cur == currBound(p)
  <1>1. Means(q, Tail(query), b, cur) /\ Place(store[p], cur, upper)
    BY DEF ReadsHead
  <1>2. Means(q, query, b, prevBound)'
    <2>1. /\ b \in Seq(PlainRange) /\ Tail(query) = encode(b, cur.timestamp)
          /\ AscendsToEnd(b, cur) /\ Honest(q, b, cur)
      BY <1>1 DEF Means
    <2>2. Honest(q, b, prevBound)'
      <3> HIDE DEF b, cur
      <3> QED
        BY <2>1 DEF Still, Honest, HonestRange, SameUntouched, IdsBetween, cur
    <2> HIDE DEF b
    <2> QED
      BY <2>1, <2>2 DEF Means
  <1>3. Place(store[p], prevBound, prevIndex)'
    BY <1>1 DEF Still, Place
  <1> QED
    BY <1>2, <1>3 DEF Reading

(* The rest of the query is dropped. *)
LEMMA ReadNoMore ==
    ASSUME TypeOK', NEW p, query' = <<>>
    PROVE  Reading(p, <<>>)'
  <1>1. prevBound' \in Bound
    BY DEF TypeOK
  <1>2. <<>> = encode(<<>>, prevBound'.timestamp) /\ <<>> \in Seq(PlainRange)
    BY <1>1, NothingMeant DEF Means
  <1>3. Len(<<>>) = 0 /\ \A n \in 1 .. 0 : FALSE
    BY SMT
  <1> QED
    BY <1>2, <1>3 DEF Reading, Means, AscendsToEnd, Honest

-----------------------------------------------------------------------------
(* What a turn writes.                                                     *)

(* Ranges b continue the true output out. *)
Continues(p, out, b) ==
    /\ b \in Seq(PlainRange)
    /\ AscendsToEnd(b, lastOf(out, ZeroBound))
    /\ Honest(p, b, lastOf(out, ZeroBound))

LEMMA WriteMeans ==
    ASSUME Still, TypeOK, NEW p \in Peer, NEW out, NEW o \in Output,
           Means(p, fullOutput, out, ZeroBound), Ascends(out, ZeroBound),
           lastTimestampOut[p] = lastOf(out, ZeroBound).timestamp,
           Continues(p, out, o.ranges), Write(p, o)
    PROVE  /\ Means(p, fullOutput, out \o o.ranges, ZeroBound)'
           /\ lastTimestampOut'[p]
                 = lastOf(out \o o.ranges, ZeroBound).timestamp
  <1> DEFINE b == o.ranges
             last == lastOf(out, ZeroBound)
  <1>1. /\ out \in Seq(PlainRange) /\ b \in Seq(PlainRange)
        /\ ZeroBound \in Bound /\ ZeroBound.timestamp = 0
        /\ fullOutput = encode(out, 0)
        /\ Honest(p, out, ZeroBound)
        /\ AscendsToEnd(b, last) /\ Honest(p, b, last)
    BY Ends DEF Means, Continues, ZeroBound
  <1>2. last \in Bound
    BY <1>1, MeaningsJoin
  <1> HIDE DEF b, last
  <1>3. /\ out \o b \in Seq(PlainRange)
        /\ lastOf(out \o b, ZeroBound) = lastOf(b, last)
        /\ AscendsToEnd(out \o b, ZeroBound)
        /\ Honest(p, out \o b, ZeroBound)
    BY <1>1, MeaningsJoin DEF last
  <1>4. fullOutput' = encode(out, 0) \o encode(b, last.timestamp)
    BY <1>1 DEF Write, b, last
  <1>5. encode(out \o b, 0) = encode(out, 0) \o encode(b, last.timestamp)
    BY <1>1, EncodeJoined DEF last
  <1>6. lastTimestampOut'[p] = lastTimestampAfter(b, last.timestamp)
    BY DEF Write, TypeOK, b, last
  <1>7. lastTimestampAfter(b, last.timestamp) = lastOf(b, last).timestamp
    BY <1>1, <1>2, Encoded DEF Encodes
  <1>8. Honest(p, out \o b, ZeroBound)'
    <2> DEFINE c == out \o b
    <2>1. Honest(p, c, ZeroBound)
      BY <1>3
    <2> HIDE DEF c
    <2>2. Honest(p, c, ZeroBound)'
      BY <2>1 DEF Still, Honest, HonestRange, SameUntouched, IdsBetween
    <2> QED
      BY <2>2 DEF c
  <1> QED
    BY <1>1, <1>3, <1>4, <1>5, <1>6, <1>7, <1>8 DEF Means, b

LEMMA AscendsFully ==
    ASSUME NEW a, NEW from, Ascends(a, from)
    PROVE  AscendsToEnd(a, from)
  BY DEF Ascends, AscendsToEnd

(* How far the output is.                                                  *)
LEMMA Reached ==
    ASSUME TypeOK, NEW p \in Peer, NEW out, Written(p, out),
           NEW a, NEW upper, ReadsHead(p, a, upper)
    PROVE  LET last == lastOf(out, ZeroBound)
           IN  /\ last \in Bound /\ last \preceq prevBound
               /\ prevBound \in Bound /\ prevBound \preceq Infinity
               /\ last \preceq Infinity
               /\ Tail(query) # <<>> =>
                      /\ last \prec currBound(p)
                      /\ prevBound \prec currBound(p)
  <1> DEFINE last == lastOf(out, ZeroBound)
             cur  == currBound(p)
  <1>1. /\ out \in Seq(PlainRange) /\ ZeroBound \in Bound
        /\ Infinity \in Bound /\ prevBound \in Bound /\ cur \in Bound
    BY Ends DEF Written, Means, ReadsHead, TypeOK
  <1>2. last \in Bound
    BY <1>1, MeaningsJoin
  <1>3. last \prec prevBound \/ last = prevBound
    BY DEF Written, ReadsHead
  <1>4. \/ prevBound \prec cur /\ (cur \prec Infinity \/ cur = Infinity)
        \/ prevBound = Infinity /\ Tail(query) = <<>>
    BY DEF ReadsHead, \preceq
  <1> HIDE DEF last, cur
  <1>5. \A x, y, z \in Bound : x \prec y /\ y \prec z => x \prec z
    BY Order
  <1>6. prevBound \prec Infinity \/ prevBound = Infinity
    BY <1>1, <1>4, <1>5
  <1>7. last \prec Infinity \/ last = Infinity
    BY <1>1, <1>2, <1>3, <1>5, <1>6
  <1>8. prevBound \prec cur => last \prec cur
    BY <1>1, <1>2, <1>3, <1>5
  <1> QED
    BY <1>1, <1>2, <1>3, <1>4, <1>6, <1>7, <1>8 DEF last, cur, \preceq

(* The skip that is due, and what follows it.                              *)
LEMMA Answered ==
    ASSUME TypeOK, NEW p \in Peer, NEW out, Written(p, out),
           NEW a, NEW upper, ReadsHead(p, a, upper),
           NEW main \in Seq(PlainRange), Ascends(main, prevBound),
           Honest(p, main, prevBound)
    PROVE  LET c == doSkip.ranges \o main
           IN  /\ Continues(p, out, c)
               /\ Ascends(c, lastOf(out, ZeroBound))
               /\ lastOf(c, lastOf(out, ZeroBound)) = lastOf(main, prevBound)
  <1> DEFINE last == lastOf(out, ZeroBound)
             b == doSkip.ranges
  <1>1. /\ last \in Bound /\ prevBound \in Bound
        /\ prevBound \preceq Infinity
    BY Reached
  <1>2. /\ b \in Seq(PlainRange) /\ Ascends(b, last) /\ Honest(p, b, last)
        /\ lastOf(b, last) = prevBound
    <2>1. CASE ~skip
      <3>1. b = <<>>
        BY <2>1 DEF doSkip, Nothing
      <3>2. last = prevBound
        BY <2>1 DEF Written, ReadsHead
      <3>3. <<>> \in Seq(PlainRange) /\ Len(<<>>) = 0 /\ \A n \in 1 .. 0 : FALSE
        BY SMT
      <3> HIDE DEF last, b
      <3> QED
        BY <3>1, <3>2, <3>3 DEF Ascends, Honest, lastOf
    <2>2. CASE skip
      <3> DEFINE r == SkipRange(prevBound)
      <3>1. b = <<r>> /\ r.mode = "skip" /\ r.upper = prevBound
        BY <2>2 DEF doSkip, SkipRange
      <3>2. r \in PlainRange
        BY DEF SkipRange, PlainRange, Mode, TypeOK
      <3>3. last \prec prevBound
        BY <2>2 DEF Written, ReadsHead
      <3> HIDE DEF last, b, r
      <3>4. /\ <<r>> \in Seq(PlainRange) /\ Len(<<r>>) = 1 /\ <<r>>[1] = r
            /\ \A n \in 1 .. Len(<<r>>) : n = 1
            /\ lowerOf(<<r>>, last, 1) = last
            /\ lastOf(<<r>>, last) = r.upper
        BY <3>2, OneRange
      <3>5. Ascends(b, last)
        BY <1>1, <3>1, <3>3, <3>4 DEF Ascends
      <3>6. Honest(p, b, last)
        BY <3>1, <3>4 DEF Honest, HonestRange
      <3> QED
        BY <3>1, <3>4, <3>5, <3>6
    <2> QED
      BY <2>1, <2>2
  <1> HIDE DEF last, b
  <1>3. /\ b \o main \in Seq(PlainRange)
        /\ lastOf(b \o main, last) = lastOf(main, prevBound)
        /\ Ascends(b \o main, last)
        /\ Honest(p, b \o main, last)
    BY <1>1, <1>2, MeaningsJoin
  <1>4. AscendsToEnd(b \o main, last)
    BY <1>3, AscendsFully
  <1> QED
    BY <1>3, <1>4 DEF Continues, b, last

(* The fingerprint of the rest, which only a frame limit adds.             *)
LEMMA RestContinues ==
    ASSUME TypeOK, NEW p \in Peer, active = p, query # <<>>,
           frameSizeLimit[p] # 0,
           NEW upper \in 0 .. Len(store[p]), NEW last \in Bound,
           \/ last \prec Infinity
           \/ last = Infinity /\ upper = Len(store[p])
    PROVE  /\ Rest(p, upper).ranges \in Seq(PlainRange)
           /\ AscendsToEnd(Rest(p, upper).ranges, last)
           /\ Honest(p, Rest(p, upper).ranges, last)
  <1> DEFINE r == FingerprintRange(Infinity,
                      FingerprintOf(store[p], upper, Len(store[p])))
  <1>1. Rest(p, upper).ranges = <<r>>
    BY DEF Rest
  <1>2. Rest(p, upper).ranges \in Seq(PlainRange)
    BY PiecesType DEF Output
  <1>3. r \in PlainRange
    <2>1. store[p] \in Seq(Universe)
      BY DEF TypeOK
    <2>2. /\ Len(store[p]) \in 0 .. Len(store[p]) /\ upper \in Nat
      BY <2>1, SMT
    <2>3. IdsIn(store[p], upper, Len(store[p])) \in SUBSET Id
      BY <2>1, <2>2, IdsInType
    <2> QED
      BY <2>3, Ends DEF FingerprintRange, FingerprintOf, PlainRange, Mode
  <1>4. r.upper = Infinity /\ r.mode = "fingerprint"
    BY DEF FingerprintRange
  <1>5. upper = Len(store[p]) => r = RestOfNothing
    <2>1. ASSUME upper = Len(store[p])
          PROVE  IdsIn(store[p], upper, Len(store[p])) = {}
      <3>1. Len(store[p]) \in Nat
        BY SMT DEF TypeOK
      <3>2. (upper + 1) .. Len(store[p]) = {}
        BY <2>1, <3>1, SMT
      <3> QED
        BY <3>2 DEF IdsIn
    <2> QED
      BY <2>1 DEF RestOfNothing, FingerprintOf
  <1> HIDE DEF r
  <1>6. /\ Len(<<r>>) = 1 /\ <<r>>[1] = r
        /\ \A n \in 1 .. Len(<<r>>) : n = 1
        /\ lowerOf(<<r>>, last, 1) = last
    BY <1>3, OneRange
  <1>7. AscendsToEnd(<<r>>, last)
    BY <1>4, <1>5, <1>6 DEF AscendsToEnd, \preceq
  <1>8. Honest(p, <<r>>, last)
    BY <1>4, <1>6 DEF Honest, HonestRange
  <1> QED
    BY <1>1, <1>2, <1>7, <1>8

-----------------------------------------------------------------------------
(* The turns of the loop.                                                  *)

(* The turn of a range that needs no answer.  No frame is exceeded then:   *)
(* FrameInv says that it was not before.                                   *)
LEMMA QuietTurn ==
    ASSUME FrameInv, TypeOK', Still, NEW p \in Peer,
           NEW a, NEW upper, ReadsHead(p, a, upper),
           NEW out, Written(p, out),
           skip' = TRUE, lastTimestampIn'[p] = currBound(p).timestamp,
           EndRange(p, Nothing, Nothing, upper)
    PROVE  Reading(p, Tail(a))' /\ Written(p, out)'
  <1> DEFINE last == lastOf(out, ZeroBound)
  <1>1. TypeOK /\ outputSize \in Nat /\ fullOutput \in Seq(WireRange)
        /\ lastTimestampOut[p] \in Timestamp
        /\ lastTimestampOut \in [Peer -> Timestamp]
    BY DEF FrameInv, TypeOK
  <1>2. ~exceededFrameSizeLimit(p, outputSize + Nothing.size + Nothing.size)
    <2>1. frameSizeLimit[p] # 0 => ~exceededFrameSizeLimit(p, outputSize)
      BY PeerAssumption DEF FrameInv, CallWithinFrameLimit, ReadsHead, Peer
    <2>2. outputSize + Nothing.size + Nothing.size = outputSize
      BY <1>1, SMT DEF Nothing
    <2> QED
      BY <2>1, <2>2 DEF exceededFrameSizeLimit
  <1>3. /\ Write(p, Nothing \bullet Nothing)
        /\ query' = Tail(query)
        /\ prevIndex' = upper
        /\ prevBound' = currBound(p)
    BY <1>2 DEF EndRange
  <1>4. Reading(p, Tail(a))'
    BY <1>3, ReadOn
  <1>5. fullOutput' = fullOutput /\ lastTimestampOut' = lastTimestampOut
    <2>1. /\ (Nothing \bullet Nothing).ranges = <<>> \o <<>>
          /\ <<>> \o <<>> = <<>>
      BY SMT DEF \bullet, Nothing
    <2>2. encode(<<>>, lastTimestampOut[p]) = <<>>
      <3>1. /\ <<>> \in Seq(PlainRange)
            /\ Len(<<>>) = 0
        BY SMT
      <3>2. /\ encode(<<>>, lastTimestampOut[p]) \in Seq(WireRange)
            /\ Len(encode(<<>>, lastTimestampOut[p])) = 0
        BY <1>1, <3>1, EncodeType
      <3> QED
        BY <3>2, SMT
    <2>3. fullOutput \o <<>> = fullOutput
      BY <1>1, SMT
    <2>4. lastTimestampAfter(<<>>, lastTimestampOut[p]) = lastTimestampOut[p]
      BY DEF lastTimestampAfter
    <2> QED
      BY <1>1, <1>3, <2>1, <2>2, <2>3, <2>4 DEF Write
  <1>6. Written(p, out)'
    <2>1. Means(p, fullOutput, out, ZeroBound)
          /\ lastTimestampOut[p] = last.timestamp
          /\ Ascends(out, ZeroBound)
      BY DEF Written, ReadsHead
    <2>2. Means(p, fullOutput, out, ZeroBound)'
      <3>1. Honest(p, out, ZeroBound)'
        BY <2>1, StillHonest DEF Means
      <3> QED
        BY <1>5, <2>1, <3>1 DEF Means
    <2>3. query' # <<>> => last \prec prevBound'
      BY <1>1, <1>3, Reached
    <2> QED
      BY <1>5, <2>1, <2>2, <2>3 DEF Written
  <1> QED
    BY <1>4, <1>6

(* The turn of a range that is answered up to its bound by the ranges of   *)
(* main. *)
LEMMA AnswerTurn ==
    ASSUME TypeOK, TypeOK', Still, NEW p \in Peer,
           NEW a, NEW upper, ReadsHead(p, a, upper),
           NEW out, Written(p, out),
           NEW main \in Seq(PlainRange), Ascends(main, prevBound),
           Honest(p, main, prevBound),
           lastOf(main, prevBound) = currBound(p),
           NEW w \in Output, w.ranges = doSkip.ranges \o main, Write(p, w),
           skip' = FALSE, lastTimestampIn'[p] = currBound(p).timestamp,
           query' = Tail(query), prevBound' = currBound(p),
           prevIndex' = upper
    PROVE  Reading(p, Tail(a))' /\ Written(p, out \o w.ranges)'
  <1>1. Reading(p, Tail(a))'
    BY ReadOn
  <1> DEFINE last == lastOf(out, ZeroBound)
             c == w.ranges
  <1>2. /\ Continues(p, out, c) /\ Ascends(c, last)
        /\ lastOf(c, last) = currBound(p)
    BY Answered
  <1>3. /\ Means(p, fullOutput, out, ZeroBound)
        /\ Ascends(out, ZeroBound)
        /\ lastTimestampOut[p] = last.timestamp
    BY DEF Written, ReadsHead
  <1>4. /\ Means(p, fullOutput, out \o c, ZeroBound)'
        /\ lastTimestampOut'[p] = lastOf(out \o c, ZeroBound).timestamp
    BY <1>2, <1>3, WriteMeans
  <1>5. /\ Ascends(out \o c, ZeroBound)
        /\ lastOf(out \o c, ZeroBound) = currBound(p)
    <2>1. /\ out \in Seq(PlainRange) /\ c \in Seq(PlainRange)
          /\ ZeroBound \in Bound
      BY <1>2, <1>3, Ends DEF Means, Continues
    <2> HIDE DEF c
    <2> QED
      BY <1>2, <1>3, <2>1, MeaningsJoin
  <1> HIDE DEF c, last
  <1> DEFINE d == out \o c
  <1>6. Written(p, d)'
    <2>1. /\ Means(p, fullOutput, d, ZeroBound)'
          /\ lastTimestampOut'[p] = lastOf(d, ZeroBound).timestamp
          /\ Ascends(d, ZeroBound)
          /\ lastOf(d, ZeroBound) = prevBound'
      BY <1>4, <1>5
    <2> HIDE DEF d
    <2> QED
      BY <2>1 DEF Written
  <1> QED
    BY <1>1, <1>6 DEF c, d

(* The turn that fills the frame.                                          *)
LEMMA LastTurn ==
    ASSUME TypeOK, TypeOK', Still, NEW p \in Peer, query # <<>>,
           NEW out, Written(p, out), NEW w \in Output,
           Continues(p, out, w.ranges), Write(p, w), query' = <<>>
    PROVE  Reading(p, <<>>)' /\ Written(p, out \o w.ranges)'
  <1>1. Reading(p, <<>>)'
    BY ReadNoMore
  <1>2. /\ Means(p, fullOutput, out, ZeroBound)
        /\ Ascends(out, ZeroBound)
        /\ lastTimestampOut[p] = lastOf(out, ZeroBound).timestamp
    BY DEF Written
  <1> DEFINE d == out \o w.ranges
  <1>3. /\ Means(p, fullOutput, d, ZeroBound)'
        /\ lastTimestampOut'[p] = lastOf(d, ZeroBound).timestamp
    BY <1>2, WriteMeans
  <1> HIDE DEF d
  <1>4. Written(p, d)'
    BY <1>3 DEF Written
  <1> QED
    BY <1>1, <1>4 DEF d

(* What holds of a running call before and after every turn.               *)
Turned(p) == /\ \E a : Reading(p, a)
             /\ \E out : Written(p, out)

(* The first range of a is answered in full, by the ranges of main after   *)
(* the skip that is due.                                                   *)
Answers(p, a, out) ==
    \E main \in Seq(PlainRange), c \in Seq(PlainRange) :
        /\ Ascends(main, prevBound)
        /\ lastOf(main, prevBound) = currBound(p)
        /\ \A n \in 1 .. Len(main) : main[n].mode # "skip"
        /\ c = doSkip.ranges \o main
        /\ Reading(p, Tail(a))'
        /\ Written(p, out \o c)'

LEMMA FingerprintTurn ==
    ASSUME FrameInv, TypeOK', Still, NEW p \in Peer,
           NEW a, NEW upper, ReadsHead(p, a, upper),
           NEW out, Written(p, out),
           lastTimestampIn'[p] = currBound(p).timestamp,
           FingerprintDiffers(p, upper)
    PROVE  /\ Turned(p)'
           /\ frameSizeLimit[p] = 0 => Answers(p, a, out)
  <1> DEFINE last == lastOf(out, ZeroBound)
             cur  == currBound(p)
             main == splitRange(store[p], prevIndex, upper, cur)
  <1>1. /\ TypeOK /\ skip' = FALSE
        /\ EndRange(p, Nothing, doSkip \bullet Split(p, upper), upper)
        /\ Head(query).mode = "fingerprint"
        /\ Head(query).ids # FingerprintOf(store[p], prevIndex, upper)
    BY DEF FingerprintDiffers, FrameInv, NextRange
  <1>2. /\ active = p /\ query # <<>>
        /\ prevIndex \in Nat /\ prevIndex <= upper
        /\ upper \in 0 .. Len(store[p]) /\ upper \in Nat
    <2>1. prevIndex \in Nat /\ upper \in prevIndex .. Len(store[p])
          /\ Len(store[p]) \in Nat
      BY <1>1, SMT DEF ReadsHead, TypeOK
    <2> QED
      BY <2>1, SMT DEF ReadsHead
  <1>3. prevBound \prec cur /\ cur \preceq Infinity
    <2>1. CASE prevBound = Infinity /\ a[1] = RestOfNothing
      <3>1. Head(query).ids = {} /\ cur = Infinity
        BY <2>1 DEF ReadsHead, RestOfNothing, FingerprintRange
      <3>2. IdsIn(store[p], prevIndex, upper) = IdsBetween(p, Infinity, Infinity)
        BY <2>1, <3>1 DEF ReadsHead
      <3>3. IdsBetween(p, Infinity, Infinity) = {}
        <4>1. \A it \in Universe : ~(Infinity \preceq it /\ it \prec Infinity)
          BY Order, Ends DEF \preceq
        <4>2. ToSet(store[p]) \subseteq Universe
          BY <1>1, SMT DEF ToSet, TypeOK
        <4> QED
          BY <4>1, <4>2 DEF IdsBetween
      <3> QED
        BY <1>1, <3>1, <3>2, <3>3 DEF FingerprintOf
    <2> QED
      BY <2>1 DEF ReadsHead
  <1>4. /\ store[p] \in Seq(Universe) /\ Sorted(store[p])
        /\ prevBound \in Bound /\ cur \in Bound
        /\ Place(store[p], prevBound, prevIndex)
        /\ Place(store[p], cur, upper)
    BY <1>1 DEF TypeOK, ReadsHead
  <1>5. CASE exceededFrameSizeLimit(p,
                outputSize + Nothing.size + (doSkip \bullet Split(p, upper)).size)
    <2> DEFINE w == Nothing \bullet Rest(p, upper)
    <2>1. Write(p, w) /\ query' = <<>> /\ frameSizeLimit[p] # 0
      BY <1>1, <1>5 DEF EndRange, exceededFrameSizeLimit
    <2>2. last \in Bound /\ last \prec Infinity
      <3>1. last \in Bound /\ (last \prec prevBound \/ last = prevBound)
        BY <1>1, Reached DEF \preceq
      <3>2. cur \prec Infinity \/ cur = Infinity
        BY <1>3 DEF \preceq
      <3>3. \A x, y, z \in Bound : x \prec y /\ y \prec z => x \prec z
        BY Order
      <3> HIDE DEF last, cur
      <3>4. prevBound \prec Infinity
        BY <1>3, <1>4, <3>2, <3>3, Ends
      <3> QED
        BY <1>4, <3>1, <3>3, <3>4, Ends
    <2>3. /\ w \in Output /\ w.ranges = Rest(p, upper).ranges
      <3>1. Rest(p, upper) \in Output
        BY <1>1, <1>2, PiecesType
      <3>2. Rest(p, upper).ranges \in Seq(PlainRange)
        BY <3>1 DEF Output
      <3>3. <<>> \o Rest(p, upper).ranges = Rest(p, upper).ranges
        BY <3>2, SMT
      <3> QED
        BY <3>1, <3>3, OutputType DEF \bullet, Nothing
    <2>4. Continues(p, out, w.ranges)
      BY <1>1, <1>2, <2>1, <2>2, <2>3, RestContinues DEF Continues
    <2>5. PICK v \in Output : v = w
      BY <2>3
    <2> HIDE DEF w
    <2>6. Write(p, v) /\ Continues(p, out, v.ranges)
      BY <2>1, <2>4, <2>5
    <2>7. Reading(p, <<>>)' /\ Written(p, out \o v.ranges)'
      BY <1>1, <1>2, <2>1, <2>6, LastTurn
    <2> QED
      BY <2>1, <2>7 DEF Turned
  <1>6. CASE ~exceededFrameSizeLimit(p,
                outputSize + Nothing.size + (doSkip \bullet Split(p, upper)).size)
    <2> DEFINE w == Nothing \bullet (doSkip \bullet Split(p, upper))
    <2>1. /\ Write(p, w) /\ query' = Tail(query)
          /\ prevIndex' = upper /\ prevBound' = cur
      BY <1>1, <1>6 DEF EndRange
    <2>2. /\ main \in Seq(PlainRange) /\ lastOf(main, prevBound) = cur
          /\ Exact(store[p], prevBound, main)
      BY <1>2, <1>3, <1>4, SplitExact
    <2>3. Ascends(main, prevBound) /\ Honest(p, main, prevBound)
      BY <1>4, <2>2, ExactMeans
    <2>4. w \in Output /\ w.ranges = doSkip.ranges \o main
      <3>1. doSkip \in Output /\ Split(p, upper) \in Output
        BY <1>1, <1>2, PiecesType
      <3>2. doSkip \bullet Split(p, upper) \in Output
        BY <3>1, OutputType
      <3>3. (doSkip \bullet Split(p, upper)).ranges \in Seq(PlainRange)
        BY <3>2 DEF Output
      <3>4. <<>> \o (doSkip \bullet Split(p, upper)).ranges
               = (doSkip \bullet Split(p, upper)).ranges
        BY <3>3, SMT
      <3>5. (doSkip \bullet Split(p, upper)).ranges = doSkip.ranges \o main
        BY DEF \bullet, Split
      <3> QED
        BY <3>2, <3>4, <3>5, OutputType DEF \bullet, Nothing
    <2>5. PICK v \in Output, m \in Seq(PlainRange) : v = w /\ m = main
      BY <2>2, <2>4
    <2> HIDE DEF main, w
    <2>6. /\ Write(p, v) /\ v.ranges = doSkip.ranges \o m
          /\ Ascends(m, prevBound) /\ Honest(p, m, prevBound)
          /\ lastOf(m, prevBound) = currBound(p)
      BY <2>1, <2>2, <2>3, <2>4, <2>5
    <2>7. Reading(p, Tail(a))' /\ Written(p, out \o v.ranges)'
      BY <1>1, <2>1, <2>6, AnswerTurn
    <2>8. \A n \in 1 .. Len(m) : m[n].mode # "skip"
      BY <2>2, <2>5 DEF Exact
    <2>9. v.ranges \in Seq(PlainRange)
      BY DEF Output
    <2> QED
      BY <2>6, <2>7, <2>8, <2>9 DEF Turned, Answers
  <1> QED
    BY <1>5, <1>6

(* A list that is cut lists something: the frame was not full before.  Its *)
(* bound is then the first item that is not listed.                        *)
ListBound(p, upper, end) ==
    IF end < upper THEN store[p][end + 1] ELSE currBound(p)

LEMMA ListedPart ==
    ASSUME FrameInv, NEW p \in Peer, NEW a, NEW upper,
           ReadsHead(p, a, upper), a[1].mode = "idlist",
           NEW end \in prevIndex .. upper,
           Listed(p, upper - prevIndex, end - prevIndex)
    PROVE  /\ ListBound(p, upper, end) \in Bound
           /\ Place(store[p], ListBound(p, upper, end), end)
           /\ prevBound \prec ListBound(p, upper, end)
           /\ ListBound(p, upper, end) \preceq Infinity
           /\ ListBound(p, upper, end) = Infinity => end = Len(store[p])
           /\ end < upper =>
                  exceededFrameSizeLimit(p,
                      outputSize + (end - prevIndex) * IdSize)
  <1> DEFINE s == store[p]
             cur == currBound(p)
             bound == ListBound(p, upper, end)
  <1>1. /\ s \in Seq(Universe) /\ Sorted(s) /\ outputSize \in Nat
        /\ prevBound \in Bound
    BY DEF FrameInv, TypeOK
  <1>2. /\ prevBound \prec cur /\ cur \preceq Infinity /\ cur \in Bound
        /\ Place(s, prevBound, prevIndex) /\ Place(s, cur, upper)
    BY DEF ReadsHead, RestOfNothing, FingerprintRange
  <1>3. /\ prevIndex \in Nat /\ upper \in Nat /\ end \in Nat
        /\ Len(s) \in Nat /\ upper <= Len(s)
        /\ prevIndex <= end /\ end <= upper
    <2>1. prevIndex \in Nat /\ upper \in prevIndex .. Len(s) /\ Len(s) \in Nat
      BY <1>1, SMT DEF ReadsHead
    <2> HIDE DEF s
    <2> QED
      BY <2>1, SMT
  <1>4. \A x, y, z \in Bound : x \prec y /\ y \prec z => x \prec z
    BY Order
  <1>5. end < upper =>
           exceededFrameSizeLimit(p, outputSize + (end - prevIndex) * IdSize)
    <2>1. end < upper => end - prevIndex < upper - prevIndex
      BY <1>3, SMT
    <2> QED
      BY <2>1 DEF Listed
  <1>6. CASE end < upper
    <2>1. bound = s[end + 1] /\ end \in 0 .. Len(s) - 1
          /\ s[end + 1] \in Universe
      <3>1. end + 1 \in 1 .. Len(s) /\ end \in 0 .. Len(s) - 1
        BY <1>3, <1>6, SMT
      <3>2. s[end + 1] \in Universe
        BY <1>1, <3>1
      <3> QED
        BY <1>6, <3>1, <3>2 DEF ListBound
    <2>2. Place(s, bound, end)
      BY <1>1, <2>1, Places
    <2>3. prevIndex # end
      <3>1. CASE prevIndex = end
        <4>1. outputSize + (end - prevIndex) * IdSize = outputSize
          BY <1>1, <1>3, <3>1, SizeAssumption, SMT
        <4>2. exceededFrameSizeLimit(p, outputSize)
          BY <1>5, <1>6, <4>1
        <4>3. frameSizeLimit[p] # 0
          BY <4>2 DEF exceededFrameSizeLimit
        <4> QED
          BY <4>2, <4>3, PeerAssumption
          DEF FrameInv, CallWithinFrameLimit, ReadsHead, Peer
      <3> QED
        BY <3>1
    <2>4. prevIndex < end
      BY <1>3, <2>3, SMT
    <2>5. bound \in Bound /\ bound \prec Infinity
      BY <2>1, Ends
    <2> HIDE DEF bound, s
    <2>6. prevBound \prec bound
      BY <1>1, <1>2, <2>2, <2>4, <2>5, PlacesOrdered
    <2>7. bound # Infinity
      BY <2>5, Order
    <2> QED
      BY <1>5, <2>2, <2>5, <2>6, <2>7 DEF bound, s, \preceq
  <1>7. CASE ~(end < upper)
    <2>1. end = upper /\ bound = cur
      BY <1>3, <1>7, SMT DEF ListBound
    <2>2. cur = Infinity => end = Len(s)
      <3>1. ASSUME cur = Infinity, upper # Len(s)
            PROVE  FALSE
        <4>1. upper + 1 \in 1 .. Len(s) /\ upper + 1 \in (upper + 1) .. Len(s)
          BY <1>3, <3>1, SMT
        <4>2. s[upper + 1] \in Universe
          BY <1>1, <4>1
        <4> QED
          BY <1>2, <3>1, <4>1, <4>2, Ends DEF Place
      <3> QED
        BY <2>1, <3>1
    <2> QED
      BY <1>2, <1>5, <2>1, <2>2
  <1> QED
    BY <1>6, <1>7

LEMMA ListTurn ==
    ASSUME FrameInv, TypeOK', Still, NEW p \in Peer,
           NEW a, NEW upper, ReadsHead(p, a, upper),
           NEW out, Written(p, out),
           lastTimestampIn'[p] = currBound(p).timestamp,
           IdListAtResponder(p, upper)
    PROVE  /\ Turned(p)'
           /\ frameSizeLimit[p] = 0 => Answers(p, a, out)
  <1>1. /\ TypeOK /\ skip' = FALSE
        /\ active = p /\ query # <<>>
        /\ a[1].mode = "idlist"
    BY DEF IdListAtResponder, FrameInv, NextRange, ReadsHead
  <1>2. PICK end \in prevIndex .. upper :
           /\ Listed(p, upper - prevIndex, end - prevIndex)
           /\ EndRange(p, doSkip \bullet List(p, upper, end), Nothing, end)
    BY DEF IdListAtResponder
  <1> DEFINE last  == lastOf(out, ZeroBound)
             bound == ListBound(p, upper, end)
             r     == IdListRange(bound, IdsIn(store[p], prevIndex, end))
             written == doSkip \bullet List(p, upper, end)
  <1>3. /\ bound \in Bound /\ Place(store[p], bound, end)
        /\ prevBound \prec bound /\ bound \preceq Infinity
        /\ bound = Infinity => end = Len(store[p])
        /\ end < upper => exceededFrameSizeLimit(p,
                              outputSize + (end - prevIndex) * IdSize)
    BY <1>1, <1>2, ListedPart
  <1>4. /\ store[p] \in Seq(Universe) /\ prevBound \in Bound
        /\ prevIndex \in Nat /\ upper \in 0 .. Len(store[p])
        /\ upper \in Nat /\ end \in Nat /\ end \in 0 .. Len(store[p])
        /\ Place(store[p], prevBound, prevIndex) /\ outputSize \in Nat
        /\ prevIndex <= end /\ end <= upper
    <2>1. /\ store[p] \in Seq(Universe)
          /\ prevIndex \in Nat /\ upper \in prevIndex .. Len(store[p])
          /\ Len(store[p]) \in Nat
      BY <1>1, SMT DEF ReadsHead, TypeOK
    <2>2. /\ upper \in 0 .. Len(store[p])
          /\ upper \in Nat /\ end \in Nat /\ end \in 0 .. Len(store[p])
          /\ prevIndex <= end /\ end <= upper
      BY <2>1, SMT
    <2> QED
      BY <1>1, <2>1, <2>2 DEF ReadsHead, TypeOK
  <1>5. /\ List(p, upper, end).ranges = <<r>> /\ r \in PlainRange
        /\ r.upper = bound /\ r.mode = "idlist"
        /\ r.ids = IdsBetween(p, prevBound, bound)
        /\ written \in Output /\ written.ranges = doSkip.ranges \o <<r>>
    <2>1. IdsIn(store[p], prevIndex, end)
             = IdsOfBetween(store[p], prevBound, bound)
      BY <1>3, <1>4, PlacedIds
    <2>2. IdsIn(store[p], prevIndex, end) \in SUBSET Id
      BY <1>4, IdsInType
    <2>3. written \in Output
      BY <1>1, <1>4, PiecesType, OutputType
    <2> QED
      BY <1>3, <2>1, <2>2, <2>3
      DEF List, ListBound, IdListRange, PlainRange, Mode, IdsBetween,
          IdsOfBetween, \bullet
  <1>6. PICK m \in Seq(PlainRange) :
           /\ m = <<r>> /\ lastOf(m, prevBound) = bound
           /\ Ascends(m, prevBound) /\ Honest(p, m, prevBound)
    <2> HIDE DEF r, bound, written
    <2>1. /\ <<r>> \in Seq(PlainRange) /\ Len(<<r>>) = 1 /\ <<r>>[1] = r
          /\ \A n \in 1 .. Len(<<r>>) : n = 1
          /\ lowerOf(<<r>>, prevBound, 1) = prevBound
          /\ lastOf(<<r>>, prevBound) = r.upper
      BY <1>5, OneRange
    <2>2. Ascends(<<r>>, prevBound)
      BY <1>3, <1>5, <2>1 DEF Ascends
    <2>3. Located(r.ids, prevBound, r.upper)
      BY <1>4, <1>5, StoredBetween
    <2>4. Honest(p, <<r>>, prevBound)
      BY <1>5, <2>1, <2>3 DEF Honest, HonestRange, SameUntouched
    <2> QED
      BY <1>5, <2>1, <2>2, <2>4
  <1>7. /\ Continues(p, out, doSkip.ranges \o m)
        /\ Ascends(doSkip.ranges \o m, last)
        /\ lastOf(doSkip.ranges \o m, last) = bound
    BY <1>1, <1>6, Answered
  <1>8. CASE exceededFrameSizeLimit(p, outputSize + written.size + Nothing.size)
    <2> DEFINE w == written \bullet Rest(p, end)
               c == doSkip.ranges \o m
               d == Rest(p, end).ranges
    <2>1. Write(p, w) /\ query' = <<>> /\ frameSizeLimit[p] # 0
      BY <1>2, <1>8 DEF EndRange, exceededFrameSizeLimit
    <2>2. /\ d \in Seq(PlainRange) /\ AscendsToEnd(d, bound)
          /\ Honest(p, d, bound)
      BY <1>1, <1>3, <1>4, <2>1, RestContinues DEF \preceq
    <2>3. w \in Output /\ w.ranges = c \o d
      <3>1. Rest(p, end) \in Output
        BY <1>1, <1>4, PiecesType
      <3> QED
        BY <1>5, <1>6, <3>1, OutputType DEF \bullet
    <2>4. Continues(p, out, c \o d)
      <3>1. last \in Bound
        BY <1>1, Reached
      <3>2. c \in Seq(PlainRange) /\ Honest(p, c, last)
        BY <1>7 DEF Continues
      <3> HIDE DEF c, d, last
      <3>3. /\ c \o d \in Seq(PlainRange) /\ AscendsToEnd(c \o d, last)
            /\ Honest(p, c \o d, last)
        BY <1>7, <2>2, <3>1, <3>2, MeaningsJoin DEF c
      <3> QED
        BY SMTT(30), <3>3 DEF Continues, last
    <2>5. PICK v \in Output : v = w
      BY <2>3
    <2> HIDE DEF w, c, d
    <2>6. Write(p, v) /\ Continues(p, out, v.ranges)
      BY <2>1, <2>3, <2>4, <2>5
    <2>7. Reading(p, <<>>)' /\ Written(p, out \o v.ranges)'
      BY <1>1, <2>1, <2>6, LastTurn
    <2> QED
      BY <2>1, <2>7 DEF Turned
  <1>9. CASE ~exceededFrameSizeLimit(p, outputSize + written.size + Nothing.size)
    <2> DEFINE w == written \bullet Nothing
    <2>1. end = upper
      <3> DEFINE k == (end - prevIndex) * IdSize
      <3>1. k \in Nat /\ HeaderSize \in Nat /\ IdSize \in Nat /\ Reserve \in Nat
            /\ frameSizeLimit[p] \in Nat
        <4>1. end - prevIndex \in Nat /\ IdSize \in Nat /\ HeaderSize \in Nat
              /\ Reserve \in Nat
          BY <1>4, SizeAssumption, SMT
        <4>2. \A i, j \in Nat : i * j \in Nat
          BY SMT
        <4> QED
          BY <1>1, <4>1, <4>2, LimitType
      <3>2. doSkip.size \in Nat /\ written.size = doSkip.size + (HeaderSize + k)
        <4>1. doSkip.size \in Nat
          BY SizeAssumption, SMT DEF doSkip, Nothing
        <4> QED
          BY <4>1 DEF List, \bullet
      <3> HIDE DEF k, written
      <3>3. ~exceededFrameSizeLimit(p, outputSize + k)
        BY <1>4, <1>9, <3>1, <3>2, SMT DEF exceededFrameSizeLimit, Nothing
      <3> QED
        BY <1>3, <1>4, <3>3, SMT DEF k
    <2>2. bound = currBound(p)
      BY <1>4, <2>1, SMT DEF ListBound
    <2>3. /\ Write(p, w) /\ query' = Tail(query)
          /\ prevIndex' = upper /\ prevBound' = currBound(p)
      BY <1>2, <1>9, <2>1 DEF EndRange
    <2>4. w \in Output /\ w.ranges = doSkip.ranges \o m
      <3>1. written.ranges \in Seq(PlainRange)
        BY <1>5 DEF Output
      <3>2. written.ranges \o <<>> = written.ranges
        <4> HIDE DEF written
        <4> QED
          BY <3>1, SMT
      <3> QED
        BY <1>5, <1>6, <3>2, OutputType DEF \bullet, Nothing
    <2>5. PICK v \in Output : v = w
      BY <2>4
    <2> HIDE DEF w
    <2>6. Write(p, v) /\ v.ranges = doSkip.ranges \o m
          /\ lastOf(m, prevBound) = currBound(p)
      BY <1>6, <2>2, <2>3, <2>4, <2>5
    <2>7. Reading(p, Tail(a))' /\ Written(p, out \o v.ranges)'
      BY <1>1, <1>6, <2>3, <2>6, AnswerTurn
    <2>8. \A n \in 1 .. Len(m) : m[n].mode # "skip"
      BY <1>5, <1>6, OneRange
    <2>9. v.ranges \in Seq(PlainRange)
      BY DEF Output
    <2> QED
      BY <1>6, <2>6, <2>7, <2>8, <2>9 DEF Turned, Answers
  <1> QED
    BY <1>8, <1>9

LEMMA RangeTurn ==
    ASSUME NoBases, FrameInv, NEW p \in Peer, ReconcileRange(p), Turned(p)
    PROVE  Still /\ Turned(p)'
  <1>1. TypeOK /\ TypeOK'
    BY ReconcileRangeType DEF FrameInv
  <1>2. PICK upper \in 0 .. Len(store[p]) :
           \/ SkipStep(p, upper)
           \/ FingerprintMatches(p, upper)
           \/ FingerprintDiffers(p, upper)
           \/ IdListAtInitiator(p, upper)
           \/ IdListAtResponder(p, upper)
    BY <1>1, BranchTaken
  <1>3. PICK mode : NextRange(p, mode, upper)
    BY <1>2 DEF SkipStep, FingerprintMatches, FingerprintDiffers,
                IdListAtInitiator, IdListAtResponder
  <1>4. Still /\ lastTimestampIn'[p] = currBound(p).timestamp
    BY <1>1, <1>3 DEF NextRange, Still, storeVars, TypeOK
  <1>5. PICK a : Reading(p, a)
    BY DEF Turned
  <1>6. PICK out : Written(p, out)
    BY DEF Turned
  <1>7. ReadsHead(p, a, upper)
    BY <1>1, <1>3, <1>5, HeadRead
  <1>8. CASE skip' = TRUE /\ EndRange(p, Nothing, Nothing, upper)
    <2>1. Reading(p, Tail(a))' /\ Written(p, out)'
      BY <1>1, <1>4, <1>6, <1>7, <1>8, QuietTurn
    <2> QED
      BY <1>4, <2>1 DEF Turned
  <1>9. CASE FingerprintDiffers(p, upper)
    BY <1>1, <1>4, <1>6, <1>7, <1>9, FingerprintTurn
  <1>10. CASE IdListAtResponder(p, upper)
    BY <1>1, <1>4, <1>6, <1>7, <1>10, ListTurn
  <1> QED
    BY <1>2, <1>8, <1>9, <1>10
    DEF SkipStep, FingerprintMatches, IdListAtInitiator

-----------------------------------------------------------------------------
(* Insertions and erasures.                                                *)

(* A step leaves every item alone whose ID is not touched. *)
Untouched(q) ==
    /\ UNCHANGED frameSizeLimit
    /\ touched \subseteq touched'
    /\ \A it \in Universe : it.id \notin touched' =>
          (it \in ToSet(store'[q]) <=> it \in ToSet(store[q]))

(* An insertion or erasure is of one item. *)
Edited(p, s, item) ==
    /\ EditStore(p, s, item.id)
    /\ \A it \in Universe : it # item =>
          (it \in ToSet(s) <=> it \in ToSet(store[p]))

LEMMA OneItemEdited ==
    ASSUME TypeOK, NEW p \in Peer, Insert(p) \/ Erase(p)
    PROVE  \E item \in Universe : \E s : Edited(p, s, item)
  <1>1. CASE Insert(p)
    <2>1. PICK item \in Universe, i \in 1 .. Len(store[p]) + 1 :
             EditStore(p, InsertAt(store[p], i, item), item.id)
      BY <1>1 DEF Insert
    <2> DEFINE s == store[p]
               t == InsertAt(s, i, item)
    <2>2. s \in Seq(Universe)
      BY DEF TypeOK
    <2>3. /\ t \in Seq(Universe) /\ Len(t) = Len(s) + 1
          /\ \A j \in 1 .. Len(t) :
                t[j] = IF j < i THEN s[j] ELSE IF j = i THEN item ELSE s[j - 1]
      BY <2>2, Inserted
    <2>4. EditStore(p, t, item.id)
      BY <2>1
    <2> HIDE DEF t
    <2>5. ASSUME NEW it \in Universe, it # item
          PROVE  it \in ToSet(t) <=> it \in ToSet(s)
      <3> HIDE DEF s
      <3>1. Len(s) \in Nat /\ DOMAIN s = 1 .. Len(s) /\ DOMAIN t = 1 .. Len(t)
        BY <2>2, <2>3, SMT
      <3>2. ASSUME NEW j \in 1 .. Len(t), t[j] = it
            PROVE  \E k \in 1 .. Len(s) : s[k] = it
        <4>1. CASE j < i
          BY <2>3, <3>1, <3>2, <4>1, SMT DEF s
        <4>2. CASE j > i
          <5>1. t[j] = s[j - 1] /\ j - 1 \in 1 .. Len(s)
            BY <2>3, <3>1, <3>2, <4>2, SMT DEF s
          <5> QED
            BY <3>2, <5>1
        <4> QED
          BY <2>3, <2>5, <3>1, <3>2, <4>1, <4>2, SMT DEF s
      <3>3. ASSUME NEW k \in 1 .. Len(s), s[k] = it
            PROVE  \E j \in 1 .. Len(t) : t[j] = it
        <4>1. CASE k < i
          BY <2>3, <3>1, <3>3, <4>1, SMT DEF s
        <4>2. CASE k >= i
          <5>1. k + 1 \in 1 .. Len(t) /\ t[k + 1] = s[(k + 1) - 1]
                /\ (k + 1) - 1 = k
            BY <2>3, <3>1, <4>2, SMT DEF s
          <5> QED
            BY <3>3, <5>1
        <4> QED
          BY <3>1, <4>1, <4>2, SMT DEF s
      <3> QED
        BY <3>1, <3>2, <3>3 DEF ToSet
    <2> QED
      BY <2>4, <2>5 DEF Edited
  <1>2. CASE Erase(p)
    <2>1. PICK i \in 1 .. Len(store[p]) :
             EditStore(p, RemoveAt(store[p], i), store[p][i].id)
      BY <1>2 DEF Erase
    <2> DEFINE s == store[p]
               t == RemoveAt(s, i)
               item == s[i]
    <2>2. s \in Seq(Universe) /\ item \in Universe
      BY DEF TypeOK
    <2>3. /\ t \in Seq(Universe) /\ Len(t) = Len(s) - 1
          /\ \A j \in 1 .. Len(t) : t[j] = IF j < i THEN s[j] ELSE s[j + 1]
      BY <2>2, Removed
    <2>4. EditStore(p, t, item.id)
      BY <2>1
    <2> HIDE DEF t
    <2>5. ASSUME NEW it \in Universe, it # item
          PROVE  it \in ToSet(t) <=> it \in ToSet(s)
      <3>0. i \in 1 .. Len(s)
        OBVIOUS
      <3> HIDE DEF s
      <3>1. Len(s) \in Nat /\ DOMAIN s = 1 .. Len(s) /\ DOMAIN t = 1 .. Len(t)
        BY <2>2, <2>3, SMT
      <3>2. ASSUME NEW j \in 1 .. Len(t), t[j] = it
            PROVE  \E k \in 1 .. Len(s) : s[k] = it
        <4>1. j \in 1 .. Len(s) /\ j + 1 \in 1 .. Len(s)
          BY <2>3, <3>1, <3>2, SMT
        <4> QED
          BY <2>3, <3>2, <4>1
      <3>3. ASSUME NEW k \in 1 .. Len(s), s[k] = it
            PROVE  \E j \in 1 .. Len(t) : t[j] = it
        <4>1. k # i
          BY <2>5, <3>3
        <4>2. CASE k < i
          <5>1. k \in 1 .. Len(t)
            BY <2>3, <3>0, <3>1, <4>2, SMT
          <5> QED
            BY <2>3, <3>3, <4>2, <5>1
        <4>3. CASE k > i
          <5>1. k - 1 \in 1 .. Len(t) /\ ~(k - 1 < i) /\ (k - 1) + 1 = k
            BY <2>3, <3>0, <3>1, <4>3, SMT
          <5> QED
            BY <2>3, <3>3, <5>1
        <4> QED
          BY <3>0, <3>1, <4>1, <4>2, <4>3, SMT
      <3> QED
        BY <3>1, <3>2, <3>3 DEF ToSet
    <2> QED
      BY <2>2, <2>4, <2>5 DEF Edited
  <1> QED
    BY <1>1, <1>2

LEMMA StepUntouched ==
    ASSUME TypeOK, [Next]_vars, NEW q \in Peer
    PROVE  Untouched(q)
  <1>1. UNCHANGED frameSizeLimit
    BY LimitFixed
  <1>2. CASE UNCHANGED <<store, touched>>
    BY <1>1, <1>2 DEF Untouched
  <1>3. ASSUME NEW p \in Peer, Insert(p) \/ Erase(p)
        PROVE  Untouched(q)
    <2>0. PICK item \in Universe : \E s : Edited(p, s, item)
      BY <1>3, OneItemEdited
    <2>1. PICK s : Edited(p, s, item)
      BY <2>0
    <2>2. /\ store' = [store EXCEPT ![p] = s]
          /\ touched' = touched \cup {item.id}
      BY <2>1 DEF Edited, EditStore
    <2>3. store'[q] = IF q = p THEN s ELSE store[q]
      BY <2>2 DEF TypeOK
    <2> QED
      BY <1>1, <2>1, <2>2, <2>3 DEF Edited, Untouched
  <1> QED
    BY <1>2, <1>3
    DEF Next, Protocol, Initiate, Downgrade, RefuseVersion, Receive,
        ReconcileRange, SkipStep, FingerprintMatches, FingerprintDiffers,
        IdListAtInitiator, IdListAtResponder, NextRange, ReturnAtResponder,
        ReturnAtInitiator, Continue, Finish, LeaveCall, Retry,
        ProbeNewerVersion, Timeout, StorageFails, BadRange, Throw,
        Recreate, Terminated, vars, storeVars

(* So what was meant is still true. *)
LEMMA MeaningKept ==
    ASSUME TypeOK, TypeOK', NEW q \in Peer, Untouched(q),
           NEW x, NEW a, NEW from, Means(q, x, a, from)
    PROVE  Means(q, x, a, from)'
  <1>1. \A p \in Peer : /\ ToSet(store[p]) \subseteq Universe
                        /\ ToSet(store'[p]) \subseteq Universe
    <2>1. \A s \in Seq(Universe) : ToSet(s) \subseteq Universe
      BY SMT DEF ToSet
    <2> QED
      BY <2>1 DEF TypeOK
  <1>2. ASSUME NEW l, NEW u, NEW k, k \notin touched'
        PROVE  k \in IdsBetween(q, l, u)' <=> k \in IdsBetween(q, l, u)
    BY <1>1, <1>2 DEF Untouched, IdsBetween
  <1>3. ASSUME NEW ids, NEW l, NEW u,
               SameUntouched(ids, IdsBetween(q, l, u))
        PROVE  SameUntouched(ids, IdsBetween(q, l, u))'
    <2>1. \A k : k \notin touched' =>
             (k \in ids <=> k \in IdsBetween(q, l, u))
      BY <1>3 DEF SameUntouched, Untouched
    <2>2. \A k : k \notin touched' =>
             (k \in ids <=> k \in IdsBetween(q, l, u)')
      BY <1>2, <2>1
    <2> QED
      BY <2>2 DEF SameUntouched
  <1>4. Honest(q, a, from)'
    <2>1. Honest(q, a, from) /\ UNCHANGED frameSizeLimit
      BY DEF Means, Untouched
    <2> SUFFICES ASSUME NEW n \in 1 .. Len(a)
                 PROVE  HonestRange(q, a[n], lowerOf(a, from, n))'
      BY DEF Honest
    <2>2. HonestRange(q, a[n], lowerOf(a, from, n))
      BY <2>1 DEF Honest
    <2> QED
      BY <1>3, <2>1, <2>2 DEF HonestRange
  <1> QED
    BY <1>4 DEF Means

-----------------------------------------------------------------------------
(* The inductive invariant.                                                *)

(* Only the client is an initiator; it is waiting while its call runs, and *)
(* has no timestamp left when it initiates.                                *)
PhaseInv ==
    /\ ~isInitiator[Server]
    /\ active = Client => phase = "waiting"
    /\ phase \in {"idle", "probing"} => lastTimestampOut[Client] = 0

MailInv ==
    \A p \in Peer : \A m \in ToSet(inbox[p]) :
        \E a : Means(other(p), m.ranges, a, ZeroBound)

CallInv == active # NoPeer => Turned(active)

TruthInv ==
    /\ FrameInv
    /\ PhaseInv
    /\ MailInv
    /\ CallInv

LEMMA PhaseStep ==
    ASSUME TypeOK, PhaseInv, [Next]_vars
    PROVE  PhaseInv'
  <1> USE DEF PhaseInv
  <1>1. /\ Client # Server /\ Client \in Peer /\ Server \in Peer
        /\ NoPeer # Client
        /\ isInitiator \in [Peer -> BOOLEAN]
        /\ lastTimestampOut \in [Peer -> Timestamp]
    BY PeerAssumption DEF Peer, TypeOK
  <1>2. ASSUME NEW p \in Peer, ReconcileRange(p)
        PROVE  PhaseInv'
    <2>1. /\ active = p /\ active' = active /\ phase' = phase
          /\ isInitiator' = isInitiator
      BY <1>2 DEF ReconcileRange, SkipStep, FingerprintMatches,
                  FingerprintDiffers, IdListAtInitiator, IdListAtResponder,
                  NextRange, appVars
    <2>2. \/ p = Client
          \/ p = Server /\ lastTimestampOut'[Client] = lastTimestampOut[Client]
      BY <1>1, <1>2
      DEF ReconcileRange, SkipStep, FingerprintMatches, FingerprintDiffers,
          IdListAtInitiator, IdListAtResponder, EndRange, Write, Peer
    <2> QED
      BY <1>1, <2>1, <2>2
  <1>3. CASE Initiate
    BY <1>1, <1>3 DEF Initiate
  <1>4. CASE Retry
    BY <1>1, <1>4 DEF Retry, resetTimestamps
  <1>5. ASSUME NEW p \in Peer, Receive(p) \/ Recreate(p)
        PROVE  PhaseInv'
    <2>1. p = Client \/ p = Server
      BY DEF Peer
    <2>2. CASE Receive(p)
      BY <1>1, <2>1, <2>2 DEF Receive, appVars, resetTimestamps
    <2>3. CASE Recreate(p)
      BY <1>1, <2>1, <2>3 DEF Recreate, appVars, resetTimestamps
    <2> QED
      BY <1>5, <2>2, <2>3
  <1>6. CASE RefuseVersion
    BY <1>1, <1>6 DEF RefuseVersion, resetTimestamps, appVars
  <1>7. CASE Downgrade \/ ProbeNewerVersion \/ Timeout \/ UNCHANGED vars
    BY <1>1, <1>7 DEF Downgrade, ProbeNewerVersion, Timeout, vars, objectVars,
                      appVars
  <1>8. CASE ReturnAtResponder \/ Continue \/ Finish
    BY <1>1, <1>8 DEF ReturnAtResponder, ReturnAtInitiator, Continue, Finish,
                      LeaveCall, DropLocals, objectVars
  <1>9. ASSUME NEW p \in Peer, Throw(p)
        PROVE  PhaseInv'
    BY <1>1, <1>9 DEF Throw, DropLocals, objectVars
  <1>10. ASSUME NEW p \in Peer, Insert(p) \/ Erase(p)
         PROVE  PhaseInv'
    BY <1>10 DEF Insert, Erase, EditStore, objectVars, appVars
  <1> QED
    BY <1>2, <1>3, <1>4, <1>5, <1>6, <1>7, <1>8, <1>9, <1>10
    DEF Next, Protocol, Terminated, StorageFails, BadRange

(* The first message is true. *)
LEMMA InitiateMeans ==
    ASSUME TypeOK, PhaseInv, Initiate
    PROVE  \E a : Means(Client,
                        encode(splitRange(store[Client], 0,
                                          Len(store[Client]), Infinity),
                               lastTimestampOut[Client]),
                        a, ZeroBound)
  <1> DEFINE s == store[Client]
             a == splitRange(s, 0, Len(s), Infinity)
  <1>1. /\ s \in Seq(Universe) /\ Sorted(s)
        /\ lastTimestampOut[Client] = ZeroBound.timestamp
    BY DEF TypeOK, Peer, PhaseInv, Initiate, ZeroBound
  <1>2. /\ Place(s, ZeroBound, 0) /\ Place(s, Infinity, Len(s))
        /\ 0 <= Len(s) /\ Infinity \preceq Infinity
    BY <1>1, Places, SMT DEF \preceq
  <1>3. a \in Seq(PlainRange) /\ Exact(s, ZeroBound, a)
    BY <1>1, <1>2, Ends, SplitExact
  <1>4. AscendsToEnd(a, ZeroBound) /\ Honest(Client, a, ZeroBound)
    BY <1>1, <1>3, ExactMeans
  <1>5. Means(Client, encode(a, lastTimestampOut[Client]), a, ZeroBound)
    BY <1>1, <1>3, <1>4 DEF Means
  <1> QED
    BY <1>5

LEMMA MailStep ==
    ASSUME TruthInv, TypeOK', [Next]_vars
    PROVE  MailInv'
  <1>1. TypeOK /\ Client # Server /\ NoPeer \notin Peer
        /\ Client \in Peer /\ Server \in Peer
    BY PeerAssumption DEF TruthInv, FrameInv, Peer
  <1> SUFFICES ASSUME NEW p \in Peer, NEW m \in ToSet(inbox'[p])
               PROVE  \E a : Means(other(p), m.ranges, a, ZeroBound)'
    BY DEF MailInv
  <1>2. other(p) \in Peer /\ Untouched(other(p))
    BY <1>1, OtherPeer, StepUntouched
  <1>3. ASSUME NEW a, Means(other(p), m.ranges, a, ZeroBound)
        PROVE  \E b : Means(other(p), m.ranges, b, ZeroBound)'
    BY <1>1, <1>2, <1>3, MeaningKept
  <1>4. CASE m \in ToSet(inbox[p])
    BY <1>3, <1>4 DEF TruthInv, MailInv
  <1>5. CASE m.ranges = <<>>
    <2>1. Means(other(p), <<>>, <<>>, ZeroBound)
      BY Ends, NothingMeant
    <2> QED
      BY <1>3, <1>5, <2>1
  <1>6. CASE /\ Initiate /\ p = Server
             /\ m.ranges = encode(splitRange(store[Client], 0,
                                      Len(store[Client]), Infinity),
                                  lastTimestampOut[Client])
    <2>1. other(p) = Client
      BY <1>1, <1>6 DEF other
    <2>2. \E a : Means(Client, m.ranges, a, ZeroBound)
      BY <1>1, <1>6, InitiateMeans DEF TruthInv
    <2> QED
      BY <1>3, <2>1, <2>2
  <1>7. CASE ReturnAtResponder /\ p = Client /\ m.ranges = fullOutput
    <2>1. active = Server /\ other(p) = Server
      BY <1>1, <1>7 DEF ReturnAtResponder, other
    <2>2. PICK out : Written(Server, out)
      BY <1>1, <2>1 DEF TruthInv, CallInv, Turned
    <2>3. Means(other(p), m.ranges, out, ZeroBound)
      BY <1>7, <2>1, <2>2 DEF Written
    <2> QED
      BY <1>3, <2>3
  <1>8. CASE Continue /\ p = Server /\ m.ranges = fullOutput
    <2>1. active = Client /\ other(p) = Client
      BY <1>1, <1>8 DEF Continue, ReturnAtInitiator, other
    <2>2. PICK out : Written(Client, out)
      BY <1>1, <2>1 DEF TruthInv, CallInv, Turned
    <2>3. Means(other(p), m.ranges, out, ZeroBound)
      BY <1>8, <2>1, <2>2 DEF Written
    <2> QED
      BY <1>3, <2>3
  <1> QED
    BY <1>1, <1>4, <1>5, <1>6, <1>7, <1>8, Arrivals DEF Arrives

(* A call that a step of somebody else leaves alone. *)
Paused ==
    /\ active' = active /\ Still /\ UNCHANGED callVars
    /\ active # NoPeer =>
          /\ lastTimestampIn'[active] = lastTimestampIn[active]
          /\ lastTimestampOut'[active] = lastTimestampOut[active]

LEMMA CallKept ==
    ASSUME TypeOK, TypeOK', [Next]_vars, NEW p \in Peer, active = p, Paused
    PROVE  /\ \A a : Reading(p, a) => Reading(p, a)'
           /\ \A out : Written(p, out) => Written(p, out)'
  <1>1. /\ other(p) \in Peer /\ Untouched(other(p)) /\ Untouched(p)
        /\ UNCHANGED <<query, fullOutput, prevBound, prevIndex, skip, store>>
        /\ lastTimestampIn'[p] = lastTimestampIn[p]
        /\ lastTimestampOut'[p] = lastTimestampOut[p] /\ Still
    BY OtherPeer, StepUntouched, PeerAssumption DEF callVars, Still, Paused
  <1>2. ASSUME NEW a, Reading(p, a)
        PROVE  Reading(p, a)'
    <2>1. /\ a \in Seq(PlainRange) /\ query = encode(a, prevBound.timestamp)
          /\ AscendsToEnd(a, prevBound) /\ Honest(other(p), a, prevBound)
          /\ query # <<>> => /\ lastTimestampIn[p] = prevBound.timestamp
                             /\ Place(store[p], prevBound, prevIndex)
      BY <1>2 DEF Reading, Means
    <2>2. Honest(other(p), a, prevBound)'
      BY <1>1, <2>1 DEF Still, Honest, HonestRange, SameUntouched, IdsBetween
    <2> QED
      BY <1>1, <2>1, <2>2 DEF Reading, Means, Place
  <1>3. ASSUME NEW out, Written(p, out)
        PROVE  Written(p, out)'
    <2>1. /\ out \in Seq(PlainRange) /\ fullOutput = encode(out, ZeroBound.timestamp)
          /\ AscendsToEnd(out, ZeroBound) /\ Honest(p, out, ZeroBound)
          /\ lastTimestampOut[p] = lastOf(out, ZeroBound).timestamp
          /\ query # <<>> =>
                /\ Ascends(out, ZeroBound)
                /\ skip => lastOf(out, ZeroBound) \prec prevBound
                /\ ~skip => lastOf(out, ZeroBound) = prevBound
      BY <1>3 DEF Written, Means
    <2>2. Honest(p, out, ZeroBound)'
      BY <1>1, <2>1, StillHonest
    <2> QED
      BY <1>1, <2>1, <2>2 DEF Written, Means
  <1> QED
    BY <1>2, <1>3

(* A call that begins. *)
LEMMA CallBegins ==
    ASSUME TypeOK, TypeOK', [Next]_vars, NEW p \in Peer, Receive(p),
           NEW a, Means(other(p), Head(inbox[p]).ranges, a, ZeroBound)
    PROVE  /\ Reading(p, a)' /\ Written(p, <<>>)'
           /\ prevBound' = ZeroBound /\ active' = p
           /\ inbox[p] # <<>> /\ Head(inbox[p]) \in ToSet(inbox[p])
  <1>1. other(p) \in Peer /\ Untouched(other(p))
    BY OtherPeer, StepUntouched
  <1>2. /\ inbox[p] # <<>> /\ query' = Head(inbox[p]).ranges
        /\ lastTimestampIn'[p] = 0 /\ lastTimestampOut'[p] = 0
        /\ fullOutput' = <<>> /\ prevBound' = ZeroBound
        /\ prevIndex' = 0 /\ skip' = FALSE /\ active' = p
        /\ ZeroBound.timestamp = 0
    BY DEF Receive, resetTimestamps, ZeroBound, TypeOK
  <1>3. Head(inbox[p]) \in ToSet(inbox[p])
    <2>1. inbox[p] \in Seq(Message)
      BY DEF TypeOK
    <2> QED
      BY <1>2, <2>1, SMT DEF ToSet
  <1>4. Reading(p, a)'
    <2>1. /\ a \in Seq(PlainRange)
          /\ query' = encode(a, ZeroBound.timestamp)
          /\ AscendsToEnd(a, ZeroBound)
          /\ Honest(other(p), a, ZeroBound)'
      BY <1>1, <1>2, MeaningKept DEF Means
    <2>2. Place(store'[p], ZeroBound, 0)
      BY Places DEF TypeOK
    <2>3. Honest(other(p), a, prevBound)'
      BY <1>2, <2>1 DEF Honest
    <2> QED
      BY <1>2, <2>1, <2>2, <2>3 DEF Reading, Means, Place
  <1>5. Written(p, <<>>)'
    <2>1. /\ <<>> \in Seq(PlainRange) /\ <<>> = encode(<<>>, ZeroBound.timestamp)
      BY Ends, NothingMeant DEF Means
    <2>2. Len(<<>>) = 0 /\ \A n \in 1 .. 0 : FALSE
      BY SMT
    <2> QED
      BY <1>2, <2>1, <2>2
      DEF Written, Means, AscendsToEnd, Ascends, Honest, lastOf
  <1> QED
    BY <1>2, <1>3, <1>4, <1>5

(* What a step does to the call. *)
LEMMA CallMoves ==
    ASSUME TypeOK, PhaseInv, [Next]_vars
    PROVE  \/ \E p \in Peer : ReconcileRange(p) /\ active = p /\ active' = p
           \/ \E p \in Peer : Receive(p)
           \/ active' = NoPeer
           \/ Paused
  <1>1. /\ Client # Server /\ NoPeer \notin Peer
        /\ Client \in Peer /\ Server \in Peer
        /\ lastTimestampIn \in [Peer -> Timestamp]
        /\ lastTimestampOut \in [Peer -> Timestamp]
        /\ active \in Peer \cup {NoPeer}
    BY PeerAssumption DEF Peer, TypeOK
  <1>2. ASSUME NEW p \in Peer, ReconcileRange(p)
        PROVE  active = p /\ active' = p
    BY <1>2 DEF ReconcileRange, SkipStep, FingerprintMatches,
                FingerprintDiffers, IdListAtInitiator, IdListAtResponder,
                NextRange
  <1>3. CASE Initiate
    <2>1. /\ active # Client /\ active' = active /\ Still /\ UNCHANGED callVars
          /\ lastTimestampIn' = lastTimestampIn
          /\ lastTimestampOut' = [lastTimestampOut EXCEPT ![Client] =
                    lastTimestampAfter(splitRange(store[Client], 0,
                                                  Len(store[Client]), Infinity),
                                       lastTimestampOut[Client])]
      BY <1>3 DEF Initiate, Still, storeVars, PhaseInv
    <2> QED
      BY <1>1, <2>1 DEF Paused
  <1>4. CASE Retry
    <2>1. /\ active # Client /\ active' = active /\ Still /\ UNCHANGED callVars
          /\ lastTimestampIn' = [lastTimestampIn EXCEPT ![Client] = 0]
          /\ lastTimestampOut' = [lastTimestampOut EXCEPT ![Client] = 0]
      BY <1>4 DEF Retry, resetTimestamps, Still, storeVars, PhaseInv
    <2> QED
      BY <1>1, <2>1 DEF Paused
  <1>5. CASE Downgrade \/ ProbeNewerVersion \/ UNCHANGED vars
    <2>1. /\ active' = active /\ Still /\ UNCHANGED callVars
          /\ lastTimestampIn' = lastTimestampIn
          /\ lastTimestampOut' = lastTimestampOut
      BY <1>5 DEF Downgrade, ProbeNewerVersion, vars, objectVars, storeVars,
                  callVars, Still
    <2> QED
      BY <2>1 DEF Paused
  <1>6. CASE RefuseVersion \/ Timeout \/ ReturnAtResponder \/ Continue \/ Finish
    BY <1>6 DEF RefuseVersion, Timeout, ReturnAtResponder,
           ReturnAtInitiator, Continue, Finish, LeaveCall, DropLocals
  <1>7. ASSUME NEW p \in Peer,
               Throw(p) \/ Insert(p) \/ Erase(p) \/ Recreate(p)
        PROVE  active' = NoPeer
    BY <1>7 DEF Throw, DropLocals, Insert, Erase, EditStore, Recreate
  <1> QED
    BY <1>2, <1>3, <1>4, <1>5, <1>6, <1>7
    DEF Next, Protocol, Terminated, StorageFails, BadRange

LEMMA CallStep ==
    ASSUME NoBases, TruthInv, TypeOK', [Next]_vars
    PROVE  CallInv'
  <1>1. TypeOK /\ PhaseInv /\ NoPeer \notin Peer /\ active \in Peer \cup {NoPeer}
    BY PeerAssumption DEF TruthInv, FrameInv, TypeOK
  <1>2. ASSUME NEW p \in Peer, ReconcileRange(p), active = p, active' = p
        PROVE  CallInv'
    <2>1. Turned(p)
      BY <1>1, <1>2 DEF TruthInv, CallInv
    <2>2. Turned(p)'
      BY <1>2, <2>1, RangeTurn DEF TruthInv
    <2> QED
      BY <1>2, <2>2 DEF CallInv, Turned, Reading, Written
  <1>3. ASSUME NEW p \in Peer, Receive(p)
        PROVE  CallInv'
    <2>1. inbox[p] # <<>> /\ Head(inbox[p]) \in ToSet(inbox[p])
      <3>1. inbox[p] # <<>> /\ inbox[p] \in Seq(Message)
        BY <1>1, <1>3 DEF Receive, TypeOK
      <3> QED
        BY <3>1, SMT DEF ToSet
    <2>2. PICK a : Means(other(p), Head(inbox[p]).ranges, a, ZeroBound)
      BY <2>1 DEF TruthInv, MailInv
    <2>3. Reading(p, a)' /\ Written(p, <<>>)' /\ active' = p
      BY <1>1, <1>3, <2>2, CallBegins
    <2> QED
      BY <2>3 DEF CallInv, Turned, Reading, Written
  <1>4. CASE active' = NoPeer
    BY <1>4 DEF CallInv
  <1>5. CASE Paused
    <2>1. CASE active # NoPeer
      <3>1. PICK p \in Peer : p = active
        BY <1>1, <2>1
      <3>2. Turned(p)
        BY <2>1, <3>1 DEF TruthInv, CallInv, Turned, Reading, Written
      <3>3. Turned(p)'
        BY <1>1, <1>5, <3>1, <3>2, CallKept DEF Turned
      <3> QED
        BY <1>5, <3>1, <3>3 DEF CallInv, Turned, Reading, Written, Paused
    <2> QED
      BY <1>4, <1>5, <2>1 DEF Paused
  <1> QED
    BY <1>1, <1>2, <1>3, <1>4, <1>5, CallMoves

LEMMA TruthStep == NoBases /\ TruthInv /\ [Next]_vars => TruthInv'
  <1> SUFFICES ASSUME NoBases, TruthInv, [Next]_vars PROVE TruthInv'
    OBVIOUS
  <1>1. FrameInv' /\ TypeOK /\ TypeOK'
    BY FrameStep DEF TruthInv, FrameInv
  <1>2. PhaseInv' /\ MailInv' /\ CallInv'
    BY <1>1, PhaseStep, MailStep, CallStep DEF TruthInv
  <1> QED
    BY <1>1, <1>2 DEF TruthInv

LEMMA TruthStart == Init => TruthInv
  <1> SUFFICES ASSUME Init PROVE TruthInv
    OBVIOUS
  <1>1. TypeOK
    BY InitType
  <1>2. ToSet(<<>>) = {}
    BY SMT DEF ToSet
  <1>3. FrameInv
    <2>1. WithinFrameLimit
      <3>1. \A p \in Peer : inbox[other(p)] = <<>>
        BY OtherPeer DEF Init
      <3> QED
        BY <1>2, <3>1 DEF WithinFrameLimit
    <2> QED
      BY <1>1, <2>1 DEF FrameInv, CallWithinFrameLimit, Init
  <1>4. PhaseInv
    BY PeerAssumption DEF Init, PhaseInv, Peer
  <1>5. MailInv
    BY <1>2 DEF Init, MailInv
  <1>6. CallInv
    BY DEF Init, CallInv
  <1> QED
    BY <1>3, <1>4, <1>5, <1>6 DEF TruthInv

-----------------------------------------------------------------------------
(* What the receiver decodes is what was meant.                            *)

LEMMA EncodedRange ==
    ASSUME NEW x, NEW a, NEW from, Encodes(x, a, from),
           NEW n \in 1 .. Len(a)
    PROVE  x[n].mode = a[n].mode /\ x[n].ids = a[n].ids
  <1>1. x[n] = [timestamp |-> encodeTimestampOut(a[n].upper.timestamp,
                                  lowerOf(a, from, n).timestamp),
                prefix |-> a[n].upper.id,
                mode   |-> a[n].mode,
                ids    |-> a[n].ids]
    BY DEF Encodes
  <1> QED
    BY <1>1

LEMMA Understood ==
    ASSUME TypeOK, MailInv, NEW p \in Peer, NEW m \in ToSet(inbox[p]),
           NEW i \in DOMAIN m.ranges
    PROVE  \E a \in Seq(PlainRange) :
              /\ i \in 1 .. Len(a) /\ Len(m.ranges) = Len(a)
              /\ AscendsToEnd(a, ZeroBound) /\ Honest(other(p), a, ZeroBound)
              /\ decodedBounds(m.ranges)[i - 1] = lowerOf(a, ZeroBound, i)
              /\ decodedBounds(m.ranges)[i] = a[i].upper
              /\ m.ranges[i].mode = a[i].mode
              /\ m.ranges[i].ids = a[i].ids
  <1>1. PICK a : Means(other(p), m.ranges, a, ZeroBound)
    BY DEF MailInv
  <1>2. /\ a \in Seq(PlainRange) /\ m.ranges = encode(a, 0)
        /\ AscendsToEnd(a, ZeroBound) /\ Honest(other(p), a, ZeroBound)
    BY <1>1 DEF Means, ZeroBound
  <1>3. Encodes(m.ranges, a, ZeroBound)
    BY <1>1, <1>2, Ends, Encoded DEF Means
  <1>4. m.ranges \in Seq(WireRange) /\ Len(m.ranges) = Len(a)
    BY <1>3 DEF Encodes
  <1>5. i \in 1 .. Len(a)
    BY <1>4, SMT
  <1>6. m.ranges[i].mode = a[i].mode /\ m.ranges[i].ids = a[i].ids
    BY <1>3, <1>5, EncodedRange
  <1>7. /\ decodedBounds(m.ranges)[i - 1] = lowerOf(a, ZeroBound, i)
        /\ decodedBounds(m.ranges)[i] = a[i].upper
    BY <1>2, <1>5, Ends, AscendingReadable, DecodedBounds
  <1> QED
    BY <1>2, <1>4, <1>5, <1>6, <1>7

(* docs/negentropy-protocol-v1.md, "Bound": ranges in a message are in     *)
(* ascending order and never overlap.  The receiver decodes strictly       *)
(* ascending bounds, whatever the width of timestamps and prefixes; only   *)
(* the fingerprint of an empty rest may follow infinity.                   *)
THEOREM BoundsAscend ==
    ASSUME NoBases
    PROVE  Spec => []AscendingBounds
  <1>1. TruthInv => AscendingBounds
    <2> SUFFICES ASSUME TruthInv, NEW p \in Peer,
                        NEW m \in ToSet(inbox[p]), NEW i \in DOMAIN m.ranges
                 PROVE  LET bound == decodedBounds(m.ranges)
                        IN  \/ bound[i - 1] \prec bound[i]
                            \/ /\ i = Len(m.ranges) /\ i > 1
                               /\ bound[i - 1] = Infinity /\ bound[i] = Infinity
      BY DEF AscendingBounds
    <2>1. PICK a \in Seq(PlainRange) :
             /\ i \in 1 .. Len(a) /\ Len(m.ranges) = Len(a)
             /\ AscendsToEnd(a, ZeroBound)
             /\ decodedBounds(m.ranges)[i - 1] = lowerOf(a, ZeroBound, i)
             /\ decodedBounds(m.ranges)[i] = a[i].upper
      BY Understood DEF TruthInv, FrameInv
    <2>2. CASE lowerOf(a, ZeroBound, i) \prec a[i].upper
      BY <2>1, <2>2
    <2>3. CASE /\ i = Len(a) /\ lowerOf(a, ZeroBound, i) = Infinity
               /\ a[i] = RestOfNothing
      <3>1. i # 1
        BY <2>3, WidthAssumption DEF lowerOf, ZeroBound, Infinity
      <3>2. i > 1
        BY <2>1, <3>1, SMT
      <3> QED
        BY <2>1, <2>3, <3>2 DEF RestOfNothing, FingerprintRange
    <2> QED
      BY <2>1, <2>2, <2>3 DEF AscendsToEnd
  <1>2. TruthInv /\ [Next]_vars => TruthInv'
    BY TruthStep
  <1> QED
    BY <1>1, <1>2, TruthStart, PTL DEF Spec

(* Same place, "Range": an IdList holds all IDs the sender has within the  *)
(* range, between the bounds its receiver decodes - also when a frame      *)
(* limit cuts the list short, and after insertions and erasures, but for   *)
(* the IDs these are of.                                                   *)
THEOREM IdListsAreTruthful ==
    ASSUME NoBases
    PROVE  Spec => []IdListsTruthful
  <1>1. TruthInv => IdListsTruthful
    <2> SUFFICES ASSUME TruthInv, NEW p \in Peer,
                        NEW m \in ToSet(inbox[other(p)]),
                        NEW i \in DOMAIN m.ranges,
                        m.ranges[i].mode = "idlist"
                 PROVE  LET bound == decodedBounds(m.ranges)
                        IN  SameUntouched(m.ranges[i].ids,
                                IdsBetween(p, bound[i - 1], bound[i]))
      BY DEF IdListsTruthful, Truthful
    <2>1. other(p) \in Peer /\ other(other(p)) = p
      BY OtherPeer
    <2>2. PICK a \in Seq(PlainRange) :
             /\ i \in 1 .. Len(a) /\ Honest(p, a, ZeroBound)
             /\ decodedBounds(m.ranges)[i - 1] = lowerOf(a, ZeroBound, i)
             /\ decodedBounds(m.ranges)[i] = a[i].upper
             /\ m.ranges[i].mode = a[i].mode
             /\ m.ranges[i].ids = a[i].ids
      BY <2>1, Understood DEF TruthInv, FrameInv
    <2> QED
      BY <2>2 DEF Honest, HonestRange
  <1>2. TruthInv /\ [Next]_vars => TruthInv'
    BY TruthStep
  <1> QED
    BY <1>1, <1>2, TruthStart, PTL DEF Spec

(* Same place: a Fingerprint digests all the IDs the sender has within the *)
(* range - so it is in the messages of a peer without a frame limit.       *)
THEOREM FingerprintsAreTruthful ==
    ASSUME NoBases
    PROVE  Spec => []FingerprintsTruthful
  <1>1. TruthInv => FingerprintsTruthful
    <2> SUFFICES ASSUME TruthInv, NEW p \in Peer, frameSizeLimit[p] = 0,
                        NEW m \in ToSet(inbox[other(p)]),
                        NEW i \in DOMAIN m.ranges,
                        m.ranges[i].mode = "fingerprint"
                 PROVE  LET bound == decodedBounds(m.ranges)
                        IN  SameUntouched(m.ranges[i].ids,
                                IdsBetween(p, bound[i - 1], bound[i]))
      BY DEF FingerprintsTruthful, Truthful
    <2>1. other(p) \in Peer /\ other(other(p)) = p
      BY OtherPeer
    <2>2. PICK a \in Seq(PlainRange) :
             /\ i \in 1 .. Len(a) /\ Honest(p, a, ZeroBound)
             /\ decodedBounds(m.ranges)[i - 1] = lowerOf(a, ZeroBound, i)
             /\ decodedBounds(m.ranges)[i] = a[i].upper
             /\ m.ranges[i].mode = a[i].mode
             /\ m.ranges[i].ids = a[i].ids
      BY <2>1, Understood DEF TruthInv, FrameInv
    <2> QED
      BY <2>2 DEF Honest, HonestRange
  <1>2. TruthInv /\ [Next]_vars => TruthInv'
    BY TruthStep
  <1> QED
    BY <1>1, <1>2, TruthStart, PTL DEF Spec

-----------------------------------------------------------------------------
(***************************************************************************)
(* What the client is told: only differences, each of them once unless a   *)
(* frame limit cuts answers short, and at the end all of them; and that    *)
(* the engine therefore implements the synchronisation of module           *)
(* SetReconciliation.                                                      *)
(*                                                                         *)
(* Every invariant speaks of what a message, the rest of a query or an     *)
(* output covers: the items in a range that asks for an answer.  What was  *)
(* reported is covered by nothing (OnceInv); a difference that was not is  *)
(* covered by everything on its way (CoverInv).                            *)
(***************************************************************************)

-----------------------------------------------------------------------------
(* Sets of items and sets of IDs.                                          *)

LEMMA SequenceIds ==
    ASSUME NEW s \in Seq(Universe)
    PROVE  /\ ToSet(s) \subseteq Universe
           /\ IdsIn(s, 0, Len(s)) = {it.id : it \in ToSet(s)}
  <1>1. Len(s) \in Nat /\ DOMAIN s = 1 .. Len(s)
        /\ (0 + 1) .. Len(s) = 1 .. Len(s)
    BY SMT
  <1>2. ToSet(s) \subseteq Universe
    BY SMT DEF ToSet
  <1> QED
    BY <1>1, <1>2 DEF IdsIn, ToSet

LEMMA StoredIds ==
    ASSUME TypeOK, NEW q \in Peer
    PROVE  /\ ToSet(store[q]) \subseteq Universe
           /\ IdsOf(q) = {it.id : it \in ToSet(store[q])}
           /\ IdsOf(q) \subseteq Id
  <1>1. store[q] \in Seq(Universe) /\ \A it \in Universe : it.id \in Id
    BY DataAssumption DEF TypeOK, Item
  <1> QED
    BY <1>1, SequenceIds DEF IdsOf

(* An ID is of one item. *)
LEMMA StoredItem ==
    ASSUME TypeOK, NEW q \in Peer, NEW it \in Universe
    PROVE  it.id \in IdsOf(q) <=> it \in ToSet(store[q])
  BY StoredIds, DataAssumption

LEMMA Counted ==
    /\ Reported(NoIds) = {}
    /\ \A c \in [Id -> Nat] : \A ids \in SUBSET Id :
          Reported(Count(c, ids)) = Reported(c) \cup ids
    /\ \A c, d \in [Id -> Nat] :
          Reported(AddCounts(c, d)) = Reported(c) \cup Reported(d)
  <1>1. Reported(NoIds) = {}
    BY SMT DEF Reported, NoIds
  <1>2. ASSUME NEW c \in [Id -> Nat], NEW ids \in SUBSET Id
        PROVE  Reported(Count(c, ids)) = Reported(c) \cup ids
    <2>1. \A k \in Id : /\ Count(c, ids)[k] = IF k \in ids THEN c[k] + 1 ELSE c[k]
                        /\ c[k] \in Nat /\ c[k] + 1 > 0
      BY SMT DEF Count
    <2> QED
      BY <2>1 DEF Reported
  <1>3. ASSUME NEW c \in [Id -> Nat], NEW d \in [Id -> Nat]
        PROVE  Reported(AddCounts(c, d)) = Reported(c) \cup Reported(d)
    <2>1. \A k \in Id : AddCounts(c, d)[k] > 0 <=> c[k] > 0 \/ d[k] > 0
      BY SMT DEF AddCounts
    <2> QED
      BY <2>1 DEF Reported
  <1> QED
    BY <1>1, <1>2, <1>3

(* A difference stays one, or is touched. *)
LEMMA DifferenceKept ==
    ASSUME TypeOK, TypeOK', [Next]_vars
    PROVE  /\ OnlyMine \cup touched \subseteq OnlyMine' \cup touched'
           /\ OnlyTheirs \cup touched \subseteq OnlyTheirs' \cup touched'
           /\ OnlyMine' \ touched' \subseteq OnlyMine \ touched
           /\ OnlyTheirs' \ touched' \subseteq OnlyTheirs \ touched
  <1>1. ASSUME NEW q \in Peer
        PROVE  /\ touched \subseteq touched'
               /\ \A k : k \notin touched' =>
                     (k \in IdsOf(q)' <=> k \in IdsOf(q))
    <2>1. Untouched(q)
      BY StepUntouched
    <2>2. /\ ToSet(store[q]) \subseteq Universe
          /\ IdsOf(q) = {it.id : it \in ToSet(store[q])}
      BY StoredIds
    <2>3. /\ ToSet(store'[q]) \subseteq Universe
          /\ IdsOf(q)' = {it.id : it \in ToSet(store'[q])}
      BY SequenceIds DEF TypeOK, IdsOf
    <2> QED
      BY <2>1, <2>2, <2>3 DEF Untouched
  <1>2. Client \in Peer /\ Server \in Peer
    BY DEF Peer
  <1> QED
    BY <1>1, <1>2 DEF OnlyMine, OnlyTheirs

-----------------------------------------------------------------------------
(* Soundness.                                                              *)

Within(it, lower, upper) == lower \preceq it /\ it \prec upper

Differs(it) ==
    /\ it.id \notin touched
    /\ ~(it.id \in IdsOf(Client) <=> it.id \in IdsOf(Server))

(* What a call adds to its reports when it compares a list with its items: *)
(* every difference of the range, and nothing else.                        *)
LEMMA ListCompared ==
    ASSUME NoBases, TruthInv, NEW p \in Peer, NEW upper,
           IdListAtInitiator(p, upper)
    PROVE  /\ p = Client
           /\ LET ours   == IdsIn(store[p], prevIndex, upper)
                  theirs == Head(query).ids
              IN  /\ ours \in SUBSET Id /\ theirs \in SUBSET Id
                  /\ ours \ theirs \subseteq OnlyMine \cup touched
                  /\ theirs \ ours \subseteq OnlyTheirs \cup touched
                  /\ \A k \in ours \cup theirs : \E it \in Universe :
                        it.id = k /\ Within(it, prevBound, currBound(p))
                  /\ \A it \in Universe :
                        Differs(it) /\ Within(it, prevBound, currBound(p)) =>
                           it.id \in (ours \ theirs) \cup (theirs \ ours)
                  /\ haveIds' = Count(haveIds, ours \ theirs)
                  /\ needIds' = Count(needIds, theirs \ ours)
  <1> DEFINE ours   == IdsIn(store[p], prevIndex, upper)
             theirs == Head(query).ids
             l == prevBound
             u == currBound(p)
  <1>1. TypeOK /\ Client \in Peer /\ Server \in Peer
    BY DEF TruthInv, FrameInv, Peer
  <1>2. p = Client /\ other(p) = Server
    BY PeerAssumption DEF IdListAtInitiator, TruthInv, PhaseInv, Peer, other
  <1>3. NextRange(p, "idlist", upper) /\ active = p
    BY DEF IdListAtInitiator, NextRange
  <1>4. PICK a : Reading(p, a)
    BY <1>3, PeerAssumption DEF TruthInv, CallInv, Turned, Reading
  <1>5. ReadsHead(p, a, upper)
    BY <1>1, <1>3, <1>4, HeadRead
  <1>6. /\ ours = IdsBetween(Client, l, u)
        /\ SameUntouched(theirs, IdsBetween(Server, l, u))
        /\ Located(theirs, l, u)
    BY <1>2, <1>3, <1>5 DEF ReadsHead, NextRange, HonestRange
  <1>7. theirs \in SUBSET Id
    <2>1. query \in Seq(WireRange) /\ query # <<>>
      BY <1>1, <1>3 DEF TypeOK, NextRange
    <2>2. Head(query) \in WireRange
      BY <2>1, SMT
    <2> QED
      BY <2>2 DEF WireRange
  <1> HIDE DEF ours, theirs, l, u
  <1>8. \A q \in Peer : \A k :
           /\ k \in IdsBetween(q, l, u) =>
                 k \in IdsOf(q) /\ \E it \in Universe :
                     it.id = k /\ l \preceq it /\ it \prec u
           /\ k \in IdsOf(q) /\ (\E it \in Universe :
                     it.id = k /\ l \preceq it /\ it \prec u) =>
                 k \in IdsBetween(q, l, u)
    <2> SUFFICES ASSUME NEW q \in Peer, NEW k
                 PROVE  /\ k \in IdsBetween(q, l, u) =>
                             k \in IdsOf(q) /\ \E it \in Universe :
                                 it.id = k /\ l \preceq it /\ it \prec u
                        /\ k \in IdsOf(q) /\ (\E it \in Universe :
                                 it.id = k /\ l \preceq it /\ it \prec u) =>
                             k \in IdsBetween(q, l, u)
      OBVIOUS
    <2>1. /\ ToSet(store[q]) \subseteq Universe
          /\ IdsOf(q) = {it.id : it \in ToSet(store[q])}
      BY <1>1, StoredIds
    <2>2. \A it \in Universe : it.id \in IdsOf(q) <=> it \in ToSet(store[q])
      BY <1>1, StoredItem
    <2> QED
      BY <2>1, <2>2 DEF IdsBetween
  <1>9. ours \in SUBSET Id
    BY <1>1, <1>6, <1>8, StoredIds
  <1>10. ours \ theirs \subseteq OnlyMine \cup touched
    BY <1>1, <1>6, <1>8 DEF OnlyMine, SameUntouched
  <1>11. theirs \ ours \subseteq OnlyTheirs \cup touched
    BY <1>1, <1>6, <1>8 DEF OnlyTheirs, SameUntouched
  <1>12. \A k \in ours \cup theirs :
            \E it \in Universe : it.id = k /\ Within(it, l, u)
    BY <1>1, <1>6, <1>8 DEF Located, Within
  <1>13. ASSUME NEW it \in Universe, Differs(it), Within(it, l, u)
         PROVE  it.id \in (ours \ theirs) \cup (theirs \ ours)
    <2>1. \A q \in Peer : it.id \in IdsBetween(q, l, u) <=> it.id \in IdsOf(q)
      BY <1>8, <1>13 DEF Within
    <2>2. it.id \in theirs <=> it.id \in IdsBetween(Server, l, u)
      BY <1>6, <1>13 DEF SameUntouched, Differs
    <2> QED
      BY <1>1, <1>6, <1>13, <2>1, <2>2 DEF Differs
  <1> QED
    BY <1>2, <1>7, <1>9, <1>10, <1>11, <1>12, <1>13
    DEF IdListAtInitiator, ours, theirs, l, u

(* Every other step keeps what is reported, hands it over or forgets it.   *)
LEMMA ReportsMove ==
    ASSUME TypeOK, [Next]_vars
    PROVE  \/ \E p \in Peer : \E upper \in 0 .. Len(store[p]) :
                 /\ ReconcileRange(p) /\ IdListAtInitiator(p, upper)
                 /\ UNCHANGED <<have, need>>
           \/ UNCHANGED <<haveIds, needIds, have, need>>
           \/ /\ haveIds' = NoIds /\ needIds' = NoIds
              /\ \/ UNCHANGED <<have, need>>
                 \/ ReturnAtInitiator
  <1>1. ASSUME NEW p \in Peer, ReconcileRange(p)
        PROVE  \/ \E upper \in 0 .. Len(store[p]) :
                     IdListAtInitiator(p, upper) /\ UNCHANGED <<have, need>>
               \/ UNCHANGED <<haveIds, needIds, have, need>>
    <2>1. PICK upper \in 0 .. Len(store[p]) :
             \/ SkipStep(p, upper)
             \/ FingerprintMatches(p, upper)
             \/ FingerprintDiffers(p, upper)
             \/ IdListAtInitiator(p, upper)
             \/ IdListAtResponder(p, upper)
      BY <1>1, BranchTaken
    <2> QED
      BY <1>1, <2>1
      DEF SkipStep, FingerprintMatches, FingerprintDiffers,
          IdListAtInitiator, IdListAtResponder, NextRange, appVars
  <1>2. CASE Continue \/ Finish
    BY <1>2 DEF Continue, Finish, ReturnAtInitiator, LeaveCall, DropLocals
  <1>3. CASE ReturnAtResponder
    BY <1>3 DEF ReturnAtResponder, LeaveCall, DropLocals
  <1>4. CASE \E p \in Peer : Throw(p) \/ Receive(p)
    BY <1>4 DEF Throw, DropLocals, Receive, appVars
  <1>5. CASE \/ Initiate \/ Downgrade \/ RefuseVersion \/ Retry
             \/ ProbeNewerVersion \/ Timeout \/ UNCHANGED vars
             \/ \E p \in Peer : Insert(p) \/ Erase(p) \/ Recreate(p)
    BY <1>5 DEF Initiate, Downgrade, RefuseVersion, Retry, ProbeNewerVersion,
                Timeout, vars, Insert, Erase, EditStore, Recreate, appVars
  <1> QED
    BY <1>1, <1>2, <1>3, <1>4, <1>5
    DEF Next, Protocol, Terminated, StorageFails, BadRange

LEMMA SoundStep ==
    ASSUME NoBases, TruthInv, SoundReports, TypeOK', [Next]_vars
    PROVE  SoundReports'
  <1>1. TypeOK /\ haveIds \in [Id -> Nat] /\ needIds \in [Id -> Nat]
        /\ have \in [Id -> Nat] /\ need \in [Id -> Nat]
    BY DEF TruthInv, FrameInv, TypeOK
  <1>2. /\ Reported(haveIds') \cup Reported(have')
               \subseteq OnlyMine \cup touched
        /\ Reported(needIds') \cup Reported(need')
               \subseteq OnlyTheirs \cup touched
    <2>1. ASSUME NEW p \in Peer, NEW upper \in 0 .. Len(store[p]),
                 IdListAtInitiator(p, upper), UNCHANGED <<have, need>>
          PROVE  /\ Reported(haveIds') \cup Reported(have')
                        \subseteq OnlyMine \cup touched
                 /\ Reported(needIds') \cup Reported(need')
                        \subseteq OnlyTheirs \cup touched
      <3> DEFINE ours   == IdsIn(store[p], prevIndex, upper)
                 theirs == Head(query).ids
      <3>1. /\ ours \in SUBSET Id /\ theirs \in SUBSET Id
            /\ ours \ theirs \subseteq OnlyMine \cup touched
            /\ theirs \ ours \subseteq OnlyTheirs \cup touched
            /\ haveIds' = Count(haveIds, ours \ theirs)
            /\ needIds' = Count(needIds, theirs \ ours)
        BY <2>1, ListCompared
      <3> HIDE DEF ours, theirs
      <3>2. /\ Reported(haveIds') = Reported(haveIds) \cup (ours \ theirs)
            /\ Reported(needIds') = Reported(needIds) \cup (theirs \ ours)
        BY <1>1, <3>1, Counted
      <3> QED
        BY <2>1, <3>1, <3>2 DEF SoundReports
    <2>2. CASE UNCHANGED <<haveIds, needIds, have, need>>
      BY <2>2 DEF SoundReports
    <2>3. CASE /\ haveIds' = NoIds /\ needIds' = NoIds
               /\ UNCHANGED <<have, need>>
      BY <2>3, Counted DEF SoundReports
    <2>4. CASE /\ haveIds' = NoIds /\ needIds' = NoIds
               /\ ReturnAtInitiator
      <3>1. /\ Reported(have') = Reported(have) \cup Reported(haveIds)
            /\ Reported(need') = Reported(need) \cup Reported(needIds)
        BY <1>1, <2>4, Counted DEF ReturnAtInitiator
      <3> QED
        BY <2>4, <3>1, Counted DEF SoundReports
    <2> QED
      BY <1>1, <2>1, <2>2, <2>3, <2>4, ReportsMove
  <1>3. /\ OnlyMine \cup touched \subseteq OnlyMine' \cup touched'
        /\ OnlyTheirs \cup touched \subseteq OnlyTheirs' \cup touched'
    BY <1>1, DifferenceKept
  <1> QED
    BY <1>2, <1>3 DEF SoundReports

(* Whatever the frame limits, the splits, the exceptions and the changes   *)
(* of the storages between two calls, reconcile() at the client reports an *)
(* ID as "have" only if the client has it and the server does not, and as  *)
(* "need" only in the opposite case - an ID inserted or erased meanwhile   *)
(* excepted.                                                               *)
THEOREM ReportsAreSound ==
    ASSUME NoBases
    PROVE  Spec => []SoundReports
  <1>1. Init => TruthInv /\ SoundReports
    <2> SUFFICES ASSUME Init PROVE SoundReports
      BY TruthStart
    <2> QED
      BY Counted DEF Init, SoundReports
  <1>2. TruthInv /\ SoundReports /\ [Next]_vars => TruthInv' /\ SoundReports'
    <2> SUFFICES ASSUME TruthInv, SoundReports, [Next]_vars
                 PROVE  TruthInv' /\ SoundReports'
      OBVIOUS
    <2>1. TruthInv' /\ TypeOK'
      BY TruthStep DEF TruthInv, FrameInv
    <2> QED
      BY <2>1, SoundStep
  <1> QED
    BY <1>1, <1>2, PTL DEF Spec

-----------------------------------------------------------------------------
(* Where ranges ask for answers.                                           *)

(* A range that is not skipped has this item in it. *)
Covers(a, from, it) ==
    \E n \in 1 .. Len(a) : /\ a[n].mode # "skip"
                           /\ lowerOf(a, from, n) \preceq it
                           /\ it \prec a[n].upper

LEMMA OrderEq ==
    /\ \A x, y, z \in Bound : x \preceq y /\ y \preceq z => x \preceq z
    /\ \A x, y, z \in Bound : x \prec y /\ y \preceq z => x \prec z
    /\ \A x, y, z \in Bound : x \preceq y /\ y \prec z => x \prec z
    /\ \A x, y \in Bound : x \preceq y \/ y \prec x
    /\ \A x, y \in Bound : ~(x \preceq y /\ y \prec x)
    /\ \A x : x \preceq x
  BY Order DEF \preceq

LEMMA UppersType ==
    ASSUME NEW a \in Seq(PlainRange)
    PROVE  \A n \in 1 .. Len(a) : a[n].upper \in Bound
  <1>1. \A n \in 1 .. Len(a) : a[n] \in PlainRange
    BY SMT
  <1> QED
    BY <1>1 DEF PlainRange

LEMMA CoversNothing ==
    ASSUME NEW from, NEW it
    PROVE  ~Covers(<<>>, from, it)
  <1>1. Len(<<>>) = 0 /\ \A n \in 1 .. 0 : FALSE
    BY SMT
  <1> QED
    BY <1>1 DEF Covers

LEMMA CoversJoined ==
    ASSUME NEW a \in Seq(PlainRange), NEW b \in Seq(PlainRange),
           NEW from, NEW it
    PROVE  Covers(a \o b, from, it) <=> \/ Covers(a, from, it)
                                        \/ Covers(b, lastOf(a, from), it)
  <1> DEFINE c == a \o b
             la == Len(a)
             lb == Len(b)
             last == lastOf(a, from)
  <1>1. Joins(c, a, b, from)
    BY Joined
  <1> HIDE DEF c
  <1>2. /\ la \in Nat /\ lb \in Nat /\ Len(c) = la + lb
        /\ \A n \in 1 .. la :
              c[n] = a[n] /\ lowerOf(c, from, n) = lowerOf(a, from, n)
        /\ \A n \in 1 .. lb :
              c[la + n] = b[n] /\ lowerOf(c, from, la + n) = lowerOf(b, last, n)
    BY <1>1 DEF Joins
  <1> HIDE DEF la, lb, last
  <1>3. /\ \A n \in 1 .. Len(c) :
              \/ n \in 1 .. la
              \/ n - la \in 1 .. lb /\ la + (n - la) = n
        /\ \A n \in 1 .. la : n \in 1 .. Len(c)
        /\ \A n \in 1 .. lb : la + n \in 1 .. Len(c)
    BY <1>2, SMT
  <1>4. Covers(c, from, it) => Covers(a, from, it) \/ Covers(b, last, it)
    <2> SUFFICES ASSUME NEW n \in 1 .. Len(c), c[n].mode # "skip",
                        lowerOf(c, from, n) \preceq it, it \prec c[n].upper
                 PROVE  Covers(a, from, it) \/ Covers(b, last, it)
      BY DEF Covers
    <2>1. CASE n \in 1 .. la
      BY <1>2, <2>1 DEF Covers, la
    <2>2. CASE n \notin 1 .. la
      <3>1. PICK k \in 1 .. lb : la + k = n
        BY <1>3, <2>2
      <3> QED
        BY <1>2, <3>1 DEF Covers, lb
    <2> QED
      BY <2>1, <2>2
  <1>5. Covers(a, from, it) => Covers(c, from, it)
    BY <1>2, <1>3 DEF Covers, la
  <1>6. Covers(b, last, it) => Covers(c, from, it)
    BY <1>2, <1>3 DEF Covers, lb
  <1> QED
    BY <1>4, <1>5, <1>6 DEF c, last

LEMMA CoversRest ==
    ASSUME NEW a \in Seq(PlainRange), a # <<>>, NEW from, NEW it
    PROVE  Covers(a, from, it) <=>
              \/ a[1].mode # "skip" /\ from \preceq it /\ it \prec a[1].upper
              \/ Covers(Tail(a), a[1].upper, it)
  <1> DEFINE b == Tail(a)
  <1>1. Rests(b, a, from)
    BY Rested
  <1> HIDE DEF b
  <1>2. /\ Len(a) \in Nat /\ 1 \in 1 .. Len(a) /\ Len(b) = Len(a) - 1
        /\ lowerOf(a, from, 1) = from
        /\ \A n \in 1 .. Len(b) :
              /\ n + 1 \in 1 .. Len(a)
              /\ b[n] = a[n + 1]
              /\ lowerOf(b, a[1].upper, n) = lowerOf(a, from, n + 1)
    BY <1>1 DEF Rests
  <1>3. ASSUME NEW n \in 1 .. Len(a), n # 1
        PROVE  n - 1 \in 1 .. Len(b) /\ (n - 1) + 1 = n
    BY <1>2, <1>3, SMT
  <1>4. ASSUME Covers(a, from, it)
        PROVE  \/ a[1].mode # "skip" /\ from \preceq it /\ it \prec a[1].upper
               \/ Covers(b, a[1].upper, it)
    <2>1. PICK n \in 1 .. Len(a) : /\ a[n].mode # "skip"
                                   /\ lowerOf(a, from, n) \preceq it
                                   /\ it \prec a[n].upper
      BY <1>4 DEF Covers
    <2>2. CASE n = 1
      BY <1>2, <2>1, <2>2
    <2>3. CASE n # 1
      <3>1. PICK k \in 1 .. Len(b) : k + 1 = n
        BY <1>3, <2>3
      <3>2. b[k] = a[n] /\ lowerOf(b, a[1].upper, k) = lowerOf(a, from, n)
        BY <1>2, <3>1
      <3> QED
        BY <2>1, <3>2 DEF Covers
    <2> QED
      BY <2>2, <2>3
  <1>5. ASSUME a[1].mode # "skip", from \preceq it, it \prec a[1].upper
        PROVE  Covers(a, from, it)
    BY <1>2, <1>5 DEF Covers
  <1>6. ASSUME Covers(b, a[1].upper, it)
        PROVE  Covers(a, from, it)
    BY <1>2, <1>6 DEF Covers
  <1> QED
    BY <1>4, <1>5, <1>6 DEF b

(* Ascending ranges without a skip cover all from end to end ... *)
LEMMA CoversAll ==
    ASSUME NEW a \in Seq(PlainRange), NEW from \in Bound, NEW it \in Bound,
           Ascends(a, from), \A n \in 1 .. Len(a) : a[n].mode # "skip",
           from \preceq it, it \prec lastOf(a, from)
    PROVE  Covers(a, from, it)
  <1>1. a # <<>>
    <2>1. CASE a = <<>>
      BY <2>1, OrderEq DEF lastOf
    <2> QED
      BY <2>1
  <1>2. /\ Len(a) \in Nat /\ Len(a) \in 1 .. Len(a)
        /\ \A n \in 1 .. Len(a) : a[n].upper \in Bound
    <2>1. Len(a) \in Nat /\ Len(a) \in 1 .. Len(a)
      BY <1>1, SMT
    <2> QED
      BY <2>1, UppersType
  <1> DEFINE T == {n \in 1 .. Len(a) : it \prec a[n].upper}
  <1>3. Len(a) \in T /\ T \subseteq Nat
    BY <1>1, <1>2, SMT DEF lastOf
  <1>4. PICK m \in T : \A k \in T : m <= k
    <2> HIDE DEF T
    <2> QED
      BY <1>3, LeastNumber
  <1>5. m \in 1 .. Len(a) /\ it \prec a[m].upper /\ a[m].mode # "skip"
    BY <1>4
  <1>6. lowerOf(a, from, m) \preceq it
    <2>1. CASE m = 1
      BY <2>1 DEF lowerOf
    <2>2. CASE m # 1
      <3>1. m - 1 \in 1 .. Len(a) /\ ~(m <= m - 1)
        BY <1>2, <1>5, <2>2, SMT
      <3>2. ~(it \prec a[m - 1].upper)
        BY <1>4, <3>1
      <3>3. a[m - 1].upper \preceq it
        BY <1>2, <3>1, <3>2, OrderEq
      <3> QED
        BY <2>2, <3>3 DEF lowerOf
    <2> QED
      BY <2>1, <2>2
  <1> QED
    BY <1>5, <1>6 DEF Covers

(* ... and nothing outside. *)
LEMMA CoversFrom ==
    ASSUME NEW a \in Seq(PlainRange), NEW from \in Bound, NEW it \in Bound,
           AscendsToEnd(a, from), Covers(a, from, it)
    PROVE  from \preceq it
  <1>1. /\ Len(a) \in Nat
        /\ \A n \in 1 .. Len(a) : a[n].upper \in Bound
    BY UppersType, SMT
  <1>2. \A n \in 1 .. Len(a) : lowerOf(a, from, n) \in Bound
    BY Encoded DEF Encodes
  <1> DEFINE T == {n \in 1 .. Len(a) : ~(from \preceq lowerOf(a, from, n))}
  <1>3. ASSUME T # {}
        PROVE  FALSE
    <2>1. T \subseteq Nat
      BY SMT
    <2>2. PICK m \in T : \A k \in T : m <= k
      <3> HIDE DEF T
      <3> QED
        BY <1>3, <2>1, LeastNumber
    <2>3. m \in 1 .. Len(a) /\ ~(from \preceq lowerOf(a, from, m))
      BY <2>2
    <2>4. m # 1
      BY <2>3, OrderEq DEF lowerOf
    <2>5. PICK j \in 1 .. Len(a) : j = m - 1 /\ ~(m <= j)
      <3>1. m - 1 \in 1 .. Len(a) /\ ~(m <= m - 1)
        BY <1>1, <2>3, <2>4, SMT
      <3> QED
        BY <3>1
    <2>6. lowerOf(a, from, m) = a[j].upper
      BY <2>4, <2>5 DEF lowerOf
    <2>7. from \preceq lowerOf(a, from, j)
      BY <2>2, <2>5
    <2>8. lowerOf(a, from, j) \preceq a[j].upper
      BY DEF AscendsToEnd, RestOfNothing, FingerprintRange, \preceq
    <2> QED
      BY <1>1, <1>2, <2>3, <2>6, <2>7, <2>8, OrderEq
  <1>4. PICK n \in 1 .. Len(a) : lowerOf(a, from, n) \preceq it
    BY DEF Covers
  <1>5. from \preceq lowerOf(a, from, n)
    BY <1>3
  <1> QED
    BY <1>2, <1>4, <1>5, OrderEq

LEMMA CoversTo ==
    ASSUME NEW a \in Seq(PlainRange), NEW from \in Bound, NEW it \in Bound,
           Ascends(a, from), Covers(a, from, it)
    PROVE  it \prec lastOf(a, from)
  <1>1. PICK n \in 1 .. Len(a) : it \prec a[n].upper
    BY DEF Covers
  <1>2. /\ Len(a) \in Nat /\ a # <<>> /\ Len(a) \in 1 .. Len(a)
        /\ \A i \in 1 .. Len(a) : a[i].upper \in Bound
    <2>1. Len(a) \in Nat /\ a # <<>> /\ Len(a) \in 1 .. Len(a)
      BY SMT
    <2> QED
      BY <2>1, UppersType
  <1> DEFINE last == lastOf(a, from)
             T == {k \in 0 .. Len(a) - 1 : ~(a[Len(a) - k].upper \preceq last)}
  <1>3. last = a[Len(a)].upper /\ last \in Bound
    BY <1>2 DEF lastOf
  <1> HIDE DEF last
  <1>4. ASSUME T # {}
        PROVE  FALSE
    <2>1. T \subseteq Nat
      BY <1>2, SMT
    <2>2. PICK m \in T : \A k \in T : m <= k
      <3> HIDE DEF T
      <3> QED
        BY <1>4, <2>1, LeastNumber
    <2>3. m \in 0 .. Len(a) - 1 /\ ~(a[Len(a) - m].upper \preceq last)
      BY <2>2
    <2>4. m # 0
      <3>1. CASE m = 0
        <4>1. Len(a) - m = Len(a)
          BY <1>2, <3>1, SMT
        <4> QED
          BY <1>3, <2>3, <4>1, OrderEq
      <3> QED
        BY <3>1
    <2>5. PICK i \in 1 .. Len(a), j \in 1 .. Len(a) :
             /\ i = Len(a) - m /\ j = Len(a) - (m - 1)
             /\ j # 1 /\ j - 1 = i
      <3>1. /\ Len(a) - m \in 1 .. Len(a) /\ Len(a) - (m - 1) \in 1 .. Len(a)
            /\ Len(a) - (m - 1) # 1 /\ (Len(a) - (m - 1)) - 1 = Len(a) - m
        BY <1>2, <2>3, <2>4, SMT
      <3> QED
        BY <3>1
    <2>6. m - 1 \in 0 .. Len(a) - 1 /\ ~(m <= m - 1)
      BY <1>2, <2>3, <2>4, SMT
    <2>7. a[j].upper \preceq last
      BY <2>2, <2>5, <2>6
    <2>8. a[i].upper \prec a[j].upper
      BY <2>5 DEF Ascends, lowerOf
    <2>9. a[i].upper \preceq last
      BY <1>2, <1>3, <2>7, <2>8, OrderEq DEF \preceq
    <2> QED
      BY <2>3, <2>5, <2>9
  <1>5. a[n].upper \preceq last
    <2>1. Len(a) - n \in 0 .. Len(a) - 1 /\ Len(a) - (Len(a) - n) = n
      BY <1>2, SMT
    <2> QED
      BY <1>4, <2>1
  <1> QED
    BY <1>1, <1>2, <1>3, <1>5, OrderEq DEF last

-----------------------------------------------------------------------------
(* The loop without a frame limit: a turn settles its range, or answers it *)
(* in full.                                                                *)

Settles(p, upper) ==
    SkipStep(p, upper) \/ FingerprintMatches(p, upper)
                       \/ IdListAtInitiator(p, upper)

LEMMA UnlimitedTurn ==
    ASSUME NoBases, FrameInv, NEW p \in Peer, frameSizeLimit[p] = 0,
           ReconcileRange(p), NEW a, Reading(p, a), NEW out, Written(p, out)
    PROVE  \E upper :
              /\ ReadsHead(p, a, upper) /\ prevBound' = currBound(p)
              /\ \/ /\ Settles(p, upper)
                    /\ Reading(p, Tail(a))' /\ Written(p, out)'
                 \/ /\ a[1].mode # "skip" /\ Answers(p, a, out)
                    /\ UNCHANGED <<haveIds, needIds>>
  <1>1. TypeOK /\ TypeOK'
    BY ReconcileRangeType DEF FrameInv
  <1>2. PICK upper \in 0 .. Len(store[p]) :
           \/ SkipStep(p, upper)
           \/ FingerprintMatches(p, upper)
           \/ FingerprintDiffers(p, upper)
           \/ IdListAtInitiator(p, upper)
           \/ IdListAtResponder(p, upper)
    BY <1>1, BranchTaken
  <1>3. PICK mode : NextRange(p, mode, upper)
    BY <1>2 DEF SkipStep, FingerprintMatches, FingerprintDiffers,
                IdListAtInitiator, IdListAtResponder
  <1>4. Still /\ lastTimestampIn'[p] = currBound(p).timestamp
    BY <1>1, <1>3 DEF NextRange, Still, storeVars, TypeOK
  <1>5. ReadsHead(p, a, upper)
    BY <1>1, <1>3, HeadRead
  <1>6. \A n : ~exceededFrameSizeLimit(p, n)
    BY DEF exceededFrameSizeLimit
  <1>7. prevBound' = currBound(p)
    BY <1>2, <1>6 DEF SkipStep, FingerprintMatches, FingerprintDiffers,
                      IdListAtInitiator, IdListAtResponder, EndRange
  <1>8. CASE Settles(p, upper)
    <2>1. skip' = TRUE /\ EndRange(p, Nothing, Nothing, upper)
      BY <1>8 DEF Settles, SkipStep, FingerprintMatches, IdListAtInitiator
    <2>2. Reading(p, Tail(a))' /\ Written(p, out)'
      BY <1>1, <1>4, <1>5, <2>1, QuietTurn
    <2> QED
      BY <1>5, <1>7, <1>8, <2>2
  <1>9. CASE FingerprintDiffers(p, upper)
    <2>1. Answers(p, a, out)
      BY <1>1, <1>4, <1>5, <1>9, FingerprintTurn
    <2>2. a[1].mode # "skip" /\ UNCHANGED <<haveIds, needIds>>
      BY <1>5, <1>9 DEF FingerprintDiffers, NextRange, ReadsHead
    <2> QED
      BY <1>5, <1>7, <2>1, <2>2
  <1>10. CASE IdListAtResponder(p, upper)
    <2>1. Answers(p, a, out)
      BY <1>1, <1>4, <1>5, <1>10, ListTurn
    <2>2. a[1].mode # "skip" /\ UNCHANGED <<haveIds, needIds>>
      BY <1>5, <1>10 DEF IdListAtResponder, NextRange, ReadsHead
    <2> QED
      BY <1>5, <1>7, <2>1, <2>2
  <1> QED
    BY <1>2, <1>8, <1>9, <1>10 DEF Settles

(* What an answer covers. *)
LEMMA AnswerCovers ==
    ASSUME TypeOK, NEW p \in Peer, NEW a, NEW upper, ReadsHead(p, a, upper),
           NEW out, Written(p, out),
           NEW main \in Seq(PlainRange), NEW c \in Seq(PlainRange),
           Ascends(main, prevBound), lastOf(main, prevBound) = currBound(p),
           \A n \in 1 .. Len(main) : main[n].mode # "skip",
           c = doSkip.ranges \o main,
           NEW it \in Universe
    PROVE  Covers(out \o c, ZeroBound, it) <=>
              \/ Covers(out, ZeroBound, it)
              \/ prevBound \preceq it /\ it \prec currBound(p)
  <1> DEFINE last == lastOf(out, ZeroBound)
             b == doSkip.ranges
  <1>1. /\ out \in Seq(PlainRange) /\ it \in Bound
        /\ prevBound \in Bound /\ currBound(p) \in Bound
    BY Ends DEF Written, Means, TypeOK, ReadsHead
  <1>2. Covers(main, prevBound, it) <=>
           prevBound \preceq it /\ it \prec currBound(p)
    <2>1. AscendsToEnd(main, prevBound)
      BY AscendsFully
    <2> QED
      BY <1>1, <2>1, CoversAll, CoversFrom, CoversTo
  <1>3. b \in Seq(PlainRange) /\ ~Covers(b, last, it) /\ lastOf(b, last) = prevBound
    <2>1. CASE ~skip
      <3>1. b = <<>>
        BY <2>1 DEF doSkip, Nothing
      <3>2. last = prevBound
        BY <2>1 DEF Written, ReadsHead
      <3>3. <<>> \in Seq(PlainRange)
        BY SMT
      <3> HIDE DEF last, b
      <3> QED
        BY <3>1, <3>2, <3>3, CoversNothing DEF lastOf
    <2>2. CASE skip
      <3> DEFINE r == SkipRange(prevBound)
      <3>1. b = <<r>> /\ r.mode = "skip" /\ r.upper = prevBound
        BY <2>2 DEF doSkip, SkipRange
      <3>2. r \in PlainRange
        BY <1>1 DEF SkipRange, PlainRange, Mode
      <3> HIDE DEF last, b, r
      <3>3. /\ <<r>> \in Seq(PlainRange) /\ Len(<<r>>) = 1 /\ <<r>>[1] = r
            /\ \A n \in 1 .. Len(<<r>>) : n = 1
            /\ lastOf(<<r>>, last) = r.upper
        BY <3>2, OneRange
      <3> QED
        BY <3>1, <3>3 DEF Covers
    <2> QED
      BY <2>1, <2>2
  <1> HIDE DEF b, last
  <1>4. Covers(c, last, it) <=> Covers(main, prevBound, it)
    BY <1>3, CoversJoined DEF b
  <1>5. Covers(out \o c, ZeroBound, it) <=>
           Covers(out, ZeroBound, it) \/ Covers(c, last, it)
    BY <1>1, CoversJoined DEF last
  <1> QED
    BY <1>2, <1>4, <1>5

-----------------------------------------------------------------------------
(* Every difference once.                                                  *)

(* Only the client's call finds differences, and none are reported before  *)
(* its first one: a client that starts again has failed.                   *)
NewsInv ==
    /\ phase = "failed" => faults # 0
    /\ active # Client => haveIds = NoIds /\ needIds = NoIds
    /\ faults = 0 /\ phase \in {"idle", "probing"} =>
          have = NoIds /\ need = NoIds

LEMMA NewsStep ==
    ASSUME TypeOK, PhaseInv, NewsInv, [Next]_vars
    PROVE  NewsInv'
  <1> USE DEF NewsInv
  <1>1. /\ Client # Server /\ Client \in Peer /\ Server \in Peer
        /\ NoPeer # Client /\ faults \in Nat
        /\ faults + 1 # 0
    <2>1. faults \in Nat
      BY DEF TypeOK
    <2> QED
      BY <2>1, PeerAssumption, SMT DEF Peer
  <1>2. ASSUME NEW p \in Peer, ReconcileRange(p)
        PROVE  NewsInv'
    <2>1. UNCHANGED <<active, phase, have, need, faults>> /\ active = p
      BY <1>2 DEF ReconcileRange, SkipStep, FingerprintMatches,
                  FingerprintDiffers, IdListAtInitiator, IdListAtResponder,
                  NextRange, appVars
    <2>2. CASE p = Client
      BY <2>1, <2>2 DEF PhaseInv
    <2>3. CASE p # Client
      <3>1. ~isInitiator[p]
        BY <2>3 DEF PhaseInv, Peer
      <3>2. UNCHANGED <<haveIds, needIds>>
        BY <1>2, <3>1 DEF ReconcileRange, SkipStep, FingerprintMatches,
                 FingerprintDiffers, IdListAtInitiator, IdListAtResponder
      <3> QED
        BY <2>1, <3>2
    <2> QED
      BY <2>2, <2>3
  <1>3. CASE Initiate
    BY <1>3 DEF Initiate
  <1>4. ASSUME NEW p \in Peer, Receive(p) \/ Recreate(p) \/ Insert(p) \/ Erase(p)
        PROVE  NewsInv'
    BY <1>4 DEF Receive, Recreate, Insert, Erase, EditStore, appVars
  <1>5. CASE RefuseVersion \/ Downgrade \/ ProbeNewerVersion \/ UNCHANGED vars
    BY <1>5 DEF RefuseVersion, Downgrade, ProbeNewerVersion, vars, appVars
  <1>6. CASE Timeout
    BY <1>1, <1>6 DEF Timeout
  <1>7. CASE ReturnAtResponder
    BY <1>1, <1>7 DEF ReturnAtResponder, LeaveCall, DropLocals
  <1>8. CASE Continue \/ Finish
    BY <1>1, <1>8 DEF Continue, Finish, ReturnAtInitiator, LeaveCall,
                      DropLocals, PhaseInv
  <1>9. ASSUME NEW p \in Peer, Throw(p)
        PROVE  NewsInv'
    BY <1>1, <1>9 DEF Throw, DropLocals
  <1>10. CASE Retry
    BY <1>1, <1>10 DEF Retry
  <1> QED
    BY <1>2, <1>3, <1>4, <1>5, <1>6, <1>7, <1>8, <1>9, <1>10
    DEF Next, Protocol, Terminated, StorageFails, BadRange

(* Mail while nothing has failed: one message, or a call.                  *)
NoMail == [q \in Peer |-> <<>>]

MailOf(p, m) == [q \in Peer |-> IF q = p THEN <<m>> ELSE <<>>]

Spoken == \A m \in ToSet(inbox[Server]) : m.version = PROTOCOL_VERSION

Lockstep ==
    faults = 0 =>
        /\ phase \in {"idle", "done"} => active = NoPeer /\ inbox = NoMail
        /\ phase = "probing" =>
              /\ active = NoPeer
              /\ \E m : \/ inbox = MailOf(Client, m)
                        \/ inbox = MailOf(Server, m) /\ m.version = NEWER_VERSION
        /\ phase = "waiting" =>
              \/ active # NoPeer /\ inbox = NoMail
              \/ /\ active = NoPeer
                 /\ \E p \in Peer : \E m : /\ inbox = MailOf(p, m)
                                      /\ m.version = PROTOCOL_VERSION

(* What makes the phases of a client that is never disturbed strict.       *)
LockInv ==
    /\ Lockstep
    /\ MaxProbes = 0 => phase # "probing" /\ Spoken
    /\ MaxFaults = 0 => faults = 0

LEMMA Mails ==
    ASSUME NEW p \in Peer, NEW m
    PROVE  /\ [NoMail EXCEPT ![p] = Append(@, m)] = MailOf(p, m)
           /\ [MailOf(p, m) EXCEPT ![p] = Tail(@)] = NoMail
           /\ MailOf(p, m)[p] = <<m>> /\ Head(<<m>>) = m
           /\ \A q \in Peer : /\ NoMail[q] = <<>>
                              /\ MailOf(p, m)[q] # <<>> => q = p
  <1>1. /\ Append(<<>>, m) = <<m>> /\ Tail(<<m>>) = <<>> /\ Head(<<m>>) = m
    BY SMT
  <1> QED
    BY <1>1 DEF NoMail, MailOf

LEMMA SpokenStep ==
    ASSUME TypeOK, [Next]_vars, MaxProbes = 0, Spoken
    PROVE  Spoken'
  <1>1. /\ Client # Server /\ inbox \in [Peer -> Seq(Message)]
        /\ Client \in Peer /\ Server \in Peer
    BY PeerAssumption DEF Peer, TypeOK
  <1> DEFINE x == inbox[Server]
  <1>2. x \in Seq(Message) /\ \A m \in ToSet(x) : m.version = PROTOCOL_VERSION
    BY <1>1 DEF Spoken
  <1>3. /\ ToSet(<<>>) = {}
        /\ x # <<>> => ToSet(Tail(x)) \subseteq ToSet(x)
        /\ \A n : ToSet(Append(x, n)) \subseteq ToSet(x) \cup {n}
    <2>1. ToSet(<<>>) = {}
      BY SMT DEF ToSet
    <2>2. x # <<>> => ToSet(Tail(x)) \subseteq ToSet(x)
      BY <1>2, ToSetFacts
    <2>3. ASSUME NEW n PROVE ToSet(Append(x, n)) \subseteq ToSet(x) \cup {n}
      <3> HIDE DEF x
      <3> QED
        BY <1>2, SMT DEF ToSet
    <2> QED
      BY <2>1, <2>2, <2>3
  <1>4. ASSUME \/ inbox'[Server] = x \/ inbox'[Server] = <<>>
               \/ x # <<>> /\ inbox'[Server] = Tail(x)
               \/ \E n : inbox'[Server] = Append(x, n)
                         /\ n.version = PROTOCOL_VERSION
        PROVE  Spoken'
    <2>1. /\ \A m \in ToSet(<<>>) : m.version = PROTOCOL_VERSION
          /\ x # <<>> => \A m \in ToSet(Tail(x)) : m.version = PROTOCOL_VERSION
          /\ \A n : n.version = PROTOCOL_VERSION =>
                \A m \in ToSet(Append(x, n)) : m.version = PROTOCOL_VERSION
      <3> HIDE DEF x
      <3> QED
        BY <1>2, <1>3
    <2>2. \A m \in ToSet(inbox'[Server]) : m.version = PROTOCOL_VERSION
      <3> HIDE DEF x
      <3> QED
        BY <1>2, <1>4, <2>1
    <2> QED
      BY <2>2 DEF Spoken
  <1>5. ASSUME NEW q \in Peer, NEW ranges, NEW size, Send(q, ranges, size)
        PROVE  Spoken'
    <2> DEFINE n == [version |-> PROTOCOL_VERSION, ranges |-> ranges,
                     size |-> size]
    <2>1. inbox' = [inbox EXCEPT ![q] = Append(@, n)] /\ n.version = PROTOCOL_VERSION
      BY <1>5 DEF Send
    <2> HIDE DEF n
    <2>2. inbox'[Server] = IF q = Server THEN Append(x, n) ELSE x
      BY <1>1, <2>1
    <2> QED
      BY <1>4, <2>1, <2>2
  <1>6. CASE Initiate \/ ReturnAtResponder \/ Continue
    BY <1>1, <1>5, <1>6 DEF Initiate, ReturnAtResponder, Continue
  <1>7. CASE RefuseVersion
    BY <1>1, <1>4, <1>7 DEF RefuseVersion
  <1>8. CASE Downgrade
    BY <1>1, <1>4, <1>8 DEF Downgrade
  <1>9. ASSUME NEW p \in Peer, Receive(p)
        PROVE  Spoken'
    <2>1. inbox[p] # <<>> /\ inbox' = [inbox EXCEPT ![p] = Tail(@)]
      BY <1>9 DEF Receive
    <2>2. inbox'[Server] = IF p = Server THEN Tail(x) ELSE x
      BY <1>1, <2>1
    <2> QED
      BY <1>4, <2>1, <2>2
  <1>10. CASE Timeout
    BY <1>1, <1>4, <1>10 DEF Timeout
  <1>11. CASE ProbeNewerVersion
    <2>1. probes < 0 /\ probes \in 0 .. 0
      BY <1>11 DEF ProbeNewerVersion, TypeOK
    <2> QED
      BY <2>1, SMT
  <1>12. CASE inbox' = inbox
    BY <1>4, <1>12
  <1>13. ASSUME NEW p \in Peer, ReconcileRange(p)
         PROVE  Spoken'
    BY <1>12, <1>13 DEF ReconcileRange, SkipStep, FingerprintMatches,
           FingerprintDiffers, IdListAtInitiator, IdListAtResponder, NextRange
  <1>14. CASE \/ Finish \/ Retry \/ UNCHANGED vars
              \/ \E q \in Peer : \/ Throw(q) \/ Insert(q) \/ Erase(q)
                                 \/ Recreate(q)
    BY <1>12, <1>14 DEF Finish, Retry, vars, Throw, Insert, Erase, EditStore,
                       Recreate
  <1> QED
    BY <1>6, <1>7, <1>8, <1>9, <1>10, <1>11, <1>13, <1>14
    DEF Next, Protocol, Terminated, StorageFails, BadRange

LEMMA LockstepKept ==
    ASSUME TypeOK, PhaseInv, Lockstep, NewsInv, [Next]_vars
    PROVE  Lockstep'
  <1>1. /\ Client # Server /\ Client \in Peer /\ Server \in Peer
        /\ NoPeer \notin Peer /\ faults \in Nat /\ faults + 1 # 0
        /\ PROTOCOL_VERSION # NEWER_VERSION
    <2>1. faults \in Nat
      BY DEF TypeOK
    <2>2. faults + 1 # 0 /\ PROTOCOL_VERSION # NEWER_VERSION
      BY <2>1, SMT DEF PROTOCOL_VERSION, NEWER_VERSION
    <2> QED
      BY <2>1, <2>2, PeerAssumption DEF Peer
  <1>2. CASE faults' = faults + 1
    BY <1>1, <1>2 DEF Lockstep
  <1>3. ASSUME UNCHANGED <<faults, phase, active, inbox>>
        PROVE  Lockstep'
    BY <1>3 DEF Lockstep
  <1>4. ASSUME NEW p \in Peer, NEW ranges, NEW size, inbox = NoMail,
               Send(p, ranges, size)
        PROVE  \E m : inbox' = MailOf(p, m) /\ m.version = PROTOCOL_VERSION
    <2> DEFINE n == [version |-> PROTOCOL_VERSION, ranges |-> ranges,
                     size |-> size]
    <2>1. inbox' = [NoMail EXCEPT ![p] = Append(@, n)]
          /\ n.version = PROTOCOL_VERSION
      BY <1>4 DEF Send
    <2> HIDE DEF n
    <2> QED
      BY <2>1, Mails
  <1>5. ASSUME NEW p \in Peer, NEW q \in Peer, NEW m, inbox = MailOf(p, m),
               inbox[q] # <<>>, inbox' = [inbox EXCEPT ![q] = Tail(@)]
        PROVE  q = p /\ Head(inbox[q]) = m /\ inbox' = NoMail
    BY <1>5, Mails
  <1>6. ASSUME faults' = 0, Initiate
        PROVE  Lockstep'
    <2>1. /\ inbox = NoMail /\ active = NoPeer /\ active' = active
          /\ phase' = "waiting"
      BY <1>6 DEF Initiate, Lockstep
    <2>2. \E m : inbox' = MailOf(Server, m) /\ m.version = PROTOCOL_VERSION
      BY <1>1, <1>4, <1>6, <2>1 DEF Initiate
    <2> QED
      BY <1>1, <2>1, <2>2 DEF Lockstep
  <1>7. ASSUME faults' = 0, ProbeNewerVersion
        PROVE  Lockstep'
    <2> DEFINE n == [version |-> NEWER_VERSION, ranges |-> <<>>, size |-> 1]
    <2>1. /\ inbox = NoMail /\ active = NoPeer /\ active' = active
          /\ phase' = "probing" /\ n.version = NEWER_VERSION
          /\ inbox' = [inbox EXCEPT ![Server] = Append(@, n)]
      BY <1>7 DEF ProbeNewerVersion, Lockstep
    <2> HIDE DEF n
    <2>2. inbox' = MailOf(Server, n)
      BY <1>1, <2>1, Mails
    <2> QED
      BY <2>1, <2>2 DEF Lockstep
  <1>8. ASSUME faults' = 0, Downgrade
        PROVE  Lockstep'
    <2>1. /\ active = NoPeer /\ active' = active /\ phase' = "idle"
          /\ phase = "probing" /\ faults = 0
          /\ inbox[Client] # <<>> /\ inbox' = [inbox EXCEPT ![Client] = Tail(@)]
      BY <1>8 DEF Downgrade, Lockstep
    <2>2. \E p \in Peer : \E m : inbox = MailOf(p, m)
      BY <1>1, <2>1 DEF Lockstep
    <2>3. inbox' = NoMail
      BY <1>1, <1>5, <2>1, <2>2
    <2> QED
      BY <2>1, <2>3 DEF Lockstep
  <1>9. ASSUME faults' = 0, RefuseVersion
        PROVE  Lockstep'
    <2> DEFINE n == [version |-> PROTOCOL_VERSION, ranges |-> <<>>, size |-> 1]
    <2>1. /\ inbox[Server] # <<>> /\ active' = active /\ phase' = phase
          /\ Head(inbox[Server]).version # PROTOCOL_VERSION /\ faults = 0
          /\ inbox' = [inbox EXCEPT ![Server] = Tail(@),
                                    ![Client] = Append(@, n)]
      BY <1>9 DEF RefuseVersion, appVars
    <2>2. phase = "probing"
      <3>1. CASE phase # "probing"
        <4>1. inbox = NoMail \/ \E p \in Peer : \E m :
                 inbox = MailOf(p, m) /\ m.version = PROTOCOL_VERSION
          BY <2>1, <3>1 DEF Lockstep, NewsInv, TypeOK, Phase
        <4>2. CASE inbox = NoMail
          BY <1>1, <2>1, <4>2 DEF NoMail
        <4>3. ASSUME NEW p \in Peer, NEW m, inbox = MailOf(p, m),
                     m.version = PROTOCOL_VERSION
              PROVE  FALSE
          <5>1. Server = p /\ Head(inbox[Server]) = m
            BY <1>1, <2>1, <4>3, Mails
          <5> QED
            BY <2>1, <4>3, <5>1
        <4> QED
          BY <4>1, <4>2, <4>3
      <3> QED
        BY <3>1
    <2>3. active = NoPeer /\ \E m : inbox = MailOf(Server, m)
      <3>1. PICK m : \/ inbox = MailOf(Client, m) \/ inbox = MailOf(Server, m)
        BY <2>1, <2>2 DEF Lockstep
      <3>2. inbox # MailOf(Client, m)
        BY <1>1, <2>1, Mails
      <3> QED
        BY <2>1, <2>2, <3>1, <3>2 DEF Lockstep
    <2> HIDE DEF n
    <2>4. inbox' = MailOf(Client, n)
      <3>1. PICK m : inbox = MailOf(Server, m)
        BY <2>3
      <3>2. [inbox EXCEPT ![Server] = Tail(@)] = NoMail
        BY <1>1, <3>1, Mails
      <3>3. inbox' = [[inbox EXCEPT ![Server] = Tail(@)]
                         EXCEPT ![Client] = Append(@, n)]
        <4>1. inbox \in [Peer -> Seq(Message)]
          BY DEF TypeOK
        <4>2. [inbox EXCEPT ![Server] = Tail(@)][Client] = inbox[Client]
          BY <1>1, <4>1
        <4> QED
          BY <2>1, <4>2
      <3>4. [NoMail EXCEPT ![Client] = Append(@, n)] = MailOf(Client, n)
        BY <1>1, Mails
      <3> QED
        BY <3>2, <3>3, <3>4
    <2> QED
      BY <2>1, <2>2, <2>3, <2>4 DEF Lockstep
  <1>10. ASSUME faults' = 0, NEW p \in Peer, Receive(p)
         PROVE  Lockstep'
    <2>1. /\ active = NoPeer /\ active' = p /\ phase' = phase /\ faults = 0
          /\ inbox[p] # <<>> /\ Head(inbox[p]).version = PROTOCOL_VERSION
          /\ inbox' = [inbox EXCEPT ![p] = Tail(@)]
          /\ p = Server \/ phase = "waiting"
      BY <1>10 DEF Receive, appVars
    <2>2. phase = "waiting"
      <3>1. CASE phase # "waiting"
        <4>1. p = Server
          BY <2>1, <3>1
        <4>2. \/ inbox = NoMail
              \/ \E m : \/ inbox = MailOf(Client, m)
                        \/ inbox = MailOf(Server, m) /\ m.version = NEWER_VERSION
          BY <2>1, <3>1 DEF Lockstep, NewsInv, TypeOK, Phase
        <4>3. inbox # NoMail
          BY <1>1, <2>1 DEF NoMail
        <4>4. ASSUME NEW m, inbox = MailOf(Client, m)
              PROVE  FALSE
          BY <1>1, <2>1, <4>1, <4>4, Mails
        <4>5. ASSUME NEW m, inbox = MailOf(Server, m), m.version = NEWER_VERSION
              PROVE  FALSE
          <5>1. Head(inbox[Server]) = m
            BY <1>1, <4>5, Mails
          <5> QED
            BY <1>1, <2>1, <4>1, <4>5, <5>1
        <4> QED
          BY <4>2, <4>3, <4>4, <4>5
      <3> QED
        BY <3>1
    <2>3. \E q \in Peer : \E m : inbox = MailOf(q, m)
      BY <2>1, <2>2 DEF Lockstep
    <2>4. inbox' = NoMail
      BY <1>5, <2>1, <2>3
    <2> QED
      BY <1>1, <2>1, <2>2, <2>4 DEF Lockstep
  <1>11. ASSUME faults' = 0, ReturnAtResponder \/ Continue
         PROVE  Lockstep'
    <2>1. /\ active # NoPeer /\ active' = NoPeer /\ phase' = phase
          /\ faults = 0
      BY <1>1, <1>11 DEF ReturnAtResponder, Continue, ReturnAtInitiator,
                         LeaveCall, DropLocals
    <2>2. phase = "waiting" /\ inbox = NoMail
      BY <2>1 DEF Lockstep, NewsInv, TypeOK, Phase
    <2>3. \E p \in Peer : \E m : inbox' = MailOf(p, m) /\ m.version = PROTOCOL_VERSION
      BY <1>1, <1>4, <1>11, <2>2 DEF ReturnAtResponder, Continue
    <2> QED
      BY <2>1, <2>2, <2>3 DEF Lockstep
  <1>12. ASSUME faults' = 0, Finish
         PROVE  Lockstep'
    <2>1. /\ active # NoPeer /\ active' = NoPeer /\ phase' = "done"
          /\ faults = 0 /\ inbox' = inbox
      BY <1>1, <1>12 DEF Finish, ReturnAtInitiator, LeaveCall, DropLocals
    <2>2. inbox = NoMail
      BY <2>1 DEF Lockstep, NewsInv, TypeOK, Phase
    <2> QED
      BY <2>1, <2>2 DEF Lockstep
  <1>13. CASE Retry
    <2>1. faults' = faults /\ faults # 0
      BY <1>13 DEF Retry, NewsInv
    <2> QED
      BY <2>1 DEF Lockstep
  <1>14. ASSUME NEW p \in Peer, ReconcileRange(p)
         PROVE  Lockstep'
    BY <1>3, <1>14 DEF ReconcileRange, SkipStep, FingerprintMatches,
           FingerprintDiffers, IdListAtInitiator, IdListAtResponder, NextRange,
           appVars
  <1>15. CASE \/ UNCHANGED vars
              \/ \E q \in Peer : Insert(q) \/ Erase(q) \/ Recreate(q)
    BY <1>3, <1>15 DEF vars, Insert, Erase, EditStore, Recreate, appVars
  <1>16. CASE Timeout \/ \E q \in Peer : Throw(q)
    BY <1>2, <1>16 DEF Timeout, Throw
  <1>17. CASE faults' # 0
    BY <1>17 DEF Lockstep
  <1> QED
    BY <1>6, <1>7, <1>8, <1>9, <1>10, <1>11, <1>12, <1>13, <1>14, <1>15,
       <1>16, <1>17
    DEF Next, Protocol, Terminated, StorageFails, BadRange

LEMMA LockStep ==
    ASSUME NoBases, TypeOK, PhaseInv, NewsInv, LockInv, [Next]_vars
    PROVE  LockInv'
  <1>1. Lockstep'
    BY LockstepKept DEF LockInv
  <1>2. ASSUME MaxProbes = 0
        PROVE  phase' # "probing" /\ Spoken'
    <2>1. Spoken'
      BY <1>2, SpokenStep DEF LockInv
    <2>2. ~ProbeNewerVersion
      <3>1. ASSUME ProbeNewerVersion PROVE FALSE
        <4>1. probes < 0 /\ probes \in 0 .. 0
          BY <1>2, <3>1 DEF ProbeNewerVersion, TypeOK
        <4> QED
          BY <4>1, SMT
      <3> QED
        BY <3>1
    <2>3. phase # "probing"
      BY <1>2 DEF LockInv
    <2>4. \A p \in Peer : ReconcileRange(p) => phase' = phase
      BY DEF ReconcileRange, SkipStep, FingerprintMatches,
             FingerprintDiffers, IdListAtInitiator, IdListAtResponder,
             NextRange, appVars
    <2>5. \A p \in Peer : Throw(p) => phase' \in {"done", "failed"}
      BY DEF Throw
    <2>6. phase' # "probing"
      BY <2>2, <2>3, <2>4, <2>5
      DEF Next, Protocol, Terminated, StorageFails, BadRange, Initiate,
          Downgrade, RefuseVersion, Receive, ReturnAtResponder, Continue,
          Finish, Retry, Timeout, Insert, Erase, EditStore, Recreate, vars,
          appVars
    <2> QED
      BY <2>1, <2>6
  <1>3. ASSUME MaxFaults = 0
        PROVE  faults' = 0
    <2>1. faults = 0 /\ ~(faults < MaxFaults)
      <3>1. faults = 0
        BY <1>3 DEF LockInv
      <3> QED
        BY <1>3, <3>1, SMT
    <2>2. ASSUME NEW p \in Peer, BadRange(p)
          PROVE  FALSE
      <3>1. PICK upper \in 0 .. prevIndex - 1 :
               storageLowerBound(p, prevIndex, currBound(p), upper)
        BY <2>2 DEF BadRange
      <3>2. base[p] = {}
        BY DEF NoBases, TypeOK
      <3>3. upper \in prevIndex .. Len(store[p])
        BY <3>1, <3>2 DEF storageLowerBound, findLowerBound
      <3>4. prevIndex \in Nat
        BY DEF TypeOK
      <3> QED
        BY <3>3, <3>4, SMT
    <2>3. \A p \in Peer : ReconcileRange(p) => faults' = faults
      BY DEF ReconcileRange, SkipStep, FingerprintMatches,
             FingerprintDiffers, IdListAtInitiator, IdListAtResponder,
             NextRange, appVars
    <2>4. faults' = faults
      BY <2>1, <2>2, <2>3
      DEF Next, Protocol, Terminated, StorageFails, Initiate, Downgrade,
          RefuseVersion, Receive, ReturnAtResponder, Continue, Finish,
          ReturnAtInitiator, LeaveCall, Retry, ProbeNewerVersion, Timeout,
          Insert, Erase, EditStore, Recreate, vars, appVars
    <2> QED
      BY <2>1, <2>4
  <1> QED
    BY <1>1, <1>2, <1>3 DEF LockInv

(* The invariants of the phases together. *)
PlayInv ==
    /\ TruthInv
    /\ NewsInv
    /\ LockInv

LEMMA PlayStep ==
    ASSUME NoBases, PlayInv, [Next]_vars
    PROVE  PlayInv' /\ TypeOK /\ TypeOK'
  <1>1. TruthInv' /\ TypeOK /\ TypeOK' /\ PhaseInv
    BY TruthStep DEF PlayInv, TruthInv, FrameInv
  <1>2. NewsInv'
    BY <1>1, NewsStep DEF PlayInv
  <1>3. LockInv'
    BY <1>1, LockStep DEF PlayInv
  <1> QED
    BY <1>1, <1>2, <1>3 DEF PlayInv

LEMMA PlayStart == Init => PlayInv
  <1> SUFFICES ASSUME Init PROVE PlayInv
    OBVIOUS
  <1>1. TruthInv
    BY TruthStart
  <1>2. NewsInv
    BY DEF Init, NewsInv
  <1>3. LockInv
    <2>1. Server \in Peer /\ ToSet(<<>>) = {}
      BY SMT DEF Peer, ToSet
    <2>2. Spoken
      BY <2>1 DEF Init, Spoken
    <2>3. Lockstep
      BY DEF Init, Lockstep, NoMail
    <2> QED
      BY <2>2, <2>3 DEF Init, LockInv
  <1> QED
    BY <1>1, <1>2, <1>3 DEF PlayInv

-----------------------------------------------------------------------------
(* What covers an item: a message, what is left of a query, an output.     *)

MailSays(p, m, it, yes) ==
    \E a : /\ Means(other(p), m.ranges, a, ZeroBound)
           /\ Covers(a, ZeroBound, it) <=> yes

QuerySays(p, it, yes) ==
    \E a : Reading(p, a) /\ (Covers(a, prevBound, it) <=> yes)

OutputSays(p, it, yes) ==
    \E out : Written(p, out) /\ (Covers(out, ZeroBound, it) <=> yes)

(* The first message covers everything. *)
LEMMA InitiateSays ==
    ASSUME TypeOK, PhaseInv, Initiate, NEW it \in Universe, NEW x,
           x = encode(splitRange(store[Client], 0, Len(store[Client]), Infinity),
                      lastTimestampOut[Client])
    PROVE  \E a : Means(Client, x, a, ZeroBound) /\ Covers(a, ZeroBound, it)
  <1> DEFINE s == store[Client]
             a == splitRange(s, 0, Len(s), Infinity)
  <1>1. /\ s \in Seq(Universe) /\ Sorted(s)
        /\ lastTimestampOut[Client] = ZeroBound.timestamp
        /\ it \in Bound /\ ZeroBound \in Bound /\ it \prec Infinity
        /\ ZeroBound \preceq it
    <2>1. it \in Bound /\ ZeroBound \in Bound /\ it \prec Infinity
          /\ ~(it \prec ZeroBound)
      BY Ends
    <2> QED
      BY <2>1, OrderEq DEF TypeOK, Peer, PhaseInv, Initiate, ZeroBound
  <1>2. /\ Place(s, ZeroBound, 0) /\ Place(s, Infinity, Len(s))
        /\ 0 <= Len(s) /\ Infinity \preceq Infinity
    BY <1>1, Places, SMT DEF \preceq
  <1>3. a \in Seq(PlainRange) /\ Exact(s, ZeroBound, a)
        /\ lastOf(a, ZeroBound) = Infinity
    BY <1>1, <1>2, Ends, SplitExact
  <1>4. /\ Ascends(a, ZeroBound) /\ AscendsToEnd(a, ZeroBound)
        /\ Honest(Client, a, ZeroBound)
    BY <1>1, <1>3, ExactMeans
  <1>5. Means(Client, encode(a, lastTimestampOut[Client]), a, ZeroBound)
    BY <1>1, <1>3, <1>4 DEF Means
  <1>6. \A n \in 1 .. Len(a) : a[n].mode # "skip"
    BY <1>3 DEF Exact
  <1> HIDE DEF a
  <1>7. Covers(a, ZeroBound, it)
    BY <1>1, <1>3, <1>4, <1>6, CoversAll
  <1> QED
    BY <1>5, <1>7 DEF a

(* What a message says after a step, it said before, or its call did.      *)
LEMMA MailSaid ==
    ASSUME TypeOK, TypeOK', PhaseInv, [Next]_vars,
           NEW p \in Peer, NEW m \in ToSet(inbox'[p]), NEW it \in Universe,
           NEW yes \in BOOLEAN,
           m \in ToSet(inbox[p]) => MailSays(p, m, it, yes),
           ProbeNewerVersion \/ RefuseVersion => ~yes,
           Initiate => yes,
           ReturnAtResponder \/ Continue => OutputSays(active, it, yes)
    PROVE  MailSays(p, m, it, yes)'
  <1>1. /\ Client # Server /\ Client \in Peer /\ Server \in Peer
        /\ other(p) \in Peer /\ Untouched(other(p))
    BY PeerAssumption, OtherPeer, StepUntouched DEF Peer
  <1>2. ASSUME NEW a, Means(other(p), m.ranges, a, ZeroBound),
               Covers(a, ZeroBound, it) <=> yes
        PROVE  MailSays(p, m, it, yes)'
    <2>1. Means(other(p), m.ranges, a, ZeroBound)'
      BY <1>1, <1>2, MeaningKept
    <2> QED
      BY <1>2, <2>1 DEF MailSays
  <1>3. CASE m \in ToSet(inbox[p])
    BY <1>2, <1>3 DEF MailSays
  <1>4. CASE (ProbeNewerVersion \/ RefuseVersion) /\ m.ranges = <<>>
    <2>1. Means(other(p), <<>>, <<>>, ZeroBound)
      BY Ends, NothingMeant
    <2>2. ~Covers(<<>>, ZeroBound, it)
      BY CoversNothing
    <2> QED
      BY <1>2, <1>4, <2>1, <2>2
  <1>5. CASE /\ Initiate /\ p = Server
             /\ m.ranges = encode(splitRange(store[Client], 0,
                                      Len(store[Client]), Infinity),
                                  lastTimestampOut[Client])
    <2>1. other(p) = Client
      BY <1>1, <1>5 DEF other
    <2>2. PICK a : Means(Client, m.ranges, a, ZeroBound)
                   /\ Covers(a, ZeroBound, it)
      BY <1>5, InitiateSays
    <2> QED
      BY <1>2, <1>5, <2>1, <2>2
  <1>6. CASE \/ ReturnAtResponder /\ p = Client /\ m.ranges = fullOutput
             \/ Continue /\ p = Server /\ m.ranges = fullOutput
    <2>1. active = other(p)
      BY <1>1, <1>6 DEF ReturnAtResponder, Continue, ReturnAtInitiator, other
    <2>2. PICK out : Written(other(p), out) /\ (Covers(out, ZeroBound, it) <=> yes)
      BY <1>6, <2>1 DEF OutputSays, Written
    <2>3. Means(other(p), m.ranges, out, ZeroBound)
      BY <1>6, <2>2 DEF Written
    <2> QED
      BY <1>2, <2>2, <2>3
  <1> QED
    BY <1>3, <1>4, <1>5, <1>6, Arrivals DEF Arrives

(* What a call says that begins, or that a step of somebody else leaves    *)
(* alone.                                                                  *)
LEMMA CallSaid ==
    ASSUME TypeOK, TypeOK', PhaseInv, [Next]_vars, active' # NoPeer,
           ~\E q \in Peer : ReconcileRange(q),
           NEW it \in Universe, NEW yes \in BOOLEAN
    PROVE  \E p \in Peer :
              /\ active' = p
              /\ \/ /\ Receive(p)
                    /\ inbox[p] # <<>> /\ Head(inbox[p]) \in ToSet(inbox[p])
                    /\ MailSays(p, Head(inbox[p]), it, yes) =>
                          QuerySays(p, it, yes)' /\ OutputSays(p, it, FALSE)'
                 \/ /\ active = p
                    /\ QuerySays(p, it, yes) => QuerySays(p, it, yes)'
                    /\ OutputSays(p, it, yes) => OutputSays(p, it, yes)'
  <1>1. CASE \E p \in Peer : Receive(p)
    <2>1. PICK p \in Peer : Receive(p)
      BY <1>1
    <2>2. inbox[p] # <<>> /\ Head(inbox[p]) \in ToSet(inbox[p]) /\ active' = p
      <3>1. inbox[p] # <<>> /\ inbox[p] \in Seq(Message) /\ active' = p
        BY <2>1 DEF Receive, TypeOK
      <3> QED
        BY <3>1, SMT DEF ToSet
    <2>3. ASSUME NEW a, Means(other(p), Head(inbox[p]).ranges, a, ZeroBound),
                 Covers(a, ZeroBound, it) <=> yes
          PROVE  QuerySays(p, it, yes)' /\ OutputSays(p, it, FALSE)'
      <3>1. Reading(p, a)' /\ Written(p, <<>>)' /\ prevBound' = ZeroBound
        BY <2>1, <2>3, CallBegins
      <3>2. ~Covers(<<>>, ZeroBound, it)
        BY CoversNothing
      <3>3. \E b : Reading(p, b)' /\ (Covers(b, prevBound', it) <=> yes)
        BY <2>3, <3>1
      <3>4. \E out : Written(p, out)' /\ (Covers(out, ZeroBound, it) <=> FALSE)
        BY <3>1, <3>2
      <3> QED
        BY <3>3, <3>4 DEF QuerySays, OutputSays
    <2>4. MailSays(p, Head(inbox[p]), it, yes) =>
             QuerySays(p, it, yes)' /\ OutputSays(p, it, FALSE)'
      BY <2>3 DEF MailSays
    <2> QED
      BY <2>1, <2>2, <2>4
  <1>2. CASE Paused
    <2>1. PICK p \in Peer : p = active /\ active' = p
      BY <1>2, PeerAssumption DEF Paused, TypeOK
    <2>2. ASSUME NEW a, Reading(p, a), Covers(a, prevBound, it) <=> yes
          PROVE  QuerySays(p, it, yes)'
      <3>1. Reading(p, a)' /\ prevBound' = prevBound
        BY <1>2, <2>1, <2>2, CallKept DEF Paused, callVars
      <3> QED
        BY <2>2, <3>1 DEF QuerySays
    <2>3. ASSUME NEW out, Written(p, out), Covers(out, ZeroBound, it) <=> yes
          PROVE  OutputSays(p, it, yes)'
      <3>1. Written(p, out)'
        BY <1>2, <2>1, <2>3, CallKept
      <3> QED
        BY <2>3, <3>1 DEF OutputSays
    <2> QED
      BY <2>1, <2>2, <2>3 DEF QuerySays, OutputSays
  <1> QED
    BY <1>1, <1>2, CallMoves

-----------------------------------------------------------------------------
(* No difference is reported twice: what was reported is not asked for     *)
(* again, by any message or by the call.                                   *)

NoLimits == \A p \in Peer : frameSizeLimit[p] = 0

Heard(it) ==
    it.id \in UNION {Reported(have), Reported(haveIds),
                     Reported(need), Reported(needIds)}

Passed(it) ==
    /\ \A p \in Peer : \A m \in ToSet(inbox[p]) : MailSays(p, m, it, FALSE)
    /\ active # NoPeer => /\ QuerySays(active, it, FALSE)
                          /\ OutputSays(active, it, FALSE)

CountedOnce ==
    \A k \in Id : /\ have[k] + haveIds[k] <= 1
                  /\ need[k] + needIds[k] <= 1

OnceInv ==
    NoLimits /\ faults = 0 =>
        /\ CountedOnce
        /\ \A it \in Universe : Heard(it) => Passed(it)

(* A turn that lists differences. *)
LEMMA OnceListed ==
    ASSUME NoBases, PlayInv, NoLimits, faults = 0, CountedOnce,
           \A it \in Universe : Heard(it) => Passed(it),
           NEW p \in Peer, NEW upper, IdListAtInitiator(p, upper),
           UNCHANGED <<have, need>>
    PROVE  /\ CountedOnce'
           /\ \A it \in Universe :
                 Heard(it)' => \/ Heard(it)
                               \/ Within(it, prevBound, currBound(p))
  <1> DEFINE ours   == IdsIn(store[p], prevIndex, upper)
             theirs == Head(query).ids
             l == prevBound
             u == currBound(p)
  <1>1. /\ TruthInv /\ TypeOK /\ active = p /\ active # NoPeer
        /\ NextRange(p, "idlist", upper)
        /\ have \in [Id -> Nat] /\ haveIds \in [Id -> Nat]
        /\ need \in [Id -> Nat] /\ needIds \in [Id -> Nat]
    BY PeerAssumption DEF PlayInv, TruthInv, FrameInv, IdListAtInitiator,
                          NextRange, TypeOK
  <1>2. /\ ours \in SUBSET Id /\ theirs \in SUBSET Id
        /\ \A k \in ours \cup theirs :
              \E it \in Universe : it.id = k /\ Within(it, l, u)
        /\ haveIds' = Count(haveIds, ours \ theirs)
        /\ needIds' = Count(needIds, theirs \ ours)
    BY <1>1, ListCompared
  <1> HIDE DEF ours, theirs
  <1>3. ASSUME NEW it \in Universe, Heard(it)
        PROVE  ~Within(it, l, u)
    <2>1. PICK a : Reading(p, a) /\ ~Covers(a, prevBound, it)
      BY <1>1, <1>3 DEF Passed, QuerySays, Reading
    <2>2. ReadsHead(p, a, upper) /\ a \in Seq(PlainRange)
      BY <1>1, <2>1, HeadRead DEF Reading, Means
    <2>3. a[1].mode = "idlist" /\ a # <<>> /\ u = a[1].upper
      BY <1>1, <2>2 DEF ReadsHead, NextRange
    <2> QED
      BY <2>1, <2>2, <2>3, CoversRest DEF Within
  <1>4. ASSUME NEW k \in ours \cup theirs
        PROVE  have[k] = 0 /\ haveIds[k] = 0 /\ need[k] = 0 /\ needIds[k] = 0
    <2>1. PICK it \in Universe : it.id = k /\ Within(it, l, u)
      BY <1>2
    <2>2. ~Heard(it)
      BY <1>3, <2>1
    <2>3. k \in Id /\ \A c \in {have, haveIds, need, needIds} : ~(c[k] > 0)
      BY <1>2, <2>1, <2>2 DEF Heard, Reported
    <2> QED
      BY <1>1, <2>3, SMT
  <1>5. ASSUME NEW k \in Id
        PROVE  have'[k] + haveIds'[k] <= 1 /\ need'[k] + needIds'[k] <= 1
    <2>1. /\ have'[k] = have[k] /\ need'[k] = need[k]
          /\ haveIds'[k] = IF k \in ours \ theirs THEN haveIds[k] + 1
                                                  ELSE haveIds[k]
          /\ needIds'[k] = IF k \in theirs \ ours THEN needIds[k] + 1
                                                  ELSE needIds[k]
      BY <1>2 DEF Count
    <2>2. have[k] + haveIds[k] <= 1 /\ need[k] + needIds[k] <= 1
      BY DEF CountedOnce
    <2>3. CASE k \in ours \cup theirs
      <3>1. have[k] = 0 /\ haveIds[k] = 0 /\ need[k] = 0 /\ needIds[k] = 0
        BY <1>4, <2>3
      <3> QED
        BY <2>1, <3>1, SMT
    <2>4. CASE k \notin ours \cup theirs
      BY <2>1, <2>2, <2>4
    <2> QED
      BY <2>3, <2>4
  <1>6. ASSUME NEW it \in Universe, Heard(it)'
        PROVE  Heard(it) \/ Within(it, l, u)
    <2>1. /\ Reported(haveIds') = Reported(haveIds) \cup (ours \ theirs)
          /\ Reported(needIds') = Reported(needIds) \cup (theirs \ ours)
      BY <1>1, <1>2, Counted
    <2>2. CASE it.id \in ours \cup theirs
      <3>1. PICK i \in Universe : i.id = it.id /\ Within(i, l, u)
        BY <1>2, <2>2
      <3>2. i = it
        BY <3>1, DataAssumption
      <3> QED
        BY <3>1, <3>2
    <2> QED
      BY <1>6, <2>1, <2>2 DEF Heard
  <1> QED
    BY <1>5, <1>6 DEF CountedOnce

(* A turn does not ask for what it has passed. *)
LEMMA OnceTurned ==
    ASSUME NoBases, PlayInv, NoLimits, NEW p \in Peer, ReconcileRange(p),
           NEW it \in Universe,
           \/ QuerySays(p, it, FALSE) /\ OutputSays(p, it, FALSE)
           \/ /\ Within(it, prevBound, currBound(p))
              /\ ~UNCHANGED <<haveIds, needIds>>
    PROVE  QuerySays(p, it, FALSE)' /\ OutputSays(p, it, FALSE)'
  <1>1. /\ TypeOK /\ FrameInv /\ frameSizeLimit[p] = 0
        /\ active = p /\ query # <<>>
        /\ it \in Bound /\ prevBound \in Bound /\ ZeroBound \in Bound
    BY Ends DEF PlayInv, TruthInv, FrameInv, NoLimits, TypeOK, ReconcileRange,
                SkipStep, FingerprintMatches, FingerprintDiffers,
                IdListAtInitiator, IdListAtResponder, NextRange
  <1>2. Turned(p)
    BY <1>1, PeerAssumption DEF PlayInv, TruthInv, CallInv, Turned, Reading,
                                Written
  <1>3. PICK a, out :
           /\ Reading(p, a) /\ Written(p, out)
           /\ \/ ~Covers(a, prevBound, it) /\ ~Covers(out, ZeroBound, it)
              \/ /\ Within(it, prevBound, currBound(p))
                 /\ ~UNCHANGED <<haveIds, needIds>>
    BY <1>2 DEF Turned, QuerySays, OutputSays
  <1>4. PICK upper :
           /\ ReadsHead(p, a, upper) /\ prevBound' = currBound(p)
           /\ \/ /\ Settles(p, upper)
                 /\ Reading(p, Tail(a))' /\ Written(p, out)'
              \/ /\ a[1].mode # "skip" /\ Answers(p, a, out)
                 /\ UNCHANGED <<haveIds, needIds>>
    BY <1>1, <1>3, UnlimitedTurn
  <1>5. /\ a \in Seq(PlainRange) /\ a # <<>> /\ out \in Seq(PlainRange)
        /\ currBound(p) = a[1].upper /\ currBound(p) \in Bound
        /\ Tail(a) \in Seq(PlainRange) /\ AscendsToEnd(Tail(a), currBound(p))
        /\ Ascends(out, ZeroBound)
        /\ lastOf(out, ZeroBound) \in Bound
        /\ lastOf(out, ZeroBound) \preceq prevBound
    <2>1. /\ a \in Seq(PlainRange) /\ a # <<>> /\ out \in Seq(PlainRange)
          /\ currBound(p) = a[1].upper /\ currBound(p) \in Bound
          /\ Tail(a) \in Seq(PlainRange)
          /\ AscendsToEnd(Tail(a), currBound(p))
          /\ Ascends(out, ZeroBound)
      BY <1>1, <1>3, <1>4 DEF Reading, Written, Means, ReadsHead
    <2> QED
      BY <1>1, <1>3, <1>4, <2>1, Reached
  <1>6. CASE Reading(p, Tail(a))' /\ Written(p, out)'
    <2>1. ~Covers(Tail(a), currBound(p), it) /\ ~Covers(out, ZeroBound, it)
      <3>1. CASE ~Covers(a, prevBound, it) /\ ~Covers(out, ZeroBound, it)
        BY <1>5, <3>1, CoversRest
      <3>2. CASE Within(it, prevBound, currBound(p))
        <4>1. ~Covers(Tail(a), currBound(p), it)
          <5>1. ~(currBound(p) \preceq it)
            BY <1>1, <1>5, <3>2, OrderEq DEF Within
          <5>2. PICK b \in Seq(PlainRange), cur \in Bound :
                   b = Tail(a) /\ cur = currBound(p)
            BY <1>5
          <5>3. AscendsToEnd(b, cur) /\ ~(cur \preceq it)
            BY <1>5, <5>1, <5>2
          <5>4. ~Covers(b, cur, it)
            BY <1>1, <5>3, CoversFrom
          <5> QED
            BY <5>2, <5>4
        <4>2. ~Covers(out, ZeroBound, it)
          <5>1. ~(it \prec lastOf(out, ZeroBound))
            BY <1>1, <1>5, <3>2, OrderEq DEF Within
          <5> QED
            BY <1>1, <1>5, <5>1, CoversTo
        <4> QED
          BY <4>1, <4>2
      <3> QED
        BY <1>3, <3>1, <3>2
    <2>2. PICK b, cur : b = Tail(a) /\ cur = currBound(p)
      OBVIOUS
    <2>3. /\ Reading(p, b)' /\ ~Covers(b, cur, it) /\ prevBound' = cur
          /\ ~Covers(out, ZeroBound, it)
      BY <1>4, <1>6, <2>1, <2>2
    <2>4. QuerySays(p, it, FALSE)'
      BY <2>3 DEF QuerySays
    <2>5. OutputSays(p, it, FALSE)'
      BY <1>6, <2>3 DEF OutputSays
    <2> QED
      BY <2>4, <2>5
  <1>7. CASE /\ a[1].mode # "skip" /\ Answers(p, a, out)
             /\ UNCHANGED <<haveIds, needIds>>
    <2>1. PICK main \in Seq(PlainRange), c \in Seq(PlainRange) :
             /\ Ascends(main, prevBound)
             /\ lastOf(main, prevBound) = currBound(p)
             /\ \A n \in 1 .. Len(main) : main[n].mode # "skip"
             /\ c = doSkip.ranges \o main
             /\ Reading(p, Tail(a))'
             /\ Written(p, out \o c)'
      BY <1>7 DEF Answers
    <2>2. ~Covers(a, prevBound, it) /\ ~Covers(out, ZeroBound, it)
      BY <1>3, <1>7
    <2>3. /\ ~Covers(Tail(a), currBound(p), it)
          /\ ~(prevBound \preceq it /\ it \prec currBound(p))
      BY <1>5, <1>7, <2>2, CoversRest
    <2>4. ~Covers(out \o c, ZeroBound, it)
      BY <1>1, <1>3, <1>4, <2>1, <2>2, <2>3, AnswerCovers
    <2>5. PICK b, cur, d : b = Tail(a) /\ cur = currBound(p) /\ d = out \o c
      OBVIOUS
    <2>6. /\ Reading(p, b)' /\ ~Covers(b, cur, it) /\ prevBound' = cur
          /\ Written(p, d)' /\ ~Covers(d, ZeroBound, it)
      BY <1>4, <2>1, <2>3, <2>4, <2>5
    <2>7. QuerySays(p, it, FALSE)'
      BY <2>6 DEF QuerySays
    <2>8. OutputSays(p, it, FALSE)'
      BY <2>6 DEF OutputSays
    <2> QED
      BY <2>7, <2>8
  <1> QED
    BY <1>4, <1>6, <1>7

LEMMA FaultsGrow ==
    ASSUME TypeOK, [Next]_vars, faults' = 0
    PROVE  faults = 0 /\ UNCHANGED faults
  <1>1. faults \in Nat /\ faults + 1 # 0
    BY SMT DEF TypeOK
  <1>2. \A p \in Peer : ReconcileRange(p) => faults' = faults
    BY DEF ReconcileRange, SkipStep, FingerprintMatches,
           FingerprintDiffers, IdListAtInitiator, IdListAtResponder,
           NextRange, appVars
  <1> QED
    BY <1>1, <1>2
    DEF Next, Protocol, Terminated, StorageFails, BadRange, Throw, Initiate,
        Downgrade, RefuseVersion, Receive, ReturnAtResponder, Continue,
        Finish, ReturnAtInitiator, LeaveCall, Retry, ProbeNewerVersion,
        Timeout, Insert, Erase, EditStore, Recreate, vars, appVars

LEMMA OnceStep ==
    ASSUME NoBases, PlayInv, OnceInv, [Next]_vars
    PROVE  OnceInv'
  <1> SUFFICES ASSUME NoLimits', faults' = 0
               PROVE  /\ CountedOnce'
                      /\ \A it \in Universe : Heard(it)' => Passed(it)'
    BY DEF OnceInv
  <1>1. PlayInv' /\ TypeOK /\ TypeOK' /\ PhaseInv
    BY PlayStep DEF PlayInv, TruthInv
  <1>2. NoLimits /\ faults = 0
    BY <1>1, LimitFixed, FaultsGrow DEF NoLimits
  <1>3. CountedOnce /\ \A it \in Universe : Heard(it) => Passed(it)
    BY <1>2 DEF OnceInv
  <1>4. /\ have \in [Id -> Nat] /\ haveIds \in [Id -> Nat]
        /\ need \in [Id -> Nat] /\ needIds \in [Id -> Nat]
        /\ \A c : Reported(c) \subseteq Id
    BY <1>1 DEF TypeOK, Reported
  <1>5. ASSUME NEW p \in Peer, ReconcileRange(p)
        PROVE  /\ CountedOnce'
               /\ \A it \in Universe : Heard(it)' => Passed(it)'
    <2>1. active = p /\ active' = p /\ inbox' = inbox /\ active # NoPeer
      BY <1>5, PeerAssumption
      DEF ReconcileRange, SkipStep, FingerprintMatches, FingerprintDiffers,
          IdListAtInitiator, IdListAtResponder, NextRange
    <2>2. inbox' = NoMail
      BY <1>2, <2>1 DEF PlayInv, LockInv, Lockstep, NewsInv, FrameInv, TruthInv,
                        TypeOK, Phase
    <2>3. \A q \in Peer : ToSet(inbox'[q]) = {}
      <3>1. ToSet(<<>>) = {}
        BY SMT DEF ToSet
      <3> QED
        BY <2>2, <3>1 DEF NoMail
    <2>4. \/ UNCHANGED <<haveIds, needIds, have, need>>
          \/ \E upper : IdListAtInitiator(p, upper) /\ UNCHANGED <<have, need>>
      <3>1. PICK upper \in 0 .. Len(store[p]) :
             \/ SkipStep(p, upper)
             \/ FingerprintMatches(p, upper)
             \/ FingerprintDiffers(p, upper)
             \/ IdListAtInitiator(p, upper)
             \/ IdListAtResponder(p, upper)
        BY <1>1, <1>5, BranchTaken
      <3> QED
        BY <3>1 DEF SkipStep, FingerprintMatches, FingerprintDiffers,
                    IdListAtInitiator, IdListAtResponder, NextRange, appVars
    <2>5. /\ CountedOnce'
          /\ \A it \in Universe : Heard(it)' =>
                \/ Heard(it)
                \/ /\ Within(it, prevBound, currBound(p))
                   /\ ~UNCHANGED <<haveIds, needIds>>
      <3>1. CASE UNCHANGED <<haveIds, needIds, have, need>>
        BY <1>3, <3>1 DEF CountedOnce, Heard
      <3>2. ASSUME NEW upper, IdListAtInitiator(p, upper),
                   UNCHANGED <<have, need>>
            PROVE  /\ CountedOnce'
                   /\ \A it \in Universe : Heard(it)' =>
                         \/ Heard(it)
                         \/ Within(it, prevBound, currBound(p))
        BY <1>2, <1>3, <3>2, OnceListed
      <3>3. UNCHANGED <<haveIds, needIds, have, need>> =>
               \A it \in Universe : Heard(it)' => Heard(it)
        BY DEF Heard
      <3>4. UNCHANGED <<have, need>> /\ UNCHANGED <<haveIds, needIds>> =>
               \A it \in Universe : Heard(it)' => Heard(it)
        BY DEF Heard
      <3> QED
        BY <2>4, <3>1, <3>2, <3>3, <3>4
    <2>6. ASSUME NEW it \in Universe, Heard(it)'
          PROVE  Passed(it)'
      <3>1. \/ QuerySays(p, it, FALSE) /\ OutputSays(p, it, FALSE)
            \/ /\ Within(it, prevBound, currBound(p))
               /\ ~UNCHANGED <<haveIds, needIds>>
        BY <1>3, <2>1, <2>5, <2>6 DEF Passed, QuerySays, OutputSays, Reading,
                                      Written
      <3>2. QuerySays(p, it, FALSE)' /\ OutputSays(p, it, FALSE)'
        BY <1>2, <1>5, <3>1, OnceTurned
      <3> QED
        BY <2>1, <2>3, <3>2 DEF Passed, QuerySays, OutputSays, Reading, Written
    <2> QED
      BY <2>5, <2>6
  <1>6. ASSUME ~\E p \in Peer : ReconcileRange(p)
        PROVE  /\ CountedOnce'
               /\ \A it \in Universe : Heard(it)' => Passed(it)'
    <2>1. \/ UNCHANGED <<haveIds, needIds, have, need>>
          \/ /\ haveIds' = NoIds /\ needIds' = NoIds
             /\ \/ UNCHANGED <<have, need>>
                \/ ReturnAtInitiator
      BY <1>1, <1>6, ReportsMove
    <2>2. \A k \in Id : /\ have'[k] + haveIds'[k] <= have[k] + haveIds[k]
                        /\ need'[k] + needIds'[k] <= need[k] + needIds[k]
      <3> SUFFICES ASSUME NEW k \in Id
                   PROVE  /\ have'[k] + haveIds'[k] <= have[k] + haveIds[k]
                          /\ need'[k] + needIds'[k] <= need[k] + needIds[k]
        OBVIOUS
      <3>1. /\ have[k] \in Nat /\ haveIds[k] \in Nat
            /\ need[k] \in Nat /\ needIds[k] \in Nat /\ NoIds[k] = 0
        BY <1>4 DEF NoIds
      <3>2. CASE UNCHANGED <<haveIds, needIds, have, need>>
        <4>1. /\ have'[k] = have[k] /\ haveIds'[k] = haveIds[k]
              /\ need'[k] = need[k] /\ needIds'[k] = needIds[k]
          BY <3>2
        <4> QED
          BY <3>1, <4>1, SMT
      <3>3. CASE /\ haveIds' = NoIds /\ needIds' = NoIds
                 /\ UNCHANGED <<have, need>>
        <4>1. /\ have'[k] = have[k] /\ haveIds'[k] = 0
              /\ need'[k] = need[k] /\ needIds'[k] = 0
          BY <3>1, <3>3
        <4> QED
          BY <3>1, <4>1, SMT
      <3>4. CASE /\ haveIds' = NoIds /\ needIds' = NoIds
                 /\ ReturnAtInitiator
        <4>1. /\ have'[k] = have[k] + haveIds[k] /\ haveIds'[k] = 0
              /\ need'[k] = need[k] + needIds[k] /\ needIds'[k] = 0
          BY <3>1, <3>4 DEF ReturnAtInitiator, AddCounts
        <4> QED
          BY <3>1, <4>1, SMT
      <3> QED
        BY <2>1, <3>2, <3>3, <3>4
    <2>3. CountedOnce'
      <3> SUFFICES ASSUME NEW k \in Id
                   PROVE  have'[k] + haveIds'[k] <= 1 /\ need'[k] + needIds'[k] <= 1
        BY DEF CountedOnce
      <3>1. /\ have[k] \in Nat /\ haveIds[k] \in Nat
            /\ need[k] \in Nat /\ needIds[k] \in Nat
            /\ have'[k] \in Nat /\ haveIds'[k] \in Nat
            /\ need'[k] \in Nat /\ needIds'[k] \in Nat
        BY <1>1, <1>4 DEF TypeOK
      <3>2. have[k] + haveIds[k] <= 1 /\ need[k] + needIds[k] <= 1
        BY <1>3 DEF CountedOnce
      <3> QED
        BY <2>2, <3>1, <3>2, SMT
    <2>4. ASSUME NEW it \in Universe, Heard(it)'
          PROVE  Heard(it)
      <3>1. /\ Reported(NoIds) = {}
            /\ Reported(AddCounts(have, haveIds))
                  = Reported(have) \cup Reported(haveIds)
            /\ Reported(AddCounts(need, needIds))
                  = Reported(need) \cup Reported(needIds)
        BY <1>4, Counted
      <3>2. /\ \/ it.id \in Reported(have') \cup Reported(haveIds')
               \/ it.id \in Reported(need') \cup Reported(needIds')
            /\ Reported(have') \cup Reported(haveIds')
                  \subseteq Reported(have) \cup Reported(haveIds)
            /\ Reported(need') \cup Reported(needIds')
                  \subseteq Reported(need) \cup Reported(needIds)
        BY <2>1, <2>4, <3>1 DEF Heard, ReturnAtInitiator
      <3> QED
        BY <3>2 DEF Heard
    <2>5. ASSUME NEW it \in Universe, Heard(it)'
          PROVE  Passed(it)'
      <3>1. Heard(it) /\ Passed(it)
        BY <1>3, <2>4, <2>5
      <3>2. ~Initiate
        <4>1. ASSUME Initiate PROVE FALSE
          <5>1. /\ have = NoIds /\ need = NoIds
                /\ haveIds = NoIds /\ needIds = NoIds
            BY <1>1, <1>2, <4>1 DEF Initiate, PlayInv, NewsInv, PhaseInv
          <5> QED
            BY <3>1, <5>1, Counted DEF Heard
        <4> QED
          BY <4>1
      <3>3. ReturnAtResponder \/ Continue => OutputSays(active, it, FALSE)
        BY <3>1 DEF ReturnAtResponder, Continue, ReturnAtInitiator, LeaveCall,
                    Passed, OutputSays, Written
      <3>4. ASSUME NEW p \in Peer, NEW m \in ToSet(inbox'[p])
            PROVE  MailSays(p, m, it, FALSE)'
        <4>1. m \in ToSet(inbox[p]) => MailSays(p, m, it, FALSE)
          BY <3>1 DEF Passed
        <4> QED
          BY <1>1, <3>2, <3>3, <4>1, MailSaid
      <3>5. ASSUME active' # NoPeer
            PROVE  \E p \in Peer : /\ active' = p
                                   /\ QuerySays(p, it, FALSE)'
                                   /\ OutputSays(p, it, FALSE)'
        <4>1. PICK p \in Peer :
              /\ active' = p
              /\ \/ /\ Head(inbox[p]) \in ToSet(inbox[p])
                    /\ MailSays(p, Head(inbox[p]), it, FALSE) =>
                          QuerySays(p, it, FALSE)' /\ OutputSays(p, it, FALSE)'
                 \/ /\ active = p
                    /\ QuerySays(p, it, FALSE) => QuerySays(p, it, FALSE)'
                    /\ OutputSays(p, it, FALSE) => OutputSays(p, it, FALSE)'
          BY <1>1, <1>6, <3>5, CallSaid
        <4>2. Head(inbox[p]) \in ToSet(inbox[p]) =>
                 MailSays(p, Head(inbox[p]), it, FALSE)
          BY <3>1 DEF Passed
        <4>3. active = p =>
                 QuerySays(p, it, FALSE) /\ OutputSays(p, it, FALSE)
          BY <3>1, PeerAssumption DEF Passed, QuerySays, OutputSays, Reading,
                                      Written
        <4> QED
          BY <4>1, <4>2, <4>3
      <3> QED
        BY <3>4, <3>5 DEF Passed, QuerySays, OutputSays, Reading, Written
    <2> QED
      BY <2>3, <2>5
  <1> QED
    BY <1>5, <1>6

(* README, "Frame Size Limits": without a limit, and for a client that     *)
(* does not start again, no difference is reported twice - ranges once     *)
(* reconciled are never visited again, through edits of the storages,      *)
(* recreated objects and refused versions.                                 *)
THEOREM DifferencesAreReportedOnce ==
    ASSUME NoBases
    PROVE  Spec => []NoDuplicateReports
  <1>1. Init => PlayInv /\ OnceInv
    <2> SUFFICES ASSUME Init PROVE OnceInv
      BY PlayStart
    <2>1. \A k \in Id : NoIds[k] = 0 /\ NoIds[k] + NoIds[k] <= 1
      BY SMT DEF NoIds
    <2>2. CountedOnce
      BY <2>1 DEF Init, CountedOnce
    <2>3. \A it \in Universe : ~Heard(it)
      BY Counted DEF Init, Heard
    <2> QED
      BY <2>2, <2>3 DEF OnceInv
  <1>2. PlayInv /\ OnceInv /\ [Next]_vars => PlayInv' /\ OnceInv'
    BY PlayStep, OnceStep
  <1>3. OnceInv => NoDuplicateReports
    BY DEF OnceInv, NoLimits, CountedOnce, NoDuplicateReports
  <1> QED
    BY <1>1, <1>2, <1>3, PTL DEF Spec

-----------------------------------------------------------------------------
(* An output of one byte has no ranges: what the client's loop ends by.    *)

Sized(o) == o \in Output /\ (o.ranges # <<>> => o.size > 0)

SizeInv ==
    /\ outputSize >= 1
    /\ fullOutput # <<>> => outputSize > 1

LEMMA SizedJoin ==
    ASSUME NEW a, NEW b, Sized(a), Sized(b)
    PROVE  Sized(a \bullet b)
  <1>1. /\ a \bullet b \in Output
        /\ a.size \in Nat /\ b.size \in Nat
        /\ (a \bullet b).ranges = a.ranges \o b.ranges
        /\ (a \bullet b).size = a.size + b.size
    BY OutputType DEF Sized, Output, \bullet
  <1>2. <<>> \o <<>> = <<>>
    BY SMT
  <1>3. a.ranges # <<>> \/ b.ranges # <<>> => a.size + b.size > 0
    <2>1. \A m, n \in Nat : m > 0 \/ n > 0 => m + n > 0
      BY SMT
    <2> QED
      BY <1>1, <2>1 DEF Sized
  <1> QED
    BY <1>1, <1>2, <1>3 DEF Sized

LEMMA PiecesSized ==
    ASSUME TypeOK, NEW p \in Peer, active = p, query # <<>>,
           NEW upper \in 0 .. Len(store[p])
    PROVE  /\ Sized(Nothing) /\ Sized(doSkip) /\ Sized(Rest(p, upper))
           /\ prevIndex <= upper => Sized(Split(p, upper))
           /\ \A end \in prevIndex .. upper : Sized(List(p, upper, end))
  <1>1. /\ HeaderSize \in Nat /\ HeaderSize > 0
        /\ FingerprintSize \in Nat /\ IdSize \in Nat /\ prevIndex \in Nat
    BY SizeAssumption, SMT DEF TypeOK
  <1>2. Sized(Nothing)
    BY OutputType DEF Sized, Nothing
  <1>3. Sized(doSkip)
    <2>1. skip => doSkip.size = HeaderSize
      BY DEF doSkip
    <2>2. ~skip => doSkip = Nothing
      BY DEF doSkip
    <2> QED
      BY <1>1, <1>2, <2>1, <2>2, PiecesType DEF Sized
  <1>4. Sized(Rest(p, upper))
    <2>1. HeaderSize + FingerprintSize > 0
      BY <1>1, SMT
    <2> QED
      BY <2>1, PiecesType DEF Sized, Rest
  <1>5. ASSUME prevIndex <= upper
        PROVE  Sized(Split(p, upper))
    <2> DEFINE bytes == splitSize(upper - prevIndex)
    <2>1. upper - prevIndex \in Nat
      BY <1>1, <1>5, SMT DEF TypeOK
    <2>2. bytes \in HeaderSize .. LargestSplit
      BY <2>1, SplitSizeRange
    <2>3. bytes > 0
      <3> HIDE DEF bytes
      <3> QED
        BY <1>1, <2>2, SMT
    <2> QED
      BY <1>5, <2>3, PiecesType DEF Sized, Split
  <1>6. ASSUME NEW end \in prevIndex .. upper
        PROVE  Sized(List(p, upper, end))
    <2>1. end - prevIndex \in Nat
      BY <1>1, SMT
    <2>2. HeaderSize + (end - prevIndex) * IdSize > 0
      <3> DEFINE n == end - prevIndex
      <3>1. n * IdSize \in Nat
        BY <1>1, <2>1, SMT
      <3> HIDE DEF n
      <3>2. HeaderSize + n * IdSize > 0
        BY <1>1, <3>1, SMT
      <3> QED
        BY <3>2 DEF n
    <2> QED
      BY <2>2, PiecesType DEF Sized, List
  <1> QED
    BY <1>2, <1>3, <1>4, <1>5, <1>6

LEMMA EndRangeSized ==
    ASSUME TypeOK, SizeInv, NEW p \in Peer, active = p, query # <<>>,
           NEW upper \in 0 .. Len(store[p]), NEW written, NEW o,
           Sized(written), Sized(o), EndRange(p, written, o, upper)
    PROVE  SizeInv'
  <1>1. PICK w : Sized(w) /\ Write(p, w)
    BY PiecesSized, SizedJoin DEF EndRange
  <1>2. /\ w.ranges \in Seq(PlainRange) /\ w.size \in Nat
        /\ outputSize \in Nat /\ fullOutput \in Seq(WireRange)
    BY <1>1 DEF Sized, Output, TypeOK
  <1>3. w.ranges = <<>> => fullOutput' = fullOutput
    <2>1. ASSUME w.ranges = <<>>
          PROVE  encode(w.ranges, lastTimestampOut[p]) = <<>>
      <3>1. lastTimestampOut[p] \in Timestamp
        BY DEF TypeOK
      <3>2. PICK from \in Bound : from.timestamp = lastTimestampOut[p]
        <4>1. [timestamp |-> lastTimestampOut[p], id |-> ZeroBound.id] \in Bound
          BY <3>1, Ends DEF Bound
        <4> QED
          BY <4>1
      <3> QED
        BY <2>1, <3>2, NothingMeant DEF Means
    <2>2. fullOutput \o <<>> = fullOutput
      BY <1>2, SMT
    <2> QED
      BY <1>1, <2>1, <2>2 DEF Write
  <1>4. outputSize' = outputSize + w.size
    BY <1>1 DEF Write
  <1>5. CASE w.ranges = <<>>
    BY <1>2, <1>3, <1>4, <1>5, SMT DEF SizeInv
  <1>6. CASE w.ranges # <<>>
    BY <1>1, <1>2, <1>4, <1>6, SMT DEF SizeInv, Sized
  <1> QED
    BY <1>5, <1>6

LEMMA SizeStep ==
    ASSUME TypeOK, SizeInv, [Next]_vars
    PROVE  SizeInv'
  <1>1. ASSUME NEW p \in Peer, ReconcileRange(p)
        PROVE  SizeInv'
    <2>1. PICK upper \in 0 .. Len(store[p]) :
             \/ SkipStep(p, upper)
             \/ /\ prevIndex <= upper
                /\ \/ FingerprintMatches(p, upper)
                   \/ FingerprintDiffers(p, upper)
                   \/ IdListAtInitiator(p, upper)
                   \/ IdListAtResponder(p, upper)
      BY <1>1, BranchTaken
    <2>2. active = p /\ query # <<>>
      BY <2>1 DEF SkipStep, FingerprintMatches, FingerprintDiffers,
                  IdListAtInitiator, IdListAtResponder, NextRange
    <2>3. /\ Sized(Nothing) /\ Sized(doSkip)
          /\ prevIndex <= upper => Sized(doSkip \bullet Split(p, upper))
          /\ \A end \in prevIndex .. upper :
                Sized(doSkip \bullet List(p, upper, end))
      BY <2>2, PiecesSized, SizedJoin
    <2>4. CASE EndRange(p, Nothing, Nothing, upper)
      BY <2>2, <2>3, <2>4, EndRangeSized
    <2>5. CASE prevIndex <= upper /\ FingerprintDiffers(p, upper)
      <3>1. EndRange(p, Nothing, doSkip \bullet Split(p, upper), upper)
        BY <2>5 DEF FingerprintDiffers
      <3> QED
        BY <2>2, <2>3, <2>5, <3>1, EndRangeSized
    <2>6. CASE prevIndex <= upper /\ IdListAtResponder(p, upper)
      <3>1. PICK end \in prevIndex .. upper :
               EndRange(p, doSkip \bullet List(p, upper, end), Nothing, end)
        BY <2>6 DEF IdListAtResponder
      <3>2. end \in 0 .. Len(store[p])
        <4>1. prevIndex \in Nat /\ upper \in Nat /\ store[p] \in Seq(Universe)
          BY SMT DEF TypeOK
        <4> QED
          BY <4>1, SMT
      <3> QED
        BY <2>2, <2>3, <3>1, <3>2, EndRangeSized
    <2> QED
      BY <2>1, <2>4, <2>5, <2>6 DEF SkipStep, FingerprintMatches,
                                    IdListAtInitiator
  <1>2. CASE outputSize' = 1 /\ fullOutput' = <<>>
    BY <1>2, SMT DEF SizeInv
  <1>3. CASE UNCHANGED <<outputSize, fullOutput>>
    BY <1>3 DEF SizeInv
  <1> QED
    BY <1>1, <1>2, <1>3
    DEF Next, Protocol, Initiate, Downgrade, RefuseVersion, Receive,
        ReturnAtResponder, ReturnAtInitiator, Continue, Finish, LeaveCall,
        DropLocals, Retry, ProbeNewerVersion, Timeout, StorageFails, BadRange,
        Throw, Insert, Erase, EditStore, Recreate, Terminated, vars, callVars

-----------------------------------------------------------------------------
(* Completeness: a difference the client is not told of is asked for by    *)
(* everything that is on its way.                                          *)

(* A probe that is refused late, after the client has given up and started *)
(* again, would be taken for an empty answer.                              *)
Undisturbed == MaxProbes = 0 \/ MaxFaults = 0

Untold(it) ==
    /\ Differs(it)
    /\ it.id \notin Reported(have) \cup Reported(need)

Asked(it) ==
    /\ phase # "done"
    /\ phase # "probing" =>
          \A p \in Peer : \A m \in ToSet(inbox[p]) : MailSays(p, m, it, TRUE)
    /\ active # NoPeer =>
          \/ it.id \in Reported(haveIds) \cup Reported(needIds)
          \/ QuerySays(active, it, TRUE)
          \/ OutputSays(active, it, TRUE)

CoverInv ==
    NoLimits /\ Undisturbed =>
        \A it \in Universe : Untold(it) => Asked(it)

LEMMA BetweenIds ==
    ASSUME TypeOK, NEW q \in Peer, NEW it \in Universe, NEW l, NEW u,
           Within(it, l, u)
    PROVE  it.id \in IdsBetween(q, l, u) <=> it.id \in IdsOf(q)
  <1>1. /\ ToSet(store[q]) \subseteq Universe
        /\ IdsOf(q) = {i.id : i \in ToSet(store[q])}
    BY StoredIds
  <1>2. it.id \in IdsOf(q) <=> it \in ToSet(store[q])
    BY StoredItem
  <1> QED
    BY <1>1, <1>2 DEF IdsBetween, Within

(* Fingerprints match only where nothing differs. *)
LEMMA MatchedAlike ==
    ASSUME TypeOK, NoLimits, NEW p \in Peer, NEW a, NEW upper,
           ReadsHead(p, a, upper), FingerprintMatches(p, upper),
           NEW it \in Universe, Within(it, prevBound, currBound(p))
    PROVE  ~Differs(it)
  <1> DEFINE l == prevBound
             u == currBound(p)
             q == other(p)
  <1>1. /\ q \in Peer /\ {p, q} = {Client, Server} /\ frameSizeLimit[q] = 0
    BY OtherPeer DEF NoLimits, other, Peer
  <1>2. a[1].mode = "fingerprint" /\ a[1].ids = IdsBetween(p, l, u)
    BY DEF FingerprintMatches, NextRange, ReadsHead, FingerprintOf
  <1>3. SameUntouched(IdsBetween(p, l, u), IdsBetween(q, l, u))
    BY <1>1, <1>2 DEF ReadsHead, HonestRange
  <1>4. /\ it.id \in IdsBetween(p, l, u) <=> it.id \in IdsOf(p)
        /\ it.id \in IdsBetween(q, l, u) <=> it.id \in IdsOf(q)
    BY <1>1, BetweenIds
  <1>5. it.id \notin touched => (it.id \in IdsOf(p) <=> it.id \in IdsOf(q))
    BY <1>3, <1>4 DEF SameUntouched
  <1> QED
    BY <1>1, <1>5 DEF Differs

(* A turn asks again for what it has read and has not found. *)
LEMMA CoverTurned ==
    ASSUME NoBases, PlayInv, NoLimits, NEW p \in Peer, ReconcileRange(p),
           NEW it \in Universe, Differs(it),
           \/ it.id \in Reported(haveIds) \cup Reported(needIds)
           \/ QuerySays(p, it, TRUE)
           \/ OutputSays(p, it, TRUE)
    PROVE  \/ it.id \in Reported(haveIds') \cup Reported(needIds')
           \/ QuerySays(p, it, TRUE)'
           \/ OutputSays(p, it, TRUE)'
  <1>1. /\ TypeOK /\ FrameInv /\ TruthInv /\ frameSizeLimit[p] = 0
        /\ active = p /\ query # <<>>
        /\ haveIds \in [Id -> Nat] /\ needIds \in [Id -> Nat]
    BY DEF PlayInv, TruthInv, FrameInv, NoLimits, TypeOK, ReconcileRange,
           SkipStep, FingerprintMatches, FingerprintDiffers,
           IdListAtInitiator, IdListAtResponder, NextRange
  <1>2. PICK a, out :
           /\ Reading(p, a) /\ Written(p, out)
           /\ \/ it.id \in Reported(haveIds) \cup Reported(needIds)
              \/ Covers(a, prevBound, it)
              \/ Covers(out, ZeroBound, it)
    <2>1. Turned(p)
      BY <1>1, PeerAssumption DEF TruthInv, CallInv, Turned, Reading, Written
    <2> QED
      BY <2>1 DEF Turned, QuerySays, OutputSays
  <1>3. PICK upper :
           /\ ReadsHead(p, a, upper) /\ prevBound' = currBound(p)
           /\ \/ /\ Settles(p, upper)
                 /\ Reading(p, Tail(a))' /\ Written(p, out)'
              \/ /\ a[1].mode # "skip" /\ Answers(p, a, out)
                 /\ UNCHANGED <<haveIds, needIds>>
    BY <1>1, <1>2, UnlimitedTurn
  <1>4. ASSUME NEW idList, IdListAtInitiator(p, idList)
        PROVE  /\ Reported(haveIds) \subseteq Reported(haveIds')
               /\ Reported(needIds) \subseteq Reported(needIds')
               /\ Within(it, prevBound, currBound(p)) =>
                     it.id \in Reported(haveIds') \cup Reported(needIds')
    <2> DEFINE ours   == IdsIn(store[p], prevIndex, idList)
               theirs == Head(query).ids
    <2>1. /\ ours \in SUBSET Id /\ theirs \in SUBSET Id
          /\ Within(it, prevBound, currBound(p)) =>
                it.id \in (ours \ theirs) \cup (theirs \ ours)
          /\ haveIds' = Count(haveIds, ours \ theirs)
          /\ needIds' = Count(needIds, theirs \ ours)
      BY <1>1, <1>4, ListCompared
    <2> HIDE DEF ours, theirs
    <2>2. /\ Reported(haveIds') = Reported(haveIds) \cup (ours \ theirs)
          /\ Reported(needIds') = Reported(needIds) \cup (theirs \ ours)
      BY <1>1, <2>1, Counted
    <2> QED
      BY <2>1, <2>2
  <1>5. CASE it.id \in Reported(haveIds) \cup Reported(needIds)
    <2>1. UNCHANGED <<haveIds, needIds>> \/ IdListAtInitiator(p, upper)
      BY <1>3 DEF Settles, SkipStep, FingerprintMatches
    <2> QED
      BY <1>4, <1>5, <2>1
  <1>6. ASSUME NEW b, Reading(p, b)', NEW cur, prevBound' = cur,
               Covers(b, cur, it)
        PROVE  QuerySays(p, it, TRUE)'
    BY <1>6 DEF QuerySays
  <1>7. ASSUME NEW d, Written(p, d)', Covers(d, ZeroBound, it)
        PROVE  OutputSays(p, it, TRUE)'
    BY <1>7 DEF OutputSays
  <1>8. CASE Settles(p, upper) /\ Reading(p, Tail(a))' /\ Written(p, out)'
    <2>1. CASE Covers(out, ZeroBound, it)
      BY <1>7, <1>8, <2>1
    <2>2. CASE Covers(a, prevBound, it)
      <3>1. /\ a \in Seq(PlainRange) /\ a # <<>> /\ currBound(p) = a[1].upper
            /\ Head(query).mode = a[1].mode
        BY <1>2, <1>3 DEF Reading, Means, ReadsHead
      <3>2. \/ a[1].mode # "skip" /\ Within(it, prevBound, currBound(p))
            \/ Covers(Tail(a), currBound(p), it)
        BY <2>2, <3>1, CoversRest DEF Within
      <3>3. CASE Covers(Tail(a), currBound(p), it)
        <4>1. PICK b, cur : b = Tail(a) /\ cur = currBound(p)
          OBVIOUS
        <4>2. Reading(p, b)' /\ Covers(b, cur, it) /\ prevBound' = cur
          BY <1>3, <1>8, <3>3, <4>1
        <4> QED
          BY <1>6, <4>2
      <3>4. CASE a[1].mode # "skip" /\ Within(it, prevBound, currBound(p))
        <4>1. ~SkipStep(p, upper)
          BY <3>1, <3>4 DEF SkipStep, NextRange
        <4>2. ~FingerprintMatches(p, upper)
          BY <1>1, <1>3, <3>4, MatchedAlike
        <4> QED
          BY <1>4, <1>8, <3>4, <4>1, <4>2 DEF Settles
      <3> QED
        BY <3>2, <3>3, <3>4
    <2> QED
      BY <1>2, <1>5, <2>1, <2>2
  <1>9. CASE /\ a[1].mode # "skip" /\ Answers(p, a, out)
             /\ UNCHANGED <<haveIds, needIds>>
    <2>1. PICK main \in Seq(PlainRange), c \in Seq(PlainRange) :
             /\ Ascends(main, prevBound)
             /\ lastOf(main, prevBound) = currBound(p)
             /\ \A n \in 1 .. Len(main) : main[n].mode # "skip"
             /\ c = doSkip.ranges \o main
             /\ Reading(p, Tail(a))'
             /\ Written(p, out \o c)'
      BY <1>9 DEF Answers
    <2>2. Covers(out \o c, ZeroBound, it) <=>
              \/ Covers(out, ZeroBound, it)
              \/ prevBound \preceq it /\ it \prec currBound(p)
      BY <1>1, <1>2, <1>3, <2>1, AnswerCovers
    <2>3. Covers(a, prevBound, it) =>
             \/ prevBound \preceq it /\ it \prec currBound(p)
             \/ Covers(Tail(a), currBound(p), it)
      <3>1. a \in Seq(PlainRange) /\ a # <<>> /\ currBound(p) = a[1].upper
        BY <1>2, <1>3 DEF Reading, Means, ReadsHead
      <3> QED
        BY <3>1, CoversRest
    <2>4. CASE Covers(out \o c, ZeroBound, it)
      <3>1. PICK d : d = out \o c
        OBVIOUS
      <3>2. Written(p, d)' /\ Covers(d, ZeroBound, it)
        BY <2>1, <2>4, <3>1
      <3> QED
        BY <1>7, <3>2
    <2>5. CASE Covers(Tail(a), currBound(p), it)
      <3>1. PICK b, cur : b = Tail(a) /\ cur = currBound(p)
        OBVIOUS
      <3>2. Reading(p, b)' /\ Covers(b, cur, it) /\ prevBound' = cur
        BY <1>3, <2>1, <2>5, <3>1
      <3> QED
        BY <1>6, <3>2
    <2> QED
      BY <1>2, <1>5, <2>2, <2>3, <2>4, <2>5
  <1> QED
    BY <1>3, <1>8, <1>9

LEMMA RefusedProbe ==
    ASSUME TypeOK, NewsInv, LockInv, Undisturbed, RefuseVersion
    PROVE  phase = "probing" /\ UNCHANGED phase
  <1>1. /\ inbox[Server] # <<>> /\ phase' = phase
        /\ Head(inbox[Server]).version # PROTOCOL_VERSION
        /\ inbox[Server] \in Seq(Message)
        /\ Server \in Peer
    BY DEF RefuseVersion, appVars, TypeOK, Peer
  <1>2. Head(inbox[Server]) \in ToSet(inbox[Server])
    BY <1>1, SMT DEF ToSet
  <1>3. MaxProbes # 0 /\ faults = 0
    BY <1>1, <1>2 DEF LockInv, Spoken, Undisturbed
  <1>4. CASE phase # "probing"
    <2>1. inbox = NoMail \/ \E p \in Peer : \E m :
             inbox = MailOf(p, m) /\ m.version = PROTOCOL_VERSION
      BY <1>3, <1>4 DEF LockInv, Lockstep, NewsInv, TypeOK, Phase
    <2>2. CASE inbox = NoMail
      BY <1>1, <2>2, Mails DEF NoMail
    <2>3. ASSUME NEW p \in Peer, NEW m, inbox = MailOf(p, m),
                 m.version = PROTOCOL_VERSION
          PROVE  FALSE
      <3>1. Server = p /\ Head(inbox[Server]) = m
        BY <1>1, <2>3, Mails
      <3> QED
        BY <1>1, <2>3, <3>1
    <2> QED
      BY <2>1, <2>2, <2>3
  <1> QED
    BY <1>1, <1>4

(* What can be on its way when the client is not probing, after a step,    *)
(* was before it.                                                          *)
LEMMA ProbeOver ==
    ASSUME TypeOK, PlayInv, PlayInv', Undisturbed, [Next]_vars,
           phase = "probing", NEW p \in Peer
    PROVE  /\ phase' # "probing" => ToSet(inbox'[p]) = {}
           /\ ~Receive(p)
  <1>1. faults = 0 /\ faults' = 0 /\ phase' \in Phase
    BY DEF PlayInv, LockInv, Undisturbed, TruthInv, FrameInv, TypeOK
  <1>2. active = NoPeer
    BY <1>1 DEF PlayInv, LockInv, Lockstep
  <1>3. ASSUME NEW q \in Peer, ReconcileRange(q)
        PROVE  FALSE
    BY <1>2, <1>3, PeerAssumption
    DEF ReconcileRange, SkipStep, FingerprintMatches, FingerprintDiffers,
        IdListAtInitiator, IdListAtResponder, NextRange
  <1>4. phase' # "waiting"
    BY <1>2, <1>3, PeerAssumption
    DEF Next, Protocol, Initiate, Downgrade, RefuseVersion, Receive,
        ReturnAtResponder, ReturnAtInitiator, Continue, Finish, LeaveCall,
        Retry, ProbeNewerVersion, Timeout, StorageFails, BadRange, Throw,
        Insert, Erase, EditStore, Recreate, Terminated, vars, appVars
  <1>5. phase' # "failed"
    BY <1>1 DEF PlayInv, NewsInv
  <1>6. ASSUME phase' # "probing"
        PROVE  ToSet(inbox'[p]) = {}
    <2>1. inbox' = NoMail
      BY <1>1, <1>4, <1>5, <1>6 DEF PlayInv, LockInv, Lockstep, Phase
    <2>2. ToSet(<<>>) = {}
      BY SMT DEF ToSet
    <2> QED
      BY <2>1, <2>2 DEF NoMail
  <1>7. ~Receive(p)
    <2>1. ASSUME Receive(p) PROVE FALSE
      <3>1. phase' = "probing" /\ active' = p /\ p # NoPeer
        BY <2>1, PeerAssumption DEF Receive, appVars
      <3> QED
        BY <1>1, <3>1 DEF PlayInv, LockInv, Lockstep
    <2> QED
      BY <2>1
  <1> QED
    BY <1>6, <1>7

(* A call that has read its query, and found nothing: what it asks for is  *)
(* in its output.                                                          *)
LEMMA CallOver ==
    ASSUME TypeOK, SizeInv, active \in Peer, query = <<>>, NEW it \in Universe
    PROVE  /\ ~QuerySays(active, it, TRUE)
           /\ OutputSays(active, it, TRUE) => outputSize # 1
  <1>1. ASSUME NEW p, NEW x, NEW a, NEW from \in Bound, x = <<>>,
               Means(p, x, a, from)
        PROVE  ~Covers(a, from, it)
    <2>1. a \in Seq(PlainRange) /\ x = encode(a, from.timestamp)
      BY <1>1 DEF Means
    <2>2. Encodes(x, a, from)
      BY <2>1, Encoded
    <2>3. Len(x) = Len(a) /\ Len(x) = 0
      <3>1. Len(x) = 0
        BY <1>1, SMT
      <3> QED
        BY <2>2, <3>1 DEF Encodes
    <2>4. a \in Seq(PlainRange) /\ Len(a) = 0
      BY <2>1, <2>3
    <2>5. a = <<>>
      BY <2>4, SMT
    <2> QED
      BY <2>5, CoversNothing
  <1>2. prevBound \in Bound /\ ZeroBound \in Bound
    BY Ends DEF TypeOK
  <1>3. ~QuerySays(active, it, TRUE)
    BY <1>1, <1>2 DEF QuerySays, Reading
  <1>4. OutputSays(active, it, TRUE) => fullOutput # <<>>
    BY <1>1, <1>2 DEF OutputSays, Written
  <1>5. fullOutput # <<>> => outputSize # 1
    BY SMT DEF SizeInv, TypeOK
  <1> QED
    BY <1>3, <1>4, <1>5

(* What the client was told it stays told. *)
LEMMA ToldStays ==
    ASSUME TypeOK, [Next]_vars
    PROVE  /\ Reported(have) \subseteq Reported(have')
           /\ Reported(need) \subseteq Reported(need')
           /\ ReturnAtInitiator =>
                 /\ Reported(have') = Reported(have) \cup Reported(haveIds)
                 /\ Reported(need') = Reported(need) \cup Reported(needIds)
  <1>1. /\ haveIds \in [Id -> Nat] /\ needIds \in [Id -> Nat]
        /\ have \in [Id -> Nat] /\ need \in [Id -> Nat]
    BY DEF TypeOK
  <1>2. ReturnAtInitiator =>
           /\ Reported(have') = Reported(have) \cup Reported(haveIds)
           /\ Reported(need') = Reported(need) \cup Reported(needIds)
    BY <1>1, Counted DEF ReturnAtInitiator
  <1>3. UNCHANGED <<have, need>> \/ ReturnAtInitiator
    BY ReportsMove
  <1> QED
    BY <1>2, <1>3

LEMMA CallHolds ==
    ASSUME [Next]_vars, active # NoPeer, active' # NoPeer,
           ~\E p \in Peer : ReconcileRange(p)
    PROVE  UNCHANGED <<haveIds, needIds>>
  BY DEF Next, Protocol, Initiate, Downgrade, RefuseVersion, Receive,
         ReturnAtResponder, ReturnAtInitiator, Continue, Finish, LeaveCall,
         DropLocals, Retry, ProbeNewerVersion, Timeout, StorageFails, BadRange,
         Throw, Insert, Erase, EditStore, Recreate, Terminated, vars

LEMMA DoneByFinish ==
    ASSUME [Next]_vars, phase' = "done", phase # "done"
    PROVE  Finish
  <1>1. \A p \in Peer : ReconcileRange(p) => phase' = phase
    BY DEF ReconcileRange, SkipStep, FingerprintMatches, FingerprintDiffers,
           IdListAtInitiator, IdListAtResponder, NextRange, appVars
  <1> QED
    BY <1>1
    DEF Next, Protocol, Initiate, Downgrade, RefuseVersion, Receive,
        ReturnAtResponder, Continue, Retry, ProbeNewerVersion,
        Timeout, StorageFails, BadRange, Throw, Insert, Erase, EditStore,
        Recreate, Terminated, vars, appVars

LEMMA CoverStep ==
    ASSUME NoBases, PlayInv, SizeInv, CoverInv, [Next]_vars
    PROVE  CoverInv'
  <1> SUFFICES ASSUME NoLimits', Undisturbed, NEW it \in Universe, Untold(it)'
               PROVE  Asked(it)'
    BY DEF CoverInv, Undisturbed
  <1>1. PlayInv' /\ TypeOK /\ TypeOK' /\ PhaseInv /\ NewsInv /\ LockInv
    BY PlayStep DEF PlayInv, TruthInv
  <1>2. NoLimits
    BY <1>1, LimitFixed DEF NoLimits
  <1>3. Untold(it)
    <2>1. Differs(it)
      <3>1. /\ it.id \in (OnlyMine' \ touched') \cup (OnlyTheirs' \ touched')
            /\ OnlyMine' \ touched' \subseteq OnlyMine \ touched
            /\ OnlyTheirs' \ touched' \subseteq OnlyTheirs \ touched
        <4>1. it.id \in (OnlyMine' \ touched') \cup (OnlyTheirs' \ touched')
          BY DEF Untold, Differs, OnlyMine, OnlyTheirs
        <4> QED
          BY <1>1, <4>1, DifferenceKept
      <3> QED
        BY <3>1 DEF Differs, OnlyMine, OnlyTheirs
    <2> QED
      BY <1>1, <2>1, ToldStays DEF Untold
  <1>4. Asked(it) /\ Differs(it)
    BY <1>2, <1>3 DEF CoverInv, Untold
  <1>5. ~ReturnAtInitiator \/ it.id \notin Reported(haveIds) \cup Reported(needIds)
    BY <1>1, ToldStays DEF Untold
  <1>6. phase' # "done"
    <2>1. ASSUME Finish PROVE FALSE
      <3>1. /\ ReturnAtInitiator /\ active = Client /\ query = <<>>
            /\ outputSize = 1 /\ Client \in Peer /\ active # NoPeer
        BY <2>1, PeerAssumption DEF Finish, ReturnAtInitiator, LeaveCall, Peer
      <3> QED
        BY <1>1, <1>4, <1>5, <3>1, CallOver DEF Asked
    <2> QED
      BY <1>4, <2>1, DoneByFinish DEF Asked
  <1>7. ReturnAtResponder \/ Continue => OutputSays(active, it, TRUE)
    <2> SUFFICES ASSUME ReturnAtResponder \/ Continue
                 PROVE  OutputSays(active, it, TRUE)
      OBVIOUS
    <2>1. active \in Peer /\ active # NoPeer /\ query = <<>>
      BY PeerAssumption DEF ReturnAtResponder, Continue, ReturnAtInitiator,
                            LeaveCall, Peer
    <2>2. it.id \notin Reported(haveIds) \cup Reported(needIds)
      <3>1. CASE Continue
        BY <1>5, <3>1 DEF Continue
      <3>2. CASE ReturnAtResponder
        <4>1. active # Client
          BY <3>2, PeerAssumption DEF ReturnAtResponder
        <4> QED
          BY <1>1, <4>1, Counted DEF NewsInv
      <3> QED
        BY <3>1, <3>2
    <2> QED
      BY <1>1, <1>4, <2>1, <2>2, CallOver DEF Asked
  <1>8. ASSUME phase' # "probing", NEW p \in Peer, NEW m \in ToSet(inbox'[p])
        PROVE  MailSays(p, m, it, TRUE)'
    <2>1. phase # "probing"
      BY <1>1, <1>8, ProbeOver
    <2>2. m \in ToSet(inbox[p]) => MailSays(p, m, it, TRUE)
      BY <1>4, <2>1 DEF Asked
    <2>3. ~ProbeNewerVersion /\ ~RefuseVersion
      BY <1>1, <1>8, <2>1, RefusedProbe DEF ProbeNewerVersion
    <2> QED
      BY <1>1, <1>7, <2>2, <2>3, MailSaid
  <1>9. ASSUME NEW p \in Peer, ReconcileRange(p)
        PROVE  \/ it.id \in Reported(haveIds') \cup Reported(needIds')
               \/ QuerySays(active, it, TRUE)'
               \/ OutputSays(active, it, TRUE)'
    <2>1. active = p /\ active' = p /\ active # NoPeer
      BY <1>9, PeerAssumption
      DEF ReconcileRange, SkipStep, FingerprintMatches, FingerprintDiffers,
          IdListAtInitiator, IdListAtResponder, NextRange
    <2>2. \/ it.id \in Reported(haveIds) \cup Reported(needIds)
          \/ QuerySays(p, it, TRUE)
          \/ OutputSays(p, it, TRUE)
      BY <1>4, <2>1 DEF Asked, QuerySays, OutputSays, Reading, Written
    <2>3. \/ it.id \in Reported(haveIds') \cup Reported(needIds')
          \/ QuerySays(p, it, TRUE)'
          \/ OutputSays(p, it, TRUE)'
      BY <1>2, <1>4, <1>9, <2>2, CoverTurned
    <2> QED
      BY <2>1, <2>3 DEF QuerySays, OutputSays, Reading, Written
  <1>10. ASSUME ~\E p \in Peer : ReconcileRange(p), active' # NoPeer
         PROVE  \/ it.id \in Reported(haveIds') \cup Reported(needIds')
                \/ QuerySays(active, it, TRUE)'
                \/ OutputSays(active, it, TRUE)'
    <2>1. PICK p \in Peer :
              /\ active' = p
              /\ \/ /\ Receive(p)
                    /\ inbox[p] # <<>> /\ Head(inbox[p]) \in ToSet(inbox[p])
                    /\ MailSays(p, Head(inbox[p]), it, TRUE) =>
                          QuerySays(p, it, TRUE)'
                 \/ /\ active = p
                    /\ QuerySays(p, it, TRUE) => QuerySays(p, it, TRUE)'
                    /\ OutputSays(p, it, TRUE) => OutputSays(p, it, TRUE)'
      <3>1. \E p \in Peer :
              /\ active' = p
              /\ \/ /\ Receive(p)
                    /\ inbox[p] # <<>> /\ Head(inbox[p]) \in ToSet(inbox[p])
                    /\ MailSays(p, Head(inbox[p]), it, TRUE) =>
                          QuerySays(p, it, TRUE)' /\ OutputSays(p, it, FALSE)'
                 \/ /\ active = p
                    /\ QuerySays(p, it, TRUE) => QuerySays(p, it, TRUE)'
                    /\ OutputSays(p, it, TRUE) => OutputSays(p, it, TRUE)'
        BY <1>1, <1>10, CallSaid
      <3> QED
        BY <3>1
    <2>2. CASE Receive(p) /\ Head(inbox[p]) \in ToSet(inbox[p])
               /\ (MailSays(p, Head(inbox[p]), it, TRUE) =>
                      QuerySays(p, it, TRUE)')
      <3>1. phase # "probing"
        BY <1>1, <2>2, ProbeOver
      <3>2. QuerySays(p, it, TRUE)'
        BY <1>4, <2>2, <3>1 DEF Asked
      <3> QED
        BY <2>1, <3>2 DEF QuerySays, Reading
    <2>3. CASE /\ active = p
               /\ QuerySays(p, it, TRUE) => QuerySays(p, it, TRUE)'
               /\ OutputSays(p, it, TRUE) => OutputSays(p, it, TRUE)'
      <3>1. active # NoPeer /\ UNCHANGED <<haveIds, needIds>>
        BY <1>10, <2>3, PeerAssumption, CallHolds
      <3>2. \/ it.id \in Reported(haveIds) \cup Reported(needIds)
            \/ QuerySays(p, it, TRUE)
            \/ OutputSays(p, it, TRUE)
        BY <1>4, <2>3, <3>1 DEF Asked, QuerySays, OutputSays, Reading, Written
      <3> QED
        BY <2>1, <2>3, <3>1, <3>2 DEF QuerySays, OutputSays, Reading, Written
    <2> QED
      BY <2>1, <2>2, <2>3
  <1> QED
    BY <1>6, <1>8, <1>9, <1>10 DEF Asked, MailSays, Means

Unlimited == \A f \in FrameSizeLimits : \A p \in Peer : f[p] = 0

(* What the completeness of the reports rests on. *)
ReportInv ==
    /\ PlayInv
    /\ SoundReports
    /\ SizeInv
    /\ CoverInv

LEMMA ReportStart == Init => ReportInv
  <1> SUFFICES ASSUME Init PROVE ReportInv
    OBVIOUS
  <1>1. PlayInv
    BY PlayStart
  <1>2. SoundReports
    BY Counted DEF Init, SoundReports
  <1>3. SizeInv
    BY SMT DEF Init, SizeInv
  <1>4. CoverInv
    <2>1. ToSet(<<>>) = {}
      BY SMT DEF ToSet
    <2> QED
      BY <2>1 DEF Init, CoverInv, Asked
  <1> QED
    BY <1>1, <1>2, <1>3, <1>4 DEF ReportInv

LEMMA ReportStep ==
    ASSUME NoBases, ReportInv, [Next]_vars
    PROVE  ReportInv' /\ TypeOK /\ TypeOK'
  <1>1. PlayInv' /\ TypeOK /\ TypeOK' /\ TruthInv
    BY PlayStep DEF ReportInv, PlayInv
  <1>2. SoundReports'
    BY <1>1, SoundStep DEF ReportInv
  <1>3. SizeInv'
    BY <1>1, SizeStep DEF ReportInv
  <1>4. CoverInv'
    BY CoverStep DEF ReportInv
  <1> QED
    BY <1>1, <1>2, <1>3, <1>4 DEF ReportInv

LEMMA CoveredWhenDone ==
    ASSUME Unlimited, Undisturbed, ReportInv
    PROVE  CompleteWhenDone
  <1> SUFFICES ASSUME phase = "done"
               PROVE  /\ OnlyMine \ touched \subseteq Reported(have)
                      /\ OnlyTheirs \ touched \subseteq Reported(need)
    BY DEF CompleteWhenDone
  <1>1. TypeOK /\ Client \in Peer /\ Server \in Peer
    BY DEF ReportInv, PlayInv, TruthInv, FrameInv, Peer
  <1>2. NoLimits
    BY <1>1 DEF Unlimited, NoLimits, TypeOK
  <1>3. \A it \in Universe : ~Untold(it)
    BY <1>2 DEF ReportInv, CoverInv, Asked
  <1>4. ASSUME NEW k, k \in (OnlyMine \ touched) \cup (OnlyTheirs \ touched)
        PROVE  k \in Reported(have) \cup Reported(need)
    <2>1. PICK it \in Universe : it.id = k
      BY <1>1, <1>4, StoredIds DEF OnlyMine, OnlyTheirs
    <2>2. Differs(it)
      BY <1>4, <2>1 DEF Differs, OnlyMine, OnlyTheirs
    <2> QED
      BY <1>3, <2>1, <2>2 DEF Untold
  <1>5. /\ Reported(have) \subseteq OnlyMine \cup touched
        /\ Reported(need) \subseteq OnlyTheirs \cup touched
    BY DEF ReportInv, SoundReports
  <1>6. OnlyMine \cap OnlyTheirs = {}
    BY DEF OnlyMine, OnlyTheirs
  <1> QED
    BY <1>4, <1>5, <1>6

(* README, "Protocol": a client without frame limits that has ended the    *)
(* protocol has determined every ID it has and the server needs, and every *)
(* ID it needs, except those of items inserted or erased meanwhile -       *)
(* through edits, recreated objects, exceptions, lost and late messages    *)
(* and retries, or else through refused versions.                          *)
THEOREM ReportsAreComplete ==
    ASSUME NoBases, Unlimited, Undisturbed
    PROVE  Spec => []CompleteWhenDone
  <1>1. Init => ReportInv
    BY ReportStart
  <1>2. ReportInv /\ [Next]_vars => ReportInv'
    BY ReportStep
  <1>3. ReportInv => CompleteWhenDone
    BY CoveredWhenDone
  <1> QED
    BY <1>1, <1>2, <1>3, PTL DEF Spec

-----------------------------------------------------------------------------
(* The engine implements the abstract synchronisation.                     *)

(* An insertion or erasure adds an ID to the set of its peer, or removes   *)
(* it.                                                                     *)
LEMMA IdsEdited ==
    ASSUME TypeOK, TypeOK', NEW p \in Peer, NEW s, NEW item \in Universe,
           Edited(p, s, item)
    PROVE  /\ IdsOf(p)' \in {IdsOf(p) \cup {item.id}, IdsOf(p) \ {item.id}}
           /\ \A q \in Peer : q # p => IdsOf(q)' = IdsOf(q)
  <1>1. store' = [store EXCEPT ![p] = s]
    BY DEF Edited, EditStore
  <1>2. store'[p] = s /\ \A q \in Peer : q # p => store'[q] = store[q]
    BY <1>1 DEF TypeOK
  <1>3. /\ ToSet(store[p]) \subseteq Universe
        /\ IdsOf(p) = {it.id : it \in ToSet(store[p])}
    BY StoredIds
  <1>4. /\ ToSet(s) \subseteq Universe
        /\ IdsOf(p)' = {it.id : it \in ToSet(s)}
    BY <1>2, SequenceIds DEF TypeOK, IdsOf
  <1>5. \A it \in Universe : it.id = item.id => it = item
    BY DataAssumption
  <1>6. ASSUME NEW k, k # item.id
        PROVE  k \in IdsOf(p)' <=> k \in IdsOf(p)
    BY <1>3, <1>4, <1>6 DEF Edited
  <1>7. IdsOf(p)' \in {IdsOf(p) \cup {item.id}, IdsOf(p) \ {item.id}}
    BY <1>6
  <1> QED
    BY <1>2, <1>7 DEF IdsOf

LEMMA AbstractStep ==
    ASSUME NoBases, ReportInv, ReportInv', CompleteWhenDone', [Next]_vars
    PROVE  [Abstract!Next]_(Abstract!vars)
  <1>1. /\ TypeOK /\ TypeOK' /\ PhaseInv
        /\ Client # Server /\ Peer = {Client, Server}
    BY PeerAssumption DEF ReportInv, PlayInv, TruthInv, FrameInv, Peer
  <1>2. ASSUME NEW p \in Peer, Insert(p) \/ Erase(p)
        PROVE  Abstract!Next
    <2>0. PICK item \in Universe : \E s : Edited(p, s, item)
      BY <1>1, <1>2, OneItemEdited
    <2>1. PICK s : Edited(p, s, item)
      BY <2>0
    <2>2. /\ phase = "waiting" /\ UNCHANGED <<phase, have, need>>
          /\ touched' = touched \cup {item.id}
          /\ item.id \in Id
      BY <2>1, DataAssumption DEF Edited, EditStore, appVars, Item
    <2>3. /\ IdsOf(p)' \in {IdsOf(p) \cup {item.id}, IdsOf(p) \ {item.id}}
          /\ \A q \in Peer : q # p => IdsOf(q)' = IdsOf(q)
      BY <1>1, <2>1, IdsEdited
    <2>4. \/ /\ IdsOf(Client)' \in {IdsOf(Client) \cup {item.id},
                                    IdsOf(Client) \ {item.id}}
             /\ IdsOf(Server)' = IdsOf(Server)
          \/ /\ IdsOf(Server)' \in {IdsOf(Server) \cup {item.id},
                                    IdsOf(Server) \ {item.id}}
             /\ IdsOf(Client)' = IdsOf(Client)
      BY <1>1, <2>3
    <2>5. Abstract!Edit(item.id)
      BY <2>2, <2>4 DEF Abstract!Edit, Reported
    <2> QED
      BY <2>2, <2>5 DEF Abstract!Next
  <1>3. ASSUME ReturnAtInitiator, UNCHANGED phase \/ Finish
        PROVE  Abstract!Next
    <2>1. /\ phase = "waiting" /\ UNCHANGED <<store, touched>>
      BY <1>1, <1>3 DEF ReturnAtInitiator, LeaveCall, storeVars, PhaseInv
    <2>2. IdsOf(Client)' = IdsOf(Client) /\ IdsOf(Server)' = IdsOf(Server)
      BY <2>1 DEF IdsOf
    <2>3. /\ Reported(have) \subseteq Reported(have')
          /\ Reported(need) \subseteq Reported(need')
      BY <1>1, ToldStays
    <2>4. /\ Reported(have') \subseteq OnlyMine \cup touched
          /\ Reported(need') \subseteq OnlyTheirs \cup touched
      BY <2>1, <2>2 DEF ReportInv, SoundReports, OnlyMine, OnlyTheirs
    <2>5. Abstract!Report
      BY <2>1, <2>2, <2>3, <2>4 DEF Abstract!Report, OnlyMine, OnlyTheirs,
                                    Reported
    <2>6. CASE UNCHANGED phase
      <3>1. Abstract!Continue
        BY <2>5, <2>6 DEF Abstract!Continue
      <3> QED
        BY <3>1 DEF Abstract!Next
    <2>7. CASE Finish
      <3>1. phase' = "done"
        BY <2>7 DEF Finish
      <3>2. /\ OnlyMine \ touched \subseteq Reported(have')
            /\ OnlyTheirs \ touched \subseteq Reported(need')
        BY <2>1, <2>2, <3>1 DEF CompleteWhenDone, OnlyMine, OnlyTheirs, Reported
      <3>3. Abstract!Complete(Reported(have'), Reported(need'))
        BY <3>2 DEF Abstract!Complete, OnlyMine, OnlyTheirs
      <3>4. Abstract!Finish
        BY <2>5, <3>1, <3>3 DEF Abstract!Finish, Reported
      <3> QED
        BY <3>4 DEF Abstract!Next
    <2> QED
      BY <1>3, <2>6, <2>7
  <1>4. ASSUME UNCHANGED <<store, touched, have, need>>,
               phase = "done" <=> phase' = "done"
        PROVE  UNCHANGED Abstract!vars
    BY <1>4 DEF Abstract!vars, IdsOf, Reported
  <1>5. CASE Continue \/ Finish
    BY <1>3, <1>5 DEF Continue, Finish
  <1>6. ASSUME NEW p \in Peer, ReconcileRange(p)
        PROVE  UNCHANGED Abstract!vars
    BY <1>4, <1>6 DEF ReconcileRange, SkipStep, FingerprintMatches,
           FingerprintDiffers, IdListAtInitiator, IdListAtResponder, NextRange,
           storeVars, appVars
  <1>7. CASE \/ Initiate \/ Downgrade \/ RefuseVersion \/ ReturnAtResponder
             \/ Retry \/ ProbeNewerVersion \/ Timeout \/ UNCHANGED vars
             \/ \E p \in Peer : Receive(p) \/ Throw(p) \/ Recreate(p)
    BY <1>4, <1>7
    DEF Initiate, Downgrade, RefuseVersion, Receive, ReturnAtResponder,
        LeaveCall, Retry, ProbeNewerVersion, Timeout, Throw, Recreate, vars,
        storeVars, appVars
  <1> QED
    BY <1>2, <1>5, <1>6, <1>7
    DEF Next, Protocol, Terminated, StorageFails, BadRange

(* The engine, the codecs and the client loop implement the abstract       *)
(* synchronisation of module SetReconciliation: a turn of the client that  *)
(* returns is a report, the edits of the storages are the abstract edits,  *)
(* and every other step changes nothing there.                             *)
THEOREM SynchronisesSets ==
    ASSUME NoBases, Unlimited, Undisturbed
    PROVE  Spec => ImplementsSetReconciliation
  <1>1. Init => ReportInv /\ Abstract!Init
    <2> SUFFICES ASSUME Init
                 PROVE  Abstract!Init
      BY ReportStart
    <2>1. TypeOK /\ Client \in Peer /\ Server \in Peer
      BY InitType DEF Peer
    <2>2. IdsOf(Client) \subseteq Id /\ IdsOf(Server) \subseteq Id
      BY <2>1, StoredIds
    <2>3. /\ Reported(have) = {} /\ Reported(need) = {}
          /\ phase = "idle" /\ touched = {}
      BY Counted DEF Init
    <2> QED
      BY <2>2, <2>3 DEF Abstract!Init
  <1>2. ReportInv /\ [Next]_vars => ReportInv'
    BY ReportStep
  <1>3. ReportInv => CompleteWhenDone
    BY CoveredWhenDone
  <1>4. ReportInv /\ ReportInv' /\ CompleteWhenDone' /\ [Next]_vars =>
           [Abstract!Next]_(Abstract!vars)
    BY AbstractStep
  <1> QED
    BY <1>1, <1>2, <1>3, <1>4, PTL
    DEF Spec, ImplementsSetReconciliation, Abstract!Spec
=============================================================================
