-------------------------------- MODULE Types --------------------------------
(***************************************************************************)
(* Items, bounds, their order, and the two codecs a bound goes through     *)
(* before it reaches the wire: the delta encoding of its timestamp and the *)
(* shortening of its ID to the prefix that separates two neighbours        *)
(* (negentropy/types.h and the tail of negentropy.h).                      *)
(*                                                                         *)
(* An ID is a number: memcmp order on 32 bytes is numeric order on the     *)
(* big-endian value, and a prefix padded with zero bytes, which is how a   *)
(* Bound stores it, is again such a number.  A timestamp is a w-bit        *)
(* integer whose largest value means infinity.                             *)
(***************************************************************************)
EXTENDS Integers

CONSTANTS
    MAX_U64,               \* largest timestamp, the infinity of the protocol
    MaxId,                 \* largest ID
    MinimalPrefix(_, _)    \* shortest prefix of the 2nd ID above the 1st

ASSUME WidthAssumption == MAX_U64 \in Nat \ {0} /\ MaxId \in Nat

Id == 0 .. MaxId

(* What the byte loop of getMinimalBound achieves.  The bound of a run     *)
(* that uses this module is the instance TLC evaluates.                    *)
ASSUME PrefixAssumption ==
    \A prev, curr \in Id :
        prev < curr => /\ MinimalPrefix(prev, curr) \in Id
                       /\ prev < MinimalPrefix(prev, curr)
                       /\ MinimalPrefix(prev, curr) <= curr

-----------------------------------------------------------------------------

Timestamp == 0 .. MAX_U64

Wrap(n) == n % (MAX_U64 + 1)      \* uint64_t arithmetic

(* "Items may not use the max uint64 value as a timestamp": the storages   *)
(* do not check it, the protocol relies on it.                             *)
Item == [timestamp : 0 .. MAX_U64 - 1, id : Id]

Bound == [timestamp : Timestamp, id : Id]

a \prec b == \/ a.timestamp < b.timestamp
             \/ a.timestamp = b.timestamp /\ a.id < b.id

a \preceq b == a = b \/ a \prec b

Sorted(s) == \A i, j \in DOMAIN s : i < j => s[i] \prec s[j]

ZeroBound == [timestamp |-> 0, id |-> 0]

Infinity == [timestamp |-> MAX_U64, id |-> 0]

-----------------------------------------------------------------------------

(* last is lastTimestampOut; its next value is the timestamp itself.       *)
encodeTimestampOut(timestamp, last) ==
    IF timestamp = MAX_U64 THEN 0 ELSE Wrap(Wrap(timestamp - last) + 1)

(* Mutant: without the saturation at the largest timestamp. *)
decodeTimestampInWrapping(encoded, last) ==
    Wrap((IF encoded = 0 THEN MAX_U64 ELSE encoded - 1) + last)

(* last is lastTimestampIn; its next value is the result.                  *)
decodeTimestampIn(encoded, last) ==
    LET offset == IF encoded = 0 THEN MAX_U64 ELSE encoded - 1
        sum    == Wrap(offset + last)
    IN  IF sum < last THEN MAX_U64 ELSE sum

getMinimalBound(prev, curr) ==
    [timestamp |-> curr.timestamp,
     id        |-> IF curr.timestamp # prev.timestamp
                   THEN 0
                   ELSE MinimalPrefix(prev.id, curr.id)]
=============================================================================
