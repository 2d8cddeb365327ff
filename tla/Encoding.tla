------------------------------- MODULE Encoding -------------------------------
(***************************************************************************)
(* The bytes of a message (negentropy/encoding.h): varints, and byte       *)
(* strings whose length stands before them.  A writer appends bounds, each *)
(* a timestamp offset, a length and an ID prefix; the transport may cut    *)
(* the message; a reader consumes it byte by byte, as decodeBound of       *)
(* negentropy.h calls decodeVarInt and getBytes.                           *)
(*                                                                         *)
(* A byte is a number below 2 * Radix: the high bit, worth Radix, says     *)
(* that a varint goes on; the digit is the rest.                           *)
(***************************************************************************)
EXTENDS Integers, SequencesExt

CONSTANTS
    Radix,      \* of the digits of a varint: 128
    Limit64,    \* of the integers a varint is decoded into: 2^64
    Limit32,    \* of the operands of JavaScript's << and >>>: 2^32
    Numbers,    \* timestamp offsets that are written
    IdPrefixes, \* ID prefixes that are written: byte strings
    MaxBounds   \* bound: bounds in a message

Byte == 0 .. 2 * Radix - 1

ASSUME EncodingAssumption ==
    /\ Radix \in Nat /\ Radix >= 2
    /\ Limit32 \in Nat /\ Limit32 >= 2 /\ Limit32 % 2 = 0
    /\ Limit64 \in Nat /\ Limit64 > Limit32
    /\ Numbers \subseteq 0 .. Limit64 - 1         \* uint64_t
    /\ IdPrefixes \subseteq Seq(Byte)
    /\ \A id \in IdPrefixes : 2 * Len(id) < Limit32

VARIABLES
    port,      \* whose functions run: "cpp" or "js"
    sent,      \* the bounds that were written
    ends,      \* how many bytes none, one, two ... of them take
    encoded,   \* the bytes of the message that are not read yet
    arrived,   \* how many bytes the transport delivered
    phase,     \* what the reader expects
    res,       \* of decodeVarInt
    number,    \* of the bound being read
    got        \* the bounds that were read

vars == <<port, sent, ends, encoded, arrived, phase, res, number, got>>

-----------------------------------------------------------------------------
Limit == IF port = "js" THEN Limit32 ELSE Limit64

digits[n \in Nat] ==
    IF n = 0 THEN <<>> ELSE Append(digits[n \div Radix], n % Radix)

(* Mutant: without the case of zero, which has no digits. *)
encodeWithoutZero(n) ==
    LET o == digits[n % Limit]
    IN  [i \in DOMAIN o |-> IF i < Len(o) THEN o[i] + Radix ELSE o[i]]

(* The parameter is a uint64_t; >>> of JavaScript takes it modulo 2^32.    *)
encodeVarInt(n) ==
    IF n % Limit = 0 THEN <<0>>
    ELSE LET o == digits[n % Limit]
         IN  [i \in DOMAIN o |-> IF i < Len(o) THEN o[i] + Radix ELSE o[i]]

encodeBound(b) == encodeVarInt(b.number) \o encodeVarInt(Len(b.id)) \o b.id

(* Mutant: the digits so far are not shifted. *)
pushUnshifted(byte) == (res + (byte % Radix)) % Limit

(* One turn of decodeVarInt's loop: (res << 7) | (byte & 127).  In the     *)
(* JavaScript port that is a signed integer.                               *)
push(byte) ==
    LET r == (res * Radix + (byte % Radix)) % Limit
    IN  IF port = "js" /\ 2 * r >= Limit THEN r - Limit ELSE r

-----------------------------------------------------------------------------
BoundOnWire == [number : Numbers, id : IdPrefixes]

Init ==
    /\ port \in {"cpp", "js"}
    /\ sent = <<>> /\ ends = <<0>> /\ encoded = <<>> /\ arrived = 0
    /\ phase = "writing"
    /\ res = 0 /\ number = 0 /\ got = <<>>

Write(b) ==
    /\ phase = "writing"
    /\ Len(sent) < MaxBounds
    /\ sent' = Append(sent, b)
    /\ encoded' = encoded \o encodeBound(b)
    /\ ends' = Append(ends, Len(encoded'))
    /\ UNCHANGED <<port, arrived, phase, res, number, got>>

Deliver(n) ==
    /\ phase = "writing"
    /\ encoded' = SubSeq(encoded, 1, n)
    /\ arrived' = n
    /\ phase' = "bound"
    /\ UNCHANGED <<port, sent, ends, res, number, got>>

(* while (query.size()): a message ends where a bound would begin.         *)
BeginBound ==
    /\ phase = "bound"
    /\ phase' = IF encoded = <<>> THEN "done" ELSE "number"
    /\ res' = 0
    /\ UNCHANGED <<port, sent, ends, encoded, arrived, number, got>>

decodeVarInt ==
    /\ phase \in {"number", "length"}
    /\ encoded # <<>>
    /\ encoded' = Tail(encoded)
    /\ LET n == push(Head(encoded))
       IN  IF Head(encoded) >= Radix
           THEN res' = n /\ UNCHANGED <<port, phase, number>>
           ELSE IF phase = "number"
           THEN phase' = "length" /\ number' = n /\ res' = 0
           ELSE phase' = "id" /\ res' = n /\ UNCHANGED number
    /\ UNCHANGED <<port, sent, ends, arrived, got>>

getBytes ==
    /\ phase = "id"
    /\ res <= Len(encoded)
    /\ got' = Append(got, [number |-> number, id |-> SubSeq(encoded, 1, res)])
    /\ encoded' = SubSeq(encoded, res + 1, Len(encoded))
    /\ phase' = "bound"
    /\ UNCHANGED <<port, sent, ends, arrived, res, number>>

(* Mutant: a bound whose bytes have run out is the end of the message. *)
EndsSilently ==
    /\ \/ phase \in {"number", "length"} /\ encoded = <<>>
       \/ phase = "id" /\ res > Len(encoded)
    /\ phase' = "done"
    /\ UNCHANGED <<port, sent, ends, encoded, arrived, res, number, got>>

(* "premature end of varint", "parse ends prematurely": reconcile throws.  *)
EndsPrematurely ==
    /\ \/ phase \in {"number", "length"} /\ encoded = <<>>
       \/ phase = "id" /\ res > Len(encoded)
    /\ phase' = "failed"
    /\ UNCHANGED <<port, sent, ends, encoded, arrived, res, number, got>>

Next ==
    \/ \E b \in BoundOnWire : Write(b)
    \/ \E n \in 0 .. Len(encoded) : Deliver(n)
    \/ BeginBound \/ decodeVarInt \/ getBytes \/ EndsPrematurely
    \/ phase \in {"done", "failed"} /\ UNCHANGED vars

Spec == Init /\ [][Next]_vars

-----------------------------------------------------------------------------
(* What the port can write and read: its integers are signed.              *)
Representable ==
    port = "js" => \A i \in DOMAIN sent : 2 * sent[i].number < Limit32

(* Types; what is read are bounds that somebody might have written.        *)
TypeOK ==
    /\ port \in {"cpp", "js"}
    /\ sent \in Seq(BoundOnWire)
    /\ encoded \in Seq(Byte)
    /\ ends \in Seq(Nat) /\ arrived \in Nat
    /\ phase \in {"writing", "bound", "number", "length", "id", "done", "failed"}
    /\ res \in Int /\ number \in Int
    /\ Representable => got \in Seq(BoundOnWire)

(* Bounds follow each other without separators, and the bytes of an ID may *)
(* look like a varint.  Wherever a message is cut, what the reader has     *)
(* decoded are the first bounds of the message and nothing else.           *)
ReadsWhatWasWritten == Representable => IsPrefix(got, sent)

(* The reader ends well only where a bound ends, with every byte that      *)
(* arrived, and throws only within a bound, the one after those it has     *)
(* read: it takes no cut message for a whole one, nor the other way round. *)
(* That holds for numbers the port cannot represent as well.               *)
NoticesTruncation ==
    /\ phase = "done" => arrived = ends[Len(got) + 1]
    /\ phase = "failed" =>
          ends[Len(got) + 1] < arrived /\ arrived < ends[Len(got) + 2]

(* js/README.md: "Timestamp values greater than `Number.MAX_VALUE` will    *)
(* currently cause failures".  Those of 2^31 and more do.                  *)
ReadsEveryNumber == IsPrefix(got, sent)
=============================================================================
