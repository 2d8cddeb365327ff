-------------------------- MODULE AccumulatorProofs --------------------------
(***************************************************************************)
(* Proofs about module Accumulator, for words of every size: addition is   *)
(* addition modulo Base^4, subtraction takes it back, and the accumulators *)
(* of the nodes are the sums of their items whatever happens to them.      *)
(***************************************************************************)
EXTENDS Accumulator, TLAPS

-----------------------------------------------------------------------------
(* Arithmetic.                                                             *)

(* A remainder is the only number of its range that differs by a multiple. *)
LEMMA RemainderUnique ==
    ASSUME NEW m \in Nat \ {0}, NEW r \in 0 .. m - 1, NEW k \in Int
    PROVE  (r + m * k) % m = r
  <1> DEFINE n == r + m * k
             q == n \div m
             s == n % m
  <1>1. n \in Int /\ m * k \in Int
    BY SMT
  <1>2. q \in Int /\ s \in 0 .. m - 1 /\ n = m * q + s
    BY <1>1, SMT
  <1>3. n = r + m * k
    OBVIOUS
  <1> HIDE DEF n, q, s
  <1>4. m * (k - q) = s - r
    <2>1. m * (k - q) = m * k - m * q
      BY <1>2, SMT
    <2> QED
      BY <1>1, <1>2, <1>3, <2>1, SMT
  <1>5. k - q = 0
    <2>1. CASE k - q >= 1
      <3>1. m * (k - q) >= m
        BY <1>2, <2>1, SMT
      <3> QED
        BY <1>2, <1>4, <3>1, SMT
    <2>2. CASE k - q <= -1
      <3>1. m * (k - q) <= -m
        BY <1>2, <2>2, SMT
      <3> QED
        BY <1>2, <1>4, <3>1, SMT
    <2> QED
      BY <1>2, <2>1, <2>2, SMT
  <1>6. s = r
    <2>1. m * (k - q) = 0
      BY <1>5, SMT
    <2> QED
      BY <1>2, <1>4, <2>1, SMT
  <1> QED
    BY <1>3, <1>6 DEF n, s

(* Every integer is its remainder and a multiple.                          *)
LEMMA Remainder ==
    ASSUME NEW m \in Nat \ {0}, NEW n \in Int
    PROVE  /\ n % m \in 0 .. m - 1
           /\ n \div m \in Int
           /\ n = (n % m) + m * (n \div m)
  BY SMT

(* Numbers that differ by a multiple have the same remainder.              *)
LEMMA SameRemainder ==
    ASSUME NEW m \in Nat \ {0}, NEW a \in Int, NEW k \in Int
    PROVE  (a + m * k) % m = a % m
  <1> DEFINE q == a \div m
             r == a % m
  <1>1. r \in 0 .. m - 1 /\ q \in Int /\ a = r + m * q
    BY Remainder
  <1> HIDE DEF q, r
  <1>2. m * q + m * k = m * (q + k)
    BY <1>1, SMT
  <1>3. m * q \in Int /\ m * k \in Int /\ q + k \in Int
    BY <1>1, SMT
  <1>4. a + m * k = r + m * (q + k)
    BY <1>1, <1>2, <1>3, SMT
  <1>5. (r + m * (q + k)) % m = r
    BY <1>1, <1>3, RemainderUnique
  <1> QED
    BY <1>4, <1>5 DEF r

(* Of a number below twice the modulus.                                    *)
LEMMA SmallRemainder ==
    ASSUME NEW m \in Nat \ {0}, NEW n \in 0 .. 2 * m - 1
    PROVE  n % m = IF n < m THEN n ELSE n - m
  <1>1. CASE n < m
    <2>1. n \in 0 .. m - 1 /\ n + m * 0 = n
      BY <1>1, SMT
    <2>2. (n + m * 0) % m = n
      BY <2>1, RemainderUnique
    <2> QED
      BY <1>1, <2>1, <2>2
  <1>2. CASE ~(n < m)
    <2>1. n - m \in 0 .. m - 1 /\ (n - m) + m * 1 = n
      BY <1>2, SMT
    <2>2. ((n - m) + m * 1) % m = n - m
      BY <2>1, RemainderUnique
    <2> QED
      BY <1>2, <2>1, <2>2
  <1> QED
    BY <1>1, <1>2

-----------------------------------------------------------------------------
(* Addition.                                                               *)

Carry == {0, 1}

(* One word: the two tests catch a carry exactly if there is one.          *)
LEMMA WordAddition ==
    ASSUME NEW x \in Word, NEW y \in Word, NEW c \in Carry
    PROVE  /\ next(x, y, c) \in Word
           /\ carryOut(x, y, c) \in Carry
           /\ next(x, y, c) + Base * carryOut(x, y, c) = x + y + c
  <1> DEFINE s == (x + c) % Base
             n == (s + y) % Base
  <1>1. /\ Base \in Nat \ {0} /\ Base >= 2
        /\ x \in 0 .. Base - 1 /\ y \in 0 .. Base - 1 /\ c \in 0 .. 1
    BY AccumulatorAssumption, SMT DEF Word, Carry
  <1>2. x + c \in 0 .. 2 * Base - 1
    BY <1>1, SMT
  <1>10. \A m \in 0 .. 2 * Base - 1 :
            m % Base = IF m < Base THEN m ELSE m - Base
    BY <1>1, SmallRemainder
  <1>3. s = IF x + c < Base THEN x + c ELSE x + c - Base
    <2> DEFINE m == x + c
    <2>1. m \in 0 .. 2 * Base - 1
      BY <1>2
    <2> HIDE DEF m
    <2>2. m % Base = IF m < Base THEN m ELSE m - Base
      BY <1>10, <2>1
    <2> QED
      BY <1>1, <2>2, SMT DEF m
  <1> HIDE DEF s
  <1>4. s \in 0 .. Base - 1 /\ s + y \in 0 .. 2 * Base - 1
    BY <1>1, <1>3, SMT
  <1>5. n = IF s + y < Base THEN s + y ELSE s + y - Base
    <2> DEFINE m == s + y
    <2>1. m \in 0 .. 2 * Base - 1
      BY <1>4
    <2> HIDE DEF m
    <2>2. m % Base = IF m < Base THEN m ELSE m - Base
      BY <1>10, <2>1
    <2> QED
      BY <1>1, <1>4, <2>2, SMT DEF m
  <1> HIDE DEF n
  <1>6. /\ next(x, y, c) = n
        /\ carryOut(x, y, c) = IF s < x \/ n < y THEN 1 ELSE 0
    BY DEF next, carryOut, n, s
  <1>7. n \in 0 .. Base - 1
    BY <1>1, <1>4, <1>5, SMT
  <1>8. CASE s < x \/ n < y
    <2>1. n + Base = x + y + c
      BY <1>1, <1>3, <1>4, <1>5, <1>8, SMT
    <2> QED
      BY <1>1, <1>6, <1>7, <1>8, <2>1, SMT DEF Word, Carry
  <1>9. CASE ~(s < x \/ n < y)
    <2>1. n = x + y + c
      BY <1>1, <1>3, <1>4, <1>5, <1>9, SMT
    <2> QED
      BY <1>1, <1>6, <1>7, <1>9, <2>1, SMT DEF Word, Carry
  <1> QED
    BY <1>8, <1>9

(* One word further, and as often as a carry says: products the provers   *)
(* need not look into.                                                     *)
Shift(n)    == Base * n
Times(n, k) == n * k

(* rs is the sum of xs, ys and the carry c, but for k times the modulus p. *)
SumOf(rs, p, k, xs, ys, c) ==
    /\ rs \in Int /\ p \in Int /\ k \in Int /\ xs \in Int /\ ys \in Int
    /\ c \in Int
    /\ rs + Times(p, k) = xs + ys + c

(* A word in front of two numbers, and its carry handed on to them.        *)
LEMMA WordInFront ==
    ASSUME NEW r, NEW d, NEW x, NEW y, NEW c,
           NEW rs, NEW p, NEW k, NEW xs, NEW ys,
           SumOf(r, Base, d, x, y, c),
           SumOf(rs, p, k, xs, ys, d)
    PROVE  SumOf(r + Shift(rs), Shift(p), k, x + Shift(xs), y + Shift(ys), c)
  <1>1. /\ Base \in Int
        /\ x \in Int /\ y \in Int /\ r \in Int /\ c \in Int /\ d \in Int
        /\ k \in Int /\ p \in Int /\ xs \in Int /\ ys \in Int /\ rs \in Int
        /\ r + Shift(d) = x + y + c
        /\ rs + Times(p, k) = xs + ys + d
    BY DEF SumOf, Shift, Times
  <1>2. /\ Shift(p) \in Int /\ Shift(rs) \in Int /\ Shift(xs) \in Int
        /\ Shift(ys) \in Int /\ Shift(d) \in Int /\ Times(p, k) \in Int
    BY <1>1, SMT DEF Shift, Times
  <1>3. Times(Shift(p), k) \in Int
    BY <1>1, <1>2, SMT DEF Times
  <1>4. Shift(rs + Times(p, k)) = Shift(rs) + Times(Shift(p), k)
    BY <1>1, SMT DEF Shift, Times
  <1>5. Shift(xs + ys + d) = Shift(xs) + Shift(ys) + Shift(d)
    BY <1>1, SMT DEF Shift
  <1>6. Shift(rs) + Times(Shift(p), k) = Shift(xs) + Shift(ys) + Shift(d)
    BY <1>1, <1>4, <1>5
  <1> QED
    BY <1>1, <1>2, <1>3, <1>6, SMT DEF SumOf

LEMMA ValueType ==
    ASSUME NEW a \in Buffer
    PROVE  Value(a) \in 0 .. Modulus - 1 /\ Modulus \in Nat \ {0}
  <1>1. /\ Base \in Nat /\ Base >= 2
        /\ a[1] \in 0 .. Base - 1 /\ a[2] \in 0 .. Base - 1
        /\ a[3] \in 0 .. Base - 1 /\ a[4] \in 0 .. Base - 1
    BY AccumulatorAssumption, SMT DEF Buffer, Word
  <1>2. ASSUME NEW p \in Nat \ {0}, NEW x \in 0 .. Base - 1, NEW xs \in 0 .. p - 1
        PROVE  x + Base * xs \in 0 .. Base * p - 1 /\ Base * p \in Nat \ {0}
    <2>1. Base * xs \in Nat /\ Base * p \in Nat
      BY <1>1, SMT
    <2>2. Base * (p - 1 - xs) \in Nat
      BY <1>1, SMT
    <2>3. Base * (p - 1 - xs) = Base * p - Base - Base * xs
      BY <1>1, SMT
    <2> QED
      BY <1>1, <2>1, <2>2, <2>3, SMT
  <1>3. Base \in Nat \ {0} /\ a[4] \in 0 .. Base - 1
    BY <1>1, SMT
  <1>4. /\ a[3] + Base * a[4] \in 0 .. Base * Base - 1
        /\ Base * Base \in Nat \ {0}
    BY <1>1, <1>2, <1>3
  <1>5. /\ a[2] + Base * (a[3] + Base * a[4]) \in 0 .. Base * (Base * Base) - 1
        /\ Base * (Base * Base) \in Nat \ {0}
    BY <1>1, <1>2, <1>4
  <1>6. /\ a[1] + Base * (a[2] + Base * (a[3] + Base * a[4]))
              \in 0 .. Base * (Base * (Base * Base)) - 1
        /\ Base * (Base * (Base * Base)) \in Nat \ {0}
    BY <1>1, <1>2, <1>5, Zenon
  <1> QED
    BY <1>6 DEF Value, Modulus

(* The four words: integer addition, less the carry out of the last one.   *)
LEMMA BufferAddition ==
    ASSUME NEW a \in Buffer, NEW b \in Buffer
    PROVE  /\ add(a, b) \in Buffer
           /\ \E k \in Carry :
                 Value(add(a, b)) + Modulus * k = Value(a) + Value(b)
  <1> DEFINE c1 == carryOut(a[1], b[1], 0)
             c2 == carryOut(a[2], b[2], c1)
             c3 == carryOut(a[3], b[3], c2)
             c4 == carryOut(a[4], b[4], c3)
             r1 == next(a[1], b[1], 0)
             r2 == next(a[2], b[2], c1)
             r3 == next(a[3], b[3], c2)
             r4 == next(a[4], b[4], c3)
  <1>1. /\ a[1] \in Word /\ a[2] \in Word /\ a[3] \in Word /\ a[4] \in Word
        /\ b[1] \in Word /\ b[2] \in Word /\ b[3] \in Word /\ b[4] \in Word
    BY SMT DEF Buffer
  <1>2. 0 \in Carry
    BY DEF Carry
  <1>3. r1 \in Word /\ c1 \in Carry /\ r1 + Base * c1 = a[1] + b[1] + 0
    BY <1>1, <1>2, WordAddition
  <1> HIDE DEF c1
  <1>4. r2 \in Word /\ c2 \in Carry /\ r2 + Base * c2 = a[2] + b[2] + c1
    BY <1>1, <1>3, WordAddition
  <1> HIDE DEF c2
  <1>5. r3 \in Word /\ c3 \in Carry /\ r3 + Base * c3 = a[3] + b[3] + c2
    BY <1>1, <1>4, WordAddition
  <1> HIDE DEF c3
  <1>6. r4 \in Word /\ c4 \in Carry /\ r4 + Base * c4 = a[4] + b[4] + c3
    BY <1>1, <1>5, WordAddition
  <1>7. add(a, b) = [i \in 1 .. 4 |-> CASE i = 1 -> r1 [] i = 2 -> r2
                                       [] i = 3 -> r3 [] i = 4 -> r4]
    BY DEF add, c1, c2, c3
  <1> HIDE DEF c4, r1, r2, r3, r4
  <1>8. /\ add(a, b)[1] = r1 /\ add(a, b)[2] = r2
        /\ add(a, b)[3] = r3 /\ add(a, b)[4] = r4
    BY <1>7, SMT
  <1>9. add(a, b) \in Buffer
    BY <1>3, <1>4, <1>5, <1>6, <1>7, SMT DEF Buffer
  <1>10. /\ Base \in Int /\ 0 \in Int
         /\ c1 \in Int /\ c2 \in Int /\ c3 \in Int /\ c4 \in Int
         /\ r1 \in Int /\ r2 \in Int /\ r3 \in Int /\ r4 \in Int
    BY <1>3, <1>4, <1>5, <1>6, AccumulatorAssumption, SMT DEF Word, Carry
  <1>11. /\ a[1] \in Int /\ a[2] \in Int /\ a[3] \in Int /\ a[4] \in Int
         /\ b[1] \in Int /\ b[2] \in Int /\ b[3] \in Int /\ b[4] \in Int
    BY <1>1, AccumulatorAssumption, SMT DEF Word
  <1> DEFINE x3 == a[3] + Shift(a[4])
             y3 == b[3] + Shift(b[4])
             s3 == r3 + Shift(r4)
             p3 == Shift(Base)
             x2 == a[2] + Shift(x3)
             y2 == b[2] + Shift(y3)
             s2 == r2 + Shift(s3)
             p2 == Shift(p3)
             x1 == a[1] + Shift(x2)
             y1 == b[1] + Shift(y2)
             s1 == r1 + Shift(s2)
             p1 == Shift(p2)
  <1>12. /\ SumOf(r1, Base, c1, a[1], b[1], 0)
         /\ SumOf(r2, Base, c2, a[2], b[2], c1)
         /\ SumOf(r3, Base, c3, a[3], b[3], c2)
         /\ SumOf(r4, Base, c4, a[4], b[4], c3)
    BY <1>3, <1>4, <1>5, <1>6, <1>10, <1>11 DEF SumOf, Times
  <1>13. SumOf(s3, p3, c4, x3, y3, c2)
    BY <1>12, WordInFront
  <1>14. SumOf(s2, p2, c4, x2, y2, c1)
    BY <1>12, <1>13, WordInFront
  <1>15. SumOf(s1, p1, c4, x1, y1, 0)
    BY <1>12, <1>14, WordInFront
  <1>16. /\ Value(a) = x1 /\ Value(b) = y1 /\ Modulus = p1
    BY DEF Value, Modulus, Shift, x1, y1, p1, x2, y2, p2, x3, y3, p3
  <1>17. Value(add(a, b)) = s1
    BY <1>8 DEF Value, Shift, s1, s2, s3
  <1>18. Value(a) \in Int /\ Value(b) \in Int
    BY ValueType, SMT
  <1> QED
    <2> HIDE DEF s1, p1, x1, y1
    <2>1. Value(add(a, b)) + Modulus * c4 = Value(a) + Value(b) + 0
      BY <1>15, <1>16, <1>17 DEF SumOf, Times
    <2> QED
      BY <1>6, <1>9, <1>18, <2>1, SMT

-----------------------------------------------------------------------------
(* Subtraction.                                                            *)

LEMMA ComplementInFront ==
    ASSUME NEW x \in Int, NEW xs \in Int, NEW p \in Int
    PROVE  (Base - 1 - x) + Shift(p - 1 - xs) = Shift(p) - 1 - (x + Shift(xs))
  <1>1. Base \in Int
    BY AccumulatorAssumption, SMT
  <1>2. Shift(p - 1 - xs) = Shift(p) - Base - Shift(xs)
    BY <1>1, SMT DEF Shift
  <1>3. Shift(p) \in Int /\ Shift(xs) \in Int
    BY <1>1, SMT DEF Shift
  <1> QED
    BY <1>1, <1>2, <1>3, SMT

LEMMA Complement ==
    ASSUME NEW a \in Buffer
    PROVE  /\ complement(a) \in Buffer
           /\ Value(complement(a)) = Modulus - 1 - Value(a)
  <1>1. /\ Base \in Int /\ Base \in Nat
        /\ a[1] \in Word /\ a[2] \in Word /\ a[3] \in Word /\ a[4] \in Word
        /\ a[1] \in Int /\ a[2] \in Int /\ a[3] \in Int /\ a[4] \in Int
    BY AccumulatorAssumption, SMT DEF Buffer, Word
  <1>2. /\ complement(a)[1] = Base - 1 - a[1]
        /\ complement(a)[2] = Base - 1 - a[2]
        /\ complement(a)[3] = Base - 1 - a[3]
        /\ complement(a)[4] = Base - 1 - a[4]
    BY SMT DEF complement
  <1>3. ASSUME NEW i \in 1 .. 4
        PROVE  Base - 1 - a[i] \in Word
    <2>1. a[i] \in 0 .. Base - 1
      BY DEF Buffer, Word
    <2> QED
      BY <1>1, <2>1, SMT DEF Word
  <1>4. complement(a) \in Buffer
    BY <1>3 DEF complement, Buffer
  <1> DEFINE x3 == a[3] + Shift(a[4])
             x2 == a[2] + Shift(x3)
             x1 == a[1] + Shift(x2)
             p2 == Shift(Base)
             p3 == Shift(p2)
             p4 == Shift(p3)
  <1>5. /\ x3 \in Int /\ x2 \in Int /\ p2 \in Int /\ p3 \in Int
    <2>1. \A n \in Int : Shift(n) \in Int
      BY <1>1, SMT DEF Shift
    <2> QED
      BY <1>1, <2>1, SMT
  <1>6. (Base - 1 - a[3]) + Shift(Base - 1 - a[4]) = p2 - 1 - x3
    BY <1>1, ComplementInFront
  <1>7. (Base - 1 - a[2]) + Shift(p2 - 1 - x3) = p3 - 1 - x2
    <2>1. a[2] \in Int /\ x3 \in Int /\ p2 \in Int
      BY <1>1, <1>5
    <2> HIDE DEF x3, p2
    <2> QED
      BY <2>1, ComplementInFront
  <1>8. (Base - 1 - a[1]) + Shift(p3 - 1 - x2) = p4 - 1 - x1
    <2>1. a[1] \in Int /\ x2 \in Int /\ p3 \in Int
      BY <1>1, <1>5
    <2> HIDE DEF x2, p3
    <2> QED
      BY <2>1, ComplementInFront
  <1>9. Value(a) = x1 /\ Modulus = p4
    BY DEF Value, Modulus, Shift
  <1>10. Value(complement(a)) =
            (Base - 1 - a[1]) + Shift((Base - 1 - a[2])
                + Shift((Base - 1 - a[3]) + Shift(Base - 1 - a[4])))
    BY <1>2 DEF Value, Shift
  <1> QED
    <2> HIDE DEF x1, x2, x3, p2, p3, p4
    <2> QED
      BY <1>4, <1>6, <1>7, <1>8, <1>9, <1>10

-----------------------------------------------------------------------------
(* A buffer stands for the integers that differ from it by multiples of    *)
(* the modulus; additions and subtractions keep what buffers stand for.    *)
StandsFor(a, n) ==
    /\ a \in Buffer
    /\ n \in Int
    /\ \E k \in Int : n = Value(a) + Times(Modulus, k)

LEMMA TimesType ==
    ASSUME NEW k \in Int
    PROVE  Times(Modulus, k) \in Int
  <1>1. Modulus \in Int
    <2>1. Base \in Int
      BY AccumulatorAssumption, SMT
    <2>2. Base * Base \in Int
      BY <2>1, SMT
    <2>3. Base * (Base * Base) \in Int
      BY <2>1, <2>2, SMT
    <2> QED
      BY <2>1, <2>3, SMT DEF Modulus
  <1> HIDE DEF Modulus
  <1> QED
    BY <1>1, SMT DEF Times

LEMMA ModulusType == Modulus \in Nat \ {0} /\ Base \in Nat
  <1>1. Base \in Nat /\ Base >= 2
    BY AccumulatorAssumption
  <1>2. [i \in 1 .. 4 |-> 0] \in Buffer
    BY <1>1, SMT DEF Buffer, Word
  <1> QED
    BY <1>1, <1>2, ValueType

(* What a buffer stands for, modulo 2^256, is the buffer.                  *)
LEMMA StandsForValue ==
    ASSUME NEW a, NEW n, StandsFor(a, n)
    PROVE  Value(a) = n % Modulus
  <1>1. PICK k \in Int : n = Value(a) + Times(Modulus, k)
    BY DEF StandsFor
  <1>2. Value(a) \in 0 .. Modulus - 1 /\ Modulus \in Nat \ {0}
    BY ValueType DEF StandsFor
  <1>3. (Value(a) + Modulus * k) % Modulus = Value(a)
    BY <1>2, RemainderUnique
  <1> QED
    BY <1>1, <1>3 DEF Times

LEMMA TimesDistributes ==
    ASSUME NEW j \in Int, NEW k \in Int
    PROVE  /\ Times(Modulus, j + k) = Times(Modulus, j) + Times(Modulus, k)
           /\ Times(Modulus, j - k) = Times(Modulus, j) - Times(Modulus, k)
  <1>1. Modulus \in Int
    BY ModulusType, SMT
  <1> HIDE DEF Modulus
  <1> QED
    BY <1>1, SMT DEF Times

LEMMA AddStandsFor ==
    ASSUME NEW a, NEW m, StandsFor(a, m),
           NEW b, NEW n, StandsFor(b, n)
    PROVE  StandsFor(add(a, b), m + n)
  <1>1. a \in Buffer /\ b \in Buffer /\ m \in Int /\ n \in Int
    BY DEF StandsFor
  <1>2. PICK j \in Int : m = Value(a) + Times(Modulus, j)
    BY DEF StandsFor
  <1>3. PICK k \in Int : n = Value(b) + Times(Modulus, k)
    BY DEF StandsFor
  <1>4. add(a, b) \in Buffer
    BY <1>1, BufferAddition
  <1>5. PICK c \in Carry :
            Value(add(a, b)) + Times(Modulus, c) = Value(a) + Value(b)
    BY <1>1, BufferAddition DEF Times
  <1>6. c \in Int /\ j + k \in Int /\ j + k + c \in Int
    BY SMT DEF Carry
  <1>7. /\ Value(a) \in Int /\ Value(b) \in Int
        /\ Value(add(a, b)) \in Int
    BY <1>1, <1>4, ValueType, SMT
  <1>8. Times(Modulus, j + k + c)
            = Times(Modulus, j) + Times(Modulus, k) + Times(Modulus, c)
    BY <1>6, TimesDistributes
  <1>9. /\ Times(Modulus, j) \in Int /\ Times(Modulus, k) \in Int
        /\ Times(Modulus, c) \in Int
    BY <1>6, TimesType
  <1>10. m + n = Value(add(a, b)) + Times(Modulus, j + k + c)
    BY <1>2, <1>3, <1>5, <1>7, <1>8, <1>9, SMT
  <1> QED
    BY <1>1, <1>4, <1>6, <1>10, SMT DEF StandsFor

LEMMA NegateStandsFor ==
    ASSUME NEW b, NEW n, StandsFor(b, n)
    PROVE  StandsFor(negate(b), -n)
  <1>1. b \in Buffer /\ n \in Int
    BY DEF StandsFor
  <1>2. PICK k \in Int : n = Value(b) + Times(Modulus, k)
    BY DEF StandsFor
  <1>3. one \in Buffer /\ Value(one) = 1
    <2>1. Base \in Nat /\ Base >= 2
      BY AccumulatorAssumption
    <2>2. one \in Buffer
      BY <2>1, SMT DEF one, Buffer, Word
    <2>3. one[1] = 1 /\ one[2] = 0 /\ one[3] = 0 /\ one[4] = 0
      BY SMT DEF one
    <2> QED
      BY <2>1, <2>2, <2>3, SMT DEF Value
  <1>4. /\ complement(b) \in Buffer
        /\ Value(complement(b)) = Modulus - 1 - Value(b)
    BY <1>1, Complement
  <1>5. /\ Value(b) \in Int /\ Modulus \in Int
        /\ Times(Modulus, k) \in Int
    BY <1>1, ValueType, ModulusType, TimesType, SMT
  <1>6. /\ Times(Modulus, -1 - k) = -Modulus - Times(Modulus, k)
        /\ Times(Modulus, 0) = 0
    <2>1. Modulus * (-1 - k) = -Modulus - Modulus * k /\ Modulus * 0 = 0
      <3> HIDE DEF Modulus
      <3> QED
        BY <1>5, SMT
    <2> QED
      BY <2>1 DEF Times
  <1>7. StandsFor(complement(b), -n - 1)
    <2>1. -n - 1 = Value(complement(b)) + Times(Modulus, -1 - k)
      BY <1>1, <1>2, <1>4, <1>5, <1>6, SMT
    <2>2. -n - 1 \in Int /\ -1 - k \in Int
      BY <1>1, SMT
    <2> QED
      BY <1>4, <2>1, <2>2 DEF StandsFor
  <1>8. StandsFor(one, 1)
    <2>1. 1 = Value(one) + Times(Modulus, 0)
      BY <1>3, <1>6, SMT
    <2> QED
      BY <1>3, <2>1, SMT DEF StandsFor
  <1>9. StandsFor(negate(b), (-n - 1) + 1)
    BY <1>7, <1>8, AddStandsFor DEF negate
  <1>10. (-n - 1) + 1 = -n
    BY <1>1, SMT
  <1> QED
    BY <1>9, <1>10

LEMMA SubStandsFor ==
    ASSUME NEW a, NEW m, StandsFor(a, m),
           NEW b, NEW n, StandsFor(b, n)
    PROVE  StandsFor(sub(a, b), m - n)
  <1>1. StandsFor(add(a, negate(b)), m + (-n))
    BY NegateStandsFor, AddStandsFor
  <1>2. m + (-n) = m - n
    BY SMT DEF StandsFor
  <1> QED
    BY <1>1, <1>2 DEF sub

LEMMA ZeroStandsFor == StandsFor(zero, 0)
  <1>1. Base \in Nat /\ Base >= 2
    BY AccumulatorAssumption
  <1>2. zero \in Buffer
    BY <1>1, SMT DEF zero, Buffer, Word
  <1>3. Value(zero) = 0
    <2>1. zero[1] = 0 /\ zero[2] = 0 /\ zero[3] = 0 /\ zero[4] = 0
      BY SMT DEF zero
    <2> QED
      BY <1>1, <2>1, SMT DEF Value
  <1>4. Times(Modulus, 0) = 0
    BY ModulusType, SMT DEF Times
  <1>5. 0 = Value(zero) + Times(Modulus, 0)
    BY <1>3, <1>4, SMT
  <1> QED
    BY <1>2, <1>5, SMT DEF StandsFor

LEMMA BufferStandsFor ==
    ASSUME NEW a \in Buffer
    PROVE  StandsFor(a, Value(a))
  <1>1. Value(a) \in Int
    BY ValueType, SMT
  <1>2. Times(Modulus, 0) = 0
    BY ModulusType, SMT DEF Times
  <1>3. Value(a) = Value(a) + Times(Modulus, 0)
    BY <1>1, <1>2, SMT
  <1> QED
    BY <1>1, <1>3, SMT DEF StandsFor

LEMMA IdStandsFor ==
    ASSUME NEW id \in Ids
    PROVE  StandsFor(id, Value(id))
  BY AccumulatorAssumption, BufferStandsFor

-----------------------------------------------------------------------------
(* The accumulators of the nodes.                                          *)

(* Inductive: a remainder alone would not say that the buffers are ones.   *)
Sums ==
    /\ TypeOK
    /\ \A n \in Nodes : StandsFor(accum[n], total[n])

LEMMA InitSums == Init => Sums
  <1> SUFFICES ASSUME Init PROVE Sums
    OBVIOUS
  <1>1. zero \in Buffer
    BY ZeroStandsFor DEF StandsFor
  <1>2. TypeOK
    BY <1>1, SMT DEF Init, TypeOK
  <1> QED
    BY <1>2, ZeroStandsFor DEF Init, Sums

(* A call gives each node a buffer that stands for its new total.          *)
LEMMA CallSums ==
    ASSUME Sums, Call
    PROVE  /\ accum' = [n \in Nodes |-> accum'[n]]
           /\ total' = [n \in Nodes |-> total'[n]]
           /\ \A n \in Nodes : StandsFor(accum'[n], total'[n])
  <1>1. /\ accum \in [Nodes -> Buffer] /\ total \in [Nodes -> Int]
        /\ \A n \in Nodes : StandsFor(accum[n], total[n])
    BY DEF Sums, TypeOK
  <1>2. CASE \E n \in Nodes, id \in Ids : AddItem(n, id)
    <2>1. PICK n \in Nodes, id \in Ids : AddItem(n, id)
      BY <1>2
    <2>2. StandsFor(add(accum[n], id), total[n] + Value(id))
      BY <1>1, IdStandsFor, AddStandsFor
    <2> QED
      BY <1>1, <2>1, <2>2 DEF AddItem
  <1>3. CASE \E n \in Nodes, id \in Ids : SubItem(n, id)
    <2>1. PICK n \in Nodes, id \in Ids : SubItem(n, id)
      BY <1>3
    <2>2. StandsFor(sub(accum[n], id), total[n] - Value(id))
      BY <1>1, IdStandsFor, SubStandsFor
    <2> QED
      BY <1>1, <2>1, <2>2 DEF SubItem
  <1>4. CASE \E from, to \in Nodes, id \in Ids : Move(from, to, id)
    <2>1. PICK from \in Nodes, to \in Nodes, id \in Ids : Move(from, to, id)
      BY <1>4
    <2> DEFINE moving == add(zero, id)
    <2>2. StandsFor(moving, Value(id))
      <3>1. StandsFor(moving, 0 + Value(id))
        BY ZeroStandsFor, IdStandsFor, AddStandsFor
      <3>2. 0 + Value(id) = Value(id)
        BY IdStandsFor, SMT DEF StandsFor
      <3> QED
        BY <3>1, <3>2
    <2> HIDE DEF moving
    <2>3. /\ StandsFor(sub(accum[from], moving), total[from] - Value(id))
          /\ StandsFor(add(accum[to], moving), total[to] + Value(id))
      BY <1>1, <2>2, AddStandsFor, SubStandsFor
    <2>4. /\ from # to
          /\ accum' = [accum EXCEPT ![from] = sub(@, moving),
                                    ![to] = add(@, moving)]
          /\ total' = [total EXCEPT ![from] = @ - Value(id),
                                    ![to] = @ + Value(id)]
      BY <2>1 DEF Move, moving
    <2> QED
      BY <1>1, <2>3, <2>4
  <1>5. CASE \E from, to \in Nodes : Merge(from, to)
    <2>1. PICK from \in Nodes, to \in Nodes : Merge(from, to)
      BY <1>5
    <2>2. StandsFor(add(accum[to], accum[from]), total[to] + total[from])
      BY <1>1, AddStandsFor
    <2> QED
      BY <1>1, <2>1, <2>2, ZeroStandsFor DEF Merge
  <1> QED
    BY <1>2, <1>3, <1>4, <1>5 DEF Call

LEMMA NextSums == Sums /\ [Next]_vars => Sums'
  <1> SUFFICES ASSUME Sums, [Next]_vars PROVE Sums'
    OBVIOUS
  <1>1. CASE UNCHANGED vars
    BY <1>1 DEF vars, Sums, TypeOK
  <1>2. CASE ops < MaxOps /\ Call /\ ops' = ops + 1
    <2>1. /\ accum' = [n \in Nodes |-> accum'[n]]
          /\ total' = [n \in Nodes |-> total'[n]]
          /\ \A n \in Nodes : StandsFor(accum'[n], total'[n])
      BY <1>2, CallSums
    <2>2. \A n \in Nodes : accum'[n] \in Buffer /\ total'[n] \in Int
      BY <2>1 DEF StandsFor
    <2>3. ops' \in Nat
      BY <1>2, SMT DEF Sums, TypeOK
    <2>4. TypeOK'
      BY <2>1, <2>2, <2>3 DEF TypeOK
    <2> QED
      BY <2>1, <2>4 DEF Sums
  <1> QED
    BY <1>1, <1>2 DEF Next

(* At every moment the accumulator of a node, read as an integer, is the   *)
(* sum of what was added to it less what was taken away, modulo            *)
(* Base^4 = 2^256: addition, negation and subtraction of buffers, with the *)
(* carries between their words, lose nothing.                              *)
THEOREM AccumulatorCorrect == Spec => [](TypeOK /\ SumOfIds)
  <1>1. Sums => TypeOK /\ SumOfIds
    BY StandsForValue DEF Sums, SumOfIds
  <1> QED
    BY <1>1, InitSums, NextSums, PTL DEF Spec

(* A number tells its lowest word from the others.                         *)
LEMMA WordAndRest ==
    ASSUME NEW x \in Word, NEW y \in Word, NEW xs \in Int, NEW ys \in Int,
           x + Shift(xs) = y + Shift(ys)
    PROVE  x = y /\ xs = ys
  <1>1. Base \in Nat \ {0} /\ x \in 0 .. Base - 1 /\ y \in 0 .. Base - 1
    BY AccumulatorAssumption, SMT DEF Word
  <1>2. (x + Base * xs) % Base = x /\ (y + Base * ys) % Base = y
    BY <1>1, RemainderUnique
  <1>3. x = y
    BY <1>2 DEF Shift
  <1>4. Base * xs \in Int /\ Base * ys \in Int
    BY <1>1, SMT
  <1>5. Base * xs = Base * ys
    BY <1>1, <1>3, <1>4, SMT DEF Shift
  <1>6. xs = ys
    <2>1. CASE xs > ys
      <3>1. Base * (xs - ys) >= 1 /\ Base * (xs - ys) = Base * xs - Base * ys
        BY <1>1, <2>1, SMT
      <3> QED
        BY <1>4, <1>5, <3>1, SMT
    <2>2. CASE ys > xs
      <3>1. Base * (ys - xs) >= 1 /\ Base * (ys - xs) = Base * ys - Base * xs
        BY <1>1, <2>2, SMT
      <3> QED
        BY <1>4, <1>5, <3>1, SMT
    <2> QED
      BY <2>1, <2>2, SMT
  <1> QED
    BY <1>3, <1>6

(* No two buffers have the same value.                                     *)
LEMMA ValueInjective ==
    ASSUME NEW a \in Buffer, NEW b \in Buffer, Value(a) = Value(b)
    PROVE  a = b
  <1>1. /\ a[1] \in Word /\ a[2] \in Word /\ a[3] \in Word /\ a[4] \in Word
        /\ b[1] \in Word /\ b[2] \in Word /\ b[3] \in Word /\ b[4] \in Word
        /\ a[4] \in Int /\ b[4] \in Int
    BY AccumulatorAssumption, SMT DEF Buffer, Word
  <1> DEFINE a3 == a[3] + Shift(a[4])
             b3 == b[3] + Shift(b[4])
             a2 == a[2] + Shift(a3)
             b2 == b[2] + Shift(b3)
  <1>2. \A w \in Word, n \in Int : w + Shift(n) \in Int
    BY AccumulatorAssumption, SMT DEF Word, Shift
  <1>3. a3 \in Int /\ b3 \in Int
    BY <1>1, <1>2
  <1>4. a2 \in Int /\ b2 \in Int
    BY <1>1, <1>2, <1>3
  <1>5. a[1] + Shift(a2) = b[1] + Shift(b2)
    BY DEF Value, Shift
  <1>6. a[1] = b[1] /\ a2 = b2
    <2> HIDE DEF a2, b2
    <2> QED
      BY <1>1, <1>4, <1>5, WordAndRest
  <1>7. a[2] = b[2] /\ a3 = b3
    <2> HIDE DEF a3, b3
    <2> QED
      BY <1>1, <1>3, <1>6, WordAndRest
  <1>8. a[3] = b[3] /\ a[4] = b[4]
    BY <1>1, <1>7, WordAndRest
  <1> QED
    BY <1>6, <1>7, <1>8, SMT DEF Buffer

(* Subtraction undoes addition, bit for bit: an item inserted and erased   *)
(* again leaves the accumulators above it as they were.                    *)
THEOREM SubUndoesAdd ==
    ASSUME NEW a \in Buffer, NEW b \in Buffer
    PROVE  sub(add(a, b), b) = a
  <1>1. /\ StandsFor(a, Value(a)) /\ StandsFor(b, Value(b))
        /\ Value(a) \in Int /\ Value(b) \in Int
    BY BufferStandsFor, ValueType, SMT
  <1>2. StandsFor(add(a, b), Value(a) + Value(b))
    BY <1>1, AddStandsFor
  <1>3. StandsFor(sub(add(a, b), b), (Value(a) + Value(b)) - Value(b))
    BY <1>1, <1>2, SubStandsFor
  <1>4. (Value(a) + Value(b)) - Value(b) = Value(a)
    BY <1>1, SMT
  <1>5. Value(sub(add(a, b), b)) = Value(a)
    BY <1>1, <1>3, <1>4, StandsForValue
  <1>6. sub(add(a, b), b) \in Buffer
    BY <1>3 DEF StandsFor
  <1> QED
    BY <1>5, <1>6, ValueInjective
=============================================================================
