--------------------------- MODULE EncodingProofs ---------------------------
(***************************************************************************)
(* Encoding, for every radix, width and set of bounds: digits are decoded  *)
(* to the number they were made of, and a reader that takes a message      *)
(* apart byte by byte, wherever it was cut, finds the bounds in it.        *)
(***************************************************************************)
EXTENDS Encoding, WellFoundedInduction, TLAPS

-----------------------------------------------------------------------------
(* Numbers.                                                                *)

LEMMA LeastNumber ==
    ASSUME NEW T, T \subseteq Nat, T # {}
    PROVE  \E m \in T : \A k \in T : m <= k
  <1> DEFINE R == OpToRel(<, Nat)
  <1>1. IsWellFoundedOn(R, Nat)
    BY NatLessThanWellFounded
  <1>2. \A x, y \in Nat : x < y => <<x, y>> \in R
    BY SMT DEF OpToRel
  <1> HIDE DEF R
  <1>3. PICK m \in T : \A k \in T : ~(<<k, m>> \in R)
    BY <1>1, WFMin
  <1>4. ASSUME NEW k \in T
        PROVE  m <= k
    <2>1. m \in Nat /\ k \in Nat
      OBVIOUS
    <2>2. ~(k < m)
      BY <1>2, <1>3, <2>1
    <2> QED
      BY <2>1, <2>2, SMT
  <1> QED
    BY <1>4

LEMMA Widths ==
    /\ Radix \in Nat /\ Radix >= 2
    /\ Limit32 \in Nat /\ Limit64 \in Nat /\ Limit64 > Limit32 /\ Limit32 >= 2
    /\ Limit \in Nat /\ Limit >= 2
    /\ \A id \in IdPrefixes : id \in Seq(Byte) /\ 2 * Len(id) < Limit32
    /\ \A n \in Numbers : n \in Nat /\ n < Limit64
  BY EncodingAssumption DEF Limit

(* A number is its last digit and the rest.                                *)
LEMMA LastDigit ==
    ASSUME NEW n \in Nat
    PROVE  /\ n % Radix \in 0 .. Radix - 1
           /\ n \div Radix \in Nat
           /\ n = (n \div Radix) * Radix + (n % Radix)
           /\ n # 0 => n \div Radix < n
  <1>1. /\ n % Radix \in 0 .. Radix - 1
        /\ n \div Radix \in Nat
        /\ n = (n \div Radix) * Radix + (n % Radix)
    BY Widths, SMT
  <1>2. ASSUME n # 0 PROVE n \div Radix < n
    <2> DEFINE q == n \div Radix
    <2>1. q \in Nat /\ n >= q * Radix
      BY <1>1, Widths, SMT
    <2>2. q * Radix >= 2 * q
      <3> HIDE DEF q
      <3> QED
        BY <2>1, Widths, SMT
    <2> HIDE DEF q
    <2>3. q < n
      BY <1>2, <2>1, <2>2, Widths, SMT
    <2> QED
      BY <2>3 DEF q
  <1> QED
    BY <1>1, <1>2

LEMMA Remains ==
    ASSUME NEW l \in Nat, NEW n \in Nat, n < l
    PROVE  n % l = n
  BY SMT

-----------------------------------------------------------------------------
(* The digits of a number.                                                 *)

(* The recursion, over the numbers up to one of them.                      *)
DigitsUpTo(h, n) ==
    /\ h[0] = <<>>
    /\ \A i \in 1 .. n : h[i] = Append(h[i \div Radix], i % Radix)

LEMMA DigitsExist ==
    ASSUME NEW n \in Nat
    PROVE  \E h : DigitsUpTo(h, n)
  <1> DEFINE T == {m \in Nat : \A h : ~DigitsUpTo(h, m)}
  <1>1. SUFFICES ASSUME T # {} PROVE FALSE
    OBVIOUS
  <1>2. PICK m \in T : \A k \in T : m <= k
    BY <1>1, LeastNumber
  <1>3. m \in Nat /\ \A h : ~DigitsUpTo(h, m)
    BY <1>2
  <1>4. m # 0
    <2> DEFINE h == [i \in {0} |-> <<>>]
    <2>1. DigitsUpTo(h, 0)
      BY DEF DigitsUpTo
    <2> QED
      BY <1>3, <2>1
  <1>5. m - 1 \in Nat /\ ~(m <= m - 1)
    BY <1>3, <1>4, SMT
  <1>6. PICK h : DigitsUpTo(h, m - 1)
    BY <1>2, <1>5
  <1> DEFINE g == [i \in 0 .. m |->
                     IF i = m THEN Append(h[m \div Radix], m % Radix)
                     ELSE h[i]]
  <1>7. DigitsUpTo(g, m)
    <2>1. 0 \in 0 .. m /\ g[0] = <<>>
      BY <1>3, <1>4, <1>6, SMT DEF DigitsUpTo
    <2>2. ASSUME NEW i \in 1 .. m
          PROVE  g[i] = Append(g[i \div Radix], i % Radix)
      <3>1. i \in Nat /\ i # 0 /\ i \in 0 .. m
        BY <1>3, SMT
      <3>2. i \div Radix \in 0 .. m /\ i \div Radix # m
        <4>1. i \div Radix \in Nat /\ i \div Radix < i
          BY <3>1, LastDigit
        <4> QED
          BY <1>3, <3>1, <4>1, SMT
      <3>3. g[i \div Radix] = h[i \div Radix]
        BY <3>2
      <3>4. CASE i = m
        BY <3>1, <3>3, <3>4
      <3>5. CASE i # m
        <4>1. i \in 1 .. m - 1
          BY <1>3, <3>1, <3>5, SMT
        <4>2. h[i] = Append(h[i \div Radix], i % Radix)
          BY <1>6, <4>1 DEF DigitsUpTo
        <4> QED
          BY <3>1, <3>3, <3>5, <4>2
      <3> QED
        BY <3>4, <3>5
    <2> QED
      BY <2>1, <2>2 DEF DigitsUpTo
  <1> QED
    BY <1>3, <1>7

LEMMA DigitsAgree ==
    ASSUME NEW g, NEW h, NEW m \in Nat, NEW n \in Nat,
           DigitsUpTo(g, m), DigitsUpTo(h, n),
           NEW i \in Nat, i <= m, i <= n
    PROVE  g[i] = h[i]
  <1> DEFINE T == {k \in Nat : k <= m /\ k <= n /\ g[k] # h[k]}
  <1>1. SUFFICES ASSUME T # {} PROVE FALSE
    OBVIOUS
  <1>2. PICK j \in T : \A k \in T : j <= k
    BY <1>1, LeastNumber
  <1>3. j \in Nat /\ j <= m /\ j <= n /\ g[j] # h[j]
    BY <1>2
  <1>4. j # 0
    BY <1>3 DEF DigitsUpTo
  <1>5. j \in 1 .. m /\ j \in 1 .. n
    BY <1>3, <1>4, SMT
  <1>6. j \div Radix \in Nat /\ j \div Radix < j
    BY <1>3, <1>4, LastDigit
  <1>7. j \div Radix <= m /\ j \div Radix <= n /\ ~(j <= j \div Radix)
    BY <1>3, <1>6, SMT
  <1>8. g[j \div Radix] = h[j \div Radix]
    BY <1>2, <1>6, <1>7
  <1>9. /\ g[j] = Append(g[j \div Radix], j % Radix)
        /\ h[j] = Append(h[j \div Radix], j % Radix)
    BY <1>5 DEF DigitsUpTo
  <1> QED
    BY <1>3, <1>8, <1>9

LEMMA Digits ==
    /\ digits[0] = <<>>
    /\ \A n \in Nat \ {0} :
          digits[n] = Append(digits[n \div Radix], n % Radix)
  <1> DEFINE step(h) == [n \in Nat |->
                           IF n = 0 THEN <<>>
                           ELSE Append(h[n \div Radix], n % Radix)]
             upTo(n) == CHOOSE h : DigitsUpTo(h, n)
             g == [n \in Nat |-> upTo(n)[n]]
  <1>1. digits = CHOOSE h : h = step(h)
    BY DEF digits
  <1>2. ASSUME NEW n \in Nat PROVE DigitsUpTo(upTo(n), n)
    BY DigitsExist
  <1> HIDE DEF upTo
  <1>3. g = step(g)
    <2>1. ASSUME NEW n \in Nat PROVE g[n] = step(g)[n]
      <3>1. CASE n = 0
        <4>1. upTo(0)[0] = <<>>
          BY <1>2 DEF DigitsUpTo
        <4> QED
          BY <3>1, <4>1
      <3>2. CASE n # 0
        <4>1. n \in 1 .. n
          BY <3>2, SMT
        <4>2. upTo(n)[n] = Append(upTo(n)[n \div Radix], n % Radix)
          BY <1>2, <4>1 DEF DigitsUpTo
        <4> DEFINE q == n \div Radix
        <4>3. q \in Nat /\ q < n
          BY <3>2, LastDigit
        <4>4. q <= n /\ q <= q
          BY <4>3, SMT
        <4>5. upTo(n)[q] = upTo(q)[q]
          BY <1>2, <4>3, <4>4, DigitsAgree
        <4>6. g[q] = upTo(q)[q] /\ g[n] = upTo(n)[n]
          BY <4>3
        <4> QED
          BY <3>2, <4>2, <4>5, <4>6
      <3> QED
        BY <3>1, <3>2
    <2> QED
      BY <2>1
  <1> HIDE DEF g
  <1>4. digits = step(digits)
    <2> HIDE DEF step
    <2> QED
      BY <1>1, <1>3
  <1> QED
    BY <1>4

Digit == 0 .. Radix - 1

LEMMA DigitsType ==
    ASSUME NEW n \in Nat
    PROVE  /\ digits[n] \in Seq(Digit) /\ Len(digits[n]) \in Nat
           /\ n # 0 => Len(digits[n]) > 0
  <1> DEFINE T == {k \in Nat : digits[k] \notin Seq(Digit)}
  <1>1. ASSUME T # {} PROVE FALSE
    <2>1. PICK j \in T : \A k \in T : j <= k
      BY <1>1, LeastNumber
    <2>2. j \in Nat /\ digits[j] \notin Seq(Digit)
      BY <2>1
    <2>3. j # 0
      <3>1. <<>> \in Seq(Digit)
        OBVIOUS
      <3> QED
        BY <2>2, <3>1, Digits
    <2>4. /\ j \div Radix \in Nat /\ ~(j <= j \div Radix)
          /\ j % Radix \in Digit
      BY <2>2, <2>3, LastDigit, SMT DEF Digit
    <2>5. digits[j \div Radix] \in Seq(Digit)
      BY <2>1, <2>4
    <2>6. digits[j] = Append(digits[j \div Radix], j % Radix)
      BY <2>2, <2>3, Digits
    <2> QED
      BY <2>2, <2>4, <2>5, <2>6
  <1>2. \A k \in Nat : digits[k] \in Seq(Digit) /\ Len(digits[k]) \in Nat
    BY <1>1
  <1>3. ASSUME n # 0 PROVE Len(digits[n]) > 0
    <2>1. digits[n] = Append(digits[n \div Radix], n % Radix)
      BY <1>3, Digits
    <2>2. n \div Radix \in Nat
      BY LastDigit
    <2>3. /\ digits[n \div Radix] \in Seq(Digit)
          /\ Len(digits[n \div Radix]) \in Nat
      BY <1>2, <2>2
    <2> QED
      BY <2>1, <2>3
  <1> QED
    BY <1>2, <1>3

(* Two numbers have different digits. *)
LEMMA DigitsDetermine ==
    ASSUME NEW a \in Nat, NEW b \in Nat, digits[a] = digits[b]
    PROVE  a = b
  <1> DEFINE T == {k \in Nat : \E m \in Nat : digits[k] = digits[m] /\ k # m}
  <1>1. SUFFICES ASSUME T # {} PROVE FALSE
    OBVIOUS
  <1>2. PICK j \in T : \A k \in T : j <= k
    BY <1>1, LeastNumber
  <1>3. PICK m \in Nat : digits[j] = digits[m] /\ j # m
    BY <1>2
  <1>4. j \in Nat
    BY <1>2
  <1>5. j # 0 /\ m # 0
    <2>1. Len(digits[0]) = 0
      BY Digits
    <2>2. /\ j # 0 => Len(digits[j]) > 0
          /\ m # 0 => Len(digits[m]) > 0
      BY <1>3, <1>4, DigitsType
    <2> QED
      BY <1>3, <2>1, <2>2
  <1> DEFINE p == j \div Radix
             q == m \div Radix
  <1>6. /\ p \in Nat /\ p < j /\ q \in Nat
        /\ j = p * Radix + (j % Radix) /\ m = q * Radix + (m % Radix)
        /\ j % Radix \in Digit /\ m % Radix \in Digit
    BY <1>4, <1>5, LastDigit DEF Digit
  <1>7. /\ digits[j] = Append(digits[p], j % Radix)
        /\ digits[m] = Append(digits[q], m % Radix)
    BY <1>4, <1>5, Digits
  <1>8. digits[p] \in Seq(Digit) /\ digits[q] \in Seq(Digit)
    BY <1>6, DigitsType
  <1> HIDE DEF p, q
  <1>9. digits[p] = digits[q] /\ j % Radix = m % Radix
    <2> DEFINE s == digits[p]
               t == digits[q]
    <2>1. /\ Append(s, j % Radix) = Append(t, m % Radix)
          /\ s \in Seq(Digit) /\ t \in Seq(Digit)
      BY <1>3, <1>7, <1>8
    <2> DEFINE c == j % Radix
               d == m % Radix
    <2>2. Append(s, c) = Append(t, d) /\ c \in Digit /\ d \in Digit
      BY <1>6, <2>1
    <2> HIDE DEF s, t, c, d
    <2>3. Len(s) = Len(t) /\ Len(s) \in Nat
      BY <2>1, <2>2
    <2>4. \A i \in 1 .. Len(s) : s[i] = Append(s, c)[i]
      BY <2>1, <2>2, <2>3
    <2>5. \A i \in 1 .. Len(t) : t[i] = Append(t, d)[i]
      BY <2>1, <2>2, <2>3
    <2>6. s = t
      BY <2>1, <2>2, <2>3, <2>4, <2>5
    <2>7. Append(s, c)[Len(s) + 1] = c /\ Append(t, d)[Len(t) + 1] = d
      BY <2>1, <2>2, <2>3
    <2> QED
      BY <2>2, <2>3, <2>6, <2>7 DEF s, t, c, d
  <1>10. p # q
    BY <1>3, <1>6, <1>9
  <1>11. p \in T /\ ~(j <= p)
    BY <1>4, <1>6, <1>9, <1>10
  <1> QED
    BY <1>2, <1>11

(* What is read of the digits of a number are those of a smaller one.      *)
LEMMA DigitPrefixes ==
    ASSUME NEW n \in Nat, NEW j \in 0 .. Len(digits[n])
    PROVE  \E m \in 0 .. n : digits[m] = SubSeq(digits[n], 1, j)
  <1> DEFINE Fine(k) == \A i \in 0 .. Len(digits[k]) :
                           \E m \in 0 .. k : digits[m] = SubSeq(digits[k], 1, i)
             T == {k \in Nat : ~Fine(k)}
  <1>1. SUFFICES ASSUME T # {} PROVE FALSE
    <2>1. ASSUME T = {} PROVE Fine(n)
      <3> HIDE DEF Fine
      <3> QED
        BY <2>1
    <2> QED
      BY <2>1
  <1>2. PICK k \in T : \A l \in T : k <= l
    BY <1>1, LeastNumber
  <1>3. k \in Nat /\ ~Fine(k)
    BY <1>2
  <1>4. PICK i \in 0 .. Len(digits[k]) :
           \A m \in 0 .. k : digits[m] # SubSeq(digits[k], 1, i)
    BY <1>3
  <1>5. digits[k] \in Seq(Digit) /\ Len(digits[k]) \in Nat
    BY <1>3, DigitsType
  <1>6. i # Len(digits[k])
    <2>1. SubSeq(digits[k], 1, Len(digits[k])) = digits[k]
      BY <1>5
    <2>2. k \in 0 .. k
      BY <1>3
    <2> QED
      BY <1>4, <2>1, <2>2
  <1>7. k # 0
    <2>1. Len(digits[0]) = 0
      BY Digits
    <2> QED
      BY <1>4, <1>6, <2>1, SMT
  <1> DEFINE q == k \div Radix
  <1>8. q \in Nat /\ q < k /\ k % Radix \in Digit
    BY <1>3, <1>7, LastDigit DEF Digit
  <1>9. digits[k] = Append(digits[q], k % Radix)
    BY <1>3, <1>7, Digits
  <1> HIDE DEF q
  <1>10. digits[q] \in Seq(Digit) /\ Len(digits[q]) \in Nat
    BY <1>8, DigitsType
  <1>11. i \in 0 .. Len(digits[q])
    BY <1>4, <1>5, <1>6, <1>8, <1>9, <1>10
  <1>12. SubSeq(digits[k], 1, i) = SubSeq(digits[q], 1, i)
    <2> DEFINE s == digits[q]
               d == k % Radix
    <2>1. s \in Seq(Digit) /\ d \in Digit /\ i \in 0 .. Len(s) /\ Len(s) \in Nat
      BY <1>8, <1>10, <1>11
    <2> HIDE DEF s, d
    <2>2. SubSeq(Append(s, d), 1, i) = SubSeq(s, 1, i)
      BY <2>1
    <2> QED
      BY <1>9, <2>2 DEF s, d
  <1>13. ~(k <= q)
    BY <1>3, <1>8, SMT
  <1>14. Fine(q)
    BY <1>2, <1>8, <1>13
  <1>15. PICK m \in 0 .. q : digits[m] = SubSeq(digits[q], 1, i)
    BY <1>11, <1>14
  <1>16. m \in 0 .. k
    BY <1>3, <1>8, <1>15, SMT
  <1> QED
    BY <1>4, <1>12, <1>15, <1>16

-----------------------------------------------------------------------------
(* Varints.                                                                *)

(* All bytes but the last say that the varint goes on.                     *)
LEMMA VarIntType ==
    ASSUME NEW n \in Nat
    PROVE  LET e == encodeVarInt(n)
           IN  /\ e \in Seq(Byte) /\ Len(e) \in Nat /\ Len(e) > 0
               /\ \A i \in 1 .. Len(e) :
                     e[i] \in Byte /\ (e[i] >= Radix <=> i < Len(e))
  <1> DEFINE k == n % Limit
             o == digits[k]
             e == encodeVarInt(n)
  <1>1. k \in Nat
    BY Widths, SMT
  <1>2. CASE k = 0
    <2>1. e = <<0>>
      BY <1>2 DEF encodeVarInt
    <2>2. 0 \in Byte /\ ~(0 >= Radix)
      BY Widths, SMT DEF Byte
    <2> HIDE DEF e
    <2> QED
      BY <2>1, <2>2 DEF e
  <1>3. CASE k # 0
    <2>1. e = [i \in DOMAIN o |-> IF i < Len(o) THEN o[i] + Radix ELSE o[i]]
      BY <1>3 DEF encodeVarInt
    <2> HIDE DEF k, e
    <2>2. o \in Seq(Digit) /\ Len(o) \in Nat /\ Len(o) > 0
      BY <1>1, <1>3, DigitsType
    <2> HIDE DEF o
    <2>3. DOMAIN o = 1 .. Len(o) /\ \A i \in 1 .. Len(o) : o[i] \in Digit
      BY <2>2
    <2>4. \A i \in 1 .. Len(o) :
             /\ e[i] = IF i < Len(o) THEN o[i] + Radix ELSE o[i]
             /\ e[i] \in Byte /\ (e[i] >= Radix <=> i < Len(o))
      BY <2>1, <2>2, <2>3, Widths DEF Byte, Digit
    <2>5. e \in [1 .. Len(o) -> Byte]
      BY <2>1, <2>3, <2>4
    <2>6. e \in Seq(Byte) /\ Len(e) = Len(o)
      BY <2>2, <2>5
    <2> QED
      BY <2>2, <2>4, <2>6 DEF e
  <1> QED
    BY <1>2, <1>3

(* A number the reader's integers represent.                               *)
Fits(n) == n \in Nat /\ n < Limit /\ (port = "js" => 2 * n < Limit)

(* What decodeVarInt has made of the first j bytes.                        *)
Decoded(n, j, r) ==
    /\ r \in 0 .. n
    /\ n # 0 => digits[r] = SubSeq(digits[n], 1, j)

LEMMA NothingDecoded == ASSUME NEW n \in Nat PROVE Decoded(n, 0, 0)
  <1>1. digits[n] \in Seq(Digit)
    BY DigitsType
  <1>2. SubSeq(digits[n], 1, 0) = <<>>
    BY <1>1
  <1> QED
    BY <1>2, Digits DEF Decoded

(* One turn of the loop; the last one gives the number.                    *)
LEMMA Turn ==
    ASSUME NEW n, Fits(n), NEW j \in Nat, j < Len(encodeVarInt(n)),
           Decoded(n, j, res)
    PROVE  /\ Decoded(n, j + 1, push(encodeVarInt(n)[j + 1]))
           /\ j + 1 = Len(encodeVarInt(n)) => push(encodeVarInt(n)[j + 1]) = n
  <1> DEFINE o == digits[n]
             e == encodeVarInt(n)
  <1>1. n \in Nat /\ n < Limit /\ n % Limit = n
    BY Widths, Remains DEF Fits
  <1>2. CASE n = 0
    <2>1. encodeVarInt(n) = <<0>>
      BY <1>1, <1>2 DEF encodeVarInt
    <2>2. j = 0 /\ encodeVarInt(n)[j + 1] = 0 /\ res = 0
      <3>1. Len(encodeVarInt(n)) = 1 /\ encodeVarInt(n)[1] = 0
        BY <2>1
      <3>2. j = 0
        BY <3>1
      <3> QED
        BY <1>2, <3>1, <3>2 DEF Decoded
    <2>3. 0 % Radix = 0 /\ 0 % Limit = 0 /\ 0 * Radix + 0 = 0
          /\ ~(2 * 0 >= Limit)
      BY Widths, Remains
    <2>4. push(0) = 0
      BY <2>2, <2>3 DEF push
    <2> QED
      BY <1>2, <2>2, <2>4 DEF Decoded
  <1>3. CASE n # 0
    <2>1. e = [i \in DOMAIN o |-> IF i < Len(o) THEN o[i] + Radix ELSE o[i]]
      BY <1>1, <1>3 DEF encodeVarInt
    <2>2. o \in Seq(Digit) /\ Len(o) \in Nat /\ DOMAIN o = 1 .. Len(o)
      BY <1>1, DigitsType
    <2>3. digits[res] = SubSeq(o, 1, j) /\ res \in Nat
      BY <1>1, <1>3 DEF Decoded
    <2>4. j < Len(e)
      OBVIOUS
    <2> HIDE DEF e
    <2>5. /\ Len(e) = Len(o) /\ j + 1 \in 1 .. Len(o) /\ o[j + 1] \in Digit
          /\ e[j + 1] = IF j + 1 < Len(o) THEN o[j + 1] + Radix ELSE o[j + 1]
      <3> HIDE DEF o
      <3>1. Len(e) = Len(o)
        BY <2>1, <2>2
      <3>2. j + 1 \in 1 .. Len(o)
        BY <2>2, <2>4, <3>1, SMT
      <3> QED
        BY <2>1, <2>2, <3>1, <3>2
    <2>6. e[j + 1] % Radix = o[j + 1]
      <3> DEFINE d == o[j + 1]
      <3>1. d \in 0 .. Radix - 1
        BY <2>5 DEF Digit
      <3> HIDE DEF d
      <3>2. d % Radix = d /\ (d + Radix) % Radix = d
        <4>1. d \in Nat /\ d < Radix
          BY <3>1, Widths, SMT
        <4>2. d % Radix = d
          BY <4>1, Widths, Remains
        <4>3. (d + Radix) % Radix = d
          BY <3>1, Widths, SMT
        <4> QED
          BY <4>2, <4>3
      <3> QED
        BY <2>5, <3>2 DEF d
    <2>7. PICK m \in 0 .. n : digits[m] = SubSeq(o, 1, j + 1)
      <3>1. j + 1 \in 0 .. Len(o)
        BY <2>2, <2>5, SMT
      <3> QED
        BY <1>1, <3>1, DigitPrefixes
    <2>8. m \in Nat /\ m # 0
      <3>1. Len(digits[0]) = 0
        BY Digits
      <3>2. Len(SubSeq(o, 1, j + 1)) = j + 1
        <4> HIDE DEF o
        <4> QED
          BY <2>2, <2>5
      <3> QED
        BY <1>1, <2>7, <3>1, <3>2
    <2> DEFINE q == m \div Radix
               d == m % Radix
    <2>9. /\ q \in Nat /\ d \in Digit /\ m = q * Radix + d
          /\ digits[m] = Append(digits[q], d)
      BY <2>8, LastDigit, Digits DEF Digit
    <2>10. digits[q] \in Seq(Digit)
      BY <2>9, DigitsType
    <2> HIDE DEF q, d
    <2>11. digits[q] = SubSeq(o, 1, j) /\ d = o[j + 1]
      <3> DEFINE s == digits[q]
      <3>1. /\ s \in Seq(Digit) /\ d \in Digit
            /\ Append(s, d) = SubSeq(o, 1, j + 1)
        BY <2>7, <2>9, <2>10
      <3> HIDE DEF s, o
      <3>2. Len(s) = j
        <4>1. Len(Append(s, d)) = Len(s) + 1 /\ Len(s) \in Nat
          BY <3>1
        <4>2. Len(SubSeq(o, 1, j + 1)) = j + 1
          BY <2>2, <2>5
        <4> QED
          BY <3>1, <4>1, <4>2
      <3>3. \A i \in 1 .. j + 1 : Append(s, d)[i] = o[i]
        BY <2>2, <2>5, <3>1
      <3>4. Append(s, d)[j + 1] = d /\ \A i \in 1 .. j : s[i] = Append(s, d)[i]
        BY <3>1, <3>2
      <3>5. s = SubSeq(o, 1, j)
        <4>1. SubSeq(o, 1, j) \in Seq(Digit) /\ Len(SubSeq(o, 1, j)) = j
              /\ \A i \in 1 .. j : SubSeq(o, 1, j)[i] = o[i]
          BY <2>2, <2>5
        <4> QED
          BY <3>1, <3>2, <3>3, <3>4, <4>1
      <3> QED
        BY <3>3, <3>4, <3>5 DEF s
    <2>12. q = res
      BY <2>3, <2>9, <2>11, DigitsDetermine
    <2>13. res * Radix + (e[j + 1] % Radix) = m
      BY <2>6, <2>9, <2>11, <2>12
    <2>14. m < Limit /\ m <= n /\ (port = "js" => ~(2 * m >= Limit))
      BY <1>1, <2>7, Widths, SMT DEF Fits
    <2>15. m % Limit = m
      BY <2>8, <2>14, Widths, Remains
    <2>16. push(e[j + 1]) = m
      BY <2>13, <2>14, <2>15, Zenon DEF push
    <2>17. ASSUME j + 1 = Len(e) PROVE m = n
      <3>1. SubSeq(o, 1, j + 1) = o
        <4>1. o \in Seq(Digit) /\ Len(o) = j + 1
          BY <2>2, <2>5, <2>17
        <4> HIDE DEF o
        <4> QED
          BY <4>1
      <3> QED
        BY <1>1, <2>7, <2>8, <3>1, DigitsDetermine
    <2>18. Decoded(n, j + 1, m)
      BY <2>7 DEF Decoded
    <2> QED
      BY <2>16, <2>17, <2>18 DEF e
  <1> QED
    BY <1>2, <1>3

-----------------------------------------------------------------------------
(* Messages.                                                               *)

LEMMA BoundType ==
    ASSUME NEW b \in BoundOnWire
    PROVE  /\ b.number \in Nat /\ b.number < Limit64
           /\ b.id \in Seq(Byte) /\ Len(b.id) \in Nat /\ 2 * Len(b.id) < Limit32
           /\ Fits(Len(b.id))
  <1>1. b.number \in Numbers /\ b.id \in IdPrefixes
    BY DEF BoundOnWire
  <1>2. /\ b.number \in Nat /\ b.number < Limit64
        /\ b.id \in Seq(Byte) /\ 2 * Len(b.id) < Limit32
    BY <1>1, Widths
  <1>3. Len(b.id) \in Nat
    BY <1>2
  <1>4. Limit = Limit64 \/ (port = "js" /\ Limit = Limit32)
    BY DEF Limit
  <1>5. Fits(Len(b.id))
    <2>1. Len(b.id) < Limit32 /\ Len(b.id) < Limit64
      BY <1>2, <1>3, Widths, SMT
    <2>2. port = "js" => Limit = Limit32
      BY DEF Limit
    <2> QED
      BY <1>2, <1>3, <1>4, <2>1, <2>2 DEF Fits
  <1> QED
    BY <1>2, <1>3, <1>5

LEMMA ElementsOf ==
    ASSUME NEW S, NEW T, NEW s \in Seq(T), \A i \in 1 .. Len(s) : s[i] \in S
    PROVE  s \in Seq(S)
  <1>1. Len(s) \in Nat /\ s \in [1 .. Len(s) -> S]
    OBVIOUS
  <1> QED
    BY <1>1

LEMMA Concatenation ==
    ASSUME NEW s \in Seq(Byte), NEW t \in Seq(Byte)
    PROVE  /\ s \o t \in Seq(Byte) /\ Len(s \o t) = Len(s) + Len(t)
           /\ Len(s) \in Nat /\ Len(t) \in Nat
           /\ \A i \in 1 .. Len(s) : (s \o t)[i] = s[i]
           /\ \A i \in 1 .. Len(t) : (s \o t)[Len(s) + i] = t[i]
  <1>1. /\ s \o t \in Seq(Byte) /\ Len(s \o t) = Len(s) + Len(t)
        /\ Len(s) \in Nat /\ Len(t) \in Nat
    OBVIOUS
  <1>2. \A i \in 1 .. Len(s) : (s \o t)[i] = s[i]
    OBVIOUS
  <1>3. \A i \in 1 .. Len(t) : (s \o t)[Len(s) + i] = t[i]
    OBVIOUS
  <1> QED
    BY <1>1, <1>2, <1>3

(* The bytes of a bound: the offset, the length, the ID prefix. *)
LEMMA BoundBytes ==
    ASSUME NEW b \in BoundOnWire
    PROVE  LET first  == encodeVarInt(b.number)
               second == encodeVarInt(Len(b.id))
               e      == encodeBound(b)
           IN  /\ e \in Seq(Byte)
               /\ Len(e) = Len(first) + Len(second) + Len(b.id)
               /\ \A i \in 1 .. Len(first) : e[i] = first[i]
               /\ \A i \in 1 .. Len(second) : e[Len(first) + i] = second[i]
               /\ \A i \in 1 .. Len(b.id) :
                     e[Len(first) + Len(second) + i] = b.id[i]
  <1> DEFINE first == encodeVarInt(b.number)
             second == encodeVarInt(Len(b.id))
             id == b.id
  <1>1. first \in Seq(Byte) /\ second \in Seq(Byte) /\ id \in Seq(Byte)
    BY BoundType, VarIntType
  <1>2. encodeBound(b) = (first \o second) \o id
    BY DEF encodeBound
  <1> HIDE DEF first, second, id
  <1> DEFINE front == first \o second
  <1>3. /\ front \in Seq(Byte) /\ Len(front) = Len(first) + Len(second)
        /\ Len(first) \in Nat /\ Len(second) \in Nat /\ Len(id) \in Nat
        /\ \A i \in 1 .. Len(first) : front[i] = first[i]
        /\ \A i \in 1 .. Len(second) : front[Len(first) + i] = second[i]
    BY <1>1, Concatenation
  <1> HIDE DEF front
  <1>4. /\ front \o id \in Seq(Byte) /\ Len(front \o id) = Len(front) + Len(id)
        /\ \A i \in 1 .. Len(front) : (front \o id)[i] = front[i]
        /\ \A i \in 1 .. Len(id) : (front \o id)[Len(front) + i] = id[i]
    BY <1>1, <1>3, Concatenation
  <1>5. \A i \in 1 .. Len(first) : (front \o id)[i] = first[i]
    BY <1>3, <1>4
  <1>6. \A i \in 1 .. Len(second) : (front \o id)[Len(first) + i] = second[i]
    BY <1>3, <1>4
  <1> QED
    BY <1>2, <1>3, <1>4, <1>5, <1>6 DEF first, second, id, front

(* m is the message that was written, whose k-th bound ends at off[k].     *)
Message(m, off) ==
    /\ m \in Seq(Byte)
    /\ off \in [0 .. Len(sent) -> Nat]
    /\ off[0] = 0 /\ off[Len(sent)] = Len(m)
    /\ \A k \in 1 .. Len(sent) :
          LET e == encodeBound(sent[k])
          IN  /\ off[k] = off[k - 1] + Len(e) /\ off[k] <= Len(m)
              /\ \A i \in 1 .. Len(e) : m[off[k - 1] + i] = e[i]

(* Of which end bytes arrive, and pos are read.                            *)
Window(m, pos, end) ==
    /\ pos \in Nat /\ end \in Nat /\ pos <= end /\ end <= Len(m)
    /\ Len(encoded) = end - pos
    /\ \A i \in 1 .. Len(encoded) : encoded[i] = m[pos + i]

(* The marks of the bounds, and of the end; the reader is within a bound   *)
(* of which something arrived, and fails when that is not all of it.       *)
Marked(m, off, end) ==
    LET k == Len(got)
    IN  /\ ends \in Seq(Nat) /\ Len(ends) = Len(sent) + 1
        /\ \A i \in 0 .. Len(sent) : ends[i + 1] = off[i]
        /\ phase = "writing" => end = Len(m)
        /\ phase # "writing" => arrived = end
        /\ phase \in {"number", "length", "id", "failed"} => off[k] < end
        /\ phase = "failed" => end < off[k + 1]

(* Where the reader is in it, and what it knows.                           *)
Place(off, pos) ==
    LET k      == Len(got)
        b      == sent[k + 1]
        first  == encodeVarInt(b.number)
        second == encodeVarInt(Len(b.id))
    IN  /\ k <= Len(sent)
        /\ phase = "writing" => pos = 0 /\ k = 0
        /\ phase = "bound" => pos = off[k]
        /\ phase \in {"number", "length", "id"} => k < Len(sent)
        /\ phase = "number" =>
              \E j \in Nat :
                 /\ pos = off[k] + j /\ j < Len(first)
                 /\ Representable => Decoded(b.number, j, res)
        /\ phase = "length" =>
              \E j \in Nat :
                 /\ pos = off[k] + Len(first) + j /\ j < Len(second)
                 /\ Decoded(Len(b.id), j, res)
        /\ phase = "id" =>
              /\ pos = off[k] + Len(first) + Len(second)
              /\ res = Len(b.id)
        /\ phase \in {"length", "id"} =>
              (Representable => number = b.number)
        /\ phase = "done" => encoded = <<>> /\ pos = off[k]
        /\ phase = "failed" => k < Len(sent)

WireTypes ==
    /\ port \in {"cpp", "js"}
    /\ sent \in Seq(BoundOnWire)
    /\ encoded \in Seq(Byte)
    /\ ends \in Seq(Nat) /\ arrived \in Nat
    /\ phase \in {"writing", "bound", "number", "length", "id", "done", "failed"}
    /\ res \in Int /\ number \in Int
    /\ got \in Seq([number : Int, id : Seq(Byte)])
    /\ Representable =>
          Len(got) <= Len(sent) /\ \A i \in 1 .. Len(got) : got[i] = sent[i]

WireInv ==
    /\ WireTypes
    /\ \E m, off, pos, end :
          /\ Message(m, off) /\ Window(m, pos, end) /\ Place(off, pos)
          /\ Marked(m, off, end)

-----------------------------------------------------------------------------
(* The invariant says what the properties do.                              *)

(* The bound the reader is in lies within the message. *)
LEMMA BoundInMessage ==
    ASSUME sent \in Seq(BoundOnWire), NEW m, NEW off, Message(m, off),
           NEW k \in Nat, k < Len(sent)
    PROVE  LET b      == sent[k + 1]
               first  == encodeVarInt(b.number)
               second == encodeVarInt(Len(b.id))
           IN  /\ b \in BoundOnWire /\ Len(sent) \in Nat
               /\ off[k] \in Nat /\ off[k + 1] \in Nat /\ Len(m) \in Nat
               /\ off[k + 1] = off[k] + Len(first) + Len(second) + Len(b.id)
               /\ off[k + 1] <= Len(m)
               /\ first \in Seq(Byte) /\ second \in Seq(Byte)
               /\ Len(first) \in Nat \ {0} /\ Len(second) \in Nat \ {0}
               /\ b.id \in Seq(Byte) /\ Len(b.id) \in Nat
               /\ b.number \in Nat
               /\ \A i \in 1 .. Len(first) : m[off[k] + i] = first[i]
               /\ \A i \in 1 .. Len(second) :
                     m[off[k] + Len(first) + i] = second[i]
               /\ \A i \in 1 .. Len(b.id) :
                     m[off[k] + Len(first) + Len(second) + i] = b.id[i]
  <1> DEFINE b == sent[k + 1]
             first == encodeVarInt(b.number)
             second == encodeVarInt(Len(b.id))
             e == encodeBound(b)
  <1>1. k + 1 \in 1 .. Len(sent) /\ k \in 0 .. Len(sent) /\ (k + 1) - 1 = k
        /\ k + 1 \in 0 .. Len(sent) /\ Len(sent) \in Nat
    <2>1. Len(sent) \in Nat
      OBVIOUS
    <2> QED
      BY <2>1, SMT
  <1>2. b \in BoundOnWire
    BY <1>1
  <1>3. /\ off[k + 1] = off[k] + Len(e) /\ off[k + 1] <= Len(m)
        /\ \A i \in 1 .. Len(e) : m[off[k] + i] = e[i]
        /\ off[k] \in Nat /\ off[k + 1] \in Nat
        /\ m \in Seq(Byte)
    BY <1>1 DEF Message
  <1>4. b.id \in Seq(Byte) /\ Len(b.id) \in Nat /\ b.number \in Nat
    BY <1>2, BoundType
  <1>5. /\ first \in Seq(Byte) /\ second \in Seq(Byte)
        /\ Len(first) \in Nat \ {0} /\ Len(second) \in Nat \ {0}
    <2>1. first \in Seq(Byte) /\ Len(first) \in Nat /\ Len(first) > 0
      BY <1>4, VarIntType
    <2>2. second \in Seq(Byte) /\ Len(second) \in Nat /\ Len(second) > 0
      BY <1>4, VarIntType
    <2> HIDE DEF first, second
    <2> QED
      BY <2>1, <2>2
  <1>6. /\ Len(e) = Len(first) + Len(second) + Len(b.id)
        /\ \A i \in 1 .. Len(first) : e[i] = first[i]
        /\ \A i \in 1 .. Len(second) : e[Len(first) + i] = second[i]
        /\ \A i \in 1 .. Len(b.id) :
              e[Len(first) + Len(second) + i] = b.id[i]
    BY <1>2, BoundBytes
  <1>7. Len(m) \in Nat
    BY <1>3
  <1> DEFINE o == off[k]
             end == off[k + 1]
             f == Len(first)
             g == Len(second)
             h == Len(b.id)
             l == Len(e)
  <1>10. o \in Nat /\ end = o + (f + g + h) /\ l = f + g + h
         /\ f \in Nat /\ g \in Nat /\ h \in Nat
    <2> HIDE DEF b, first, second, e
    <2> QED
      BY <1>3, <1>4, <1>5, <1>6
  <1> HIDE DEF b, first, second, e
  <1>8. /\ \A i \in 1 .. Len(first) : m[off[k] + i] = first[i]
        /\ \A i \in 1 .. Len(second) : m[off[k] + Len(first) + i] = second[i]
        /\ \A i \in 1 .. Len(b.id) :
              m[off[k] + Len(first) + Len(second) + i] = b.id[i]
    <2>1. ASSUME NEW i \in 1 .. Len(first) PROVE m[off[k] + i] = first[i]
      <3>1. i \in 1 .. l
        <4>1. i \in 1 .. f
          OBVIOUS
        <4> HIDE DEF f, g, h, l, o, end
        <4> QED
          BY <1>10, <4>1
      <3> QED
        BY <1>3, <1>6, <3>1
    <2>2. ASSUME NEW i \in 1 .. Len(second)
          PROVE  m[off[k] + Len(first) + i] = second[i]
      <3>1. f + i \in 1 .. l /\ o + f + i = o + (f + i)
        <4>1. i \in 1 .. g
          OBVIOUS
        <4> HIDE DEF f, g, h, l, o, end
        <4> QED
          BY <1>10, <4>1
      <3> QED
        BY <1>3, <1>6, <3>1
    <2>3. ASSUME NEW i \in 1 .. Len(b.id)
          PROVE  m[off[k] + Len(first) + Len(second) + i] = b.id[i]
      <3>1. Len(first) + Len(second) + i \in 1 .. Len(e)
            /\ off[k] + Len(first) + Len(second) + i
                  = off[k] + (Len(first) + Len(second) + i)
        BY <1>10, SMT
      <3> QED
        BY <1>3, <1>6, <3>1
    <2> QED
      BY <2>1, <2>2, <2>3
  <1>9. end = o + f + g + h
    <2> HIDE DEF f, g, h, l, o, end
    <2> QED
      BY <1>10
  <1> QED
    BY <1>1, <1>2, <1>3, <1>4, <1>5, <1>7, <1>8, <1>9 DEF b, first, second

(* As long as bounds remain, so do bytes. *)
LEMMA AllRead ==
    ASSUME WireTypes, NEW m, NEW off, NEW pos, NEW end,
           Message(m, off), Window(m, pos, end),
           Len(got) <= Len(sent), pos = off[Len(got)], encoded # <<>>
    PROVE  Len(got) < Len(sent)
  <1> DEFINE k == Len(got)
             n == Len(sent)
  <1>1. k \in Nat /\ n \in Nat /\ k <= n
        /\ encoded \in Seq(Byte) /\ Len(encoded) \in Nat
    BY DEF WireTypes
  <1>2. /\ pos \in Nat /\ end \in Nat /\ Len(encoded) = end - pos
        /\ end <= Len(m)
    BY DEF Window
  <1>3. off[n] = Len(m)
    BY DEF Message
  <1>4. Len(encoded) > 0
    BY <1>1
  <1>5. k # n
    BY <1>2, <1>3, <1>4
  <1> QED
    BY <1>1, <1>5, SMT

LEMMA WireShows == WireInv => TypeOK /\ ReadsWhatWasWritten /\ NoticesTruncation
  <1> SUFFICES ASSUME WireInv
               PROVE  TypeOK /\ ReadsWhatWasWritten /\ NoticesTruncation
    OBVIOUS
  <1>1. WireTypes
    BY DEF WireInv
  <1>2. PICK m, off, pos, end :
           /\ Message(m, off) /\ Window(m, pos, end) /\ Place(off, pos)
           /\ Marked(m, off, end)
    BY DEF WireInv
  <1>3. /\ sent \in Seq(BoundOnWire) /\ Len(sent) \in Nat
        /\ got \in Seq([number : Int, id : Seq(Byte)]) /\ Len(got) \in Nat
    BY <1>1 DEF WireTypes
  <1>4. Len(got) <= Len(sent)
    BY <1>2 DEF Place
  <1>5. Representable => \A i \in 1 .. Len(got) : got[i] = sent[i]
    BY <1>1 DEF WireTypes
  <1>6. ASSUME Representable
        PROVE  got \in Seq(BoundOnWire) /\ IsPrefix(got, sent)
               /\ (Len(got) = Len(sent) => got = sent)
    <2>1. \A i \in 1 .. Len(got) : i \in 1 .. Len(sent)
      BY <1>3, <1>4, SMT
    <2>2. \A i \in 1 .. Len(got) : got[i] = sent[i] /\ got[i] \in BoundOnWire
      BY <1>3, <1>5, <1>6, <2>1
    <2>3. got \in Seq(BoundOnWire)
      <3>1. \A i \in 1 .. Len(got) : got[i] \in BoundOnWire
        BY <2>2
      <3> QED
        BY <1>3, <3>1, ElementsOf
    <2>4. SubSeq(got, 1, Len(got)) = SubSeq(sent, 1, Len(got))
      BY <1>3, <1>4, <2>2, <2>3
    <2>5. ASSUME Len(got) = Len(sent) PROVE got = sent
      BY <1>3, <2>2, <2>3, <2>5
    <2> QED
      BY <1>4, <2>3, <2>4, <2>5 DEF IsPrefix
  <1>7. TypeOK
    BY <1>1, <1>6 DEF TypeOK, WireTypes
  <1>8. ReadsWhatWasWritten
    BY <1>6 DEF ReadsWhatWasWritten
  <1> DEFINE k == Len(got)
  <1>9. ASSUME phase = "done" PROVE arrived = ends[k + 1]
    <2>1. encoded = <<>> /\ pos = off[k]
      BY <1>2, <1>9 DEF Place
    <2>2. pos = end
      <3>1. Len(encoded) = 0
        BY <2>1
      <3> QED
        BY <1>2, <3>1 DEF Window
    <2>3. k \in 0 .. Len(sent)
      BY <1>3, <1>4
    <2>4. arrived = end /\ ends[k + 1] = off[k]
      BY <1>2, <1>9, <2>3 DEF Marked
    <2> QED
      BY <2>1, <2>2, <2>4
  <1>10. ASSUME phase = "failed"
         PROVE  ends[k + 1] < arrived /\ arrived < ends[k + 2]
    <2>1. k < Len(sent)
      BY <1>2, <1>10 DEF Place
    <2>2. k \in 0 .. Len(sent) /\ k + 1 \in 0 .. Len(sent) /\ (k + 1) + 1 = k + 2
      BY <1>3, <2>1
    <2>3. ends[k + 1] = off[k] /\ ends[k + 2] = off[k + 1]
      BY <1>2, <2>2 DEF Marked
    <2>4. arrived = end /\ off[k] < end /\ end < off[k + 1]
      BY <1>2, <1>10 DEF Marked
    <2> QED
      BY <2>3, <2>4
  <1> QED
    BY <1>7, <1>8, <1>9, <1>10 DEF NoticesTruncation

-----------------------------------------------------------------------------
(* It holds at first, and every step keeps it.                             *)

LEMMA InitWire == Init => WireInv
  <1> SUFFICES ASSUME Init PROVE WireInv
    OBVIOUS
  <1>1. /\ sent = <<>> /\ encoded = <<>> /\ got = <<>> /\ arrived = 0
        /\ ends = <<0>>
        /\ phase = "writing" /\ res = 0 /\ number = 0 /\ port \in {"cpp", "js"}
    BY DEF Init
  <1>2. Len(sent) = 0 /\ Len(got) = 0 /\ Len(encoded) = 0
    BY <1>1
  <1>3. WireTypes
    <2>1. /\ sent \in Seq(BoundOnWire) /\ encoded \in Seq(Byte)
          /\ got \in Seq([number : Int, id : Seq(Byte)])
          /\ ends \in Seq(Nat) /\ arrived \in Nat
      BY <1>1
    <2> QED
      BY <1>1, <1>2, <2>1 DEF WireTypes
  <1> DEFINE off == [k \in {0} |-> 0]
  <1>4. Message(<<>>, off)
    <2>1. off \in [0 .. 0 -> Nat]
      <3>1. 0 .. 0 = {0}
        OBVIOUS
      <3> QED
        BY <3>1
    <2>2. <<>> \in Seq(Byte) /\ Len(<<>>) = 0 /\ off[0] = 0
      OBVIOUS
    <2>3. 1 .. 0 = {}
      OBVIOUS
    <2> HIDE DEF off
    <2> QED
      BY <1>2, <2>1, <2>2, <2>3 DEF Message
  <1>5. Window(<<>>, 0, 0)
    <2>1. Len(<<>>) = 0 /\ 0 - 0 = 0 /\ 1 .. 0 = {}
      OBVIOUS
    <2> QED
      BY <1>1, <1>2, <2>1 DEF Window
  <1>6. Place(off, 0)
    BY <1>1, <1>2 DEF Place
  <1>7. Marked(<<>>, off, 0)
    <2>1. ends \in Seq(Nat) /\ Len(ends) = 1 /\ ends[1] = 0 /\ off[0] = 0
      BY <1>1
    <2>2. 0 .. 0 = {0} /\ 0 + 1 = 1 /\ Len(<<>>) = 0
      OBVIOUS
    <2> HIDE DEF off
    <2> QED
      BY <1>1, <1>2, <2>1, <2>2 DEF Marked
  <1> QED
    BY <1>3, <1>4, <1>5, <1>6, <1>7 DEF WireInv

(* Reading changes neither the message nor what can be represented.        *)
LEMMA Reading ==
    ASSUME UNCHANGED <<port, sent>>
    PROVE  /\ Representable' = Representable
           /\ \A m, off : Message(m, off)' = Message(m, off)
           /\ \A n : encodeVarInt(n)' = encodeVarInt(n)
  <1>1. \A n : encodeVarInt(n)' = encodeVarInt(n)
    BY DEF encodeVarInt, Limit
  <1>2. \A b : encodeBound(b)' = encodeBound(b)
    BY <1>1 DEF encodeBound
  <1> QED
    BY <1>1, <1>2 DEF Representable, Message

LEMMA WriteWire ==
    ASSUME WireInv, NEW b \in BoundOnWire, Write(b)
    PROVE  WireInv'
  <1>1. WireTypes /\ port' = port
    BY DEF WireInv, Write
  <1>e. PICK e : e = encodeBound(b)
    OBVIOUS
  <1>n. PICK n : n = Len(sent)
    OBVIOUS
  <1>2. PICK m, off, pos, end :
           /\ Message(m, off) /\ Window(m, pos, end) /\ Place(off, pos)
           /\ Marked(m, off, end)
    BY DEF WireInv
  <1>3. /\ phase = "writing" /\ sent' = Append(sent, b)
        /\ encoded' = encoded \o e
        /\ ends' = Append(ends, Len(encoded'))
        /\ UNCHANGED <<port, arrived, phase, res, number, got>>
    BY <1>e DEF Write
  <1>4. /\ sent \in Seq(BoundOnWire) /\ n \in Nat
        /\ encoded \in Seq(Byte) /\ Len(encoded) \in Nat
    BY <1>1, <1>n DEF WireTypes
  <1>5. e \in Seq(Byte) /\ Len(e) \in Nat
    <2>1. e \in Seq(Byte)
      BY <1>e, BoundBytes
    <2> QED
      BY <2>1
  <1>6. /\ pos = 0 /\ Len(got) = 0 /\ end = Len(m)
        /\ m \in Seq(Byte) /\ Len(m) \in Nat
    BY <1>2, <1>3, <1>1 DEF Place, Message, Marked, WireTypes
  <1>7. end = Len(m) /\ Len(encoded) = Len(m)
        /\ \A i \in 1 .. Len(encoded) : encoded[i] = m[i]
    <2>1. /\ end = Len(m) /\ Len(encoded) = end - pos /\ end \in Nat
          /\ \A i \in 1 .. Len(encoded) : encoded[i] = m[pos + i]
      BY <1>2, <1>6 DEF Window
    <2>2. \A i \in 1 .. Len(encoded) : pos + i = i
      BY <1>4, <1>6, SMT
    <2> QED
      BY <1>6, <2>1, <2>2
  <1>8. encoded = m
    BY <1>4, <1>6, <1>7
  <1> DEFINE m2 == m \o e
             off2 == [k \in 0 .. n + 1 |-> IF k = n + 1 THEN Len(m2) ELSE off[k]]
  <1>9. \A c : encodeBound(c)' = encodeBound(c)
    BY <1>3 DEF encodeBound, encodeVarInt, Limit
  <1>10. /\ sent' \in Seq(BoundOnWire) /\ Len(sent') = n + 1
         /\ sent'[n + 1] = b /\ \A k \in 1 .. n : sent'[k] = sent[k]
    BY <1>3, <1>4, <1>n
  <1>11. /\ m2 \in Seq(Byte) /\ Len(m2) = Len(m) + Len(e)
         /\ \A i \in 1 .. Len(m) : m2[i] = m[i]
         /\ \A i \in 1 .. Len(e) : m2[Len(m) + i] = e[i]
    BY <1>5, <1>6, Concatenation
  <1>12. /\ off \in [0 .. n -> Nat] /\ off[0] = 0 /\ off[n] = Len(m)
         /\ \A k \in 1 .. n :
               LET c == encodeBound(sent[k])
               IN  /\ off[k] = off[k - 1] + Len(c) /\ off[k] <= Len(m)
                   /\ \A i \in 1 .. Len(c) : m[off[k - 1] + i] = c[i]
    BY <1>2, <1>n DEF Message
  <1> HIDE DEF m2
  <1>13. /\ off2 \in [0 .. n + 1 -> Nat] /\ off2[0] = 0
         /\ off2[n + 1] = Len(m2) /\ \A k \in 0 .. n : off2[k] = off[k]
    BY <1>4, <1>5, <1>6, <1>11, <1>12
  <1> HIDE DEF off2
  <1>14. ASSUME NEW k \in 1 .. n + 1
         PROVE  LET c == encodeBound(sent'[k])
                IN  /\ off2[k] = off2[k - 1] + Len(c) /\ off2[k] <= Len(m2)
                    /\ \A i \in 1 .. Len(c) : m2[off2[k - 1] + i] = c[i]
    <2>1. CASE k = n + 1
      <3>1. sent'[k] = b /\ k - 1 = n /\ n \in 0 .. n
        BY <1>4, <1>10, <2>1, SMT
      <3>2. off2[k] = Len(m2) /\ off2[k - 1] = Len(m)
        BY <1>12, <1>13, <2>1, <3>1
      <3>3. encodeBound(sent'[k]) = e
        BY <1>e, <3>1
      <3>4. Len(m2) \in Nat /\ Len(m2) <= Len(m2)
        BY <1>11
      <3> QED
        BY <1>5, <1>11, <3>2, <3>3, <3>4
    <2>2. CASE k # n + 1
      <3>1. k \in 1 .. n /\ k \in 0 .. n /\ k - 1 \in 0 .. n
        BY <1>4, <2>2, SMT
      <3> DEFINE c == encodeBound(sent[k])
                 o == off[k - 1]
      <3>2. sent'[k] = sent[k] /\ off2[k] = off[k] /\ off2[k - 1] = o
        BY <1>10, <1>13, <3>1
      <3>3. /\ off[k] = o + Len(c) /\ off[k] <= Len(m)
            /\ \A i \in 1 .. Len(c) : m[o + i] = c[i]
        BY <1>12, <3>1
      <3>4. o \in Nat /\ c \in Seq(Byte) /\ Len(c) \in Nat /\ off[k] \in Nat
        <4>1. sent[k] \in BoundOnWire
          BY <1>4, <1>n, <3>1
        <4>2. c \in Seq(Byte)
          BY <4>1, BoundBytes
        <4>3. o \in Nat /\ off[k] \in Nat
          BY <1>12, <3>1
        <4> QED
          BY <4>2, <4>3
      <3> HIDE DEF c, o
      <3>5. off[k] <= Len(m2)
        BY <1>5, <1>6, <1>11, <3>3, <3>4
      <3>6. ASSUME NEW i \in 1 .. Len(c) PROVE m2[o + i] = c[i]
        <4>1. o + i \in 1 .. Len(m)
          BY <1>6, <3>3, <3>4
        <4> QED
          BY <1>11, <3>3, <4>1
      <3>7. encodeBound(sent'[k]) = c
        BY <3>2 DEF c
      <3> QED
        BY <3>2, <3>3, <3>5, <3>6, <3>7
    <2> QED
      BY <2>1, <2>2
  <1>15. Message(m2, off2)'
    <2>1. \A k \in 1 .. n + 1 : encodeBound(sent[k])' = encodeBound(sent'[k])
      BY <1>9
    <2> QED
      BY <1>10, <1>11, <1>13, <1>14, <2>1 DEF Message
  <1>16. Window(m2, 0, Len(m2))'
    <2>1. encoded' = m2
      BY <1>3, <1>8 DEF m2
    <2>2. Len(m2) \in Nat /\ Len(m2) - 0 = Len(m2) /\ 0 <= Len(m2)
          /\ Len(m2) <= Len(m2)
      BY <1>11
    <2>3. \A i \in 1 .. Len(m2) : 0 + i = i
      BY <2>2, SMT
    <2> QED
      BY <1>3, <1>6, <2>1, <2>2, <2>3 DEF Window
  <1>19. /\ ends' \in Seq(Nat) /\ Len(ends') = n + 2
         /\ \A i \in 0 .. n + 1 : ends'[i + 1] = off2[i]
    <2> DEFINE l == Len(m2)
    <2>1. /\ ends \in Seq(Nat) /\ Len(ends) = n + 1
          /\ \A i \in 0 .. n : ends[i + 1] = off[i]
      BY <1>2, <1>n DEF Marked
    <2>2. ends' = Append(ends, l) /\ l \in Nat
      BY <1>3, <1>8, <1>11 DEF m2
    <2>3. off2[n + 1] = l /\ \A i \in 0 .. n : off2[i] = off[i]
      BY <1>13
    <2> HIDE DEF l
    <2>4. ends' \in Seq(Nat) /\ Len(ends') = n + 2
      BY <1>4, <2>1, <2>2
    <2>5. ASSUME NEW i \in 0 .. n + 1 PROVE ends'[i + 1] = off2[i]
      <3>1. CASE i = n + 1
        <4>1. i + 1 = Len(ends) + 1
          BY <1>4, <2>1, <3>1
        <4>2. ends'[i + 1] = l
          BY <2>1, <2>2, <4>1
        <4> QED
          BY <2>3, <3>1, <4>2
      <3>2. CASE i # n + 1
        <4>1. i \in 0 .. n /\ i + 1 \in 1 .. Len(ends)
          BY <1>4, <2>1, <3>2
        <4>2. ends'[i + 1] = ends[i + 1]
          BY <2>1, <2>2, <4>1
        <4> QED
          BY <2>1, <2>3, <4>1, <4>2
      <3> QED
        BY <3>1, <3>2
    <2> QED
      BY <2>4, <2>5
  <1>20. Marked(m2, off2, Len(m2))'
    <2>1. Len(sent') = n + 1 /\ (n + 1) + 1 = n + 2
      BY <1>4, <1>10
    <2> QED
      BY <1>3, <1>19, <2>1 DEF Marked
  <1>17. Place(off2, 0)'
    BY <1>3, <1>4, <1>6, <1>10 DEF Place
  <1>18. WireTypes'
    <2>1. encoded' \in Seq(Byte)
      BY <1>3, <1>8, <1>11 DEF m2
    <2>2. 1 .. Len(got) = {} /\ Len(got) <= Len(sent')
      BY <1>4, <1>6, <1>10
    <2> QED
      BY <1>1, <1>3, <1>10, <1>19, <2>1, <2>2 DEF WireTypes
  <1> QED
    BY <1>15, <1>16, <1>17, <1>18, <1>20 DEF WireInv

LEMMA DeliverWire ==
    ASSUME WireInv, NEW n \in 0 .. Len(encoded), Deliver(n)
    PROVE  WireInv'
  <1>1. WireTypes
    BY DEF WireInv
  <1>2. PICK m, off, pos, end :
           /\ Message(m, off) /\ Window(m, pos, end) /\ Place(off, pos)
           /\ Marked(m, off, end)
    BY DEF WireInv
  <1>3. /\ phase = "writing" /\ phase' = "bound"
        /\ encoded' = SubSeq(encoded, 1, n) /\ arrived' = n
        /\ UNCHANGED <<port, sent, ends, res, number, got>>
    BY DEF Deliver
  <1>4. /\ pos = 0 /\ Len(got) = 0 /\ end = Len(m)
        /\ Len(got) <= Len(sent)
    BY <1>2, <1>3 DEF Place, Marked
  <1>5. /\ encoded \in Seq(Byte) /\ Len(encoded) \in Nat
        /\ m \in Seq(Byte) /\ Len(m) \in Nat
    BY <1>1, <1>2 DEF WireTypes, Message
  <1>6. /\ end = Len(m) /\ Len(encoded) = Len(m)
        /\ \A i \in 1 .. Len(encoded) : encoded[i] = m[i]
    <2>1. /\ end = Len(m) /\ Len(encoded) = end - pos /\ end \in Nat
          /\ \A i \in 1 .. Len(encoded) : encoded[i] = m[pos + i]
      BY <1>2, <1>4 DEF Window
    <2>2. \A i \in 1 .. Len(encoded) : pos + i = i
      BY <1>4, <1>5, SMT
    <2> QED
      BY <1>4, <1>5, <2>1, <2>2
  <1>7. /\ encoded' \in Seq(Byte) /\ Len(encoded') = n
        /\ \A i \in 1 .. n : encoded'[i] = encoded[i]
    BY <1>3, <1>5
  <1>8. Message(m, off)' /\ Representable' = Representable
    BY <1>2, <1>3, Reading
  <1>9. Window(m, 0, n)'
    <2>1. n \in Nat /\ 0 <= n /\ n <= Len(m) /\ n - 0 = n
      BY <1>5, <1>6
    <2>2. \A i \in 1 .. n : encoded'[i] = m[0 + i]
      <3>1. \A i \in 1 .. n : 0 + i = i /\ i \in 1 .. Len(encoded)
        BY <1>5, <2>1
      <3> QED
        BY <1>6, <1>7, <3>1
    <2> QED
      BY <1>3, <1>6, <1>7, <2>1, <2>2 DEF Window
  <1>10. Place(off, 0)'
    <2>1. off[0] = 0
      BY <1>2 DEF Message
    <2> QED
      BY <1>3, <1>4, <2>1 DEF Place
  <1>11. WireTypes'
    BY <1>1, <1>3, <1>5, <1>7, <1>8 DEF WireTypes
  <1>12. Marked(m, off, n)'
    BY <1>2, <1>3 DEF Marked
  <1> QED
    BY <1>8, <1>9, <1>10, <1>11, <1>12 DEF WireInv

LEMMA BeginWire == ASSUME WireInv, BeginBound PROVE WireInv'
  <1>1. WireTypes
    BY DEF WireInv
  <1>2. PICK m, off, pos, end :
           /\ Message(m, off) /\ Window(m, pos, end) /\ Place(off, pos)
           /\ Marked(m, off, end)
    BY DEF WireInv
  <1>3. /\ phase = "bound" /\ res' = 0
        /\ phase' = IF encoded = <<>> THEN "done" ELSE "number"
        /\ UNCHANGED <<port, sent, ends, encoded, arrived, number, got>>
    BY DEF BeginBound
  <1>4. Len(got) <= Len(sent) /\ pos = off[Len(got)]
    BY <1>2, <1>3 DEF Place
  <1>5. Message(m, off)' /\ Representable' = Representable
        /\ \A n : encodeVarInt(n)' = encodeVarInt(n)
    BY <1>2, <1>3, Reading
  <1>6. Window(m, pos, end)'
    BY <1>2, <1>3 DEF Window
  <1>7. WireTypes'
    BY <1>1, <1>3, <1>5 DEF WireTypes
  <1>8. Place(off, pos)'
    <2>1. CASE encoded = <<>>
      BY <1>3, <1>4, <2>1 DEF Place
    <2>2. CASE encoded # <<>>
      <3>1. Len(got) < Len(sent)
        BY <1>1, <1>2, <1>4, <2>2, AllRead
      <3> DEFINE k == Len(got)
                 b == sent[k + 1]
                 first == encodeVarInt(b.number)
      <3>2. k \in Nat /\ sent \in Seq(BoundOnWire)
        BY <1>1 DEF WireTypes
      <3>3. b.number \in Nat /\ Len(first) \in Nat \ {0} /\ off[k] \in Nat
        BY <1>2, <3>1, <3>2, BoundInMessage
      <3>4. Decoded(b.number, 0, 0)
        BY <3>3, NothingDecoded
      <3>5. /\ 0 \in Nat /\ pos = off[k] + 0 /\ 0 < Len(first)
            /\ Decoded(b.number, 0, res')
        BY <1>3, <1>4, <3>3, <3>4
      <3>6. phase' = "number" /\ got' = got /\ sent' = sent
        BY <1>3, <2>2
      <3> QED
        BY <1>4, <1>5, <3>1, <3>5, <3>6 DEF Place
    <2> QED
      BY <2>1, <2>2
  <1>9. Marked(m, off, end)'
    <2>1. CASE encoded = <<>>
      BY <1>2, <1>3, <2>1 DEF Marked
    <2>2. CASE encoded # <<>>
      <3>1. off[Len(got)] < end
        <4>1. encoded \in Seq(Byte) /\ Len(encoded) > 0
          BY <1>1, <2>2 DEF WireTypes
        <4> QED
          BY <1>2, <1>4, <4>1 DEF Window
      <3> QED
        BY <1>2, <1>3, <2>2, <3>1 DEF Marked
    <2> QED
      BY <2>1, <2>2
  <1> QED
    BY <1>5, <1>6, <1>7, <1>8, <1>9 DEF WireInv

(* Within a bound the marks stay. *)
LEMMA StaysMarked ==
    ASSUME NEW m, NEW off, NEW end, Marked(m, off, end),
           UNCHANGED <<sent, ends, arrived, got>>,
           phase \in {"number", "length", "id"},
           phase' \in {"number", "length", "id"}
    PROVE  Marked(m, off, end)'
  BY DEF Marked

(* The byte at the reader's place, and the message without it. *)
LEMMA TakeByte ==
    ASSUME WireTypes, NEW m, NEW off, NEW pos, NEW end,
           Message(m, off), Window(m, pos, end),
           encoded # <<>>, encoded' = Tail(encoded),
           UNCHANGED <<port, sent>>
    PROVE  /\ Head(encoded) = m[pos + 1] /\ Head(encoded) \in Byte
           /\ encoded' \in Seq(Byte)
           /\ Window(m, pos + 1, end)'
           /\ push(Head(encoded)) \in Int
  <1>1. encoded \in Seq(Byte) /\ Len(encoded) \in Nat /\ Len(encoded) > 0
        /\ port \in {"cpp", "js"} /\ res \in Int
    BY DEF WireTypes
  <1>2. /\ Head(encoded) = encoded[1] /\ 1 \in 1 .. Len(encoded)
        /\ encoded' \in Seq(Byte) /\ Len(encoded') = Len(encoded) - 1
        /\ \A i \in 1 .. Len(encoded') : encoded'[i] = encoded[i + 1]
    BY <1>1
  <1>3. Head(encoded) = m[pos + 1] /\ Head(encoded) \in Byte
    BY <1>1, <1>2 DEF Window
  <1>4. Window(m, pos + 1, end)'
    <2>1. /\ pos \in Nat /\ end \in Nat /\ pos <= end /\ end <= Len(m)
          /\ Len(encoded) = end - pos
      BY DEF Window
    <2>2. /\ pos + 1 \in Nat /\ pos + 1 <= end
          /\ Len(encoded') = end - (pos + 1)
      BY <1>1, <1>2, <2>1
    <2>3. ASSUME NEW i \in 1 .. Len(encoded')
          PROVE  encoded'[i] = m[(pos + 1) + i]
      <3>1. i + 1 \in 1 .. Len(encoded) /\ pos + (i + 1) = (pos + 1) + i
        BY <1>1, <1>2, <2>1
      <3>2. encoded[i + 1] = m[pos + (i + 1)]
        BY <3>1 DEF Window
      <3> QED
        BY <1>2, <3>1, <3>2
    <2> QED
      BY <2>1, <2>2, <2>3 DEF Window
  <1>5. push(Head(encoded)) \in Int
    <2> DEFINE c == Head(encoded)
               d == c % Radix
               r == (res * Radix + d) % Limit
    <2>1. c \in Nat /\ Radix \in Nat /\ Radix >= 2
      BY <1>3, Widths DEF Byte
    <2> HIDE DEF c
    <2>2. d \in Int
      BY <2>1
    <2> HIDE DEF d
    <2>3. res * Radix + d \in Int
      BY <1>1, <2>1, <2>2
    <2>4. r \in Int
      <3> DEFINE x == res * Radix + d
      <3>1. x \in Int /\ Limit \in Nat /\ Limit >= 2
        BY <2>3, Widths
      <3> HIDE DEF x
      <3>2. x % Limit \in Int
        BY <3>1, SMT
      <3> QED
        BY <3>2 DEF x
    <2>5. push(c) = IF port = "js" /\ 2 * r >= Limit THEN r - Limit ELSE r
      BY DEF push, d
    <2> HIDE DEF r
    <2>6. r - Limit \in Int
      BY <2>4, Widths
    <2> QED
      BY <2>4, <2>5, <2>6 DEF c
  <1> QED
    BY <1>2, <1>3, <1>4, <1>5

LEMMA FitsReader ==
    ASSUME NEW k \in Nat, k < Len(sent), sent \in Seq(BoundOnWire),
           Representable
    PROVE  Fits(sent[k + 1].number)
  <1> DEFINE n == sent[k + 1].number
  <1>1. k + 1 \in DOMAIN sent /\ sent[k + 1] \in BoundOnWire
    <2>1. Len(sent) \in Nat /\ DOMAIN sent = 1 .. Len(sent)
      OBVIOUS
    <2> QED
      BY <2>1
  <1>2. n \in Nat /\ n < Limit64
    BY <1>1, BoundType
  <1>3. port = "js" => 2 * n < Limit32
    BY <1>1 DEF Representable
  <1>4. CASE port = "js"
    <2>1. n < Limit32 /\ Limit = Limit32
      BY <1>2, <1>3, <1>4, Widths DEF Limit
    <2> QED
      BY <1>2, <1>3, <2>1 DEF Fits
  <1>5. CASE port # "js"
    BY <1>2, <1>5 DEF Fits, Limit
  <1> QED
    BY <1>4, <1>5

LEMMA NumberWire ==
    ASSUME WireInv, phase = "number", decodeVarInt
    PROVE  WireInv'
  <1>1. WireTypes
    BY DEF WireInv
  <1>2. PICK m, off, pos, end :
           /\ Message(m, off) /\ Window(m, pos, end) /\ Place(off, pos)
           /\ Marked(m, off, end)
    BY DEF WireInv
  <1> DEFINE k == Len(got)
             b == sent[k + 1]
             first == encodeVarInt(b.number)
             second == encodeVarInt(Len(b.id))
             byte == Head(encoded)
  <1>3. /\ encoded # <<>> /\ encoded' = Tail(encoded)
        /\ UNCHANGED <<port, sent, ends, arrived, got>>
        /\ byte >= Radix =>
              res' = push(byte) /\ UNCHANGED <<phase, number>>
        /\ ~(byte >= Radix) =>
              phase' = "length" /\ number' = push(byte) /\ res' = 0
    BY DEF decodeVarInt
  <1>4. k \in Nat /\ k < Len(sent) /\ sent \in Seq(BoundOnWire)
        /\ k <= Len(sent)
    <2>1. k < Len(sent) /\ k <= Len(sent)
      BY <1>2 DEF Place
    <2> QED
      BY <1>1, <2>1 DEF WireTypes
  <1>5. PICK j \in Nat : /\ pos = off[k] + j /\ j < Len(first)
                         /\ Representable => Decoded(b.number, j, res)
    BY <1>2 DEF Place
  <1>6. /\ b \in BoundOnWire /\ off[k] \in Nat
        /\ Len(first) \in Nat /\ Len(second) \in Nat \ {0}
        /\ b.number \in Nat /\ Len(b.id) \in Nat
        /\ \A i \in 1 .. Len(first) : m[off[k] + i] = first[i]
        /\ \A i \in 1 .. Len(first) : first[i] >= Radix <=> i < Len(first)
    <2>1. /\ b \in BoundOnWire /\ off[k] \in Nat
          /\ Len(first) \in Nat /\ Len(second) \in Nat \ {0}
          /\ b.number \in Nat /\ Len(b.id) \in Nat
          /\ \A i \in 1 .. Len(first) : m[off[k] + i] = first[i]
      BY <1>2, <1>4, BoundInMessage
    <2> QED
      BY <2>1, VarIntType
  <1>7. /\ byte = m[pos + 1] /\ byte \in Byte /\ encoded' \in Seq(Byte)
        /\ Window(m, pos + 1, end)' /\ push(byte) \in Int
    BY <1>1, <1>2, <1>3, TakeByte
  <1>8. byte = first[j + 1] /\ (byte >= Radix <=> j + 1 < Len(first))
    <2> DEFINE l == Len(first)
               o == off[k]
    <2>1. j + 1 \in 1 .. l /\ pos + 1 = o + (j + 1)
      <3>1. l \in Nat /\ o \in Nat /\ j < l /\ pos = o + j
        BY <1>5, <1>6
      <3> HIDE DEF l, o
      <3> QED
        BY <3>1
    <2> QED
      BY <1>6, <1>7, <2>1
  <1>9. /\ Message(m, off)' /\ Representable' = Representable
        /\ \A n : encodeVarInt(n)' = encodeVarInt(n)
    BY <1>2, <1>3, Reading
  <1>10. ASSUME Representable
         PROVE  /\ Decoded(b.number, j + 1, push(byte))
                /\ j + 1 = Len(first) => push(byte) = b.number
    <2>1. Fits(b.number)
      BY <1>4, <1>10, FitsReader
    <2> QED
      BY <1>5, <1>8, <1>10, <2>1, Turn
  <1>11. WireTypes'
    <2>1. res' \in Int /\ number' \in Int
          /\ phase' \in {"number", "length"}
      BY <1>1, <1>3, <1>7 DEF WireTypes
    <2> QED
      BY <1>1, <1>3, <1>7, <1>9, <2>1 DEF WireTypes
  <1>12. Place(off, pos + 1)'
    <2>1. CASE byte >= Radix
      <3>1. j + 1 \in Nat /\ j + 1 < Len(first)
            /\ pos + 1 = off[k] + (j + 1)
        <4> DEFINE o == off[k]
        <4>1. o \in Nat /\ pos = o + j /\ j + 1 < Len(first)
          BY <1>5, <1>6, <1>8, <2>1
        <4> HIDE DEF o
        <4>2. pos + 1 = o + (j + 1)
          BY <4>1
        <4> QED
          BY <4>1, <4>2 DEF o
      <3>2. phase' = "number" /\ res' = push(byte) /\ UNCHANGED <<sent, got>>
        BY <1>3, <2>1
      <3>3. Representable' => Decoded(b.number, j + 1, res')
        BY <1>9, <1>10, <3>2
      <3> QED
        BY <1>4, <1>9, <3>1, <3>2, <3>3 DEF Place
    <2>2. CASE ~(byte >= Radix)
      <3>1. j + 1 = Len(first) /\ pos + 1 = off[k] + Len(first) + 0
            /\ 0 < Len(second) /\ 0 \in Nat
        <4> DEFINE l == Len(first)
                   g == Len(second)
                   o == off[k]
        <4>1. /\ l \in Nat /\ o \in Nat /\ j < l /\ pos = o + j
              /\ g \in Nat \ {0} /\ ~(j + 1 < l)
          BY <1>5, <1>6, <1>8, <2>2
        <4> HIDE DEF l, g, o
        <4>2. j + 1 = l /\ pos + 1 = o + l + 0 /\ 0 < g
          BY <4>1
        <4> QED
          BY <4>2 DEF l, g, o
      <3>2. /\ phase' = "length" /\ number' = push(byte) /\ res' = 0
            /\ UNCHANGED <<sent, got>>
        BY <1>3, <2>2
      <3>3. Representable' => number' = b.number
        BY <1>9, <1>10, <3>1, <3>2
      <3>4. Decoded(Len(b.id), 0, res')
        BY <1>6, <3>2, NothingDecoded
      <3> QED
        BY <1>4, <1>9, <3>1, <3>2, <3>3, <3>4 DEF Place
    <2> QED
      BY <2>1, <2>2
  <1>13. Marked(m, off, end)'
    <2>1. phase' \in {"number", "length", "id"}
      BY <1>3
    <2> QED
      BY <1>2, <1>3, <2>1, StaysMarked
  <1> QED
    BY <1>7, <1>9, <1>11, <1>12, <1>13 DEF WireInv

LEMMA LengthWire ==
    ASSUME WireInv, phase = "length", decodeVarInt
    PROVE  WireInv'
  <1>1. WireTypes
    BY DEF WireInv
  <1>2. PICK m, off, pos, end :
           /\ Message(m, off) /\ Window(m, pos, end) /\ Place(off, pos)
           /\ Marked(m, off, end)
    BY DEF WireInv
  <1> DEFINE k == Len(got)
             b == sent[k + 1]
             first == encodeVarInt(b.number)
             second == encodeVarInt(Len(b.id))
             byte == Head(encoded)
             l == Len(first)
             g == Len(second)
             o == off[k]
  <1>3. /\ encoded # <<>> /\ encoded' = Tail(encoded)
        /\ UNCHANGED <<port, sent, ends, arrived, got, number>>
        /\ res' = push(byte)
        /\ byte >= Radix => phase' = phase
        /\ ~(byte >= Radix) => phase' = "id"
    BY DEF decodeVarInt
  <1>4. k \in Nat /\ k < Len(sent) /\ sent \in Seq(BoundOnWire)
        /\ k <= Len(sent) /\ (Representable => number = b.number)
    <2>1. k < Len(sent) /\ k <= Len(sent) /\ (Representable => number = b.number)
      BY <1>2 DEF Place
    <2> QED
      BY <1>1, <2>1 DEF WireTypes
  <1>5. PICK j \in Nat : /\ pos = o + l + j /\ j < g
                         /\ Decoded(Len(b.id), j, res)
    BY <1>2 DEF Place
  <1>6. /\ b \in BoundOnWire /\ o \in Nat /\ l \in Nat /\ g \in Nat
        /\ \A i \in 1 .. g : m[o + l + i] = second[i]
    BY <1>2, <1>4, BoundInMessage
  <1>7. /\ byte = m[pos + 1] /\ byte \in Byte /\ encoded' \in Seq(Byte)
        /\ Window(m, pos + 1, end)' /\ push(byte) \in Int
    BY <1>1, <1>2, <1>3, TakeByte
  <1>8. Fits(Len(b.id)) /\ Len(b.id) \in Nat
    BY <1>6, BoundType
  <1>9. \A i \in 1 .. g : second[i] >= Radix <=> i < g
    BY <1>8, VarIntType
  <1>10. /\ j + 1 \in 1 .. g /\ pos + 1 = o + l + (j + 1)
         /\ j + 1 \in Nat
    <2> HIDE DEF o, l, g
    <2> QED
      BY <1>5, <1>6
  <1>11. byte = second[j + 1] /\ (byte >= Radix <=> j + 1 < g)
    BY <1>6, <1>7, <1>9, <1>10
  <1>12. /\ Message(m, off)' /\ Representable' = Representable
         /\ \A n : encodeVarInt(n)' = encodeVarInt(n)
    BY <1>2, <1>3, Reading
  <1>13. /\ Decoded(Len(b.id), j + 1, res')
         /\ j + 1 = g => res' = Len(b.id)
    BY <1>3, <1>5, <1>8, <1>11, Turn
  <1>14. WireTypes'
    <2>1. res' \in Int /\ phase' \in {"length", "id"}
      BY <1>3, <1>7
    <2> QED
      BY <1>1, <1>3, <1>7, <1>12, <2>1 DEF WireTypes
  <1>15. Place(off, pos + 1)'
    <2>1. CASE byte >= Radix
      <3>1. /\ phase' = "length" /\ UNCHANGED <<sent, got, number>>
        BY <1>3, <2>1
      <3>2. j + 1 < g
        BY <1>11, <2>1
      <3> QED
        BY <1>4, <1>10, <1>12, <1>13, <3>1, <3>2 DEF Place
    <2>2. CASE ~(byte >= Radix)
      <3>1. phase' = "id" /\ UNCHANGED <<sent, got, number>>
        BY <1>3, <2>2
      <3>2. j + 1 = g /\ pos + 1 = o + l + g
        <4>1. ~(j + 1 < g)
          BY <1>11, <2>2
        <4> HIDE DEF o, l, g
        <4> QED
          BY <1>6, <1>10, <4>1
      <3> QED
        BY <1>4, <1>12, <1>13, <3>1, <3>2 DEF Place
    <2> QED
      BY <2>1, <2>2
  <1>16. Marked(m, off, end)'
    <2>1. phase' \in {"number", "length", "id"}
      BY <1>3
    <2> QED
      BY <1>2, <1>3, <2>1, StaysMarked
  <1> QED
    BY <1>7, <1>12, <1>14, <1>15, <1>16 DEF WireInv

LEMMA BytesWire == ASSUME WireInv, getBytes PROVE WireInv'
  <1>1. WireTypes
    BY DEF WireInv
  <1>2. PICK m, off, pos, end :
           /\ Message(m, off) /\ Window(m, pos, end) /\ Place(off, pos)
           /\ Marked(m, off, end)
    BY DEF WireInv
  <1> DEFINE k == Len(got)
             b == sent[k + 1]
             l == Len(encodeVarInt(b.number))
             g == Len(encodeVarInt(Len(b.id)))
             h == Len(b.id)
             o == off[k]
             next == off[k + 1]
             id == SubSeq(encoded, 1, res)
             size == Len(encoded)
  <1>3. /\ phase = "id" /\ res <= size
        /\ got' = Append(got, [number |-> number, id |-> id])
        /\ encoded' = SubSeq(encoded, res + 1, size)
        /\ phase' = "bound"
        /\ UNCHANGED <<port, sent, ends, arrived, res, number>>
    BY DEF getBytes
  <1>4. /\ k < Len(sent) /\ pos = o + l + g /\ res = h
        /\ Representable => number = b.number
    BY <1>2, <1>3 DEF Place
  <1>5. /\ sent \in Seq(BoundOnWire) /\ k \in Nat /\ Len(sent) \in Nat
        /\ encoded \in Seq(Byte) /\ size \in Nat /\ number \in Int
        /\ got \in Seq([number : Int, id : Seq(Byte)])
    BY <1>1 DEF WireTypes
  <1>6. /\ b \in BoundOnWire /\ o \in Nat /\ l \in Nat /\ g \in Nat /\ h \in Nat
        /\ next = o + l + g + h
        /\ \A i \in 1 .. h : m[o + l + g + i] = b.id[i]
        /\ b.id \in Seq(Byte)
    <2>0. Message(m, off) /\ k \in Nat /\ k < Len(sent)
          /\ sent \in Seq(BoundOnWire)
      BY <1>2, <1>4, <1>5
    <2>1. /\ b \in BoundOnWire /\ o \in Nat /\ h \in Nat
          /\ l \in Nat \ {0} /\ g \in Nat \ {0} /\ b.id \in Seq(Byte)
      BY <2>0, BoundInMessage
    <2>3. next = o + l + g + h
      BY <2>0, BoundInMessage
    <2>4. \A i \in 1 .. h : m[o + l + g + i] = b.id[i]
      BY <2>0, BoundInMessage
    <2>2. l \in Nat /\ g \in Nat
      BY <2>1
    <2> QED
      BY <2>1, <2>2, <2>3, <2>4
  <1>7. /\ pos \in Nat /\ end \in Nat /\ end <= Len(m)
        /\ size = end - pos
        /\ \A i \in 1 .. size : encoded[i] = m[pos + i]
    BY <1>2 DEF Window
  <1>8. id = b.id /\ id \in Seq(Byte)
    <2> DEFINE x == b.id
    <2>1. x \in Seq(Byte) /\ Len(x) = h /\ h \in Nat /\ h <= size
      BY <1>3, <1>4, <1>6
    <2>2. \A i \in 1 .. h : encoded[i] = x[i]
      <3>1. ASSUME NEW i \in 1 .. h PROVE i \in 1 .. size /\ pos = o + l + g
        <4>1. pos = o + l + g
          BY <1>4
        <4> HIDE DEF size, h, l, g, o
        <4> QED
          BY <1>5, <2>1, <4>1
      <3> QED
        BY <1>6, <1>7, <3>1
    <2>3. SubSeq(encoded, 1, h) \in Seq(Byte) /\ Len(SubSeq(encoded, 1, h)) = h
          /\ \A i \in 1 .. h : SubSeq(encoded, 1, h)[i] = encoded[i]
      <3> HIDE DEF h
      <3> QED
        BY <1>5, <2>1
    <2> HIDE DEF x, h
    <2>4. SubSeq(encoded, 1, h) = x
      BY <2>1, <2>2, <2>3
    <2> QED
      BY <1>4, <2>3, <2>4 DEF x
  <1>9. /\ encoded' \in Seq(Byte) /\ Len(encoded') = size - h
        /\ \A i \in 1 .. size - h : encoded'[i] = encoded[h + i]
    <2>1. encoded' = SubSeq(encoded, h + 1, size) /\ h <= size /\ h \in Nat
      BY <1>3, <1>4, <1>6
    <2> HIDE DEF h
    <2>2. encoded' \in Seq(Byte) /\ Len(encoded') = size - h
      BY <1>5, <2>1
    <2>3. ASSUME NEW i \in 1 .. size - h PROVE encoded'[i] = encoded[h + i]
      <3>1. (h + 1) + i - 1 = h + i
        BY <2>1
      <3> QED
        BY <1>5, <2>1, <3>1
    <2> QED
      BY <2>2, <2>3
  <1>10. Message(m, off)' /\ Representable' = Representable
    BY <1>2, <1>3, Reading
  <1>11. pos + h = next /\ pos + h \in Nat /\ pos + h <= end
         /\ size - h = end - (pos + h)
    <2>1. h <= size /\ pos = o + l + g
      BY <1>3, <1>4
    <2>2. /\ o \in Nat /\ l \in Nat /\ g \in Nat /\ h \in Nat /\ size \in Nat
          /\ next = o + l + g + h
      BY <1>5, <1>6
    <2>3. pos \in Nat /\ end \in Nat /\ size = end - pos
      BY <1>7
    <2> HIDE DEF h, l, g, o, next, size
    <2> QED
      BY ONLY <2>1, <2>2, <2>3
  <1>p. PICK p : p = pos + h
    OBVIOUS
  <1>12. Window(m, p, end)'
    <2>1. ASSUME NEW i \in 1 .. size - h
          PROVE  encoded'[i] = m[(pos + h) + i]
      <3>1. h + i \in 1 .. size /\ pos + (h + i) = (pos + h) + i
        <4>1. i \in 1 .. size - h
          OBVIOUS
        <4> HIDE DEF h, size
        <4> QED
          BY <1>5, <1>6, <1>7, <4>1
      <3> QED
        BY <1>7, <1>9, <3>1
    <2>2. Len(encoded') = end - (pos + h)
      BY <1>9, <1>11
    <2>3. 1 .. Len(encoded') = 1 .. size - h
      BY <1>9
    <2> QED
      BY <1>7, <1>11, <1>p, <2>1, <2>2, <2>3 DEF Window
  <1> DEFINE new == [number |-> number, id |-> id]
  <1>13. new \in [number : Int, id : Seq(Byte)]
    BY <1>5, <1>8
  <1>14. /\ got' \in Seq([number : Int, id : Seq(Byte)]) /\ Len(got') = k + 1
         /\ got'[k + 1] = new /\ \A i \in 1 .. k : got'[i] = got[i]
    <2>1. got' = Append(got, new)
      BY <1>3
    <2> HIDE DEF new
    <2> QED
      BY <1>5, <1>13, <2>1
  <1>15. k + 1 <= Len(sent)
    BY <1>4, <1>5
  <1>16. Representable => \A i \in 1 .. k + 1 : got'[i] = sent[i]
    <2> SUFFICES ASSUME Representable, NEW i \in 1 .. k + 1
                 PROVE  got'[i] = sent[i]
      OBVIOUS
    <2>1. CASE i = k + 1
      <3>1. b = [number |-> b.number, id |-> b.id]
        BY <1>6 DEF BoundOnWire
      <3> QED
        BY <1>4, <1>8, <1>14, <2>1, <3>1
    <2>2. CASE i # k + 1
      <3>1. i \in 1 .. k
        BY <1>5, <2>2
      <3> QED
        BY <1>1, <1>14, <3>1 DEF WireTypes
    <2> QED
      BY <2>1, <2>2
  <1>17. WireTypes'
    <2> HIDE DEF k
    <2> QED
      BY <1>1, <1>3, <1>9, <1>10, <1>14, <1>15, <1>16 DEF WireTypes
  <1>18. Place(off, p)'
    <2>1. p = off[k + 1]
      BY <1>11, <1>p
    <2> QED
      BY <1>3, <1>14, <1>15, <2>1 DEF Place
  <1>19. Marked(m, off, end)'
    BY <1>2, <1>3 DEF Marked
  <1> QED
    BY <1>10, <1>12, <1>17, <1>18, <1>19 DEF WireInv

LEMMA EndsWire == ASSUME WireInv, EndsPrematurely PROVE WireInv'
  <1>1. WireTypes
    BY DEF WireInv
  <1>2. PICK m, off, pos, end :
           /\ Message(m, off) /\ Window(m, pos, end) /\ Place(off, pos)
           /\ Marked(m, off, end)
    BY DEF WireInv
  <1> DEFINE k == Len(got)
             b == sent[k + 1]
             l == Len(encodeVarInt(b.number))
             g == Len(encodeVarInt(Len(b.id)))
             h == Len(b.id)
             o == off[k]
             next == off[k + 1]
             size == Len(encoded)
             total == Len(m)
  <1>3. /\ phase \in {"number", "length", "id"} /\ phase' = "failed"
        /\ phase \in {"number", "length"} => encoded = <<>>
        /\ phase = "id" => res > size
        /\ UNCHANGED <<port, sent, ends, encoded, arrived, res, number, got>>
    BY DEF EndsPrematurely
  <1>4. k < Len(sent) /\ k <= Len(sent)
    BY <1>2, <1>3 DEF Place
  <1>5. /\ sent \in Seq(BoundOnWire) /\ k \in Nat
        /\ size \in Nat
    BY <1>1 DEF WireTypes
  <1>6. /\ o \in Nat /\ l \in Nat \ {0} /\ g \in Nat \ {0} /\ h \in Nat
        /\ next = o + l + g + h /\ next <= total /\ total \in Nat
    BY <1>2, <1>4, <1>5, BoundInMessage
  <1>7. /\ pos \in Nat /\ end \in Nat
        /\ size = end - pos
    BY <1>2 DEF Window
  <1>8. pos + size < next
    <2>1. CASE phase = "number"
      <3>1. PICK j \in Nat : pos = o + j /\ j < l
        BY <1>2, <2>1 DEF Place
      <3>2. size = 0
        BY <1>3, <2>1
      <3> HIDE DEF o, l, g, h, next, size
      <3> QED
        BY <1>6, <3>1, <3>2
    <2>2. CASE phase = "length"
      <3>1. PICK j \in Nat : pos = o + l + j /\ j < g
        BY <1>2, <2>2 DEF Place
      <3>2. size = 0
        BY <1>3, <2>2
      <3> HIDE DEF o, l, g, h, next, size
      <3> QED
        BY <1>6, <3>1, <3>2
    <2>3. CASE phase = "id"
      <3>1. pos = o + l + g /\ size < h
        <4>1. res = h /\ pos = o + l + g
          BY <1>2, <2>3 DEF Place
        <4>2. h > size
          BY <1>3, <2>3, <4>1
        <4> HIDE DEF h, size
        <4> QED
          BY <1>5, <1>6, <4>1, <4>2
      <3> HIDE DEF o, l, g, h, next, size
      <3> QED
        BY <1>5, <1>6, <3>1
    <2> QED
      BY <1>3, <2>1, <2>2, <2>3
  <1>9. end < next
    <2> HIDE DEF o, l, g, h, next, size, total
    <2> QED
      BY <1>5, <1>6, <1>7, <1>8
  <1>10. Message(m, off)' /\ Representable' = Representable
    BY <1>2, <1>3, Reading
  <1>11. Window(m, pos, end)'
    BY <1>2, <1>3 DEF Window
  <1>12. WireTypes'
    BY <1>1, <1>3, <1>10 DEF WireTypes
  <1>13. Place(off, pos)'
    BY <1>3, <1>4 DEF Place
  <1>14. Marked(m, off, end)'
    BY <1>2, <1>3, <1>9 DEF Marked
  <1> QED
    BY <1>10, <1>11, <1>12, <1>13, <1>14 DEF WireInv

LEMMA NextWire == WireInv /\ [Next]_vars => WireInv'
  <1> SUFFICES ASSUME WireInv, [Next]_vars PROVE WireInv'
    OBVIOUS
  <1>1. CASE \E b \in BoundOnWire : Write(b)
    BY <1>1, WriteWire
  <1>2. CASE \E n \in 0 .. Len(encoded) : Deliver(n)
    BY <1>2, DeliverWire
  <1>3. CASE BeginBound
    BY <1>3, BeginWire
  <1>4. CASE decodeVarInt
    <2>1. phase \in {"number", "length"}
      BY <1>4 DEF decodeVarInt
    <2> QED
      BY <1>4, <2>1, NumberWire, LengthWire
  <1>5. CASE getBytes
    BY <1>5, BytesWire
  <1>6. CASE EndsPrematurely
    BY <1>6, EndsWire
  <1>7. CASE UNCHANGED vars
    <2>1. /\ UNCHANGED <<port, sent>>
          /\ UNCHANGED <<ends, encoded, arrived, phase, res, number, got>>
      BY <1>7 DEF vars
    <2>2. Representable' = Representable
          /\ \A m, off : Message(m, off)' = Message(m, off)
          /\ \A n : encodeVarInt(n)' = encodeVarInt(n)
      BY <2>1, Reading
    <2>3. WireTypes'
      BY <2>1, <2>2 DEF WireInv, WireTypes
    <2>4. PICK m, off, pos, end :
             /\ Message(m, off) /\ Window(m, pos, end) /\ Place(off, pos)
             /\ Marked(m, off, end)
      BY DEF WireInv
    <2>5. Window(m, pos, end)' /\ Message(m, off)'
      BY <2>1, <2>2, <2>4 DEF Window
    <2>6. Place(off, pos)'
      BY <2>1, <2>2, <2>4 DEF Place
    <2>7. Marked(m, off, end)'
      BY <2>1, <2>4 DEF Marked
    <2> QED
      BY <2>3, <2>5, <2>6, <2>7 DEF WireInv
  <1> QED
    BY <1>1, <1>2, <1>3, <1>4, <1>5, <1>6, <1>7 DEF Next

-----------------------------------------------------------------------------
(* Whatever the JavaScript port makes of numbers it cannot represent, the  *)
(* variables keep their types, and what is read of numbers it can are      *)
(* bounds somebody might have written.                                     *)
THEOREM ReaderTypes == Spec => []TypeOK
  <1> QED
    BY InitWire, NextWire, WireShows, PTL DEF Spec

(* encodeVarInt and decodeVarInt are inverse to each other for every       *)
(* uint64_t, and the bounds of a message, without separators and with IDs  *)
(* that may look like varints, are told apart: wherever the message was    *)
(* cut, decodeBound has returned the first bounds that were written.       *)
THEOREM BoundsReadAsWritten == Spec => []ReadsWhatWasWritten
  <1> QED
    BY InitWire, NextWire, WireShows, PTL DEF Spec

(* The reader ends where a bound ends and only there, with all bytes that  *)
(* arrived; "parse ends prematurely" is thrown within the first bound that *)
(* was cut and only there - also where the JavaScript port decodes numbers *)
(* wrongly.                                                                *)
THEOREM TruncationNoticed == Spec => []NoticesTruncation
  <1> QED
    BY InitWire, NextWire, WireShows, PTL DEF Spec
=============================================================================
