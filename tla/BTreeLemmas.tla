---------------------------- MODULE BTreeLemmas -----------------------------
(***************************************************************************)
(* Lemmas of module BTree: ranks and sums; recursive functions, and sequences*)
(* of sequences; a tree of linked levels, of which a node is added, dropped,*)
(* or exchanges keys with the next one; the search; and the first part of  *)
(* insertItem, up to the split of a node.                                  *)
(*                                                                         *)
(* T and R are node stores before a change, N and S after it, h the levels *)
(* of their nodes (module BTreeShape).                                     *)
(***************************************************************************)
EXTENDS BTreeShape, FiniteSetTheorems, NaturalsInduction, WellFoundedInduction,
        SequenceTheorems, TLAPS

-----------------------------------------------------------------------------
(* Numbers.                                                                *)

LEMMA LeastNumber ==
    ASSUME NEW T, T \subseteq Nat, T # {}
    PROVE  \E m \in T : \A k \in T : m <= k
  <1> DEFINE R == OpToRel(<, Nat)
  <1>1. IsWellFoundedOn(R, Nat)
    BY NatLessThanWellFounded
  <1>2. \A x, y \in Nat : x < y => <<x, y>> \in R
    BY SMT DEF OpToRel
  <1> HIDE DEF R
  <1>3. PICK m \in T : \A k \in T : ~(<<k, m>> \in R)
    BY <1>1, WFMin
  <1>4. ASSUME NEW k \in T
        PROVE  m <= k
    <2>1. m \in Nat /\ k \in Nat
      OBVIOUS
    <2>2. ~(k < m)
      BY <1>2, <1>3, <2>1
    <2> QED
      BY <2>1, <2>2, SMT
  <1> QED
    BY <1>4

-----------------------------------------------------------------------------
(* Sequences: concatenation, a sequence in two parts, one element more or  *)
(* less.  *)
Joins(S, a, b, c) ==
    /\ c \in Seq(S) /\ Len(c) = Len(a) + Len(b)
    /\ \A i \in 1 .. Len(a) : c[i] = a[i]
    /\ \A i \in 1 .. Len(b) : c[Len(a) + i] = b[i]

LEMMA Joined ==
    ASSUME NEW S, NEW a \in Seq(S), NEW b \in Seq(S), NEW c, c = a \o b
    PROVE  Joins(S, a, b, c)
  <1>0. Len(a) \in Nat /\ Len(b) \in Nat
    BY LenProperties
  <1>1. /\ c \in Seq(S) /\ Len(c) = Len(a) + Len(b)
        /\ \A i \in 1 .. Len(a) + Len(b) :
              c[i] = IF i <= Len(a) THEN a[i] ELSE b[i - Len(a)]
    BY ConcatProperties
  <1>2. \A i \in 1 .. Len(a) : i \in 1 .. Len(a) + Len(b) /\ i <= Len(a)
    BY <1>0
  <1>3. \A i \in 1 .. Len(b) : /\ Len(a) + i \in 1 .. Len(a) + Len(b)
                               /\ ~(Len(a) + i <= Len(a))
                               /\ (Len(a) + i) - Len(a) = i
    BY <1>0
  <1> QED
    BY <1>1, <1>2, <1>3 DEF Joins

Parts(S, s, n, a, b) ==
    /\ a \in Seq(S) /\ Len(a) = n /\ \A i \in 1 .. n : a[i] = s[i]
    /\ b \in Seq(S) /\ Len(b) = Len(s) - n
    /\ \A i \in 1 .. Len(s) - n : b[i] = s[n + i]
    /\ a \o b = s

LEMMA Cut ==
    ASSUME NEW S, NEW s \in Seq(S), NEW n \in 0 .. Len(s)
    PROVE  Parts(S, s, n, SubSeq(s, 1, n), SubSeq(s, n + 1, Len(s)))
  <1>0. Len(s) \in Nat /\ n \in Nat /\ n <= Len(s)
    BY LenProperties
  <1>1. \A i \in 1 .. Len(s) : s[i] \in S
    BY <1>0
  <1>2. /\ SubSeq(s, 1, n) \in Seq(S)
        /\ Len(SubSeq(s, 1, n)) = n
        /\ \A i \in 1 .. n - 1 + 1 : SubSeq(s, 1, n)[i] = s[1 + i - 1]
    BY <1>0, <1>1, SubSeqProperties
  <1>3. /\ SubSeq(s, n + 1, Len(s)) \in Seq(S)
        /\ Len(SubSeq(s, n + 1, Len(s))) = Len(s) - n
        /\ \A i \in 1 .. Len(s) - (n + 1) + 1 :
              SubSeq(s, n + 1, Len(s))[i] = s[(n + 1) + i - 1]
    <2>1. n + 1 \in Int /\ Len(s) \in Int /\ \A i \in n + 1 .. Len(s) : s[i] \in S
      BY <1>0, <1>1
    <2>2. /\ SubSeq(s, n + 1, Len(s)) \in Seq(S)
          /\ Len(SubSeq(s, n + 1, Len(s))) =
                IF n + 1 <= Len(s) THEN Len(s) - (n + 1) + 1 ELSE 0
          /\ \A i \in 1 .. Len(s) - (n + 1) + 1 :
                SubSeq(s, n + 1, Len(s))[i] = s[(n + 1) + i - 1]
      BY <2>1, SubSeqProperties
    <2> QED
      BY <1>0, <2>2
  <1>4. \A i \in 1 .. n : i \in 1 .. n - 1 + 1 /\ 1 + i - 1 = i
    BY <1>0
  <1>5. \A i \in 1 .. Len(s) - n :
           i \in 1 .. Len(s) - (n + 1) + 1 /\ (n + 1) + i - 1 = n + i
    BY <1>0
  <1>6. SubSeq(s, 1, n) \o SubSeq(s, n + 1, Len(s)) = SubSeq(s, 1, Len(s))
    <2>1. 1 \in 1 .. Len(s) + 1 /\ n \in 1 - 1 .. Len(s) /\ Len(s) \in n .. Len(s)
      BY <1>0
    <2> QED
      BY <2>1, ConcatAdjacentSubSeq
  <1>7. SubSeq(s, 1, Len(s)) = s
    BY SubSeqFull
  <1>8. PICK a, b : a = SubSeq(s, 1, n) /\ b = SubSeq(s, n + 1, Len(s))
    OBVIOUS
  <1>9. Parts(S, s, n, a, b)
    BY <1>2, <1>3, <1>4, <1>5, <1>6, <1>7, <1>8 DEF Parts
  <1> QED
    BY <1>8, <1>9

Inserted(S, s, i, e, t) ==
    /\ t \in Seq(S)
    /\ Len(t) = Len(s) + 1
    /\ \A j \in 1 .. i - 1 : t[j] = s[j]
    /\ t[i] = e
    /\ \A j \in i .. Len(s) : t[j + 1] = s[j]
    /\ \E a, b \in Seq(S) : t = (a \o <<e>>) \o b /\ s = a \o b

LEMMA InsertAtIs ==
    ASSUME NEW S, NEW s \in Seq(S), NEW i \in 1 .. Len(s) + 1, NEW e \in S
    PROVE  Inserted(S, s, i, e, InsertAt(s, i, e))
  <1>0. Len(s) \in Nat /\ i \in Int /\ 1 <= i /\ i <= Len(s) + 1
    BY LenProperties
  <1>t. PICK t : t = InsertAt(s, i, e)
    OBVIOUS
  <1>1. PICK n : n = i - 1
    OBVIOUS
  <1>2. n \in 0 .. Len(s) /\ n + 1 = i
    BY <1>0, <1>1
  <1>3. PICK a, b : a = SubSeq(s, 1, n) /\ b = SubSeq(s, n + 1, Len(s))
    OBVIOUS
  <1>4. Parts(S, s, n, a, b)
    BY <1>2, <1>3, Cut
  <1>5. t = (a \o <<e>>) \o b
    BY <1>t, <1>1, <1>2, <1>3 DEF InsertAt
  <1>6. PICK c, d : c = a \o <<e>> /\ d = <<e>>
    OBVIOUS
  <1>7. d \in Seq(S) /\ Len(d) = 1 /\ d[1] = e
    BY <1>6
  <1>a. a \in Seq(S) /\ b \in Seq(S) /\ s = a \o b
    BY <1>4 DEF Parts
  <1>8. Joins(S, a, d, c)
    BY <1>a, <1>6, <1>7, Joined
  <1>c. c \in Seq(S)
    BY <1>8 DEF Joins
  <1>9. Joins(S, c, b, t)
    BY <1>a, <1>5, <1>6, <1>c, Joined
  <1>10. Len(c) = i /\ Len(t) = Len(s) + 1 /\ t \in Seq(S) /\ Len(a) = n
    BY <1>0, <1>2, <1>4, <1>7, <1>8, <1>9 DEF Parts, Joins
  <1>11. ASSUME NEW j \in 1 .. i - 1 PROVE t[j] = s[j]
    <2>1. j \in 1 .. n /\ j \in 1 .. Len(a) /\ j \in 1 .. Len(c)
      BY <1>0, <1>1, <1>10
    <2> QED
      BY <2>1, <1>4, <1>8, <1>9 DEF Parts, Joins
  <1>12. t[i] = e
    <2>1. i \in 1 .. Len(c) /\ n + 1 = i /\ 1 \in 1 .. Len(d) /\ Len(a) = n
      BY <1>0, <1>2, <1>7, <1>10
    <2>2. t[i] = c[i]
      BY <1>9, <2>1 DEF Joins
    <2>3. c[n + 1] = d[1]
      BY <1>8, <2>1 DEF Joins
    <2> QED
      BY <1>7, <2>1, <2>2, <2>3
  <1>13. ASSUME NEW j \in i .. Len(s) PROVE t[j + 1] = s[j]
    <2>1. PICK k : k = j - n
      OBVIOUS
    <2>2. Len(b) = Len(s) - n
      BY <1>4 DEF Parts
    <2>3. k \in 1 .. Len(b) /\ k \in 1 .. Len(s) - n /\ Len(c) + k = j + 1 /\ n + k = j
      BY <1>0, <1>2, <1>10, <2>1, <2>2
    <2>4. t[Len(c) + k] = b[k]
      BY <1>9, <2>3 DEF Joins
    <2>5. b[k] = s[n + k]
      BY <1>4, <2>3 DEF Parts
    <2> QED
      BY <2>3, <2>4, <2>5
  <1>14. \E x, y \in Seq(S) : t = (x \o <<e>>) \o y /\ s = x \o y
    BY <1>a, <1>5
  <1>15. Inserted(S, s, i, e, t)
    BY <1>10, <1>11, <1>12, <1>13, <1>14 DEF Inserted
  <1> QED
    BY <1>t, <1>15

Removed(S, s, i, t) ==
    /\ t \in Seq(S)
    /\ Len(t) = Len(s) - 1
    /\ \A j \in 1 .. i - 1 : t[j] = s[j]
    /\ \A j \in i .. Len(t) : t[j] = s[j + 1]
    /\ s = InsertAt(t, i, s[i])

LEMMA RemoveAtIs ==
    ASSUME NEW S, NEW s \in Seq(S), NEW i \in 1 .. Len(s)
    PROVE  Removed(S, s, i, RemoveAt(s, i))
  <1>0. Len(s) \in Nat /\ i \in Int /\ 1 <= i /\ i <= Len(s) /\ s[i] \in S
    BY LenProperties
  <1>t. PICK t : t = RemoveAt(s, i)
    OBVIOUS
  <1>1. PICK n : n = i - 1
    OBVIOUS
  <1>2. n \in 0 .. Len(s) /\ n + 1 = i /\ i \in 0 .. Len(s)
    BY <1>0, <1>1
  <1>3. PICK a, b, a2, b2 : /\ a = SubSeq(s, 1, n) /\ b2 = SubSeq(s, n + 1, Len(s))
                            /\ a2 = SubSeq(s, 1, i) /\ b = SubSeq(s, i + 1, Len(s))
    OBVIOUS
  <1>4. Parts(S, s, n, a, b2)
    BY <1>2, <1>3, Cut
  <1>5. Parts(S, s, i, a2, b)
    BY <1>2, <1>3, Cut
  <1>6. t = a \o b
    BY <1>t, <1>1, <1>3 DEF RemoveAt
  <1>a. a \in Seq(S) /\ b \in Seq(S) /\ Len(a) = n /\ Len(b) = Len(s) - i
    BY <1>4, <1>5 DEF Parts
  <1>7. Joins(S, a, b, t)
    BY <1>a, <1>6, Joined
  <1>8. t \in Seq(S) /\ Len(t) = Len(s) - 1
    BY <1>0, <1>1, <1>a, <1>7 DEF Joins
  <1>9. ASSUME NEW j \in 1 .. i - 1 PROVE t[j] = s[j]
    <2>1. j \in 1 .. n /\ j \in 1 .. Len(a)
      BY <1>0, <1>1, <1>a
    <2> QED
      BY <2>1, <1>4, <1>7 DEF Parts, Joins
  <1>10. ASSUME NEW j \in i .. Len(t) PROVE t[j] = s[j + 1]
    <2>1. PICK k : k = j - n
      OBVIOUS
    <2>2. k \in 1 .. Len(b) /\ k \in 1 .. Len(s) - i /\ Len(a) + k = j /\ i + k = j + 1
      BY <1>0, <1>1, <1>a, <1>8, <2>1
    <2>3. t[Len(a) + k] = b[k]
      BY <1>7, <2>2 DEF Joins
    <2>4. b[k] = s[i + k]
      BY <1>5, <2>2 DEF Parts
    <2> QED
      BY <2>2, <2>3, <2>4
  <1>11. PICK r : r = InsertAt(t, i, s[i])
    OBVIOUS
  <1>12. i \in 1 .. Len(t) + 1
    BY <1>0, <1>8
  <1>13. Inserted(S, t, i, s[i], r)
    BY <1>0, <1>8, <1>11, <1>12, InsertAtIs
  <1>14. ASSUME NEW j \in 1 .. Len(s) PROVE s[j] = r[j]
    <2>1. CASE j < i
      <3>1. j \in 1 .. i - 1
        BY <1>0, <2>1
      <3>2. r[j] = t[j]
        BY <1>13, <3>1 DEF Inserted
      <3> QED
        BY <1>9, <3>1, <3>2
    <2>2. CASE j = i
      BY <1>13, <2>2 DEF Inserted
    <2>3. CASE j > i
      <3>1. PICK k : k = j - 1
        OBVIOUS
      <3>2. k \in i .. Len(t) /\ k + 1 = j
        BY <1>0, <1>8, <2>3, <3>1
      <3>3. r[k + 1] = t[k]
        BY <1>13, <3>2 DEF Inserted
      <3> QED
        BY <1>10, <3>2, <3>3
    <2> QED
      BY <1>0, <2>1, <2>2, <2>3
  <1>15. Len(r) = Len(s) /\ r \in Seq(S)
    BY <1>0, <1>8, <1>13 DEF Inserted
  <1>16. s = r
    BY <1>14, <1>15, SeqEqual
  <1>17. Removed(S, s, i, t)
    BY <1>8, <1>9, <1>10, <1>11, <1>16 DEF Removed
  <1> QED
    BY <1>t, <1>17

-----------------------------------------------------------------------------
(* Sums.                                                                   *)

SumsUpTo(f, s, n) ==
    /\ f \in [0 .. Len(s) -> Int]
    /\ f[0] = 0
    /\ \A i \in 1 .. n : f[i] = f[i - 1] + s[i]

LEMMA SumsExist ==
    ASSUME NEW s \in Seq(Int), NEW n \in 0 .. Len(s)
    PROVE  \E f : SumsUpTo(f, s, n)
  <1> DEFINE T == {m \in Nat : m <= Len(s) /\ \A f : ~SumsUpTo(f, s, m)}
  <1>0. Len(s) \in Nat
    OBVIOUS
  <1>1. SUFFICES ASSUME T # {} PROVE FALSE
    OBVIOUS
  <1>2. PICK m \in T : \A k \in T : m <= k
    BY <1>1, LeastNumber
  <1>3. m \in 0 .. Len(s) /\ \A f : ~SumsUpTo(f, s, m)
    BY <1>2, <1>0
  <1>4. m # 0
    <2> DEFINE f == [i \in 0 .. Len(s) |-> 0]
    <2>1. SumsUpTo(f, s, 0)
      BY <1>0 DEF SumsUpTo
    <2> QED
      BY <1>3, <2>1
  <1>5. m - 1 \in 0 .. Len(s) /\ ~(m <= m - 1)
    BY <1>3, <1>4, <1>0
  <1>6. PICK f : SumsUpTo(f, s, m - 1)
    BY SMTT(30), <1>2, <1>5
  <1> DEFINE g == [f EXCEPT ![m] = f[m - 1] + s[m]]
  <1>7. SumsUpTo(g, s, m)
    <2>0. f \in [0 .. Len(s) -> Int]
      BY <1>6 DEF SumsUpTo
    <2>1. f \in [0 .. Len(s) -> Int] /\ f[m - 1] \in Int /\ s[m] \in Int
      <3>1. m \in 1 .. Len(s)
        BY <1>0, <1>3, <1>4
      <3> QED
        BY SMTT(30), <1>5, <2>0, <3>1
    <2>2. g \in [0 .. Len(s) -> Int]
      BY <2>1
    <2>3. g[0] = 0
      BY <1>0, <1>3, <1>4, <1>6, <2>1 DEF SumsUpTo
    <2>4. ASSUME NEW i \in 1 .. m PROVE g[i] = g[i - 1] + s[i]
      <3>1. i \in 0 .. Len(s) /\ i - 1 \in 0 .. Len(s) /\ i - 1 # m
        BY <1>0, <1>3
      <3>2. g[i - 1] = f[i - 1]
        BY <2>1, <3>1
      <3>3. CASE i = m
        BY <1>3, <2>1, <3>2, <3>3
      <3>4. CASE i # m
        <4>1. i \in 1 .. m - 1
          BY <1>0, <1>3, <3>4
        <4> QED
          BY <1>6, <2>1, <3>1, <3>2, <3>4, <4>1 DEF SumsUpTo
      <3> QED
        BY <3>3, <3>4
    <2> QED
      BY <2>2, <2>3, <2>4 DEF SumsUpTo
  <1> QED
    BY <1>3, <1>7

LEMMA TotalIsSum ==
    ASSUME NEW s \in Seq(Int)
    PROVE  \E f : SumsUpTo(f, s, Len(s)) /\ total(s) = f[Len(s)]
  <1> DEFINE step(f) == [n \in 0 .. Len(s) |->
                            IF n = 0 THEN 0 ELSE f[n - 1] + s[n]]
             first == CHOOSE f : f = step(f)
  <1>0. Len(s) \in Nat
    OBVIOUS
  <1>1. total(s) = first[Len(s)]
    BY DEF total
  <1>2. PICK f : SumsUpTo(f, s, Len(s))
    BY <1>0, SumsExist
  <1>3. f = step(f)
    BY <1>0, <1>2 DEF SumsUpTo
  <1> HIDE DEF step
  <1>4. first = step(first)
    BY <1>3
  <1> HIDE DEF first
  <1>5. /\ first = [n \in 0 .. Len(s) |-> first[n]]
        /\ first[0] = 0
        /\ \A i \in 1 .. Len(s) : first[i] = first[i - 1] + s[i]
    BY <1>0, <1>4 DEF step
  <1>6. \A i \in 0 .. Len(s) : first[i] \in Int
    <2> DEFINE T == {m \in Nat : m <= Len(s) /\ first[m] \notin Int}
    <2>1. SUFFICES ASSUME T # {} PROVE FALSE
      BY <1>0
    <2>2. PICK m \in T : \A k \in T : m <= k
      BY <2>1, LeastNumber
    <2>3. m \in 0 .. Len(s) /\ first[m] \notin Int
      BY <2>2, <1>0
    <2>4. m \in 1 .. Len(s) /\ m - 1 \in 0 .. Len(s) /\ ~(m <= m - 1)
      BY <1>0, <1>5, <2>3
    <2>5. first[m - 1] \in Int
      BY <2>2, <2>4
    <2>6. s[m] \in Int
      BY <2>4
    <2>7. first[m] = first[m - 1] + s[m]
      BY <1>5, <2>4
    <2> QED
      BY <2>3, <2>5, <2>6, <2>7
  <1>7. SumsUpTo(first, s, Len(s))
    BY <1>5, <1>6 DEF SumsUpTo
  <1> QED
    BY <1>1, <1>7

SamePart(s, t, m, n) == \A i \in 1 .. n : s[i] = t[m + i]
SumOnTop(f, g, m, n, d) == g[m + n] = d + f[n]

(* Two sums that take the same steps. *)
LEMMA SumsAgree ==
    ASSUME NEW s \in Seq(Int), NEW t \in Seq(Int), NEW f, NEW g,
           NEW m \in Nat, NEW n \in Nat, NEW d \in Int,
           SumsUpTo(f, s, Len(s)), SumsUpTo(g, t, Len(t)),
           n <= Len(s), m + n <= Len(t), SumOnTop(f, g, m, 0, d),
           SamePart(s, t, m, n)
    PROVE  SumOnTop(f, g, m, n, d)
  <1> DEFINE T == {k \in Nat : k <= n /\ g[m + k] # d + f[k]}
  <1>0. Len(s) \in Nat /\ Len(t) \in Nat
    OBVIOUS
  <1>1. SUFFICES ASSUME T # {} PROVE FALSE
    <2>1. SUFFICES ASSUME g[m + n] # d + f[n] PROVE FALSE
      BY DEF SumOnTop
    <2>2. n \in T
      BY <2>1
    <2> QED
      BY <2>2
  <1>2. PICK k \in T : \A j \in T : k <= j
    BY <1>1, LeastNumber
  <1>3. k \in 0 .. n /\ g[m + k] # d + f[k]
    BY <1>2
  <1>4. k # 0
    BY <1>3 DEF SumsUpTo, SumOnTop
  <1>5. k - 1 \in 0 .. n /\ ~(k <= k - 1)
    BY <1>3, <1>4
  <1>6. g[m + (k - 1)] = d + f[k - 1]
    BY <1>2, <1>5
  <1>7. k \in 1 .. Len(s) /\ m + k \in 1 .. Len(t) /\ (m + k) - 1 = m + (k - 1)
    BY SMTT(30), <1>0, <1>3, <1>4
  <1>8. f[k] = f[k - 1] + s[k] /\ g[m + k] = g[m + (k - 1)] + t[m + k]
    BY <1>7 DEF SumsUpTo
  <1>9. s[k] = t[m + k] /\ s[k] \in Int
    BY <1>3, <1>4, <1>7 DEF SamePart
  <1>10. f[k - 1] \in Int
    <2>1. k - 1 \in 0 .. Len(s)
      BY <1>0, <1>7
    <2> QED
      BY <2>1 DEF SumsUpTo
  <1> QED
    BY SMTT(30), <1>3, <1>6, <1>8, <1>9, <1>10

LEMMA TotalType ==
    ASSUME NEW s \in Seq(Int)
    PROVE  total(s) \in Int
  BY TotalIsSum DEF SumsUpTo

LEMMA TotalNat ==
    ASSUME NEW s \in Seq(Nat)
    PROVE  total(s) \in Nat
  <1>0. s \in Seq(Int) /\ Len(s) \in Nat
    OBVIOUS
  <1>1. PICK f : SumsUpTo(f, s, Len(s)) /\ total(s) = f[Len(s)]
    BY <1>0, TotalIsSum
  <1> DEFINE T == {k \in Nat : k <= Len(s) /\ f[k] \notin Nat}
  <1>2. SUFFICES ASSUME T # {} PROVE FALSE
    BY <1>0, <1>1
  <1>3. PICK k \in T : \A j \in T : k <= j
    BY <1>2, LeastNumber
  <1>4. k \in 0 .. Len(s) /\ f[k] \notin Nat
    BY <1>0, <1>3
  <1>5. k # 0
    BY <1>1, <1>4 DEF SumsUpTo
  <1>6. k - 1 \in 0 .. Len(s) /\ ~(k <= k - 1) /\ k \in 1 .. Len(s)
    BY <1>0, <1>4, <1>5
  <1>7. f[k - 1] \in Nat
    BY <1>3, <1>6
  <1>8. f[k] = f[k - 1] + s[k] /\ s[k] \in Nat
    BY <1>1, <1>6 DEF SumsUpTo
  <1> QED
    BY <1>4, <1>7, <1>8

LEMMA TotalConcat ==
    ASSUME NEW s \in Seq(Int), NEW t \in Seq(Int)
    PROVE  total(s \o t) = total(s) + total(t)
  <1>0. PICK r : r = s \o t
    OBVIOUS
  <1>j. Joins(Int, s, t, r)
    BY <1>0, Joined
  <1>1. r \in Seq(Int) /\ Len(r) = Len(s) + Len(t)
    BY <1>j DEF Joins
  <1>2. PICK f : SumsUpTo(f, s, Len(s)) /\ total(s) = f[Len(s)]
    BY TotalIsSum
  <1>3. PICK g : SumsUpTo(g, t, Len(t)) /\ total(t) = g[Len(t)]
    BY TotalIsSum
  <1>4. PICK e : SumsUpTo(e, r, Len(r)) /\ total(r) = e[Len(r)]
    BY <1>1, TotalIsSum
  <1>5. PICK m, n : m = Len(s) /\ n = Len(t)
    OBVIOUS
  <1>6. m \in Nat /\ n \in Nat
    BY <1>5, LenProperties
  <1>7. e[0] = 0 /\ f[m] \in Int /\ g[n] \in Int
    <2>1. m \in 0 .. Len(s) /\ n \in 0 .. Len(t)
      BY <1>5, <1>6
    <2>2. f \in [0 .. Len(s) -> Int] /\ g \in [0 .. Len(t) -> Int] /\ e[0] = 0
      BY <1>2, <1>3, <1>4 DEF SumsUpTo
    <2> QED
      BY <2>1, <2>2
  <1>d. PICK d, z : d = f[m] /\ z = 0
    OBVIOUS
  <1>8. e[m] = d
    <2>1. SamePart(s, r, z, m)
      BY <1>j, <1>d, <1>5, <1>6 DEF Joins, SamePart
    <2>2. m <= Len(s) /\ z + m <= Len(r) /\ z \in Nat /\ z \in Int
      BY <1>1, <1>d, <1>5, <1>6
    <2>4. SumsUpTo(f, s, Len(s)) /\ SumsUpTo(e, r, Len(r))
      BY <1>2, <1>4
    <2>5. SumOnTop(f, e, z, 0, z)
      BY <1>2, <1>7, <1>d, <1>6, <2>2 DEF SumOnTop, SumsUpTo
    <2>3. SumOnTop(f, e, z, m, z)
      BY <1>1, <1>6, <2>1, <2>2, <2>4, <2>5, SumsAgree
    <2> QED
      BY <1>6, <1>7, <2>3, <1>d DEF SumOnTop
  <1>9. e[m + n] = d + g[n]
    <2>1. SamePart(t, r, m, n)
      BY <1>j, <1>5 DEF Joins, SamePart
    <2>2. n <= Len(t) /\ m + n <= Len(r) /\ d \in Int
      BY <1>1, <1>5, <1>6, <1>7, <1>d
    <2>3. SumsUpTo(g, t, Len(t)) /\ SumsUpTo(e, r, Len(r))
      BY <1>3, <1>4
    <2>5. SumOnTop(g, e, m, 0, d)
      BY <1>3, <1>7, <1>8, <1>6, <2>2 DEF SumOnTop, SumsUpTo
    <2>4. SumOnTop(g, e, m, n, d)
      BY <1>1, <1>6, <2>1, <2>2, <2>3, <2>5, SumsAgree
    <2> QED
      BY <2>4 DEF SumOnTop
  <1> QED
    BY <1>0, <1>1, <1>2, <1>3, <1>4, <1>5, <1>9, <1>d

LEMMA TotalFew ==
    /\ total(<<>>) = 0
    /\ \A x \in Int : total(<<x>>) = x
  <1>1. total(<<>>) = 0
    <2>1. <<>> \in Seq(Int) /\ Len(<<>>) = 0
      OBVIOUS
    <2>2. PICK f : SumsUpTo(f, <<>>, 0) /\ total(<<>>) = f[0]
      BY <2>1, TotalIsSum
    <2> QED
      BY <2>2 DEF SumsUpTo
  <1>2. ASSUME NEW x \in Int PROVE total(<<x>>) = x
    <2>1. <<x>> \in Seq(Int) /\ Len(<<x>>) = 1 /\ <<x>>[1] = x
      OBVIOUS
    <2>2. PICK f : SumsUpTo(f, <<x>>, 1) /\ total(<<x>>) = f[1]
      BY <2>1, TotalIsSum
    <2>3. f[0] = 0 /\ f[1] = f[1 - 1] + <<x>>[1]
      BY <2>2 DEF SumsUpTo
    <2> QED
      BY <2>1, <2>2, <2>3
  <1> QED
    BY <1>1, <1>2

LEMMA TotalInsert ==
    ASSUME NEW s \in Seq(Int), NEW i \in 1 .. Len(s) + 1, NEW e \in Int
    PROVE  total(InsertAt(s, i, e)) = total(s) + e
  <1>0. PICK t : t = InsertAt(s, i, e)
    OBVIOUS
  <1>i. Inserted(Int, s, i, e, t)
    BY <1>0, InsertAtIs
  <1>1. PICK a \in Seq(Int), b \in Seq(Int) :
            t = (a \o <<e>>) \o b /\ s = a \o b
    BY <1>i DEF Inserted
  <1>2. total(s) = total(a) + total(b)
    BY <1>1, TotalConcat
  <1>3. <<e>> \in Seq(Int) /\ a \o <<e>> \in Seq(Int)
    OBVIOUS
  <1>4. total((a \o <<e>>) \o b) = total(a \o <<e>>) + total(b)
    BY <1>3, TotalConcat
  <1>5. total(a \o <<e>>) = total(a) + e
    BY <1>3, TotalConcat, TotalFew
  <1>6. total(a) \in Int /\ total(b) \in Int
    BY TotalType
  <1> QED
    BY <1>0, <1>1, <1>2, <1>4, <1>5, <1>6

LEMMA TotalRemove ==
    ASSUME NEW s \in Seq(Int), NEW i \in 1 .. Len(s)
    PROVE  total(RemoveAt(s, i)) = total(s) - s[i]
  <1>0. s[i] \in Int /\ Len(s) \in Nat
    OBVIOUS
  <1>1. PICK r : r = RemoveAt(s, i)
    OBVIOUS
  <1>r. Removed(Int, s, i, r)
    BY <1>1, RemoveAtIs
  <1>2. r \in Seq(Int) /\ Len(r) = Len(s) - 1 /\ InsertAt(r, i, s[i]) = s
    BY <1>r DEF Removed
  <1>3. i \in 1 .. Len(r) + 1
    BY <1>0, <1>2
  <1>4. total(InsertAt(r, i, s[i])) = total(r) + s[i]
    BY <1>0, <1>2, <1>3, TotalInsert
  <1>5. total(r) \in Int
    BY <1>2, TotalType
  <1> QED
    BY <1>0, <1>1, <1>2, <1>4, <1>5

LEMMA TotalChange ==
    ASSUME NEW s \in Seq(Int), NEW t \in Seq(Int), Len(s) = Len(t),
           NEW i \in 1 .. Len(s),
           \A j \in 1 .. Len(s) : j # i => t[j] = s[j]
    PROVE  total(t) = total(s) - s[i] + t[i]
  <1>0. Len(s) \in Nat /\ i \in 1 .. Len(t)
    OBVIOUS
  <1>a. PICK a, b : a = RemoveAt(s, i) /\ b = RemoveAt(t, i)
    OBVIOUS
  <1>1. Removed(Int, s, i, a)
    BY <1>0, <1>a, RemoveAtIs
  <1>2. Removed(Int, t, i, b)
    BY <1>0, <1>a, RemoveAtIs
  <1>b. /\ a \in Seq(Int) /\ Len(a) = Len(s) - 1
        /\ b \in Seq(Int) /\ Len(b) = Len(s) - 1
    BY <1>1, <1>2 DEF Removed
  <1>3. a = b
    <2>1. ASSUME NEW j \in 1 .. Len(a) PROVE a[j] = b[j]
      <3>1. CASE j \in 1 .. i - 1
        <4>1. j \in 1 .. Len(s) /\ j # i
          BY SMTT(30), <1>0, <3>1
        <4> QED
          BY <1>1, <1>2, <3>1, <4>1 DEF Removed
      <3>2. CASE j \in i .. Len(a)
        <4>1. j + 1 \in 1 .. Len(s) /\ j + 1 # i /\ j \in i .. Len(b)
          BY <1>0, <1>b, <3>2
        <4> QED
          BY <1>1, <1>2, <3>2, <4>1 DEF Removed
      <3> QED
        BY <1>0, <1>b, <3>1, <3>2
    <2> QED
      BY <1>b, <2>1, SeqEqual
  <1>4. total(a) = total(s) - s[i]
    BY <1>0, <1>a, TotalRemove
  <1>5. total(b) = total(t) - t[i]
    BY <1>0, <1>a, TotalRemove
  <1>6. total(s) \in Int /\ total(t) \in Int /\ s[i] \in Int /\ t[i] \in Int
    BY <1>0, TotalType
  <1> QED
    BY <1>3, <1>4, <1>5, <1>6

-----------------------------------------------------------------------------
(* Ranks of items, and the storage interface.                              *)

(* Ranks: the places of the numbers of a finite set.                       *)

LEMMA Rank ==
    ASSUME NEW S \in SUBSET Int, IsFiniteSet(S), NEW x \in S
    PROVE  /\ Cardinality({z \in S : z < x}) \in 0 .. Cardinality(S) - 1
           /\ \A y \in S : x < y => Cardinality({z \in S : z < x})
                                      < Cardinality({z \in S : z < y})
  <1> DEFINE below(y) == {z \in S : z < y}
  <1>1. ASSUME NEW T, IsFiniteSet(T), NEW U \in SUBSET T, NEW y \in T, y \notin U
        PROVE  /\ Cardinality(U) \in Nat /\ Cardinality(T) \in Nat
               /\ Cardinality(U) < Cardinality(T)
    <2>1. IsFiniteSet(U) /\ Cardinality(U) <= Cardinality(T) /\ U # T
          /\ (Cardinality(T) = Cardinality(U) => T = U)
      BY <1>1, FS_Subset
    <2>2. Cardinality(U) \in Nat /\ Cardinality(T) \in Nat
      BY <1>1, <2>1, FS_CardinalityType
    <2> QED
      BY <2>1, <2>2
  <1>2. below(x) \in SUBSET S /\ x \notin below(x)
    BY SMT
  <1>3. Cardinality(below(x)) \in 0 .. Cardinality(S) - 1
    <2>1. /\ Cardinality(below(x)) \in Nat /\ Cardinality(S) \in Nat
          /\ Cardinality(below(x)) < Cardinality(S)
      <3> HIDE DEF below
      <3> QED
        BY <1>1, <1>2
    <2> HIDE DEF below
    <2> QED
      BY <2>1
  <1>4. ASSUME NEW y \in S, x < y
        PROVE  Cardinality(below(x)) < Cardinality(below(y))
    <2>0. \A z \in S : z < x => z < y
      BY <1>4, SMT
    <2>1. /\ below(y) \in SUBSET S
          /\ below(x) \in SUBSET below(y) /\ x \in below(y)
      BY <1>4, <2>0
    <2>2. IsFiniteSet(below(y))
      BY <2>1, FS_Subset
    <2> HIDE DEF below
    <2> QED
      BY <1>1, <1>2, <2>1, <2>2
  <1> QED
    BY <1>3, <1>4

LEMMA Ranked ==
    ASSUME NEW S \in SUBSET Int, IsFiniteSet(S), NEW k \in 0 .. Cardinality(S) - 1
    PROVE  \E x \in S : Cardinality({z \in S : z < x}) = k
  <1> DEFINE f == [x \in S |-> Cardinality({z \in S : z < x})]
             T == 0 .. Cardinality(S) - 1
  <1>1. Cardinality(S) \in Nat
    BY FS_CardinalityType
  <1>2. IsFiniteSet(T) /\ Cardinality(T) = Cardinality(S)
    BY <1>1, FS_Interval
  <1>3. f \in [S -> T]
    BY Rank
  <1>4. \A x, y \in S : x < y => f[x] < f[y]
    BY Rank
  <1>5. \A x, y \in S : f[x] = f[y] => x = y
    <2> SUFFICES ASSUME NEW x \in S, NEW y \in S, f[x] = f[y], x # y
                 PROVE  FALSE
      OBVIOUS
    <2> HIDE DEF f
    <2>1. x < y \/ y < x
      OBVIOUS
    <2>2. f[x] \in Int /\ f[y] \in Int
      BY <1>1, <1>3
    <2>3. f[x] < f[y] \/ f[y] < f[x]
      BY <1>4, <2>1
    <2> QED
      BY <2>2, <2>3
  <1>6. f \in Injection(S, T)
    <2> HIDE DEF f, T
    <2> QED
      BY <1>3, <1>5 DEF Injection, IsInjective
  <1>7. f \in Surjection(S, T)
    <2> HIDE DEF f, T
    <2> QED
      BY <1>2, <1>6, FS_Injection
  <1> QED
    BY <1>7 DEF Surjection

Strict(s) == \A i, j \in 1 .. Len(s) : i < j => s[i] < s[j]

LEMMA StrictIs ==
    ASSUME NEW s \in Seq(Int)
    PROVE  /\ Strict(s) <=> InOrder(s) /\ WithoutTwins(s)
           /\ DOMAIN s = 1 .. Len(s) /\ Len(s) \in Nat
  <1>1. DOMAIN s = 1 .. Len(s) /\ Len(s) \in Nat /\ \A i \in 1 .. Len(s) : s[i] \in Int
    OBVIOUS
  <1>2. ASSUME Strict(s) PROVE InOrder(s) /\ WithoutTwins(s)
    <2>1. InOrder(s)
      BY <1>1, <1>2 DEF Strict, InOrder
    <2>2. ASSUME NEW i \in 2 .. Len(s) PROVE s[i - 1] # s[i]
      <3>1. i - 1 \in 1 .. Len(s) /\ i \in 1 .. Len(s) /\ i - 1 < i
        BY <1>1
      <3>2. s[i - 1] < s[i]
        BY <1>2, <3>1 DEF Strict
      <3> QED
        BY <1>1, <3>1, <3>2
    <2> QED
      BY <2>1, <2>2 DEF WithoutTwins
  <1>3. ASSUME InOrder(s), WithoutTwins(s), NEW i \in 1 .. Len(s),
               NEW j \in 1 .. Len(s), i < j
        PROVE  s[i] < s[j]
    <2>1. j - 1 \in 1 .. Len(s) /\ j \in 2 .. Len(s) /\ i <= j - 1 /\ j - 1 < j
      BY <1>1, <1>3
    <2>2. s[j - 1] # s[j] /\ s[j - 1] <= s[j]
      BY <1>1, <1>3, <2>1 DEF InOrder, WithoutTwins
    <2>3. i = j - 1 \/ s[i] <= s[j - 1]
      BY <1>1, <1>3, <2>1 DEF InOrder
    <2> QED
      BY <1>1, <2>1, <2>2, <2>3
  <1> QED
    BY <1>1, <1>2, <1>3 DEF Strict

LEMMA Ascending ==
    ASSUME NEW S \in SUBSET Int, IsFiniteSet(S)
    PROVE  /\ ascending(S) \in Seq(S)
           /\ Len(ascending(S)) = Cardinality(S)
           /\ Strict(ascending(S))
  <1> DEFINE rank(x) == Cardinality({z \in S : z < x})
             s == ascending(S)
             n == Cardinality(S)
  <1>1. n \in Nat
    BY FS_CardinalityType
  <1>2. ASSUME NEW k \in 1 .. n
        PROVE  s[k] \in S /\ rank(s[k]) = k - 1
    <2>1. k - 1 \in 0 .. n - 1
      BY <1>1
    <2>2. \E x \in S : rank(x) = k - 1
      BY <2>1, Ranked
    <2>3. s[k] = CHOOSE x \in S : rank(x) = k - 1
      BY <1>1 DEF ascending
    <2> QED
      BY <2>2, <2>3
  <1>3. s = [k \in 1 .. n |-> s[k]]
    BY SMTT(30) DEF ascending
  <1> HIDE DEF s, n
  <1>4. s \in Seq(S) /\ Len(s) = n
    <2>1. s \in [1 .. n -> S]
      BY <1>2, <1>3
    <2> QED
      BY <1>1, <2>1
  <1>5. ASSUME NEW i \in 1 .. n, NEW j \in 1 .. n, i < j
        PROVE  s[i] < s[j]
    <2>1. rank(s[i]) < rank(s[j])
      BY <1>1, <1>2, <1>5
    <2>2. CASE s[j] < s[i]
      <3>1. rank(s[j]) < rank(s[i])
        BY <1>2, <2>2, Rank
      <3> QED
        BY <1>1, <1>2, <2>1, <3>1
    <2>3. CASE s[j] = s[i]
      <3>1. rank(s[i]) = i - 1 /\ rank(s[i]) = j - 1
        BY <1>2, <2>3
      <3> QED
        BY <1>1, <1>5, <3>1
    <2>4. s[i] \in Int /\ s[j] \in Int
      BY <1>2
    <2> QED
      BY <2>2, <2>3, <2>4
  <1> QED
    BY <1>4, <1>5 DEF s, n, Strict

-----------------------------------------------------------------------------
(* std::sort.                                                              *)

-----------------------------------------------------------------------------
(* Searches.                                                               *)

(* The items below a bound are the first ones of a sorted sequence.        *)
LEMMA CountsBelow ==
    ASSUME NEW s \in Seq(Int), InOrder(s), NEW bound \in Int
    PROVE  /\ countBelow(s, bound) \in 0 .. Len(s)
           /\ \A i \in 1 .. Len(s) : s[i] < bound <=> i <= countBelow(s, bound)
  <1> DEFINE n == Len(s)
             T == {i \in 1 .. n : s[i] < bound}
             c == Cardinality(T)
  <1>1. n \in Nat /\ DOMAIN s = 1 .. n /\ \A i \in 1 .. n : s[i] \in Int
    OBVIOUS
  <1>2. countBelow(s, bound) = c
    BY <1>1 DEF countBelow
  <1>3. IsFiniteSet(1 .. n) /\ Cardinality(1 .. n) = n
    <2>1. n \in Nat
      BY <1>1
    <2> HIDE DEF n
    <2> QED
      BY <2>1, FS_Interval
  <1>4. IsFiniteSet(T) /\ c \in Nat /\ c <= n
    <2>1. T \in SUBSET (1 .. n)
      OBVIOUS
    <2> HIDE DEF T
    <2> QED
      BY <1>3, <2>1, FS_Subset, FS_CardinalityType
  <1>5. \A i \in T : \A j \in 1 .. i : j \in T
    BY <1>1 DEF InOrder
  <1>6. ASSUME NEW i \in T PROVE i <= c
    <2>1. i \in Nat /\ (1 .. i) \in SUBSET T
      BY <1>5
    <2>2. Cardinality(1 .. i) = i
      BY <2>1, FS_Interval
    <2> HIDE DEF T
    <2> QED
      BY <1>4, <2>1, <2>2, FS_Subset
  <1>7. T = 1 .. c
    <2>1. T \in SUBSET (1 .. c)
      BY <1>4, <1>6
    <2>2. IsFiniteSet(1 .. c) /\ Cardinality(1 .. c) = c
      BY <1>4, FS_Interval
    <2> HIDE DEF T
    <2> QED
      BY <2>1, <2>2, FS_Subset
  <1> HIDE DEF c
  <1>8. ASSUME NEW i \in 1 .. n PROVE s[i] < bound <=> i <= c
    <2>1. s[i] < bound <=> i \in T
      OBVIOUS
    <2>2. i \in T <=> i \in 1 .. c
      BY <1>7
    <2> QED
      BY <1>4, <2>1, <2>2
  <1> QED
    BY <1>2, <1>4, <1>8

LEMMA Sliced ==
    ASSUME NEW s \in Seq(Int), NEW b \in Nat, NEW e \in b .. Len(s)
    PROVE  /\ slice(s, b, e) \in Seq(Int) /\ Len(slice(s, b, e)) = e - b
           /\ \A i \in 1 .. e - b : slice(s, b, e)[i] = s[b + i]
                                    /\ b + i \in 1 .. Len(s)
  <1>1. \A i \in (b + 1) .. e : i \in 1 .. Len(s) /\ s[i] \in Int
    OBVIOUS
  <1> QED
    BY <1>1 DEF slice

(* The place of a number in a range of a sequence, and of its range.       *)
Clamp(k, b, e) == IF k < b THEN b ELSE IF k > e THEN e ELSE k

LEMMA VectorFinds ==
    ASSUME NEW s \in Seq(Int), InOrder(s), NEW bound \in Int,
           NEW b \in Nat, NEW e \in b .. Len(s)
    PROVE  VectorLowerBound(s, b, e, bound) = Clamp(countBelow(s, bound), b, e)
  <1> DEFINE t == slice(s, b, e)
             k == countBelow(s, bound)
             c == countBelow(t, bound)
  <1>1. /\ t \in Seq(Int) /\ Len(t) = e - b
        /\ \A i \in 1 .. e - b : t[i] = s[b + i] /\ b + i \in 1 .. Len(s)
    BY Sliced
  <1> HIDE DEF t
  <1>2. InOrder(t)
    <2>1. DOMAIN t = 1 .. e - b
      BY <1>1
    <2>2. ASSUME NEW i \in 1 .. e - b, NEW j \in 1 .. e - b, i < j
          PROVE  t[i] <= t[j]
      <3>1. b + i \in 1 .. Len(s) /\ b + j \in 1 .. Len(s) /\ b + i < b + j
            /\ DOMAIN s = 1 .. Len(s)
        BY <1>1, <2>2
      <3> QED
        BY <1>1, <3>1 DEF InOrder
    <2> QED
      BY <2>1, <2>2 DEF InOrder
  <1>3. /\ c \in 0 .. Len(t)
        /\ \A i \in 1 .. Len(t) : t[i] < bound <=> i <= c
    BY <1>1, <1>2, CountsBelow
  <1>4. /\ k \in 0 .. Len(s)
        /\ \A i \in 1 .. Len(s) : s[i] < bound <=> i <= k
    <2>1. s \in Seq(Int) /\ InOrder(s) /\ bound \in Int
      OBVIOUS
    <2>2. /\ countBelow(s, bound) \in 0 .. Len(s)
          /\ \A i \in 1 .. Len(s) : s[i] < bound <=> i <= countBelow(s, bound)
      BY ONLY <2>1, CountsBelow
    <2>3. Len(s) \in Nat
      OBVIOUS
    <2> QED
      BY <2>2, <2>3
  <1>5. VectorLowerBound(s, b, e, bound) = b + c
    BY DEF VectorLowerBound, t
  <1> HIDE DEF c, k
  <1>6. Len(s) \in Nat
    OBVIOUS
  <1>7. \A i \in 1 .. e - b : i <= c <=> b + i <= k
    BY <1>1, <1>3, <1>4
  <1>8. c = Clamp(k, b, e) - b
    <2>1. CASE c = 0
      <3>1. e = b \/ ~(b + 1 <= k)
        <4>1. e = b \/ 1 \in 1 .. e - b
          BY <1>6
        <4> QED
          BY <1>7, <2>1, <4>1
      <3> QED
        BY <1>4, <1>6, <2>1, <3>1 DEF Clamp
    <2>2. CASE c = e - b
      <3>1. e = b \/ e <= k
        <4>1. e = b \/ (e - b \in 1 .. e - b /\ b + (e - b) = e)
          BY <1>6
        <4>2. e = b \/ (e - b <= e - b <=> e <= k)
          BY <1>7, <2>2, <4>1
        <4> QED
          BY <1>6, <4>2
      <3> QED
        BY <1>4, <1>6, <2>2, <3>1 DEF Clamp
    <2>3. CASE c # 0 /\ c # e - b
      <3>1. c \in 1 .. e - b /\ c + 1 \in 1 .. e - b
        BY <1>1, <1>3, <1>6, <2>3
      <3>2. b + c <= k /\ ~(b + (c + 1) <= k)
        BY SMTT(30), <1>7, <3>1
      <3> QED
        BY <1>4, <1>6, <3>1, <3>2 DEF Clamp
    <2> QED
      BY <2>1, <2>2, <2>3
  <1>9. Clamp(k, b, e) \in Int /\ c \in Int
    BY <1>1, <1>3, <1>4, <1>6 DEF Clamp
  <1> QED
    BY <1>5, <1>8, <1>9 DEF k

LEMMA MinOfTwo ==
    ASSUME NEW a \in Int, NEW b \in Int
    PROVE  Min({a, b}) = IF a <= b THEN a ELSE b
  <1>1. CASE a <= b
    <2>1. a \in {a, b} /\ \A y \in {a, b} : a <= y
      BY <1>1
    <2>2. \A x \in {a, b} : (\A y \in {a, b} : x <= y) => x = a
      BY <1>1
    <2> QED
      BY <1>1, <2>1, <2>2 DEF Min
  <1>2. CASE ~(a <= b)
    <2>1. b \in {a, b} /\ \A y \in {a, b} : b <= y
      BY <1>2
    <2>2. \A x \in {a, b} : (\A y \in {a, b} : x <= y) => x = b
      BY <1>2
    <2> QED
      BY <1>2, <2>1, <2>2 DEF Min
  <1> QED
    BY <1>1, <1>2

(* The first index of a B-tree not below a bound, if it is not left of     *)
(* begin; begin, if no item is below the bound.                            *)
LEMMA TreeFinds ==
    ASSUME NEW s \in Seq(Int), InOrder(s), NEW bound \in Int,
           NEW b \in Nat, NEW e \in b .. Len(s)
    PROVE  TreeLowerBound(s, b, e, bound)
             = LET k == countBelow(s, bound)
               IN  IF k = 0 THEN b ELSE IF k <= e THEN k ELSE e
  <1> DEFINE k == countBelow(s, bound)
  <1>1. /\ k \in 0 .. Len(s) /\ Len(s) \in Nat
        /\ \A i \in 1 .. Len(s) : s[i] < bound <=> i <= k
    <2>1. s \in Seq(Int) /\ InOrder(s) /\ bound \in Int
      OBVIOUS
    <2>2. /\ countBelow(s, bound) \in 0 .. Len(s)
          /\ \A i \in 1 .. Len(s) : s[i] < bound <=> i <= countBelow(s, bound)
      BY ONLY <2>1, CountsBelow
    <2>3. Len(s) \in Nat
      OBVIOUS
    <2> QED
      BY <2>2, <2>3
  <1>2. Min({k, e}) = IF k <= e THEN k ELSE e
    <2>1. k \in Int /\ e \in Int
      BY <1>1
    <2> HIDE DEF k
    <2> QED
      BY <2>1, MinOfTwo
  <1>3. CASE s = <<>>
    <2>1. e = 0 /\ b = 0 /\ k = 0
      BY <1>1, <1>3
    <2> QED
      BY <1>3, <2>1 DEF TreeLowerBound
  <1>4. CASE s # <<>>
    <2>1. 1 \in 1 .. Len(s) /\ s[1] \in Int
      BY <1>4
    <2>2. bound <= s[1] <=> k = 0
      BY <1>1, <2>1
    <2> HIDE DEF k
    <2>3. TreeLowerBound(s, b, e, bound) = IF bound <= s[1] THEN b
                                           ELSE Min({k, e})
      BY <1>4 DEF TreeLowerBound, k
    <2> QED
      BY <1>2, <2>2, <2>3 DEF k
  <1> QED
    BY <1>3, <1>4

-----------------------------------------------------------------------------
(* Recursive functions, sums of ranges.                                    *)

(* A recursive function whose value at a place depends on its values at    *)
(* places of lower rank exists.                                            *)
Recursion(D, V, rank, F) ==
    /\ rank \in [D -> Nat]
    /\ F \in [[D -> V] -> [D -> V]]
    /\ \A f, g \in [D -> V] : \A x \in D :
          (\A y \in D : rank[y] < rank[x] => f[y] = g[y]) => F[f][x] = F[g][x]

Fixed(D, V, rank, F, f, n) ==
    f \in [D -> V] /\ \A x \in D : rank[x] < n => F[f][x] = f[x]

LEMMA FixedAgree ==
    ASSUME NEW D, NEW V, NEW rank, NEW F, Recursion(D, V, rank, F),
           NEW f, NEW g, NEW n \in Nat, NEW m \in Nat,
           Fixed(D, V, rank, F, f, n), Fixed(D, V, rank, F, g, m),
           NEW z \in D, rank[z] < n, rank[z] < m
    PROVE  f[z] = g[z]
  <1> DEFINE Bad == {k \in Nat : \E x \in D : /\ rank[x] = k /\ k < n /\ k < m
                                              /\ f[x] # g[x]}
  <1>r. /\ \A x \in D : rank[x] \in Nat
        /\ f \in [D -> V] /\ g \in [D -> V]
    BY DEF Recursion, Fixed
  <1>1. SUFFICES ASSUME Bad # {} PROVE FALSE
    BY <1>r
  <1>2. PICK k \in Bad : \A j \in Bad : k <= j
    <2>1. Bad \subseteq Nat
      OBVIOUS
    <2> HIDE DEF Bad
    <2> QED
      BY <1>1, <2>1, LeastNumber
  <1>3. PICK x \in D : rank[x] = k /\ k \in Nat /\ k < n /\ k < m /\ f[x] # g[x]
    BY <1>2
  <1>4. ASSUME NEW y \in D, rank[y] < rank[x] PROVE f[y] = g[y]
    <2>1. rank[y] \in Nat /\ rank[y] < n /\ rank[y] < m /\ ~(k <= rank[y])
      BY <1>r, <1>3, <1>4
    <2>2. rank[y] \notin Bad
      <3> HIDE DEF Bad
      <3> QED
        BY <1>2, <2>1
    <2> QED
      BY <2>1, <2>2
  <1>5. F[f][x] = F[g][x]
    BY <1>r, <1>4 DEF Recursion
  <1>6. F[f][x] = f[x] /\ F[g][x] = g[x]
    BY <1>3 DEF Fixed
  <1> QED
    BY <1>3, <1>5, <1>6

LEMMA FixedUpTo ==
    ASSUME NEW D, NEW V, NEW rank, NEW F, Recursion(D, V, rank, F), V # {},
           NEW n \in Nat
    PROVE  \E f : Fixed(D, V, rank, F, f, n)
  <1> DEFINE Bad == {k \in Nat : \A f : ~Fixed(D, V, rank, F, f, k)}
  <1>r. \A x \in D : rank[x] \in Nat
    BY DEF Recursion
  <1>1. SUFFICES ASSUME Bad # {} PROVE FALSE
    <2>1. n \notin Bad => \E f : Fixed(D, V, rank, F, f, n)
      BY Zenon
    <2> HIDE DEF Bad
    <2> QED
      BY <2>1
  <1>2. PICK k \in Bad : \A j \in Bad : k <= j
    <2>1. Bad \subseteq Nat
      OBVIOUS
    <2> HIDE DEF Bad
    <2> QED
      BY <1>1, <2>1, LeastNumber
  <1>3. k \in Nat /\ \A f : ~Fixed(D, V, rank, F, f, k)
    BY <1>2
  <1>4. k # 0
    <2>1. PICK v \in V : TRUE
      OBVIOUS
    <2>2. [x \in D |-> v] \in [D -> V]
      OBVIOUS
    <2>3. \A x \in D : ~(rank[x] < 0)
      BY <1>r
    <2>4. Fixed(D, V, rank, F, [x \in D |-> v], 0)
      BY <2>2, <2>3 DEF Fixed
    <2> QED
      BY <1>3, <2>4
  <1>5. k - 1 \in Nat /\ ~(k <= k - 1)
    BY <1>3, <1>4
  <1>6. PICK f : Fixed(D, V, rank, F, f, k - 1)
    <2>1. k - 1 \notin Bad
      <3> HIDE DEF Bad
      <3> QED
        BY <1>2, <1>5
    <2> QED
      BY <1>5, <2>1
  <1>7. PICK g : g = F[f]
    OBVIOUS
  <1>8. f \in [D -> V] /\ g \in [D -> V]
    BY <1>6, <1>7 DEF Fixed, Recursion
  <1>9. ASSUME NEW x \in D, rank[x] < k
        PROVE  F[g][x] = g[x]
    <2>1. ASSUME NEW y \in D, rank[y] < rank[x] PROVE g[y] = f[y]
      <3>1. rank[y] < k - 1
        BY <1>3, <1>r, <1>9, <2>1
      <3> QED
        BY <1>6, <1>7, <3>1 DEF Fixed
    <2>2. F[g][x] = F[f][x]
      BY <1>8, <2>1 DEF Recursion
    <2> QED
      BY <1>7, <2>2
  <1>10. Fixed(D, V, rank, F, g, k)
    BY <1>8, <1>9 DEF Fixed
  <1> QED
    BY <1>3, <1>10

LEMMA RecursionExists ==
    ASSUME NEW D, NEW V, NEW rank, NEW F, Recursion(D, V, rank, F), V # {}
    PROVE  \E f \in [D -> V] : F[f] = f
  <1> DEFINE pick(n) == CHOOSE f : Fixed(D, V, rank, F, f, n)
  <1>r. \A x \in D : rank[x] \in Nat /\ rank[x] + 1 \in Nat /\ rank[x] < rank[x] + 1
    BY DEF Recursion
  <1>1. ASSUME NEW n \in Nat PROVE Fixed(D, V, rank, F, pick(n), n)
    <2>1. \E f : Fixed(D, V, rank, F, f, n)
      BY FixedUpTo
    <2> QED
      BY <2>1, Zenon
  <1> HIDE DEF pick
  <1>2. PICK f : f = [x \in D |-> pick(rank[x] + 1)[x]]
    OBVIOUS
  <1>3. \A n \in Nat : pick(n) \in [D -> V]
    BY <1>1 DEF Fixed
  <1>4. f \in [D -> V]
    BY <1>2, <1>3, <1>r
  <1>5. ASSUME NEW x \in D PROVE F[f][x] = f[x]
    <2>1. PICK p : p = pick(rank[x] + 1)
      OBVIOUS
    <2>2. Fixed(D, V, rank, F, p, rank[x] + 1) /\ p \in [D -> V]
      BY <1>1, <1>3, <1>r, <2>1
    <2>3. ASSUME NEW y \in D, rank[y] < rank[x] PROVE f[y] = p[y]
      <3>1. Fixed(D, V, rank, F, pick(rank[y] + 1), rank[y] + 1)
        BY <1>1, <1>r
      <3>2. rank[y] < rank[y] + 1 /\ rank[y] < rank[x] + 1
        BY <1>r, <2>3
      <3>3. pick(rank[y] + 1)[y] = p[y]
        BY <1>r, <2>2, <3>1, <3>2, FixedAgree
      <3> QED
        BY <1>2, <3>3
    <2>4. F[f][x] = F[p][x]
      BY <1>4, <2>2, <2>3 DEF Recursion
    <2>5. F[p][x] = p[x]
      BY <1>r, <2>2 DEF Fixed
    <2> QED
      BY <1>2, <2>1, <2>4, <2>5
  <1>6. F[f] \in [D -> V]
    BY <1>4 DEF Recursion
  <1>7. F[f] = f
    BY <1>4, <1>5, <1>6
  <1> QED
    BY <1>4, <1>7

-----------------------------------------------------------------------------
(* Sums that telescope.                                                    *)

LEMMA Telescope ==
    ASSUME NEW s \in Seq(Int), NEW g \in [0 .. Len(s) -> Int],
           \A i \in 1 .. Len(s) : s[i] = g[i] - g[i - 1],
           NEW n \in 0 .. Len(s)
    PROVE  total(SubSeq(s, 1, n)) = g[n] - g[0]
  <1> DEFINE Bad == {k \in Nat : k <= Len(s)
                                 /\ total(SubSeq(s, 1, k)) # g[k] - g[0]}
  <1>s. Len(s) \in Nat
    OBVIOUS
  <1>1. SUFFICES ASSUME Bad # {} PROVE FALSE
    BY SMTT(30)
  <1>2. PICK k \in Bad : \A j \in Bad : k <= j
    <2>1. Bad \subseteq Nat
      OBVIOUS
    <2> HIDE DEF Bad
    <2> QED
      BY <1>1, <2>1, LeastNumber
  <1>3. k \in Nat /\ k <= Len(s) /\ total(SubSeq(s, 1, k)) # g[k] - g[0]
    BY <1>2
  <1>4. k # 0
    <2>1. total(SubSeq(s, 1, 0)) = 0
      <3>1. SubSeq(s, 1, 0) = <<>>
        OBVIOUS
      <3> QED
        BY <3>1, TotalFew
    <2>2. g[0] \in Int
      BY SMTT(30), <1>s
    <2>3. g[0] - g[0] = 0
      BY <2>2
    <2> HIDE DEF Bad
    <2> QED
      BY <1>3, <2>1, <2>3
  <1>5. k - 1 \in Nat /\ ~(k <= k - 1) /\ k - 1 <= Len(s) /\ k \in 1 .. Len(s)
        /\ k - 1 \in 0 .. Len(s) /\ k \in 0 .. Len(s)
    BY <1>3, <1>4, <1>s
  <1>6. total(SubSeq(s, 1, k - 1)) = g[k - 1] - g[0]
    <2>1. k - 1 \notin Bad
      <3> HIDE DEF Bad
      <3> QED
        BY <1>2, <1>5
    <2> QED
      BY <1>5, <2>1
  <1>7. /\ SubSeq(s, 1, k) = SubSeq(s, 1, k - 1) \o <<s[k]>>
        /\ SubSeq(s, 1, k - 1) \in Seq(Int) /\ s[k] \in Int /\ <<s[k]>> \in Seq(Int)
    <2>1. SubSeq(s, 1, k - 1) \in Seq(Int) /\ SubSeq(s, 1, k) \in Seq(Int)
      BY <1>5
    <2>2. Len(SubSeq(s, 1, k - 1)) = k - 1 /\ Len(SubSeq(s, 1, k)) = k
      BY <1>5
    <2>3. s[k] \in Int
      BY <1>5
    <2> QED
      BY <2>1, <2>2, <2>3, <1>5
  <1>8. total(SubSeq(s, 1, k)) = total(SubSeq(s, 1, k - 1)) + s[k]
    BY <1>7, TotalConcat, TotalFew
  <1> HIDE DEF Bad
  <1>9. s[k] = g[k] - g[k - 1] /\ g[k] \in Int /\ g[k - 1] \in Int /\ g[0] \in Int
    <2>1. 0 \in 0 .. Len(s)
      BY <1>s
    <2>2. s[k] = g[k] - g[k - 1]
      BY <1>5
    <2> QED
      BY <1>5, <2>1, <2>2
  <1> QED
    BY <1>3, <1>6, <1>8, <1>9

(* Sums of the items of a range. *)
upTo(s, k) == sumOf(s, 0, k)

LEMMA SumOfRange ==
    ASSUME NEW s \in Seq(Int), NEW b \in Nat, NEW e \in b .. Len(s)
    PROVE  /\ sumOf(s, b, e) = upTo(s, e) - upTo(s, b)
           /\ upTo(s, e) \in Int /\ upTo(s, b) \in Int
  <1>1. /\ SubSeq(s, 1, e) = SubSeq(s, 1, b) \o SubSeq(s, b + 1, e)
        /\ SubSeq(s, 1, b) \in Seq(Int) /\ SubSeq(s, b + 1, e) \in Seq(Int)
        /\ SubSeq(s, 1, e) \in Seq(Int)
    <2>1. /\ e \in Nat /\ b <= e /\ e <= Len(s) /\ Len(s) \in Nat
      OBVIOUS
    <2>2. /\ SubSeq(s, 1, b) \in Seq(Int) /\ Len(SubSeq(s, 1, b)) = b
          /\ \A i \in 1 .. b : SubSeq(s, 1, b)[i] = s[i]
      BY <2>1
    <2>3. /\ SubSeq(s, b + 1, e) \in Seq(Int) /\ Len(SubSeq(s, b + 1, e)) = e - b
          /\ \A i \in 1 .. e - b : SubSeq(s, b + 1, e)[i] = s[b + i]
      BY <2>1
    <2>4. /\ SubSeq(s, 1, e) \in Seq(Int) /\ Len(SubSeq(s, 1, e)) = e
          /\ \A i \in 1 .. e : SubSeq(s, 1, e)[i] = s[i]
      BY <2>1
    <2>5. PICK x, y, z : x = SubSeq(s, 1, b) /\ y = SubSeq(s, b + 1, e) /\ z = SubSeq(s, 1, e)
      OBVIOUS
    <2>6. z = x \o y
      <3>1. /\ x \in Seq(Int) /\ y \in Seq(Int) /\ z \in Seq(Int)
            /\ Len(x) = b /\ Len(y) = e - b /\ Len(z) = e
        BY <2>2, <2>3, <2>4, <2>5
      <3>2. \A i \in 1 .. b : z[i] = x[i]
        BY <2>1, <2>2, <2>4, <2>5
      <3>3. \A i \in 1 .. e - b : z[b + i] = y[i]
        BY <2>1, <2>3, <2>4, <2>5
      <3>5. PICK w : w = x \o y
        OBVIOUS
      <3>4. Joins(Int, x, y, w)
        BY <3>1, <3>5, Joined
      <3>6. /\ w \in Seq(Int) /\ Len(w) = e
            /\ \A i \in 1 .. b : w[i] = x[i]
            /\ \A i \in 1 .. e - b : w[b + i] = y[i]
        <4>1. /\ w \in Seq(Int) /\ Len(w) = Len(x) + Len(y)
              /\ \A i \in 1 .. Len(x) : w[i] = x[i]
              /\ \A i \in 1 .. Len(y) : w[Len(x) + i] = y[i]
          BY <3>4 DEF Joins
        <4>2. Len(x) + Len(y) = e
          BY <2>1, <3>1
        <4> QED
          BY <3>1, <4>1, <4>2
      <3>7. ASSUME NEW i \in 1 .. e PROVE z[i] = w[i]
        <4>1. CASE i <= b
          BY <2>1, <3>2, <3>6, <4>1
        <4>2. CASE ~(i <= b)
          <5>1. i - b \in 1 .. e - b /\ b + (i - b) = i
            BY <2>1, <4>2
          <5> QED
            BY <3>3, <3>6, <5>1
        <4> QED
          BY <4>1, <4>2
      <3>8. z = w
        BY <3>1, <3>6, <3>7, <2>1
      <3> QED
        BY <3>5, <3>8
    <2> QED
      BY <2>2, <2>3, <2>4, <2>5, <2>6
  <1>2. /\ upTo(s, e) = total(SubSeq(s, 1, e)) /\ upTo(s, b) = total(SubSeq(s, 1, b))
        /\ sumOf(s, b, e) = total(SubSeq(s, b + 1, e))
    BY DEF upTo, sumOf, slice
  <1>3. total(SubSeq(s, 1, e)) = total(SubSeq(s, 1, b)) + total(SubSeq(s, b + 1, e))
    BY <1>1, TotalConcat
  <1>4. /\ total(SubSeq(s, 1, e)) \in Int /\ total(SubSeq(s, 1, b)) \in Int
        /\ total(SubSeq(s, b + 1, e)) \in Int
    BY <1>1, TotalType
  <1> QED
    BY <1>2, <1>3, <1>4

LEMMA SumOfOne ==
    ASSUME NEW s \in Seq(Int), NEW k \in 1 .. Len(s)
    PROVE  upTo(s, k) = upTo(s, k - 1) + s[k] /\ upTo(s, 0) = 0
  <1>1. k - 1 \in Nat /\ k \in (k - 1) .. Len(s)
    OBVIOUS
  <1>2. sumOf(s, k - 1, k) = s[k]
    <2>1. SubSeq(s, (k - 1) + 1, k) = <<s[k]>> /\ s[k] \in Int
      <3>1. (k - 1) + 1 = k /\ s[k] \in Int
        OBVIOUS
      <3>2. SubSeq(s, k, k) = <<s[k]>>
        <4>1. /\ SubSeq(s, k, k) \in Seq(Int) /\ Len(SubSeq(s, k, k)) = 1
              /\ SubSeq(s, k, k)[1] = s[k]
          OBVIOUS
        <4>2. PICK x : x = SubSeq(s, k, k)
          OBVIOUS
        <4>3. x \in Seq(Int) /\ Len(x) = 1 /\ x[1] = s[k]
          BY <4>1, <4>2
        <4>4. x = <<s[k]>>
          BY <4>3
        <4> QED
          BY <4>2, <4>4
      <3> QED
        BY <3>1, <3>2
    <2> QED
      BY <2>1, TotalFew DEF sumOf, slice
  <1>3. upTo(s, 0) = 0
    <2>1. SubSeq(s, 0 + 1, 0) = <<>>
      OBVIOUS
    <2> QED
      BY <2>1, TotalFew DEF upTo, sumOf, slice
  <1>4. /\ sumOf(s, k - 1, k) = upTo(s, k) - upTo(s, k - 1)
        /\ upTo(s, k) \in Int /\ upTo(s, k - 1) \in Int
    BY <1>1, SumOfRange
  <1> QED
    BY <1>2, <1>3, <1>4

-----------------------------------------------------------------------------
(* Sequences of sequences.                                                 *)

(* Sequences one after the other: where the i-th of them stands. *)
Flattened(seqs, t, o) ==
    /\ Len(seqs) \in Nat /\ o \in [0 .. Len(seqs) -> Nat]
    /\ o[0] = 0 /\ Len(t) = o[Len(seqs)]
    /\ \A i \in 1 .. Len(seqs) :
          /\ Len(seqs[i]) \in Nat
          /\ o[i] = o[i - 1] + Len(seqs[i])
          /\ \A j \in 1 .. Len(seqs[i]) : t[o[i - 1] + j] = seqs[i][j]

LEMMA FlattenSteps ==
    ASSUME NEW S, NEW seqs \in Seq(Seq(S)), Len(seqs) # 0
    PROVE  \E f \in [1 .. Len(seqs) -> Seq(S)] :
              /\ FlattenSeq(seqs) = f[Len(seqs)]
              /\ \A i \in 1 .. Len(seqs) :
                    f[i] = IF i = 1 THEN seqs[1] ELSE f[i - 1] \o seqs[i]
  <1>1. PICK n \in Nat : n = Len(seqs) /\ n # 0
    OBVIOUS
  <1> DEFINE D == 1 .. n
             step(f, i) == IF i = 1 THEN seqs[i] ELSE f[i - 1] \o seqs[i]
             Steps(f) == f = [i \in D |-> step(f, i)]
             F == [f \in [D -> Seq(S)] |-> [i \in D |-> step(f, i)]]
             rank == [i \in D |-> i]
  <1>2. FlattenSeq(seqs) = (CHOOSE f : Steps(f))[n]
    BY <1>1 DEF FlattenSeq
  <1>3. \A i \in D : i \in Nat /\ seqs[i] \in Seq(S) /\ rank[i] = i
                     /\ (i # 1 => i - 1 \in D /\ rank[i - 1] < rank[i])
    BY <1>1
  <1>4. rank \in [D -> Nat]
    BY <1>3
  <1> HIDE DEF D, rank
  <1>5. ASSUME NEW f \in [D -> Seq(S)], NEW i \in D
        PROVE  step(f, i) \in Seq(S)
    <2>1. seqs[i] \in Seq(S) /\ (i # 1 => f[i - 1] \in Seq(S))
      BY <1>3
    <2> QED
      BY <2>1
  <1>6. ASSUME NEW f \in [D -> Seq(S)], NEW g \in [D -> Seq(S)], NEW x \in D,
               \A y \in D : rank[y] < rank[x] => f[y] = g[y]
        PROVE  step(f, x) = step(g, x)
    <2>1. x # 1 => f[x - 1] = g[x - 1]
      BY <1>3, <1>6
    <2> QED
      BY <2>1
  <1> HIDE DEF step
  <1>7. /\ F \in [[D -> Seq(S)] -> [D -> Seq(S)]]
        /\ \A f \in [D -> Seq(S)] : F[f] = [i \in D |-> step(f, i)]
    BY <1>5
  <1> HIDE DEF F
  <1>8. \A f, g \in [D -> Seq(S)] : \A x \in D :
          (\A y \in D : rank[y] < rank[x] => f[y] = g[y]) => F[f][x] = F[g][x]
    <2> TAKE f, g \in [D -> Seq(S)]
    <2> TAKE x \in D
    <2> HAVE \A y \in D : rank[y] < rank[x] => f[y] = g[y]
    <2>1. step(f, x) = step(g, x)
      BY <1>6
    <2>2. F[f] = [i \in D |-> step(f, i)] /\ F[g] = [i \in D |-> step(g, i)]
      BY <1>7
    <2>3. F[f][x] = step(f, x) /\ F[g][x] = step(g, x)
      BY <2>2
    <2> QED
      BY <2>1, <2>3
  <1>9. Recursion(D, Seq(S), rank, F)
    BY <1>4, <1>7, <1>8 DEF Recursion
  <1>10. PICK e \in [D -> Seq(S)] : F[e] = e
    <2>1. <<>> \in Seq(S)
      OBVIOUS
    <2>2. Seq(S) # {}
      BY <2>1
    <2>3. PICK V : V = Seq(S)
      OBVIOUS
    <2> HIDE DEF Steps
    <2>4. Recursion(D, V, rank, F) /\ V # {}
      BY ONLY <2>2, <2>3, <1>9
    <2>5. \E f : f \in [D -> V] /\ F[f] = f
      BY ONLY <2>4, RecursionExists
    <2> QED
      BY ONLY <2>3, <2>5
  <1>11. Steps(e)
    BY <1>7, <1>10
  <1>12. PICK f : Steps(f) /\ f = CHOOSE g : Steps(g)
    BY <1>11
  <1>13. \A i \in D : f[i] = step(f, i)
    <2>1. f = [i \in D |-> step(f, i)]
      BY <1>12
    <2> TAKE i \in D
    <2>2. f[i] = [j \in D |-> step(f, j)][i]
      BY <2>1
    <2> QED
      BY <2>2
  <1> DEFINE Bad == {i \in Nat : i \in D /\ f[i] \notin Seq(S)}
  <1>14. Bad = {}
    <2> SUFFICES ASSUME Bad # {}
                 PROVE  FALSE
      OBVIOUS
    <2>1. PICK i \in Bad : \A j \in Bad : i <= j
      <3>1. Bad \subseteq Nat
        OBVIOUS
      <3> HIDE DEF Bad
      <3> QED
        BY <3>1, LeastNumber
    <2>2. i \in D /\ i \in Nat /\ f[i] \notin Seq(S)
      BY <2>1
    <2>3. i # 1 => f[i - 1] \in Seq(S)
      <3> SUFFICES ASSUME i # 1, f[i - 1] \notin Seq(S)
                   PROVE  FALSE
        OBVIOUS
      <3>1. i - 1 \in D /\ i - 1 \in Nat /\ ~(i <= i - 1)
        BY <1>3, <2>2
      <3>2. i - 1 \in Bad
        BY <3>1
      <3> HIDE DEF Bad
      <3> QED
        BY <3>1, <3>2, <2>1
    <2>4. seqs[i] \in Seq(S)
      BY <1>3, <2>2
    <2>5. f[i] = step(f, i)
      BY <1>13, <2>2
    <2>6. step(f, i) \in Seq(S)
      BY <2>3, <2>4 DEF step
    <2> QED
      BY <2>2, <2>5, <2>6
  <1>15. f \in [D -> Seq(S)]
    <2>1. \A i \in D : f[i] \in Seq(S)
      BY <1>3, <1>14
    <2>2. f = [i \in D |-> step(f, i)]
      BY <1>12
    <2>3. f = [i \in D |-> f[i]]
      BY <2>2
    <2> QED
      BY <2>1, <2>3
  <1>16. \A i \in D : f[i] = IF i = 1 THEN seqs[1] ELSE f[i - 1] \o seqs[i]
    BY <1>13 DEF step
  <1>17. FlattenSeq(seqs) = f[n]
    BY <1>2, <1>12
  <1>18. D = 1 .. Len(seqs)
    BY <1>1 DEF D
  <1> QED
    BY <1>1, <1>15, <1>16, <1>17, <1>18

LEMMA Grows ==
    ASSUME NEW n \in Nat, NEW o \in [0 .. n -> Nat],
           \A i \in 1 .. n : o[i - 1] <= o[i],
           NEW i \in 0 .. n, NEW k \in i .. n
    PROVE  o[i] <= o[k]
  <1> DEFINE Low(l) == ~(o[i] <= o[l])
             Bad == {l \in Nat : l \in i .. n /\ Low(l)}
  <1> HIDE DEF Low
  <1>1. Bad = {}
    <2> SUFFICES ASSUME Bad # {}
                 PROVE  FALSE
      OBVIOUS
    <2>1. PICK l \in Bad : \A m \in Bad : l <= m
      <3>1. Bad \subseteq Nat
        OBVIOUS
      <3> HIDE DEF Bad
      <3> QED
        BY <3>1, LeastNumber
    <2>2. l \in Nat /\ l \in i .. n /\ Low(l)
      BY <2>1
    <2>3. l # i
      <3>1. o[i] \in Nat
        OBVIOUS
      <3> QED
        BY ONLY <2>2, <3>1 DEF Low
    <2>4. l \in 1 .. n /\ l - 1 \in Nat /\ l - 1 \in i .. n /\ ~(l <= l - 1)
          /\ l - 1 \in 0 .. n
      BY ONLY <2>2, <2>3, n \in Nat, i \in 0 .. n
    <2>5. Low(l - 1)
      <3>1. o[l - 1] <= o[l] /\ o[l - 1] \in Nat /\ o[l] \in Nat /\ o[i] \in Nat
        BY <2>4
      <3>2. ~(o[i] <= o[l])
        BY <2>2 DEF Low
      <3>3. ~(o[i] <= o[l - 1])
        BY ONLY <3>1, <3>2
      <3> QED
        BY <3>3 DEF Low
    <2>6. l - 1 \in Bad
      BY <2>4, <2>5
    <2> HIDE DEF Bad
    <2> QED
      BY <2>1, <2>4, <2>6
  <1>2. k \in Nat /\ k \in i .. n
    OBVIOUS
  <1>3. ~Low(k)
    BY <1>1, <1>2
  <1> QED
    BY <1>3 DEF Low

(* One part more at a time. *)
Accretes(S, seqs, n, f) ==
    /\ f \in [1 .. n -> Seq(S)] /\ f[1] = seqs[1]
    /\ \A i \in 1 .. n : seqs[i] \in Seq(S) /\ (i # 1 => f[i] = f[i - 1] \o seqs[i])

OneMorePart(S, seqs, f, o, i) ==
    /\ o[i] = o[i - 1] + Len(seqs[i])
    /\ o[i] = Len(f[i]) /\ f[i] \in Seq(S)
    /\ Len(seqs[i]) \in Nat /\ o[i - 1] \in Nat /\ o[i] \in Nat
    /\ \A j \in 1 .. Len(seqs[i]) : f[i][o[i - 1] + j] = seqs[i][j]
    /\ i # 1 => \A j \in 1 .. o[i - 1] : f[i][j] = f[i - 1][j]

LEMMA PartsTold ==
    ASSUME NEW S, NEW n \in Nat, NEW seqs, NEW f, Accretes(S, seqs, n, f),
           NEW o, o = [i \in 0 .. n |-> IF i = 0 THEN 0 ELSE Len(f[i])],
           NEW i \in 1 .. n
    PROVE  OneMorePart(S, seqs, f, o, i)
  <1>1. \A k \in 1 .. n : f[k] \in Seq(S)
    BY DEF Accretes
  <1>2. \A k \in 1 .. n : k \in 0 .. n /\ k # 0 /\ o[k] = Len(f[k])
    OBVIOUS
  <1>3. 0 \in 0 .. n /\ o[0] = 0
    OBVIOUS
  <1>4. PICK b \in Seq(S) : b = seqs[i]
    BY DEF Accretes
  <1>5. PICK c \in Seq(S) : c = f[i] /\ o[i] = Len(c)
    BY <1>1, <1>2
  <1>6. CASE i = 1
    <2>1. c = b
      BY <1>4, <1>5, <1>6 DEF Accretes
    <2>2. i - 1 = 0 /\ o[i - 1] = 0
      BY <1>3, <1>6
    <2>3. Len(b) \in Nat /\ \A j \in 1 .. Len(b) : 0 + j = j
      OBVIOUS
    <2>4. o[i] = o[i - 1] + Len(b)
      BY ONLY <2>1, <2>2, <2>3, <1>5
    <2>5. \A j \in 1 .. Len(b) : c[o[i - 1] + j] = b[j]
      BY ONLY <2>1, <2>2, <2>3
    <2>6. o[i] \in Nat /\ o[i - 1] \in Nat
      BY ONLY <2>2, <2>3, <2>4
    <2> QED
      BY ONLY <1>4, <1>5, <1>6, <2>3, <2>4, <2>5, <2>6 DEF OneMorePart
  <1>7. CASE i # 1
    <2>1. i - 1 \in 1 .. n
      BY <1>7
    <2>2. PICK a \in Seq(S) : a = f[i - 1] /\ o[i - 1] = Len(a)
      BY <1>1, <1>2, <2>1
    <2>3. c = a \o b
      BY <1>4, <1>5, <1>7, <2>2 DEF Accretes
    <2>4. Joins(S, a, b, c)
      BY <2>3, Joined
    <2>5. Len(a) \in Nat /\ Len(b) \in Nat /\ Len(c) \in Nat
      OBVIOUS
    <2>6. /\ Len(c) = Len(a) + Len(b)
          /\ \A j \in 1 .. Len(a) : c[j] = a[j]
          /\ \A j \in 1 .. Len(b) : c[Len(a) + j] = b[j]
      BY <2>4 DEF Joins
    <2> QED
      BY ONLY <1>4, <1>5, <2>2, <2>5, <2>6 DEF OneMorePart
  <1> QED
    BY <1>6, <1>7

Holds(seqs, f, o, k) ==
    \A i \in 1 .. k : \A j \in 1 .. Len(seqs[i]) : f[k][o[i - 1] + j] = seqs[i][j]

LEMMA PartsHeld ==
    ASSUME NEW S, NEW n \in Nat, NEW seqs, NEW f, NEW o \in [0 .. n -> Nat],
           \A i \in 1 .. n : OneMorePart(S, seqs, f, o, i), n # 0
    PROVE  Holds(seqs, f, o, n)
  <1> DEFINE Bad == {k \in Nat : k \in 1 .. n /\ ~Holds(seqs, f, o, k)}
  <1>1. Bad = {}
    <2> SUFFICES ASSUME Bad # {}
                 PROVE  FALSE
      OBVIOUS
    <2>1. PICK k \in Bad : \A l \in Bad : k <= l
      <3>1. Bad \subseteq Nat
        OBVIOUS
      <3> HIDE DEF Bad
      <3> QED
        BY <3>1, LeastNumber
    <2>2. k \in Nat /\ k \in 1 .. n /\ ~Holds(seqs, f, o, k)
      BY <2>1
    <2>3. ASSUME k # 1
          PROVE  Holds(seqs, f, o, k - 1) /\ k - 1 \in 1 .. n /\ k - 1 \in 0 .. n
      <3>1. k - 1 \in 1 .. n /\ k - 1 \in Nat /\ ~(k <= k - 1) /\ k - 1 \in 0 .. n
        BY ONLY <2>2, <2>3, n \in Nat
      <3>2. k - 1 \notin Bad
        <4> HIDE DEF Bad
        <4> QED
          BY <3>1, <2>1
      <3> QED
        BY <3>1, <3>2
    <2> HIDE DEF Bad
    <2>4. OneMorePart(S, seqs, f, o, k)
      BY <2>2
    <2>5. ASSUME NEW i \in 1 .. k, NEW j \in 1 .. Len(seqs[i])
          PROVE  f[k][o[i - 1] + j] = seqs[i][j]
      <3>1. CASE i = k
        BY <3>1, <2>4 DEF OneMorePart
      <3>2. CASE i # k
        <4>1. k # 1 /\ i \in 1 .. k - 1 /\ i \in 1 .. n /\ i \in 0 .. n
              /\ k - 1 \in i .. n
          BY ONLY <3>2, <2>2, i \in 1 .. k, n \in Nat
        <4>2. Holds(seqs, f, o, k - 1) /\ k - 1 \in 0 .. n
          BY <4>1, <2>3
        <4>3. f[k - 1][o[i - 1] + j] = seqs[i][j]
          BY <4>1, <4>2 DEF Holds
        <4>4. OneMorePart(S, seqs, f, o, i)
          BY <4>1
        <4>5. /\ o[i - 1] \in Nat /\ o[i] \in Nat /\ Len(seqs[i]) \in Nat
              /\ o[i] = o[i - 1] + Len(seqs[i]) /\ o[k - 1] \in Nat
          BY <4>2, <4>4 DEF OneMorePart
        <4>6. o[i] <= o[k - 1]
          <5>1. \A l \in 1 .. n : o[l - 1] <= o[l]
            <6> TAKE l \in 1 .. n
            <6>1. OneMorePart(S, seqs, f, o, l)
              OBVIOUS
            <6>2. o[l] = o[l - 1] + Len(seqs[l]) /\ Len(seqs[l]) \in Nat /\ o[l - 1] \in Nat
              BY <6>1 DEF OneMorePart
            <6> QED
              BY ONLY <6>2
          <5> QED
            BY <5>1, <4>1, Grows
        <4>7. o[i - 1] + j \in 1 .. o[k - 1]
          BY ONLY SMTT(30), <4>5, <4>6, j \in 1 .. Len(seqs[i])
        <4>8. f[k][o[i - 1] + j] = f[k - 1][o[i - 1] + j]
          BY <4>1, <4>7, <2>4 DEF OneMorePart
        <4> QED
          BY <4>3, <4>8
      <3> QED
        BY <3>1, <3>2
    <2> QED
      BY <2>2, <2>5 DEF Holds
  <1>2. n \in Nat /\ n \in 1 .. n
    OBVIOUS
  <1> QED
    BY <1>1, <1>2

LEMMA FlattenIs ==
    ASSUME NEW S, NEW seqs \in Seq(Seq(S))
    PROVE  FlattenSeq(seqs) \in Seq(S) /\ \E o : Flattened(seqs, FlattenSeq(seqs), o)
  <1>1. PICK n \in Nat : n = Len(seqs)
    OBVIOUS
  <1>2. CASE n = 0
    <2>1. FlattenSeq(seqs) = seqs
      BY <1>1, <1>2 DEF FlattenSeq
    <2>2. seqs = <<>>
      BY ONLY <1>1, <1>2, seqs \in Seq(Seq(S)), EmptySeq
    <2>3. Flattened(<<>>, <<>>, [i \in 0 .. 0 |-> 0])
      BY DEF Flattened
    <2>4. <<>> \in Seq(S)
      OBVIOUS
    <2> QED
      BY <2>1, <2>2, <2>3, <2>4
  <1>3. CASE n # 0
    <2>1. PICK f \in [1 .. n -> Seq(S)] :
              /\ FlattenSeq(seqs) = f[n]
              /\ \A i \in 1 .. n : f[i] = IF i = 1 THEN seqs[1] ELSE f[i - 1] \o seqs[i]
      BY SMTT(30), <1>1, <1>3, FlattenSteps
    <2>2. \A i \in 1 .. n : seqs[i] \in Seq(S)
      BY <1>1
    <2>3. 1 \in 1 .. n /\ n \in 1 .. n
      BY <1>3
    <2>4. Accretes(S, seqs, n, f)
      BY <2>1, <2>2, <2>3 DEF Accretes
    <2>5. PICK o : o = [i \in 0 .. n |-> IF i = 0 THEN 0 ELSE Len(f[i])]
      OBVIOUS
    <2>6. \A i \in 1 .. n : OneMorePart(S, seqs, f, o, i)
      BY <2>4, <2>5, PartsTold
    <2>7. o \in [0 .. n -> Nat] /\ o[0] = 0
      <3>1. \A i \in 0 .. n : i = 0 \/ i \in 1 .. n
        OBVIOUS
      <3>2. 0 \in 0 .. n /\ o[0] = 0
        BY <2>5
      <3>3. \A i \in 0 .. n : o[i] \in Nat
        BY <3>1, <3>2, <2>6 DEF OneMorePart
      <3> QED
        BY <3>2, <3>3, <2>5
    <2>8. Holds(seqs, f, o, n)
      BY <2>6, <2>7, <1>3, PartsHeld
    <2>9. Flattened(seqs, f[n], o)
      BY ONLY <1>1, <2>3, <2>6, <2>7, <2>8 DEF Flattened, OneMorePart, Holds
    <2>10. f[n] \in Seq(S)
      BY <2>3, <2>6 DEF OneMorePart
    <2> QED
      BY <2>1, <2>9, <2>10
  <1> QED
    BY <1>2, <1>3

(* Each place in the whole is one in a part. *)
InPart(seqs, t, o, p) ==
    \E i \in 1 .. Len(seqs) : \E j \in 1 .. Len(seqs[i]) :
       p = o[i - 1] + j /\ t[p] = seqs[i][j]

LEMMA Located ==
    ASSUME NEW seqs, NEW t, NEW o, Flattened(seqs, t, o), NEW p \in 1 .. Len(t)
    PROVE  InPart(seqs, t, o, p)
  <1>1. PICK n \in Nat : n = Len(seqs)
    BY DEF Flattened
  <1>2. /\ o \in [0 .. n -> Nat] /\ o[0] = 0 /\ Len(t) = o[n]
        /\ \A i \in 1 .. n :
              /\ Len(seqs[i]) \in Nat
              /\ o[i] = o[i - 1] + Len(seqs[i])
              /\ \A j \in 1 .. Len(seqs[i]) : t[o[i - 1] + j] = seqs[i][j]
    BY <1>1 DEF Flattened
  <1> DEFINE After == {i \in Nat : i \in 0 .. n /\ p <= o[i]}
  <1>3. n \in 0 .. n /\ o[n] \in Nat /\ p <= o[n] /\ p \in Nat /\ p # 0
    BY <1>1, <1>2
  <1>4. PICK i \in After : \A k \in After : i <= k
    <2>1. After \subseteq Nat /\ n \in After
      BY <1>3
    <2> HIDE DEF After
    <2> QED
      BY <2>1, LeastNumber
  <1>5. i \in Nat /\ i \in 0 .. n /\ p <= o[i]
    BY <1>4
  <1>6. i \in 1 .. n
    <2>1. i # 0
      BY <1>2, <1>3, <1>5
    <2> QED
      BY <2>1, <1>5
  <1>7. i - 1 \in 0 .. n /\ i - 1 \in Nat /\ o[i - 1] \in Nat
    BY <1>2, <1>6
  <1>8. o[i - 1] < p
    <2> SUFFICES ASSUME ~(o[i - 1] < p)
                 PROVE  FALSE
      OBVIOUS
    <2>1. i - 1 \in After
      BY <1>3, <1>7
    <2>2. ~(i <= i - 1)
      BY <1>5
    <2> HIDE DEF After
    <2> QED
      BY <2>1, <2>2, <1>4
  <1>9. p - o[i - 1] \in 1 .. Len(seqs[i]) /\ p = o[i - 1] + (p - o[i - 1])
    BY SMTT(30), <1>2, <1>3, <1>5, <1>6, <1>7, <1>8
  <1>10. t[o[i - 1] + (p - o[i - 1])] = seqs[i][p - o[i - 1]]
    BY <1>2, <1>6, <1>9
  <1> QED
    BY <1>1, <1>6, <1>9, <1>10 DEF InPart

-----------------------------------------------------------------------------
(* The total weight of a sequence of keys.                                 *)
weights(W, keys) == [i \in 1 .. Len(keys) |-> W[keys[i]]]
weight(W, keys)  == total(weights(W, keys))

Weighed(W, keys, v) ==
    /\ v \in Seq(Int)
    /\ Len(v) = Len(keys)
    /\ \A i \in 1 .. Len(keys) : v[i] = W[keys[i]]

LEMMA WeightsAre ==
    ASSUME NEW S, NEW W \in [S -> Int], NEW keys \in Seq(S)
    PROVE  Weighed(W, keys, weights(W, keys))
  <1>1. Len(keys) \in Nat /\ \A i \in 1 .. Len(keys) : keys[i] \in S
    BY LenProperties
  <1>2. weights(W, keys) \in [1 .. Len(keys) -> Int]
    BY <1>1 DEF weights
  <1>3. PICK v : v = weights(W, keys)
    OBVIOUS
  <1>4. v \in Seq(Int) /\ Len(v) = Len(keys)
    BY SMTT(30), <1>1, <1>2, <1>3
  <1> QED
    BY <1>3, <1>4 DEF weights, Weighed

LEMMA WeightType ==
    ASSUME NEW S, NEW W \in [S -> Int], NEW keys \in Seq(S)
    PROVE  weight(W, keys) \in Int
  BY WeightsAre, TotalType DEF weight, Weighed

LEMMA WeightNat ==
    ASSUME NEW S, NEW W \in [S -> Nat], NEW keys \in Seq(S)
    PROVE  weight(W, keys) \in Nat
  <1>1. W \in [S -> Int]
    OBVIOUS
  <1>2. PICK v : v = weights(W, keys)
    OBVIOUS
  <1>3w. Weighed(W, keys, v)
    BY <1>1, <1>2, WeightsAre
  <1>3. v \in Seq(Int) /\ Len(v) = Len(keys) /\ \A i \in 1 .. Len(keys) : v[i] = W[keys[i]]
    BY <1>3w DEF Weighed
  <1>4. \A i \in 1 .. Len(keys) : keys[i] \in S
    BY LenProperties
  <1>5. v \in Seq(Nat)
    <2>1. Len(v) \in Nat /\ v \in [1 .. Len(v) -> Nat]
      BY <1>3, <1>4
    <2> QED
      BY <2>1
  <1> QED
    BY <1>2, <1>5, TotalNat DEF weight

LEMMA WeightConcat ==
    ASSUME NEW S, NEW W \in [S -> Int], NEW a \in Seq(S), NEW b \in Seq(S),
           NEW c, c = a \o b
    PROVE  weight(W, c) = weight(W, a) + weight(W, b)
  <1>1. PICK va, vb, vc, vd : /\ va = weights(W, a) /\ vb = weights(W, b)
                              /\ vc = weights(W, c) /\ vd = va \o vb
    OBVIOUS
  <1>2. Joins(S, a, b, c)
    BY Joined
  <1>3. c \in Seq(S) /\ Len(c) = Len(a) + Len(b)
    BY <1>2 DEF Joins
  <1>4w. Weighed(W, a, va)
    BY <1>1, WeightsAre
  <1>4. va \in Seq(Int) /\ Len(va) = Len(a) /\ \A i \in 1 .. Len(a) : va[i] = W[a[i]]
    BY <1>4w DEF Weighed
  <1>5w. Weighed(W, b, vb)
    BY <1>1, WeightsAre
  <1>5. vb \in Seq(Int) /\ Len(vb) = Len(b) /\ \A i \in 1 .. Len(b) : vb[i] = W[b[i]]
    BY <1>5w DEF Weighed
  <1>6w. Weighed(W, c, vc)
    BY <1>1, <1>3, WeightsAre
  <1>6. vc \in Seq(Int) /\ Len(vc) = Len(c) /\ \A i \in 1 .. Len(c) : vc[i] = W[c[i]]
    BY <1>6w DEF Weighed
  <1>7. Joins(Int, va, vb, vd)
    BY <1>1, <1>4, <1>5, Joined
  <1>n. Len(a) \in Nat /\ Len(b) \in Nat
    BY LenProperties
  <1>8. ASSUME NEW i \in 1 .. Len(c) PROVE vc[i] = vd[i]
    <2>1. CASE i \in 1 .. Len(a)
      BY <1>2, <1>4, <1>6, <1>7, <2>1 DEF Joins
    <2>2. CASE i \in Len(a) + 1 .. Len(c)
      <3>1. PICK k : k = i - Len(a)
        OBVIOUS
      <3>2. k \in 1 .. Len(b) /\ Len(a) + k = i /\ Len(va) + k = i
        BY <1>n, <1>3, <1>4, <2>2, <3>1
      <3>3. vd[i] = vb[k]
        BY <1>5, <1>7, <3>2 DEF Joins
      <3>4. c[i] = b[k]
        BY <1>2, <3>2 DEF Joins
      <3> QED
        BY ZenonT(30), <1>5, <1>6, <3>2, <3>3, <3>4
    <2> QED
      BY <1>n, <1>3, <2>1, <2>2
  <1>9. Len(vd) = Len(vc) /\ vd \in Seq(Int)
    BY <1>3, <1>4, <1>5, <1>6, <1>7 DEF Joins
  <1>10. vc = vd
    BY <1>3, <1>6, <1>8, <1>9, SeqEqual
  <1>11. total(vd) = total(va) + total(vb)
    BY <1>1, <1>4, <1>5, TotalConcat
  <1> QED
    BY <1>1, <1>10, <1>11 DEF weight

LEMMA WeightInsert ==
    ASSUME NEW S, NEW W \in [S -> Int], NEW keys \in Seq(S), NEW e \in S,
           NEW i \in 1 .. Len(keys) + 1
    PROVE  weight(W, InsertAt(keys, i, e)) = weight(W, keys) + W[e]
  <1>1. PICK t : t = InsertAt(keys, i, e)
    OBVIOUS
  <1>2. Inserted(S, keys, i, e, t)
    BY <1>1, InsertAtIs
  <1>3. PICK a \in Seq(S), b \in Seq(S) : t = (a \o <<e>>) \o b /\ keys = a \o b
    BY <1>2 DEF Inserted
  <1>4. PICK d, c : d = <<e>> /\ c = a \o d
    OBVIOUS
  <1>5. d \in Seq(S) /\ Len(d) = 1 /\ d[1] = e
    BY <1>4
  <1>6. c \in Seq(S)
    BY <1>4, <1>5
  <1>7. weight(W, c) = weight(W, a) + weight(W, d)
    BY ZenonT(30), <1>4, <1>5, WeightConcat
  <1>8. t = c \o b
    BY <1>3, <1>4
  <1>9. weight(W, t) = weight(W, c) + weight(W, b)
    BY ZenonT(30), <1>6, <1>8, WeightConcat
  <1>10. weight(W, keys) = weight(W, a) + weight(W, b)
    BY <1>3, WeightConcat
  <1>11. weight(W, d) = W[e]
    <2>1. PICK v : v = weights(W, d)
      OBVIOUS
    <2>w. Weighed(W, d, v)
      BY <1>5, <2>1, WeightsAre
    <2>2. v \in Seq(Int) /\ Len(v) = 1 /\ v[1] = W[e] /\ W[e] \in Int
      BY <1>5, <2>w DEF Weighed
    <2>3. v = <<W[e]>>
      BY <2>2
    <2> QED
      BY <2>1, <2>2, <2>3, TotalFew DEF weight
  <1>12. weight(W, a) \in Int /\ weight(W, b) \in Int /\ W[e] \in Int
    BY WeightType
  <1> QED
    BY <1>1, <1>7, <1>9, <1>10, <1>11, <1>12

LEMMA WeightRemove ==
    ASSUME NEW S, NEW W \in [S -> Int], NEW keys \in Seq(S),
           NEW i \in 1 .. Len(keys)
    PROVE  weight(W, RemoveAt(keys, i)) = weight(W, keys) - W[keys[i]]
  <1>0. keys[i] \in S /\ Len(keys) \in Nat
    OBVIOUS
  <1>1. PICK t : t = RemoveAt(keys, i)
    OBVIOUS
  <1>2. Removed(S, keys, i, t)
    BY <1>1, RemoveAtIs
  <1>3. t \in Seq(S) /\ Len(t) = Len(keys) - 1 /\ keys = InsertAt(t, i, keys[i])
    BY <1>2 DEF Removed
  <1>4. i \in 1 .. Len(t) + 1
    BY <1>0, <1>3
  <1>5. weight(W, InsertAt(t, i, keys[i])) = weight(W, t) + W[keys[i]]
    BY <1>0, <1>3, <1>4, WeightInsert
  <1>6. weight(W, t) \in Int /\ W[keys[i]] \in Int
    BY <1>0, <1>3, WeightType
  <1> QED
    BY <1>1, <1>3, <1>5, <1>6

-----------------------------------------------------------------------------
(* Counts and accumulators.                                                *)
HasChildren(T, keys) ==
    \A i \in 1 .. Len(keys) : keys[i].nodeId = 0 \/ keys[i].nodeId \in DOMAIN T

counted(T) ==
    [key \in KeyType |-> IF key.nodeId = 0 \/ key.nodeId \in DOMAIN T
                         THEN countOf(T, key) ELSE 0]
accumulated(T) ==
    [key \in KeyType |-> IF key.nodeId = 0 \/ key.nodeId \in DOMAIN T
                         THEN accumOf(T, key) ELSE 0]

LEMMA CountedType ==
    ASSUME NEW T, T \in [DOMAIN T -> NodeType]
    PROVE  counted(T) \in [KeyType -> Nat] /\ accumulated(T) \in [KeyType -> Nat]
  <1>1. ASSUME NEW key \in KeyType
        PROVE  /\ (IF key.nodeId = 0 \/ key.nodeId \in DOMAIN T
                   THEN countOf(T, key) ELSE 0) \in Nat
               /\ (IF key.nodeId = 0 \/ key.nodeId \in DOMAIN T
                   THEN accumOf(T, key) ELSE 0) \in Nat
    BY ItemsAssumption DEF countOf, accumOf, NodeType, KeyType
  <1> QED
    BY <1>1 DEF counted, accumulated

LEMMA CountIsWeight ==
    ASSUME NEW T, T \in [DOMAIN T -> NodeType], NEW keys \in Seq(KeyType),
           HasChildren(T, keys)
    PROVE  /\ countOfAll(T, keys) = weight(counted(T), keys)
           /\ accumOfAll(T, keys) = weight(accumulated(T), keys)
  <1>1. DOMAIN keys = 1 .. Len(keys) /\ \A i \in 1 .. Len(keys) : keys[i] \in KeyType
    BY LenProperties
  <1>2. \A i \in 1 .. Len(keys) : counted(T)[keys[i]] = countOf(T, keys[i])
    BY <1>1 DEF counted, HasChildren
  <1>3. \A i \in 1 .. Len(keys) : accumulated(T)[keys[i]] = accumOf(T, keys[i])
    BY <1>1 DEF accumulated, HasChildren
  <1>4. [i \in DOMAIN keys |-> countOf(T, keys[i])] = weights(counted(T), keys)
    BY <1>1, <1>2 DEF weights
  <1>5. [i \in DOMAIN keys |-> accumOf(T, keys[i])] = weights(accumulated(T), keys)
    BY <1>1, <1>3 DEF weights
  <1> QED
    BY <1>4, <1>5 DEF countOfAll, accumOfAll, weight

-----------------------------------------------------------------------------
(* Nodes and keys.                                                         *)
LEMMA NodeFacts ==
    ASSUME NEW T, NEW h, Stored(T, h), NEW id \in DOMAIN T
    PROVE  /\ T[id].items \in Seq(KeyType)
           /\ Len(T[id].items) \in Nat
           /\ DOMAIN T[id].items = 1 .. Len(T[id].items)
           /\ \A i \in 1 .. Len(T[id].items) : T[id].items[i] \in KeyType
           /\ T[id].nextSibling \in Nat /\ T[id].prevSibling \in Nat
           /\ T[id].accumCount \in Nat /\ T[id].accum \in Nat
           /\ h[id] \in Nat /\ id \in Nat /\ id # 0
  <1>1. T[id] \in NodeType /\ h[id] \in Nat /\ id \in Nat \ {0}
    BY DEF Stored
  <1>2. /\ T[id].items \in Seq(KeyType)
        /\ T[id].nextSibling \in Nat /\ T[id].prevSibling \in Nat
        /\ T[id].accumCount \in Nat /\ T[id].accum \in Nat
    BY <1>1 DEF NodeType
  <1>3. PICK keys \in Seq(KeyType) : keys = T[id].items
    BY <1>2
  <1>4. Len(keys) \in Nat /\ DOMAIN keys = 1 .. Len(keys)
        /\ \A i \in 1 .. Len(keys) : keys[i] \in KeyType
    BY LenProperties
  <1> QED
    BY <1>1, <1>2, <1>3, <1>4

LEMMA KeyParts ==
    ASSUME NEW key \in KeyType
    PROVE  /\ key.item \in Items /\ key.item \in Nat /\ key.nodeId \in Nat
           /\ key # none
  <1>1. key.item \in Items /\ key.nodeId \in Nat
    BY DEF KeyType
  <1>2. key.item \in Nat
    BY <1>1, ItemsAssumption
  <1>3. key.item # -1
    BY <1>2
  <1> QED
    BY <1>1, <1>2, <1>3 DEF none, Key

Ascends(keys) ==
    \A i, j \in 1 .. Len(keys) : i < j => keys[i].item < keys[j].item

LEMMA StepsAscend ==
    ASSUME NEW keys \in Seq(KeyType),
           \A i \in 1 .. Len(keys) : i < Len(keys) => keys[i].item < keys[i + 1].item
    PROVE  Ascends(keys)
  <1>0. Len(keys) \in Nat /\ \A i \in 1 .. Len(keys) : keys[i].item \in Nat
    BY LenProperties, KeyParts
  <1>1. SUFFICES ASSUME NEW i \in 1 .. Len(keys), NEW j \in 1 .. Len(keys), i < j,
                        ~(keys[i].item < keys[j].item)
                 PROVE  FALSE
    BY DEF Ascends
  <1> DEFINE T == {m \in Nat : m <= Len(keys) /\ i < m /\ ~(keys[i].item < keys[m].item)}
  <1>2. T # {}
    BY <1>0, <1>1
  <1>3. PICK m \in T : \A k \in T : m <= k
    BY <1>2, LeastNumber
  <1>4. m \in 1 .. Len(keys) /\ i < m /\ ~(keys[i].item < keys[m].item)
    BY <1>0, <1>3
  <1>5. m - 1 \in 1 .. Len(keys) /\ m - 1 < Len(keys) /\ (m - 1) + 1 = m /\ ~(m <= m - 1)
    BY <1>0, <1>4
  <1>6. keys[m - 1].item < keys[m].item
    BY <1>5
  <1>7. CASE m - 1 = i
    BY <1>4, <1>6, <1>7
  <1>8. CASE i < m - 1
    <2>1. keys[i].item < keys[m - 1].item
      <3>1. m - 1 \notin T
        BY <1>3, <1>5
      <3> QED
        BY <1>0, <1>5, <1>8, <3>1
    <2>2. keys[i].item \in Nat /\ keys[m - 1].item \in Nat /\ keys[m].item \in Nat
      BY <1>0, <1>4, <1>5
    <2> QED
      BY <1>4, <1>6, <2>1, <2>2
  <1> QED
    BY <1>0, <1>4, <1>7, <1>8

LEMMA NodeAscends ==
    ASSUME NEW T, NEW h, Stored(T, h), NEW id \in DOMAIN T, OrderedAt(T, id)
    PROVE  Ascends(T[id].items)
  <1>1. PICK keys : keys = T[id].items
    OBVIOUS
  <1>2. keys \in Seq(KeyType) /\ Len(keys) \in Nat /\ DOMAIN keys = 1 .. Len(keys)
        /\ \A i \in 1 .. Len(keys) : keys[i] \in KeyType
    BY <1>1, NodeFacts
  <1>3. ASSUME NEW i \in 1 .. Len(keys), i < Len(keys)
        PROVE  keys[i].item < keys[i + 1].item
    <2>1. i + 1 \in 1 .. Len(keys)
      BY <1>2, <1>3
    <2>2. keys[i + 1] # none
      BY <1>2, <2>1, KeyParts
    <2>3. nextKey(T, id, i) = keys[i + 1]
      BY <1>1, <1>3 DEF nextKey
    <2> QED
      BY <1>1, <1>2, <2>2, <2>3 DEF OrderedAt
  <1>4. Ascends(keys)
    BY <1>2, <1>3, StepsAscend
  <1> QED
    BY <1>1, <1>4

(* Where a key is merged in.                                               *)
LEMMA PlaceIs ==
    ASSUME NEW keys \in Seq(KeyType), Ascends(keys), NEW key \in KeyType,
           NEW i \in 1 .. Len(keys) + 1,
           i = 1 \/ keys[i - 1].item <= key.item,
           i > Len(keys) \/ key.item < keys[i].item
    PROVE  withKey(keys, key) = InsertAt(keys, i, key)
  <1>0. /\ Len(keys) \in Nat /\ key.item \in Nat
        /\ \A j \in 1 .. Len(keys) : keys[j].item \in Nat
    BY LenProperties, KeyParts
  <1> DEFINE Right(n) == /\ \A j \in 1 .. n - 1 : keys[j].item <= key.item
                         /\ n <= Len(keys) => key.item < keys[n].item
  <1>1. Right(i)
    <2>1. ASSUME NEW j \in 1 .. i - 1 PROVE keys[j].item <= key.item
      <3>1. j \in 1 .. Len(keys) /\ i - 1 \in 1 .. Len(keys) /\ i # 1
        BY <1>0
      <3>2. CASE j = i - 1
        BY <3>1, <3>2
      <3>3. CASE j < i - 1
        <4>1. keys[j].item < keys[i - 1].item
          BY <3>1, <3>3 DEF Ascends
        <4> QED
          BY <1>0, <3>1, <4>1
      <3> QED
        BY <3>1, <3>2, <3>3
    <2> QED
      BY <1>0, <2>1
  <1>2. ASSUME NEW n \in 1 .. Len(keys) + 1, Right(n) PROVE n = i
    <2>1. CASE n < i
      <3>1. n \in 1 .. Len(keys) /\ n \in 1 .. i - 1
        BY <1>0, <2>1
      <3>2. key.item < keys[n].item /\ keys[n].item <= key.item
        BY <1>0, <1>1, <1>2, <3>1
      <3> QED
        BY <1>0, <3>1, <3>2
    <2>2. CASE n > i
      <3>1. i \in 1 .. Len(keys) /\ i \in 1 .. n - 1
        BY <1>0, <2>2
      <3>2. key.item < keys[i].item /\ keys[i].item <= key.item
        BY <1>0, <1>1, <1>2, <3>1
      <3> QED
        BY <1>0, <3>1, <3>2
    <2> QED
      BY <1>0, <2>1, <2>2
  <1>3. placeOf(keys, key) = i
    <2>1. placeOf(keys, key) = CHOOSE n \in 1 .. Len(keys) + 1 : Right(n)
      BY DEF placeOf
    <2> HIDE DEF Right
    <2> QED
      BY <1>1, <1>2, <2>1
  <1> QED
    BY <1>3 DEF withKey

(* Where the search goes on.                                               *)
Pointed(keys, item, i) ==
    /\ i \in 0 .. Len(keys) - 1
    /\ i = 0 \/ keys[i + 1].item <= item
    /\ \A j \in i + 2 .. Len(keys) : item < keys[j].item

LEMMA OnePointed ==
    ASSUME NEW keys \in Seq(KeyType), NEW item \in Nat,
           NEW i, NEW j, Pointed(keys, item, i), Pointed(keys, item, j)
    PROVE  i = j
  <1>0. Len(keys) \in Nat /\ \A n \in 1 .. Len(keys) : keys[n].item \in Nat
    BY LenProperties, KeyParts
  <1>1. i \in Nat /\ j \in Nat /\ i + 1 \in 1 .. Len(keys) /\ j + 1 \in 1 .. Len(keys)
    BY <1>0 DEF Pointed
  <1>2. ASSUME i < j PROVE FALSE
    <2>1. j + 1 \in i + 2 .. Len(keys) /\ j # 0
      BY <1>1, <1>2
    <2>2. item < keys[j + 1].item /\ keys[j + 1].item <= item
      BY <2>1 DEF Pointed
    <2> QED
      BY <1>0, <1>1, <2>2
  <1>3. ASSUME j < i PROVE FALSE
    <2>1. i + 1 \in j + 2 .. Len(keys) /\ i # 0
      BY <1>1, <1>3
    <2>2. item < keys[i + 1].item /\ keys[i + 1].item <= item
      BY <2>1 DEF Pointed
    <2> QED
      BY <1>0, <1>1, <2>2
  <1> QED
    BY <1>1, <1>2, <1>3

LEMMA SearchPoints ==
    ASSUME NEW node, node.items \in Seq(KeyType), Len(node.items) > 0,
           Ascends(node.items), NEW item \in Nat
    PROVE  Pointed(node.items, item, searchIndex(node, item))
  <1>k. PICK keys \in Seq(KeyType) : keys = node.items
    OBVIOUS
  <1>0. Len(keys) \in Nat /\ Len(keys) > 0 /\ \A n \in 1 .. Len(keys) : keys[n].item \in Nat
    BY <1>k, LenProperties, KeyParts
  <1>1. \E i : Pointed(keys, item, i)
    <2> DEFINE T == {m \in Nat : m <= Len(keys) /\ m >= 2 /\ item < keys[m].item}
    <2>1. CASE T = {}
      <3>1. ASSUME Len(keys) # 1 PROVE keys[Len(keys)].item <= item
        <4>1. Len(keys) \notin T /\ Len(keys) \in 1 .. Len(keys) /\ Len(keys) >= 2
          <5>1. Len(keys) \in 1 .. Len(keys) /\ Len(keys) >= 2
            <6>1. PICK n : n = Len(keys)
              OBVIOUS
            <6>2. n \in Nat /\ n > 0 /\ n # 1
              BY <1>0, <3>1, <6>1
            <6>3. n \in 1 .. n /\ n >= 2
              BY <6>2
            <6> QED
              BY <6>1, <6>3
          <5> QED
            BY <2>1, <5>1
        <4> QED
          BY <1>0, <4>1
      <3>2. /\ Len(keys) - 1 \in 0 .. Len(keys) - 1
            /\ (Len(keys) - 1) + 1 = Len(keys)
            /\ Len(keys) - 1 = 0 <=> Len(keys) = 1
            /\ \A j \in (Len(keys) - 1) + 2 .. Len(keys) : FALSE
        BY <1>0
      <3>3. Pointed(keys, item, Len(keys) - 1)
        BY <3>1, <3>2 DEF Pointed
      <3> QED
        BY <3>3
    <2>2. CASE T # {}
      <3>1. PICK m \in T : \A k \in T : m <= k
        BY <2>2, LeastNumber
      <3>2. m \in 2 .. Len(keys) /\ item < keys[m].item
        BY <1>0, <3>1
      <3>3. PICK i : i = m - 2
        OBVIOUS
      <3>4. i \in 0 .. Len(keys) - 1 /\ i + 2 = m /\ i + 1 \in 1 .. Len(keys) /\ m \in 1 .. Len(keys)
        BY <1>0, <3>2, <3>3
      <3>5. i = 0 \/ keys[i + 1].item <= item
        <4>1. ASSUME i # 0 PROVE keys[i + 1].item <= item
          <5>1. i + 1 \notin T
            BY <3>1, <3>3, <3>4
          <5>2. i + 1 >= 2 /\ i + 1 <= Len(keys) /\ i + 1 \in Nat
            BY <1>0, <3>4, <4>1
          <5> QED
            BY <1>0, <3>4, <5>1, <5>2
        <4> QED
          BY <4>1
      <3>6. ASSUME NEW j \in i + 2 .. Len(keys) PROVE item < keys[j].item
        <4>1. CASE j = m
          BY <3>2, <4>1
        <4>2. CASE j > m
          <5>1. j \in 1 .. Len(keys)
            BY <1>0, <3>2, <4>2
          <5>2. keys[m].item < keys[j].item
            BY <1>k, <3>4, <4>2, <5>1 DEF Ascends
          <5> QED
            BY <1>0, <3>2, <3>4, <5>1, <5>2
        <4> QED
          BY <3>4, <4>1, <4>2
      <3> QED
        BY <3>4, <3>5, <3>6 DEF Pointed
    <2> QED
      BY <2>1, <2>2
  <1>2. searchIndex(node, item) = CHOOSE i \in 0 .. Len(keys) - 1 : Pointed(keys, item, i)
    <2>1. \A i \in 0 .. Len(keys) - 1 :
             Pointed(keys, item, i)
               <=> /\ i = 0 \/ keys[i + 1].item <= item
                   /\ \A j \in i + 2 .. Len(keys) : item < keys[j].item
      BY DEF Pointed
    <2> QED
      BY <1>k, <2>1 DEF searchIndex
  <1>3. \E i \in 0 .. Len(keys) - 1 : Pointed(keys, item, i)
    BY <1>1 DEF Pointed
  <1> QED
    BY <1>k, <1>2, <1>3

-----------------------------------------------------------------------------
(* The order of a level follows from that of the level below.              *)
LEMMA OrderFromBelow ==
    ASSUME NEW T, NEW h, Stored(T, h), NEW id \in DOMAIN T,
           NEW i \in 1 .. Len(T[id].items), NEW key, key = T[id].items[i],
           NEW next, next = nextKey(T, id, i), next # none,
           key.nodeId \in DOMAIN T, next.nodeId \in DOMAIN T,
           T[key.nodeId].nextSibling = next.nodeId,
           key.item = firstItem(T, key.nodeId),
           next.item = firstItem(T, next.nodeId),
           OrderedAt(T, key.nodeId),
           Len(T[key.nodeId].items) > 0, Len(T[next.nodeId].items) > 0
    PROVE  key.item < next.item
  <1>1. PICK a, b : a = T[key.nodeId].items /\ b = T[next.nodeId].items
    OBVIOUS
  <1>2. PICK c, n : c = key.nodeId /\ n = Len(a)
    OBVIOUS
  <1>3. /\ n \in Nat /\ n > 0 /\ DOMAIN a = 1 .. n
        /\ \A j \in 1 .. n : a[j] \in KeyType
        /\ next.nodeId # 0
    BY <1>1, <1>2, NodeFacts
  <1>4. b[1] \in KeyType
    BY <1>1, NodeFacts
  <1>5. nextKey(T, c, n) = b[1]
    <2>1. T[c].items = a /\ T[c].nextSibling = next.nodeId /\ T[next.nodeId].items = b
      BY <1>1, <1>2
    <2>2. ~(n < Len(a)) /\ ~(Len(b) = 0)
      BY <1>1, <1>2, <1>3, NodeFacts
    <2>3. nextKey(T, c, n) = firstKey(T, next.nodeId)
      BY <2>1, <2>2 DEF nextKey
    <2> QED
      BY <1>3, <2>1, <2>2, <2>3 DEF firstKey
  <1>6. b[1] # none
    BY <1>4, KeyParts
  <1>7. a[n].item < b[1].item
    BY SMTT(30), <1>1, <1>2, <1>3, <1>5, <1>6 DEF OrderedAt
  <1>8. Ascends(a)
    BY <1>1, NodeAscends
  <1>9. a[1].item <= a[n].item /\ a[1].item \in Nat /\ a[n].item \in Nat /\ b[1].item \in Nat
    <2>1. a[1] \in KeyType /\ a[n] \in KeyType
      BY <1>3
    <2>2. a[1].item \in Nat /\ a[n].item \in Nat
      BY <2>1, KeyParts
    <2>3. n = 1 \/ a[1].item < a[n].item
      BY <1>2, <1>3, <1>8 DEF Ascends
    <2> QED
      BY <1>4, <2>2, <2>3, KeyParts
  <1>10. key.item = a[1].item /\ next.item = b[1].item
    BY <1>1 DEF firstItem
  <1> QED
    BY <1>7, <1>9, <1>10

-----------------------------------------------------------------------------
(* The next key is one of the same level.                                  *)
LEMMA NextKeyIn ==
    ASSUME NEW T, NEW h, Stored(T, h), NEW id \in DOMAIN T, LinkedAt(T, h, id),
           NEW i \in 1 .. Len(T[id].items), nextKey(T, id, i) # none
    PROVE  \E n \in DOMAIN T : \E j \in 1 .. Len(T[n].items) :
               h[n] = h[id] /\ nextKey(T, id, i) = T[n].items[j]
  <1>1. Len(T[id].items) \in Nat
    BY NodeFacts
  <1>2. CASE i < Len(T[id].items)
    <2>1. i + 1 \in 1 .. Len(T[id].items)
      BY <1>1, <1>2
    <2>2. nextKey(T, id, i) = T[id].items[i + 1]
      BY <1>2 DEF nextKey
    <2> QED
      BY <2>1, <2>2
  <1>3. CASE ~(i < Len(T[id].items))
    <2>1. PICK n : n = T[id].nextSibling
      OBVIOUS
    <2>2. nextKey(T, id, i) = firstKey(T, n)
      BY <1>3, <2>1 DEF nextKey
    <2>3. n # 0
      BY <2>2 DEF firstKey
    <2>4. n \in DOMAIN T /\ h[n] = h[id]
      BY <2>1, <2>3 DEF LinkedAt
    <2>5. Len(T[n].items) # 0 /\ firstKey(T, n) = T[n].items[1]
      BY <2>2, <2>3 DEF firstKey
    <2>6. 1 \in 1 .. Len(T[n].items)
      <3>1. Len(T[n].items) \in Nat
        BY <2>4, NodeFacts
      <3> QED
        BY <2>5, <3>1
    <2> QED
      BY <2>2, <2>4, <2>5, <2>6
  <1> QED
    BY <1>2, <1>3

(* The same nodes but for the items of keys and the totals.                *)
SameSkeleton(T, T2) ==
    /\ DOMAIN T2 = DOMAIN T
    /\ \A id \in DOMAIN T :
          /\ T2[id].nextSibling = T[id].nextSibling
          /\ T2[id].prevSibling = T[id].prevSibling
          /\ Len(T2[id].items) = Len(T[id].items)
          /\ \A i \in 1 .. Len(T[id].items) :
                T2[id].items[i].nodeId = T[id].items[i].nodeId

LEMMA SameNextKey ==
    ASSUME NEW T, NEW T2, NEW h, Stored(T, h), Stored(T2, h),
           SameSkeleton(T, T2), NEW id \in DOMAIN T, LinkedAt(T, h, id),
           NEW i \in 1 .. Len(T[id].items)
    PROVE  nextKey(T2, id, i).nodeId = nextKey(T, id, i).nodeId
  <1>1. /\ T2[id].nextSibling = T[id].nextSibling
        /\ Len(T2[id].items) = Len(T[id].items)
        /\ \A j \in 1 .. Len(T[id].items) :
              T2[id].items[j].nodeId = T[id].items[j].nodeId
    BY DEF SameSkeleton
  <1>2. Len(T[id].items) \in Nat
    BY NodeFacts
  <1>3. CASE i < Len(T[id].items)
    <2>1. i + 1 \in 1 .. Len(T[id].items)
      BY <1>2, <1>3
    <2>2. nextKey(T, id, i) = T[id].items[i + 1]
      BY <1>3 DEF nextKey
    <2>3. nextKey(T2, id, i) = T2[id].items[i + 1]
      BY <1>1, <1>3 DEF nextKey
    <2> QED
      BY <1>1, <2>1, <2>2, <2>3
  <1>4. CASE ~(i < Len(T[id].items))
    <2>1. PICK n : n = T[id].nextSibling
      OBVIOUS
    <2>2. nextKey(T, id, i) = firstKey(T, n) /\ nextKey(T2, id, i) = firstKey(T2, n)
      BY <1>1, <1>4, <2>1 DEF nextKey
    <2>3. CASE n = 0
      BY <2>2, <2>3 DEF firstKey
    <2>4. CASE n # 0
      <3>1. n \in DOMAIN T
        BY <2>1, <2>4 DEF LinkedAt
      <3>2. /\ Len(T2[n].items) = Len(T[n].items)
            /\ \A j \in 1 .. Len(T[n].items) :
                  T2[n].items[j].nodeId = T[n].items[j].nodeId
        BY <3>1 DEF SameSkeleton
      <3>3. Len(T[n].items) \in Nat
        BY <3>1, NodeFacts
      <3>4. CASE Len(T[n].items) = 0
        BY <2>2, <3>2, <3>4 DEF firstKey
      <3>5. CASE Len(T[n].items) # 0
        <4>1. 1 \in 1 .. Len(T[n].items)
          BY <3>3, <3>5
        <4>2. firstKey(T, n) = T[n].items[1] /\ firstKey(T2, n) = T2[n].items[1]
          BY <2>4, <3>2, <3>5 DEF firstKey
        <4> QED
          BY <2>2, <3>2, <4>1, <4>2
      <3> QED
        BY <3>4, <3>5
    <2> QED
      BY <2>3, <2>4
  <1> QED
    BY <1>3, <1>4

(* Nodes whose keys, and those of whose siblings, have stayed as they were *)
(* have the same next keys. *)
LEMMA KeptNextKey ==
    ASSUME NEW T, NEW T2, NEW id, NEW i,
           T2[id].items = T[id].items,
           firstKey(T2, T2[id].nextSibling) = firstKey(T, T[id].nextSibling)
    PROVE  nextKey(T2, id, i) = nextKey(T, id, i)
  BY DEF nextKey

LEMMA FixedStructure ==
    ASSUME NEW T, NEW T2, NEW h, NEW q \in DOMAIN T, Structure(T, h, q),
           Stored(T2, h), SameSkeleton(T, T2),
           \A id \in DOMAIN T : id # q => T2[id].items = T[id].items,
           h[q] = 0 => T2[q].items = T[q].items,
           h[q] > 0 => \A id \in DOMAIN T :
                           h[id] = h[q] => KeysFirst(T2, T2[id].items, {}),
           \A id \in DOMAIN T : h[id] < h[q] => Len(T[id].items) > 0
    PROVE  Structure(T2, h, 0)
  <1>1. DOMAIN T2 = DOMAIN T /\ Stored(T, h)
    BY DEF SameSkeleton, Structure
  <1>2. ASSUME NEW id \in DOMAIN T
        PROVE  /\ DOMAIN T[id].items = 1 .. Len(T[id].items)
               /\ DOMAIN T2[id].items = 1 .. Len(T[id].items)
               /\ Len(T[id].items) \in Nat
               /\ h[id] \in Nat /\ id \in Nat /\ id # 0
    <2>1. DOMAIN T[id].items = 1 .. Len(T[id].items) /\ Len(T[id].items) \in Nat
          /\ h[id] \in Nat /\ id \in Nat /\ id # 0
      BY <1>1, NodeFacts
    <2>2. DOMAIN T2[id].items = 1 .. Len(T2[id].items)
      BY <1>1, NodeFacts
    <2> QED
      BY <2>1, <2>2 DEF SameSkeleton
  <1>3. ASSUME NEW id \in DOMAIN T
        PROVE  LevelsAt(T2, h, id)
    <2>1. LevelsAt(T, h, id)
      BY DEF Structure
    <2> QED
      BY ZenonT(30), <1>1, <1>2, <2>1 DEF LevelsAt, SameSkeleton
  <1>4. OneParent(T2)
    <2>1. SUFFICES ASSUME NEW a \in DOMAIN T, NEW b \in DOMAIN T,
                          NEW i \in DOMAIN T2[a].items,
                          NEW j \in DOMAIN T2[b].items,
                          T2[a].items[i].nodeId = T2[b].items[j].nodeId,
                          T2[a].items[i].nodeId # 0
                   PROVE  a = b /\ i = j
      BY <1>1 DEF OneParent
    <2>2. /\ i \in DOMAIN T[a].items /\ T2[a].items[i].nodeId = T[a].items[i].nodeId
          /\ j \in DOMAIN T[b].items /\ T2[b].items[j].nodeId = T[b].items[j].nodeId
      BY <1>2, <2>1 DEF SameSkeleton
    <2>3. OneParent(T)
      BY DEF Structure
    <2>4. T[a].items[i].nodeId = T[b].items[j].nodeId /\ T[a].items[i].nodeId # 0
      BY <2>1, <2>2
    <2> QED
      BY <2>2, <2>3, <2>4 DEF OneParent
  <1>5. ASSUME NEW id \in DOMAIN T
        PROVE  LinkedAt(T2, h, id) /\ LinkedAt(T, h, id)
    <2>1. LinkedAt(T, h, id)
      BY DEF Structure
    <2>2. \A n \in DOMAIN T : /\ T2[n].nextSibling = T[n].nextSibling
                              /\ T2[n].prevSibling = T[n].prevSibling
      BY DEF SameSkeleton
    <2> QED
      BY <1>1, <2>1, <2>2 DEF LinkedAt
  <1>6. ASSUME NEW id \in DOMAIN T
        PROVE  AdjacentAt(T2, h, id)
    <2>1. SUFFICES ASSUME h[id] > 0, NEW i \in 1 .. Len(T[id].items)
                   PROVE  T2[T2[id].items[i].nodeId].nextSibling
                              = nextKey(T2, id, i).nodeId
      BY <1>2 DEF AdjacentAt
    <2>2. T[T[id].items[i].nodeId].nextSibling = nextKey(T, id, i).nodeId
      BY <1>2, <2>1 DEF Structure, AdjacentAt
    <2>3. T2[id].items[i].nodeId = T[id].items[i].nodeId
      BY DEF SameSkeleton
    <2>4. T[id].items[i].nodeId \in DOMAIN T
      BY <1>2, <2>1 DEF Structure, LevelsAt
    <2>5. nextKey(T2, id, i).nodeId = nextKey(T, id, i).nodeId
      BY <1>1, <1>5, SameNextKey
    <2> QED
      BY <2>2, <2>3, <2>4, <2>5 DEF SameSkeleton
  <1>7. ASSUME NEW id \in DOMAIN T, h[id] # h[q] \/ h[q] = 0
        PROVE  OrderedAt(T2, id)
    <2>1. OrderedAt(T, id)
      BY <1>2, <1>7 DEF Structure
    <2>2. \A n \in DOMAIN T : h[n] # h[q] \/ h[q] = 0 => T2[n].items = T[n].items
      OBVIOUS
    <2>3. T2[id].nextSibling = T[id].nextSibling
      BY DEF SameSkeleton
    <2>4. PICK n : n = T[id].nextSibling
      OBVIOUS
    <2>5. n # 0 => n \in DOMAIN T /\ h[n] = h[id]
      BY <1>5, <2>4 DEF LinkedAt
    <2>6. firstKey(T2, n) = firstKey(T, n)
      BY <1>7, <2>2, <2>5 DEF firstKey
    <2>7. ASSUME NEW i PROVE nextKey(T2, id, i) = nextKey(T, id, i)
      BY <1>7, <2>2, <2>3, <2>4, <2>6, KeptNextKey
    <2> QED
      BY <1>7, <2>1, <2>2, <2>7 DEF OrderedAt
  <1>8. ASSUME NEW id \in DOMAIN T, h[id] = h[q], h[q] > 0
        PROVE  OrderedAt(T2, id)
    <2>1. SUFFICES ASSUME NEW i \in 1 .. Len(T[id].items), nextKey(T2, id, i) # none
                   PROVE  T2[id].items[i].item < nextKey(T2, id, i).item
      BY <1>2 DEF OrderedAt
    <2>2. PICK key, next : key = T2[id].items[i] /\ next = nextKey(T2, id, i)
      OBVIOUS
    <2>3. i \in 1 .. Len(T2[id].items)
      BY DEF SameSkeleton
    <2>n. PICK n \in DOMAIN T2 :
              \E j \in 1 .. Len(T2[n].items) : h[n] = h[id] /\ next = T2[n].items[j]
      BY <1>1, <1>5, <2>1, <2>2, <2>3, NextKeyIn
    <2>4. PICK j \in 1 .. Len(T2[n].items) : h[n] = h[id] /\ next = T2[n].items[j]
      BY <2>n
    <2>5. i \in DOMAIN T2[id].items /\ j \in DOMAIN T2[n].items
      BY <1>1, <1>2, <2>3, <2>4, NodeFacts
    <2>6. LevelsAt(T2, h, id) /\ LevelsAt(T2, h, n) /\ h[id] # 0 /\ h[n] # 0
      BY <1>1, <1>2, <1>3, <1>8, <2>4
    <2>7. key.nodeId \in DOMAIN T2 /\ h[key.nodeId] = h[id] - 1
      BY <2>2, <2>5, <2>6 DEF LevelsAt
    <2>8. next.nodeId \in DOMAIN T2 /\ h[next.nodeId] = h[n] - 1
      BY <2>4, <2>5, <2>6 DEF LevelsAt
    <2>9. KeysFirst(T2, T2[id].items, {}) /\ KeysFirst(T2, T2[n].items, {})
      BY <1>1, <1>8, <2>4
    <2>10. key.nodeId # 0 /\ next.nodeId # 0
      BY <1>1, <1>2, <2>7, <2>8
    <2>11. key.item = firstItem(T2, key.nodeId) /\ next.item = firstItem(T2, next.nodeId)
      BY <2>2, <2>4, <2>5, <2>9, <2>10 DEF KeysFirst
    <2>12. T2[key.nodeId].nextSibling = next.nodeId
      BY <1>6, <1>8, <2>2, <2>5 DEF AdjacentAt
    <2>13. h[key.nodeId] < h[q] /\ h[next.nodeId] < h[q] /\ h[key.nodeId] # h[q]
      BY <1>1, <1>2, <1>8, <2>4, <2>7, <2>8
    <2>14. OrderedAt(T2, key.nodeId)
      BY <1>1, <1>7, <2>7, <2>13
    <2>15. Len(T2[key.nodeId].items) > 0 /\ Len(T2[next.nodeId].items) > 0
      BY <1>1, <2>7, <2>8, <2>13 DEF SameSkeleton
    <2>16. key.item < next.item
      BY <1>1, <2>1, <2>2, <2>3, <2>7, <2>8, <2>11, <2>12, <2>14, <2>15, OrderFromBelow
    <2> QED
      BY <2>2, <2>16
  <1> QED
    BY <1>1, <1>2, <1>3, <1>4, <1>5, <1>6, <1>7, <1>8 DEF Structure

-----------------------------------------------------------------------------
(* The keys of one node, or of two neighbours, in a row.                   *)
Members(a, b) == IF b = 0 THEN {a} ELSE {a, b}

after(K, e, j) == IF j < Len(K) THEN K[j + 1] ELSE e

Group(T, a, b, n, K, x) ==
    /\ a \in DOMAIN T
    /\ K \in Seq(KeyType)
    /\ n \in 1 .. Len(K)
    /\ Len(T[a].items) = n
    /\ \A i \in 1 .. n : T[a].items[i] = K[i]
    /\ b = 0 => n = Len(K) /\ T[a].nextSibling = x
    /\ b # 0 => /\ b \in DOMAIN T /\ a # b
                /\ T[a].nextSibling = b /\ T[b].nextSibling = x
                /\ Len(T[b].items) = Len(K) - n
                /\ \A i \in 1 .. Len(K) - n : T[b].items[i] = K[n + i]
                /\ n = Len(K) => x = 0

inRow(a, n, id, i) == IF id = a THEN i ELSE n + i

InRow(T, K, e, id, i, j) ==
    /\ j \in 1 .. Len(K)
    /\ T[id].items[i] = K[j]
    /\ nextKey(T, id, i) = after(K, e, j)

LEMMA GroupIn ==
    ASSUME NEW T, NEW a, NEW b, NEW n, NEW K, NEW x, Group(T, a, b, n, K, x),
           NEW id \in Members(a, b), NEW i \in 1 .. Len(T[id].items)
    PROVE  InRow(T, K, firstKey(T, x), id, i, inRow(a, n, id, i))
  <1>0. Len(K) \in Nat /\ n \in Nat /\ n <= Len(K) /\ 1 <= n
    BY DEF Group
  <1>1. CASE id = a /\ (i < n \/ b = 0)
    <2>1. i \in 1 .. n /\ i \in 1 .. Len(K) /\ inRow(a, n, id, i) = i
      BY <1>0, <1>1 DEF Group, inRow
    <2>2. T[id].items[i] = K[i]
      BY <1>1, <2>1 DEF Group
    <2>3. CASE i < n
      <3>1. i < Len(K) /\ i + 1 \in 1 .. n /\ i < Len(T[a].items)
        BY <1>0, <2>1, <2>3 DEF Group
      <3>2. nextKey(T, id, i) = T[a].items[i + 1]
        BY <1>1, <3>1 DEF nextKey
      <3>3. T[a].items[i + 1] = K[i + 1]
        BY <3>1 DEF Group
      <3> QED
        BY <2>1, <2>2, <3>1, <3>2, <3>3 DEF InRow, after
    <2>4. CASE ~(i < n)
      <3>1. b = 0 /\ ~(i < Len(K)) /\ ~(i < Len(T[a].items)) /\ T[a].nextSibling = x
        BY <1>0, <1>1, <2>1, <2>4 DEF Group
      <3>2. nextKey(T, id, i) = firstKey(T, x)
        BY <1>1, <3>1 DEF nextKey
      <3> QED
        BY <2>1, <2>2, <3>1, <3>2 DEF InRow, after
    <2> QED
      BY <2>3, <2>4
  <1>2. CASE id = a /\ ~(i < n) /\ b # 0
    <2>1. i = n /\ i \in 1 .. Len(K) /\ i \in 1 .. n /\ inRow(a, n, id, i) = i
      BY <1>0, <1>2 DEF Group, inRow
    <2>2. T[id].items[i] = K[i]
      BY <1>2, <2>1 DEF Group
    <2>3. ~(i < Len(T[a].items)) /\ T[a].nextSibling = b
      BY <1>0, <1>2, <2>1 DEF Group
    <2>4. nextKey(T, id, i) = firstKey(T, b)
      BY <1>2, <2>3 DEF nextKey
    <2>5. CASE n < Len(K)
      <3>1. Len(T[b].items) # 0 /\ 1 \in 1 .. Len(K) - n /\ T[b].items[1] = K[n + 1]
        BY <1>0, <1>2, <2>5 DEF Group
      <3>2. firstKey(T, b) = K[n + 1]
        BY <1>2, <3>1 DEF firstKey
      <3> QED
        BY <2>1, <2>2, <2>4, <2>5, <3>2 DEF InRow, after
    <2>6. CASE ~(n < Len(K))
      <3>1. n = Len(K) /\ x = 0 /\ Len(T[b].items) = 0
        BY <1>0, <1>2, <2>6 DEF Group
      <3>2. firstKey(T, b) = none /\ firstKey(T, x) = none
        BY <3>1 DEF firstKey
      <3> QED
        BY <2>1, <2>2, <2>4, <2>6, <3>2 DEF InRow, after
    <2> QED
      BY <2>5, <2>6
  <1>3. CASE id # a
    <2>1. id = b /\ b # 0
      BY <1>3 DEF Members
    <2>2. /\ Len(T[b].items) = Len(K) - n /\ T[b].nextSibling = x
          /\ \A k \in 1 .. Len(K) - n : T[b].items[k] = K[n + k]
      BY <2>1 DEF Group
    <2>3. PICK j : j = n + i
      OBVIOUS
    <2>4. j \in 1 .. Len(K) /\ inRow(a, n, id, i) = j /\ i \in 1 .. Len(K) - n
      BY <1>0, <1>3, <2>1, <2>2, <2>3 DEF inRow
    <2>5. T[id].items[i] = K[j]
      BY <2>1, <2>2, <2>3, <2>4
    <2>6. CASE i < Len(K) - n
      <3>1. j < Len(K) /\ i + 1 \in 1 .. Len(K) - n /\ n + (i + 1) = j + 1
        BY <1>0, <2>3, <2>4, <2>6
      <3>2. nextKey(T, id, i) = T[b].items[i + 1]
        BY <2>1, <2>2, <2>6 DEF nextKey
      <3>3. T[b].items[i + 1] = K[j + 1]
        BY <2>2, <3>1
      <3> QED
        BY <2>4, <2>5, <3>1, <3>2, <3>3 DEF InRow, after
    <2>7. CASE ~(i < Len(K) - n)
      <3>1. ~(j < Len(K))
        BY <1>0, <2>3, <2>4, <2>7
      <3>2. nextKey(T, id, i) = firstKey(T, x)
        BY <2>1, <2>2, <2>7 DEF nextKey
      <3> QED
        BY <2>4, <2>5, <3>1, <3>2 DEF InRow, after
    <2> QED
      BY <2>6, <2>7
  <1> QED
    BY <1>1, <1>2, <1>3

LEMMA GroupOut ==
    ASSUME NEW T, NEW a, NEW b, NEW n, NEW K, NEW x, Group(T, a, b, n, K, x),
           NEW j \in 1 .. Len(K)
    PROVE  \E id \in Members(a, b) : \E i \in 1 .. Len(T[id].items) :
               inRow(a, n, id, i) = j
  <1>0. Len(K) \in Nat /\ n \in Nat /\ n <= Len(K) /\ 1 <= n /\ Len(T[a].items) = n
    BY DEF Group
  <1>1. CASE j <= n
    <2>1. a \in Members(a, b) /\ j \in 1 .. Len(T[a].items) /\ inRow(a, n, a, j) = j
      BY <1>0, <1>1 DEF Members, inRow
    <2> QED
      BY <2>1
  <1>2. CASE n < j
    <2>1. b # 0 /\ a # b /\ Len(T[b].items) = Len(K) - n
      BY <1>0, <1>2 DEF Group
    <2>2. PICK i : i = j - n
      OBVIOUS
    <2>3. i \in 1 .. Len(T[b].items) /\ n + i = j
      BY <1>0, <1>2, <2>1, <2>2
    <2>4. b \in Members(a, b) /\ inRow(a, n, b, i) = j
      BY <2>1, <2>3 DEF Members, inRow
    <2> QED
      BY <2>3, <2>4
  <1> QED
    BY <1>0, <1>1, <1>2

LEMMA MembersIn ==
    ASSUME NEW T, NEW a, NEW b, NEW n, NEW K, NEW x, Group(T, a, b, n, K, x)
    PROVE  Members(a, b) \subseteq DOMAIN T
  BY DEF Members, Group

(* A row of keys on level l of T.                                          *)
KeyRow(T, h, l, K, e) ==
    /\ \A j \in 1 .. Len(K) :
          /\ IF l = 0 THEN K[j].nodeId = 0
             ELSE /\ K[j].nodeId \in DOMAIN T
                  /\ h[K[j].nodeId] = l - 1
                  /\ T[K[j].nodeId].nextSibling = after(K, e, j).nodeId
          /\ after(K, e, j) = none \/ K[j].item < after(K, e, j).item
    /\ \A i, j \in 1 .. Len(K) :
          K[i].nodeId = K[j].nodeId /\ K[i].nodeId # 0 => i = j

LEMMA RowOfGroup ==
    ASSUME NEW T, NEW h, Structure(T, h, 0), NEW a, NEW b, NEW n, NEW K, NEW x,
           Group(T, a, b, n, K, x), NEW l,
           \A id \in Members(a, b) : h[id] = l
    PROVE  KeyRow(T, h, l, K, firstKey(T, x))
  <1>0. Members(a, b) \subseteq DOMAIN T
    BY MembersIn
  <1>1. ASSUME NEW id \in DOMAIN T
        PROVE  /\ LevelsAt(T, h, id) /\ AdjacentAt(T, h, id) /\ OrderedAt(T, id)
               /\ DOMAIN T[id].items = 1 .. Len(T[id].items)
               /\ h[id] \in Nat
    <2>1. LevelsAt(T, h, id) /\ AdjacentAt(T, h, id) /\ OrderedAt(T, id) /\ Stored(T, h)
      BY DEF Structure
    <2> QED
      BY <2>1, NodeFacts
  <1> DEFINE e == firstKey(T, x)
  <1> HIDE DEF e
  <1>e. e = firstKey(T, x)
    BY DEF e
  <1>2. ASSUME NEW j \in 1 .. Len(K)
        PROVE  /\ IF l = 0 THEN K[j].nodeId = 0
                  ELSE /\ K[j].nodeId \in DOMAIN T
                       /\ h[K[j].nodeId] = l - 1
                       /\ T[K[j].nodeId].nextSibling = after(K, e, j).nodeId
               /\ after(K, e, j) = none \/ K[j].item < after(K, e, j).item
    <2>1. PICK id \in Members(a, b) : \E i \in 1 .. Len(T[id].items) :
              inRow(a, n, id, i) = j
      BY GroupOut
    <2>2. PICK i \in 1 .. Len(T[id].items) : inRow(a, n, id, i) = j
      BY <2>1
    <2>3. InRow(T, K, e, id, i, j)
      BY <1>e, <2>2, GroupIn
    <2>4. T[id].items[i] = K[j] /\ nextKey(T, id, i) = after(K, e, j)
      BY <2>3 DEF InRow
    <2>5. id \in DOMAIN T /\ h[id] = l /\ i \in DOMAIN T[id].items /\ l \in Nat
      BY <1>0, <1>1
    <2>6. LevelsAt(T, h, id) /\ AdjacentAt(T, h, id) /\ OrderedAt(T, id)
      BY <1>1, <2>5
    <2>7. CASE l = 0
      BY <2>4, <2>5, <2>6, <2>7 DEF LevelsAt, OrderedAt
    <2>8. CASE l # 0
      <3>1. h[id] > 0
        BY <2>5, <2>8
      <3> QED
        BY <2>4, <2>5, <2>6, <2>8, <3>1 DEF LevelsAt, OrderedAt, AdjacentAt
    <2> QED
      BY <2>7, <2>8
  <1>3. ASSUME NEW j \in 1 .. Len(K), NEW k \in 1 .. Len(K),
               K[j].nodeId = K[k].nodeId, K[j].nodeId # 0
        PROVE  j = k
    <2>1. PICK id \in Members(a, b) : \E i \in 1 .. Len(T[id].items) :
              inRow(a, n, id, i) = j
      BY GroupOut
    <2>2. PICK i \in 1 .. Len(T[id].items) : inRow(a, n, id, i) = j
      BY <2>1
    <2>3. InRow(T, K, e, id, i, j)
      BY <1>e, <2>2, GroupIn
    <2>4. PICK id2 \in Members(a, b) : \E i2 \in 1 .. Len(T[id2].items) :
              inRow(a, n, id2, i2) = k
      BY GroupOut
    <2>5. PICK i2 \in 1 .. Len(T[id2].items) : inRow(a, n, id2, i2) = k
      BY <2>4
    <2>6. InRow(T, K, e, id2, i2, k)
      BY <1>e, <2>5, GroupIn
    <2>7. T[id].items[i].nodeId = T[id2].items[i2].nodeId /\ T[id].items[i].nodeId # 0
      BY <1>3, <2>3, <2>6 DEF InRow
    <2>8. i \in DOMAIN T[id].items /\ i2 \in DOMAIN T[id2].items
          /\ id \in DOMAIN T /\ id2 \in DOMAIN T
      BY <1>0, <1>1
    <2>9. OneParent(T)
      BY DEF Structure
    <2>10. id = id2 /\ i = i2
      BY <2>7, <2>8, <2>9 DEF OneParent
    <2> QED
      BY <2>2, <2>5, <2>10
  <1>4. KeyRow(T, h, l, K, e)
    BY <1>2, <1>3 DEF KeyRow
  <1> QED
    BY <1>e, <1>4

LEMMA RowInGroup ==
    ASSUME NEW T, NEW h, Stored(T, h), NEW a, NEW b, NEW n, NEW K, NEW x,
           Group(T, a, b, n, K, x), NEW l \in Nat, NEW e, e = firstKey(T, x),
           KeyRow(T, h, l, K, e),
           NEW id \in Members(a, b), h[id] = l
    PROVE  LevelsAt(T, h, id) /\ AdjacentAt(T, h, id) /\ OrderedAt(T, id)
  <1>0. id \in DOMAIN T
    BY MembersIn
  <1>1. DOMAIN T[id].items = 1 .. Len(T[id].items)
    BY <1>0, NodeFacts
  <1>2. ASSUME NEW i \in DOMAIN T[id].items
        PROVE  /\ IF h[id] = 0 THEN T[id].items[i].nodeId = 0
                  ELSE /\ T[id].items[i].nodeId \in DOMAIN T
                       /\ h[T[id].items[i].nodeId] = h[id] - 1
               /\ h[id] > 0 => T[T[id].items[i].nodeId].nextSibling
                                   = nextKey(T, id, i).nodeId
               /\ nextKey(T, id, i) = none
                     \/ T[id].items[i].item < nextKey(T, id, i).item
    <2>1. PICK j : j = inRow(a, n, id, i)
      OBVIOUS
    <2>2. InRow(T, K, e, id, i, j)
      BY <1>1, <2>1, GroupIn
    <2>3. j \in 1 .. Len(K) /\ T[id].items[i] = K[j] /\ nextKey(T, id, i) = after(K, e, j)
      BY <2>2 DEF InRow
    <2>4. l > 0 => l # 0
      OBVIOUS
    <2> QED
      BY <2>3, <2>4 DEF KeyRow
  <1> QED
    BY <1>2 DEF LevelsAt, AdjacentAt, OrderedAt

-----------------------------------------------------------------------------
(* Keys that stand in a row are of one place; the levels below, and the    *)
(* nodes above.                                                            *)

LEMMA InRowOnce ==
    ASSUME NEW T, NEW a, NEW b, NEW n, NEW K, NEW x, Group(T, a, b, n, K, x),
           NEW p \in Members(a, b), NEW q \in Members(a, b),
           NEW i \in 1 .. Len(T[p].items), NEW j \in 1 .. Len(T[q].items),
           inRow(a, n, p, i) = inRow(a, n, q, j)
    PROVE  p = q /\ i = j
  <1>0. Len(K) \in Nat /\ n \in Nat /\ Len(T[a].items) = n
    BY DEF Group
  <1>1. CASE p = a /\ q = a
    BY <1>1 DEF inRow
  <1>2. CASE p = a /\ q # a
    <2>1. i \in 1 .. n /\ i = n + j /\ j \in Nat /\ j >= 1
      BY <1>0, <1>2 DEF inRow
    <2> QED
      BY <1>0, <2>1
  <1>3. CASE p # a /\ q = a
    <2>1. j \in 1 .. n /\ j = n + i /\ i \in Nat /\ i >= 1
      BY <1>0, <1>3 DEF inRow
    <2> QED
      BY <1>0, <2>1
  <1>4. CASE p # a /\ q # a
    <2>1. p = b /\ q = b
      BY <1>4 DEF Members
    <2>2. n + i = n + j /\ i \in Nat /\ j \in Nat
      BY <1>4 DEF inRow
    <2> QED
      BY <1>0, <2>1, <2>2
  <1> QED
    BY <1>1, <1>2, <1>3, <1>4

ParentsAgree(T, p, q) ==
    \A i \in DOMAIN T[p].items, j \in DOMAIN T[q].items :
        T[p].items[i].nodeId = T[q].items[j].nodeId
            /\ T[p].items[i].nodeId # 0 => p = q /\ i = j

LEMMA ParentsOfLevel ==
    ASSUME NEW T, NEW h, Stored(T, h), \A id \in DOMAIN T : LevelsAt(T, h, id),
           \A p, q \in DOMAIN T : h[p] = h[q] => ParentsAgree(T, p, q)
    PROVE  OneParent(T)
  <1>1. SUFFICES ASSUME NEW p \in DOMAIN T, NEW q \in DOMAIN T,
                        NEW i \in DOMAIN T[p].items, NEW j \in DOMAIN T[q].items,
                        T[p].items[i].nodeId = T[q].items[j].nodeId,
                        T[p].items[i].nodeId # 0
                 PROVE  p = q /\ i = j
    BY DEF OneParent
  <1>2. LevelsAt(T, h, p) /\ LevelsAt(T, h, q) /\ h[p] \in Nat /\ h[q] \in Nat
    BY NodeFacts
  <1>3. h[T[p].items[i].nodeId] = h[p] - 1
    BY <1>1, <1>2 DEF LevelsAt
  <1>4. h[T[q].items[j].nodeId] = h[q] - 1
    BY <1>1, <1>2 DEF LevelsAt
  <1>5. h[p] = h[q]
    BY <1>1, <1>2, <1>3, <1>4
  <1>6. ParentsAgree(T, p, q)
    BY <1>5
  <1> QED
    BY <1>1, <1>6 DEF ParentsAgree

(* The keys of some nodes of level l are spread over other nodes; the      *)
(* levels below stay as they are. *)
Regrouped(T, S, h, h2, M, M2, l) ==
    /\ DOMAIN S \ M2 = DOMAIN T \ M
    /\ M \subseteq DOMAIN T /\ M2 \subseteq DOMAIN S
    /\ \A id \in M : h[id] = l
    /\ \A id \in M2 : h2[id] = l
    /\ \A id \in DOMAIN T \ M :
          /\ h2[id] = h[id]
          /\ h[id] <= l => S[id].items = T[id].items
          /\ h[id] < l => S[id].nextSibling = T[id].nextSibling
          /\ h[id] = l => firstKey(S, S[id].nextSibling)
                              = firstKey(T, T[id].nextSibling)

LEMMA LowerLevels ==
    ASSUME NEW T, NEW S, NEW h, NEW h2, Structure(T, h, 0), Stored(S, h2),
           NEW a, NEW b, NEW n, NEW a2, NEW b2, NEW n2, NEW K, NEW x,
           Group(T, a, b, n, K, x), Group(S, a2, b2, n2, K, x),
           NEW l \in Nat,
           Regrouped(T, S, h, h2, Members(a, b), Members(a2, b2), l),
           firstKey(S, x) = firstKey(T, x)
    PROVE  /\ \A id \in DOMAIN S : h2[id] <= l =>
                 LevelsAt(S, h2, id) /\ AdjacentAt(S, h2, id) /\ OrderedAt(S, id)
           /\ \A p, q \in DOMAIN S :
                 h2[p] = h2[q] /\ h2[p] <= l => ParentsAgree(S, p, q)
  <1> DEFINE M  == Members(a, b)
             M2 == Members(a2, b2)
             e  == firstKey(T, x)
  <1>r. Regrouped(T, S, h, h2, M, M2, l)
    OBVIOUS
  <1>e. e = firstKey(T, x) /\ e = firstKey(S, x)
    OBVIOUS
  <1>m. \A id : id \in M <=> id \in Members(a, b)
    OBVIOUS
  <1>m2. \A id : id \in M2 <=> id \in Members(a2, b2)
    OBVIOUS
  <1> HIDE DEF M, M2, e
  <1>0. Stored(T, h)
    BY DEF Structure
  <1>1. KeyRow(T, h, l, K, e)
    <2>1. \A id \in Members(a, b) : h[id] = l
      BY <1>m, <1>r DEF Regrouped
    <2> QED
      BY <1>e, <2>1, RowOfGroup
  <1>2. ASSUME NEW c \in DOMAIN T, h[c] < l
        PROVE  c \in DOMAIN S /\ c \notin M /\ c \notin M2 /\ h2[c] = h[c]
               /\ S[c].nextSibling = T[c].nextSibling /\ S[c].items = T[c].items
    <2>1. h[c] \in Nat
      BY <1>0, NodeFacts
    <2>2. c \notin M
      BY <1>2, <1>r, <2>1 DEF Regrouped
    <2>3. c \in DOMAIN T \ M /\ h[c] <= l
      BY <1>2, <2>1, <2>2
    <2> QED
      BY <1>2, <1>r, <2>3 DEF Regrouped
  <1>3. KeyRow(S, h2, l, K, e)
    <2>1. ASSUME NEW j \in 1 .. Len(K), l # 0
          PROVE  /\ K[j].nodeId \in DOMAIN S
                 /\ h2[K[j].nodeId] = l - 1
                 /\ S[K[j].nodeId].nextSibling = after(K, e, j).nodeId
      <3>1. /\ K[j].nodeId \in DOMAIN T
            /\ h[K[j].nodeId] = l - 1
            /\ T[K[j].nodeId].nextSibling = after(K, e, j).nodeId
        BY <1>1, <2>1 DEF KeyRow
      <3>2. h[K[j].nodeId] < l
        BY <2>1, <3>1
      <3> QED
        BY <1>2, <3>1, <3>2
    <2> QED
      BY <1>1, <2>1 DEF KeyRow
  <1>4. ASSUME NEW id \in M2
        PROVE  LevelsAt(S, h2, id) /\ AdjacentAt(S, h2, id) /\ OrderedAt(S, id)
    <2>1. h2[id] = l
      BY <1>r DEF Regrouped
    <2>2. id \in Members(a2, b2)
      BY <1>m2
    <2> QED
      BY <1>3, <1>e, <2>1, <2>2, RowInGroup
  <1>5. ASSUME NEW id \in DOMAIN S, id \notin M2, h2[id] <= l
        PROVE  LevelsAt(S, h2, id) /\ AdjacentAt(S, h2, id) /\ OrderedAt(S, id)
    <2>1. id \in DOMAIN T \ M /\ h2[id] = h[id] /\ h[id] <= l /\ h[id] \in Nat
      BY <1>5, <1>r, <1>0, NodeFacts DEF Regrouped
    <2>2. S[id].items = T[id].items
      BY <1>r, <2>1 DEF Regrouped
    <2>3. LevelsAt(T, h, id) /\ AdjacentAt(T, h, id) /\ OrderedAt(T, id) /\ LinkedAt(T, h, id)
      BY <2>1 DEF Structure
    <2>4. firstKey(S, S[id].nextSibling) = firstKey(T, T[id].nextSibling)
      <3>1. CASE h[id] = l
        BY <1>r, <2>1, <3>1 DEF Regrouped
      <3>2. CASE h[id] # l
        <4>1. h[id] < l
          BY <2>1, <3>2
        <4>2. S[id].nextSibling = T[id].nextSibling
          BY <1>2, <2>1, <4>1
        <4>3. PICK y : y = T[id].nextSibling
          OBVIOUS
        <4>4. y # 0 => y \in DOMAIN T /\ h[y] = h[id]
          BY <2>3, <4>3 DEF LinkedAt
        <4>5. y # 0 => S[y].items = T[y].items
          BY <1>2, <4>1, <4>4
        <4>6. firstKey(S, y) = firstKey(T, y)
          BY <4>5 DEF firstKey
        <4> QED
          BY <4>2, <4>3, <4>6
      <3> QED
        BY <3>1, <3>2
    <2>5. \A i : nextKey(S, id, i) = nextKey(T, id, i)
      BY <2>2, <2>4, KeptNextKey
    <2>6. ASSUME NEW i \in DOMAIN T[id].items, h[id] # 0
          PROVE  /\ T[id].items[i].nodeId \in DOMAIN S
                 /\ h2[T[id].items[i].nodeId] = h2[id] - 1
                 /\ S[T[id].items[i].nodeId].nextSibling
                        = T[T[id].items[i].nodeId].nextSibling
      <3>1. /\ T[id].items[i].nodeId \in DOMAIN T
            /\ h[T[id].items[i].nodeId] = h[id] - 1
        BY <2>3, <2>6 DEF LevelsAt
      <3>2. h[T[id].items[i].nodeId] < l
        BY <2>1, <2>6, <3>1
      <3> QED
        BY <1>2, <2>1, <3>1, <3>2
    <2>7. LevelsAt(S, h2, id)
      BY <2>1, <2>2, <2>3, <2>6 DEF LevelsAt
    <2>8. AdjacentAt(S, h2, id)
      BY <2>1, <2>2, <2>3, <2>5, <2>6 DEF AdjacentAt
    <2>9. OrderedAt(S, id)
      BY <2>2, <2>3, <2>5 DEF OrderedAt
    <2> QED
      BY <2>7, <2>8, <2>9
  <1>6. ASSUME NEW p \in DOMAIN S
        PROVE  DOMAIN S[p].items = 1 .. Len(S[p].items)
    BY NodeFacts
  <1>7. ASSUME NEW p \in M2, NEW i \in DOMAIN S[p].items
        PROVE  InRow(S, K, e, p, i, inRow(a2, n2, p, i)) /\ i \in 1 .. Len(S[p].items)
    <2>1. p \in DOMAIN S /\ p \in Members(a2, b2)
      BY <1>r, <1>m2 DEF Regrouped
    <2> QED
      BY <1>e, <1>6, <2>1, GroupIn
  <1>8. ASSUME NEW p \in M2, NEW q \in DOMAIN T \ M, h[q] <= l,
               NEW i \in DOMAIN S[p].items, NEW j \in DOMAIN S[q].items,
               S[p].items[i].nodeId = S[q].items[j].nodeId,
               S[p].items[i].nodeId # 0
        PROVE  FALSE
    <2>1. PICK k : k = inRow(a2, n2, p, i)
      OBVIOUS
    <2>2. k \in 1 .. Len(K) /\ S[p].items[i] = K[k]
      BY <1>7, <2>1 DEF InRow
    <2>3. PICK id \in Members(a, b) : \E i2 \in 1 .. Len(T[id].items) :
              inRow(a, n, id, i2) = k
      BY <2>2, GroupOut
    <2>4. PICK i2 \in 1 .. Len(T[id].items) : inRow(a, n, id, i2) = k
      BY <2>3
    <2>5. T[id].items[i2] = K[k]
      BY <2>4, GroupIn DEF InRow
    <2>6. S[q].items = T[q].items
      BY <1>8, <1>r DEF Regrouped
    <2>7. id \in DOMAIN T /\ i2 \in DOMAIN T[id].items /\ id \in M
      BY <1>0, <1>m, <1>r, <2>3, NodeFacts DEF Regrouped
    <2>8. OneParent(T)
      BY DEF Structure
    <2>9. T[id].items[i2].nodeId = T[q].items[j].nodeId /\ T[id].items[i2].nodeId # 0
          /\ j \in DOMAIN T[q].items
      BY <1>8, <2>2, <2>5, <2>6
    <2>10. id = q
      BY <2>7, <2>8, <2>9 DEF OneParent
    <2> QED
      BY <1>8, <2>7, <2>10
  <1>9. ASSUME NEW p \in DOMAIN S, NEW q \in DOMAIN S, h2[p] = h2[q], h2[p] <= l
        PROVE  ParentsAgree(S, p, q)
    <2>1. SUFFICES ASSUME NEW i \in DOMAIN S[p].items, NEW j \in DOMAIN S[q].items,
                          S[p].items[i].nodeId = S[q].items[j].nodeId,
                          S[p].items[i].nodeId # 0
                   PROVE  p = q /\ i = j
      BY DEF ParentsAgree
    <2>2. ASSUME NEW id \in DOMAIN S, id \notin M2, h2[id] <= l
          PROVE  id \in DOMAIN T \ M /\ h[id] <= l /\ S[id].items = T[id].items
      BY <1>r, <2>2 DEF Regrouped
    <2>3. CASE p \in M2 /\ q \in M2
      <3>1. PICK k, k2 : k = inRow(a2, n2, p, i) /\ k2 = inRow(a2, n2, q, j)
        OBVIOUS
      <3>2. k \in 1 .. Len(K) /\ S[p].items[i] = K[k]
        BY <1>7, <2>3, <3>1 DEF InRow
      <3>3. k2 \in 1 .. Len(K) /\ S[q].items[j] = K[k2]
        BY <1>7, <2>3, <3>1 DEF InRow
      <3>4. k = k2
        BY <1>3, <2>1, <3>2, <3>3 DEF KeyRow
      <3>5. p \in Members(a2, b2) /\ q \in Members(a2, b2)
            /\ i \in 1 .. Len(S[p].items) /\ j \in 1 .. Len(S[q].items)
        BY <1>m2, <1>6, <2>3
      <3>6. inRow(a2, n2, p, i) = inRow(a2, n2, q, j)
        BY <3>1, <3>4
      <3>7. /\ p \in Members(a2, b2) /\ q \in Members(a2, b2)
            /\ i \in 1 .. Len(S[p].items) /\ j \in 1 .. Len(S[q].items)
            /\ Group(S, a2, b2, n2, K, x)
        BY <3>5
      <3> QED
        BY ONLY <3>6, <3>7, InRowOnce
    <2>4. CASE p \in M2 /\ q \notin M2
      BY <1>8, <1>9, <2>1, <2>2, <2>4
    <2>5. CASE p \notin M2 /\ q \in M2
      BY <1>8, <1>9, <2>1, <2>2, <2>5
    <2>6. CASE p \notin M2 /\ q \notin M2
      <3>1. p \in DOMAIN T /\ q \in DOMAIN T /\ S[p].items = T[p].items /\ S[q].items = T[q].items
        BY <1>9, <2>2, <2>6
      <3>2. OneParent(T)
        BY DEF Structure
      <3>3. T[p].items[i].nodeId = T[q].items[j].nodeId /\ T[p].items[i].nodeId # 0
            /\ i \in DOMAIN T[p].items /\ j \in DOMAIN T[q].items
        BY <2>1, <3>1
      <3> QED
        BY <3>1, <3>2, <3>3 DEF OneParent
    <2> QED
      BY <2>3, <2>4, <2>5, <2>6
  <1> QED
    BY <1>4, <1>5, <1>9

-----------------------------------------------------------------------------
(* Totals, and the order of nodes, after keys have moved.                  *)

LEMMA SameCounts ==
    ASSUME NEW T, NEW N, NEW keys,
           \A i \in DOMAIN keys : keys[i].nodeId # 0 =>
               /\ N[keys[i].nodeId].accumCount = T[keys[i].nodeId].accumCount
               /\ N[keys[i].nodeId].accum = T[keys[i].nodeId].accum
    PROVE  /\ countOfAll(N, keys) = countOfAll(T, keys)
           /\ accumOfAll(N, keys) = accumOfAll(T, keys)
  <1>1. \A i \in DOMAIN keys : countOf(N, keys[i]) = countOf(T, keys[i])
    BY DEF countOf
  <1>2. \A i \in DOMAIN keys : accumOf(N, keys[i]) = accumOf(T, keys[i])
    BY DEF accumOf
  <1>3. [i \in DOMAIN keys |-> countOf(N, keys[i])]
            = [i \in DOMAIN keys |-> countOf(T, keys[i])]
    BY <1>1
  <1>4. [i \in DOMAIN keys |-> accumOf(N, keys[i])]
            = [i \in DOMAIN keys |-> accumOf(T, keys[i])]
    BY <1>2
  <1> QED
    BY <1>3, <1>4 DEF countOfAll, accumOfAll

(* A leaf's item stays in a leaf.                                          *)
LEMMA LeafItemMoves ==
    ASSUME NEW T, NEW S, NEW h, NEW h2, Stored(T, h), Stored(S, h2),
           NEW a, NEW b, NEW n, NEW a2, NEW b2, NEW n2, NEW K, NEW x,
           Group(T, a, b, n, K, x), Group(S, a2, b2, n2, K, x),
           NEW l \in Nat,
           Regrouped(T, S, h, h2, Members(a, b), Members(a2, b2), l),
           NEW item, InLeaf(T, h, item)
    PROVE  InLeaf(S, h2, item)
  <1>1. PICK id \in DOMAIN T : h[id] = 0 /\ \E i \in DOMAIN T[id].items :
                                               T[id].items[i].item = item
    BY DEF InLeaf
  <1>2. PICK i \in DOMAIN T[id].items : T[id].items[i].item = item
    BY <1>1
  <1>3. CASE id \in Members(a, b)
    <2>1. h[id] = l /\ l = 0
      BY <1>1, <1>3 DEF Regrouped
    <2>2. i \in 1 .. Len(T[id].items)
      BY <1>2, NodeFacts
    <2>3. PICK j : j = inRow(a, n, id, i)
      OBVIOUS
    <2>4. InRow(T, K, firstKey(T, x), id, i, j)
      BY <1>3, <2>2, <2>3, GroupIn
    <2>5. j \in 1 .. Len(K) /\ K[j].item = item
      BY <1>2, <2>4 DEF InRow
    <2>6. PICK id2 \in Members(a2, b2) : \E i2 \in 1 .. Len(S[id2].items) :
              inRow(a2, n2, id2, i2) = j
      BY <2>5, GroupOut
    <2>7. PICK i2 \in 1 .. Len(S[id2].items) : inRow(a2, n2, id2, i2) = j
      BY <2>6
    <2>8. InRow(S, K, firstKey(S, x), id2, i2, j)
      BY <2>7, GroupIn
    <2>9. id2 \in DOMAIN S /\ h2[id2] = 0
      BY <2>1, <2>6 DEF Regrouped
    <2>10. i2 \in DOMAIN S[id2].items /\ S[id2].items[i2].item = item
      BY <2>5, <2>8, <2>9, NodeFacts DEF InRow
    <2> QED
      BY <2>9, <2>10 DEF InLeaf
  <1>4. CASE id \notin Members(a, b)
    <2>1. h[id] <= l
      BY <1>1
    <2>2. id \in DOMAIN S /\ h2[id] = h[id] /\ S[id].items = T[id].items
      BY <1>4, <2>1 DEF Regrouped
    <2> QED
      BY <1>1, <1>2, <2>2 DEF InLeaf
  <1> QED
    BY <1>3, <1>4

LEMMA RegroupedBack ==
    ASSUME NEW T, NEW S, NEW h, NEW h2, NEW M, NEW M2, NEW l,
           Regrouped(T, S, h, h2, M, M2, l)
    PROVE  Regrouped(S, T, h2, h, M2, M, l)
  <1>1. ASSUME NEW id \in DOMAIN S \ M2
        PROVE  /\ h[id] = h2[id]
               /\ h2[id] <= l => T[id].items = S[id].items
               /\ h2[id] < l => T[id].nextSibling = S[id].nextSibling
               /\ h2[id] = l => firstKey(T, T[id].nextSibling)
                                   = firstKey(S, S[id].nextSibling)
    <2>1. id \in DOMAIN T \ M
      BY DEF Regrouped
    <2> QED
      BY <2>1 DEF Regrouped
  <1> QED
    BY <1>1 DEF Regrouped

LEMMA RegroupedLeaves ==
    ASSUME NEW T, NEW S, NEW h, NEW h2, Stored(T, h), Stored(S, h2),
           NEW a, NEW b, NEW n, NEW a2, NEW b2, NEW n2, NEW K, NEW x,
           Group(T, a, b, n, K, x), Group(S, a2, b2, n2, K, x),
           NEW l \in Nat,
           Regrouped(T, S, h, h2, Members(a, b), Members(a2, b2), l),
           NEW item
    PROVE  InLeaf(T, h, item) <=> InLeaf(S, h2, item)
  <1>1. InLeaf(T, h, item) => InLeaf(S, h2, item)
    BY LeafItemMoves
  <1>2. Regrouped(S, T, h2, h, Members(a2, b2), Members(a, b), l)
    BY RegroupedBack
  <1>3. InLeaf(S, h2, item) => InLeaf(T, h, item)
    BY <1>2, LeafItemMoves
  <1> QED
    BY <1>1, <1>3

-----------------------------------------------------------------------------
(* The levels above l, the order of the first of them left aside.          *)
Upper(S, h, l) ==
    /\ \A id \in DOMAIN S : LinkedAt(S, h, id)
    /\ \A id \in DOMAIN S : h[id] > l => LevelsAt(S, h, id) /\ AdjacentAt(S, h, id)
    /\ \A id \in DOMAIN S : h[id] > l + 1 => OrderedAt(S, id)
    /\ \A p, q \in DOMAIN S : h[p] = h[q] /\ h[p] > l => ParentsAgree(S, p, q)

Lower(S, h, l) ==
    /\ \A id \in DOMAIN S : h[id] <= l =>
          LevelsAt(S, h, id) /\ AdjacentAt(S, h, id) /\ OrderedAt(S, id)
    /\ \A p, q \in DOMAIN S : h[p] = h[q] /\ h[p] <= l => ParentsAgree(S, p, q)

LEMMA Whole ==
    ASSUME NEW S, NEW h, Stored(S, h), NEW l \in Nat, Upper(S, h, l), Lower(S, h, l),
           NEW p, \/ p \in DOMAIN S /\ h[p] = l + 1
                  \/ p = 0 /\ \A id \in DOMAIN S : h[id] # l + 1
    PROVE  Structure(S, h, p)
  <1>1. \A id \in DOMAIN S : h[id] \in Nat /\ id # 0
    BY NodeFacts
  <1>2. \A id \in DOMAIN S : h[id] <= l \/ h[id] = l + 1 \/ h[id] > l + 1
    BY <1>1
  <1>3. \A id \in DOMAIN S : h[id] <= l \/ h[id] > l
    BY <1>1
  <1>4. \A id \in DOMAIN S : LevelsAt(S, h, id) /\ AdjacentAt(S, h, id) /\ LinkedAt(S, h, id)
    BY <1>3 DEF Upper, Lower
  <1>5. \A id \in DOMAIN S : OrderedAt(S, id) \/ (p # 0 /\ h[id] = h[p] /\ h[p] > 0)
    BY <1>1, <1>2 DEF Upper, Lower
  <1>6. OneParent(S)
    <2>1. \A a, b \in DOMAIN S : h[a] = h[b] => ParentsAgree(S, a, b)
      BY <1>3 DEF Upper, Lower
    <2>2. \A id \in DOMAIN S : LevelsAt(S, h, id)
      BY <1>4
    <2> QED
      BY ONLY Stored(S, h), <2>1, <2>2, ParentsOfLevel
  <1> QED
    BY <1>4, <1>5, <1>6 DEF Structure

-----------------------------------------------------------------------------
(* A node is added after left.                                             *)
NodeAdded(T, S, h, h2, left, right) ==
    /\ left \in DOMAIN T /\ right \notin DOMAIN T /\ right # 0
    /\ DOMAIN S = DOMAIN T \cup {right}
    /\ h2[right] = h[left]
    /\ S[right].nextSibling = T[left].nextSibling
    /\ S[right].prevSibling = left
    /\ \A id \in DOMAIN T :
          /\ h2[id] = h[id]
          /\ S[id].nextSibling = IF id = left THEN right ELSE T[id].nextSibling
          /\ S[id].prevSibling =
                IF id = T[left].nextSibling THEN right ELSE T[id].prevSibling

LEMMA LinksAdded ==
    ASSUME NEW T, NEW S, NEW h, NEW h2, NEW left, NEW right,
           \A id \in DOMAIN T : LinkedAt(T, h, id), 0 \notin DOMAIN T,
           NodeAdded(T, S, h, h2, left, right)
    PROVE  \A id \in DOMAIN S : LinkedAt(S, h2, id)
  <1> DEFINE next == T[left].nextSibling
  <1>a. /\ left \in DOMAIN T /\ right \notin DOMAIN T /\ right # 0
        /\ DOMAIN S = DOMAIN T \cup {right}
        /\ h2[right] = h[left]
        /\ S[right].nextSibling = next
        /\ S[right].prevSibling = left
    BY DEF NodeAdded
  <1>b. ASSUME NEW id \in DOMAIN T
        PROVE  /\ h2[id] = h[id]
               /\ S[id].nextSibling = IF id = left THEN right ELSE T[id].nextSibling
               /\ S[id].prevSibling = IF id = next THEN right ELSE T[id].prevSibling
    BY DEF NodeAdded
  <1>c. ASSUME NEW id \in DOMAIN T
        PROVE  /\ T[id].nextSibling # 0 =>
                     /\ T[id].nextSibling \in DOMAIN T
                     /\ h[T[id].nextSibling] = h[id]
                     /\ T[T[id].nextSibling].prevSibling = id
               /\ T[id].prevSibling # 0 =>
                     /\ T[id].prevSibling \in DOMAIN T
                     /\ h[T[id].prevSibling] = h[id]
                     /\ T[T[id].prevSibling].nextSibling = id
    BY DEF LinkedAt
  <1>n. next # 0 => next \in DOMAIN T /\ h[next] = h[left] /\ T[next].prevSibling = left
    BY <1>a, <1>c
  <1> HIDE DEF next
  <1>1. LinkedAt(S, h2, right)
    BY <1>a, <1>b, <1>n DEF LinkedAt
  <1>2. ASSUME NEW id \in DOMAIN T, S[id].nextSibling # 0
        PROVE  /\ S[id].nextSibling \in DOMAIN S
               /\ h2[S[id].nextSibling] = h2[id]
               /\ S[S[id].nextSibling].prevSibling = id
    <2>1. CASE id = left
      BY <1>a, <1>b, <2>1
    <2>2. CASE id # left
      <3>1. PICK y : y = T[id].nextSibling
        OBVIOUS
      <3>2. S[id].nextSibling = y /\ y # 0
        BY <1>2, <1>b, <2>2, <3>1
      <3>3. y \in DOMAIN T /\ h[y] = h[id] /\ T[y].prevSibling = id
        BY <1>c, <3>1, <3>2
      <3>4. y # next
        BY <1>n, <2>2, <3>2, <3>3
      <3>5. S[y].prevSibling = id /\ h2[y] = h[y]
        BY <1>b, <3>3, <3>4
      <3> QED
        BY <1>a, <1>b, <3>2, <3>3, <3>5
    <2> QED
      BY <2>1, <2>2
  <1>3. ASSUME NEW id \in DOMAIN T, S[id].prevSibling # 0
        PROVE  /\ S[id].prevSibling \in DOMAIN S
               /\ h2[S[id].prevSibling] = h2[id]
               /\ S[S[id].prevSibling].nextSibling = id
    <2>1. CASE id = next
      BY <1>a, <1>b, <1>n, <2>1
    <2>2. CASE id # next
      <3>1. PICK y : y = T[id].prevSibling
        OBVIOUS
      <3>2. S[id].prevSibling = y /\ y # 0
        BY <1>3, <1>b, <2>2, <3>1
      <3>3. y \in DOMAIN T /\ h[y] = h[id] /\ T[y].nextSibling = id
        BY <1>c, <3>1, <3>2
      <3>4. y # left
        BY <2>2, <3>3 DEF next
      <3>5. S[y].nextSibling = id /\ h2[y] = h[y]
        BY <1>b, <3>3, <3>4
      <3> QED
        BY <1>a, <1>b, <3>2, <3>3, <3>5
    <2> QED
      BY <2>1, <2>2
  <1> QED
    BY <1>a, <1>1, <1>2, <1>3 DEF LinkedAt

(* A key is added for it after that of left, or there is no level above.   *)
KeyAdded(T, S, h, left, key, p, j) ==
    /\ \A id \in DOMAIN T : h[id] > h[left] /\ id # p => S[id].items = T[id].items
    /\ IF p = 0 THEN \A id \in DOMAIN T : h[id] <= h[left]
       ELSE /\ p \in DOMAIN T
            /\ h[p] = h[left] + 1
            /\ j \in 1 .. Len(T[p].items)
            /\ T[p].items[j].nodeId = left
            /\ S[p].items = InsertAt(T[p].items, j + 1, key)

(* What a node has in common with what it was. *)
SameNode(T, S, h, h2, id) ==
    /\ id \in DOMAIN T
    /\ h2[id] = h[id]
    /\ S[id].items = T[id].items
    /\ \A i \in 1 .. Len(T[id].items) :
          /\ T[id].items[i].nodeId \in DOMAIN S
          /\ h2[T[id].items[i].nodeId] = h[T[id].items[i].nodeId]
          /\ S[T[id].items[i].nodeId].nextSibling
                = T[T[id].items[i].nodeId].nextSibling
    /\ \A i \in 1 .. Len(T[id].items) : nextKey(S, id, i).nodeId = nextKey(T, id, i).nodeId

LEMMA SameNodeAt ==
    ASSUME NEW T, NEW S, NEW h, NEW h2, Stored(T, h), NEW id, SameNode(T, S, h, h2, id),
           LevelsAt(T, h, id), AdjacentAt(T, h, id), h[id] > 0
    PROVE  LevelsAt(S, h2, id) /\ AdjacentAt(S, h2, id)
  <1>1. id \in DOMAIN T /\ h2[id] = h[id] /\ S[id].items = T[id].items
    BY DEF SameNode
  <1>2. DOMAIN T[id].items = 1 .. Len(T[id].items)
    BY <1>1, NodeFacts
  <1>3. LevelsAt(S, h2, id)
    BY <1>1, <1>2 DEF LevelsAt, SameNode
  <1>4. AdjacentAt(S, h2, id)
    BY <1>1, <1>2 DEF AdjacentAt, SameNode
  <1> QED
    BY <1>3, <1>4

-----------------------------------------------------------------------------
(* The structure of the levels above when a node is added.                 *)

(* The child of a node that is not p is not left. *)
LEMMA OtherChild ==
    ASSUME NEW T, NEW h, Stored(T, h), OneParent(T), NEW p \in DOMAIN T,
           NEW j \in 1 .. Len(T[p].items), T[p].items[j].nodeId # 0,
           NEW id \in DOMAIN T, NEW i \in 1 .. Len(T[id].items),
           T[id].items[i].nodeId = T[p].items[j].nodeId
    PROVE  id = p /\ i = j
  <1>1. i \in DOMAIN T[id].items /\ j \in DOMAIN T[p].items
    BY NodeFacts
  <1> QED
    BY <1>1 DEF OneParent

LEMMA UpperAdded ==
    ASSUME NEW T, NEW S, NEW h, NEW h2, Structure(T, h, 0), Stored(S, h2),
           NEW left, NEW right, NodeAdded(T, S, h, h2, left, right),
           NEW key \in KeyType, key.nodeId = right, NEW p, NEW j,
           KeyAdded(T, S, h, left, key, p, j)
    PROVE  Upper(S, h2, h[left])
  <1> DEFINE next == T[left].nextSibling
  <1> DEFINE l == h[left]
  <1>a. /\ left \in DOMAIN T /\ right \notin DOMAIN T /\ right # 0
        /\ DOMAIN S = DOMAIN T \cup {right}
        /\ h2[right] = l
        /\ S[right].nextSibling = next
    BY DEF NodeAdded
  <1>b. ASSUME NEW id \in DOMAIN T
        PROVE  /\ h2[id] = h[id]
               /\ S[id].nextSibling = IF id = left THEN right ELSE T[id].nextSibling
    BY DEF NodeAdded
  <1>s. Stored(T, h) /\ OneParent(T)
    BY DEF Structure
  <1>l. l \in Nat /\ left # 0
    BY <1>a, <1>s, NodeFacts
  <1>k. ASSUME NEW id \in DOMAIN T, h[id] > l, id # p
        PROVE  S[id].items = T[id].items
    BY <1>k DEF KeyAdded
  <1>p. p # 0 => /\ p \in DOMAIN T
                 /\ h[p] = l + 1
                 /\ j \in 1 .. Len(T[p].items)
                 /\ T[p].items[j].nodeId = left
                 /\ S[p].items = InsertAt(T[p].items, j + 1, key)
    BY DEF KeyAdded
  <1>z. p = 0 => \A id \in DOMAIN T : h[id] <= l
    BY DEF KeyAdded
  <1> HIDE DEF next, l
  <1>lk. \A id \in DOMAIN S : LinkedAt(S, h2, id)
    <2>1. \A id \in DOMAIN T : LinkedAt(T, h, id)
      BY DEF Structure
    <2>2. 0 \notin DOMAIN T
      BY <1>s DEF Stored
    <2> QED
      BY ONLY <2>1, <2>2, LinksAdded, NodeAdded(T, S, h, h2, left, right)
  <1>u. Upper(S, h2, l)
    <2>1. CASE p = 0
      <3>1. \A id \in DOMAIN S : h2[id] <= l /\ h2[id] \in Nat
        BY <1>a, <1>b, <1>z, <1>l, <2>1, NodeFacts
      <3>2. \A id \in DOMAIN S : ~(h2[id] > l) /\ ~(h2[id] > l + 1)
        BY <3>1, <1>l
      <3> QED
        BY <3>2, <1>lk DEF Upper
    <2>2. CASE p # 0
      <3>p. /\ p \in DOMAIN T
            /\ h[p] = l + 1
            /\ j \in 1 .. Len(T[p].items)
            /\ T[p].items[j].nodeId = left
        BY <1>p, <2>2
      <3>i. Inserted(KeyType, T[p].items, j + 1, key, S[p].items)
        <4>1. T[p].items \in Seq(KeyType) /\ j + 1 \in 1 .. Len(T[p].items) + 1
          BY <3>p, <1>s, NodeFacts
        <4>2. S[p].items = InsertAt(T[p].items, j + 1, key)
          BY <1>p, <2>2
        <4> QED
          BY <4>1, <4>2, InsertAtIs
      <3>n. PICK n : n = Len(T[p].items)
        OBVIOUS
      <3>m. n \in Nat /\ j \in 1 .. n
        BY <3>n, <3>p, <1>s, NodeFacts
      <3>j. /\ Len(S[p].items) = n + 1
            /\ \A k \in 1 .. j : S[p].items[k] = T[p].items[k]
            /\ S[p].items[j + 1] = key
            /\ \A k \in j + 1 .. n : S[p].items[k + 1] = T[p].items[k]
        <4>1. \A k \in 1 .. j : k \in 1 .. (j + 1) - 1
          BY <3>m
        <4> QED
          BY <3>i, <3>n, <4>1 DEF Inserted
      <3>f. ASSUME NEW y, y = 0 \/ (y \in DOMAIN T /\ h[y] > l)
            PROVE  firstKey(S, y) = firstKey(T, y)
        <4>1. CASE y # 0 /\ y # p
          BY <3>f, <4>1, <1>k DEF firstKey
        <4>2. CASE y = p
          <5>1. n # 0 /\ n + 1 # 0 /\ 1 \in 1 .. j
            BY <3>m
          <5> QED
            BY <3>j, <3>n, <4>2, <5>1 DEF firstKey
        <4>3. CASE y = 0
          BY <4>3 DEF firstKey
        <4> QED
          BY <4>1, <4>2, <4>3
      <3>c. ASSUME NEW id \in DOMAIN T, h[id] > l, NEW i \in 1 .. Len(T[id].items),
                   NEW c, c = T[id].items[i].nodeId
            PROVE  /\ c \in DOMAIN T /\ h[c] = h[id] - 1
                   /\ c \in DOMAIN S /\ h2[c] = h[c]
                   /\ T[c].nextSibling = nextKey(T, id, i).nodeId
                   /\ S[c].nextSibling = IF c = left THEN right ELSE T[c].nextSibling
                   /\ c = left => id = p /\ i = j
        <4>0. h[id] \in Nat /\ i \in DOMAIN T[id].items
          BY <1>s, NodeFacts
        <4>1. LevelsAt(T, h, id) /\ AdjacentAt(T, h, id)
          BY DEF Structure
        <4>2. h[id] # 0 /\ h[id] > 0
          BY <3>c, <4>0, <1>l
        <4>3. c \in DOMAIN T /\ h[c] = h[id] - 1 /\ T[c].nextSibling = nextKey(T, id, i).nodeId
          BY <3>c, <4>0, <4>1, <4>2 DEF LevelsAt, AdjacentAt
        <4>4. c = left => id = p /\ i = j
          BY <3>c, <3>p, <1>s, <1>l, OtherChild
        <4> QED
          BY <4>3, <4>4, <1>a, <1>b
      <3>s. ASSUME NEW id \in DOMAIN T, h[id] > l
            PROVE  S[id].nextSibling = T[id].nextSibling
                   /\ (T[id].nextSibling = 0
                       \/ (T[id].nextSibling \in DOMAIN T /\ h[T[id].nextSibling] = h[id]))
        <4>1. LinkedAt(T, h, id)
          BY DEF Structure
        <4>2. id # left
          BY <3>s, <1>l DEF l
        <4> QED
          BY <4>1, <4>2, <1>b DEF LinkedAt
      <3>u. ASSUME NEW id \in DOMAIN S, h2[id] > l
            PROVE  id \in DOMAIN T /\ h[id] > l /\ h2[id] = h[id] /\ h[id] \in Nat
        <4>1. id # right
          BY <3>u, <1>a, <1>l
        <4> QED
          BY <3>u, <4>1, <1>a, <1>b, <1>s, NodeFacts
      <3>o. ASSUME NEW id \in DOMAIN T, h[id] > l, id # p
            PROVE  /\ S[id].items = T[id].items
                   /\ SameNode(T, S, h, h2, id)
                   /\ \A i : nextKey(S, id, i).nodeId = nextKey(T, id, i).nodeId
        <4>1. S[id].items = T[id].items
          BY <3>o, <1>k
        <4>2. firstKey(S, S[id].nextSibling) = firstKey(T, T[id].nextSibling)
          <5>1. PICK y : y = T[id].nextSibling
            OBVIOUS
          <5>2. S[id].nextSibling = y /\ (y = 0 \/ (y \in DOMAIN T /\ h[y] > l))
            BY <5>1, <3>s, <3>o
          <5> QED
            BY <5>1, <5>2, <3>f
        <4>3. \A i : nextKey(S, id, i) = nextKey(T, id, i)
          BY <4>1, <4>2, KeptNextKey
        <4>4. h2[id] = h[id]
          BY <1>b
        <4>5. ASSUME NEW i \in 1 .. Len(T[id].items)
              PROVE  /\ T[id].items[i].nodeId \in DOMAIN S
                     /\ h2[T[id].items[i].nodeId] = h[T[id].items[i].nodeId]
                     /\ S[T[id].items[i].nodeId].nextSibling
                            = T[T[id].items[i].nodeId].nextSibling
          BY <3>c, <3>o
        <4> QED
          BY <4>1, <4>3, <4>4, <4>5 DEF SameNode
      <3>1. ASSUME NEW id \in DOMAIN S, h2[id] > l, id # p
            PROVE  LevelsAt(S, h2, id) /\ AdjacentAt(S, h2, id)
        <4>1. id \in DOMAIN T /\ h[id] > l /\ h[id] \in Nat
          BY <3>u, <3>1
        <4>2. SameNode(T, S, h, h2, id)
          BY <3>o, <3>1, <4>1
        <4>3. LevelsAt(T, h, id) /\ AdjacentAt(T, h, id)
          BY <4>1 DEF Structure
        <4>4. h[id] > 0
          BY <4>1, <1>l
        <4> QED
          BY <4>1, <4>2, <4>3, <4>4, <1>s, SameNodeAt
      <3>pd. DOMAIN S[p].items = 1 .. n + 1
        BY <3>p, <3>j, <1>a, NodeFacts
      <3>pk. ASSUME NEW i \in 1 .. n + 1
             PROVE  \/ i \in 1 .. j /\ S[p].items[i] = T[p].items[i]
                    \/ i = j + 1 /\ S[p].items[i] = key
                    \/ i - 1 \in j + 1 .. n /\ S[p].items[i] = T[p].items[i - 1]
        <4>1. i \in 1 .. j \/ i = j + 1 \/ (i - 1 \in j + 1 .. n /\ (i - 1) + 1 = i)
          BY <3>m
        <4> QED
          BY <4>1, <3>j
      <3>pn. p \in DOMAIN S /\ h2[p] = l + 1 /\ S[p].nextSibling = T[p].nextSibling
             /\ l + 1 > l /\ l + 1 > 0 /\ l + 1 # 0 /\ (l + 1) - 1 = l
        BY <3>p, <1>a, <1>b, <3>s, <1>l
      <3>fn. firstKey(S, S[p].nextSibling) = firstKey(T, T[p].nextSibling)
        <4>1. PICK y : y = T[p].nextSibling
          OBVIOUS
        <4>2. S[p].nextSibling = y /\ (y = 0 \/ (y \in DOMAIN T /\ h[y] > l))
          BY <4>1, <3>s, <3>p, <3>pn
        <4> QED
          BY <4>1, <4>2, <3>f
      <3>2. LevelsAt(S, h2, p)
        <4>1. ASSUME NEW i \in 1 .. n
              PROVE T[p].items[i].nodeId \in DOMAIN S /\ h2[T[p].items[i].nodeId] = l
          BY <3>c, <3>p, <3>pn, <3>n
        <4>2. ASSUME NEW i \in 1 .. n + 1
              PROVE  S[p].items[i].nodeId \in DOMAIN S /\ h2[S[p].items[i].nodeId] = l
          <5>1. CASE i \in 1 .. j /\ S[p].items[i] = T[p].items[i]
            <6>1. i \in 1 .. n
              BY <3>m, <5>1
            <6> QED
              BY <4>1, <5>1, <6>1
          <5>2. CASE i = j + 1 /\ S[p].items[i] = key
            BY <5>2, <1>a
          <5>3. CASE i - 1 \in j + 1 .. n /\ S[p].items[i] = T[p].items[i - 1]
            <6>1. i - 1 \in 1 .. n
              BY <3>m, <5>3
            <6> QED
              BY <4>1, <5>3, <6>1
          <5> QED
            BY <3>pk, <5>1, <5>2, <5>3
        <4> QED
          BY <4>2, <3>pd, <3>pn DEF LevelsAt
      <3>3. AdjacentAt(S, h2, p)
        <4>1. ASSUME NEW i \in 1 .. n + 1
              PROVE  S[S[p].items[i].nodeId].nextSibling = nextKey(S, p, i).nodeId
          <5>1. CASE i \in 1 .. j /\ i # j
            <6>1. i + 1 \in 1 .. j /\ i < n + 1 /\ i < n /\ i \in 1 .. n
              BY <3>m, <5>1
            <6>2. PICK c : c = T[p].items[i].nodeId
              OBVIOUS
            <6>3. S[c].nextSibling = nextKey(T, p, i).nodeId
              BY <3>c, <3>p, <3>pn, <3>n, <5>1, <6>1, <6>2
            <6>4. nextKey(T, p, i) = T[p].items[i + 1]
              BY <6>1, <3>n DEF nextKey
            <6>5. nextKey(S, p, i) = T[p].items[i + 1] /\ S[p].items[i] = T[p].items[i]
              BY <6>1, <3>j, <5>1 DEF nextKey
            <6> QED
              BY <6>2, <6>3, <6>4, <6>5
          <5>2. CASE i = j
            <6>1. j < n + 1 /\ j \in 1 .. j
              BY <3>m
            <6>2. nextKey(S, p, i) = key /\ S[p].items[i].nodeId = left
              BY <6>1, <3>j, <3>p, <5>2 DEF nextKey
            <6> QED
              BY <6>2, <1>a, <1>b
          <5>3. CASE i = j + 1
            <6>1. S[p].items[i].nodeId = right
              BY <3>j, <5>3
            <6>2. next = nextKey(T, p, j).nodeId
              BY <3>c, <3>p, <3>pn DEF next
            <6>3. nextKey(S, p, i) = nextKey(T, p, j)
              <7>1. CASE j < n
                <8>1. j + 1 < n + 1 /\ j + 1 \in j + 1 .. n
                  BY <3>m, <7>1
                <8>2. nextKey(T, p, j) = T[p].items[j + 1]
                  BY <7>1, <3>n DEF nextKey
                <8>3. nextKey(S, p, i) = S[p].items[(j + 1) + 1]
                  BY <8>1, <5>3, <3>j DEF nextKey
                <8> QED
                  BY <8>1, <8>2, <8>3, <3>j
              <7>2. CASE ~(j < n)
                <8>1. ~(j + 1 < n + 1)
                  BY <3>m, <7>2
                <8> QED
                  BY <8>1, <7>2, <5>3, <3>j, <3>n, <3>fn DEF nextKey
              <7> QED
                BY <7>1, <7>2
            <6> QED
              BY <6>1, <6>2, <6>3, <1>a
          <5>4. CASE i - 1 \in j + 1 .. n
            <6>0. PICK k : k = i - 1
              OBVIOUS
            <6>1. k \in 1 .. n /\ k # j /\ i = k + 1 /\ k \in j + 1 .. n
              BY <6>0, <5>4, <3>m
            <6>2. PICK c : c = T[p].items[k].nodeId
              OBVIOUS
            <6>3. S[c].nextSibling = nextKey(T, p, k).nodeId
              BY <3>c, <3>p, <3>pn, <3>n, <6>1, <6>2
            <6>4. S[p].items[i].nodeId = c
              BY <6>1, <6>2, <3>j
            <6>5. nextKey(S, p, i) = nextKey(T, p, k)
              <7>1. CASE k < n
                <8>1. k + 1 < n + 1 /\ k + 1 \in j + 1 .. n
                  BY <3>m, <6>1, <7>1
                <8>2. nextKey(T, p, k) = T[p].items[k + 1]
                  BY <7>1, <3>n DEF nextKey
                <8>3. nextKey(S, p, i) = S[p].items[(k + 1) + 1]
                  BY <8>1, <6>1, <3>j DEF nextKey
                <8> QED
                  BY <8>1, <8>2, <8>3, <3>j
              <7>2. CASE ~(k < n)
                <8>1. ~(k + 1 < n + 1)
                  BY <3>m, <6>1, <7>2
                <8> QED
                  BY <8>1, <7>2, <6>1, <3>j, <3>n, <3>fn DEF nextKey
              <7> QED
                BY <7>1, <7>2
            <6> QED
              BY <6>3, <6>4, <6>5
          <5> QED
            BY <3>pk, <5>1, <5>2, <5>3, <5>4
        <4> QED
          BY <4>1, <3>pd DEF AdjacentAt
      <3>4. ASSUME NEW id \in DOMAIN S, h2[id] > l + 1
            PROVE  OrderedAt(S, id)
        <4>1. h2[id] \in Nat
          BY NodeFacts
        <4>2. h2[id] > l
          BY <4>1, <3>4, <1>l
        <4>3. id \in DOMAIN T /\ h[id] > l /\ h2[id] = h[id] /\ h[id] > l + 1
          BY <3>u, <3>4, <4>2
        <4>4. id # p
          BY <4>3, <3>p, <1>l
        <4>5. S[id].items = T[id].items
          BY <1>k, <4>3, <4>4
        <4>6. firstKey(S, S[id].nextSibling) = firstKey(T, T[id].nextSibling)
          <5>1. PICK y : y = T[id].nextSibling
            OBVIOUS
          <5>2. S[id].nextSibling = y /\ (y = 0 \/ (y \in DOMAIN T /\ h[y] > l))
            BY <5>1, <3>s, <4>3
          <5> QED
            BY <5>1, <5>2, <3>f
        <4>7. \A i : nextKey(S, id, i) = nextKey(T, id, i)
          BY <4>5, <4>6, KeptNextKey
        <4>8. OrderedAt(T, id)
          BY <4>3 DEF Structure
        <4> QED
          BY <4>5, <4>7, <4>8 DEF OrderedAt
      <3>5. ASSUME NEW a \in DOMAIN S, NEW b \in DOMAIN S, h2[a] = h2[b], h2[a] > l
            PROVE  ParentsAgree(S, a, b)
        <4>1. a \in DOMAIN T /\ b \in DOMAIN T /\ h[a] > l /\ h[b] > l
          BY <3>5, <3>u
        <4>2. ASSUME NEW id \in DOMAIN T, h[id] > l, id # p, NEW i \in DOMAIN S[id].items
              PROVE  i \in 1 .. Len(T[id].items) /\ S[id].items[i] = T[id].items[i]
                     /\ S[id].items[i].nodeId # right /\ S[id].items[i].nodeId # left
          <5>1. S[id].items = T[id].items /\ i \in 1 .. Len(T[id].items)
            BY <4>2, <1>k, <1>s, NodeFacts
          <5> QED
            BY <5>1, <4>2, <3>c, <1>a
        <4>3. SUFFICES ASSUME NEW i \in DOMAIN S[a].items, NEW k \in DOMAIN S[b].items,
                              S[a].items[i].nodeId = S[b].items[k].nodeId,
                              S[a].items[i].nodeId # 0
                       PROVE  a = b /\ i = k
          BY DEF ParentsAgree
        <4> DEFINE was(x) == IF x \in 1 .. j THEN x ELSE x - 1
        <4>4. ASSUME NEW x \in DOMAIN S[p].items, x # j + 1
              PROVE  was(x) \in 1 .. n /\ S[p].items[x] = T[p].items[was(x)]
                     /\ S[p].items[x].nodeId # right
          <5>1. x \in 1 .. n + 1
            BY <3>pd
          <5>2. was(x) \in 1 .. n
            BY <5>1, <4>4, <3>m
          <5>3. S[p].items[x] = T[p].items[was(x)]
            <6>1. CASE x \in 1 .. j
              BY <6>1, <3>j
            <6>2. CASE x \notin 1 .. j
              <7>1. was(x) = x - 1
                BY <6>2
              <7> QED
                BY <5>1, <4>4, <6>2, <7>1, <3>pk
            <6> QED
              BY <6>1, <6>2
          <5> HIDE DEF was
          <5>4. T[p].items[was(x)].nodeId \in DOMAIN T
            BY <5>2, <3>c, <3>p, <3>pn, <3>n
          <5> QED
            BY <5>2, <5>3, <5>4, <1>a
        <4>5. S[p].items[j + 1].nodeId = right
          BY <3>j
        <4>6. ASSUME NEW x \in DOMAIN S[p].items, NEW y \in DOMAIN S[p].items,
                     x # j + 1, y # j + 1, was(x) = was(y)
              PROVE  x = y
          BY <4>6, <3>pd, <3>m
        <4> HIDE DEF was
        <4>7. ASSUME NEW c \in DOMAIN T, NEW d \in DOMAIN T,
                     NEW x \in 1 .. Len(T[c].items), NEW y \in 1 .. Len(T[d].items),
                     T[c].items[x].nodeId = T[d].items[y].nodeId,
                     T[c].items[x].nodeId # 0
              PROVE  c = d /\ x = y
          BY <4>7, <1>s, OtherChild
        <4>8. CASE a # p /\ b # p
          BY SMTT(30), <4>1, <4>2, <4>3, <4>7, <4>8
        <4>9. CASE a = p /\ b # p
          <5>1. i # j + 1
            BY <4>1, <4>2, <4>3, <4>5, <4>9
          <5>2. was(i) \in 1 .. Len(T[a].items) /\ S[a].items[i] = T[a].items[was(i)]
            BY <4>4, <4>9, <5>1, <3>n
          <5>3. k \in 1 .. Len(T[b].items) /\ S[b].items[k] = T[b].items[k]
            BY <4>1, <4>2, <4>9
          <5>4. T[a].items[was(i)].nodeId = T[b].items[k].nodeId
                /\ T[a].items[was(i)].nodeId # 0
            BY <4>3, <5>2, <5>3
          <5>5. a = b
            BY <4>1, <4>7, <5>2, <5>3, <5>4
          <5> QED
            BY <4>9, <5>5
        <4>10. CASE a # p /\ b = p
          <5>1. k # j + 1
            BY <4>1, <4>2, <4>3, <4>5, <4>10
          <5>2. was(k) \in 1 .. Len(T[b].items) /\ S[b].items[k] = T[b].items[was(k)]
            BY <4>4, <4>10, <5>1, <3>n
          <5>3. i \in 1 .. Len(T[a].items) /\ S[a].items[i] = T[a].items[i]
            BY <4>1, <4>2, <4>10
          <5>4. T[a].items[i].nodeId = T[b].items[was(k)].nodeId
                /\ T[a].items[i].nodeId # 0
            BY <4>3, <5>2, <5>3
          <5>5. a = b
            BY <4>1, <4>7, <5>2, <5>3, <5>4
          <5> QED
            BY <4>10, <5>5
        <4>11. CASE a = p /\ b = p
          <5>1. CASE i = j + 1
            <6>1. k = j + 1
              BY <5>1, <4>3, <4>4, <4>5, <4>11
            <6> QED
              BY <4>11, <5>1, <6>1
          <5>2. CASE k = j + 1
            <6>1. i = j + 1
              BY <5>2, <4>3, <4>4, <4>5, <4>11
            <6> QED
              BY <4>11, <5>2, <6>1
          <5>3. CASE i # j + 1 /\ k # j + 1
            <6>1. was(i) \in 1 .. Len(T[p].items) /\ S[p].items[i] = T[p].items[was(i)]
                  /\ was(k) \in 1 .. Len(T[p].items) /\ S[p].items[k] = T[p].items[was(k)]
              BY <4>4, <4>11, <5>3, <3>n
            <6>2. T[p].items[was(i)].nodeId = T[p].items[was(k)].nodeId
                  /\ T[p].items[was(i)].nodeId # 0
              BY <4>3, <4>11, <6>1
            <6>3. was(i) = was(k)
              BY <3>p, <4>7, <6>1, <6>2
            <6> QED
              BY <4>6, <4>11, <5>3, <6>3
          <5> QED
            BY <5>1, <5>2, <5>3
        <4> QED
          BY <4>8, <4>9, <4>10, <4>11
      <3> QED
        BY <1>lk, <3>1, <3>2, <3>3, <3>4, <3>5 DEF Upper
    <2> QED
      BY <2>1, <2>2
  <1> QED
    BY <1>u DEF l

-----------------------------------------------------------------------------
(* A node goes from a level.                                               *)

LEMMA NotItsSibling ==
    ASSUME NEW T, NEW h, Stored(T, h), NEW id \in DOMAIN T, OrderedAt(T, id),
           Len(T[id].items) > 0
    PROVE  T[id].nextSibling # id
  <1>1. SUFFICES ASSUME T[id].nextSibling = id PROVE FALSE
    OBVIOUS
  <1>2. PICK n : n = Len(T[id].items)
    OBVIOUS
  <1>3. n \in Nat /\ n > 0 /\ DOMAIN T[id].items = 1 .. n /\ id # 0
        /\ \A i \in 1 .. n : T[id].items[i] \in KeyType
    BY <1>2, NodeFacts
  <1>4. n \in 1 .. n /\ 1 \in 1 .. n /\ ~(n < n) /\ n # 0
    BY <1>3
  <1>5. nextKey(T, id, n) = T[id].items[1]
    BY <1>1, <1>2, <1>3, <1>4 DEF nextKey, firstKey
  <1>6. T[id].items[1] # none
    BY <1>3, <1>4, KeyParts
  <1>7. T[id].items[n].item < T[id].items[1].item
    BY <1>3, <1>4, <1>5, <1>6 DEF OrderedAt
  <1>8. Ascends(T[id].items)
    BY NodeAscends
  <1>9. 1 < n => T[id].items[1].item < T[id].items[n].item
    BY <1>2, <1>4, <1>8 DEF Ascends
  <1>10. T[id].items[1].item \in Nat /\ T[id].items[n].item \in Nat
    BY <1>3, <1>4, KeyParts
  <1>11. n = 1 \/ 1 < n
    BY <1>3
  <1> QED
    BY <1>7, <1>9, <1>10, <1>11

(* The node d is dropped.                                                  *)
NodeDropped(T, S, h, h2, d) ==
    /\ d \in DOMAIN T
    /\ DOMAIN S = DOMAIN T \ {d}
    /\ \A id \in DOMAIN S :
          /\ h2[id] = h[id]
          /\ S[id].nextSibling = IF T[id].nextSibling = d THEN T[d].nextSibling
                                 ELSE T[id].nextSibling
          /\ S[id].prevSibling = IF T[id].prevSibling = d THEN T[d].prevSibling
                                 ELSE T[id].prevSibling

LEMMA LinksDropped ==
    ASSUME NEW T, NEW S, NEW h, NEW h2, NEW d,
           \A id \in DOMAIN T : LinkedAt(T, h, id), 0 \notin DOMAIN T,
           NodeDropped(T, S, h, h2, d)
    PROVE  \A id \in DOMAIN S : LinkedAt(S, h2, id)
  <1>a. /\ d \in DOMAIN T
        /\ DOMAIN S = DOMAIN T \ {d}
    BY DEF NodeDropped
  <1>b. ASSUME NEW id \in DOMAIN S
        PROVE  /\ h2[id] = h[id]
               /\ S[id].nextSibling = IF T[id].nextSibling = d THEN T[d].nextSibling
                                      ELSE T[id].nextSibling
               /\ S[id].prevSibling = IF T[id].prevSibling = d THEN T[d].prevSibling
                                      ELSE T[id].prevSibling
    BY DEF NodeDropped
  <1>c. ASSUME NEW id \in DOMAIN T
        PROVE  /\ T[id].nextSibling # 0 =>
                     /\ T[id].nextSibling \in DOMAIN T
                     /\ h[T[id].nextSibling] = h[id]
                     /\ T[T[id].nextSibling].prevSibling = id
               /\ T[id].prevSibling # 0 =>
                     /\ T[id].prevSibling \in DOMAIN T
                     /\ h[T[id].prevSibling] = h[id]
                     /\ T[T[id].prevSibling].nextSibling = id
    BY DEF LinkedAt
  <1>1. ASSUME NEW id \in DOMAIN S, S[id].nextSibling # 0
        PROVE  /\ S[id].nextSibling \in DOMAIN S
               /\ h2[S[id].nextSibling] = h2[id]
               /\ S[S[id].nextSibling].prevSibling = id
    <2>1. PICK y : y = S[id].nextSibling
      OBVIOUS
    <2>2. id \in DOMAIN T /\ id # d /\ y # 0
      BY <1>1, <1>a, <2>1
    <2>3. CASE T[id].nextSibling = d
      <3>0. d # 0
        BY <1>a
      <3>1. y = T[d].nextSibling /\ T[d].prevSibling = id /\ h[d] = h[id]
        BY <1>b, <1>c, <2>1, <2>2, <2>3, <3>0
      <3>2. y \in DOMAIN T /\ h[y] = h[id] /\ T[y].prevSibling = d
        BY <1>a, <1>c, <2>2, <3>1
      <3>3. y # d
        BY <3>1, <3>2, <2>2
      <3>4. S[y].prevSibling = id /\ h2[y] = h[y] /\ y \in DOMAIN S
        BY <1>a, <1>b, <3>1, <3>2, <3>3
      <3> QED
        BY <1>b, <2>1, <3>2, <3>4
    <2>4. CASE T[id].nextSibling # d
      <3>1. y = T[id].nextSibling /\ y # d
        BY <1>b, <2>1, <2>4
      <3>2. y \in DOMAIN T /\ h[y] = h[id] /\ T[y].prevSibling = id
        BY <1>c, <2>2, <3>1
      <3>3. S[y].prevSibling = id /\ h2[y] = h[y] /\ y \in DOMAIN S
        BY <1>a, <1>b, <2>2, <3>1, <3>2
      <3> QED
        BY <1>b, <2>1, <3>2, <3>3
    <2> QED
      BY <2>3, <2>4
  <1>2. ASSUME NEW id \in DOMAIN S, S[id].prevSibling # 0
        PROVE  /\ S[id].prevSibling \in DOMAIN S
               /\ h2[S[id].prevSibling] = h2[id]
               /\ S[S[id].prevSibling].nextSibling = id
    <2>1. PICK y : y = S[id].prevSibling
      OBVIOUS
    <2>2. id \in DOMAIN T /\ id # d /\ y # 0
      BY <1>2, <1>a, <2>1
    <2>3. CASE T[id].prevSibling = d
      <3>0. d # 0
        BY <1>a
      <3>1. y = T[d].prevSibling /\ T[d].nextSibling = id /\ h[d] = h[id]
        BY <1>b, <1>c, <2>1, <2>2, <2>3, <3>0
      <3>2. y \in DOMAIN T /\ h[y] = h[id] /\ T[y].nextSibling = d
        BY <1>a, <1>c, <2>2, <3>1
      <3>3. y # d
        BY <3>1, <3>2, <2>2
      <3>4. S[y].nextSibling = id /\ h2[y] = h[y] /\ y \in DOMAIN S
        BY <1>a, <1>b, <3>1, <3>2, <3>3
      <3> QED
        BY <1>b, <2>1, <3>2, <3>4
    <2>4. CASE T[id].prevSibling # d
      <3>1. y = T[id].prevSibling /\ y # d
        BY <1>b, <2>1, <2>4
      <3>2. y \in DOMAIN T /\ h[y] = h[id] /\ T[y].nextSibling = id
        BY <1>c, <2>2, <3>1
      <3>3. S[y].nextSibling = id /\ h2[y] = h[y] /\ y \in DOMAIN S
        BY <1>a, <1>b, <2>2, <3>1, <3>2
      <3> QED
        BY <1>b, <2>1, <3>2, <3>3
    <2> QED
      BY <2>3, <2>4
  <1> QED
    BY <1>1, <1>2 DEF LinkedAt

(* Its key is removed, or there is no level above.                         *)
KeyDropped(T, S, h, d, p, j) ==
    /\ \A id \in DOMAIN T : h[id] > h[d] /\ id # p => S[id].items = T[id].items
    /\ IF p = 0 THEN \A id \in DOMAIN T : h[id] <= h[d]
       ELSE /\ p \in DOMAIN T
            /\ h[p] = h[d] + 1
            /\ j \in 1 .. Len(T[p].items)
            /\ T[p].items[j].nodeId = d
            /\ S[p].items = RemoveAt(T[p].items, j)
            /\ Len(T[p].items) = 1 => T[p].nextSibling = 0

LEMMA UpperDropped ==
    ASSUME NEW T, NEW S, NEW h, NEW h2, Structure(T, h, 0), Stored(S, h2),
           NEW d, NodeDropped(T, S, h, h2, d), NEW p, NEW j,
           KeyDropped(T, S, h, d, p, j)
    PROVE  Upper(S, h2, h[d])
  <1> DEFINE l == h[d]
  <1>a. d \in DOMAIN T /\ DOMAIN S = DOMAIN T \ {d}
    BY DEF NodeDropped
  <1>b. ASSUME NEW id \in DOMAIN S
        PROVE  /\ h2[id] = h[id]
               /\ S[id].nextSibling = IF T[id].nextSibling = d THEN T[d].nextSibling
                                      ELSE T[id].nextSibling
    BY DEF NodeDropped
  <1>s. Stored(T, h) /\ OneParent(T)
    BY DEF Structure
  <1>l. l \in Nat /\ d # 0
    BY <1>a, <1>s, NodeFacts
  <1>k. ASSUME NEW id \in DOMAIN T, h[id] > l, id # p
        PROVE  S[id].items = T[id].items
    BY <1>k DEF KeyDropped
  <1>p. p # 0 => /\ p \in DOMAIN T
                 /\ h[p] = l + 1
                 /\ j \in 1 .. Len(T[p].items)
                 /\ T[p].items[j].nodeId = d
                 /\ S[p].items = RemoveAt(T[p].items, j)
                 /\ Len(T[p].items) = 1 => T[p].nextSibling = 0
    BY DEF KeyDropped
  <1>z. p = 0 => \A id \in DOMAIN T : h[id] <= l
    BY DEF KeyDropped
  <1> HIDE DEF l
  <1>lk. \A id \in DOMAIN S : LinkedAt(S, h2, id)
    <2>1. \A id \in DOMAIN T : LinkedAt(T, h, id)
      BY DEF Structure
    <2>2. 0 \notin DOMAIN T
      BY <1>s DEF Stored
    <2> QED
      BY ONLY <2>1, <2>2, LinksDropped, NodeDropped(T, S, h, h2, d)
  <1>u. Upper(S, h2, l)
    <2>1. CASE p = 0
      <3>1. \A id \in DOMAIN S : h2[id] <= l /\ h2[id] \in Nat
        BY <1>a, <1>b, <1>z, <1>l, <2>1, NodeFacts
      <3>2. \A id \in DOMAIN S : ~(h2[id] > l) /\ ~(h2[id] > l + 1)
        BY <3>1, <1>l
      <3> QED
        BY <3>2, <1>lk DEF Upper
    <2>2. CASE p # 0
      <3>p. /\ p \in DOMAIN T
            /\ h[p] = l + 1
            /\ j \in 1 .. Len(T[p].items)
            /\ T[p].items[j].nodeId = d
            /\ Len(T[p].items) = 1 => T[p].nextSibling = 0
        BY <1>p, <2>2
      <3>i. Removed(KeyType, T[p].items, j, S[p].items)
        <4>1. T[p].items \in Seq(KeyType)
          BY <3>p, <1>s, NodeFacts
        <4>2. S[p].items = RemoveAt(T[p].items, j)
          BY <1>p, <2>2
        <4> QED
          BY <4>1, <4>2, <3>p, RemoveAtIs
      <3>n. PICK n : n = Len(T[p].items)
        OBVIOUS
      <3>m. n \in Nat /\ j \in 1 .. n
        BY <3>n, <3>p, <1>s, NodeFacts
      <3>j. /\ Len(S[p].items) = n - 1
            /\ \A k \in 1 .. j - 1 : S[p].items[k] = T[p].items[k]
            /\ \A k \in j .. n - 1 : S[p].items[k] = T[p].items[k + 1]
        BY <3>i, <3>n DEF Removed
      <3>pp. p # d /\ p \in DOMAIN S
        BY <3>p, <1>a, <1>l DEF l
      <3>ns. T[p].nextSibling # p
        <4>1. n > 0
          BY <3>m
        <4>2. OrderedAt(T, p)
          BY <3>p DEF Structure
        <4> QED
          BY <4>1, <4>2, <3>n, <3>p, <1>s, NotItsSibling
      <3>f. ASSUME NEW y, y = 0 \/ (y \in DOMAIN T /\ h[y] > l), y # p
            PROVE  firstKey(S, y) = firstKey(T, y)
        BY <3>f, <1>k DEF firstKey
      <3>fp. firstKey(S, p).nodeId = IF j = 1 THEN nextKey(T, p, 1).nodeId
                                              ELSE firstKey(T, p).nodeId
        <4>1. CASE j # 1
          <5>1. 1 \in 1 .. j - 1 /\ n - 1 # 0 /\ n # 0
            BY <3>m, <4>1
          <5> QED
            BY <4>1, <5>1, <3>j, <3>n, <2>2 DEF firstKey
        <4>2. CASE j = 1 /\ n # 1
          <5>1. 1 < n /\ 1 \in j .. n - 1 /\ n - 1 # 0
            BY <3>m, <4>2
          <5>2. nextKey(T, p, 1) = T[p].items[1 + 1]
            BY <5>1, <3>n DEF nextKey
          <5>3. firstKey(S, p) = S[p].items[1]
            BY <5>1, <3>j, <2>2 DEF firstKey
          <5> QED
            BY <4>2, <5>1, <5>2, <5>3, <3>j
        <4>3. CASE j = 1 /\ n = 1
          <5>1. ~(1 < n) /\ n - 1 = 0
            BY <4>3
          <5>2. nextKey(T, p, 1) = none
            BY <5>1, <4>3, <3>n, <3>p DEF nextKey, firstKey
          <5>3. firstKey(S, p) = none
            BY <5>1, <3>j DEF firstKey
          <5> QED
            BY <4>3, <5>2, <5>3
        <4> QED
          BY <4>1, <4>2, <4>3
      <3>c. ASSUME NEW id \in DOMAIN T, h[id] > l, NEW i \in 1 .. Len(T[id].items),
                   NEW c, c = T[id].items[i].nodeId
            PROVE  /\ c \in DOMAIN T /\ h[c] = h[id] - 1
                   /\ T[c].nextSibling = nextKey(T, id, i).nodeId
                   /\ c = d => id = p /\ i = j
                   /\ c # d => /\ c \in DOMAIN S /\ h2[c] = h[c]
                               /\ S[c].nextSibling = IF T[c].nextSibling = d
                                                     THEN T[d].nextSibling
                                                     ELSE T[c].nextSibling
        <4>0. h[id] \in Nat /\ i \in DOMAIN T[id].items
          BY <1>s, NodeFacts
        <4>1. LevelsAt(T, h, id) /\ AdjacentAt(T, h, id)
          BY DEF Structure
        <4>2. h[id] # 0 /\ h[id] > 0
          BY <3>c, <4>0, <1>l
        <4>3. c \in DOMAIN T /\ h[c] = h[id] - 1 /\ T[c].nextSibling = nextKey(T, id, i).nodeId
          BY <3>c, <4>0, <4>1, <4>2 DEF LevelsAt, AdjacentAt
        <4>4. c = d => id = p /\ i = j
          BY <3>c, <3>p, <1>s, <1>l, OtherChild
        <4> QED
          BY <4>3, <4>4, <1>a, <1>b
      <3>d. T[d].nextSibling = nextKey(T, p, j).nodeId
        <4>1. h[p] > l
          BY <3>p, <1>l
        <4> QED
          BY <4>1, <3>c, <3>p
      <3>s. ASSUME NEW id \in DOMAIN T, h[id] > l
            PROVE  id \in DOMAIN S /\ S[id].nextSibling = T[id].nextSibling
                   /\ (T[id].nextSibling = 0
                       \/ (T[id].nextSibling \in DOMAIN T /\ h[T[id].nextSibling] = h[id]))
        <4>1. LinkedAt(T, h, id)
          BY DEF Structure
        <4>2. T[id].nextSibling # d /\ id # d
          BY <3>s, <4>1, <1>l, <1>a DEF l, LinkedAt
        <4>3. id \in DOMAIN S
          BY <4>2, <1>a
        <4> QED
          BY <4>1, <4>2, <4>3, <1>b DEF LinkedAt
      <3>u. ASSUME NEW id \in DOMAIN S, h2[id] > l
            PROVE  id \in DOMAIN T /\ h[id] > l /\ h2[id] = h[id] /\ h[id] \in Nat
        BY <3>u, <1>a, <1>b, <1>s, NodeFacts
      \* a child whose next one is d
      <3>x. ASSUME NEW id \in DOMAIN T, h[id] > l, NEW y, y = T[id].nextSibling,
                   firstKey(T, y).nodeId = d
            PROVE  y = p /\ j = 1
        <4>1. y # 0
          BY <3>x, <1>l DEF firstKey, none, Key
        <4>2. y \in DOMAIN T /\ Len(T[y].items) # 0 /\ T[y].items[1].nodeId = d
          BY <3>x, <3>s, <4>1, <1>l DEF firstKey, none, Key
        <4>3. 1 \in 1 .. Len(T[y].items)
          BY <4>2, <1>s, NodeFacts
        <4> QED
          BY <4>2, <4>3, <3>p, <1>s, <1>l, OtherChild
      \* the next key at the end of a node
      <3>e. ASSUME NEW id \in DOMAIN T, h[id] > l, NEW c \in DOMAIN S,
                   T[c].nextSibling = firstKey(T, T[id].nextSibling).nodeId
            PROVE  S[c].nextSibling = firstKey(S, S[id].nextSibling).nodeId
        <4>1. PICK y : y = T[id].nextSibling
          OBVIOUS
        <4>2. S[id].nextSibling = y /\ (y = 0 \/ (y \in DOMAIN T /\ h[y] > l))
          BY <4>1, <3>e, <3>s
        <4>3. CASE T[c].nextSibling = d
          <5>1. y = p /\ j = 1
            BY <4>1, <4>3, <3>e, <3>x
          <5>2. firstKey(S, y).nodeId = T[d].nextSibling
            BY <5>1, <3>fp, <3>d
          <5> QED
            BY <4>2, <4>3, <5>2, <1>b
        <4>4. CASE T[c].nextSibling # d /\ y # p
          BY <4>1, <4>2, <4>4, <3>e, <3>f, <1>b
        <4>5. CASE T[c].nextSibling # d /\ y = p
          <5>1. firstKey(T, p) = T[p].items[1]
            <6>1. n # 0
              BY <3>m
            <6> QED
              BY <6>1, <3>n, <2>2 DEF firstKey
          <5>2. j # 1
            BY <4>1, <4>5, <5>1, <3>e, <3>p
          <5>3. firstKey(S, p).nodeId = firstKey(T, p).nodeId
            BY <5>2, <3>fp
          <5> QED
            BY <4>1, <4>2, <4>5, <5>3, <3>e, <1>b
        <4> QED
          BY <4>3, <4>4, <4>5
      <3>1. ASSUME NEW id \in DOMAIN S, h2[id] > l, id # p
            PROVE  LevelsAt(S, h2, id) /\ AdjacentAt(S, h2, id)
        <4>1. id \in DOMAIN T /\ h[id] > l /\ h[id] \in Nat /\ h2[id] = h[id]
          BY <3>u, <3>1
        <4>2. S[id].items = T[id].items
          BY <1>k, <3>1, <4>1
        <4>3. LevelsAt(T, h, id) /\ AdjacentAt(T, h, id)
          BY <4>1 DEF Structure
        <4>4. h[id] > 0 /\ h[id] # 0 /\ DOMAIN T[id].items = 1 .. Len(T[id].items)
              /\ Len(T[id].items) \in Nat
          BY <4>1, <1>l, <1>s, NodeFacts
        <4>5. LevelsAt(S, h2, id)
          <5>1. ASSUME NEW i \in 1 .. Len(T[id].items)
                PROVE  T[id].items[i].nodeId \in DOMAIN S
                       /\ h2[T[id].items[i].nodeId] = h2[id] - 1
            BY <3>c, <3>1, <4>1
          <5> QED
            BY <5>1, <4>1, <4>2, <4>4 DEF LevelsAt
        <4>6. AdjacentAt(S, h2, id)
          <5>1. ASSUME NEW i \in 1 .. Len(T[id].items)
                PROVE  S[T[id].items[i].nodeId].nextSibling = nextKey(S, id, i).nodeId
            <6>1. PICK c : c = T[id].items[i].nodeId
              OBVIOUS
            <6>2. /\ c \in DOMAIN S /\ T[c].nextSibling = nextKey(T, id, i).nodeId
                  /\ S[c].nextSibling = IF T[c].nextSibling = d
                                        THEN T[d].nextSibling ELSE T[c].nextSibling
              BY <6>1, <3>c, <3>1, <4>1
            <6>3. CASE i < Len(T[id].items)
              <7>1. nextKey(T, id, i) = T[id].items[i + 1] /\ nextKey(S, id, i) = T[id].items[i + 1]
                BY <6>3, <4>2 DEF nextKey
              <7>2. i + 1 \in 1 .. Len(T[id].items)
                BY <6>3, <4>4
              <7>3. T[id].items[i + 1].nodeId # d
                BY <7>2, <3>c, <3>1, <4>1
              <7> QED
                BY <6>1, <6>2, <7>1, <7>3
            <6>4. CASE ~(i < Len(T[id].items))
              <7>1. nextKey(T, id, i) = firstKey(T, T[id].nextSibling)
                    /\ nextKey(S, id, i) = firstKey(S, S[id].nextSibling)
                BY <6>4, <4>2 DEF nextKey
              <7> QED
                BY <6>1, <6>2, <7>1, <3>e, <4>1
            <6> QED
              BY <6>3, <6>4
          <5> QED
            BY <5>1, <4>2, <4>4 DEF AdjacentAt
        <4> QED
          BY <4>5, <4>6
      <3>pn. h2[p] = l + 1 /\ S[p].nextSibling = T[p].nextSibling /\ h[p] > l
             /\ l + 1 > l /\ l + 1 > 0 /\ l + 1 # 0 /\ (l + 1) - 1 = l
        BY <3>p, <3>pp, <1>b, <3>s, <1>l
      <3>pd. DOMAIN S[p].items = 1 .. n - 1
        BY <3>pp, <3>j, NodeFacts
      <3> DEFINE was(i) == IF i < j THEN i ELSE i + 1
      <3>w. ASSUME NEW i \in 1 .. n - 1
            PROVE  was(i) \in 1 .. n /\ was(i) # j /\ S[p].items[i] = T[p].items[was(i)]
                   /\ (i < n - 1 => was(i + 1) = IF was(i) + 1 = j THEN j + 1 ELSE was(i) + 1)
                   /\ (~(i < n - 1) => IF j = n THEN was(i) + 1 = j /\ j # 1 ELSE was(i) = n)
        <4>1. was(i) \in 1 .. n /\ was(i) # j
          BY <3>m
        <4>2. \/ (i \in 1 .. j - 1 /\ was(i) = i)
              \/ (i \in j .. n - 1 /\ was(i) = i + 1)
          BY <3>m
        <4>3. i < n - 1 => was(i + 1) = IF was(i) + 1 = j THEN j + 1 ELSE was(i) + 1
          BY <3>m
        <4>4. ~(i < n - 1) => IF j = n THEN was(i) + 1 = j /\ j # 1 ELSE was(i) = n
          BY <3>m
        <4> HIDE DEF was
        <4> QED
          BY <4>1, <4>2, <4>3, <4>4, <3>j
      <3>w1. \A i \in 1 .. n - 1, k \in 1 .. n - 1 : was(i) = was(k) => i = k
        BY <3>m
      <3> HIDE DEF was
      <3>2. LevelsAt(S, h2, p)
        <4>1. ASSUME NEW i \in 1 .. n - 1
              PROVE  S[p].items[i].nodeId \in DOMAIN S /\ h2[S[p].items[i].nodeId] = l
          <5>1. PICK k : k = was(i)
            OBVIOUS
          <5>2. k \in 1 .. Len(T[p].items) /\ k # j /\ S[p].items[i] = T[p].items[k]
            BY <5>1, <3>w, <3>n
          <5>3. T[p].items[k].nodeId \in DOMAIN S /\ h2[T[p].items[k].nodeId] = h[p] - 1
            BY <5>2, <3>c, <3>p, <3>pn
          <5> QED
            BY <5>2, <5>3, <3>p, <3>pn
        <4> QED
          BY <4>1, <3>pd, <3>pn DEF LevelsAt
      <3>3. AdjacentAt(S, h2, p)
        <4>1. ASSUME NEW i \in 1 .. n - 1
              PROVE  S[S[p].items[i].nodeId].nextSibling = nextKey(S, p, i).nodeId
          <5>0. PICK k, c : k = was(i) /\ c = S[p].items[i].nodeId
            OBVIOUS
          <5>1. k \in 1 .. n /\ k # j /\ c = T[p].items[k].nodeId
                /\ (i < n - 1 => was(i + 1) = IF k + 1 = j THEN j + 1 ELSE k + 1)
                /\ (~(i < n - 1) => IF j = n THEN k + 1 = j /\ j # 1 ELSE k = n)
            BY <5>0, <3>w
          <5>2. /\ c \in DOMAIN S /\ T[c].nextSibling = nextKey(T, p, k).nodeId
                /\ S[c].nextSibling = IF T[c].nextSibling = d
                                      THEN T[d].nextSibling ELSE T[c].nextSibling
            BY <5>1, <3>c, <3>p, <3>pn, <3>n
          <5>3. CASE k + 1 = j
            <6>1. k < n /\ nextKey(T, p, k) = T[p].items[j]
              BY <5>1, <5>3, <3>m, <3>n DEF nextKey
            <6>2. S[c].nextSibling = nextKey(T, p, j).nodeId
              BY <5>2, <6>1, <3>p, <3>d
            <6>3. CASE i < n - 1
              <7>1. i + 1 \in 1 .. n - 1 /\ was(i + 1) = j + 1
                BY <6>3, <5>1, <5>3, <3>m
              <7>2. j + 1 \in 1 .. n
                BY <7>1, <3>w
              <7>3. j < n
                BY <7>2, <3>m
              <7>4. nextKey(S, p, i) = T[p].items[j + 1]
                BY <6>3, <7>1, <3>w, <3>j DEF nextKey
              <7>5. nextKey(T, p, j) = T[p].items[j + 1]
                BY <7>3, <3>n DEF nextKey
              <7> QED
                BY <5>0, <6>2, <7>4, <7>5
            <6>4. CASE ~(i < n - 1)
              <7>1. j = n /\ j # 1
                BY <6>4, <5>1, <5>3, <3>m
              <7>2. ~(j < n)
                BY <7>1, <3>m
              <7>3. nextKey(T, p, j) = firstKey(T, T[p].nextSibling)
                    /\ nextKey(S, p, i) = firstKey(S, T[p].nextSibling)
                BY <7>2, <6>4, <3>n, <3>j, <3>pn DEF nextKey
              <7>4. firstKey(S, T[p].nextSibling) = firstKey(T, T[p].nextSibling)
                BY <3>f, <3>ns, <3>s, <3>p, <3>pn
              <7> QED
                BY <5>0, <6>2, <7>3, <7>4
            <6> QED
              BY <6>3, <6>4
          <5>4. CASE k + 1 # j /\ i < n - 1
            <6>1. i + 1 \in 1 .. n - 1 /\ was(i + 1) = k + 1
              BY <5>4, <5>1, <3>m
            <6>2. k + 1 \in 1 .. n /\ S[p].items[i + 1] = T[p].items[k + 1]
              BY <6>1, <3>w
            <6>3. k < n
              BY <6>2, <5>1, <3>m
            <6>4. nextKey(T, p, k) = T[p].items[k + 1] /\ nextKey(S, p, i) = T[p].items[k + 1]
              BY <6>2, <6>3, <5>4, <3>n, <3>j DEF nextKey
            <6>5. T[p].items[k + 1].nodeId # d
              BY <6>2, <5>4, <3>c, <3>p, <3>pn, <3>n
            <6> QED
              BY <5>0, <5>2, <6>4, <6>5
          <5>5. CASE k + 1 # j /\ ~(i < n - 1)
            <6>1. k = n /\ ~(k < n)
              BY <5>5, <5>1, <3>m
            <6>2. nextKey(T, p, k) = firstKey(T, T[p].nextSibling)
                  /\ nextKey(S, p, i) = firstKey(S, S[p].nextSibling)
              BY <6>1, <5>5, <3>n, <3>j DEF nextKey
            <6> QED
              BY <5>0, <5>2, <6>2, <3>e, <3>p, <3>pn
          <5> QED
            BY <5>3, <5>4, <5>5
        <4> QED
          BY <4>1, <3>pd DEF AdjacentAt
      <3>4. ASSUME NEW id \in DOMAIN S, h2[id] > l + 1
            PROVE  OrderedAt(S, id)
        <4>1. h2[id] \in Nat
          BY NodeFacts
        <4>2. h2[id] > l
          BY <4>1, <3>4, <1>l
        <4>3. id \in DOMAIN T /\ h[id] > l /\ h2[id] = h[id] /\ h[id] > l + 1
          BY <3>u, <3>4, <4>2
        <4>4. id # p /\ T[id].nextSibling # p
          <5>1. T[id].nextSibling # 0 => h[T[id].nextSibling] = h[id]
            BY <4>3, <3>s
          <5> QED
            BY <5>1, <4>3, <3>p, <1>l, <2>2
        <4>5. S[id].items = T[id].items
          BY <1>k, <4>3, <4>4
        <4>6. firstKey(S, S[id].nextSibling) = firstKey(T, T[id].nextSibling)
          <5>1. PICK y : y = T[id].nextSibling
            OBVIOUS
          <5>2. S[id].nextSibling = y /\ (y = 0 \/ (y \in DOMAIN T /\ h[y] > l)) /\ y # p
            BY <5>1, <3>s, <4>3, <4>4
          <5> QED
            BY <5>1, <5>2, <3>f
        <4>7. \A i : nextKey(S, id, i) = nextKey(T, id, i)
          BY <4>5, <4>6, KeptNextKey
        <4>8. OrderedAt(T, id)
          BY <4>3 DEF Structure
        <4> QED
          BY <4>5, <4>7, <4>8 DEF OrderedAt
      <3>5. ASSUME NEW a \in DOMAIN S, NEW b \in DOMAIN S, h2[a] = h2[b], h2[a] > l
            PROVE  ParentsAgree(S, a, b)
        <4> DEFINE from(id, i) == IF id = p THEN was(i) ELSE i
        <4>1. ASSUME NEW id \in DOMAIN S, h2[id] > l, NEW i \in DOMAIN S[id].items
              PROVE  /\ id \in DOMAIN T /\ from(id, i) \in 1 .. Len(T[id].items)
                     /\ S[id].items[i] = T[id].items[from(id, i)]
          <5>1. id \in DOMAIN T /\ h[id] > l
            BY <4>1, <3>u
          <5>2. CASE id = p
            BY <5>1, <5>2, <3>pd, <3>w, <3>n
          <5>3. CASE id # p
            BY <5>1, <5>3, <1>k, <1>s, NodeFacts
          <5> QED
            BY <5>2, <5>3
        <4>2. ASSUME NEW id \in DOMAIN S, NEW i \in DOMAIN S[id].items,
                     NEW k \in DOMAIN S[id].items, from(id, i) = from(id, k)
              PROVE  i = k
          BY <4>2, <3>pd, <3>w1
        <4> HIDE DEF from
        <4>3. SUFFICES ASSUME NEW i \in DOMAIN S[a].items, NEW k \in DOMAIN S[b].items,
                              S[a].items[i].nodeId = S[b].items[k].nodeId,
                              S[a].items[i].nodeId # 0
                       PROVE  a = b /\ i = k
          BY DEF ParentsAgree
        <4>4. /\ a \in DOMAIN T /\ from(a, i) \in 1 .. Len(T[a].items)
              /\ S[a].items[i] = T[a].items[from(a, i)]
              /\ b \in DOMAIN T /\ from(b, k) \in 1 .. Len(T[b].items)
              /\ S[b].items[k] = T[b].items[from(b, k)]
          BY <4>1, <4>3, <3>5
        <4>5. T[a].items[from(a, i)].nodeId = T[b].items[from(b, k)].nodeId
              /\ T[b].items[from(b, k)].nodeId # 0
          BY <4>3, <4>4
        <4>6. a = b /\ from(a, i) = from(b, k)
          BY <1>s, <4>4, <4>5, OtherChild
        <4> QED
          BY <4>2, <4>6
      <3> QED
        BY <1>lk, <3>1, <3>2, <3>3, <3>4, <3>5 DEF Upper
    <2> QED
      BY <2>1, <2>2
  <1> QED
    BY <1>u DEF l

-----------------------------------------------------------------------------
(* Nothing changes above.                                                  *)
NodesKept(T, S, h, l) ==
    /\ DOMAIN S = DOMAIN T
    /\ \A id \in DOMAIN T :
          /\ S[id].nextSibling = T[id].nextSibling
          /\ S[id].prevSibling = T[id].prevSibling
          /\ h[id] > l => S[id].items = T[id].items

LEMMA UpperKept ==
    ASSUME NEW T, NEW S, NEW h, NEW l \in Nat, Structure(T, h, 0), Stored(S, h),
           NodesKept(T, S, h, l)
    PROVE  Upper(S, h, l)
  <1>s. Stored(T, h) /\ OneParent(T)
    BY DEF Structure
  <1>a. DOMAIN S = DOMAIN T
    BY DEF NodesKept
  <1>b. ASSUME NEW id \in DOMAIN T
        PROVE  /\ S[id].nextSibling = T[id].nextSibling
               /\ S[id].prevSibling = T[id].prevSibling
               /\ h[id] > l => S[id].items = T[id].items
               /\ h[id] \in Nat
               /\ DOMAIN T[id].items = 1 .. Len(T[id].items)
    BY <1>s, NodeFacts DEF NodesKept
  <1>c. ASSUME NEW id \in DOMAIN T
        PROVE  /\ LinkedAt(T, h, id)
               /\ LevelsAt(T, h, id)
               /\ AdjacentAt(T, h, id)
               /\ OrderedAt(T, id)
    BY DEF Structure
  <1>1. ASSUME NEW id \in DOMAIN S PROVE LinkedAt(S, h, id)
    BY <1>a, <1>b, <1>c DEF LinkedAt
  <1>2. ASSUME NEW id \in DOMAIN T, h[id] > l
        PROVE  \A i : nextKey(S, id, i) = nextKey(T, id, i)
    <2>1. PICK y : y = T[id].nextSibling
      OBVIOUS
    <2>2. y = 0 \/ (y \in DOMAIN T /\ h[y] > l)
      BY <2>1, <1>2, <1>c DEF LinkedAt
    <2>3. firstKey(S, y) = firstKey(T, y)
      BY <2>2, <1>b DEF firstKey
    <2>4. S[id].items = T[id].items
      BY <1>2, <1>b
    <2> QED
      BY <2>1, <2>3, <2>4, <1>b, KeptNextKey
  <1>3. ASSUME NEW id \in DOMAIN S, h[id] > l
        PROVE  LevelsAt(S, h, id) /\ AdjacentAt(S, h, id) /\ OrderedAt(S, id)
    <2>1. id \in DOMAIN T /\ S[id].items = T[id].items
      BY <1>a, <1>b, <1>3
    <2>2. \A i : nextKey(S, id, i) = nextKey(T, id, i)
      BY <1>2, <1>3, <2>1
    <2>3. OrderedAt(S, id)
      BY <1>c, <2>1, <2>2 DEF OrderedAt
    <2>4. LevelsAt(S, h, id)
      BY <1>a, <1>c, <2>1 DEF LevelsAt
    <2>5. h[id] # 0 /\ h[id] > 0
      BY <1>b, <1>3, <2>1
    <2>6. \A i \in DOMAIN T[id].items : T[id].items[i].nodeId \in DOMAIN T
      BY <1>c, <2>1, <2>5 DEF LevelsAt
    <2>7. AdjacentAt(S, h, id)
      BY <1>b, <1>c, <2>1, <2>2, <2>5, <2>6 DEF AdjacentAt
    <2> QED
      BY <2>3, <2>4, <2>7
  <1>4. ASSUME NEW p \in DOMAIN S, NEW q \in DOMAIN S, h[p] = h[q], h[p] > l
        PROVE  ParentsAgree(S, p, q)
    BY <1>a, <1>b, <1>s, <1>4 DEF ParentsAgree, OneParent
  <1>5. \A id \in DOMAIN S : h[id] > l + 1 => h[id] > l
    BY <1>a, <1>b
  <1> QED
    BY <1>1, <1>3, <1>4, <1>5 DEF Upper

-----------------------------------------------------------------------------
(* An empty node is dropped: nothing changes below.                        *)
EmptyDropped(T, S, h, h2, d) ==
    /\ NodeDropped(T, S, h, h2, d)
    /\ T[d].items = <<>> /\ T[d].nextSibling = 0
    /\ \A id \in DOMAIN S : h[id] <= h[d] => S[id].items = T[id].items

LEMMA LowerDropped ==
    ASSUME NEW T, NEW S, NEW h, NEW h2, Structure(T, h, 0), Stored(S, h2),
           NEW d, EmptyDropped(T, S, h, h2, d)
    PROVE  Lower(S, h2, h[d])
  <1>s. Stored(T, h) /\ OneParent(T)
    BY DEF Structure
  <1>a. DOMAIN S = DOMAIN T \ {d} /\ d \in DOMAIN T /\ T[d].items = <<>>
        /\ T[d].nextSibling = 0
    BY DEF EmptyDropped, NodeDropped
  <1>b. ASSUME NEW id \in DOMAIN S
        PROVE  /\ id \in DOMAIN T /\ id # d
               /\ h2[id] = h[id] /\ h[id] \in Nat
               /\ h[id] <= h[d] => S[id].items = T[id].items
               /\ S[id].nextSibling = IF T[id].nextSibling = d THEN 0 ELSE T[id].nextSibling
               /\ DOMAIN T[id].items = 1 .. Len(T[id].items)
    BY <1>a, <1>s, NodeFacts DEF EmptyDropped, NodeDropped
  <1>c. ASSUME NEW id \in DOMAIN T
        PROVE  /\ LinkedAt(T, h, id)
               /\ LevelsAt(T, h, id)
               /\ AdjacentAt(T, h, id)
               /\ OrderedAt(T, id)
    BY DEF Structure
  <1>d. h[d] \in Nat /\ Len(T[d].items) = 0
    BY <1>a, <1>s, NodeFacts
  <1>1. ASSUME NEW id \in DOMAIN S, h[id] <= h[d]
        PROVE  \A i : nextKey(S, id, i) = nextKey(T, id, i)
    <2>1. PICK y : y = T[id].nextSibling
      OBVIOUS
    <2>2. y = 0 \/ (y \in DOMAIN T /\ h[y] <= h[d])
      BY <2>1, <1>1, <1>b, <1>c DEF LinkedAt
    <2>3. firstKey(S, S[id].nextSibling) = firstKey(T, y)
      <3>1. CASE y = d
        BY <3>1, <2>1, <1>b, <1>d DEF firstKey
      <3>2. CASE y # d
        <4>1. y = 0 \/ (y \in DOMAIN S /\ S[y].items = T[y].items)
          BY <2>2, <3>2, <1>a, <1>b
        <4> QED
          BY <4>1, <3>2, <2>1, <1>b DEF firstKey
      <3> QED
        BY <3>1, <3>2
    <2>4. S[id].items = T[id].items
      BY <1>1, <1>b
    <2> QED
      BY <2>1, <2>3, <2>4, <1>b, KeptNextKey
  <1>2. ASSUME NEW id \in DOMAIN S, h2[id] <= h[d]
        PROVE  LevelsAt(S, h2, id) /\ AdjacentAt(S, h2, id) /\ OrderedAt(S, id)
    <2>1. id \in DOMAIN T /\ S[id].items = T[id].items /\ h2[id] = h[id] /\ h[id] <= h[d]
      BY <1>b, <1>2
    <2>2. \A i : nextKey(S, id, i) = nextKey(T, id, i)
      BY <1>1, <2>1
    <2>3. OrderedAt(S, id)
      BY <1>c, <2>1, <2>2 DEF OrderedAt
    <2>4. ASSUME h[id] # 0, NEW i \in DOMAIN T[id].items, NEW c, c = T[id].items[i].nodeId
          PROVE  /\ c \in DOMAIN S /\ h2[c] = h[id] - 1
                 /\ S[c].nextSibling = T[c].nextSibling
                 /\ T[c].nextSibling = nextKey(T, id, i).nodeId
      <3>1. c \in DOMAIN T /\ h[c] = h[id] - 1
        BY <1>c, <2>1, <2>4 DEF LevelsAt
      <3>2. h[c] # h[d]
        BY <1>b, <1>d, <2>1, <3>1
      <3>3. T[c].nextSibling # d
        BY <1>c, <1>a, <1>s, <3>1, <3>2 DEF LinkedAt, Stored
      <3>4. c \in DOMAIN S
        BY <3>1, <3>2, <1>a
      <3>5. h[id] > 0
        BY <1>b, <2>4
      <3> QED
        BY <1>b, <1>c, <2>1, <2>4, <3>1, <3>3, <3>4, <3>5 DEF AdjacentAt
    <2>5. LevelsAt(S, h2, id)
      BY <1>c, <2>1, <2>4 DEF LevelsAt
    <2>6. AdjacentAt(S, h2, id)
      <3>1. h[id] > 0 => h[id] # 0
        OBVIOUS
      <3> QED
        BY <2>1, <2>2, <2>4, <3>1 DEF AdjacentAt
    <2> QED
      BY <2>3, <2>5, <2>6
  <1>3. ASSUME NEW p \in DOMAIN S, NEW q \in DOMAIN S, h2[p] = h2[q], h2[p] <= h[d]
        PROVE  ParentsAgree(S, p, q)
    <2>1. /\ p \in DOMAIN T /\ S[p].items = T[p].items
          /\ q \in DOMAIN T /\ S[q].items = T[q].items
      BY <1>b, <1>3
    <2> QED
      BY <1>s, <2>1 DEF ParentsAgree, OneParent
  <1> QED
    BY <1>2, <1>3 DEF Lower

LEMMA LeavesDropped ==
    ASSUME NEW T, NEW S, NEW h, NEW h2, Stored(T, h),
           NEW d, EmptyDropped(T, S, h, h2, d), NEW item
    PROVE  InLeaf(T, h, item) <=> InLeaf(S, h2, item)
  <1>a. DOMAIN S = DOMAIN T \ {d} /\ d \in DOMAIN T /\ T[d].items = <<>>
    BY DEF EmptyDropped, NodeDropped
  <1>b. ASSUME NEW id \in DOMAIN S
        PROVE  h2[id] = h[id] /\ (h[id] <= h[d] => S[id].items = T[id].items)
    BY DEF EmptyDropped, NodeDropped
  <1>c. h[d] \in Nat /\ DOMAIN T[d].items = {}
    <2>1. h[d] \in Nat /\ DOMAIN T[d].items = 1 .. Len(T[d].items) /\ Len(T[d].items) = 0
      BY <1>a, NodeFacts
    <2> QED
      BY <2>1
  <1>1. \A id \in DOMAIN S : h[id] = 0 => h[id] <= h[d]
    BY <1>c
  <1>2. ASSUME InLeaf(T, h, item) PROVE InLeaf(S, h2, item)
    <2>1. PICK id \in DOMAIN T :
              h[id] = 0 /\ \E i \in DOMAIN T[id].items : T[id].items[i].item = item
      BY <1>2 DEF InLeaf
    <2>2. id # d
      BY <2>1, <1>c
    <2>3. id \in DOMAIN S /\ h2[id] = 0 /\ S[id].items = T[id].items
      BY <1>a, <1>b, <1>1, <2>1, <2>2
    <2> QED
      BY <2>1, <2>3 DEF InLeaf
  <1>3. ASSUME InLeaf(S, h2, item) PROVE InLeaf(T, h, item)
    <2>1. PICK id \in DOMAIN S :
              h2[id] = 0 /\ \E i \in DOMAIN S[id].items : S[id].items[i].item = item
      BY <1>3 DEF InLeaf
    <2>3. id \in DOMAIN T /\ h[id] = 0 /\ S[id].items = T[id].items
      BY <1>a, <1>b, <1>1, <2>1
    <2> QED
      BY <2>1, <2>3 DEF InLeaf
  <1> QED
    BY <1>2, <1>3

(* What the other nodes record of their children does not change.          *)
LEMMA ExactDropped ==
    ASSUME NEW T, NEW N, NEW h, Stored(T, h), \A id \in DOMAIN T : LevelsAt(T, h, id),
           NEW p, Exact(T, p), NEW d \in DOMAIN T, DOMAIN N = DOMAIN T \ {d},
           \A id \in DOMAIN N :
               /\ N[id].items = T[id].items
               /\ N[id].accumCount = T[id].accumCount
               /\ N[id].accum = T[id].accum
               /\ N[id].nextSibling # 0 => T[id].nextSibling # 0
               /\ id # p => \A i \in DOMAIN T[id].items : T[id].items[i].nodeId # d
    PROVE  Exact(N, p)
  <1>1. ASSUME NEW id \in DOMAIN N
        PROVE  Sized(N[id])
    BY <1>1 DEF Exact, Sized
  <1>2. ASSUME NEW id \in DOMAIN N, id # p
        PROVE  /\ KeysFirst(N, N[id].items, {})
               /\ N[id].accumCount = countOfAll(N, N[id].items)
               /\ N[id].accum = accumOfAll(N, N[id].items)
    <2>0. PICK keys : keys = T[id].items
      OBVIOUS
    <2>1. ASSUME NEW i \in DOMAIN keys, NEW c, c = keys[i].nodeId, c # 0
          PROVE  /\ N[c].accumCount = T[c].accumCount
                 /\ N[c].accum = T[c].accum
                 /\ N[c].items = T[c].items
      <3>1. c \in DOMAIN T
        BY <2>0, <2>1, <1>2 DEF LevelsAt
      <3>2. c # d
        BY <2>0, <2>1, <1>2
      <3> QED
        BY <3>1, <3>2
    <2>2. countOfAll(N, keys) = countOfAll(T, keys) /\ accumOfAll(N, keys) = accumOfAll(T, keys)
      BY <2>1, SameCounts
    <2>3. N[id].items = keys
      BY <1>2, <2>0
    <2>4. /\ KeysFirst(T, keys, {})
          /\ T[id].accumCount = countOfAll(T, keys)
          /\ T[id].accum = accumOfAll(T, keys)
      BY <1>2, <2>0 DEF Exact
    <2>5. KeysFirst(N, keys, {})
      BY <2>1, <2>4 DEF KeysFirst, firstItem
    <2> QED
      BY <1>2, <2>2, <2>3, <2>4, <2>5
  <1> QED
    BY <1>1, <1>2 DEF Exact

-----------------------------------------------------------------------------
(* The whole tree after nodes have been split, merged, leveled or dropped. *)

(* Nodes of the level of the group and below, its members aside.           *)
SameBelow(T, S, h, M, l) ==
    \A id \in DOMAIN T \ M : h[id] <= l => S[id].items = T[id].items

(* The structure, and the items, after a change of levels up to l.         *)
LEMMA RegroupedWhole ==
    ASSUME NEW T, NEW S, NEW h, NEW h2, Structure(T, h, 0), Stored(S, h2),
           NEW a, NEW b, NEW n, NEW a2, NEW b2, NEW n2, NEW K, NEW x,
           Group(T, a, b, n, K, x), Group(S, a2, b2, n2, K, x),
           NEW l \in Nat,
           Regrouped(T, S, h, h2, Members(a, b), Members(a2, b2), l),
           firstKey(S, x) = firstKey(T, x),
           Upper(S, h2, l),
           NEW p, \/ p \in DOMAIN S /\ h2[p] = l + 1
                  \/ p = 0 /\ \A id \in DOMAIN S : h2[id] # l + 1
    PROVE  Structure(S, h2, p) /\ \A item : InLeaf(T, h, item) <=> InLeaf(S, h2, item)
  <1>1. Lower(S, h2, l)
    <2>1. /\ Structure(T, h, 0) /\ Stored(S, h2) /\ l \in Nat
          /\ Group(T, a, b, n, K, x) /\ Group(S, a2, b2, n2, K, x)
          /\ Regrouped(T, S, h, h2, Members(a, b), Members(a2, b2), l)
          /\ firstKey(S, x) = firstKey(T, x)
      OBVIOUS
    <2>2. /\ \A id \in DOMAIN S : h2[id] <= l =>
                 LevelsAt(S, h2, id) /\ AdjacentAt(S, h2, id) /\ OrderedAt(S, id)
          /\ \A q, r \in DOMAIN S :
                 h2[q] = h2[r] /\ h2[q] <= l => ParentsAgree(S, q, r)
      BY ONLY <2>1, LowerLevels
    <2> QED
      BY <2>2 DEF Lower
  <1>2. Structure(S, h2, p)
    BY <1>1, Whole
  <1>3. Stored(T, h)
    BY DEF Structure
  <1>4. ASSUME NEW item
        PROVE  InLeaf(T, h, item) <=> InLeaf(S, h2, item)
    <2>1. /\ Stored(T, h) /\ Stored(S, h2) /\ l \in Nat
          /\ Group(T, a, b, n, K, x) /\ Group(S, a2, b2, n2, K, x)
          /\ Regrouped(T, S, h, h2, Members(a, b), Members(a2, b2), l)
      BY <1>3
    <2> QED
      BY ONLY <2>1, RegroupedLeaves
  <1> QED
    BY <1>2, <1>4

(* The last key of a group is followed by the first one of another node.   *)
LEMMA NotInGroup ==
    ASSUME NEW T, NEW h, Structure(T, h, 0),
           NEW a, NEW b, NEW n, NEW K, NEW x, Group(T, a, b, n, K, x)
    PROVE  /\ b = 0 => x # a
           /\ b # 0 => x # b
           /\ firstKey(T, a) = K[1] /\ Len(T[a].items) # 0
  <1>1. Stored(T, h) /\ \A id \in DOMAIN T : OrderedAt(T, id)
    BY DEF Structure
  <1>2. a \in DOMAIN T /\ K \in Seq(KeyType) /\ n \in 1 .. Len(K) /\ Len(T[a].items) = n
        /\ \A i \in 1 .. n : T[a].items[i] = K[i]
    BY DEF Group
  <1>3. Len(K) \in Nat /\ n > 0 /\ n # 0 /\ 1 \in 1 .. n
    BY <1>2
  <1>4. a # 0
    BY <1>1, <1>2 DEF Stored
  <1>5. firstKey(T, a) = K[1] /\ Len(T[a].items) # 0
    BY <1>2, <1>3, <1>4 DEF firstKey
  <1>6. b = 0 => x # a
    <2>1. b = 0 => T[a].nextSibling = x
      BY DEF Group
    <2>2. T[a].nextSibling # a
      BY <1>1, <1>2, <1>3, NotItsSibling
    <2> QED
      BY <2>1, <2>2
  <1>7. b # 0 => x # b
    <2>1. SUFFICES ASSUME b # 0, x = b PROVE FALSE
      OBVIOUS
    <2>2. b \in DOMAIN T /\ T[b].nextSibling = x /\ Len(T[b].items) = Len(K) - n
          /\ (n = Len(K) => x = 0)
      BY <2>1 DEF Group
    <2>3. n # Len(K)
      BY <2>1, <2>2
    <2>4. Len(K) - n > 0
      BY <1>2, <1>3, <2>3
    <2> QED
      BY <1>1, <2>1, <2>2, <2>4, NotItsSibling
  <1> QED
    BY <1>5, <1>6, <1>7

LEMMA NewFirstKey ==
    ASSUME NEW S, NEW h, Stored(S, h), NEW a, NEW b, NEW n, NEW K, NEW x,
           Group(S, a, b, n, K, x)
    PROVE  firstKey(S, a) = K[1] /\ a # 0
  <1>1. a \in DOMAIN S /\ K \in Seq(KeyType) /\ n \in 1 .. Len(K) /\ Len(S[a].items) = n
        /\ \A i \in 1 .. n : S[a].items[i] = K[i]
    BY DEF Group
  <1>2. n # 0 /\ 1 \in 1 .. n
    BY <1>1
  <1>3. a # 0
    BY <1>1 DEF Stored
  <1> QED
    BY <1>1, <1>2, <1>3 DEF firstKey

LEMMA SplitWhole ==
    ASSUME NEW T, NEW S, NEW h, NEW h2, Structure(T, h, 0), Stored(S, h2),
           NEW left, NEW right, NEW n, NEW m, NEW K, NEW x,
           Group(T, left, 0, n, K, x), Group(S, left, right, m, K, x),
           NodeAdded(T, S, h, h2, left, right),
           NEW key \in KeyType, key.nodeId = right, NEW p, NEW j,
           KeyAdded(T, S, h, left, key, p, j),
           SameBelow(T, S, h, {left}, h[left])
    PROVE  Structure(S, h2, p) /\ \A item : InLeaf(T, h, item) <=> InLeaf(S, h2, item)
  <1> DEFINE l == h[left]
  <1>a. /\ left \in DOMAIN T /\ right \notin DOMAIN T /\ right # 0
        /\ DOMAIN S = DOMAIN T \cup {right}
        /\ h2[right] = l
        /\ \A id \in DOMAIN T : h2[id] = h[id] /\ (id # left => S[id].nextSibling = T[id].nextSibling)
    BY DEF NodeAdded
  <1>s. Stored(T, h)
    BY DEF Structure
  <1>l. l \in Nat
    BY <1>a, <1>s, NodeFacts
  <1>m. Members(left, 0) = {left} /\ Members(left, right) = {left, right}
    BY <1>a DEF Members
  <1>u. Upper(S, h2, l)
    BY UpperAdded
  <1>x. x # left /\ firstKey(T, left) = K[1]
    BY NotInGroup
  <1>f. firstKey(S, left) = K[1] /\ left # 0
    BY NewFirstKey
  <1>k. T[left].nextSibling = x
    BY DEF Group
  <1>b. ASSUME NEW id \in DOMAIN T, id # left, h[id] <= l
        PROVE  S[id].items = T[id].items
    BY <1>b DEF SameBelow
  <1>w. ASSUME NEW id \in DOMAIN T
        PROVE  T[id].nextSibling # 0 =>
                   T[id].nextSibling \in DOMAIN T /\ h[T[id].nextSibling] = h[id]
    BY DEF Structure, LinkedAt
  <1>p. \/ p \in DOMAIN S /\ h2[p] = l + 1
        \/ p = 0 /\ \A id \in DOMAIN S : h2[id] # l + 1
    <2>1. CASE p = 0
      <3>1. \A id \in DOMAIN T : h[id] <= l /\ h[id] \in Nat
        BY <2>1, <1>s, NodeFacts DEF KeyAdded
      <3>2. \A id \in DOMAIN S : h2[id] <= l /\ h2[id] \in Nat
        BY <1>a, <1>l, <3>1
      <3>3. \A id \in DOMAIN S : h2[id] # l + 1
        BY <3>2, <1>l
      <3> QED
        BY <2>1, <3>3
    <2>2. CASE p # 0
      BY <1>a, <2>2 DEF KeyAdded
    <2> QED
      BY <2>1, <2>2
  <1> HIDE DEF l
  <1>y. ASSUME NEW y, y = 0 \/ (y \in DOMAIN T /\ h[y] <= l)
        PROVE  firstKey(S, y) = firstKey(T, y)
    <2>1. CASE y = left
      BY <2>1, <1>x, <1>f
    <2>2. CASE y # left
      BY <2>2, <1>y, <1>b DEF firstKey
    <2> QED
      BY <2>1, <2>2
  <1>z. \A id \in DOMAIN T : h[id] <= l =>
            T[id].nextSibling = 0 \/ (T[id].nextSibling \in DOMAIN T /\ h[T[id].nextSibling] <= l)
    BY <1>w
  <1>1. firstKey(S, x) = firstKey(T, x)
    <2>1. h[left] <= l
      BY <1>l DEF l
    <2> QED
      BY <2>1, <1>a, <1>k, <1>y, <1>z
  <1>2. Regrouped(T, S, h, h2, Members(left, 0), Members(left, right), l)
    <2>1. ASSUME NEW id \in DOMAIN T \ {left}
          PROVE  /\ h2[id] = h[id]
                 /\ h[id] <= l => S[id].items = T[id].items
                 /\ h[id] < l => S[id].nextSibling = T[id].nextSibling
                 /\ h[id] = l => firstKey(S, S[id].nextSibling)
                                     = firstKey(T, T[id].nextSibling)
      <3>1. S[id].nextSibling = T[id].nextSibling
        BY <1>a
      <3>2. h[id] = l => h[id] <= l
        BY <1>l
      <3> QED
        BY <1>a, <1>b, <1>y, <1>z, <3>1, <3>2
    <2>2. DOMAIN S \ {left, right} = DOMAIN T \ {left}
      BY <1>a
    <2>3. h[left] = l /\ h2[left] = l
      BY <1>a DEF l
    <2> QED
      BY <1>a, <1>m, <2>1, <2>2, <2>3 DEF Regrouped
  <1>3. /\ Structure(T, h, 0) /\ Stored(S, h2) /\ l \in Nat
        /\ Group(T, left, 0, n, K, x) /\ Group(S, left, right, m, K, x)
        /\ Regrouped(T, S, h, h2, Members(left, 0), Members(left, right), l)
        /\ firstKey(S, x) = firstKey(T, x)
        /\ Upper(S, h2, l)
        /\ \/ p \in DOMAIN S /\ h2[p] = l + 1
           \/ p = 0 /\ \A id \in DOMAIN S : h2[id] # l + 1
    BY <1>1, <1>2, <1>l, <1>u, <1>p
  <1> QED
    BY ONLY <1>3, RegroupedWhole

(* Leaves with the same items. *)
LeavesAgree(T, S, h, h2) == \A y : InLeaf(T, h, y) <=> InLeaf(S, h2, y)

LEMMA MergeWhole ==
    ASSUME NEW T, NEW S, NEW h, NEW h2, Structure(T, h, 0), Stored(S, h2),
           NEW left, NEW right, right # 0, NEW d \in {left, right}, NEW to \in {left, right}, to # d,
           NEW n, NEW K, NEW x,
           Group(T, left, right, n, K, x), Group(S, to, 0, Len(K), K, x),
           NodeDropped(T, S, h, h2, d), NEW p, NEW j,
           KeyDropped(T, S, h, d, p, j),
           SameBelow(T, S, h, {left, right}, h[d])
    PROVE  Structure(S, h2, p) /\ LeavesAgree(T, S, h, h2)
  <1> DEFINE l == h[d]
  <1>a. /\ d \in DOMAIN T /\ DOMAIN S = DOMAIN T \ {d}
        /\ \A id \in DOMAIN S :
              /\ h2[id] = h[id]
              /\ S[id].nextSibling = IF T[id].nextSibling = d THEN T[d].nextSibling
                                     ELSE T[id].nextSibling
    BY DEF NodeDropped
  <1>s. Stored(T, h)
    BY DEF Structure
  <1>l. l \in Nat
    BY <1>a, <1>s, NodeFacts
  <1>g. /\ left \in DOMAIN T /\ right \in DOMAIN T /\ left # right
        /\ T[left].nextSibling = right /\ T[right].nextSibling = x
    BY DEF Group
  <1>k. ASSUME NEW id \in DOMAIN T
        PROVE  /\ T[id].nextSibling # 0 =>
                      T[id].nextSibling \in DOMAIN T /\ h[T[id].nextSibling] = h[id]
                      /\ T[T[id].nextSibling].prevSibling = id
    BY DEF Structure, LinkedAt
  <1>h. h[left] = l /\ h[right] = l
    BY <1>g, <1>k
  <1>m. Members(left, right) = {left, right} /\ Members(to, 0) = {to}
    BY DEF Members
  <1>u. Upper(S, h2, l)
    BY UpperDropped
  <1>x. x # right /\ firstKey(T, left) = K[1]
    BY NotInGroup
  <1>f. firstKey(S, to) = K[1] /\ to # 0
    BY NewFirstKey
  <1>b. ASSUME NEW id \in DOMAIN T, id \notin {left, right}, h[id] <= l
        PROVE  S[id].items = T[id].items
    BY <1>b DEF SameBelow
  <1>p. \/ p \in DOMAIN S /\ h2[p] = l + 1
        \/ p = 0 /\ \A id \in DOMAIN S : h2[id] # l + 1
    <2>1. CASE p = 0
      <3>1. \A id \in DOMAIN T : h[id] <= l /\ h[id] \in Nat
        BY <2>1, <1>s, NodeFacts DEF KeyDropped
      <3>2. \A id \in DOMAIN S : h2[id] <= l /\ h2[id] \in Nat
        BY <1>a, <1>l, <3>1
      <3>3. \A id \in DOMAIN S : h2[id] # l + 1
        BY <3>2, <1>l
      <3> QED
        BY <2>1, <3>3
    <2>2. CASE p # 0
      <3>1. p \in DOMAIN T /\ h[p] = l + 1
        BY <2>2 DEF KeyDropped
      <3>2. p # d
        BY <3>1, <1>l
      <3> QED
        BY <1>a, <3>1, <3>2
    <2> QED
      BY <2>1, <2>2
  <1> HIDE DEF l
  <1>xs. x # d
    <2>1. CASE d = right
      BY <1>x, <2>1
    <2>2. CASE d = left
      <3>1. to = right
        BY <2>2
      <3>2. S[to].nextSibling = x
        BY DEF Group
      <3>3. to \in DOMAIN S
        BY <3>1, <2>2, <1>a, <1>g
      <3>4. LinkedAt(S, h2, to)
        BY <1>u, <3>3 DEF Upper
      <3>5. x # 0 => x \in DOMAIN S
        BY <3>2, <3>4 DEF LinkedAt
      <3> QED
        BY <3>5, <1>a, <1>s DEF Stored
    <2> QED
      BY <2>1, <2>2
  <1>1. firstKey(S, x) = firstKey(T, x)
    <2>1. CASE x = left
      BY <2>1, <1>xs, <1>x, <1>f
    <2>2. CASE x # left
      <3>1. x = 0 \/ (x \in DOMAIN T /\ h[x] <= l)
        BY <1>g, <1>h, <1>k, <1>l
      <3> QED
        BY <2>2, <3>1, <1>x, <1>b DEF firstKey
    <2> QED
      BY <2>1, <2>2
  <1>2. Regrouped(T, S, h, h2, Members(left, right), Members(to, 0), l)
    <2>1. ASSUME NEW id \in DOMAIN T \ {left, right}
          PROVE  /\ h2[id] = h[id]
                 /\ h[id] <= l => S[id].items = T[id].items
                 /\ h[id] < l => S[id].nextSibling = T[id].nextSibling
                 /\ h[id] = l => firstKey(S, S[id].nextSibling)
                                     = firstKey(T, T[id].nextSibling)
      <3>1. id \in DOMAIN S /\ h2[id] = h[id] /\ h[id] \in Nat
        BY <1>a, <1>s, NodeFacts
      <3>2. PICK y : y = T[id].nextSibling
        OBVIOUS
      <3>3. y # 0 => y \in DOMAIN T /\ h[y] = h[id] /\ T[y].prevSibling = id
        BY <1>k, <3>2
      <3>4. y # right
        <4>1. right # 0 => T[right].prevSibling = left
          BY <1>g, <1>k
        <4> QED
          BY <4>1, <3>3
      <3>5. h[id] < l => S[id].nextSibling = T[id].nextSibling
        <4>1. h[id] < l => y # d
          BY <3>1, <3>3, <1>l, <1>a, <1>s DEF l, Stored
        <4> QED
          BY <4>1, <3>1, <3>2, <1>a
      <3>6. ASSUME h[id] = l PROVE firstKey(S, S[id].nextSibling) = firstKey(T, y)
        <4>1. CASE y = left
          <5>1. S[id].nextSibling = to
            BY <4>1, <3>1, <3>2, <1>a, <1>g
          <5> QED
            BY <4>1, <5>1, <1>x, <1>f
        <4>2. CASE y # left
          <5>1. S[id].nextSibling = y
            BY <4>2, <3>1, <3>2, <3>4, <1>a
          <5>2. y = 0 \/ (y \in DOMAIN T /\ h[y] <= l)
            BY <3>3, <3>6, <1>l
          <5> QED
            BY <4>2, <3>4, <5>1, <5>2, <1>b DEF firstKey
        <4> QED
          BY <4>1, <4>2
      <3> QED
        BY <1>b, <3>1, <3>2, <3>5, <3>6
    <2>2. DOMAIN S \ {to} = DOMAIN T \ {left, right}
      BY <1>a, <1>g
    <2>3. to \in DOMAIN S /\ h2[to] = l
      BY <1>a, <1>g, <1>h
    <2> QED
      BY <1>g, <1>h, <1>m, <2>1, <2>2, <2>3 DEF Regrouped
  <1>3. /\ Structure(T, h, 0) /\ Stored(S, h2) /\ l \in Nat
        /\ Group(T, left, right, n, K, x) /\ Group(S, to, 0, Len(K), K, x)
        /\ Regrouped(T, S, h, h2, Members(left, right), Members(to, 0), l)
        /\ firstKey(S, x) = firstKey(T, x)
        /\ Upper(S, h2, l)
        /\ \/ p \in DOMAIN S /\ h2[p] = l + 1
           \/ p = 0 /\ \A id \in DOMAIN S : h2[id] # l + 1
    BY <1>1, <1>2, <1>l, <1>u, <1>p
  <1>4. Structure(S, h2, p) /\ \A item : InLeaf(T, h, item) <=> InLeaf(S, h2, item)
    BY ONLY <1>3, RegroupedWhole
  <1> QED
    BY <1>4 DEF LeavesAgree

LEMMA RebalanceWhole ==
    ASSUME NEW T, NEW S, NEW h, Structure(T, h, 0), Stored(S, h),
           NEW left, NEW right, right # 0, NEW n, NEW m, NEW K, NEW x,
           Group(T, left, right, n, K, x), Group(S, left, right, m, K, x),
           NodesKept(T, S, h, h[left]),
           SameBelow(T, S, h, {left, right}, h[left]),
           NEW p \in DOMAIN T, h[p] = h[left] + 1
    PROVE  Structure(S, h, p) /\ LeavesAgree(T, S, h, h)
  <1> DEFINE l == h[left]
  <1>a. /\ DOMAIN S = DOMAIN T
        /\ \A id \in DOMAIN T : S[id].nextSibling = T[id].nextSibling
    BY DEF NodesKept
  <1>s. Stored(T, h)
    BY DEF Structure
  <1>g. /\ left \in DOMAIN T /\ right \in DOMAIN T /\ left # right
        /\ T[left].nextSibling = right /\ T[right].nextSibling = x
    BY DEF Group
  <1>l. l \in Nat
    BY <1>g, <1>s, NodeFacts
  <1>k. ASSUME NEW id \in DOMAIN T
        PROVE  /\ T[id].nextSibling # 0 =>
                      T[id].nextSibling \in DOMAIN T /\ h[T[id].nextSibling] = h[id]
                      /\ T[T[id].nextSibling].prevSibling = id
    BY DEF Structure, LinkedAt
  <1>h. h[left] = l /\ h[right] = l
    BY <1>g, <1>k
  <1>m. Members(left, right) = {left, right}
    BY DEF Members
  <1>u. Upper(S, h, l)
    BY <1>l, UpperKept
  <1>x. x # right /\ firstKey(T, left) = K[1]
    BY NotInGroup
  <1>f. firstKey(S, left) = K[1] /\ left # 0
    BY NewFirstKey
  <1>b. ASSUME NEW id \in DOMAIN T, id \notin {left, right}, h[id] <= l
        PROVE  S[id].items = T[id].items
    BY <1>b DEF SameBelow
  <1>p. p \in DOMAIN S /\ h[p] = l + 1
    BY <1>a
  <1> HIDE DEF l
  <1>y. ASSUME NEW y, y = 0 \/ (y \in DOMAIN T /\ h[y] <= l), y # right
        PROVE  firstKey(S, y) = firstKey(T, y)
    <2>1. CASE y = left
      BY <2>1, <1>x, <1>f
    <2>2. CASE y # left
      BY <2>2, <1>y, <1>b DEF firstKey
    <2> QED
      BY <2>1, <2>2
  <1>1. firstKey(S, x) = firstKey(T, x)
    <2>1. x = 0 \/ (x \in DOMAIN T /\ h[x] <= l)
      BY <1>g, <1>h, <1>k, <1>l
    <2> QED
      BY <2>1, <1>x, <1>y
  <1>2. Regrouped(T, S, h, h, Members(left, right), Members(left, right), l)
    <2>1. ASSUME NEW id \in DOMAIN T \ {left, right}, h[id] = l
          PROVE  firstKey(S, S[id].nextSibling) = firstKey(T, T[id].nextSibling)
      <3>1. T[right].prevSibling = left
        BY <1>g, <1>k
      <3>2. T[id].nextSibling # right
        BY <1>k, <3>1
      <3>3. T[id].nextSibling = 0 \/ (T[id].nextSibling \in DOMAIN T /\ h[T[id].nextSibling] <= l)
        BY <1>k, <2>1, <1>l
      <3> QED
        BY <1>a, <1>y, <3>2, <3>3
    <2> QED
      BY <1>a, <1>b, <1>g, <1>h, <1>m, <2>1 DEF Regrouped
  <1>3. /\ Structure(T, h, 0) /\ Stored(S, h) /\ l \in Nat
        /\ Group(T, left, right, n, K, x) /\ Group(S, left, right, m, K, x)
        /\ Regrouped(T, S, h, h, Members(left, right), Members(left, right), l)
        /\ firstKey(S, x) = firstKey(T, x)
        /\ Upper(S, h, l)
        /\ p \in DOMAIN S /\ h[p] = l + 1
    BY <1>1, <1>2, <1>l, <1>u, <1>p
  <1>4. Structure(S, h, p) /\ \A item : InLeaf(T, h, item) <=> InLeaf(S, h, item)
    BY ONLY <1>3, RegroupedWhole
  <1> QED
    BY <1>4 DEF LeavesAgree

LEMMA EmptyWhole ==
    ASSUME NEW T, NEW S, NEW h, NEW h2, Structure(T, h, 0), Stored(S, h2),
           NEW d, EmptyDropped(T, S, h, h2, d), NEW p, NEW j,
           KeyDropped(T, S, h, d, p, j)
    PROVE  Structure(S, h2, p) /\ \A item : InLeaf(T, h, item) <=> InLeaf(S, h2, item)
  <1>a. /\ NodeDropped(T, S, h, h2, d)
        /\ d \in DOMAIN T /\ DOMAIN S = DOMAIN T \ {d}
        /\ \A id \in DOMAIN S : h2[id] = h[id]
    BY DEF EmptyDropped, NodeDropped
  <1>s. Stored(T, h)
    BY DEF Structure
  <1>l. h[d] \in Nat
    BY <1>a, <1>s, NodeFacts
  <1>1. Upper(S, h2, h[d])
    BY <1>a, UpperDropped
  <1>2. Lower(S, h2, h[d])
    BY LowerDropped
  <1>p. \/ p \in DOMAIN S /\ h2[p] = h[d] + 1
        \/ p = 0 /\ \A id \in DOMAIN S : h2[id] # h[d] + 1
    <2>1. CASE p = 0
      <3>1. \A id \in DOMAIN T : h[id] <= h[d] /\ h[id] \in Nat
        BY <2>1, <1>s, NodeFacts DEF KeyDropped
      <3>2. \A id \in DOMAIN S : h2[id] # h[d] + 1
        BY <1>a, <1>l, <3>1
      <3> QED
        BY <2>1, <3>2
    <2>2. CASE p # 0
      <3>1. p \in DOMAIN T /\ h[p] = h[d] + 1
        BY <2>2 DEF KeyDropped
      <3>2. p # d
        BY <3>1, <1>l
      <3> QED
        BY <1>a, <3>1, <3>2
    <2> QED
      BY <2>1, <2>2
  <1>3. Structure(S, h2, p)
    BY <1>1, <1>2, <1>l, <1>p, Whole
  <1>4. \A item : InLeaf(T, h, item) <=> InLeaf(S, h2, item)
    BY <1>s, LeavesDropped
  <1> QED
    BY <1>3, <1>4

-----------------------------------------------------------------------------
(* A tree between two calls.                                               *)
Sound(T, h, root) ==
    /\ Structure(T, h, 0)
    /\ Exact(T, 0)
    /\ Rooted(T, h, root)

SoundNode(T, h, id) ==
    /\ T[id].items \in Seq(KeyType)
    /\ Len(T[id].items) \in Nat /\ Len(T[id].items) > 0
    /\ DOMAIN T[id].items = 1 .. Len(T[id].items)
    /\ \A i \in 1 .. Len(T[id].items) :
          /\ T[id].items[i] \in KeyType
          /\ T[id].items[i].item \in Nat
          /\ T[id].items[i] # none
    /\ h[id] \in Nat /\ id # 0
    /\ Ascends(T[id].items)
    /\ LinkedAt(T, h, id) /\ OrderedAt(T, id)
    /\ LevelsAt(T, h, id) /\ AdjacentAt(T, h, id)
    /\ KeysFirst(T, T[id].items, {})

LEMMA NodeOfSound ==
    ASSUME NEW T, NEW h, NEW root, Sound(T, h, root), NEW id \in DOMAIN T
    PROVE  SoundNode(T, h, id)
  <1>1. Stored(T, h) /\ LinkedAt(T, h, id) /\ OrderedAt(T, id)
        /\ LevelsAt(T, h, id) /\ AdjacentAt(T, h, id)
    BY DEF Sound, Structure
  <1>2. /\ T[id].items \in Seq(KeyType)
        /\ Len(T[id].items) \in Nat
        /\ DOMAIN T[id].items = 1 .. Len(T[id].items)
        /\ \A i \in 1 .. Len(T[id].items) : T[id].items[i] \in KeyType
        /\ h[id] \in Nat /\ id # 0
    BY <1>1, NodeFacts
  <1>3. Ascends(T[id].items)
    BY <1>1, NodeAscends
  <1>4. Sized(T[id]) /\ KeysFirst(T, T[id].items, {})
    BY <1>2 DEF Sound, Exact
  <1>5. Len(T[id].items) > 0
    BY <1>2, <1>4 DEF Sized
  <1>6. \A i \in 1 .. Len(T[id].items) :
            T[id].items[i].item \in Nat /\ T[id].items[i] # none
    BY <1>2, KeyParts
  <1> QED
    BY <1>1, <1>2, <1>3, <1>4, <1>5, <1>6 DEF SoundNode

ChildOf(T, h, id, i, c) ==
    /\ c \in DOMAIN T /\ c # 0
    /\ h[c] = h[id] - 1
    /\ T[id].items[i].item = firstItem(T, c)
    /\ T[c].nextSibling = nextKey(T, id, i).nodeId

LEMMA ChildOfSound ==
    ASSUME NEW T, NEW h, NEW root, Sound(T, h, root), NEW id \in DOMAIN T, h[id] # 0,
           NEW i \in 1 .. Len(T[id].items)
    PROVE  ChildOf(T, h, id, i, T[id].items[i].nodeId)
  <1>1. SoundNode(T, h, id)
    BY NodeOfSound
  <1>2. i \in DOMAIN T[id].items /\ h[id] > 0 /\ i \in DOMAIN T[id].items \ {}
    BY <1>1 DEF SoundNode
  <1>3. PICK c : c = T[id].items[i].nodeId
    OBVIOUS
  <1>4. c \in DOMAIN T /\ h[c] = h[id] - 1
    BY <1>1, <1>2, <1>3 DEF SoundNode, LevelsAt
  <1>5. c # 0
    BY <1>4, NodeOfSound DEF SoundNode
  <1>6. T[id].items[i].item = firstItem(T, c)
    BY <1>1, <1>2, <1>3, <1>5 DEF SoundNode, KeysFirst
  <1>7. T[c].nextSibling = nextKey(T, id, i).nodeId
    BY <1>1, <1>2, <1>3 DEF SoundNode, AdjacentAt
  <1> QED
    BY <1>3, <1>4, <1>5, <1>6, <1>7 DEF ChildOf

(* The sibling to the left of a child.                                     *)
LEMMA ChildPrev ==
    ASSUME NEW T, NEW h, NEW root, Sound(T, h, root), NEW id \in DOMAIN T, h[id] # 0,
           NEW i \in 1 .. Len(T[id].items), NEW c, c = T[id].items[i].nodeId
    PROVE  T[c].prevSibling = 0 <=> i = 1 /\ T[id].prevSibling = 0
  <1>s. Stored(T, h) /\ OneParent(T) /\ Rooted(T, h, root)
    BY DEF Sound, Structure
  <1>c. ChildOf(T, h, id, i, c)
    BY ChildOfSound
  <1>n. SoundNode(T, h, id)
    BY NodeOfSound
  <1>1. ASSUME i # 1
        PROVE  T[c].prevSibling # 0
    <2>1. i - 1 \in 1 .. Len(T[id].items) /\ i - 1 < Len(T[id].items) /\ (i - 1) + 1 = i
      BY <1>1, <1>n DEF SoundNode
    <2>2. PICK b : b = T[id].items[i - 1].nodeId
      OBVIOUS
    <2>3. ChildOf(T, h, id, i - 1, b)
      BY <2>1, <2>2, ChildOfSound
    <2>4. nextKey(T, id, i - 1) = T[id].items[i]
      BY <2>1 DEF nextKey
    <2>5. T[b].nextSibling = c /\ b \in DOMAIN T /\ b # 0 /\ c # 0
      BY <2>3, <2>4, <1>c DEF ChildOf
    <2>6. LinkedAt(T, h, b)
      BY <2>5, NodeOfSound DEF SoundNode
    <2> QED
      BY <2>5, <2>6 DEF LinkedAt
  <1>2. ASSUME i = 1, T[id].prevSibling # 0
        PROVE  T[c].prevSibling # 0
    <2>1. PICK w : w = T[id].prevSibling
      OBVIOUS
    <2>2. w \in DOMAIN T /\ h[w] = h[id] /\ T[w].nextSibling = id
      BY <1>2, <1>n, <2>1 DEF SoundNode, LinkedAt
    <2>3. SoundNode(T, h, w)
      BY <2>2, NodeOfSound
    <2>4. PICK n : n = Len(T[w].items)
      OBVIOUS
    <2>5. n \in 1 .. Len(T[w].items) /\ ~(n < Len(T[w].items))
      BY <2>3, <2>4 DEF SoundNode
    <2>6. PICK b : b = T[w].items[n].nodeId
      OBVIOUS
    <2>7. ChildOf(T, h, w, n, b)
      BY <2>2, <2>5, <2>6, ChildOfSound
    <2>8. nextKey(T, w, n) = T[id].items[1]
      <3>1. id # 0 /\ Len(T[id].items) # 0
        BY <1>n DEF SoundNode
      <3> QED
        BY <2>2, <2>5, <3>1 DEF nextKey, firstKey
    <2>9. T[b].nextSibling = c /\ b \in DOMAIN T /\ b # 0 /\ c # 0
      BY <2>7, <2>8, <1>2, <1>c DEF ChildOf
    <2>10. LinkedAt(T, h, b)
      BY <2>9, NodeOfSound DEF SoundNode
    <2> QED
      BY <2>9, <2>10 DEF LinkedAt
  <1>3. ASSUME i = 1, T[id].prevSibling = 0, T[c].prevSibling # 0
        PROVE  FALSE
    <2>1. PICK w : w = T[c].prevSibling
      OBVIOUS
    <2>2. c \in DOMAIN T /\ c # 0 /\ h[c] = h[id] - 1
      BY <1>c DEF ChildOf
    <2>3. SoundNode(T, h, c)
      BY SMTT(30), <2>2, NodeOfSound
    <2>4. w \in DOMAIN T /\ h[w] = h[c] /\ T[w].nextSibling = c
      BY <1>3, <2>1, <2>3 DEF SoundNode, LinkedAt
    <2>5. w # root
      BY <1>s, <2>2, <2>4 DEF Rooted
    <2>6. PICK q \in DOMAIN T : \E k \in DOMAIN T[q].items : T[q].items[k].nodeId = w
      BY <1>s, <2>4, <2>5 DEF Rooted, IsChild
    <2>7. PICK k \in DOMAIN T[q].items : T[q].items[k].nodeId = w
      BY <2>6
    <2>8. SoundNode(T, h, q)
      BY NodeOfSound
    <2>9. k \in 1 .. Len(T[q].items)
      BY <2>8 DEF SoundNode
    <2>10. w # 0
      BY <2>4, NodeOfSound DEF SoundNode
    <2>11. h[q] # 0
      BY <2>7, <2>8, <2>10 DEF SoundNode, LevelsAt
    <2>12. ChildOf(T, h, q, k, w)
      BY <2>7, <2>9, <2>11, ChildOfSound
    <2>13. c = nextKey(T, q, k).nodeId
      BY <2>4, <2>12 DEF ChildOf
    <2>14. CASE k < Len(T[q].items)
      <3>1. k + 1 \in 1 .. Len(T[q].items) /\ k + 1 # 1
        BY <2>8, <2>9, <2>14 DEF SoundNode
      <3>2. T[q].items[k + 1].nodeId = c
        BY <2>13, <2>14 DEF nextKey
      <3>3. q = id /\ k + 1 = i
        BY <1>s, <2>2, <3>1, <3>2, OtherChild
      <3> QED
        BY <1>3, <3>1, <3>3
    <2>15. CASE ~(k < Len(T[q].items))
      <3>1. PICK z : z = T[q].nextSibling
        OBVIOUS
      <3>2. firstKey(T, z).nodeId = c
        BY <2>13, <2>15, <3>1 DEF nextKey
      <3>3. z # 0
        BY <3>2, <2>2 DEF firstKey, none, Key
      <3>4. z \in DOMAIN T /\ T[z].prevSibling = q
        BY <3>1, <3>3, <2>8 DEF SoundNode, LinkedAt
      <3>5. SoundNode(T, h, z)
        BY <3>4, NodeOfSound
      <3>6. 1 \in 1 .. Len(T[z].items) /\ Len(T[z].items) # 0
        BY <3>5 DEF SoundNode
      <3>7. T[z].items[1].nodeId = c
        BY <3>2, <3>3, <3>6 DEF firstKey
      <3>8. z = id
        BY <1>s, <2>2, <3>4, <3>6, <3>7, OtherChild
      <3>9. q # 0
        BY <2>8 DEF SoundNode
      <3> QED
        BY <1>3, <3>4, <3>8, <3>9
    <2> QED
      BY <2>14, <2>15
  <1> QED
    BY <1>1, <1>2, <1>3

-----------------------------------------------------------------------------
(* Where an item belongs.                                                  *)
NotLeft(T, id, item)  == firstItem(T, id) <= item \/ T[id].prevSibling = 0
NotRight(T, id, item) ==
    T[id].nextSibling # 0 => item < firstItem(T, T[id].nextSibling)
Within(T, id, item) == NotLeft(T, id, item) /\ NotRight(T, id, item)

LEMMA WithinParent ==
    ASSUME NEW T, NEW h, NEW root, Sound(T, h, root), NEW id \in DOMAIN T, h[id] # 0,
           NEW j \in 1 .. Len(T[id].items), NEW c, c = T[id].items[j].nodeId,
           NEW item \in Nat, Within(T, c, item)
    PROVE  Within(T, id, item) /\ Pointed(T[id].items, item, j - 1)
  <1>n. SoundNode(T, h, id)
    BY NodeOfSound
  <1>c. ChildOf(T, h, id, j, c)
    BY ChildOfSound
  <1>p. T[c].prevSibling = 0 <=> j = 1 /\ T[id].prevSibling = 0
    BY ChildPrev
  <1> DEFINE keys == T[id].items
  <1>0. PICK n : n = Len(keys)
    OBVIOUS
  <1>f. firstItem(T, id) = keys[1].item /\ firstItem(T, c) = keys[j].item
    BY <1>c DEF firstItem, ChildOf
  <1>k. /\ n \in Nat /\ n > 0 /\ j \in 1 .. n /\ Ascends(keys)
        /\ \A i \in 1 .. n : keys[i].item \in Nat /\ keys[i] # none
    BY <1>n, <1>0 DEF SoundNode
  <1>o. ASSUME NEW i \in 1 .. n, nextKey(T, id, i) # none
        PROVE  keys[i].item < nextKey(T, id, i).item
    BY <1>n, <1>0, <1>o DEF SoundNode, OrderedAt
  <1>w. /\ keys[j].item <= item \/ T[c].prevSibling = 0
        /\ T[c].nextSibling # 0 => item < firstItem(T, T[c].nextSibling)
    BY <1>f DEF Within, NotLeft, NotRight
  <1> HIDE DEF keys
  <1>a. \A a, b \in 1 .. n : a < b => keys[a].item < keys[b].item
    BY <1>k, <1>0 DEF Ascends
  \* the key after j
  <1>x. ASSUME j < n
        PROVE  item < keys[j + 1].item
    <2>1. j + 1 \in 1 .. n
      BY <1>x, <1>k
    <2>2. nextKey(T, id, j) = keys[j + 1]
      BY <1>x, <1>0 DEF nextKey, keys
    <2>3. ChildOf(T, h, id, j + 1, keys[j + 1].nodeId)
      BY <2>1, <1>0, ChildOfSound DEF keys
    <2>4. T[c].nextSibling = keys[j + 1].nodeId /\ keys[j + 1].nodeId # 0
      BY <2>2, <2>3, <1>c DEF ChildOf
    <2>5. firstItem(T, keys[j + 1].nodeId) = keys[j + 1].item
      BY <2>3 DEF ChildOf, keys
    <2> QED
      BY <1>w, <2>4, <2>5
  <1>1. Pointed(keys, item, j - 1)
    <2>1. j - 1 \in 0 .. Len(keys) - 1
      BY <1>0, <1>k
    <2>2. j - 1 = 0 \/ keys[(j - 1) + 1].item <= item
      <3>1. (j - 1) + 1 = j /\ (j = 1 => j - 1 = 0)
        BY <1>k
      <3> QED
        BY <3>1, <1>w, <1>p
    <2>3. ASSUME NEW i \in (j - 1) + 2 .. Len(keys)
          PROVE  item < keys[i].item
      <3>1. j < n /\ i \in 1 .. n /\ j + 1 \in 1 .. n /\ (i = j + 1 \/ j + 1 < i)
        BY <1>0, <1>k
      <3>2. item < keys[j + 1].item /\ keys[j + 1].item \in Nat /\ keys[i].item \in Nat
        BY <1>x, <1>k, <3>1
      <3>3. j + 1 < i => keys[j + 1].item < keys[i].item
        BY <1>a, <3>1
      <3> QED
        BY <3>1, <3>2, <3>3
    <2> QED
      BY <2>1, <2>2, <2>3 DEF Pointed
  <1>2. NotLeft(T, id, item)
    <2>1. CASE keys[j].item <= item
      <3>1. 1 \in 1 .. n /\ (j = 1 \/ 1 < j)
        BY <1>k
      <3>2. keys[1].item \in Nat /\ keys[j].item \in Nat
        BY <1>k, <3>1
      <3>3. 1 < j => keys[1].item < keys[j].item
        BY <1>a, <1>k, <3>1
      <3>4. keys[1].item <= item
        BY <2>1, <3>1, <3>2, <3>3
      <3> QED
        BY <3>4, <1>f DEF NotLeft
    <2>2. CASE T[c].prevSibling = 0
      BY <2>2, <1>p DEF NotLeft
    <2> QED
      BY <2>1, <2>2, <1>w
  <1>3. NotRight(T, id, item)
    <2>1. PICK z : z = T[id].nextSibling
      OBVIOUS
    <2>2. SUFFICES ASSUME z # 0 PROVE item < firstItem(T, z)
      BY <2>1 DEF NotRight
    <2>3. z \in DOMAIN T /\ h[z] = h[id]
      BY <1>n, <2>1, <2>2 DEF SoundNode, LinkedAt
    <2>4. SoundNode(T, h, z)
      BY <2>3, NodeOfSound
    <2>5. Len(T[z].items) # 0 /\ 1 \in 1 .. Len(T[z].items)
      BY <2>4 DEF SoundNode
    <2>6. firstKey(T, z) = T[z].items[1] /\ firstKey(T, z).item = firstItem(T, z)
      BY <2>2, <2>5 DEF firstKey, firstItem
    <2>7. n \in 1 .. n /\ ~(n < n)
      BY <1>k
    <2>8. nextKey(T, id, n) = firstKey(T, z)
      BY <2>1, <2>7, <1>0 DEF nextKey, keys
    <2>9. firstKey(T, z) # none /\ firstItem(T, z) \in Nat
      BY <2>4, <2>5, <2>6 DEF SoundNode
    <2>10. CASE j = n
      <3>1. ChildOf(T, h, z, 1, T[z].items[1].nodeId)
        BY <2>3, <2>5, ChildOfSound
      <3>2. T[c].nextSibling = T[z].items[1].nodeId
        BY <2>10, <2>6, <2>8, <1>c DEF ChildOf
      <3>3. T[c].nextSibling # 0 /\ firstItem(T, T[c].nextSibling) = T[z].items[1].item
        BY <3>1, <3>2 DEF ChildOf
      <3> QED
        BY <3>3, <2>6, <1>w
    <2>11. CASE j # n
      <3>1. j < n /\ j + 1 \in 1 .. n /\ (j + 1 = n \/ j + 1 < n)
        BY <2>11, <1>k
      <3>2. item < keys[j + 1].item
        BY <3>1, <1>x
      <3>3. j + 1 < n => keys[j + 1].item < keys[n].item
        BY <3>1, <2>7, <1>a
      <3>4. keys[n].item < firstItem(T, z)
        BY <2>6, <2>7, <2>8, <2>9, <1>o
      <3>5. keys[j + 1].item \in Nat /\ keys[n].item \in Nat
        BY <3>1, <2>7, <1>k
      <3> QED
        BY <3>1, <3>2, <3>3, <3>4, <3>5, <2>9
    <2> QED
      BY <2>10, <2>11
  <1> QED
    BY <1>1, <1>2, <1>3 DEF Within, keys

LEMMA NotLeftChild ==
    ASSUME NEW T, NEW h, NEW root, Sound(T, h, root), NEW id \in DOMAIN T, h[id] # 0,
           NEW j \in 1 .. Len(T[id].items), NEW c, c = T[id].items[j].nodeId,
           NEW item \in Nat, NotLeft(T, id, item), Pointed(T[id].items, item, j - 1)
    PROVE  NotLeft(T, c, item)
  <1>n. SoundNode(T, h, id)
    BY NodeOfSound
  <1>c. ChildOf(T, h, id, j, c)
    BY ChildOfSound
  <1>p. T[c].prevSibling = 0 <=> j = 1 /\ T[id].prevSibling = 0
    BY ChildPrev
  <1>f. firstItem(T, id) = T[id].items[1].item /\ firstItem(T, c) = T[id].items[j].item
    BY <1>c DEF firstItem, ChildOf
  <1>j. (j - 1) + 1 = j /\ (j - 1 = 0 => j = 1)
    BY <1>n DEF SoundNode
  <1>1. CASE T[id].items[j].item <= item
    BY <1>1, <1>f DEF NotLeft
  <1>2. CASE j = 1
    BY <1>2, <1>f, <1>p DEF NotLeft
  <1>3. j = 1 \/ T[id].items[j].item <= item
    BY <1>j DEF Pointed
  <1> QED
    BY <1>1, <1>2, <1>3

(* Every key is the item of a leaf.                                        *)
LEMMA KeyInLeaf ==
    ASSUME NEW T, NEW h, NEW root, Sound(T, h, root), NEW id \in DOMAIN T,
           NEW i \in 1 .. Len(T[id].items)
    PROVE  InLeaf(T, h, T[id].items[i].item)
  <1> DEFINE Bad == {l \in Nat : \E a \in DOMAIN T : h[a] = l
                         /\ \E k \in 1 .. Len(T[a].items) : ~InLeaf(T, h, T[a].items[k].item)}
  <1>1. SUFFICES ASSUME Bad # {} PROVE FALSE
    <2>1. h[id] \in Nat
      BY NodeOfSound DEF SoundNode
    <2> QED
      BY <1>1, <2>1
  <1>2. PICK l \in Bad : \A m \in Bad : l <= m
    <2>1. Bad \subseteq Nat
      OBVIOUS
    <2> HIDE DEF Bad
    <2> QED
      BY <1>1, <2>1, LeastNumber
  <1>3. PICK a \in DOMAIN T : h[a] = l
            /\ \E k \in 1 .. Len(T[a].items) : ~InLeaf(T, h, T[a].items[k].item)
    BY <1>2
  <1>4. PICK k \in 1 .. Len(T[a].items) : ~InLeaf(T, h, T[a].items[k].item)
    BY <1>3
  <1>5. SoundNode(T, h, a)
    BY NodeOfSound
  <1>6. CASE l = 0
    <2>1. k \in DOMAIN T[a].items
      BY <1>5 DEF SoundNode
    <2> QED
      BY <1>3, <1>4, <1>6, <2>1 DEF InLeaf
  <1>7. CASE l # 0
    <2>1. PICK c : c = T[a].items[k].nodeId
      OBVIOUS
    <2>2. ChildOf(T, h, a, k, c)
      BY <1>3, <1>7, <2>1, ChildOfSound
    <2>3. c \in DOMAIN T /\ h[c] = l - 1 /\ T[a].items[k].item = T[c].items[1].item
      BY <1>3, <2>2 DEF ChildOf, firstItem
    <2>4. SoundNode(T, h, c)
      BY <2>3, NodeOfSound
    <2>5. 1 \in 1 .. Len(T[c].items) /\ h[c] \in Nat
      BY <2>4 DEF SoundNode
    <2>6. ~InLeaf(T, h, T[c].items[1].item)
      BY <1>4, <2>3
    <2>7. l - 1 \in Bad
      BY <2>3, <2>5, <2>6
    <2>8. l \in Nat
      BY <1>2
    <2> HIDE DEF Bad
    <2>9. l <= l - 1
      BY <1>2, <2>7
    <2> QED
      BY <2>8, <2>9
  <1> QED
    BY <1>6, <1>7

(* A leaf's items belong to it.                                            *)
LEMMA LeafWithin ==
    ASSUME NEW T, NEW h, NEW root, Sound(T, h, root), NEW id \in DOMAIN T,
           NEW i \in 1 .. Len(T[id].items), NEW item, item = T[id].items[i].item
    PROVE  Within(T, id, item) /\ Pointed(T[id].items, item, i - 1)
  <1>n. SoundNode(T, h, id)
    BY NodeOfSound
  <1>0. PICK n, keys : n = Len(keys) /\ keys = T[id].items
    OBVIOUS
  <1>k. /\ n \in Nat /\ n > 0 /\ i \in 1 .. n /\ item = keys[i].item
        /\ \A a \in 1 .. n : keys[a].item \in Nat /\ keys[a] # none
        /\ \A a, b \in 1 .. n : a < b => keys[a].item < keys[b].item
    BY <1>n, <1>0 DEF SoundNode, Ascends
  <1>1. Pointed(keys, item, i - 1)
    <2>1. i - 1 \in 0 .. Len(keys) - 1 /\ (i - 1) + 1 = i
      BY <1>0, <1>k
    <2>2. keys[i].item <= item
      BY <1>k
    <2>3. \A a \in (i - 1) + 2 .. Len(keys) : item < keys[a].item
      <3>1. \A a \in (i - 1) + 2 .. Len(keys) : a \in 1 .. n /\ i < a
        BY <1>0, <1>k
      <3> QED
        BY <3>1, <1>k
    <2> QED
      BY <2>1, <2>2, <2>3 DEF Pointed
  <1>2. NotLeft(T, id, item)
    <2>1. 1 \in 1 .. n /\ (i = 1 \/ 1 < i)
      BY <1>k
    <2>2. keys[1].item <= item
      <3>1. keys[1].item \in Nat /\ keys[i].item \in Nat
        BY <1>k, <2>1
      <3>2. 1 < i => keys[1].item < keys[i].item
        BY <1>k, <2>1
      <3> QED
        BY <1>k, <2>1, <3>1, <3>2
    <2> QED
      BY <2>2, <1>0 DEF NotLeft, firstItem
  <1>3. NotRight(T, id, item)
    <2>1. PICK z : z = T[id].nextSibling
      OBVIOUS
    <2>2. SUFFICES ASSUME z # 0 PROVE item < firstItem(T, z)
      BY <2>1 DEF NotRight
    <2>3. z \in DOMAIN T
      BY <1>n, <2>1, <2>2 DEF SoundNode, LinkedAt
    <2>4. SoundNode(T, h, z)
      BY <2>3, NodeOfSound
    <2>5. Len(T[z].items) # 0 /\ 1 \in 1 .. Len(T[z].items)
      BY <2>4 DEF SoundNode
    <2>6. firstKey(T, z) = T[z].items[1] /\ firstKey(T, z).item = firstItem(T, z)
      BY <2>2, <2>5 DEF firstKey, firstItem
    <2>7. n \in 1 .. n /\ ~(n < n)
      BY <1>k
    <2>8. nextKey(T, id, n) = firstKey(T, z)
      BY <2>1, <2>7, <1>0 DEF nextKey
    <2>9. firstKey(T, z) # none /\ firstItem(T, z) \in Nat
      BY <2>4, <2>5, <2>6 DEF SoundNode
    <2>10. keys[n].item < firstItem(T, z)
      <3>1. n \in DOMAIN T[id].items
        BY <2>7, <1>0, <1>n DEF SoundNode
      <3> QED
        BY <3>1, <2>6, <2>8, <2>9, <1>0, <1>n DEF SoundNode, OrderedAt
    <2>11. i = n \/ i < n
      BY <1>k
    <2>12. i < n => keys[i].item < keys[n].item
      BY <1>k, <2>7
    <2>13. keys[i].item \in Nat /\ keys[n].item \in Nat
      BY <1>k, <2>7
    <2> QED
      BY <1>k, <2>9, <2>10, <2>11, <2>12, <2>13
  <1> QED
    BY <1>0, <1>1, <1>2, <1>3 DEF Within

-----------------------------------------------------------------------------
(* The search.                                                             *)
CrumbType == [index : Nat, nodeId : Nat]

onward(f, id, item) ==
    IF id = 0 THEN <<>>
    ELSE LET i == searchIndex(nodes[id], item)
         IN  <<[index |-> i, nodeId |-> id]>> \o f[nodes[id].items[i + 1].nodeId]

Walks(f, h, item, n) ==
    /\ f \in [DOMAIN nodes \cup {0} -> Seq(CrumbType)]
    /\ f[0] = <<>>
    /\ \A id \in DOMAIN nodes : h[id] < n => f[id] = onward(f, id, item)

(* The index and the child of a node. *)
Choice(h, id, item, i, c) ==
    /\ i = searchIndex(nodes[id], item)
    /\ i \in Nat /\ Pointed(nodes[id].items, item, i)
    /\ i + 1 \in 1 .. Len(nodes[id].items)
    /\ c = nodes[id].items[i + 1].nodeId
    /\ h[id] = 0 => c = 0
    /\ h[id] # 0 => c \in DOMAIN nodes /\ h[c] = h[id] - 1

LEMMA ChoiceMade ==
    ASSUME NEW h, NEW root, Sound(nodes, h, root), NEW item \in Nat,
           NEW id \in DOMAIN nodes
    PROVE  \E i, c : Choice(h, id, item, i, c)
  <1>n. SoundNode(nodes, h, id)
    BY NodeOfSound
  <1>1. PICK i : i = searchIndex(nodes[id], item)
    OBVIOUS
  <1>2. Pointed(nodes[id].items, item, i)
    BY <1>1, <1>n, SearchPoints DEF SoundNode
  <1>3. i \in Nat /\ i + 1 \in 1 .. Len(nodes[id].items)
    BY <1>2, <1>n DEF Pointed, SoundNode
  <1>4. PICK c : c = nodes[id].items[i + 1].nodeId
    OBVIOUS
  <1>5. i + 1 \in DOMAIN nodes[id].items
    BY <1>3, <1>n DEF SoundNode
  <1>6. IF h[id] = 0 THEN c = 0 ELSE c \in DOMAIN nodes /\ h[c] = h[id] - 1
    BY <1>4, <1>5, <1>n DEF SoundNode, LevelsAt
  <1> QED
    BY <1>1, <1>2, <1>3, <1>4, <1>6 DEF Choice

LEMMA WalkExists ==
    ASSUME NEW h, NEW root, Sound(nodes, h, root), NEW item \in Nat, NEW n \in Nat
    PROVE  \E f : Walks(f, h, item, n)
  <1> DEFINE T == {m \in Nat : \A f : ~Walks(f, h, item, m)}
  <1>1. SUFFICES ASSUME T # {} PROVE FALSE
    OBVIOUS
  <1>2. PICK m \in T : \A k \in T : m <= k
    <2>1. T \subseteq Nat
      OBVIOUS
    <2> HIDE DEF T
    <2> QED
      BY <1>1, <2>1, LeastNumber
  <1>3. m \in Nat /\ \A f : ~Walks(f, h, item, m)
    BY <1>2
  <1>s. \A id \in DOMAIN nodes : h[id] \in Nat /\ id # 0 /\ id \in Nat
    BY NodeOfSound, NodeFacts DEF SoundNode, Sound, Structure
  <1>4. m # 0
    <2> DEFINE f == [id \in DOMAIN nodes \cup {0} |-> <<>>]
    <2>1. Walks(f, h, item, 0)
      <3>1. \A id \in DOMAIN nodes : ~(h[id] < 0)
        BY <1>s
      <3>2. f \in [DOMAIN nodes \cup {0} -> Seq(CrumbType)]
        OBVIOUS
      <3>3. f[0] = <<>>
        OBVIOUS
      <3> HIDE DEF f
      <3> QED
        BY <3>1, <3>2, <3>3 DEF Walks
    <2> HIDE DEF f
    <2> QED
      BY <1>3, <2>1
  <1>5. m - 1 \in Nat /\ ~(m <= m - 1)
    BY <1>3, <1>4
  <1>6. PICK f : Walks(f, h, item, m - 1)
    <2>1. m - 1 \notin T
      <3> HIDE DEF T
      <3> QED
        BY <1>2, <1>5
    <2> QED
      BY <1>5, <2>1
  <1> DEFINE g == [id \in DOMAIN nodes \cup {0} |->
                      IF id # 0 /\ h[id] = m - 1 THEN onward(f, id, item) ELSE f[id]]
  <1>7. /\ f \in [DOMAIN nodes \cup {0} -> Seq(CrumbType)] /\ f[0] = <<>>
        /\ \A id \in DOMAIN nodes : h[id] < m - 1 => f[id] = onward(f, id, item)
    BY <1>6 DEF Walks
  <1>g. ASSUME NEW id \in DOMAIN nodes \cup {0}
        PROVE  g[id] = IF id # 0 /\ h[id] = m - 1 THEN onward(f, id, item) ELSE f[id]
    OBVIOUS
  <1>t. g \in [DOMAIN nodes \cup {0} -> Seq(CrumbType)]
    <2>1. ASSUME NEW id \in DOMAIN nodes
          PROVE  onward(f, id, item) \in Seq(CrumbType)
      <3>1. PICK i, c : Choice(h, id, item, i, c)
        BY ChoiceMade
      <3>2. onward(f, id, item) = <<[index |-> i, nodeId |-> id]>> \o f[c]
        BY <1>s, <3>1 DEF onward, Choice
      <3>3. c \in DOMAIN nodes \cup {0} /\ i \in Nat
        BY <3>1 DEF Choice
      <3>4. [index |-> i, nodeId |-> id] \in CrumbType
        BY <3>3, <1>s DEF CrumbType
      <3>5. f[c] \in Seq(CrumbType) /\ <<[index |-> i, nodeId |-> id]>> \in Seq(CrumbType)
        BY <3>3, <3>4, <1>7
      <3> QED
        BY <3>2, <3>5
    <2> QED
      BY <1>7, <2>1
  <1> HIDE DEF g
  <1>8. ASSUME NEW id \in DOMAIN nodes, h[id] < m
        PROVE  g[id] = onward(g, id, item)
    <2>1. PICK i, c : Choice(h, id, item, i, c)
      BY ChoiceMade
    <2>2. onward(f, id, item) = <<[index |-> i, nodeId |-> id]>> \o f[c]
      BY <1>s, <2>1 DEF onward, Choice
    <2>3. onward(g, id, item) = <<[index |-> i, nodeId |-> id]>> \o g[c]
      BY <1>s, <2>1 DEF onward, Choice
    <2>4. g[c] = f[c]
      <3>1. CASE h[id] = 0
        <4>1. c = 0
          BY <2>1, <3>1 DEF Choice
        <4> QED
          BY <4>1, <1>g
      <3>2. CASE h[id] # 0
        <4>1. c \in DOMAIN nodes /\ h[c] = h[id] - 1
          BY <2>1, <3>2 DEF Choice
        <4>2. h[c] # m - 1
          BY <4>1, <1>8, <1>s, <1>3
        <4> QED
          BY <4>1, <4>2, <1>g
      <3> QED
        BY <3>1, <3>2
    <2>5. g[id] = onward(f, id, item)
      <3>1. CASE h[id] = m - 1
        BY <3>1, <1>g, <1>s
      <3>2. CASE h[id] # m - 1
        <4>1. h[id] < m - 1
          BY <3>2, <1>8, <1>s, <1>3
        <4>2. f[id] = onward(f, id, item)
          BY <4>1, <1>7
        <4> QED
          BY <3>2, <4>2, <1>g, <1>s
      <3> QED
        BY <3>1, <3>2
    <2> QED
      BY <2>2, <2>3, <2>4, <2>5
  <1>9. g[0] = <<>>
    BY <1>7, <1>g
  <1>10. Walks(g, h, item, m)
    BY <1>t, <1>8, <1>9 DEF Walks
  <1> QED
    BY <1>3, <1>10

(* The search follows the choices. *)
LEMMA SearchWalks ==
    ASSUME NEW h, Sound(nodes, h, rootNodeId), NEW item \in Nat
    PROVE  \E f : /\ \A n \in Nat : Walks(f, h, item, n)
                  /\ searchItem(item) = f[rootNodeId]
  <1> DEFINE D == DOMAIN nodes \cup {0}
             step(f) == [id \in D |->
                  IF id = 0 THEN <<>>
                  ELSE LET i == searchIndex(nodes[id], item)
                       IN  <<[index |-> i, nodeId |-> id]>>
                               \o f[nodes[id].items[i + 1].nodeId]]
             crumbs == CHOOSE f : f = step(f)
  <1>1. searchItem(item) = crumbs[rootNodeId]
    BY DEF searchItem
  <1>s. \A id \in DOMAIN nodes : h[id] \in Nat /\ id # 0
    BY NodeOfSound DEF SoundNode
  <1>r. rootNodeId \in DOMAIN nodes /\ \A id \in DOMAIN nodes : h[id] < h[rootNodeId] + 1
    <2>1. Rooted(nodes, h, rootNodeId)
      BY DEF Sound
    <2> QED
      BY <2>1, <1>s DEF Rooted
  <1>2. PICK f : Walks(f, h, item, h[rootNodeId] + 1)
    BY <1>r, <1>s, WalkExists
  <1>3. /\ f \in [D -> Seq(CrumbType)] /\ f[0] = <<>>
        /\ \A id \in DOMAIN nodes : f[id] = onward(f, id, item)
    BY SMTT(30), <1>2, <1>r DEF Walks
  <1>4. f = step(f)
    <2>1. \A id \in D : f[id] = step(f)[id]
      BY <1>3 DEF onward
    <2> QED
      BY <2>1, <1>3
  <1> HIDE DEF step
  <1>5. crumbs = step(crumbs)
    BY <1>4
  <1> HIDE DEF crumbs
  <1>6. /\ crumbs = [id \in D |-> crumbs[id]]
        /\ \A id \in D : crumbs[id] = onward(crumbs, id, item)
    BY <1>5 DEF step, onward
  <1>7. crumbs[0] = <<>>
    BY <1>6 DEF onward
  \* crumbs is f
  <1>8. \A id \in DOMAIN nodes : crumbs[id] = f[id]
    <2> DEFINE Bad == {l \in Nat : \E a \in DOMAIN nodes : h[a] = l /\ crumbs[a] # f[a]}
    <2>1. SUFFICES ASSUME Bad # {} PROVE FALSE
      BY <1>s
    <2>2. PICK l \in Bad : \A m \in Bad : l <= m
      <3>1. Bad \subseteq Nat
        OBVIOUS
      <3> HIDE DEF Bad
      <3> QED
        BY <2>1, <3>1, LeastNumber
    <2>3. PICK a \in DOMAIN nodes : h[a] = l /\ crumbs[a] # f[a]
      BY <2>2
    <2>4. PICK i, c : Choice(h, a, item, i, c)
      BY ChoiceMade
    <2>5. f[a] = <<[index |-> i, nodeId |-> a]>> \o f[c]
      BY <1>3, <1>s, <2>4 DEF onward, Choice
    <2>6. crumbs[a] = <<[index |-> i, nodeId |-> a]>> \o crumbs[c]
      BY <1>6, <1>s, <2>4 DEF onward, Choice
    <2>7. crumbs[c] # f[c]
      BY <2>3, <2>5, <2>6
    <2>8. h[a] # 0
      <3>1. h[a] = 0 => c = 0
        BY <2>4 DEF Choice
      <3> QED
        BY <3>1, <2>7, <1>3, <1>7
    <2>9. c \in DOMAIN nodes /\ h[c] = l - 1 /\ h[c] \in Nat
      BY <2>3, <2>4, <2>8, <1>s DEF Choice
    <2>10. l - 1 \in Bad /\ l \in Nat
      BY <2>2, <2>7, <2>9
    <2> HIDE DEF Bad
    <2>11. l <= l - 1
      BY <2>2, <2>10
    <2> QED
      BY <2>10, <2>11
  <1>9. \A n \in Nat : Walks(f, h, item, n)
    BY <1>3 DEF Walks
  <1> QED
    BY <1>1, <1>8, <1>9, <1>r

-----------------------------------------------------------------------------
(* What the breadcrumbs say.                                               *)
CrumbAt(s, k, h, top, item) ==
    LET id == s[k].nodeId
    IN  /\ id \in DOMAIN nodes
        /\ h[id] = top + 1 - k
        /\ s[k].index \in Nat
        /\ Pointed(nodes[id].items, item, s[k].index)
        /\ k < Len(s) => s[k + 1].nodeId = nodes[id].items[s[k].index + 1].nodeId

CrumbsFrom(s, id, h, item) ==
    /\ s \in Seq(CrumbType)
    /\ Len(s) = h[id] + 1
    /\ s[1].nodeId = id
    /\ \A k \in 1 .. Len(s) : CrumbAt(s, k, h, h[id], item)

LEMMA WalkCrumbs ==
    ASSUME NEW h, NEW root, Sound(nodes, h, root), NEW item \in Nat,
           NEW f, \A n \in Nat : Walks(f, h, item, n), NEW id \in DOMAIN nodes
    PROVE  CrumbsFrom(f[id], id, h, item)
  <1> DEFINE Bad == {l \in Nat : \E a \in DOMAIN nodes :
                                     h[a] = l /\ ~CrumbsFrom(f[a], a, h, item)}
  <1>s. \A a \in DOMAIN nodes : h[a] \in Nat /\ a # 0 /\ a \in Nat
    BY NodeOfSound, NodeFacts DEF SoundNode, Sound, Structure
  <1>1. SUFFICES ASSUME Bad # {} PROVE FALSE
    BY <1>s
  <1>2. PICK l \in Bad : \A m \in Bad : l <= m
    <2>1. Bad \subseteq Nat
      OBVIOUS
    <2> HIDE DEF Bad
    <2> QED
      BY <1>1, <2>1, LeastNumber
  <1>3. PICK a \in DOMAIN nodes : h[a] = l /\ ~CrumbsFrom(f[a], a, h, item)
    BY <1>2
  <1>l. l \in Nat
    BY <1>2
  <1>4. PICK i, c : Choice(h, a, item, i, c)
    BY ChoiceMade
  <1>5. f[a] = <<[index |-> i, nodeId |-> a]>> \o f[c]
    <2>1. Walks(f, h, item, l + 1) /\ h[a] < l + 1
      BY <1>3, <1>l
    <2>2. f[a] = onward(f, a, item)
      BY <2>1 DEF Walks
    <2> QED
      BY <2>2, <1>s, <1>4 DEF onward, Choice
  <1>6. f[0] = <<>>
    BY DEF Walks
  <1>7. PICK crumb, s, t : crumb = [index |-> i, nodeId |-> a] /\ s = f[a] /\ t = f[c]
    OBVIOUS
  <1>8. crumb \in CrumbType /\ crumb.index = i /\ crumb.nodeId = a
    BY <1>4, <1>7, <1>s DEF CrumbType, Choice
  <1>9. \/ h[a] = 0 /\ t = <<>>
        \/ /\ h[a] # 0 /\ c \in DOMAIN nodes /\ h[c] = l - 1
           /\ CrumbsFrom(t, c, h, item)
    <2>1. CASE h[a] = 0
      BY <2>1, <1>4, <1>6, <1>7 DEF Choice
    <2>2. CASE h[a] # 0
      <3>1. c \in DOMAIN nodes /\ h[c] = l - 1 /\ h[c] \in Nat
        BY <2>2, <1>3, <1>4, <1>s DEF Choice
      <3>2. ~(l <= l - 1)
        BY <1>l
      <3>3. CrumbsFrom(t, c, h, item)
        <4>1. SUFFICES ASSUME ~CrumbsFrom(f[c], c, h, item) PROVE FALSE
          BY <1>7
        <4>2. l - 1 \in Bad
          BY <3>1, <4>1
        <4> HIDE DEF Bad
        <4> QED
          BY <1>2, <3>2, <4>2
      <3> QED
        BY <2>2, <3>1, <3>3
    <2> QED
      BY <2>1, <2>2
  <1>10. t \in Seq(CrumbType) /\ Len(t) = l
    <2>1. CASE h[a] = 0 /\ t = <<>>
      BY <2>1, <1>3
    <2>2. CASE CrumbsFrom(t, c, h, item) /\ h[c] = l - 1
      BY <2>2, <1>l DEF CrumbsFrom
    <2> QED
      BY <2>1, <2>2, <1>9
  <1>11. Joins(CrumbType, <<crumb>>, t, s)
    <2>1. <<crumb>> \in Seq(CrumbType) /\ s = <<crumb>> \o t
      BY <1>5, <1>7, <1>8
    <2> QED
      BY <2>1, <1>10, Joined
  <1>12. s \in Seq(CrumbType) /\ Len(s) = l + 1 /\ s[1] = crumb
         /\ \A k \in 1 .. l : s[1 + k] = t[k]
    <2>1. Len(<<crumb>>) = 1 /\ <<crumb>>[1] = crumb /\ 1 \in 1 .. 1
      OBVIOUS
    <2> QED
      BY <2>1, <1>10, <1>11, <1>l DEF Joins
  <1>13. CrumbAt(s, 1, h, l, item)
    <2>1. 1 < Len(s) => s[1 + 1].nodeId = c
      <3>1. SUFFICES ASSUME 1 < Len(s) PROVE s[1 + 1].nodeId = c
        OBVIOUS
      <3>2. 1 \in 1 .. l /\ h[a] # 0
        BY <3>1, <1>l, <1>12, <1>3
      <3>3. s[1 + 1] = t[1]
        BY <3>2, <1>12
      <3> QED
        BY <3>2, <3>3, <1>9 DEF CrumbsFrom
    <2>2. h[a] = l + 1 - 1
      BY <1>3, <1>l
    <2> QED
      BY <2>1, <2>2, <1>4, <1>8, <1>12 DEF CrumbAt, Choice
  <1>14. ASSUME NEW k \in 1 .. l
         PROVE  CrumbAt(s, 1 + k, h, l, item)
    <2>1. h[a] # 0
      BY <1>3, <1>l
    <2>2. CrumbsFrom(t, c, h, item) /\ h[c] = l - 1
      BY <2>1, <1>9
    <2>3. CrumbAt(t, k, h, l - 1, item)
      BY <2>2, <1>10 DEF CrumbsFrom
    <2>4. s[1 + k] = t[k] /\ (l - 1) + 1 - k = l + 1 - (1 + k)
      BY <1>12, <1>l
    <2>5. 1 + k < Len(s) => k < Len(t) /\ s[(1 + k) + 1] = t[k + 1]
      <3>1. SUFFICES ASSUME 1 + k < Len(s) PROVE k < Len(t) /\ s[(1 + k) + 1] = t[k + 1]
        OBVIOUS
      <3>2. k < l /\ k + 1 \in 1 .. l /\ (1 + k) + 1 = 1 + (k + 1)
        BY <3>1, <1>12, <1>l
      <3> QED
        BY <3>2, <1>10, <1>12
    <2> QED
      BY <2>3, <2>4, <2>5 DEF CrumbAt
  <1>15. CrumbsFrom(s, a, h, item)
    <2>1. \A k \in 1 .. Len(s) : k = 1 \/ (k - 1 \in 1 .. l /\ 1 + (k - 1) = k)
      BY <1>12, <1>l
    <2>2. \A k \in 1 .. Len(s) : CrumbAt(s, k, h, l, item)
      BY <2>1, <1>13, <1>14
    <2> QED
      BY <2>2, <1>3, <1>8, <1>12 DEF CrumbsFrom
  <1> QED
    BY <1>3, <1>7, <1>15

(* The search ends in a leaf, and chooses in every node on the way.        *)
LEMMA SearchCrumbs ==
    ASSUME NEW h, Sound(nodes, h, rootNodeId), NEW item \in Nat
    PROVE  CrumbsFrom(searchItem(item), rootNodeId, h, item)
  <1>1. PICK f : (\A n \in Nat : Walks(f, h, item, n)) /\ searchItem(item) = f[rootNodeId]
    BY SearchWalks
  <1>2. rootNodeId \in DOMAIN nodes
    BY DEF Sound, Rooted
  <1> QED
    BY <1>1, <1>2, WalkCrumbs

(* A node an item belongs to is on the way.                                *)
LEMMA SearchMeets ==
    ASSUME NEW h, Sound(nodes, h, rootNodeId), NEW item \in Nat,
           NEW s, CrumbsFrom(s, rootNodeId, h, item),
           NEW id \in DOMAIN nodes, Within(nodes, id, item)
    PROVE  \E k \in 1 .. Len(s) : s[k].nodeId = id
  <1> DEFINE r == h[rootNodeId]
             Bad == {d \in Nat : \E a \in DOMAIN nodes :
                        /\ h[a] + d = r
                        /\ Within(nodes, a, item)
                        /\ \A k \in 1 .. Len(s) : s[k].nodeId # a}
  <1>r. Rooted(nodes, h, rootNodeId)
    BY DEF Sound
  <1>s. \A a \in DOMAIN nodes : h[a] \in Nat /\ a # 0 /\ h[a] <= r
    BY <1>r, NodeOfSound DEF SoundNode, Rooted
  <1>1. SUFFICES ASSUME Bad # {} PROVE FALSE
    <2>1. SUFFICES ASSUME \A k \in 1 .. Len(s) : s[k].nodeId # id PROVE FALSE
      OBVIOUS
    <2>2. r \in Nat /\ rootNodeId \in DOMAIN nodes
      BY <1>r, <1>s DEF Rooted
    <2> HIDE DEF r
    <2>3. r - h[id] \in Nat /\ h[id] + (r - h[id]) = r
      BY <1>s, <2>2
    <2>4. r - h[id] \in Bad
      BY <2>1, <2>3
    <2> HIDE DEF Bad
    <2> QED
      BY <1>1, <2>4
  <1>2. PICK d \in Bad : \A m \in Bad : d <= m
    <2>1. Bad \subseteq Nat
      OBVIOUS
    <2> HIDE DEF Bad
    <2> QED
      BY <1>1, <2>1, LeastNumber
  <1>3. PICK a \in DOMAIN nodes :
            /\ h[a] + d = r
            /\ Within(nodes, a, item)
            /\ \A k \in 1 .. Len(s) : s[k].nodeId # a
    BY <1>2
  <1>d. d \in Nat /\ r \in Nat
    BY <1>2, <1>r, <1>s DEF Rooted
  <1>4. a # rootNodeId
    <2>1. Len(s) = r + 1 /\ s[1].nodeId = rootNodeId
      BY DEF CrumbsFrom
    <2>2. 1 \in 1 .. Len(s)
      BY <2>1, <1>d
    <2> QED
      BY <1>3, <2>1, <2>2
  <1>5. PICK q \in DOMAIN nodes : \E j \in DOMAIN nodes[q].items : nodes[q].items[j].nodeId = a
    BY <1>r, <1>3, <1>4 DEF Rooted, IsChild
  <1>6. PICK j \in DOMAIN nodes[q].items : nodes[q].items[j].nodeId = a
    BY <1>5
  <1>7. SoundNode(nodes, h, q)
    BY NodeOfSound
  <1>8. j \in 1 .. Len(nodes[q].items) /\ h[q] # 0 /\ h[a] = h[q] - 1
    BY <1>6, <1>7, <1>s DEF SoundNode, LevelsAt
  <1>9. Within(nodes, q, item) /\ Pointed(nodes[q].items, item, j - 1)
    BY <1>3, <1>6, <1>8, WithinParent
  <1>10. d - 1 \in Nat /\ h[q] + (d - 1) = r /\ ~(d <= d - 1)
    BY <1>3, <1>8, <1>d, <1>s
  <1>11. PICK k \in 1 .. Len(s) : s[k].nodeId = q
    <2>1. d - 1 \notin Bad
      <3> HIDE DEF Bad
      <3> QED
        BY <1>2, <1>10
    <2> QED
      BY <2>1, <1>9, <1>10
  <1>12. CrumbAt(s, k, h, r, item) /\ Len(s) = r + 1
    BY <1>11 DEF CrumbsFrom
  <1> HIDE DEF r, Bad
  <1>13. k < Len(s) /\ k + 1 \in 1 .. Len(s)
    BY <1>8, <1>11, <1>12, <1>d, <1>s DEF CrumbAt
  <1>14. Pointed(nodes[q].items, item, s[k].index)
    BY <1>11, <1>12 DEF CrumbAt
  <1>15. s[k].index = j - 1
    BY <1>7, <1>9, <1>14, OnePointed DEF SoundNode
  <1>16. s[k + 1].nodeId = nodes[q].items[j].nodeId
    <2>1. (j - 1) + 1 = j
      BY <1>8
    <2> QED
      BY <2>1, <1>11, <1>12, <1>13, <1>15 DEF CrumbAt
  <1> QED
    BY <1>3, <1>6, <1>13, <1>16

-----------------------------------------------------------------------------
(* Totals after a change below, what other nodes record, and the way from  *)
(* the root.                                                               *)

-----------------------------------------------------------------------------
(* What nodes record of their children after some of them have changed.    *)
Recorded(N, id) ==
    /\ KeysFirst(N, N[id].items, {})
    /\ N[id].accumCount = countOfAll(N, N[id].items)
    /\ N[id].accum = accumOfAll(N, N[id].items)

Untouched(T, N, id) ==
    /\ id \in DOMAIN T
    /\ N[id].items = T[id].items
    /\ N[id].accumCount = T[id].accumCount
    /\ N[id].accum = T[id].accum
    /\ N[id].nextSibling # 0 => T[id].nextSibling # 0

StillExact(T, N, q, p, M) ==
    \A id \in DOMAIN N \ M :
        /\ Untouched(T, N, id) /\ id # q
        /\ id # p => \A i \in DOMAIN T[id].items :
              \/ T[id].items[i].nodeId = 0
              \/ T[id].items[i].nodeId \in DOMAIN N \ M

NewlyExact(N, p, M) ==
    \A id \in M : Sized(N[id]) /\ (id # p => Recorded(N, id))

LEMMA ExactAfter ==
    ASSUME NEW T, NEW N, NEW q, Exact(T, q), NEW p, NEW M,
           StillExact(T, N, q, p, M), NewlyExact(N, p, M)
    PROVE  Exact(N, p)
  <1>1. ASSUME NEW id \in DOMAIN N
        PROVE  Sized(N[id])
    <2>1. CASE id \in M
      BY <2>1 DEF NewlyExact
    <2>2. CASE id \notin M
      <3>1. Untouched(T, N, id)
        BY <2>2 DEF StillExact
      <3>2. Sized(T[id])
        BY <3>1 DEF Exact, Untouched
      <3> QED
        BY <3>1, <3>2 DEF Untouched, Sized
    <2> QED
      BY <2>1, <2>2
  <1>2. ASSUME NEW id \in DOMAIN N, id # p
        PROVE  Recorded(N, id)
    <2>1. CASE id \in M
      BY <1>2, <2>1 DEF NewlyExact
    <2>2. CASE id \notin M
      <3>1. Untouched(T, N, id) /\ id # q
        BY <2>2 DEF StillExact
      <3>2. PICK keys : keys = T[id].items
        OBVIOUS
      <3>3. /\ KeysFirst(T, keys, {})
            /\ T[id].accumCount = countOfAll(T, keys)
            /\ T[id].accum = accumOfAll(T, keys)
        BY <3>1, <3>2 DEF Exact, Untouched
      <3>4. ASSUME NEW i \in DOMAIN keys, keys[i].nodeId # 0
            PROVE  /\ N[keys[i].nodeId].accumCount = T[keys[i].nodeId].accumCount
                   /\ N[keys[i].nodeId].accum = T[keys[i].nodeId].accum
                   /\ N[keys[i].nodeId].items = T[keys[i].nodeId].items
        <4>1. keys[i].nodeId \in DOMAIN N \ M
          BY <1>2, <2>2, <3>2, <3>4 DEF StillExact
        <4> QED
          BY <4>1 DEF Untouched, StillExact
      <3>5. countOfAll(N, keys) = countOfAll(T, keys) /\ accumOfAll(N, keys) = accumOfAll(T, keys)
        BY <3>4, SameCounts
      <3>6. KeysFirst(N, keys, {})
        BY <3>3, <3>4 DEF KeysFirst, firstItem
      <3>7. N[id].items = keys /\ N[id].accumCount = T[id].accumCount /\ N[id].accum = T[id].accum
        BY <3>1, <3>2 DEF Untouched
      <3> QED
        BY <3>3, <3>5, <3>6, <3>7 DEF Recorded
    <2> QED
      BY <2>1, <2>2
  <1> QED
    BY <1>1, <1>2 DEF Exact, Recorded

LEMMA ExactLess ==
    ASSUME NEW T, NEW p, Exact(T, 0), 0 \notin DOMAIN T
    PROVE  Exact(T, p)
  BY DEF Exact

-----------------------------------------------------------------------------
(* The way from the root.                                                  *)
PathIn(T, s, root, h) ==
    \A k \in DOMAIN s :
        LET id    == s[k].nodeId
            index == s[k].index
        IN  /\ id \in DOMAIN T
            /\ index \in Nat /\ index < Len(T[id].items)
            /\ h[id] = h[root] + 1 - k
            /\ k = 1 => id = root
            /\ k < Len(s) => s[k + 1].nodeId = T[id].items[index + 1].nodeId

NotLeftOn(T, s, item) ==
    \A k \in DOMAIN s :
        LET node  == T[s[k].nodeId]
            index == s[k].index
        IN  /\ node.items[1].item <= item \/ node.prevSibling = 0
            /\ node.items[index + 1].item <= item \/ index = 0

(* The last node id of the way, at the key j of the node p above it.       *)
AtTop(T, s, root, h, id, p, j) ==
    /\ id \in DOMAIN T
    /\ IF p = 0 THEN id = root /\ Len(s) = 1
       ELSE /\ p \in DOMAIN T /\ p # id
            /\ Len(s) > 1
            /\ h[p] = h[id] + 1
            /\ j \in 1 .. Len(T[p].items)
            /\ T[p].items[j].nodeId = id
            /\ s[Len(s) - 1].nodeId = p /\ s[Len(s) - 1].index = j - 1

LEMMA PathTop ==
    ASSUME NEW T, NEW h, Stored(T, h), NEW root, NEW s \in Seq(CrumbType), Len(s) > 0,
           PathIn(T, s, root, h)
    PROVE  \E p, j : AtTop(T, s, root, h, s[Len(s)].nodeId, p, j)
  <1>1. PICK m : m = Len(s)
    OBVIOUS
  <1>2. m \in Nat /\ m > 0 /\ DOMAIN s = 1 .. m
    BY <1>1
  <1>3. PICK id : id = s[m].nodeId
    OBVIOUS
  <1>4. m \in DOMAIN s
    BY <1>2
  <1>5. id \in DOMAIN T /\ h[id] = h[root] + 1 - m /\ (m = 1 => id = root)
    BY <1>3, <1>4 DEF PathIn
  <1>6. CASE m = 1
    <2>1. AtTop(T, s, root, h, id, 0, 0)
      BY <1>1, <1>5, <1>6 DEF AtTop
    <2> QED
      BY <2>1, <1>1, <1>3
  <1>7. CASE m # 1
    <2>1. m - 1 \in DOMAIN s /\ m > 1 /\ m - 1 < Len(s) /\ (m - 1) + 1 = m /\ 1 \in DOMAIN s
      BY <1>1, <1>2, <1>7
    <2>2. PICK p, i : p = s[m - 1].nodeId /\ i = s[m - 1].index
      OBVIOUS
    <2>3. /\ p \in DOMAIN T /\ i \in Nat /\ i < Len(T[p].items)
          /\ h[p] = h[root] + 1 - (m - 1)
          /\ id = T[p].items[i + 1].nodeId
      BY <1>3, <2>1, <2>2 DEF PathIn
    <2>4. root \in DOMAIN T
      BY <2>1 DEF PathIn
    <2>9. h[root] \in Nat /\ h[id] \in Nat
      BY <1>5, <2>4, NodeFacts
    <2>5. h[p] = h[id] + 1 /\ h[id] \in Nat
      BY <1>2, <1>5, <2>3, <2>9
    <2>6. p # 0 /\ p # id
      BY <2>3, <2>5, NodeFacts
    <2>7. i + 1 \in 1 .. Len(T[p].items) /\ i = (i + 1) - 1
      BY <2>3, NodeFacts
    <2>8. AtTop(T, s, root, h, id, p, i + 1)
      BY <1>1, <1>5, <2>1, <2>2, <2>3, <2>5, <2>6, <2>7 DEF AtTop
    <2> QED
      BY <2>8, <1>1, <1>3
  <1> QED
    BY <1>6, <1>7

(* Without its last node. *)
Fronts(s, t) ==
    /\ t \in Seq(CrumbType)
    /\ Len(t) = Len(s) - 1
    /\ DOMAIN t = 1 .. Len(s) - 1
    /\ \A k \in 1 .. Len(s) - 1 : t[k] = s[k]

LEMMA FrontIs ==
    ASSUME NEW s \in Seq(CrumbType), Len(s) > 0
    PROVE  Fronts(s, Front(s))
  <1>1. Len(s) - 1 \in 0 .. Len(s)
    OBVIOUS
  <1>2. Parts(CrumbType, s, Len(s) - 1, SubSeq(s, 1, Len(s) - 1), SubSeq(s, (Len(s) - 1) + 1, Len(s)))
    BY <1>1, Cut
  <1>3. PICK t : t = Front(s)
    BY SMTT(30)
  <1>4. t \in Seq(CrumbType) /\ Len(t) = Len(s) - 1 /\ \A k \in 1 .. Len(s) - 1 : t[k] = s[k]
    BY <1>2, <1>3 DEF Front, Parts
  <1> QED
    BY <1>3, <1>4 DEF Fronts

(* What is above the last node of the way has the same keys.               *)
KeptAbove(T, N, h, h2, id) ==
    \A a \in DOMAIN T : h[a] > h[id] =>
        /\ a \in DOMAIN N
        /\ h2[a] = h[a]
        /\ N[a].items = T[a].items
        /\ N[a].prevSibling = T[a].prevSibling

KeptOver(T, N, h, h2, s) ==
    KeptAbove(T, N, h, h2, s[Len(s)].nodeId)
LEMMA PathFront ==
    ASSUME NEW T, NEW N, NEW h, NEW h2, Stored(T, h), NEW root,
           NEW s \in Seq(CrumbType), Len(s) > 0, PathIn(T, s, root, h),
           KeptOver(T, N, h, h2, s),
           NEW t, Fronts(s, t)
    PROVE  PathIn(N, t, root, h2)
  <1>0. PICK id : id = s[Len(s)].nodeId
    OBVIOUS
  <1>k. KeptAbove(T, N, h, h2, id)
    BY <1>0 DEF KeptOver
  <1>1. PICK m : m = Len(s)
    OBVIOUS
  <1>2. m \in Nat /\ m > 0 /\ DOMAIN s = 1 .. m /\ DOMAIN t = 1 .. m - 1 /\ Len(t) = m - 1
        /\ \A k \in 1 .. m - 1 : t[k] = s[k]
    BY <1>1 DEF Fronts
  <1>3. SUFFICES ASSUME NEW k \in 1 .. m - 1
                 PROVE  /\ t[k].nodeId \in DOMAIN N
                        /\ t[k].index \in Nat /\ t[k].index < Len(N[t[k].nodeId].items)
                        /\ h2[t[k].nodeId] = h2[root] + 1 - k
                        /\ k = 1 => t[k].nodeId = root
                        /\ k < Len(t) => t[k + 1].nodeId
                                = N[t[k].nodeId].items[t[k].index + 1].nodeId
    BY <1>2 DEF PathIn
  <1>4. k \in DOMAIN s /\ m \in DOMAIN s /\ 1 \in DOMAIN s /\ k < Len(s) /\ t[k] = s[k]
        /\ (k < Len(t) => t[k + 1] = s[k + 1])
    BY <1>1, <1>2
  <1>5. PICK a, i : a = s[k].nodeId /\ i = s[k].index
    OBVIOUS
  <1>6. /\ a \in DOMAIN T /\ i \in Nat /\ i < Len(T[a].items)
        /\ h[a] = h[root] + 1 - k
        /\ k = 1 => a = root
        /\ s[k + 1].nodeId = T[a].items[i + 1].nodeId
    BY <1>4, <1>5 DEF PathIn
  <1>7. /\ id \in DOMAIN T /\ h[id] = h[root] + 1 - m
        /\ root \in DOMAIN T
    BY <1>0, <1>1, <1>4 DEF PathIn
  <1>8. h[root] \in Nat
    BY <1>7, NodeFacts
  <1>9. h[a] > h[id] /\ h[root] > h[id]
    BY SMTT(30), <1>2, <1>6, <1>7, <1>8
  <1>10. /\ a \in DOMAIN N /\ h2[a] = h[a] /\ N[a].items = T[a].items
         /\ h2[root] = h[root]
    BY <1>k, <1>6, <1>7, <1>9 DEF KeptAbove
  <1> QED
    BY <1>4, <1>5, <1>6, <1>10

LEMMA NotLeftFront ==
    ASSUME NEW T, NEW N, NEW h, NEW h2, Stored(T, h), NEW root,
           NEW s \in Seq(CrumbType), Len(s) > 0, PathIn(T, s, root, h),
           KeptOver(T, N, h, h2, s),
           NEW t, Fronts(s, t), NEW item, NotLeftOn(T, s, item)
    PROVE  NotLeftOn(N, t, item)
  <1>0. PICK id : id = s[Len(s)].nodeId
    OBVIOUS
  <1>k. KeptAbove(T, N, h, h2, id)
    BY <1>0 DEF KeptOver
  <1>1. PICK m : m = Len(s)
    OBVIOUS
  <1>2. m \in Nat /\ m > 0 /\ DOMAIN s = 1 .. m /\ DOMAIN t = 1 .. m - 1
        /\ \A k \in 1 .. m - 1 : t[k] = s[k]
    BY <1>1 DEF Fronts
  <1>3. ASSUME NEW k \in 1 .. m - 1
        PROVE  /\ N[t[k].nodeId].items = T[s[k].nodeId].items
               /\ N[t[k].nodeId].prevSibling = T[s[k].nodeId].prevSibling
               /\ t[k] = s[k] /\ k \in DOMAIN s
    <2>1. k \in DOMAIN s /\ m \in DOMAIN s /\ 1 \in DOMAIN s /\ t[k] = s[k]
      BY <1>2
    <2>2. PICK a : a = s[k].nodeId
      OBVIOUS
    <2>3. /\ a \in DOMAIN T /\ h[a] = h[root] + 1 - k
          /\ id \in DOMAIN T /\ h[id] = h[root] + 1 - m
          /\ root \in DOMAIN T
      BY <1>0, <1>1, <2>1, <2>2 DEF PathIn
    <2>4. h[root] \in Nat
      BY <2>3, NodeFacts
    <2>5. h[a] > h[id]
      BY <1>2, <2>3, <2>4
    <2> QED
      BY <2>1, <2>2, <2>3, <2>5, <1>k DEF KeptAbove
  <1> QED
    BY <1>2, <1>3 DEF NotLeftOn

-----------------------------------------------------------------------------
(* Where an item belongs: not right of a node, not right of its child.     *)

LEMMA NotRightChild ==
    ASSUME NEW T, NEW h, NEW root, Sound(T, h, root), NEW id \in DOMAIN T, h[id] # 0,
           NEW j \in 1 .. Len(T[id].items), NEW c, c = T[id].items[j].nodeId,
           NEW item \in Nat, NotRight(T, id, item), Pointed(T[id].items, item, j - 1)
    PROVE  NotRight(T, c, item)
  <1>n. SoundNode(T, h, id)
    BY NodeOfSound
  <1>c. ChildOf(T, h, id, j, c)
    BY ChildOfSound
  <1> DEFINE keys == T[id].items
  <1>0. PICK n : n = Len(keys)
    OBVIOUS
  <1>k. n \in Nat /\ n > 0 /\ j \in 1 .. n
    BY <1>n, <1>0 DEF SoundNode
  <1>1. SUFFICES ASSUME T[c].nextSibling # 0
                 PROVE  item < firstItem(T, T[c].nextSibling)
    BY DEF NotRight
  <1>2. T[c].nextSibling = nextKey(T, id, j).nodeId
    BY <1>c DEF ChildOf
  <1>3. CASE j < n
    <2>1. j + 1 \in 1 .. n /\ j + 1 \in (j - 1) + 2 .. n
      BY <1>3, <1>k
    <2>2. nextKey(T, id, j) = keys[j + 1]
      BY <1>3, <1>0 DEF nextKey, keys
    <2>3. ChildOf(T, h, id, j + 1, keys[j + 1].nodeId)
      BY <2>1, <1>0, ChildOfSound DEF keys
    <2>4. firstItem(T, keys[j + 1].nodeId) = keys[j + 1].item
      BY <2>3 DEF ChildOf, keys
    <2>5. item < keys[j + 1].item
      BY <2>1, <1>0 DEF Pointed, keys
    <2> QED
      BY <1>2, <2>2, <2>4, <2>5
  <1>4. CASE ~(j < n)
    <2>1. PICK z : z = T[id].nextSibling
      OBVIOUS
    <2>2. nextKey(T, id, j) = firstKey(T, z)
      BY <1>4, <1>0, <2>1 DEF nextKey, keys
    <2>3. z # 0
      BY <1>1, <1>2, <2>2 DEF firstKey, none, Key
    <2>4. z \in DOMAIN T /\ h[z] = h[id]
      BY <1>n, <2>1, <2>3 DEF SoundNode, LinkedAt
    <2>5. SoundNode(T, h, z)
      BY <2>4, NodeOfSound
    <2>6. Len(T[z].items) # 0 /\ 1 \in 1 .. Len(T[z].items)
      BY <2>5 DEF SoundNode
    <2>7. firstKey(T, z) = T[z].items[1]
      BY <2>3, <2>6 DEF firstKey
    <2>8. ChildOf(T, h, z, 1, T[z].items[1].nodeId)
      BY <2>4, <2>6, ChildOfSound
    <2>9. firstItem(T, T[c].nextSibling) = firstItem(T, z)
      BY <1>2, <2>2, <2>7, <2>8 DEF ChildOf, firstItem
    <2> QED
      BY <2>1, <2>3, <2>9 DEF NotRight
  <1> QED
    BY <1>3, <1>4

(* An item belongs to every node on its way. *)
LEMMA PathWithin ==
    ASSUME NEW h, Sound(nodes, h, rootNodeId), NEW item \in Nat,
           NEW s, CrumbsFrom(s, rootNodeId, h, item)
    PROVE  \A k \in 1 .. Len(s) : Within(nodes, s[k].nodeId, item)
  <1> DEFINE r == h[rootNodeId]
             Bad == {k \in Nat : k \in 1 .. Len(s) /\ ~Within(nodes, s[k].nodeId, item)}
  <1>r. Rooted(nodes, h, rootNodeId)
    BY DEF Sound
  <1>t. Len(s) = r + 1 /\ s[1].nodeId = rootNodeId /\ \A k \in 1 .. Len(s) : CrumbAt(s, k, h, r, item)
    BY DEF CrumbsFrom
  <1>l. r \in Nat /\ Len(s) \in Nat
    BY <1>r, <1>t, NodeOfSound DEF Rooted, SoundNode
  <1>1. SUFFICES ASSUME Bad # {} PROVE FALSE
    BY <1>l
  <1>2. PICK k \in Bad : \A m \in Bad : k <= m
    <2>1. Bad \subseteq Nat
      OBVIOUS
    <2> HIDE DEF Bad
    <2> QED
      BY <1>1, <2>1, LeastNumber
  <1>3. k \in 1 .. Len(s) /\ ~Within(nodes, s[k].nodeId, item)
    BY <1>2
  <1>4. k # 1
    BY <1>r, <1>t, <1>3 DEF Within, NotLeft, NotRight, Rooted
  <1>5. k - 1 \in 1 .. Len(s) /\ (k - 1) + 1 = k /\ ~(k <= k - 1) /\ k - 1 < Len(s) /\ k - 1 \in Nat
    BY <1>3, <1>4, <1>l
  <1>6. PICK id, i : id = s[k - 1].nodeId /\ i = s[k - 1].index
    OBVIOUS
  <1>7. Within(nodes, id, item)
    <2>1. k - 1 \notin Bad
      <3> HIDE DEF Bad
      <3> QED
        BY <1>2, <1>5
    <2> QED
      BY <2>1, <1>5, <1>6
  <1> HIDE DEF r, Bad
  <1>8. CrumbAt(s, k - 1, h, r, item) /\ CrumbAt(s, k, h, r, item)
    BY <1>t, <1>3, <1>5
  <1>9. /\ id \in DOMAIN nodes /\ h[id] = r + 1 - (k - 1)
        /\ i \in Nat /\ Pointed(nodes[id].items, item, i)
        /\ s[k].nodeId = nodes[id].items[i + 1].nodeId
        /\ s[k].nodeId \in DOMAIN nodes
    BY <1>5, <1>6, <1>8 DEF CrumbAt
  <1>10. SoundNode(nodes, h, id)
    BY <1>9, NodeOfSound
  <1>11. h[id] # 0
    BY <1>9, <1>3, <1>t, <1>l
  <1>12. (i + 1) - 1 = i /\ i + 1 \in 1 .. Len(nodes[id].items)
    BY <1>9, <1>10 DEF Pointed, SoundNode
  <1>13. PICK j : j = i + 1
    OBVIOUS
  <1>14. j \in 1 .. Len(nodes[id].items) /\ Pointed(nodes[id].items, item, j - 1)
         /\ s[k].nodeId = nodes[id].items[j].nodeId
    BY <1>9, <1>12, <1>13
  <1>15. NotLeft(nodes, s[k].nodeId, item)
    BY <1>7, <1>9, <1>11, <1>14, NotLeftChild DEF Within
  <1>16. NotRight(nodes, s[k].nodeId, item)
    BY <1>7, <1>9, <1>11, <1>14, NotRightChild DEF Within
  <1> QED
    BY <1>3, <1>15, <1>16 DEF Within

-----------------------------------------------------------------------------
(* A node whose keys are replaced.                                         *)
Rekeyed(T, T2, q, K) ==
    /\ q \in DOMAIN T /\ DOMAIN T2 = DOMAIN T
    /\ T2 \in [DOMAIN T2 -> NodeType]
    /\ T2[q].items = K
    /\ \A id \in DOMAIN T :
          /\ id # q => T2[id].items = T[id].items
          /\ T2[id].nextSibling = T[id].nextSibling
          /\ T2[id].prevSibling = T[id].prevSibling
          /\ T2[id].accumCount = T[id].accumCount
          /\ T2[id].accum = T[id].accum

LEMMA RekeyedIs ==
    ASSUME NEW T, NEW h, Stored(T, h), NEW q \in DOMAIN T, NEW K \in Seq(KeyType),
           NEW T2, T2 = [T EXCEPT ![q].items = K]
    PROVE  Rekeyed(T, T2, q, K)
  <1>1. T \in [DOMAIN T -> NodeType]
    BY DEF Stored
  <1>2. \A id \in DOMAIN T : T[id] \in NodeType
    BY <1>1
  <1>3. DOMAIN T2 = DOMAIN T /\ T2 = [id \in DOMAIN T |->
            IF id = q THEN [T[q] EXCEPT !.items = K] ELSE T[id]]
    BY <1>1
  <1>4. [T[q] EXCEPT !.items = K] \in NodeType
    BY <1>2 DEF NodeType
  <1>5. T2 \in [DOMAIN T2 -> NodeType]
    BY <1>2, <1>3, <1>4
  <1>6. T2[q] = [T[q] EXCEPT !.items = K] /\ \A id \in DOMAIN T : id # q => T2[id] = T[id]
    BY <1>3
  <1>7. /\ T2[q].items = K /\ T2[q].nextSibling = T[q].nextSibling
        /\ T2[q].prevSibling = T[q].prevSibling
        /\ T2[q].accumCount = T[q].accumCount
        /\ T2[q].accum = T[q].accum
    BY <1>2, <1>6 DEF NodeType
  <1> QED
    BY <1>3, <1>5, <1>6, <1>7 DEF Rekeyed

(* Keys that a leaf may have.                                              *)
LeafKeys(T, q, K) ==
    /\ K \in Seq(KeyType) /\ Ascends(K)
    /\ \A i \in 1 .. Len(K) : K[i].nodeId = 0
    /\ Len(K) > 0 =>
          /\ T[q].prevSibling = 0 \/ T[q].items[1].item <= K[1].item
          /\ T[q].nextSibling # 0 =>
                K[Len(K)].item < firstItem(T, T[q].nextSibling)

LEMMA LeafOrder ==
    ASSUME NEW T, NEW T2, NEW h, NEW root, Sound(T, h, root), NEW q, h[q] = 0,
           NEW K, LeafKeys(T, q, K), Rekeyed(T, T2, q, K)
    PROVE  \A id \in DOMAIN T : OrderedAt(T2, id)
  <1>q. q \in DOMAIN T /\ SoundNode(T, h, q)
    BY NodeOfSound DEF Rekeyed
  <1>s. Stored(T, h)
    BY DEF Sound, Structure
  <1>k. /\ K \in Seq(KeyType) /\ Len(K) \in Nat /\ DOMAIN K = 1 .. Len(K)
        /\ \A i \in 1 .. Len(K) : K[i] \in KeyType /\ K[i].item \in Nat
    BY KeyParts DEF LeafKeys
  <1>1. SUFFICES ASSUME NEW id \in DOMAIN T PROVE OrderedAt(T2, id)
    OBVIOUS
  <1>2. SoundNode(T, h, id)
    BY NodeOfSound
  <1>3. PICK x : x = T[id].nextSibling
    OBVIOUS
  <1>4. T2[id].nextSibling = x
    BY <1>3 DEF Rekeyed
  <1>5. CASE id = q
    <2>1. x # q
      BY <1>s, <1>3, <1>5, <1>q, NotItsSibling DEF SoundNode
    <2>2. ASSUME NEW i \in DOMAIN K, nextKey(T2, q, i) # none
          PROVE  K[i].item < nextKey(T2, q, i).item
      <3>1. CASE i < Len(K)
        <4>1. i \in 1 .. Len(K) /\ i + 1 \in 1 .. Len(K) /\ i < i + 1
          BY <1>k, <3>1
        <4>2. K[i].item < K[i + 1].item
          BY <4>1 DEF LeafKeys, Ascends
        <4>3. nextKey(T2, q, i) = K[i + 1]
          BY <3>1 DEF nextKey, Rekeyed
        <4> QED
          BY <4>2, <4>3
      <3>2. CASE ~(i < Len(K))
        <4>1. i = Len(K) /\ Len(K) > 0
          BY <1>k, <3>2
        <4>2. nextKey(T2, q, i) = firstKey(T2, x)
          BY <1>4, <1>5, <3>2 DEF nextKey, Rekeyed
        <4>3. x # 0
          BY <2>2, <4>2 DEF firstKey
        <4>4. x \in DOMAIN T
          BY <1>2, <1>3, <4>3 DEF SoundNode, LinkedAt
        <4>5. T2[x].items = T[x].items /\ SoundNode(T, h, x)
          BY <2>1, <4>4, NodeOfSound DEF Rekeyed
        <4>6. firstKey(T2, x) = T[x].items[1]
          BY <4>3, <4>5 DEF firstKey, SoundNode
        <4>7. K[Len(K)].item < firstItem(T, x)
          BY <1>3, <1>5, <4>1, <4>3 DEF LeafKeys
        <4> QED
          BY <4>1, <4>2, <4>6, <4>7 DEF firstItem
      <3> QED
        BY <3>1, <3>2
    <2>3. T2[q].items = K
      BY DEF Rekeyed
    <2> QED
      BY <1>5, <2>2, <2>3 DEF OrderedAt
  <1>6. CASE id # q
    <2>1. T2[id].items = T[id].items
      BY <1>6 DEF Rekeyed
    <2>2. CASE x # q
      <3>1. x # 0 => x \in DOMAIN T
        BY <1>2, <1>3 DEF SoundNode, LinkedAt
      <3>2. firstKey(T2, x) = firstKey(T, x)
        BY <2>2, <3>1 DEF firstKey, Rekeyed
      <3>3. \A i : nextKey(T2, id, i) = nextKey(T, id, i)
        BY <1>3, <1>4, <2>1, <3>2, KeptNextKey
      <3> QED
        BY <1>2, <2>1, <3>3 DEF OrderedAt, SoundNode
    <2>3. CASE x = q
      <3>1. PICK keys : keys = T[id].items
        OBVIOUS
      <3>2. /\ Len(keys) \in Nat /\ DOMAIN keys = 1 .. Len(keys)
            /\ \A i \in 1 .. Len(keys) : keys[i].item \in Nat
            /\ T2[id].items = keys
        BY <1>2, <2>1, <3>1 DEF SoundNode
      <3>3. SUFFICES ASSUME NEW i \in DOMAIN keys, nextKey(T2, id, i) # none
                     PROVE  keys[i].item < nextKey(T2, id, i).item
        BY <3>2 DEF OrderedAt
      <3>4. CASE i < Len(keys)
        <4>1. nextKey(T2, id, i) = nextKey(T, id, i)
          BY <3>1, <3>2, <3>4 DEF nextKey
        <4> QED
          BY <1>2, <3>1, <3>3, <4>1 DEF SoundNode, OrderedAt
      <3>5. CASE ~(i < Len(keys))
        <4>1. q # 0
          BY <1>q DEF SoundNode
        <4>2. nextKey(T2, id, i) = firstKey(T2, q) /\ nextKey(T, id, i) = firstKey(T, q)
          BY <1>3, <1>4, <2>3, <3>1, <3>2, <3>5 DEF nextKey
        <4>3. firstKey(T, q) = T[q].items[1] /\ T[q].items[1] # none
              /\ T[q].items[1].item \in Nat
          BY <4>1, <1>q DEF firstKey, SoundNode
        <4>4. keys[i].item < T[q].items[1].item
          BY <1>2, <3>1, <4>2, <4>3 DEF SoundNode, OrderedAt
        <4>5. Len(K) # 0 /\ firstKey(T2, q) = K[1]
          BY <3>3, <4>2 DEF firstKey, Rekeyed
        <4>6. T[q].prevSibling # 0
          BY <1>2, <1>3, <2>3, <4>1 DEF SoundNode, LinkedAt
        <4>7. T[q].items[1].item <= K[1].item /\ K[1].item \in Nat
          BY <1>k, <4>5, <4>6 DEF LeafKeys
        <4> QED
          BY <3>2, <4>2, <4>3, <4>4, <4>5, <4>7
      <3> QED
        BY <3>4, <3>5
    <2> QED
      BY <2>2, <2>3
  <1> QED
    BY <1>5, <1>6

LEMMA LeafRekeyed ==
    ASSUME NEW T, NEW T2, NEW h, NEW root, Sound(T, h, root), NEW q, h[q] = 0,
           NEW K, LeafKeys(T, q, K), Rekeyed(T, T2, q, K)
    PROVE  Structure(T2, h, q) /\ Rooted(T2, h, root)
  <1>q. q \in DOMAIN T /\ SoundNode(T, h, q) /\ DOMAIN T2 = DOMAIN T
    BY NodeOfSound DEF Rekeyed
  <1>s. Structure(T, h, 0) /\ Rooted(T, h, root)
    BY DEF Sound
  <1>1. Stored(T2, h)
    BY <1>s DEF Structure, Stored, Rekeyed
  <1>0. /\ DOMAIN T[q].items = 1 .. Len(T[q].items)
        /\ \A i \in DOMAIN T[q].items : T[q].items[i].nodeId = 0
    BY <1>q DEF SoundNode, LevelsAt
  <1>k. DOMAIN K = 1 .. Len(K) /\ \A i \in DOMAIN K : K[i].nodeId = 0
    BY DEF LeafKeys
  <1>2. OneParent(T2)
    BY <1>s, <1>q, <1>k DEF Structure, OneParent, Rekeyed
  <1>3. ASSUME NEW id \in DOMAIN T
        PROVE  LevelsAt(T2, h, id) /\ LinkedAt(T2, h, id)
    <2>1. LevelsAt(T, h, id) /\ LinkedAt(T, h, id)
      BY <1>s DEF Structure
    <2>2. LevelsAt(T2, h, id)
      BY <1>k, <2>1 DEF LevelsAt, Rekeyed
    <2>3. LinkedAt(T2, h, id)
      BY <2>1 DEF LinkedAt, Rekeyed
    <2> QED
      BY <2>2, <2>3
  <1>4. ASSUME NEW id \in DOMAIN T, h[id] > 0
        PROVE  AdjacentAt(T2, h, id)
    <2>1. LevelsAt(T, h, id) /\ LinkedAt(T, h, id) /\ AdjacentAt(T, h, id) /\ h[id] # 0
      BY <1>s, <1>4 DEF Structure
    <2>2. id # q
      BY <1>4
    <2>3. T2[id].items = T[id].items /\ T2[id].nextSibling = T[id].nextSibling
      BY <2>2 DEF Rekeyed
    <2>4. PICK x : x = T[id].nextSibling
      OBVIOUS
    <2>5. x # 0 => x \in DOMAIN T /\ x # q
      BY <2>1, <2>4 DEF LinkedAt
    <2>6. firstKey(T2, x) = firstKey(T, x)
      BY <2>5 DEF firstKey, Rekeyed
    <2>7. \A i : nextKey(T2, id, i) = nextKey(T, id, i)
      BY <2>3, <2>4, <2>6, KeptNextKey
    <2>8. \A i \in DOMAIN T[id].items :
              T2[T[id].items[i].nodeId].nextSibling = T[T[id].items[i].nodeId].nextSibling
      BY <2>1 DEF LevelsAt, Rekeyed
    <2> QED
      BY <2>1, <2>3, <2>7, <2>8, <1>4 DEF AdjacentAt
  <1>5. \A id \in DOMAIN T : OrderedAt(T2, id)
    BY LeafOrder
  <1>6. Structure(T2, h, q)
    BY <1>q, <1>1, <1>2, <1>3, <1>4, <1>5 DEF Structure, AdjacentAt
  <1>7. ASSUME NEW id \in DOMAIN T, IsChild(T, id)
        PROVE  IsChild(T2, id)
    <2>1. PICK a \in DOMAIN T : \E i \in DOMAIN T[a].items : T[a].items[i].nodeId = id
      BY <1>7 DEF IsChild
    <2>2. id # 0
      BY NodeOfSound DEF SoundNode
    <2>3. a # q
      BY <2>1, <2>2, <1>0
    <2>4. T2[a].items = T[a].items
      BY <2>3 DEF Rekeyed
    <2> QED
      BY <1>q, <2>1, <2>4 DEF IsChild
  <1>8. Rooted(T2, h, root)
    BY <1>q, <1>s, <1>7 DEF Rooted, Rekeyed
  <1> QED
    BY <1>6, <1>8

-----------------------------------------------------------------------------
(* A leaf with an item more.                                               *)
LeafAdded(T, q, item, K) ==
    /\ LeafKeys(T, q, K)
    /\ \E i \in 1 .. Len(T[q].items) + 1 :
          /\ K = InsertAt(T[q].items, i, Key(item, 0))
          /\ Inserted(KeyType, T[q].items, i, Key(item, 0), K)
    /\ K[1] = T[q].items[1] \/ item < T[q].items[1].item
    /\ \A i \in 3 .. Len(K) : T[q].items[1].item < K[i].item

(* Where the key goes. *)
LeafPlace(T, q, item, i) ==
    LET keys == T[q].items
    IN  /\ i \in 1 .. Len(keys) + 1
        /\ i = 1 => T[q].prevSibling = 0
        /\ i # 1 => keys[i - 1].item < item
        /\ i <= Len(keys) => item < keys[i].item

LEMMA LeafPlaceIs ==
    ASSUME NEW T, NEW h, NEW root, Sound(T, h, root), NEW q \in DOMAIN T,
           NEW item \in Nat, NotLeft(T, q, item), NEW k, Pointed(T[q].items, item, k),
           T[q].items[k + 1].item # item
    PROVE  \E i : LeafPlace(T, q, item, i)
  <1>1. SoundNode(T, h, q)
    BY NodeOfSound
  <1>2. PICK keys : keys = T[q].items
    OBVIOUS
  <1>3. PICK n : n = Len(keys)
    OBVIOUS
  <1>4. /\ n \in Nat /\ n > 0 /\ k \in 0 .. n - 1 /\ k + 1 \in 1 .. n
        /\ \A i \in 1 .. n : keys[i].item \in Nat
        /\ \A i, j \in 1 .. n : i < j => keys[i].item < keys[j].item
        /\ k = 0 \/ keys[k + 1].item <= item
        /\ \A j \in k + 2 .. n : item < keys[j].item
        /\ keys[k + 1].item # item
    BY <1>1, <1>2, <1>3 DEF SoundNode, Pointed, Ascends
  <1>5. CASE item < keys[k + 1].item
    <2>1. k = 0 /\ 1 \in 1 .. n /\ item < keys[1].item
      <3>1. keys[k + 1].item \in Nat
        BY <1>4
      <3> QED
        BY <1>4, <1>5, <3>1
    <2>2. T[q].prevSibling = 0
      <3>1. firstItem(T, q) = keys[1].item /\ keys[1].item \in Nat
        BY <1>2, <1>4, <2>1 DEF firstItem
      <3>2. ~(keys[1].item <= item)
        BY <2>1, <3>1
      <3> QED
        BY <3>1, <3>2 DEF NotLeft
    <2>3. LeafPlace(T, q, item, 1)
      <3>1. 1 \in 1 .. n + 1
        BY <1>4
      <3> QED
        BY <1>2, <1>3, <2>1, <2>2, <3>1 DEF LeafPlace
    <2> QED
      BY <2>3
  <1>6. CASE ~(item < keys[k + 1].item)
    <2>1. keys[k + 1].item \in Nat
      BY <1>4
    <2>2. keys[k + 1].item < item
      BY <1>4, <1>6, <2>1
    <2>3. k + 2 \in 1 .. n + 1 /\ k + 2 # 1 /\ (k + 2) - 1 = k + 1
          /\ (k + 2 <= n => k + 2 \in k + 2 .. n)
      BY <1>4
    <2>4. k + 2 <= n => item < keys[k + 2].item
      BY <2>3, <1>4
    <2>5. LeafPlace(T, q, item, k + 2)
      BY <1>2, <1>3, <2>2, <2>3, <2>4 DEF LeafPlace
    <2> QED
      BY <2>5
  <1> QED
    BY <1>5, <1>6

LEMMA LeafInsert ==
    ASSUME NEW T, NEW h, NEW root, Sound(T, h, root), NEW q \in DOMAIN T, h[q] = 0,
           NEW item \in Items, Within(T, q, item), NEW k, Pointed(T[q].items, item, k),
           T[q].items[k + 1].item # item,
           NEW K, K = withKey(T[q].items, Key(item, 0))
    PROVE  LeafAdded(T, q, item, K)
  <1>i. item \in Nat
    BY ItemsAssumption
  <1>1. SoundNode(T, h, q)
    BY NodeOfSound
  <1>2. PICK keys : keys = T[q].items
    OBVIOUS
  <1>3. PICK n : n = Len(keys)
    OBVIOUS
  <1>4. /\ n \in Nat /\ n > 0 /\ keys \in Seq(KeyType) /\ Ascends(keys)
        /\ \A j \in 1 .. n : keys[j].item \in Nat /\ keys[j].nodeId = 0
        /\ \A a, b \in 1 .. n : a < b => keys[a].item < keys[b].item
    BY <1>1, <1>2, <1>3 DEF SoundNode, LevelsAt, Ascends
  <1>5. PICK key : key = Key(item, 0)
    OBVIOUS
  <1>6. key \in KeyType /\ key.item = item /\ key.nodeId = 0
    BY <1>5 DEF Key, KeyType
  <1>7. PICK i : LeafPlace(T, q, item, i)
    BY <1>i, LeafPlaceIs DEF Within
  <1>8. /\ i \in 1 .. n + 1
        /\ i = 1 => T[q].prevSibling = 0
        /\ i # 1 => keys[i - 1].item < item
        /\ i <= n => item < keys[i].item
    BY <1>2, <1>3, <1>7 DEF LeafPlace
  <1>9. K = InsertAt(keys, i, key)
    <2>1. i = 1 \/ keys[i - 1].item <= key.item
      <3>1. i # 1 => i - 1 \in 1 .. n
        BY <1>4, <1>8
      <3> QED
        BY <3>1, <1>i, <1>4, <1>6, <1>8
    <2>2. i > Len(keys) \/ key.item < keys[i].item
      BY <1>3, <1>4, <1>6, <1>8
    <2>3. i \in 1 .. Len(keys) + 1
      BY <1>3, <1>8
    <2>4. withKey(keys, key) = InsertAt(keys, i, key)
      BY <1>4, <1>6, <2>1, <2>2, <2>3, PlaceIs
    <2> QED
      BY <1>2, <1>5, <2>4
  <1>10. Inserted(KeyType, keys, i, key, K)
    <2>1. i \in 1 .. Len(keys) + 1
      BY <1>3, <1>8
    <2> QED
      BY <1>4, <1>6, <1>9, <2>1, InsertAtIs
  <1>11. /\ K \in Seq(KeyType) /\ Len(K) = n + 1
         /\ \A j \in 1 .. i - 1 : K[j] = keys[j]
         /\ K[i] = key
         /\ \A j \in i .. n : K[j + 1] = keys[j]
    BY <1>3, <1>10 DEF Inserted
  <1>12. ASSUME NEW j \in 1 .. n + 1
         PROVE  /\ j < i => j \in 1 .. n /\ K[j] = keys[j]
                /\ j > i => j - 1 \in 1 .. n /\ K[j] = keys[j - 1]
                /\ j = i => K[j] = key
    <2>1. j < i => j \in 1 .. n /\ K[j] = keys[j]
      BY <1>4, <1>8, <1>11
    <2>2. j > i => j - 1 \in 1 .. n /\ K[j] = keys[j - 1]
      <3>1. j > i => j - 1 \in i .. n /\ (j - 1) + 1 = j /\ j - 1 \in 1 .. n
        BY <1>4, <1>8
      <3> QED
        BY <3>1, <1>11
    <2> QED
      BY <2>1, <2>2, <1>11
  <1>13. \A j \in 1 .. n + 1 : K[j].item \in Nat /\ K[j].nodeId = 0
    BY <1>i, <1>4, <1>6, <1>8, <1>12
  <1>14. ASSUME NEW j \in 1 .. n + 1
         PROVE  /\ j < i => K[j].item < item
                /\ j > i => item < K[j].item
    <2>1. ASSUME j < i
          PROVE  K[j].item < item
      <3>1. i - 1 \in 1 .. n /\ j \in 1 .. n /\ (j = i - 1 \/ j < i - 1) /\ i # 1
        BY <2>1, <1>4, <1>8
      <3>2. K[j] = keys[j] /\ keys[i - 1].item < item /\ keys[j].item \in Nat
            /\ keys[i - 1].item \in Nat
        BY <2>1, <3>1, <1>4, <1>8, <1>12
      <3>3. j < i - 1 => keys[j].item < keys[i - 1].item
        BY <3>1, <1>4
      <3> QED
        BY <3>1, <3>2, <3>3, <1>i
    <2>2. ASSUME j > i
          PROVE  item < K[j].item
      <3>1. j - 1 \in 1 .. n /\ i \in 1 .. n /\ (j - 1 = i \/ i < j - 1) /\ i <= n
        BY <2>2, <1>4, <1>8
      <3>2. K[j] = keys[j - 1] /\ item < keys[i].item /\ keys[j - 1].item \in Nat
            /\ keys[i].item \in Nat
        BY <2>2, <3>1, <1>4, <1>8, <1>12
      <3>3. i < j - 1 => keys[i].item < keys[j - 1].item
        BY <3>1, <1>4
      <3> QED
        BY <3>1, <3>2, <3>3, <1>i
    <2> QED
      BY <2>1, <2>2
  <1>15. Ascends(K)
    <2>1. SUFFICES ASSUME NEW a \in 1 .. n + 1, NEW b \in 1 .. n + 1, a < b
                   PROVE  K[a].item < K[b].item
      BY <1>11 DEF Ascends
    <2>2. K[a].item \in Nat /\ K[b].item \in Nat
      BY <1>13
    <2>3. CASE a < i /\ b < i
      BY <2>1, <2>3, <1>4, <1>12
    <2>4. CASE a > i /\ b > i
      <3>1. a - 1 \in 1 .. n /\ b - 1 \in 1 .. n /\ a - 1 < b - 1
            /\ K[a] = keys[a - 1] /\ K[b] = keys[b - 1]
        BY <2>1, <2>4, <1>12
      <3> QED
        BY <3>1, <1>4
    <2>5. CASE a <= i /\ b >= i
      <3>3. (a = i \/ a < i) /\ (b = i \/ b > i)
        BY <2>5, <1>8
      <3>4. K[i].item = item
        BY <1>6, <1>11
      <3>5. (a = i => K[a].item = item) /\ (b = i => K[b].item = item)
        BY <3>4
      <3>6. (a < i => K[a].item < item) /\ (b > i => item < K[b].item)
        BY <1>14
      <3>1. K[a].item <= item /\ (a < i => K[a].item < item)
            /\ item <= K[b].item /\ (b > i => item < K[b].item)
        BY <3>3, <3>5, <3>6, <2>2, <1>i
      <3>2. a < i \/ b > i
        BY <2>1, <2>5, <1>8
      <3> QED
        BY <3>1, <3>2, <2>2, <1>i
    <2> QED
      BY <2>1, <2>3, <2>4, <2>5, <1>8
  <1>16. LeafKeys(T, q, K)
    <2>1. 1 \in 1 .. n + 1 /\ n + 1 \in 1 .. n + 1 /\ n \in 1 .. n /\ 1 \in 1 .. n
      BY <1>4
    <2>2. T[q].prevSibling = 0 \/ T[q].items[1].item <= K[1].item
      <3>1. i # 1 => 1 < i
        BY <1>8
      <3>2. i # 1 => K[1] = keys[1]
        BY <2>1, <3>1, <1>12
      <3> QED
        BY <2>1, <3>2, <1>2, <1>4, <1>8
    <2>3. ASSUME T[q].nextSibling # 0
          PROVE  K[n + 1].item < firstItem(T, T[q].nextSibling)
      <3>1. item < firstItem(T, T[q].nextSibling)
        BY <2>3 DEF Within, NotRight
      <3>2. CASE i = n + 1
        BY <3>1, <3>2, <1>6, <1>11
      <3>3. CASE i # n + 1
        <4>1. n + 1 > i /\ (n + 1) - 1 = n
          BY <3>3, <1>4, <1>8
        <4>2. K[n + 1] = keys[n]
          BY <4>1, <2>1, <1>12
        <4>3. PICK x : x = T[q].nextSibling
          OBVIOUS
        <4>4. x # 0 /\ x \in DOMAIN T
          BY <4>3, <2>3, <1>1 DEF SoundNode, LinkedAt
        <4>5. SoundNode(T, h, x)
          BY <4>4, NodeOfSound
        <4>6. firstKey(T, x) = T[x].items[1] /\ T[x].items[1] # none
          BY <4>4, <4>5 DEF firstKey, SoundNode
        <4>7. nextKey(T, q, n) = T[x].items[1]
          <5>1. ~(n < n)
            BY <1>4
          <5> QED
            BY <5>1, <4>3, <4>6, <1>2, <1>3 DEF nextKey
        <4>8. keys[n].item < T[x].items[1].item
          BY <4>6, <4>7, <2>1, <1>1, <1>2, <1>3 DEF SoundNode, OrderedAt
        <4> QED
          BY <4>2, <4>3, <4>8 DEF firstItem
      <3> QED
        BY <3>2, <3>3
    <2> QED
      BY <2>1, <2>2, <2>3, <1>11, <1>13, <1>15 DEF LeafKeys
  <1>17. K[1] = keys[1] \/ item < keys[1].item
    <2>1. 1 \in 1 .. n + 1 /\ (i = 1 \/ 1 < i) /\ 1 <= n
      BY <1>4, <1>8
    <2> QED
      BY <2>1, <1>8, <1>12
  <1>18. \A j \in 3 .. Len(K) : keys[1].item < K[j].item
    <2>1. SUFFICES ASSUME NEW j \in 3 .. n + 1 PROVE keys[1].item < K[j].item
      BY <1>11
    <2>2. j \in 1 .. n + 1 /\ 1 \in 1 .. n /\ j - 1 > 1 /\ j > 1 /\ 1 \in 1 .. n + 1
      BY <2>1, <1>4
    <2>3. CASE j < i
      <3>1. j \in 1 .. n /\ K[j] = keys[j]
        BY <2>2, <2>3, <1>12
      <3> QED
        BY <3>1, <2>2, <1>4
    <2>4. CASE j > i
      <3>1. j - 1 \in 1 .. n /\ K[j] = keys[j - 1] /\ 1 < j - 1
        BY <2>2, <2>4, <1>12
      <3> QED
        BY <3>1, <2>2, <1>4
    <2>5. CASE j = i
      <3>1. 1 < i /\ K[1] = keys[1] /\ K[j] = key
        BY <2>2, <2>5, <1>12
      <3> QED
        BY <3>1, <2>2, <1>6, <1>14
    <2> QED
      BY <2>2, <2>3, <2>4, <2>5, <1>8
  <1> QED
    BY <1>2, <1>3, <1>5, <1>8, <1>9, <1>10, <1>16, <1>17, <1>18 DEF LeafAdded

-----------------------------------------------------------------------------
(* A leaf with an item less.                                               *)
LEMMA LeafRemove ==
    ASSUME NEW T, NEW h, NEW root, Sound(T, h, root), NEW q \in DOMAIN T, h[q] = 0,
           NEW k \in 1 .. Len(T[q].items), NEW K, K = RemoveAt(T[q].items, k)
    PROVE  LeafKeys(T, q, K)
  <1>1. SoundNode(T, h, q)
    BY NodeOfSound
  <1>2. PICK keys : keys = T[q].items
    OBVIOUS
  <1>3. PICK n : n = Len(keys)
    OBVIOUS
  <1>4. /\ n \in Nat /\ n > 0 /\ keys \in Seq(KeyType) /\ k \in 1 .. n
        /\ \A j \in 1 .. n : keys[j].item \in Nat /\ keys[j].nodeId = 0
        /\ \A a, b \in 1 .. n : a < b => keys[a].item < keys[b].item
    BY <1>1, <1>2, <1>3 DEF SoundNode, LevelsAt, Ascends
  <1>5. Removed(KeyType, keys, k, K)
    <2>1. k \in 1 .. Len(keys)
      BY <1>2
    <2> QED
      BY <2>1, <1>2, <1>4, RemoveAtIs
  <1>6. /\ K \in Seq(KeyType) /\ Len(K) = n - 1
        /\ \A j \in 1 .. k - 1 : K[j] = keys[j]
        /\ \A j \in k .. n - 1 : K[j] = keys[j + 1]
    BY <1>3, <1>5 DEF Removed
  <1>7. ASSUME NEW j \in 1 .. n - 1
        PROVE  \E i \in 1 .. n : /\ K[j] = keys[i]
                                 /\ i = IF j < k THEN j ELSE j + 1
    <2>1. CASE j < k
      <3>1. j \in 1 .. n /\ j \in 1 .. k - 1
        BY <2>1, <1>4
      <3> QED
        BY <2>1, <3>1, <1>6
    <2>2. CASE ~(j < k)
      <3>1. j + 1 \in 1 .. n /\ j \in k .. n - 1
        BY <2>2, <1>4
      <3> QED
        BY <2>2, <3>1, <1>6
    <2> QED
      BY <2>1, <2>2
  <1>8. Ascends(K)
    <2>1. SUFFICES ASSUME NEW a \in 1 .. n - 1, NEW b \in 1 .. n - 1, a < b
                   PROVE  K[a].item < K[b].item
      BY <1>6 DEF Ascends
    <2>2. PICK i \in 1 .. n : K[a] = keys[i] /\ i = IF a < k THEN a ELSE a + 1
      BY <1>7
    <2>3. PICK j \in 1 .. n : K[b] = keys[j] /\ j = IF b < k THEN b ELSE b + 1
      BY <1>7
    <2>4. i < j
      BY <2>1, <2>2, <2>3, <1>4
    <2> QED
      BY <2>2, <2>3, <2>4, <1>4
  <1>9. ASSUME n - 1 > 0
        PROVE  /\ keys[1].item <= K[1].item
               /\ T[q].nextSibling # 0 =>
                      K[n - 1].item < firstItem(T, T[q].nextSibling)
    <2>0. 1 \in 1 .. n /\ n \in 1 .. n /\ 1 \in 1 .. n - 1 /\ n - 1 \in 1 .. n - 1
      BY <1>9, <1>4
    <2>1. keys[1].item <= K[1].item
      <3>1. PICK i \in 1 .. n : K[1] = keys[i]
        BY <2>0, <1>7
      <3>2. i = 1 \/ 1 < i
        OBVIOUS
      <3>3. 1 < i => keys[1].item < keys[i].item
        BY <2>0, <1>4
      <3>4. keys[1].item \in Nat /\ keys[i].item \in Nat
        BY <2>0, <1>4
      <3> QED
        BY <3>1, <3>2, <3>3, <3>4
    <2>2. ASSUME T[q].nextSibling # 0
          PROVE  K[n - 1].item < firstItem(T, T[q].nextSibling)
      <3>1. PICK x : x = T[q].nextSibling
        OBVIOUS
      <3>2. x # 0 /\ x \in DOMAIN T
        BY <3>1, <2>2, <1>1 DEF SoundNode, LinkedAt
      <3>3. SoundNode(T, h, x)
        BY <3>2, NodeOfSound
      <3>4. firstKey(T, x) = T[x].items[1] /\ T[x].items[1] # none
            /\ T[x].items[1].item \in Nat
        BY <3>2, <3>3 DEF firstKey, SoundNode
      <3>5. nextKey(T, q, n) = T[x].items[1]
        <4>1. ~(n < n)
          BY <1>4
        <4> QED
          BY <4>1, <3>1, <3>4, <1>2, <1>3 DEF nextKey
      <3>6. keys[n].item < T[x].items[1].item
        BY <3>4, <3>5, <2>0, <1>1, <1>2, <1>3 DEF SoundNode, OrderedAt
      <3>7. PICK i \in 1 .. n : K[n - 1] = keys[i]
        BY <2>0, <1>7
      <3>8. i = n \/ i < n
        BY <1>4
      <3>9. i < n => keys[i].item < keys[n].item
        BY <2>0, <1>4
      <3>10. keys[n].item \in Nat /\ keys[i].item \in Nat
        BY <2>0, <1>4
      <3>11. K[n - 1].item < T[x].items[1].item
        BY <3>4, <3>6, <3>7, <3>8, <3>9, <3>10
      <3> QED
        BY <3>1, <3>11 DEF firstItem
    <2> QED
      BY <2>1, <2>2
  <1>10. \A j \in 1 .. n - 1 : K[j].nodeId = 0
    BY <1>4, <1>7
  <1> QED
    BY <1>2, <1>6, <1>8, <1>9, <1>10 DEF LeafKeys

(* What leaves hold then.                                                  *)
LEMMA AddedInLeaf ==
    ASSUME NEW T, NEW T2, NEW h, NEW q, h[q] = 0, NEW K, Rekeyed(T, T2, q, K),
           NEW i, NEW item, T[q].items \in Seq(KeyType),
           i \in 1 .. Len(T[q].items) + 1,
           Inserted(KeyType, T[q].items, i, Key(item, 0), K), NEW x
    PROVE  InLeaf(T2, h, x) <=> InLeaf(T, h, x) \/ x = item
  <1>1. PICK keys, key : keys = T[q].items /\ key = Key(item, 0)
    OBVIOUS
  <1>2. PICK n : n = Len(keys)
    OBVIOUS
  <1>3. /\ n \in Nat /\ i \in 1 .. n + 1 /\ DOMAIN keys = 1 .. n
        /\ Len(K) = n + 1 /\ DOMAIN K = 1 .. n + 1
        /\ \A j \in 1 .. i - 1 : K[j] = keys[j]
        /\ K[i] = key /\ key.item = item
        /\ \A j \in i .. n : K[j + 1] = keys[j]
    <2>1. Inserted(KeyType, keys, i, key, K)
      BY <1>1
    <2>2. key.item = item
      BY <1>1 DEF Key
    <2>3. keys \in Seq(KeyType) /\ i \in 1 .. n + 1 /\ n \in Nat /\ DOMAIN keys = 1 .. n
      BY <1>1, <1>2
    <2>4. K \in Seq(KeyType) /\ Len(K) = n + 1 /\ K[i] = key
          /\ (\A j \in 1 .. i - 1 : K[j] = keys[j])
          /\ (\A j \in i .. n : K[j + 1] = keys[j])
      BY <1>2, <2>1 DEF Inserted
    <2>5. DOMAIN K = 1 .. n + 1
      BY <2>3, <2>4
    <2> QED
      BY <2>2, <2>3, <2>4, <2>5
  <1>4. q \in DOMAIN T /\ DOMAIN T2 = DOMAIN T /\ T2[q].items = K
        /\ \A id \in DOMAIN T : id # q => T2[id].items = T[id].items
    BY DEF Rekeyed
  <1>5. ASSUME InLeaf(T2, h, x), x # item
        PROVE  InLeaf(T, h, x)
    <2>1. PICK id \in DOMAIN T : h[id] = 0 /\ \E j \in DOMAIN T2[id].items : T2[id].items[j].item = x
      BY <1>4, <1>5 DEF InLeaf
    <2>2. CASE id # q
      BY <1>4, <2>1, <2>2 DEF InLeaf
    <2>3. CASE id = q
      <3>1. PICK j \in 1 .. n + 1 : K[j].item = x
        BY <1>3, <1>4, <2>1, <2>3
      <3>2. j # i
        BY <1>3, <1>5, <3>1
      <3>3. CASE j < i
        <4>1. j \in 1 .. n /\ K[j] = keys[j]
          BY <1>3, <3>3
        <4> QED
          BY <1>1, <1>3, <1>4, <3>1, <4>1 DEF InLeaf
      <3>4. CASE j > i
        <4>1. j - 1 \in 1 .. n /\ j - 1 \in i .. n /\ (j - 1) + 1 = j
          BY <1>3, <3>4
        <4>2. K[j] = keys[j - 1]
          BY <1>3, <4>1
        <4> QED
          BY <1>1, <1>3, <1>4, <3>1, <4>1, <4>2 DEF InLeaf
      <3> QED
        BY <3>2, <3>3, <3>4, <1>3
    <2> QED
      BY <2>2, <2>3
  <1>6. ASSUME InLeaf(T, h, x)
        PROVE  InLeaf(T2, h, x)
    <2>1. PICK id \in DOMAIN T : h[id] = 0 /\ \E j \in DOMAIN T[id].items : T[id].items[j].item = x
      BY <1>6 DEF InLeaf
    <2>2. CASE id # q
      BY <1>4, <2>1, <2>2 DEF InLeaf
    <2>3. CASE id = q
      <3>1. PICK j \in 1 .. n : keys[j].item = x
        BY <1>1, <1>3, <2>1, <2>3
      <3>2. \E a \in 1 .. n + 1 : K[a] = keys[j]
        <4>1. CASE j < i
          <5>1. j \in 1 .. n + 1 /\ j \in 1 .. i - 1
            BY <1>3, <4>1
          <5> QED
            BY <1>3, <5>1
        <4>2. CASE ~(j < i)
          <5>1. j + 1 \in 1 .. n + 1 /\ j \in i .. n
            BY <1>3, <4>2
          <5> QED
            BY <1>3, <5>1
        <4> QED
          BY <4>1, <4>2
      <3> QED
        BY ZenonT(30), <1>3, <1>4, <3>1, <3>2 DEF InLeaf
    <2> QED
      BY <2>2, <2>3
  <1>7. InLeaf(T2, h, item)
    BY <1>3, <1>4 DEF InLeaf
  <1> QED
    BY <1>5, <1>6, <1>7

(* An item is in one place only.                                           *)
LEMMA OneLeaf ==
    ASSUME NEW h, Sound(nodes, h, rootNodeId),
           NEW a \in DOMAIN nodes, NEW i \in 1 .. Len(nodes[a].items), h[a] = 0,
           NEW b \in DOMAIN nodes, NEW j \in 1 .. Len(nodes[b].items), h[b] = 0,
           NEW item, item = nodes[a].items[i].item, item = nodes[b].items[j].item
    PROVE  a = b /\ i = j
  <1>1. SoundNode(nodes, h, a) /\ SoundNode(nodes, h, b)
    BY NodeOfSound
  <1>2. item \in Nat /\ i - 1 \in Int /\ j - 1 \in Int /\ i \in Int /\ j \in Int
    BY <1>1 DEF SoundNode
  <1>3. Within(nodes, a, item) /\ Pointed(nodes[a].items, item, i - 1)
        /\ Within(nodes, b, item) /\ Pointed(nodes[b].items, item, j - 1)
    BY LeafWithin
  <1>4. PICK s : s = searchItem(item)
    OBVIOUS
  <1>5. CrumbsFrom(s, rootNodeId, h, item)
    BY <1>2, <1>4, SearchCrumbs
  <1>6. PICK k \in 1 .. Len(s) : s[k].nodeId = a
    BY <1>2, <1>3, <1>5, SearchMeets
  <1>7. PICK m \in 1 .. Len(s) : s[m].nodeId = b
    BY <1>2, <1>3, <1>5, SearchMeets
  <1>8. CrumbAt(s, k, h, h[rootNodeId], item) /\ CrumbAt(s, m, h, h[rootNodeId], item)
    BY <1>5 DEF CrumbsFrom
  <1>9. h[rootNodeId] \in Nat
    <2>1. rootNodeId \in DOMAIN nodes
      BY DEF Sound, Rooted
    <2> QED
      BY <2>1, NodeOfSound DEF SoundNode
  <1>10. k = m
    BY <1>6, <1>7, <1>8, <1>9 DEF CrumbAt
  <1>11. a = b
    BY <1>6, <1>7, <1>10
  <1>12. i - 1 = j - 1
    BY <1>1, <1>2, <1>3, <1>11, OnePointed DEF SoundNode
  <1> QED
    BY <1>2, <1>11, <1>12

OnlyAt(T, h, item, q, k) ==
    /\ T[q].items[k].item = item
    /\ \A a \in DOMAIN T : h[a] = 0 => \A i \in DOMAIN T[a].items :
          T[a].items[i].item = item => a = q /\ i = k

LEMMA RemovedInLeaf ==
    ASSUME NEW T, NEW T2, NEW h, NEW q, h[q] = 0, NEW K, Rekeyed(T, T2, q, K),
           NEW k, NEW item, T[q].items \in Seq(KeyType),
           k \in 1 .. Len(T[q].items),
           Removed(KeyType, T[q].items, k, K),
           OnlyAt(T, h, item, q, k), NEW x
    PROVE  InLeaf(T2, h, x) <=> InLeaf(T, h, x) /\ x # item
  <1>1. PICK keys : keys = T[q].items
    OBVIOUS
  <1>2. PICK n : n = Len(keys)
    OBVIOUS
  <1>3. /\ n \in Nat /\ k \in 1 .. n /\ DOMAIN keys = 1 .. n
        /\ Len(K) = n - 1 /\ DOMAIN K = 1 .. n - 1
        /\ \A j \in 1 .. k - 1 : K[j] = keys[j]
        /\ \A j \in k .. n - 1 : K[j] = keys[j + 1]
    <2>1. Removed(KeyType, keys, k, K) /\ keys \in Seq(KeyType) /\ k \in 1 .. n
      BY <1>1, <1>2
    <2>2. n \in Nat /\ DOMAIN keys = 1 .. n
      BY <1>2, <2>1
    <2>3. K \in Seq(KeyType) /\ Len(K) = n - 1
          /\ (\A j \in 1 .. k - 1 : K[j] = keys[j])
          /\ (\A j \in k .. n - 1 : K[j] = keys[j + 1])
      BY <1>2, <2>1 DEF Removed
    <2> QED
      BY <2>1, <2>2, <2>3
  <1>4. q \in DOMAIN T /\ DOMAIN T2 = DOMAIN T /\ T2[q].items = K
        /\ \A id \in DOMAIN T : id # q => T2[id].items = T[id].items
    BY DEF Rekeyed
  <1>5. ASSUME InLeaf(T2, h, x)
        PROVE  InLeaf(T, h, x) /\ x # item
    <2>1. PICK id \in DOMAIN T : h[id] = 0 /\ \E j \in DOMAIN T2[id].items : T2[id].items[j].item = x
      BY <1>4, <1>5 DEF InLeaf
    <2>2. CASE id # q
      BY <1>4, <2>1, <2>2 DEF InLeaf, OnlyAt
    <2>3. CASE id = q
      <3>1. PICK j \in 1 .. n - 1 : K[j].item = x
        BY <1>3, <1>4, <2>1, <2>3
      <3>2. \E i \in 1 .. n : i # k /\ K[j] = keys[i]
        <4>1. CASE j < k
          <5>1. j \in 1 .. n /\ j \in 1 .. k - 1 /\ j # k
            BY <1>3, <4>1
          <5> QED
            BY <1>3, <5>1
        <4>2. CASE ~(j < k)
          <5>1. j + 1 \in 1 .. n /\ j \in k .. n - 1 /\ j + 1 # k
            BY <1>3, <4>2
          <5> QED
            BY <1>3, <5>1
        <4> QED
          BY <4>1, <4>2
      <3> QED
        BY <1>1, <1>3, <1>4, <3>1, <3>2 DEF InLeaf, OnlyAt
    <2> QED
      BY <2>2, <2>3
  <1>6. ASSUME InLeaf(T, h, x), x # item
        PROVE  InLeaf(T2, h, x)
    <2>1. PICK id \in DOMAIN T : h[id] = 0 /\ \E j \in DOMAIN T[id].items : T[id].items[j].item = x
      BY <1>6 DEF InLeaf
    <2>2. CASE id # q
      BY <1>4, <2>1, <2>2 DEF InLeaf
    <2>3. CASE id = q
      <3>1. PICK j \in 1 .. n : keys[j].item = x
        BY <1>1, <1>3, <2>1, <2>3
      <3>2. j # k
        BY <1>1, <1>6, <3>1 DEF OnlyAt
      <3>3. \E a \in 1 .. n - 1 : K[a] = keys[j]
        <4>1. CASE j < k
          <5>1. j \in 1 .. n - 1 /\ j \in 1 .. k - 1
            BY <1>3, <4>1
          <5> QED
            BY <1>3, <5>1
        <4>2. CASE j > k
          <5>1. j - 1 \in 1 .. n - 1 /\ j - 1 \in k .. n - 1 /\ (j - 1) + 1 = j
            BY <1>3, <4>2
          <5>2. K[j - 1] = keys[j]
            BY <1>3, <5>1
          <5> QED
            BY <5>1, <5>2
        <4> QED
          BY <3>2, <4>1, <4>2, <1>3
      <3>4. PICK a \in 1 .. n - 1 : K[a] = keys[j]
        BY <3>3
      <3>5. a \in DOMAIN T2[q].items /\ T2[q].items[a].item = x
        BY <1>3, <1>4, <3>1, <3>4
      <3> QED
        BY <1>4, <3>5 DEF InLeaf
    <2> QED
      BY <2>2, <2>3
  <1> QED
    BY <1>5, <1>6

-----------------------------------------------------------------------------
(* The middle of a call: the node id is about to have the keys K.          *)
Midway(N, h, s, root, id, K, cont) ==
    LET A == [N EXCEPT ![id].items = K]
    IN  /\ Structure(A, h, id)
        /\ Exact(N, id)
        /\ Stored(N, h)
        /\ \A item \in Items : item \in cont <=> InLeaf(A, h, item)
        /\ Rooted(A, h, root)
        /\ PathIn(N, s, root, h)

Counts(N, id, K, delta, item) ==
    /\ countOfAll(N, K) = N[id].accumCount + delta
    /\ accumOfAll(N, K) = N[id].accum + delta * item

InsertKeys(N, h, id, K, item, more) ==
    LET keys == N[id].items
    IN  /\ KeysFirst(N, K, IF item < keys[1].item THEN {1} ELSE {})
        /\ Counts(N, id, K, 1, item)
        /\ Len(K) = Len(keys) + more
        /\ \/ K[1] = keys[1]
           \/ h[id] = 0 /\ item < keys[1].item
        /\ \A i \in 3 .. Len(K) : keys[1].item < K[i].item

EraseKeys(N, id, index, K, item, pend, refresh) ==
    /\ KeysFirst(N, K, {index + 1} \cup (IF refresh THEN {index + 2} ELSE {}))
    /\ Counts(N, id, K, -1, item)
    /\ refresh => ~pend /\ index + 2 <= Len(N[id].items)

LEMMA MidwayInsert ==
    ASSUME NEW h, NEW id, NEW K, NEW N, nodes' = N, current' = id, id # 0,
           keysAhead' = K,
           Midway(N, h, breadcrumbs', rootNodeId', id, K, contents'),
           running' = "insert", oldNew' \in Items, ~neighbourRefreshNeeded',
           InsertKeys(N, h, id, K, oldNew', IF pending' THEN 1 ELSE 0),
           NotLeftOn(N, breadcrumbs', oldNew')
    PROVE  Shape(h)'
  <1>1. PICK A : A = [N EXCEPT ![id].items = K]
    OBVIOUS
  <1>2. ahead' = A
    BY <1>1 DEF ahead
  <1>3. /\ Structure(A, h, id) /\ Exact(N, id) /\ Stored(N, h)
        /\ \A item \in Items : item \in contents' <=> InLeaf(A, h, item)
        /\ Rooted(A, h, rootNodeId')
        /\ PathIn(N, breadcrumbs', rootNodeId', h)
    BY <1>1 DEF Midway
  <1>4. DOMAIN A = DOMAIN N
    BY <1>1
  <1>5. rootNodeId' \in DOMAIN N
    BY <1>3, <1>4 DEF Rooted
  <1>6. PathFrom(rootNodeId, h)'
    BY <1>3 DEF PathIn, PathFrom
  <1>7. InsertPath(h)'
    BY DEF NotLeftOn, InsertPath
  <1>8. InsertCurrent(h)'
    BY DEF InsertKeys, Counts, InsertCurrent, TotalsOff
  <1>9. Inserting(h)'
    BY <1>2, <1>3, <1>5, <1>6, <1>7, <1>8 DEF Inserting
  <1> QED
    BY <1>2, <1>3, <1>9 DEF Shape

LEMMA MidwayErase ==
    ASSUME NEW h, NEW id, NEW K, NEW N, nodes' = N, current' = id, id # 0,
           keysAhead' = K,
           Midway(N, h, breadcrumbs', rootNodeId', id, K, contents'),
           running' = "erase", oldNew' \in Items, newKey' = NoKey,
           EraseKeys(N, id, Crumb'.index, K, oldNew', pending', neighbourRefreshNeeded')
    PROVE  Shape(h)'
  <1>1. PICK A : A = [N EXCEPT ![id].items = K]
    OBVIOUS
  <1>2. ahead' = A
    BY <1>1 DEF ahead
  <1>3. /\ Structure(A, h, id) /\ Exact(N, id) /\ Stored(N, h)
        /\ \A item \in Items : item \in contents' <=> InLeaf(A, h, item)
        /\ Rooted(A, h, rootNodeId')
        /\ PathIn(N, breadcrumbs', rootNodeId', h)
    BY <1>1 DEF Midway
  <1>6. PathFrom(rootNodeId, h)'
    BY <1>3 DEF PathIn, PathFrom
  <1>8. EraseCurrent'
    BY DEF EraseKeys, Counts, EraseCurrent, TotalsOff
  <1>9. Erasing(h)'
    <2>1. breadcrumbs' # <<>>
      BY DEF current
    <2> QED
      BY <2>1, <1>2, <1>3, <1>6, <1>8 DEF Erasing
  <1> QED
    BY <1>2, <1>3, <1>9 DEF Shape

-----------------------------------------------------------------------------
(* Between two calls.                                                      *)
LEMMA SoundAtRest ==
    ASSUME NEW h, Shape(h), Idle
    PROVE  /\ ahead = nodes /\ current = 0 /\ breadcrumbs = <<>>
           /\ \A item \in Items : item \in contents <=> InLeaf(nodes, h, item)
           /\ rootNodeId = 0 => DOMAIN nodes = {}
           /\ rootNodeId # 0 => Sound(nodes, h, rootNodeId)
  <1>1. AtRest(h)
    BY DEF Shape, Idle
  <1>2. breadcrumbs = <<>>
    BY <1>1 DEF AtRest
  <1>3. current = 0 /\ ahead = nodes
    BY <1>2 DEF current, ahead
  <1>4. /\ Structure(nodes, h, 0) /\ Exact(nodes, 0)
        /\ \A item \in Items : item \in contents <=> InLeaf(nodes, h, item)
    BY <1>3 DEF Shape
  <1> QED
    BY <1>1, <1>2, <1>3, <1>4 DEF AtRest, Sound

LEMMA SoundShape ==
    ASSUME NEW h, NEW N, nodes' = N, running' = "none", breadcrumbs' = <<>>,
           oldNew' = 0, newKey' = NoKey, ~pending', ~neighbourRefreshNeeded',
           \A item \in Items : item \in contents' <=> InLeaf(N, h, item),
           Stored(N, h), Structure(N, h, 0), Exact(N, 0),
           IF rootNodeId' = 0 THEN DOMAIN N = {} ELSE Rooted(N, h, rootNodeId')
    PROVE  Shape(h)'
  <1>1. current' = 0
    BY DEF current
  <1>2. ahead' = N
    BY <1>1 DEF ahead
  <1>3. AtRest(h)'
    BY DEF AtRest
  <1> QED
    BY <1>1, <1>2, <1>3 DEF Shape

-----------------------------------------------------------------------------
(* The totals of keys with one key more or less.                           *)
LEMMA InsertCounts ==
    ASSUME NEW T, T \in [DOMAIN T -> NodeType], NEW keys \in Seq(KeyType),
           HasChildren(T, keys), NEW key \in KeyType,
           key.nodeId = 0 \/ key.nodeId \in DOMAIN T,
           NEW i \in 1 .. Len(keys) + 1, NEW K, K = InsertAt(keys, i, key),
           Inserted(KeyType, keys, i, key, K)
    PROVE  /\ countOfAll(T, K) = countOfAll(T, keys) + countOf(T, key)
           /\ accumOfAll(T, K) = accumOfAll(T, keys) + accumOf(T, key)
           /\ HasChildren(T, K)
  <1>1. K \in Seq(KeyType) /\ Len(K) = Len(keys) + 1 /\ K[i] = key
        /\ (\A j \in 1 .. i - 1 : K[j] = keys[j])
        /\ (\A j \in i .. Len(keys) : K[j + 1] = keys[j])
    BY DEF Inserted
  <1>2. HasChildren(T, K)
    <2>1. PICK n : n = Len(keys)
      OBVIOUS
    <2>2. n \in Nat /\ i \in 1 .. n + 1
      BY <2>1
    <2>3. SUFFICES ASSUME NEW a \in 1 .. n + 1
                   PROVE  K[a].nodeId = 0 \/ K[a].nodeId \in DOMAIN T
      BY <1>1, <2>1 DEF HasChildren
    <2>4. CASE a < i
      <3>1. a \in 1 .. i - 1 /\ a \in 1 .. n
        BY <2>2, <2>4
      <3> QED
        BY <1>1, <2>1, <3>1 DEF HasChildren
    <2>5. CASE a > i
      <3>1. a - 1 \in i .. n /\ a - 1 \in 1 .. n /\ (a - 1) + 1 = a
        BY <2>2, <2>5
      <3>2. K[a] = keys[a - 1]
        BY <1>1, <2>1, <3>1
      <3> QED
        BY <2>1, <3>1, <3>2 DEF HasChildren
    <2> QED
      BY <2>2, <2>4, <2>5, <1>1
  <1>3. PICK W, V : W = counted(T) /\ V = accumulated(T)
    OBVIOUS
  <1>4. W \in [KeyType -> Int] /\ V \in [KeyType -> Int]
    <2>1. W \in [KeyType -> Nat] /\ V \in [KeyType -> Nat]
      BY <1>3, CountedType
    <2> QED
      BY <2>1
  <1>5. W[key] = countOf(T, key) /\ V[key] = accumOf(T, key)
    BY <1>3 DEF counted, accumulated
  <1>6. weight(W, K) = weight(W, keys) + W[key] /\ weight(V, K) = weight(V, keys) + V[key]
    BY <1>4, WeightInsert
  <1>7. countOfAll(T, K) = weight(W, K) /\ accumOfAll(T, K) = weight(V, K)
    BY <1>1, <1>2, <1>3, CountIsWeight
  <1>8. countOfAll(T, keys) = weight(W, keys) /\ accumOfAll(T, keys) = weight(V, keys)
    BY <1>3, CountIsWeight
  <1> QED
    BY <1>2, <1>5, <1>6, <1>7, <1>8

LEMMA RemoveCounts ==
    ASSUME NEW T, T \in [DOMAIN T -> NodeType], NEW keys \in Seq(KeyType),
           HasChildren(T, keys), NEW i \in 1 .. Len(keys),
           NEW K, K = RemoveAt(keys, i), Removed(KeyType, keys, i, K)
    PROVE  /\ countOfAll(T, K) = countOfAll(T, keys) - countOf(T, keys[i])
           /\ accumOfAll(T, K) = accumOfAll(T, keys) - accumOf(T, keys[i])
           /\ HasChildren(T, K)
  <1>1. K \in Seq(KeyType) /\ Len(K) = Len(keys) - 1
        /\ (\A j \in 1 .. i - 1 : K[j] = keys[j])
        /\ (\A j \in i .. Len(K) : K[j] = keys[j + 1])
    BY DEF Removed
  <1>2. HasChildren(T, K)
    <2>1. PICK n : n = Len(keys)
      OBVIOUS
    <2>2. n \in Nat /\ i \in 1 .. n /\ Len(K) = n - 1
      BY <1>1, <2>1
    <2>3. SUFFICES ASSUME NEW a \in 1 .. n - 1
                   PROVE  K[a].nodeId = 0 \/ K[a].nodeId \in DOMAIN T
      BY <2>2 DEF HasChildren
    <2>4. CASE a < i
      <3>1. a \in 1 .. i - 1 /\ a \in 1 .. n
        BY <2>2, <2>4
      <3> QED
        BY <1>1, <2>1, <3>1 DEF HasChildren
    <2>5. CASE ~(a < i)
      <3>1. a \in i .. n - 1 /\ a + 1 \in 1 .. n
        BY <2>2, <2>5
      <3>2. K[a] = keys[a + 1]
        BY <1>1, <2>2, <3>1
      <3> QED
        BY <2>1, <3>1, <3>2 DEF HasChildren
    <2> QED
      BY <2>4, <2>5
  <1>3. PICK W, V : W = counted(T) /\ V = accumulated(T)
    OBVIOUS
  <1>4. W \in [KeyType -> Int] /\ V \in [KeyType -> Int]
    <2>1. W \in [KeyType -> Nat] /\ V \in [KeyType -> Nat]
      BY <1>3, CountedType
    <2> QED
      BY <2>1
  <1>5. W[keys[i]] = countOf(T, keys[i]) /\ V[keys[i]] = accumOf(T, keys[i])
    <2>1. keys[i] \in KeyType /\ (keys[i].nodeId = 0 \/ keys[i].nodeId \in DOMAIN T)
      BY DEF HasChildren
    <2> QED
      BY <1>3, <2>1 DEF counted, accumulated
  <1>6. weight(W, K) = weight(W, keys) - W[keys[i]] /\ weight(V, K) = weight(V, keys) - V[keys[i]]
    BY <1>4, WeightRemove
  <1>7. countOfAll(T, K) = weight(W, K) /\ accumOfAll(T, K) = weight(V, K)
    BY <1>1, <1>2, <1>3, CountIsWeight
  <1>8. countOfAll(T, keys) = weight(W, keys) /\ accumOfAll(T, keys) = weight(V, keys)
    BY <1>3, CountIsWeight
  <1> QED
    BY <1>2, <1>5, <1>6, <1>7, <1>8

LEMMA CountType ==
    ASSUME NEW T, T \in [DOMAIN T -> NodeType], NEW keys \in Seq(KeyType),
           HasChildren(T, keys)
    PROVE  countOfAll(T, keys) \in Nat /\ accumOfAll(T, keys) \in Nat
  <1>1. counted(T) \in [KeyType -> Nat] /\ accumulated(T) \in [KeyType -> Nat]
    BY CountedType
  <1>2. weight(counted(T), keys) \in Nat /\ weight(accumulated(T), keys) \in Nat
    BY <1>1, WeightNat
  <1> QED
    BY <1>2, CountIsWeight

LEMMA SoundCounts ==
    ASSUME NEW T, NEW h, NEW root, Sound(T, h, root), NEW id \in DOMAIN T
    PROVE  /\ HasChildren(T, T[id].items)
           /\ countOfAll(T, T[id].items) = T[id].accumCount
           /\ accumOfAll(T, T[id].items) = T[id].accum
  <1>1. SoundNode(T, h, id)
    BY NodeOfSound
  <1>2. HasChildren(T, T[id].items)
    BY <1>1 DEF SoundNode, LevelsAt, HasChildren
  <1> QED
    BY <1>1, <1>2 DEF Sound, Exact, SoundNode

-----------------------------------------------------------------------------
(* The search's way.                                                       *)
LEMMA CrumbsPath ==
    ASSUME NEW h, Sound(nodes, h, rootNodeId), NEW item \in Nat,
           NEW s, CrumbsFrom(s, rootNodeId, h, item)
    PROVE  /\ PathIn(nodes, s, rootNodeId, h)
           /\ NotLeftOn(nodes, s, item)
           /\ s \in Seq(CrumbType) /\ Len(s) > 0
           /\ s[Len(s)].nodeId \in DOMAIN nodes /\ h[s[Len(s)].nodeId] = 0
           /\ Within(nodes, s[Len(s)].nodeId, item)
           /\ Pointed(nodes[s[Len(s)].nodeId].items, item, s[Len(s)].index)
  <1>1. PICK m, r : m = Len(s) /\ r = h[rootNodeId]
    OBVIOUS
  <1>2. /\ s \in Seq(CrumbType) /\ m = r + 1 /\ DOMAIN s = 1 .. m
        /\ s[1].nodeId = rootNodeId
        /\ \A k \in 1 .. m : CrumbAt(s, k, h, r, item)
    BY <1>1 DEF CrumbsFrom
  <1>3. r \in Nat
    <2>1. rootNodeId \in DOMAIN nodes
      BY DEF Sound, Rooted
    <2> QED
      BY <1>1, <2>1, NodeOfSound DEF SoundNode
  <1>4. \A k \in 1 .. m : Within(nodes, s[k].nodeId, item)
    BY <1>1, PathWithin
  <1>5. PathIn(nodes, s, rootNodeId, h)
    <2>1. SUFFICES ASSUME NEW k \in 1 .. m
                   PROVE  /\ s[k].nodeId \in DOMAIN nodes
                          /\ s[k].index \in Nat /\ s[k].index < Len(nodes[s[k].nodeId].items)
                          /\ h[s[k].nodeId] = r + 1 - k
                          /\ k = 1 => s[k].nodeId = rootNodeId
                          /\ k < m => s[k + 1].nodeId
                                 = nodes[s[k].nodeId].items[s[k].index + 1].nodeId
      BY <1>1, <1>2 DEF PathIn
    <2>2. CrumbAt(s, k, h, r, item)
      BY <1>2
    <2>3. s[k].nodeId \in DOMAIN nodes
      BY <2>2 DEF CrumbAt
    <2>4. SoundNode(nodes, h, s[k].nodeId)
      BY <2>3, NodeOfSound
    <2>5. s[k].index < Len(nodes[s[k].nodeId].items)
      BY SMTT(30), <2>2, <2>4 DEF CrumbAt, Pointed, SoundNode
    <2> QED
      BY <1>1, <1>2, <2>2, <2>3, <2>5 DEF CrumbAt
  <1>6. NotLeftOn(nodes, s, item)
    <2>1. SUFFICES ASSUME NEW k \in 1 .. m
                   PROVE  /\ \/ nodes[s[k].nodeId].items[1].item <= item
                             \/ nodes[s[k].nodeId].prevSibling = 0
                          /\ \/ nodes[s[k].nodeId].items[s[k].index + 1].item <= item
                             \/ s[k].index = 0
      BY <1>2 DEF NotLeftOn
    <2>2. CrumbAt(s, k, h, r, item) /\ Within(nodes, s[k].nodeId, item)
      BY <1>2, <1>4
    <2> QED
      BY <2>2 DEF CrumbAt, Pointed, Within, NotLeft, firstItem
  <1>7. m \in 1 .. m /\ m > 0
    BY <1>2, <1>3
  <1>8. CrumbAt(s, m, h, r, item) /\ Within(nodes, s[m].nodeId, item)
    BY <1>2, <1>4, <1>7
  <1>9. h[s[m].nodeId] = 0
    BY <1>2, <1>3, <1>8 DEF CrumbAt
  <1> QED
    BY <1>1, <1>2, <1>5, <1>6, <1>7, <1>8, <1>9 DEF CrumbAt

-----------------------------------------------------------------------------
(* A call begins.                                                          *)

LEMMA BeginInsertShape ==
    ASSUME NEW h, Shape(h), Idle, rootNodeId # 0, NEW item \in Items,
           ~found(searchItem(item), item), Begin("insert", item),
           newKey' = Key(item, 0), contents' = contents \cup {item},
           UNCHANGED treeVars
    PROVE  Shape(h)' /\ breadcrumbs' \in Seq(CrumbType)
  <1>i. item \in Nat
    BY ItemsAssumption
  <1>1. /\ Sound(nodes, h, rootNodeId)
        /\ \A x \in Items : x \in contents <=> InLeaf(nodes, h, x)
    BY SoundAtRest
  <1>2. PICK s : s = searchItem(item)
    OBVIOUS
  <1>3. CrumbsFrom(s, rootNodeId, h, item)
    BY <1>i, <1>1, <1>2, SearchCrumbs
  <1>4. PICK L, k : L = s[Len(s)].nodeId /\ k = s[Len(s)].index
    OBVIOUS
  <1>5. /\ PathIn(nodes, s, rootNodeId, h)
        /\ NotLeftOn(nodes, s, item)
        /\ s \in Seq(CrumbType) /\ Len(s) > 0
        /\ L \in DOMAIN nodes /\ h[L] = 0
        /\ Within(nodes, L, item)
        /\ Pointed(nodes[L].items, item, k)
    BY <1>i, <1>1, <1>3, <1>4, CrumbsPath
  <1>6. SoundNode(nodes, h, L) /\ Stored(nodes, h)
    BY <1>1, <1>5, NodeOfSound DEF Sound, Structure
  <1>7. nodes[L].items[k + 1].item # item
    <2>1. Len(s) \in DOMAIN s
      BY <1>5
    <2>2. s[Len(s)] \in ToSet(s)
      BY <2>1 DEF ToSet
    <2> QED
      BY <2>2, <1>2, <1>4 DEF found
  <1>8. PICK keys, K : keys = nodes[L].items /\ K = withKey(keys, Key(item, 0))
    OBVIOUS
  <1>9. LeafAdded(nodes, L, item, K)
    BY <1>1, <1>5, <1>7, <1>8, LeafInsert
  <1>10. PICK A : A = [nodes EXCEPT ![L].items = K]
    OBVIOUS
  <1>11. LeafKeys(nodes, L, K) /\ K \in Seq(KeyType)
    BY <1>9 DEF LeafAdded, LeafKeys
  <1>12. Rekeyed(nodes, A, L, K)
    BY <1>5, <1>6, <1>10, <1>11, RekeyedIs
  <1>13. Structure(A, h, L) /\ Rooted(A, h, rootNodeId)
    BY <1>1, <1>5, <1>11, <1>12, LeafRekeyed
  <1>14. PICK i \in 1 .. Len(keys) + 1 :
             /\ K = InsertAt(keys, i, Key(item, 0))
             /\ Inserted(KeyType, keys, i, Key(item, 0), K)
    BY <1>8, <1>9 DEF LeafAdded
  <1>15. keys \in Seq(KeyType)
    BY <1>6, <1>8 DEF SoundNode
  <1>16. \A x \in Items : x \in contents' <=> InLeaf(A, h, x)
    <2>1. ASSUME NEW x PROVE InLeaf(A, h, x) <=> InLeaf(nodes, h, x) \/ x = item
      BY <1>5, <1>8, <1>12, <1>14, <1>15, AddedInLeaf
    <2> QED
      BY <2>1, <1>1
  <1>17. Exact(nodes, L)
    BY <1>1, <1>6, ExactLess, NodeFacts DEF Sound
  <1>18. Midway(nodes, h, s, rootNodeId, L, K, contents')
    BY <1>5, <1>6, <1>10, <1>13, <1>16, <1>17 DEF Midway
  <1>19. Counts(nodes, L, K, 1, item)
    <2>1. PICK key : key = Key(item, 0)
      OBVIOUS
    <2>2. key \in KeyType /\ key.nodeId = 0 /\ key.item = item
      BY <2>1 DEF KeyType, Key
    <2>3. nodes \in [DOMAIN nodes -> NodeType]
      BY <1>6 DEF Stored
    <2>4. /\ HasChildren(nodes, keys)
          /\ countOfAll(nodes, keys) = nodes[L].accumCount
          /\ accumOfAll(nodes, keys) = nodes[L].accum
      BY <1>1, <1>5, <1>8, SoundCounts
    <2>5. K = InsertAt(keys, i, key) /\ Inserted(KeyType, keys, i, key, K)
      BY <1>14, <2>1
    <2>6. /\ countOfAll(nodes, K) = countOfAll(nodes, keys) + countOf(nodes, key)
          /\ accumOfAll(nodes, K) = accumOfAll(nodes, keys) + accumOf(nodes, key)
      BY <1>15, <2>2, <2>3, <2>4, <2>5, InsertCounts
    <2>7. countOf(nodes, key) = 1 /\ accumOf(nodes, key) = item
      BY <2>2 DEF countOf, accumOf
    <2>8. item \in Int /\ 1 * item = item
      BY <1>i
    <2> QED
      BY <2>4, <2>6, <2>7, <2>8 DEF Counts
  <1>20. InsertKeys(nodes, h, L, K, item, 1)
    <2>1. KeysFirst(nodes, K, {}) /\ KeysFirst(nodes, K, {1})
      BY <1>11 DEF LeafKeys, KeysFirst
    <2>2. Len(K) = Len(keys) + 1
      BY <1>14 DEF Inserted
    <2>3. /\ K[1] = keys[1] \/ item < keys[1].item
          /\ \A j \in 3 .. Len(K) : keys[1].item < K[j].item
      BY <1>8, <1>9 DEF LeafAdded
    <2> QED
      BY <1>5, <1>8, <1>19, <2>1, <2>2, <2>3 DEF InsertKeys
  <1>21. /\ nodes' = nodes /\ rootNodeId' = rootNodeId
         /\ breadcrumbs' = s /\ running' = "insert" /\ oldNew' = item
         /\ pending' = TRUE /\ ~neighbourRefreshNeeded'
    BY <1>2 DEF Begin, treeVars
  <1>22. s # <<>> /\ L # 0
    BY <1>5, <1>6 DEF SoundNode
  <1>23. current' = L
    BY <1>4, <1>21, <1>22 DEF current, Crumb, Last
  <1>24. keysAhead' = K
    BY <1>8, <1>21, <1>23 DEF keysAhead
  <1>25. InsertKeys(nodes, h, L, K, oldNew', IF pending' THEN 1 ELSE 0)
    BY <1>20, <1>21
  <1>26. /\ Midway(nodes, h, breadcrumbs', rootNodeId', L, K, contents')
         /\ NotLeftOn(nodes, breadcrumbs', oldNew')
    BY <1>5, <1>18, <1>21
  <1>27. Shape(h)'
    BY <1>21, <1>22, <1>23, <1>24, <1>25, <1>26, MidwayInsert
  <1> QED
    BY <1>5, <1>21, <1>27

LEMMA BeginEraseShape ==
    ASSUME NEW h, Shape(h), Idle, rootNodeId # 0, NEW item \in Items,
           found(searchItem(item), item), Begin("erase", item),
           newKey' = NoKey, contents' = contents \ {item},
           UNCHANGED treeVars
    PROVE  Shape(h)' /\ breadcrumbs' \in Seq(CrumbType)
  <1>i. item \in Nat
    BY ItemsAssumption
  <1>1. /\ Sound(nodes, h, rootNodeId)
        /\ \A x \in Items : x \in contents <=> InLeaf(nodes, h, x)
    BY SoundAtRest
  <1>2. PICK s : s = searchItem(item)
    OBVIOUS
  <1>3. CrumbsFrom(s, rootNodeId, h, item)
    BY <1>i, <1>1, <1>2, SearchCrumbs
  <1>4. PICK L, k : L = s[Len(s)].nodeId /\ k = s[Len(s)].index
    OBVIOUS
  <1>5. /\ PathIn(nodes, s, rootNodeId, h)
        /\ s \in Seq(CrumbType) /\ Len(s) > 0
        /\ L \in DOMAIN nodes /\ h[L] = 0
        /\ Within(nodes, L, item)
        /\ Pointed(nodes[L].items, item, k)
    BY <1>i, <1>1, <1>3, <1>4, CrumbsPath
  <1>6. SoundNode(nodes, h, L) /\ Stored(nodes, h)
    BY <1>1, <1>5, NodeOfSound DEF Sound, Structure
  <1>7. PICK keys : keys = nodes[L].items
    OBVIOUS
  <1>8. k \in Nat /\ k + 1 \in 1 .. Len(keys) /\ (k + 1) - 1 = k /\ keys \in Seq(KeyType)
    BY <1>5, <1>6, <1>7 DEF Pointed, SoundNode
  <1>9. keys[k + 1].item = item
    \* the key found is one of a leaf, and the search has gone there
    <2>1. PICK c \in ToSet(s) : nodes[c.nodeId].items[c.index + 1].item = item
      BY <1>2 DEF found
    <2>2. PICK m \in DOMAIN s : c = s[m]
      BY <2>1 DEF ToSet
    <2>3. m \in 1 .. Len(s)
      BY <1>5, <2>2
    <2>4. CrumbAt(s, m, h, h[rootNodeId], item)
      BY <1>3, <2>3 DEF CrumbsFrom
    <2>5. c.nodeId \in DOMAIN nodes /\ SoundNode(nodes, h, c.nodeId)
      BY <1>1, <2>2, <2>4, NodeOfSound DEF CrumbAt
    <2>6. c.index + 1 \in 1 .. Len(nodes[c.nodeId].items)
      BY <2>2, <2>4, <2>5 DEF CrumbAt, Pointed, SoundNode
    <2>7. InLeaf(nodes, h, item)
      BY <1>1, <2>1, <2>5, <2>6, KeyInLeaf
    <2>8. PICK a \in DOMAIN nodes : h[a] = 0 /\ \E i \in DOMAIN nodes[a].items : nodes[a].items[i].item = item
      BY <2>7 DEF InLeaf
    <2>9. SoundNode(nodes, h, a)
      BY <1>1, NodeOfSound
    <2>10. PICK i \in 1 .. Len(nodes[a].items) : nodes[a].items[i].item = item
      BY <2>8, <2>9 DEF SoundNode
    <2>11. Within(nodes, a, item) /\ Pointed(nodes[a].items, item, i - 1)
      BY <1>1, <2>10, LeafWithin
    <2>12. PICK n \in 1 .. Len(s) : s[n].nodeId = a
      BY <1>i, <1>1, <1>3, <2>11, SearchMeets
    <2>13. h[rootNodeId] \in Nat
      <3>1. rootNodeId \in DOMAIN nodes
        BY <1>1 DEF Sound, Rooted
      <3> QED
        BY <3>1, <1>1, NodeOfSound DEF SoundNode
    <2>14. n = Len(s)
      <3>1. CrumbAt(s, n, h, h[rootNodeId], item) /\ Len(s) = h[rootNodeId] + 1
        BY <1>3 DEF CrumbsFrom
      <3>2. h[a] = h[rootNodeId] + 1 - n
        BY <3>1, <2>12 DEF CrumbAt
      <3> QED
        BY <3>1, <3>2, <2>8, <2>13
    <2>15. a = L
      BY <1>4, <2>12, <2>14
    <2>16. i - 1 = k
      BY <1>i, <1>5, <1>6, <2>11, <2>15, OnePointed DEF SoundNode
    <2>17. i = k + 1
      BY <2>16, <1>8
    <2> QED
      BY <1>7, <2>10, <2>15, <2>17
  <1>10. PICK K : K = RemoveAt(keys, k + 1)
    OBVIOUS
  <1>11. LeafKeys(nodes, L, K) /\ K \in Seq(KeyType)
    <2>1. LeafKeys(nodes, L, K)
      BY <1>1, <1>5, <1>7, <1>8, <1>10, LeafRemove
    <2> QED
      BY <2>1 DEF LeafKeys
  <1>12. PICK A : A = [nodes EXCEPT ![L].items = K]
    OBVIOUS
  <1>13. Rekeyed(nodes, A, L, K)
    BY <1>5, <1>6, <1>11, <1>12, RekeyedIs
  <1>14. Structure(A, h, L) /\ Rooted(A, h, rootNodeId)
    BY <1>1, <1>5, <1>11, <1>13, LeafRekeyed
  <1>15. Removed(KeyType, keys, k + 1, K)
    BY <1>8, <1>10, RemoveAtIs
  <1>16. \A x \in Items : x \in contents' <=> InLeaf(A, h, x)
    <2>1. OnlyAt(nodes, h, item, L, k + 1)
      <3>a. SUFFICES ASSUME NEW a \in DOMAIN nodes, h[a] = 0, NEW i \in DOMAIN nodes[a].items,
                            nodes[a].items[i].item = item
            PROVE  a = L /\ i = k + 1
        BY <1>7, <1>9 DEF OnlyAt
      <3>1. i \in 1 .. Len(nodes[a].items)
        <4>1. SoundNode(nodes, h, a)
          BY <1>1, NodeOfSound
        <4> QED
          BY <4>1 DEF SoundNode
      <3>2. k + 1 \in 1 .. Len(nodes[L].items) /\ item = nodes[L].items[k + 1].item
        BY <1>7, <1>8, <1>9
      <3> QED
        BY <1>1, <1>5, <3>a, <3>1, <3>2, OneLeaf
    <2>2. ASSUME NEW x PROVE InLeaf(A, h, x) <=> InLeaf(nodes, h, x) /\ x # item
      <3>1. /\ nodes[L].items \in Seq(KeyType)
            /\ k + 1 \in 1 .. Len(nodes[L].items) /\ item = nodes[L].items[k + 1].item
            /\ Removed(KeyType, nodes[L].items, k + 1, K)
        BY <1>7, <1>8, <1>9, <1>15
      <3> QED
        BY <1>5, <1>13, <2>1, <3>1, RemovedInLeaf
    <2> QED
      BY <2>2, <1>1
  <1>17. Exact(nodes, L)
    BY <1>1, <1>6, ExactLess, NodeFacts DEF Sound
  <1>18. Midway(nodes, h, s, rootNodeId, L, K, contents')
    BY <1>5, <1>6, <1>12, <1>14, <1>16, <1>17 DEF Midway
  <1>19. Counts(nodes, L, K, -1, item)
    <2>1. nodes \in [DOMAIN nodes -> NodeType]
      BY <1>6 DEF Stored
    <2>2. /\ HasChildren(nodes, keys)
          /\ countOfAll(nodes, keys) = nodes[L].accumCount
          /\ accumOfAll(nodes, keys) = nodes[L].accum
      BY <1>1, <1>5, <1>7, SoundCounts
    <2>3. /\ countOfAll(nodes, K) = countOfAll(nodes, keys) - countOf(nodes, keys[k + 1])
          /\ accumOfAll(nodes, K) = accumOfAll(nodes, keys) - accumOf(nodes, keys[k + 1])
      BY <1>8, <1>10, <1>15, <2>1, <2>2, RemoveCounts
    <2>4. keys[k + 1].nodeId = 0
      BY <1>5, <1>6, <1>7, <1>8 DEF SoundNode, LevelsAt
    <2>5. countOf(nodes, keys[k + 1]) = 1 /\ accumOf(nodes, keys[k + 1]) = item
      BY <1>9, <2>4 DEF countOf, accumOf
    <2>6. nodes[L].accumCount \in Nat /\ nodes[L].accum \in Nat
      BY <1>5, <1>6, NodeFacts
    <2>7. nodes[L].accumCount - 1 = nodes[L].accumCount + (-1)
          /\ nodes[L].accum - item = nodes[L].accum + (-1) * item
      BY <2>6, <1>i
    <2> QED
      BY <2>2, <2>3, <2>5, <2>7 DEF Counts
  <1>20. EraseKeys(nodes, L, k, K, item, TRUE, FALSE)
    <2>1. KeysFirst(nodes, K, {k + 1})
      BY <1>11 DEF LeafKeys, KeysFirst
    <2> QED
      BY <1>19, <2>1 DEF EraseKeys
  <1>21. /\ nodes' = nodes /\ rootNodeId' = rootNodeId
         /\ breadcrumbs' = s /\ running' = "erase" /\ oldNew' = item
         /\ pending' = TRUE /\ neighbourRefreshNeeded' = FALSE
    BY <1>2 DEF Begin, treeVars
  <1>22. s # <<>> /\ L # 0
    BY <1>5, <1>6 DEF SoundNode
  <1>23. current' = L /\ Crumb'.index = k
    BY <1>4, <1>21, <1>22 DEF current, Crumb, Last
  <1>24. keysAhead' = K
    BY <1>7, <1>10, <1>21, <1>23 DEF keysAhead
  <1>25. EraseKeys(nodes, L, Crumb'.index, K, oldNew', pending', neighbourRefreshNeeded')
    BY <1>20, <1>21, <1>23
  <1>26. Midway(nodes, h, breadcrumbs', rootNodeId', L, K, contents')
    BY <1>18, <1>21
  <1>27. Shape(h)'
    BY <1>21, <1>22, <1>23, <1>24, <1>25, <1>26, MidwayErase
  <1> QED
    BY <1>5, <1>21, <1>27

-----------------------------------------------------------------------------
(* The sizes of nodes.                                                     *)
LEMMA Sizes ==
    /\ MIN_ITEMS \in Nat /\ MIN_ITEMS >= 2
    /\ REBALANCE_THRESHOLD \in Nat /\ REBALANCE_THRESHOLD >= 2 * MIN_ITEMS
    /\ REBALANCE_THRESHOLD < MAX_ITEMS
    /\ MAX_ITEMS \in Nat /\ MAX_ITEMS > 0
    /\ MAX_ITEMS \div 2 \in Nat
    /\ MAX_ITEMS = (MAX_ITEMS \div 2) + (MAX_ITEMS \div 2)
    /\ MAX_ITEMS \div 2 > MIN_ITEMS
  <1>1. /\ MIN_ITEMS \in Nat /\ MAX_ITEMS \in Nat /\ REBALANCE_THRESHOLD \in Nat
        /\ REBALANCE_THRESHOLD < MAX_ITEMS
        /\ MAX_ITEMS \div 2 > MIN_ITEMS
        /\ MIN_ITEMS % 2 = 0 /\ MAX_ITEMS % 2 = 0
    BY NodeSizeAssumption
  <1>2. MIN_ITEMS > 0 /\ REBALANCE_THRESHOLD >= 2 * MIN_ITEMS
    BY ThresholdAssumption
  <1>3. MIN_ITEMS >= 2
    BY <1>1, <1>2
  <1>4. MAX_ITEMS \div 2 \in Nat /\ MAX_ITEMS = (MAX_ITEMS \div 2) + (MAX_ITEMS \div 2)
    BY <1>1
  <1> QED
    BY <1>1, <1>2, <1>3, <1>4

(* The totals of one key and of two.                                       *)
LEMMA OneCount ==
    ASSUME NEW T, T \in [DOMAIN T -> NodeType], NEW key \in KeyType,
           key.nodeId = 0 \/ key.nodeId \in DOMAIN T, NEW keys, keys = <<key>>
    PROVE  /\ countOfAll(T, keys) = countOf(T, key)
           /\ accumOfAll(T, keys) = accumOf(T, key)
  <1>1. countOf(T, key) \in Int /\ accumOf(T, key) \in Int
    BY KeyParts DEF countOf, accumOf, NodeType
  <1>2. DOMAIN keys = 1 .. 1 /\ keys[1] = key
    OBVIOUS
  <1>3. [i \in DOMAIN keys |-> countOf(T, keys[i])] = <<countOf(T, key)>>
    BY <1>2
  <1>4. [i \in DOMAIN keys |-> accumOf(T, keys[i])] = <<accumOf(T, key)>>
    BY <1>2
  <1> QED
    BY <1>1, <1>3, <1>4, TotalFew DEF countOfAll, accumOfAll

-----------------------------------------------------------------------------
(* The first item.                                                         *)
LEMMA InsertFirstShape ==
    ASSUME NEW h, Shape(h), Idle, rootNodeId = 0, nextNodeId \in Nat \ {0},
           NEW item \in Items,
           nodes' = refill(makeNode(nodes), nextNodeId, <<Key(item, 0)>>),
           rootNodeId' = nextNodeId, contents' = contents \cup {item},
           UNCHANGED callVars
    PROVE  \E h2 : Shape(h2)'
  <1>i. item \in Nat
    BY ItemsAssumption
  <1>1. /\ \A x \in Items : x \in contents <=> InLeaf(nodes, h, x)
        /\ DOMAIN nodes = {}
    BY SoundAtRest
  <1>2. PICK n, key, K : n = nextNodeId /\ key = Key(item, 0) /\ K = <<key>>
    OBVIOUS
  <1>3. n \in Nat /\ n # 0
    BY <1>2
  <1>4. /\ key \in KeyType /\ key.nodeId = 0 /\ key.item = item
        /\ K \in Seq(KeyType) /\ Len(K) = 1 /\ DOMAIN K = {1} /\ K[1] = key
    BY <1>2 DEF Key, KeyType
  <1>5. PICK M : M = makeNode(nodes)
    OBVIOUS
  <1>6. DOMAIN M = {n} /\ M[n] = EmptyNode /\ M = [id \in {n} |-> EmptyNode]
    BY <1>1, <1>2, <1>5 DEF makeNode
  <1>7. EmptyNode \in NodeType
    BY DEF EmptyNode, NodeType
  <1>8. M \in [DOMAIN M -> NodeType]
    BY <1>6, <1>7
  <1>9. countOfAll(M, K) = 1 /\ accumOfAll(M, K) = item
    <2>1. countOf(M, key) = 1 /\ accumOf(M, key) = item
      BY <1>4 DEF countOf, accumOf
    <2> QED
      BY <2>1, <1>2, <1>4, <1>8, OneCount
  <1>10. PICK N : N = refill(M, n, K)
    OBVIOUS
  <1>11. PICK node : node = [EmptyNode EXCEPT !.items = K, !.accumCount = 1, !.accum = item]
    OBVIOUS
  <1>12. N = [id \in {n} |-> node]
    <2>1. N = [M EXCEPT ![n].items = K, ![n].accumCount = 1, ![n].accum = item]
      BY <1>9, <1>10 DEF refill
    <2> QED
      BY <2>1, <1>6, <1>11
  <1>13. /\ node.items = K /\ node.nextSibling = 0 /\ node.prevSibling = 0
         /\ node.accumCount = 1 /\ node.accum = item /\ node \in NodeType
    BY <1>i, <1>4, <1>7, <1>11 DEF EmptyNode, NodeType
  <1>14. DOMAIN N = {n} /\ N[n] = node
    BY <1>12
  <1>15. PICK h2 : h2 = [id \in {n} |-> 0]
    OBVIOUS
  <1>16. h2[n] = 0
    BY <1>15
  <1>17. Stored(N, h2)
    BY <1>3, <1>12, <1>13, <1>14, <1>15 DEF Stored
  <1>18. Structure(N, h2, 0)
    <2>1. OneParent(N)
      BY <1>4, <1>13, <1>14 DEF OneParent
    <2>2. LevelsAt(N, h2, n) /\ LinkedAt(N, h2, n) /\ AdjacentAt(N, h2, n)
      BY <1>4, <1>13, <1>14, <1>16 DEF LevelsAt, LinkedAt, AdjacentAt
    <2>3. OrderedAt(N, n)
      <3>1. nextKey(N, n, 1) = none
        BY <1>4, <1>13, <1>14 DEF nextKey, firstKey
      <3> QED
        BY <3>1, <1>4, <1>13, <1>14 DEF OrderedAt
    <2> QED
      BY <2>1, <2>2, <2>3, <1>14, <1>17 DEF Structure
  <1>19. countOfAll(N, K) = 1 /\ accumOfAll(N, K) = item
    <2>1. countOf(N, key) = 1 /\ accumOf(N, key) = item
      BY <1>4 DEF countOf, accumOf
    <2>2. N \in [DOMAIN N -> NodeType]
      BY <1>17 DEF Stored
    <2> QED
      BY <2>1, <2>2, <1>2, <1>4, OneCount
  <1>20. Exact(N, 0)
    <2>1. Sized(N[n])
      <3>1. MAX_ITEMS \in Nat /\ MAX_ITEMS > 0
        BY Sizes
      <3>2. Len(N[n].items) = 1 /\ N[n].nextSibling = 0
        BY <1>4, <1>13, <1>14
      <3>3. 1 \in 1 .. MAX_ITEMS
        BY <3>1
      <3> QED
        BY <3>2, <3>3 DEF Sized
    <2>2. KeysFirst(N, K, {})
      BY <1>4 DEF KeysFirst
    <2> QED
      BY <2>1, <2>2, <1>13, <1>14, <1>19 DEF Exact
  <1>21. Rooted(N, h2, n)
    BY <1>13, <1>14 DEF Rooted
  <1>22. \A x \in Items : x \in contents' <=> InLeaf(N, h2, x)
    <2>1. \A x : InLeaf(N, h2, x) <=> x = item
      BY <1>4, <1>13, <1>14, <1>16 DEF InLeaf
    <2>2. \A x \in Items : ~InLeaf(nodes, h, x)
      BY <1>1 DEF InLeaf
    <2> QED
      BY <2>1, <2>2, <1>1
  <1>23. /\ AtRest(h) /\ running = "none"
    BY DEF Idle, Shape
  <1>24. /\ running' = "none" /\ breadcrumbs' = <<>> /\ oldNew' = 0 /\ newKey' = NoKey
         /\ ~pending' /\ ~neighbourRefreshNeeded'
    BY <1>23 DEF AtRest, callVars
  <1>25. nodes' = N /\ rootNodeId' = n
    BY <1>2, <1>5, <1>10
  <1>26. Shape(h2)'
    BY <1>3, <1>17, <1>18, <1>20, <1>21, <1>22, <1>24, <1>25, SoundShape
  <1> QED
    BY <1>26

-----------------------------------------------------------------------------
(* The node id gets the keys R, which are the keys K with the first items  *)
(* of their children, and totals to match.                                 *)
NodeFixed(T, N, id, K, R) ==
    /\ id \in DOMAIN T /\ DOMAIN N = DOMAIN T
    /\ N \in [DOMAIN N -> NodeType]
    /\ \A a \in DOMAIN T : a # id => N[a] = T[a]
    /\ N[id].items = R
    /\ N[id].nextSibling = T[id].nextSibling
    /\ N[id].prevSibling = T[id].prevSibling
    /\ N[id].accumCount = countOfAll(T, K)
    /\ N[id].accum = accumOfAll(T, K)
KeysFixed(T, K, R) ==
    /\ R \in Seq(KeyType) /\ Len(R) = Len(K)
    /\ \A i \in 1 .. Len(K) :
          /\ R[i].nodeId = K[i].nodeId
          /\ K[i].nodeId = 0 => R[i] = K[i]
          /\ K[i].nodeId # 0 => R[i].item = firstItem(T, K[i].nodeId)

(* The keys of a node about to change. *)
KeysAheadOf(A, h, id, K) ==
    /\ id \in DOMAIN A
    /\ K \in Seq(KeyType) /\ Len(K) \in Nat /\ DOMAIN K = 1 .. Len(K)
    /\ h[id] \in Nat
    /\ \A i \in 1 .. Len(K) :
          IF h[id] = 0 THEN K[i].nodeId = 0
          ELSE /\ K[i].nodeId \in DOMAIN A
               /\ h[K[i].nodeId] = h[id] - 1
               /\ K[i].nodeId # id /\ K[i].nodeId # 0

LEMMA AheadKeys ==
    ASSUME NEW A, NEW h, NEW p, Structure(A, h, p), NEW id \in DOMAIN A, NEW K, A[id].items = K
    PROVE  KeysAheadOf(A, h, id, K)
  <1>1. Stored(A, h) /\ LevelsAt(A, h, id)
    BY DEF Structure
  <1>2. /\ K \in Seq(KeyType) /\ Len(K) \in Nat /\ DOMAIN K = 1 .. Len(K) /\ h[id] \in Nat
    BY <1>1, NodeFacts
  <1>3. ASSUME NEW i \in 1 .. Len(K), h[id] # 0
        PROVE  /\ K[i].nodeId \in DOMAIN A
               /\ h[K[i].nodeId] = h[id] - 1
               /\ K[i].nodeId # id /\ K[i].nodeId # 0
    <2>1. K[i].nodeId \in DOMAIN A /\ h[K[i].nodeId] = h[id] - 1
      BY <1>1, <1>2, <1>3 DEF LevelsAt
    <2>2. K[i].nodeId # 0
      BY <1>1, <2>1, NodeFacts
    <2> QED
      BY <1>2, <2>1, <2>2
  <1>4. ASSUME NEW i \in 1 .. Len(K), h[id] = 0
        PROVE  K[i].nodeId = 0
    BY <1>1, <1>2, <1>4 DEF LevelsAt
  <1> QED
    BY <1>2, <1>3, <1>4 DEF KeysAheadOf

LEMMA FixedWhole ==
    ASSUME NEW T, NEW A, NEW N, NEW h, NEW id, NEW K, NEW R,
           Rekeyed(T, A, id, K), Structure(A, h, id), Exact(T, id), Stored(T, h),
           NodeFixed(T, N, id, K, R), KeysFixed(T, K, R)
    PROVE  /\ Structure(N, h, 0)
           /\ \A item : InLeaf(A, h, item) <=> InLeaf(N, h, item)
           /\ \A root : Rooted(A, h, root) => Rooted(N, h, root)
  <1>1. /\ id \in DOMAIN T /\ DOMAIN A = DOMAIN T /\ DOMAIN N = DOMAIN T
        /\ A[id].items = K
        /\ \A a \in DOMAIN T :
              /\ A[a].nextSibling = T[a].nextSibling
              /\ A[a].prevSibling = T[a].prevSibling
              /\ a # id => A[a].items = T[a].items
    BY DEF Rekeyed, NodeFixed
  <1>2. /\ N[id].items = R
        /\ \A a \in DOMAIN T :
              /\ N[a].nextSibling = T[a].nextSibling
              /\ N[a].prevSibling = T[a].prevSibling
              /\ a # id => N[a].items = T[a].items
    BY DEF NodeFixed
  <1>3. KeysAheadOf(A, h, id, K)
    BY <1>1, AheadKeys
  <1>4. /\ R \in Seq(KeyType) /\ Len(R) = Len(K) /\ DOMAIN R = DOMAIN K /\ DOMAIN K = 1 .. Len(K)
        /\ Len(K) \in Nat
        /\ \A i \in 1 .. Len(K) :
              /\ R[i].nodeId = K[i].nodeId
              /\ K[i].nodeId = 0 => R[i] = K[i]
              /\ K[i].nodeId # 0 => R[i].item = firstItem(T, K[i].nodeId)
    BY <1>3 DEF KeysFixed, KeysAheadOf
  <1>5. Stored(N, h)
    BY <1>1 DEF Stored, NodeFixed
  <1>6. Stored(A, h)
    BY DEF Structure
  <1>7. SameSkeleton(A, N)
    BY <1>1, <1>2, <1>4 DEF SameSkeleton
  <1>8. \A a \in DOMAIN A : a # id => N[a].items = A[a].items
    BY <1>1, <1>2
  <1>9. h[id] = 0 => N[id].items = A[id].items
    <2>1. ASSUME h[id] = 0 PROVE R = K
      <3>1. \A i \in 1 .. Len(R) : R[i] = K[i]
        BY <2>1, <1>3, <1>4 DEF KeysAheadOf
      <3>2. K \in Seq(KeyType)
        BY <1>3 DEF KeysAheadOf
      <3> QED
        BY <3>1, <3>2, <1>4, SeqEqual
    <2> QED
      BY <2>1, <1>1, <1>2
  <1>10. ASSUME h[id] > 0, NEW a \in DOMAIN A, h[a] = h[id]
         PROVE  KeysFirst(N, N[a].items, {})
    <2>1. CASE a = id
      <3>1. ASSUME NEW i \in 1 .. Len(K), K[i].nodeId # 0
            PROVE  R[i].item = firstItem(N, R[i].nodeId)
        <4>1. K[i].nodeId # id /\ K[i].nodeId \in DOMAIN T
          BY <1>1, <1>3, <1>10 DEF KeysAheadOf
        <4>2. N[K[i].nodeId].items = T[K[i].nodeId].items
          BY <4>1, <1>2
        <4> QED
          BY <3>1, <4>2, <1>4 DEF firstItem
      <3> QED
        BY <2>1, <3>1, <1>2, <1>4 DEF KeysFirst
    <2>2. CASE a # id
      <3>1. N[a].items = T[a].items /\ A[a].items = T[a].items
        BY <2>2, <1>1, <1>2
      <3>2. KeysAheadOf(A, h, a, T[a].items)
        BY <3>1, AheadKeys
      <3>3. KeysFirst(T, T[a].items, {})
        BY <2>2, <1>1 DEF Exact
      <3>4. ASSUME NEW i \in DOMAIN T[a].items, T[a].items[i].nodeId # 0
            PROVE  T[a].items[i].item = firstItem(N, T[a].items[i].nodeId)
        <4>1. PICK c : c = T[a].items[i].nodeId
          OBVIOUS
        <4>2. c \in DOMAIN T /\ h[c] = h[a] - 1
          BY <4>1, <1>1, <1>10, <3>2 DEF KeysAheadOf
        <4>3. c # id
          <5>1. h[id] \in Nat
            BY <1>3 DEF KeysAheadOf
          <5> QED
            BY <5>1, <4>2, <1>10
        <4>4. N[c].items = T[c].items
          BY <4>2, <4>3, <1>2
        <4> QED
          BY <3>3, <3>4, <4>1, <4>4 DEF KeysFirst, firstItem
      <3> QED
        BY <3>1, <3>4 DEF KeysFirst
    <2> QED
      BY <2>1, <2>2
  <1>11. \A a \in DOMAIN A : h[a] < h[id] => Len(A[a].items) > 0
    <2>1. SUFFICES ASSUME NEW a \in DOMAIN A, h[a] < h[id] PROVE Len(A[a].items) > 0
      OBVIOUS
    <2>2. a # id
      BY <2>1, <1>3 DEF KeysAheadOf
    <2>3. A[a].items = T[a].items /\ Len(T[a].items) \in 1 .. MAX_ITEMS
      BY <2>2, <1>1 DEF Exact, Sized
    <2> QED
      BY <2>3
  <1>12. Structure(N, h, 0)
    <2>1. id \in DOMAIN A
      BY <1>1
    <2>2. h[id] > 0 => \A a \in DOMAIN A : h[a] = h[id] => KeysFirst(N, N[a].items, {})
      BY <1>10
    <2> QED
      BY <2>1, <2>2, <1>5, <1>7, <1>8, <1>9, <1>11, FixedStructure
  <1>13. ASSUME NEW item PROVE InLeaf(A, h, item) <=> InLeaf(N, h, item)
    BY <1>1, <1>8, <1>9 DEF InLeaf
  <1>14. ASSUME NEW root, Rooted(A, h, root)
         PROVE  Rooted(N, h, root)
    <2>1. ASSUME NEW a, IsChild(A, a)
          PROVE  IsChild(N, a)
      <3>1. PICK q \in DOMAIN A : \E i \in DOMAIN A[q].items : A[q].items[i].nodeId = a
        BY <2>1 DEF IsChild
      <3>2. CASE q = id
        BY <3>1, <3>2, <1>1, <1>2, <1>4 DEF IsChild
      <3>3. CASE q # id
        BY <3>1, <3>3, <1>1, <1>8 DEF IsChild
      <3> QED
        BY <3>2, <3>3
    <2> QED
      BY <2>1, <1>1, <1>2, <1>14 DEF Rooted
  <1> QED
    BY <1>12, <1>13, <1>14

LEMMA FixedRecorded ==
    ASSUME NEW T, NEW A, NEW N, NEW h, NEW id, NEW K, NEW R,
           Rekeyed(T, A, id, K), Structure(A, h, id),
           NodeFixed(T, N, id, K, R), KeysFixed(T, K, R)
    PROVE  Recorded(N, id)
  <1>1. /\ id \in DOMAIN T /\ DOMAIN A = DOMAIN T
        /\ A[id].items = K /\ N[id].items = R
    BY DEF Rekeyed, NodeFixed
  <1>2. KeysAheadOf(A, h, id, K)
    BY <1>1, AheadKeys
  <1>3. /\ R \in Seq(KeyType) /\ Len(R) = Len(K) /\ DOMAIN R = DOMAIN K /\ DOMAIN K = 1 .. Len(K)
        /\ Len(K) \in Nat
        /\ \A i \in 1 .. Len(K) :
              /\ R[i].nodeId = K[i].nodeId
              /\ K[i].nodeId = 0 => R[i] = K[i]
              /\ K[i].nodeId # 0 => R[i].item = firstItem(T, K[i].nodeId)
    BY <1>2 DEF KeysFixed, KeysAheadOf
  <1>4. ASSUME NEW i \in DOMAIN K, K[i].nodeId # 0
        PROVE  N[K[i].nodeId] = T[K[i].nodeId]
    <2>1. K[i].nodeId # id /\ K[i].nodeId \in DOMAIN T
      BY <1>1, <1>2, <1>4 DEF KeysAheadOf
    <2> QED
      BY <2>1 DEF NodeFixed
  <1>5. KeysFirst(N, R, {})
    BY <1>3, <1>4 DEF KeysFirst, firstItem
  <1>6. \A i \in DOMAIN K : countOf(N, R[i]) = countOf(T, K[i]) /\ accumOf(N, R[i]) = accumOf(T, K[i])
    BY <1>3, <1>4 DEF countOf, accumOf
  <1>7. countOfAll(N, R) = countOfAll(T, K) /\ accumOfAll(N, R) = accumOfAll(T, K)
    <2>1. [i \in DOMAIN R |-> countOf(N, R[i])] = [i \in DOMAIN K |-> countOf(T, K[i])]
      BY <1>3, <1>6
    <2>2. [i \in DOMAIN R |-> accumOf(N, R[i])] = [i \in DOMAIN K |-> accumOf(T, K[i])]
      BY <1>3, <1>6
    <2> QED
      BY <2>1, <2>2 DEF countOfAll, accumOfAll
  <1> QED
    BY <1>1, <1>5, <1>7 DEF Recorded, NodeFixed

-----------------------------------------------------------------------------
(* The totals of keys of which one has a node with other totals.           *)
LEMMA CountsChange ==
    ASSUME NEW T, T \in [DOMAIN T -> NodeType], NEW N, N \in [DOMAIN N -> NodeType],
           NEW keys \in Seq(KeyType), HasChildren(T, keys), HasChildren(N, keys),
           NEW j \in 1 .. Len(keys),
           \A i \in 1 .. Len(keys) : i # j =>
               /\ countOf(N, keys[i]) = countOf(T, keys[i])
               /\ accumOf(N, keys[i]) = accumOf(T, keys[i])
    PROVE  /\ countOfAll(N, keys) = countOfAll(T, keys) - countOf(T, keys[j]) + countOf(N, keys[j])
           /\ accumOfAll(N, keys) = accumOfAll(T, keys) - accumOf(T, keys[j]) + accumOf(N, keys[j])
  <1>0. DOMAIN keys = 1 .. Len(keys) /\ Len(keys) \in Nat
        /\ \A i \in 1 .. Len(keys) : keys[i] \in KeyType
    OBVIOUS
  <1>1. \A i \in 1 .. Len(keys) :
            /\ countOf(T, keys[i]) \in Int /\ accumOf(T, keys[i]) \in Int
            /\ countOf(N, keys[i]) \in Int /\ accumOf(N, keys[i]) \in Int
    <2>1. SUFFICES ASSUME NEW i \in 1 .. Len(keys)
                   PROVE  /\ countOf(T, keys[i]) \in Int /\ accumOf(T, keys[i]) \in Int
                          /\ countOf(N, keys[i]) \in Int /\ accumOf(N, keys[i]) \in Int
      OBVIOUS
    <2>2. keys[i].nodeId = 0 \/ (keys[i].nodeId \in DOMAIN T /\ keys[i].nodeId \in DOMAIN N)
      BY DEF HasChildren
    <2>3. keys[i].item \in Nat
      BY <1>0, KeyParts
    <2> QED
      BY <2>2, <2>3 DEF countOf, accumOf, NodeType
  <1>2. PICK s, t : /\ s = [i \in DOMAIN keys |-> countOf(T, keys[i])]
                    /\ t = [i \in DOMAIN keys |-> countOf(N, keys[i])]
    OBVIOUS
  <1>3. PICK u, v : /\ u = [i \in DOMAIN keys |-> accumOf(T, keys[i])]
                    /\ v = [i \in DOMAIN keys |-> accumOf(N, keys[i])]
    OBVIOUS
  <1>4. /\ s \in Seq(Int) /\ t \in Seq(Int) /\ Len(s) = Len(keys) /\ Len(t) = Len(keys)
        /\ \A i \in 1 .. Len(keys) : s[i] = countOf(T, keys[i]) /\ t[i] = countOf(N, keys[i])
    BY <1>0, <1>1, <1>2
  <1>5. /\ u \in Seq(Int) /\ v \in Seq(Int) /\ Len(u) = Len(keys) /\ Len(v) = Len(keys)
        /\ \A i \in 1 .. Len(keys) : u[i] = accumOf(T, keys[i]) /\ v[i] = accumOf(N, keys[i])
    BY <1>0, <1>1, <1>3
  <1>6. total(t) = total(s) - s[j] + t[j]
    <2>1. j \in 1 .. Len(s) /\ \A i \in 1 .. Len(s) : i # j => t[i] = s[i]
      BY <1>4
    <2> QED
      BY <2>1, <1>4, TotalChange
  <1>7. total(v) = total(u) - u[j] + v[j]
    <2>1. j \in 1 .. Len(u) /\ \A i \in 1 .. Len(u) : i # j => v[i] = u[i]
      BY <1>5
    <2> QED
      BY <2>1, <1>5, TotalChange
  <1>8. /\ countOfAll(T, keys) = total(s) /\ countOfAll(N, keys) = total(t)
        /\ accumOfAll(T, keys) = total(u) /\ accumOfAll(N, keys) = total(v)
    BY <1>2, <1>3 DEF countOfAll, accumOfAll
  <1> QED
    BY <1>4, <1>5, <1>6, <1>7, <1>8

-----------------------------------------------------------------------------
(* The node above a fixed node.                                            *)
KeyAbove(T, h, id, p, j) ==
    /\ p \in DOMAIN T /\ p # id /\ p # 0
    /\ h[p] = h[id] + 1
    /\ j \in 1 .. Len(T[p].items)
    /\ T[p].items[j].nodeId = id

LEMMA ExactFixed ==
    ASSUME NEW T, NEW A, NEW N, NEW h, NEW id, NEW K, NEW R, NEW p,
           Rekeyed(T, A, id, K), Structure(A, h, id), Exact(T, id), Stored(T, h),
           NodeFixed(T, N, id, K, R), KeysFixed(T, K, R), Sized(N[id]),
           p = 0 => ~IsChild(A, id),
           p # 0 => \E j : KeyAbove(T, h, id, p, j)
    PROVE  Exact(N, p)
  <1>1. /\ id \in DOMAIN T /\ DOMAIN A = DOMAIN T /\ DOMAIN N = DOMAIN T
        /\ \A a \in DOMAIN T : a # id => A[a].items = T[a].items
        /\ \A a \in DOMAIN T : a # id => N[a] = T[a]
    BY DEF Rekeyed, NodeFixed
  <1>2. Recorded(N, id)
    BY FixedRecorded
  <1>3. ASSUME NEW a \in DOMAIN N \ {id}
        PROVE  /\ Untouched(T, N, a) /\ a # id
               /\ a # p => \A i \in DOMAIN T[a].items :
                     \/ T[a].items[i].nodeId = 0
                     \/ T[a].items[i].nodeId \in DOMAIN N \ {id}
    <2>1. Untouched(T, N, a) /\ a # id
      BY <1>1 DEF Untouched
    <2>2. ASSUME a # p, NEW i \in DOMAIN T[a].items, T[a].items[i].nodeId # 0
          PROVE  T[a].items[i].nodeId \in DOMAIN N \ {id}
      <3>1. a \in DOMAIN A /\ A[a].items = T[a].items
        BY <1>1
      <3>2. KeysAheadOf(A, h, a, T[a].items)
        BY <3>1, AheadKeys
      <3>3. T[a].items[i].nodeId \in DOMAIN N
        BY <3>2, <2>2, <1>1 DEF KeysAheadOf
      <3>4. ASSUME T[a].items[i].nodeId = id
            PROVE  FALSE
        <4>1. IsChild(A, id)
          BY <3>1, <3>4 DEF IsChild
        <4>2. PICK j : KeyAbove(T, h, id, p, j)
          BY <4>1
        <4>3. p \in DOMAIN A /\ A[p].items = T[p].items /\ j \in DOMAIN A[p].items
              /\ A[p].items[j].nodeId = id /\ id # 0
          <5>1. p \in DOMAIN A /\ A[p].items = T[p].items
            BY <4>2, <1>1 DEF KeyAbove
          <5>2. Structure(A, h, id) /\ A[p].items = T[p].items
            BY <5>1
          <5>3. KeysAheadOf(A, h, p, T[p].items)
            BY <5>1, AheadKeys
          <5>4. id # 0
            BY <1>1, NodeFacts
          <5> QED
            BY <4>2, <5>1, <5>3, <5>4 DEF KeyAbove, KeysAheadOf
        <4>4. OneParent(A)
          BY DEF Structure
        <4> QED
          BY <2>2, <3>1, <3>4, <4>3, <4>4 DEF OneParent
      <3> QED
        BY <3>3, <3>4
    <2> QED
      BY <2>1, <2>2
  <1>4. StillExact(T, N, id, p, {id})
    BY <1>3 DEF StillExact
  <1>5. NewlyExact(N, p, {id})
    BY <1>2 DEF NewlyExact
  <1> QED
    BY <1>4, <1>5, ExactAfter

ParentKeys(T, N, id, p, j, delta, item) ==
    LET keys == T[p].items
    IN  /\ N[p].items = keys
        /\ KeysFirst(N, keys, {j})
        /\ keys[j].item = firstItem(T, id)
        /\ Counts(N, p, keys, delta, item)
        /\ keys \in Seq(KeyType) /\ Ascends(keys) /\ DOMAIN keys = 1 .. Len(keys)
        /\ Len(keys) \in Nat /\ j \in 1 .. Len(keys)
LEMMA ParentFixed ==
    ASSUME NEW T, NEW A, NEW N, NEW h, NEW id, NEW K, NEW R, NEW p, NEW j,
           Rekeyed(T, A, id, K), Structure(A, h, id), Exact(T, id), Stored(T, h),
           NodeFixed(T, N, id, K, R), KeysFixed(T, K, R),
           KeyAbove(T, h, id, p, j),
           NEW delta \in Int, NEW item \in Nat, Counts(T, id, K, delta, item)
    PROVE  ParentKeys(T, N, id, p, j, delta, item)
  <1>0. PICK keys : keys = T[p].items
    OBVIOUS
  <1>1. /\ id \in DOMAIN T /\ DOMAIN A = DOMAIN T /\ DOMAIN N = DOMAIN T
        /\ \A a \in DOMAIN T : a # id => A[a].items = T[a].items
        /\ \A a \in DOMAIN T : a # id => N[a] = T[a]
    BY DEF Rekeyed, NodeFixed
  <1>2. /\ p \in DOMAIN T /\ p # id /\ p # 0 /\ h[p] = h[id] + 1
        /\ j \in 1 .. Len(keys) /\ keys[j].nodeId = id
    BY <1>0 DEF KeyAbove
  <1>3. N[p] = T[p] /\ A[p].items = keys
    BY <1>0, <1>1, <1>2
  <1>4. KeysAheadOf(A, h, p, keys)
    BY <1>1, <1>2, <1>3, AheadKeys
  <1>5. /\ keys \in Seq(KeyType) /\ Len(keys) \in Nat /\ DOMAIN keys = 1 .. Len(keys)
        /\ \A i \in 1 .. Len(keys) : keys[i].nodeId = 0 \/ keys[i].nodeId \in DOMAIN T
    BY <1>1, <1>4 DEF KeysAheadOf
  <1>6. HasChildren(T, keys) /\ HasChildren(N, keys)
    BY <1>1, <1>5 DEF HasChildren
  <1>7. ASSUME NEW i \in 1 .. Len(keys), i # j
        PROVE  keys[i].nodeId # id
    <2>1. OneParent(A) /\ p \in DOMAIN A /\ id # 0
      <3>1. id # 0
        BY <1>1, NodeFacts
      <3> QED
        BY <1>1, <1>2, <3>1 DEF Structure
    <2> QED
      BY <2>1, <1>2, <1>3, <1>5, <1>7 DEF OneParent
  <1>8. ASSUME NEW i \in 1 .. Len(keys), i # j
        PROVE  /\ countOf(N, keys[i]) = countOf(T, keys[i])
               /\ accumOf(N, keys[i]) = accumOf(T, keys[i])
    BY <1>1, <1>5, <1>7, <1>8 DEF countOf, accumOf
  <1>9. /\ KeysFirst(T, keys, {}) /\ T[p].accumCount = countOfAll(T, keys)
        /\ T[p].accum = accumOfAll(T, keys)
    BY <1>0, <1>2 DEF Exact
  <1>10. KeysFirst(N, keys, {j})
    BY <1>1, <1>5, <1>7, <1>9 DEF KeysFirst, firstItem
  <1>11. id # 0
    BY <1>1, NodeFacts
  <1>12. keys[j].item = firstItem(T, id)
    BY <1>2, <1>5, <1>9, <1>11 DEF KeysFirst
  <1>13. /\ countOfAll(N, keys) = countOfAll(T, keys) - countOf(T, keys[j]) + countOf(N, keys[j])
         /\ accumOfAll(N, keys) = accumOfAll(T, keys) - accumOf(T, keys[j]) + accumOf(N, keys[j])
    <2>1. T \in [DOMAIN T -> NodeType] /\ N \in [DOMAIN N -> NodeType]
      BY DEF Stored, NodeFixed
    <2> QED
      BY SMTT(30), <1>2, <1>5, <1>6, <1>8, <2>1, CountsChange
  <1>14. Counts(N, p, keys, delta, item)
    <2>1. /\ countOf(T, keys[j]) = T[id].accumCount /\ accumOf(T, keys[j]) = T[id].accum
          /\ countOf(N, keys[j]) = N[id].accumCount /\ accumOf(N, keys[j]) = N[id].accum
      BY <1>2, <1>11 DEF countOf, accumOf
    <2>2. PICK d : d = delta * item
      OBVIOUS
    <2>3. /\ N[id].accumCount = T[id].accumCount + delta
          /\ N[id].accum = T[id].accum + d
      BY <2>2 DEF NodeFixed, Counts
    <2>4. /\ T[id].accumCount \in Nat /\ T[id].accum \in Nat
          /\ T[p].accumCount \in Nat /\ T[p].accum \in Nat
      BY <1>1, <1>2, NodeFacts
    <2>5. d \in Int
      BY <2>2
    <2>6. /\ countOfAll(N, keys) = T[p].accumCount + delta
          /\ accumOfAll(N, keys) = T[p].accum + d
      BY <1>9, <1>13, <2>1, <2>3, <2>4, <2>5
    <2> QED
      BY <1>3, <2>2, <2>6 DEF Counts
  <1>15. Ascends(keys)
    <2>1. Stored(A, h) /\ OrderedAt(A, p)
      <3>1. h[p] # h[id]
        BY <1>1, <1>2, NodeFacts
      <3> QED
        BY <3>1, <1>1, <1>2 DEF Structure
    <2> QED
      BY <2>1, <1>1, <1>2, <1>3, NodeAscends
  <1> QED
    BY <1>0, <1>2, <1>3, <1>5, <1>10, <1>12, <1>14, <1>15 DEF ParentKeys

-----------------------------------------------------------------------------
(* A call at the node id, which is about to have the keys K.               *)
Amid(h, id, K) ==
    /\ breadcrumbs \in Seq(CrumbType) /\ Len(breadcrumbs) > 0
    /\ id = breadcrumbs[Len(breadcrumbs)].nodeId
    /\ id = current /\ id # 0 /\ id \in DOMAIN nodes
    /\ K = keysAhead /\ K \in Seq(KeyType)
    /\ Rekeyed(nodes, ahead, id, K)
    /\ Structure(ahead, h, id) /\ Exact(nodes, id) /\ Stored(nodes, h)
    /\ PathIn(nodes, breadcrumbs, rootNodeId, h)
    /\ Rooted(ahead, h, rootNodeId)
    /\ \A item \in Items : item \in contents <=> InLeaf(ahead, h, item)

LEMMA AmidCall ==
    ASSUME NEW h, Shape(h), running = "insert" \/ running = "erase",
           breadcrumbs \in Seq(CrumbType), breadcrumbs # <<>>,
           NEW id, id = Crumb.nodeId, NEW K, K = keysAhead
    PROVE  Amid(h, id, K)
  <1>1. Len(breadcrumbs) > 0 /\ id = breadcrumbs[Len(breadcrumbs)].nodeId
    BY DEF Crumb, Last
  <1>2. id = current
    BY DEF current
  <1>3. Len(breadcrumbs) \in DOMAIN breadcrumbs
    BY <1>1
  <1>4. Stored(nodes, h) /\ Exact(nodes, current) /\ Structure(ahead, h, current)
        /\ \A item \in Items : item \in contents <=> InLeaf(ahead, h, item)
    BY DEF Shape
  <1>5. running = "insert" => Inserting(h)
    BY DEF Shape
  <1>6. running = "erase" => Erasing(h)
    BY DEF Shape
  <1>7. id # 0 /\ id \in DOMAIN nodes /\ PathFrom(rootNodeId, h)
    <2>1. CASE running = "insert"
      <3>1. PathFrom(rootNodeId, h)
        BY <1>5, <2>1 DEF Inserting
      <3>2. id \in DOMAIN nodes
        BY <1>1, <1>3, <3>1 DEF PathFrom
      <3> QED
        BY <3>1, <3>2, <1>4, NodeFacts
    <2>2. CASE running = "erase"
      <3>1. Erasing(h)
        BY <1>6, <2>2
      <3>2. PathFrom(rootNodeId, h)
        BY <3>1 DEF Erasing
      <3>3. id \in DOMAIN nodes
        BY <1>1, <1>3, <3>2 DEF PathFrom
      <3> QED
        BY <3>2, <3>3, <1>4, NodeFacts
    <2> QED
      BY <2>1, <2>2
  <1>8. PathIn(nodes, breadcrumbs, rootNodeId, h)
    BY <1>7 DEF PathFrom, PathIn
  <1>9. Rooted(ahead, h, rootNodeId)
    BY <1>2, <1>5, <1>6, <1>7 DEF Inserting, Erasing
  <1>10. ahead = [nodes EXCEPT ![id].items = K]
    BY <1>2, <1>7 DEF ahead
  <1>11. K \in Seq(KeyType)
    <2>1. Stored(ahead, h) /\ id \in DOMAIN ahead
      BY <1>2, <1>4, <1>7, <1>10 DEF Structure
    <2>2. ahead[id].items \in Seq(KeyType)
      BY <2>1, NodeFacts
    <2>3. ahead[id].items = K
      <3>1. nodes[id] \in NodeType
        BY <1>4, <1>7 DEF Stored
      <3> QED
        BY <3>1, <1>7, <1>10 DEF NodeType
    <2> QED
      BY <2>2, <2>3
  <1>12. Rekeyed(nodes, ahead, id, K)
    BY <1>4, <1>7, <1>10, <1>11, RekeyedIs
  <1> QED
    BY <1>1, <1>2, <1>4, <1>7, <1>8, <1>9, <1>11, <1>12 DEF Amid

LEMMA AmidInsert ==
    ASSUME NEW h, Shape(h), running = "insert",
           NEW id, NEW K, Amid(h, id, K)
    PROVE  /\ oldNew \in Items /\ ~neighbourRefreshNeeded
           /\ NotLeftOn(nodes, breadcrumbs, oldNew)
           /\ InsertKeys(nodes, h, id, K, oldNew, IF pending THEN 1 ELSE 0)
  <1>1. Inserting(h)
    BY DEF Shape
  <1>2. id = current /\ id # 0 /\ K = keysAhead
    BY DEF Amid
  <1>3. InsertCurrent(h) /\ InsertPath(h) /\ oldNew \in Items /\ ~neighbourRefreshNeeded
    BY <1>1, <1>2 DEF Inserting
  <1>4. NotLeftOn(nodes, breadcrumbs, oldNew)
    BY <1>3 DEF InsertPath, NotLeftOn
  <1> QED
    BY <1>2, <1>3, <1>4 DEF InsertCurrent, InsertKeys, Counts, TotalsOff

LEMMA AmidErase ==
    ASSUME NEW h, Shape(h), running = "erase",
           NEW id, NEW K, Amid(h, id, K)
    PROVE  /\ oldNew \in Items /\ newKey = NoKey
           /\ EraseKeys(nodes, id, Crumb.index, K, oldNew, pending, neighbourRefreshNeeded)
  <1>1. Erasing(h)
    BY DEF Shape
  <1>2. id = current /\ id # 0 /\ K = keysAhead
    BY DEF Amid
  <1>3. EraseCurrent /\ oldNew \in Items /\ newKey = NoKey
    <2>1. breadcrumbs # <<>>
      BY DEF Amid
    <2> QED
      BY <1>1, <2>1 DEF Erasing
  <1> QED
    BY <1>2, <1>3 DEF EraseCurrent, EraseKeys, Counts, TotalsOff

-----------------------------------------------------------------------------
(* The way up.                                                             *)
LEMMA StepUp ==
    ASSUME NEW h, NEW id, NEW K, Amid(h, id, K), NEW p, NEW j,
           AtTop(nodes, breadcrumbs, rootNodeId, h, id, p, j),
           breadcrumbs' = Front(breadcrumbs)
    PROVE  /\ breadcrumbs' \in Seq(CrumbType)
           /\ Fronts(breadcrumbs, breadcrumbs')
           /\ IF p = 0 THEN breadcrumbs' = <<>> /\ current' = 0
              ELSE breadcrumbs' # <<>> /\ current' = p /\ Crumb'.index = j - 1
  <1>1. PICK s, t, n : s = breadcrumbs /\ t = breadcrumbs' /\ n = Len(s)
    OBVIOUS
  <1>2. s \in Seq(CrumbType) /\ n \in Nat /\ n > 0
    BY <1>1 DEF Amid
  <1>3. Fronts(s, t)
    BY <1>1, <1>2, FrontIs
  <1>4. t \in Seq(CrumbType) /\ Len(t) = n - 1 /\ \A k \in 1 .. n - 1 : t[k] = s[k]
    BY <1>1, <1>3 DEF Fronts
  <1>5. CASE p = 0
    <2>1. n = 1
      BY <1>1, <1>5 DEF AtTop
    <2>2. t = <<>>
      BY <1>4, <2>1
    <2> QED
      BY <1>1, <1>3, <1>4, <1>5, <2>2 DEF current
  <1>6. CASE p # 0
    <2>1. n > 1 /\ s[n - 1].nodeId = p /\ s[n - 1].index = j - 1
      BY <1>1, <1>6 DEF AtTop
    <2>2. n - 1 \in 1 .. n - 1 /\ t # <<>>
      BY <1>2, <1>4, <2>1
    <2>3. t[Len(t)] = s[n - 1]
      BY <1>4, <2>2
    <2>4. Crumb' = s[n - 1]
      BY <1>1, <2>3 DEF Crumb, Last
    <2>5. current' = p
      BY <1>1, <2>1, <2>2, <2>4 DEF current
    <2> QED
      BY <1>1, <1>3, <1>4, <1>6, <2>1, <2>2, <2>4, <2>5
  <1> QED
    BY <1>5, <1>6

LEMMA RootNoChild ==
    ASSUME NEW A, NEW h, NEW q, Structure(A, h, q), NEW root, Rooted(A, h, root)
    PROVE  ~IsChild(A, root)
  <1>1. SUFFICES ASSUME NEW a \in DOMAIN A, NEW i \in DOMAIN A[a].items,
                        A[a].items[i].nodeId = root
                 PROVE  FALSE
    BY DEF IsChild
  <1>2. root \in DOMAIN A /\ Stored(A, h)
    BY DEF Rooted, Structure
  <1>3. h[root] \in Nat /\ h[a] \in Nat /\ root # 0
    BY <1>2, NodeFacts
  <1>4. LevelsAt(A, h, a)
    BY DEF Structure
  <1>5. h[a] # 0 /\ h[root] = h[a] - 1
    BY <1>1, <1>3, <1>4 DEF LevelsAt
  <1>6. a = root \/ h[a] < h[root]
    BY DEF Rooted
  <1> QED
    BY <1>3, <1>5, <1>6

-----------------------------------------------------------------------------
(* insertItem at a node that keeps its place.                              *)
LEMMA FirstStays ==
    ASSUME NEW T, NEW h, NEW id, NEW K, NEW R, NEW item, NEW more,
           KeysFixed(T, K, R), InsertKeys(T, h, id, K, item, more),
           Len(K) > 0, K \in Seq(KeyType), ~(item < firstItem(T, id)),
           T[id].items[1].nodeId = 0 => T[id].items[1] = K[1]
    PROVE  R[1].item = firstItem(T, id)
  <1>1. 1 \in 1 .. Len(K) /\ 1 \in DOMAIN K
    BY SMT
  <1>2. ~(item < T[id].items[1].item)
    BY DEF firstItem
  <1>3. K[1] = T[id].items[1] /\ KeysFirst(T, K, {})
    BY <1>2 DEF InsertKeys
  <1>4. K[1].nodeId # 0 => K[1].item = firstItem(T, K[1].nodeId)
    BY <1>1, <1>3 DEF KeysFirst
  <1> QED
    BY <1>1, <1>3, <1>4 DEF KeysFixed, firstItem

LEMMA InsertFixedShape ==
    ASSUME NEW h, Shape(h), running = "insert",
           NEW id, NEW K, Amid(h, id, K), NEW N, nodes' = N, NEW R,
           NodeFixed(nodes, N, id, K, R), KeysFixed(nodes, K, R), Sized(N[id]),
           pending' = FALSE, breadcrumbs' = Front(breadcrumbs),
           UNCHANGED <<rootNodeId, running, oldNew, neighbourRefreshNeeded, contents>>
    PROVE  Shape(h)' /\ breadcrumbs' \in Seq(CrumbType)
  <1>1. PICK A, T : A = ahead /\ T = nodes
    OBVIOUS
  <1>2. /\ breadcrumbs \in Seq(CrumbType) /\ Len(breadcrumbs) > 0
        /\ id = breadcrumbs[Len(breadcrumbs)].nodeId
        /\ id # 0 /\ id \in DOMAIN T
        /\ K \in Seq(KeyType)
        /\ Rekeyed(T, A, id, K)
        /\ Structure(A, h, id) /\ Exact(T, id) /\ Stored(T, h)
        /\ PathIn(T, breadcrumbs, rootNodeId, h)
        /\ Rooted(A, h, rootNodeId)
        /\ \A item \in Items : item \in contents <=> InLeaf(A, h, item)
    BY <1>1 DEF Amid
  <1>3. /\ oldNew \in Items /\ ~neighbourRefreshNeeded
        /\ NotLeftOn(T, breadcrumbs, oldNew)
        /\ InsertKeys(T, h, id, K, oldNew, IF pending THEN 1 ELSE 0)
    BY <1>1, AmidInsert
  <1>i. oldNew \in Nat
    BY <1>3, ItemsAssumption
  <1>4. NodeFixed(T, N, id, K, R) /\ KeysFixed(T, K, R)
    BY <1>1
  <1>5. /\ Structure(N, h, 0)
        /\ \A item : InLeaf(A, h, item) <=> InLeaf(N, h, item)
        /\ Rooted(N, h, rootNodeId)
    BY <1>2, <1>4, FixedWhole
  <1>6. Stored(N, h)
    BY <1>5 DEF Structure
  <1>7. \A item \in Items : item \in contents' <=> InLeaf(N, h, item)
    BY <1>2, <1>5
  <1>8. PICK p, j : AtTop(T, breadcrumbs, rootNodeId, h, id, p, j)
    BY <1>2, PathTop
  <1>9. PICK t : t = breadcrumbs'
    OBVIOUS
  <1>10. /\ t \in Seq(CrumbType)
         /\ Fronts(breadcrumbs, t)
         /\ IF p = 0 THEN t = <<>> /\ current' = 0
            ELSE t # <<>> /\ current' = p /\ Crumb'.index = j - 1
    BY <1>1, <1>8, <1>9, StepUp
  <1>11. KeptAbove(T, N, h, h, id)
    <2>1. ASSUME NEW a \in DOMAIN T, h[a] > h[id]
          PROVE  a \in DOMAIN N /\ N[a] = T[a]
      <3>1. a # id
        BY <2>1, <1>2, NodeFacts
      <3> QED
        BY <3>1, <1>4 DEF NodeFixed
    <2> QED
      BY <2>1 DEF KeptAbove
  <1>k. KeptOver(T, N, h, h, breadcrumbs)
    BY <1>2, <1>11 DEF KeptOver
  <1>12. PathIn(N, t, rootNodeId, h)
    BY <1>2, <1>10, <1>k, PathFront
  <1>13. NotLeftOn(N, t, oldNew)
    BY <1>2, <1>3, <1>10, <1>k, NotLeftFront
  <1>14. CASE p = 0
    <2>1. ~IsChild(A, id)
      <3>1. id = rootNodeId
        BY <1>8, <1>14 DEF AtTop
      <3> QED
        BY <3>1, <1>2, RootNoChild
    <2>2. Exact(N, 0)
      <3>1. PICK q : q = 0
        OBVIOUS
      <3>2. (q = 0 => ~IsChild(A, id)) /\ (q # 0 => \E i : KeyAbove(T, h, id, q, i))
        BY <2>1, <3>1
      <3>3. Exact(N, q)
        BY <3>2, <1>2, <1>4, ExactFixed
      <3> QED
        BY <3>1, <3>3
    <2>3. t = <<>> /\ current' = 0
      BY <1>10, <1>14
    <2>4. ahead' = N
      BY <2>3 DEF ahead
    <2>5. rootNodeId' = rootNodeId /\ rootNodeId \in DOMAIN N
      BY <1>5 DEF Rooted
    <2>6. PathFrom(rootNodeId, h)' /\ InsertPath(h)'
      BY <2>3, <1>9 DEF PathFrom, InsertPath
    <2>7. Inserting(h)'
      BY <2>3, <2>4, <2>5, <2>6, <1>3, <1>5 DEF Inserting
    <2>8. running' = "insert"
      OBVIOUS
    <2>9. Shape(h)'
      BY <2>2, <2>3, <2>4, <2>7, <2>8, <1>5, <1>6, <1>7 DEF Shape
    <2> QED
      BY <2>9, <1>9, <1>10
  <1>15. CASE p # 0
    <2>1. KeyAbove(T, h, id, p, j)
      BY <1>8, <1>15 DEF AtTop, KeyAbove
    <2>2. Exact(N, p)
      <3>1. (p = 0 => ~IsChild(A, id)) /\ (p # 0 => \E i : KeyAbove(T, h, id, p, i))
        BY <2>1, <1>15
      <3> QED
        BY <3>1, <1>2, <1>4, ExactFixed
    <2>3. PICK keys, f, item : keys = T[p].items /\ f = firstItem(T, id) /\ item = oldNew
      OBVIOUS
    <2>4. /\ N[p].items = keys
          /\ KeysFirst(N, keys, {j})
          /\ keys[j].item = f
          /\ Counts(N, p, keys, 1, item)
          /\ keys \in Seq(KeyType) /\ Ascends(keys) /\ DOMAIN keys = 1 .. Len(keys)
          /\ Len(keys) \in Nat /\ j \in 1 .. Len(keys)
      <3>1. Counts(T, id, K, 1, item) /\ item \in Nat /\ 1 \in Int
        BY <1>3, <1>i, <2>3 DEF InsertKeys
      <3> QED
        <4>1. ParentKeys(T, N, id, p, j, 1, item)
          BY <3>1, <2>1, <1>2, <1>4, ParentFixed
        <4> QED
          BY <4>1, <2>3 DEF ParentKeys
    <2>5. keys[1].item \in Nat /\ keys[j].item \in Nat /\ 1 \in 1 .. Len(keys)
      <3>1. 1 \in 1 .. Len(keys)
        BY <2>4
      <3>2. keys[1] \in KeyType /\ keys[j] \in KeyType
        BY <2>4, <3>1
      <3> QED
        BY <3>1, <3>2, KeyParts
    <2>6. keys[j].item <= item \/ j = 1
      <3>1. Len(breadcrumbs) - 1 \in DOMAIN breadcrumbs
        BY <1>2, <1>8, <1>15 DEF AtTop
      <3>2. breadcrumbs[Len(breadcrumbs) - 1].nodeId = p
            /\ breadcrumbs[Len(breadcrumbs) - 1].index = j - 1
        BY <1>8, <1>15 DEF AtTop
      <3>3. T[p].items[(j - 1) + 1].item <= oldNew \/ j - 1 = 0
        BY <3>1, <3>2, <1>3 DEF NotLeftOn
      <3>4. (j - 1) + 1 = j /\ (j - 1 = 0 => j = 1)
        BY <2>4
      <3> QED
        BY <2>3, <3>3, <3>4
    <2>7. item < keys[1].item => j = 1
      <3>1. j = 1 \/ 1 < j
        BY <2>4
      <3>2. 1 < j => keys[1].item < keys[j].item
        BY <2>4, <2>5 DEF Ascends
      <3> QED
        BY <3>1, <3>2, <2>5, <2>6, <2>3, <1>i
    <2>8. ASSUME ~(item < keys[1].item)
          PROVE  KeysFirst(N, keys, {})
      <3>1. ~(item < f)
        <4>1. j = 1 => keys[j] = keys[1]
          OBVIOUS
        <4> QED
          BY <4>1, <2>4, <2>5, <2>6, <2>8, <2>3, <1>i
      <3>2. Len(K) > 0
        <4>1. Len(K) = Len(R) /\ Len(N[id].items) > 0 /\ N[id].items = R
          <5>1. Len(N[id].items) \in 1 .. MAX_ITEMS
            BY DEF Sized
          <5> QED
            BY <5>1, <1>4 DEF KeysFixed, NodeFixed
        <4> QED
          BY <4>1
      <3>3. R[1].item = f
        <4>1. ~(item < T[id].items[1].item)
          BY <3>1, <2>3 DEF firstItem
        <4>2. K[1] = T[id].items[1]
          BY <4>1, <2>3, <1>3 DEF InsertKeys
        <4>3. PICK more : more = IF pending THEN 1 ELSE 0
          OBVIOUS
        <4>4. InsertKeys(T, h, id, K, item, more) /\ ~(item < firstItem(T, id))
              /\ (T[id].items[1].nodeId = 0 => T[id].items[1] = K[1])
          BY <4>2, <4>3, <3>1, <2>3, <1>3
        <4>5. R[1].item = firstItem(T, id)
          BY <4>4, <3>2, <1>2, <1>4, FirstStays
        <4> QED
          BY <4>5, <2>3
      <3>4. firstItem(N, id) = f
        BY <3>3, <1>4 DEF firstItem, NodeFixed
      <3>5. keys[j].nodeId = id
        BY <2>1, <2>3 DEF KeyAbove
      <3> QED
        BY <3>4, <3>5, <2>4 DEF KeysFirst
    <2>9. KeysFirst(N, keys, IF item < keys[1].item THEN {1} ELSE {})
      BY <2>4, <2>7, <2>8
    <2>10. InsertKeys(N, h, p, keys, item, 0)
      <3>1. \A i \in 3 .. Len(keys) : keys[1].item < keys[i].item
        BY <2>4, <2>5 DEF Ascends
      <3>2. Len(keys) = Len(keys) + 0
        BY <2>4
      <3> QED
        BY <3>1, <3>2, <2>4, <2>9 DEF InsertKeys
    <2>11. Midway(N, h, t, rootNodeId, p, keys, contents')
      <3>1. [N EXCEPT ![p].items = keys] = N
        <4>1. p \in DOMAIN N /\ N[p] \in NodeType
          BY <2>1, <1>4 DEF KeyAbove, NodeFixed
        <4>2. [N[p] EXCEPT !.items = keys] = N[p]
          BY <4>1, <2>4 DEF NodeType
        <4>3. N = [a \in DOMAIN N |-> N[a]]
          BY <1>4 DEF NodeFixed
        <4> QED
          BY <4>1, <4>2, <4>3
      <3>2. Structure(N, h, p)
        BY <1>5 DEF Structure
      <3> QED
        BY <3>1, <3>2, <2>2, <1>5, <1>6, <1>7, <1>12 DEF Midway
    <2>12. current' = p /\ p # 0 /\ keysAhead' = keys
      <3>1. current' = p
        BY <1>10, <1>15
      <3> QED
        BY <3>1, <1>15, <2>4 DEF keysAhead
    <2>13. /\ running' = "insert" /\ oldNew' \in Items /\ ~neighbourRefreshNeeded'
           /\ InsertKeys(N, h, p, keys, oldNew', IF pending' THEN 1 ELSE 0)
           /\ NotLeftOn(N, breadcrumbs', oldNew')
           /\ Midway(N, h, breadcrumbs', rootNodeId', p, keys, contents')
      BY <2>3, <2>10, <2>11, <1>3, <1>9, <1>13
    <2>14. Shape(h)'
      BY <2>12, <2>13, MidwayInsert
    <2> QED
      BY <2>14, <1>9, <1>10
  <1> QED
    BY <1>14, <1>15

-----------------------------------------------------------------------------
(* The node id of T with the keys R and the totals c and s.                *)
Draft(T, S, id, R, c, s) ==
    /\ id \in DOMAIN T
    /\ S = [T EXCEPT ![id] = [items |-> R,
                              nextSibling |-> T[id].nextSibling,
                              prevSibling |-> T[id].prevSibling,
                              accumCount |-> c, accum |-> s]]

LEMMA DraftFirst ==
    ASSUME NEW T, T \in [DOMAIN T -> NodeType], NEW id \in DOMAIN T
    PROVE  Draft(T, T, id, T[id].items, T[id].accumCount, T[id].accum)
  BY DEF Draft, NodeType

LEMMA DraftParts ==
    ASSUME NEW T, NEW S, NEW id, NEW R, NEW c, NEW s, Draft(T, S, id, R, c, s)
    PROVE  /\ id \in DOMAIN T /\ DOMAIN S = DOMAIN T
           /\ \A a \in DOMAIN T : a # id => S[a] = T[a]
           /\ S[id].items = R
           /\ S[id].nextSibling = T[id].nextSibling
           /\ S[id].prevSibling = T[id].prevSibling
           /\ S[id].accumCount = c /\ S[id].accum = s
  BY DEF Draft

LEMMA DraftKeys ==
    ASSUME NEW T, NEW S, NEW id, NEW R, NEW c, NEW s, Draft(T, S, id, R, c, s),
           NEW R2, NEW S2, S2 = [S EXCEPT ![id].items = R2]
    PROVE  Draft(T, S2, id, R2, c, s)
  <1>1. PICK r, r2 :
            /\ r = [items |-> R, nextSibling |-> T[id].nextSibling,
                    prevSibling |-> T[id].prevSibling, accumCount |-> c, accum |-> s]
            /\ r2 = [items |-> R2, nextSibling |-> T[id].nextSibling,
                     prevSibling |-> T[id].prevSibling, accumCount |-> c, accum |-> s]
    OBVIOUS
  <1>2. id \in DOMAIN T /\ S = [T EXCEPT ![id] = r]
    BY <1>1 DEF Draft
  <1>3. [S[id] EXCEPT !.items = R2] = r2
    BY <1>1, <1>2
  <1>4. S2 = [T EXCEPT ![id] = r2]
    BY <1>2, <1>3
  <1> QED
    BY <1>1, <1>2, <1>4 DEF Draft

LEMMA DraftAdd ==
    ASSUME NEW T, NEW S, NEW id, NEW R, NEW c, NEW s, Draft(T, S, id, R, c, s),
           NEW d, NEW e, NEW S2, S2 = addToNode(S, id, d, e)
    PROVE  Draft(T, S2, id, R, c + d, s + e)
  <1>1. PICK c2, s2 : c2 = c + d /\ s2 = s + e
    OBVIOUS
  <1>2. PICK r, r2 :
            /\ r = [items |-> R, nextSibling |-> T[id].nextSibling,
                    prevSibling |-> T[id].prevSibling, accumCount |-> c, accum |-> s]
            /\ r2 = [items |-> R, nextSibling |-> T[id].nextSibling,
                     prevSibling |-> T[id].prevSibling, accumCount |-> c2, accum |-> s2]
    OBVIOUS
  <1>3. id \in DOMAIN T /\ S = [T EXCEPT ![id] = r]
    BY <1>2 DEF Draft
  <1>4. S2 = [S EXCEPT ![id].accumCount = c2, ![id].accum = s2]
    BY <1>1, <1>2, <1>3 DEF addToNode
  <1>a. PICK r1 :
            r1 = [items |-> R, nextSibling |-> T[id].nextSibling,
                  prevSibling |-> T[id].prevSibling, accumCount |-> c2, accum |-> s]
    OBVIOUS
  <1>b. S[id] = r
    BY <1>3
  <1>c. [S[id] EXCEPT !.accumCount = c2] = r1
    BY <1>2, <1>a, <1>b
  <1>d. [r1 EXCEPT !.accum = s2] = r2
    BY <1>2, <1>a
  <1>5. [[S[id] EXCEPT !.accumCount = c2] EXCEPT !.accum = s2] = r2
    BY <1>c, <1>d
  <1>6. S2 = [T EXCEPT ![id] = r2]
    BY <1>3, <1>4, <1>5
  <1> QED
    BY <1>1, <1>2, <1>3, <1>6 DEF Draft

(* Keys of which those not in stale have the first items of their nodes.   *)
PartFixed(T, K, R, stale) ==
    /\ R \in Seq(KeyType) /\ Len(R) = Len(K)
    /\ \A i \in 1 .. Len(K) :
          /\ R[i].nodeId = K[i].nodeId
          /\ K[i].nodeId = 0 => R[i] = K[i]
    /\ KeysFirst(T, R, stale)

LEMMA AllFixed ==
    ASSUME NEW T, NEW K \in Seq(KeyType), NEW R, NEW stale, PartFixed(T, K, R, stale),
           \A i \in 1 .. Len(K) : i \notin stale
    PROVE  KeysFixed(T, K, R)
  <1>1. DOMAIN R = 1 .. Len(K)
    BY DEF PartFixed
  <1> QED
    BY <1>1 DEF PartFixed, KeysFixed, KeysFirst

(* The children of keys have items. *)
HasItems(T, id, K) ==
    \A i \in 1 .. Len(K) : K[i].nodeId # 0 =>
        /\ K[i].nodeId \in DOMAIN T /\ K[i].nodeId # id
        /\ firstItem(T, K[i].nodeId) \in Items

LEMMA DraftRefresh ==
    ASSUME NEW T, NEW S, NEW id, NEW R, NEW c, NEW s, Draft(T, S, id, R, c, s),
           NEW K, HasItems(T, id, K), NEW stale, PartFixed(T, K, R, stale),
           NEW index \in Nat, index + 1 \in 1 .. Len(K), K \in Seq(KeyType),
           NEW S2, S2 = refreshIndex(S, id, index)
    PROVE  \E R2 : /\ Draft(T, S2, id, R2, c, s)
                   /\ PartFixed(T, K, R2, stale \ {index + 1})
  <1>1. PICK j : j = index + 1
    OBVIOUS
  <1>2. j \in 1 .. Len(K) /\ Len(K) \in Nat
    BY <1>1
  <1>3. /\ id \in DOMAIN T /\ DOMAIN S = DOMAIN T
        /\ \A a \in DOMAIN T : a # id => S[a] = T[a]
        /\ S[id].items = R
    BY DraftParts
  <1>4. /\ R \in Seq(KeyType) /\ Len(R) = Len(K) /\ DOMAIN R = 1 .. Len(K)
        /\ \A i \in 1 .. Len(K) :
              /\ R[i].nodeId = K[i].nodeId
              /\ K[i].nodeId = 0 => R[i] = K[i]
        /\ KeysFirst(T, R, stale)
    BY DEF PartFixed
  <1>5. PICK child : child = K[j].nodeId
    OBVIOUS
  <1>6. S2 = IF child = 0 THEN S
             ELSE [S EXCEPT ![id].items[j].item = firstItem(S, child)]
    BY <1>1, <1>2, <1>3, <1>4, <1>5 DEF refreshIndex
  <1>7. CASE child = 0
    <2>1. KeysFirst(T, R, stale \ {index + 1})
      BY <1>1, <1>2, <1>4, <1>5, <1>7 DEF KeysFirst
    <2> QED
      BY <1>4, <1>6, <1>7, <2>1 DEF PartFixed
  <1>8. CASE child # 0
    <2>1. child \in DOMAIN T /\ child # id /\ firstItem(T, child) \in Items
      BY <1>2, <1>5, <1>8 DEF HasItems
    <2>2. PICK f : f = firstItem(T, child)
      OBVIOUS
    <2>3. firstItem(S, child) = f
      BY <1>3, <2>1, <2>2 DEF firstItem
    <2>4. PICK R2 : R2 = [R EXCEPT ![j].item = f]
      OBVIOUS
    <2>5. S2 = [S EXCEPT ![id].items = R2]
      BY <1>3, <1>6, <1>8, <2>3, <2>4
    <2>6. Draft(T, S2, id, R2, c, s)
      BY <2>5, DraftKeys
    <2>7. R[j] \in KeyType
      BY <1>2, <1>4
    <2>8. /\ R2 \in Seq(KeyType) /\ Len(R2) = Len(K)
          /\ R2[j].item = f /\ R2[j].nodeId = R[j].nodeId
          /\ \A i \in 1 .. Len(K) : i # j => R2[i] = R[i]
      <3>1. [R[j] EXCEPT !.item = f] \in KeyType
        BY <2>1, <2>2, <2>7 DEF KeyType
      <3>2. R2 = [R EXCEPT ![j] = [R[j] EXCEPT !.item = f]]
        BY <1>2, <1>4, <2>4
      <3> QED
        BY <1>2, <1>4, <2>7, <3>1, <3>2 DEF KeyType
    <2>9. ASSUME NEW i \in 1 .. Len(K)
          PROVE  R2[i].nodeId = K[i].nodeId /\ (K[i].nodeId = 0 => R2[i] = K[i])
      BY <1>4, <1>5, <1>8, <2>8
    <2>10. KeysFirst(T, R2, stale \ {index + 1})
      <3>1. DOMAIN R2 = 1 .. Len(K)
        BY <2>8
      <3>2. ASSUME NEW i \in 1 .. Len(K), i \notin stale \ {j}, R2[i].nodeId # 0
            PROVE  R2[i].item = firstItem(T, R2[i].nodeId)
        <4>1. CASE i = j
          BY <4>1, <1>4, <1>5, <2>2, <2>8, <1>2
        <4>2. CASE i # j
          <5>1. R2[i] = R[i] /\ i \in DOMAIN R \ stale
            BY <4>2, <3>2, <2>8, <1>4
          <5> QED
            BY <5>1, <3>2, <1>4 DEF KeysFirst
        <4> QED
          BY <4>1, <4>2
      <3> QED
        BY <1>1, <3>1, <3>2 DEF KeysFirst
    <2> QED
      BY <2>6, <2>8, <2>9, <2>10 DEF PartFixed
  <1> QED
    BY <1>7, <1>8

LEMMA DraftFixed ==
    ASSUME NEW T, T \in [DOMAIN T -> NodeType],
           NEW S, NEW id, NEW R \in Seq(KeyType), NEW c, NEW s, Draft(T, S, id, R, c, s),
           NEW K \in Seq(KeyType), HasChildren(T, K),
           c = countOfAll(T, K), s = accumOfAll(T, K)
    PROVE  NodeFixed(T, S, id, K, R)
  <1>1. c \in Nat /\ s \in Nat
    BY CountType
  <1>2. S \in [DOMAIN S -> NodeType]
    BY <1>1 DEF Draft, NodeType
  <1> QED
    BY <1>2, DraftParts DEF NodeFixed

-----------------------------------------------------------------------------
(* The children of the keys that a node is about to have.                  *)
LEMMA AmidItems ==
    ASSUME NEW h, NEW id, NEW K, Amid(h, id, K)
    PROVE  /\ HasItems(nodes, id, K) /\ HasChildren(nodes, K)
           /\ nodes \in [DOMAIN nodes -> NodeType] /\ K \in Seq(KeyType)
           /\ Len(K) \in Nat /\ DOMAIN K = 1 .. Len(K) /\ id \in DOMAIN nodes
  <1>1. PICK A, T : A = ahead /\ T = nodes
    OBVIOUS
  <1>2. /\ id \in DOMAIN T /\ K \in Seq(KeyType)
        /\ Rekeyed(T, A, id, K)
        /\ Structure(A, h, id) /\ Exact(T, id) /\ Stored(T, h)
    BY <1>1 DEF Amid
  <1>3. DOMAIN A = DOMAIN T /\ A[id].items = K /\ id \in DOMAIN A
    BY <1>2 DEF Rekeyed
  <1>4. KeysAheadOf(A, h, id, K)
    BY <1>2, <1>3, AheadKeys
  <1>5. ASSUME NEW i \in 1 .. Len(K)
        PROVE  K[i].nodeId # 0 => K[i].nodeId \in DOMAIN T /\ K[i].nodeId # id
    BY <1>3, <1>4, <1>5 DEF KeysAheadOf
  <1>6. ASSUME NEW a \in DOMAIN T
        PROVE  firstItem(T, a) \in Items
    <2>1. T[a].items \in Seq(KeyType) /\ Len(T[a].items) \in Nat
      BY <1>2, NodeFacts
    <2>2. Len(T[a].items) \in 1 .. MAX_ITEMS
      BY <1>2 DEF Exact, Sized
    <2>3. 1 \in 1 .. Len(T[a].items)
      BY <2>1, <2>2, Sizes
    <2>4. T[a].items[1] \in KeyType
      BY <2>1, <2>3
    <2> QED
      BY <2>4, KeyParts DEF firstItem
  <1>7. HasItems(T, id, K) /\ HasChildren(T, K)
    BY <1>5, <1>6 DEF HasItems, HasChildren
  <1> QED
    BY <1>1, <1>2, <1>4, <1>7 DEF KeysAheadOf, Stored

LEMMA OwnKeysPart ==
    ASSUME NEW T, NEW K \in Seq(KeyType), NEW stale, KeysFirst(T, K, stale)
    PROVE  PartFixed(T, K, K, stale)
  BY DEF PartFixed

(* insertItem at a node with room for the key.                             *)
LEMMA InsertDone ==
    ASSUME NEW h, Shape(h), running = "insert",
           NEW id, NEW K, Amid(h, id, K), NEW S,
           Draft(nodes, S, id, K, nodes[id].accumCount, nodes[id].accum),
           nodes' = refreshIndex(addToNode(S, id, 1, oldNew), id, 0),
           Len(K) <= MAX_ITEMS,
           pending' = FALSE, breadcrumbs' = Front(breadcrumbs),
           UNCHANGED <<rootNodeId, running, oldNew, neighbourRefreshNeeded, contents>>
    PROVE  Shape(h)' /\ breadcrumbs' \in Seq(CrumbType)
  <1>1. PICK T, N, item, S2 : T = nodes /\ N = nodes' /\ item = oldNew
                              /\ S2 = addToNode(S, id, 1, oldNew)
    OBVIOUS
  <1>2. /\ HasItems(T, id, K) /\ HasChildren(T, K)
        /\ T \in [DOMAIN T -> NodeType] /\ K \in Seq(KeyType)
        /\ Len(K) \in Nat /\ DOMAIN K = 1 .. Len(K) /\ id \in DOMAIN T
    BY <1>1, AmidItems
  <1>3. PICK more : more = IF pending THEN 1 ELSE 0
    OBVIOUS
  <1>4. InsertKeys(T, h, id, K, item, more) /\ item \in Items
    BY <1>1, <1>3, AmidInsert
  <1>5. /\ T[id].items \in Seq(KeyType) /\ Len(T[id].items) \in Nat
        /\ T[id].accumCount \in Nat /\ T[id].accum \in Nat /\ item \in Nat
        /\ Sized(T[id])
    <2>1. Stored(T, h) /\ Exact(T, id)
      BY <1>1 DEF Amid
    <2> QED
      BY <1>2, <1>4, <2>1, NodeFacts, ItemsAssumption DEF Exact
  <1>6. /\ Len(K) = Len(T[id].items) + more
        /\ countOfAll(T, K) = T[id].accumCount + 1
        /\ accumOfAll(T, K) = T[id].accum + item
    BY <1>4, <1>5 DEF InsertKeys, Counts
  <1>7. /\ Len(K) \in 1 .. MAX_ITEMS
        /\ T[id].nextSibling # 0 => Len(K) >= MIN_ITEMS
    <2>1. more \in {0, 1}
      BY <1>3
    <2>2. Len(T[id].items) >= 1 /\ (T[id].nextSibling # 0 => Len(T[id].items) >= MIN_ITEMS)
      BY <1>5, Sizes DEF Sized
    <2>3. PICK m, n : m = Len(K) /\ n = Len(T[id].items)
      OBVIOUS
    <2>4. m \in Nat /\ n \in Nat /\ m <= MAX_ITEMS /\ n >= 1
          /\ m = n + more /\ (T[id].nextSibling # 0 => n >= MIN_ITEMS)
      BY <1>2, <1>5, <1>6, <2>2, <2>3
    <2>5. m \in 1 .. MAX_ITEMS /\ (T[id].nextSibling # 0 => m >= MIN_ITEMS)
      <3>1. MIN_ITEMS \in Nat /\ MAX_ITEMS \in Nat
        BY Sizes
      <3> QED
        BY ONLY <2>1, <2>4, <3>1
    <2> QED
      BY <2>3, <2>5
  <1>8. KeysFirst(T, K, {1})
    BY <1>4 DEF InsertKeys, KeysFirst
  <1>9. PICK c, s : c = T[id].accumCount + 1 /\ s = T[id].accum + item
    OBVIOUS
  <1>10. Draft(T, S2, id, K, c, s)
    BY <1>1, <1>9, DraftAdd
  <1>11. PartFixed(T, K, K, {1})
    BY <1>2, <1>8, OwnKeysPart
  <1>12. PICK R : Draft(T, N, id, R, c, s) /\ PartFixed(T, K, R, {1} \ {0 + 1})
    <2>1. 0 + 1 \in 1 .. Len(K)
      BY <1>2, <1>7
    <2>2. N = refreshIndex(S2, id, 0)
      BY <1>1
    <2> QED
      BY <1>2, <1>10, <1>11, <2>1, <2>2, DraftRefresh
  <1>13. KeysFixed(T, K, R)
    <2>1. PICK stale : stale = {1} \ {0 + 1}
      OBVIOUS
    <2>2. \A i \in 1 .. Len(K) : i \notin stale
      BY <2>1
    <2> QED
      BY <1>2, <1>12, <2>1, <2>2, AllFixed
  <1>14. NodeFixed(T, N, id, K, R)
    <2>1. R \in Seq(KeyType) /\ c = countOfAll(T, K) /\ s = accumOfAll(T, K)
      BY <1>6, <1>9, <1>12 DEF PartFixed
    <2> QED
      BY <1>2, <1>12, <2>1, DraftFixed
  <1>15. Sized(N[id])
    <2>1. N[id].items = R /\ N[id].nextSibling = T[id].nextSibling /\ Len(R) = Len(K)
      BY <1>13, <1>14 DEF NodeFixed, KeysFixed
    <2> QED
      BY <1>7, <2>1 DEF Sized
  <1> QED
    BY <1>1, <1>13, <1>14, <1>15, InsertFixedShape

LEMMA InsertUpdateShape ==
    ASSUME NEW h, Shape(h), breadcrumbs \in Seq(CrumbType), InsertUpdate
    PROVE  Shape(h)' /\ breadcrumbs' \in Seq(CrumbType)
  <1>1. PICK id, K : id = Crumb.nodeId /\ K = keysAhead
    OBVIOUS
  <1>2. /\ running = "insert" /\ breadcrumbs # <<>> /\ ~pending
        /\ nodes' = refreshIndex(addToNode(nodes, id, 1, oldNew), id, 0)
        /\ breadcrumbs' = Front(breadcrumbs)
        /\ UNCHANGED <<rootNodeId, running, oldNew, pending, neighbourRefreshNeeded, contents>>
    BY <1>1 DEF InsertUpdate
  <1>3. Amid(h, id, K)
    BY <1>1, <1>2, AmidCall
  <1>4. id \in DOMAIN nodes /\ nodes \in [DOMAIN nodes -> NodeType]
    BY <1>3, AmidItems
  <1>5. K = nodes[id].items
    BY <1>1, <1>2 DEF keysAhead, current
  <1>6. Draft(nodes, nodes, id, K, nodes[id].accumCount, nodes[id].accum)
    BY <1>4, <1>5, DraftFirst
  <1>7. Len(K) <= MAX_ITEMS
    <2>1. Exact(nodes, id)
      BY <1>3 DEF Amid
    <2>2. Len(nodes[id].items) \in 1 .. MAX_ITEMS
      BY <1>4, <2>1 DEF Exact, Sized
    <2> QED
      BY <1>5, <2>2, Sizes
  <1>8. pending' = FALSE
    BY <1>2
  <1> QED
    BY <1>2, <1>3, <1>6, <1>7, <1>8, InsertDone

LEMMA InsertMergeShape ==
    ASSUME NEW h, Shape(h), breadcrumbs \in Seq(CrumbType), InsertMerge
    PROVE  Shape(h)' /\ breadcrumbs' \in Seq(CrumbType)
  <1>1. PICK id, K, S :
            /\ id = Crumb.nodeId /\ K = keysAhead
            /\ S = [nodes EXCEPT ![id].items = withKey(@, newKey)]
    OBVIOUS
  <1>2. /\ running = "insert" /\ breadcrumbs # <<>> /\ pending
        /\ Len(nodes[id].items) < MAX_ITEMS
        /\ nodes' = refreshIndex(addToNode(S, id, 1, oldNew), id, 0)
        /\ pending' = FALSE
        /\ breadcrumbs' = Front(breadcrumbs)
        /\ UNCHANGED <<rootNodeId, running, oldNew, neighbourRefreshNeeded, contents>>
    BY <1>1 DEF InsertMerge
  <1>3. Amid(h, id, K)
    BY <1>1, <1>2, AmidCall
  <1>4. id \in DOMAIN nodes /\ nodes \in [DOMAIN nodes -> NodeType]
    BY <1>3, AmidItems
  <1>5. K = withKey(nodes[id].items, newKey)
    BY <1>1, <1>2 DEF keysAhead, current
  <1>6. Draft(nodes, S, id, K, nodes[id].accumCount, nodes[id].accum)
    <2>1. Draft(nodes, nodes, id, nodes[id].items, nodes[id].accumCount, nodes[id].accum)
      BY <1>4, DraftFirst
    <2>2. S = [nodes EXCEPT ![id].items = K]
      BY <1>1, <1>5
    <2> QED
      BY <2>1, <2>2, DraftKeys
  <1>7. Len(K) <= MAX_ITEMS
    <2>1. InsertKeys(nodes, h, id, K, oldNew, 1)
      <3>1. InsertKeys(nodes, h, id, K, oldNew, IF pending THEN 1 ELSE 0)
        BY <1>2, <1>3, AmidInsert
      <3> QED
        BY <1>2, <3>1
    <2>2. Len(K) = Len(nodes[id].items) + 1
      BY <2>1 DEF InsertKeys
    <2>3. Len(nodes[id].items) \in Nat
      <3>1. Stored(nodes, h)
        BY <1>3 DEF Amid
      <3> QED
        BY <1>4, <3>1, NodeFacts
    <2> QED
      BY <1>2, <2>2, <2>3, Sizes
  <1> QED
    BY <1>2, <1>3, <1>6, <1>7, InsertDone

-----------------------------------------------------------------------------
(* What the operations on nodes do to a node.                              *)
At(S, id, i, n, p, c, s) ==
    /\ id \in DOMAIN S
    /\ S[id] = [items |-> i, nextSibling |-> n, prevSibling |-> p,
                accumCount |-> c, accum |-> s]

Elsewhere(S, S2, id) ==
    /\ DOMAIN S2 = DOMAIN S
    /\ \A a \in DOMAIN S : a # id => S2[a] = S[a]

LEMMA AtNode ==
    ASSUME NEW T, T \in [DOMAIN T -> NodeType], NEW id \in DOMAIN T
    PROVE  At(T, id, T[id].items, T[id].nextSibling, T[id].prevSibling,
              T[id].accumCount, T[id].accum)
  BY DEF At, NodeType

LEMMA AtParts ==
    ASSUME NEW S, NEW id, NEW i, NEW n, NEW p, NEW c, NEW s, At(S, id, i, n, p, c, s)
    PROVE  /\ id \in DOMAIN S
           /\ S[id].items = i /\ S[id].nextSibling = n /\ S[id].prevSibling = p
           /\ S[id].accumCount = c /\ S[id].accum = s
  BY DEF At

LEMMA AtType ==
    ASSUME NEW S, NEW id, NEW i, NEW n, NEW p, NEW c, NEW s, At(S, id, i, n, p, c, s),
           i \in Seq(KeyType), n \in Nat, p \in Nat, c \in Nat, s \in Nat
    PROVE  S[id] \in NodeType
  BY DEF At, NodeType

LEMMA AtElsewhere ==
    ASSUME NEW S, NEW id, NEW i, NEW n, NEW p, NEW c, NEW s, At(S, id, i, n, p, c, s),
           NEW S2, NEW other, Elsewhere(S, S2, other), other # id
    PROVE  At(S2, id, i, n, p, c, s)
  BY DEF At, Elsewhere

LEMMA RefillAt ==
    ASSUME NEW S, NEW id, NEW i, NEW n, NEW p, NEW c, NEW s, At(S, id, i, n, p, c, s),
           NEW keys, NEW S2, S2 = refill(S, id, keys)
    PROVE  /\ At(S2, id, keys, n, p, countOfAll(S, keys), accumOfAll(S, keys))
           /\ Elsewhere(S, S2, id)
  <1>1. PICK c2, s2 : c2 = countOfAll(S, keys) /\ s2 = accumOfAll(S, keys)
    OBVIOUS
  <1>2. PICK r, r1, r2 :
          /\ r = [items |-> keys, nextSibling |-> n, prevSibling |-> p,
                  accumCount |-> c, accum |-> s]
          /\ r1 = [items |-> keys, nextSibling |-> n, prevSibling |-> p,
                   accumCount |-> c2, accum |-> s]
          /\ r2 = [items |-> keys, nextSibling |-> n, prevSibling |-> p,
                   accumCount |-> c2, accum |-> s2]
    OBVIOUS
  <1>3. [S[id] EXCEPT !.items = keys] = r
    BY <1>2 DEF At
  <1>4. [r EXCEPT !.accumCount = c2] = r1
    BY <1>2
  <1>5. [r1 EXCEPT !.accum = s2] = r2
    BY <1>2
  <1>6. S2 = [S EXCEPT ![id].items = keys, ![id].accumCount = c2, ![id].accum = s2]
    BY <1>1 DEF refill
  <1>7. S2 = [S EXCEPT ![id] = r2]
    <2>1. id \in DOMAIN S
      BY DEF At
    <2> QED
      BY <1>3, <1>4, <1>5, <1>6, <2>1
  <1> QED
    BY <1>1, <1>2, <1>7 DEF At, Elsewhere

LEMMA ItemsAt ==
    ASSUME NEW S, NEW id, NEW i, NEW n, NEW p, NEW c, NEW s, At(S, id, i, n, p, c, s),
           NEW keys, NEW S2, S2 = [S EXCEPT ![id].items = keys]
    PROVE  At(S2, id, keys, n, p, c, s) /\ Elsewhere(S, S2, id)
  <1>1. PICK r : r = [items |-> keys, nextSibling |-> n, prevSibling |-> p,
                      accumCount |-> c, accum |-> s]
    OBVIOUS
  <1>2. [S[id] EXCEPT !.items = keys] = r
    BY <1>1 DEF At
  <1>3. S2 = [S EXCEPT ![id] = r]
    BY <1>2
  <1> QED
    BY <1>1, <1>3 DEF At, Elsewhere

LEMMA NextAt ==
    ASSUME NEW S, NEW id, NEW i, NEW n, NEW p, NEW c, NEW s, At(S, id, i, n, p, c, s),
           id # 0, NEW x, NEW S2, S2 = setNext(S, id, x)
    PROVE  At(S2, id, i, x, p, c, s) /\ Elsewhere(S, S2, id)
  <1>1. PICK r : r = [items |-> i, nextSibling |-> x, prevSibling |-> p,
                      accumCount |-> c, accum |-> s]
    OBVIOUS
  <1>2. [S[id] EXCEPT !.nextSibling = x] = r
    BY <1>1 DEF At
  <1>3. S2 = [S EXCEPT ![id] = r]
    BY <1>2 DEF setNext
  <1> QED
    BY <1>1, <1>3 DEF At, Elsewhere

LEMMA PrevAt ==
    ASSUME NEW S, NEW id, NEW i, NEW n, NEW p, NEW c, NEW s, At(S, id, i, n, p, c, s),
           id # 0, NEW x, NEW S2, S2 = setPrev(S, id, x)
    PROVE  At(S2, id, i, n, x, c, s) /\ Elsewhere(S, S2, id)
  <1>1. PICK r : r = [items |-> i, nextSibling |-> n, prevSibling |-> x,
                      accumCount |-> c, accum |-> s]
    OBVIOUS
  <1>2. [S[id] EXCEPT !.prevSibling = x] = r
    BY <1>1 DEF At
  <1>3. S2 = [S EXCEPT ![id] = r]
    BY <1>2 DEF setPrev
  <1> QED
    BY <1>1, <1>3 DEF At, Elsewhere

LEMMA AddAt ==
    ASSUME NEW S, NEW id, NEW i, NEW n, NEW p, NEW c, NEW s, At(S, id, i, n, p, c, s),
           NEW d, NEW e, NEW S2, S2 = addToNode(S, id, d, e)
    PROVE  At(S2, id, i, n, p, c + d, s + e) /\ Elsewhere(S, S2, id)
  <1>1. PICK c2, s2 : c2 = c + d /\ s2 = s + e
    OBVIOUS
  <1>2. PICK r1, r2 :
          /\ r1 = [items |-> i, nextSibling |-> n, prevSibling |-> p,
                   accumCount |-> c2, accum |-> s]
          /\ r2 = [items |-> i, nextSibling |-> n, prevSibling |-> p,
                   accumCount |-> c2, accum |-> s2]
    OBVIOUS
  <1>3. S[id].accumCount = c /\ S[id].accum = s /\ id \in DOMAIN S
    BY DEF At
  <1>4. [S[id] EXCEPT !.accumCount = c2] = r1
    BY <1>2 DEF At
  <1>5. [r1 EXCEPT !.accum = s2] = r2
    BY <1>2
  <1>6. S2 = [S EXCEPT ![id].accumCount = c2, ![id].accum = s2]
    BY <1>1, <1>3 DEF addToNode
  <1>7. S2 = [S EXCEPT ![id] = r2]
    BY <1>3, <1>4, <1>5, <1>6
  <1> QED
    BY <1>1, <1>2, <1>7 DEF At, Elsewhere

KeyRefreshed(S, i, index, keys) ==
    keys = IF i[index + 1].nodeId = 0 THEN i
           ELSE [i EXCEPT ![index + 1].item = firstItem(S, i[index + 1].nodeId)]

LEMMA KeyRefreshAt ==
    ASSUME NEW S, NEW id, NEW i, NEW n, NEW p, NEW c, NEW s, At(S, id, i, n, p, c, s),
           i \in Seq(KeyType), NEW index \in Nat, index < Len(i),
           NEW S2, S2 = refreshIndex(S, id, index)
    PROVE  /\ Elsewhere(S, S2, id)
           /\ \E keys : At(S2, id, keys, n, p, c, s) /\ KeyRefreshed(S, i, index, keys)
  <1>1. PICK child, f : child = i[index + 1].nodeId /\ f = firstItem(S, child)
    OBVIOUS
  <1>2. S[id].items = i /\ id \in DOMAIN S
    BY DEF At
  <1>3. S2 = IF child = 0 THEN S ELSE [S EXCEPT ![id].items[index + 1].item = f]
    BY <1>1, <1>2 DEF refreshIndex
  <1>4. CASE child = 0
    BY <1>1, <1>3, <1>4 DEF Elsewhere, KeyRefreshed
  <1>5. CASE child # 0
    <2>1. PICK keys : keys = [i EXCEPT ![index + 1].item = f]
      OBVIOUS
    <2>2. S2 = [S EXCEPT ![id].items = keys]
      BY <1>2, <1>3, <1>5, <2>1
    <2>3. At(S2, id, keys, n, p, c, s) /\ Elsewhere(S, S2, id)
      BY <2>2, ItemsAt
    <2> QED
      BY <1>1, <1>5, <2>1, <2>3 DEF KeyRefreshed
  <1> QED
    BY <1>4, <1>5

-----------------------------------------------------------------------------
(* Keys with the same children.                                            *)
ChildrenKept(T, N, K) ==
    \A i \in 1 .. Len(K) : K[i].nodeId # 0 =>
        /\ N[K[i].nodeId].items = T[K[i].nodeId].items
        /\ N[K[i].nodeId].accumCount = T[K[i].nodeId].accumCount
        /\ N[K[i].nodeId].accum = T[K[i].nodeId].accum

LEMMA FixedCounts ==
    ASSUME NEW T, NEW N, NEW K \in Seq(KeyType), NEW R, KeysFixed(T, K, R),
           ChildrenKept(T, N, K)
    PROVE  /\ countOfAll(N, R) = countOfAll(T, K)
           /\ accumOfAll(N, R) = accumOfAll(T, K)
           /\ KeysFirst(N, R, {})
  <1>1. /\ R \in Seq(KeyType) /\ DOMAIN R = DOMAIN K /\ DOMAIN K = 1 .. Len(K)
        /\ \A i \in DOMAIN K :
              /\ R[i].nodeId = K[i].nodeId
              /\ K[i].nodeId = 0 => R[i] = K[i]
              /\ K[i].nodeId # 0 => R[i].item = firstItem(T, K[i].nodeId)
    BY DEF KeysFixed
  <1>2. \A i \in DOMAIN K : K[i].nodeId # 0 =>
            /\ firstItem(N, K[i].nodeId) = firstItem(T, K[i].nodeId)
            /\ N[K[i].nodeId].accumCount = T[K[i].nodeId].accumCount
            /\ N[K[i].nodeId].accum = T[K[i].nodeId].accum
    BY <1>1 DEF ChildrenKept, firstItem
  <1>3. KeysFirst(N, R, {})
    BY <1>1, <1>2 DEF KeysFirst
  <1>4. \A i \in DOMAIN K : countOf(N, R[i]) = countOf(T, K[i]) /\ accumOf(N, R[i]) = accumOf(T, K[i])
    BY <1>1, <1>2 DEF countOf, accumOf
  <1>5. [i \in DOMAIN R |-> countOf(N, R[i])] = [i \in DOMAIN K |-> countOf(T, K[i])]
    BY <1>1, <1>4
  <1>6. [i \in DOMAIN R |-> accumOf(N, R[i])] = [i \in DOMAIN K |-> accumOf(T, K[i])]
    BY <1>1, <1>4
  <1> QED
    BY <1>3, <1>5, <1>6 DEF countOfAll, accumOfAll

(* Keys that have the first items of their nodes already.                  *)
LEMMA OwnKeysFixed ==
    ASSUME NEW T, NEW K \in Seq(KeyType), KeysFirst(T, K, {})
    PROVE  KeysFixed(T, K, K)
  <1>1. DOMAIN K = 1 .. Len(K)
    OBVIOUS
  <1> QED
    BY <1>1 DEF KeysFirst, KeysFixed

(* The keys fixed are the same whatever they were before. *)
SameKey(K, i, L, j) == L[j] = K[i]

LEMMA FixedOnce ==
    ASSUME NEW T, NEW K \in Seq(KeyType), NEW R, KeysFixed(T, K, R),
           NEW L \in Seq(KeyType), NEW F, KeysFixed(T, L, F),
           NEW i \in 1 .. Len(K), NEW j \in 1 .. Len(L), SameKey(K, i, L, j)
    PROVE  SameKey(R, i, F, j)
  <1>0. L[j] = K[i]
    BY DEF SameKey
  <1>1. R[i] \in KeyType /\ F[j] \in KeyType
    <2>1. R \in Seq(KeyType) /\ F \in Seq(KeyType) /\ Len(R) = Len(K) /\ Len(F) = Len(L)
      BY DEF KeysFixed
    <2> QED
      BY <2>1
  <1>2. R[i].nodeId = F[j].nodeId
    BY <1>0 DEF KeysFixed
  <1>3. R[i].item = F[j].item
    BY <1>0, <1>1, <1>2 DEF KeysFixed
  <1> QED
    <2>1. PICK x, y : x = R[i] /\ y = F[j]
      OBVIOUS
    <2>2. x \in KeyType /\ y \in KeyType /\ x.nodeId = y.nodeId /\ x.item = y.item
      BY <1>1, <1>2, <1>3, <2>1
    <2>3. x = [item |-> x.item, nodeId |-> x.nodeId] /\ y = [item |-> y.item, nodeId |-> y.nodeId]
      BY <2>2 DEF KeyType
    <2>4. x = y
      BY <2>2, <2>3
    <2> QED
      BY <2>1, <2>4 DEF SameKey

(* A part of keys.                                                         *)
PartOf(K, L, n) ==
    /\ L \in Seq(KeyType)
    /\ \A i \in 1 .. Len(L) : n + i \in 1 .. Len(K) /\ L[i] = K[n + i]

LEMMA PartChildren ==
    ASSUME NEW T, NEW id, NEW K, NEW L, NEW n, PartOf(K, L, n),
           HasItems(T, id, K), HasChildren(T, K)
    PROVE  HasItems(T, id, L) /\ HasChildren(T, L)
  BY DEF PartOf, HasItems, HasChildren

LEMMA PartKept ==
    ASSUME NEW T, NEW N, NEW K, NEW L, NEW n, PartOf(K, L, n), ChildrenKept(T, N, K)
    PROVE  ChildrenKept(T, N, L)
  BY DEF PartOf, ChildrenKept

CutAt(K, m, L, R) ==
    /\ PartOf(K, L, 0) /\ PartOf(K, R, m)
    /\ Len(L) = m /\ Len(R) = Len(K) - m /\ L \o R = K
    /\ \A i \in 1 .. m : L[i] = K[i]
    /\ \A i \in 1 .. Len(K) - m : R[i] = K[m + i]

LEMMA CutParts ==
    ASSUME NEW K \in Seq(KeyType), NEW m \in 0 .. Len(K)
    PROVE  CutAt(K, m, SubSeq(K, 1, m), SubSeq(K, m + 1, Len(K)))
  <1>0. PICK L, R : L = SubSeq(K, 1, m) /\ R = SubSeq(K, m + 1, Len(K))
    OBVIOUS
  <1>1. Parts(KeyType, K, m, L, R)
    BY <1>0, Cut
  <1>2. PICK k : k = Len(K)
    OBVIOUS
  <1>3. k \in Nat /\ m \in Nat /\ m <= k
    BY <1>2
  <1>4. /\ L \in Seq(KeyType) /\ R \in Seq(KeyType)
        /\ Len(L) = m /\ Len(R) = k - m /\ L \o R = K
        /\ \A i \in 1 .. m : L[i] = K[i]
        /\ \A i \in 1 .. k - m : R[i] = K[m + i]
    BY <1>1, <1>2 DEF Parts
  <1>5. PartOf(K, L, 0)
    BY <1>2, <1>3, <1>4 DEF PartOf
  <1>6. PartOf(K, R, m)
    BY <1>2, <1>3, <1>4 DEF PartOf
  <1> QED
    BY <1>0, <1>2, <1>4, <1>5, <1>6 DEF CutAt

(* The totals of keys in two parts.                                        *)
LEMMA PartTotals ==
    ASSUME NEW T, T \in [DOMAIN T -> NodeType], NEW a \in Seq(KeyType), NEW b \in Seq(KeyType),
           NEW K \in Seq(KeyType), HasChildren(T, a), HasChildren(T, b), HasChildren(T, K),
           NEW m, CutAt(K, m, a, b)
    PROVE  /\ countOfAll(T, K) = countOfAll(T, a) + countOfAll(T, b)
           /\ accumOfAll(T, K) = accumOfAll(T, a) + accumOfAll(T, b)
  <1>1. PICK W, V : W = counted(T) /\ V = accumulated(T)
    OBVIOUS
  <1>2. W \in [KeyType -> Int] /\ V \in [KeyType -> Int]
    <2>1. W \in [KeyType -> Nat] /\ V \in [KeyType -> Nat]
      BY <1>1, CountedType
    <2> QED
      BY <2>1
  <1>c. K = a \o b
    BY DEF CutAt
  <1>3. weight(W, K) = weight(W, a) + weight(W, b) /\ weight(V, K) = weight(V, a) + weight(V, b)
    BY <1>2, <1>c, WeightConcat
  <1> QED
    BY <1>1, <1>3, CountIsWeight

-----------------------------------------------------------------------------
(* The keys K of a full node are spread over it and a new one.             *)
Splittable(T, h, left, right, m, K) ==
    /\ Stored(T, h)
    /\ left \in DOMAIN T /\ right \in Nat \ {0} /\ right \notin DOMAIN T
    /\ K \in Seq(KeyType) /\ Len(K) \in Nat /\ m \in 1 .. Len(K) - 1
    /\ HasItems(T, left, K) /\ HasChildren(T, K) /\ KeysFirst(T, K, {1})
    /\ LinkedAt(T, h, left) /\ T[left].nextSibling # left

SplitsInto(T, S, left, right, m, K) ==
    LET next   == T[left].nextSibling
        made   == [id \in DOMAIN T \cup {right} |->
                      IF id \in DOMAIN T THEN T[id] ELSE EmptyNode]
        halves == refill(refill(made, left, SubSeq(K, 1, m)),
                         right, SubSeq(K, m + 1, Len(K)))
    IN  S = setPrev(setNext(setPrev(setNext(halves, right, next), right, left),
                            left, right), next, right)

(* The first keys of the two nodes, and their siblings. *)
Halved(T, N, left, right, m, K, F) ==
    /\ DOMAIN N = DOMAIN T \cup {right}
    /\ N \in [DOMAIN N -> NodeType]
    /\ \A a \in DOMAIN T \ {left} :
          /\ N[a].items = T[a].items /\ N[a].nextSibling = T[a].nextSibling
          /\ N[a].accumCount = T[a].accumCount /\ N[a].accum = T[a].accum
          /\ N[a].prevSibling = IF a = T[left].nextSibling THEN right
                                ELSE T[a].prevSibling
    /\ N[left].nextSibling = right /\ N[left].prevSibling = T[left].prevSibling
    /\ N[right].nextSibling = T[left].nextSibling /\ N[right].prevSibling = left
    /\ Len(N[left].items) = m
    /\ \A i \in 1 .. m : N[left].items[i] = F[i]
    /\ Len(N[right].items) = Len(K) - m
    /\ \A i \in 1 .. Len(K) - m : N[right].items[i] = F[m + i]
    /\ Recorded(N, left) /\ Recorded(N, right)
    /\ N[left].accumCount + N[right].accumCount = countOfAll(T, K)
    /\ N[left].accum + N[right].accum = accumOfAll(T, K)

(* The links and keys of the two nodes. *)
TwoNodes(T, S, left, right, L, R, c, s, d, t) ==
    /\ At(S, left, L, right, T[left].prevSibling, c, s)
    /\ At(S, right, R, T[left].nextSibling, left, d, t)
    /\ DOMAIN S = DOMAIN T \cup {right}
    /\ S = [a \in DOMAIN S |-> S[a]]
    /\ \A a \in DOMAIN T \ {left, T[left].nextSibling} : S[a] = T[a]
    /\ LET n == T[left].nextSibling
       IN  n # 0 => /\ n \in DOMAIN T /\ n # left /\ n # right
                    /\ At(S, n, T[n].items, T[n].nextSibling, right,
                          T[n].accumCount, T[n].accum)

LEMMA SplitLinks ==
    ASSUME NEW T, NEW h, NEW S, NEW left, NEW right, NEW m, NEW K,
           Splittable(T, h, left, right, m, K), SplitsInto(T, S, left, right, m, K),
           NEW L, NEW R, L = SubSeq(K, 1, m), R = SubSeq(K, m + 1, Len(K))
    PROVE  TwoNodes(T, S, left, right, L, R, countOfAll(T, L), accumOfAll(T, L),
                    countOfAll(T, R), accumOfAll(T, R))
  <1>1. /\ left \in DOMAIN T /\ right \in Nat \ {0} /\ right \notin DOMAIN T
        /\ K \in Seq(KeyType) /\ m \in 0 .. Len(K)
        /\ HasItems(T, left, K) /\ HasChildren(T, K)
        /\ T \in [DOMAIN T -> NodeType] /\ Stored(T, h)
    BY DEF Splittable, Stored
  <1>2. PICK n, p : n = T[left].nextSibling /\ p = T[left].prevSibling
    OBVIOUS
  <1>3. /\ n \in Nat /\ (n # 0 => n \in DOMAIN T) /\ n # left /\ n # right /\ left # 0
        /\ left # right /\ right # 0 /\ p \in Nat
    <2>1. LinkedAt(T, h, left) /\ n # left
      BY <1>2 DEF Splittable
    <2>2. n \in Nat /\ left # 0 /\ p \in Nat
      BY <1>1, <1>2, NodeFacts
    <2>3. n # 0 => n \in DOMAIN T
      BY <1>2, <2>1 DEF LinkedAt
    <2> QED
      BY <1>1, <2>1, <2>2, <2>3
  <1>4. /\ PartOf(K, L, 0) /\ PartOf(K, R, m)
    BY <1>1, CutParts DEF CutAt
  <1>5. /\ HasItems(T, left, L) /\ HasChildren(T, L)
        /\ HasItems(T, left, R) /\ HasChildren(T, R)
        /\ L \in Seq(KeyType) /\ R \in Seq(KeyType)
    <2>1. HasItems(T, left, L) /\ HasChildren(T, L)
      BY <1>1, <1>4, PartChildren
    <2>2. HasItems(T, left, R) /\ HasChildren(T, R)
      BY <1>1, <1>4, PartChildren
    <2>3. L \in Seq(KeyType) /\ R \in Seq(KeyType)
      BY <1>4 DEF PartOf
    <2> QED
      BY <2>1, <2>2, <2>3
  <1>6. PICK M1 : M1 = [id \in DOMAIN T \cup {right} |->
                           IF id \in DOMAIN T THEN T[id] ELSE EmptyNode]
    OBVIOUS
  <1>7. PICK M2 : M2 = refill(M1, left, L)
    OBVIOUS
  <1>8. PICK M3 : M3 = refill(M2, right, R)
    OBVIOUS
  <1>9. PICK M4 : M4 = setNext(M3, right, n)
    OBVIOUS
  <1>10. PICK M5 : M5 = setPrev(M4, right, left)
    OBVIOUS
  <1>11. PICK M6 : M6 = setNext(M5, left, right)
    OBVIOUS
  <1>12. S = setPrev(M6, n, right)
    BY <1>2, <1>6, <1>7, <1>8, <1>9, <1>10, <1>11 DEF SplitsInto
  <1>13. DOMAIN M1 = DOMAIN T \cup {right} /\ \A a \in DOMAIN T : M1[a] = T[a]
    BY <1>6
  <1>14. At(M1, left, T[left].items, n, p, T[left].accumCount, T[left].accum)
    BY <1>1, <1>2, <1>13, AtNode DEF At
  <1>15. At(M1, right, <<>>, 0, 0, 0, 0)
    BY <1>1, <1>6 DEF At, EmptyNode
  <1>16. countOfAll(M1, L) = countOfAll(T, L) /\ accumOfAll(M1, L) = accumOfAll(T, L)
    <2>1. DOMAIN L = 1 .. Len(L)
      BY <1>5
    <2>2. \A i \in DOMAIN L : L[i].nodeId # 0 => M1[L[i].nodeId] = T[L[i].nodeId]
      BY <1>5, <1>13, <2>1 DEF HasItems
    <2> QED
      BY <2>2, SameCounts
  <1>17. PICK c, s : c = countOfAll(T, L) /\ s = accumOfAll(T, L)
    OBVIOUS
  <1>18. At(M2, left, L, n, p, c, s) /\ Elsewhere(M1, M2, left)
    BY <1>7, <1>14, <1>16, <1>17, RefillAt
  <1>19. At(M2, right, <<>>, 0, 0, 0, 0)
    BY <1>3, <1>15, <1>18, AtElsewhere
  <1>20. countOfAll(M2, R) = countOfAll(T, R) /\ accumOfAll(M2, R) = accumOfAll(T, R)
    <2>1. DOMAIN R = 1 .. Len(R)
      BY <1>5
    <2>2. \A i \in DOMAIN R : R[i].nodeId # 0 => M2[R[i].nodeId] = T[R[i].nodeId]
      BY <1>5, <1>13, <1>18, <2>1 DEF HasItems, Elsewhere
    <2> QED
      BY <2>2, SameCounts
  <1>21. PICK d, t : d = countOfAll(T, R) /\ t = accumOfAll(T, R)
    OBVIOUS
  <1>22. At(M3, right, R, 0, 0, d, t) /\ Elsewhere(M2, M3, right)
    BY <1>8, <1>19, <1>20, <1>21, RefillAt
  <1>23. At(M4, right, R, n, 0, d, t) /\ Elsewhere(M3, M4, right)
    BY <1>3, <1>9, <1>22, NextAt
  <1>24. At(M5, right, R, n, left, d, t) /\ Elsewhere(M4, M5, right)
    BY <1>3, <1>10, <1>23, PrevAt
  <1>25. At(M5, left, L, n, p, c, s)
    <2>1. At(M3, left, L, n, p, c, s)
      BY <1>3, <1>18, <1>22, AtElsewhere
    <2>2. At(M4, left, L, n, p, c, s)
      BY <1>3, <1>23, <2>1, AtElsewhere
    <2> QED
      BY <1>3, <1>24, <2>2, AtElsewhere
  <1>26. At(M6, left, L, right, p, c, s) /\ Elsewhere(M5, M6, left)
    BY <1>3, <1>11, <1>25, NextAt
  <1>27. At(M6, right, R, n, left, d, t)
    BY <1>3, <1>24, <1>26, AtElsewhere
  <1>28. /\ DOMAIN M6 = DOMAIN T \cup {right}
         /\ \A a \in DOMAIN T \ {left} : M6[a] = T[a]
    <2>1. /\ DOMAIN M2 = DOMAIN T \cup {right}
          /\ \A a \in DOMAIN T \ {left} : M2[a] = T[a]
      BY <1>13, <1>18 DEF Elsewhere
    <2>2. /\ DOMAIN M3 = DOMAIN T \cup {right}
          /\ \A a \in DOMAIN T \ {left} : M3[a] = T[a]
      BY <1>1, <1>22, <2>1 DEF Elsewhere
    <2>3. /\ DOMAIN M4 = DOMAIN T \cup {right}
          /\ \A a \in DOMAIN T \ {left} : M4[a] = T[a]
      BY <1>1, <1>23, <2>2 DEF Elsewhere
    <2>4. /\ DOMAIN M5 = DOMAIN T \cup {right}
          /\ \A a \in DOMAIN T \ {left} : M5[a] = T[a]
      BY <1>1, <1>24, <2>3 DEF Elsewhere
    <2> QED
      BY <1>1, <1>26, <2>4 DEF Elsewhere
  <1>f. M6 = [a \in DOMAIN M6 |-> M6[a]] /\ S = [a \in DOMAIN S |-> S[a]]
    <2>1. M6 = [a \in DOMAIN M6 |-> M6[a]]
      BY <1>3, <1>11 DEF setNext
    <2> QED
      BY <2>1, <1>12 DEF setPrev
  <1>29. CASE n = 0
    <2>1. S = M6
      BY <1>12, <1>29 DEF setPrev
    <2> QED
      BY <1>f, <1>2, <1>17, <1>21, <1>26, <1>27, <1>28, <1>29, <2>1 DEF TwoNodes
  <1>30. CASE n # 0
    <2>1. At(M6, n, T[n].items, T[n].nextSibling, T[n].prevSibling, T[n].accumCount, T[n].accum)
      <3>1. n \in DOMAIN T /\ n \in DOMAIN M6 /\ M6[n] = T[n]
        BY <1>3, <1>28, <1>30
      <3> QED
        BY <1>1, <3>1, AtNode DEF At
    <2>2. At(S, n, T[n].items, T[n].nextSibling, right, T[n].accumCount, T[n].accum)
          /\ Elsewhere(M6, S, n)
      BY <1>12, <1>30, <2>1, PrevAt
    <2>3. At(S, left, L, right, p, c, s) /\ At(S, right, R, n, left, d, t)
      BY <1>3, <1>26, <1>27, <2>2, AtElsewhere
    <2>4. /\ DOMAIN S = DOMAIN T \cup {right}
          /\ \A a \in DOMAIN T \ {left, n} : S[a] = T[a]
      BY <1>28, <2>2 DEF Elsewhere
    <2> QED
      BY <1>f, <1>2, <1>3, <1>17, <1>21, <1>30, <2>2, <2>3, <2>4 DEF TwoNodes
  <1> QED
    BY <1>29, <1>30

-----------------------------------------------------------------------------
(* The keys of the two halves of a split node.                             *)

LEMMA FirstFixed ==
    ASSUME NEW T, NEW id, NEW K \in Seq(KeyType), Len(K) > 0, KeysFirst(T, K, {1}),
           HasItems(T, id, K), NEW R,
           KeyRefreshed(T, K, 0, R)
    PROVE  KeysFixed(T, K, R)
  <1>1. DOMAIN K = 1 .. Len(K) /\ Len(K) \in Nat /\ 1 \in 1 .. Len(K) /\ 0 + 1 = 1
    OBVIOUS
  <1>2. PICK child, f : child = K[1].nodeId /\ f = firstItem(T, child)
    OBVIOUS
  <1>3. ASSUME NEW i \in 1 .. Len(K), i # 1, K[i].nodeId # 0
        PROVE  K[i].item = firstItem(T, K[i].nodeId)
    BY <1>1, <1>3 DEF KeysFirst
  <1>4. CASE child = 0
    <2>1. R = K
      BY <1>1, <1>2, <1>4 DEF KeyRefreshed
    <2> QED
      BY <1>1, <1>2, <1>3, <1>4, <2>1 DEF KeysFixed
  <1>5. CASE child # 0
    <2>1. f \in Items
      BY <1>1, <1>2, <1>5 DEF HasItems
    <2>2. K[1] \in KeyType
      BY <1>1
    <2>3. PICK r : r = [K[1] EXCEPT !.item = f]
      OBVIOUS
    <2>4. r \in KeyType /\ r.item = f /\ r.nodeId = child
      BY <1>2, <2>1, <2>2, <2>3 DEF KeyType
    <2>5. R = [K EXCEPT ![1] = r]
      BY <1>1, <1>2, <1>5, <2>3 DEF KeyRefreshed
    <2>6. R \in Seq(KeyType) /\ Len(R) = Len(K) /\ R[1] = r
          /\ \A i \in 1 .. Len(K) : i # 1 => R[i] = K[i]
      BY <1>1, <2>4, <2>5
    <2>7. ASSUME NEW i \in 1 .. Len(K)
          PROVE  /\ R[i].nodeId = K[i].nodeId
                 /\ K[i].nodeId = 0 => R[i] = K[i]
                 /\ K[i].nodeId # 0 => R[i].item = firstItem(T, K[i].nodeId)
      <3>1. CASE i = 1
        BY <3>1, <1>2, <1>5, <2>4, <2>6
      <3>2. CASE i # 1
        BY <3>2, <1>3, <2>6
      <3> QED
        BY <3>1, <3>2
    <2> QED
      BY <2>6, <2>7 DEF KeysFixed
  <1> QED
    BY <1>4, <1>5

LEMMA HalvedIs ==
    ASSUME NEW T, NEW h, NEW S, NEW left, NEW right, NEW m, NEW K,
           Splittable(T, h, left, right, m, K), SplitsInto(T, S, left, right, m, K),
           NEW N, N = refreshIndex(S, left, 0), NEW F, KeysFixed(T, K, F)
    PROVE  /\ Halved(T, N, left, right, m, K, F)
           /\ firstItem(S, right) = firstItem(N, right)
  <1>1. /\ left \in DOMAIN T /\ right \in Nat \ {0} /\ right \notin DOMAIN T
        /\ K \in Seq(KeyType) /\ m \in 0 .. Len(K) /\ m \in Nat /\ m > 0
        /\ HasItems(T, left, K) /\ HasChildren(T, K) /\ KeysFirst(T, K, {1})
        /\ T \in [DOMAIN T -> NodeType] /\ Stored(T, h)
    BY DEF Splittable, Stored
  <1>2. PICK n, p : n = T[left].nextSibling /\ p = T[left].prevSibling
    OBVIOUS
  <1>3. n \in Nat /\ p \in Nat /\ left # right /\ left \in Nat
    BY <1>1, <1>2, NodeFacts
  <1>4. PICK L, R : L = SubSeq(K, 1, m) /\ R = SubSeq(K, m + 1, Len(K))
    OBVIOUS
  <1>5. /\ PartOf(K, L, 0) /\ PartOf(K, R, m)
        /\ Len(L) = m /\ Len(R) = Len(K) - m /\ L \o R = K
        /\ \A i \in 1 .. m : L[i] = K[i]
        /\ \A i \in 1 .. Len(K) - m : R[i] = K[m + i]
    <2>1. CutAt(K, m, SubSeq(K, 1, m), SubSeq(K, m + 1, Len(K)))
      BY <1>1, CutParts
    <2> QED
      BY <2>1, <1>4 DEF CutAt
  <1>6. /\ HasItems(T, left, L) /\ HasChildren(T, L)
        /\ HasItems(T, left, R) /\ HasChildren(T, R)
        /\ L \in Seq(KeyType) /\ R \in Seq(KeyType)
    <2>1. HasItems(T, left, L) /\ HasChildren(T, L)
      BY <1>1, <1>5, PartChildren
    <2>2. HasItems(T, left, R) /\ HasChildren(T, R)
      BY <1>1, <1>5, PartChildren
    <2>3. L \in Seq(KeyType) /\ R \in Seq(KeyType)
      BY <1>5 DEF PartOf
    <2> QED
      BY <2>1, <2>2, <2>3
  <1>7. PICK c, s, d, t : /\ c = countOfAll(T, L) /\ s = accumOfAll(T, L)
                          /\ d = countOfAll(T, R) /\ t = accumOfAll(T, R)
    OBVIOUS
  <1>8. c \in Nat /\ s \in Nat /\ d \in Nat /\ t \in Nat
    BY <1>1, <1>6, <1>7, CountType
  <1>9. TwoNodes(T, S, left, right, L, R, c, s, d, t)
    BY <1>4, <1>7, SplitLinks
  <1>10. /\ At(S, left, L, right, p, c, s) /\ At(S, right, R, n, left, d, t)
         /\ DOMAIN S = DOMAIN T \cup {right}
         /\ \A a \in DOMAIN T \ {left, n} : S[a] = T[a]
         /\ n # 0 => /\ n \in DOMAIN T /\ n # left /\ n # right
                     /\ At(S, n, T[n].items, T[n].nextSibling, right,
                           T[n].accumCount, T[n].accum)
    BY <1>2, <1>9 DEF TwoNodes
  <1>11. n # 0 => /\ S[n].items = T[n].items /\ S[n].nextSibling = T[n].nextSibling
                  /\ S[n].accumCount = T[n].accumCount /\ S[n].accum = T[n].accum
                  /\ S[n].prevSibling = right
    BY <1>10, AtParts
  <1>12. ASSUME NEW a \in DOMAIN T \ {left}
         PROVE  /\ S[a].items = T[a].items /\ S[a].nextSibling = T[a].nextSibling
                /\ S[a].accumCount = T[a].accumCount /\ S[a].accum = T[a].accum
                /\ S[a].prevSibling = IF a = n THEN right ELSE T[a].prevSibling
                /\ S[a] \in NodeType
    <2>1. CASE a = n
      <3>1. n # 0
        BY <2>1, <1>1, NodeFacts
      <3>2. S[n] \in NodeType
        <4>1. /\ T[n].items \in Seq(KeyType) /\ T[n].nextSibling \in Nat
              /\ T[n].accumCount \in Nat /\ T[n].accum \in Nat
          BY <2>1, <1>1, NodeFacts
        <4>2. right \in Nat
          BY <1>1
        <4> QED
          BY <3>1, <4>1, <4>2, <1>10, AtType
      <3> QED
        BY <2>1, <3>1, <3>2, <1>11
    <2>2. CASE a # n
      BY <2>2, <1>1, <1>10
    <2> QED
      BY <2>1, <2>2
  <1>13. KeysFirst(T, L, {1}) /\ KeysFirst(T, R, {})
    <2>1. DOMAIN K = 1 .. Len(K) /\ DOMAIN L = 1 .. m /\ DOMAIN R = 1 .. Len(K) - m
      BY <1>1, <1>5, <1>6
    <2>2. PICK k : k = Len(K)
      OBVIOUS
    <2>3. k \in Nat /\ m <= k
      BY <1>1, <2>2
    <2>4. ASSUME NEW i \in 1 .. m, i # 1, L[i].nodeId # 0
          PROVE  L[i].item = firstItem(T, L[i].nodeId)
      <3>1. i \in DOMAIN K \ {1}
        BY <1>1, <2>1, <2>2, <2>3, <2>4
      <3> QED
        BY <3>1, <2>4, <1>1, <1>5 DEF KeysFirst
    <2>5. ASSUME NEW i \in 1 .. k - m, R[i].nodeId # 0
          PROVE  R[i].item = firstItem(T, R[i].nodeId)
      <3>1. m + i \in DOMAIN K \ {1}
        BY <1>1, <2>1, <2>2, <2>3, <2>5
      <3> QED
        BY <3>1, <2>2, <2>5, <1>1, <1>5 DEF KeysFirst
    <2> QED
      BY <2>1, <2>2, <2>4, <2>5 DEF KeysFirst
  <1>14. PICK FL : /\ Elsewhere(S, N, left)
                   /\ At(N, left, FL, right, p, c, s)
                   /\ KeyRefreshed(S, L, 0, FL)
    <2>1. 0 \in Nat /\ 0 < Len(L)
      BY <1>1, <1>5
    <2> QED
      BY <2>1, <1>6, <1>10, KeyRefreshAt
  <1>15. KeysFixed(T, L, FL)
    <2>1. Len(L) > 0 /\ 0 + 1 \in 1 .. Len(L)
      BY <1>1, <1>5
    <2>2. L[0 + 1].nodeId # 0 => firstItem(S, L[0 + 1].nodeId) = firstItem(T, L[0 + 1].nodeId)
      <3>1. L[0 + 1].nodeId # 0 => L[0 + 1].nodeId \in DOMAIN T \ {left}
        BY <2>1, <1>6 DEF HasItems
      <3> QED
        BY <3>1, <1>12 DEF firstItem
    <2>3. KeyRefreshed(T, L, 0, FL)
      BY <1>14, <2>2 DEF KeyRefreshed
    <2> QED
      BY <2>1, <2>3, <1>6, <1>13, FirstFixed
  <1>16. KeysFixed(T, R, R)
    BY <1>6, <1>13, OwnKeysFixed
  <1>17. /\ At(N, left, FL, right, p, c, s) /\ At(N, right, R, n, left, d, t)
         /\ DOMAIN N = DOMAIN T \cup {right}
         /\ \A a \in DOMAIN T \ {left} : N[a] = S[a]
    <2>1. At(N, right, R, n, left, d, t)
      BY <1>3, <1>10, <1>14, AtElsewhere
    <2> QED
      BY <2>1, <1>10, <1>14 DEF Elsewhere
  <1>18. /\ N[left].items = FL /\ N[left].nextSibling = right /\ N[left].prevSibling = p
         /\ N[left].accumCount = c /\ N[left].accum = s
         /\ N[right].items = R /\ N[right].nextSibling = n /\ N[right].prevSibling = left
         /\ N[right].accumCount = d /\ N[right].accum = t
    BY <1>17, AtParts
  <1>19. N \in [DOMAIN N -> NodeType]
    <2>1. N[left] \in NodeType
      <3>1. FL \in Seq(KeyType) /\ right \in Nat
        BY <1>1, <1>15 DEF KeysFixed
      <3> QED
        BY <3>1, <1>3, <1>8, <1>17, AtType
    <2>2. N[right] \in NodeType
      BY <1>3, <1>6, <1>8, <1>17, AtType
    <2>3. \A a \in DOMAIN N : N[a] \in NodeType
      BY <2>1, <2>2, <1>12, <1>17
    <2>4. N = [a \in DOMAIN N |-> N[a]]
      <3>1. S = [a \in DOMAIN S |-> S[a]]
        BY <1>9 DEF TwoNodes
      <3> QED
        BY <3>1 DEF refreshIndex
    <2> QED
      BY <2>3, <2>4
  <1>20. ChildrenKept(T, N, K)
    <2>1. ASSUME NEW i \in 1 .. Len(K), K[i].nodeId # 0
          PROVE  K[i].nodeId \in DOMAIN T \ {left}
      BY <2>1, <1>1 DEF HasItems
    <2> QED
      BY <2>1, <1>12, <1>17 DEF ChildrenKept
  <1>21. ChildrenKept(T, N, L) /\ ChildrenKept(T, N, R)
    BY <1>5, <1>20, PartKept
  <1>22. Recorded(N, left)
    <2>1. countOfAll(N, FL) = c /\ accumOfAll(N, FL) = s /\ KeysFirst(N, FL, {})
      BY <1>6, <1>7, <1>15, <1>21, FixedCounts
    <2> QED
      BY <2>1, <1>18 DEF Recorded
  <1>23. Recorded(N, right)
    <2>1. countOfAll(N, R) = d /\ accumOfAll(N, R) = t /\ KeysFirst(N, R, {})
      BY <1>6, <1>7, <1>16, <1>21, FixedCounts
    <2> QED
      BY <2>1, <1>18 DEF Recorded
  <1>24. countOfAll(T, K) = c + d /\ accumOfAll(T, K) = s + t
    <2>1. CutAt(K, m, L, R)
      BY <1>5 DEF CutAt
    <2>2. countOfAll(T, K) = countOfAll(T, L) + countOfAll(T, R)
          /\ accumOfAll(T, K) = accumOfAll(T, L) + accumOfAll(T, R)
      BY <2>1, <1>1, <1>6, PartTotals
    <2> QED
      BY <2>2, <1>7
  <1>25. ASSUME NEW i \in 1 .. m
         PROVE  FL[i] = F[i]
    <2>1. i \in 1 .. Len(K) /\ i \in 1 .. Len(L) /\ L[i] = K[i]
      BY <1>1, <1>5
    <2>2. SameKey(K, i, L, i)
      BY <2>1 DEF SameKey
    <2>3. SameKey(F, i, FL, i)
      BY <2>2, <2>1, <1>1, <1>6, <1>15, FixedOnce
    <2> QED
      BY <2>3 DEF SameKey
  <1>26. ASSUME NEW i \in 1 .. Len(K) - m
         PROVE  R[i] = F[m + i]
    <2>1. m + i \in 1 .. Len(K) /\ i \in 1 .. Len(R) /\ R[i] = K[m + i]
      BY <1>1, <1>5
    <2>2. SameKey(K, m + i, R, i)
      BY <2>1 DEF SameKey
    <2>3. SameKey(F, m + i, R, i)
      BY <2>2, <2>1, <1>1, <1>6, <1>16, FixedOnce
    <2> QED
      BY <2>3 DEF SameKey
  <1>27. firstItem(S, right) = firstItem(N, right)
    <2>1. S[right].items = R
      BY <1>10, AtParts
    <2> QED
      BY <2>1, <1>18 DEF firstItem
  <1>28. Len(FL) = m
    BY <1>5, <1>15 DEF KeysFixed
  <1> QED
    BY <1>2, <1>5, <1>12, <1>17, <1>18, <1>19, <1>22, <1>23, <1>24, <1>25, <1>26,
       <1>27, <1>28 DEF Halved

-----------------------------------------------------------------------------
(* The node left is about to be split.                                     *)
Splitting(T, A, N, h, left, right, m, K, F) ==
    /\ Rekeyed(T, A, left, K) /\ Structure(A, h, left)
    /\ Exact(T, left) /\ Stored(T, h)
    /\ Splittable(T, h, left, right, m, K)
    /\ KeysFixed(T, K, F)
    /\ Halved(T, N, left, right, m, K, F)

LevelAdded(T, h, h2, left, right) ==
    /\ h2 \in [DOMAIN T \cup {right} -> Nat]
    /\ \A a \in DOMAIN T : h2[a] = h[a]
    /\ h2[right] = h[left]

(* A key for the new node goes into the parent p. *)
SplitParent(T, N, S, h, left, key, p, j) ==
    IF p = 0 THEN S = N /\ \A id \in DOMAIN T : h[id] <= h[left]
    ELSE /\ KeyAbove(T, h, left, p, j)
         /\ Rekeyed(N, S, p, InsertAt(T[p].items, j + 1, key))

LEMMA FixedExists ==
    ASSUME NEW T, NEW h, Stored(T, h), NEW id \in DOMAIN T, NEW K \in Seq(KeyType),
           HasChildren(T, K), NEW F, KeysFixed(T, K, F)
    PROVE  \E T2 : NodeFixed(T, T2, id, K, F)
  <1>1. PICK c, s, T2 :
            /\ c = countOfAll(T, K) /\ s = accumOfAll(T, K)
            /\ T2 = [T EXCEPT ![id] = [items |-> F,
                              nextSibling |-> T[id].nextSibling,
                              prevSibling |-> T[id].prevSibling,
                              accumCount |-> c, accum |-> s]]
    OBVIOUS
  <1>2. Draft(T, T2, id, F, c, s)
    BY <1>1 DEF Draft
  <1>3. T \in [DOMAIN T -> NodeType] /\ F \in Seq(KeyType)
    BY DEF Stored, KeysFixed
  <1>4. NodeFixed(T, T2, id, K, F)
    BY <1>1, <1>2, <1>3, DraftFixed
  <1> QED
    BY <1>4

LEMMA SplitGroups ==
    ASSUME NEW T, NEW T2, NEW A, NEW N, NEW h, NEW left, NEW right, NEW m, NEW K, NEW F,
           Splitting(T, A, N, h, left, right, m, K, F), NodeFixed(T, T2, left, K, F),
           NEW x, x = T[left].nextSibling
    PROVE  /\ Group(T2, left, 0, Len(F), F, x)
           /\ Group(N, left, right, m, F, x)
  <1>1. /\ left \in DOMAIN T /\ right \in Nat \ {0} /\ right \notin DOMAIN T
        /\ Len(K) \in Nat /\ m \in 1 .. Len(K) - 1
        /\ F \in Seq(KeyType) /\ Len(F) = Len(K)
    BY DEF Splitting, Splittable, KeysFixed
  <1>2. Halved(T, N, left, right, m, K, F)
    BY DEF Splitting
  <1>3. PICK k : k = Len(F)
    OBVIOUS
  <1>4. k \in Nat /\ m \in Nat /\ m >= 1 /\ m < k /\ m \in 1 .. k /\ k \in 1 .. k /\ k = Len(K)
    BY <1>1, <1>3
  <1>5. T2[left].items = F /\ T2[left].nextSibling = x /\ left \in DOMAIN T2
    BY <1>1 DEF NodeFixed
  <1>6. Group(T2, left, 0, k, F, x)
    BY <1>1, <1>3, <1>4, <1>5 DEF Group
  <1>7. Group(N, left, right, m, F, x)
    <2>1. /\ left \in DOMAIN N /\ right \in DOMAIN N /\ left # right
          /\ N[left].nextSibling = right /\ N[right].nextSibling = x
          /\ Len(N[left].items) = m /\ \A i \in 1 .. m : N[left].items[i] = F[i]
          /\ Len(N[right].items) = k - m
          /\ \A i \in 1 .. k - m : N[right].items[i] = F[m + i]
      BY <1>1, <1>2, <1>4 DEF Halved
    <2> QED
      BY <2>1, <1>1, <1>3, <1>4 DEF Group
  <1> QED
    BY <1>3, <1>6, <1>7

LEMMA SplitStructure ==
    ASSUME NEW T, NEW A, NEW N, NEW S, NEW h, NEW h2, NEW left, NEW right,
           NEW m, NEW K, NEW F, NEW key, NEW p, NEW j,
           Splitting(T, A, N, h, left, right, m, K, F),
           LevelAdded(T, h, h2, left, right),
           key \in KeyType, key.nodeId = right,
           SplitParent(T, N, S, h, left, key, p, j)
    PROVE  /\ Structure(S, h2, p)
           /\ \A item : InLeaf(A, h, item) <=> InLeaf(S, h2, item)
  <1>1. /\ Rekeyed(T, A, left, K) /\ Structure(A, h, left)
        /\ Exact(T, left) /\ Stored(T, h)
        /\ Splittable(T, h, left, right, m, K)
        /\ KeysFixed(T, K, F)
        /\ Halved(T, N, left, right, m, K, F)
    BY DEF Splitting
  <1>2. /\ left \in DOMAIN T /\ right \in Nat \ {0} /\ right \notin DOMAIN T
        /\ K \in Seq(KeyType) /\ HasChildren(T, K)
    BY <1>1 DEF Splittable
  <1>3. PICK T2 : NodeFixed(T, T2, left, K, F)
    BY <1>1, <1>2, FixedExists
  <1>4. /\ Structure(T2, h, 0)
        /\ \A item : InLeaf(A, h, item) <=> InLeaf(T2, h, item)
    BY <1>1, <1>3, FixedWhole
  <1>5. PICK x, n : x = T[left].nextSibling /\ n = Len(F)
    OBVIOUS
  <1>6. Group(T2, left, 0, n, F, x) /\ Group(N, left, right, m, F, x)
    BY <1>3, <1>5, SplitGroups
  <1>7. /\ DOMAIN T2 = DOMAIN T
        /\ \A a \in DOMAIN T :
              /\ a # left => T2[a].items = T[a].items
              /\ T2[a].nextSibling = T[a].nextSibling
              /\ T2[a].prevSibling = T[a].prevSibling
    BY <1>3 DEF NodeFixed
  <1>8. /\ DOMAIN N = DOMAIN T \cup {right} /\ N \in [DOMAIN N -> NodeType]
        /\ \A a \in DOMAIN T \ {left} :
              /\ N[a].items = T[a].items /\ N[a].nextSibling = T[a].nextSibling
              /\ N[a].prevSibling = IF a = x THEN right ELSE T[a].prevSibling
        /\ N[left].nextSibling = right /\ N[left].prevSibling = T[left].prevSibling
        /\ N[right].nextSibling = x /\ N[right].prevSibling = left
    BY <1>1, <1>5 DEF Halved
  <1>9. x # left
    BY <1>1, <1>5 DEF Splittable
  <1>10. /\ h2 \in [DOMAIN T \cup {right} -> Nat]
         /\ \A a \in DOMAIN T : h2[a] = h[a]
         /\ h2[right] = h[left]
    BY DEF LevelAdded
  <1>11. Stored(N, h2)
    <2>1. DOMAIN T \subseteq Nat \ {0}
      BY <1>1 DEF Stored
    <2> QED
      BY <2>1, <1>2, <1>8, <1>10 DEF Stored
  <1>12. NodeAdded(T2, N, h, h2, left, right)
    BY <1>2, <1>5, <1>7, <1>8, <1>9, <1>10 DEF NodeAdded
  <1>13. CASE p = 0
    <2>1. S = N /\ \A id \in DOMAIN T : h[id] <= h[left]
      BY <1>13 DEF SplitParent
    <2>2. KeyAdded(T2, S, h, left, key, p, j)
      <3>1. \A id \in DOMAIN T : ~(h[id] > h[left])
        BY <1>1, <1>2, <2>1, NodeFacts
      <3> QED
        BY <3>1, <1>7, <1>13, <2>1 DEF KeyAdded
    <2>3. SameBelow(T2, S, h, {left}, h[left])
      BY <1>7, <1>8, <2>1 DEF SameBelow
    <2>4. Structure(S, h2, p) /\ \A item : InLeaf(T2, h, item) <=> InLeaf(S, h2, item)
      <3>1. /\ Group(S, left, right, m, F, x) /\ NodeAdded(T2, S, h, h2, left, right)
            /\ Stored(S, h2)
        BY <1>6, <1>11, <1>12, <2>1
      <3> QED
        BY <3>1, <1>4, <1>6, <2>2, <2>3, SplitWhole
    <2> QED
      BY <2>4, <1>4
  <1>14. CASE p # 0
    <2>1. PICK K2 : K2 = InsertAt(T[p].items, j + 1, key)
      OBVIOUS
    <2>2. /\ KeyAbove(T, h, left, p, j)
          /\ Rekeyed(N, S, p, K2)
      BY <1>14, <2>1 DEF SplitParent
    <2>3. /\ p \in DOMAIN T /\ p # left /\ h[p] = h[left] + 1
          /\ j \in 1 .. Len(T[p].items) /\ T[p].items[j].nodeId = left
      BY <2>2 DEF KeyAbove
    <2>4. /\ DOMAIN S = DOMAIN N /\ S \in [DOMAIN S -> NodeType]
          /\ S[p].items = K2
          /\ \A id \in DOMAIN N :
                /\ id # p => S[id].items = N[id].items
                /\ S[id].nextSibling = N[id].nextSibling
                /\ S[id].prevSibling = N[id].prevSibling
      BY <2>2 DEF Rekeyed
    <2>5. Stored(S, h2)
      BY <1>11, <2>4 DEF Stored
    <2>6. NodeAdded(T2, S, h, h2, left, right)
      BY <1>12, <2>4, <1>7, <1>8 DEF NodeAdded
    <2>7. p # right
      BY <1>2, <2>3
    <2>8. Group(S, left, right, m, F, x)
      <3>1. left \in DOMAIN S /\ right \in DOMAIN S /\ S[left].items = N[left].items
            /\ S[right].items = N[right].items
            /\ S[left].nextSibling = N[left].nextSibling
            /\ S[right].nextSibling = N[right].nextSibling
        BY <1>2, <1>8, <2>3, <2>4, <2>7
      <3>2. right # 0
        BY <1>2
      <3> QED
        BY <3>1, <3>2, <1>6 DEF Group
    <2>9. KeyAdded(T2, S, h, left, key, p, j)
      <3>1. T2[p].items = T[p].items
        BY <1>7, <2>3
      <3>2. ASSUME NEW id \in DOMAIN T, h[id] > h[left], id # p
            PROVE  S[id].items = T2[id].items
        <4>1. id # left
          BY <3>2, <1>1, <1>2, NodeFacts
        <4> QED
          BY <4>1, <3>2, <1>7, <1>8, <2>4
      <3> QED
        BY <3>1, <3>2, <1>7, <1>14, <2>1, <2>3, <2>4 DEF KeyAdded
    <2>10. SameBelow(T2, S, h, {left}, h[left])
      <3>1. ASSUME NEW id \in DOMAIN T, id # left, h[id] <= h[left]
            PROVE  S[id].items = T2[id].items
        <4>1. id # p
          BY <3>1, <2>3, <1>1, <1>2, NodeFacts
        <4> QED
          BY <4>1, <3>1, <1>7, <1>8, <2>4
      <3> QED
        BY <3>1, <1>7 DEF SameBelow
    <2>11. Structure(S, h2, p) /\ \A item : InLeaf(T2, h, item) <=> InLeaf(S, h2, item)
      BY <1>4, <1>6, <2>5, <2>6, <2>8, <2>9, <2>10, SplitWhole
    <2> QED
      BY <2>11, <1>4
  <1> QED
    BY <1>13, <1>14
=============================================================================
