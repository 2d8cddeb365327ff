---------------------------- MODULE SubRangeProofs ----------------------------
(***************************************************************************)
(* Proofs about module SubRange, for any items, any number of calls and    *)
(* any width of size_t that can count the items: a proxy to a part of a    *)
(* storage answers as a copy of that part would.                           *)
(***************************************************************************)
EXTENDS SubRange, FiniteSetTheorems, TLAPS

-----------------------------------------------------------------------------
(* Ranks: the places of the numbers of a finite set.                       *)

LEMMA Rank ==
    ASSUME NEW S \in SUBSET Int, IsFiniteSet(S), NEW x \in S
    PROVE  /\ Cardinality({z \in S : z < x}) \in 0 .. Cardinality(S) - 1
           /\ \A y \in S : x < y => Cardinality({z \in S : z < x})
                                      < Cardinality({z \in S : z < y})
  <1> DEFINE below(y) == {z \in S : z < y}
  <1>1. ASSUME NEW T, IsFiniteSet(T), NEW U \in SUBSET T, NEW y \in T, y \notin U
        PROVE  /\ Cardinality(U) \in Nat /\ Cardinality(T) \in Nat
               /\ Cardinality(U) < Cardinality(T)
    <2>1. IsFiniteSet(U) /\ Cardinality(U) <= Cardinality(T) /\ U # T
          /\ (Cardinality(T) = Cardinality(U) => T = U)
      BY <1>1, FS_Subset
    <2>2. Cardinality(U) \in Nat /\ Cardinality(T) \in Nat
      BY <1>1, <2>1, FS_CardinalityType
    <2> QED
      BY <2>1, <2>2
  <1>2. below(x) \in SUBSET S /\ x \notin below(x)
    BY SMT
  <1>3. Cardinality(below(x)) \in 0 .. Cardinality(S) - 1
    <2>1. /\ Cardinality(below(x)) \in Nat /\ Cardinality(S) \in Nat
          /\ Cardinality(below(x)) < Cardinality(S)
      <3> HIDE DEF below
      <3> QED
        BY <1>1, <1>2
    <2> HIDE DEF below
    <2> QED
      BY <2>1
  <1>4. ASSUME NEW y \in S, x < y
        PROVE  Cardinality(below(x)) < Cardinality(below(y))
    <2>0. \A z \in S : z < x => z < y
      BY <1>4, SMT
    <2>1. /\ below(y) \in SUBSET S
          /\ below(x) \in SUBSET below(y) /\ x \in below(y)
      BY <1>4, <2>0
    <2>2. IsFiniteSet(below(y))
      BY <2>1, FS_Subset
    <2> HIDE DEF below
    <2> QED
      BY <1>1, <1>2, <2>1, <2>2
  <1> QED
    BY <1>3, <1>4

LEMMA Ranked ==
    ASSUME NEW S \in SUBSET Int, IsFiniteSet(S), NEW k \in 0 .. Cardinality(S) - 1
    PROVE  \E x \in S : Cardinality({z \in S : z < x}) = k
  <1> DEFINE f == [x \in S |-> Cardinality({z \in S : z < x})]
             T == 0 .. Cardinality(S) - 1
  <1>1. Cardinality(S) \in Nat
    BY FS_CardinalityType
  <1>2. IsFiniteSet(T) /\ Cardinality(T) = Cardinality(S)
    BY <1>1, FS_Interval
  <1>3. f \in [S -> T]
    BY Rank
  <1>4. \A x, y \in S : x < y => f[x] < f[y]
    BY Rank
  <1>5. \A x, y \in S : f[x] = f[y] => x = y
    <2> SUFFICES ASSUME NEW x \in S, NEW y \in S, f[x] = f[y], x # y
                 PROVE  FALSE
      OBVIOUS
    <2> HIDE DEF f
    <2>1. x < y \/ y < x
      OBVIOUS
    <2>2. f[x] \in Int /\ f[y] \in Int
      BY <1>1, <1>3
    <2>3. f[x] < f[y] \/ f[y] < f[x]
      BY <1>4, <2>1
    <2> QED
      BY <2>2, <2>3
  <1>6. f \in Injection(S, T)
    <2> HIDE DEF f, T
    <2> QED
      BY <1>3, <1>5 DEF Injection, IsInjective
  <1>7. f \in Surjection(S, T)
    <2> HIDE DEF f, T
    <2> QED
      BY <1>2, <1>6, FS_Injection
  <1> QED
    BY <1>7 DEF Surjection

Strict(s) == \A i, j \in 1 .. Len(s) : i < j => s[i] < s[j]

LEMMA StrictIs ==
    ASSUME NEW s \in Seq(Int)
    PROVE  /\ Strict(s) <=> InOrder(s) /\ WithoutTwins(s)
           /\ DOMAIN s = 1 .. Len(s) /\ Len(s) \in Nat
  <1>1. DOMAIN s = 1 .. Len(s) /\ Len(s) \in Nat /\ \A i \in 1 .. Len(s) : s[i] \in Int
    OBVIOUS
  <1>2. ASSUME Strict(s) PROVE InOrder(s) /\ WithoutTwins(s)
    <2>1. InOrder(s)
      BY <1>1, <1>2 DEF Strict, InOrder
    <2>2. ASSUME NEW i \in 2 .. Len(s) PROVE s[i - 1] # s[i]
      <3>1. i - 1 \in 1 .. Len(s) /\ i \in 1 .. Len(s) /\ i - 1 < i
        BY <1>1
      <3>2. s[i - 1] < s[i]
        BY <1>2, <3>1 DEF Strict
      <3> QED
        BY <1>1, <3>1, <3>2
    <2> QED
      BY <2>1, <2>2 DEF WithoutTwins
  <1>3. ASSUME InOrder(s), WithoutTwins(s), NEW i \in 1 .. Len(s),
               NEW j \in 1 .. Len(s), i < j
        PROVE  s[i] < s[j]
    <2>1. j - 1 \in 1 .. Len(s) /\ j \in 2 .. Len(s) /\ i <= j - 1 /\ j - 1 < j
      BY <1>1, <1>3
    <2>2. s[j - 1] # s[j] /\ s[j - 1] <= s[j]
      BY <1>1, <1>3, <2>1 DEF InOrder, WithoutTwins
    <2>3. i = j - 1 \/ s[i] <= s[j - 1]
      BY <1>1, <1>3, <2>1 DEF InOrder
    <2> QED
      BY <1>1, <2>1, <2>2, <2>3
  <1> QED
    BY <1>1, <1>2, <1>3 DEF Strict

LEMMA Ascending ==
    ASSUME NEW S \in SUBSET Int, IsFiniteSet(S)
    PROVE  /\ ascending(S) \in Seq(S)
           /\ Len(ascending(S)) = Cardinality(S)
           /\ Strict(ascending(S))
  <1> DEFINE rank(x) == Cardinality({z \in S : z < x})
             s == ascending(S)
             n == Cardinality(S)
  <1>1. n \in Nat
    BY FS_CardinalityType
  <1>2. ASSUME NEW k \in 1 .. n
        PROVE  s[k] \in S /\ rank(s[k]) = k - 1
    <2>1. k - 1 \in 0 .. n - 1
      BY <1>1
    <2>2. \E x \in S : rank(x) = k - 1
      BY <2>1, Ranked
    <2>3. s[k] = CHOOSE x \in S : rank(x) = k - 1
      BY <1>1 DEF ascending
    <2> QED
      BY <2>2, <2>3
  <1>3. s = [k \in 1 .. n |-> s[k]]
    BY DEF ascending
  <1> HIDE DEF s, n
  <1>4. s \in Seq(S) /\ Len(s) = n
    <2>1. s \in [1 .. n -> S]
      BY <1>2, <1>3
    <2> QED
      BY <1>1, <2>1
  <1>5. ASSUME NEW i \in 1 .. n, NEW j \in 1 .. n, i < j
        PROVE  s[i] < s[j]
    <2>1. rank(s[i]) < rank(s[j])
      BY <1>1, <1>2, <1>5
    <2>2. CASE s[j] < s[i]
      <3>1. rank(s[j]) < rank(s[i])
        BY <1>2, <2>2, Rank
      <3> QED
        BY <1>1, <1>2, <2>1, <3>1
    <2>3. CASE s[j] = s[i]
      <3>1. rank(s[i]) = i - 1 /\ rank(s[i]) = j - 1
        BY <1>2, <2>3
      <3> QED
        BY <1>1, <1>5, <3>1
    <2>4. s[i] \in Int /\ s[j] \in Int
      BY <1>2
    <2> QED
      BY <2>2, <2>3, <2>4
  <1> QED
    BY <1>4, <1>5 DEF s, n, Strict

(* A strictly ascending sequence is the one of its items.                  *)
LEMMA AscendingIsUnique ==
    ASSUME NEW s \in Seq(Int), Strict(s)
    PROVE  /\ IsFiniteSet(ToSet(s)) /\ Cardinality(ToSet(s)) = Len(s)
           /\ ascending(ToSet(s)) = s
  <1> DEFINE S == ToSet(s)
             n == Len(s)
             rank(x) == Cardinality({z \in S : z < x})
  <1>1. n \in Nat /\ \A i \in 1 .. n : s[i] \in Int
    OBVIOUS
  <1>2. S \in SUBSET Int /\ \A x : x \in S <=> \E i \in 1 .. n : x = s[i]
    BY <1>1 DEF ToSet
  <1>3. \A i, j \in 1 .. n : s[i] = s[j] => i = j
    BY <1>1 DEF Strict
  <1>4. \A i, j \in 1 .. n : s[i] < s[j] <=> i < j
    BY <1>1 DEF Strict
  <1> HIDE DEF S
  <1>5. ASSUME NEW k \in 0 .. n, NEW T, \A x : x \in T <=> \E i \in 1 .. k : x = s[i]
        PROVE  IsFiniteSet(T) /\ Cardinality(T) = k
    <2> DEFINE f == [i \in 1 .. k |-> s[i]]
    <2>1. f \in [1 .. k -> T] /\ \A i \in 1 .. k : f[i] = s[i]
      BY <1>5
    <2>2. \A i \in 1 .. k : i \in 1 .. n
      BY <1>1
    <2> HIDE DEF f
    <2>3. f \in Surjection(1 .. k, T)
      BY <1>5, <2>1 DEF Surjection
    <2>4. f \in Injection(1 .. k, T)
      BY <1>3, <2>1, <2>2 DEF Injection, IsInjective
    <2>5. IsFiniteSet(1 .. k) /\ Cardinality(1 .. k) = k
      BY FS_Interval
    <2> QED
      BY <2>3, <2>4, <2>5, FS_Surjection
  <1>6. IsFiniteSet(S) /\ Cardinality(S) = n
    BY <1>1, <1>2, <1>5
  <1>7. ASSUME NEW k \in 1 .. n PROVE rank(s[k]) = k - 1
    <2> DEFINE T == {z \in S : z < s[k]}
    <2>1. k - 1 \in 0 .. n /\ \A i \in 1 .. n : i < k <=> i \in 1 .. k - 1
      BY <1>1
    <2>2. \A x : x \in T <=> \E i \in 1 .. n : x = s[i] /\ s[i] < s[k]
      BY <1>2
    <2>3. \A x : x \in T <=> \E i \in 1 .. k - 1 : x = s[i]
      <3> HIDE DEF T
      <3>1. \A i \in 1 .. n : s[i] < s[k] <=> i \in 1 .. k - 1
        BY <1>4, <2>1
      <3>2. \A i \in 1 .. k - 1 : i \in 1 .. n
        BY <1>1
      <3> QED
        BY <2>2, <3>1, <3>2
    <2> HIDE DEF T
    <2>4. Cardinality(T) = k - 1
      BY <1>5, <2>1, <2>3
    <2> QED
      BY <2>4 DEF T
  <1>8. ASSUME NEW k \in 1 .. n
        PROVE  (CHOOSE x \in S : rank(x) = k - 1) = s[k]
    <2>1. s[k] \in S /\ rank(s[k]) = k - 1
      BY <1>2, <1>7
    <2>2. ASSUME NEW x \in S, rank(x) = k - 1 PROVE x = s[k]
      <3>1. PICK i \in 1 .. n : x = s[i]
        BY <1>2, <2>2
      <3>2. rank(x) = i - 1
        BY <1>7, <3>1
      <3> HIDE DEF rank
      <3>3. i = k
        BY <1>1, <2>2, <3>2
      <3> QED
        BY <3>1, <3>3
    <2> HIDE DEF rank
    <2> QED
      BY <2>1, <2>2
  <1>9. ascending(S) = [k \in 1 .. n |-> CHOOSE x \in S : rank(x) = k - 1]
    BY <1>6 DEF ascending
  <1>10. ascending(S) = [k \in 1 .. n |-> s[k]]
    <2> HIDE DEF rank, n
    <2> QED
      BY <1>8, <1>9
  <1>11. s = [k \in 1 .. n |-> s[k]]
    OBVIOUS
  <1> QED
    BY <1>6, <1>10, <1>11 DEF S

-----------------------------------------------------------------------------
(* std::sort.                                                              *)

LEMMA Sorts ==
    ASSUME NEW S \in SUBSET Int, NEW s \in Seq(S)
    PROVE  /\ sort(s) \in Seq(S) /\ Len(sort(s)) = Len(s)
           /\ InOrder(sort(s))
  <1> DEFINE n == Len(s)
             D == 1 .. n
             before(j, i) == s[j] < s[i] \/ (s[j] = s[i] /\ j < i)
             earlier(i) == {j \in D : before(j, i)}
             place == [i \in D |-> Cardinality(earlier(i))]
             at(k) == CHOOSE i \in D : place[i] = k - 1
             t == sort(s)
  <1>0. n \in Nat /\ DOMAIN s = D /\ \A i \in D : s[i] \in S
    OBVIOUS
  <1>1. n \in Nat /\ DOMAIN s = D /\ \A i \in D : s[i] \in S /\ s[i] \in Int
    BY <1>0
  <1>2. IsFiniteSet(D) /\ Cardinality(D) = n
    BY <1>1, FS_Interval
  <1>3. ASSUME NEW i \in D
        PROVE  /\ earlier(i) \in SUBSET D /\ i \notin earlier(i)
               /\ place[i] \in 0 .. n - 1
    <2>1. earlier(i) \in SUBSET D /\ i \notin earlier(i)
      BY <1>1, <1>3
    <2> HIDE DEF earlier
    <2>2. IsFiniteSet(earlier(i)) /\ Cardinality(earlier(i)) <= n
          /\ Cardinality(earlier(i)) # n
      BY <1>2, <1>3, <2>1, FS_Subset
    <2>3. Cardinality(earlier(i)) \in Nat
      BY <2>2, FS_CardinalityType
    <2> QED
      BY <1>1, <2>1, <2>2, <2>3
  <1>4. ASSUME NEW i \in D, NEW j \in D, before(i, j)
        PROVE  place[i] < place[j]
    <2>1. earlier(i) \subseteq earlier(j)
      <3>1. \A k \in D : before(k, i) => before(k, j)
        BY <1>1, <1>4
      <3> QED
        BY <3>1
    <2>2. i \in earlier(j) /\ i \notin earlier(i)
      BY <1>3, <1>4
    <2>3. IsFiniteSet(earlier(j))
      BY <1>2, <1>3, FS_Subset
    <2> HIDE DEF earlier
    <2>4. /\ Cardinality(earlier(i)) <= Cardinality(earlier(j))
          /\ Cardinality(earlier(i)) # Cardinality(earlier(j))
      BY <2>1, <2>2, <2>3, FS_Subset
    <2>5. place[i] \in Int /\ place[j] \in Int
      BY <1>1, <1>3
    <2> QED
      BY <2>4, <2>5
  <1>5. place \in [D -> 0 .. n - 1]
    BY <1>3
  <1>6. \A i, j \in D : i # j => before(i, j) \/ before(j, i)
    BY <1>1
  <1> HIDE DEF before
  <1>7. place \in Surjection(D, 0 .. n - 1)
    <2> DEFINE T == 0 .. n - 1
    <2>1. IsFiniteSet(T) /\ Cardinality(T) = n
      BY <1>1, FS_Interval
    <2>2. ASSUME NEW i \in D, NEW j \in D, place[i] = place[j] PROVE i = j
      <3> HIDE DEF place
      <3>1. place[i] \in Int /\ place[j] \in Int
        BY <1>1, <1>5
      <3> QED
        BY <1>4, <1>6, <2>2, <3>1
    <2> HIDE DEF place, T
    <2>3. place \in Injection(D, T)
      BY <1>5, <2>2 DEF Injection, IsInjective, T
    <2> QED
      BY <1>2, <2>1, <2>3, FS_Injection DEF T
  <1>8. ASSUME NEW k \in D
        PROVE  at(k) \in D /\ place[at(k)] = k - 1
    <2>1. k - 1 \in 0 .. n - 1
      BY <1>1
    <2> HIDE DEF place
    <2>2. \E i \in D : place[i] = k - 1
      BY <1>7, <2>1 DEF Surjection
    <2> QED
      BY <2>2
  <1>9. t = [k \in D |-> s[at(k)]]
    <2>1. \A i \in D : Cardinality({j \in DOMAIN s :
                              s[j] < s[i] \/ (s[j] = s[i] /\ j < i)}) = place[i]
      BY <1>1 DEF before
    <2> HIDE DEF place
    <2> DEFINE g(k) == CHOOSE i \in DOMAIN s :
                     Cardinality({j \in DOMAIN s :
                        s[j] < s[i] \/ (s[j] = s[i] /\ j < i)}) = k - 1
    <2>2. \A k : g(k) = at(k)
      BY <1>1, <2>1
    <2>3. t = [k \in DOMAIN s |-> s[g(k)]]
      BY DEF sort
    <2> HIDE DEF at, g, t
    <2> QED
      BY <1>1, <2>2, <2>3
  <1> HIDE DEF t, at, place
  <1>10. t \in Seq(S) /\ Len(t) = n /\ DOMAIN t = D
    <2>1. t \in [D -> S]
      BY <1>1, <1>8, <1>9
    <2> QED
      BY <1>1, <2>1
  <1>11. ASSUME NEW i \in D, NEW j \in D, i < j
         PROVE  t[i] <= t[j]
    <2>1. t[i] = s[at(i)] /\ t[j] = s[at(j)]
      BY <1>9
    <2>2. CASE before(at(j), at(i))
      <3>1. place[at(j)] < place[at(i)]
        BY <1>4, <1>8, <2>2
      <3> QED
        BY <1>1, <1>8, <1>11, <3>1
    <2>3. CASE ~before(at(j), at(i))
      BY <1>1, <1>8, <2>1, <2>3 DEF before
    <2> QED
      BY <2>2, <2>3
  <1> QED
    BY <1>10, <1>11 DEF t, InOrder

-----------------------------------------------------------------------------
(* Searches.                                                               *)

(* The items below a bound are the first ones of a sorted sequence.        *)
LEMMA CountsBelow ==
    ASSUME NEW s \in Seq(Int), InOrder(s), NEW bound \in Int
    PROVE  /\ countBelow(s, bound) \in 0 .. Len(s)
           /\ \A i \in 1 .. Len(s) : s[i] < bound <=> i <= countBelow(s, bound)
  <1> DEFINE n == Len(s)
             T == {i \in 1 .. n : s[i] < bound}
             c == Cardinality(T)
  <1>1. n \in Nat /\ DOMAIN s = 1 .. n /\ \A i \in 1 .. n : s[i] \in Int
    OBVIOUS
  <1>2. countBelow(s, bound) = c
    BY <1>1 DEF countBelow
  <1>3. IsFiniteSet(1 .. n) /\ Cardinality(1 .. n) = n
    <2>1. n \in Nat
      BY <1>1
    <2> HIDE DEF n
    <2> QED
      BY <2>1, FS_Interval
  <1>4. IsFiniteSet(T) /\ c \in Nat /\ c <= n
    <2>1. T \in SUBSET (1 .. n)
      OBVIOUS
    <2> HIDE DEF T
    <2> QED
      BY <1>3, <2>1, FS_Subset, FS_CardinalityType
  <1>5. \A i \in T : \A j \in 1 .. i : j \in T
    BY <1>1 DEF InOrder
  <1>6. ASSUME NEW i \in T PROVE i <= c
    <2>1. i \in Nat /\ (1 .. i) \in SUBSET T
      BY <1>5
    <2>2. Cardinality(1 .. i) = i
      BY <2>1, FS_Interval
    <2> HIDE DEF T
    <2> QED
      BY <1>4, <2>1, <2>2, FS_Subset
  <1>7. T = 1 .. c
    <2>1. T \in SUBSET (1 .. c)
      BY <1>4, <1>6
    <2>2. IsFiniteSet(1 .. c) /\ Cardinality(1 .. c) = c
      BY <1>4, FS_Interval
    <2> HIDE DEF T
    <2> QED
      BY <2>1, <2>2, FS_Subset
  <1> HIDE DEF c
  <1>8. ASSUME NEW i \in 1 .. n PROVE s[i] < bound <=> i <= c
    <2>1. s[i] < bound <=> i \in T
      OBVIOUS
    <2>2. i \in T <=> i \in 1 .. c
      BY <1>7
    <2> QED
      BY <1>4, <2>1, <2>2
  <1> QED
    BY <1>2, <1>4, <1>8

LEMMA Sliced ==
    ASSUME NEW s \in Seq(Int), NEW b \in Nat, NEW e \in b .. Len(s)
    PROVE  /\ slice(s, b, e) \in Seq(Int) /\ Len(slice(s, b, e)) = e - b
           /\ \A i \in 1 .. e - b : slice(s, b, e)[i] = s[b + i]
                                    /\ b + i \in 1 .. Len(s)
  <1>1. \A i \in (b + 1) .. e : i \in 1 .. Len(s) /\ s[i] \in Int
    OBVIOUS
  <1> QED
    BY <1>1 DEF slice

(* The place of a number in a range of a sequence, and of its range.       *)
Clamp(k, b, e) == IF k < b THEN b ELSE IF k > e THEN e ELSE k

LEMMA VectorFinds ==
    ASSUME NEW s \in Seq(Int), InOrder(s), NEW bound \in Int,
           NEW b \in Nat, NEW e \in b .. Len(s)
    PROVE  VectorLowerBound(s, b, e, bound) = Clamp(countBelow(s, bound), b, e)
  <1> DEFINE t == slice(s, b, e)
             k == countBelow(s, bound)
             c == countBelow(t, bound)
  <1>1. /\ t \in Seq(Int) /\ Len(t) = e - b
        /\ \A i \in 1 .. e - b : t[i] = s[b + i] /\ b + i \in 1 .. Len(s)
    BY Sliced
  <1> HIDE DEF t
  <1>2. InOrder(t)
    <2>1. DOMAIN t = 1 .. e - b
      BY <1>1
    <2>2. ASSUME NEW i \in 1 .. e - b, NEW j \in 1 .. e - b, i < j
          PROVE  t[i] <= t[j]
      <3>1. b + i \in 1 .. Len(s) /\ b + j \in 1 .. Len(s) /\ b + i < b + j
            /\ DOMAIN s = 1 .. Len(s)
        BY <1>1, <2>2
      <3> QED
        BY <1>1, <3>1 DEF InOrder
    <2> QED
      BY <2>1, <2>2 DEF InOrder
  <1>3. /\ c \in 0 .. Len(t)
        /\ \A i \in 1 .. Len(t) : t[i] < bound <=> i <= c
    BY <1>1, <1>2, CountsBelow
  <1>4. /\ k \in 0 .. Len(s)
        /\ \A i \in 1 .. Len(s) : s[i] < bound <=> i <= k
    <2>1. s \in Seq(Int) /\ InOrder(s) /\ bound \in Int
      OBVIOUS
    <2>2. /\ countBelow(s, bound) \in 0 .. Len(s)
          /\ \A i \in 1 .. Len(s) : s[i] < bound <=> i <= countBelow(s, bound)
      BY ONLY <2>1, CountsBelow
    <2>3. Len(s) \in Nat
      OBVIOUS
    <2> QED
      BY <2>2, <2>3
  <1>5. VectorLowerBound(s, b, e, bound) = b + c
    BY DEF VectorLowerBound, t
  <1> HIDE DEF c, k
  <1>6. Len(s) \in Nat
    OBVIOUS
  <1>7. \A i \in 1 .. e - b : i <= c <=> b + i <= k
    BY <1>1, <1>3, <1>4
  <1>8. c = Clamp(k, b, e) - b
    <2>1. CASE c = 0
      <3>1. e = b \/ ~(b + 1 <= k)
        <4>1. e = b \/ 1 \in 1 .. e - b
          BY <1>6
        <4> QED
          BY <1>7, <2>1, <4>1
      <3> QED
        BY <1>4, <1>6, <2>1, <3>1 DEF Clamp
    <2>2. CASE c = e - b
      <3>1. e = b \/ e <= k
        <4>1. e = b \/ (e - b \in 1 .. e - b /\ b + (e - b) = e)
          BY <1>6
        <4>2. e = b \/ (e - b <= e - b <=> e <= k)
          BY <1>7, <2>2, <4>1
        <4> QED
          BY <1>6, <4>2
      <3> QED
        BY <1>4, <1>6, <2>2, <3>1 DEF Clamp
    <2>3. CASE c # 0 /\ c # e - b
      <3>1. c \in 1 .. e - b /\ c + 1 \in 1 .. e - b
        BY <1>1, <1>3, <1>6, <2>3
      <3>2. b + c <= k /\ ~(b + (c + 1) <= k)
        BY <1>7, <3>1
      <3> QED
        BY <1>4, <1>6, <3>1, <3>2 DEF Clamp
    <2> QED
      BY <2>1, <2>2, <2>3
  <1>9. Clamp(k, b, e) \in Int /\ c \in Int
    BY <1>1, <1>3, <1>4, <1>6 DEF Clamp
  <1> QED
    BY <1>5, <1>8, <1>9 DEF k

LEMMA MinOfTwo ==
    ASSUME NEW a \in Int, NEW b \in Int
    PROVE  Min({a, b}) = IF a <= b THEN a ELSE b
  <1>1. CASE a <= b
    <2>1. a \in {a, b} /\ \A y \in {a, b} : a <= y
      BY <1>1
    <2>2. \A x \in {a, b} : (\A y \in {a, b} : x <= y) => x = a
      BY <1>1
    <2> QED
      BY <1>1, <2>1, <2>2 DEF Min
  <1>2. CASE ~(a <= b)
    <2>1. b \in {a, b} /\ \A y \in {a, b} : b <= y
      BY <1>2
    <2>2. \A x \in {a, b} : (\A y \in {a, b} : x <= y) => x = b
      BY <1>2
    <2> QED
      BY <1>2, <2>1, <2>2 DEF Min
  <1> QED
    BY <1>1, <1>2

(* The first index of a B-tree not below a bound, if it is not left of     *)
(* begin; begin, if no item is below the bound.                            *)
LEMMA TreeFinds ==
    ASSUME NEW s \in Seq(Int), InOrder(s), NEW bound \in Int,
           NEW b \in Nat, NEW e \in b .. Len(s)
    PROVE  TreeLowerBound(s, b, e, bound)
             = LET k == countBelow(s, bound)
               IN  IF k = 0 THEN b ELSE IF k <= e THEN k ELSE e
  <1> DEFINE k == countBelow(s, bound)
  <1>1. /\ k \in 0 .. Len(s) /\ Len(s) \in Nat
        /\ \A i \in 1 .. Len(s) : s[i] < bound <=> i <= k
    <2>1. s \in Seq(Int) /\ InOrder(s) /\ bound \in Int
      OBVIOUS
    <2>2. /\ countBelow(s, bound) \in 0 .. Len(s)
          /\ \A i \in 1 .. Len(s) : s[i] < bound <=> i <= countBelow(s, bound)
      BY ONLY <2>1, CountsBelow
    <2>3. Len(s) \in Nat
      OBVIOUS
    <2> QED
      BY <2>2, <2>3
  <1>2. Min({k, e}) = IF k <= e THEN k ELSE e
    <2>1. k \in Int /\ e \in Int
      BY <1>1
    <2> HIDE DEF k
    <2> QED
      BY <2>1, MinOfTwo
  <1>3. CASE s = <<>>
    <2>1. e = 0 /\ b = 0 /\ k = 0
      BY <1>1, <1>3
    <2> QED
      BY <1>3, <2>1 DEF TreeLowerBound
  <1>4. CASE s # <<>>
    <2>1. 1 \in 1 .. Len(s) /\ s[1] \in Int
      BY <1>4
    <2>2. bound <= s[1] <=> k = 0
      BY <1>1, <2>1
    <2> HIDE DEF k
    <2>3. TreeLowerBound(s, b, e, bound) = IF bound <= s[1] THEN b
                                           ELSE Min({k, e})
      BY <1>4 DEF TreeLowerBound, k
    <2> QED
      BY <1>2, <2>2, <2>3 DEF k
  <1> QED
    BY <1>3, <1>4

-----------------------------------------------------------------------------
(* The object: what its constructor finds.                                 *)

Begin(lower) == IF lower = 0 THEN 0 ELSE BaseLowerBound(0, Len(base), lower)

Made(lower, upper) ==
    LET begin == Begin(lower)
        end   == End(begin, lower, upper)
    IN  [subBegin |-> begin, subEnd |-> end,
         subSize |-> (end - begin) % SizeModulus,
         lower |-> lower, upper |-> upper]

LEMMA Stored ==
    ASSUME TypeOK, Readable
    PROVE  /\ base \in Seq(Int) /\ InOrder(base) /\ Len(base) \in Nat
           /\ \A i \in 1 .. Len(base) : base[i] \in 1 .. MaxBound - 1
           /\ MaxBound \in Nat /\ SizeModulus \in Nat /\ MaxOps \in Nat
           /\ SizeModulus > MaxOps
  <1>1. base \in Seq(Items) /\ InOrder(base)
    BY DEF TypeOK
  <1>2. /\ Items \subseteq 1 .. MaxBound - 1 /\ Items \subseteq Int
        /\ MaxBound \in Nat /\ SizeModulus \in Nat /\ MaxOps \in Nat
        /\ SizeModulus > MaxOps
    BY SubRangeAssumption
  <1>3. /\ Len(base) \in Nat /\ \A i \in 1 .. Len(base) : base[i] \in Items
    BY <1>1
  <1>4. base \in Seq(Int)
    <2>0. base \in [1 .. Len(base) -> Items]
      BY <1>1
    <2>1. base \in [1 .. Len(base) -> Int]
      BY <1>2, <2>0
    <2> QED
      BY <1>3, <2>1
  <1> QED
    BY <1>1, <1>2, <1>3, <1>4

(* The first item not below the lower bound.                               *)
LEMMA Begins ==
    ASSUME TypeOK, Readable, NEW lower \in 0 .. MaxBound
    PROVE  /\ Begin(lower) \in 0 .. Len(base)
           /\ \A i \in 1 .. Len(base) : base[i] < lower <=> i <= Begin(lower)
  <1> DEFINE k == countBelow(base, lower)
             n == Len(base)
  <1>1. /\ base \in Seq(Int) /\ InOrder(base) /\ n \in Nat
        /\ \A i \in 1 .. n : base[i] \in 1 .. MaxBound - 1
        /\ lower \in Int /\ MaxBound \in Nat
    BY Stored
  <1>2. /\ k \in 0 .. n
        /\ \A i \in 1 .. n : base[i] < lower <=> i <= k
    BY <1>1, CountsBelow
  <1>3. 0 \in Nat /\ n \in 0 .. n
    BY <1>1
  <1>4. VectorLowerBound(base, 0, n, lower) = Clamp(k, 0, n)
    BY <1>1, <1>3, VectorFinds
  <1>5. TreeLowerBound(base, 0, n, lower)
          = IF k = 0 THEN 0 ELSE IF k <= n THEN k ELSE n
    BY <1>1, <1>3, TreeFinds
  <1> HIDE DEF k
  <1>6. BaseLowerBound(0, n, lower) = k
    BY <1>1, <1>2, <1>4, <1>5 DEF BaseLowerBound, Clamp
  <1>7. CASE lower = 0
    <2>1. \A i \in 1 .. n : ~(base[i] < lower)
      BY <1>1, <1>7
    <2>2. Begin(lower) = 0
      BY <1>7 DEF Begin
    <2> QED
      BY <1>1, <2>1, <2>2
  <1>8. CASE lower # 0
    <2>1. Begin(lower) = k
      BY <1>6, <1>8 DEF Begin
    <2> QED
      BY <1>1, <1>2, <2>1
  <1> QED
    BY <1>7, <1>8

(* The end lies within the storage; it is behind the last item not above   *)
(* the upper bound, or at the begin if no item is within the bounds.       *)
LEMMA Ends ==
    ASSUME TypeOK, Readable,
           NEW lower \in 0 .. MaxBound, NEW upper \in 0 .. MaxBound
    PROVE  LET b == Begin(lower)
               e == End(b, lower, upper)
           IN  /\ e \in Int
               /\ (kind = "vector" \/ lower <= upper) /\ WithoutTwins(base) =>
                     /\ e \in b .. Len(base)
                     /\ \A i \in 1 .. Len(base) :
                           lower <= base[i] /\ base[i] <= upper
                              <=> b + 1 <= i /\ i <= e
  <1> DEFINE b == Begin(lower)
             e == End(b, lower, upper)
             n == Len(base)
             k == countBelow(base, upper)
             f == IF upper = MaxBound THEN n ELSE BaseLowerBound(b, n, upper)
  <1>1. /\ base \in Seq(Int) /\ InOrder(base) /\ n \in Nat
        /\ \A i \in 1 .. n : base[i] \in 1 .. MaxBound - 1
        /\ lower \in Int /\ upper \in Int /\ MaxBound \in Nat
    BY Stored
  <1>2. /\ k \in 0 .. n
        /\ \A i \in 1 .. n : base[i] < upper <=> i <= k
    BY <1>1, CountsBelow
  <1>3. /\ b \in 0 .. n
        /\ \A i \in 1 .. n : base[i] < lower <=> i <= b
    BY Begins
  <1> HIDE DEF b
  <1>4. b \in Nat /\ n \in b .. n
    BY <1>1, <1>3
  <1>5. VectorLowerBound(base, b, n, upper) = Clamp(k, b, n)
    BY <1>1, <1>4, VectorFinds
  <1>6. TreeLowerBound(base, b, n, upper)
          = IF k = 0 THEN b ELSE IF k <= n THEN k ELSE n
    BY <1>1, <1>4, TreeFinds
  <1>7. e = IF f # n /\ base[f + 1] = upper THEN f + 1 ELSE f
    BY DEF End
  <1>8. \/ BaseLowerBound(b, n, upper) = VectorLowerBound(base, b, n, upper)
        \/ /\ BaseLowerBound(b, n, upper) = TreeLowerBound(base, b, n, upper)
           /\ kind # "vector"
    BY DEF BaseLowerBound
  <1> HIDE DEF k, e
  <1>9. CASE upper = MaxBound
    <2>1. f = n /\ e = n
      BY <1>7, <1>9
    <2>2. \A i \in 1 .. n : base[i] <= upper
      BY <1>1, <1>9
    <2>3. \A i \in 1 .. n : lower <= base[i] <=> b + 1 <= i
      BY <1>1, <1>3
    <2>4. \A i \in 1 .. n : lower <= base[i] /\ base[i] <= upper
                              <=> b + 1 <= i /\ i <= e
      BY <1>1, <2>1, <2>2, <2>3
    <2>5. e \in Int /\ e \in b .. n
      BY <1>1, <1>3, <2>1
    <2> QED
      BY <2>4, <2>5 DEF b, e
  <1>10. CASE upper # MaxBound
    <2>1. /\ f \in 0 .. n
          /\ \/ f = Clamp(k, b, n)
             \/ kind # "vector" /\ f = (IF k = 0 THEN b ELSE k)
      BY <1>1, <1>2, <1>3, <1>5, <1>6, <1>8, <1>10 DEF Clamp
    <2> HIDE DEF f
    <2>2. e \in Int /\ e \in {f, f + 1}
      BY <1>1, <1>7, <2>1
    <2>3. ASSUME kind = "vector" \/ lower <= upper, WithoutTwins(base)
          PROVE  /\ e \in b .. n
                 /\ \A i \in 1 .. n : lower <= base[i] /\ base[i] <= upper
                                         <=> b + 1 <= i /\ i <= e
      <3>1. Strict(base)
        BY <1>1, <2>3, StrictIs
      <3>2. CASE lower <= upper
        <4>1. b <= k
          <5>1. CASE b = 0
            BY <1>2, <5>1
          <5>2. CASE b # 0
            <6>1. b \in 1 .. n /\ base[b] < lower
              BY <1>3, <5>2
            <6>2. base[b] < upper
              BY <1>1, <3>2, <6>1
            <6> QED
              BY <1>2, <6>1, <6>2
          <5> QED
            BY <5>1, <5>2
        <4>2. f = k
          BY <1>2, <1>3, <2>1, <4>1 DEF Clamp
        <4>3. ASSUME NEW i \in 1 .. n PROVE base[i] <= upper <=> i <= e
          <5>1. CASE i <= k
            <6>1. base[i] < upper /\ i <= e
              BY <1>2, <2>1, <2>2, <4>2, <5>1
            <6> QED
              BY <1>1, <6>1
          <5>2. CASE i = k + 1
            <6>1. f # n /\ f + 1 = i
              BY <1>2, <4>2, <5>2
            <6>2. e = IF base[i] = upper THEN i ELSE f
              BY <1>7, <6>1
            <6>3. base[i] >= upper
              BY <1>1, <1>2, <5>2
            <6> QED
              BY <1>1, <1>2, <4>2, <5>2, <6>2, <6>3
          <5>3. CASE i > k + 1
            <6>1. k + 1 \in 1 .. n /\ base[k + 1] < base[i] /\ ~(k + 1 <= k)
              BY <1>2, <3>1, <5>3 DEF Strict
            <6>2. base[k + 1] >= upper
              BY <1>1, <1>2, <6>1
            <6>3. i > e
              BY <1>2, <2>2, <4>2, <5>3
            <6> QED
              BY <1>1, <2>2, <6>1, <6>2, <6>3
          <5> QED
            BY <1>2, <5>1, <5>2, <5>3
        <4>4. e \in b .. n
          BY <1>2, <1>3, <1>7, <2>1, <2>2, <4>1, <4>2
        <4>5. \A i \in 1 .. n : lower <= base[i] <=> b + 1 <= i
          BY <1>1, <1>3
        <4> QED
          BY <4>3, <4>4, <4>5
      <3>3. CASE ~(lower <= upper)
        <4>1. k <= b
          <5>1. CASE k = 0
            BY <1>3, <5>1
          <5>2. CASE k # 0
            <6>1. k \in 1 .. n /\ base[k] < upper
              BY <1>2, <5>2
            <6>2. base[k] < lower
              BY <1>1, <3>3, <6>1
            <6> QED
              BY <1>3, <6>1, <6>2
          <5> QED
            BY <5>1, <5>2
        <4>2. f = b
          BY <1>2, <1>3, <2>1, <2>3, <3>3, <4>1 DEF Clamp
        <4>3. e = b
          <5>1. CASE f # n
            <6>1. f + 1 \in 1 .. n /\ ~(f + 1 <= b)
              BY <2>1, <4>2, <5>1, <1>3
            <6>2. base[f + 1] >= lower
              BY <1>1, <1>3, <6>1
            <6> QED
              BY <1>1, <1>7, <3>3, <4>2, <6>1, <6>2
          <5> QED
            BY <1>7, <4>2, <5>1
        <4>4. \A i \in 1 .. n : ~(lower <= base[i] /\ base[i] <= upper)
          BY <1>1, <3>3
        <4> QED
          BY <1>1, <1>3, <4>3, <4>4
      <3> QED
        BY <3>2, <3>3
    <2> QED
      BY <2>2, <2>3 DEF b, e
  <1> QED
    BY <1>9, <1>10

-----------------------------------------------------------------------------
(* The invariant: an object whose base has not changed is the one that the *)
(* constructor would make of it now.                                       *)

ProxyInv ==
    /\ TypeOK
    /\ ops \in 0 .. MaxOps /\ Len(base) <= ops
    /\ sub.lower \in 0 .. MaxBound /\ sub.upper \in 0 .. MaxBound
    /\ HasSub /\ ~changed => sub = Made(sub.lower, sub.upper)

LEMMA SmallRemainder ==
    ASSUME NEW x \in Nat, NEW m \in Nat, x < m
    PROVE  x % m = x
  OBVIOUS

(* What an object covers: indices subBegin + 1 to subEnd of its base, and  *)
(* nothing else is between its bounds.                                     *)
Covers(b, e) ==
    /\ b \in Nat /\ e \in b .. Len(base)
    /\ sub.subBegin = b /\ sub.subEnd = e /\ sub.subSize = e - b
    /\ Strict(base)
    /\ copy = slice(base, b, e)

LEMMA ObjectCovers ==
    ASSUME ProxyInv, Fresh, kind = "vector" \/ sub.lower <= sub.upper,
           EndsBetweenItems
    PROVE  Covers(sub.subBegin, sub.subEnd)
  <1> DEFINE b == sub.subBegin
             e == sub.subEnd
             n == Len(base)
             lower == sub.lower
             upper == sub.upper
             t == slice(base, b, e)
             S == {item \in ToSet(base) : lower <= item /\ item <= upper}
  <1>1. TypeOK /\ Readable /\ ~changed /\ ~refused
        /\ lower \in 0 .. MaxBound /\ upper \in 0 .. MaxBound
        /\ sub = Made(lower, upper)
    BY DEF ProxyInv, Fresh
  <1>2. WithoutTwins(base) /\ InOrder(base)
    BY <1>1 DEF TypeOK
  <1>3. /\ base \in Seq(Int) /\ n \in Nat
        /\ \A i \in 1 .. n : base[i] \in 1 .. MaxBound - 1
        /\ SizeModulus \in Nat /\ SizeModulus > MaxOps /\ MaxOps \in Nat
        /\ MaxBound \in Nat
    BY <1>1, Stored
  <1>4. Strict(base)
    BY <1>2, <1>3, StrictIs
  <1>5. /\ b = Begin(lower) /\ e = End(b, lower, upper)
        /\ sub.subSize = (e - b) % SizeModulus
    BY <1>1 DEF Made
  <1>6. b \in 0 .. n
    BY <1>1, <1>5, Begins
  <1>7. /\ e \in b .. n
        /\ \A i \in 1 .. n : lower <= base[i] /\ base[i] <= upper
                                <=> b + 1 <= i /\ i <= e
    <2> HIDE DEF b, e, n, lower, upper
    <2> QED
      BY <1>1, <1>2, <1>5, Ends DEF lower, upper, n
  <1> HIDE DEF b, e, lower, upper
  <1>8. n <= MaxOps
    BY <1>3 DEF ProxyInv
  <1>9. sub.subSize = e - b
    <2>1. e - b \in Nat /\ e - b < SizeModulus
      BY <1>3, <1>6, <1>7, <1>8
    <2> QED
      BY <1>3, <1>5, <2>1, SmallRemainder
  <1>10. /\ t \in Seq(Int) /\ Len(t) = e - b
         /\ \A i \in 1 .. e - b : t[i] = base[b + i] /\ b + i \in 1 .. n
    <2>1. base \in Seq(Int) /\ b \in Nat /\ e \in b .. Len(base)
      BY <1>3, <1>6, <1>7
    <2> QED
      BY <2>1, Sliced
  <1> HIDE DEF t
  <1>11. Strict(t)
    <2>1. ASSUME NEW i \in 1 .. e - b, NEW j \in 1 .. e - b, i < j
          PROVE  t[i] < t[j]
      <3>1. b + i \in 1 .. n /\ b + j \in 1 .. n /\ b + i < b + j
        BY <1>6, <1>7, <1>10, <2>1
      <3> QED
        BY <1>4, <1>10, <3>1 DEF Strict
    <2> QED
      BY <1>10, <2>1 DEF Strict
  <1>12. ToSet(t) = S
    <2>1. DOMAIN t = 1 .. e - b /\ DOMAIN base = 1 .. n
      BY <1>3, <1>10
    <2>2. ASSUME NEW x \in ToSet(t) PROVE x \in S
      <3>1. PICK i \in 1 .. e - b : x = t[i]
        BY <2>1 DEF ToSet
      <3>2. b + i \in 1 .. n /\ x = base[b + i] /\ b + 1 <= b + i /\ b + i <= e
        BY <1>3, <1>6, <1>7, <1>10, <3>1
      <3>3. lower <= x /\ x <= upper
        BY <1>7, <3>2
      <3> QED
        BY <2>1, <3>2, <3>3 DEF ToSet
    <2>3. ASSUME NEW x \in S PROVE x \in ToSet(t)
      <3>1. PICK i \in 1 .. n : x = base[i]
        BY <2>1 DEF ToSet
      <3>2. b + 1 <= i /\ i <= e
        BY <1>7, <3>1
      <3>3. i - b \in 1 .. e - b /\ b + (i - b) = i
        BY <1>6, <1>7, <3>1, <3>2
      <3>4. t[i - b] = x
        BY <1>10, <3>1, <3>3
      <3> QED
        BY <2>1, <3>3, <3>4 DEF ToSet
    <2> QED
      BY <2>2, <2>3
  <1>13. S = {item \in ToSet(base) : sub.lower <= item /\ item < sub.upper}
    <2>1. ASSUME NEW x \in ToSet(base) PROVE x <= upper <=> x < upper
      <3>1. DOMAIN base = 1 .. n
        BY <1>3
      <3>2. x \in Int
        BY <1>3, <3>1 DEF ToSet
      <3>3. x # upper /\ upper \in Int
        BY <1>1, <1>3 DEF EndsBetweenItems, upper
      <3> QED
        BY <3>2, <3>3
    <2> QED
      BY <2>1 DEF lower, upper
  <1>14. copy = t
    BY <1>10, <1>11, <1>12, <1>13, AscendingIsUnique DEF copy
  <1> QED
    BY <1>4, <1>6, <1>7, <1>9, <1>14 DEF Covers, b, e, t

(* A range of the range is a range of the base.                            *)
LEMMA SlicesOfSlices ==
    ASSUME NEW s \in Seq(Int), NEW b \in Nat, NEW e \in b .. Len(s),
           NEW j \in 0 .. e - b, NEW i \in 0 .. j
    PROVE  slice(slice(s, b, e), i, j) = slice(s, b + i, b + j)
  <1> DEFINE t == slice(s, b, e)
             u == slice(t, i, j)
             v == slice(s, b + i, b + j)
  <1>1. /\ t \in Seq(Int) /\ Len(t) = e - b
        /\ \A k \in 1 .. e - b : t[k] = s[b + k]
    BY Sliced
  <1>2. Len(s) \in Nat /\ i \in Nat /\ j \in i .. Len(t)
        /\ b + i \in Nat /\ b + j \in (b + i) .. Len(s)
    <2>1. Len(s) \in Nat
      OBVIOUS
    <2> HIDE DEF t
    <2> QED
      BY <1>1, <2>1
  <1>3. /\ u \in Seq(Int) /\ Len(u) = j - i
        /\ \A k \in 1 .. j - i : u[k] = t[i + k]
    <2> HIDE DEF t
    <2> QED
      BY <1>1, <1>2, Sliced
  <1>4. /\ v \in Seq(Int) /\ Len(v) = (b + j) - (b + i)
        /\ \A k \in 1 .. (b + j) - (b + i) : v[k] = s[(b + i) + k]
    BY <1>2, Sliced
  <1> HIDE DEF u, v, t
  <1>5. Len(v) = j - i
    BY <1>2, <1>4
  <1>6. ASSUME NEW k \in 1 .. j - i PROVE u[k] = v[k]
    <2>1. i + k \in 1 .. e - b /\ b + (i + k) = (b + i) + k
          /\ k \in 1 .. (b + j) - (b + i)
      BY <1>1, <1>2
    <2> QED
      BY <1>1, <1>3, <1>4, <2>1
  <1>7. u = [k \in 1 .. j - i |-> u[k]] /\ v = [k \in 1 .. j - i |-> v[k]]
    BY <1>3, <1>4, <1>5
  <1> QED
    BY <1>6, <1>7 DEF u, v, t

LEMMA QueriesMatch ==
    ASSUME NEW b, NEW e, Covers(b, e), base \in Seq(Int)
    PROVE  QueriesAsCopy
  <1>1. /\ b \in Nat /\ e \in b .. Len(base) /\ Len(base) \in Nat
        /\ sub.subBegin = b /\ size = e - b /\ copy = slice(base, b, e)
    BY DEF Covers, size
  <1>2. /\ copy \in Seq(Int) /\ Len(copy) = e - b
        /\ \A i \in 1 .. e - b : copy[i] = base[b + i]
    BY <1>1, Sliced
  <1>3. ASSUME NEW i \in 0 .. Len(copy) - 1 PROVE getItem(i) = copy[i + 1]
    <2>1. i + 1 \in 1 .. e - b /\ b + (i + 1) = b + i + 1
      BY <1>1, <1>2, <1>3
    <2> QED
      BY <1>1, <1>2, <2>1 DEF getItem
  <1>4. ASSUME NEW j \in 0 .. Len(copy), NEW i \in 0 .. j
        PROVE  slice(copy, i, j) = slice(base, b + i, b + j)
    BY <1>1, <1>2, SlicesOfSlices
  <1>5. ASSUME NEW j \in 0 .. Len(copy), NEW i \in 0 .. j
        PROVE  /\ iterate(i, j) = slice(copy, i, j)
               /\ fingerprint(i, j) = sumOf(copy, i, j)
    BY <1>1, <1>4 DEF iterate, fingerprint, sumOf
  <1> QED
    BY <1>1, <1>2, <1>3, <1>5 DEF QueriesAsCopy

(* The searches of the object and of the copy, in terms of the base's.     *)
LEMMA CopyFinds ==
    ASSUME NEW b, NEW e, Covers(b, e), base \in Seq(Int), NEW bound \in Int,
           NEW j \in 0 .. e - b, NEW i \in 0 .. j
    PROVE  LET k == countBelow(base, bound)
           IN  /\ k \in 0 .. Len(base)
               /\ countBelow(copy, bound) = Clamp(k, b, e) - b
               /\ VectorLowerBound(copy, i, j, bound)
                     = Clamp(Clamp(k, b, e) - b, i, j)
               /\ VectorLowerBound(base, b + i, b + j, bound)
                     = Clamp(k, b + i, b + j)
               /\ TreeLowerBound(base, b + i, b + j, bound)
                     = IF k = 0 THEN b + i ELSE IF k <= b + j THEN k ELSE b + j
  <1> DEFINE k == countBelow(base, bound)
             c == countBelow(copy, bound)
  <1>1. /\ b \in Nat /\ e \in b .. Len(base) /\ Len(base) \in Nat
        /\ copy = slice(base, b, e) /\ Strict(base)
    BY DEF Covers
  <1>2. /\ InOrder(base) /\ copy \in Seq(Int) /\ Len(copy) = e - b
        /\ \A x \in 1 .. e - b : copy[x] = base[b + x]
    BY <1>1, Sliced, StrictIs
  <1>3. InOrder(copy)
    <2>1. ASSUME NEW x \in 1 .. e - b, NEW y \in 1 .. e - b, x < y
          PROVE  copy[x] <= copy[y]
      <3>1. b + x \in DOMAIN base /\ b + y \in DOMAIN base /\ b + x < b + y
        BY <1>1, <2>1, StrictIs
      <3> QED
        BY <1>2, <3>1 DEF InOrder
    <2>2. DOMAIN copy = 1 .. e - b
      BY <1>2
    <2> QED
      BY <2>1, <2>2 DEF InOrder
  <1>4. k \in 0 .. Len(base)
    BY <1>2, CountsBelow
  <1>5. VectorLowerBound(base, b, e, bound) = Clamp(k, b, e)
    BY <1>1, <1>2, VectorFinds
  <1>6. VectorLowerBound(base, b, e, bound) = b + c
    BY <1>1 DEF VectorLowerBound
  <1>7. c \in 0 .. e - b
    BY <1>2, <1>3, CountsBelow
  <1>8. i \in Nat /\ j \in i .. Len(copy)
        /\ b + i \in Nat /\ b + j \in (b + i) .. Len(base)
    BY <1>1, <1>2
  <1>9. VectorLowerBound(copy, i, j, bound) = Clamp(c, i, j)
    BY <1>2, <1>3, <1>8, VectorFinds
  <1>10. /\ VectorLowerBound(base, b + i, b + j, bound) = Clamp(k, b + i, b + j)
         /\ TreeLowerBound(base, b + i, b + j, bound)
               = IF k = 0 THEN b + i ELSE IF k <= b + j THEN k ELSE b + j
    BY <1>2, <1>8, VectorFinds, TreeFinds
  <1> HIDE DEF k, c
  <1>11. c = Clamp(k, b, e) - b
    BY <1>1, <1>4, <1>5, <1>6, <1>7 DEF Clamp
  <1> QED
    BY <1>4, <1>9, <1>10, <1>11 DEF k, c

LEMMA ObjectFinds ==
    ASSUME NEW b, NEW e, Covers(b, e), base \in Seq(Int), NEW bound \in Int,
           Len(base) < SizeModulus, SizeModulus \in Nat,
           NEW j \in 0 .. e - b, NEW i \in 0 .. j,
           \/ kind = "vector"
           \/ /\ countBelow(base, bound) \in {0} \cup b .. Len(base)
              /\ i <= countBelow(copy, bound)
    PROVE  LowerBoundAsCopy(i, j, bound)
  <1> DEFINE k == countBelow(base, bound)
             index == BaseLowerBound(b + i, b + j, bound)
             answer == VectorLowerBound(copy, i, j, bound)
             c == countBelow(copy, bound)
  <1>1. /\ b \in Nat /\ e \in b .. Len(base) /\ Len(base) \in Nat
        /\ sub.subBegin = b /\ size = e - b
    BY DEF Covers, size
  <1>2. /\ k \in 0 .. Len(base)
        /\ c = Clamp(k, b, e) - b
        /\ answer = Clamp(Clamp(k, b, e) - b, i, j)
        /\ VectorLowerBound(base, b + i, b + j, bound) = Clamp(k, b + i, b + j)
        /\ TreeLowerBound(base, b + i, b + j, bound)
              = IF k = 0 THEN b + i ELSE IF k <= b + j THEN k ELSE b + j
    BY CopyFinds
  <1>3. index = IF kind = "vector"
                THEN VectorLowerBound(base, b + i, b + j, bound)
                ELSE TreeLowerBound(base, b + i, b + j, bound)
    BY DEF BaseLowerBound
  <1>4. findLowerBound(i, j, bound) = Min({(index - b) % SizeModulus, size})
    BY <1>1 DEF findLowerBound
  <1> HIDE DEF index, answer, k, c
  <1>5. index - b = answer /\ answer \in 0 .. j
    <2>1. CASE kind = "vector"
      <3>1. index = Clamp(k, b + i, b + j)
        BY <1>2, <1>3, <2>1
      <3> QED
        BY <1>1, <1>2, <3>1 DEF Clamp
    <2>2. CASE kind # "vector"
      <3>1. index = IF k = 0 THEN b + i ELSE IF k <= b + j THEN k ELSE b + j
        BY <1>2, <1>3, <2>2
      <3>2. k \in {0} \cup b .. Len(base) /\ i <= c
        BY <2>2 DEF k, c
      <3> QED
        BY <1>1, <1>2, <3>1, <3>2 DEF Clamp
    <2> QED
      BY <2>1, <2>2
  <1>6. (index - b) % SizeModulus = answer
    <2>1. answer \in Nat /\ answer < SizeModulus
      BY <1>1, <1>5
    <2> QED
      BY <1>5, <2>1, SmallRemainder
  <1>7. Min({answer, size}) = answer
    <2>1. answer \in Int /\ size \in Int /\ answer <= size
      BY <1>1, <1>5
    <2> QED
      BY <2>1, MinOfTwo
  <1> QED
    BY <1>4, <1>6, <1>7 DEF LowerBoundAsCopy, answer

LEMMA ProxyIsCopy == ProxyInv => VectorProxy /\ TreeProxy
  <1> DEFINE b == sub.subBegin
             e == sub.subEnd
  <1> SUFFICES ASSUME ProxyInv PROVE VectorProxy /\ TreeProxy
    OBVIOUS
  <1>1. ASSUME Fresh, kind = "vector" \/ sub.lower <= sub.upper, EndsBetweenItems
        PROVE  /\ Covers(b, e) /\ QueriesAsCopy
               /\ base \in Seq(Int) /\ Len(base) \in Nat
               /\ Len(base) < SizeModulus /\ SizeModulus \in Nat
               /\ MaxBound \in Nat
               /\ size = e - b /\ b \in Nat /\ e \in b .. Len(base)
    <2>1. Covers(b, e)
      BY <1>1, ObjectCovers
    <2>2. TypeOK /\ Readable /\ Len(base) <= ops /\ ops \in 0 .. MaxOps
      BY <1>1 DEF ProxyInv, Fresh
    <2>3. /\ base \in Seq(Int) /\ Len(base) \in Nat /\ MaxBound \in Nat
          /\ SizeModulus \in Nat /\ SizeModulus > MaxOps /\ MaxOps \in Nat
      BY <2>2, Stored
    <2>4. QueriesAsCopy
      BY <2>1, <2>3, QueriesMatch
    <2>5. size = e - b /\ b \in Nat /\ e \in b .. Len(base)
      BY <2>1 DEF Covers, size
    <2> QED
      BY <2>1, <2>2, <2>3, <2>4, <2>5
  <1> HIDE DEF b, e
  <1>2. ASSUME Fresh, kind = "vector", EndsBetweenItems PROVE VectorProxy
    <2>1. ASSUME NEW bound \in 0 .. MaxBound,
                 NEW j \in 0 .. size, NEW i \in 0 .. j
          PROVE  LowerBoundAsCopy(i, j, bound)
      <3>1. bound \in Int /\ j \in 0 .. e - b
        BY <1>1, <1>2
      <3> QED
        BY <1>1, <1>2, <3>1, ObjectFinds
    <2> QED
      BY <1>1, <1>2, <2>1 DEF VectorProxy
  <1>3. ASSUME Fresh, kind = "btree", sub.lower <= sub.upper, EndsBetweenItems
        PROVE  TreeProxy
    <2>1. ASSUME NEW bound \in 0 .. MaxBound,
                 countBelow(base, bound) \in {0} \cup b .. Len(base),
                 NEW j \in 0 .. size,
                 NEW i \in 0 .. Min({j, countBelow(copy, bound)})
          PROVE  LowerBoundAsCopy(i, j, bound)
      <3>1. bound \in Int /\ j \in 0 .. e - b /\ j \in 0 .. j /\ j \in Int
        BY <1>1, <1>3
      <3>2. countBelow(copy, bound) = Clamp(countBelow(base, bound), b, e) - b
            /\ countBelow(base, bound) \in 0 .. Len(base)
        BY <1>1, <1>3, <3>1, CopyFinds
      <3>3. countBelow(copy, bound) \in Int
        BY <1>1, <1>3, <3>2 DEF Clamp
      <3>4. i \in 0 .. j /\ i <= countBelow(copy, bound)
        <4>1. Min({j, countBelow(copy, bound)})
                 = IF j <= countBelow(copy, bound)
                   THEN j ELSE countBelow(copy, bound)
          BY <3>1, <3>3, MinOfTwo
        <4> QED
          BY <3>1, <3>3, <4>1
      <3> QED
        BY <1>1, <1>3, <2>1, <3>1, <3>4, ObjectFinds
    <2> QED
      BY <1>1, <1>3, <2>1 DEF TreeProxy, b
  <1> QED
    BY <1>2, <1>3 DEF VectorProxy, TreeProxy

-----------------------------------------------------------------------------
(* The invariant holds.                                                    *)

LEMMA ItemsAre ==
    /\ Items \in SUBSET Int /\ Items \subseteq Nat \ {0}
    /\ MaxBound \in Nat /\ MaxOps \in Nat
    /\ SizeModulus \in Nat /\ SizeModulus > MaxOps + 1
  BY SubRangeAssumption

(* The set of items of a sequence, and one more.                           *)
LEMMA SetOfItems ==
    ASSUME NEW s \in Seq(Items)
    PROVE  /\ ToSet(s) \in SUBSET Items /\ IsFiniteSet(ToSet(s))
           /\ Cardinality(ToSet(s)) \in Nat /\ Cardinality(ToSet(s)) <= Len(s)
  <1> DEFINE n == Len(s)
  <1>1. n \in Nat /\ DOMAIN s = 1 .. n /\ s \in [1 .. n -> Items]
    OBVIOUS
  <1>2. ToSet(s) \in SUBSET Items
    BY <1>1 DEF ToSet
  <1>3. s \in Surjection(1 .. n, ToSet(s))
    BY <1>1 DEF Surjection, ToSet
  <1>4. IsFiniteSet(1 .. n) /\ Cardinality(1 .. n) = n
    <2> HIDE DEF n
    <2> QED
      BY <1>1, FS_Interval
  <1>5. IsFiniteSet(ToSet(s)) /\ Cardinality(ToSet(s)) <= n
    <2> HIDE DEF n
    <2> QED
      BY <1>3, <1>4, FS_Surjection
  <1> QED
    BY <1>2, <1>5, FS_CardinalityType

LEMMA InitProxy == Init => ProxyInv
  <1> SUFFICES ASSUME Init PROVE ProxyInv
    OBVIOUS
  <1>1. base = <<>> /\ base \in Seq(Items) /\ Len(base) = 0
    BY DEF Init
  <1>2. InOrder(base) /\ WithoutTwins(base)
    BY <1>1 DEF InOrder, WithoutTwins
  <1>3. sub.subSize = 0 /\ sub.lower = 0 /\ sub.upper = 0
    BY DEF Init, NoSub
  <1>4. TypeOK
    <2>1. sub.subSize \in 0 .. SizeModulus - 1
      BY <1>3, ItemsAre
    <2>2. /\ kind \in {"vector", "btree"}
          /\ sealed \in BOOLEAN /\ refused \in BOOLEAN /\ changed \in BOOLEAN
      BY DEF Init
    <2> QED
      BY <1>1, <1>2, <2>1, <2>2 DEF TypeOK
  <1> QED
    BY <1>1, <1>3, <1>4, ItemsAre DEF Init, ProxyInv, HasSub

LEMMA EditsKeepProxy ==
    ASSUME ProxyInv, ops < MaxOps, ops' = ops + 1,
           \/ \E item \in Items : VectorInsert(item) \/ TreeEdit(item)
           \/ Seal \/ Unseal
    PROVE  ProxyInv'
  <1>1. TypeOK /\ ops \in 0 .. MaxOps /\ Len(base) <= ops
        /\ base \in Seq(Items) /\ Len(base) \in Nat
    BY DEF ProxyInv, TypeOK
  <1>2. sub' = sub /\ kind' = kind
    BY DEF VectorInsert, TreeEdit, Seal, Unseal, Change
  <1>3. ops' \in 0 .. MaxOps
    BY <1>1, ItemsAre
  <1>4. ASSUME base' \in Seq(Items), Len(base') <= Len(base) + 1,
               sealed' \in BOOLEAN, refused' \in BOOLEAN, changed' = TRUE,
               Readable' => InOrder(base') /\ (WithoutTwins(base') \/ refused')
        PROVE  ProxyInv'
    <2>1. TypeOK'
      BY <1>1, <1>2, <1>4 DEF TypeOK
    <2>2. Len(base') <= ops'
      BY <1>1, <1>4
    <2> QED
      BY <1>2, <1>3, <1>4, <2>1, <2>2 DEF ProxyInv
  <1>5. CASE \E item \in Items : VectorInsert(item)
    <2>1. PICK item \in Items : VectorInsert(item)
      BY <1>5
    <2>2. base' \in Seq(Items) /\ Len(base') = Len(base) + 1
      BY <1>1, <2>1 DEF VectorInsert
    <2>3. ~Readable' /\ sealed' \in BOOLEAN /\ refused' \in BOOLEAN /\ changed'
      BY <1>1, <2>1 DEF VectorInsert, Readable, TypeOK, Change
    <2> QED
      BY <1>1, <1>4, <2>1, <2>2, <2>3 DEF VectorInsert, Change
  <1>6. CASE \E item \in Items : TreeEdit(item)
    <2>1. PICK item \in Items : TreeEdit(item)
      BY <1>6
    <2> DEFINE S == IF item \in ToSet(base) THEN ToSet(base) \ {item}
                                            ELSE ToSet(base) \cup {item}
    <2>2. base' = ascending(S)
      BY <2>1 DEF TreeEdit
    <2>3. /\ ToSet(base) \in SUBSET Items /\ IsFiniteSet(ToSet(base))
          /\ Cardinality(ToSet(base)) \in Nat
          /\ Cardinality(ToSet(base)) <= Len(base)
      BY <1>1, SetOfItems
    <2>4. /\ S \in SUBSET Items /\ S \in SUBSET Int /\ IsFiniteSet(S)
          /\ Cardinality(S) \in Nat /\ Cardinality(S) <= Len(base) + 1
      <3>1. CASE item \in ToSet(base)
        <4>1. S = ToSet(base) \ {item}
          BY <3>1
        <4>2. IsFiniteSet(S) /\ Cardinality(S) = Cardinality(ToSet(base)) - 1
          BY <2>3, <3>1, <4>1, FS_RemoveElement
        <4>3. S \in SUBSET Items /\ S \in SUBSET Int
          BY <2>3, <4>1, ItemsAre
        <4>4. Cardinality(S) \in Nat
          BY <4>2, FS_CardinalityType
        <4> QED
          BY <1>1, <2>3, <4>2, <4>3, <4>4
      <3>2. CASE item \notin ToSet(base)
        <4>1. S = ToSet(base) \cup {item}
          BY <3>2
        <4>2. IsFiniteSet(S) /\ Cardinality(S) = Cardinality(ToSet(base)) + 1
          BY <2>3, <3>2, <4>1, FS_AddElement
        <4>3. S \in SUBSET Items /\ S \in SUBSET Int
          BY <2>1, <2>3, <4>1, ItemsAre
        <4> QED
          BY <1>1, <2>3, <4>2, <4>3
      <3> QED
        BY <3>1, <3>2
    <2> HIDE DEF S
    <2>5. base' \in Seq(S) /\ Len(base') = Cardinality(S) /\ Strict(base')
      BY <2>2, <2>4, Ascending
    <2>6. base' \in [1 .. Len(base') -> S] /\ Len(base') \in Nat
      BY <2>4, <2>5
    <2>7. base' \in Seq(Items) /\ base' \in Seq(Int)
      <3>1. /\ base' \in [1 .. Len(base') -> Items]
            /\ base' \in [1 .. Len(base') -> Int]
        BY <2>4, <2>6
      <3> QED
        BY <2>6, <3>1
    <2>8. InOrder(base') /\ WithoutTwins(base')
      BY <2>5, <2>7, StrictIs
    <2>9. sealed' \in BOOLEAN /\ refused' \in BOOLEAN /\ changed' = TRUE
      BY <1>1, <2>1 DEF TreeEdit, Change, TypeOK
    <2> QED
      BY <1>4, <2>4, <2>5, <2>7, <2>8, <2>9
  <1>7. CASE Seal
    <2>1. base' = sort(base) /\ sealed' = TRUE /\ changed' = TRUE
          /\ refused' = ~WithoutTwins(base')
      BY <1>7 DEF Seal, Change
    <2>2. base' \in Seq(Items) /\ Len(base') = Len(base) /\ InOrder(base')
      BY <1>1, <2>1, ItemsAre, Sorts
    <2>3. refused' \in BOOLEAN /\ sealed' \in BOOLEAN
      BY <2>1
    <2>4. Len(base') <= Len(base) + 1
      BY <1>1, <2>2
    <2>5. WithoutTwins(base') \/ refused'
      BY <2>1
    <2> QED
      BY <1>4, <2>1, <2>2, <2>3, <2>4, <2>5
  <1>8. CASE Unseal
    <2>1. base' = base /\ ~Readable' /\ sealed' = FALSE /\ refused' = FALSE
          /\ changed' = changed
      BY <1>8 DEF Unseal, Readable
    <2>2. TypeOK'
      BY <1>1, <1>2, <2>1 DEF TypeOK
    <2>3. HasSub' = HasSub
          /\ Made(sub.lower, sub.upper)' = Made(sub.lower, sub.upper)
      BY <1>2, <2>1 DEF HasSub, Made, Begin, End, BaseLowerBound
    <2> QED
      BY <1>1, <1>2, <1>3, <2>1, <2>2, <2>3 DEF ProxyInv
  <1> QED
    BY <1>5, <1>6, <1>7, <1>8

LEMMA ConstructMakesProxy ==
    ASSUME ProxyInv, ops < MaxOps, ops' = ops + 1,
           NEW lower \in 0 .. MaxBound, NEW upper \in 0 .. MaxBound,
           Construct(lower, upper)
    PROVE  ProxyInv'
  <1>1. TypeOK /\ Readable /\ ops \in 0 .. MaxOps /\ Len(base) <= ops
        /\ base \in Seq(Items) /\ Len(base) \in Nat
    BY DEF ProxyInv, TypeOK, Construct
  <1>2. sub' = Made(lower, upper) /\ changed' = FALSE
        /\ UNCHANGED <<kind, base, sealed, refused>>
    BY DEF Construct, Made, Begin
  <1>3. Made(lower, upper)' = Made(lower, upper)
    BY <1>2 DEF Made, Begin, End, BaseLowerBound
  <1>4. sub'.lower = lower /\ sub'.upper = upper
        /\ sub'.subSize = (sub'.subEnd - sub'.subBegin) % SizeModulus
        /\ sub'.subBegin = Begin(lower)
        /\ sub'.subEnd = End(Begin(lower), lower, upper)
    BY <1>2 DEF Made
  <1>5. sub'.subEnd \in Int /\ sub'.subBegin \in Int
    BY <1>1, <1>4, Begins, Ends
  <1>6. sub'.subSize \in 0 .. SizeModulus - 1
    BY <1>4, <1>5, ItemsAre
  <1>7. TypeOK'
    BY <1>1, <1>2, <1>6 DEF TypeOK, Readable
  <1> QED
    BY <1>1, <1>2, <1>3, <1>4, <1>7, ItemsAre DEF ProxyInv

LEMMA NextProxy == ProxyInv /\ [Next]_vars => ProxyInv'
  <1> SUFFICES ASSUME ProxyInv, [Next]_vars PROVE ProxyInv'
    OBVIOUS
  <1>1. CASE ops < MaxOps /\ Call /\ ops' = ops + 1
    BY <1>1, EditsKeepProxy, ConstructMakesProxy DEF Call
  <1>2. CASE UNCHANGED vars
    <2>1. Made(sub.lower, sub.upper)' = Made(sub.lower, sub.upper)
      BY <1>2 DEF vars, Made, Begin, End, BaseLowerBound
    <2> QED
      BY <1>2, <2>1 DEF vars, ProxyInv, TypeOK, Readable, HasSub
  <1> QED
    BY <1>1, <1>2 DEF Next

(* storage/Vector.h: a storage that can be queried is sorted, and without  *)
(* duplicates unless seal() threw - through any sequence of insertions,    *)
(* seals and unseals - and so is a B-tree.                                 *)
THEOREM StorageSorted == Spec => []TypeOK
  <1>1. ProxyInv => TypeOK
    BY DEF ProxyInv
  <1> QED
    BY <1>1, InitProxy, NextProxy, PTL DEF Spec

(* cpp/README.md: "This storage is a proxy to a sub-range of another       *)
(* storage".  As long as the base does not change, a SubRange over a       *)
(* Vector answers every query as a Vector of the items between its bounds  *)
(* would, whatever the bounds, in size_t arithmetic that wraps around,     *)
(* unless there is an item equal to the upper bound.                       *)
THEOREM VectorProxied == Spec => []VectorProxy
  <1>1. ProxyInv => VectorProxy
    BY ProxyIsCopy
  <1> QED
    BY <1>1, InitProxy, NextProxy, PTL DEF Spec

(* A SubRange over a B-tree, made for bounds in order of which the upper   *)
(* one is no item, does so too, but for findLowerBound: that needs a begin *)
(* not above the answer and a bound that does not lie among the tree's     *)
(* items left of the range.                                                *)
THEOREM TreeProxied == Spec => []TreeProxy
  <1>1. ProxyInv => TreeProxy
    BY ProxyIsCopy
  <1> QED
    BY <1>1, InitProxy, NextProxy, PTL DEF Spec
=============================================================================
