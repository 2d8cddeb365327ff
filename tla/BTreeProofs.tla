---------------------------- MODULE BTreeProofs -----------------------------
(***************************************************************************)
(* The tree keeps its shape through insertions, splits, erasures, merges   *)
(* and exchanges with a neighbour (TreeInv of module BTreeShape), and      *)
(* therefore its keys and totals are exact and its searches right between  *)
(* two calls.                                                              *)
(*                                                                         *)
(* A step changes the node of the last breadcrumb and leaves the one above *)
(* it as the only node that is not yet as it should be.                    *)
(*                                                                         *)
(* At the end, what every query of the tree rests on: with the items in one*)
(* sequence s, every key of every node has a place in s, an edge, and      *)
(* traverseToOffset goes from edge to edge.                                *)
(***************************************************************************)
EXTENDS BTreeLemmas

-----------------------------------------------------------------------------
(* How many keys stay: all but the new one in the last node of a level.    *)
SplitAt(T, left, m, K) ==
    /\ Len(K) = MAX_ITEMS + 1
    /\ m = IF T[left].nextSibling = 0 THEN MAX_ITEMS ELSE MAX_ITEMS \div 2 + 1

LEMMA SplitSizes ==
    ASSUME NEW T, NEW left, NEW m, NEW K, SplitAt(T, left, m, K)
    PROVE  /\ m \in 1 .. MAX_ITEMS /\ m >= MIN_ITEMS /\ m \in 2 .. Len(K) - 1
           /\ Len(K) - m \in 1 .. MAX_ITEMS
           /\ T[left].nextSibling # 0 => Len(K) - m >= MIN_ITEMS
  <1>1. PICK half, k : half = MAX_ITEMS \div 2 /\ k = Len(K)
    OBVIOUS
  <1>2. /\ MIN_ITEMS \in Nat /\ MIN_ITEMS >= 2
        /\ MAX_ITEMS \in Nat /\ half \in Nat
        /\ MAX_ITEMS = half + half /\ half > MIN_ITEMS
    BY <1>1, Sizes
  <1>3. k = MAX_ITEMS + 1
        /\ m = IF T[left].nextSibling = 0 THEN MAX_ITEMS ELSE half + 1
    BY <1>1 DEF SplitAt
  <1>4. CASE T[left].nextSibling = 0
    <2>1. m = MAX_ITEMS
      BY <1>3, <1>4
    <2>2. /\ m \in 1 .. MAX_ITEMS /\ m >= MIN_ITEMS /\ m \in 2 .. k - 1
          /\ k - m \in 1 .. MAX_ITEMS
      BY <1>2, <1>3, <2>1
    <2> QED
      BY <1>1, <1>4, <2>2
  <1>5. CASE T[left].nextSibling # 0
    <2>1. m = half + 1
      BY <1>3, <1>5
    <2>2. /\ m \in 1 .. MAX_ITEMS /\ m >= MIN_ITEMS /\ m \in 2 .. k - 1
          /\ k - m \in 1 .. MAX_ITEMS /\ k - m >= MIN_ITEMS
      BY <1>2, <1>3, <2>1
    <2> QED
      BY <1>1, <2>2
  <1> QED
    BY <1>4, <1>5

(* A node is under one key only.                                           *)
LEMMA OnlyParent ==
    ASSUME NEW T, NEW A, NEW h, NEW id, NEW K, Rekeyed(T, A, id, K), Structure(A, h, id),
           Stored(T, h), NEW p, NEW j, KeyAbove(T, h, id, p, j),
           NEW a \in DOMAIN A, NEW i \in DOMAIN A[a].items, A[a].items[i].nodeId = id
    PROVE  a = p /\ i = j
  <1>1. /\ p \in DOMAIN T /\ p # id /\ j \in 1 .. Len(T[p].items)
        /\ T[p].items[j].nodeId = id
    BY DEF KeyAbove
  <1>2. A[p].items = T[p].items /\ DOMAIN A = DOMAIN T /\ id \in DOMAIN T
    BY <1>1 DEF Rekeyed
  <1>3. id # 0 /\ DOMAIN T[p].items = 1 .. Len(T[p].items)
    BY <1>1, <1>2, NodeFacts
  <1>4. OneParent(A)
    BY DEF Structure
  <1> QED
    BY <1>1, <1>2, <1>3, <1>4 DEF OneParent

LEMMA SplitExact ==
    ASSUME NEW T, NEW A, NEW N, NEW h, NEW left, NEW right,
           NEW m, NEW K, NEW F, NEW p,
           Splitting(T, A, N, h, left, right, m, K, F), SplitAt(T, left, m, K),
           p = 0 => ~IsChild(A, left),
           p # 0 => \E j : KeyAbove(T, h, left, p, j)
    PROVE  Exact(N, p)
  <1>1. /\ Rekeyed(T, A, left, K) /\ Structure(A, h, left)
        /\ Exact(T, left) /\ Stored(T, h)
        /\ Splittable(T, h, left, right, m, K)
        /\ Halved(T, N, left, right, m, K, F)
    BY DEF Splitting
  <1>2. /\ left \in DOMAIN T /\ right \in Nat \ {0} /\ right \notin DOMAIN T
    BY <1>1 DEF Splittable
  <1>3. /\ DOMAIN A = DOMAIN T
        /\ \A a \in DOMAIN T : a # left => A[a].items = T[a].items
    BY <1>1 DEF Rekeyed
  <1>4. PICK M : M = {left, right}
    OBVIOUS
  <1>5. /\ DOMAIN N = DOMAIN T \cup {right}
        /\ \A a \in DOMAIN T \ {left} :
              /\ N[a].items = T[a].items /\ N[a].nextSibling = T[a].nextSibling
              /\ N[a].accumCount = T[a].accumCount /\ N[a].accum = T[a].accum
        /\ N[left].nextSibling = right
        /\ N[right].nextSibling = T[left].nextSibling
        /\ Len(N[left].items) = m
        /\ Len(N[right].items) = Len(K) - m
        /\ Recorded(N, left) /\ Recorded(N, right)
    BY <1>1 DEF Halved
  <1>6. ASSUME NEW id \in DOMAIN N \ M
        PROVE  /\ Untouched(T, N, id) /\ id # left
               /\ id # p => \A i \in DOMAIN T[id].items :
                     \/ T[id].items[i].nodeId = 0
                     \/ T[id].items[i].nodeId \in DOMAIN N \ M
    <2>1. id \in DOMAIN T \ {left}
      BY <1>4, <1>5
    <2>2. Untouched(T, N, id)
      BY <2>1, <1>5 DEF Untouched
    <2>3. ASSUME NEW i \in DOMAIN T[id].items, id # p, T[id].items[i].nodeId # 0
          PROVE  T[id].items[i].nodeId \in DOMAIN N \ M
      <3>1. PICK c, keys : c = T[id].items[i].nodeId /\ keys = T[id].items
        OBVIOUS
      <3>2. A[id].items = keys /\ id \in DOMAIN A
        BY <1>3, <2>1, <3>1
      <3>3. KeysAheadOf(A, h, id, keys)
        BY <1>1, <3>2, AheadKeys
      <3>4. c \in DOMAIN T
        BY <1>3, <2>3, <3>1, <3>3 DEF KeysAheadOf
      <3>5. c # left
        <4>1. SUFFICES ASSUME c = left PROVE FALSE
          OBVIOUS
        <4>2. i \in DOMAIN A[id].items /\ A[id].items[i].nodeId = left
          BY <3>1, <3>2, <4>1
        <4>3. CASE p = 0
          BY <3>2, <4>2, <4>3 DEF IsChild
        <4>4. CASE p # 0
          <5>1. PICK j : KeyAbove(T, h, left, p, j)
            BY <4>4
          <5>2. id = p
            BY <1>1, <3>2, <4>2, <5>1, OnlyParent
          <5> QED
            BY <5>2, <2>3
        <4> QED
          BY <4>3, <4>4
      <3> QED
        BY <1>2, <1>4, <1>5, <3>1, <3>4, <3>5
    <2> QED
      BY <2>1, <2>2, <2>3
  <1>7. StillExact(T, N, left, p, M)
    BY <1>6 DEF StillExact
  <1>8. NewlyExact(N, p, M)
    <2>1. /\ m \in 1 .. MAX_ITEMS /\ m >= MIN_ITEMS
          /\ Len(K) - m \in 1 .. MAX_ITEMS
          /\ T[left].nextSibling # 0 => Len(K) - m >= MIN_ITEMS
      BY SplitSizes
    <2>2. Sized(N[left]) /\ Sized(N[right])
      BY <2>1, <1>5 DEF Sized
    <2> QED
      BY <2>2, <1>4, <1>5 DEF NewlyExact
  <1> QED
    BY <1>1, <1>7, <1>8, ExactAfter

-----------------------------------------------------------------------------
(* A child is a child after a split.                                       *)

(* Children stay children.                                                 *)
LEMMA SplitChild ==
    ASSUME NEW T, NEW A, NEW N, NEW S, NEW h, NEW left, NEW right,
           NEW m, NEW K, NEW F, NEW key, NEW p, NEW j,
           Splitting(T, A, N, h, left, right, m, K, F),
           key \in KeyType, key.nodeId = right,
           SplitParent(T, N, S, h, left, key, p, j),
           NEW c, IsChild(A, c)
    PROVE  IsChild(S, c)
  <1>1. /\ Rekeyed(T, A, left, K) /\ Structure(A, h, left) /\ Stored(T, h)
        /\ Splittable(T, h, left, right, m, K)
        /\ KeysFixed(T, K, F)
        /\ Halved(T, N, left, right, m, K, F)
    BY DEF Splitting
  <1>2. /\ left \in DOMAIN T /\ right \in Nat \ {0} /\ right \notin DOMAIN T
        /\ K \in Seq(KeyType) /\ m \in 1 .. Len(K) - 1 /\ HasChildren(T, K)
        /\ Stored(T, h)
    BY <1>1 DEF Splittable
  <1>3. /\ DOMAIN A = DOMAIN T /\ A[left].items = K
        /\ \A a \in DOMAIN T : a # left => A[a].items = T[a].items
    BY <1>1 DEF Rekeyed
  <1>4. /\ DOMAIN N = DOMAIN T \cup {right} /\ N \in [DOMAIN N -> NodeType]
        /\ \A a \in DOMAIN T \ {left} : N[a].items = T[a].items
        /\ Len(N[left].items) = m
        /\ \A i \in 1 .. m : N[left].items[i] = F[i]
        /\ Len(N[right].items) = Len(K) - m
        /\ \A i \in 1 .. Len(K) - m : N[right].items[i] = F[m + i]
    BY <1>1 DEF Halved
  <1>5. /\ DOMAIN S = DOMAIN N
        /\ \A a \in DOMAIN N : a # p => S[a].items = N[a].items
    <2>1. CASE p = 0
      BY <2>1 DEF SplitParent
    <2>2. CASE p # 0
      BY <2>2 DEF SplitParent, Rekeyed
    <2> QED
      BY <2>1, <2>2
  <1>6. p \notin {left, right}
    <2>1. 0 \notin {left, right}
      BY <1>2, NodeFacts
    <2>2. p # 0 => p \in DOMAIN T /\ p # left
      BY DEF SplitParent, KeyAbove
    <2> QED
      BY <1>2, <2>1, <2>2
  <1>7. PICK a \in DOMAIN A : \E i \in DOMAIN A[a].items : A[a].items[i].nodeId = c
    BY DEF IsChild
  <1>8. PICK i \in DOMAIN A[a].items : A[a].items[i].nodeId = c
    BY <1>7
  <1>9. CASE a = left
    <2>1. i \in 1 .. Len(K) /\ K[i].nodeId = c
      BY <1>2, <1>3, <1>8, <1>9
    <2>2. F[i].nodeId = c
      BY <1>1, <2>1 DEF KeysFixed
    <2>3. PICK k : k = Len(K)
      OBVIOUS
    <2>4. i \in 1 .. k /\ k \in Nat /\ m \in Nat /\ m < k /\ 1 <= m
      BY <1>2, <2>1, <2>3
    <2>5. DOMAIN N[left].items = 1 .. m /\ DOMAIN N[right].items = 1 .. k - m
      <3>1. N[left] \in NodeType /\ N[right] \in NodeType
        BY <1>2, <1>4
      <3>2. N[left].items \in Seq(KeyType) /\ N[right].items \in Seq(KeyType)
        BY <3>1 DEF NodeType
      <3> QED
        BY <3>2, <1>4, <2>3
    <2>6. CASE i <= m
      <3>1. i \in 1 .. m
        BY <2>4, <2>6
      <3>2. i \in DOMAIN N[left].items /\ N[left].items[i].nodeId = c
        BY <3>1, <1>4, <2>2, <2>5
      <3>3. left \in DOMAIN S /\ S[left].items = N[left].items
        BY <1>2, <1>4, <1>5, <1>6
      <3> QED
        BY <3>2, <3>3 DEF IsChild
    <2>7. CASE i > m
      <3>1. PICK b : b = i - m
        OBVIOUS
      <3>2. b \in 1 .. k - m /\ m + b = i
        BY <3>1, <2>4, <2>7
      <3>3. b \in DOMAIN N[right].items /\ N[right].items[b].nodeId = c
        BY <3>2, <1>4, <2>2, <2>3, <2>5
      <3>4. right \in DOMAIN S /\ S[right].items = N[right].items
        BY <1>2, <1>4, <1>5, <1>6
      <3> QED
        BY <3>3, <3>4 DEF IsChild
    <2> QED
      BY <2>4, <2>6, <2>7
  <1>10. CASE a # left /\ a # p
    <2>1. a \in DOMAIN S /\ S[a].items = A[a].items
      BY <1>3, <1>4, <1>5, <1>10
    <2> QED
      BY <2>1, <1>8 DEF IsChild
  <1>11. CASE a = p
    <2>1. p # 0
      BY <1>1, <1>3, <1>11, NodeFacts
    <2>2. KeyAbove(T, h, left, p, j) /\ Rekeyed(N, S, p, InsertAt(T[p].items, j + 1, key))
      BY <2>1 DEF SplitParent
    <2>3. PICK keys, K2 : keys = T[p].items /\ K2 = InsertAt(keys, j + 1, key)
      OBVIOUS
    <2>4. p \in DOMAIN T /\ p # left /\ j \in 1 .. Len(keys)
      BY <2>2, <2>3 DEF KeyAbove
    <2>5. keys \in Seq(KeyType) /\ Len(keys) \in Nat
      BY <1>1, <2>3, <2>4, NodeFacts
    <2>6. Inserted(KeyType, keys, j + 1, key, K2)
      <3>1. j + 1 \in 1 .. Len(keys) + 1
        BY <2>4, <2>5
      <3> QED
        BY <3>1, <2>3, <2>5, InsertAtIs
    <2>7. /\ K2 \in Seq(KeyType) /\ Len(K2) = Len(keys) + 1
          /\ \A b \in 1 .. (j + 1) - 1 : K2[b] = keys[b]
          /\ \A b \in j + 1 .. Len(keys) : K2[b + 1] = keys[b]
      BY <2>6 DEF Inserted
    <2>8. S[p].items = K2 /\ p \in DOMAIN S
      BY <2>2, <2>3 DEF Rekeyed
    <2>9. i \in 1 .. Len(keys) /\ keys[i].nodeId = c
      BY <1>3, <1>8, <1>11, <2>3, <2>4, <2>5
    <2>10. CASE i <= j
      <3>1. i \in 1 .. (j + 1) - 1 /\ i \in DOMAIN K2
        BY <2>4, <2>5, <2>7, <2>9, <2>10
      <3>2. K2[i].nodeId = c
        BY <3>1, <2>7, <2>9
      <3> QED
        BY <3>1, <3>2, <2>8 DEF IsChild
    <2>11. CASE i > j
      <3>1. i \in j + 1 .. Len(keys) /\ i + 1 \in DOMAIN K2
        BY <2>4, <2>5, <2>7, <2>9, <2>11
      <3>2. K2[i + 1].nodeId = c
        BY <3>1, <2>7, <2>9
      <3> QED
        BY <3>1, <3>2, <2>8 DEF IsChild
    <2> QED
      BY <2>4, <2>5, <2>9, <2>10, <2>11
  <1> QED
    BY <1>9, <1>10, <1>11

LEMMA NewChild ==
    ASSUME NEW T, NEW N, NEW S, NEW h, Stored(T, h), NEW left, NEW key, NEW p, NEW j,
           key \in KeyType, p # 0, SplitParent(T, N, S, h, left, key, p, j)
    PROVE  IsChild(S, key.nodeId)
  <1>1. KeyAbove(T, h, left, p, j) /\ Rekeyed(N, S, p, InsertAt(T[p].items, j + 1, key))
    BY DEF SplitParent
  <1>2. PICK keys, K2 : keys = T[p].items /\ K2 = InsertAt(keys, j + 1, key)
    OBVIOUS
  <1>3. p \in DOMAIN T /\ j \in 1 .. Len(keys)
    BY <1>1, <1>2 DEF KeyAbove
  <1>4. keys \in Seq(KeyType) /\ Len(keys) \in Nat
    BY <1>2, <1>3, NodeFacts
  <1>5. Inserted(KeyType, keys, j + 1, key, K2)
    <2>1. j + 1 \in 1 .. Len(keys) + 1
      BY <1>3, <1>4
    <2> QED
      BY <2>1, <1>2, <1>4, InsertAtIs
  <1>6. K2 \in Seq(KeyType) /\ Len(K2) = Len(keys) + 1 /\ K2[j + 1] = key
    BY <1>5 DEF Inserted
  <1>7. j + 1 \in DOMAIN K2 /\ S[p].items = K2 /\ p \in DOMAIN S
    BY <1>1, <1>2, <1>3, <1>4, <1>6 DEF Rekeyed
  <1> QED
    BY <1>6, <1>7 DEF IsChild

(* The node before the next one is left. *)
LEMMA SplitLinked ==
    ASSUME NEW T, NEW A, NEW N, NEW h, NEW left, NEW right, NEW m, NEW K, NEW F,
           Splitting(T, A, N, h, left, right, m, K, F),
           NEW x, x = T[left].nextSibling, x # 0
    PROVE  x \in DOMAIN T /\ h[x] = h[left] /\ T[x].prevSibling = left
  <1>1. LinkedAt(T, h, left)
    BY DEF Splitting, Splittable
  <1> QED
    BY <1>1 DEF LinkedAt

LEMMA SplitKeptAbove ==
    ASSUME NEW T, NEW A, NEW N, NEW h, NEW h2, NEW left, NEW right, NEW m, NEW K, NEW F,
           Splitting(T, A, N, h, left, right, m, K, F),
           LevelAdded(T, h, h2, left, right)
    PROVE  KeptAbove(T, N, h, h2, left)
  <1>1. /\ Stored(T, h) /\ left \in DOMAIN T
        /\ Halved(T, N, left, right, m, K, F)
    BY DEF Splitting, Splittable
  <1>2. PICK x : x = T[left].nextSibling
    OBVIOUS
  <1>3. x # 0 => x \in DOMAIN T /\ h[x] = h[left] /\ T[x].prevSibling = left
    BY <1>2, SplitLinked
  <1>4. ASSUME NEW a \in DOMAIN T, h[a] > h[left]
        PROVE  a \in DOMAIN N /\ h2[a] = h[a] /\ N[a].items = T[a].items
               /\ N[a].prevSibling = T[a].prevSibling
    <2>1. h[a] \in Nat /\ h[left] \in Nat /\ a # 0
      BY <1>1, NodeFacts
    <2>2. a # left /\ a # x
      BY <1>3, <1>4, <2>1
    <2> QED
      BY <2>2, <1>1, <1>2 DEF Halved, LevelAdded
  <1> QED
    BY <1>4 DEF KeptAbove

LEMMA SplitRooted ==
    ASSUME NEW T, NEW A, NEW N, NEW S, NEW h, NEW h2, NEW left, NEW right,
           NEW m, NEW K, NEW F, NEW key, NEW p, NEW j, NEW root,
           Splitting(T, A, N, h, left, right, m, K, F),
           LevelAdded(T, h, h2, left, right),
           key \in KeyType, key.nodeId = right, p # 0,
           SplitParent(T, N, S, h, left, key, p, j),
           Rooted(A, h, root)
    PROVE  Rooted(S, h2, root)
  <1>1. /\ Rekeyed(T, A, left, K) /\ Structure(A, h, left) /\ Stored(T, h)
        /\ Splittable(T, h, left, right, m, K)
        /\ Halved(T, N, left, right, m, K, F)
    BY DEF Splitting
  <1>2. /\ left \in DOMAIN T /\ right \in Nat \ {0} /\ right \notin DOMAIN T
    BY <1>1 DEF Splittable
  <1>3. KeyAbove(T, h, left, p, j) /\ Rekeyed(N, S, p, InsertAt(T[p].items, j + 1, key))
    BY DEF SplitParent
  <1>4. p \in DOMAIN T /\ h[p] = h[left] + 1
    BY <1>3 DEF KeyAbove
  <1>5. /\ DOMAIN A = DOMAIN T
        /\ \A a \in DOMAIN T : /\ A[a].nextSibling = T[a].nextSibling
                               /\ A[a].prevSibling = T[a].prevSibling
    BY <1>1 DEF Rekeyed
  <1>6. /\ root \in DOMAIN T /\ T[root].nextSibling = 0 /\ T[root].prevSibling = 0
        /\ \A id \in DOMAIN T \ {root} : h[id] < h[root] /\ IsChild(A, id)
    BY <1>5 DEF Rooted
  <1>7. h[root] \in Nat /\ h[left] \in Nat /\ h[p] \in Nat /\ root # 0 /\ left # 0
    BY <1>1, <1>2, <1>4, <1>6, NodeFacts
  <1>8. h[left] < h[root] /\ root # left
    <2>1. p = root \/ h[p] < h[root]
      BY <1>4, <1>6
    <2> QED
      BY <2>1, <1>4, <1>7
  <1>9. KeptAbove(T, N, h, h2, left)
    BY SplitKeptAbove
  <1>10. /\ root \in DOMAIN S /\ S[root].nextSibling = 0 /\ S[root].prevSibling = 0
    <2>1. root \in DOMAIN N /\ N[root].prevSibling = 0
      BY <1>6, <1>7, <1>8, <1>9 DEF KeptAbove
    <2>2. N[root].nextSibling = 0
      BY <1>1, <1>6, <1>8 DEF Halved
    <2> QED
      BY <2>1, <2>2, <1>3 DEF Rekeyed
  <1>11. DOMAIN S = DOMAIN T \cup {right}
    BY <1>1, <1>3 DEF Halved, Rekeyed
  <1>12. ASSUME NEW id \in DOMAIN S, id # root
         PROVE  h2[id] < h2[root] /\ IsChild(S, id)
    <2>1. h2[root] = h[root]
      BY <1>6 DEF LevelAdded
    <2>2. CASE id = right
      <3>1. h2[id] = h[left]
        BY <2>2 DEF LevelAdded
      <3>2. IsChild(S, id)
        BY <2>2, <1>1, NewChild
      <3> QED
        BY <3>1, <3>2, <2>1, <1>8
    <2>3. CASE id # right
      <3>1. id \in DOMAIN T /\ h2[id] = h[id]
        BY <2>3, <1>11 DEF LevelAdded
      <3>2. IsChild(A, id) /\ h[id] < h[root]
        BY <3>1, <1>6, <1>12
      <3>3. IsChild(S, id)
        BY <3>2, SplitChild
      <3> QED
        BY <3>1, <3>2, <3>3, <2>1
    <2> QED
      BY <2>2, <2>3
  <1> QED
    BY <1>10, <1>12 DEF Rooted

-----------------------------------------------------------------------------
(* The keys of the node above, before the new one is added.                *)
KeysAbove(T, N, left, right, p, j, keys) ==
    /\ keys = T[p].items /\ N[p].items = keys
    /\ keys \in Seq(KeyType) /\ Len(keys) \in Nat /\ DOMAIN keys = 1 .. Len(keys)
    /\ j \in 1 .. Len(keys) /\ keys[j].nodeId = left
    /\ Ascends(keys)
    /\ HasChildren(T, keys) /\ HasChildren(N, keys)
    /\ KeysFirst(T, keys, {}) /\ KeysFirst(N, keys, {j})
    /\ keys[j].item = firstItem(T, left)
    /\ \A i \in 1 .. Len(keys) : i # j =>
          /\ countOf(N, keys[i]) = countOf(T, keys[i])
          /\ accumOf(N, keys[i]) = accumOf(T, keys[i])
    /\ T[p].accumCount = countOfAll(T, keys) /\ T[p].accum = accumOfAll(T, keys)
    /\ N[p].accumCount = T[p].accumCount /\ N[p].accum = T[p].accum

LEMMA KeysAboveIs ==
    ASSUME NEW T, NEW A, NEW N, NEW h, NEW left, NEW right,
           NEW m, NEW K, NEW F, NEW p, NEW j,
           Splitting(T, A, N, h, left, right, m, K, F),
           KeyAbove(T, h, left, p, j)
    PROVE  KeysAbove(T, N, left, right, p, j, T[p].items)
  <1>0. PICK keys : keys = T[p].items
    OBVIOUS
  <1>1. /\ Rekeyed(T, A, left, K) /\ Structure(A, h, left) /\ Stored(T, h)
        /\ Exact(T, left) /\ left \in DOMAIN T
        /\ Halved(T, N, left, right, m, K, F)
    BY DEF Splitting, Splittable
  <1>2. /\ DOMAIN A = DOMAIN T
        /\ \A a \in DOMAIN T : a # left => A[a].items = T[a].items
    BY <1>1 DEF Rekeyed
  <1>3. /\ p \in DOMAIN T /\ p # left /\ p # 0 /\ h[p] = h[left] + 1
        /\ j \in 1 .. Len(keys) /\ keys[j].nodeId = left
    BY <1>0 DEF KeyAbove
  <1>4. A[p].items = keys /\ p \in DOMAIN A
    BY <1>0, <1>2, <1>3
  <1>5. KeysAheadOf(A, h, p, keys)
    BY <1>1, <1>4, AheadKeys
  <1>6. /\ keys \in Seq(KeyType) /\ Len(keys) \in Nat /\ DOMAIN keys = 1 .. Len(keys)
        /\ \A i \in 1 .. Len(keys) : keys[i].nodeId = 0 \/ keys[i].nodeId \in DOMAIN T
    BY <1>2, <1>5 DEF KeysAheadOf
  <1>7. ASSUME NEW i \in 1 .. Len(keys), i # j
        PROVE  keys[i].nodeId # left
    <2>1. i \in DOMAIN A[p].items /\ A[p].items[i] = keys[i]
      BY <1>4, <1>6
    <2> QED
      BY <2>1, <1>1, <1>4, <1>7, OnlyParent
  <1>8. ASSUME NEW a \in DOMAIN T, a # left
        PROVE  /\ a \in DOMAIN N
               /\ N[a].items = T[a].items
               /\ N[a].accumCount = T[a].accumCount /\ N[a].accum = T[a].accum
    BY <1>1, <1>8 DEF Halved
  <1>9. ASSUME NEW i \in 1 .. Len(keys), i # j, keys[i].nodeId # 0
        PROVE  keys[i].nodeId \in DOMAIN T /\ keys[i].nodeId # left
    BY <1>6, <1>7, <1>9
  <1>10. /\ KeysFirst(T, keys, {}) /\ T[p].accumCount = countOfAll(T, keys)
         /\ T[p].accum = accumOfAll(T, keys)
    BY <1>0, <1>1, <1>3 DEF Exact
  <1>11. KeysFirst(N, keys, {j})
    BY <1>6, <1>8, <1>9, <1>10 DEF KeysFirst, firstItem
  <1>12. left # 0
    BY <1>1, NodeFacts
  <1>13. keys[j].item = firstItem(T, left)
    BY <1>3, <1>6, <1>10, <1>12 DEF KeysFirst
  <1>14. \A i \in 1 .. Len(keys) : i # j =>
            /\ countOf(N, keys[i]) = countOf(T, keys[i])
            /\ accumOf(N, keys[i]) = accumOf(T, keys[i])
    BY <1>8, <1>9 DEF countOf, accumOf
  <1>15. HasChildren(T, keys) /\ HasChildren(N, keys)
    <2>1. DOMAIN T \subseteq DOMAIN N
      BY <1>1 DEF Halved
    <2> QED
      BY <2>1, <1>6 DEF HasChildren
  <1>16. Ascends(keys)
    <2>1. h[p] # h[left]
      BY <1>1, <1>3, NodeFacts
    <2>2. Stored(A, h) /\ OrderedAt(A, p)
      BY <2>1, <1>1, <1>4 DEF Structure
    <2> QED
      BY <2>2, <1>4, NodeAscends
  <1>17. /\ N[p].items = keys
         /\ N[p].accumCount = T[p].accumCount /\ N[p].accum = T[p].accum
    BY <1>0, <1>3, <1>8
  <1> QED
    BY <1>0, <1>3, <1>6, <1>10, <1>11, <1>13, <1>14, <1>15, <1>16, <1>17 DEF KeysAbove

-----------------------------------------------------------------------------
(* The key of the new node.                                                *)
LEMMA NewKeyIn ==
    ASSUME NEW T, NEW A, NEW N, NEW h, NEW left, NEW right, NEW m, NEW K, NEW F,
           Splitting(T, A, N, h, left, right, m, K, F), SplitAt(T, left, m, K),
           NEW item, InsertKeys(T, h, left, K, item, 1)
    PROVE  /\ firstItem(N, right) = F[m + 1].item
           /\ F[m + 1] \in KeyType /\ m + 1 \in 1 .. Len(F)
           /\ firstItem(T, left) < firstItem(N, right)
  <1>1. /\ Splittable(T, h, left, right, m, K) /\ KeysFixed(T, K, F)
        /\ Halved(T, N, left, right, m, K, F)
    BY DEF Splitting
  <1>2. /\ K \in Seq(KeyType) /\ KeysFirst(T, K, {1}) /\ Len(K) \in Nat
        /\ DOMAIN K = 1 .. Len(K)
    BY <1>1 DEF Splittable
  <1>3. m \in 2 .. Len(K) - 1
    BY SplitSizes
  <1>4. PICK k : k = Len(K)
    OBVIOUS
  <1>5. k \in Nat /\ m \in 2 .. k - 1
    BY <1>2, <1>3, <1>4
  <1>6. m + 1 \in 3 .. k /\ m + 1 \in 1 .. k /\ 1 \in 1 .. k - m /\ m + 1 # 1
    BY <1>5
  <1>7. N[right].items[1] = F[m + 1]
    BY <1>1, <1>4, <1>6 DEF Halved
  <1>8. F \in Seq(KeyType) /\ Len(F) = k
    BY <1>1, <1>4 DEF KeysFixed
  <1>9. F[m + 1] \in KeyType
    BY <1>6, <1>8
  <1>10. F[m + 1].item = K[m + 1].item
    <2>1. m + 1 \in DOMAIN K \ {1}
      BY <1>2, <1>4, <1>6
    <2>2. CASE K[m + 1].nodeId = 0
      BY <2>1, <2>2, <1>1, <1>2 DEF KeysFixed
    <2>3. CASE K[m + 1].nodeId # 0
      BY <2>1, <2>3, <1>1, <1>2 DEF KeysFixed, KeysFirst
    <2> QED
      BY <2>2, <2>3
  <1>11. T[left].items[1].item < K[m + 1].item
    BY <1>4, <1>6 DEF InsertKeys
  <1> QED
    BY <1>4, <1>6, <1>7, <1>8, <1>9, <1>10, <1>11 DEF firstItem

LEMMA NewKeyBefore ==
    ASSUME NEW T, NEW A, NEW N, NEW h, NEW left, NEW right, NEW m, NEW K, NEW F,
           NEW p, NEW j,
           Splitting(T, A, N, h, left, right, m, K, F),
           KeyAbove(T, h, left, p, j), j < Len(T[p].items),
           NEW i \in 1 .. Len(F)
    PROVE  F[i].item < T[p].items[j + 1].item
  <1>0. PICK keys, n : keys = T[p].items /\ n = Len(F)
    OBVIOUS
  <1>1. /\ Rekeyed(T, A, left, K) /\ Structure(A, h, left)
        /\ Exact(T, left) /\ Stored(T, h)
        /\ Splittable(T, h, left, right, m, K)
        /\ KeysFixed(T, K, F)
    BY DEF Splitting
  <1>2. /\ left \in DOMAIN T /\ K \in Seq(KeyType) /\ HasChildren(T, K)
    BY <1>1 DEF Splittable
  <1>3. PICK T2 : NodeFixed(T, T2, left, K, F)
    BY <1>1, <1>2, FixedExists
  <1>4. Structure(T2, h, 0)
    BY <1>1, <1>3, FixedWhole
  <1>5. /\ DOMAIN T2 = DOMAIN T /\ T2[left].items = F
        /\ \A a \in DOMAIN T :
              /\ a # left => T2[a].items = T[a].items
              /\ T2[a].nextSibling = T[a].nextSibling
    BY <1>3 DEF NodeFixed
  <1>6. PICK x : x = T[left].nextSibling
    OBVIOUS
  <1>7. /\ p \in DOMAIN T /\ p # left /\ h[p] = h[left] + 1
        /\ j \in 1 .. Len(keys) /\ keys[j].nodeId = left /\ j < Len(keys)
    BY <1>0 DEF KeyAbove
  <1>8. T2[p].items = keys
    BY <1>0, <1>5, <1>7
  <1>9. Stored(T2, h)
    BY <1>4 DEF Structure
  <1>10. keys \in Seq(KeyType) /\ Len(keys) \in Nat /\ DOMAIN keys = 1 .. Len(keys)
         /\ h[p] \in Nat /\ h[left] \in Nat /\ h[p] > 0
    BY <1>5, <1>7, <1>8, <1>9, <1>2, NodeFacts
  <1>11. LevelsAt(T2, h, p) /\ AdjacentAt(T2, h, p)
    BY <1>4, <1>5, <1>7 DEF Structure
  <1>12. j + 1 \in DOMAIN keys /\ j \in DOMAIN keys
    BY <1>7, <1>10
  <1>13. x = keys[j + 1].nodeId /\ x \in DOMAIN T
    <2>1. nextKey(T2, p, j) = keys[j + 1]
      BY <1>7, <1>8 DEF nextKey
    <2>2. T2[left].nextSibling = keys[j + 1].nodeId
      BY <2>1, <1>7, <1>8, <1>10, <1>11, <1>12 DEF AdjacentAt
    <2>3. keys[j + 1].nodeId \in DOMAIN T
      BY <1>5, <1>8, <1>10, <1>11, <1>12 DEF LevelsAt
    <2> QED
      BY <2>2, <2>3, <1>2, <1>5, <1>6
  <1>14. x # 0 /\ x # left
    BY <1>1, <1>6, <1>13, NodeFacts DEF Splittable
  <1>15. keys[j + 1].item = firstItem(T, x)
    <2>1. KeysFirst(T, keys, {})
      BY <1>0, <1>1, <1>7 DEF Exact
    <2> QED
      BY <2>1, <1>12, <1>13, <1>14 DEF KeysFirst
  <1>16. n \in Nat /\ F \in Seq(KeyType) /\ i \in 1 .. n /\ n \in 1 .. n /\ DOMAIN F = 1 .. n
    BY <1>0, <1>1 DEF KeysFixed
  <1>17. OrderedAt(T2, left)
    BY <1>2, <1>4, <1>5 DEF Structure
  <1>18. Ascends(F)
    BY <1>2, <1>5, <1>9, <1>17, NodeAscends
  <1>19. F[n].item < firstItem(T, x)
    <2>1. Len(T[x].items) > 0
      <3>1. Len(T[x].items) \in 1 .. MAX_ITEMS
        BY <1>1, <1>13 DEF Exact, Sized
      <3> QED
        BY <3>1
    <2>2. T2[x].items = T[x].items
      BY <1>5, <1>13, <1>14
    <2>3. nextKey(T2, left, n) = T[x].items[1]
      <3>1. ~(n < Len(F))
        BY <1>0
      <3>2. nextKey(T2, left, n) = firstKey(T2, x)
        BY <3>1, <1>2, <1>5, <1>6 DEF nextKey
      <3>3. Len(T2[x].items) # 0
        BY <2>1, <2>2
      <3> QED
        BY <3>2, <3>3, <2>2, <1>14 DEF firstKey
    <2>4. T[x].items[1] # none
      <3>1. T[x].items \in Seq(KeyType) /\ Len(T[x].items) \in Nat
        BY <1>1, <1>13, NodeFacts
      <3>2. T[x].items[1] \in KeyType
        BY <2>1, <3>1
      <3> QED
        BY <3>2, KeyParts
    <2> QED
      BY <2>3, <2>4, <1>5, <1>16, <1>17 DEF OrderedAt, firstItem
  <1>20. F[i].item <= F[n].item
    <2>1. F[i].item \in Nat /\ F[n].item \in Nat
      BY <1>16, KeyParts
    <2>2. i = n \/ i < n
      BY <1>16
    <2>3. i < n => F[i].item < F[n].item
      BY <1>0, <1>16, <1>18 DEF Ascends
    <2> QED
      BY <2>1, <2>2, <2>3
  <1>21. F[i].item \in Nat /\ F[n].item \in Nat /\ firstItem(T, x) \in Nat
    <2>1. F[i].item \in Nat /\ F[n].item \in Nat
      BY <1>16, KeyParts
    <2>2. keys[j + 1] \in KeyType
      BY <1>10, <1>12
    <2> QED
      BY <2>1, <2>2, <1>15, KeyParts
  <1> QED
    BY <1>0, <1>15, <1>19, <1>20, <1>21

-----------------------------------------------------------------------------
(* The item of a node above that goes on being the first below.            *)

(* The first item of the left half, for an item that is not below it.      *)
LEMMA LeftStays ==
    ASSUME NEW T, NEW A, NEW N, NEW h, NEW left, NEW right, NEW m, NEW K, NEW F,
           Splitting(T, A, N, h, left, right, m, K, F),
           NEW item, InsertKeys(T, h, left, K, item, 1), ~(item < firstItem(T, left))
    PROVE  firstItem(N, left) = firstItem(T, left)
  <1>1. /\ Splittable(T, h, left, right, m, K) /\ KeysFixed(T, K, F)
        /\ Halved(T, N, left, right, m, K, F)
    BY DEF Splitting
  <1>2. K \in Seq(KeyType) /\ Len(K) > 0 /\ 1 \in 1 .. m
    BY <1>1 DEF Splittable
  <1>3. T[left].items[1].nodeId = 0 => T[left].items[1] = K[1]
    BY DEF InsertKeys, firstItem
  <1>4. F[1].item = firstItem(T, left)
    BY <1>1, <1>2, <1>3, FirstStays
  <1>5. N[left].items[1] = F[1]
    BY <1>1, <1>2 DEF Halved
  <1> QED
    BY <1>4, <1>5 DEF firstItem

(* The keys of the node above that an item below all others leaves stale.  *)
LEMMA StaleAbove ==
    ASSUME NEW T, NEW A, NEW N, NEW h, NEW left, NEW right, NEW m, NEW K, NEW F,
           NEW p, NEW j, NEW keys,
           Splitting(T, A, N, h, left, right, m, K, F),
           KeysAbove(T, N, left, right, p, j, keys),
           NEW item \in Nat, InsertKeys(T, h, left, K, item, 1),
           keys[j].item <= item \/ j = 1
    PROVE  KeysFirst(N, keys, IF item < keys[1].item THEN {1} ELSE {})
  <1>1. /\ keys \in Seq(KeyType) /\ Len(keys) \in Nat /\ DOMAIN keys = 1 .. Len(keys)
        /\ j \in 1 .. Len(keys) /\ keys[j].nodeId = left
        /\ Ascends(keys) /\ KeysFirst(N, keys, {j})
        /\ keys[j].item = firstItem(T, left)
    BY DEF KeysAbove
  <1>2. keys[1].item \in Nat /\ keys[j].item \in Nat /\ 1 \in 1 .. Len(keys)
    <2>1. 1 \in 1 .. Len(keys)
      BY <1>1
    <2>2. keys[1] \in KeyType /\ keys[j] \in KeyType
      BY <1>1, <2>1
    <2> QED
      BY <2>1, <2>2, KeyParts
  <1>3. item < keys[1].item => j = 1
    <2>1. j = 1 \/ 1 < j
      BY <1>1
    <2>2. 1 < j => keys[1].item < keys[j].item
      BY <1>1, <1>2 DEF Ascends
    <2> QED
      BY <2>1, <2>2, <1>2
  <1>4. CASE item < keys[1].item
    BY <1>1, <1>3, <1>4
  <1>5. CASE ~(item < keys[1].item)
    <2>1. ~(item < firstItem(T, left))
      <3>1. j = 1 => keys[j] = keys[1]
        OBVIOUS
      <3> QED
        BY <3>1, <1>1, <1>2, <1>5
    <2>2. firstItem(N, left) = firstItem(T, left)
      BY <2>1, LeftStays
    <2>3. KeysFirst(N, keys, {})
      BY <1>1, <2>2 DEF KeysFirst
    <2> QED
      BY <1>5, <2>3
  <1> QED
    BY <1>4, <1>5

(* The totals of the node above with the new key.                          *)
LEMMA CountsAbove ==
    ASSUME NEW T, NEW A, NEW N, NEW h, NEW left, NEW right, NEW m, NEW K, NEW F,
           NEW p, NEW j, NEW keys,
           Splitting(T, A, N, h, left, right, m, K, F),
           KeysAbove(T, N, left, right, p, j, keys),
           NEW item \in Nat, InsertKeys(T, h, left, K, item, 1),
           NEW key \in KeyType, key.nodeId = right,
           NEW K2, K2 = InsertAt(keys, j + 1, key)
    PROVE  Counts(N, p, K2, 1, item)
  <1>1. /\ keys \in Seq(KeyType) /\ Len(keys) \in Nat
        /\ j \in 1 .. Len(keys) /\ keys[j].nodeId = left
        /\ HasChildren(T, keys) /\ HasChildren(N, keys)
        /\ \A i \in 1 .. Len(keys) : i # j =>
              /\ countOf(N, keys[i]) = countOf(T, keys[i])
              /\ accumOf(N, keys[i]) = accumOf(T, keys[i])
    BY DEF KeysAbove
  <1>2. /\ T[p].accumCount = countOfAll(T, keys) /\ T[p].accum = accumOfAll(T, keys)
        /\ N[p].accumCount = T[p].accumCount /\ N[p].accum = T[p].accum
    BY DEF KeysAbove
  <1>3. /\ Stored(T, h) /\ left \in DOMAIN T /\ right # 0
        /\ Halved(T, N, left, right, m, K, F)
    BY DEF Splitting, Splittable
  <1>4. T \in [DOMAIN T -> NodeType] /\ N \in [DOMAIN N -> NodeType]
        /\ left \in DOMAIN N /\ right \in DOMAIN N /\ left # 0
    BY <1>3, NodeFacts DEF Stored, Halved
  <1>5. j + 1 \in 1 .. Len(keys) + 1
    BY <1>1
  <1>6. /\ countOfAll(N, keys) = countOfAll(T, keys) - countOf(T, keys[j]) + countOf(N, keys[j])
        /\ accumOfAll(N, keys) = accumOfAll(T, keys) - accumOf(T, keys[j]) + accumOf(N, keys[j])
    BY <1>1, <1>4, CountsChange
  <1>7. PICK k : k = j + 1
    OBVIOUS
  <1>8. Inserted(KeyType, keys, k, key, K2)
    BY <1>1, <1>5, <1>7, InsertAtIs
  <1>9. /\ countOfAll(N, K2) = countOfAll(N, keys) + countOf(N, key)
        /\ accumOfAll(N, K2) = accumOfAll(N, keys) + accumOf(N, key)
    <2>1. k \in 1 .. Len(keys) + 1 /\ K2 = InsertAt(keys, k, key)
      BY <1>5, <1>7
    <2> QED
      BY <2>1, <1>1, <1>4, <1>8, InsertCounts
  <1>10. /\ countOf(T, keys[j]) = T[left].accumCount /\ accumOf(T, keys[j]) = T[left].accum
         /\ countOf(N, keys[j]) = N[left].accumCount /\ accumOf(N, keys[j]) = N[left].accum
         /\ countOf(N, key) = N[right].accumCount /\ accumOf(N, key) = N[right].accum
    BY <1>1, <1>3, <1>4 DEF countOf, accumOf
  <1>11. /\ N[left].accumCount + N[right].accumCount = T[left].accumCount + 1
         /\ N[left].accum + N[right].accum = T[left].accum + 1 * item
    BY <1>3 DEF Halved, InsertKeys, Counts
  <1>12. PICK a, b, c, d, e, f, u, v, x, y :
            /\ a = T[left].accumCount /\ b = N[left].accumCount /\ c = N[right].accumCount
            /\ d = T[left].accum /\ e = N[left].accum /\ f = N[right].accum
            /\ u = countOfAll(T, keys) /\ v = accumOfAll(T, keys)
            /\ x = countOfAll(N, K2) /\ y = accumOfAll(N, K2)
    OBVIOUS
  <1>13. a \in Nat /\ b \in Nat /\ c \in Nat /\ d \in Nat /\ e \in Nat /\ f \in Nat
         /\ u \in Nat /\ v \in Nat
    <2>1. T[left] \in NodeType /\ N[left] \in NodeType /\ N[right] \in NodeType
      BY <1>3, <1>4
    <2>2. u \in Nat /\ v \in Nat
      BY <1>1, <1>4, <1>12, CountType
    <2> QED
      BY <2>1, <2>2, <1>12 DEF NodeType
  <1>14. x = u - a + b + c /\ y = v - d + e + f
    BY <1>6, <1>9, <1>10, <1>12
  <1>15. b + c = a + 1 /\ e + f = d + 1 * item
    BY <1>11, <1>12
  <1>16. x = u + 1 /\ y = v + 1 * item
    BY ONLY <1>13, <1>14, <1>15, item \in Nat
  <1>17. u = N[p].accumCount /\ v = N[p].accum
    BY <1>2, <1>12
  <1> QED
    BY <1>12, <1>16, <1>17 DEF Counts

-----------------------------------------------------------------------------
(* The key of the new node goes right of that of the split one.            *)
KeyBetween(keys, j, key) ==
    /\ keys[j].item < key.item
    /\ j < Len(keys) => key.item < keys[j + 1].item

LEMMA SplitKeyBetween ==
    ASSUME NEW T, NEW A, NEW N, NEW h, NEW left, NEW right, NEW m, NEW K, NEW F,
           NEW p, NEW j, NEW keys, keys = T[p].items,
           Splitting(T, A, N, h, left, right, m, K, F), SplitAt(T, left, m, K),
           KeyAbove(T, h, left, p, j),
           NEW item \in Nat, InsertKeys(T, h, left, K, item, 1),
           NEW key, key = Key(firstItem(N, right), right)
    PROVE  key \in KeyType /\ key.nodeId = right /\ KeyBetween(keys, j, key)
  <1>1. /\ firstItem(N, right) = F[m + 1].item
        /\ F[m + 1] \in KeyType /\ m + 1 \in 1 .. Len(F)
        /\ firstItem(T, left) < firstItem(N, right)
    BY NewKeyIn
  <1>2. KeysAbove(T, N, left, right, p, j, keys)
    BY KeysAboveIs
  <1>3. keys[j].item = firstItem(T, left)
    BY <1>2 DEF KeysAbove
  <1>4. right \in Nat
    BY DEF Splitting, Splittable
  <1>5. key.item = firstItem(N, right) /\ key.nodeId = right
    BY DEF Key
  <1>6. key \in KeyType
    BY <1>1, <1>4 DEF Key, KeyType
  <1>7. ASSUME j < Len(keys)
        PROVE  key.item < keys[j + 1].item
    <2>1. F[m + 1].item < T[p].items[j + 1].item
      <3>1. j < Len(T[p].items)
        BY <1>7
      <3>2. PICK i : i = m + 1
        OBVIOUS
      <3>3. i \in 1 .. Len(F)
        BY <1>1, <3>2
      <3>4. F[i].item < T[p].items[j + 1].item
        BY <3>1, <3>3, NewKeyBefore
      <3> QED
        BY <3>2, <3>4
    <2> QED
      BY <2>1, <1>1, <1>5
  <1>8. KeyBetween(keys, j, key)
    BY <1>1, <1>3, <1>5, <1>7 DEF KeyBetween
  <1> QED
    BY <1>5, <1>6, <1>8

(* Keys with one more.                                                     *)
LEMMA BetweenMerged ==
    ASSUME NEW keys \in Seq(KeyType), Ascends(keys), NEW j \in 1 .. Len(keys),
           NEW key \in KeyType, KeyBetween(keys, j, key)
    PROVE  withKey(keys, key) = InsertAt(keys, j + 1, key)
  <1>1. PICK n, k : n = Len(keys) /\ k = j + 1
    OBVIOUS
  <1>2. n \in Nat /\ j \in 1 .. n /\ k \in 1 .. n + 1 /\ k - 1 = j /\ k # 1
    BY <1>1
  <1>3. k > n \/ j < n
    BY <1>1, <1>2
  <1>4. keys[j] \in KeyType
    BY <1>1, <1>2
  <1>5. keys[k - 1].item <= key.item
    <2>1. keys[j].item \in Nat /\ key.item \in Nat
      BY <1>4, KeyParts
    <2> QED
      BY <2>1, <1>2 DEF KeyBetween
  <1>6. k > n \/ key.item < keys[k].item
    BY <1>1, <1>3 DEF KeyBetween
  <1>7. withKey(keys, key) = InsertAt(keys, k, key)
    BY <1>1, <1>2, <1>5, <1>6, PlaceIs
  <1> QED
    BY <1>1, <1>7

LEMMA BetweenRises ==
    ASSUME NEW keys \in Seq(KeyType), Ascends(keys), NEW j \in 1 .. Len(keys),
           NEW key \in KeyType, KeyBetween(keys, j, key),
           NEW k, k = j + 1, NEW K2, Inserted(KeyType, keys, k, key, K2)
    PROVE  /\ K2[1] = keys[1]
           /\ \A i \in 3 .. Len(K2) : keys[1].item < K2[i].item
  <1>1. PICK n : n = Len(keys)
    OBVIOUS
  <1>2. n \in Nat /\ j \in 1 .. n /\ 1 \in 1 .. n /\ 1 \in 1 .. k - 1
    BY <1>1
  <1>3. /\ Len(K2) = n + 1
        /\ \A i \in 1 .. k - 1 : K2[i] = keys[i]
        /\ K2[k] = key
        /\ \A i \in k .. n : K2[i + 1] = keys[i]
    BY <1>1 DEF Inserted
  <1>4. \A i \in 2 .. n : keys[1].item < keys[i].item
    BY <1>1, <1>2 DEF Ascends
  <1>5. keys[1].item < key.item
    <2>1. keys[1] \in KeyType /\ keys[j] \in KeyType
      BY <1>1, <1>2
    <2>2. keys[1].item \in Nat /\ keys[j].item \in Nat /\ key.item \in Nat
      BY <2>1, KeyParts
    <2>3. keys[j].item < key.item
      BY DEF KeyBetween
    <2>4. j = 1 \/ j \in 2 .. n
      BY <1>2
    <2>5. CASE j = 1
      BY <2>3, <2>5
    <2>6. CASE j \in 2 .. n
      BY <2>2, <2>3, <2>6, <1>4
    <2> QED
      BY <2>4, <2>5, <2>6
  <1>6. ASSUME NEW i \in 3 .. Len(K2)
        PROVE  keys[1].item < K2[i].item
    <2>1. i \in 3 .. n + 1
      BY <1>3
    <2>2. i \in 1 .. k - 1 \/ i = k \/ i - 1 \in k .. n
      BY <2>1, <1>2
    <2>3. CASE i \in 1 .. k - 1
      <3>1. i \in 2 .. n
        BY <2>1, <2>3, <1>2
      <3> QED
        BY <3>1, <2>3, <1>3, <1>4
    <2>4. CASE i = k
      BY <2>4, <1>3, <1>5
    <2>5. CASE i - 1 \in k .. n
      <3>1. PICK a : a = i - 1
        OBVIOUS
      <3>2. a \in k .. n /\ a \in 2 .. n /\ a + 1 = i
        BY <2>1, <2>5, <3>1, <1>2
      <3>3. K2[a + 1] = keys[a]
        BY <3>2, <1>3
      <3> QED
        BY <3>2, <3>3, <1>4
    <2> QED
      BY <2>2, <2>3, <2>4, <2>5
  <1> QED
    BY <1>2, <1>3, <1>6

HasFirst(N, key) == key.nodeId # 0 => key.item = firstItem(N, key.nodeId)

LEMMA BetweenFirst ==
    ASSUME NEW N, NEW keys \in Seq(KeyType), NEW k \in 2 .. Len(keys) + 1,
           NEW key \in KeyType, HasFirst(N, key),
           NEW K2, Inserted(KeyType, keys, k, key, K2),
           NEW stale, stale \subseteq {1}, KeysFirst(N, keys, stale)
    PROVE  KeysFirst(N, K2, stale)
  <1>1. PICK n : n = Len(keys)
    OBVIOUS
  <1>2. n \in Nat /\ k \in 2 .. n + 1 /\ DOMAIN keys = 1 .. n
    BY <1>1
  <1>3. /\ K2 \in Seq(KeyType)
        /\ Len(K2) = n + 1
        /\ \A i \in 1 .. k - 1 : K2[i] = keys[i]
        /\ K2[k] = key
        /\ \A i \in k .. n : K2[i + 1] = keys[i]
    BY <1>1 DEF Inserted
  <1>4. ASSUME NEW i \in DOMAIN K2 \ stale, K2[i].nodeId # 0
        PROVE  K2[i].item = firstItem(N, K2[i].nodeId)
    <2>1. i \in 1 .. n + 1
      BY <1>3
    <2>2. i \in 1 .. k - 1 \/ i = k \/ i - 1 \in k .. n
      BY <2>1, <1>2
    <2>3. CASE i \in 1 .. k - 1
      <3>1. i \in DOMAIN keys \ stale
        BY <2>1, <2>3, <1>2
      <3> QED
        BY <3>1, <2>3, <1>3, <1>4 DEF KeysFirst
    <2>4. CASE i = k
      BY <2>4, <1>3, <1>4 DEF HasFirst
    <2>5. CASE i - 1 \in k .. n
      <3>1. PICK a : a = i - 1
        OBVIOUS
      <3>2. a \in k .. n /\ a \in DOMAIN keys \ stale /\ a + 1 = i
        BY <2>1, <2>5, <3>1, <1>2
      <3>3. K2[i] = keys[a]
        BY <3>2, <1>3
      <3> QED
        BY <3>2, <3>3, <1>4 DEF KeysFirst
    <2> QED
      BY <2>2, <2>3, <2>4, <2>5
  <1> QED
    BY <1>4 DEF KeysFirst

(* The keys that the node above is about to have.                          *)
KeyMade(T, N, right, p, j, key, K2) ==
    /\ key = Key(firstItem(N, right), right)
    /\ K2 = InsertAt(T[p].items, j + 1, key)

LEMMA SplitParentKeys ==
    ASSUME NEW T, NEW A, NEW N, NEW h, NEW h2, NEW left, NEW right, NEW m, NEW K, NEW F,
           NEW p, NEW j,
           Splitting(T, A, N, h, left, right, m, K, F), SplitAt(T, left, m, K),
           KeyAbove(T, h, left, p, j),
           NEW item \in Nat, InsertKeys(T, h, left, K, item, 1),
           T[p].items[j].item <= item \/ j = 1,
           NEW key, NEW K2, KeyMade(T, N, right, p, j, key, K2)
    PROVE  /\ key \in KeyType /\ key.nodeId = right /\ K2 \in Seq(KeyType)
           /\ withKey(N[p].items, key) = K2
           /\ InsertKeys(N, h2, p, K2, item, 1)
  <1>0. PICK keys, k : keys = T[p].items /\ k = j + 1
    OBVIOUS
  <1>e. key = Key(firstItem(N, right), right) /\ K2 = InsertAt(T[p].items, j + 1, key)
    BY DEF KeyMade
  <1>1. KeysAbove(T, N, left, right, p, j, keys)
    BY <1>0, KeysAboveIs
  <1>2. /\ N[p].items = keys
        /\ keys \in Seq(KeyType) /\ Len(keys) \in Nat
        /\ j \in 1 .. Len(keys) /\ Ascends(keys)
    BY <1>1 DEF KeysAbove
  <1>3. key \in KeyType /\ key.nodeId = right /\ KeyBetween(keys, j, key)
    BY <1>0, <1>e, SplitKeyBetween
  <1>4. k \in 1 .. Len(keys) + 1 /\ K2 = InsertAt(keys, j + 1, key) /\ K2 = InsertAt(keys, k, key)
    BY <1>0, <1>2, <1>e
  <1>5. Inserted(KeyType, keys, k, key, K2)
    BY <1>2, <1>3, <1>4, InsertAtIs
  <1>6. withKey(keys, key) = K2
    BY <1>2, <1>3, <1>4, BetweenMerged
  <1>7. /\ K2[1] = keys[1]
        /\ \A i \in 3 .. Len(K2) : keys[1].item < K2[i].item
    BY <1>0, <1>2, <1>3, <1>5, BetweenRises
  <1>8. PICK stale : stale = IF item < keys[1].item THEN {1} ELSE {}
    OBVIOUS
  <1>9. KeysFirst(N, keys, stale) /\ stale \subseteq {1}
    BY <1>0, <1>1, <1>8, StaleAbove
  <1>10. KeysFirst(N, K2, stale)
    <2>1. HasFirst(N, key)
      BY <1>3, <1>e DEF Key, HasFirst
    <2>2. k \in 2 .. Len(keys) + 1 /\ keys \in Seq(KeyType) /\ key \in KeyType
      BY <1>0, <1>2, <1>3
    <2> QED
      BY ONLY <2>1, <2>2, <1>5, <1>9, BetweenFirst
  <1>11. Counts(N, p, K2, 1, item)
    BY <1>1, <1>3, <1>4, CountsAbove
  <1>12. Len(K2) = Len(keys) + 1 /\ K2 \in Seq(KeyType)
    BY <1>5 DEF Inserted
  <1> QED
    BY <1>2, <1>3, <1>6, <1>7, <1>8, <1>10, <1>11, <1>12 DEF InsertKeys

-----------------------------------------------------------------------------
(* insertItem at a full node.                                              *)
Split(h, left, right, m, K, F) ==
    /\ Amid(h, left, K)
    /\ InsertKeys(nodes, h, left, K, oldNew, 1)
    /\ SplitAt(nodes, left, m, K)
    /\ Splitting(nodes, ahead, nodes', h, left, right, m, K, F)
    /\ newKey' = Key(firstItem(nodes', right), right)

LEMMA FixedFound ==
    ASSUME NEW T, NEW K
    PROVE  \E R : KeyRefreshed(T, K, 0, R)
  BY DEF KeyRefreshed

LEMMA SplittableIs ==
    ASSUME NEW h, NEW left, NEW K, Amid(h, left, K), NEW right,
           right \in Nat \ {0}, right \notin DOMAIN nodes,
           NEW m, SplitAt(nodes, left, m, K),
           NEW item, InsertKeys(nodes, h, left, K, item, 1)
    PROVE  /\ Splittable(nodes, h, left, right, m, K)
           /\ \E F : KeysFixed(nodes, K, F)
  <1>1. PICK A, T : A = ahead /\ T = nodes
    OBVIOUS
  <1>2. /\ left \in DOMAIN T /\ K \in Seq(KeyType)
        /\ Rekeyed(T, A, left, K)
        /\ Structure(A, h, left) /\ Exact(T, left) /\ Stored(T, h)
    BY <1>1 DEF Amid
  <1>3. HasItems(T, left, K) /\ HasChildren(T, K) /\ Len(K) \in Nat /\ DOMAIN K = 1 .. Len(K)
    BY <1>1, AmidItems
  <1>4. KeysFirst(T, K, {1})
    <2>1. PICK st : st = IF item < T[left].items[1].item THEN {1} ELSE {}
      OBVIOUS
    <2>2. KeysFirst(T, K, st) /\ st \subseteq {1}
      BY <1>1, <2>1 DEF InsertKeys
    <2> QED
      BY <2>2 DEF KeysFirst
  <1>5. SplitAt(T, left, m, K)
    BY <1>1
  <1>6. m \in 2 .. Len(K) - 1
    BY <1>5, SplitSizes
  <1>7. Len(K) > 0 /\ m \in 1 .. Len(K) - 1
    BY <1>3, <1>6
  <1>8. LinkedAt(T, h, left)
    <2>1. LinkedAt(A, h, left)
      BY <1>2 DEF Structure, Rekeyed
    <2> QED
      BY <2>1, <1>2 DEF LinkedAt, Rekeyed
  <1>9. PICK F : KeyRefreshed(T, K, 0, F)
    BY FixedFound
  <1>10. KeysFixed(T, K, F)
    BY <1>2, <1>3, <1>4, <1>7, <1>9, FirstFixed
  <1>11. T[left].nextSibling # left
    <2>1. PICK T2 : NodeFixed(T, T2, left, K, F)
      BY <1>2, <1>3, <1>10, FixedExists
    <2>2. Structure(T2, h, 0)
      BY <1>2, <1>10, <2>1, FixedWhole
    <2>3. left \in DOMAIN T2 /\ T2[left].items = F /\ T2[left].nextSibling = T[left].nextSibling
      BY <1>2, <2>1 DEF NodeFixed
    <2>4. Stored(T2, h) /\ OrderedAt(T2, left)
      BY <2>2, <2>3 DEF Structure
    <2>5. Len(T2[left].items) > 0
      BY <2>3, <1>7, <1>10 DEF KeysFixed
    <2> QED
      BY <2>3, <2>4, <2>5, NotItsSibling
  <1>12. Splittable(T, h, left, right, m, K)
    BY <1>1, <1>2, <1>3, <1>4, <1>7, <1>8, <1>11 DEF Splittable
  <1> QED
    BY <1>1, <1>10, <1>12

LEMMA InsertSplits ==
    ASSUME NEW h, Shape(h), breadcrumbs \in Seq(CrumbType),
           nextNodeId \in Nat \ {0}, DOMAIN nodes \subseteq 1 .. nextNodeId - 1,
           InsertSplit
    PROVE  \E left, m, K, F : Split(h, left, nextNodeId, m, K, F)
  <1>1. PICK T, A, N, left, right, next, K, m :
            /\ T = nodes /\ A = ahead /\ N = nodes'
            /\ left = Crumb.nodeId /\ right = nextNodeId
            /\ next = nodes[left].nextSibling
            /\ K = keysAhead
            /\ m = IF next = 0 THEN MAX_ITEMS ELSE MAX_ITEMS \div 2 + 1
    OBVIOUS
  <1>2. running = "insert" /\ breadcrumbs # <<>> /\ pending
        /\ Len(nodes[left].items) >= MAX_ITEMS
    BY <1>1 DEF InsertSplit
  <1>3. Amid(h, left, K)
    BY <1>1, <1>2, AmidCall
  <1>4. InsertKeys(T, h, left, K, oldNew, 1)
    BY <1>1, <1>2, <1>3, AmidInsert
  <1>5. left \in DOMAIN T /\ Exact(T, left) /\ K \in Seq(KeyType) /\ Stored(T, h)
        /\ left = current
    BY <1>1, <1>3 DEF Amid
  <1>6. Len(K) = MAX_ITEMS + 1
    <2>1. Len(T[left].items) \in 1 .. MAX_ITEMS
      BY <1>5 DEF Exact, Sized
    <2>2. Len(K) = Len(T[left].items) + 1
      BY <1>4 DEF InsertKeys
    <2>3. PICK a : a = Len(T[left].items)
      OBVIOUS
    <2>4. a \in 1 .. MAX_ITEMS /\ a >= MAX_ITEMS /\ MAX_ITEMS \in Nat
      BY <2>1, <2>3, <1>1, <1>2, Sizes
    <2>5. a = MAX_ITEMS
      BY ONLY <2>4
    <2> QED
      BY <2>2, <2>3, <2>5
  <1>7. SplitAt(T, left, m, K)
    BY <1>1, <1>6 DEF SplitAt
  <1>8. right \in Nat \ {0} /\ right \notin DOMAIN T
    BY <1>1
  <1>9. Splittable(T, h, left, right, m, K) /\ \E F : KeysFixed(T, K, F)
    BY <1>1, <1>3, <1>4, <1>7, <1>8, SplittableIs
  <1>10. PICK F : KeysFixed(T, K, F)
    BY <1>9
  <1>11. K = withKey(T[left].items, newKey)
    BY <1>1, <1>2, <1>5 DEF keysAhead
  <1>12. PICK S : SplitsInto(T, S, left, right, m, K)
    BY DEF SplitsInto
  <1>13. N = refreshIndex(S, left, 0) /\ newKey' = Key(firstItem(S, right), right)
    BY <1>1, <1>11, <1>12 DEF InsertSplit, SplitsInto, makeNode
  <1>14. /\ Halved(T, N, left, right, m, K, F)
         /\ firstItem(S, right) = firstItem(N, right)
    BY <1>9, <1>10, <1>12, <1>13, HalvedIs
  <1>15. Splitting(T, A, N, h, left, right, m, K, F)
    BY <1>1, <1>3, <1>9, <1>10, <1>14 DEF Splitting, Amid
  <1>16. Split(h, left, right, m, K, F)
    BY <1>1, <1>3, <1>4, <1>7, <1>13, <1>14, <1>15 DEF Split
  <1> QED
    BY <1>1, <1>16

-----------------------------------------------------------------------------
(* The levels of the nodes after a split, which ends at the root or goes on*)
(* in the node above.                                                      *)

LEMMA LevelFound ==
    ASSUME NEW T, NEW h, Stored(T, h), NEW left \in DOMAIN T, NEW right, right \notin DOMAIN T
    PROVE  \E h2 : LevelAdded(T, h, h2, left, right)
  <1>1. PICK h2 : h2 = [a \in DOMAIN T \cup {right} |-> IF a = right THEN h[left] ELSE h[a]]
    OBVIOUS
  <1>2. h2 \in [DOMAIN T \cup {right} -> Nat]
    BY <1>1, NodeFacts
  <1> QED
    BY <1>1, <1>2 DEF LevelAdded

LEMMA SplitStored ==
    ASSUME NEW T, NEW A, NEW N, NEW h, NEW h2, NEW left, NEW right, NEW m, NEW K, NEW F,
           Splitting(T, A, N, h, left, right, m, K, F),
           LevelAdded(T, h, h2, left, right)
    PROVE  Stored(N, h2) /\ \A id \in DOMAIN T : id \in DOMAIN N
  <1>1. Stored(T, h) /\ right \in Nat \ {0} /\ Halved(T, N, left, right, m, K, F)
    BY DEF Splitting, Splittable
  <1> QED
    BY <1>1 DEF Halved, LevelAdded, Stored

(* The root was split.                                                     *)
SplitRoot(N, h, root, right) ==
    /\ right \in DOMAIN N \ {root}
    /\ h[right] = h[root]
    /\ N[root].prevSibling = 0
    /\ N[root].nextSibling = right
    /\ N[right].nextSibling = 0
    /\ \A id \in DOMAIN N \ {root, right} : h[id] < h[root] /\ IsChild(N, id)

LEMMA RootSplits ==
    ASSUME NEW T, NEW A, NEW N, NEW h, NEW h2, NEW left, NEW right, NEW m, NEW K, NEW F,
           Splitting(T, A, N, h, left, right, m, K, F),
           LevelAdded(T, h, h2, left, right), Rooted(A, h, left)
    PROVE  /\ SplitRoot(N, h2, left, right)
           /\ SplitParent(T, N, N, h, left, Key(firstItem(N, right), right), 0, 0)
  <1>1. /\ Rekeyed(T, A, left, K) /\ Stored(T, h) /\ left \in DOMAIN T
        /\ right \notin DOMAIN T
        /\ Halved(T, N, left, right, m, K, F)
    BY DEF Splitting, Splittable
  <1>2. /\ DOMAIN A = DOMAIN T
        /\ A[left].nextSibling = T[left].nextSibling
        /\ A[left].prevSibling = T[left].prevSibling
    BY <1>1 DEF Rekeyed
  <1>3. /\ T[left].nextSibling = 0 /\ T[left].prevSibling = 0
        /\ \A id \in DOMAIN T \ {left} : h[id] < h[left] /\ IsChild(A, id)
    BY <1>2 DEF Rooted
  <1>4. SplitParent(T, N, N, h, left, Key(firstItem(N, right), right), 0, 0)
    <2>1. \A id \in DOMAIN T : h[id] <= h[left]
      <3>1. ASSUME NEW id \in DOMAIN T
            PROVE  h[id] <= h[left]
        <4>1. h[id] \in Nat /\ h[left] \in Nat
          BY <1>1, NodeFacts
        <4>2. id = left \/ h[id] < h[left]
          BY <1>3
        <4> QED
          BY <4>1, <4>2
      <3> QED
        BY <3>1
    <2> QED
      BY <2>1 DEF SplitParent
  <1>5. ASSUME NEW id \in DOMAIN N \ {left, right}
        PROVE  h2[id] < h2[left] /\ IsChild(N, id)
    <2>1. id \in DOMAIN T \ {left}
      BY <1>1, <1>5 DEF Halved
    <2>2. h[id] < h[left] /\ IsChild(A, id)
      BY <2>1, <1>3
    <2>3. h2[id] = h[id] /\ h2[left] = h[left]
      BY <2>1, <1>1 DEF LevelAdded
    <2>4. \A a \in DOMAIN A : A[a].items = (IF a = left THEN K ELSE T[a].items)
      BY <1>1, <1>2 DEF Rekeyed
    <2>5. IsChild(N, id)
      <3>1. PICK key : key = Key(firstItem(T, left), right)
        OBVIOUS
      <3>2. key \in KeyType /\ key.nodeId = right
        <4>1. firstItem(T, left) \in Items
          <5>1. T[left].items \in Seq(KeyType) /\ Len(T[left].items) \in 1 .. MAX_ITEMS
            BY <1>1, NodeFacts DEF Splitting, Exact, Sized
          <5>2. T[left].items[1] \in KeyType
            BY <5>1
          <5> QED
            BY <5>2, KeyParts DEF firstItem
        <4>2. right \in Nat
          BY DEF Splitting, Splittable
        <4> QED
          BY <3>1, <4>1, <4>2 DEF Key, KeyType
      <3>3. SplitParent(T, N, N, h, left, key, 0, 0)
        BY <1>4 DEF SplitParent
      <3> QED
        BY <2>2, <3>2, <3>3, SplitChild
    <2> QED
      BY <2>2, <2>3, <2>5
  <1>6. h2[right] = h2[left]
    BY <1>1 DEF LevelAdded
  <1>7. right \in DOMAIN N \ {left} /\ N[left].prevSibling = 0 /\ N[left].nextSibling = right
        /\ N[right].nextSibling = 0
    BY <1>1, <1>3 DEF Halved
  <1> QED
    BY <1>4, <1>5, <1>6, <1>7 DEF SplitRoot

(* Midway to the node above.                                               *)
LEMMA SplitMidway ==
    ASSUME NEW T, NEW A, NEW N, NEW h, NEW h2, NEW left, NEW right, NEW m, NEW K, NEW F,
           NEW p, NEW j, NEW root, NEW s \in Seq(CrumbType), NEW t, NEW cont,
           Splitting(T, A, N, h, left, right, m, K, F), SplitAt(T, left, m, K),
           LevelAdded(T, h, h2, left, right),
           KeyAbove(T, h, left, p, j),
           NEW key \in KeyType, key.nodeId = right,
           NEW K2 \in Seq(KeyType), K2 = InsertAt(T[p].items, j + 1, key),
           Rooted(A, h, root), Len(s) > 0, PathIn(T, s, root, h), Fronts(s, t),
           KeptOver(T, N, h, h2, s),
           \A item \in Items : item \in cont <=> InLeaf(A, h, item)
    PROVE  Midway(N, h2, t, root, p, K2, cont)
  <1>1. p \in DOMAIN T /\ p # 0 /\ Stored(T, h)
    BY DEF KeyAbove, Splitting
  <1>2. Stored(N, h2) /\ p \in DOMAIN N
    <2>1. Splitting(T, A, N, h, left, right, m, K, F) /\ LevelAdded(T, h, h2, left, right)
      OBVIOUS
    <2>2. Stored(N, h2) /\ \A id \in DOMAIN T : id \in DOMAIN N
      BY ONLY <2>1, SplitStored
    <2> QED
      BY <1>1, <2>2
  <1>3. PICK S : S = [N EXCEPT ![p].items = K2]
    OBVIOUS
  <1>4. Rekeyed(N, S, p, K2)
    BY <1>2, <1>3, RekeyedIs
  <1>5. SplitParent(T, N, S, h, left, key, p, j)
    BY <1>1, <1>4 DEF SplitParent
  <1>6. /\ Structure(S, h2, p)
        /\ \A item : InLeaf(A, h, item) <=> InLeaf(S, h2, item)
    BY <1>5, SplitStructure
  <1>7. Rooted(S, h2, root)
    BY <1>1, <1>5, SplitRooted
  <1>8. Exact(N, p)
    BY <1>1, SplitExact
  <1>9. PathIn(N, t, root, h2)
    BY <1>1, PathFront
  <1> QED
    BY <1>2, <1>3, <1>6, <1>7, <1>8, <1>9 DEF Midway

-----------------------------------------------------------------------------
(* Every split leaves the tree in shape.                                   *)

LEMMA SplitRootShape ==
    ASSUME NEW h, NEW left, NEW m, NEW K, NEW F, Split(h, left, nextNodeId, m, K, F),
           running = "insert", oldNew \in Items, ~neighbourRefreshNeeded,
           left = rootNodeId, pending', breadcrumbs' = <<>>, current' = 0,
           UNCHANGED <<rootNodeId, running, oldNew, neighbourRefreshNeeded, contents>>
    PROVE  \E h2 : Shape(h2)'
  <1>1. PICK A, T, N, right, root :
            A = ahead /\ T = nodes /\ N = nodes' /\ right = nextNodeId /\ root = rootNodeId
    OBVIOUS
  <1>2. /\ Amid(h, left, K) /\ SplitAt(T, left, m, K)
        /\ Splitting(T, A, N, h, left, right, m, K, F)
        /\ newKey' = Key(firstItem(N, right), right)
    BY <1>1 DEF Split
  <1>3. /\ Structure(A, h, left) /\ Rooted(A, h, left)
        /\ \A item \in Items : item \in contents <=> InLeaf(A, h, item)
    BY <1>1, <1>2 DEF Amid
  <1>4. Stored(T, h) /\ left \in DOMAIN T /\ right \notin DOMAIN T
    BY <1>2 DEF Splitting, Splittable
  <1>5. PICK h2 : LevelAdded(T, h, h2, left, right)
    BY <1>4, LevelFound
  <1>6. SplitRoot(N, h2, left, right)
    BY <1>2, <1>3, <1>5, RootSplits
  <1>7. SplitParent(T, N, N, h, left, Key(firstItem(N, right), right), 0, 0)
    BY <1>2, <1>3, <1>5, RootSplits
  <1>8. PICK key, p, j : /\ p = 0 /\ j = 0
                         /\ key = Key(firstItem(T, left), right)
    OBVIOUS
  <1>9. key \in KeyType /\ key.nodeId = right
    <2>1. firstItem(T, left) \in Items
      <3>1. T[left].items \in Seq(KeyType) /\ Len(T[left].items) \in 1 .. MAX_ITEMS
        BY <1>2, <1>4, NodeFacts DEF Splitting, Exact, Sized
      <3>2. T[left].items[1] \in KeyType
        BY <3>1
      <3> QED
        BY <3>2, KeyParts DEF firstItem
    <2>2. right \in Nat
      BY <1>2 DEF Splitting, Splittable
    <2> QED
      BY <1>8, <2>1, <2>2 DEF Key, KeyType
  <1>10. SplitParent(T, N, N, h, left, key, p, j)
    BY <1>7, <1>8 DEF SplitParent
  <1>11. /\ Structure(N, h2, p)
         /\ \A item : InLeaf(A, h, item) <=> InLeaf(N, h2, item)
    BY <1>2, <1>5, <1>9, <1>10, SplitStructure
  <1>12. Exact(N, p)
    <2>1. ~IsChild(A, left)
      BY <1>3, RootNoChild
    <2>2. (p = 0 => ~IsChild(A, left)) /\ (p # 0 => \E i : KeyAbove(T, h, left, p, i))
      BY <2>1, <1>8
    <2> QED
      BY <2>2, <1>2, SplitExact
  <1>13. Structure(N, h2, 0) /\ Exact(N, 0) /\ Stored(N, h2)
    BY <1>8, <1>11, <1>12 DEF Structure
  <1>14. \A item \in Items : item \in contents' <=> InLeaf(N, h2, item)
    BY <1>3, <1>11
  <1>15. ahead' = N
    BY <1>1 DEF ahead
  <1>16. newKey'.nodeId = right
    BY <1>2 DEF Key
  <1>17. PathFrom(rootNodeId, h2)' /\ InsertPath(h2)'
    BY DEF PathFrom, InsertPath
  <1>18. rootNodeId' = left /\ left \in DOMAIN N
    <2>1. left \in DOMAIN N
      BY <1>2, <1>4 DEF Splitting, Halved
    <2> QED
      BY <2>1
  <1>19. Inserting(h2)'
    BY <1>1, <1>6, <1>16, <1>17, <1>18 DEF Inserting, SplitRoot
  <1> QED
    BY <1>1, <1>13, <1>14, <1>15, <1>19 DEF Shape

LEMMA SplitShape ==
    ASSUME NEW h, NEW left, NEW m, NEW K, NEW F, Split(h, left, nextNodeId, m, K, F),
           running = "insert", oldNew \in Items, ~neighbourRefreshNeeded,
           NotLeftOn(nodes, breadcrumbs, oldNew),
           NEW p, NEW j, p # 0, AtTop(nodes, breadcrumbs, rootNodeId, h, left, p, j),
           breadcrumbs' = Front(breadcrumbs), pending',
           UNCHANGED <<rootNodeId, running, oldNew, neighbourRefreshNeeded, contents>>
    PROVE  \E h2 : Shape(h2)'
  <1>1. PICK A, T, N, right, root, item, s, t, key, K2 :
            /\ A = ahead /\ T = nodes /\ N = nodes' /\ right = nextNodeId
            /\ root = rootNodeId /\ item = oldNew /\ s = breadcrumbs /\ t = breadcrumbs'
            /\ key = newKey' /\ K2 = InsertAt(T[p].items, j + 1, key)
    OBVIOUS
  <1>2. /\ Amid(h, left, K) /\ SplitAt(T, left, m, K)
        /\ InsertKeys(T, h, left, K, item, 1)
        /\ Splitting(T, A, N, h, left, right, m, K, F)
        /\ key = Key(firstItem(N, right), right)
    BY <1>1 DEF Split
  <1>3. /\ Rooted(A, h, root)
        /\ s \in Seq(CrumbType) /\ Len(s) > 0 /\ left = s[Len(s)].nodeId
        /\ PathIn(T, s, root, h)
        /\ \A x \in Items : x \in contents <=> InLeaf(A, h, x)
    BY <1>1, <1>2 DEF Amid
  <1>4. Stored(T, h) /\ left \in DOMAIN T /\ right \notin DOMAIN T
    BY <1>2 DEF Splitting, Splittable
  <1>5. PICK h2 : LevelAdded(T, h, h2, left, right)
    BY <1>4, LevelFound
  <1>6. AtTop(T, s, root, h, left, p, j)
    BY <1>1
  <1>7. KeyAbove(T, h, left, p, j)
    BY <1>6 DEF AtTop, KeyAbove
  <1>8. /\ t \in Seq(CrumbType) /\ Fronts(s, t)
        /\ current' = p
    BY <1>1, <1>2, StepUp
  <1>9. KeptOver(T, N, h, h2, s)
    <2>1. KeptAbove(T, N, h, h2, left)
      BY <1>2, <1>5, SplitKeptAbove
    <2> QED
      BY <2>1, <1>3 DEF KeptOver
  <1>10. NotLeftOn(T, s, item)
    BY <1>1
  <1>11. NotLeftOn(N, t, item)
    BY <1>3, <1>4, <1>8, <1>9, <1>10, NotLeftFront
  <1>12. T[p].items[j].item <= item \/ j = 1
    <2>1. Len(s) - 1 \in DOMAIN s
      BY <1>3, <1>6 DEF AtTop
    <2>2. s[Len(s) - 1].nodeId = p /\ s[Len(s) - 1].index = j - 1
      BY <1>6 DEF AtTop
    <2>3. T[p].items[(j - 1) + 1].item <= item \/ j - 1 = 0
      BY <2>1, <2>2, <1>10 DEF NotLeftOn
    <2>4. j \in Nat
      BY <1>4, <1>7, NodeFacts DEF KeyAbove
    <2>5. (j - 1) + 1 = j /\ (j - 1 = 0 => j = 1)
      BY <2>4
    <2> QED
      BY <2>3, <2>5
  <1>13. item \in Nat
    BY <1>1, ItemsAssumption
  <1>14. /\ key \in KeyType /\ key.nodeId = right /\ K2 \in Seq(KeyType)
         /\ withKey(N[p].items, key) = K2
         /\ InsertKeys(N, h2, p, K2, item, 1)
    <2>1. KeyMade(T, N, right, p, j, key, K2)
      BY <1>1, <1>2 DEF KeyMade
    <2>2. Splitting(T, A, N, h, left, right, m, K, F) /\ SplitAt(T, left, m, K)
          /\ InsertKeys(T, h, left, K, item, 1)
      BY <1>2
    <2> QED
      BY ONLY <2>1, <2>2, <1>7, <1>12, <1>13, SplitParentKeys
  <1>15. K2 = InsertAt(T[p].items, j + 1, key)
    BY <1>1
  <1>16. Midway(N, h2, t, root, p, K2, contents)
    BY <1>2, <1>3, <1>5, <1>7, <1>8, <1>9, <1>14, <1>15, SplitMidway
  <1>17. keysAhead' = K2
    BY <1>1, <1>8, <1>14 DEF keysAhead
  <1>18. Midway(N, h2, breadcrumbs', rootNodeId', p, K2, contents')
    BY <1>1, <1>16
  <1>19. InsertKeys(N, h2, p, K2, oldNew', IF pending' THEN 1 ELSE 0)
    BY <1>1, <1>14
  <1>20. NotLeftOn(N, breadcrumbs', oldNew')
    BY <1>1, <1>11
  <1>21. running' = "insert" /\ oldNew' \in Items /\ ~neighbourRefreshNeeded'
         /\ nodes' = N /\ current' = p
    BY <1>1, <1>8
  <1> QED
    BY <1>17, <1>18, <1>19, <1>20, <1>21, MidwayInsert

LEMMA InsertSplitShape ==
    ASSUME NEW h, Shape(h), breadcrumbs \in Seq(CrumbType),
           nextNodeId \in Nat \ {0}, DOMAIN nodes \subseteq 1 .. nextNodeId - 1,
           InsertSplit
    PROVE  /\ \E h2 : Shape(h2)'
           /\ breadcrumbs' \in Seq(CrumbType)
           /\ DOMAIN nodes' = DOMAIN nodes \cup {nextNodeId}
  <1>1. /\ running = "insert" /\ pending' /\ breadcrumbs' = Front(breadcrumbs)
        /\ UNCHANGED <<rootNodeId, running, oldNew, neighbourRefreshNeeded, contents>>
    BY DEF InsertSplit
  <1>2. PICK left, m, K, F : Split(h, left, nextNodeId, m, K, F)
    BY InsertSplits
  <1>3. Amid(h, left, K)
    BY <1>2 DEF Split
  <1>4. /\ oldNew \in Items /\ ~neighbourRefreshNeeded
        /\ NotLeftOn(nodes, breadcrumbs, oldNew)
    BY <1>1, <1>3, AmidInsert
  <1>5. /\ Stored(nodes, h) /\ left = breadcrumbs[Len(breadcrumbs)].nodeId
        /\ PathIn(nodes, breadcrumbs, rootNodeId, h) /\ Len(breadcrumbs) > 0
    BY <1>3 DEF Amid
  <1>6. PICK p, j : AtTop(nodes, breadcrumbs, rootNodeId, h, left, p, j)
    BY <1>5, PathTop
  <1>7. /\ breadcrumbs' \in Seq(CrumbType)
        /\ p = 0 => breadcrumbs' = <<>> /\ current' = 0
    BY <1>1, <1>3, <1>6, StepUp
  <1>8. \E h2 : Shape(h2)'
    <2>1. CASE p = 0
      <3>1. left = rootNodeId
        BY <1>6, <2>1 DEF AtTop
      <3> QED
        BY <3>1, <2>1, <1>1, <1>2, <1>4, <1>7, SplitRootShape
    <2>2. CASE p # 0
      BY <2>2, <1>1, <1>2, <1>4, <1>6, SplitShape
    <2> QED
      BY <2>1, <2>2
  <1>9. DOMAIN nodes' = DOMAIN nodes \cup {nextNodeId}
    BY <1>2 DEF Split, Splitting, Halved
  <1> QED
    BY <1>7, <1>8, <1>9

-----------------------------------------------------------------------------
(* The last steps of an insertion: it returns, or puts a root above two    *)
(* nodes.                                                                  *)

LEMMA InsertReturnShape ==
    ASSUME NEW h, Shape(h), InsertReturn
    PROVE  Shape(h)'
  <1>1. running = "insert" /\ breadcrumbs = <<>> /\ ~pending /\ Return /\ UNCHANGED treeVars
    BY DEF InsertReturn
  <1>2. current = 0 /\ ahead = nodes
    BY <1>1 DEF current, ahead
  <1>3. PICK N : N = nodes
    OBVIOUS
  <1>4. /\ Structure(N, h, 0) /\ Exact(N, 0) /\ Stored(N, h)
        /\ \A item \in Items : item \in contents <=> InLeaf(N, h, item)
        /\ Rooted(N, h, rootNodeId)
    BY <1>1, <1>2, <1>3 DEF Shape, Inserting
  <1>5. rootNodeId # 0
    <2>1. rootNodeId \in DOMAIN N
      BY <1>4 DEF Rooted
    <2> QED
      BY <2>1, <1>4, NodeFacts
  <1>6. nodes' = N /\ running' = "none" /\ breadcrumbs' = <<>>
        /\ oldNew' = 0 /\ newKey' = NoKey /\ ~pending' /\ ~neighbourRefreshNeeded'
        /\ contents' = contents /\ rootNodeId' = rootNodeId
    BY <1>1, <1>3 DEF Return, treeVars
  <1>7. \A item \in Items : item \in contents' <=> InLeaf(N, h, item)
    BY <1>4, <1>6
  <1>8. IF rootNodeId' = 0 THEN DOMAIN N = {} ELSE Rooted(N, h, rootNodeId')
    BY <1>4, <1>5, <1>6
  <1> QED
    BY <1>4, <1>6, <1>7, <1>8, SoundShape

-----------------------------------------------------------------------------
(* A new root over the two halves of the old one.                          *)
RootPair(T, h, root, right, new) ==
    /\ Structure(T, h, 0) /\ Exact(T, 0) /\ SplitRoot(T, h, root, right)
    /\ root \in DOMAIN T /\ right \in DOMAIN T /\ root # right
    /\ new \in Nat \ {0} /\ new \notin DOMAIN T
NewRoot(T, N, h, h2, root, right, new) ==
    /\ DOMAIN N = DOMAIN T \cup {new}
    /\ N \in [DOMAIN N -> NodeType]
    /\ \A id \in DOMAIN T : N[id] = T[id] /\ h2[id] = h[id]
    /\ h2 \in [DOMAIN N -> Nat]
    /\ h2[new] = h[root] + 1
    /\ N[new].nextSibling = 0 /\ N[new].prevSibling = 0
    /\ Len(N[new].items) = 2 /\ DOMAIN N[new].items = {1, 2}
    /\ N[new].items[1].nodeId = root /\ N[new].items[2].nodeId = right
    /\ Recorded(N, new)

LEMMA RootPairNodes ==
    ASSUME NEW T, NEW h, NEW root, NEW right, NEW new, RootPair(T, h, root, right, new),
           NEW id \in DOMAIN T
    PROVE  /\ LevelsAt(T, h, id) /\ LinkedAt(T, h, id)
           /\ AdjacentAt(T, h, id) /\ OrderedAt(T, id)
           /\ Len(T[id].items) \in Nat /\ Len(T[id].items) > 0
           /\ h[id] \in Nat /\ h[id] <= h[root] /\ id # 0
  <1>1. Structure(T, h, 0) /\ Exact(T, 0) /\ SplitRoot(T, h, root, right) /\ root \in DOMAIN T
        /\ Stored(T, h)
    BY DEF RootPair, Structure
  <1>2. Len(T[id].items) \in 1 .. MAX_ITEMS
    BY <1>1 DEF Exact, Sized
  <1>3. h[id] \in Nat /\ h[root] \in Nat /\ id # 0
    BY <1>1, NodeFacts
  <1>4. id = root \/ id = right \/ h[id] < h[root]
    BY <1>1 DEF SplitRoot
  <1>5. h[right] = h[root]
    BY <1>1 DEF SplitRoot
  <1>6. h[id] <= h[root]
    BY <1>3, <1>4, <1>5
  <1> QED
    BY <1>1, <1>2, <1>3, <1>6 DEF Structure

LEMMA NewRootBelow ==
    ASSUME NEW T, NEW N, NEW h, NEW h2, NEW root, NEW right, NEW new,
           RootPair(T, h, root, right, new), NewRoot(T, N, h, h2, root, right, new),
           NEW id \in DOMAIN T
    PROVE  /\ LevelsAt(N, h2, id) /\ LinkedAt(N, h2, id)
           /\ AdjacentAt(N, h2, id) /\ OrderedAt(N, id)
  <1>1. /\ LevelsAt(T, h, id) /\ LinkedAt(T, h, id)
        /\ AdjacentAt(T, h, id) /\ OrderedAt(T, id)
    BY RootPairNodes
  <1>2. /\ \A a \in DOMAIN T : N[a] = T[a] /\ h2[a] = h[a] /\ a \in DOMAIN N
    BY DEF NewRoot
  <1>3. Stored(T, h)
    BY DEF RootPair, Structure
  <1>4. \A i \in DOMAIN T[id].items : nextKey(N, id, i) = nextKey(T, id, i)
    <2>1. PICK x : x = T[id].nextSibling
      OBVIOUS
    <2>2. N[id].items = T[id].items /\ N[id].nextSibling = x
      BY <1>2, <2>1
    <2>3. firstKey(N, x) = firstKey(T, x)
      <3>1. x # 0 => x \in DOMAIN T
        BY <1>1, <2>1 DEF LinkedAt
      <3>2. x # 0 => N[x].items = T[x].items
        BY <3>1, <1>2
      <3> QED
        BY <3>2 DEF firstKey
    <2> QED
      BY <2>1, <2>2, <2>3, KeptNextKey
  <1>5. LevelsAt(N, h2, id)
    BY <1>1, <1>2 DEF LevelsAt
  <1>6. LinkedAt(N, h2, id)
    BY <1>1, <1>2 DEF LinkedAt
  <1>7. AdjacentAt(N, h2, id)
    <2>1. ASSUME h2[id] > 0, NEW i \in DOMAIN N[id].items
          PROVE  N[N[id].items[i].nodeId].nextSibling = nextKey(N, id, i).nodeId
      <3>1. h[id] > 0 /\ i \in DOMAIN T[id].items /\ N[id].items = T[id].items
        BY <1>2, <2>1
      <3>2. h[id] # 0
        BY <3>1, <1>3, NodeFacts
      <3>3. T[id].items[i].nodeId \in DOMAIN T
        BY <3>1, <3>2, <1>1 DEF LevelsAt
      <3>4. T[T[id].items[i].nodeId].nextSibling = nextKey(T, id, i).nodeId
        BY <3>1, <1>1 DEF AdjacentAt
      <3> QED
        BY <3>1, <3>3, <3>4, <1>2, <1>4
    <2> QED
      BY <2>1 DEF AdjacentAt
  <1>8. OrderedAt(N, id)
    BY <1>1, <1>2, <1>4 DEF OrderedAt
  <1> QED
    BY <1>5, <1>6, <1>7, <1>8

LEMMA NewRootAt ==
    ASSUME NEW T, NEW N, NEW h, NEW h2, NEW root, NEW right, NEW new,
           RootPair(T, h, root, right, new), NewRoot(T, N, h, h2, root, right, new)
    PROVE  /\ Stored(N, h2)
           /\ LevelsAt(N, h2, new) /\ LinkedAt(N, h2, new)
           /\ AdjacentAt(N, h2, new) /\ OrderedAt(N, new)
  <1>1. Stored(T, h) /\ root \in DOMAIN T /\ right \in DOMAIN T
        /\ SplitRoot(T, h, root, right) /\ new \in Nat \ {0}
    BY DEF RootPair, Structure
  <1>2. /\ DOMAIN N = DOMAIN T \cup {new} /\ N \in [DOMAIN N -> NodeType]
        /\ h2 \in [DOMAIN N -> Nat]
        /\ \A a \in DOMAIN T : N[a] = T[a] /\ h2[a] = h[a]
        /\ h2[new] = h[root] + 1
        /\ N[new].nextSibling = 0 /\ N[new].prevSibling = 0
        /\ Len(N[new].items) = 2 /\ DOMAIN N[new].items = {1, 2}
        /\ N[new].items[1].nodeId = root /\ N[new].items[2].nodeId = right
    BY DEF NewRoot
  <1>3. Stored(N, h2)
    BY <1>1, <1>2 DEF Stored
  <1>4. h[root] \in Nat /\ h[right] = h[root] /\ root # 0 /\ right # 0
    BY <1>1, NodeFacts DEF SplitRoot
  <1>5. LevelsAt(N, h2, new)
    <2>1. h2[new] # 0 /\ h2[root] = h2[new] - 1 /\ h2[right] = h2[new] - 1
      BY <1>1, <1>2, <1>4
    <2> QED
      BY <2>1, <1>1, <1>2 DEF LevelsAt
  <1>6. LinkedAt(N, h2, new)
    BY <1>2 DEF LinkedAt
  <1>7. nextKey(N, new, 1) = N[new].items[2] /\ nextKey(N, new, 2) = none
    BY <1>2 DEF nextKey, firstKey
  <1>8. AdjacentAt(N, h2, new)
    <2>1. N[root].nextSibling = right /\ N[right].nextSibling = 0
      BY <1>1, <1>2 DEF SplitRoot
    <2>2. none.nodeId = 0
      BY DEF none, Key
    <2> QED
      BY <2>1, <2>2, <1>2, <1>7 DEF AdjacentAt
  <1>9. N[new].items[1].item < N[new].items[2].item
    <2>1. PICK key, next : key = N[new].items[1] /\ next = N[new].items[2]
      OBVIOUS
    <2>2. Recorded(N, new)
      BY DEF NewRoot
    <2>3. 1 \in DOMAIN N[new].items /\ 2 \in DOMAIN N[new].items
      BY <1>2
    <2>4. key.item = firstItem(N, key.nodeId) /\ next.item = firstItem(N, next.nodeId)
      BY <2>1, <2>2, <2>3, <1>2, <1>4 DEF Recorded, KeysFirst
    <2>5. next \in KeyType
      BY <1>2, <1>3, <2>1, NodeFacts
    <2>6. next # none
      BY <2>5, KeyParts
    <2>7. key.nodeId \in DOMAIN N /\ next.nodeId \in DOMAIN N /\ key.nodeId = root /\ next.nodeId = right
      BY <1>1, <1>2, <2>1
    <2>8. N[key.nodeId].nextSibling = next.nodeId
      BY <2>7, <1>1, <1>2 DEF SplitRoot
    <2>9. OrderedAt(N, key.nodeId)
      BY <2>7, <1>1, NewRootBelow
    <2>10. Len(N[key.nodeId].items) > 0 /\ Len(N[next.nodeId].items) > 0
      <3>1. Len(T[root].items) > 0 /\ Len(T[right].items) > 0
        BY <1>1, RootPairNodes
      <3> QED
        BY <3>1, <2>7, <1>1, <1>2
    <2>11. new \in DOMAIN N /\ 1 \in 1 .. Len(N[new].items) /\ next = nextKey(N, new, 1)
           /\ key = N[new].items[1]
      BY <1>2, <1>7, <2>1
    <2>12. key.item < next.item
      BY <2>4, <2>6, <2>7, <2>8, <2>9, <2>10, <2>11, <1>3, OrderFromBelow
    <2> QED
      BY <2>1, <2>12
  <1>10. OrderedAt(N, new)
    BY <1>2, <1>7, <1>9 DEF OrderedAt
  <1> QED
    BY <1>3, <1>5, <1>6, <1>8, <1>10

-----------------------------------------------------------------------------
LEMMA NewRootOnly ==
    ASSUME NEW T, NEW N, NEW h, NEW h2, NEW root, NEW right, NEW new,
           RootPair(T, h, root, right, new), NewRoot(T, N, h, h2, root, right, new)
    PROVE  OneParent(N)
  <1>1. Stored(N, h2) /\ \A id \in DOMAIN N : LevelsAt(N, h2, id)
    <2>1. \A id \in DOMAIN N : id \in DOMAIN T \/ id = new
      BY DEF NewRoot
    <2>2. \A id \in DOMAIN T : LevelsAt(N, h2, id)
      BY NewRootBelow
    <2>3. Stored(N, h2) /\ LevelsAt(N, h2, new)
      BY NewRootAt
    <2> QED
      BY <2>1, <2>2, <2>3
  <1>2. OneParent(T) /\ Stored(T, h) /\ root # right /\ root \in DOMAIN T
    BY DEF RootPair, Structure
  <1>3. /\ \A id \in DOMAIN N : id \in DOMAIN T \/ id = new
        /\ \A a \in DOMAIN T : N[a].items = T[a].items /\ h2[a] = h[a]
        /\ h2[new] = h[root] + 1
        /\ DOMAIN N[new].items = {1, 2}
        /\ N[new].items[1].nodeId = root /\ N[new].items[2].nodeId = right
    BY DEF NewRoot
  <1>4. ASSUME NEW p \in DOMAIN N, NEW q \in DOMAIN N, h2[p] = h2[q]
        PROVE  ParentsAgree(N, p, q)
    <2>1. CASE p \in DOMAIN T /\ q \in DOMAIN T
      BY <2>1, <1>2, <1>3 DEF OneParent, ParentsAgree
    <2>2. CASE p = new /\ q = new
      BY <2>2, <1>2, <1>3 DEF ParentsAgree
    <2>3. ASSUME NEW a \in DOMAIN T
          PROVE  h2[a] # h2[new]
      <3>1. h[a] <= h[root]
        BY RootPairNodes
      <3>2. h[a] \in Nat /\ h[root] \in Nat
        BY <1>2, NodeFacts
      <3> QED
        BY <3>1, <3>2, <1>3
    <2> QED
      BY <2>1, <2>2, <2>3, <1>3, <1>4
  <1> QED
    BY <1>1, <1>4, ParentsOfLevel

LEMMA NewRootWhole ==
    ASSUME NEW T, NEW N, NEW h, NEW h2, NEW root, NEW right, NEW new,
           RootPair(T, h, root, right, new), NewRoot(T, N, h, h2, root, right, new)
    PROVE  /\ Structure(N, h2, 0) /\ Exact(N, 0) /\ Stored(N, h2)
           /\ Rooted(N, h2, new)
           /\ \A item : InLeaf(T, h, item) <=> InLeaf(N, h2, item)
  <1>1. /\ Stored(T, h) /\ Exact(T, 0) /\ SplitRoot(T, h, root, right) /\ root \in DOMAIN T
        /\ \A a \in DOMAIN T : LevelsAt(T, h, a)
        /\ new \notin DOMAIN T
    BY DEF RootPair, Structure
  <1>2. /\ DOMAIN N = DOMAIN T \cup {new}
        /\ \A id \in DOMAIN N : id \in DOMAIN T \/ id = new
        /\ \A a \in DOMAIN T : N[a] = T[a] /\ h2[a] = h[a] /\ a \in DOMAIN N
        /\ new \in DOMAIN N
        /\ h2[new] = h[root] + 1
        /\ N[new].nextSibling = 0 /\ N[new].prevSibling = 0
        /\ Len(N[new].items) = 2 /\ DOMAIN N[new].items = {1, 2}
        /\ N[new].items[1].nodeId = root /\ N[new].items[2].nodeId = right
        /\ Recorded(N, new)
    BY DEF NewRoot
  <1>3. h[root] \in Nat
    BY <1>1, NodeFacts
  <1>4. Stored(N, h2) /\ OneParent(N)
    BY NewRootAt, NewRootOnly
  <1>5. ASSUME NEW id \in DOMAIN N
        PROVE  /\ LevelsAt(N, h2, id) /\ LinkedAt(N, h2, id)
               /\ AdjacentAt(N, h2, id) /\ OrderedAt(N, id)
    <2>1. CASE id \in DOMAIN T
      BY <2>1, NewRootBelow
    <2>2. CASE id = new
      BY <2>2, NewRootAt
    <2> QED
      BY <2>1, <2>2, <1>2
  <1>6. Structure(N, h2, 0)
    BY <1>4, <1>5 DEF Structure
  <1>7. Exact(N, 0)
    <2>1. StillExact(T, N, 0, 0, {new})
      <3>1. ASSUME NEW id \in DOMAIN N \ {new}
            PROVE  /\ Untouched(T, N, id) /\ id # 0
                   /\ \A i \in DOMAIN T[id].items :
                         \/ T[id].items[i].nodeId = 0
                         \/ T[id].items[i].nodeId \in DOMAIN N \ {new}
        <4>1. id \in DOMAIN T
          BY <3>1, <1>2
        <4>2. Untouched(T, N, id) /\ id # 0
          BY <4>1, <1>1, <1>2, NodeFacts DEF Untouched
        <4>3. \A i \in DOMAIN T[id].items :
                 T[id].items[i].nodeId = 0 \/ T[id].items[i].nodeId \in DOMAIN T
          BY <4>1, <1>1 DEF LevelsAt
        <4> QED
          BY <4>2, <4>3, <1>1, <1>2
      <3> QED
        BY <3>1 DEF StillExact
    <2>2. NewlyExact(N, 0, {new})
      <3>1. Sized(N[new])
        <4>1. 2 <= MAX_ITEMS /\ MAX_ITEMS \in Nat
          BY Sizes
        <4> QED
          BY <4>1, <1>2 DEF Sized
      <3> QED
        BY <3>1, <1>2 DEF NewlyExact
    <2> QED
      BY <2>1, <2>2, <1>1, ExactAfter
  <1>8. Rooted(N, h2, new)
    <2>1. ASSUME NEW id \in DOMAIN N \ {new}
          PROVE  h2[id] < h2[new] /\ IsChild(N, id)
      <3>1. id \in DOMAIN T
        BY <2>1, <1>2
      <3>2. h[id] <= h[root] /\ h[id] \in Nat
        BY <3>1, RootPairNodes
      <3>3. h2[id] < h2[new]
        BY <3>1, <3>2, <1>2, <1>3
      <3>4. IsChild(N, id)
        <4>1. CASE id = root \/ id = right
          BY <4>1, <1>2 DEF IsChild
        <4>2. CASE id # root /\ id # right
          <5>1. IsChild(T, id)
            BY <3>1, <4>2, <1>1 DEF SplitRoot
          <5> QED
            BY <5>1, <1>2 DEF IsChild
        <4> QED
          BY <4>1, <4>2
      <3> QED
        BY <3>3, <3>4
    <2> QED
      BY <2>1, <1>2 DEF Rooted
  <1>9. ASSUME NEW item
        PROVE  InLeaf(T, h, item) <=> InLeaf(N, h2, item)
    <2>1. h2[new] # 0
      BY <1>2, <1>3
    <2> QED
      BY <2>1, <1>2 DEF InLeaf
  <1> QED
    BY <1>4, <1>6, <1>7, <1>8, <1>9

(* What insertItem makes of the halves.                                    *)
LEMMA NewRootMade ==
    ASSUME NEW T, NEW h, NEW root, NEW right, NEW new, RootPair(T, h, root, right, new),
           NEW made, made = [id \in DOMAIN T \cup {new} |->
                                IF id \in DOMAIN T THEN T[id] ELSE EmptyNode],
           NEW N, N = refill(made, new, <<Key(firstItem(T, root), root),
                                          Key(firstItem(T, right), right)>>)
    PROVE  \E h2 : NewRoot(T, N, h, h2, root, right, new)
  <1>1. /\ Stored(T, h) /\ root \in DOMAIN T /\ right \in DOMAIN T
        /\ new \in Nat \ {0} /\ new \notin DOMAIN T
    BY DEF RootPair, Structure
  <1>2. PICK keys : keys = <<Key(firstItem(T, root), root), Key(firstItem(T, right), right)>>
    OBVIOUS
  <1>3. ASSUME NEW c \in DOMAIN T
        PROVE  Key(firstItem(T, c), c) \in KeyType
    <2>1. T[c].items \in Seq(KeyType) /\ Len(T[c].items) > 0 /\ c \in Nat /\ Len(T[c].items) \in Nat
      BY <1>1, <1>3, NodeFacts, RootPairNodes
    <2>2. T[c].items[1] \in KeyType
      BY <2>1
    <2> QED
      BY <2>1, <2>2 DEF Key, KeyType, firstItem
  <1>4. Key(firstItem(T, root), root) \in KeyType /\ Key(firstItem(T, right), right) \in KeyType
    BY <1>1, <1>3
  <1>5. /\ keys \in Seq(KeyType) /\ Len(keys) = 2 /\ DOMAIN keys = {1, 2}
        /\ keys[1] = Key(firstItem(T, root), root)
        /\ keys[2] = Key(firstItem(T, right), right)
    <2>1. Len(keys) = 2 /\ DOMAIN keys = 1 .. 2
      BY <1>2
    <2> QED
      BY <2>1, <1>2, <1>4
  <1>6. HasChildren(T, keys)
    BY <1>1, <1>5 DEF HasChildren, Key
  <1>7. T \in [DOMAIN T -> NodeType]
    BY <1>1 DEF Stored
  <1>8. PICK c, s : c = countOfAll(made, keys) /\ s = accumOfAll(made, keys)
    OBVIOUS
  <1>9. c = countOfAll(T, keys) /\ s = accumOfAll(T, keys)
    BY <1>1, <1>5, <1>8, SameCounts DEF Key
  <1>10. c \in Nat /\ s \in Nat
    BY <1>5, <1>6, <1>7, <1>9, CountType
  <1>11. At(made, new, <<>>, 0, 0, 0, 0)
    BY <1>1 DEF At, EmptyNode
  <1>12. N = refill(made, new, keys)
    BY <1>2
  <1>13. At(N, new, keys, 0, 0, c, s) /\ Elsewhere(made, N, new)
    BY <1>8, <1>11, <1>12, RefillAt
  <1>14. /\ N[new].items = keys /\ N[new].nextSibling = 0 /\ N[new].prevSibling = 0
         /\ N[new].accumCount = c /\ N[new].accum = s
    BY <1>13, AtParts
  <1>15. N[new] \in NodeType
    BY <1>5, <1>10, <1>13, AtType
  <1>16. DOMAIN N = DOMAIN T \cup {new} /\ \A a \in DOMAIN T : N[a] = T[a]
    BY <1>1, <1>13 DEF Elsewhere
  <1>17. N \in [DOMAIN N -> NodeType]
    <2>1. \A a \in DOMAIN N : N[a] \in NodeType
      BY <1>7, <1>15, <1>16
    <2>2. N = [a \in DOMAIN N |-> N[a]]
      BY DEF refill
    <2> QED
      BY <2>1, <2>2
  <1>18. Recorded(N, new)
    <2>1. \A i \in DOMAIN keys : /\ keys[i].nodeId \in DOMAIN T
                                 /\ keys[i].item = firstItem(T, keys[i].nodeId)
      BY <1>1, <1>5 DEF Key
    <2>2. \A a \in DOMAIN T : N[a] = T[a]
      BY <1>16
    <2>3. KeysFirst(N, keys, {})
      BY ONLY <2>1, <2>2 DEF KeysFirst, firstItem
    <2>4. \A i \in DOMAIN keys : keys[i].nodeId # 0 =>
             /\ N[keys[i].nodeId].accumCount = T[keys[i].nodeId].accumCount
             /\ N[keys[i].nodeId].accum = T[keys[i].nodeId].accum
      BY ONLY <2>1, <2>2
    <2>5. countOfAll(N, keys) = countOfAll(T, keys) /\ accumOfAll(N, keys) = accumOfAll(T, keys)
      BY ONLY <2>4, SameCounts
    <2> QED
      BY <2>3, <2>5, <1>9, <1>14 DEF Recorded
  <1>19. PICK h2 : h2 = [a \in DOMAIN N |-> IF a = new THEN h[root] + 1 ELSE h[a]]
    OBVIOUS
  <1>20. /\ h2 \in [DOMAIN N -> Nat] /\ h2[new] = h[root] + 1
         /\ \A a \in DOMAIN T : h2[a] = h[a]
    <2>1. \A a \in DOMAIN T : h[a] \in Nat
      BY <1>1, NodeFacts
    <2> QED
      BY <2>1, <1>1, <1>16, <1>19
  <1>21. N[new].items[1].nodeId = root /\ N[new].items[2].nodeId = right
    BY <1>5, <1>14 DEF Key
  <1> QED
    BY ZenonT(30), <1>5, <1>14, <1>16, <1>17, <1>18, <1>20, <1>21 DEF NewRoot

-----------------------------------------------------------------------------
(* The new root leaves the tree in shape.                                  *)

LEMMA InsertNewRootShape ==
    ASSUME NEW h, Shape(h), nextNodeId \in Nat \ {0},
           DOMAIN nodes \subseteq 1 .. nextNodeId - 1, InsertNewRoot
    PROVE  (\E h2 : Shape(h2)') /\ DOMAIN nodes' = DOMAIN nodes \cup {nextNodeId}
  <1>1. PICK T, N, root, right, new :
            /\ T = nodes /\ N = nodes' /\ root = rootNodeId
            /\ right = newKey.nodeId /\ new = nextNodeId
    OBVIOUS
  <1>2. running = "insert" /\ breadcrumbs = <<>> /\ pending /\ Return
    BY DEF InsertNewRoot
  <1>3. current = 0 /\ ahead = T
    BY <1>1, <1>2 DEF current, ahead
  <1>4. /\ Structure(T, h, 0) /\ Exact(T, 0) /\ Inserting(h)
        /\ \A item \in Items : item \in contents <=> InLeaf(T, h, item)
    BY <1>1, <1>2, <1>3 DEF Shape
  <1>5. SplitRoot(T, h, root, right) /\ root \in DOMAIN T
    BY <1>1, <1>2, <1>3, <1>4 DEF Inserting, SplitRoot
  <1>6. new \in Nat \ {0} /\ new \notin DOMAIN T
    BY <1>1
  <1>7. RootPair(T, h, root, right, new)
    BY <1>4, <1>5, <1>6 DEF RootPair, SplitRoot
  <1>8. PICK made : made = [id \in DOMAIN T \cup {new} |->
                               IF id \in DOMAIN T THEN T[id] ELSE EmptyNode]
    OBVIOUS
  <1>9. N = refill(made, new, <<Key(firstItem(T, root), root),
                                Key(firstItem(T, right), right)>>)
    BY <1>1, <1>8 DEF InsertNewRoot, makeNode
  <1>10. PICK h2 : NewRoot(T, N, h, h2, root, right, new)
    BY <1>7, <1>8, <1>9, NewRootMade
  <1>11. /\ Structure(N, h2, 0) /\ Exact(N, 0) /\ Stored(N, h2)
         /\ Rooted(N, h2, new)
         /\ \A item : InLeaf(T, h, item) <=> InLeaf(N, h2, item)
    BY <1>7, <1>10, NewRootWhole
  <1>12. nodes' = N /\ running' = "none" /\ breadcrumbs' = <<>>
         /\ oldNew' = 0 /\ newKey' = NoKey /\ ~pending' /\ ~neighbourRefreshNeeded'
         /\ contents' = contents
    BY <1>1, <1>2 DEF Return
  <1>13. rootNodeId' = new
    BY <1>1 DEF InsertNewRoot
  <1>14. \A item \in Items : item \in contents' <=> InLeaf(N, h2, item)
    BY <1>4, <1>11, <1>12
  <1>15. IF rootNodeId' = 0 THEN DOMAIN N = {} ELSE Rooted(N, h2, rootNodeId')
    BY <1>6, <1>11, <1>13
  <1>16. Shape(h2)'
    BY <1>11, <1>12, <1>14, <1>15, SoundShape
  <1>17. DOMAIN nodes' = DOMAIN nodes \cup {nextNodeId}
    BY <1>1, <1>10 DEF NewRoot
  <1> QED
    BY <1>16, <1>17

-----------------------------------------------------------------------------
(* eraseItem: the node with its keys and totals as they should be.         *)
LEMMA RemovedKeys ==
    ASSUME NEW h, Shape(h), running = "erase",
           NEW id, NEW K, Amid(h, id, K), NEW ns,
           ns = IF pending THEN [nodes EXCEPT ![id].items = RemoveAt(@, Crumb.index + 1)]
                ELSE nodes
    PROVE  Draft(nodes, ns, id, K, nodes[id].accumCount, nodes[id].accum)
  <1>1. PICK T : T = nodes
    OBVIOUS
  <1>2. T \in [DOMAIN T -> NodeType] /\ id \in DOMAIN T
    BY <1>1, AmidItems
  <1>3. K = keysAhead /\ id = current
    BY DEF Amid
  <1>4. Draft(T, T, id, T[id].items, T[id].accumCount, T[id].accum)
    BY <1>2, DraftFirst
  <1>5. CASE pending
    <2>1. K = RemoveAt(T[id].items, Crumb.index + 1)
      BY <1>1, <1>3, <1>5 DEF keysAhead
    <2>2. ns = [T EXCEPT ![id].items = K]
      BY <1>1, <1>2, <1>5, <2>1
    <2> QED
      BY <1>1, <1>4, <2>2, DraftKeys
  <1>6. CASE ~pending
    <2>1. K = T[id].items /\ ns = T
      BY <1>1, <1>3, <1>6 DEF keysAhead
    <2> QED
      BY <1>1, <1>4, <2>1
  <1> QED
    BY <1>5, <1>6

LEMMA RefreshedKeys ==
    ASSUME NEW T, NEW S, NEW id, NEW c, NEW s, NEW K \in Seq(KeyType), Draft(T, S, id, K, c, s),
           HasItems(T, id, K), NEW stale, KeysFirst(T, K, stale), NEW i \in Nat,
           NEW S2, S2 = IF i < Len(S[id].items) THEN refreshIndex(S, id, i) ELSE S
    PROVE  \E R2 : /\ Draft(T, S2, id, R2, c, s)
                   /\ PartFixed(T, K, R2, stale \ {i + 1})
  <1>1. PartFixed(T, K, K, stale)
    BY OwnKeysPart
  <1>2. S[id].items = K
    BY DraftParts
  <1>3. CASE i < Len(K)
    <2>1. S2 = refreshIndex(S, id, i) /\ i + 1 \in 1 .. Len(K)
      BY <1>2, <1>3
    <2> QED
      BY <2>1, <1>1, DraftRefresh
  <1>4. CASE ~(i < Len(K))
    <2>1. S2 = S
      BY <1>2, <1>4
    <2>2. i + 1 \notin DOMAIN K
      BY <1>4
    <2>3. KeysFirst(T, K, stale \ {i + 1})
      BY <2>2 DEF KeysFirst
    <2>4. PartFixed(T, K, K, stale \ {i + 1})
      BY <2>3, <1>1 DEF PartFixed
    <2> QED
      BY <2>1, <2>4
  <1> QED
    BY <1>3, <1>4

LEMMA RemovedFixed ==
    ASSUME NEW h, Shape(h), running = "erase",
           NEW id, NEW K, Amid(h, id, K), NEW N, N = removed
    PROVE  \E F : NodeFixed(nodes, N, id, K, F) /\ KeysFixed(nodes, K, F)
  <1>1. PICK T, i, item, ns, c0, s0, refreshed, again :
            /\ T = nodes /\ i = Crumb.index /\ item = oldNew
            /\ ns = IF pending THEN [nodes EXCEPT ![id].items = RemoveAt(@, Crumb.index + 1)]
                    ELSE nodes
            /\ c0 = nodes[id].accumCount /\ s0 = nodes[id].accum
            /\ refreshed = IF i < Len(ns[id].items) THEN refreshIndex(ns, id, i) ELSE ns
            /\ again = IF neighbourRefreshNeeded THEN refreshIndex(refreshed, id, i + 1)
                       ELSE refreshed
    OBVIOUS
  <1>2. /\ HasItems(T, id, K) /\ HasChildren(T, K)
        /\ T \in [DOMAIN T -> NodeType] /\ K \in Seq(KeyType)
        /\ Len(K) \in Nat /\ DOMAIN K = 1 .. Len(K) /\ id \in DOMAIN T
    BY <1>1, AmidItems
  <1>3. /\ oldNew \in Items
        /\ EraseKeys(T, id, i, K, item, pending, neighbourRefreshNeeded)
    BY <1>1, AmidErase
  <1>4. PICK stale : stale = {i + 1} \cup (IF neighbourRefreshNeeded THEN {i + 2} ELSE {})
    OBVIOUS
  <1>5. /\ KeysFirst(T, K, stale)
        /\ countOfAll(T, K) = c0 + (-1) /\ accumOfAll(T, K) = s0 + (-1) * item
        /\ neighbourRefreshNeeded => ~pending /\ i + 2 <= Len(T[id].items)
    BY <1>1, <1>3, <1>4 DEF EraseKeys, Counts
  <1>6. id = current /\ K = keysAhead /\ id = Crumb.nodeId /\ i \in Nat /\ Stored(T, h)
    <2>1. /\ breadcrumbs \in Seq(CrumbType) /\ Len(breadcrumbs) > 0
          /\ id = breadcrumbs[Len(breadcrumbs)].nodeId /\ Stored(T, h)
          /\ id = current /\ K = keysAhead
      BY <1>1 DEF Amid
    <2>2. Crumb = breadcrumbs[Len(breadcrumbs)]
      BY <2>1 DEF Crumb, Last
    <2>3. breadcrumbs[Len(breadcrumbs)] \in CrumbType
      BY <2>1
    <2> QED
      BY <2>1, <2>2, <2>3, <1>1 DEF CrumbType
  <1>7. neighbourRefreshNeeded => K = T[id].items
    BY <1>1, <1>5, <1>6 DEF keysAhead
  <1>8. Draft(T, ns, id, K, c0, s0)
    BY <1>1, RemovedKeys
  <1>9. PICK R1 : Draft(T, refreshed, id, R1, c0, s0) /\ PartFixed(T, K, R1, stale \ {i + 1})
    BY <1>1, <1>2, <1>5, <1>6, <1>8, RefreshedKeys
  <1>10. PICK R2, st : /\ Draft(T, again, id, R2, c0, s0) /\ PartFixed(T, K, R2, st)
                       /\ st = (stale \ {i + 1}) \ {i + 2}
    <2>1. CASE neighbourRefreshNeeded
      <3>1. PICK k : k = i + 1
        OBVIOUS
      <3>2. k \in Nat /\ k + 1 \in 1 .. Len(K) /\ k + 1 = i + 2
        BY <3>1, <2>1, <1>2, <1>5, <1>6, <1>7
      <3>3. again = refreshIndex(refreshed, id, k)
        BY <3>1, <2>1, <1>1
      <3>4. PICK st1 : st1 = stale \ {i + 1}
        OBVIOUS
      <3>5. PartFixed(T, K, R1, st1) /\ Draft(T, refreshed, id, R1, c0, s0)
            /\ HasItems(T, id, K) /\ K \in Seq(KeyType)
        BY <3>4, <1>2, <1>9
      <3>6. \E R2 : /\ Draft(T, again, id, R2, c0, s0)
                    /\ PartFixed(T, K, R2, st1 \ {k + 1})
        BY ONLY <3>2, <3>3, <3>5, DraftRefresh
      <3> QED
        BY <3>2, <3>4, <3>6
    <2>2. CASE ~neighbourRefreshNeeded
      <3>1. stale \ {i + 1} = (stale \ {i + 1}) \ {i + 2} /\ again = refreshed
        BY <2>2, <1>1, <1>4
      <3> QED
        BY <3>1, <1>9
    <2> QED
      BY <2>1, <2>2
  <1>11. st = {}
    BY <1>4, <1>10
  <1>12. KeysFixed(T, K, R2) /\ R2 \in Seq(KeyType)
    BY <1>2, <1>10, <1>11, AllFixed DEF PartFixed
  <1>13. N = addToNode(again, id, -1, -item)
    BY <1>1, <1>6 DEF removed
  <1>14. PICK c, s : c = c0 + (-1) /\ s = s0 + (-item)
    OBVIOUS
  <1>15. Draft(T, N, id, R2, c, s)
    BY <1>10, <1>13, <1>14, DraftAdd
  <1>16. c = countOfAll(T, K) /\ s = accumOfAll(T, K)
    <2>1. item \in Nat /\ s0 \in Nat
      BY <1>1, <1>2, <1>3, <1>6, NodeFacts, ItemsAssumption
    <2>2. (-1) * item = -item
      BY <2>1
    <2> QED
      BY <1>5, <1>14, <2>2
  <1>17. NodeFixed(T, N, id, K, R2)
    BY <1>2, <1>12, <1>15, <1>16, DraftFixed
  <1> QED
    BY <1>1, <1>12, <1>17

-----------------------------------------------------------------------------
(* The node id of T has lost an item, which makes R; it may have too few   *)
(* keys.  The node p above has not lost the item yet.                      *)
Thin(T, R, h, root, id, p, j, item) ==
    /\ Stored(T, h) /\ Exact(T, id) /\ id \in DOMAIN T
    /\ Structure(R, h, 0) /\ Rooted(R, h, root) /\ Recorded(R, id)
    /\ DOMAIN R = DOMAIN T
    /\ \A a \in DOMAIN T : a # id => R[a] = T[a]
    /\ R[id].nextSibling = T[id].nextSibling
    /\ Len(R[id].items) <= MAX_ITEMS
    /\ R[id].nextSibling # 0 => Len(R[id].items) >= 1
    /\ IF p = 0 THEN id = root
       ELSE KeyAbove(R, h, id, p, j) /\ ParentKeys(T, R, id, p, j, -1, item)

LEMMA ThinSize ==
    ASSUME NEW h, Shape(h), running = "erase",
           NEW id, NEW K, Amid(h, id, K), NEW F, KeysFixed(nodes, K, F)
    PROVE  /\ Len(F) <= MAX_ITEMS
           /\ nodes[id].nextSibling # 0 => Len(F) >= 1
  <1>1. PICK T, k, n, m : T = nodes /\ k = Crumb.index /\ n = Len(T[id].items) /\ m = Len(F)
    OBVIOUS
  <1>2. /\ Stored(T, h) /\ Exact(T, id) /\ id \in DOMAIN T /\ K = keysAhead /\ id = current
        /\ breadcrumbs \in Seq(CrumbType) /\ Len(breadcrumbs) > 0
        /\ id = breadcrumbs[Len(breadcrumbs)].nodeId
        /\ PathIn(T, breadcrumbs, rootNodeId, h)
    BY <1>1 DEF Amid
  <1>3. n \in 1 .. MAX_ITEMS /\ (T[id].nextSibling # 0 => n >= MIN_ITEMS)
    BY <1>1, <1>2 DEF Exact, Sized
  <1>4. m = Len(K)
    BY <1>1 DEF KeysFixed
  <1>5. m = n \/ m = n - 1
    <2>1. CASE ~pending
      BY <2>1, <1>1, <1>2, <1>4 DEF keysAhead
    <2>2. CASE pending
      <3>1. K = RemoveAt(T[id].items, k + 1)
        BY <2>2, <1>1, <1>2 DEF keysAhead
      <3>2. k \in Nat /\ k < n
        <4>1. PICK d : d = Len(breadcrumbs)
          OBVIOUS
        <4>2. d \in DOMAIN breadcrumbs /\ Crumb = breadcrumbs[d] /\ id = breadcrumbs[d].nodeId
          BY <4>1, <1>2 DEF Crumb, Last
        <4> QED
          BY <4>2, <1>1, <1>2 DEF PathIn
      <3>3. PICK i : i = k + 1
        OBVIOUS
      <3>4. T[id].items \in Seq(KeyType) /\ i \in 1 .. Len(T[id].items)
        BY <1>1, <1>2, <3>2, <3>3, NodeFacts
      <3>5. Removed(KeyType, T[id].items, i, K)
        BY <3>1, <3>3, <3>4, RemoveAtIs
      <3> QED
        BY <3>5, <1>1, <1>4 DEF Removed
    <2> QED
      BY <2>1, <2>2
  <1>6. MIN_ITEMS \in Nat /\ MIN_ITEMS >= 2 /\ MAX_ITEMS \in Nat
    BY Sizes
  <1>7. m <= MAX_ITEMS /\ (T[id].nextSibling # 0 => m >= 1)
    BY ONLY <1>3, <1>5, <1>6
  <1> QED
    BY <1>1, <1>7

LEMMA ThinIs ==
    ASSUME NEW h, Shape(h), running = "erase",
           NEW id, NEW K, Amid(h, id, K), NEW R, R = removed,
           NEW p, NEW j, AtTop(nodes, breadcrumbs, rootNodeId, h, id, p, j)
    PROVE  /\ Thin(nodes, R, h, rootNodeId, id, p, j, oldNew)
           /\ \A item \in Items : item \in contents <=> InLeaf(R, h, item)
  <1>1. PICK T, A, item, root : T = nodes /\ A = ahead /\ item = oldNew /\ root = rootNodeId
    OBVIOUS
  <1>2. /\ id # 0 /\ id \in DOMAIN T /\ K \in Seq(KeyType)
        /\ Rekeyed(T, A, id, K)
        /\ Structure(A, h, id) /\ Exact(T, id) /\ Stored(T, h)
        /\ Rooted(A, h, root)
        /\ \A x \in Items : x \in contents <=> InLeaf(A, h, x)
    BY <1>1 DEF Amid
  <1>3. PICK F : NodeFixed(T, R, id, K, F) /\ KeysFixed(T, K, F)
    BY <1>1, RemovedFixed
  <1>4. /\ Structure(R, h, 0)
        /\ \A x : InLeaf(A, h, x) <=> InLeaf(R, h, x)
        /\ Rooted(R, h, root)
    BY <1>2, <1>3, FixedWhole
  <1>5. Recorded(R, id)
    BY <1>2, <1>3, FixedRecorded
  <1>6. /\ DOMAIN R = DOMAIN T
        /\ \A a \in DOMAIN T : a # id => R[a] = T[a]
        /\ R[id].nextSibling = T[id].nextSibling /\ R[id].items = F
    BY <1>3 DEF NodeFixed
  <1>7. Len(R[id].items) <= MAX_ITEMS /\ (R[id].nextSibling # 0 => Len(R[id].items) >= 1)
    <2>1. KeysFixed(nodes, K, F)
      BY <1>1, <1>3
    <2>2. /\ Len(F) <= MAX_ITEMS
          /\ nodes[id].nextSibling # 0 => Len(F) >= 1
      BY <2>1, ThinSize
    <2> QED
      BY <2>2, <1>1, <1>6
  <1>8. AtTop(T, breadcrumbs, root, h, id, p, j)
    BY <1>1
  <1>9. CASE p = 0
    <2>1. id = root
      BY <1>8, <1>9 DEF AtTop
    <2> QED
      BY <2>1, <1>1, <1>2, <1>4, <1>5, <1>6, <1>7, <1>9 DEF Thin
  <1>10. CASE p # 0
    <2>1. KeyAbove(T, h, id, p, j)
      BY <1>8, <1>10 DEF AtTop, KeyAbove
    <2>2. KeyAbove(R, h, id, p, j)
      BY <2>1, <1>6 DEF KeyAbove
    <2>3. Counts(T, id, K, -1, item) /\ item \in Nat /\ -1 \in Int
      <3>1. /\ oldNew \in Items
            /\ EraseKeys(T, id, Crumb.index, K, item, pending, neighbourRefreshNeeded)
        BY <1>1, AmidErase
      <3> QED
        BY <3>1, <1>1, ItemsAssumption DEF EraseKeys
    <2>4. ParentKeys(T, R, id, p, j, -1, item)
      BY <2>1, <2>3, <1>2, <1>3, ParentFixed
    <2> QED
      BY <2>2, <2>4, <1>1, <1>2, <1>4, <1>5, <1>6, <1>7, <1>10 DEF Thin
  <1> QED
    BY <1>9, <1>10

-----------------------------------------------------------------------------
(* What a turn of eraseItem leaves: the node p above is about to have the  *)
(* keys K, which makes S.                                                  *)
KeysLeft(N, p, j, pend, K) ==
    K = IF pend THEN RemoveAt(N[p].items, j) ELSE N[p].items
Shrunk(N, S, K, h, root, p, j, item, pend, refresh) ==
    /\ KeysLeft(N, p, j, pend, K)
    /\ S = [N EXCEPT ![p].items = K]
    /\ Structure(S, h, p) /\ Exact(N, p) /\ Stored(N, h) /\ Rooted(S, h, root)
    /\ KeysFirst(N, K, {j} \cup (IF refresh THEN {j + 1} ELSE {}))
    /\ Counts(N, p, K, -1, item)
    /\ refresh => ~pend /\ j + 1 <= Len(N[p].items)
SameLeaves(cont, S, h) == \A item \in Items : item \in cont <=> InLeaf(S, h, item)

LEMMA EraseUpShape ==
    ASSUME NEW h, NEW id, NEW K, Amid(h, id, K), running = "erase",
           oldNew \in Items, newKey = NoKey,
           NEW p, NEW j, p # 0, AtTop(nodes, breadcrumbs, rootNodeId, h, id, p, j),
           NEW N, nodes' = N, NEW S, NEW K2, NEW h2,
           Shrunk(N, S, K2, h2, rootNodeId, p, j, oldNew, pending', neighbourRefreshNeeded'),
           SameLeaves(contents, S, h2), KeptAbove(nodes, N, h, h2, id),
           breadcrumbs' = Front(breadcrumbs),
           UNCHANGED <<rootNodeId, running, oldNew, newKey, contents>>
    PROVE  Shape(h2)'
  <1>1. PICK T, s, t, root, item, pend, refresh :
            /\ T = nodes /\ s = breadcrumbs /\ t = breadcrumbs' /\ root = rootNodeId
            /\ item = oldNew /\ pend = pending' /\ refresh = neighbourRefreshNeeded'
    OBVIOUS
  <1>2. /\ s \in Seq(CrumbType) /\ Len(s) > 0 /\ id = s[Len(s)].nodeId
        /\ Stored(T, h) /\ PathIn(T, s, root, h)
    BY <1>1 DEF Amid
  <1>3. AtTop(T, s, root, h, id, p, j)
    BY <1>1
  <1>4. t \in Seq(CrumbType) /\ Fronts(s, t) /\ t # <<>> /\ current' = p /\ Crumb'.index = j - 1
    BY <1>1, StepUp
  <1>5. KeptOver(T, N, h, h2, s)
    BY <1>1, <1>2 DEF KeptOver
  <1>6. PathIn(N, t, root, h2)
    BY <1>2, <1>4, <1>5, PathFront
  <1>7. /\ KeysLeft(N, p, j, pend, K2)
        /\ S = [N EXCEPT ![p].items = K2]
        /\ Structure(S, h2, p) /\ Exact(N, p) /\ Stored(N, h2) /\ Rooted(S, h2, root)
        /\ KeysFirst(N, K2, {j} \cup (IF refresh THEN {j + 1} ELSE {}))
        /\ Counts(N, p, K2, -1, item)
        /\ refresh => ~pend /\ j + 1 <= Len(N[p].items)
    BY <1>1 DEF Shrunk
  <1>8. \A x \in Items : x \in contents' <=> InLeaf(S, h2, x)
    BY DEF SameLeaves
  <1>9. Midway(N, h2, t, root, p, K2, contents')
    BY <1>6, <1>7, <1>8 DEF Midway
  <1>10. j \in Nat
    <2>1. j \in 1 .. Len(T[p].items) /\ p \in DOMAIN T
      BY <1>3 DEF AtTop
    <2>2. Len(T[p].items) \in Nat
      BY <2>1, <1>2, NodeFacts
    <2> QED
      BY <2>1, <2>2
  <1>11. (j - 1) + 1 = j /\ (j - 1) + 2 = j + 1
    BY <1>10
  <1>12. PICK k : k = j - 1
    OBVIOUS
  <1>13. k + 1 = j /\ k + 2 = j + 1
    BY <1>11, <1>12
  <1>14. EraseKeys(N, p, k, K2, item, pend, refresh)
    BY <1>7, <1>13 DEF EraseKeys
  <1>15. keysAhead' = K2
    <2>1. current' = p /\ Crumb'.index + 1 = j
      BY <1>4, <1>11
    <2>2. running' = "erase"
      OBVIOUS
    <2>3. keysAhead' = IF pending' THEN RemoveAt(nodes'[current'].items, Crumb'.index + 1)
                       ELSE nodes'[current'].items
      BY <2>2 DEF keysAhead
    <2> QED
      BY <2>1, <2>3, <1>1, <1>7 DEF KeysLeft
  <1>16. EraseKeys(N, p, Crumb'.index, K2, oldNew', pending', neighbourRefreshNeeded')
    BY <1>1, <1>4, <1>12, <1>14
  <1>17. running' = "erase" /\ oldNew' \in Items /\ newKey' = NoKey /\ nodes' = N /\ current' = p
         /\ Midway(N, h2, breadcrumbs', rootNodeId', p, K2, contents')
    BY <1>1, <1>4, <1>9
  <1> QED
    BY <1>15, <1>16, <1>17, MidwayErase

(* At the root.                                                            *)
LEMMA EraseTopShape ==
    ASSUME NEW h2, NEW N, nodes' = N, running' = "erase", oldNew' \in Items, newKey' = NoKey,
           breadcrumbs' = <<>>, ~neighbourRefreshNeeded',
           Structure(N, h2, 0), Exact(N, 0), Stored(N, h2),
           SameLeaves(contents', N, h2),
           IF pending' THEN DOMAIN N = {} ELSE Rooted(N, h2, rootNodeId')
    PROVE  Shape(h2)'
  <1>1. current' = 0 /\ ahead' = N
    BY DEF current, ahead
  <1>2. Erasing(h2)'
    BY <1>1 DEF Erasing
  <1>3. \A item \in Items : item \in contents' <=> InLeaf(N, h2, item)
    BY DEF SameLeaves
  <1> QED
    BY <1>1, <1>2, <1>3 DEF Shape

-----------------------------------------------------------------------------
(* The parts of a node that has lost an item.                              *)

LEMMA ThinParts ==
    ASSUME NEW T, NEW R, NEW h, NEW root, NEW id, NEW p, NEW j, NEW item,
           Thin(T, R, h, root, id, p, j, item)
    PROVE  /\ Stored(T, h) /\ Exact(T, id) /\ id \in DOMAIN T /\ id # 0
           /\ Structure(R, h, 0) /\ Stored(R, h) /\ Rooted(R, h, root) /\ Recorded(R, id)
           /\ DOMAIN R = DOMAIN T
           /\ \A a \in DOMAIN T : a # id => R[a] = T[a]
  BY NodeFacts DEF Thin, Structure

(* The node id is the child of p only.                                     *)
LEMMA ThinChild ==
    ASSUME NEW T, NEW R, NEW h, NEW root, NEW id, NEW p, NEW j, NEW item,
           Thin(T, R, h, root, id, p, j, item),
           NEW a \in DOMAIN R, NEW i \in DOMAIN R[a].items, R[a].items[i].nodeId = id
    PROVE  p # 0 /\ a = p /\ i = j
  <1>1. Structure(R, h, 0) /\ Stored(R, h) /\ Rooted(R, h, root) /\ id # 0
    BY ThinParts
  <1>2. IsChild(R, id)
    BY DEF IsChild
  <1>3. p # 0
    <2>1. p = 0 => id = root
      BY DEF Thin
    <2> QED
      BY <2>1, <1>1, <1>2, RootNoChild
  <1>4. KeyAbove(R, h, id, p, j)
    BY <1>3 DEF Thin
  <1>5. p \in DOMAIN R /\ j \in 1 .. Len(R[p].items) /\ R[p].items[j].nodeId = id
    BY <1>4 DEF KeyAbove
  <1>6. i \in 1 .. Len(R[a].items) /\ OneParent(R)
    BY <1>1, NodeFacts DEF Structure
  <1>7. a = p /\ i = j
    BY <1>1, <1>5, <1>6, OtherChild
  <1> QED
    BY <1>3, <1>7

(* What other nodes record does not change. *)
LEMMA ThinStill ==
    ASSUME NEW T, NEW R, NEW h, NEW root, NEW id, NEW p, NEW j, NEW item,
           Thin(T, R, h, root, id, p, j, item)
    PROVE  StillExact(T, R, id, p, {id})
  <1>1. /\ Stored(T, h) /\ Structure(R, h, 0) /\ DOMAIN R = DOMAIN T
        /\ \A a \in DOMAIN T : a # id => R[a] = T[a]
    BY ThinParts
  <1>2. ASSUME NEW a \in DOMAIN R \ {id}
        PROVE  /\ Untouched(T, R, a) /\ a # id
               /\ a # p => \A i \in DOMAIN T[a].items :
                     \/ T[a].items[i].nodeId = 0
                     \/ T[a].items[i].nodeId \in DOMAIN R \ {id}
    <2>1. a \in DOMAIN T /\ R[a] = T[a] /\ a # id
      BY <1>1, <1>2
    <2>2. Untouched(T, R, a)
      BY <2>1 DEF Untouched
    <2>3. ASSUME a # p, NEW i \in DOMAIN R[a].items, R[a].items[i].nodeId # 0
          PROVE  R[a].items[i].nodeId \in DOMAIN R \ {id}
      <3>1. R[a].items[i].nodeId # id
        BY <1>2, <2>3, ThinChild
      <3>2. R[a].items[i].nodeId \in DOMAIN R
        BY <1>1, <1>2, <2>3 DEF Structure, LevelsAt
      <3> QED
        BY <3>1, <3>2
    <2> QED
      BY <2>1, <2>2, <2>3
  <1> QED
    BY <1>2 DEF StillExact

(* A node that is left alone.                                              *)
LEMMA AloneExact ==
    ASSUME NEW T, NEW R, NEW h, NEW root, NEW id, NEW p, NEW j, NEW item,
           Thin(T, R, h, root, id, p, j, item), Sized(R[id])
    PROVE  Exact(R, p)
  <1>1. Exact(T, id) /\ Recorded(R, id)
    BY ThinParts
  <1>2. StillExact(T, R, id, p, {id})
    BY ThinStill
  <1>3. NewlyExact(R, p, {id})
    BY <1>1 DEF NewlyExact
  <1> QED
    BY <1>1, <1>2, <1>3, ExactAfter

LEMMA AloneShrinks ==
    ASSUME NEW T, NEW R, NEW h, NEW root, NEW id, NEW p, NEW j, NEW item,
           Thin(T, R, h, root, id, p, j, item), Sized(R[id]), p # 0
    PROVE  /\ Shrunk(R, R, R[p].items, h, root, p, j, item, FALSE, FALSE)
           /\ KeptAbove(T, R, h, h, id)
  <1>1. /\ Stored(T, h) /\ Stored(R, h) /\ Structure(R, h, 0) /\ Rooted(R, h, root)
        /\ DOMAIN R = DOMAIN T /\ id \in DOMAIN T
        /\ \A a \in DOMAIN T : a # id => R[a] = T[a]
    BY ThinParts
  <1>2. KeyAbove(R, h, id, p, j) /\ ParentKeys(T, R, id, p, j, -1, item)
    BY DEF Thin
  <1>3. p \in DOMAIN R /\ p # id
    BY <1>2 DEF KeyAbove
  <1>4. T[p] = R[p]
    BY <1>1, <1>3
  <1>5. PICK keys : keys = R[p].items
    OBVIOUS
  <1>6. KeysFirst(R, keys, {j}) /\ Counts(R, p, keys, -1, item)
    BY <1>2, <1>4, <1>5 DEF ParentKeys
  <1>7. R = [R EXCEPT ![p].items = keys]
    <2>1. R[p] \in NodeType
      BY <1>1, <1>3 DEF Stored
    <2>2. [R[p] EXCEPT !.items = keys] = R[p]
      BY <2>1, <1>5 DEF NodeType
    <2>3. R = [a \in DOMAIN R |-> R[a]]
      BY <1>1 DEF Stored
    <2> QED
      BY <1>3, <2>2, <2>3
  <1>8. Structure(R, h, p)
    BY <1>1 DEF Structure
  <1>9. Exact(R, p)
    BY AloneExact
  <1>10. KeysLeft(R, p, j, FALSE, keys)
    BY <1>5 DEF KeysLeft
  <1>11. Shrunk(R, R, keys, h, root, p, j, item, FALSE, FALSE)
    BY <1>1, <1>6, <1>7, <1>8, <1>9, <1>10 DEF Shrunk
  <1>12. KeptAbove(T, R, h, h, id)
    <2>1. ASSUME NEW a \in DOMAIN T, h[a] > h[id]
          PROVE  a \in DOMAIN R /\ R[a] = T[a]
      <3>1. a # id
        BY <2>1, <1>1, NodeFacts
      <3> QED
        BY <3>1, <1>1
    <2> QED
      BY <2>1 DEF KeptAbove
  <1> QED
    BY <1>5, <1>11, <1>12

-----------------------------------------------------------------------------
(* Links that are set, and the node that is taken out between x and y.     *)
Stores(S) == S \in [DOMAIN S -> NodeType] /\ 0 \notin DOMAIN S
SameRecords(S, N, id) ==
    /\ N[id].items = S[id].items
    /\ N[id].accumCount = S[id].accumCount /\ N[id].accum = S[id].accum
NextSet(S, N, x, y) ==
    /\ Stores(N) /\ DOMAIN N = DOMAIN S
    /\ \A a \in DOMAIN S :
          /\ SameRecords(S, N, a)
          /\ N[a].nextSibling = IF a = x THEN y ELSE S[a].nextSibling
          /\ N[a].prevSibling = S[a].prevSibling
PrevSet(S, N, x, y) ==
    /\ Stores(N) /\ DOMAIN N = DOMAIN S
    /\ \A a \in DOMAIN S :
          /\ SameRecords(S, N, a)
          /\ N[a].nextSibling = S[a].nextSibling
          /\ N[a].prevSibling = IF a = y THEN x ELSE S[a].prevSibling
LinkedPast(S, N, x, y) ==
    /\ Stores(N) /\ DOMAIN N = DOMAIN S
    /\ \A a \in DOMAIN S :
          /\ SameRecords(S, N, a)
          /\ N[a].nextSibling = IF a = x THEN y ELSE S[a].nextSibling
          /\ N[a].prevSibling = IF a = y THEN x ELSE S[a].prevSibling
Between(S, x, y) ==
    /\ Stores(S) /\ x \in Nat /\ y \in Nat
    /\ x # 0 => x \in DOMAIN S
    /\ y # 0 => y \in DOMAIN S

LEMMA SetNextIs ==
    ASSUME NEW S, NEW x, NEW y, Between(S, x, y), NEW N, N = setNext(S, x, y)
    PROVE  NextSet(S, N, x, y)
  <1>1. /\ S \in [DOMAIN S -> NodeType] /\ 0 \notin DOMAIN S /\ x \in Nat /\ y \in Nat
        /\ x # 0 => x \in DOMAIN S
    BY DEF Between, Stores
  <1>2. CASE x = 0
    <2>1. N = S
      BY <1>2 DEF setNext
    <2> QED
      BY <1>1, <1>2, <2>1 DEF NextSet, Stores, SameRecords
  <1>3. CASE x # 0
    <2>1. N = [S EXCEPT ![x].nextSibling = y]
      BY <1>3 DEF setNext
    <2>2. S[x] \in NodeType
      BY <1>1, <1>3
    <2>3. [S[x] EXCEPT !.nextSibling = y] \in NodeType
      BY <1>1, <2>2 DEF NodeType
    <2>4. N = [S EXCEPT ![x] = [S[x] EXCEPT !.nextSibling = y]]
      BY <1>1, <1>3, <2>1
    <2>5. N \in [DOMAIN S -> NodeType] /\ DOMAIN N = DOMAIN S
      BY <1>1, <2>3, <2>4
    <2>6. N[x] = [S[x] EXCEPT !.nextSibling = y] /\ \A a \in DOMAIN S : a # x => N[a] = S[a]
      BY <1>1, <1>3, <2>4
    <2>7. SameRecords(S, N, x) /\ N[x].nextSibling = y /\ N[x].prevSibling = S[x].prevSibling
      BY <2>2, <2>6 DEF NodeType, SameRecords
    <2> QED
      BY <1>1, <2>5, <2>6, <2>7 DEF NextSet, Stores, SameRecords
  <1> QED
    BY <1>2, <1>3

LEMMA SetPrevIs ==
    ASSUME NEW S, NEW x, NEW y, Between(S, x, y), NEW N, N = setPrev(S, y, x)
    PROVE  PrevSet(S, N, x, y)
  <1>1. /\ S \in [DOMAIN S -> NodeType] /\ 0 \notin DOMAIN S /\ x \in Nat /\ y \in Nat
        /\ y # 0 => y \in DOMAIN S
    BY DEF Between, Stores
  <1>2. CASE y = 0
    <2>1. N = S
      BY <1>2 DEF setPrev
    <2> QED
      BY <1>1, <1>2, <2>1 DEF PrevSet, Stores, SameRecords
  <1>3. CASE y # 0
    <2>1. N = [S EXCEPT ![y].prevSibling = x]
      BY <1>3 DEF setPrev
    <2>2. S[y] \in NodeType
      BY <1>1, <1>3
    <2>3. [S[y] EXCEPT !.prevSibling = x] \in NodeType
      BY <1>1, <2>2 DEF NodeType
    <2>4. N = [S EXCEPT ![y] = [S[y] EXCEPT !.prevSibling = x]]
      BY <1>1, <1>3, <2>1
    <2>5. N \in [DOMAIN S -> NodeType] /\ DOMAIN N = DOMAIN S
      BY <1>1, <2>3, <2>4
    <2>6. N[y] = [S[y] EXCEPT !.prevSibling = x] /\ \A a \in DOMAIN S : a # y => N[a] = S[a]
      BY <1>1, <1>3, <2>4
    <2>7. SameRecords(S, N, y) /\ N[y].prevSibling = x /\ N[y].nextSibling = S[y].nextSibling
      BY <2>2, <2>6 DEF NodeType, SameRecords
    <2> QED
      BY <1>1, <2>5, <2>6, <2>7 DEF PrevSet, Stores, SameRecords
  <1> QED
    BY <1>2, <1>3

LEMMA NextThenPrev ==
    ASSUME NEW S, NEW x, NEW y, Between(S, x, y), NEW N,
           N = setPrev(setNext(S, x, y), y, x)
    PROVE  LinkedPast(S, N, x, y)
  <1>1. PICK M : M = setNext(S, x, y)
    OBVIOUS
  <1>2. NextSet(S, M, x, y)
    BY <1>1, SetNextIs
  <1>3. Between(M, x, y)
    BY <1>2 DEF NextSet, Between
  <1>4. N = setPrev(M, y, x)
    BY <1>1
  <1>5. PrevSet(M, N, x, y)
    BY <1>3, <1>4, SetPrevIs
  <1> QED
    BY <1>2, <1>5 DEF NextSet, PrevSet, LinkedPast, SameRecords

LEMMA PrevThenNext ==
    ASSUME NEW S, NEW x, NEW y, Between(S, x, y), NEW N,
           N = setNext(setPrev(S, y, x), x, y)
    PROVE  LinkedPast(S, N, x, y)
  <1>1. PICK M : M = setPrev(S, y, x)
    OBVIOUS
  <1>2. PrevSet(S, M, x, y)
    BY <1>1, SetPrevIs
  <1>3. Between(M, x, y)
    BY <1>2 DEF PrevSet, Between
  <1>4. N = setNext(M, x, y)
    BY <1>1
  <1>5. NextSet(M, N, x, y)
    BY <1>3, <1>4, SetNextIs
  <1> QED
    BY <1>2, <1>5 DEF NextSet, PrevSet, LinkedPast, SameRecords

LEMMA PastTwice ==
    ASSUME NEW S, NEW M, NEW N, NEW x, NEW y, LinkedPast(S, M, x, y), LinkedPast(M, N, x, y)
    PROVE  LinkedPast(S, N, x, y)
  BY DEF LinkedPast, SameRecords

TakenOut(S, N, id, x, y) ==
    /\ Stores(N) /\ DOMAIN N = DOMAIN S \ {id}
    /\ \A a \in DOMAIN N :
          /\ SameRecords(S, N, a)
          /\ N[a].nextSibling = IF a = x THEN y ELSE S[a].nextSibling
          /\ N[a].prevSibling = IF a = y THEN x ELSE S[a].prevSibling

LEMMA PastOut ==
    ASSUME NEW S, NEW M, NEW x, NEW y, LinkedPast(S, M, x, y), NEW id,
           NEW N, N = deleteNode(M, id)
    PROVE  TakenOut(S, N, id, x, y)
  <1>1. /\ M \in [DOMAIN M -> NodeType] /\ 0 \notin DOMAIN M /\ DOMAIN M = DOMAIN S
        /\ \A a \in DOMAIN S :
              /\ SameRecords(S, M, a)
              /\ M[a].nextSibling = IF a = x THEN y ELSE S[a].nextSibling
              /\ M[a].prevSibling = IF a = y THEN x ELSE S[a].prevSibling
    BY DEF LinkedPast, Stores
  <1>2. N = [a \in DOMAIN M \ {id} |-> M[a]]
    BY DEF deleteNode
  <1>3. DOMAIN N = DOMAIN S \ {id} /\ \A a \in DOMAIN N : N[a] = M[a]
    BY <1>1, <1>2
  <1>4. Stores(N)
    BY <1>1, <1>2, <1>3 DEF Stores
  <1> QED
    BY <1>1, <1>3, <1>4 DEF TakenOut, SameRecords

LEMMA UnlinkIs ==
    ASSUME NEW S, NEW id, NEW x, NEW y, Between(S, x, y),
           S[id].prevSibling = x, S[id].nextSibling = y, NEW N, N = unlink(S, id)
    PROVE  TakenOut(S, N, id, x, y)
  <1>1. PICK M : M = setPrev(setNext(S, x, y), y, x)
    OBVIOUS
  <1>2. LinkedPast(S, M, x, y)
    BY <1>1, NextThenPrev
  <1>3. N = deleteNode(M, id)
    BY <1>1 DEF unlink
  <1> QED
    BY <1>2, <1>3, PastOut

-----------------------------------------------------------------------------
(* The node above one that has lost an item.                               *)
LEMMA ThinAbove ==
    ASSUME NEW T, NEW R, NEW h, NEW root, NEW id, NEW p, NEW j, NEW item,
           Thin(T, R, h, root, id, p, j, item), p # 0
    PROVE  /\ KeyAbove(R, h, id, p, j) /\ ParentKeys(T, R, id, p, j, -1, item)
           /\ p \in DOMAIN R /\ p # id /\ R[p] = T[p] /\ Sized(R[p])
           /\ h[p] = h[id] + 1 /\ h[id] \in Nat /\ h[p] \in Nat
           /\ R[p].items \in Seq(KeyType) /\ Len(R[p].items) \in Nat
           /\ DOMAIN R[p].items = 1 .. Len(R[p].items)
           /\ j \in 1 .. Len(R[p].items) /\ R[p].items[j].nodeId = id
  <1>1. KeyAbove(R, h, id, p, j) /\ ParentKeys(T, R, id, p, j, -1, item)
    BY DEF Thin
  <1>2. /\ Stored(T, h) /\ Exact(T, id) /\ id \in DOMAIN T /\ Stored(R, h)
        /\ DOMAIN R = DOMAIN T
        /\ \A a \in DOMAIN T : a # id => R[a] = T[a]
    BY ThinParts
  <1>3. /\ p \in DOMAIN R /\ p # id /\ h[p] = h[id] + 1
        /\ j \in 1 .. Len(R[p].items) /\ R[p].items[j].nodeId = id
    BY <1>1 DEF KeyAbove
  <1>4. R[p] = T[p] /\ Sized(R[p])
    BY <1>2, <1>3 DEF Exact
  <1>5. /\ R[p].items \in Seq(KeyType) /\ Len(R[p].items) \in Nat
        /\ DOMAIN R[p].items = 1 .. Len(R[p].items)
        /\ h[id] \in Nat /\ h[p] \in Nat
    BY <1>2, <1>3, NodeFacts
  <1> QED
    BY <1>1, <1>3, <1>4, <1>5

(* The last node of a level. *)
LEMMA OnlyChildLast ==
    ASSUME NEW T, NEW R, NEW h, NEW root, NEW id, NEW p, NEW j, NEW item,
           Thin(T, R, h, root, id, p, j, item),
           p # 0 => Len(R[p].items) = 1
    PROVE  /\ R[id].nextSibling = 0
           /\ p # 0 => j = 1 /\ R[p].nextSibling = 0
  <1>1. CASE p = 0
    BY <1>1 DEF Thin, Rooted
  <1>2. CASE p # 0
    <2>1. /\ p \in DOMAIN R /\ Sized(R[p]) /\ h[p] = h[id] + 1 /\ h[id] \in Nat
          /\ j \in 1 .. Len(R[p].items) /\ R[p].items[j].nodeId = id
          /\ DOMAIN R[p].items = 1 .. Len(R[p].items)
      BY <1>2, ThinAbove
    <2>2. Len(R[p].items) = 1
      BY <1>2
    <2>3. R[p].nextSibling = 0
      BY <2>1, <2>2, Sizes DEF Sized
    <2>4. j = 1
      BY <2>1, <2>2
    <2>5. AdjacentAt(R, h, p)
      BY <2>1, ThinParts DEF Structure
    <2>6. R[id].nextSibling = nextKey(R, p, j).nodeId
      BY <2>1, <2>5 DEF AdjacentAt
    <2>7. nextKey(R, p, j) = none
      BY <2>2, <2>3, <2>4 DEF nextKey, firstKey
    <2>8. none.nodeId = 0
      BY DEF none, Key
    <2> QED
      BY <2>3, <2>4, <2>6, <2>7, <2>8
  <1> QED
    BY <1>1, <1>2

LEMMA SizedAlone ==
    ASSUME NEW T, NEW R, NEW h, NEW root, NEW id, NEW p, NEW j, NEW item,
           Thin(T, R, h, root, id, p, j, item), R[id].items # <<>>,
           \/ Len(R[id].items) >= MIN_ITEMS
           \/ p # 0 => Len(R[p].items) = 1
    PROVE  Sized(R[id])
  <1>1. id \in DOMAIN R /\ Stored(R, h)
    BY ThinParts
  <1>2. R[id].items \in Seq(KeyType) /\ Len(R[id].items) \in Nat
    BY <1>1, NodeFacts
  <1>3. Len(R[id].items) # 0
    BY <1>2
  <1>4. Len(R[id].items) <= MAX_ITEMS
    BY DEF Thin
  <1>5. Len(R[id].items) \in 1 .. MAX_ITEMS
    BY <1>2, <1>3, <1>4, Sizes
  <1>6. R[id].nextSibling # 0 => Len(R[id].items) >= MIN_ITEMS
    BY OnlyChildLast
  <1> QED
    BY <1>5, <1>6 DEF Sized

(* A root that has lost its last key was the last node.                    *)
LEMMA EmptyRoot ==
    ASSUME NEW T, NEW R, NEW h, NEW root, NEW id, NEW p, NEW j, NEW item, p = 0,
           Thin(T, R, h, root, id, p, j, item), R[id].items = <<>>
    PROVE  \A a \in DOMAIN R : a = id
  <1>1. /\ id \in DOMAIN R /\ Stored(R, h) /\ Structure(R, h, 0) /\ Rooted(R, h, root)
        /\ id = root
    BY ThinParts DEF Thin
  <1>2. SUFFICES ASSUME NEW a \in DOMAIN R, a # id
                 PROVE  FALSE
    BY <1>1
  <1>3. \A b \in DOMAIN R : h[b] \in Nat
    BY <1>1, NodeFacts
  <1>4. \A b \in DOMAIN R \ {id} : h[b] < h[id] /\ IsChild(R, b)
    BY <1>1 DEF Rooted
  <1> DEFINE D == {n \in Nat : \E b \in DOMAIN R \ {id} : h[id] = h[b] + n}
  <1>5. D # {}
    <2>1. h[id] - h[a] \in Nat /\ h[id] = h[a] + (h[id] - h[a])
      BY <1>1, <1>2, <1>3, <1>4
    <2> QED
      BY <2>1, <1>2
  <1>6. D \subseteq Nat
    OBVIOUS
  <1>7. \E m \in D : \A k \in D : m <= k
    <2> HIDE DEF D
    <2> QED
      BY <1>5, <1>6, LeastNumber
  <1>8. PICK m \in D : \A k \in D : m <= k
    BY <1>7
  <1>9. PICK b \in DOMAIN R \ {id} : h[id] = h[b] + m
    BY <1>8
  <1>10. PICK c \in DOMAIN R : \E i \in DOMAIN R[c].items : R[c].items[i].nodeId = b
    BY <1>4, <1>9 DEF IsChild
  <1>11. PICK i \in DOMAIN R[c].items : R[c].items[i].nodeId = b
    BY <1>10
  <1>12. c # id
    BY <1>11
  <1>13. h[b] = h[c] - 1
    <2>1. LevelsAt(R, h, c)
      BY <1>1 DEF Structure
    <2>2. b # 0
      BY <1>1, <1>9, NodeFacts
    <2> QED
      BY <2>1, <2>2, <1>11 DEF LevelsAt
  <1>14. h[c] \in Nat /\ h[b] \in Nat /\ h[id] \in Nat /\ m \in Nat /\ h[c] < h[id]
    BY <1>1, <1>3, <1>4, <1>6, <1>8, <1>9, <1>12
  <1>15. m - 1 \in Nat /\ h[id] = h[c] + (m - 1)
    BY <1>9, <1>13, <1>14
  <1>16. m - 1 \in D
    BY <1>12, <1>15
  <1>17. m <= m - 1
    <2> HIDE DEF D
    <2> QED
      BY <1>8, <1>16
  <1> QED
    BY <1>14, <1>17

LEMMA EmptyRootGone ==
    ASSUME NEW T, NEW R, NEW h, NEW root, NEW id, NEW p, NEW j, NEW item, NEW cont,
           p = 0, Thin(T, R, h, root, id, p, j, item), R[id].items = <<>>,
           SameLeaves(cont, R, h), NEW N, N = unlink(R, id)
    PROVE  /\ DOMAIN N = {} /\ Structure(N, <<>>, 0) /\ Exact(N, 0) /\ Stored(N, <<>>)
           /\ SameLeaves(cont, N, <<>>)
  <1>1. /\ id \in DOMAIN R /\ Stored(R, h) /\ Rooted(R, h, root) /\ id = root
    BY ThinParts DEF Thin
  <1>2. R[id].nextSibling = 0 /\ R[id].prevSibling = 0
    BY <1>1 DEF Rooted
  <1>3. Between(R, 0, 0)
    BY <1>1 DEF Between, Stores, Stored
  <1>4. PICK zero : zero = 0
    OBVIOUS
  <1>5. TakenOut(R, N, id, zero, zero)
    BY <1>2, <1>3, <1>4, UnlinkIs
  <1>0. \A a \in DOMAIN R : a = id
    BY EmptyRoot
  <1>6. DOMAIN N = {} /\ N \in [DOMAIN N -> NodeType]
    BY <1>0, <1>5 DEF TakenOut, Stores
  <1>7. Stored(N, <<>>)
    BY <1>6 DEF Stored
  <1>8. Structure(N, <<>>, 0)
    BY <1>6, <1>7 DEF Structure, OneParent
  <1>9. Exact(N, 0)
    BY <1>6 DEF Exact
  <1>10. \A x : ~InLeaf(R, h, x)
    BY <1>0 DEF InLeaf
  <1>11. \A x : ~InLeaf(N, <<>>, x)
    BY <1>6 DEF InLeaf
  <1> QED
    BY <1>6, <1>7, <1>8, <1>9, <1>10, <1>11 DEF SameLeaves

-----------------------------------------------------------------------------
(* A node is taken out: the node dropped.                                  *)
SameLinks(T, S) ==
    /\ DOMAIN S = DOMAIN T
    /\ \A a \in DOMAIN T : /\ S[a].nextSibling = T[a].nextSibling
                           /\ S[a].prevSibling = T[a].prevSibling
LevelLeft(S, h, h2) == h2 = [a \in DOMAIN S |-> h[a]]
LEMMA TakenDropped ==
    ASSUME NEW T, NEW h, Structure(T, h, 0), NEW S, SameLinks(T, S),
           NEW id \in DOMAIN T, NEW x, NEW y,
           T[id].prevSibling = x, T[id].nextSibling = y,
           NEW N, TakenOut(S, N, id, x, y), NEW N2, SameLinks(N, N2),
           NEW h2, LevelLeft(N2, h, h2)
    PROVE  NodeDropped(T, N2, h, h2, id)
  <1>1. DOMAIN N2 = DOMAIN T \ {id}
    BY DEF SameLinks, TakenOut
  <1>2. ASSUME NEW a \in DOMAIN N2
        PROVE  /\ h2[a] = h[a]
               /\ N2[a].nextSibling = IF a = x THEN y ELSE T[a].nextSibling
               /\ N2[a].prevSibling = IF a = y THEN x ELSE T[a].prevSibling
    BY <1>1, <1>2 DEF SameLinks, TakenOut, LevelLeft
  <1>3. ASSUME NEW a \in DOMAIN N2
        PROVE  (T[a].nextSibling = id <=> a = x) /\ (T[a].prevSibling = id <=> a = y)
    <2>1. a \in DOMAIN T /\ a # 0 /\ id # 0
      BY <1>1, <1>3, NodeFacts DEF Structure
    <2>2. LinkedAt(T, h, a) /\ LinkedAt(T, h, id)
      BY <2>1 DEF Structure
    <2> QED
      BY <2>1, <2>2 DEF LinkedAt
  <1> QED
    BY <1>1, <1>2, <1>3 DEF NodeDropped

(* What nodes above record, when the nodes M under p are made anew.        *)
Others(R, N, id, M) ==
    /\ DOMAIN N \ M = DOMAIN R \ ({id} \cup M)
    /\ \A a \in DOMAIN N \ M :
          /\ SameRecords(R, N, a)
          /\ N[a].nextSibling # 0 => R[a].nextSibling # 0
UnderKeys(R, h, p, M) == \A m \in M : m # 0 /\ \E i : KeyAbove(R, h, m, p, i)
LEMMA OthersStill ==
    ASSUME NEW T, NEW R, NEW h, NEW root, NEW id, NEW p, NEW j, NEW item,
           Thin(T, R, h, root, id, p, j, item), p # 0,
           NEW N, NEW M, Others(R, N, id, M), UnderKeys(R, h, p, M)
    PROVE  StillExact(T, N, id, p, M)
  <1>1. /\ Stored(T, h) /\ Structure(R, h, 0) /\ Stored(R, h) /\ DOMAIN R = DOMAIN T
        /\ \A a \in DOMAIN T : a # id => R[a] = T[a]
    BY ThinParts
  <1>2. ASSUME NEW a \in DOMAIN N \ M
        PROVE  /\ Untouched(T, N, a) /\ a # id
               /\ a # p => \A i \in DOMAIN T[a].items :
                     \/ T[a].items[i].nodeId = 0
                     \/ T[a].items[i].nodeId \in DOMAIN N \ M
    <2>1. a \in DOMAIN R \ ({id} \cup M)
      BY <1>2 DEF Others
    <2>2. a \in DOMAIN T /\ R[a] = T[a] /\ a # id
      BY <1>1, <2>1
    <2>3. SameRecords(R, N, a) /\ (N[a].nextSibling # 0 => R[a].nextSibling # 0)
      BY <1>2 DEF Others
    <2>4. Untouched(T, N, a)
      BY <2>2, <2>3 DEF Untouched, SameRecords
    <2>5. ASSUME a # p, NEW i \in DOMAIN R[a].items, R[a].items[i].nodeId # 0
          PROVE  R[a].items[i].nodeId \in DOMAIN N \ M
      <3>1. R[a].items[i].nodeId # id
        BY <1>1, <2>2, <2>5, ThinChild
      <3>2. R[a].items[i].nodeId \in DOMAIN R
        BY <1>1, <2>2, <2>5 DEF Structure, LevelsAt
      <3>3. ASSUME R[a].items[i].nodeId \in M
            PROVE  FALSE
        <4>1. PICK k : KeyAbove(R, h, R[a].items[i].nodeId, p, k)
          BY <3>3 DEF UnderKeys
        <4>2. p \in DOMAIN R /\ k \in 1 .. Len(R[p].items)
              /\ R[p].items[k].nodeId = R[a].items[i].nodeId
          BY <4>1 DEF KeyAbove
        <4>3. OneParent(R) /\ a \in DOMAIN R /\ i \in 1 .. Len(R[a].items)
          BY <1>1, <2>2, <2>5, NodeFacts DEF Structure
        <4>4. a = p
          BY <1>1, <2>5, <4>2, <4>3, OtherChild
        <4> QED
          BY <2>5, <4>4
      <3> QED
        BY <3>1, <3>2, <3>3 DEF Others
    <2> QED
      BY <2>2, <2>4, <2>5
  <1> QED
    BY <1>2 DEF StillExact

(* Every node but the root stays the child of another one. *)
ChildrenStay(R, S, p) ==
    \A a \in DOMAIN R \ {p} : \A i \in DOMAIN R[a].items : IsChild(S, R[a].items[i].nodeId)
LEMMA DroppedRooted ==
    ASSUME NEW R, NEW S, NEW h, NEW h2, NEW root, Structure(R, h, 0), Rooted(R, h, root),
           NEW id, NodeDropped(R, S, h, h2, id), NEW p, NEW j, p # 0,
           KeyDropped(R, S, h, id, p, j), ChildrenStay(R, S, p)
    PROVE  Rooted(S, h2, root)
  <1>1. /\ Stored(R, h) /\ id \in DOMAIN R /\ DOMAIN S = DOMAIN R \ {id} /\ id # 0
        /\ \A a \in DOMAIN R : h[a] \in Nat
    BY NodeFacts DEF Structure, NodeDropped
  <1>2. /\ p \in DOMAIN R /\ h[p] = h[id] + 1 /\ j \in 1 .. Len(R[p].items)
        /\ R[p].items[j].nodeId = id /\ S[p].items = RemoveAt(R[p].items, j)
    BY DEF KeyDropped
  <1>3. /\ root \in DOMAIN R /\ R[root].nextSibling = 0 /\ R[root].prevSibling = 0
        /\ \A a \in DOMAIN R \ {root} : h[a] < h[root] /\ IsChild(R, a)
    BY DEF Rooted
  <1>4. root # id
    BY <1>1, <1>2, <1>3
  <1>5. /\ root \in DOMAIN S
        /\ S[root].nextSibling = 0 /\ S[root].prevSibling = 0 /\ h2[root] = h[root]
    BY <1>1, <1>3, <1>4 DEF NodeDropped
  <1>6. p \in DOMAIN S
    <2>1. p # id
      BY <1>1, <1>2
    <2> QED
      BY <1>1, <1>2, <2>1
  <1>7. ASSUME NEW a \in DOMAIN S \ {root}
        PROVE  h2[a] < h2[root] /\ IsChild(S, a)
    <2>1. a \in DOMAIN R /\ a # id /\ h2[a] = h[a]
      BY <1>1, <1>7 DEF NodeDropped
    <2>2. PICK c \in DOMAIN R : \E i \in DOMAIN R[c].items : R[c].items[i].nodeId = a
      BY <1>3, <1>7, <2>1 DEF IsChild
    <2>3. PICK i \in DOMAIN R[c].items : R[c].items[i].nodeId = a
      BY <2>2
    <2>4. CASE c # p
      <3>1. IsChild(S, a)
        BY <2>3, <2>4 DEF ChildrenStay
      <3> QED
        BY <1>3, <1>5, <1>7, <2>1, <3>1
    <2>5. CASE c = p
      <3>1. R[p].items \in Seq(KeyType) /\ i \in 1 .. Len(R[p].items)
            /\ Len(R[p].items) \in Nat
        BY <1>1, <1>2, <2>3, <2>5, NodeFacts
      <3>2. Removed(KeyType, R[p].items, j, S[p].items)
        BY <1>2, <3>1, RemoveAtIs
      <3>3. PICK keys : keys = R[p].items
        OBVIOUS
      <3>4. PICK K : K = S[p].items
        OBVIOUS
      <3>5. /\ K \in Seq(KeyType) /\ Len(K) = Len(keys) - 1
            /\ \A k \in 1 .. j - 1 : K[k] = keys[k]
            /\ \A k \in j .. Len(K) : K[k] = keys[k + 1]
        BY <3>2, <3>3, <3>4 DEF Removed
      <3>6. i # j
        BY <1>2, <2>1, <2>3, <2>5
      <3>7. \E k \in 1 .. Len(K) : K[k] = keys[i]
        <4>1. j \in 1 .. Len(keys) /\ i \in 1 .. Len(keys) /\ Len(keys) \in Nat
          BY <1>2, <3>1, <3>3
        <4>2. CASE i < j
          <5>1. i \in 1 .. Len(K) /\ i \in 1 .. j - 1
            BY <3>5, <4>1, <4>2
          <5> QED
            BY <3>5, <5>1
        <4>3. CASE i > j
          <5>1. i - 1 \in 1 .. Len(K) /\ i - 1 \in j .. Len(K) /\ (i - 1) + 1 = i
            BY <3>5, <4>1, <4>3
          <5>2. K[i - 1] = keys[(i - 1) + 1]
            BY <3>5, <5>1
          <5> QED
            BY <5>1, <5>2
        <4> QED
          BY <3>6, <4>1, <4>2, <4>3
      <3>8. DOMAIN K = 1 .. Len(K)
        BY <3>5
      <3>9. \E k \in DOMAIN S[p].items : S[p].items[k].nodeId = a
        BY <2>3, <2>5, <3>3, <3>4, <3>7, <3>8
      <3>10. IsChild(S, a)
        BY <1>6, <3>9 DEF IsChild
      <3> QED
        BY <1>3, <1>5, <1>7, <2>1, <3>10
    <2> QED
      BY <2>4, <2>5
  <1> QED
    BY <1>5, <1>7 DEF Rooted

-----------------------------------------------------------------------------
(* The node id is dropped, the nodes M under p are made anew, and the key  *)
(* of id is about to be removed, which makes S.                            *)
Drop(T, R, N, S, h, h2, root, id, p, j, item, M) ==
    /\ Thin(T, R, h, root, id, p, j, item) /\ p # 0
    /\ Stores(N)
    /\ S = [N EXCEPT ![p].items = RemoveAt(R[p].items, j)]
    /\ LevelLeft(S, h, h2)
    /\ NodeDropped(R, S, h, h2, id)
    /\ Others(R, N, id, M) /\ UnderKeys(R, h, p, M)

DropsTo(R, N, S, h, id, p, j, M) ==
    /\ \A m \in M : m # 0 /\ h[m] = h[id]
    /\ \A a \in DOMAIN R : h[a] > h[id] => a \in DOMAIN N \ M /\ SameRecords(R, N, a)
    /\ p \in DOMAIN N \ M /\ SameRecords(R, N, p)
    /\ DOMAIN N = DOMAIN S /\ DOMAIN S = DOMAIN R \ {id} /\ p \in DOMAIN S
    /\ S[p].items = RemoveAt(R[p].items, j)
    /\ \A a \in DOMAIN S : a # p => S[a].items = N[a].items
    /\ \A a \in DOMAIN S : S[a].prevSibling = N[a].prevSibling

LEMMA DropNodes ==
    ASSUME NEW T, NEW R, NEW N, NEW S, NEW h, NEW h2, NEW root, NEW id, NEW p, NEW j,
           NEW item, NEW M, Drop(T, R, N, S, h, h2, root, id, p, j, item, M)
    PROVE  DropsTo(R, N, S, h, id, p, j, M)
  <1>1. /\ Thin(T, R, h, root, id, p, j, item) /\ p # 0 /\ Others(R, N, id, M)
        /\ UnderKeys(R, h, p, M) /\ Stores(N) /\ NodeDropped(R, S, h, h2, id)
        /\ S = [N EXCEPT ![p].items = RemoveAt(R[p].items, j)]
    BY DEF Drop
  <1>2. h[p] = h[id] + 1 /\ h[id] \in Nat /\ p \in DOMAIN R
    BY <1>1, ThinAbove
  <1>3. ASSUME NEW m \in M
        PROVE  m # 0 /\ h[m] = h[id] /\ \E i : KeyAbove(R, h, m, p, i)
    <2>1. m # 0 /\ \E i : KeyAbove(R, h, m, p, i)
      BY <1>1, <1>3 DEF UnderKeys
    <2>2. PICK i : KeyAbove(R, h, m, p, i)
      BY <2>1
    <2>3. /\ i \in 1 .. Len(R[p].items) /\ R[p].items[i].nodeId = m /\ h[p] = h[m] + 1
      BY <2>2 DEF KeyAbove
    <2>4. Stored(R, h) /\ LevelsAt(R, h, p)
      BY <1>1, <1>2, ThinParts DEF Structure
    <2>5. m \in DOMAIN R
      <3>1. i \in DOMAIN R[p].items
        BY <1>2, <2>3, <2>4, NodeFacts
      <3>2. h[p] # 0
        BY <1>2
      <3> QED
        BY <2>3, <2>4, <3>1, <3>2 DEF LevelsAt
    <2>6. h[m] \in Nat
      BY <2>4, <2>5, NodeFacts
    <2> QED
      BY <1>2, <2>1, <2>3, <2>6
  <1>4. ASSUME NEW a \in DOMAIN R, h[a] > h[id]
        PROVE  a \in DOMAIN N \ M /\ SameRecords(R, N, a)
    <2>1. a # id /\ a \notin M
      BY <1>2, <1>3, <1>4
    <2> QED
      BY <1>1, <1>4, <2>1 DEF Others
  <1>5. p \in DOMAIN N \ M /\ SameRecords(R, N, p)
    BY <1>2, <1>4
  <1>6. /\ DOMAIN N = DOMAIN S /\ S[p].items = RemoveAt(R[p].items, j)
        /\ \A a \in DOMAIN S : a # p => S[a].items = N[a].items
        /\ \A a \in DOMAIN S : S[a].prevSibling = N[a].prevSibling
    <2>1. N \in [DOMAIN N -> NodeType]
      BY <1>1 DEF Stores
    <2>2. \A a \in DOMAIN N : N[a] \in NodeType
      BY <2>1
    <2> QED
      BY <1>1, <1>5, <2>1, <2>2 DEF NodeType
  <1>7. DOMAIN S = DOMAIN R \ {id}
    BY <1>1 DEF NodeDropped
  <1> QED
    BY <1>3, <1>4, <1>5, <1>6, <1>7 DEF DropsTo

LEMMA DropKeys ==
    ASSUME NEW T, NEW R, NEW N, NEW S, NEW h, NEW h2, NEW root, NEW id, NEW p, NEW j,
           NEW item, NEW M, Drop(T, R, N, S, h, h2, root, id, p, j, item, M)
    PROVE  KeyDropped(R, S, h, id, p, j)
  <1>0. DropsTo(R, N, S, h, id, p, j, M)
    BY DropNodes
  <1>1. Thin(T, R, h, root, id, p, j, item) /\ p # 0
    BY DEF Drop
  <1>2. /\ KeyAbove(R, h, id, p, j) /\ p \in DOMAIN R /\ Sized(R[p])
        /\ h[p] = h[id] + 1
    BY <1>1, ThinAbove
  <1>3. /\ \A a \in DOMAIN R : h[a] > h[id] => a \in DOMAIN N \ M /\ SameRecords(R, N, a)
        /\ DOMAIN N = DOMAIN S
        /\ S[p].items = RemoveAt(R[p].items, j)
        /\ \A a \in DOMAIN S : a # p => S[a].items = N[a].items
    BY <1>0 DEF DropsTo
  <1>4. \A a \in DOMAIN R : h[a] > h[id] /\ a # p => S[a].items = R[a].items
    BY <1>3 DEF SameRecords
  <1>5. Len(R[p].items) = 1 => R[p].nextSibling = 0
    BY <1>2, Sizes DEF Sized
  <1> QED
    BY <1>1, <1>2, <1>3, <1>4, <1>5 DEF KeyDropped, KeyAbove

LEMMA DropStored ==
    ASSUME NEW T, NEW R, NEW N, NEW S, NEW h, NEW h2, NEW root, NEW id, NEW p, NEW j,
           NEW item, NEW M, Drop(T, R, N, S, h, h2, root, id, p, j, item, M)
    PROVE  /\ Stored(N, h2) /\ Stored(S, h2)
           /\ KeptAbove(T, N, h, h2, id)
  <1>0. DropsTo(R, N, S, h, id, p, j, M)
    BY DropNodes
  <1>1. /\ Thin(T, R, h, root, id, p, j, item) /\ p # 0 /\ Stores(N)
        /\ S = [N EXCEPT ![p].items = RemoveAt(R[p].items, j)]
        /\ LevelLeft(S, h, h2) /\ NodeDropped(R, S, h, h2, id)
    BY DEF Drop
  <1>2. /\ DOMAIN N = DOMAIN S /\ DOMAIN S = DOMAIN R \ {id} /\ p \in DOMAIN S
        /\ \A a \in DOMAIN R : h[a] > h[id] => a \in DOMAIN N \ M /\ SameRecords(R, N, a)
        /\ \A a \in DOMAIN S : S[a].prevSibling = N[a].prevSibling
    BY <1>0 DEF DropsTo
  <1>3. /\ Stored(R, h) /\ Structure(R, h, 0) /\ DOMAIN R = DOMAIN T
        /\ \A a \in DOMAIN T : a # id => R[a] = T[a]
    BY <1>1, ThinParts
  <1>4. h2 \in [DOMAIN N -> Nat] /\ \A a \in DOMAIN N : h2[a] = h[a]
    BY <1>1, <1>2, <1>3, NodeFacts DEF LevelLeft
  <1>5. Stored(N, h2)
    BY <1>1, <1>2, <1>3, <1>4 DEF Stored, Stores
  <1>6. Stored(S, h2)
    <2>1. /\ R[p].items \in Seq(KeyType) /\ j \in 1 .. Len(R[p].items)
      BY <1>1, ThinAbove
    <2>2. Removed(KeyType, R[p].items, j, RemoveAt(R[p].items, j))
      BY <2>1, RemoveAtIs
    <2>3. PICK K : K = RemoveAt(R[p].items, j)
      OBVIOUS
    <2>4. K \in Seq(KeyType)
      BY <2>2, <2>3 DEF Removed
    <2>5. N[p] \in NodeType
      BY <1>1, <1>2 DEF Stores
    <2>6. [N[p] EXCEPT !.items = K] \in NodeType
      BY <2>4, <2>5 DEF NodeType
    <2>7. S = [N EXCEPT ![p] = [N[p] EXCEPT !.items = K]]
      BY <1>1, <2>3
    <2>8. S \in [DOMAIN S -> NodeType]
      BY <1>1, <2>6, <2>7 DEF Stores
    <2> QED
      BY <1>2, <1>4, <1>5, <2>8 DEF Stored
  <1>7. KeptAbove(T, N, h, h2, id)
    <2>1. ASSUME NEW a \in DOMAIN T, h[a] > h[id]
          PROVE  /\ a \in DOMAIN N /\ h2[a] = h[a] /\ N[a].items = T[a].items
                 /\ N[a].prevSibling = T[a].prevSibling
      <3>1. a \in DOMAIN N /\ SameRecords(R, N, a)
        BY <1>2, <1>3, <2>1
      <3>2. a # id /\ R[a] = T[a] /\ h2[a] = h[a]
        BY <1>2, <1>3, <1>4, <3>1
      <3>3. R[a].prevSibling # id
        <4>1. LinkedAt(R, h, a) /\ h[a] \in Nat /\ h[id] \in Nat /\ id # 0
          BY <1>1, <1>3, <2>1, NodeFacts, ThinParts DEF Structure
        <4> QED
          BY <2>1, <4>1 DEF LinkedAt
      <3>4. S[a].prevSibling = R[a].prevSibling
        BY <1>1, <1>2, <3>1, <3>3 DEF NodeDropped
      <3> QED
        BY <1>2, <3>1, <3>2, <3>4 DEF SameRecords
    <2> QED
      BY <2>1 DEF KeptAbove
  <1> QED
    BY <1>5, <1>6, <1>7

LEMMA DropShrinks ==
    ASSUME NEW T, NEW R, NEW N, NEW S, NEW h, NEW h2, NEW root, NEW id, NEW p, NEW j,
           NEW item, NEW M, Drop(T, R, N, S, h, h2, root, id, p, j, item, M),
           Structure(S, h2, p), ChildrenStay(R, S, p), NewlyExact(N, p, M),
           NEW K, K = RemoveAt(R[p].items, j),
           KeysFirst(N, K, {j}), Counts(N, p, K, -1, item)
    PROVE  Shrunk(N, S, K, h2, root, p, j, item, TRUE, FALSE)
  <1>0. DropsTo(R, N, S, h, id, p, j, M)
    BY DropNodes
  <1>1. /\ Thin(T, R, h, root, id, p, j, item) /\ p # 0
        /\ S = [N EXCEPT ![p].items = K]
        /\ NodeDropped(R, S, h, h2, id) /\ Others(R, N, id, M) /\ UnderKeys(R, h, p, M)
    BY DEF Drop
  <1>2. Structure(R, h, 0) /\ Rooted(R, h, root) /\ Exact(T, id)
    BY <1>1, ThinParts
  <1>3. KeyDropped(R, S, h, id, p, j)
    BY DropKeys
  <1>4. Rooted(S, h2, root)
    BY <1>1, <1>2, <1>3, DroppedRooted
  <1>5. StillExact(T, N, id, p, M)
    BY <1>1, OthersStill
  <1>6. Exact(N, p)
    BY <1>2, <1>5, ExactAfter
  <1>7. Stored(N, h2)
    BY DropStored
  <1>8. SameRecords(R, N, p)
    BY <1>0 DEF DropsTo
  <1>9. KeysLeft(N, p, j, TRUE, K)
    BY <1>8 DEF KeysLeft, SameRecords
  <1> QED
    BY <1>1, <1>4, <1>6, <1>7, <1>9 DEF Shrunk

-----------------------------------------------------------------------------
(* The links of nodes whose keys change, and a node that has no keys left. *)

LEMMA RekeyedLinks ==
    ASSUME NEW N, Stores(N), NEW p \in DOMAIN N, NEW K, NEW S, S = [N EXCEPT ![p].items = K]
    PROVE  SameLinks(N, S)
  <1>1. \A a \in DOMAIN N : N[a] \in NodeType
    BY DEF Stores
  <1> QED
    BY <1>1 DEF SameLinks, NodeType

(* The keys of p without that of id. *)
KeyGone(R, id, p, j, item, K) ==
    /\ K \in Seq(KeyType) /\ HasChildren(R, K)
    /\ Removed(KeyType, R[p].items, j, K)
    /\ countOfAll(R, K) = R[p].accumCount - 1 - R[id].accumCount
    /\ accumOfAll(R, K) = R[p].accum - item - R[id].accum
    /\ KeysFirst(R, R[p].items, {j})
LEMMA KeyGoes ==
    ASSUME NEW T, NEW R, NEW h, NEW root, NEW id, NEW p, NEW j, NEW item \in Nat,
           Thin(T, R, h, root, id, p, j, item), p # 0,
           NEW K, K = RemoveAt(R[p].items, j)
    PROVE  KeyGone(R, id, p, j, item, K)
  <1>1. /\ ParentKeys(T, R, id, p, j, -1, item) /\ p \in DOMAIN R /\ R[p] = T[p]
        /\ R[p].items \in Seq(KeyType) /\ Len(R[p].items) \in Nat
        /\ DOMAIN R[p].items = 1 .. Len(R[p].items)
        /\ h[p] = h[id] + 1 /\ h[id] \in Nat
        /\ j \in 1 .. Len(R[p].items) /\ R[p].items[j].nodeId = id
    BY ThinAbove
  <1>2. Stored(R, h) /\ Structure(R, h, 0) /\ id # 0 /\ id \in DOMAIN R
    BY ThinParts
  <1>3. PICK keys : keys = R[p].items
    OBVIOUS
  <1>4. Counts(R, p, keys, -1, item) /\ KeysFirst(R, keys, {j})
    BY <1>1, <1>3 DEF ParentKeys
  <1>5. Removed(KeyType, keys, j, K)
    BY <1>1, <1>3, RemoveAtIs
  <1>6. K \in Seq(KeyType)
    BY <1>5 DEF Removed
  <1>7. HasChildren(R, keys)
    BY <1>1, <1>2, <1>3 DEF Structure, LevelsAt, HasChildren
  <1>8. R \in [DOMAIN R -> NodeType]
    BY <1>2 DEF Stored
  <1>9. keys \in Seq(KeyType) /\ j \in 1 .. Len(keys) /\ keys[j].nodeId = id
    BY <1>1, <1>3
  <1>10. K = RemoveAt(keys, j)
    BY <1>3
  <1>11. /\ countOfAll(R, K) = countOfAll(R, keys) - countOf(R, keys[j])
         /\ accumOfAll(R, K) = accumOfAll(R, keys) - accumOf(R, keys[j])
         /\ HasChildren(R, K)
    BY <1>5, <1>7, <1>8, <1>9, <1>10, RemoveCounts
  <1>12. countOf(R, keys[j]) = R[id].accumCount /\ accumOf(R, keys[j]) = R[id].accum
    BY <1>2, <1>9 DEF countOf, accumOf
  <1>13. /\ R[id].accumCount \in Nat /\ R[id].accum \in Nat
         /\ R[p].accumCount \in Nat /\ R[p].accum \in Nat
    BY <1>1, <1>2, NodeFacts
  <1>14. /\ countOfAll(R, keys) = R[p].accumCount - 1
         /\ accumOfAll(R, keys) = R[p].accum - item
    BY <1>4, <1>13 DEF Counts
  <1> QED
    BY <1>3, <1>4, <1>5, <1>6, <1>11, <1>12, <1>13, <1>14 DEF KeyGone

(* A node without keys under a node with no other one.                     *)
LEMMA EmptyDrop ==
    ASSUME NEW T, NEW R, NEW h, NEW root, NEW id, NEW p, NEW j, NEW item \in Nat,
           Thin(T, R, h, root, id, p, j, item), p # 0,
           R[id].items = <<>>, Len(R[p].items) = 1,
           NEW N, N = unlink(R, id),
           NEW S, S = [N EXCEPT ![p].items = RemoveAt(R[p].items, j)],
           NEW h2, LevelLeft(S, h, h2)
    PROVE  Drop(T, R, N, S, h, h2, root, id, p, j, item, {})
  <1>1. PICK x, y : x = R[id].prevSibling /\ y = R[id].nextSibling
    OBVIOUS
  <1>2. Stored(R, h) /\ Structure(R, h, 0) /\ id # 0 /\ id \in DOMAIN R
    BY ThinParts
  <1>3. Between(R, x, y)
    <2>1. LinkedAt(R, h, id) /\ x \in Nat /\ y \in Nat
      BY <1>1, <1>2, NodeFacts DEF Structure
    <2> QED
      BY <1>1, <1>2, <2>1 DEF Between, Stores, Stored, LinkedAt
  <1>4. TakenOut(R, N, id, x, y)
    BY <1>1, <1>3, UnlinkIs
  <1>5. Stores(N) /\ DOMAIN N = DOMAIN R \ {id}
    BY <1>4 DEF TakenOut
  <1>6. p \in DOMAIN N
    BY <1>5, ThinAbove
  <1>7. SameLinks(N, S)
    BY <1>5, <1>6, RekeyedLinks
  <1>8. SameLinks(R, R)
    BY DEF SameLinks
  <1>9. NodeDropped(R, S, h, h2, id)
    BY <1>1, <1>2, <1>4, <1>7, <1>8, TakenDropped
  <1>10. y = 0
    BY <1>1, OnlyChildLast
  <1>11. Others(R, N, id, {})
    BY <1>4, <1>5, <1>10 DEF Others, TakenOut
  <1>12. UnderKeys(R, h, p, {})
    BY DEF UnderKeys
  <1> QED
    BY <1>5, <1>9, <1>11, <1>12 DEF Drop

LEMMA EmptyShrinks ==
    ASSUME NEW T, NEW R, NEW h, NEW root, NEW id, NEW p, NEW j, NEW item \in Nat,
           Thin(T, R, h, root, id, p, j, item), p # 0,
           R[id].items = <<>>, Len(R[p].items) = 1,
           NEW N, N = unlink(R, id), NEW cont, SameLeaves(cont, R, h)
    PROVE  \E S, K, h2 :
               /\ Shrunk(N, S, K, h2, root, p, j, item, TRUE, FALSE)
               /\ KeptAbove(T, N, h, h2, id) /\ SameLeaves(cont, S, h2)
  <1>1. PICK K : K = RemoveAt(R[p].items, j)
    OBVIOUS
  <1>2. PICK S : S = [N EXCEPT ![p].items = K]
    OBVIOUS
  <1>3. PICK h2 : LevelLeft(S, h, h2)
    BY DEF LevelLeft
  <1>4. PICK M : M = {}
    OBVIOUS
  <1>5. Drop(T, R, N, S, h, h2, root, id, p, j, item, M)
    BY <1>1, <1>2, <1>3, <1>4, EmptyDrop
  <1>6. DropsTo(R, N, S, h, id, p, j, M)
    BY <1>5, DropNodes
  <1>7. /\ Stored(R, h) /\ Structure(R, h, 0) /\ Rooted(R, h, root) /\ Recorded(R, id)
        /\ id \in DOMAIN R /\ id # 0
    BY ThinParts
  <1>8. /\ p \in DOMAIN R /\ p # id /\ h[p] = h[id] + 1 /\ h[id] \in Nat
        /\ R[p].items \in Seq(KeyType) /\ j \in 1 .. Len(R[p].items)
    BY ThinAbove
  <1>9. KeyDropped(R, S, h, id, p, j)
    BY <1>5, DropKeys
  <1>10. Stored(N, h2) /\ Stored(S, h2) /\ KeptAbove(T, N, h, h2, id)
    BY <1>5, DropStored
  <1>11. \A a \in DOMAIN S : a # p => S[a].items = R[a].items
    <2>1. ASSUME NEW a \in DOMAIN S, a # p
          PROVE  S[a].items = R[a].items
      <3>1. a \in DOMAIN N \ M
        BY <1>4, <1>6, <2>1 DEF DropsTo
      <3>2. SameRecords(R, N, a)
        BY <1>5, <3>1 DEF Drop, Others
      <3> QED
        BY <1>6, <2>1, <3>2 DEF DropsTo, SameRecords
    <2> QED
      BY <2>1
  <1>12. EmptyDropped(R, S, h, h2, id)
    <2>1. R[id].nextSibling = 0
      BY OnlyChildLast
    <2>2. NodeDropped(R, S, h, h2, id)
      BY <1>5 DEF Drop
    <2> QED
      BY <1>8, <1>11, <2>1, <2>2 DEF EmptyDropped
  <1>13. Structure(S, h2, p)
    BY <1>7, <1>9, <1>10, <1>12, EmptyWhole
  <1>14. \A x : InLeaf(R, h, x) <=> InLeaf(S, h2, x)
    BY <1>7, <1>12, LeavesDropped
  <1>15. ChildrenStay(R, S, p)
    <2>1. ASSUME NEW a \in DOMAIN R \ {p}, NEW i \in DOMAIN R[a].items
          PROVE  IsChild(S, R[a].items[i].nodeId)
      <3>1. a # id
        BY <2>1
      <3>2. a \in DOMAIN S
        BY <1>6, <2>1, <3>1 DEF DropsTo
      <3> QED
        BY <1>11, <2>1, <3>2 DEF IsChild
    <2> QED
      BY <2>1 DEF ChildrenStay
  <1>16. NewlyExact(N, p, M)
    BY <1>4 DEF NewlyExact
  <1>17. KeyGone(R, id, p, j, item, K)
    BY <1>1, KeyGoes
  <1>18. Len(K) = 0 /\ DOMAIN K = {}
    <2>1. K \in Seq(KeyType) /\ Len(K) = Len(R[p].items) - 1
      BY <1>17 DEF KeyGone, Removed
    <2> QED
      BY <2>1
  <1>19. KeysFirst(N, K, {j})
    BY <1>18 DEF KeysFirst
  <1>20. countOfAll(N, K) = countOfAll(R, K) /\ accumOfAll(N, K) = accumOfAll(R, K)
    BY <1>18, SameCounts
  <1>21. R[id].accumCount = 0 /\ R[id].accum = 0
    <2>1. /\ R[id].accumCount = countOfAll(R, R[id].items)
          /\ R[id].accum = accumOfAll(R, R[id].items)
      BY <1>7 DEF Recorded
    <2>2. countOfAll(R, <<>>) = 0 /\ accumOfAll(R, <<>>) = 0
      <3>1. [i \in DOMAIN << >> |-> countOf(R, << >>[i])] = << >>
        OBVIOUS
      <3>2. [i \in DOMAIN << >> |-> accumOf(R, << >>[i])] = << >>
        OBVIOUS
      <3> QED
        BY <3>1, <3>2, TotalFew DEF countOfAll, accumOfAll
    <2> QED
      BY <2>1, <2>2
  <1>22. R[p].accumCount \in Nat /\ R[p].accum \in Nat
    BY <1>7, <1>8, NodeFacts
  <1>23. Counts(N, p, K, -1, item)
    <2>1. N[p].accumCount = R[p].accumCount /\ N[p].accum = R[p].accum
      BY <1>6 DEF DropsTo, SameRecords
    <2>2. /\ countOfAll(R, K) = R[p].accumCount - 1 - R[id].accumCount
          /\ accumOfAll(R, K) = R[p].accum - item - R[id].accum
      BY <1>17 DEF KeyGone
    <2>3. (-1) * item = -item
      OBVIOUS
    <2> QED
      BY <1>20, <1>21, <1>22, <2>1, <2>2, <2>3 DEF Counts
  <1>24. Shrunk(N, S, K, h2, root, p, j, item, TRUE, FALSE)
    BY <1>1, <1>5, <1>13, <1>15, <1>16, <1>19, <1>23, DropShrinks
  <1>25. SameLeaves(cont, S, h2)
    BY <1>14 DEF SameLeaves
  <1> QED
    BY <1>10, <1>24, <1>25

-----------------------------------------------------------------------------
(* A node with a neighbour under the same node p, and the keys of both.    *)
Pair(R, h, id, p, left, right, to, i) ==
    /\ KeyAbove(R, h, left, p, i) /\ KeyAbove(R, h, right, p, i + 1)
    /\ left \in DOMAIN R /\ right \in DOMAIN R /\ left # right
    /\ left # 0 /\ right # 0
    /\ h[left] = h[id] /\ h[right] = h[id]
    /\ R[left].nextSibling = right /\ R[right].prevSibling = left
    /\ id \in {left, right} /\ to \in {left, right} /\ to # id
    /\ Sized(R[to]) /\ Recorded(R, to)
    /\ Len(R[left].items) \in Nat /\ Len(R[right].items) \in Nat
    /\ Len(R[left].items) >= 1
    /\ Len(R[right].items) = 0 => R[right].nextSibling = 0

(* The neighbour that the code chooses. *)
Chosen(R, id, j, left, right) ==
    IF j = 1 THEN left = id /\ right = R[id].nextSibling
    ELSE left = R[id].prevSibling /\ right = id

(* Two children side by side. *)
Beside(R, h, id, p, i, a, b) ==
    /\ KeyAbove(R, h, a, p, i) /\ KeyAbove(R, h, b, p, i + 1)
    /\ a \in DOMAIN R /\ b \in DOMAIN R /\ a # b /\ a # 0 /\ b # 0
    /\ h[a] = h[id] /\ h[b] = h[id]
    /\ R[a].nextSibling = b /\ R[b].prevSibling = a

LEMMA NextToIt ==
    ASSUME NEW T, NEW R, NEW h, NEW root, NEW id, NEW p, NEW j, NEW item,
           Thin(T, R, h, root, id, p, j, item), p # 0,
           NEW i, i \in Nat, i >= 1, i + 1 <= Len(R[p].items),
           NEW a, NEW b, a = R[p].items[i].nodeId, b = R[p].items[i + 1].nodeId
    PROVE  Beside(R, h, id, p, i, a, b)
  <1>1. /\ p \in DOMAIN R /\ h[p] = h[id] + 1 /\ h[id] \in Nat
        /\ R[p].items \in Seq(KeyType) /\ Len(R[p].items) \in Nat
        /\ DOMAIN R[p].items = 1 .. Len(R[p].items)
    BY ThinAbove
  <1>2. Structure(R, h, 0) /\ Stored(R, h)
    BY ThinParts
  <1>3. i \in 1 .. Len(R[p].items) /\ i + 1 \in 1 .. Len(R[p].items)
    BY <1>1
  <1>4. /\ a \in DOMAIN R /\ h[a] = h[p] - 1 /\ b \in DOMAIN R /\ h[b] = h[p] - 1
    <2>1. LevelsAt(R, h, p) /\ h[p] # 0
      BY <1>1, <1>2 DEF Structure
    <2> QED
      BY <1>1, <1>3, <2>1 DEF LevelsAt
  <1>5. a # 0 /\ b # 0 /\ h[a] = h[id] /\ h[b] = h[id] /\ p # a /\ p # b
    <2>1. a # 0 /\ b # 0
      BY <1>2, <1>4, NodeFacts
    <2> QED
      BY SMTT(30), <1>1, <1>4, <2>1
  <1>6. a # b
    <2>1. OneParent(R)
      BY <1>2 DEF Structure
    <2>2. a = b => i = i + 1
      BY <1>1, <1>3, <1>5, <2>1 DEF OneParent
    <2> QED
      BY <2>2
  <1>7. R[a].nextSibling = b
    <2>1. AdjacentAt(R, h, p)
      BY <1>1, <1>2 DEF Structure
    <2>2. R[a].nextSibling = nextKey(R, p, i).nodeId
      BY <1>1, <1>3, <2>1 DEF AdjacentAt
    <2>3. nextKey(R, p, i) = R[p].items[i + 1]
      BY <1>1 DEF nextKey
    <2> QED
      BY <2>2, <2>3
  <1>8. R[b].prevSibling = a
    <2>1. LinkedAt(R, h, a)
      BY <1>2, <1>4 DEF Structure
    <2> QED
      BY <1>5, <1>7, <2>1 DEF LinkedAt
  <1>9. KeyAbove(R, h, a, p, i) /\ KeyAbove(R, h, b, p, i + 1)
    BY <1>1, <1>3, <1>5 DEF KeyAbove
  <1> QED
    BY <1>4, <1>5, <1>6, <1>7, <1>8, <1>9 DEF Beside

LEMMA PairSizes ==
    ASSUME NEW T, NEW R, NEW h, NEW root, NEW id, NEW p, NEW j, NEW item,
           Thin(T, R, h, root, id, p, j, item), p # 0,
           NEW left \in DOMAIN R, NEW right \in DOMAIN R, left # right,
           R[left].nextSibling = right, right # 0,
           id \in {left, right}, NEW to \in {left, right}, to # id
    PROVE  /\ Sized(R[to])
           /\ to # p => Recorded(R, to)
           /\ Len(R[left].items) \in Nat /\ Len(R[right].items) \in Nat
           /\ Len(R[left].items) >= 1
           /\ Len(R[right].items) = 0 => R[right].nextSibling = 0
  <1>1. /\ Stored(R, h) /\ Stored(T, h) /\ Exact(T, id) /\ id \in DOMAIN T
        /\ DOMAIN R = DOMAIN T /\ \A a \in DOMAIN T : a # id => R[a] = T[a]
    BY ThinParts
  <1>2. Len(R[left].items) \in Nat /\ Len(R[right].items) \in Nat
    BY <1>1, NodeFacts
  <1>3. to \in DOMAIN T /\ R[to] = T[to]
    BY <1>1
  <1>4. Sized(R[to])
    BY <1>1, <1>3 DEF Exact
  <1>5. \A a \in {id} : R[a].nextSibling # 0 => Len(R[a].items) >= 1
    BY DEF Thin
  <1>6. Len(R[to].items) >= 1
    BY <1>2, <1>4, Sizes DEF Sized
  <1>7. Recorded(R, to)
    <2>1. StillExact(T, R, id, p, {id})
      BY ThinStill
    <2>2. /\ KeysFirst(T, T[to].items, {})
          /\ T[to].accumCount = countOfAll(T, T[to].items)
          /\ T[to].accum = accumOfAll(T, T[to].items)
      BY <1>1, <1>3 DEF Exact
    <2>3. ASSUME NEW i \in DOMAIN R[to].items, R[to].items[i].nodeId # 0
          PROVE  R[R[to].items[i].nodeId] = T[R[to].items[i].nodeId]
      <3>1. R[to].items[i].nodeId # id
        <4>1. R[to].items[i].nodeId = id => to = p
          BY <1>1, <1>3, <2>3, ThinChild
        <4>2. ASSUME to = p
              PROVE  FALSE
          <5>1. h[p] = h[id] + 1 /\ h[id] \in Nat
            BY ThinAbove
          <5>2. LinkedAt(R, h, left)
            BY ThinParts DEF Structure
          <5>3. h[right] = h[left]
            BY <5>2 DEF LinkedAt
          <5> QED
            BY <4>2, <5>1, <5>3
        <4> QED
          BY <4>1, <4>2
      <3>2. R[to].items[i].nodeId \in DOMAIN R
        BY <1>1, <1>3, <2>3, ThinParts DEF Structure, LevelsAt
      <3> QED
        BY <1>1, <3>1, <3>2
    <2>4. KeysFirst(R, R[to].items, {})
      BY <1>3, <2>2, <2>3 DEF KeysFirst, firstItem
    <2>5. /\ countOfAll(R, R[to].items) = countOfAll(T, R[to].items)
          /\ accumOfAll(R, R[to].items) = accumOfAll(T, R[to].items)
      BY <2>3, SameCounts
    <2> QED
      BY <1>3, <2>2, <2>4, <2>5 DEF Recorded
  <1> QED
    BY <1>2, <1>4, <1>5, <1>6, <1>7

LEMMA PairFound ==
    ASSUME NEW T, NEW R, NEW h, NEW root, NEW id, NEW p, NEW j, NEW item,
           Thin(T, R, h, root, id, p, j, item), p # 0, Len(R[p].items) > 1,
           NEW left, NEW right, Chosen(R, id, j, left, right)
    PROVE  \E to, i : Pair(R, h, id, p, left, right, to, i)
                      /\ (j = 1 => i = 1 /\ id = left) /\ (j # 1 => i + 1 = j /\ id = right)
  <1>1. /\ j \in 1 .. Len(R[p].items) /\ R[p].items[j].nodeId = id
        /\ Len(R[p].items) \in Nat
    BY ThinAbove
  <1>2. PICK i : i = IF j = 1 THEN 1 ELSE j - 1
    OBVIOUS
  <1>3. i \in Nat /\ i >= 1 /\ i + 1 <= Len(R[p].items)
        /\ (j # 1 => i + 1 = j) /\ (j = 1 => i = 1)
    BY <1>1, <1>2
  <1>4. PICK a, b : a = R[p].items[i].nodeId /\ b = R[p].items[i + 1].nodeId
    OBVIOUS
  <1>5. Beside(R, h, id, p, i, a, b)
    <2>1. /\ Thin(T, R, h, root, id, p, j, item) /\ p # 0
          /\ i \in Nat /\ i >= 1 /\ i + 1 <= Len(R[p].items)
          /\ a = R[p].items[i].nodeId /\ b = R[p].items[i + 1].nodeId
      BY <1>3, <1>4
    <2> QED
      BY ONLY <2>1, NextToIt
  <1>5a. /\ KeyAbove(R, h, a, p, i) /\ KeyAbove(R, h, b, p, i + 1)
         /\ a \in DOMAIN R /\ b \in DOMAIN R /\ a # b /\ a # 0 /\ b # 0
         /\ h[a] = h[id] /\ h[b] = h[id]
         /\ R[a].nextSibling = b /\ R[b].prevSibling = a
    BY <1>5 DEF Beside
  <1>6. left = a /\ right = b /\ (j = 1 => id = a) /\ (j # 1 => id = b)
    BY <1>1, <1>3, <1>4, <1>5a DEF Chosen
  <1>7. PICK to : to = IF id = left THEN right ELSE left
    OBVIOUS
  <1>8. id \in {left, right} /\ to \in {left, right} /\ to # id
    BY <1>5a, <1>6, <1>7
  <1>9. /\ Sized(R[to]) /\ (to # p => Recorded(R, to))
        /\ Len(R[left].items) \in Nat /\ Len(R[right].items) \in Nat
        /\ Len(R[left].items) >= 1
        /\ Len(R[right].items) = 0 => R[right].nextSibling = 0
    BY <1>5a, <1>6, <1>8, PairSizes
  <1>10. to # p
    BY <1>5a, <1>6, <1>8 DEF KeyAbove
  <1>11. Pair(R, h, id, p, left, right, to, i)
    BY <1>5a, <1>6, <1>8, <1>9, <1>10 DEF Pair
  <1> QED
    BY <1>3, <1>6, <1>11

(* The keys of both in a row.                                              *)
InARow(R, left, right, n, K, x) ==
    /\ n = Len(R[left].items)
    /\ K = R[left].items \o R[right].items
    /\ x = R[right].nextSibling
LEMMA PairRow ==
    ASSUME NEW R, NEW h, Stored(R, h), NEW id, NEW p, NEW left, NEW right, NEW to, NEW i,
           Pair(R, h, id, p, left, right, to, i),
           NEW n, NEW K, NEW x, InARow(R, left, right, n, K, x)
    PROVE  /\ Group(R, left, right, n, K, x)
           /\ K \in Seq(KeyType) /\ Len(K) = n + Len(R[right].items)
           /\ Len(K) >= Len(R[to].items) /\ Len(K) \in Nat
  <1>0. n = Len(R[left].items) /\ x = R[right].nextSibling
    BY DEF InARow
  <1>1. /\ left \in DOMAIN R /\ right \in DOMAIN R /\ left # right /\ right # 0
        /\ R[left].nextSibling = right /\ to \in {left, right}
        /\ Len(R[left].items) >= 1
        /\ Len(R[right].items) = 0 => R[right].nextSibling = 0
    BY DEF Pair
  <1>2. /\ R[left].items \in Seq(KeyType) /\ R[right].items \in Seq(KeyType)
        /\ Len(R[left].items) \in Nat /\ Len(R[right].items) \in Nat
    BY <1>1, NodeFacts
  <1>3. Joins(KeyType, R[left].items, R[right].items, K)
    BY <1>2, Joined DEF InARow
  <1>4. /\ K \in Seq(KeyType) /\ Len(K) = n + Len(R[right].items)
        /\ \A k \in 1 .. n : K[k] = R[left].items[k]
        /\ \A k \in 1 .. Len(R[right].items) : K[n + k] = R[right].items[k]
    BY <1>0, <1>3 DEF Joins
  <1>5. n \in 1 .. Len(K) /\ Len(R[right].items) = Len(K) - n /\ Len(K) \in Nat
    <2>1. PICK m, k : m = Len(R[right].items) /\ k = Len(K)
      OBVIOUS
    <2>2. n \in Nat /\ n >= 1 /\ m \in Nat /\ k = n + m
      BY ONLY <1>1, <1>2, <1>4, <2>1, <1>0
    <2>3. n \in 1 .. k /\ m = k - n /\ k \in Nat
      BY ONLY <2>2
    <2> QED
      BY ONLY <2>1, <2>3
  <1>6. Group(R, left, right, n, K, x)
    <2>1. \A k \in 1 .. Len(K) - n : R[right].items[k] = K[n + k]
      BY ONLY <1>4, <1>5
    <2>2. n = Len(K) => x = 0
      <3>1. n = Len(K) => Len(R[right].items) = 0
        BY ONLY <1>5
      <3> QED
        BY ONLY <1>1, <3>1, <1>0
    <2>3. \A k \in 1 .. n : R[left].items[k] = K[k]
      BY ONLY <1>4
    <2> QED
      BY ONLY <1>1, <1>4, <1>5, <2>1, <2>2, <2>3, <1>0 DEF Group
  <1>7. Len(K) >= Len(R[to].items)
    <2>1. PICK m, k : m = Len(R[right].items) /\ k = Len(K)
      OBVIOUS
    <2>2. n \in Nat /\ m \in Nat /\ k = n + m
      BY ONLY <1>1, <1>2, <1>4, <2>1, <1>0
    <2>3. k >= n /\ k >= m
      BY ONLY <2>2
    <2> QED
      BY ONLY <1>1, <2>1, <2>3, <1>0
  <1> QED
    BY ONLY <1>4, <1>5, <1>6, <1>7

-----------------------------------------------------------------------------
(* Two nodes with other keys and totals.                                   *)
Reworked(R, S, a, b, A, c, s, B, d, t) ==
    /\ At(S, a, A, R[a].nextSibling, R[a].prevSibling, c, s)
    /\ At(S, b, B, R[b].nextSibling, R[b].prevSibling, d, t)
    /\ DOMAIN S = DOMAIN R
    /\ \A x \in DOMAIN R : x # a /\ x # b => S[x] = R[x]
    /\ S = [x \in DOMAIN S |-> S[x]]

LEMMA ReworkedStores ==
    ASSUME NEW R, Stores(R), NEW a \in DOMAIN R, NEW b \in DOMAIN R,
           NEW A \in Seq(KeyType), NEW B \in Seq(KeyType),
           NEW c \in Nat, NEW s \in Nat, NEW d \in Nat, NEW t \in Nat,
           NEW S, Reworked(R, S, a, b, A, c, s, B, d, t)
    PROVE  Stores(S) /\ SameLinks(R, S)
  <1>1. /\ At(S, a, A, R[a].nextSibling, R[a].prevSibling, c, s)
        /\ At(S, b, B, R[b].nextSibling, R[b].prevSibling, d, t)
        /\ DOMAIN S = DOMAIN R
        /\ \A x \in DOMAIN R : x # a /\ x # b => S[x] = R[x]
        /\ S = [x \in DOMAIN S |-> S[x]]
    BY DEF Reworked
  <1>2. \A x \in DOMAIN R : R[x] \in NodeType
    BY DEF Stores
  <1>3. /\ R[a].nextSibling \in Nat /\ R[a].prevSibling \in Nat
        /\ R[b].nextSibling \in Nat /\ R[b].prevSibling \in Nat
    BY <1>2 DEF NodeType
  <1>4. S[a] \in NodeType
    BY <1>1, <1>3, AtType
  <1>5. S[b] \in NodeType
    BY <1>1, <1>3, AtType
  <1>6. \A x \in DOMAIN S : S[x] \in NodeType
    BY <1>1, <1>2, <1>4, <1>5
  <1>7. S \in [DOMAIN S -> NodeType]
    BY <1>1, <1>6
  <1>8. Stores(S)
    BY <1>1, <1>7 DEF Stores
  <1>9. /\ S[a].nextSibling = R[a].nextSibling /\ S[a].prevSibling = R[a].prevSibling
        /\ S[b].nextSibling = R[b].nextSibling /\ S[b].prevSibling = R[b].prevSibling
    BY <1>1 DEF At
  <1> QED
    BY <1>1, <1>8, <1>9 DEF SameLinks

(* Keys are given to both. *)
LEMMA ReworkedItems ==
    ASSUME NEW R, Stores(R), NEW a \in DOMAIN R, NEW b \in DOMAIN R, a # b,
           NEW A, NEW B, NEW S, S = [R EXCEPT ![a].items = A, ![b].items = B]
    PROVE  Reworked(R, S, a, b, A, R[a].accumCount, R[a].accum, B, R[b].accumCount, R[b].accum)
  <1>1. PICK M : M = [R EXCEPT ![a].items = A]
    OBVIOUS
  <1>2. S = [M EXCEPT ![b].items = B]
    BY <1>1
  <1>3. R \in [DOMAIN R -> NodeType]
    BY DEF Stores
  <1>4. /\ At(R, a, R[a].items, R[a].nextSibling, R[a].prevSibling, R[a].accumCount, R[a].accum)
        /\ At(R, b, R[b].items, R[b].nextSibling, R[b].prevSibling, R[b].accumCount, R[b].accum)
    BY <1>3, AtNode
  <1>5. PICK an, ap, ac, at, bn, bp, bc, bs :
          /\ an = R[a].nextSibling /\ ap = R[a].prevSibling
          /\ ac = R[a].accumCount /\ at = R[a].accum
          /\ bn = R[b].nextSibling /\ bp = R[b].prevSibling
          /\ bc = R[b].accumCount /\ bs = R[b].accum
    OBVIOUS
  <1>6. At(M, a, A, an, ap, ac, at) /\ Elsewhere(R, M, a)
    <2>1. PICK I : I = R[a].items
      OBVIOUS
    <2>2. At(R, a, I, an, ap, ac, at)
      BY <1>4, <1>5, <2>1
    <2>3. M = [R EXCEPT ![a].items = A]
      BY <1>1
    <2>4. At(M, a, A, an, ap, ac, at)
      BY ONLY <2>3, <2>2, ItemsAt
    <2>5. Elsewhere(R, M, a)
      BY ONLY <2>3 DEF Elsewhere
    <2> QED
      BY <2>4, <2>5
  <1>7. At(M, b, R[b].items, bn, bp, bc, bs)
    BY <1>4, <1>5, <1>6, AtElsewhere
  <1>8. At(S, b, B, bn, bp, bc, bs) /\ Elsewhere(M, S, b)
    BY <1>2, <1>7, ItemsAt
  <1>9. At(S, a, A, an, ap, ac, at)
    BY <1>6, <1>8, AtElsewhere
  <1>10. DOMAIN S = DOMAIN R /\ \A x \in DOMAIN R : x # a /\ x # b => S[x] = R[x]
    BY <1>6, <1>8 DEF Elsewhere
  <1>11. S = [x \in DOMAIN S |-> S[x]]
    BY <1>2
  <1> QED
    BY <1>5, <1>8, <1>9, <1>10, <1>11 DEF Reworked

(* Totals are added to the first one. *)
LEMMA ReworkedAdd ==
    ASSUME NEW R, NEW S, NEW a, NEW b, a # b,
           NEW A, NEW c, NEW s, NEW B, NEW d, NEW t, Reworked(R, S, a, b, A, c, s, B, d, t),
           NEW e, NEW f, NEW N, N = addToNode(S, a, e, f)
    PROVE  Reworked(R, N, a, b, A, c + e, s + f, B, d, t)
  <1>1. /\ At(S, a, A, R[a].nextSibling, R[a].prevSibling, c, s)
        /\ At(S, b, B, R[b].nextSibling, R[b].prevSibling, d, t)
        /\ DOMAIN S = DOMAIN R
        /\ \A x \in DOMAIN R : x # a /\ x # b => S[x] = R[x]
    BY DEF Reworked
  <1>2. /\ At(N, a, A, R[a].nextSibling, R[a].prevSibling, c + e, s + f)
        /\ Elsewhere(S, N, a)
    BY <1>1, AddAt
  <1>3. At(N, b, B, R[b].nextSibling, R[b].prevSibling, d, t)
    BY <1>1, <1>2, AtElsewhere
  <1>4. N = [x \in DOMAIN N |-> N[x]]
    BY DEF addToNode
  <1>5. DOMAIN N = DOMAIN R /\ \A x \in DOMAIN R : x # a /\ x # b => N[x] = R[x]
    BY <1>1, <1>2 DEF Elsewhere
  <1> QED
    BY <1>2, <1>3, <1>4, <1>5 DEF Reworked

LEMMA ReworkedTurn ==
    ASSUME NEW R, NEW S, NEW a, NEW b, NEW A, NEW c, NEW s, NEW B, NEW d, NEW t,
           Reworked(R, S, a, b, A, c, s, B, d, t)
    PROVE  Reworked(R, S, b, a, B, d, t, A, c, s)
  BY DEF Reworked

(* All keys move to the neighbour.                                         *)
MergesInto(R, M, id, left, right, to) ==
    LET ms == [R EXCEPT ![to].items = R[left].items \o R[right].items,
                        ![id].items = <<>>]
        ts == addToNode(ms, to, R[id].accumCount, R[id].accum)
        prev == R[id].prevSibling
        next == R[id].nextSibling
    IN  M = IF to = right THEN setPrev(setNext(ts, prev, next), to, prev)
                          ELSE setNext(setPrev(ts, next, prev), to, next)
(* What is left when the empty node is taken out. *)
Merged(R, N, id, to, K, x, y) ==
    \E S : /\ Reworked(R, S, to, id, K, R[to].accumCount + R[id].accumCount,
                       R[to].accum + R[id].accum, <<>>, R[id].accumCount, R[id].accum)
           /\ Stores(S) /\ SameLinks(R, S)
           /\ TakenOut(S, N, id, x, y)

LEMMA MergeMakes ==
    ASSUME NEW R, NEW h, Stored(R, h), Structure(R, h, 0),
           NEW id, NEW p, NEW left, NEW right, NEW to, NEW i,
           Pair(R, h, id, p, left, right, to, i),
           NEW n, NEW K, NEW r, InARow(R, left, right, n, K, r),
           NEW x, NEW y, x = R[id].prevSibling, y = R[id].nextSibling,
           NEW M, MergesInto(R, M, id, left, right, to),
           NEW N, N = unlink(M, id)
    PROVE  Merged(R, N, id, to, K, x, y) /\ M[id].items = <<>>
  <1>1. /\ left \in DOMAIN R /\ right \in DOMAIN R /\ left # right /\ left # 0 /\ right # 0
        /\ R[left].nextSibling = right /\ R[right].prevSibling = left
        /\ id \in {left, right} /\ to \in {left, right} /\ to # id
    BY DEF Pair
  <1>2. id \in DOMAIN R /\ to \in DOMAIN R
    BY <1>1
  <1>3. Stores(R)
    BY DEF Stored, Stores
  <1>4. K \in Seq(KeyType)
    BY PairRow
  <1>5. /\ R[to].accumCount \in Nat /\ R[to].accum \in Nat
        /\ R[id].accumCount \in Nat /\ R[id].accum \in Nat
        /\ x \in Nat /\ y \in Nat /\ id # 0
    BY <1>2, NodeFacts
  <1>6. PICK ms : ms = [R EXCEPT ![to].items = K, ![id].items = <<>>]
    OBVIOUS
  <1>7. PICK S : S = addToNode(ms, to, R[id].accumCount, R[id].accum)
    OBVIOUS
  <1>8. Reworked(R, ms, to, id, K, R[to].accumCount, R[to].accum,
                 <<>>, R[id].accumCount, R[id].accum)
    BY <1>1, <1>2, <1>3, <1>6, ReworkedItems
  <1>9. PICK c, s, d, t : /\ c = R[to].accumCount /\ s = R[to].accum
                          /\ d = R[id].accumCount /\ t = R[id].accum
    OBVIOUS
  <1>10. Reworked(R, S, to, id, K, c + d, s + t, <<>>, d, t)
    BY <1>1, <1>7, <1>8, <1>9, ReworkedAdd
  <1>11. Stores(S) /\ SameLinks(R, S)
    <2>1. c + d \in Nat /\ s + t \in Nat /\ d \in Nat /\ t \in Nat
      BY <1>5, <1>9
    <2>2. <<>> \in Seq(KeyType)
      OBVIOUS
    <2> QED
      BY <1>2, <1>3, <1>4, <1>10, <2>1, <2>2, ReworkedStores
  <1>12. LinkedAt(R, h, id) /\ LinkedAt(R, h, to)
    BY <1>2 DEF Structure
  <1>13. Between(S, x, y)
    BY <1>5, <1>11, <1>12 DEF Between, SameLinks, LinkedAt
  <1>14. LinkedPast(S, M, x, y)
    <2>1. CASE to = right
      <3>1. y = to
        BY SMTT(30), <1>1, <2>1
      <3>2. M = setPrev(setNext(S, x, y), y, x)
        BY <1>6, <1>7, <2>1, <3>1 DEF MergesInto, InARow
      <3> QED
        BY <1>13, <3>2, NextThenPrev
    <2>2. CASE to # right
      <3>1. x = to
        BY SMTT(30), <1>1, <2>2
      <3>2. M = setNext(setPrev(S, y, x), x, y)
        BY <1>6, <1>7, <2>2, <3>1 DEF MergesInto, InARow
      <3> QED
        BY <1>13, <3>2, PrevThenNext
    <2> QED
      BY <2>1, <2>2
  <1>15. x # id /\ y # id
    <2>1. x = id => y = id
      BY <1>5, <1>12 DEF LinkedAt
    <2>2. y = id => x = id
      BY <1>5, <1>12 DEF LinkedAt
    <2>3. x = id /\ y = id => FALSE
      BY <1>1
    <2> QED
      BY <2>1, <2>2, <2>3
  <1>16. M[id].prevSibling = x /\ M[id].nextSibling = y /\ M[id].items = <<>>
    <2>1. id \in DOMAIN S /\ S[id].prevSibling = x /\ S[id].nextSibling = y
      BY <1>2, <1>11 DEF SameLinks
    <2>2. S[id].items = <<>>
      BY <1>10 DEF Reworked, At
    <2> QED
      BY <1>14, <1>15, <2>1, <2>2 DEF LinkedPast, SameRecords
  <1>17. PICK L : L = setPrev(setNext(M, x, y), y, x)
    OBVIOUS
  <1>18. Between(M, x, y)
    BY <1>13, <1>14 DEF Between, LinkedPast
  <1>19. LinkedPast(M, L, x, y)
    BY <1>17, <1>18, NextThenPrev
  <1>20. LinkedPast(S, L, x, y)
    BY <1>14, <1>19, PastTwice
  <1>21. N = deleteNode(L, id)
    BY <1>16, <1>17 DEF unlink
  <1>22. TakenOut(S, N, id, x, y)
    BY <1>20, <1>21, PastOut
  <1> QED
    BY <1>9, <1>10, <1>11, <1>16, <1>22 DEF Merged

-----------------------------------------------------------------------------
(* The keys in a row go up.                                                *)
LEMMA RowAscends ==
    ASSUME NEW R, NEW h, Structure(R, h, 0), NEW a, NEW b, NEW n, NEW K, NEW x,
           Group(R, a, b, n, K, x), NEW l, l \in Nat, \A id \in Members(a, b) : h[id] = l
    PROVE  /\ KeyRow(R, h, l, K, firstKey(R, x))
           /\ K \in Seq(KeyType) /\ Len(K) \in Nat /\ Len(K) >= 1
           /\ Ascends(K)
           /\ x # a
  <1>1. K \in Seq(KeyType) /\ n \in 1 .. Len(K) /\ Len(K) \in Nat
    BY DEF Group
  <1>2. PICK e : e = firstKey(R, x)
    OBVIOUS
  <1>3. KeyRow(R, h, l, K, e)
    BY <1>2, RowOfGroup
  <1>4. \A k \in 1 .. Len(K) : k < Len(K) => K[k].item < K[k + 1].item
    <2>1. ASSUME NEW k \in 1 .. Len(K), k < Len(K)
          PROVE  K[k].item < K[k + 1].item
      <3>1. after(K, e, k) = K[k + 1]
        BY <2>1 DEF after
      <3>2. k + 1 \in 1 .. Len(K)
        BY <1>1, <2>1
      <3>3. K[k + 1] \in KeyType
        BY <1>1, <3>2
      <3>4. K[k + 1] # none
        BY <3>3, KeyParts
      <3> QED
        BY <1>3, <2>1, <3>1, <3>4 DEF KeyRow
    <2> QED
      BY <2>1
  <1>5. Ascends(K)
    BY <1>1, <1>4, StepsAscend
  <1>6. Len(K) >= 1
    BY <1>1
  <1>7. ASSUME x = a
        PROVE  FALSE
    <2>1. firstKey(R, a) = K[1]
      BY NotInGroup
    <2>2. PICK k : k = Len(K)
      OBVIOUS
    <2>3. k \in 1 .. Len(K) /\ 1 \in 1 .. Len(K)
      BY <1>1, <1>6, <2>2
    <2>4. after(K, e, k) = K[1]
      BY <1>2, <1>7, <2>1, <2>2, <2>3 DEF after
    <2>5. K[1] \in KeyType /\ K[k] \in KeyType
      BY <1>1, <2>3
    <2>6. K[1] # none /\ K[1].item \in Nat /\ K[k].item \in Nat
      BY <2>5, KeyParts
    <2>7. K[k].item < K[1].item
      BY <1>3, <2>3, <2>4, <2>6 DEF KeyRow
    <2>8. k = 1 \/ K[1].item < K[k].item
      BY <1>1, <1>5, <2>2, <2>3 DEF Ascends
    <2> QED
      BY <2>6, <2>7, <2>8
  <1> QED
    BY <1>1, <1>2, <1>3, <1>5, <1>6, <1>7

(* What the keys of a pair have below them. *)
RowBelow(R, h, left, right, K) ==
    /\ HasChildren(R, K) /\ KeysFirst(R, K, {})
    /\ countOfAll(R, K) = R[left].accumCount + R[right].accumCount
    /\ accumOfAll(R, K) = R[left].accum + R[right].accum
    /\ \A k \in 1 .. Len(K) : K[k].nodeId # 0 =>
          /\ K[k].nodeId \in DOMAIN R /\ h[K[k].nodeId] = h[left] - 1
          /\ K[k].nodeId # left /\ K[k].nodeId # right
LEMMA PairBelow ==
    ASSUME NEW R, NEW h, Structure(R, h, 0), Stored(R, h),
           NEW id, NEW p, NEW left, NEW right, NEW to, NEW i,
           Pair(R, h, id, p, left, right, to, i), Recorded(R, id),
           NEW n, NEW K, NEW x, InARow(R, left, right, n, K, x)
    PROVE  RowBelow(R, h, left, right, K)
  <1>1. /\ left \in DOMAIN R /\ right \in DOMAIN R /\ left # right /\ right # 0
        /\ h[left] = h[id] /\ h[right] = h[id]
        /\ id \in {left, right} /\ to \in {left, right} /\ to # id /\ Recorded(R, to)
    BY DEF Pair
  <1>2. /\ R[left].items \in Seq(KeyType) /\ R[right].items \in Seq(KeyType)
        /\ Len(R[left].items) \in Nat /\ Len(R[right].items) \in Nat
        /\ DOMAIN R[left].items = 1 .. Len(R[left].items)
        /\ DOMAIN R[right].items = 1 .. Len(R[right].items)
        /\ h[left] \in Nat
    BY <1>1, NodeFacts
  <1>3. n = Len(R[left].items) /\ x = R[right].nextSibling
    BY DEF InARow
  <1>l. PICK l : l = h[left]
    OBVIOUS
  <1>4. Group(R, left, right, n, K, x) /\ K \in Seq(KeyType)
        /\ Len(K) = n + Len(R[right].items)
    <2>1. PICK m : m = Len(R[right].items)
      OBVIOUS
    <2>2. Group(R, left, right, n, K, x) /\ K \in Seq(KeyType)
      BY PairRow
    <2>3. Len(K) = n + Len(R[right].items)
      BY PairRow
    <2> QED
      BY <2>2, <2>3
  <1>5. \A m \in Members(left, right) : h[m] = l
    BY <1>1, <1>l DEF Members
  <1>6. KeyRow(R, h, l, K, firstKey(R, x))
    BY <1>2, <1>l, <1>4, <1>5, RowAscends
  <1>7. \A k \in 1 .. Len(K) : K[k].nodeId # 0 =>
          /\ K[k].nodeId \in DOMAIN R /\ h[K[k].nodeId] = h[left] - 1
    BY <1>l, <1>6 DEF KeyRow
  <1>8. \A k \in 1 .. Len(K) : K[k].nodeId # 0 =>
            K[k].nodeId # left /\ K[k].nodeId # right
    BY <1>1, <1>2, <1>7
  <1>9. HasChildren(R, K)
    BY <1>7 DEF HasChildren
  <1>10. Recorded(R, left) /\ Recorded(R, right)
    BY <1>1
  <1>11. Joins(KeyType, R[left].items, R[right].items, K)
    BY <1>2, Joined DEF InARow
  <1>12. PICK L, M : L = R[left].items /\ M = R[right].items
    OBVIOUS
  <1>13. KeysFirst(R, K, {})
    <2>1. ASSUME NEW k \in 1 .. Len(K), K[k].nodeId # 0
          PROVE  K[k].item = firstItem(R, K[k].nodeId)
      <3>1. CASE k <= n
        <4>1. k \in 1 .. Len(L) /\ K[k] = L[k]
          <5>1. n \in Nat /\ n = Len(L) /\ k \in Nat /\ k >= 1
            BY <1>2, <1>3, <1>4, <1>12, <2>1
          <5>2. k \in 1 .. Len(L)
            BY ONLY <5>1, <3>1
          <5>3. \A m \in 1 .. Len(L) : K[m] = L[m]
            BY <1>11, <1>12 DEF Joins
          <5> QED
            BY <5>2, <5>3
        <4>2. KeysFirst(R, L, {}) /\ DOMAIN L = 1 .. Len(L)
          BY <1>2, <1>10, <1>12 DEF Recorded
        <4> QED
          BY <2>1, <4>1, <4>2 DEF KeysFirst
      <3>2. CASE k > n
        <4>1. PICK m : m = k - n
          OBVIOUS
        <4>2. n \in Nat /\ Len(M) \in Nat /\ Len(K) = n + Len(M) /\ k \in Nat
          BY <1>2, <1>3, <1>4, <1>12, <2>1
        <4>3. m \in 1 .. Len(M) /\ k = n + m
          BY <2>1, <3>2, <4>1, <4>2
        <4>4. K[k] = M[m]
          BY <1>3, <1>11, <1>12, <4>3 DEF Joins
        <4>5. KeysFirst(R, M, {}) /\ DOMAIN M = 1 .. Len(M)
          BY <1>2, <1>10, <1>12 DEF Recorded
        <4> QED
          BY <2>1, <4>3, <4>4, <4>5 DEF KeysFirst
      <3> QED
        BY <1>2, <1>3, <2>1, <3>1, <3>2
    <2>2. DOMAIN K = 1 .. Len(K)
      BY <1>4
    <2> QED
      BY <2>1, <2>2 DEF KeysFirst
  <1>14. CutAt(K, n, L, M)
    <2>1. /\ L \in Seq(KeyType) /\ M \in Seq(KeyType) /\ n \in Nat
          /\ Len(L) = n /\ Len(M) \in Nat /\ Len(K) = n + Len(M) /\ K = L \o M
      BY <1>2, <1>3, <1>4, <1>12 DEF InARow
    <2>2. /\ \A k \in 1 .. Len(L) : K[k] = L[k]
          /\ \A k \in 1 .. Len(M) : K[Len(L) + k] = M[k]
      BY <1>11, <1>12 DEF Joins
    <2>3. PICK m, q : m = Len(M) /\ q = Len(K)
      OBVIOUS
    <2>4. n \in Nat /\ m \in Nat /\ q = n + m
      BY <2>1, <2>3
    <2>5. /\ q - n = m /\ \A k \in 1 .. n : 0 + k \in 1 .. q /\ 0 + k = k
          /\ \A k \in 1 .. m : n + k \in 1 .. q
      BY ONLY <2>4
    <2> QED
      BY ONLY <2>1, <2>2, <2>3, <2>5 DEF CutAt, PartOf
  <1>15. HasChildren(R, L) /\ HasChildren(R, M)
    <2>1. LevelsAt(R, h, left) /\ LevelsAt(R, h, right)
      BY <1>1 DEF Structure
    <2> QED
      BY <1>2, <1>12, <2>1 DEF LevelsAt, HasChildren
  <1>16. /\ countOfAll(R, K) = countOfAll(R, L) + countOfAll(R, M)
         /\ accumOfAll(R, K) = accumOfAll(R, L) + accumOfAll(R, M)
    <2>1. R \in [DOMAIN R -> NodeType] /\ L \in Seq(KeyType) /\ M \in Seq(KeyType)
      BY <1>2, <1>12 DEF Stored
    <2> QED
      BY <1>4, <1>9, <1>14, <1>15, <2>1, PartTotals
  <1>17. /\ countOfAll(R, L) = R[left].accumCount /\ accumOfAll(R, L) = R[left].accum
         /\ countOfAll(R, M) = R[right].accumCount /\ accumOfAll(R, M) = R[right].accum
    BY <1>10, <1>12 DEF Recorded
  <1> QED
    BY <1>7, <1>8, <1>9, <1>13, <1>16, <1>17 DEF RowBelow

-----------------------------------------------------------------------------
(* Two nodes merged.                                                       *)

(* The neighbour has the keys of both. *)
MergedTo(R, N, id, to, K) ==
    /\ Stores(N) /\ DOMAIN N = DOMAIN R \ {id} /\ to \in DOMAIN N
    /\ N[to].items = K
    /\ N[to].accumCount = R[to].accumCount + R[id].accumCount
    /\ N[to].accum = R[to].accum + R[id].accum
    /\ \A a \in DOMAIN N : /\ a # to => SameRecords(R, N, a)
                           /\ N[a].nextSibling # 0 => R[a].nextSibling # 0
LEMMA MergedNodes ==
    ASSUME NEW R, NEW h, Structure(R, h, 0), NEW id \in DOMAIN R, NEW to \in DOMAIN R, to # id,
           NEW x, NEW y, x = R[id].prevSibling, y = R[id].nextSibling, id # 0,
           NEW K, NEW N, Merged(R, N, id, to, K, x, y)
    PROVE  MergedTo(R, N, id, to, K)
  <1>1. PICK S : /\ Reworked(R, S, to, id, K, R[to].accumCount + R[id].accumCount,
                       R[to].accum + R[id].accum, <<>>, R[id].accumCount, R[id].accum)
                 /\ Stores(S) /\ SameLinks(R, S)
                 /\ TakenOut(S, N, id, x, y)
    BY DEF Merged
  <1>2. /\ DOMAIN S = DOMAIN R
        /\ \A a \in DOMAIN R : a # to /\ a # id => S[a] = R[a]
        /\ S[to].items = K
        /\ S[to].accumCount = R[to].accumCount + R[id].accumCount
        /\ S[to].accum = R[to].accum + R[id].accum
    BY <1>1 DEF Reworked, At
  <1>3. /\ Stores(N) /\ DOMAIN N = DOMAIN R \ {id} /\ to \in DOMAIN N
        /\ \A a \in DOMAIN N : SameRecords(S, N, a)
    BY <1>1, <1>2 DEF TakenOut
  <1>4. N[to].items = K
        /\ N[to].accumCount = R[to].accumCount + R[id].accumCount
        /\ N[to].accum = R[to].accum + R[id].accum
    BY <1>2, <1>3 DEF SameRecords
  <1>5. ASSUME NEW a \in DOMAIN N, a # to
        PROVE  SameRecords(R, N, a)
    <2>1. S[a] = R[a] /\ SameRecords(S, N, a)
      BY <1>2, <1>3, <1>5
    <2> QED
      BY <2>1 DEF SameRecords
  <1>6. ASSUME NEW a \in DOMAIN N, N[a].nextSibling # 0
        PROVE  R[a].nextSibling # 0
    <2>1. N[a].nextSibling = IF a = x THEN y ELSE R[a].nextSibling
      BY <1>1, <1>2, <1>3, <1>6 DEF TakenOut, SameLinks
    <2>2. a = x => R[a].nextSibling = id
      <3>1. LinkedAt(R, h, id) /\ Stored(R, h)
        BY DEF Structure
      <3>2. a # 0
        BY <1>3, <1>6, <3>1, NodeFacts
      <3> QED
        BY <3>1, <3>2 DEF LinkedAt
    <2> QED
      BY <1>6, <2>1, <2>2
  <1> QED
    BY <1>3, <1>4, <1>5, <1>6 DEF MergedTo

(* A merge at the node id. *)
Merging(T, R, N, h, root, id, p, j, item, left, right, to, i, n, K, x) ==
    /\ Thin(T, R, h, root, id, p, j, item) /\ p # 0
    /\ Pair(R, h, id, p, left, right, to, i)
    /\ InARow(R, left, right, n, K, x)
    /\ Len(K) <= REBALANCE_THRESHOLD
    /\ Merged(R, N, id, to, K, R[id].prevSibling, R[id].nextSibling)
Mergings(R, N, h, id, p, left, right, to, i, n, K, x) ==
    /\ Structure(R, h, 0) /\ Stored(R, h) /\ Recorded(R, id)
    /\ id \in DOMAIN R /\ to \in DOMAIN R /\ to # id /\ id # 0 /\ to # 0
    /\ p \in DOMAIN R /\ p # 0 /\ p # id /\ p # to /\ h[p] = h[id] + 1
    /\ h[to] = h[id] /\ h[id] \in Nat
    /\ id \in {left, right} /\ to \in {left, right} /\ left # right
    /\ R[left].nextSibling = right
    /\ Group(R, left, right, n, K, x)
    /\ RowBelow(R, h, left, right, K)
    /\ MergedTo(R, N, id, to, K)
LEMMA MergingParts ==
    ASSUME NEW T, NEW R, NEW N, NEW h, NEW root, NEW id, NEW p, NEW j, NEW item,
           NEW left, NEW right, NEW to, NEW i, NEW n, NEW K, NEW x,
           Merging(T, R, N, h, root, id, p, j, item, left, right, to, i, n, K, x)
    PROVE  Mergings(R, N, h, id, p, left, right, to, i, n, K, x)
  <1>1. /\ Thin(T, R, h, root, id, p, j, item) /\ p # 0
        /\ Pair(R, h, id, p, left, right, to, i)
        /\ InARow(R, left, right, n, K, x)
        /\ Merged(R, N, id, to, K, R[id].prevSibling, R[id].nextSibling)
    BY DEF Merging
  <1>2. /\ Structure(R, h, 0) /\ Stored(R, h) /\ Recorded(R, id) /\ id \in DOMAIN R /\ id # 0
    BY <1>1, ThinParts
  <1>3. /\ p \in DOMAIN R /\ p # id /\ h[p] = h[id] + 1 /\ h[id] \in Nat
    BY <1>1, ThinAbove
  <1>4. /\ left \in DOMAIN R /\ right \in DOMAIN R /\ left # right /\ left # 0 /\ right # 0
        /\ h[left] = h[id] /\ h[right] = h[id]
        /\ id \in {left, right} /\ to \in {left, right} /\ to # id
        /\ R[left].nextSibling = right
    BY <1>1 DEF Pair
  <1>5. to \in DOMAIN R /\ to # 0 /\ h[to] = h[id] /\ p # to
    BY <1>3, <1>4
  <1>6. Group(R, left, right, n, K, x)
    BY <1>1, <1>2, PairRow
  <1>7. RowBelow(R, h, left, right, K)
    BY <1>1, <1>2, PairBelow
  <1>8. PICK a, b : a = R[id].prevSibling /\ b = R[id].nextSibling
    OBVIOUS
  <1>9. Merged(R, N, id, to, K, a, b)
    BY <1>1, <1>8
  <1>10. MergedTo(R, N, id, to, K)
    BY <1>2, <1>4, <1>5, <1>8, <1>9, MergedNodes
  <1> QED
    BY <1>1, <1>2, <1>3, <1>4, <1>5, <1>6, <1>7, <1>10 DEF Mergings

LEMMA MergeDrop ==
    ASSUME NEW T, NEW R, NEW N, NEW h, NEW root, NEW id, NEW p, NEW j, NEW item,
           NEW left, NEW right, NEW to, NEW i, NEW n, NEW K, NEW x,
           Merging(T, R, N, h, root, id, p, j, item, left, right, to, i, n, K, x),
           NEW S, S = [N EXCEPT ![p].items = RemoveAt(R[p].items, j)],
           NEW h2, LevelLeft(S, h, h2)
    PROVE  Drop(T, R, N, S, h, h2, root, id, p, j, item, {to})
  <1>1. Mergings(R, N, h, id, p, left, right, to, i, n, K, x)
    BY MergingParts
  <1>2. /\ Structure(R, h, 0) /\ id \in DOMAIN R /\ MergedTo(R, N, id, to, K)
        /\ p \in DOMAIN R /\ p # id /\ to # 0 /\ to \in {left, right}
    BY <1>1 DEF Mergings
  <1>3. /\ Thin(T, R, h, root, id, p, j, item) /\ p # 0
        /\ Pair(R, h, id, p, left, right, to, i)
        /\ Merged(R, N, id, to, K, R[id].prevSibling, R[id].nextSibling)
    BY DEF Merging
  <1>4. Stores(N) /\ p \in DOMAIN N
    BY <1>2 DEF MergedTo
  <1>5. SameLinks(N, S)
    BY <1>4, RekeyedLinks
  <1>6. PICK a, b : a = R[id].prevSibling /\ b = R[id].nextSibling
    OBVIOUS
  <1>7. PICK M : SameLinks(R, M) /\ TakenOut(M, N, id, a, b)
    BY <1>3, <1>6 DEF Merged
  <1>8. NodeDropped(R, S, h, h2, id)
    BY <1>2, <1>5, <1>6, <1>7, TakenDropped
  <1>9. Others(R, N, id, {to})
    <2>1. DOMAIN N = DOMAIN R \ {id}
      BY <1>2 DEF MergedTo
    <2>2. DOMAIN N \ {to} = DOMAIN R \ ({id} \cup {to})
      BY <2>1
    <2>3. \A c \in DOMAIN N : /\ c # to => SameRecords(R, N, c)
                              /\ N[c].nextSibling # 0 => R[c].nextSibling # 0
      BY <1>2 DEF MergedTo
    <2> QED
      BY <2>2, <2>3 DEF Others
  <1>10. UnderKeys(R, h, p, {to})
    <2>1. KeyAbove(R, h, left, p, i) /\ KeyAbove(R, h, right, p, i + 1)
      BY <1>3 DEF Pair
    <2> QED
      BY <1>2, <2>1 DEF UnderKeys
  <1> QED
    BY <1>3, <1>4, <1>8, <1>9, <1>10 DEF Drop

-----------------------------------------------------------------------------
(* The merged nodes, with the key about to be removed.                     *)
MergeInto(T, R, N, S, h, h2, root, id, p, j, item, left, right, to, i, n, K, x) ==
    /\ Merging(T, R, N, h, root, id, p, j, item, left, right, to, i, n, K, x)
    /\ S = [N EXCEPT ![p].items = RemoveAt(R[p].items, j)]
    /\ LevelLeft(S, h, h2)
LEMMA MergeDrops ==
    ASSUME NEW T, NEW R, NEW N, NEW S, NEW h, NEW h2, NEW root, NEW id, NEW p, NEW j, NEW item,
           NEW left, NEW right, NEW to, NEW i, NEW n, NEW K, NEW x,
           MergeInto(T, R, N, S, h, h2, root, id, p, j, item, left, right, to, i, n, K, x)
    PROVE  /\ Mergings(R, N, h, id, p, left, right, to, i, n, K, x)
           /\ \E M : M = {to} /\ Drop(T, R, N, S, h, h2, root, id, p, j, item, M)
                     /\ DropsTo(R, N, S, h, id, p, j, M)
  <1>1. /\ Merging(T, R, N, h, root, id, p, j, item, left, right, to, i, n, K, x)
        /\ S = [N EXCEPT ![p].items = RemoveAt(R[p].items, j)]
        /\ LevelLeft(S, h, h2)
    BY DEF MergeInto
  <1>2. Mergings(R, N, h, id, p, left, right, to, i, n, K, x)
    BY <1>1, MergingParts
  <1>3. PICK M : M = {to}
    OBVIOUS
  <1>4. Drop(T, R, N, S, h, h2, root, id, p, j, item, M)
    BY <1>1, <1>3, MergeDrop
  <1>5. DropsTo(R, N, S, h, id, p, j, M)
    BY <1>4, DropNodes
  <1> QED
    BY <1>2, <1>3, <1>4, <1>5

(* The nodes of S that have not changed. *)
LEMMA MergeSame ==
    ASSUME NEW T, NEW R, NEW N, NEW S, NEW h, NEW h2, NEW root, NEW id, NEW p, NEW j, NEW item,
           NEW left, NEW right, NEW to, NEW i, NEW n, NEW K, NEW x,
           MergeInto(T, R, N, S, h, h2, root, id, p, j, item, left, right, to, i, n, K, x)
    PROVE  /\ \A a \in DOMAIN R : a # id /\ a # to /\ a # p =>
                 a \in DOMAIN S /\ S[a].items = R[a].items
           /\ to \in DOMAIN S /\ S[to].items = K
  <1>1. Mergings(R, N, h, id, p, left, right, to, i, n, K, x)
    BY MergeDrops
  <1>2. PICK M : DropsTo(R, N, S, h, id, p, j, M)
    BY MergeDrops
  <1>3. /\ DOMAIN S = DOMAIN R \ {id} /\ DOMAIN N = DOMAIN S
        /\ \A a \in DOMAIN S : a # p => S[a].items = N[a].items
    BY <1>2 DEF DropsTo
  <1>4. to \in DOMAIN R /\ to # id /\ to # p /\ MergedTo(R, N, id, to, K)
    BY <1>1 DEF Mergings
  <1> QED
    BY <1>3, <1>4 DEF MergedTo, SameRecords

LEMMA MergeStructure ==
    ASSUME NEW T, NEW R, NEW N, NEW S, NEW h, NEW h2, NEW root, NEW id, NEW p, NEW j, NEW item,
           NEW left, NEW right, NEW to, NEW i, NEW n, NEW K, NEW x,
           MergeInto(T, R, N, S, h, h2, root, id, p, j, item, left, right, to, i, n, K, x)
    PROVE  Structure(S, h2, p) /\ LeavesAgree(R, S, h, h2)
  <1>1. Mergings(R, N, h, id, p, left, right, to, i, n, K, x)
    BY MergeDrops
  <1>2. PICK M : Drop(T, R, N, S, h, h2, root, id, p, j, item, M)
    BY MergeDrops
  <1>3. NodeDropped(R, S, h, h2, id)
    BY <1>2 DEF Drop
  <1>4. KeyDropped(R, S, h, id, p, j)
    BY <1>2, DropKeys
  <1>5. Stored(S, h2)
    BY <1>2, DropStored
  <1>6. /\ Structure(R, h, 0) /\ Stored(R, h) /\ id \in DOMAIN R /\ to \in DOMAIN R
        /\ id # to /\ id # 0 /\ to # 0
        /\ id \in {left, right} /\ to \in {left, right} /\ left # right
        /\ R[left].nextSibling = right /\ Group(R, left, right, n, K, x)
        /\ h[to] = h[id] /\ h[id] \in Nat /\ h[p] = h[id] + 1
    BY <1>1 DEF Mergings
  <1>7. right # 0 /\ left # 0
    BY <1>6
  <1>8. /\ K \in Seq(KeyType) /\ Len(K) \in Nat /\ Len(K) >= 1 /\ x # left /\ x # right
    <2>1. PICK l : l = h[id]
      OBVIOUS
    <2>2. \A m \in Members(left, right) : h[m] = l
      BY <1>6, <2>1 DEF Members
    <2>3. K \in Seq(KeyType) /\ Len(K) \in Nat /\ Len(K) >= 1 /\ x # left
      BY <1>6, <2>1, <2>2, RowAscends
    <2>4. x # right
      BY <1>6, <1>7, NotInGroup
    <2> QED
      BY <2>3, <2>4
  <1>9. to \in DOMAIN S /\ S[to].items = K
    BY MergeSame
  <1>10. S[to].nextSibling = x
    <2>1. R[right].nextSibling = x
      BY <1>6, <1>7 DEF Group
    <2>2. S[to].nextSibling = IF R[to].nextSibling = id THEN R[id].nextSibling
                              ELSE R[to].nextSibling
      BY <1>3, <1>9 DEF NodeDropped
    <2> QED
      BY <1>6, <1>8, <2>1, <2>2
  <1>11. Group(S, to, 0, Len(K), K, x)
    BY <1>8, <1>9, <1>10 DEF Group
  <1>12. SameBelow(R, S, h, {left, right}, h[id])
    <2>1. ASSUME NEW a \in DOMAIN R \ {left, right}, h[a] <= h[id]
          PROVE  S[a].items = R[a].items
      <3>1. a # id /\ a # to /\ a # p
        BY <1>6, <2>1
      <3> QED
        BY <2>1, <3>1, MergeSame
    <2> QED
      BY <2>1 DEF SameBelow
  <1>13. /\ Structure(R, h, 0) /\ Stored(S, h2) /\ right # 0
         /\ id \in {left, right} /\ to \in {left, right} /\ to # id
         /\ Group(R, left, right, n, K, x) /\ Group(S, to, 0, Len(K), K, x)
         /\ NodeDropped(R, S, h, h2, id) /\ KeyDropped(R, S, h, id, p, j)
         /\ SameBelow(R, S, h, {left, right}, h[id])
    BY <1>3, <1>4, <1>5, <1>6, <1>7, <1>11, <1>12
  <1> QED
    BY ONLY <1>13, MergeWhole

LEMMA MergeStays ==
    ASSUME NEW T, NEW R, NEW N, NEW S, NEW h, NEW h2, NEW root, NEW id, NEW p, NEW j, NEW item,
           NEW left, NEW right, NEW to, NEW i, NEW n, NEW K, NEW x,
           MergeInto(T, R, N, S, h, h2, root, id, p, j, item, left, right, to, i, n, K, x)
    PROVE  ChildrenStay(R, S, p)
  <1>1. Mergings(R, N, h, id, p, left, right, to, i, n, K, x)
    BY MergeDrops
  <1>2. /\ Stored(R, h) /\ id \in {left, right} /\ to \in {left, right} /\ id # to
        /\ Group(R, left, right, n, K, x)
    BY <1>1 DEF Mergings
  <1>3. to \in DOMAIN S /\ S[to].items = K
    BY MergeSame
  <1>4. ASSUME NEW a \in DOMAIN R \ {p}, NEW k \in DOMAIN R[a].items
        PROVE  IsChild(S, R[a].items[k].nodeId)
    <2>1. CASE a # id /\ a # to
      <3>1. a \in DOMAIN S /\ S[a].items = R[a].items
        BY <1>4, <2>1, MergeSame
      <3> QED
        BY <1>4, <3>1 DEF IsChild
    <2>2. CASE a = id \/ a = to
      <3>1. a \in Members(left, right)
        <4>1. id # 0 /\ to # 0
          BY <1>1 DEF Mergings
        <4>2. right # 0
          BY <1>2, <4>1
        <4> QED
          BY <1>2, <2>2, <4>2 DEF Members
      <3>2. k \in 1 .. Len(R[a].items)
        BY <1>2, <1>4, NodeFacts
      <3>3. PICK e, m : e = firstKey(R, x) /\ m = inRow(left, n, a, k)
        OBVIOUS
      <3>4. InRow(R, K, e, a, k, m)
        BY <1>2, <3>1, <3>2, <3>3, GroupIn
      <3>5. m \in 1 .. Len(K) /\ R[a].items[k] = K[m]
        BY <3>4 DEF InRow
      <3>6. DOMAIN K = 1 .. Len(K)
        BY <1>2 DEF Group
      <3> QED
        BY <1>3, <3>5, <3>6 DEF IsChild
    <2> QED
      BY <2>1, <2>2
  <1> QED
    BY <1>4 DEF ChildrenStay

-----------------------------------------------------------------------------
(* What the merged node records.                                           *)
LEMMA MergeSized ==
    ASSUME NEW T, NEW R, NEW N, NEW h, NEW root, NEW id, NEW p, NEW j, NEW item,
           NEW left, NEW right, NEW to, NEW i, NEW n, NEW K, NEW x,
           Merging(T, R, N, h, root, id, p, j, item, left, right, to, i, n, K, x)
    PROVE  Sized(N[to])
  <1>1. Mergings(R, N, h, id, p, left, right, to, i, n, K, x)
    BY MergingParts
  <1>2. /\ Pair(R, h, id, p, left, right, to, i) /\ InARow(R, left, right, n, K, x)
        /\ Len(K) <= REBALANCE_THRESHOLD
    BY DEF Merging
  <1>3. Stored(R, h) /\ MergedTo(R, N, id, to, K)
    BY <1>1 DEF Mergings
  <1>4. Len(K) >= Len(R[to].items) /\ Len(K) \in Nat
    BY <1>2, <1>3, PairRow
  <1>5. Sized(R[to])
    BY <1>2 DEF Pair
  <1>6. /\ N[to].items = K
        /\ N[to].nextSibling # 0 => R[to].nextSibling # 0
    BY <1>3 DEF MergedTo
  <1>7. PICK a, b : a = Len(R[to].items) /\ b = Len(K)
    OBVIOUS
  <1>8. /\ a \in 1 .. MAX_ITEMS
        /\ R[to].nextSibling # 0 => a >= MIN_ITEMS
    BY <1>5, <1>7 DEF Sized
  <1>9. b \in Nat /\ b >= a /\ b <= REBALANCE_THRESHOLD
    BY <1>2, <1>4, <1>7
  <1>10. b \in 1 .. MAX_ITEMS
    BY ONLY <1>8, <1>9, Sizes
  <1>11. N[to].nextSibling # 0 => b >= MIN_ITEMS
    BY ONLY <1>6, <1>8, <1>9, Sizes
  <1> QED
    BY <1>6, <1>7, <1>10, <1>11 DEF Sized

LEMMA MergeRecorded ==
    ASSUME NEW R, NEW N, NEW h, NEW id, NEW p,
           NEW left, NEW right, NEW to, NEW i, NEW n, NEW K, NEW x,
           Mergings(R, N, h, id, p, left, right, to, i, n, K, x)
    PROVE  Recorded(N, to)
  <1>1. /\ RowBelow(R, h, left, right, K) /\ MergedTo(R, N, id, to, K)
        /\ Group(R, left, right, n, K, x)
        /\ id \in {left, right} /\ to \in {left, right} /\ id # to
        /\ id \in DOMAIN R /\ to \in DOMAIN R /\ Stored(R, h)
    BY DEF Mergings
  <1>2. K \in Seq(KeyType) /\ DOMAIN K = 1 .. Len(K)
    BY <1>1 DEF Group
  <1>3. ASSUME NEW k \in DOMAIN K, K[k].nodeId # 0
        PROVE  SameRecords(R, N, K[k].nodeId)
    <2>1. K[k].nodeId \in DOMAIN R /\ K[k].nodeId # left /\ K[k].nodeId # right
      BY <1>1, <1>2, <1>3 DEF RowBelow
    <2>2. K[k].nodeId # id /\ K[k].nodeId # to
      BY <1>1, <2>1
    <2> QED
      BY <1>1, <2>1, <2>2 DEF MergedTo
  <1>4. KeysFirst(N, K, {})
    <2>1. KeysFirst(R, K, {})
      BY <1>1 DEF RowBelow
    <2> QED
      BY <2>1, <1>3 DEF KeysFirst, SameRecords, firstItem
  <1>5. countOfAll(N, K) = countOfAll(R, K) /\ accumOfAll(N, K) = accumOfAll(R, K)
    <2>1. \A k \in DOMAIN K : K[k].nodeId # 0 =>
              /\ N[K[k].nodeId].accumCount = R[K[k].nodeId].accumCount
              /\ N[K[k].nodeId].accum = R[K[k].nodeId].accum
      BY <1>3 DEF SameRecords
    <2> QED
      BY <2>1, SameCounts
  <1>6. /\ N[to].items = K
        /\ N[to].accumCount = R[to].accumCount + R[id].accumCount
        /\ N[to].accum = R[to].accum + R[id].accum
    BY <1>1 DEF MergedTo
  <1>7. /\ countOfAll(R, K) = R[left].accumCount + R[right].accumCount
        /\ accumOfAll(R, K) = R[left].accum + R[right].accum
    BY <1>1 DEF RowBelow
  <1>8. /\ R[id].accumCount \in Nat /\ R[to].accumCount \in Nat
        /\ R[id].accum \in Nat /\ R[to].accum \in Nat
    BY <1>1, NodeFacts
  <1>9. (id = left /\ to = right) \/ (id = right /\ to = left)
    BY <1>1
  <1>10. N[to].accumCount = countOfAll(N, K) /\ N[to].accum = accumOfAll(N, K)
    BY <1>5, <1>6, <1>7, <1>8, <1>9
  <1> QED
    BY <1>4, <1>6, <1>10 DEF Recorded

PairPlace(R, id, p, j, left, right, to, i, z) ==
    /\ id = left => j = i /\ to = right
    /\ id = right => j = i + 1 /\ to = left
    /\ i \in Nat /\ i >= 1 /\ i + 1 <= z /\ j \in 1 .. z
    /\ R[p].items[i].nodeId = left /\ R[p].items[i + 1].nodeId = right
    /\ R[p].items[j].nodeId = id
    /\ \A k \in 1 .. z :
          /\ R[p].items[k].nodeId = left => k = i
          /\ R[p].items[k].nodeId = right => k = i + 1
(* The keys above, of which the first one with the items is at i.          *)
KeysOver(R, N, id, to, i, K2) ==
    /\ K2 \in Seq(KeyType) /\ DOMAIN K2 = 1 .. Len(K2) /\ i \in 1 .. Len(K2)
    /\ K2[i].nodeId = to
    /\ HasChildren(R, K2) /\ HasChildren(N, K2)
    /\ \A k \in 1 .. Len(K2) : k # i /\ K2[k].nodeId # 0 =>
          /\ K2[k].nodeId # to /\ K2[k].nodeId # id
          /\ SameRecords(R, N, K2[k].nodeId)
LEMMA PairPlaceIs ==
    ASSUME NEW T, NEW R, NEW h, NEW root, NEW id, NEW p, NEW j, NEW item,
           NEW left, NEW right, NEW to, NEW i,
           Thin(T, R, h, root, id, p, j, item), p # 0, Pair(R, h, id, p, left, right, to, i),
           NEW z, z = Len(R[p].items)
    PROVE  PairPlace(R, id, p, j, left, right, to, i, z)
  <1>1. /\ Structure(R, h, 0) /\ Stored(R, h) /\ id # 0
    BY ThinParts
  <1>2. p \in DOMAIN R
    BY ThinAbove
  <1>3. /\ Structure(R, h, 0) /\ Stored(R, h) /\ p \in DOMAIN R
        /\ id \in {left, right} /\ to \in {left, right} /\ to # id /\ left # right
        /\ left # 0 /\ right # 0
    BY <1>1, <1>2 DEF Pair
  <1>4. OneParent(R)
    BY <1>3 DEF Structure
  <1>5. KeyAbove(R, h, left, p, i) /\ KeyAbove(R, h, right, p, i + 1)
    BY DEF Pair
  <1>6. KeyAbove(R, h, id, p, j)
    BY ThinAbove
  <1>7. z = Len(R[p].items)
    OBVIOUS
  <1>8. z \in Nat
    BY <1>3, <1>7, NodeFacts
  <1>9. /\ i \in 1 .. z /\ i + 1 \in 1 .. z /\ j \in 1 .. z
        /\ R[p].items[i].nodeId = left /\ R[p].items[i + 1].nodeId = right
        /\ R[p].items[j].nodeId = id
    BY <1>5, <1>6, <1>7 DEF KeyAbove
  <1>10. ASSUME NEW k \in 1 .. z
         PROVE  /\ R[p].items[k].nodeId = left => k = i
                /\ R[p].items[k].nodeId = right => k = i + 1
    <2>1. left # 0 /\ right # 0
      BY <1>3
    <2>2. PICK i1 : i1 = i + 1
      OBVIOUS
    <2>3. R[p].items[k].nodeId = left => k = i
      BY <1>3, <1>4, <1>7, <1>9, <2>1, OtherChild
    <2>4. R[p].items[k].nodeId = right => k = i1
      BY <1>3, <1>4, <1>7, <1>9, <2>1, <2>2, OtherChild
    <2> QED
      BY <2>2, <2>3, <2>4
  <1>11. /\ i \in Nat /\ i >= 1 /\ i + 1 <= z
    BY <1>8, <1>9
  <1>12. id = left => j = i /\ to = right
    BY <1>3, <1>9, <1>10
  <1>13. id = right => j = i + 1 /\ to = left
    BY <1>3, <1>9, <1>10
  <1> QED
    BY <1>9, <1>10, <1>11, <1>12, <1>13 DEF PairPlace

LEMMA MergeOver ==
    ASSUME NEW T, NEW R, NEW N, NEW h, NEW root, NEW id, NEW p, NEW j, NEW item \in Nat,
           NEW left, NEW right, NEW to, NEW i, NEW n, NEW K, NEW x,
           Merging(T, R, N, h, root, id, p, j, item, left, right, to, i, n, K, x),
           NEW K2, K2 = RemoveAt(R[p].items, j)
    PROVE  /\ KeysOver(R, N, id, to, i, K2) /\ KeyGone(R, id, p, j, item, K2)
           /\ KeysFirst(N, K2, {j})
  <1>1. Mergings(R, N, h, id, p, left, right, to, i, n, K, x)
    BY MergingParts
  <1>2. Thin(T, R, h, root, id, p, j, item) /\ p # 0 /\ Pair(R, h, id, p, left, right, to, i)
    BY DEF Merging
  <1>3. KeyGone(R, id, p, j, item, K2)
    BY <1>2, KeyGoes
  <1>4. /\ Stored(R, h) /\ p \in DOMAIN R
        /\ id \in {left, right} /\ to \in {left, right} /\ to # id /\ left # right
        /\ id # 0 /\ to # 0
        /\ MergedTo(R, N, id, to, K) /\ Group(R, left, right, n, K, x)
    BY <1>1 DEF Mergings
  <1>5. PICK z : z = Len(R[p].items)
    OBVIOUS
  <1>6. z \in Nat /\ R[p].items \in Seq(KeyType) /\ DOMAIN R[p].items = 1 .. z
    BY <1>4, <1>5, NodeFacts
  <1>0. PairPlace(R, id, p, j, left, right, to, i, z)
    BY <1>2, <1>5, PairPlaceIs
  <1>7. /\ id = left => j = i /\ to = right
        /\ id = right => j = i + 1 /\ to = left
        /\ i \in Nat /\ i >= 1 /\ i + 1 <= z /\ j \in 1 .. z
        /\ R[p].items[i].nodeId = left /\ R[p].items[i + 1].nodeId = right
    BY <1>0 DEF PairPlace
  <1>8. \A k \in 1 .. z :
            /\ R[p].items[k].nodeId = left => k = i
            /\ R[p].items[k].nodeId = right => k = i + 1
    BY <1>0 DEF PairPlace
  <1>9. /\ K2 \in Seq(KeyType) /\ HasChildren(R, K2)
        /\ Len(K2) = z - 1
        /\ \A k \in 1 .. j - 1 : K2[k] = R[p].items[k]
        /\ \A k \in j .. Len(K2) : K2[k] = R[p].items[k + 1]
        /\ KeysFirst(R, R[p].items, {j})
    BY <1>3, <1>5 DEF KeyGone, Removed
  <1>10. DOMAIN K2 = 1 .. Len(K2)
    BY <1>9
  <1>11. PICK y : y = Len(K2)
    OBVIOUS
  <1>12. i \in 1 .. y
    BY <1>6, <1>7, <1>9, <1>11
  <1>13. (id = left /\ j = i /\ to = right) \/ (id = right /\ j = i + 1 /\ to = left)
    BY <1>4, <1>7
  <1>14. K2[i].nodeId = to
    <2>1. CASE id = left
      BY <2>1, <1>7, <1>9, <1>11, <1>12
    <2>2. CASE id = right
      <3>1. i \in 1 .. j - 1
        BY <2>2, <1>7
      <3> QED
        BY <2>2, <3>1, <1>7, <1>9
    <2> QED
      BY <2>1, <2>2, <1>13
  <1>15. ASSUME NEW k \in 1 .. y
         PROVE  \E m \in 1 .. z : /\ K2[k] = R[p].items[m] /\ m # j
                                  /\ m = IF k < j THEN k ELSE k + 1
    <2>1. CASE k < j
      <3>1. k \in 1 .. j - 1 /\ k \in 1 .. z /\ k # j
        BY <2>1, <1>6, <1>7, <1>9, <1>11
      <3> QED
        BY <2>1, <3>1, <1>9
    <2>2. CASE ~(k < j)
      <3>1. k \in j .. y /\ k + 1 \in 1 .. z /\ k + 1 # j
        BY <2>2, <1>6, <1>7, <1>9, <1>11
      <3> QED
        BY <2>2, <3>1, <1>9, <1>11
    <2> QED
      BY <2>1, <2>2
  <1>16. ASSUME NEW k \in 1 .. y, K2[k].nodeId # 0
         PROVE  /\ K2[k].nodeId \in DOMAIN N
                /\ K2[k].nodeId # id
                /\ k # i => K2[k].nodeId # to /\ SameRecords(R, N, K2[k].nodeId)
    <2>1. PICK m \in 1 .. z : /\ K2[k] = R[p].items[m] /\ m # j
                               /\ m = IF k < j THEN k ELSE k + 1
      BY <1>15
    <2>2. K2[k].nodeId # id
      BY <2>1, <1>8, <1>13
    <2>3. K2[k].nodeId \in DOMAIN N
      BY <1>4, <1>9, <1>11, <1>16, <2>2 DEF HasChildren, MergedTo
    <2>4. ASSUME k # i PROVE K2[k].nodeId # to
      <3>1. CASE id = left
        <4>1. m # i + 1
          BY <2>1, <2>4, <3>1, <1>7
        <4> QED
          BY <2>1, <3>1, <4>1, <1>8, <1>13, <1>4
      <3>2. CASE id = right
        <4>1. m # i
          BY <2>1, <2>4, <3>2, <1>7
        <4> QED
          BY <2>1, <3>2, <4>1, <1>8, <1>13, <1>4
      <3> QED
        BY <3>1, <3>2, <1>13
    <2> QED
      BY <1>4, <2>2, <2>3, <2>4 DEF MergedTo
  <1>17. HasChildren(N, K2)
    BY <1>11, <1>16 DEF HasChildren
  <1>18. KeysOver(R, N, id, to, i, K2)
    BY <1>9, <1>10, <1>11, <1>12, <1>14, <1>16, <1>17 DEF KeysOver
  <1>19. ASSUME NEW k \in DOMAIN K2 \ {j}, K2[k].nodeId # 0
         PROVE  K2[k].item = firstItem(N, K2[k].nodeId)
    <2>1. k \in 1 .. y
      BY <1>10, <1>11
    <2>2. PICK m \in 1 .. z : K2[k] = R[p].items[m] /\ m # j
      BY <1>15, <2>1
    <2>3. K2[k].item = firstItem(R, K2[k].nodeId)
      BY SMTT(30), <1>6, <1>9, <1>19, <2>2 DEF KeysFirst
    <2>4. CASE k # i
      BY <2>1, <2>3, <2>4, <1>16, <1>19 DEF SameRecords, firstItem
    <2>5. CASE k = i
      <3>1. to = left
        BY <2>5, <1>13
      <3>2. R[left].items[1] = K[1]
        BY <1>4 DEF Group
      <3>3. N[to].items = K
        BY <1>4 DEF MergedTo
      <3> QED
        BY <2>3, <2>5, <3>1, <3>2, <3>3, <1>14 DEF firstItem
    <2> QED
      BY <2>4, <2>5
  <1>20. KeysFirst(N, K2, {j})
    BY <1>19 DEF KeysFirst
  <1> QED
    BY <1>3, <1>18, <1>20

-----------------------------------------------------------------------------
(* Nodes above are told of what has been merged.                           *)

LEMMA MergeCounts ==
    ASSUME NEW R, NEW N, NEW h, NEW id, NEW p, NEW j, NEW item \in Nat,
           NEW left, NEW right, NEW to, NEW i, NEW n, NEW K, NEW x,
           Mergings(R, N, h, id, p, left, right, to, i, n, K, x),
           NEW K2, KeysOver(R, N, id, to, i, K2), KeyGone(R, id, p, j, item, K2)
    PROVE  Counts(N, p, K2, -1, item)
  <1>1. /\ Stored(R, h) /\ MergedTo(R, N, id, to, K)
        /\ p \in DOMAIN R /\ p # id /\ p # to
        /\ id \in DOMAIN R /\ to \in DOMAIN R /\ to # id /\ to # 0
    BY DEF Mergings
  <1>2. /\ R \in [DOMAIN R -> NodeType] /\ N \in [DOMAIN N -> NodeType]
    BY <1>1 DEF Stored, MergedTo, Stores
  <1>3. /\ K2 \in Seq(KeyType) /\ HasChildren(R, K2) /\ HasChildren(N, K2)
        /\ i \in 1 .. Len(K2) /\ K2[i].nodeId = to
    BY DEF KeysOver
  <1>4. \A k \in 1 .. Len(K2) : k # i =>
            /\ countOf(N, K2[k]) = countOf(R, K2[k])
            /\ accumOf(N, K2[k]) = accumOf(R, K2[k])
    BY DEF KeysOver, SameRecords, countOf, accumOf
  <1>5. /\ countOfAll(N, K2) = countOfAll(R, K2) - countOf(R, K2[i]) + countOf(N, K2[i])
        /\ accumOfAll(N, K2) = accumOfAll(R, K2) - accumOf(R, K2[i]) + accumOf(N, K2[i])
    BY <1>2, <1>3, <1>4, CountsChange
  <1>6. /\ countOf(R, K2[i]) = R[to].accumCount /\ countOf(N, K2[i]) = N[to].accumCount
        /\ accumOf(R, K2[i]) = R[to].accum /\ accumOf(N, K2[i]) = N[to].accum
    BY <1>1, <1>3 DEF countOf, accumOf
  <1>7. /\ N[to].accumCount = R[to].accumCount + R[id].accumCount
        /\ N[to].accum = R[to].accum + R[id].accum
        /\ N[p].accumCount = R[p].accumCount /\ N[p].accum = R[p].accum
    BY <1>1 DEF MergedTo, SameRecords
  <1>8. /\ countOfAll(R, K2) = R[p].accumCount - 1 - R[id].accumCount
        /\ accumOfAll(R, K2) = R[p].accum - item - R[id].accum
    BY DEF KeyGone
  <1>9. /\ R[id].accumCount \in Nat /\ R[to].accumCount \in Nat /\ R[p].accumCount \in Nat
        /\ R[id].accum \in Nat /\ R[to].accum \in Nat /\ R[p].accum \in Nat
    BY <1>1, NodeFacts
  <1>10. /\ countOfAll(N, K2) = N[p].accumCount + (-1)
         /\ accumOfAll(N, K2) = N[p].accum + (-1) * item
    BY <1>5, <1>6, <1>7, <1>8, <1>9
  <1> QED
    BY <1>10 DEF Counts

LEMMA MergeShrinks ==
    ASSUME NEW T, NEW R, NEW N, NEW h, NEW root, NEW id, NEW p, NEW j, NEW item \in Nat,
           NEW left, NEW right, NEW to, NEW i, NEW n, NEW K, NEW x,
           Merging(T, R, N, h, root, id, p, j, item, left, right, to, i, n, K, x),
           NEW cont, SameLeaves(cont, R, h)
    PROVE  \E S, K2, h2 :
               /\ Shrunk(N, S, K2, h2, root, p, j, item, TRUE, FALSE)
               /\ KeptAbove(T, N, h, h2, id) /\ SameLeaves(cont, S, h2)
  <1>1. PICK K2, S : K2 = RemoveAt(R[p].items, j) /\ S = [N EXCEPT ![p].items = K2]
    OBVIOUS
  <1>2. PICK h2 : LevelLeft(S, h, h2)
    BY DEF LevelLeft
  <1>3. MergeInto(T, R, N, S, h, h2, root, id, p, j, item, left, right, to, i, n, K, x)
    BY <1>1, <1>2 DEF MergeInto
  <1>4. Mergings(R, N, h, id, p, left, right, to, i, n, K, x)
    BY MergingParts
  <1>5. PICK M : M = {to} /\ Drop(T, R, N, S, h, h2, root, id, p, j, item, M)
    BY <1>3, MergeDrops
  <1>6. Structure(S, h2, p) /\ LeavesAgree(R, S, h, h2)
    BY <1>3, MergeStructure
  <1>7. ChildrenStay(R, S, p)
    BY <1>3, MergeStays
  <1>8. NewlyExact(N, p, M)
    <2>1. Sized(N[to])
      BY MergeSized
    <2>2. Recorded(N, to)
      BY <1>4, MergeRecorded
    <2> QED
      BY <1>5, <2>1, <2>2 DEF NewlyExact
  <1>9. /\ KeysOver(R, N, id, to, i, K2) /\ KeyGone(R, id, p, j, item, K2)
        /\ KeysFirst(N, K2, {j})
    BY <1>1, MergeOver
  <1>10. Counts(N, p, K2, -1, item)
    BY <1>4, <1>9, MergeCounts
  <1>11. Shrunk(N, S, K2, h2, root, p, j, item, TRUE, FALSE)
    BY <1>1, <1>5, <1>6, <1>7, <1>8, <1>9, <1>10, DropShrinks
  <1>12. KeptAbove(T, N, h, h2, id)
    BY <1>5, DropStored
  <1>13. SameLeaves(cont, S, h2)
    BY <1>6 DEF SameLeaves, LeavesAgree
  <1> QED
    BY <1>11, <1>12, <1>13

-----------------------------------------------------------------------------
(* Two first parts of the keys in a row, and what is between them.         *)
LEMMA MiddleCut ==
    ASSUME NEW K \in Seq(KeyType), NEW a \in Nat, NEW b \in Nat, a <= b, b <= Len(K),
           NEW X, NEW Y, NEW Z,
           X = SubSeq(K, 1, a), Y = SubSeq(K, 1, b), Z = SubSeq(K, a + 1, b)
    PROVE  CutAt(Y, a, X, Z)
  <1>1. /\ X \in Seq(KeyType) /\ Len(X) = a /\ \A i \in 1 .. a : X[i] = K[i]
    OBVIOUS
  <1>2. /\ Y \in Seq(KeyType) /\ Len(Y) = b /\ \A i \in 1 .. b : Y[i] = K[i]
    OBVIOUS
  <1>3. /\ Z \in Seq(KeyType) /\ Len(Z) = b - a /\ \A i \in 1 .. b - a : Z[i] = K[a + i]
    OBVIOUS
  <1>4. \A i \in 1 .. a : i \in 1 .. b
    OBVIOUS
  <1>5. \A i \in 1 .. b - a : a + i \in 1 .. b
    OBVIOUS
  <1>6. X \o Z = Y
    <2>1. X \o Z \in Seq(KeyType) /\ Len(X \o Z) = b
      BY <1>1, <1>3
    <2>2. \A i \in 1 .. b : (X \o Z)[i] = Y[i]
      <3>1. ASSUME NEW i \in 1 .. b PROVE (X \o Z)[i] = Y[i]
        <4>1. CASE i <= a
          BY <1>1, <1>2, <1>3, <3>1, <4>1
        <4>2. CASE ~(i <= a)
          <5>1. PICK k : k = i - a
            OBVIOUS
          <5>2. k \in 1 .. b - a /\ a + k = i
            BY <3>1, <4>2, <5>1
          <5>3. (X \o Z)[i] = Z[k]
            BY <1>1, <1>3, <3>1, <4>2, <5>1
          <5> QED
            BY <1>2, <1>3, <5>2, <5>3
        <4> QED
          BY <4>1, <4>2
      <3> QED
        BY <3>1
    <2> QED
      BY <2>1, <2>2, <1>2, SeqEqual
  <1>7. PartOf(Y, X, 0)
    BY <1>1, <1>2, <1>4 DEF PartOf
  <1>8. PartOf(Y, Z, a)
    BY <1>2, <1>3, <1>5 DEF PartOf
  <1> QED
    BY <1>1, <1>2, <1>3, <1>4, <1>5, <1>6, <1>7, <1>8 DEF CutAt

LEMMA FirstPartChildren ==
    ASSUME NEW T, NEW K \in Seq(KeyType), HasChildren(T, K),
           NEW L, NEW n, PartOf(K, L, n)
    PROVE  HasChildren(T, L) /\ L \in Seq(KeyType)
  BY DEF PartOf, HasChildren

Middle(K, a, b, X, Z, Y) ==
    /\ K \in Seq(KeyType) /\ a \in Nat /\ b \in Nat /\ a <= b /\ b <= Len(K)
    /\ X = SubSeq(K, 1, a) /\ Y = SubSeq(K, 1, b) /\ Z = SubSeq(K, a + 1, b)
AddUp(T, X, Z, Y) ==
    /\ countOfAll(T, Y) = countOfAll(T, X) + countOfAll(T, Z)
    /\ accumOfAll(T, Y) = accumOfAll(T, X) + accumOfAll(T, Z)
    /\ countOfAll(T, X) \in Nat /\ countOfAll(T, Y) \in Nat /\ countOfAll(T, Z) \in Nat
    /\ accumOfAll(T, X) \in Nat /\ accumOfAll(T, Y) \in Nat /\ accumOfAll(T, Z) \in Nat
LEMMA MiddleTotals ==
    ASSUME NEW T, T \in [DOMAIN T -> NodeType], NEW K, HasChildren(T, K),
           NEW a, NEW b, NEW X, NEW Y, NEW Z, Middle(K, a, b, X, Z, Y)
    PROVE  AddUp(T, X, Z, Y)
  <1>0. /\ K \in Seq(KeyType) /\ a \in Nat /\ b \in Nat /\ a <= b /\ b <= Len(K)
        /\ X = SubSeq(K, 1, a) /\ Y = SubSeq(K, 1, b) /\ Z = SubSeq(K, a + 1, b)
    BY DEF Middle
  <1>1. CutAt(Y, a, X, Z)
    BY <1>0, MiddleCut
  <1>2. PartOf(Y, X, 0) /\ PartOf(Y, Z, a)
    BY <1>1 DEF CutAt
  <1>3. PartOf(K, Y, 0)
    <2>1. Y \in Seq(KeyType) /\ Len(Y) = b /\ \A i \in 1 .. b : Y[i] = K[i]
      BY <1>0
    <2>2. \A i \in 1 .. b : 0 + i \in 1 .. Len(K) /\ 0 + i = i
      BY <1>0
    <2> QED
      BY <2>1, <2>2 DEF PartOf
  <1>4. HasChildren(T, Y) /\ Y \in Seq(KeyType)
    BY <1>0, <1>3, FirstPartChildren
  <1>5. HasChildren(T, X) /\ X \in Seq(KeyType) /\ HasChildren(T, Z) /\ Z \in Seq(KeyType)
    BY <1>2, <1>4, FirstPartChildren
  <1>6. /\ countOfAll(T, Y) = countOfAll(T, X) + countOfAll(T, Z)
        /\ accumOfAll(T, Y) = accumOfAll(T, X) + accumOfAll(T, Z)
    <2>1. /\ T \in [DOMAIN T -> NodeType] /\ CutAt(Y, a, X, Z)
          /\ HasChildren(T, Y) /\ HasChildren(T, X) /\ HasChildren(T, Z)
          /\ Y \in Seq(KeyType) /\ X \in Seq(KeyType) /\ Z \in Seq(KeyType)
      BY <1>1, <1>4, <1>5
    <2> QED
      BY ONLY <2>1, PartTotals
  <1>7. /\ countOfAll(T, X) \in Nat /\ countOfAll(T, Y) \in Nat /\ countOfAll(T, Z) \in Nat
        /\ accumOfAll(T, X) \in Nat /\ accumOfAll(T, Y) \in Nat /\ accumOfAll(T, Z) \in Nat
    BY <1>4, <1>5, CountType
  <1> QED
    BY <1>6, <1>7 DEF AddUp

-----------------------------------------------------------------------------
(* A rebalancing at the node id: m keys are for the left node.             *)
Leveling(T, R, h, root, id, p, j, item, left, right, to, i, n, K, x, m) ==
    /\ Thin(T, R, h, root, id, p, j, item) /\ p # 0
    /\ Pair(R, h, id, p, left, right, to, i)
    /\ InARow(R, left, right, n, K, x)
    /\ Len(K) > REBALANCE_THRESHOLD
    /\ Len(R[id].items) < MIN_ITEMS
    /\ m = (Len(K) + 1) \div 2
Levelings(R, h, id, p, left, right, to, i, n, K, x, m) ==
    /\ Structure(R, h, 0) /\ Stored(R, h) /\ Recorded(R, left) /\ Recorded(R, right)
    /\ left \in DOMAIN R /\ right \in DOMAIN R /\ left # right /\ left # 0 /\ right # 0
    /\ p \in DOMAIN R /\ p # 0 /\ p # left /\ p # right /\ h[p] = h[id] + 1
    /\ h[left] = h[id] /\ h[right] = h[id] /\ h[id] \in Nat
    /\ (id = left /\ to = right) \/ (id = right /\ to = left)
    /\ R[left].nextSibling = right
    /\ n = Len(R[left].items) /\ R[left].items = SubSeq(K, 1, n)
    /\ K \in Seq(KeyType) /\ Len(K) \in Nat
    /\ Group(R, left, right, n, K, x)
    /\ RowBelow(R, h, left, right, K)
LevelSizes(id, left, right, n, b, z, m) ==
    /\ n \in Nat /\ m \in Nat /\ z \in Nat /\ b \in Nat /\ n <= z
    /\ m >= MIN_ITEMS /\ m <= MAX_ITEMS /\ m < z
    /\ z - m >= MIN_ITEMS /\ z - m <= MAX_ITEMS
    /\ id = left => n < m /\ b >= z \div 2
    /\ id = right => m < n /\ ~(b >= z \div 2)
LEMMA LevelingSizes ==
    ASSUME NEW T, NEW R, NEW h, NEW root, NEW id, NEW p, NEW j, NEW item,
           NEW left, NEW right, NEW to, NEW i, NEW n, NEW K, NEW x, NEW m,
           Leveling(T, R, h, root, id, p, j, item, left, right, to, i, n, K, x, m)
    PROVE  \E b, z : /\ b = Len(R[right].items) /\ z = Len(K)
                     /\ LevelSizes(id, left, right, n, b, z, m)
  <1>1. /\ Thin(T, R, h, root, id, p, j, item)
        /\ Pair(R, h, id, p, left, right, to, i)
        /\ InARow(R, left, right, n, K, x)
        /\ Len(K) > REBALANCE_THRESHOLD /\ Len(R[id].items) < MIN_ITEMS
        /\ m = (Len(K) + 1) \div 2
    BY DEF Leveling
  <1>2. Stored(R, h)
    BY <1>1, ThinParts
  <1>3. Len(K) = n + Len(R[right].items) /\ Len(K) \in Nat
    BY <1>1, <1>2, PairRow
  <1>4. /\ Len(R[left].items) \in Nat /\ Len(R[right].items) \in Nat
        /\ id \in {left, right} /\ to \in {left, right} /\ to # id
        /\ Sized(R[to])
    BY <1>1 DEF Pair
  <1>5. Len(R[to].items) <= MAX_ITEMS
    BY <1>4 DEF Sized
  <1>6. n = Len(R[left].items)
    BY <1>1 DEF InARow
  <1>7. PICK b, z : b = Len(R[right].items) /\ z = Len(K)
    OBVIOUS
  <1>8. z = n + b /\ n \in Nat /\ b \in Nat /\ z > REBALANCE_THRESHOLD /\ m = (z + 1) \div 2
    BY <1>1, <1>3, <1>4, <1>6, <1>7
  <1>9. CASE id = left
    <2>1. n < MIN_ITEMS /\ b <= MAX_ITEMS
      BY <1>1, <1>4, <1>5, <1>6, <1>7, <1>9
    <2>2. /\ m \in Nat /\ m >= MIN_ITEMS /\ m <= MAX_ITEMS /\ m < z
          /\ z - m >= MIN_ITEMS /\ z - m <= MAX_ITEMS
          /\ n < m /\ b >= z \div 2 /\ n <= z
      BY ONLY <1>8, <2>1, Sizes
    <2>3. id # right
      BY <1>1, <1>9 DEF Pair
    <2>4. LevelSizes(id, left, right, n, b, z, m)
      BY <1>8, <2>2, <2>3 DEF LevelSizes
    <2> QED
      BY <1>7, <2>4
  <1>10. CASE id = right
    <2>1. b < MIN_ITEMS /\ n <= MAX_ITEMS
      BY <1>1, <1>4, <1>5, <1>6, <1>7, <1>10
    <2>2. /\ m \in Nat /\ m >= MIN_ITEMS /\ m <= MAX_ITEMS /\ m < z
          /\ z - m >= MIN_ITEMS /\ z - m <= MAX_ITEMS
          /\ m < n /\ ~(b >= z \div 2) /\ n <= z
      BY ONLY <1>8, <2>1, Sizes
    <2>3. id # left
      BY <1>1, <1>10 DEF Pair
    <2>4. LevelSizes(id, left, right, n, b, z, m)
      BY <1>8, <2>2, <2>3 DEF LevelSizes
    <2> QED
      BY <1>7, <2>4
  <1> QED
    BY <1>4, <1>9, <1>10

LEMMA LevelingParts ==
    ASSUME NEW T, NEW R, NEW h, NEW root, NEW id, NEW p, NEW j, NEW item,
           NEW left, NEW right, NEW to, NEW i, NEW n, NEW K, NEW x, NEW m,
           Leveling(T, R, h, root, id, p, j, item, left, right, to, i, n, K, x, m)
    PROVE  Levelings(R, h, id, p, left, right, to, i, n, K, x, m)
  <1>1. /\ Thin(T, R, h, root, id, p, j, item) /\ p # 0
        /\ Pair(R, h, id, p, left, right, to, i)
        /\ InARow(R, left, right, n, K, x)
    BY DEF Leveling
  <1>2. Structure(R, h, 0) /\ Stored(R, h) /\ Recorded(R, id)
    BY <1>1, ThinParts
  <1>3. /\ left \in DOMAIN R /\ right \in DOMAIN R /\ left # right /\ left # 0 /\ right # 0
        /\ h[left] = h[id] /\ h[right] = h[id]
        /\ id \in {left, right} /\ to \in {left, right} /\ to # id
        /\ R[left].nextSibling = right /\ Recorded(R, to)
        /\ KeyAbove(R, h, left, p, i) /\ KeyAbove(R, h, right, p, i + 1)
    BY <1>1 DEF Pair
  <1>4. p \in DOMAIN R /\ h[p] = h[id] + 1 /\ h[id] \in Nat
    BY <1>1, ThinAbove
  <1>5. p # left /\ p # right
    BY <1>3 DEF KeyAbove
  <1>6. (id = left /\ to = right) \/ (id = right /\ to = left)
    BY <1>3
  <1>7. Recorded(R, left) /\ Recorded(R, right)
    BY <1>2, <1>3, <1>6
  <1>8. Group(R, left, right, n, K, x) /\ K \in Seq(KeyType) /\ Len(K) \in Nat
    BY <1>1, <1>2, PairRow
  <1>9. RowBelow(R, h, left, right, K)
    BY <1>1, <1>2, PairBelow
  <1>10. n = Len(R[left].items) /\ R[left].items = SubSeq(K, 1, n)
    <2>1. n \in 1 .. Len(K) /\ Len(R[left].items) = n
          /\ \A k \in 1 .. n : R[left].items[k] = K[k]
      BY <1>8 DEF Group
    <2>2. R[left].items \in Seq(KeyType)
      BY <1>2, <1>3, NodeFacts
    <2>3. PICK X : X = SubSeq(K, 1, n)
      OBVIOUS
    <2>4. X \in Seq(KeyType) /\ Len(X) = n /\ \A k \in 1 .. n : X[k] = K[k]
      BY <1>8, <2>1, <2>3
    <2>5. R[left].items = X
      BY <2>1, <2>2, <2>4, SeqEqual
    <2> QED
      BY <2>1, <2>3, <2>5
  <1> QED
    BY <1>1, <1>2, <1>3, <1>4, <1>5, <1>6, <1>7, <1>8, <1>9, <1>10 DEF Levelings

-----------------------------------------------------------------------------
(* The keys between the two ends move, and their totals.                   *)
Moves(R, n, K, m, c, s) ==
    /\ n < m => /\ c = countOfAll(R, SubSeq(K, n + 1, m))
                /\ s = accumOfAll(R, SubSeq(K, n + 1, m))
    /\ m < n => /\ c = -countOfAll(R, SubSeq(K, m + 1, n))
                /\ s = -accumOfAll(R, SubSeq(K, m + 1, n))
RebalancesInto(R, N, left, right, K, m, c, s, e, f) ==
    LET ms == [R EXCEPT ![left].items = SubSeq(K, 1, m),
                        ![right].items = SubSeq(K, m + 1, Len(K))]
    IN  N = addToNode(addToNode(ms, left, c, s), right, e, f)
Rebalanced(R, N, left, right, K, m, L, Q) ==
    /\ L = SubSeq(K, 1, m) /\ Q = SubSeq(K, m + 1, Len(K))
    /\ Stores(N) /\ SameLinks(R, N)
    /\ \A a \in DOMAIN R : a # left /\ a # right => N[a] = R[a]
    /\ N[left].items = L /\ N[right].items = Q
    /\ N[left].accumCount = countOfAll(R, L) /\ N[left].accum = accumOfAll(R, L)
    /\ N[right].accumCount = countOfAll(R, Q) /\ N[right].accum = accumOfAll(R, Q)
    /\ N[left].accumCount + N[right].accumCount = R[left].accumCount + R[right].accumCount
    /\ N[left].accum + N[right].accum = R[left].accum + R[right].accum
(* The totals of the two parts. *)
HalfTotals(R, left, right, c, s, L, Q) ==
    /\ c \in Int /\ s \in Int
    /\ R[left].accumCount + c = countOfAll(R, L)
    /\ R[left].accum + s = accumOfAll(R, L)
    /\ R[right].accumCount - c = countOfAll(R, Q)
    /\ R[right].accum - s = accumOfAll(R, Q)
    /\ countOfAll(R, L) \in Nat /\ countOfAll(R, Q) \in Nat
    /\ accumOfAll(R, L) \in Nat /\ accumOfAll(R, Q) \in Nat
LEMMA MovedTotals ==
    ASSUME NEW R, NEW h, NEW id, NEW p, NEW left, NEW right, NEW to, NEW i,
           NEW n, NEW K, NEW x, NEW m,
           Levelings(R, h, id, p, left, right, to, i, n, K, x, m),
           NEW b, NEW z, z = Len(K), LevelSizes(id, left, right, n, b, z, m),
           NEW c, NEW s, Moves(R, n, K, m, c, s),
           NEW L, NEW Q, L = SubSeq(K, 1, m), Q = SubSeq(K, m + 1, Len(K))
    PROVE  HalfTotals(R, left, right, c, s, L, Q)
  <1>1. /\ Stored(R, h) /\ Recorded(R, left)
        /\ left \in DOMAIN R /\ right \in DOMAIN R
        /\ R[left].items = SubSeq(K, 1, n)
        /\ K \in Seq(KeyType) /\ RowBelow(R, h, left, right, K)
        /\ id = left \/ id = right
    BY DEF Levelings
  <1>2. n \in Nat /\ m \in Nat /\ n <= z /\ m <= z /\ z \in Nat /\ (n < m \/ m < n)
    BY <1>1 DEF LevelSizes
  <1>3. R \in [DOMAIN R -> NodeType]
    BY <1>1 DEF Stored
  <1>4. /\ HasChildren(R, K)
        /\ countOfAll(R, K) = R[left].accumCount + R[right].accumCount
        /\ accumOfAll(R, K) = R[left].accum + R[right].accum
    BY <1>1 DEF RowBelow
  <1>5. /\ R[left].accumCount \in Nat /\ R[right].accumCount \in Nat
        /\ R[left].accum \in Nat /\ R[right].accum \in Nat
    BY <1>1, NodeFacts
  <1>6. PICK A : A = SubSeq(K, 1, n)
    OBVIOUS
  <1>7. R[left].accumCount = countOfAll(R, A) /\ R[left].accum = accumOfAll(R, A)
    BY <1>1, <1>6 DEF Recorded
  <1>8. AddUp(R, L, Q, K)
    <2>1. K = SubSeq(K, 1, z)
      BY <1>1
    <2>2. Middle(K, m, z, L, Q, K)
      BY <1>1, <1>2, <2>1 DEF Middle
    <2> QED
      BY <1>3, <1>4, <2>2, MiddleTotals
  <1>9. /\ c \in Int /\ s \in Int
        /\ R[left].accumCount + c = countOfAll(R, L)
        /\ R[left].accum + s = accumOfAll(R, L)
    <2>1. CASE n < m
      <3>1. PICK Z : Z = SubSeq(K, n + 1, m)
        OBVIOUS
      <3>2. Middle(K, n, m, A, Z, L)
        BY <1>1, <1>2, <1>6, <2>1, <3>1 DEF Middle
      <3>3. AddUp(R, A, Z, L)
        BY <1>3, <1>4, <3>2, MiddleTotals
      <3>4. c = countOfAll(R, Z) /\ s = accumOfAll(R, Z)
        BY <2>1, <3>1 DEF Moves
      <3> QED
        BY <3>3, <3>4, <1>5, <1>7 DEF AddUp
    <2>2. CASE m < n
      <3>1. PICK Z : Z = SubSeq(K, m + 1, n)
        OBVIOUS
      <3>2. Middle(K, m, n, L, Z, A)
        BY <1>1, <1>2, <1>6, <2>2, <3>1 DEF Middle
      <3>3. AddUp(R, L, Z, A)
        BY <1>3, <1>4, <3>2, MiddleTotals
      <3>4. c = -countOfAll(R, Z) /\ s = -accumOfAll(R, Z)
        BY <2>2, <3>1 DEF Moves
      <3>5. PICK u1, u2, u3, v1, v2, v3 :
                /\ u1 = countOfAll(R, L) /\ u2 = countOfAll(R, Z) /\ u3 = countOfAll(R, A)
                /\ v1 = accumOfAll(R, L) /\ v2 = accumOfAll(R, Z) /\ v3 = accumOfAll(R, A)
        OBVIOUS
      <3>6. /\ u1 \in Nat /\ u2 \in Nat /\ v1 \in Nat /\ v2 \in Nat
            /\ u3 = u1 + u2 /\ v3 = v1 + v2 /\ c = -u2 /\ s = -v2
        BY <3>3, <3>4, <3>5 DEF AddUp
      <3>7. c \in Int /\ s \in Int /\ u3 + c = u1 /\ v3 + s = v1
        BY ONLY <3>6
      <3> QED
        BY <3>5, <3>7, <1>7
    <2> QED
      BY <1>2, <2>1, <2>2
  <1>10. /\ R[right].accumCount - c = countOfAll(R, Q)
         /\ R[right].accum - s = accumOfAll(R, Q)
    <2>1. PICK u1, u2, u3, v1, v2, v3 :
              /\ u1 = countOfAll(R, L) /\ u2 = countOfAll(R, Q) /\ u3 = countOfAll(R, K)
              /\ v1 = accumOfAll(R, L) /\ v2 = accumOfAll(R, Q) /\ v3 = accumOfAll(R, K)
      OBVIOUS
    <2>2. PICK a1, a2, b1, b2 :
              /\ a1 = R[left].accumCount /\ a2 = R[right].accumCount
              /\ b1 = R[left].accum /\ b2 = R[right].accum
      OBVIOUS
    <2>3. /\ u1 \in Nat /\ u2 \in Nat /\ v1 \in Nat /\ v2 \in Nat
          /\ u3 = u1 + u2 /\ v3 = v1 + v2
      BY <1>8, <2>1 DEF AddUp
    <2>4. /\ a1 \in Nat /\ a2 \in Nat /\ b1 \in Nat /\ b2 \in Nat
          /\ u3 = a1 + a2 /\ v3 = b1 + b2
          /\ c \in Int /\ s \in Int /\ a1 + c = u1 /\ b1 + s = v1
      BY <1>4, <1>5, <1>9, <2>1, <2>2
    <2>5. a2 - c = u2 /\ b2 - s = v2
      BY ONLY <2>3, <2>4
    <2> QED
      BY <2>1, <2>2, <2>5
  <1> QED
    BY <1>8, <1>9, <1>10 DEF AddUp, HalfTotals

LEMMA RebalanceMakes ==
    ASSUME NEW R, NEW h, NEW id, NEW p, NEW left, NEW right, NEW to, NEW i,
           NEW n, NEW K, NEW x, NEW m,
           Levelings(R, h, id, p, left, right, to, i, n, K, x, m),
           NEW b, NEW z, z = Len(K), LevelSizes(id, left, right, n, b, z, m),
           NEW c, NEW s, Moves(R, n, K, m, c, s),
           NEW e, NEW f, e = -c, f = -s,
           NEW N, RebalancesInto(R, N, left, right, K, m, c, s, e, f)
    PROVE  \E L, Q : Rebalanced(R, N, left, right, K, m, L, Q)
  <1>1. PICK L, Q : L = SubSeq(K, 1, m) /\ Q = SubSeq(K, m + 1, Len(K))
    OBVIOUS
  <1>2. /\ Stored(R, h) /\ left \in DOMAIN R /\ right \in DOMAIN R /\ left # right
        /\ K \in Seq(KeyType)
    BY DEF Levelings
  <1>3. Stores(R)
    BY <1>2 DEF Stored, Stores
  <1>4. m \in Nat /\ z \in Nat /\ m < z
    BY DEF LevelSizes
  <1>5. L \in Seq(KeyType) /\ Q \in Seq(KeyType)
    BY <1>1, <1>2, <1>4
  <1>6. HalfTotals(R, left, right, c, s, L, Q)
    BY <1>1, MovedTotals
  <1>7. /\ R[left].accumCount \in Nat /\ R[right].accumCount \in Nat
        /\ R[left].accum \in Nat /\ R[right].accum \in Nat
    BY <1>2, NodeFacts
  <1>8. PICK cl, sl, cr, sr : /\ cl = R[left].accumCount /\ sl = R[left].accum
                              /\ cr = R[right].accumCount /\ sr = R[right].accum
    OBVIOUS
  <1>9. PICK S : S = [R EXCEPT ![left].items = L, ![right].items = Q]
    OBVIOUS
  <1>10. Reworked(R, S, left, right, L, cl, sl, Q, cr, sr)
    BY <1>2, <1>3, <1>8, <1>9, ReworkedItems
  <1>11. PICK S1 : S1 = addToNode(S, left, c, s)
    OBVIOUS
  <1>12. PICK C, D, E, F : C = cl + c /\ D = sl + s /\ E = cr + e /\ F = sr + f
    OBVIOUS
  <1>13. Reworked(R, S1, left, right, L, C, D, Q, cr, sr)
    BY <1>2, <1>10, <1>11, <1>12, ReworkedAdd
  <1>14. Reworked(R, S1, right, left, Q, cr, sr, L, C, D)
    BY <1>13, ReworkedTurn
  <1>15. N = addToNode(S1, right, e, f)
    BY <1>1, <1>9, <1>11 DEF RebalancesInto
  <1>16. Reworked(R, N, right, left, Q, E, F, L, C, D)
    BY <1>2, <1>12, <1>14, <1>15, ReworkedAdd
  <1>17. /\ C = countOfAll(R, L) /\ D = accumOfAll(R, L)
         /\ E = countOfAll(R, Q) /\ F = accumOfAll(R, Q)
         /\ C \in Nat /\ D \in Nat /\ E \in Nat /\ F \in Nat
         /\ C + E = R[left].accumCount + R[right].accumCount
         /\ D + F = R[left].accum + R[right].accum
    <2>1. PICK u1, u2, v1, v2 :
              /\ u1 = countOfAll(R, L) /\ u2 = countOfAll(R, Q)
              /\ v1 = accumOfAll(R, L) /\ v2 = accumOfAll(R, Q)
      OBVIOUS
    <2>2. /\ u1 \in Nat /\ u2 \in Nat /\ v1 \in Nat /\ v2 \in Nat
          /\ cl \in Nat /\ cr \in Nat /\ sl \in Nat /\ sr \in Nat
          /\ c \in Int /\ s \in Int /\ e = -c /\ f = -s
          /\ cl + c = u1 /\ sl + s = v1 /\ cr - c = u2 /\ sr - s = v2
          /\ C = cl + c /\ D = sl + s /\ E = cr + e /\ F = sr + f
      BY <1>6, <1>7, <1>8, <1>12, <2>1 DEF HalfTotals
    <2>3. /\ C = u1 /\ D = v1 /\ E = u2 /\ F = v2
          /\ C \in Nat /\ D \in Nat /\ E \in Nat /\ F \in Nat
          /\ C + E = cl + cr /\ D + F = sl + sr
      BY ONLY <2>2
    <2> QED
      BY <2>1, <2>3, <1>8
  <1>18. Stores(N) /\ SameLinks(R, N)
    BY <1>2, <1>3, <1>5, <1>16, <1>17, ReworkedStores
  <1>19. /\ N[left].items = L /\ N[left].accumCount = C /\ N[left].accum = D
         /\ N[right].items = Q /\ N[right].accumCount = E /\ N[right].accum = F
    BY <1>16, AtParts DEF Reworked
  <1>20. \A a \in DOMAIN R : a # left /\ a # right => N[a] = R[a]
    BY <1>16 DEF Reworked
  <1>21. Rebalanced(R, N, left, right, K, m, L, Q)
    BY <1>1, <1>17, <1>18, <1>19, <1>20 DEF Rebalanced
  <1> QED
    BY <1>21

-----------------------------------------------------------------------------
(* Two nodes that have exchanged keys.                                     *)
Leveled(T, R, N, h, root, id, p, j, item, left, right, to, i, n, K, x, m, b, z, L, Q) ==
    /\ Leveling(T, R, h, root, id, p, j, item, left, right, to, i, n, K, x, m)
    /\ z = Len(K) /\ LevelSizes(id, left, right, n, b, z, m)
    /\ Rebalanced(R, N, left, right, K, m, L, Q)
LevelNodes(R, N, h, left, right, K, m, z, x, L, Q) ==
    /\ Stored(R, h) /\ Stored(N, h) /\ DOMAIN N = DOMAIN R /\ Stores(N)
    /\ left \in DOMAIN R /\ right \in DOMAIN R /\ left # right /\ left # 0 /\ right # 0
    /\ \A a \in DOMAIN R : /\ N[a].nextSibling = R[a].nextSibling
                           /\ N[a].prevSibling = R[a].prevSibling
    /\ \A a \in DOMAIN R : a # left /\ a # right => N[a] = R[a]
    /\ N[left].items = L /\ N[right].items = Q
    /\ L \in Seq(KeyType) /\ Len(L) = m /\ DOMAIN L = 1 .. m
    /\ Q \in Seq(KeyType) /\ Len(Q) = z - m /\ DOMAIN Q = 1 .. z - m
    /\ \A k \in 1 .. m : L[k] = K[k]
    /\ \A k \in 1 .. z - m : Q[k] = K[m + k]
    /\ m \in 1 .. z - 1 /\ z \in Nat /\ z = Len(K) /\ K \in Seq(KeyType)
    /\ Group(N, left, right, m, K, x)
LEMMA LevelNodesAre ==
    ASSUME NEW T, NEW R, NEW N, NEW h, NEW root, NEW id, NEW p, NEW j, NEW item,
           NEW left, NEW right, NEW to, NEW i, NEW n, NEW K, NEW x, NEW m, NEW b, NEW z,
           NEW L, NEW Q,
           Leveled(T, R, N, h, root, id, p, j, item, left, right, to, i, n, K, x, m, b, z, L, Q)
    PROVE  LevelNodes(R, N, h, left, right, K, m, z, x, L, Q)
  <1>1. /\ Leveling(T, R, h, root, id, p, j, item, left, right, to, i, n, K, x, m)
        /\ z = Len(K) /\ LevelSizes(id, left, right, n, b, z, m)
        /\ Rebalanced(R, N, left, right, K, m, L, Q)
    BY DEF Leveled
  <1>2. Levelings(R, h, id, p, left, right, to, i, n, K, x, m)
    BY <1>1, LevelingParts
  <1>3. /\ Stored(R, h) /\ Group(R, left, right, n, K, x)
        /\ left \in DOMAIN R /\ right \in DOMAIN R /\ left # right /\ left # 0 /\ right # 0
        /\ K \in Seq(KeyType)
    BY <1>2 DEF Levelings
  <1>4. /\ L = SubSeq(K, 1, m) /\ Q = SubSeq(K, m + 1, Len(K))
        /\ Stores(N) /\ SameLinks(R, N)
        /\ \A a \in DOMAIN R : a # left /\ a # right => N[a] = R[a]
        /\ N[left].items = L /\ N[right].items = Q
    BY <1>1 DEF Rebalanced
  <1>5. m \in 1 .. z - 1 /\ z \in Nat
    <2>1. m \in Nat /\ z \in Nat /\ m >= MIN_ITEMS /\ m < z
      BY <1>1 DEF LevelSizes
    <2> QED
      BY ONLY <2>1, Sizes
  <1>6. DOMAIN N = DOMAIN R /\ Stored(N, h)
    BY <1>3, <1>4 DEF SameLinks, Stores, Stored
  <1>7. L \in Seq(KeyType) /\ Len(L) = m /\ DOMAIN L = 1 .. m
        /\ \A k \in 1 .. m : L[k] = K[k]
    BY <1>1, <1>3, <1>4, <1>5
  <1>8. Q \in Seq(KeyType) /\ Len(Q) = z - m /\ DOMAIN Q = 1 .. z - m
        /\ \A k \in 1 .. z - m : Q[k] = K[m + k]
    BY <1>1, <1>3, <1>4, <1>5
  <1>9. /\ N[left].nextSibling = right /\ N[right].nextSibling = x
    BY <1>3, <1>4 DEF Group, SameLinks
  <1>10. m # z /\ m \in 1 .. z
    BY <1>5
  <1>11. Group(N, left, right, m, K, x)
    BY <1>1, <1>3, <1>4, <1>6, <1>7, <1>8, <1>9, <1>10 DEF Group
  <1>12. \A a \in DOMAIN R : /\ N[a].nextSibling = R[a].nextSibling
                             /\ N[a].prevSibling = R[a].prevSibling
    BY <1>4 DEF SameLinks
  <1> QED
    BY <1>1, <1>3, <1>4, <1>5, <1>6, <1>7, <1>8, <1>11, <1>12 DEF LevelNodes

LEMMA LevelStructure ==
    ASSUME NEW T, NEW R, NEW N, NEW h, NEW root, NEW id, NEW p, NEW j, NEW item,
           NEW left, NEW right, NEW to, NEW i, NEW n, NEW K, NEW x, NEW m, NEW b, NEW z,
           NEW L, NEW Q,
           Leveled(T, R, N, h, root, id, p, j, item, left, right, to, i, n, K, x, m, b, z, L, Q)
    PROVE  Structure(N, h, p) /\ LeavesAgree(R, N, h, h)
  <1>1. LevelNodes(R, N, h, left, right, K, m, z, x, L, Q)
    BY LevelNodesAre
  <1>2. Levelings(R, h, id, p, left, right, to, i, n, K, x, m)
    BY LevelingParts DEF Leveled
  <1>3. /\ Structure(R, h, 0) /\ Group(R, left, right, n, K, x) /\ right # 0
        /\ h[left] = h[id] /\ h[right] = h[id] /\ h[id] \in Nat
        /\ p \in DOMAIN R /\ h[p] = h[id] + 1
    BY <1>2 DEF Levelings
  <1>4. Stored(N, h) /\ Group(N, left, right, m, K, x)
    BY <1>1 DEF LevelNodes
  <1>5. PICK l : l = h[left]
    OBVIOUS
  <1>6. NodesKept(R, N, h, l)
    <2>1. ASSUME NEW a \in DOMAIN R, h[a] > l PROVE N[a].items = R[a].items
      <3>1. a # left /\ a # right
        BY <1>3, <1>5, <2>1
      <3> QED
        BY <1>1, <2>1, <3>1 DEF LevelNodes
    <2> QED
      BY <1>1, <2>1 DEF LevelNodes, NodesKept
  <1>7. SameBelow(R, N, h, {left, right}, l)
    BY <1>1 DEF LevelNodes, SameBelow
  <1>8. h[p] = h[left] + 1
    BY <1>3
  <1>9. /\ Structure(R, h, 0) /\ Stored(N, h) /\ right # 0
        /\ Group(R, left, right, n, K, x) /\ Group(N, left, right, m, K, x)
        /\ NodesKept(R, N, h, h[left]) /\ SameBelow(R, N, h, {left, right}, h[left])
        /\ p \in DOMAIN R /\ h[p] = h[left] + 1
    BY <1>3, <1>4, <1>5, <1>6, <1>7, <1>8
  <1> QED
    BY ONLY <1>9, RebalanceWhole

(* Children stay children. *)
LEMMA LevelRooted ==
    ASSUME NEW T, NEW R, NEW N, NEW h, NEW root, NEW id, NEW p, NEW j, NEW item,
           NEW left, NEW right, NEW to, NEW i, NEW n, NEW K, NEW x, NEW m, NEW b, NEW z,
           NEW L, NEW Q,
           Leveled(T, R, N, h, root, id, p, j, item, left, right, to, i, n, K, x, m, b, z, L, Q)
    PROVE  Rooted(N, h, root)
  <1>1. LevelNodes(R, N, h, left, right, K, m, z, x, L, Q)
    BY LevelNodesAre
  <1>2. Leveling(T, R, h, root, id, p, j, item, left, right, to, i, n, K, x, m)
    BY DEF Leveled
  <1>3. Rooted(R, h, root) /\ Stored(R, h)
    BY <1>2, ThinParts DEF Leveling
  <1>4. Group(R, left, right, n, K, x) /\ Group(N, left, right, m, K, x)
    BY <1>1, <1>2, LevelingParts DEF Levelings, LevelNodes
  <1>5. Members(left, right) = {left, right}
    BY <1>1 DEF LevelNodes, Members
  <1>6. DOMAIN N = DOMAIN R /\ Stored(N, h)
    BY <1>1 DEF LevelNodes
  <1>7. ASSUME NEW c, NEW a \in DOMAIN R, NEW k \in DOMAIN R[a].items, R[a].items[k].nodeId = c
        PROVE  IsChild(N, c)
    <2>1. CASE a # left /\ a # right
      <3>1. N[a] = R[a]
        BY <1>1, <2>1 DEF LevelNodes
      <3> QED
        BY <1>6, <1>7, <3>1 DEF IsChild
    <2>2. CASE a = left \/ a = right
      <3>1. a \in Members(left, right)
        BY <1>5, <2>2
      <3>2. k \in 1 .. Len(R[a].items)
        BY <1>3, <1>7, NodeFacts
      <3>3. PICK e, q : e = firstKey(R, x) /\ q = inRow(left, n, a, k)
        OBVIOUS
      <3>4. InRow(R, K, e, a, k, q)
        BY <1>4, <3>1, <3>2, <3>3, GroupIn
      <3>5. q \in 1 .. Len(K) /\ R[a].items[k] = K[q]
        BY <3>4 DEF InRow
      <3>6. PICK d \in Members(left, right) : \E y \in 1 .. Len(N[d].items) :
                inRow(left, m, d, y) = q
        BY <1>4, <3>5, GroupOut
      <3>7. PICK y \in 1 .. Len(N[d].items) : inRow(left, m, d, y) = q
        BY <3>6
      <3>8. PICK e2 : e2 = firstKey(N, x)
        OBVIOUS
      <3>9. InRow(N, K, e2, d, y, q)
        BY <1>4, <3>7, <3>8, GroupIn
      <3>10. N[d].items[y] = K[q]
        BY <3>9 DEF InRow
      <3>11. d \in DOMAIN N
        BY <1>4, MembersIn
      <3>12. y \in DOMAIN N[d].items
        BY <1>6, <3>11, NodeFacts
      <3> QED
        BY <1>7, <3>5, <3>10, <3>11, <3>12 DEF IsChild
    <2> QED
      BY <2>1, <2>2
  <1>8. /\ root \in DOMAIN R /\ R[root].nextSibling = 0 /\ R[root].prevSibling = 0
        /\ \A c \in DOMAIN R \ {root} : h[c] < h[root] /\ IsChild(R, c)
    BY <1>3 DEF Rooted
  <1>9. \A c : IsChild(R, c) => IsChild(N, c)
    BY <1>7 DEF IsChild
  <1>10. N[root].nextSibling = 0 /\ N[root].prevSibling = 0
    BY <1>1, <1>8 DEF LevelNodes
  <1> QED
    BY <1>6, <1>8, <1>9, <1>10 DEF Rooted

-----------------------------------------------------------------------------
(* What the two nodes record.                                              *)
LEMMA LevelRecorded ==
    ASSUME NEW T, NEW R, NEW N, NEW h, NEW root, NEW id, NEW p, NEW j, NEW item,
           NEW left, NEW right, NEW to, NEW i, NEW n, NEW K, NEW x, NEW m, NEW b, NEW z,
           NEW L, NEW Q,
           Leveled(T, R, N, h, root, id, p, j, item, left, right, to, i, n, K, x, m, b, z, L, Q)
    PROVE  /\ Recorded(N, left) /\ Recorded(N, right)
           /\ Sized(N[left]) /\ Sized(N[right])
           /\ firstItem(N, left) = firstItem(R, left)
  <1>1. LevelNodes(R, N, h, left, right, K, m, z, x, L, Q)
    BY LevelNodesAre
  <1>2. Leveling(T, R, h, root, id, p, j, item, left, right, to, i, n, K, x, m)
        /\ LevelSizes(id, left, right, n, b, z, m) /\ Rebalanced(R, N, left, right, K, m, L, Q)
    BY DEF Leveled
  <1>3. RowBelow(R, h, left, right, K) /\ Group(R, left, right, n, K, x)
    BY <1>2, LevelingParts DEF Levelings
  <1>4. /\ DOMAIN L = 1 .. m /\ DOMAIN Q = 1 .. z - m
        /\ \A k \in 1 .. m : L[k] = K[k]
        /\ \A k \in 1 .. z - m : Q[k] = K[m + k]
        /\ m \in 1 .. z - 1 /\ z \in Nat /\ z = Len(K) /\ K \in Seq(KeyType)
        /\ N[left].items = L /\ N[right].items = Q
        /\ Len(L) = m /\ Len(Q) = z - m
        /\ \A a \in DOMAIN R : a # left /\ a # right => N[a] = R[a]
    BY <1>1 DEF LevelNodes
  <1>5. ASSUME NEW k \in 1 .. z, K[k].nodeId # 0
        PROVE  /\ N[K[k].nodeId] = R[K[k].nodeId]
               /\ K[k].item = firstItem(R, K[k].nodeId)
    <2>1. K[k].nodeId \in DOMAIN R /\ K[k].nodeId # left /\ K[k].nodeId # right
      BY <1>3, <1>4, <1>5 DEF RowBelow
    <2>2. k \in DOMAIN K
      BY <1>4
    <2> QED
      BY <1>3, <1>4, <1>5, <2>1, <2>2 DEF RowBelow, KeysFirst
  <1>6. \A k \in 1 .. m : k \in 1 .. z
    BY <1>4
  <1>7. \A k \in 1 .. z - m : m + k \in 1 .. z
    BY <1>4
  <1>8. KeysFirst(N, L, {})
    BY <1>4, <1>5, <1>6 DEF KeysFirst, firstItem
  <1>9. KeysFirst(N, Q, {})
    BY <1>4, <1>5, <1>7 DEF KeysFirst, firstItem
  <1>10. countOfAll(N, L) = countOfAll(R, L) /\ accumOfAll(N, L) = accumOfAll(R, L)
    <2>1. \A k \in DOMAIN L : L[k].nodeId # 0 =>
              /\ N[L[k].nodeId].accumCount = R[L[k].nodeId].accumCount
              /\ N[L[k].nodeId].accum = R[L[k].nodeId].accum
      BY <1>4, <1>5, <1>6
    <2> QED
      BY <2>1, SameCounts
  <1>11. countOfAll(N, Q) = countOfAll(R, Q) /\ accumOfAll(N, Q) = accumOfAll(R, Q)
    <2>1. \A k \in DOMAIN Q : Q[k].nodeId # 0 =>
              /\ N[Q[k].nodeId].accumCount = R[Q[k].nodeId].accumCount
              /\ N[Q[k].nodeId].accum = R[Q[k].nodeId].accum
      BY <1>4, <1>5, <1>7
    <2> QED
      BY <2>1, SameCounts
  <1>12. Recorded(N, left) /\ Recorded(N, right)
    BY <1>2, <1>4, <1>8, <1>9, <1>10, <1>11 DEF Recorded, Rebalanced
  <1>13. Sized(N[left]) /\ Sized(N[right])
    <2>1. /\ m \in Nat /\ z \in Nat /\ m >= MIN_ITEMS /\ m <= MAX_ITEMS /\ m < z
          /\ z - m >= MIN_ITEMS /\ z - m <= MAX_ITEMS
      BY <1>2 DEF LevelSizes
    <2>2. PICK q : q = z - m
      OBVIOUS
    <2>3. /\ m \in 1 .. MAX_ITEMS /\ m >= MIN_ITEMS /\ q \in 1 .. MAX_ITEMS /\ q >= MIN_ITEMS
      BY ONLY <2>1, <2>2, Sizes
    <2> QED
      BY <1>4, <2>2, <2>3 DEF Sized
  <1>14. firstItem(N, left) = firstItem(R, left)
    <2>1. R[left].items[1] = K[1]
      BY <1>3 DEF Group
    <2>2. L[1] = K[1]
      BY <1>4
    <2> QED
      BY <1>4, <2>1, <2>2 DEF firstItem
  <1> QED
    BY <1>12, <1>13, <1>14

LEMMA LevelExact ==
    ASSUME NEW T, NEW R, NEW N, NEW h, NEW root, NEW id, NEW p, NEW j, NEW item,
           NEW left, NEW right, NEW to, NEW i, NEW n, NEW K, NEW x, NEW m, NEW b, NEW z,
           NEW L, NEW Q,
           Leveled(T, R, N, h, root, id, p, j, item, left, right, to, i, n, K, x, m, b, z, L, Q)
    PROVE  Exact(N, p)
  <1>1. LevelNodes(R, N, h, left, right, K, m, z, x, L, Q)
    BY LevelNodesAre
  <1>2. Leveling(T, R, h, root, id, p, j, item, left, right, to, i, n, K, x, m)
    BY DEF Leveled
  <1>3. /\ Thin(T, R, h, root, id, p, j, item) /\ p # 0
        /\ Pair(R, h, id, p, left, right, to, i)
    BY <1>2 DEF Leveling
  <1>4. PICK M : M = {left, right}
    OBVIOUS
  <1>5. Others(R, N, id, M)
    <2>1. id \in M
      BY <1>3, <1>4 DEF Pair
    <2>2. DOMAIN N \ M = DOMAIN R \ ({id} \cup M)
      BY <1>1, <2>1 DEF LevelNodes
    <2>3. ASSUME NEW a \in DOMAIN N \ M
          PROVE  SameRecords(R, N, a) /\ (N[a].nextSibling # 0 => R[a].nextSibling # 0)
      <3>1. N[a] = R[a]
        BY <1>1, <1>4, <2>3 DEF LevelNodes
      <3> QED
        BY <3>1 DEF SameRecords
    <2> QED
      BY <2>2, <2>3 DEF Others
  <1>6. UnderKeys(R, h, p, M)
    BY <1>3, <1>4 DEF Pair, UnderKeys
  <1>7. StillExact(T, N, id, p, M)
    BY <1>3, <1>5, <1>6, OthersStill
  <1>8. NewlyExact(N, p, M)
    <2>1. Recorded(N, left) /\ Recorded(N, right) /\ Sized(N[left]) /\ Sized(N[right])
      BY LevelRecorded
    <2> QED
      BY <1>4, <2>1 DEF NewlyExact
  <1>9. Exact(T, id)
    BY <1>3, ThinParts
  <1> QED
    BY <1>7, <1>8, <1>9, ExactAfter

-----------------------------------------------------------------------------
(* The totals of keys of which two have nodes with other totals.           *)
Exchange(R, N, keys, left, right, i, k) ==
    /\ R \in [DOMAIN R -> NodeType] /\ N \in [DOMAIN N -> NodeType] /\ DOMAIN N = DOMAIN R
    /\ left \in DOMAIN R /\ right \in DOMAIN R /\ left # right /\ left # 0 /\ right # 0
    /\ keys \in Seq(KeyType) /\ HasChildren(R, keys)
    /\ i \in 1 .. Len(keys) /\ k \in 1 .. Len(keys)
    /\ keys[i].nodeId = left /\ keys[k].nodeId = right
    /\ \A q \in 1 .. Len(keys) : /\ keys[q].nodeId = left => q = i
                                 /\ keys[q].nodeId = right => q = k
    /\ \A a \in DOMAIN R : a # left /\ a # right => N[a] = R[a]
    /\ N[left].accumCount + N[right].accumCount = R[left].accumCount + R[right].accumCount
    /\ N[left].accum + N[right].accum = R[left].accum + R[right].accum
LEMMA ExchangeCounts ==
    ASSUME NEW R, NEW N, NEW keys, NEW left, NEW right, NEW i, NEW k,
           Exchange(R, N, keys, left, right, i, k)
    PROVE  /\ countOfAll(N, keys) = countOfAll(R, keys)
           /\ accumOfAll(N, keys) = accumOfAll(R, keys)
  <1>1. /\ R \in [DOMAIN R -> NodeType] /\ N \in [DOMAIN N -> NodeType] /\ DOMAIN N = DOMAIN R
        /\ left \in DOMAIN R /\ right \in DOMAIN R /\ left # right /\ left # 0 /\ right # 0
        /\ keys \in Seq(KeyType) /\ HasChildren(R, keys)
        /\ i \in 1 .. Len(keys) /\ k \in 1 .. Len(keys)
        /\ keys[i].nodeId = left /\ keys[k].nodeId = right
        /\ \A a \in DOMAIN R : a # left /\ a # right => N[a] = R[a]
    BY DEF Exchange
  <1>2. \A q \in 1 .. Len(keys) : /\ keys[q].nodeId = left => q = i
                                  /\ keys[q].nodeId = right => q = k
    BY DEF Exchange
  <1>3. PICK S : S = [a \in DOMAIN R |-> IF a = left THEN N[a] ELSE R[a]]
    OBVIOUS
  <1>4. /\ DOMAIN S = DOMAIN R /\ S \in [DOMAIN S -> NodeType]
        /\ S[left] = N[left] /\ S[right] = R[right]
        /\ \A a \in DOMAIN R : /\ a # left => S[a] = R[a]
                               /\ a # right => S[a] = N[a]
    BY <1>1, <1>3
  <1>5. HasChildren(S, keys) /\ HasChildren(N, keys)
    BY <1>1, <1>4 DEF HasChildren
  <1>6. \A q \in 1 .. Len(keys) : q # i =>
            /\ countOf(S, keys[q]) = countOf(R, keys[q])
            /\ accumOf(S, keys[q]) = accumOf(R, keys[q])
    BY <1>1, <1>2, <1>4 DEF countOf, accumOf, HasChildren
  <1>7. \A q \in 1 .. Len(keys) : q # k =>
            /\ countOf(N, keys[q]) = countOf(S, keys[q])
            /\ accumOf(N, keys[q]) = accumOf(S, keys[q])
    BY <1>1, <1>2, <1>4 DEF countOf, accumOf, HasChildren
  <1>8. /\ countOfAll(S, keys) = countOfAll(R, keys) - countOf(R, keys[i]) + countOf(S, keys[i])
        /\ accumOfAll(S, keys) = accumOfAll(R, keys) - accumOf(R, keys[i]) + accumOf(S, keys[i])
    BY <1>1, <1>4, <1>5, <1>6, CountsChange
  <1>9. /\ countOfAll(N, keys) = countOfAll(S, keys) - countOf(S, keys[k]) + countOf(N, keys[k])
        /\ accumOfAll(N, keys) = accumOfAll(S, keys) - accumOf(S, keys[k]) + accumOf(N, keys[k])
    BY <1>1, <1>4, <1>5, <1>7, CountsChange
  <1>10. PICK a1, a2, c1, c2, b1, b2, d1, d2 :
             /\ a1 = R[left].accumCount /\ a2 = R[right].accumCount
             /\ c1 = N[left].accumCount /\ c2 = N[right].accumCount
             /\ b1 = R[left].accum /\ b2 = R[right].accum
             /\ d1 = N[left].accum /\ d2 = N[right].accum
    OBVIOUS
  <1>11. /\ a1 \in Nat /\ a2 \in Nat /\ c1 \in Nat /\ c2 \in Nat
         /\ b1 \in Nat /\ b2 \in Nat /\ d1 \in Nat /\ d2 \in Nat
    BY <1>1, <1>10 DEF NodeType
  <1>12. c1 + c2 = a1 + a2 /\ d1 + d2 = b1 + b2
    BY <1>10 DEF Exchange
  <1>13. /\ countOf(R, keys[i]) = a1 /\ countOf(S, keys[i]) = c1
         /\ countOf(S, keys[k]) = a2 /\ countOf(N, keys[k]) = c2
         /\ accumOf(R, keys[i]) = b1 /\ accumOf(S, keys[i]) = d1
         /\ accumOf(S, keys[k]) = b2 /\ accumOf(N, keys[k]) = d2
    BY <1>1, <1>4, <1>10 DEF countOf, accumOf
  <1>14. PICK u, v : u = countOfAll(R, keys) /\ v = accumOfAll(R, keys)
    OBVIOUS
  <1>15. u \in Nat /\ v \in Nat
    BY <1>1, <1>14, CountType
  <1>16. /\ countOfAll(N, keys) = u - a1 + c1 - a2 + c2
         /\ accumOfAll(N, keys) = v - b1 + d1 - b2 + d2
    <2>1. PICK r, t : r = countOfAll(S, keys) /\ t = accumOfAll(S, keys)
      OBVIOUS
    <2>2. r = u - a1 + c1 /\ t = v - b1 + d1
      BY <1>8, <1>13, <1>14, <2>1
    <2>3. /\ countOfAll(N, keys) = r - a2 + c2
          /\ accumOfAll(N, keys) = t - b2 + d2
      BY <1>9, <1>13, <2>1
    <2> QED
      BY ONLY <2>2, <2>3, <1>11, <1>15
  <1>17. u - a1 + c1 - a2 + c2 = u /\ v - b1 + d1 - b2 + d2 = v
    BY ONLY <1>11, <1>12, <1>15
  <1> QED
    BY <1>14, <1>16, <1>17

LevelAbove(N, p, j, item, keys, id, left) ==
    /\ N[p].items = keys
    /\ KeysFirst(N, keys, {j} \cup (IF id = left THEN {j + 1} ELSE {}))
    /\ Counts(N, p, keys, -1, item)
    /\ id = left => j + 1 <= Len(N[p].items)
LEMMA LevelKeys ==
    ASSUME NEW T, NEW R, NEW N, NEW h, NEW root, NEW id, NEW p, NEW j, NEW item \in Nat,
           NEW left, NEW right, NEW to, NEW i, NEW n, NEW K, NEW x, NEW m, NEW b, NEW z,
           NEW L, NEW Q,
           Leveled(T, R, N, h, root, id, p, j, item, left, right, to, i, n, K, x, m, b, z, L, Q),
           NEW keys, keys = R[p].items
    PROVE  LevelAbove(N, p, j, item, keys, id, left)
  <1>1. LevelNodes(R, N, h, left, right, K, m, z, x, L, Q)
    BY LevelNodesAre
  <1>2. /\ Leveling(T, R, h, root, id, p, j, item, left, right, to, i, n, K, x, m)
        /\ Rebalanced(R, N, left, right, K, m, L, Q)
    BY DEF Leveled
  <1>3. /\ Thin(T, R, h, root, id, p, j, item) /\ p # 0
        /\ Pair(R, h, id, p, left, right, to, i)
    BY <1>2 DEF Leveling
  <1>4. Levelings(R, h, id, p, left, right, to, i, n, K, x, m)
    BY <1>2, LevelingParts
  <1>5. p # left /\ p # right /\ p \in DOMAIN R /\ ((id = left) \/ (id = right)) /\ Structure(R, h, 0)
    BY <1>4 DEF Levelings
  <1>6. N[p] = R[p]
    BY <1>1, <1>5 DEF LevelNodes
  <1>7. PICK y : y = Len(R[p].items)
    OBVIOUS
  <1>8. PairPlace(R, id, p, j, left, right, to, i, y)
    BY <1>3, <1>7, PairPlaceIs
  <1>9. /\ id = left => j = i
        /\ id = right => j = i + 1
        /\ i \in Nat /\ i >= 1 /\ i + 1 <= y
        /\ keys[i].nodeId = left /\ keys[i + 1].nodeId = right
    BY <1>8 DEF PairPlace
  <1>10. \A k \in 1 .. y : /\ keys[k].nodeId = left => k = i
                           /\ keys[k].nodeId = right => k = i + 1
    BY <1>8 DEF PairPlace
  <1>11. /\ ParentKeys(T, R, id, p, j, -1, item) /\ R[p] = T[p]
         /\ R[p].items \in Seq(KeyType) /\ Len(R[p].items) \in Nat
         /\ DOMAIN R[p].items = 1 .. Len(R[p].items)
         /\ h[p] = h[id] + 1 /\ h[id] \in Nat
    BY <1>3, ThinAbove
  <1>12. Counts(R, p, keys, -1, item) /\ KeysFirst(R, keys, {j})
    BY <1>11 DEF ParentKeys
  <1>13. keys \in Seq(KeyType) /\ y \in Nat /\ DOMAIN keys = 1 .. y /\ y = Len(keys)
    BY <1>7, <1>11
  <1>14. HasChildren(R, keys)
    BY <1>5, <1>7, <1>11, <1>13 DEF Structure, LevelsAt, HasChildren
  <1>15. /\ left \in DOMAIN R /\ right \in DOMAIN R /\ left # right /\ left # 0 /\ right # 0
         /\ R \in [DOMAIN R -> NodeType] /\ N \in [DOMAIN N -> NodeType] /\ DOMAIN N = DOMAIN R
         /\ \A a \in DOMAIN R : a # left /\ a # right => N[a] = R[a]
    BY <1>1 DEF LevelNodes, Stored
  <1>16. PICK i1 : i1 = i + 1
    OBVIOUS
  <1>17. i \in 1 .. y /\ i1 \in 1 .. y
    BY <1>9, <1>13, <1>16
  <1>18. /\ N[left].accumCount + N[right].accumCount = R[left].accumCount + R[right].accumCount
         /\ N[left].accum + N[right].accum = R[left].accum + R[right].accum
    BY <1>2 DEF Rebalanced
  <1>19. Exchange(R, N, keys, left, right, i, i1)
    BY <1>9, <1>10, <1>13, <1>14, <1>15, <1>16, <1>17, <1>18 DEF Exchange
  <1>20. /\ countOfAll(N, keys) = countOfAll(R, keys)
         /\ accumOfAll(N, keys) = accumOfAll(R, keys)
    BY <1>19, ExchangeCounts
  <1>21. Counts(N, p, keys, -1, item)
    BY <1>6, <1>12, <1>20 DEF Counts
  <1>22. ASSUME NEW k \in 1 .. y, k # j, id = left => k # j + 1, keys[k].nodeId # 0
         PROVE  keys[k].item = firstItem(N, keys[k].nodeId)
    <2>1. keys[k].item = firstItem(R, keys[k].nodeId)
      BY <1>12, <1>13, <1>22 DEF KeysFirst
    <2>2. keys[k].nodeId # right
      BY <1>5, <1>9, <1>10, <1>22
    <2>3. CASE keys[k].nodeId = left
      BY <2>1, <2>3, LevelRecorded
    <2>4. CASE keys[k].nodeId # left
      <3>1. keys[k].nodeId \in DOMAIN R
        BY <1>13, <1>14, <1>22 DEF HasChildren
      <3> QED
        BY <1>15, <2>1, <2>2, <2>4, <3>1 DEF firstItem
    <2> QED
      BY <2>3, <2>4
  <1>23. KeysFirst(N, keys, {j} \cup (IF id = left THEN {j + 1} ELSE {}))
    BY <1>13, <1>22 DEF KeysFirst
  <1>24. id = left => j + 1 <= Len(N[p].items)
    BY <1>6, <1>7, <1>9
  <1> QED
    BY <1>6, <1>21, <1>23, <1>24 DEF LevelAbove

LevelEnd(T, N, h, root, id, p, j, item, keys, pend, refresh, cont) ==
    /\ Shrunk(N, N, keys, h, root, p, j, item, pend, refresh)
    /\ KeptAbove(T, N, h, h, id) /\ SameLeaves(cont, N, h)
LEMMA LevelShrinks ==
    ASSUME NEW T, NEW R, NEW N, NEW h, NEW root, NEW id, NEW p, NEW j, NEW item \in Nat,
           NEW left, NEW right, NEW to, NEW i, NEW n, NEW K, NEW x, NEW m, NEW b, NEW z,
           NEW L, NEW Q,
           Leveled(T, R, N, h, root, id, p, j, item, left, right, to, i, n, K, x, m, b, z, L, Q),
           NEW keys, keys = R[p].items, NEW refresh, refresh = (id = left),
           NEW cont, SameLeaves(cont, R, h), NEW pend, pend = FALSE
    PROVE  LevelEnd(T, N, h, root, id, p, j, item, keys, pend, refresh, cont)
  <1>1. LevelNodes(R, N, h, left, right, K, m, z, x, L, Q)
    BY LevelNodesAre
  <1>2. Leveling(T, R, h, root, id, p, j, item, left, right, to, i, n, K, x, m)
    BY DEF Leveled
  <1>3. Thin(T, R, h, root, id, p, j, item)
    BY <1>2 DEF Leveling
  <1>4. /\ N[p].items = keys
        /\ KeysFirst(N, keys, {j} \cup (IF id = left THEN {j + 1} ELSE {}))
        /\ Counts(N, p, keys, -1, item)
        /\ id = left => j + 1 <= Len(N[p].items)
    <2>1. LevelAbove(N, p, j, item, keys, id, left)
      BY LevelKeys
    <2> QED
      BY <2>1 DEF LevelAbove
  <1>5. Structure(N, h, p) /\ LeavesAgree(R, N, h, h)
    BY LevelStructure
  <1>6. Rooted(N, h, root)
    BY LevelRooted
  <1>7. Exact(N, p)
    BY LevelExact
  <1>8. /\ p \in DOMAIN R /\ h[left] = h[id] /\ h[right] = h[id] /\ h[id] \in Nat
    BY <1>2, LevelingParts DEF Levelings
  <1>9. Stored(N, h) /\ DOMAIN N = DOMAIN R
        /\ \A a \in DOMAIN R : a # left /\ a # right => N[a] = R[a]
    BY <1>1 DEF LevelNodes
  <1>10. N = [N EXCEPT ![p].items = keys]
    <2>1. N[p] \in NodeType
      BY <1>8, <1>9 DEF Stored
    <2>2. [N[p] EXCEPT !.items = keys] = N[p]
      BY <2>1, <1>4 DEF NodeType
    <2>3. N = [a \in DOMAIN N |-> N[a]]
      BY <1>9 DEF Stored
    <2> QED
      BY <1>8, <1>9, <2>2, <2>3
  <1>11. KeysLeft(N, p, j, pend, keys)
    BY <1>4 DEF KeysLeft
  <1>12. Shrunk(N, N, keys, h, root, p, j, item, pend, refresh)
    BY <1>4, <1>5, <1>6, <1>7, <1>9, <1>10, <1>11 DEF Shrunk
  <1>13. KeptAbove(T, N, h, h, id)
    <2>1. /\ DOMAIN R = DOMAIN T /\ \A a \in DOMAIN T : a # id => R[a] = T[a]
      BY <1>3, ThinParts
    <2>2. ASSUME NEW a \in DOMAIN T, h[a] > h[id]
          PROVE  a \in DOMAIN N /\ N[a] = T[a]
      <3>1. a # id /\ a # left /\ a # right
        BY <2>2, <1>8
      <3> QED
        BY <3>1, <2>1, <1>9
    <2> QED
      BY <2>2 DEF KeptAbove
  <1>14. SameLeaves(cont, N, h)
    BY <1>5 DEF SameLeaves, LeavesAgree
  <1> QED
    BY <1>12, <1>13, <1>14 DEF LevelEnd

-----------------------------------------------------------------------------
(* A turn of eraseItem at the node id, which is R without the item.        *)
Turning(h, id, K, R, p, j) ==
    /\ running = "erase" /\ Amid(h, id, K)
    /\ id = Crumb.nodeId /\ R = removed
    /\ AtTop(nodes, breadcrumbs, rootNodeId, h, id, p, j)
    /\ Thin(nodes, R, h, rootNodeId, id, p, j, oldNew)
    /\ SameLeaves(contents, R, h)
    /\ oldNew \in Items /\ oldNew \in Nat /\ newKey = NoKey
LEMMA TurnBegins ==
    ASSUME NEW h, Shape(h), breadcrumbs \in Seq(CrumbType), breadcrumbs # <<>>,
           running = "erase"
    PROVE  \E id, K, R, p, j : Turning(h, id, K, R, p, j)
  <1>1. PICK id, K, R : id = Crumb.nodeId /\ K = keysAhead /\ R = removed
    OBVIOUS
  <1>2. Amid(h, id, K)
    BY <1>1, AmidCall
  <1>3. /\ Stored(nodes, h) /\ Len(breadcrumbs) > 0
        /\ PathIn(nodes, breadcrumbs, rootNodeId, h)
        /\ id = breadcrumbs[Len(breadcrumbs)].nodeId
    BY <1>2 DEF Amid
  <1>4. PICK p, j : AtTop(nodes, breadcrumbs, rootNodeId, h, id, p, j)
    BY <1>3, PathTop
  <1>5. /\ Thin(nodes, R, h, rootNodeId, id, p, j, oldNew)
        /\ \A item \in Items : item \in contents <=> InLeaf(R, h, item)
    BY <1>1, <1>2, <1>4, ThinIs
  <1>6. oldNew \in Items /\ newKey = NoKey
    BY <1>2, AmidErase
  <1>7. oldNew \in Nat
    BY <1>6, ItemsAssumption
  <1>8. SameLeaves(contents, R, h)
    BY <1>5 DEF SameLeaves
  <1> QED
    BY <1>1, <1>2, <1>4, <1>5, <1>6, <1>7, <1>8 DEF Turning

(* When the node is too small. *)
LEMMA TooSmallIs ==
    ASSUME NEW h, NEW id, NEW K, NEW R, NEW p, NEW j, Turning(h, id, K, R, p, j)
    PROVE  tooSmall(R) <=> /\ Len(R[id].items) < MIN_ITEMS
                           /\ p # 0 /\ Len(R[p].items) > 1
  <1>1. /\ id = Crumb.nodeId /\ AtTop(nodes, breadcrumbs, rootNodeId, h, id, p, j)
        /\ Thin(nodes, R, h, rootNodeId, id, p, j, oldNew)
    BY DEF Turning
  <1>2. CASE p = 0
    <2>1. Len(breadcrumbs) = 1
      BY <1>1, <1>2 DEF AtTop
    <2> QED
      BY <2>1, <1>2 DEF tooSmall, needsItems
  <1>3. CASE p # 0
    <2>1. Len(breadcrumbs) > 1 /\ breadcrumbs[Len(breadcrumbs) - 1].nodeId = p
      BY <1>1, <1>3 DEF AtTop
    <2>2. R[p] = nodes[p]
      BY <1>1, <1>3, ThinAbove
    <2>3. Parent = R[p]
      BY <2>1, <2>2 DEF Parent
    <2> QED
      BY <1>1, <1>3, <2>1, <2>3 DEF tooSmall, needsItems
  <1> QED
    BY <1>2, <1>3

(* The tree is well shaped after it, and nodes above have their keys.      *)
AboveKept(T, N, h, id) ==
    \A a \in DOMAIN T : h[a] > h[id] => a \in DOMAIN N /\ N[a].items = T[a].items
Turned(h, id, N) == (\E h3 : Shape(h3)') /\ AboveKept(nodes, N, h, id)

(* The loop goes on at the node above. *)
LEMMA TurnUp ==
    ASSUME NEW h, NEW id, NEW K, NEW R, NEW p, NEW j, Turning(h, id, K, R, p, j), p # 0,
           NEW N, nodes' = N, NEW S, NEW K2, NEW h2,
           Shrunk(N, S, K2, h2, rootNodeId, p, j, oldNew, pending', neighbourRefreshNeeded'),
           SameLeaves(contents, S, h2), KeptAbove(nodes, N, h, h2, id),
           EraseStep
    PROVE  Turned(h, id, nodes')
  <1>1. /\ running = "erase" /\ Amid(h, id, K) /\ oldNew \in Items /\ newKey = NoKey
        /\ AtTop(nodes, breadcrumbs, rootNodeId, h, id, p, j)
    BY DEF Turning
  <1>2. /\ breadcrumbs' = Front(breadcrumbs)
        /\ UNCHANGED <<rootNodeId, running, oldNew, newKey, contents>>
    BY DEF EraseStep, EraseTurn
  <1>3. Shape(h2)'
    BY <1>1, <1>2, EraseUpShape
  <1>4. AboveKept(nodes, N, h, id)
    BY DEF KeptAbove, AboveKept
  <1> QED
    BY <1>3, <1>4 DEF Turned

(* The root. *)
LEMMA TurnTop ==
    ASSUME NEW h, NEW id, NEW K, NEW R, NEW p, NEW j, Turning(h, id, K, R, p, j), p = 0,
           NEW N, nodes' = N, NEW h2, ~neighbourRefreshNeeded',
           Structure(N, h2, 0), Exact(N, 0), Stored(N, h2),
           SameLeaves(contents, N, h2),
           IF pending' THEN DOMAIN N = {} ELSE Rooted(N, h2, rootNodeId),
           EraseStep
    PROVE  Turned(h, id, nodes')
  <1>1. /\ running = "erase" /\ Amid(h, id, K) /\ oldNew \in Items /\ newKey = NoKey
        /\ AtTop(nodes, breadcrumbs, rootNodeId, h, id, p, j)
    BY DEF Turning
  <1>2. /\ breadcrumbs' = Front(breadcrumbs)
        /\ UNCHANGED <<rootNodeId, running, oldNew, newKey, contents>>
    BY DEF EraseStep, EraseTurn
  <1>3. breadcrumbs \in Seq(CrumbType) /\ Len(breadcrumbs) = 1
    BY <1>1 DEF AtTop, Amid
  <1>4. Fronts(breadcrumbs, breadcrumbs')
    <2>1. PICK s : s = breadcrumbs
      OBVIOUS
    <2>2. s \in Seq(CrumbType) /\ Len(s) > 0
      BY <1>3, <2>1
    <2>3. Fronts(s, Front(s))
      BY <2>2, FrontIs
    <2> QED
      BY <2>1, <2>3, <1>2
  <1>5. breadcrumbs' = <<>>
    BY <1>3, <1>4 DEF Fronts
  <1>6. /\ running' = "erase" /\ oldNew' \in Items /\ newKey' = NoKey
        /\ contents' = contents /\ rootNodeId' = rootNodeId
    BY <1>1, <1>2
  <1>7. SameLeaves(contents', N, h2)
    BY <1>6
  <1>8. IF pending' THEN DOMAIN N = {} ELSE Rooted(N, h2, rootNodeId')
    BY <1>6
  <1>9. Shape(h2)'
    BY <1>5, <1>6, <1>7, <1>8, EraseTopShape
  <1>10. AboveKept(nodes, N, h, id)
    <2>1. Thin(nodes, R, h, rootNodeId, id, p, j, oldNew)
      BY DEF Turning
    <2>2. id = rootNodeId /\ Rooted(R, h, rootNodeId) /\ DOMAIN R = DOMAIN nodes /\ Stored(R, h)
      BY <2>1, ThinParts DEF Thin
    <2>3. \A a \in DOMAIN nodes : ~(h[a] > h[id])
      BY SMTT(30), <2>2 DEF Rooted, Stored
    <2> QED
      BY <2>3 DEF AboveKept
  <1> QED
    BY <1>9, <1>10 DEF Turned

(* The node is left alone, or taken out if it has no keys. *)
LEMMA TurnAlone ==
    ASSUME NEW h, NEW id, NEW K, NEW R, NEW p, NEW j, Turning(h, id, K, R, p, j),
           ~tooSmall(R), EraseStep
    PROVE  Turned(h, id, nodes')
  <1>1. /\ id = Crumb.nodeId /\ R = removed /\ oldNew \in Nat
        /\ Thin(nodes, R, h, rootNodeId, id, p, j, oldNew)
        /\ SameLeaves(contents, R, h)
    BY DEF Turning
  <1>2. PICK N : N = nodes'
    OBVIOUS
  <1>3. /\ N = IF R[id].items = <<>> THEN unlink(R, id) ELSE R
        /\ pending' = (R[id].items = <<>>)
        /\ neighbourRefreshNeeded' = FALSE
    BY <1>1, <1>2 DEF EraseStep, EraseTurn
  <1>4. /\ Structure(R, h, 0) /\ Stored(R, h) /\ Rooted(R, h, rootNodeId)
        /\ DOMAIN R = DOMAIN nodes /\ id \in DOMAIN nodes
    BY <1>1, ThinParts
  <1>5. Len(R[id].items) \in Nat /\ R[id].items \in Seq(KeyType)
    BY <1>4 DEF Stored, NodeType
  <1>6. \/ Len(R[id].items) >= MIN_ITEMS
        \/ p # 0 => Len(R[p].items) = 1
    <2>1. p # 0 => Len(R[p].items) \in Nat /\ j \in 1 .. Len(R[p].items)
      BY <1>1, ThinAbove
    <2>2. ~(Len(R[id].items) < MIN_ITEMS /\ p # 0 /\ Len(R[p].items) > 1)
      BY TooSmallIs
    <2>3. PICK z, y, m : z = Len(R[p].items) /\ y = Len(R[id].items) /\ m = MIN_ITEMS
      OBVIOUS
    <2>4. y \in Nat /\ m \in Nat /\ ~(y < m /\ p # 0 /\ z > 1)
          /\ (p # 0 => z \in Nat /\ j \in 1 .. z)
      BY <2>1, <2>2, <2>3, <1>5, Sizes
    <2>5. y >= m \/ (p # 0 => z = 1)
      BY ONLY <2>4
    <2> QED
      BY <2>3, <2>5
  <1>7. CASE R[id].items # <<>>
    <2>1. N = R /\ pending' = FALSE /\ neighbourRefreshNeeded' = FALSE
      BY <1>3, <1>7
    <2>2. Sized(R[id])
      BY <1>1, <1>6, <1>7, SizedAlone
    <2>3. CASE p # 0
      <3>1. /\ Shrunk(R, R, R[p].items, h, rootNodeId, p, j, oldNew, FALSE, FALSE)
            /\ KeptAbove(nodes, R, h, h, id)
        BY <1>1, <2>2, <2>3, AloneShrinks
      <3>2. Shrunk(R, R, R[p].items, h, rootNodeId, p, j, oldNew, pending', neighbourRefreshNeeded')
        BY <3>1, <2>1
      <3> QED
        BY <1>1, <1>2, <2>1, <2>3, <3>1, <3>2, TurnUp
    <2>4. CASE p = 0
      <3>1. Exact(R, 0)
        BY <1>1, <2>2, <2>4, AloneExact
      <3>2. IF pending' THEN DOMAIN R = {} ELSE Rooted(R, h, rootNodeId)
        BY <1>4, <2>1
      <3>3. ~neighbourRefreshNeeded' /\ nodes' = R
        BY <1>2, <2>1
      <3> QED
        BY <1>1, <1>4, <2>4, <3>1, <3>2, <3>3, TurnTop
    <2> QED
      BY <2>3, <2>4
  <1>8. CASE R[id].items = <<>>
    <2>1. N = unlink(R, id) /\ pending' = TRUE /\ neighbourRefreshNeeded' = FALSE
      BY <1>3, <1>8
    <2>2. CASE p # 0
      <3>1. Len(R[p].items) = 1
        BY <2>2, <1>6, <1>8, Sizes, ThresholdAssumption
      <3>2. PICK S, K2, h2 :
                /\ Shrunk(N, S, K2, h2, rootNodeId, p, j, oldNew, TRUE, FALSE)
                /\ KeptAbove(nodes, N, h, h2, id) /\ SameLeaves(contents, S, h2)
        BY <1>1, <1>8, <2>1, <2>2, <3>1, EmptyShrinks
      <3>3. Shrunk(N, S, K2, h2, rootNodeId, p, j, oldNew, pending', neighbourRefreshNeeded')
        BY <3>2, <2>1
      <3> QED
        BY <1>2, <2>2, <3>2, <3>3, TurnUp
    <2>3. CASE p = 0
      <3>1. /\ DOMAIN N = {} /\ Structure(N, <<>>, 0) /\ Exact(N, 0) /\ Stored(N, <<>>)
            /\ SameLeaves(contents, N, <<>>)
        BY <1>1, <1>8, <2>1, <2>3, EmptyRootGone
      <3>2. IF pending' THEN DOMAIN N = {} ELSE Rooted(N, <<>>, rootNodeId)
        BY <3>1, <2>1
      <3>3. ~neighbourRefreshNeeded' /\ nodes' = N
        BY <1>2, <2>1
      <3> QED
        BY <2>3, <3>1, <3>2, <3>3, TurnTop
    <2> QED
      BY <2>2, <2>3
  <1> QED
    BY <1>7, <1>8

-----------------------------------------------------------------------------
(* A turn at a node that is too small: its neighbour and the keys of both. *)
Paired(h, id, R, p, j, pair, left, right, to, i, n, row, x) ==
    /\ Pair(R, h, id, p, left, right, to, i)
    /\ InARow(R, left, right, n, row, x)
    /\ pair = neighbours(R) /\ left = pair.left /\ right = pair.right
    /\ p # 0 /\ Len(R[id].items) < MIN_ITEMS
    /\ row \in Seq(KeyType) /\ Len(row) \in Nat
    /\ totalItems(R, pair) = Len(row)
LEMMA TurnPair ==
    ASSUME NEW h, NEW id, NEW K, NEW R, NEW p, NEW j, Turning(h, id, K, R, p, j),
           tooSmall(R)
    PROVE  \E pair, left, right, to, i, n, row, x :
               Paired(h, id, R, p, j, pair, left, right, to, i, n, row, x)
  <1>1. /\ id = Crumb.nodeId /\ AtTop(nodes, breadcrumbs, rootNodeId, h, id, p, j)
        /\ Thin(nodes, R, h, rootNodeId, id, p, j, oldNew)
    BY DEF Turning
  <1>2. p # 0 /\ Len(R[p].items) > 1 /\ Len(R[id].items) < MIN_ITEMS
    BY TooSmallIs
  <1>3. breadcrumbs[Len(breadcrumbs) - 1].index = j - 1
    BY <1>1, <1>2 DEF AtTop
  <1>4. j \in 1 .. Len(R[p].items) /\ Len(R[p].items) \in Nat
    BY <1>1, <1>2, ThinAbove
  <1>5. PICK pair, left, right :
            pair = neighbours(R) /\ left = pair.left /\ right = pair.right
    OBVIOUS
  <1>6. Chosen(R, id, j, left, right)
    <2>1. CASE j = 1
      <3>1. pair = [left |-> id, right |-> R[id].nextSibling]
        BY <1>1, <1>3, <1>5, <2>1 DEF neighbours
      <3> QED
        BY <3>1, <2>1, <1>5 DEF Chosen
    <2>2. CASE j # 1
      <3>1. j - 1 # 0
        BY <1>4, <2>2
      <3>2. pair = [left |-> R[id].prevSibling, right |-> id]
        BY <1>1, <1>3, <1>5, <3>1 DEF neighbours
      <3> QED
        BY <3>2, <2>2, <1>5 DEF Chosen
    <2> QED
      BY <2>1, <2>2
  <1>7. PICK to, i : Pair(R, h, id, p, left, right, to, i)
    BY <1>1, <1>2, <1>6, PairFound
  <1>8. PICK n, row, x : InARow(R, left, right, n, row, x)
    BY DEF InARow
  <1>9. Stored(R, h)
    BY <1>1, ThinParts
  <1>10. row \in Seq(KeyType) /\ Len(row) = n + Len(R[right].items) /\ Len(row) \in Nat
    BY <1>7, <1>8, <1>9, PairRow
  <1>11. totalItems(R, pair) = Len(row)
    BY <1>5, <1>8, <1>10 DEF totalItems, InARow
  <1> QED
    BY <1>2, <1>5, <1>7, <1>8, <1>10, <1>11 DEF Paired

(* The keys of the node move to its neighbour. *)
LEMMA TurnMerge ==
    ASSUME NEW h, NEW id, NEW K, NEW R, NEW p, NEW j, Turning(h, id, K, R, p, j),
           tooSmall(R), EraseStep,
           NEW pair, NEW left, NEW right, NEW to, NEW i, NEW n, NEW row, NEW x,
           Paired(h, id, R, p, j, pair, left, right, to, i, n, row, x),
           Len(row) <= REBALANCE_THRESHOLD
    PROVE  Turned(h, id, nodes')
  <1>1. /\ id = Crumb.nodeId /\ R = removed /\ oldNew \in Nat
        /\ Thin(nodes, R, h, rootNodeId, id, p, j, oldNew)
        /\ SameLeaves(contents, R, h)
    BY DEF Turning
  <1>2. /\ Pair(R, h, id, p, left, right, to, i)
        /\ InARow(R, left, right, n, row, x)
        /\ pair = neighbours(R) /\ left = pair.left /\ right = pair.right
        /\ p # 0 /\ totalItems(R, pair) = Len(row)
    BY DEF Paired
  <1>3. PICK M, N, y, z : /\ M = mergeInto(R, pair) /\ N = nodes'
                          /\ y = R[id].prevSibling /\ z = R[id].nextSibling
    OBVIOUS
  <1>4. /\ id \in {left, right} /\ to \in {left, right} /\ to # id /\ left # right
    BY <1>2 DEF Pair
  <1>5. to = IF id = left THEN right ELSE left
    BY <1>4
  <1>6. MergesInto(R, M, id, left, right, to)
    BY <1>1, <1>2, <1>3, <1>5 DEF MergesInto, mergeInto
  <1>7. Structure(R, h, 0) /\ Stored(R, h)
    BY <1>1, ThinParts
  <1>8. /\ nodes' = IF M[id].items = <<>> THEN unlink(M, id) ELSE M
        /\ pending' = (M[id].items = <<>>)
        /\ neighbourRefreshNeeded' = FALSE
    BY <1>1, <1>2, <1>3 DEF EraseStep, EraseTurn
  <1>9. M[id].items = <<>>
    <2>1. PICK U : U = unlink(M, id)
      OBVIOUS
    <2> QED
      BY <1>2, <1>3, <1>6, <1>7, <2>1, MergeMakes
  <1>10. N = unlink(M, id) /\ pending' = TRUE
    BY <1>3, <1>8, <1>9
  <1>11. Merged(R, N, id, to, row, y, z)
    BY <1>2, <1>3, <1>6, <1>7, <1>10, MergeMakes
  <1>12. Merging(nodes, R, N, h, rootNodeId, id, p, j, oldNew, left, right, to, i, n, row, x)
    BY <1>1, <1>2, <1>3, <1>11 DEF Merging
  <1>13. PICK S, K2, h2 :
             /\ Shrunk(N, S, K2, h2, rootNodeId, p, j, oldNew, TRUE, FALSE)
             /\ KeptAbove(nodes, N, h, h2, id) /\ SameLeaves(contents, S, h2)
    BY <1>1, <1>12, MergeShrinks
  <1>14. Shrunk(N, S, K2, h2, rootNodeId, p, j, oldNew, pending', neighbourRefreshNeeded')
    BY <1>8, <1>10, <1>13
  <1>15. nodes' = N
    BY SMTT(30), <1>3
  <1> QED
    BY <1>2, <1>13, <1>14, <1>15, TurnUp

(* What rebalance does. *)
LevelsOut(R, N, pair, id, left, right, n, row, m) ==
    /\ movesLeft(R, pair) <=> id = left
    /\ \E c, s, e, f : /\ Moves(R, n, row, m, c, s) /\ e = -c /\ f = -s
           /\ RebalancesInto(R, N, left, right, row, m, c, s, e, f)
LEMMA RebalanceIs ==
    ASSUME NEW R, NEW h, NEW id, NEW p, NEW left, NEW right, NEW to, NEW i,
           NEW n, NEW row, NEW x, NEW m,
           Levelings(R, h, id, p, left, right, to, i, n, row, x, m),
           NEW b, NEW z, z = Len(row), b = Len(R[right].items),
           LevelSizes(id, left, right, n, b, z, m), m = (z + 1) \div 2,
           row = R[left].items \o R[right].items,
           NEW pair, left = pair.left, right = pair.right, totalItems(R, pair) = z,
           NEW N, N = rebalance(R, pair)
    PROVE  LevelsOut(R, N, pair, id, left, right, n, row, m)
  <1>1. /\ n \in Nat /\ m \in Nat /\ z \in Nat /\ b \in Nat /\ n <= z /\ m < z
        /\ id = left => n < m /\ b >= z \div 2
        /\ id = right => m < n /\ ~(b >= z \div 2)
    BY DEF LevelSizes
  <1>2. /\ left # right /\ ((id = left) \/ (id = right))
        /\ n = Len(R[left].items) /\ row \in Seq(KeyType)
        /\ RowBelow(R, h, left, right, row) /\ Stored(R, h)
    BY DEF Levelings
  <1>3. movesLeft(R, pair) <=> id = left
    BY ZenonT(30), <1>1, <1>2 DEF movesLeft
  <1>4. HasChildren(R, row) /\ R \in [DOMAIN R -> NodeType]
    BY <1>2 DEF RowBelow, Stored
  <1>5. PICK moved, sign, c, s, e, f :
            /\ moved = IF movesLeft(R, pair) THEN SubSeq(row, n + 1, m)
                       ELSE SubSeq(row, m + 1, n)
            /\ sign = IF movesLeft(R, pair) THEN 1 ELSE -1
            /\ c = sign * countOfAll(R, moved) /\ s = sign * accumOfAll(R, moved)
            /\ e = -c /\ f = -s
    OBVIOUS
  <1>6. RebalancesInto(R, N, left, right, row, m, c, s, e, f)
    BY ZenonT(30), <1>2, <1>5 DEF RebalancesInto, rebalance
  <1>7. CASE id = left
    <2>1. moved = SubSeq(row, n + 1, m) /\ sign = 1
      BY ZenonT(30), <1>3, <1>5, <1>7
    <2>2. n < m
      BY <1>1, <1>7
    <2>3. n \in Nat /\ m \in Nat /\ n <= m /\ m <= z /\ ~(m < n)
      BY ONLY <1>1, <2>2
    <2>4. PICK X, Y : X = SubSeq(row, 1, n) /\ Y = SubSeq(row, 1, m)
      OBVIOUS
    <2>5. Middle(row, n, m, X, moved, Y)
      BY ZenonT(30), <1>2, <2>1, <2>3, <2>4 DEF Middle
    <2>6. AddUp(R, X, moved, Y)
      BY <1>4, <2>5, MiddleTotals
    <2>7. PICK u, v : u = countOfAll(R, moved) /\ v = accumOfAll(R, moved)
      OBVIOUS
    <2>8. u \in Nat /\ v \in Nat
      BY SMTT(30), <2>6, <2>7 DEF AddUp
    <2>9. c = 1 * u /\ s = 1 * v
      BY <1>5, <2>1, <2>7
    <2>10. c = u /\ s = v
      BY ONLY <2>8, <2>9
    <2>11. Moves(R, n, row, m, c, s)
      BY ZenonT(30), <2>1, <2>3, <2>7, <2>10 DEF Moves
    <2> QED
      BY <2>11, <1>3, <1>5, <1>6 DEF LevelsOut
  <1>8. CASE id = right
    <2>1. moved = SubSeq(row, m + 1, n) /\ sign = -1
      BY ZenonT(30), <1>2, <1>3, <1>5, <1>8
    <2>2. m < n
      BY <1>1, <1>8
    <2>3. n \in Nat /\ m \in Nat /\ m <= n /\ n <= z /\ ~(n < m)
      BY ONLY <1>1, <2>2
    <2>4. PICK X, Y : X = SubSeq(row, 1, m) /\ Y = SubSeq(row, 1, n)
      BY ZenonT(30)
    <2>5. Middle(row, m, n, X, moved, Y)
      BY <1>2, <2>1, <2>3, <2>4 DEF Middle
    <2>6. AddUp(R, X, moved, Y)
      BY <1>4, <2>5, MiddleTotals
    <2>7. PICK u, v : u = countOfAll(R, moved) /\ v = accumOfAll(R, moved)
      OBVIOUS
    <2>8. u \in Nat /\ v \in Nat
      BY <2>6, <2>7 DEF AddUp
    <2>9. c = (-1) * u /\ s = (-1) * v
      BY <1>5, <2>1, <2>7
    <2>10. c = -u /\ s = -v
      BY ONLY SMTT(30), <2>8, <2>9
    <2>11. Moves(R, n, row, m, c, s)
      BY <2>1, <2>3, <2>7, <2>10 DEF Moves
    <2> QED
      BY ZenonT(30), <2>11, <1>3, <1>5, <1>6 DEF LevelsOut
  <1> QED
    BY <1>2, <1>7, <1>8

-----------------------------------------------------------------------------
(* The cases of a turn of eraseItem.                                       *)

(* Keys move between the node and its neighbour. *)
LEMMA TurnLevel ==
    ASSUME NEW h, NEW id, NEW K, NEW R, NEW p, NEW j, Turning(h, id, K, R, p, j),
           tooSmall(R), EraseStep,
           NEW pair, NEW left, NEW right, NEW to, NEW i, NEW n, NEW row, NEW x,
           Paired(h, id, R, p, j, pair, left, right, to, i, n, row, x),
           ~(Len(row) <= REBALANCE_THRESHOLD)
    PROVE  Turned(h, id, nodes')
  <1>1. /\ id = Crumb.nodeId /\ R = removed /\ oldNew \in Nat
        /\ Thin(nodes, R, h, rootNodeId, id, p, j, oldNew)
        /\ SameLeaves(contents, R, h)
    BY DEF Turning
  <1>2. /\ Pair(R, h, id, p, left, right, to, i)
        /\ InARow(R, left, right, n, row, x)
        /\ pair = neighbours(R) /\ left = pair.left /\ right = pair.right
        /\ p # 0 /\ Len(R[id].items) < MIN_ITEMS
        /\ Len(row) \in Nat /\ totalItems(R, pair) = Len(row)
    BY DEF Paired
  <1>3. PICK N, m, keys : /\ N = rebalance(R, pair) /\ m = (Len(row) + 1) \div 2
                          /\ keys = R[p].items
    OBVIOUS
  <1>4. Len(row) > REBALANCE_THRESHOLD
    BY <1>2, Sizes
  <1>5. Leveling(nodes, R, h, rootNodeId, id, p, j, oldNew, left, right, to, i, n, row, x, m)
    BY <1>1, <1>2, <1>3, <1>4 DEF Leveling
  <1>6. Levelings(R, h, id, p, left, right, to, i, n, row, x, m)
    BY <1>5, LevelingParts
  <1>7. PICK b, z : /\ b = Len(R[right].items) /\ z = Len(row)
                    /\ LevelSizes(id, left, right, n, b, z, m)
    BY SMTT(30), <1>5, LevelingSizes
  <1>8. m = (z + 1) \div 2 /\ row = R[left].items \o R[right].items
        /\ totalItems(R, pair) = z
    BY SMTT(30), <1>2, <1>3, <1>7 DEF InARow
  <1>9. LevelsOut(R, N, pair, id, left, right, n, row, m)
    BY <1>2, <1>3, <1>6, <1>7, <1>8, RebalanceIs
  <1>10. movesLeft(R, pair) <=> id = left
    BY <1>9 DEF LevelsOut
  <1>11. PICK c, s, e, f : /\ Moves(R, n, row, m, c, s) /\ e = -c /\ f = -s
                           /\ RebalancesInto(R, N, left, right, row, m, c, s, e, f)
    BY <1>9 DEF LevelsOut
  <1>12. PICK L, Q : Rebalanced(R, N, left, right, row, m, L, Q)
    BY <1>6, <1>7, <1>11, RebalanceMakes
  <1>13. Leveled(nodes, R, N, h, rootNodeId, id, p, j, oldNew, left, right, to, i, n, row, x,
                 m, b, z, L, Q)
    BY <1>5, <1>7, <1>12 DEF Leveled
  <1>14. N[id].items # <<>>
    <2>1. Sized(N[left]) /\ Sized(N[right])
      BY <1>1, <1>13, LevelRecorded
    <2>2. id \in {left, right}
      BY <1>2 DEF Pair
    <2>3. Len(N[id].items) \in 1 .. MAX_ITEMS
      BY <2>1, <2>2 DEF Sized
    <2> QED
      BY <2>3
  <1>15. /\ nodes' = N /\ pending' = FALSE /\ neighbourRefreshNeeded' = (id = left)
    <2>1. ~(totalItems(R, neighbours(R)) <= REBALANCE_THRESHOLD)
      BY <1>2
    <2>2. /\ nodes' = IF N[id].items = <<>> THEN unlink(N, id) ELSE N
          /\ pending' = (N[id].items = <<>>)
      BY <1>1, <1>2, <1>3, <2>1 DEF EraseStep, EraseTurn
    <2>3. neighbourRefreshNeeded' =
              (tooSmall(R) /\ ~(totalItems(R, neighbours(R)) <= REBALANCE_THRESHOLD)
                  /\ movesLeft(R, neighbours(R)))
      BY <1>1 DEF EraseStep, EraseTurn
    <2>4. movesLeft(R, neighbours(R)) <=> id = left
      BY <1>2, <1>10
    <2>5. neighbourRefreshNeeded' = (id = left)
      BY <2>1, <2>3, <2>4, Zenon
    <2> QED
      BY <2>2, <2>5, <1>14
  <1>16. PICK refresh, pend : refresh = (id = left) /\ pend = FALSE
    OBVIOUS
  <1>17. LevelEnd(nodes, N, h, rootNodeId, id, p, j, oldNew, keys, pend, refresh, contents)
    <2>1. /\ Leveled(nodes, R, N, h, rootNodeId, id, p, j, oldNew, left, right, to, i, n, row, x,
                     m, b, z, L, Q)
          /\ oldNew \in Nat /\ keys = R[p].items /\ refresh = (id = left)
          /\ SameLeaves(contents, R, h) /\ pend = FALSE
      BY <1>1, <1>3, <1>13, <1>16
    <2> QED
      BY ONLY <2>1, LevelShrinks
  <1>18. /\ Shrunk(N, N, keys, h, rootNodeId, p, j, oldNew, pend, refresh)
         /\ KeptAbove(nodes, N, h, h, id) /\ SameLeaves(contents, N, h)
    BY <1>17 DEF LevelEnd
  <1>19. pending' = pend /\ neighbourRefreshNeeded' = refresh
    BY <1>15, <1>16
  <1>20. Shrunk(N, N, keys, h, rootNodeId, p, j, oldNew, pending', neighbourRefreshNeeded')
    BY <1>18, <1>19
  <1> QED
    BY <1>2, <1>15, <1>18, <1>20, TurnUp

LEMMA EraseTurns ==
    ASSUME NEW h, NEW id, NEW K, NEW R, NEW p, NEW j, Turning(h, id, K, R, p, j),
           EraseStep
    PROVE  Turned(h, id, nodes')
  <1>1. CASE ~tooSmall(R)
    BY <1>1, TurnAlone
  <1>2. CASE tooSmall(R)
    <2>1. PICK pair, left, right, to, i, n, row, x :
              Paired(h, id, R, p, j, pair, left, right, to, i, n, row, x)
      BY <1>2, TurnPair
    <2>2. CASE Len(row) <= REBALANCE_THRESHOLD
      BY <1>2, <2>1, <2>2, TurnMerge
    <2>3. CASE ~(Len(row) <= REBALANCE_THRESHOLD)
      BY <1>2, <2>1, <2>3, TurnLevel
    <2> QED
      BY <2>2, <2>3
  <1> QED
    BY <1>1, <1>2

(* No node is made. *)
LEMMA UnlinkDomain ==
    ASSUME NEW ns, NEW id
    PROVE  DOMAIN unlink(ns, id) \subseteq DOMAIN ns
  BY SMTT(30) DEF unlink, deleteNode, setPrev, setNext

LEMMA RemovedDomain == DOMAIN removed = DOMAIN nodes
  BY ZenonT(30) DEF removed, addToNode, refreshIndex

LEMMA MergeDomain ==
    ASSUME NEW ns, NEW pair
    PROVE  DOMAIN mergeInto(ns, pair) = DOMAIN ns
  BY ZenonT(30) DEF mergeInto, addToNode, setPrev, setNext

LEMMA RebalanceDomain ==
    ASSUME NEW ns, NEW pair
    PROVE  DOMAIN rebalance(ns, pair) = DOMAIN ns
  BY DEF rebalance, addToNode

LEMMA EraseStepShape ==
    ASSUME NEW h, Shape(h), breadcrumbs \in Seq(CrumbType), EraseStep
    PROVE  /\ \E h2 : Shape(h2)'
           /\ AboveKept(nodes, nodes', h, Crumb.nodeId)
           /\ breadcrumbs' \in Seq(CrumbType)
           /\ DOMAIN nodes' \subseteq DOMAIN nodes
           /\ pending' \in BOOLEAN
  <1>1. running = "erase" /\ breadcrumbs # <<>> /\ breadcrumbs' = Front(breadcrumbs)
    BY DEF EraseStep, EraseTurn
  <1>2. PICK id, K, R, p, j : Turning(h, id, K, R, p, j)
    BY <1>1, TurnBegins
  <1>3. (\E h2 : Shape(h2)') /\ AboveKept(nodes, nodes', h, Crumb.nodeId)
    <2>1. Turned(h, id, nodes') /\ id = Crumb.nodeId
      BY <1>2, EraseTurns DEF Turning
    <2> QED
      BY <2>1 DEF Turned
  <1>4. breadcrumbs' \in Seq(CrumbType)
    <2>1. PICK s : s = breadcrumbs
      OBVIOUS
    <2>2. s \in Seq(CrumbType) /\ Len(s) > 0
      BY <2>1, <1>1
    <2>3. Fronts(s, Front(s))
      BY <2>2, FrontIs
    <2> QED
      BY <2>1, <2>3, <1>1 DEF Fronts
  <1>5. PICK ns, i : /\ i = Crumb.nodeId
                     /\ nodes' = IF ns[i].items = <<>> THEN unlink(ns, i) ELSE ns
                     /\ pending' = (ns[i].items = <<>>)
                     /\ ns = IF ~tooSmall(removed) THEN removed
                             ELSE IF totalItems(removed, neighbours(removed)) <= REBALANCE_THRESHOLD
                             THEN mergeInto(removed, neighbours(removed))
                             ELSE rebalance(removed, neighbours(removed))
    BY DEF EraseStep, EraseTurn
  <1>6. DOMAIN ns = DOMAIN nodes
    BY <1>5, RemovedDomain, MergeDomain, RebalanceDomain
  <1>7. DOMAIN nodes' \subseteq DOMAIN nodes
    BY <1>5, <1>6, UnlinkDomain
  <1>8. pending' \in BOOLEAN
    BY <1>5
  <1> QED
    BY <1>3, <1>4, <1>7, <1>8

-----------------------------------------------------------------------------
(* The root gives way to its only child.                                   *)
Collapse(T, N, h, h2, root, c) ==
    /\ Sound(T, h, root)
    /\ Len(T[root].items) = 1 /\ c = T[root].items[1].nodeId /\ c # 0
    /\ N = deleteNode(T, root)
    /\ LevelLeft(N, h, h2)
CollapseParts(T, N, h, h2, root, c) ==
    /\ Structure(T, h, 0) /\ Stored(T, h) /\ root \in DOMAIN T /\ root # 0
    /\ DOMAIN N = DOMAIN T \ {root} /\ Stored(N, h2)
    /\ \A a \in DOMAIN N : N[a] = T[a] /\ h2[a] = h[a] /\ h[a] < h[root]
    /\ h[root] \in Nat /\ h[root] # 0
    /\ c \in DOMAIN N /\ h[c] = h[root] - 1
    /\ T[root].nextSibling = 0 /\ T[root].prevSibling = 0
    /\ \A i \in DOMAIN T[root].items : T[root].items[i].nodeId = c
LEMMA CollapseIs ==
    ASSUME NEW T, NEW N, NEW h, NEW h2, NEW root, NEW c, Collapse(T, N, h, h2, root, c)
    PROVE  CollapseParts(T, N, h, h2, root, c)
  <1>1. /\ Structure(T, h, 0) /\ Rooted(T, h, root) /\ Stored(T, h)
        /\ \A id \in DOMAIN T : LevelsAt(T, h, id)
    BY DEF Collapse, Sound, Structure
  <1>2. root \in DOMAIN T /\ T[root].nextSibling = 0 /\ T[root].prevSibling = 0
        /\ \A a \in DOMAIN T \ {root} : h[a] < h[root]
    BY <1>1 DEF Rooted
  <1>3. /\ DOMAIN N = DOMAIN T \ {root}
        /\ \A a \in DOMAIN N : N[a] = T[a] /\ h2[a] = h[a]
    BY DEF Collapse, deleteNode, LevelLeft
  <1>4. Stored(N, h2)
    <2>1. /\ DOMAIN T \subseteq Nat \ {0} /\ T \in [DOMAIN T -> NodeType] /\ h \in [DOMAIN T -> Nat]
      BY <1>1 DEF Stored
    <2>2. N = [n \in DOMAIN T \ {root} |-> T[n]] /\ h2 = [a \in DOMAIN N |-> h[a]]
      BY DEF Collapse, deleteNode, LevelLeft
    <2> QED
      BY <2>1, <2>2, <1>3 DEF Stored
  <1>5. h[root] \in Nat /\ root # 0
    BY <1>1, <1>2 DEF Stored
  <1>6. /\ DOMAIN T[root].items = {1} /\ c = T[root].items[1].nodeId /\ c # 0
    <2>1. T[root].items \in Seq(KeyType)
      BY <1>1, <1>2 DEF Stored, NodeType
    <2>2. Len(T[root].items) = 1 /\ c = T[root].items[1].nodeId /\ c # 0
      BY DEF Collapse
    <2>3. DOMAIN T[root].items = 1 .. 1
      BY <2>1, <2>2
    <2> QED
      BY <2>2, <2>3
  <1>7. h[root] # 0 /\ c \in DOMAIN T /\ h[c] = h[root] - 1
    BY <1>1, <1>2, <1>6 DEF LevelsAt
  <1>8. c # root
    BY <1>5, <1>7
  <1> QED
    BY <1>1, <1>2, <1>3, <1>4, <1>5, <1>6, <1>7, <1>8 DEF CollapseParts

LEMMA CollapseStructure ==
    ASSUME NEW T, NEW N, NEW h, NEW h2, NEW root, NEW c, CollapseParts(T, N, h, h2, root, c)
    PROVE  Structure(N, h2, 0)
  <1>1. /\ Structure(T, h, 0) /\ Stored(T, h) /\ root \in DOMAIN T /\ root # 0
        /\ DOMAIN N = DOMAIN T \ {root} /\ Stored(N, h2)
        /\ \A a \in DOMAIN N : N[a] = T[a] /\ h2[a] = h[a] /\ h[a] < h[root]
        /\ h[root] \in Nat /\ T[root].prevSibling = 0 /\ T[root].nextSibling = 0
    BY DEF CollapseParts
  <1>2. OneParent(T)
        /\ \A id \in DOMAIN T : /\ LevelsAt(T, h, id) /\ LinkedAt(T, h, id)
                                /\ AdjacentAt(T, h, id) /\ OrderedAt(T, id)
    BY <1>1 DEF Structure
  <1>3. OneParent(N)
    BY <1>1, <1>2 DEF OneParent
  <1>4. \A a \in DOMAIN N : h[a] \in Nat /\ a # 0
    BY <1>1 DEF Stored
  <1>5. ASSUME NEW a \in DOMAIN N
        PROVE  LevelsAt(N, h2, a)
    <2>1. LevelsAt(T, h, a) /\ N[a] = T[a] /\ h2[a] = h[a] /\ h[a] < h[root] /\ h[a] \in Nat
      BY <1>1, <1>2, <1>4
    <2>2. ASSUME NEW i \in DOMAIN T[a].items, h[a] # 0
          PROVE  /\ T[a].items[i].nodeId \in DOMAIN N
                 /\ h2[T[a].items[i].nodeId] = h[a] - 1
      <3>1. PICK d : d = T[a].items[i].nodeId
        OBVIOUS
      <3>2. d \in DOMAIN T /\ h[d] = h[a] - 1
        BY <3>1, <2>1, <2>2 DEF LevelsAt
      <3>3. h[d] # h[root]
        BY <3>2, <2>1, <1>1
      <3>4. d \in DOMAIN N
        BY <3>2, <3>3, <1>1
      <3> QED
        BY <3>1, <3>2, <3>4, <1>1
    <2> QED
      BY <2>1, <2>2 DEF LevelsAt
  <1>6. ASSUME NEW a \in DOMAIN N
        PROVE  /\ N[a].nextSibling = T[a].nextSibling /\ N[a].nextSibling # root
               /\ N[a].prevSibling = T[a].prevSibling /\ N[a].prevSibling # root
               /\ a \in DOMAIN T /\ a # 0
    <2>1. LinkedAt(T, h, a) /\ N[a] = T[a] /\ a # 0
      BY <1>1, <1>2, <1>4
    <2> QED
      BY <2>1, <1>1 DEF LinkedAt
  <1>7. ASSUME NEW a \in DOMAIN N
        PROVE  LinkedAt(N, h2, a)
    <2>1. LinkedAt(T, h, a)
      BY <1>1, <1>2
    <2>2. /\ T[a].nextSibling # 0 => T[a].nextSibling \in DOMAIN N
          /\ T[a].prevSibling # 0 => T[a].prevSibling \in DOMAIN N
      BY <2>1, <1>1, <1>6 DEF LinkedAt
    <2> QED
      BY <2>1, <2>2, <1>1, <1>6 DEF LinkedAt
  <1>8. ASSUME NEW a \in DOMAIN N, NEW i
        PROVE  nextKey(N, a, i) = nextKey(T, a, i)
    <2>1. N[a].items = T[a].items /\ N[a].nextSibling = T[a].nextSibling
      BY <1>1
    <2>2. T[a].nextSibling # 0 => T[a].nextSibling \in DOMAIN N
      BY <1>1, <1>6, <1>7 DEF LinkedAt
    <2>3. firstKey(N, T[a].nextSibling) = firstKey(T, T[a].nextSibling)
      BY <2>2, <1>1 DEF firstKey
    <2> QED
      BY <2>1, <2>3 DEF nextKey
  <1>9. ASSUME NEW a \in DOMAIN N
        PROVE  AdjacentAt(N, h2, a)
    <2>1. AdjacentAt(T, h, a) /\ LevelsAt(N, h2, a) /\ N[a] = T[a] /\ h2[a] = h[a] /\ h[a] \in Nat
      BY <1>1, <1>2, <1>4, <1>5
    <2>2. ASSUME NEW i \in DOMAIN N[a].items, h2[a] > 0
          PROVE  N[N[a].items[i].nodeId].nextSibling = nextKey(N, a, i).nodeId
      <3>1. N[a].items[i].nodeId \in DOMAIN N
        BY <2>1, <2>2 DEF LevelsAt
      <3>2. T[T[a].items[i].nodeId].nextSibling = nextKey(T, a, i).nodeId
        BY <2>1, <2>2 DEF AdjacentAt
      <3> QED
        BY <3>1, <3>2, <2>1, <1>1, <1>8
    <2> QED
      BY <2>2 DEF AdjacentAt
  <1>10. ASSUME NEW a \in DOMAIN N
         PROVE  OrderedAt(N, a)
    BY <1>1, <1>2, <1>8 DEF OrderedAt
  <1> QED
    BY <1>1, <1>3, <1>5, <1>7, <1>9, <1>10 DEF Structure

LEMMA CollapseRooted ==
    ASSUME NEW T, NEW N, NEW h, NEW h2, NEW root, NEW c, Collapse(T, N, h, h2, root, c)
    PROVE  Rooted(N, h2, c)
  <1>1. CollapseParts(T, N, h, h2, root, c)
    BY CollapseIs
  <1>2. /\ Structure(T, h, 0) /\ root \in DOMAIN T /\ Stored(T, h)
        /\ DOMAIN N = DOMAIN T \ {root}
        /\ \A a \in DOMAIN N : N[a] = T[a] /\ h2[a] = h[a] /\ h[a] < h[root]
        /\ h[root] \in Nat /\ h[root] # 0
        /\ c \in DOMAIN N /\ h[c] = h[root] - 1
        /\ T[root].nextSibling = 0 /\ T[root].prevSibling = 0
        /\ \A i \in DOMAIN T[root].items : T[root].items[i].nodeId = c
    BY <1>1 DEF CollapseParts
  <1>3. Sound(T, h, root) /\ Len(T[root].items) = 1 /\ c = T[root].items[1].nodeId
    BY DEF Collapse
  <1>4. T[c].prevSibling = 0
    <2>1. 1 \in 1 .. Len(T[root].items)
      BY <1>3
    <2>2. T[c].prevSibling = 0 <=> 1 = 1 /\ T[root].prevSibling = 0
      BY <1>2, <1>3, <2>1, ChildPrev
    <2> QED
      BY <1>2, <2>2
  <1>5. T[c].nextSibling = 0
    <2>1. AdjacentAt(T, h, root) /\ T[root].items \in Seq(KeyType)
      BY <1>2 DEF Structure, Stored, NodeType
    <2>2. 1 \in DOMAIN T[root].items /\ h[root] > 0
      BY <2>1, <1>2, <1>3
    <2>3. T[c].nextSibling = nextKey(T, root, 1).nodeId
      BY <2>1, <2>2, <1>3 DEF AdjacentAt
    <2>4. nextKey(T, root, 1) = none
      BY <1>2, <1>3 DEF nextKey, firstKey
    <2> QED
      BY <2>3, <2>4 DEF none, Key
  <1>6. ASSUME NEW a \in DOMAIN N \ {c}
        PROVE  h2[a] < h2[c] /\ IsChild(N, a)
    <2>1. IsChild(T, a)
      BY <1>2, <1>3 DEF Sound, Rooted
    <2>2. PICK q, i : /\ q \in DOMAIN T /\ i \in DOMAIN T[q].items
                     /\ T[q].items[i].nodeId = a
      BY <2>1 DEF IsChild
    <2>3. q # root
      BY <2>2, <1>2
    <2>4. q \in DOMAIN N /\ N[q] = T[q] /\ h[q] < h[root] /\ h[q] \in Nat
      BY <2>2, <2>3, <1>2 DEF Stored
    <2>5. IsChild(N, a)
      BY <2>2, <2>4 DEF IsChild
    <2>6. LevelsAt(T, h, q) /\ a # 0
      BY <1>2, <2>2 DEF Structure, Stored
    <2>7. h[a] = h[q] - 1
      BY <2>2, <2>6 DEF LevelsAt
    <2>8. h[a] < h[c]
      BY <2>4, <2>7, <1>2
    <2> QED
      BY <2>5, <2>8, <1>2
  <1> QED
    BY <1>2, <1>4, <1>5, <1>6 DEF Rooted

LEMMA CollapseExact ==
    ASSUME NEW T, NEW N, NEW h, NEW h2, NEW root, NEW c, Collapse(T, N, h, h2, root, c)
    PROVE  Exact(N, 0)
  <1>1. CollapseParts(T, N, h, h2, root, c)
    BY CollapseIs
  <1>2. /\ Structure(T, h, 0) /\ root \in DOMAIN T /\ Stored(T, h)
        /\ DOMAIN N = DOMAIN T \ {root}
        /\ \A a \in DOMAIN N : N[a] = T[a] /\ h[a] < h[root]
        /\ h[root] \in Nat /\ root # 0
    BY <1>1 DEF CollapseParts
  <1>3. Exact(T, 0)
    BY DEF Collapse, Sound
  <1>4. \A id \in DOMAIN T : LevelsAt(T, h, id)
    BY <1>2 DEF Structure
  <1>5. ASSUME NEW id \in DOMAIN N, NEW i \in DOMAIN T[id].items
        PROVE  T[id].items[i].nodeId # root
    <2>1. LevelsAt(T, h, id) /\ h[id] < h[root] /\ h[id] \in Nat
      BY <1>2, <1>4 DEF Stored
    <2>2. CASE h[id] = 0
      BY <2>1, <2>2, <1>2 DEF LevelsAt
    <2>3. CASE h[id] # 0
      <3>1. h[T[id].items[i].nodeId] = h[id] - 1
        BY <2>1, <2>3 DEF LevelsAt
      <3> QED
        BY <3>1, <2>1, <1>2
    <2> QED
      BY <2>2, <2>3
  <1>6. \A id \in DOMAIN N :
            /\ N[id].items = T[id].items
            /\ N[id].accumCount = T[id].accumCount
            /\ N[id].accum = T[id].accum
            /\ N[id].nextSibling # 0 => T[id].nextSibling # 0
            /\ id # 0 => \A i \in DOMAIN T[id].items : T[id].items[i].nodeId # root
    BY <1>2, <1>5
  <1> QED
    BY <1>2, <1>3, <1>4, <1>6, ExactDropped

LEMMA CollapseLeaves ==
    ASSUME NEW T, NEW N, NEW h, NEW h2, NEW root, NEW c, CollapseParts(T, N, h, h2, root, c),
           NEW item
    PROVE  InLeaf(N, h2, item) <=> InLeaf(T, h, item)
  BY DEF CollapseParts, InLeaf

LEMMA EraseReturnShape ==
    ASSUME NEW h, Shape(h), EraseReturn
    PROVE  (\E h2 : Shape(h2)') /\ DOMAIN nodes' \subseteq DOMAIN nodes
  <1>1. PICK T, N, root, c : /\ T = nodes /\ N = nodes' /\ root = rootNodeId
                             /\ c = T[root].items[1].nodeId
    OBVIOUS
  <1>2. running = "erase" /\ breadcrumbs = <<>> /\ Return
    BY DEF EraseReturn
  <1>3. current = 0 /\ ahead = T
    BY <1>1, <1>2 DEF current, ahead
  <1>4. /\ Structure(T, h, 0) /\ Exact(T, 0) /\ Stored(T, h)
        /\ \A item \in Items : item \in contents <=> InLeaf(T, h, item)
        /\ IF pending THEN DOMAIN T = {} ELSE Rooted(T, h, root)
    BY <1>1, <1>2, <1>3 DEF Shape, Erasing
  <1>5. /\ running' = "none" /\ breadcrumbs' = <<>> /\ oldNew' = 0 /\ newKey' = NoKey
        /\ ~pending' /\ ~neighbourRefreshNeeded' /\ contents' = contents
    BY <1>2 DEF Return
  <1>6. CASE pending
    <2>1. N = T /\ rootNodeId' = 0
      BY <1>1, <1>6 DEF EraseReturn
    <2>2. Shape(h)'
      BY <1>1, <1>4, <1>5, <1>6, <2>1, SoundShape
    <2> QED
      BY <1>1, <2>1, <2>2
  <1>7. CASE ~pending /\ ~(Len(T[root].items) = 1 /\ c # 0)
    <2>1. N = T /\ rootNodeId' = root
      BY <1>1, <1>7 DEF EraseReturn
    <2>2. root # 0
      BY <1>4, <1>7 DEF Rooted, Stored
    <2>3. Shape(h)'
      BY <1>1, <1>4, <1>5, <1>7, <2>1, <2>2, SoundShape
    <2> QED
      BY <1>1, <2>1, <2>3
  <1>8. CASE ~pending /\ Len(T[root].items) = 1 /\ c # 0
    <2>1. N = deleteNode(T, root) /\ rootNodeId' = c
      BY <1>1, <1>8 DEF EraseReturn
    <2>2. PICK h2 : LevelLeft(N, h, h2)
      BY DEF LevelLeft
    <2>3. Collapse(T, N, h, h2, root, c)
      BY <1>1, <1>4, <1>8, <2>1, <2>2 DEF Collapse, Sound
    <2>4. Rooted(N, h2, c) /\ Exact(N, 0) /\ CollapseParts(T, N, h, h2, root, c)
      BY <2>3, CollapseRooted, CollapseExact, CollapseIs
    <2>5. Structure(N, h2, 0)
      BY <2>4, CollapseStructure
    <2>6. Stored(N, h2) /\ DOMAIN N \subseteq DOMAIN T
      BY <2>4 DEF CollapseParts
    <2>7. \A item \in Items : item \in contents' <=> InLeaf(N, h2, item)
      BY <1>4, <1>5, <2>4, CollapseLeaves
    <2>8. IF rootNodeId' = 0 THEN DOMAIN N = {} ELSE Rooted(N, h2, rootNodeId')
      BY <1>8, <2>1, <2>4
    <2>9. nodes' = N
      BY <1>1
    <2>10. Shape(h2)'
      BY <1>5, <2>4, <2>5, <2>6, <2>7, <2>8, <2>9, SoundShape
    <2> QED
      BY <1>1, <2>6, <2>10
  <1> QED
    BY <1>6, <1>7, <1>8

-----------------------------------------------------------------------------
(* The invariant of the tree.                                              *)
TreeTypes ==
    /\ nextNodeId \in Nat \ {0}
    /\ DOMAIN nodes \subseteq 1 .. nextNodeId - 1
    /\ contents \subseteq Items
    /\ load \in Seq(Items)
    /\ running \in {"none", "insert", "erase"}
    /\ pending \in BOOLEAN
    /\ breadcrumbs \in Seq(CrumbType)
LEMMA TreeInvIs == TreeInv <=> TreeTypes /\ \E h : Shape(h)
  BY DEF TreeInv, TreeTypes, CrumbType

LEMMA TreeInvNext ==
    ASSUME TreeTypes', \E h : Shape(h)'
    PROVE  TreeInv'
  BY DEF TreeInv, TreeTypes, CrumbType

LEMMA FirstTree == Init => TreeInv
  <1> SUFFICES ASSUME Init
               PROVE  TreeInv
    OBVIOUS
  <1>1. /\ nodes = <<>> /\ rootNodeId = 0 /\ nextNodeId = 1
        /\ running = "none" /\ oldNew = 0 /\ breadcrumbs = <<>>
        /\ newKey = NoKey /\ pending = FALSE
        /\ neighbourRefreshNeeded = FALSE
        /\ contents = {} /\ load \in Loads
    BY DEF Init
  <1>2. DOMAIN nodes = {} /\ nodes = [a \in {} |-> a]
    BY <1>1
  <1>3. TreeTypes
    <2>1. load \in Seq(Items)
      BY <1>1, ItemsAssumption
    <2>2. breadcrumbs \in Seq(CrumbType)
      BY <1>1
    <2>3. nextNodeId \in Nat \ {0} /\ DOMAIN nodes \subseteq 1 .. nextNodeId - 1
      BY <1>1, <1>2
    <2> QED
      BY <1>1, <2>1, <2>2, <2>3 DEF TreeTypes
  <1>4. current = 0 /\ ahead = nodes
    BY <1>1 DEF current, ahead
  <1>5. Stored(nodes, nodes)
    <2>1. nodes \in [{} -> NodeType] /\ nodes \in [{} -> Nat]
      BY <1>2
    <2> QED
      BY <1>2, <2>1 DEF Stored
  <1>6. Structure(nodes, nodes, 0)
    BY <1>2, <1>5 DEF Structure, OneParent
  <1>7. Exact(nodes, 0)
    BY <1>2 DEF Exact
  <1>8. \A item \in Items : item \in contents <=> InLeaf(nodes, nodes, item)
    BY <1>1, <1>2 DEF InLeaf
  <1>9. AtRest(nodes)
    BY <1>1, <1>2 DEF AtRest
  <1>10. Shape(nodes)
    BY <1>1, <1>4, <1>5, <1>6, <1>7, <1>8, <1>9 DEF Shape
  <1> QED
    BY <1>3, <1>10, TreeInvIs

(* Ids are new. *)
LEMMA OneMore ==
    ASSUME NEW D, NEW n \in Nat \ {0}, D \subseteq 1 .. n - 1
    PROVE  /\ n + 1 \in Nat \ {0}
           /\ D \cup {n} \subseteq 1 .. (n + 1) - 1
           /\ D \subseteq 1 .. (n + 1) - 1
  OBVIOUS

LEMMA InsertTree ==
    ASSUME TreeInv, NEW item \in Items, Insert(item), load' \in Seq(Items)
    PROVE  TreeInv'
  <1>1. TreeTypes
    BY TreeInvIs
  <1>2. PICK h : Shape(h)
    BY TreeInvIs
  <1>3. Idle /\ contents' = contents \cup {item}
    BY DEF Insert
  <1>4. contents' \subseteq Items
    BY <1>1, <1>3 DEF TreeTypes
  <1>5. CASE rootNodeId = 0
    <2>1. /\ nodes' = refill(makeNode(nodes), nextNodeId, <<Key(item, 0)>>)
          /\ rootNodeId' = nextNodeId /\ nextNodeId' = nextNodeId + 1
          /\ UNCHANGED callVars
      BY <1>5 DEF Insert
    <2>2. \E h2 : Shape(h2)'
      BY <1>1, <1>2, <1>3, <1>5, <2>1, InsertFirstShape DEF TreeTypes
    <2>3. DOMAIN nodes' = DOMAIN nodes \cup {nextNodeId}
      BY <2>1 DEF refill, makeNode
    <2>4. /\ running' = running /\ pending' = pending /\ breadcrumbs' = breadcrumbs
      BY <2>1 DEF callVars
    <2>5. TreeTypes'
      BY <1>1, <1>4, <2>1, <2>3, <2>4, OneMore DEF TreeTypes
    <2> QED
      BY <2>2, <2>5, TreeInvNext
  <1>6. CASE rootNodeId # 0
    <2>1. /\ ~found(searchItem(item), item)
          /\ Begin("insert", item) /\ newKey' = Key(item, 0) /\ UNCHANGED treeVars
      BY <1>6 DEF Insert
    <2>2. Shape(h)' /\ breadcrumbs' \in Seq(CrumbType)
      BY <1>2, <1>3, <1>6, <2>1, BeginInsertShape
    <2>3. running' = "insert" /\ pending' = TRUE /\ nodes' = nodes /\ nextNodeId' = nextNodeId
      BY <2>1 DEF Begin, treeVars
    <2>4. TreeTypes'
      BY <1>1, <1>4, <2>2, <2>3 DEF TreeTypes
    <2> QED
      BY <2>2, <2>4, TreeInvNext
  <1> QED
    BY <1>5, <1>6

LEMMA EraseTree ==
    ASSUME TreeInv, NEW item \in Items, Erase(item), load' \in Seq(Items)
    PROVE  TreeInv'
  <1>1. TreeTypes
    BY TreeInvIs
  <1>2. PICK h : Shape(h)
    BY TreeInvIs
  <1>3. /\ Idle /\ rootNodeId # 0 /\ found(searchItem(item), item)
        /\ Begin("erase", item) /\ newKey' = NoKey /\ contents' = contents \ {item}
        /\ UNCHANGED treeVars
    BY DEF Erase
  <1>4. Shape(h)' /\ breadcrumbs' \in Seq(CrumbType)
    BY <1>2, <1>3, BeginEraseShape
  <1>5. running' = "erase" /\ pending' = TRUE /\ nodes' = nodes /\ nextNodeId' = nextNodeId
    BY <1>3 DEF Begin, treeVars
  <1>6. TreeTypes'
    BY <1>1, <1>3, <1>4, <1>5 DEF TreeTypes
  <1> QED
    BY <1>4, <1>6, TreeInvNext

LEMMA ReturnTypes ==
    ASSUME TreeTypes, Return, DOMAIN nodes' \subseteq 1 .. nextNodeId' - 1,
           nextNodeId' \in Nat \ {0}
    PROVE  TreeTypes'
  <1>1. /\ running' = "none" /\ breadcrumbs' = <<>> /\ pending' = FALSE
        /\ contents' = contents /\ load' = load
    BY DEF Return
  <1>2. breadcrumbs' \in Seq(CrumbType)
    BY <1>1
  <1> QED
    BY <1>1, <1>2 DEF TreeTypes

LEMMA InsertStepTree ==
    ASSUME TreeInv,
           InsertUpdate \/ InsertMerge \/ InsertSplit \/ InsertNewRoot \/ InsertReturn
    PROVE  TreeInv'
  <1>1. TreeTypes
    BY TreeInvIs
  <1>2. PICK h : Shape(h)
    BY TreeInvIs
  <1>3. breadcrumbs \in Seq(CrumbType) /\ nextNodeId \in Nat \ {0}
        /\ DOMAIN nodes \subseteq 1 .. nextNodeId - 1
    BY <1>1 DEF TreeTypes
  <1>4. CASE InsertUpdate
    <2>1. Shape(h)' /\ breadcrumbs' \in Seq(CrumbType)
      BY <1>2, <1>3, <1>4, InsertUpdateShape
    <2>2. DOMAIN nodes' = DOMAIN nodes
      BY <1>4 DEF InsertUpdate, refreshIndex, addToNode
    <2>3. UNCHANGED <<nextNodeId, contents, load, running, pending>>
      BY <1>4 DEF InsertUpdate
    <2>4. TreeTypes'
      BY <1>1, <2>1, <2>2, <2>3 DEF TreeTypes
    <2> QED
      BY <2>1, <2>4, TreeInvNext
  <1>5. CASE InsertMerge
    <2>1. Shape(h)' /\ breadcrumbs' \in Seq(CrumbType)
      BY SMTT(30), <1>2, <1>3, <1>5, InsertMergeShape
    <2>2. DOMAIN nodes' = DOMAIN nodes
      BY <1>5 DEF InsertMerge, refreshIndex, addToNode
    <2>3. pending' = FALSE /\ UNCHANGED <<nextNodeId, contents, load, running>>
      BY <1>5 DEF InsertMerge
    <2>4. TreeTypes'
      BY <1>1, <2>1, <2>2, <2>3 DEF TreeTypes
    <2> QED
      BY <2>1, <2>4, TreeInvNext
  <1>6. CASE InsertSplit
    <2>1. /\ \E h2 : Shape(h2)'
          /\ breadcrumbs' \in Seq(CrumbType) /\ DOMAIN nodes' = DOMAIN nodes \cup {nextNodeId}
      BY <1>2, <1>3, <1>6, InsertSplitShape
    <2>2. nextNodeId' = nextNodeId + 1 /\ UNCHANGED <<contents, load, running, pending>>
      BY <1>6 DEF InsertSplit
    <2>3. TreeTypes'
      BY <1>1, <2>1, <2>2, OneMore DEF TreeTypes
    <2> QED
      BY <2>1, <2>3, TreeInvNext
  <1>7. CASE InsertNewRoot
    <2>1. (\E h2 : Shape(h2)') /\ DOMAIN nodes' = DOMAIN nodes \cup {nextNodeId}
      BY <1>2, <1>3, <1>7, InsertNewRootShape
    <2>2. nextNodeId' = nextNodeId + 1 /\ Return
      BY <1>7 DEF InsertNewRoot
    <2>3. TreeTypes'
      BY <1>1, <1>3, <2>1, <2>2, OneMore, ReturnTypes
    <2> QED
      BY <2>1, <2>3, TreeInvNext
  <1>8. CASE InsertReturn
    <2>1. Shape(h)'
      BY <1>2, <1>8, InsertReturnShape
    <2>2. Return /\ nodes' = nodes /\ nextNodeId' = nextNodeId
      BY <1>8 DEF InsertReturn, treeVars
    <2>3. TreeTypes'
      BY <1>1, <1>3, <2>2, ReturnTypes
    <2> QED
      BY <2>1, <2>3, TreeInvNext
  <1> QED
    BY <1>4, <1>5, <1>6, <1>7, <1>8

LEMMA EraseStepTree ==
    ASSUME TreeInv, EraseStep \/ EraseReturn
    PROVE  TreeInv'
  <1>1. TreeTypes
    BY TreeInvIs
  <1>2. PICK h : Shape(h)
    BY TreeInvIs
  <1>3. breadcrumbs \in Seq(CrumbType) /\ nextNodeId \in Nat \ {0}
        /\ DOMAIN nodes \subseteq 1 .. nextNodeId - 1
    BY <1>1 DEF TreeTypes
  <1>4. CASE EraseStep
    <2>1. /\ \E h2 : Shape(h2)'
          /\ breadcrumbs' \in Seq(CrumbType) /\ DOMAIN nodes' \subseteq DOMAIN nodes
          /\ pending' \in BOOLEAN
      BY <1>2, <1>3, <1>4, EraseStepShape
    <2>2. UNCHANGED <<nextNodeId, contents, load, running>>
      BY <1>4 DEF EraseStep, EraseTurn
    <2>3. TreeTypes'
      BY <1>1, <2>1, <2>2 DEF TreeTypes
    <2> QED
      BY <2>1, <2>3, TreeInvNext
  <1>5. CASE EraseReturn
    <2>1. (\E h2 : Shape(h2)') /\ DOMAIN nodes' \subseteq DOMAIN nodes
      BY <1>2, <1>5, EraseReturnShape
    <2>2. Return /\ nextNodeId' = nextNodeId
      BY <1>5 DEF EraseReturn
    <2>3. TreeTypes'
      BY <1>1, <1>3, <2>1, <2>2, ReturnTypes
    <2> QED
      BY <2>1, <2>3, TreeInvNext
  <1> QED
    BY <1>4, <1>5

LEMMA StutterTree ==
    ASSUME TreeInv, UNCHANGED vars
    PROVE  TreeInv'
  <1>1. /\ nodes' = nodes /\ rootNodeId' = rootNodeId /\ nextNodeId' = nextNodeId
        /\ running' = running /\ oldNew' = oldNew /\ breadcrumbs' = breadcrumbs
        /\ newKey' = newKey /\ pending' = pending
        /\ neighbourRefreshNeeded' = neighbourRefreshNeeded
        /\ contents' = contents /\ load' = load
    BY DEF vars, treeVars, callVars
  <1>2. TreeTypes
    BY TreeInvIs
  <1>3. PICK h : Shape(h)
    BY TreeInvIs
  <1>4. TreeTypes'
    BY <1>1, <1>2 DEF TreeTypes
  <1>5. Crumb' = Crumb /\ current' = current
    BY <1>1 DEF Crumb, current
  <1>6. keysAhead' = keysAhead
    BY <1>1, <1>5 DEF keysAhead
  <1>7. ahead' = ahead
    BY <1>1, <1>5, <1>6 DEF ahead
  <1>8. AtRest(h) => AtRest(h)'
    BY <1>1 DEF AtRest
  <1>9. Inserting(h) => Inserting(h)'
    <2>1. PathFrom(rootNodeId, h) => PathFrom(rootNodeId, h)'
      BY <1>1 DEF PathFrom
    <2>2. InsertPath(h) => InsertPath(h)'
      BY <1>1 DEF InsertPath
    <2>3. InsertCurrent(h) => InsertCurrent(h)'
      BY <1>1, <1>5, <1>6 DEF InsertCurrent, TotalsOff
    <2> QED
      BY <1>1, <1>5, <1>7, <2>1, <2>2, <2>3 DEF Inserting
  <1>10. Erasing(h) => Erasing(h)'
    <2>1. PathFrom(rootNodeId, h) => PathFrom(rootNodeId, h)'
      BY <1>1 DEF PathFrom
    <2>2. EraseCurrent => EraseCurrent'
      BY <1>1, <1>5, <1>6 DEF EraseCurrent, TotalsOff
    <2> QED
      BY <1>1, <1>5, <1>7, <2>1, <2>2 DEF Erasing
  <1>11. Shape(h)'
    BY <1>1, <1>3, <1>5, <1>7, <1>8, <1>9, <1>10 DEF Shape
  <1> QED
    BY <1>4, <1>11, TreeInvNext

LEMMA NextTree ==
    ASSUME TreeInv, [Next]_vars
    PROVE  TreeInv'
  <1>1. load \in Seq(Items)
    BY DEF TreeInv
  <1>2. CASE LoadNext
    <2>1. Head(load) \in Items /\ load' \in Seq(Items)
      BY <1>1, <1>2 DEF LoadNext
    <2> QED
      BY <1>2, <2>1, InsertTree, EraseTree DEF LoadNext
  <1>3. CASE Operate
    <2>1. load' \in Seq(Items)
      BY <1>1, <1>3 DEF Operate
    <2> QED
      BY <1>3, <2>1, InsertTree, EraseTree DEF Operate
  <1>4. CASE Rest
    BY <1>4, StutterTree DEF Rest
  <1>5. CASE UNCHANGED vars
    BY <1>5, StutterTree
  <1> QED
    BY <1>2, <1>3, <1>4, <1>5, InsertStepTree, EraseStepTree DEF Next

(* Whatever is inserted and erased, the tree has the shape of TreeInv, in   *)
(* the middle of a call as well as between two of them. *)
THEOREM TreeStays == Spec => []TreeInv
  <1>1. Init => TreeInv
    BY FirstTree
  <1>2. TreeInv /\ [Next]_vars => TreeInv'
    BY NextTree
  <1> QED
    BY <1>1, <1>2, PTL DEF Spec

-----------------------------------------------------------------------------
(* Between two calls the key of a child is its first item, and the totals   *)
(* of a node are those of its children: insertItem and eraseItem bring      *)
(* every level above a change up to date. *)
THEOREM KeysAndTotalsStay == Spec => []KeysAndTotals
  <1>1. TreeInv => KeysAndTotals
    <2> SUFFICES ASSUME TreeInv, Idle, NEW id \in DOMAIN nodes
                 PROVE  /\ \A key \in ToSet(keysOf(id)) :
                              key.nodeId # 0 => key.item = firstItem(nodes, key.nodeId)
                        /\ nodes[id].accumCount = countOfAll(nodes, keysOf(id))
                        /\ nodes[id].accum = accumOfAll(nodes, keysOf(id))
      BY DEF KeysAndTotals
    <2>1. PICK h : Shape(h)
      BY TreeInvIs
    <2>2. current = 0 /\ Exact(nodes, current) /\ Stored(nodes, h)
      BY <2>1, SoundAtRest DEF Shape
    <2>3. id # 0
      BY <2>2 DEF Stored
    <2>4. /\ KeysFirst(nodes, nodes[id].items, {})
          /\ nodes[id].accumCount = countOfAll(nodes, nodes[id].items)
          /\ nodes[id].accum = accumOfAll(nodes, nodes[id].items)
      BY <2>2, <2>3 DEF Exact
    <2>5. ASSUME NEW key \in ToSet(nodes[id].items), key.nodeId # 0
          PROVE  key.item = firstItem(nodes, key.nodeId)
      <3>1. PICK i \in DOMAIN nodes[id].items : nodes[id].items[i] = key
        BY <2>5 DEF ToSet
      <3> QED
        BY <3>1, <2>4, <2>5 DEF KeysFirst
    <2> QED
      BY <2>4, <2>5 DEF keysOf
  <1> QED
    BY <1>1, TreeStays, PTL

(* The search finds an item exactly if a leaf has it. *)
LEMMA FoundInLeaf ==
    ASSUME NEW h, Sound(nodes, h, rootNodeId), NEW item \in Nat,
           found(searchItem(item), item)
    PROVE  InLeaf(nodes, h, item)
  <1>1. PICK s : s = searchItem(item)
    OBVIOUS
  <1>2. CrumbsFrom(s, rootNodeId, h, item)
    BY <1>1, SearchCrumbs
  <1>3. s \in Seq(CrumbType)
    BY <1>2, CrumbsPath
  <1>4. PICK c \in ToSet(s) : nodes[c.nodeId].items[c.index + 1].item = item
    BY <1>1 DEF found
  <1>5. PICK m \in DOMAIN s : c = s[m]
    BY <1>4 DEF ToSet
  <1>6. m \in 1 .. Len(s)
    BY <1>3, <1>5
  <1>7. CrumbAt(s, m, h, h[rootNodeId], item)
    BY <1>2, <1>6 DEF CrumbsFrom
  <1>8. c.nodeId \in DOMAIN nodes /\ SoundNode(nodes, h, c.nodeId)
    BY <1>5, <1>7, NodeOfSound DEF CrumbAt
  <1>9. c.index + 1 \in 1 .. Len(nodes[c.nodeId].items)
    BY <1>5, <1>7, <1>8 DEF CrumbAt, Pointed, SoundNode
  <1> QED
    BY <1>4, <1>8, <1>9, KeyInLeaf

LEMMA InLeafFound ==
    ASSUME NEW h, Sound(nodes, h, rootNodeId), NEW item \in Nat, InLeaf(nodes, h, item)
    PROVE  found(searchItem(item), item)
  <1>1. PICK s : s = searchItem(item)
    OBVIOUS
  <1>2. CrumbsFrom(s, rootNodeId, h, item)
    BY <1>1, SearchCrumbs
  <1>3. PICK a, i : /\ a \in DOMAIN nodes /\ h[a] = 0
                    /\ i \in DOMAIN nodes[a].items /\ nodes[a].items[i].item = item
    BY DEF InLeaf
  <1>4. SoundNode(nodes, h, a)
    BY <1>3, NodeOfSound
  <1>5. i \in 1 .. Len(nodes[a].items)
    BY <1>3, <1>4 DEF SoundNode
  <1>6. Within(nodes, a, item) /\ Pointed(nodes[a].items, item, i - 1)
    BY <1>3, <1>5, LeafWithin
  <1>7. PICK n \in 1 .. Len(s) : s[n].nodeId = a
    BY <1>2, <1>3, <1>6, SearchMeets
  <1>8. CrumbAt(s, n, h, h[rootNodeId], item)
    BY <1>2, <1>7 DEF CrumbsFrom
  <1>9. Pointed(nodes[a].items, item, s[n].index)
    BY <1>7, <1>8 DEF CrumbAt
  <1>10. i - 1 = s[n].index
    BY <1>4, <1>6, <1>9, OnePointed DEF SoundNode
  <1>11. s \in Seq(CrumbType)
    BY <1>2, CrumbsPath
  <1>12. s[n] \in CrumbType /\ n \in DOMAIN s
    BY <1>7, <1>11
  <1>13. s[n].index + 1 = i
    BY <1>5, <1>10, <1>12 DEF CrumbType
  <1>14. nodes[s[n].nodeId].items[s[n].index + 1].item = item
    BY <1>3, <1>7, <1>13
  <1>15. s[n] \in ToSet(s)
    BY <1>12 DEF ToSet
  <1> QED
    BY <1>1, <1>14, <1>15 DEF found

(* So between two calls the search finds the contents. *)
LEMMA TreeSearchFinds ==
    ASSUME TreeInv
    PROVE  SearchFinds
  <1> SUFFICES ASSUME Idle, rootNodeId # 0, NEW item \in Items
               PROVE  found(searchItem(item), item) <=> item \in contents
    BY DEF SearchFinds
  <1>1. PICK h : Shape(h)
    BY TreeInvIs
  <1>2. /\ Sound(nodes, h, rootNodeId)
        /\ \A x \in Items : x \in contents <=> InLeaf(nodes, h, x)
    BY <1>1, SoundAtRest
  <1>3. item \in Nat
    BY ItemsAssumption
  <1>4. found(searchItem(item), item) <=> InLeaf(nodes, h, item)
    BY <1>2, <1>3, FoundInLeaf, InLeafFound
  <1> QED
    BY <1>2, <1>4

(* insert() and erase() see of every item whether it is there: along the    *)
(* keys of the tree the search finds exactly the contents. *)
THEOREM SearchFindsStay == Spec => []SearchFinds
  <1>1. TreeInv => SearchFinds
    BY TreeSearchFinds
  <1> QED
    BY <1>1, TreeStays, PTL

-----------------------------------------------------------------------------
(* Type correctness.  An id is one that was given out; of the ids there    *)
(* are, the nodes of two can be gone: that of the root, when the call has  *)
(* deleted it, and that of the key which the node above is about to lose.  *)
ErasedId ==
    running = "erase" /\ pending /\ breadcrumbs # <<>> =>
        nodes[Crumb.nodeId].items[Crumb.index + 1].nodeId \in NodeIds \cup {0}

TypeInv ==
    /\ TreeInv
    /\ rootNodeId \in NodeIds \cup {0}
    /\ neighbourRefreshNeeded \in BOOLEAN
    /\ newKey \in [item : Nat, nodeId : Nat]
    /\ ErasedId

(* The structure gives the ids of the keys ahead. *)
IdsOf(keys) ==
    \A i \in DOMAIN keys : keys[i].item \in Items /\ keys[i].nodeId \in NodeIds \cup {0}

LEMMA AheadIds ==
    ASSUME NEW T, NEW h, NEW p, Structure(T, h, p), DOMAIN T \subseteq NodeIds,
           NEW id \in DOMAIN T
    PROVE  /\ IdsOf(T[id].items)
           /\ T[id].nextSibling \in NodeIds \cup {0}
           /\ T[id].prevSibling \in NodeIds \cup {0}
  <1>1. Stored(T, h) /\ LevelsAt(T, h, id) /\ LinkedAt(T, h, id)
    BY DEF Structure
  <1>2. \A i \in DOMAIN T[id].items :
           T[id].items[i].nodeId = 0 \/ T[id].items[i].nodeId \in DOMAIN T
    BY <1>1 DEF LevelsAt
  <1>3. /\ T[id].items \in Seq(KeyType)
        /\ \A i \in DOMAIN T[id].items : T[id].items[i] \in KeyType
    <2>1. /\ T[id].items \in Seq(KeyType)
          /\ DOMAIN T[id].items = 1 .. Len(T[id].items)
          /\ \A i \in 1 .. Len(T[id].items) : T[id].items[i] \in KeyType
      BY <1>1, NodeFacts
    <2> QED
      BY <2>1
  <1>4. IdsOf(T[id].items)
    BY <1>2, <1>3 DEF IdsOf, KeyType
  <1> QED
    BY <1>1, <1>4 DEF LinkedAt

(* The keys of the node of the call. *)
LEMMA ShapeDomain ==
    ASSUME NEW h, Shape(h)
    PROVE  DOMAIN ahead = DOMAIN nodes
  BY DEF ahead

(* A key is merged in somewhere. *)
LEMMA PlaceThere ==
    ASSUME NEW keys \in Seq(KeyType), NEW key \in [item : Nat, nodeId : Nat]
    PROVE  placeOf(keys, key) \in 1 .. Len(keys) + 1
  <1>0. Len(keys) \in Nat /\ key.item \in Nat /\ \A n \in 1 .. Len(keys) : keys[n].item \in Nat
    BY LenProperties, KeyParts
  <1> DEFINE T == {m \in Nat : m >= 1 /\ m <= Len(keys) + 1 /\ (m <= Len(keys) => key.item < keys[m].item)}
  <1>1. Len(keys) + 1 \in T
    BY <1>0
  <1>2. PICK m \in T : \A k \in T : m <= k
    BY <1>1, LeastNumber
  <1>3. m \in 1 .. Len(keys) + 1 /\ (m <= Len(keys) => key.item < keys[m].item)
    BY <1>0, <1>2
  <1>4. ASSUME NEW j \in 1 .. m - 1
        PROVE  keys[j].item <= key.item
    <2>1. j \in Nat /\ j >= 1 /\ j < m /\ j <= Len(keys) /\ j \in 1 .. Len(keys)
      BY <1>0, <1>3
    <2>2. j \notin T
      <3>1. m \in Nat /\ ~(m <= j)
        BY <1>3, <2>1
      <3> QED
        BY <1>2, <3>1
    <2>3. ~(key.item < keys[j].item)
      BY <1>0, <2>1, <2>2
    <2> QED
      BY <1>0, <2>1, <2>3
  <1> HIDE DEF T
  <1>5. \E i \in 1 .. Len(keys) + 1 :
           /\ \A j \in 1 .. i - 1 : keys[j].item <= key.item
           /\ i <= Len(keys) => key.item < keys[i].item
    BY <1>3, <1>4
  <1> QED
    BY <1>5 DEF placeOf

(* The keys of a node are among those it is about to have, but for the one *)
(* it is about to lose. *)
LEMMA KeysMerged ==
    ASSUME NEW keys \in Seq(KeyType), NEW key \in [item : Nat, nodeId : Nat],
           IdsOf(withKey(keys, key))
    PROVE  IdsOf(keys)
  <1>1. PICK n, k, t : n = Len(keys) /\ k = placeOf(keys, key) /\ t = withKey(keys, key)
    OBVIOUS
  <1>2. n \in Nat /\ k \in 1 .. n + 1
    BY <1>1, LenProperties, PlaceThere
  <1>3. keys \in Seq(KeyType \cup {key})
    BY SMT
  <1>4. Inserted(KeyType \cup {key}, keys, k, key, t)
    BY <1>1, <1>2, <1>3, InsertAtIs DEF withKey
  <1>5. /\ t \in Seq(KeyType \cup {key}) /\ Len(t) = n + 1
        /\ \A j \in 1 .. k - 1 : t[j] = keys[j]
        /\ \A j \in k .. n : t[j + 1] = keys[j]
    BY <1>1, <1>4 DEF Inserted
  <1>6. ASSUME NEW i \in DOMAIN keys
        PROVE  \E j \in DOMAIN t : t[j] = keys[i]
    <2>1. i \in 1 .. n /\ DOMAIN t = 1 .. n + 1
      BY <1>1, <1>5
    <2>2. CASE i < k
      <3>1. i \in 1 .. k - 1 /\ i \in 1 .. n + 1
        BY <1>2, <2>1, <2>2
      <3> QED
        BY <1>5, <2>1, <3>1
    <2>3. CASE ~(i < k)
      <3>1. i \in k .. n /\ i + 1 \in 1 .. n + 1
        BY <1>2, <2>1, <2>3
      <3> QED
        BY <1>5, <2>1, <3>1
    <2> QED
      BY <2>2, <2>3
  <1> QED
    BY <1>1, <1>6 DEF IdsOf

LEMMA KeysRemoved ==
    ASSUME NEW keys \in Seq(KeyType), NEW i \in 1 .. Len(keys),
           IdsOf(RemoveAt(keys, i)), keys[i].nodeId \in NodeIds \cup {0}
    PROVE  IdsOf(keys)
  <1>1. PICK n, t : n = Len(keys) /\ t = RemoveAt(keys, i)
    OBVIOUS
  <1>2. Removed(KeyType, keys, i, t)
    BY <1>1, RemoveAtIs
  <1>3. /\ t \in Seq(KeyType) /\ Len(t) = n - 1
        /\ \A j \in 1 .. i - 1 : t[j] = keys[j]
        /\ \A j \in i .. Len(t) : t[j] = keys[j + 1]
    BY <1>1, <1>2 DEF Removed
  <1>4. n \in Nat /\ i \in 1 .. n
    BY <1>1, LenProperties
  <1>5. ASSUME NEW k \in DOMAIN keys, k # i
        PROVE  \E j \in DOMAIN t : t[j] = keys[k]
    <2>1. k \in 1 .. n /\ DOMAIN t = 1 .. n - 1
      BY <1>1, <1>3
    <2>2. CASE k < i
      <3>1. k \in 1 .. i - 1 /\ k \in 1 .. n - 1
        BY <1>4, <2>1, <2>2
      <3> QED
        BY <1>3, <2>1, <3>1
    <2>3. CASE ~(k < i)
      <3>1. k - 1 \in i .. n - 1 /\ k - 1 \in 1 .. n - 1 /\ (k - 1) + 1 = k
        BY <1>4, <1>5, <2>1, <2>3
      <3> QED
        BY <1>3, <2>1, <3>1
    <2> QED
      BY <2>2, <2>3
  <1>6. ASSUME NEW k \in DOMAIN keys
        PROVE  keys[k].item \in Items /\ keys[k].nodeId \in NodeIds \cup {0}
    <2>1. k \in 1 .. Len(keys)
      BY SMT
    <2>2. keys[k].item \in Items
      <3>1. keys[k] \in KeyType
        BY <2>1, ElementOfSeq
      <3> QED
        BY <3>1 DEF KeyType
    <2>3. CASE k = i
      BY <2>2, <2>3
    <2>4. CASE k # i
      BY <1>1, <1>5, <2>4 DEF IdsOf
    <2> QED
      BY <2>3, <2>4
  <1> QED
    BY <1>6 DEF IdsOf

LEMMA NodesIds ==
    ASSUME TypeInv, NEW id \in DOMAIN nodes
    PROVE  /\ IdsOf(nodes[id].items)
           /\ nodes[id].nextSibling \in NodeIds \cup {0}
           /\ nodes[id].prevSibling \in NodeIds \cup {0}
  <1>1. PICK h : Shape(h)
    BY TreeInvIs DEF TypeInv
  <1>2. TreeTypes
    BY TreeInvIs DEF TypeInv
  <1>3. PICK A, T : A = ahead /\ T = nodes
    OBVIOUS
  <1>4. DOMAIN A = DOMAIN T /\ DOMAIN T \subseteq NodeIds /\ id \in DOMAIN T
    BY <1>1, <1>2, <1>3, ShapeDomain DEF TreeTypes, NodeIds
  <1>5. Structure(A, h, current) /\ Stored(T, h)
    BY <1>1, <1>3 DEF Shape
  <1>6. /\ IdsOf(A[id].items)
        /\ A[id].nextSibling \in NodeIds \cup {0}
        /\ A[id].prevSibling \in NodeIds \cup {0}
    BY <1>4, <1>5, AheadIds
  <1>7. CASE current = 0
    BY <1>3, <1>6, <1>7 DEF ahead
  <1>8. CASE current # 0
    <2>1. breadcrumbs # <<>> /\ breadcrumbs \in Seq(CrumbType)
      BY <1>2, <1>8 DEF current, TreeTypes
    <2>2. running = "insert" \/ running = "erase"
      BY <1>1, <1>2, <2>1 DEF Shape, AtRest, TreeTypes
    <2>3. PICK q, K : q = Crumb.nodeId /\ K = keysAhead
      OBVIOUS
    <2>4. Amid(h, q, K)
      BY <1>1, <2>1, <2>2, <2>3, AmidCall
    <2>5. Rekeyed(T, A, q, K) /\ current = q /\ q \in DOMAIN T
      BY <1>3, <2>4 DEF Amid
    <2>6. /\ A[id].nextSibling = T[id].nextSibling
          /\ A[id].prevSibling = T[id].prevSibling
          /\ id # q => A[id].items = T[id].items
          /\ A[q].items = K
      BY <1>4, <2>5 DEF Rekeyed
    <2>7. CASE id # q
      BY <1>3, <1>6, <2>6, <2>7
    <2>8. CASE id = q
      <3>1. IdsOf(K)
        BY <1>6, <2>6, <2>8
      <3>2. T[q].items \in Seq(KeyType)
        BY <1>5, <2>5, NodeFacts
      <3>3. CASE ~pending
        <4>1. K = T[q].items
          BY <1>3, <2>3, <2>5, <3>3 DEF keysAhead
        <4> QED
          BY <1>3, <1>6, <2>6, <2>8, <3>1, <4>1
      <3>4. CASE pending /\ running = "insert"
        <4>1. K = withKey(T[q].items, newKey) /\ newKey \in [item : Nat, nodeId : Nat]
          BY <1>3, <2>3, <2>5, <3>4 DEF keysAhead, TypeInv
        <4>2. IdsOf(T[q].items)
          BY <3>1, <3>2, <4>1, KeysMerged
        <4> QED
          BY <1>3, <1>6, <2>6, <2>8, <4>2
      <3>5. CASE pending /\ running = "erase"
        <4>1. K = RemoveAt(T[q].items, Crumb.index + 1)
          BY <1>3, <2>3, <2>5, <3>5 DEF keysAhead
        <4>2. PathFrom(rootNodeId, h)
          BY <1>1, <2>1, <3>5 DEF Shape, Erasing
        <4>3. Len(breadcrumbs) \in DOMAIN breadcrumbs /\ Crumb = breadcrumbs[Len(breadcrumbs)]
          BY <2>1 DEF Crumb, Last
        <4>4. Crumb.index \in Nat /\ Crumb.index < Len(T[q].items)
          BY <1>3, <2>3, <4>2, <4>3 DEF PathFrom
        <4>5. Len(T[q].items) \in Nat
          BY <3>2, LenProperties
        <4>6. Crumb.index + 1 \in 1 .. Len(T[q].items)
          BY ONLY <4>4, <4>5
        <4>7. T[q].items[Crumb.index + 1].nodeId \in NodeIds \cup {0}
          BY <1>3, <2>1, <2>3, <3>5 DEF TypeInv, ErasedId
        <4>8. IdsOf(T[q].items)
          BY <3>1, <3>2, <4>1, <4>6, <4>7, KeysRemoved
        <4> QED
          BY <1>3, <1>6, <2>6, <2>8, <4>8
      <3> QED
        BY <2>2, <3>3, <3>4, <3>5
    <2> QED
      BY <2>7, <2>8
  <1> QED
    BY <1>7, <1>8

(* The way of the call. *)
LEMMA CrumbIds ==
    ASSUME TreeInv, NEW c \in ToSet(breadcrumbs)
    PROVE  c.nodeId \in NodeIds /\ c.index \in 0 .. MAX_ITEMS
  <1>1. PICK h : Shape(h)
    BY TreeInvIs
  <1>2. TreeTypes
    BY TreeInvIs
  <1>3. PICK k \in DOMAIN breadcrumbs : breadcrumbs[k] = c
    BY DEF ToSet
  <1>4. breadcrumbs # <<>>
    BY <1>3
  <1>5. PathFrom(rootNodeId, h)
    BY <1>1, <1>2, <1>4 DEF Shape, AtRest, Inserting, Erasing, TreeTypes
  <1>6. /\ c.nodeId \in DOMAIN nodes
        /\ c.index \in Nat /\ c.index < Len(nodes[c.nodeId].items)
    BY <1>3, <1>5 DEF PathFrom
  <1>7. Len(nodes[c.nodeId].items) \in 1 .. MAX_ITEMS
    BY <1>1, <1>6 DEF Shape, Exact, Sized
  <1>8. c.index \in 0 .. MAX_ITEMS
    BY <1>6, <1>7, NodeSizeAssumption
  <1> QED
    BY <1>2, <1>6, <1>8 DEF TreeTypes, NodeIds

LEMMA TypeInvOK == TypeInv => TypeOK
  <1> SUFFICES ASSUME TypeInv
               PROVE  TypeOK
    OBVIOUS
  <1>1. TreeTypes /\ TreeInv
    BY TreeInvIs DEF TypeInv
  <1>2. ASSUME NEW id \in DOMAIN nodes
        PROVE  /\ \A key \in ToSet(keysOf(id)) :
                     key.item \in Items /\ key.nodeId \in NodeIds \cup {0}
               /\ nodes[id].nextSibling \in NodeIds \cup {0}
               /\ nodes[id].prevSibling \in NodeIds \cup {0}
               /\ nodes[id].accumCount \in Nat /\ nodes[id].accum \in Nat
    <2>1. PICK h : Shape(h)
      BY TreeInvIs DEF TypeInv
    <2>2. nodes[id].accumCount \in Nat /\ nodes[id].accum \in Nat
      BY <2>1, NodeFacts DEF Shape
    <2>3. /\ IdsOf(nodes[id].items)
          /\ nodes[id].nextSibling \in NodeIds \cup {0}
          /\ nodes[id].prevSibling \in NodeIds \cup {0}
      BY NodesIds
    <2>4. ASSUME NEW key \in ToSet(nodes[id].items)
          PROVE  key.item \in Items /\ key.nodeId \in NodeIds \cup {0}
      <3>1. PICK i \in DOMAIN nodes[id].items : nodes[id].items[i] = key
        BY DEF ToSet
      <3> QED
        BY <2>3, <3>1 DEF IdsOf
    <2> QED
      BY <2>2, <2>3, <2>4 DEF keysOf
  <1>3. \A c \in ToSet(breadcrumbs) : c.nodeId \in NodeIds /\ c.index \in 0 .. MAX_ITEMS
    BY <1>1, CrumbIds
  <1>4. DOMAIN nodes \subseteq NodeIds
    BY <1>1 DEF TreeTypes, NodeIds
  <1> QED
    BY <1>1, <1>2, <1>3, <1>4 DEF TypeOK, TreeTypes, TypeInv

-----------------------------------------------------------------------------
(* Every step keeps ids and types.                                         *)

LEMMA NoKeyIs == NoKey \in [item : Nat, nodeId : Nat]
  BY DEF NoKey, Key

LEMMA RestNext ==
    ASSUME TreeInv', running' # "erase"
    PROVE  rootNodeId' \in NodeIds' \cup {0}
  <1>1. PICK h : Shape(h)'
    BY DEF TreeInv
  <1>2. running' \in {"none", "insert", "erase"} /\ DOMAIN nodes' \subseteq NodeIds'
    BY DEF TreeInv, NodeIds
  <1>3. CASE running' = "none"
    <2>1. AtRest(h)'
      BY <1>1, <1>3 DEF Shape
    <2> QED
      BY <1>2, <2>1 DEF AtRest, Rooted
  <1>4. CASE running' = "insert"
    <2>1. Inserting(h)'
      BY <1>1, <1>4 DEF Shape
    <2> QED
      BY <1>2, <2>1 DEF Inserting
  <1> QED
    BY <1>2, <1>3, <1>4

LEMMA TypeInvRest ==
    ASSUME TreeInv', running' # "erase", newKey' \in [item : Nat, nodeId : Nat],
           neighbourRefreshNeeded' \in BOOLEAN
    PROVE  TypeInv'
  <1>1. rootNodeId' \in NodeIds' \cup {0}
    BY RestNext
  <1>2. ErasedId'
    BY DEF ErasedId
  <1> QED
    BY <1>1, <1>2 DEF TypeInv

(* The id of the key that an erasure is about to remove. *)
LEMMA ErasedBegins ==
    ASSUME TypeInv, NEW item \in Items, Erase(item), TreeInv'
    PROVE  ErasedId'
  <1>1. PICK h : Shape(h)'
    BY DEF TreeInv
  <1>2. /\ running' = "erase" /\ nodes' = nodes /\ nextNodeId' = nextNodeId
        /\ breadcrumbs' \in Seq([index : Nat, nodeId : Nat])
    BY DEF Erase, Begin, treeVars, TreeInv
  <1>3. PICK s, T : s = breadcrumbs' /\ T = nodes
    OBVIOUS
  <1>4. SUFFICES ASSUME s # <<>>
                 PROVE  T[Last(s).nodeId].items[Last(s).index + 1].nodeId
                            \in NodeIds \cup {0}
    BY <1>2, <1>3 DEF ErasedId, Crumb, NodeIds
  <1>5. PathFrom(rootNodeId, h)'
    BY <1>1, <1>2, <1>3, <1>4 DEF Shape, Erasing
  <1>6. Len(s) \in DOMAIN s /\ Last(s) = s[Len(s)]
    BY <1>2, <1>3, <1>4 DEF Last
  <1>7. PICK id, i : id = Last(s).nodeId /\ i = Last(s).index
    OBVIOUS
  <1>8. id \in DOMAIN T /\ i \in Nat /\ i < Len(T[id].items)
    BY <1>2, <1>3, <1>5, <1>6, <1>7 DEF PathFrom
  <1>9. IdsOf(T[id].items)
    BY <1>3, <1>8, NodesIds
  <1>10. T[id].items \in Seq(KeyType)
    <2>1. PICK g : Shape(g)
      BY TreeInvIs DEF TypeInv
    <2>2. Stored(T, g)
      BY <1>3, <2>1 DEF Shape
    <2> QED
      BY <1>8, <2>2, NodeFacts
  <1>11. i + 1 \in DOMAIN T[id].items
    <2>1. Len(T[id].items) \in Nat /\ DOMAIN T[id].items = 1 .. Len(T[id].items)
      BY <1>10, LenProperties
    <2> QED
      BY <1>8, <2>1
  <1> QED
    BY <1>7, <1>9, <1>11 DEF IdsOf

LEMMA ErasedGoesUp ==
    ASSUME TypeInv, EraseStep
    PROVE  ErasedId'
  <1>1. PICK h : Shape(h)
    BY TreeInvIs DEF TypeInv
  <1>2. TreeTypes
    BY TreeInvIs DEF TypeInv
  <1>3. /\ running = "erase" /\ breadcrumbs # <<>> /\ breadcrumbs \in Seq(CrumbType)
        /\ breadcrumbs' = Front(breadcrumbs) /\ nextNodeId' = nextNodeId
    BY <1>2 DEF EraseStep, EraseTurn, TreeTypes
  <1>4. AboveKept(nodes, nodes', h, Crumb.nodeId)
    BY <1>1, <1>3, EraseStepShape
  <1>5. PICK id, K, R, p, j : Turning(h, id, K, R, p, j)
    BY <1>1, <1>3, TurnBegins
  <1>6. /\ Amid(h, id, K) /\ id = Crumb.nodeId
        /\ AtTop(nodes, breadcrumbs, rootNodeId, h, id, p, j)
    BY <1>5 DEF Turning
  <1>7. IF p = 0 THEN breadcrumbs' = <<>>
        ELSE breadcrumbs' # <<>> /\ current' = p /\ Crumb'.index = j - 1
    BY <1>3, <1>6, StepUp
  <1>8. CASE p = 0
    BY <1>7, <1>8 DEF ErasedId
  <1>9. CASE p # 0
    <2>1. /\ id \in DOMAIN nodes /\ p \in DOMAIN nodes
          /\ h[p] = h[id] + 1 /\ j \in 1 .. Len(nodes[p].items)
          /\ nodes[p].items[j].nodeId = id
      BY <1>6, <1>9 DEF AtTop
    <2>2. h[id] \in Nat
      BY <1>1, <2>1 DEF Shape, Stored
    <2>3. nodes'[p].items = nodes[p].items
      BY <1>4, <1>6, <2>1, <2>2 DEF AboveKept
    <2>4. Crumb'.nodeId = p
      BY <1>7, <1>9 DEF current
    <2>5. (j - 1) + 1 = j
      BY <2>1
    <2>6. nodes'[Crumb'.nodeId].items[Crumb'.index + 1].nodeId = id
      BY <1>7, <1>9, <2>1, <2>3, <2>4, <2>5
    <2>7. id \in NodeIds'
      BY <1>2, <1>3, <2>1 DEF TreeTypes, NodeIds
    <2> QED
      BY <2>6, <2>7 DEF ErasedId
  <1> QED
    BY <1>8, <1>9

(* The key of a new node. *)
LEMMA SplitKey ==
    ASSUME TreeInv, InsertSplit, TreeInv'
    PROVE  newKey' \in [item : Nat, nodeId : Nat]
  <1>1. PICK h : Shape(h)
    BY TreeInvIs
  <1>2. TreeTypes
    BY TreeInvIs
  <1>3. PICK left, m, K, F : Split(h, left, nextNodeId, m, K, F)
    BY <1>1, <1>2, InsertSplits DEF TreeTypes
  <1>4. PICK right, N : right = nextNodeId /\ N = nodes'
    OBVIOUS
  <1>5. newKey' = Key(firstItem(N, right), right) /\ right \in DOMAIN N
    BY <1>3, <1>4 DEF Split, Splitting, Halved
  <1>6. PICK g : Shape(g)'
    BY DEF TreeInv
  <1>7. Stored(N, g) /\ Len(N[right].items) > 0
    <2>1. Stored(N, g) /\ Sized(N[right])
      BY <1>4, <1>5, <1>6 DEF Shape, Exact
    <2>2. Len(N[right].items) \in 1 .. MAX_ITEMS
      BY <2>1 DEF Sized
    <2> QED
      BY <2>1, <2>2, NodeSizeAssumption
  <1>8. N[right].items \in Seq(KeyType) /\ right \in Nat
    BY <1>2, <1>4, <1>5, <1>7, NodeFacts DEF TreeTypes
  <1>9. N[right].items[1] \in KeyType
    <2>1. 1 \in 1 .. Len(N[right].items)
      BY <1>7, <1>8, LenProperties
    <2> QED
      BY <1>8, <2>1, ElementOfSeq
  <1>10. firstItem(N, right) \in Nat
    BY <1>9, ItemsAssumption DEF firstItem, KeyType
  <1> QED
    BY <1>5, <1>8, <1>10 DEF Key

LEMMA BeginTypes ==
    ASSUME TypeInv, NEW item \in Items, Insert(item) \/ Erase(item), TreeInv'
    PROVE  TypeInv'
  <1>1. item \in Nat
    BY ItemsAssumption
  <1>2. CASE Insert(item)
    <2>1. /\ running = "none" /\ running' \in {"none", "insert"}
          /\ neighbourRefreshNeeded' \in {neighbourRefreshNeeded, FALSE}
          /\ newKey' \in {newKey, Key(item, 0)}
      BY <1>2 DEF Insert, Idle, Begin, callVars
    <2>2. newKey' \in [item : Nat, nodeId : Nat]
      BY <1>1, <2>1 DEF TypeInv, Key
    <2> QED
      BY <2>1, <2>2, TypeInvRest DEF TypeInv
  <1>3. CASE Erase(item)
    <2>1. /\ rootNodeId' = rootNodeId /\ nextNodeId' = nextNodeId
          /\ neighbourRefreshNeeded' = FALSE /\ newKey' = NoKey
      BY <1>3 DEF Erase, Begin, treeVars
    <2>2. ErasedId'
      BY <1>3, ErasedBegins
    <2>3. newKey' \in [item : Nat, nodeId : Nat]
      BY <2>1, NoKeyIs
    <2> QED
      BY <2>1, <2>2, <2>3 DEF TypeInv, NodeIds
  <1> QED
    BY <1>2, <1>3

LEMMA InsertTypes ==
    ASSUME TypeInv, TreeInv', InsertUpdate \/ InsertMerge \/ InsertSplit
    PROVE  TypeInv'
  <1>1. running' = "insert" /\ neighbourRefreshNeeded' = neighbourRefreshNeeded
    BY DEF InsertUpdate, InsertMerge, InsertSplit
  <1>2. CASE InsertSplit
    BY <1>1, <1>2, SplitKey, TypeInvRest DEF TypeInv
  <1>3. CASE InsertUpdate \/ InsertMerge
    <2>1. newKey' = newKey
      BY <1>3 DEF InsertUpdate, InsertMerge
    <2> QED
      BY <1>1, <2>1, TypeInvRest DEF TypeInv
  <1> QED
    BY <1>2, <1>3

LEMMA ReturnedTypes ==
    ASSUME TreeInv', Return
    PROVE  TypeInv'
  <1>1. running' = "none" /\ neighbourRefreshNeeded' = FALSE /\ newKey' = NoKey
    BY DEF Return
  <1> QED
    BY <1>1, NoKeyIs, TypeInvRest

LEMMA EraseTypes ==
    ASSUME TypeInv, TreeInv', EraseStep
    PROVE  TypeInv'
  <1>1. UNCHANGED <<rootNodeId, nextNodeId, newKey>>
    BY DEF EraseStep, EraseTurn
  <1>2. neighbourRefreshNeeded' \in BOOLEAN
    BY DEF EraseStep, EraseTurn
  <1>3. ErasedId'
    BY ErasedGoesUp
  <1> QED
    BY <1>1, <1>2, <1>3 DEF TypeInv, NodeIds

LEMMA StutterTypes ==
    ASSUME TypeInv, TreeInv', UNCHANGED vars
    PROVE  TypeInv'
  <1>1. UNCHANGED <<nodes, rootNodeId, nextNodeId, running, breadcrumbs, newKey,
                    pending, neighbourRefreshNeeded>>
    BY DEF vars, treeVars, callVars
  <1>2. Crumb' = Crumb /\ NodeIds' = NodeIds
    BY <1>1 DEF Crumb, NodeIds
  <1> QED
    BY <1>1, <1>2 DEF TypeInv, ErasedId

LEMMA NextTypes ==
    ASSUME TypeInv, [Next]_vars
    PROVE  TypeInv'
  <1>1. TreeInv'
    BY NextTree DEF TypeInv
  <1>2. CASE LoadNext
    <2>1. Head(load) \in Items
      BY <1>2 DEF LoadNext, TypeInv, TreeInv
    <2> QED
      BY <1>1, <1>2, <2>1, BeginTypes DEF LoadNext
  <1>3. CASE Operate
    BY <1>1, <1>3, BeginTypes DEF Operate
  <1>4. CASE Rest \/ UNCHANGED vars
    BY <1>1, <1>4, StutterTypes DEF Rest
  <1>5. CASE InsertNewRoot \/ InsertReturn \/ EraseReturn
    BY <1>1, <1>5, ReturnedTypes DEF InsertNewRoot, InsertReturn, EraseReturn
  <1> QED
    BY <1>1, <1>2, <1>3, <1>4, <1>5, InsertTypes, EraseTypes DEF Next

LEMMA FirstTypes == Init => TypeInv
  <1> SUFFICES ASSUME Init
               PROVE  TypeInv
    OBVIOUS
  <1>1. TreeInv
    BY FirstTree
  <1>2. /\ rootNodeId = 0 /\ running = "none" /\ newKey = NoKey
        /\ neighbourRefreshNeeded = FALSE
    BY DEF Init
  <1> QED
    BY <1>1, <1>2, NoKeyIs DEF TypeInv, ErasedId

(* The node store and the call are of their types in every state: no total  *)
(* falls below zero, and no node id is used that was not given out. *)
THEOREM TypesStay == Spec => []TypeOK
  <1>1. Init => TypeInv
    BY FirstTypes
  <1>2. TypeInv /\ [Next]_vars => TypeInv'
    BY NextTypes
  <1>3. TypeInv => TypeOK
    BY TypeInvOK
  <1> QED
    BY <1>1, <1>2, <1>3, PTL DEF Spec

-----------------------------------------------------------------------------
(* The keys of the tree as places of its items in order.                   *)

(* The items of the leaves in a sequence s.                                *)
Listed(T, h, s) ==
    /\ s \in Seq(Nat) /\ Strict(s)
    /\ \A x : InLeaf(T, h, x) <=> \E i \in 1 .. Len(s) : s[i] = x

(* The number of items before a key, and before and after the first n keys *)
(* of a node. *)
place(s, key) == IF key = none THEN Len(s) ELSE countBelow(s, key.item)

edge(T, s, id, n) ==
    place(s, IF n = 0 THEN T[id].items[1] ELSE nextKey(T, id, n))

LEMMA StrictPlace ==
    ASSUME NEW s \in Seq(Nat), Strict(s), NEW x \in Nat, NEW i \in 0 .. Len(s),
           i = 0 \/ s[i] < x, i = Len(s) \/ x <= s[i + 1]
    PROVE  countBelow(s, x) = i
  <1>1. s \in Seq(Int) /\ InOrder(s) /\ Len(s) \in Nat
        /\ \A k \in 1 .. Len(s) : s[k] \in Nat
    <2>1. s \in Seq(Int)
      OBVIOUS
    <2> QED
      BY <2>1, StrictIs
  <1>2. PICK n : n = countBelow(s, x)
    OBVIOUS
  <1>3. n \in 0 .. Len(s) /\ \A k \in 1 .. Len(s) : s[k] < x <=> k <= n
    <2>1. x \in Int /\ s \in Seq(Int) /\ InOrder(s)
      BY <1>1
    <2>2. /\ countBelow(s, x) \in 0 .. Len(s)
          /\ \A k \in 1 .. Len(s) : s[k] < x <=> k <= countBelow(s, x)
      BY ONLY <2>1, CountsBelow
    <2> QED
      BY <2>2, <1>2
  <1>4. i <= n
    <2>1. CASE i = 0
      BY <2>1, <1>3
    <2>2. CASE i # 0
      <3>1. i \in 1 .. Len(s) /\ s[i] < x
        BY <2>2, <1>1
      <3> QED
        BY <3>1, <1>3
    <2> QED
      BY <2>1, <2>2
  <1>5. n <= i
    <2>1. CASE i = Len(s)
      BY <2>1, <1>3, <1>1
    <2>2. CASE i # Len(s)
      <3>1. i + 1 \in 1 .. Len(s) /\ x <= s[i + 1] /\ s[i + 1] \in Nat
        BY <2>2, <1>1
      <3>2. ~(i + 1 <= n)
        <4>1. ~(s[i + 1] < x)
          BY <3>1
        <4> QED
          BY <4>1, <3>1, <1>3
      <3> QED
        BY <3>2, <1>3, <1>1
    <2> QED
      BY <2>1, <2>2
  <1> QED
    BY <1>2, <1>3, <1>4, <1>5

(* The place of an item of a leaf. *)
PlacedAt(s, x, i) ==
    /\ i \in 1 .. Len(s) /\ i \in Nat /\ Len(s) \in Nat
    /\ s[i] = x
    /\ countBelow(s, x) = i - 1

LEMMA Placed ==
    ASSUME NEW T, NEW h, NEW s, Listed(T, h, s), NEW x, InLeaf(T, h, x)
    PROVE  \E i : PlacedAt(s, x, i)
  <1>1. PICK i \in 1 .. Len(s) : s[i] = x
    BY DEF Listed
  <1>2. s \in Seq(Nat) /\ Strict(s) /\ Len(s) \in Nat
    BY DEF Listed
  <1>3. x \in Nat /\ i \in Nat /\ i - 1 \in 0 .. Len(s)
    BY <1>1, <1>2
  <1>4. i - 1 = 0 \/ s[i - 1] < x
    <2> SUFFICES ASSUME i - 1 # 0
                 PROVE  s[i - 1] < x
      OBVIOUS
    <2>1. i - 1 \in 1 .. Len(s) /\ i - 1 < i
      BY <1>1, <1>2
    <2> QED
      BY <2>1, <1>1, <1>2 DEF Strict
  <1>5. (i - 1) + 1 = i
    BY <1>3
  <1>6. countBelow(s, x) = i - 1
    <2>1. i - 1 = Len(s) \/ x <= s[(i - 1) + 1]
      BY <1>1, <1>3, <1>5
    <2> QED
      BY <1>2, <1>3, <1>4, <2>1, StrictPlace
  <1> QED
    BY <1>1, <1>2, <1>3, <1>6 DEF PlacedAt

(* The next one after an item, where none of another leaf is between.      *)
LEMMA NextPlace ==
    ASSUME NEW T, NEW h, NEW s, Listed(T, h, s), NEW x, NEW y, NEW i, NEW j,
           PlacedAt(s, x, i), PlacedAt(s, y, j), x < y,
           \A z \in Nat : InLeaf(T, h, z) => ~(x < z /\ z < y)
    PROVE  j = i + 1
  <1>1. /\ s \in Seq(Nat) /\ Strict(s) /\ Len(s) \in Nat
        /\ i \in 1 .. Len(s) /\ j \in 1 .. Len(s) /\ s[i] = x /\ s[j] = y
        /\ \A k \in 1 .. Len(s) : s[k] \in Nat /\ InLeaf(T, h, s[k])
    BY DEF Listed, PlacedAt
  <1>2. i < j
    <2>1. \A a, b \in 1 .. Len(s) : a < b => s[a] < s[b]
      BY <1>1 DEF Strict
    <2>2. ~(j < i) /\ i # j
      BY <2>1, <1>1
    <2> QED
      BY <2>2, <1>1
  <1>3. ~(i + 1 < j)
    <2> SUFFICES ASSUME i + 1 < j
                 PROVE  FALSE
      OBVIOUS
    <2>1. i + 1 \in 1 .. Len(s) /\ i < i + 1
      BY <1>1
    <2>2. s[i] < s[i + 1] /\ s[i + 1] < s[j]
      BY <2>1, <1>1 DEF Strict
    <2> QED
      BY <2>1, <2>2, <1>1
  <1> QED
    BY <1>1, <1>2, <1>3

LEMMA LastPlace ==
    ASSUME NEW T, NEW h, NEW s, Listed(T, h, s), NEW x, NEW i,
           PlacedAt(s, x, i), \A z \in Nat : InLeaf(T, h, z) => ~(x < z)
    PROVE  i = Len(s)
  <1>1. /\ s \in Seq(Nat) /\ Strict(s) /\ Len(s) \in Nat
        /\ i \in 1 .. Len(s) /\ s[i] = x
        /\ \A k \in 1 .. Len(s) : s[k] \in Nat /\ InLeaf(T, h, s[k])
    BY DEF Listed, PlacedAt
  <1>2. ~(i < Len(s))
    <2> SUFFICES ASSUME i < Len(s)
                 PROVE  FALSE
      OBVIOUS
    <2>1. Len(s) \in 1 .. Len(s)
      BY <1>1
    <2>2. s[i] < s[Len(s)]
      BY <2>1, <1>1 DEF Strict
    <2> QED
      BY <2>1, <2>2, <1>1
  <1> QED
    BY <1>1, <1>2

FirstPlaceHyp(T, h, x) == \A z \in Nat : InLeaf(T, h, z) => x <= z

LEMMA FirstPlace ==
    ASSUME NEW T, NEW h, NEW s, Listed(T, h, s), NEW x, NEW i,
           PlacedAt(s, x, i), FirstPlaceHyp(T, h, x)
    PROVE  i = 1
  <1>1. /\ s \in Seq(Nat) /\ Strict(s) /\ Len(s) \in Nat
        /\ i \in 1 .. Len(s) /\ s[i] = x
        /\ \A k \in 1 .. Len(s) : s[k] \in Nat /\ InLeaf(T, h, s[k])
    BY DEF Listed, PlacedAt
  <1>2. ~(1 < i)
    <2> SUFFICES ASSUME 1 < i
                 PROVE  FALSE
      OBVIOUS
    <2>1. 1 \in 1 .. Len(s)
      BY <1>1
    <2>2. s[1] < s[i]
      BY <2>1, <1>1 DEF Strict
    <2> QED
      BY <2>1, <2>2, <1>1 DEF FirstPlaceHyp
  <1> QED
    BY <1>1, <1>2

-----------------------------------------------------------------------------
(* The key to the right is one, or there is none. *)
RightOf(T, id, i, k) ==
    \/ k = none
    \/ /\ k \in KeyType /\ k # none
       /\ k.item \in Nat /\ T[id].items[i].item < k.item
       /\ \E b \in DOMAIN T : \E j \in 1 .. Len(T[b].items) : k = T[b].items[j]

LEMMA NextKeyIs ==
    ASSUME NEW T, NEW h, NEW root, Sound(T, h, root), NEW id \in DOMAIN T,
           NEW i \in 1 .. Len(T[id].items)
    PROVE  RightOf(T, id, i, nextKey(T, id, i))
  <1>1. SoundNode(T, h, id)
    BY NodeOfSound
  <1>2. PICK k : k = nextKey(T, id, i)
    OBVIOUS
  <1>3. \/ k = none
        \/ \E b \in DOMAIN T : \E j \in 1 .. Len(T[b].items) : k = T[b].items[j]
    <2>1. CASE i < Len(T[id].items)
      <3>1. k = T[id].items[i + 1] /\ i + 1 \in 1 .. Len(T[id].items)
        BY <2>1, <1>1, <1>2 DEF nextKey, SoundNode
      <3> QED
        BY <3>1
    <2>2. CASE ~(i < Len(T[id].items)) /\ T[id].nextSibling = 0
      BY <2>2, <1>2 DEF nextKey, firstKey
    <2>3. CASE ~(i < Len(T[id].items)) /\ T[id].nextSibling # 0
      <3>1. PICK b \in DOMAIN T : b = T[id].nextSibling
        BY <2>3, <1>1 DEF SoundNode, LinkedAt
      <3>2. SoundNode(T, h, b)
        BY NodeOfSound
      <3>3. b # 0 /\ Len(T[b].items) # 0 /\ 1 \in 1 .. Len(T[b].items)
        BY <3>2 DEF SoundNode
      <3>4. k = T[b].items[1]
        BY <2>3, <1>2, <3>1, <3>3 DEF nextKey, firstKey
      <3> QED
        BY <3>3, <3>4
    <2> QED
      BY <2>1, <2>2, <2>3
  <1>4. CASE k # none
    <2>1. PICK b \in DOMAIN T : \E j \in 1 .. Len(T[b].items) : k = T[b].items[j]
      BY <1>3, <1>4
    <2>2. PICK j \in 1 .. Len(T[b].items) : k = T[b].items[j]
      BY <2>1
    <2>3. SoundNode(T, h, b)
      BY NodeOfSound
    <2>4. k \in KeyType /\ k.item \in Nat
      BY <2>2, <2>3 DEF SoundNode
    <2>5. T[id].items[i].item < k.item
      BY <1>1, <1>2, <1>4 DEF SoundNode, OrderedAt
    <2> QED
      BY <1>2, <1>4, <2>2, <2>4, <2>5 DEF RightOf
  <1> QED
    BY <1>2, <1>4 DEF RightOf

(* Between an item of a leaf and the next key there is no other one. *)
LEMMA NothingBetween ==
    ASSUME NEW h, Sound(nodes, h, rootNodeId), NEW id \in DOMAIN nodes, h[id] = 0,
           NEW i \in 1 .. Len(nodes[id].items),
           NEW z \in Nat, InLeaf(nodes, h, z), nodes[id].items[i].item < z,
           NEW k, k = nextKey(nodes, id, i)
    PROVE  k # none /\ k.item <= z
  <1> SUFFICES ASSUME k = none \/ ~(k.item <= z)
               PROVE  FALSE
    OBVIOUS
  <1>1. SoundNode(nodes, h, id) /\ RightOf(nodes, id, i, k)
    BY NodeOfSound, NextKeyIs
  <1>2. PICK keys : keys = nodes[id].items
    OBVIOUS
  <1>3. PICK n \in Nat : n = Len(keys)
    BY <1>1, <1>2 DEF SoundNode
  <1>4. /\ keys \in Seq(KeyType) /\ n > 0 /\ i \in 1 .. n
        /\ \A j \in 1 .. n : keys[j].item \in Nat
        /\ \A a, b \in 1 .. n : a < b => keys[a].item < keys[b].item
    BY <1>1, <1>2, <1>3 DEF SoundNode, Ascends
  <1>5. keys[i].item < z /\ (k = none \/ (k.item \in Nat /\ z < k.item))
    BY <1>1, <1>2 DEF RightOf
  <1>6. i < n => k = keys[i + 1] /\ k # none
    BY <1>1, <1>2, <1>3 DEF nextKey, SoundNode
  <1>7. ~(i < n) => k = firstKey(nodes, nodes[id].nextSibling)
    BY <1>2, <1>3 DEF nextKey
  <1>8. \A j \in i + 1 .. n : z < keys[j].item
    <2> SUFFICES ASSUME NEW j \in i + 1 .. n
                 PROVE  z < keys[j].item
      OBVIOUS
    <2>1. i < n /\ i + 1 \in 1 .. n /\ j \in 1 .. n
      BY <1>4
    <2>2. z < keys[i + 1].item
      BY <2>1, <1>5, <1>6
    <2>3. j = i + 1 \/ keys[i + 1].item < keys[j].item
      BY <2>1, <1>4
    <2> QED
      BY <2>1, <2>2, <2>3, <1>4
  <1>9. Pointed(keys, z, i - 1)
    <2>1. i - 1 \in 0 .. n - 1 /\ (i - 1) + 1 = i /\ (i - 1) + 2 = i + 1
      BY <1>4
    <2>2. keys[(i - 1) + 1].item <= z
      BY <2>1, <1>4, <1>5
    <2> QED
      BY <2>1, <2>2, <1>3, <1>8 DEF Pointed
  <1>10. NotLeft(nodes, id, z)
    <2>1. 1 \in 1 .. n /\ firstItem(nodes, id) = keys[1].item
      BY <1>2, <1>4 DEF firstItem
    <2>2. i = 1 \/ keys[1].item < keys[i].item
      BY <2>1, <1>4
    <2> QED
      BY <2>1, <2>2, <1>4, <1>5 DEF NotLeft
  <1>11. NotRight(nodes, id, z)
    <2> SUFFICES ASSUME nodes[id].nextSibling # 0
                 PROVE  z < firstItem(nodes, nodes[id].nextSibling)
      BY DEF NotRight
    <2>1. PICK b \in DOMAIN nodes : b = nodes[id].nextSibling
      BY <1>1 DEF SoundNode, LinkedAt
    <2>2. SoundNode(nodes, h, b)
      BY NodeOfSound
    <2>3. b # 0 /\ Len(nodes[b].items) # 0 /\ 1 \in 1 .. Len(nodes[b].items)
          /\ nodes[b].items[1] # none /\ nodes[b].items[1].item \in Nat
      BY <2>2 DEF SoundNode
    <2>4. firstKey(nodes, b) = nodes[b].items[1] /\ firstItem(nodes, b) = nodes[b].items[1].item
      BY <2>3 DEF firstKey, firstItem
    <2>5. CASE ~(i < n)
      BY <2>5, <2>1, <2>3, <2>4, <1>5, <1>7
    <2>6. CASE i < n
      <3>1. nextKey(nodes, id, n) = nodes[b].items[1]
        BY <2>1, <2>4, <1>2, <1>3 DEF nextKey
      <3>2. keys[n].item < nodes[b].items[1].item
        BY <3>1, <2>3, <1>1, <1>2, <1>3, <1>4 DEF SoundNode, OrderedAt
      <3>3. z < keys[n].item /\ keys[n].item \in Nat
        BY <2>6, <1>3, <1>4, <1>8
      <3> QED
        BY <3>2, <3>3, <2>1, <2>3, <2>4
    <2> QED
      BY <2>5, <2>6
  <1>12. PICK q \in DOMAIN nodes : h[q] = 0 /\ \E j \in DOMAIN nodes[q].items :
                                       nodes[q].items[j].item = z
    BY DEF InLeaf
  <1>13. SoundNode(nodes, h, q)
    BY NodeOfSound
  <1>14. PICK j \in 1 .. Len(nodes[q].items) : nodes[q].items[j].item = z
    BY <1>12, <1>13 DEF SoundNode
  <1>15. Within(nodes, q, z) /\ Pointed(nodes[q].items, z, j - 1)
    BY <1>14, LeafWithin
  <1>16. PICK s : s = searchItem(z)
    OBVIOUS
  <1>17. CrumbsFrom(s, rootNodeId, h, z)
    BY <1>16, SearchCrumbs
  <1>18. PICK a \in 1 .. Len(s) : s[a].nodeId = id
    BY <1>10, <1>11, <1>17, SearchMeets DEF Within
  <1>19. PICK b \in 1 .. Len(s) : s[b].nodeId = q
    BY <1>15, <1>17, SearchMeets
  <1>20. CrumbAt(s, a, h, h[rootNodeId], z) /\ CrumbAt(s, b, h, h[rootNodeId], z)
    BY <1>17 DEF CrumbsFrom
  <1>21. h[rootNodeId] \in Nat
    <2>1. rootNodeId \in DOMAIN nodes
      BY DEF Sound, Rooted
    <2> QED
      BY <2>1, NodeOfSound DEF SoundNode
  <1>22. a = b
    BY <1>12, <1>18, <1>19, <1>20, <1>21 DEF CrumbAt
  <1>23. id = q
    BY <1>18, <1>19, <1>22
  <1>24. i - 1 = j - 1
    BY <1>2, <1>4, <1>9, <1>15, <1>23, OnePointed
  <1>25. j = i
    BY <1>24, <1>4, <1>13 DEF SoundNode
  <1> QED
    BY <1>2, <1>4, <1>5, <1>14, <1>23, <1>25

(* All items are at or after the first one of the root.                    *)
LEMMA RootFirst ==
    ASSUME NEW h, Sound(nodes, h, rootNodeId)
    PROVE  FirstPlaceHyp(nodes, h, firstItem(nodes, rootNodeId))
  <1> DEFINE f == firstItem(nodes, rootNodeId)
             Low(z, n) == \E id \in DOMAIN nodes : \E i \in 1 .. Len(nodes[id].items) :
                             /\ nodes[id].items[i].item = z /\ z < f
                             /\ n = h[rootNodeId] - h[id]
             Bad == {z \in Nat : \E n \in Nat : Low(z, n)}
  <1>1. rootNodeId \in DOMAIN nodes /\ SoundNode(nodes, h, rootNodeId)
    <2>1. rootNodeId \in DOMAIN nodes
      BY DEF Sound, Rooted
    <2> QED
      BY <2>1, NodeOfSound
  <1>2. f = nodes[rootNodeId].items[1].item /\ f \in Nat /\ h[rootNodeId] \in Nat
    BY <1>1 DEF firstItem, SoundNode
  <1>3. \A id \in DOMAIN nodes : h[id] \in Nat /\ h[id] <= h[rootNodeId]
    <2> SUFFICES ASSUME NEW id \in DOMAIN nodes
                 PROVE  h[id] \in Nat /\ h[id] <= h[rootNodeId]
      OBVIOUS
    <2>1. h[id] \in Nat
      BY NodeOfSound DEF SoundNode
    <2>2. id = rootNodeId \/ h[id] < h[rootNodeId]
      BY DEF Sound, Rooted
    <2> QED
      BY <2>1, <2>2, <1>2
  <1>4. Bad = {}
    <2> SUFFICES ASSUME Bad # {}
                 PROVE  FALSE
      OBVIOUS
    <2>1. PICK z \in Bad : \A y \in Bad : z <= y
      <3>1. Bad \subseteq Nat
        OBVIOUS
      <3> HIDE DEF Bad
      <3> QED
        BY <3>1, LeastNumber
    <2> DEFINE Depths == {n \in Nat : Low(z, n)}
    <2>2. PICK n \in Depths : \A m \in Depths : n <= m
      <3>1. Depths \subseteq Nat
        OBVIOUS
      <3>2. Depths # {}
        BY <2>1
      <3> HIDE DEF Depths
      <3> QED
        BY <3>1, <3>2, LeastNumber
    <2>3. PICK id \in DOMAIN nodes : \E i \in 1 .. Len(nodes[id].items) :
             nodes[id].items[i].item = z /\ z < f /\ n = h[rootNodeId] - h[id]
      BY <2>2
    <2>4. PICK i \in 1 .. Len(nodes[id].items) :
             nodes[id].items[i].item = z /\ z < f /\ n = h[rootNodeId] - h[id]
      BY <2>3
    <2>5. SoundNode(nodes, h, id) /\ z \in Nat /\ n \in Nat
      BY <2>1, <2>2, NodeOfSound
    <2>6. ASSUME NEW a \in DOMAIN nodes, NEW j \in 1 .. Len(nodes[a].items),
                 nodes[a].items[j].item < z
          PROVE  FALSE
      <3>1. SoundNode(nodes, h, a)
        BY NodeOfSound
      <3>2. PICK y : y = nodes[a].items[j].item
        OBVIOUS
      <3>3. y \in Nat /\ y < z
        BY <3>1, <3>2, <2>6 DEF SoundNode
      <3>4. PICK m : m = h[rootNodeId] - h[a]
        OBVIOUS
      <3>5. m \in Nat
        <4>1. h[a] \in Nat /\ h[a] <= h[rootNodeId] /\ h[rootNodeId] \in Nat
          BY <1>2, <1>3
        <4> QED
          BY ONLY SMTT(30), <4>1, <3>4
      <3>6. y < f
        BY SMTT(30), <3>3, <2>4, <2>5, <1>2
      <3>7. Low(y, m)
        BY <3>2, <3>4, <3>6
      <3>8. y \in Bad
        <4> HIDE DEF Low
        <4> QED
          BY <3>3, <3>5, <3>7
      <3>9. z <= y
        <4> HIDE DEF Bad
        <4> QED
          BY <2>1, <3>8
      <3> QED
        BY <3>3, <3>9, <2>5
    <2>7. i = 1
      <3> SUFFICES ASSUME i # 1
                   PROVE  FALSE
        OBVIOUS
      <3>1. 1 \in 1 .. Len(nodes[id].items) /\ nodes[id].items[1].item < nodes[id].items[i].item
        BY SMTT(30), <2>5 DEF SoundNode, Ascends
      <3> QED
        BY <3>1, <2>4, <2>6
    <2>8. id # rootNodeId
      BY <2>4, <2>5, <2>7, <1>2
    <2>9. PICK p \in DOMAIN nodes : \E j \in DOMAIN nodes[p].items :
             nodes[p].items[j].nodeId = id
      BY <2>8 DEF Sound, Rooted, IsChild
    <2>10. SoundNode(nodes, h, p)
      BY NodeOfSound
    <2>11. PICK j \in 1 .. Len(nodes[p].items) : nodes[p].items[j].nodeId = id
      BY <2>9, <2>10 DEF SoundNode
    <2>12. h[p] # 0
      <3> SUFFICES ASSUME h[p] = 0
                   PROVE  FALSE
        OBVIOUS
      <3>1. nodes[p].items[j].nodeId = 0
        BY <2>10, <2>11 DEF SoundNode, LevelsAt
      <3> QED
        BY <3>1, <2>11, <2>5 DEF SoundNode
    <2>13. /\ h[id] = h[p] - 1
           /\ nodes[p].items[j].item = firstItem(nodes, id)
      <3>1. ChildOf(nodes, h, p, j, nodes[p].items[j].nodeId)
        BY <2>12, ChildOfSound
      <3> QED
        BY <3>1, <2>11 DEF ChildOf
    <2>14. nodes[p].items[j].item = z
      BY <2>13, <2>4, <2>7 DEF firstItem
    <2>15. PICK m : m = h[rootNodeId] - h[p]
      OBVIOUS
    <2>16. m \in Nat /\ m < n
      <3>1. h[p] \in Nat /\ h[p] <= h[rootNodeId] /\ h[rootNodeId] \in Nat
        BY <1>2, <1>3
      <3>2. n = h[rootNodeId] - h[id]
        BY <2>4
      <3> QED
        BY ONLY SMTT(30), <3>1, <3>2, <2>15, <2>13
    <2>17. Low(z, m)
      BY <2>14, <2>15, <2>4
    <2>18. m \in Depths
      <3> HIDE DEF Low
      <3> QED
        BY <2>16, <2>17
    <2>19. n <= m
      <3> HIDE DEF Depths
      <3> QED
        BY <2>2, <2>18
    <2> QED
      BY <2>19, <2>16, <2>5
  <1>5. ASSUME NEW z \in Nat, InLeaf(nodes, h, z), ~(f <= z)
        PROVE  FALSE
    <2>1. PICK q \in DOMAIN nodes : \E j \in DOMAIN nodes[q].items :
             nodes[q].items[j].item = z
      BY <1>5 DEF InLeaf
    <2>2. SoundNode(nodes, h, q)
      BY NodeOfSound
    <2>3. PICK j \in 1 .. Len(nodes[q].items) : nodes[q].items[j].item = z
      BY <2>1, <2>2 DEF SoundNode
    <2>4. PICK m : m = h[rootNodeId] - h[q]
      OBVIOUS
    <2>5. m \in Nat
      BY <2>4, <1>2, <1>3
    <2>6. z < f
      BY <1>5, <1>2
    <2>7. Low(z, m)
      BY <2>3, <2>4, <2>6
    <2>8. z \in Bad
      <3> HIDE DEF Low
      <3> QED
        BY <2>5, <2>7, <1>5
    <2> HIDE DEF Bad
    <2> QED
      BY <2>8, <1>4
  <1> QED
    BY <1>5 DEF FirstPlaceHyp

-----------------------------------------------------------------------------
(* The places of the keys of a node, and of the one after them. *)
Edges(T, s, id, g) ==
    LET keys == T[id].items
    IN  /\ g \in [0 .. Len(keys) -> 0 .. Len(s)]
        /\ Len(s) \in Nat /\ Len(keys) \in Nat /\ Len(keys) > 0
        /\ \A n \in 0 .. Len(keys) : g[n] = edge(T, s, id, n) /\ g[n] \in Nat
        /\ \A i \in 1 .. Len(keys) :
              PlacedAt(s, keys[i].item, g[i - 1] + 1) /\ g[i - 1] < g[i]

LEMMA PlacesAscend ==
    ASSUME NEW s \in Seq(Nat), Strict(s), NEW x, NEW y, NEW i, NEW j,
           PlacedAt(s, x, i), PlacedAt(s, y, j), x < y
    PROVE  i < j
  <1>1. \A a, b \in 1 .. Len(s) : a < b => s[a] < s[b]
    BY DEF Strict
  <1>2. /\ i \in 1 .. Len(s) /\ j \in 1 .. Len(s) /\ i \in Nat /\ j \in Nat
        /\ s[i] = x /\ s[j] = y /\ x \in Nat /\ y \in Nat
    BY DEF PlacedAt
  <1>3. ~(j < i) /\ i # j
    BY <1>1, <1>2
  <1> QED
    BY <1>2, <1>3

(* A key has its place. *)
LEMMA KeyPlaced ==
    ASSUME NEW T, NEW h, NEW root, Sound(T, h, root), NEW s, Listed(T, h, s),
           NEW id \in DOMAIN T, NEW i \in 1 .. Len(T[id].items)
    PROVE  PlacedAt(s, T[id].items[i].item, place(s, T[id].items[i]) + 1)
  <1>1. PICK k : k = T[id].items[i]
    OBVIOUS
  <1>2. k # none
    BY <1>1, NodeOfSound DEF SoundNode
  <1>3. PICK n : PlacedAt(s, k.item, n)
    BY <1>1, KeyInLeaf, Placed
  <1>4. place(s, k) = countBelow(s, k.item)
    BY <1>2 DEF place
  <1>5. n = place(s, k) + 1
    BY <1>3, <1>4 DEF PlacedAt
  <1> QED
    BY <1>1, <1>3, <1>5

LEMMA NodeEdges ==
    ASSUME NEW T, NEW h, NEW root, Sound(T, h, root), NEW s, Listed(T, h, s),
           NEW id \in DOMAIN T
    PROVE  \E g : Edges(T, s, id, g)
  <1>1. SoundNode(T, h, id)
    BY NodeOfSound
  <1>2. PICK keys : keys = T[id].items
    OBVIOUS
  <1>3. PICK n \in Nat : n = Len(keys) /\ n > 0
    BY <1>1, <1>2 DEF SoundNode
  <1>4. s \in Seq(Nat) /\ Strict(s) /\ Len(s) \in Nat
    BY DEF Listed
  <1> DEFINE g == [m \in 0 .. n |-> edge(T, s, id, m)]
  <1>5. \A i \in 1 .. n : edge(T, s, id, i - 1) = place(s, keys[i])
    <2> SUFFICES ASSUME NEW i \in 1 .. n
                 PROVE  edge(T, s, id, i - 1) = place(s, keys[i])
      OBVIOUS
    <2>1. CASE i = 1
      BY <2>1, <1>2 DEF edge
    <2>2. CASE i # 1
      <3>1. i - 1 # 0 /\ i - 1 < n /\ (i - 1) + 1 = i
        BY <2>2, <1>3
      <3>2. nextKey(T, id, i - 1) = keys[i]
        BY <3>1, <1>2, <1>3 DEF nextKey
      <3> QED
        BY <3>1, <3>2 DEF edge
    <2> QED
      BY <2>1, <2>2
  <1>6. ASSUME NEW i \in 1 .. n
        PROVE  PlacedAt(s, keys[i].item, place(s, keys[i]) + 1)
    BY <1>2, <1>3, KeyPlaced
  <1>7. ASSUME NEW i \in 1 .. n
        PROVE  /\ edge(T, s, id, i - 1) \in 0 .. Len(s)
               /\ edge(T, s, id, i) \in 0 .. Len(s)
               /\ edge(T, s, id, i - 1) < edge(T, s, id, i)
    <2>1. PICK k : k = nextKey(T, id, i)
      OBVIOUS
    <2>2. RightOf(T, id, i, k)
      BY <2>1, <1>2, <1>3, NextKeyIs
    <2>3. PICK a : a = place(s, keys[i])
      OBVIOUS
    <2>4. PlacedAt(s, keys[i].item, a + 1)
      BY <2>3, <1>6
    <2>5. a + 1 \in 1 .. Len(s) /\ a + 1 \in Nat /\ a \in Int
      <3>1. a + 1 \in 1 .. Len(s) /\ a + 1 \in Nat
        BY <2>4 DEF PlacedAt
      <3>2. a = countBelow(s, keys[i].item)
        BY <2>3, <1>1, <1>2, <1>3 DEF place, SoundNode
      <3>3. a = (a + 1) - 1
        BY <3>2, <2>4 DEF PlacedAt
      <3> QED
        BY <3>1, <3>3
    <2>6. edge(T, s, id, i) = place(s, k)
      BY <2>1, <1>3 DEF edge
    <2>7. CASE k = none
      <3>1. place(s, k) = Len(s)
        BY <2>7 DEF place
      <3> QED
        BY <3>1, <2>3, <2>5, <2>6, <1>4, <1>5
    <2>8. CASE k # none
      <3>1. PICK b \in DOMAIN T : \E j \in 1 .. Len(T[b].items) : k = T[b].items[j]
        BY <2>2, <2>8 DEF RightOf
      <3>2. PICK j \in 1 .. Len(T[b].items) : k = T[b].items[j]
        BY <3>1
      <3>3. PlacedAt(s, k.item, place(s, k) + 1)
        BY <3>2, KeyPlaced
      <3>4. keys[i].item < k.item
        BY <2>2, <2>8, <1>2 DEF RightOf
      <3>5. a + 1 < place(s, k) + 1
        BY <3>3, <3>4, <2>4, <1>4, PlacesAscend
      <3>6. place(s, k) + 1 \in 1 .. Len(s)
        BY <3>3 DEF PlacedAt
      <3>7. place(s, k) \in Int
        <4>1. place(s, k) = countBelow(s, k.item)
          BY <2>8 DEF place
        <4>2. place(s, k) = (place(s, k) + 1) - 1
          BY <4>1, <3>3 DEF PlacedAt
        <4> QED
          BY <4>2, <3>6
      <3>8. PICK p : p = place(s, k)
        OBVIOUS
      <3>9. a < p /\ a \in 0 .. Len(s) /\ p \in 0 .. Len(s)
        BY <3>5, <3>6, <3>7, <3>8, <2>5, <1>4
      <3> QED
        BY <3>9, <3>8, <2>3, <2>6, <1>5
    <2> QED
      BY <2>7, <2>8
  <1>8. g \in [0 .. n -> 0 .. Len(s)]
    <2> SUFFICES ASSUME NEW m \in 0 .. n
                 PROVE  edge(T, s, id, m) \in 0 .. Len(s)
      OBVIOUS
    <2>1. CASE m = 0
      BY <2>1, <1>3, <1>7
    <2>2. CASE m # 0
      BY <2>2, <1>7
    <2> QED
      BY <2>1, <2>2
  <1>9. \A m \in 0 .. n : g[m] = edge(T, s, id, m) /\ g[m] \in Nat
    BY <1>8, <1>4
  <1>10. \A i \in 1 .. n : i - 1 \in 0 .. n /\ i \in 0 .. n
    BY <1>3
  <1>11. \A i \in 1 .. n : PlacedAt(s, keys[i].item, g[i - 1] + 1) /\ g[i - 1] < g[i]
    <2> SUFFICES ASSUME NEW i \in 1 .. n
                 PROVE  PlacedAt(s, keys[i].item, g[i - 1] + 1) /\ g[i - 1] < g[i]
      OBVIOUS
    <2>1. g[i - 1] = edge(T, s, id, i - 1) /\ g[i] = edge(T, s, id, i)
      BY <1>9, <1>10
    <2> HIDE DEF g
    <2> QED
      BY <2>1, <1>5, <1>6, <1>7
  <1> HIDE DEF g
  <1> QED
    BY <1>2, <1>3, <1>4, <1>8, <1>9, <1>11 DEF Edges

(* The items of a leaf follow each other. *)
LEMMA LeafEdges ==
    ASSUME NEW h, Sound(nodes, h, rootNodeId), NEW s, Listed(nodes, h, s),
           NEW id \in DOMAIN nodes, h[id] = 0, NEW g, Edges(nodes, s, id, g),
           NEW i \in 1 .. Len(nodes[id].items)
    PROVE  g[i] = g[i - 1] + 1
  <1>1. PICK x : x = nodes[id].items[i].item
    OBVIOUS
  <1>2. PICK k : k = nextKey(nodes, id, i)
    OBVIOUS
  <1>3. RightOf(nodes, id, i, k)
    BY <1>2, NextKeyIs
  <1>4. PICK a : a = g[i - 1]
    OBVIOUS
  <1>5. /\ PlacedAt(s, x, a + 1) /\ a \in Nat /\ Len(s) \in Nat
        /\ i # 0 /\ g[i] = edge(nodes, s, id, i)
    <2>1. i \in 0 .. Len(nodes[id].items) /\ i - 1 \in 0 .. Len(nodes[id].items) /\ i # 0
      BY DEF Edges
    <2> QED
      BY <1>1, <1>4, <2>1 DEF Edges
  <1>6. g[i] = place(s, k)
    BY <1>2, <1>5 DEF edge
  <1>7. CASE k = none
    <2>1. \A z \in Nat : InLeaf(nodes, h, z) => ~(x < z)
      BY <1>1, <1>2, <1>7, NothingBetween
    <2>2. a + 1 = Len(s)
      BY <2>1, <1>5, LastPlace
    <2> QED
      BY <2>2, <1>4, <1>6, <1>7 DEF place
  <1>8. CASE k # none
    <2>1. PICK b \in DOMAIN nodes : \E j \in 1 .. Len(nodes[b].items) : k = nodes[b].items[j]
      BY <1>3, <1>8 DEF RightOf
    <2>2. PICK j \in 1 .. Len(nodes[b].items) : k = nodes[b].items[j]
      BY <2>1
    <2>3. PICK p : p = place(s, k)
      OBVIOUS
    <2>4. PlacedAt(s, k.item, p + 1)
      BY <2>2, <2>3, KeyPlaced
    <2>5. x < k.item /\ k.item \in Nat
      BY <1>1, <1>3, <1>8 DEF RightOf
    <2>6. \A z \in Nat : InLeaf(nodes, h, z) => ~(x < z /\ z < k.item)
      <3> SUFFICES ASSUME NEW z \in Nat, InLeaf(nodes, h, z), x < z, z < k.item
                   PROVE  FALSE
        OBVIOUS
      <3>1. k.item <= z
        BY <1>1, <1>2, NothingBetween
      <3> QED
        BY <3>1, <2>5
    <2>7. p + 1 = (a + 1) + 1
      BY <1>5, <2>4, <2>5, <2>6, NextPlace
    <2>8. p = countBelow(s, k.item) /\ countBelow(s, k.item) = (p + 1) - 1
      BY <2>3, <2>4, <1>8 DEF place, PlacedAt
    <2>9. p = a + 1
      BY <2>7, <2>8, <1>5
    <2> QED
      BY <2>3, <2>9, <1>4, <1>6
  <1> QED
    BY <1>7, <1>8

(* A child lies between the edges of its key. *)
LEMMA ChildEdges ==
    ASSUME NEW T, NEW h, NEW root, Sound(T, h, root), NEW s,
           NEW id \in DOMAIN T, h[id] # 0,
           NEW i \in 1 .. Len(T[id].items), NEW c, c = T[id].items[i].nodeId
    PROVE  /\ edge(T, s, c, 0) = edge(T, s, id, i - 1)
           /\ edge(T, s, c, Len(T[c].items)) = edge(T, s, id, i)
  <1>1. ChildOf(T, h, id, i, c)
    BY ChildOfSound
  <1>2. c \in DOMAIN T /\ SoundNode(T, h, id) /\ SoundNode(T, h, c)
    BY <1>1, NodeOfSound DEF ChildOf
  <1>3. \A b \in DOMAIN T : b # 0 /\ Len(T[b].items) \in Nat /\ Len(T[b].items) > 0
          /\ firstKey(T, b) = T[b].items[1] /\ T[b].items[1] # none
    <2> SUFFICES ASSUME NEW b \in DOMAIN T
                 PROVE  b # 0 /\ Len(T[b].items) \in Nat /\ Len(T[b].items) > 0
                        /\ firstKey(T, b) = T[b].items[1] /\ T[b].items[1] # none
      OBVIOUS
    <2>1. SoundNode(T, h, b)
      BY NodeOfSound
    <2> QED
      BY <2>1 DEF SoundNode, firstKey
  \* keys with the same item have the same place
  <1>4. \A a \in KeyType, b \in KeyType : a # none /\ b # none /\ a.item = b.item
            => place(s, a) = place(s, b)
    BY DEF place
  <1>5. edge(T, s, c, 0) = edge(T, s, id, i - 1)
    <2>1. edge(T, s, id, i - 1) = place(s, T[id].items[i])
      <3>1. CASE i = 1
        BY <3>1 DEF edge
      <3>2. CASE i # 1
        <4>1. i - 1 # 0 /\ i - 1 < Len(T[id].items) /\ (i - 1) + 1 = i
          BY <3>2, <1>2 DEF SoundNode
        <4> QED
          BY <4>1 DEF edge, nextKey
      <3> QED
        BY <3>1, <3>2
    <2>2. edge(T, s, c, 0) = place(s, T[c].items[1])
      BY SMTT(30) DEF edge
    <2>3. /\ T[c].items[1] \in KeyType /\ T[id].items[i] \in KeyType
          /\ T[c].items[1] # none /\ T[id].items[i] # none
          /\ T[id].items[i].item = T[c].items[1].item
      <3>1. 1 \in 1 .. Len(T[c].items)
        BY <1>2, <1>3
      <3>2. T[id].items[i].item = T[c].items[1].item
        BY <1>1 DEF ChildOf, firstItem
      <3> QED
        BY <3>1, <3>2, <1>2 DEF SoundNode
    <2> QED
      BY <2>1, <2>2, <2>3, <1>4
  <1>6. edge(T, s, c, Len(T[c].items)) = edge(T, s, id, i)
    <2>1. PICK k : k = nextKey(T, id, i)
      OBVIOUS
    <2>2. RightOf(T, id, i, k) /\ T[c].nextSibling = k.nodeId
      BY <2>1, <1>1, NextKeyIs DEF ChildOf
    <2>3. edge(T, s, id, i) = place(s, k)
      BY <2>1 DEF edge
    <2>4. edge(T, s, c, Len(T[c].items)) = place(s, firstKey(T, k.nodeId))
      <3>1. Len(T[c].items) # 0 /\ ~(Len(T[c].items) < Len(T[c].items))
        BY <1>2, <1>3
      <3>2. nextKey(T, c, Len(T[c].items)) = firstKey(T, k.nodeId)
        BY <3>1, <2>2 DEF nextKey
      <3> QED
        BY <3>1, <3>2 DEF edge
    <2>5. CASE k = none
      <3>1. k.nodeId = 0
        BY <2>5 DEF none, Key
      <3>2. firstKey(T, k.nodeId) = none
        BY <3>1 DEF firstKey
      <3> QED
        BY <3>2, <2>3, <2>4, <2>5
    <2>6. CASE k # none
      \* k is a key of a node of the same level
      <3>1. PICK b \in DOMAIN T : h[b] = h[id] /\ \E j \in 1 .. Len(T[b].items) : k = T[b].items[j]
        <4>1. CASE i < Len(T[id].items)
          <5>1. k = T[id].items[i + 1] /\ i + 1 \in 1 .. Len(T[id].items)
            BY <4>1, <2>1, <1>2 DEF nextKey, SoundNode
          <5> QED
            BY <5>1
        <4>2. CASE ~(i < Len(T[id].items))
          <5>1. k = firstKey(T, T[id].nextSibling)
            BY <4>2, <2>1 DEF nextKey
          <5>2. T[id].nextSibling # 0
            BY SMTT(30), <5>1, <2>6 DEF firstKey
          <5>3. T[id].nextSibling \in DOMAIN T /\ h[T[id].nextSibling] = h[id]
            BY <5>2, <1>2 DEF SoundNode, LinkedAt
          <5>4. k = T[T[id].nextSibling].items[1] /\ 1 \in 1 .. Len(T[T[id].nextSibling].items)
            BY <5>1, <5>3, <1>3
          <5> QED
            BY <5>3, <5>4
        <4> QED
          BY <4>1, <4>2
      <3>2. PICK j \in 1 .. Len(T[b].items) : k = T[b].items[j]
        BY <3>1
      <3>3. ChildOf(T, h, b, j, k.nodeId)
        BY <3>1, <3>2, ChildOfSound
      <3>4. /\ k.nodeId \in DOMAIN T /\ k.nodeId # 0
            /\ k.item = T[k.nodeId].items[1].item
        BY <3>2, <3>3 DEF ChildOf, firstItem
      <3>5. firstKey(T, k.nodeId) = T[k.nodeId].items[1] /\ T[k.nodeId].items[1] # none
            /\ T[k.nodeId].items[1] \in KeyType
        <4>1. SoundNode(T, h, k.nodeId)
          BY <3>4, NodeOfSound
        <4>2. 1 \in 1 .. Len(T[k.nodeId].items)
          BY <3>4, <1>3
        <4> QED
          BY <4>1, <4>2, <3>4, <1>3 DEF SoundNode
      <3>6. k \in KeyType
        BY <2>2, <2>6 DEF RightOf
      <3>7. place(s, firstKey(T, k.nodeId)) = place(s, k)
        BY <3>4, <3>5, <3>6, <2>6, <1>4
      <3> QED
        BY <3>7, <2>3, <2>4
    <2> QED
      BY <2>5, <2>6
  <1> QED
    BY <1>5, <1>6

-----------------------------------------------------------------------------
(* The totals of a node, of a key and of the first n keys of a node are    *)
(* those of the items between its edges. *)
NodeSpans(T, s, id) ==
    LET b == edge(T, s, id, 0)
        e == edge(T, s, id, Len(T[id].items))
    IN  T[id].accumCount = e - b /\ T[id].accum = upTo(s, e) - upTo(s, b)

KeysSpan(T, s, id) ==
    \A i \in 1 .. Len(T[id].items) :
        LET b == edge(T, s, id, i - 1)
            e == edge(T, s, id, i)
        IN  /\ countOf(T, T[id].items[i]) = e - b
            /\ accumOf(T, T[id].items[i]) = upTo(s, e) - upTo(s, b)

PrefixSpans(T, s, id, n) ==
    LET b == edge(T, s, id, 0)
        e == edge(T, s, id, n)
    IN  /\ countOfAll(T, SubSeq(T[id].items, 1, n)) = e - b
        /\ accumOfAll(T, SubSeq(T[id].items, 1, n)) = upTo(s, e) - upTo(s, b)

LEMMA UpToType ==
    ASSUME NEW s \in Seq(Nat), NEW n \in 0 .. Len(s)
    PROVE  upTo(s, n) \in Int
  <1>1. s \in Seq(Int) /\ Len(s) \in Nat
    OBVIOUS
  <1>2. n \in 0 .. Len(s) /\ 0 \in Nat /\ n \in Nat
    BY <1>1
  <1> QED
    BY <1>1, <1>2, SumOfRange

LEMMA PrefixFromKeys ==
    ASSUME NEW T, NEW h, NEW root, Sound(T, h, root), NEW s, Listed(T, h, s),
           NEW id \in DOMAIN T, KeysSpan(T, s, id),
           NEW n \in 0 .. Len(T[id].items)
    PROVE  PrefixSpans(T, s, id, n)
  <1>1. SoundNode(T, h, id) /\ HasChildren(T, T[id].items)
    BY NodeOfSound, SoundCounts
  <1>2. PICK g : Edges(T, s, id, g)
    BY NodeEdges
  <1>3. PICK keys \in Seq(KeyType) : keys = T[id].items
    BY <1>1 DEF SoundNode
  <1>4. PICK m \in Nat : m = Len(keys) /\ DOMAIN keys = 1 .. m
    BY <1>1, <1>3 DEF SoundNode
  <1>5. /\ \A i \in 0 .. m : g[i] = edge(T, s, id, i) /\ g[i] \in 0 .. Len(s) /\ g[i] \in Int
        /\ s \in Seq(Nat)
    <2>1. /\ g \in [0 .. m -> 0 .. Len(s)] /\ Len(s) \in Nat
          /\ \A i \in 0 .. m : g[i] = edge(T, s, id, i) /\ g[i] \in Nat
      BY <1>2, <1>3, <1>4 DEF Edges
    <2>2. s \in Seq(Nat)
      BY DEF Listed
    <2>3. \A i \in 0 .. m : g[i] \in 0 .. Len(s)
      BY <2>1
    <2>4. \A i \in 0 .. m : g[i] \in Int
      BY <2>1
    <2> QED
      BY <2>1, <2>2, <2>3, <2>4
  <1>6. \A i \in 0 .. m : upTo(s, g[i]) \in Int
    BY <1>5, UpToType
  <1>7. \A i \in 1 .. m : i \in 0 .. m /\ i - 1 \in 0 .. m
    BY <1>4
  <1>8. n \in 0 .. m /\ 0 \in 0 .. m
    BY <1>3, <1>4
  <1>9. ASSUME NEW w \in [1 .. m -> Int], NEW G \in [0 .. m -> Int],
               \A i \in 1 .. m : w[i] = G[i] - G[i - 1]
        PROVE  total([i \in DOMAIN SubSeq(keys, 1, n) |-> w[i]]) = G[n] - G[0]
    <2>1. w \in Seq(Int) /\ Len(w) = m
      BY <1>4
    <2>2. total(SubSeq(w, 1, n)) = G[n] - G[0]
      BY <1>8, <1>9, <2>1, Telescope
    <2>3. SubSeq(w, 1, n) = [i \in 1 .. n |-> w[i]]
      BY <2>1, <1>8
    <2>4. DOMAIN SubSeq(keys, 1, n) = 1 .. n
      BY <1>4, <1>8
    <2> QED
      BY <2>2, <2>3, <2>4
  <1>10. \A i \in DOMAIN SubSeq(keys, 1, n) : SubSeq(keys, 1, n)[i] = keys[i] /\ i \in 1 .. m
    BY <1>4, <1>8
  <1>11. \A i \in 1 .. m : /\ countOf(T, keys[i]) = g[i] - g[i - 1]
                           /\ accumOf(T, keys[i]) = upTo(s, g[i]) - upTo(s, g[i - 1])
    <2> SUFFICES ASSUME NEW i \in 1 .. m
                 PROVE  /\ countOf(T, keys[i]) = g[i] - g[i - 1]
                        /\ accumOf(T, keys[i]) = upTo(s, g[i]) - upTo(s, g[i - 1])
      OBVIOUS
    <2>1. g[i] = edge(T, s, id, i) /\ g[i - 1] = edge(T, s, id, i - 1)
      BY <1>5, <1>7
    <2> QED
      BY <2>1, <1>3, <1>4 DEF KeysSpan
  <1>12. countOfAll(T, SubSeq(keys, 1, n)) = g[n] - g[0]
    <2> DEFINE w == [i \in 1 .. m |-> g[i] - g[i - 1]]
               G == [i \in 0 .. m |-> g[i]]
    <2>1. w \in [1 .. m -> Int] /\ \A i \in 1 .. m : w[i] = countOf(T, keys[i])
      BY <1>5, <1>7, <1>11
    <2>2. G \in [0 .. m -> Int] /\ \A i \in 0 .. m : G[i] = g[i]
      BY <1>5
    <2>3. \A i \in 1 .. m : w[i] = G[i] - G[i - 1]
      BY <2>2, <1>7
    <2> HIDE DEF w, G
    <2>4. total([i \in DOMAIN SubSeq(keys, 1, n) |-> w[i]]) = G[n] - G[0]
      BY <2>1, <2>2, <2>3, <1>9
    <2>5. [i \in DOMAIN SubSeq(keys, 1, n) |-> countOf(T, SubSeq(keys, 1, n)[i])]
            = [i \in DOMAIN SubSeq(keys, 1, n) |-> w[i]]
      BY <2>1, <1>10
    <2> QED
      BY <2>2, <2>4, <2>5, <1>8 DEF countOfAll
  <1>13. accumOfAll(T, SubSeq(keys, 1, n)) = upTo(s, g[n]) - upTo(s, g[0])
    <2> DEFINE w == [i \in 1 .. m |-> upTo(s, g[i]) - upTo(s, g[i - 1])]
               G == [i \in 0 .. m |-> upTo(s, g[i])]
    <2>1. w \in [1 .. m -> Int] /\ \A i \in 1 .. m : w[i] = accumOf(T, keys[i])
      BY <1>6, <1>7, <1>11
    <2>2. G \in [0 .. m -> Int] /\ \A i \in 0 .. m : G[i] = upTo(s, g[i])
      BY <1>6
    <2>3. \A i \in 1 .. m : w[i] = G[i] - G[i - 1]
      BY <2>2, <1>7
    <2> HIDE DEF w, G
    <2>4. total([i \in DOMAIN SubSeq(keys, 1, n) |-> w[i]]) = G[n] - G[0]
      BY <2>1, <2>2, <2>3, <1>9
    <2>5. [i \in DOMAIN SubSeq(keys, 1, n) |-> accumOf(T, SubSeq(keys, 1, n)[i])]
            = [i \in DOMAIN SubSeq(keys, 1, n) |-> w[i]]
      BY <2>1, <1>10
    <2> QED
      BY <2>2, <2>4, <2>5, <1>8 DEF accumOfAll
  <1> QED
    BY <1>3, <1>5, <1>8, <1>12, <1>13 DEF PrefixSpans

LEMMA NodeFromKeys ==
    ASSUME NEW T, NEW h, NEW root, Sound(T, h, root), NEW s, Listed(T, h, s),
           NEW id \in DOMAIN T, KeysSpan(T, s, id)
    PROVE  NodeSpans(T, s, id)
  <1>1. SoundNode(T, h, id)
    BY NodeOfSound
  <1>2. PICK n : n = Len(T[id].items)
    OBVIOUS
  <1>3. n \in 0 .. Len(T[id].items) /\ SubSeq(T[id].items, 1, n) = T[id].items
    BY <1>1, <1>2 DEF SoundNode
  <1>4. PrefixSpans(T, s, id, n)
    BY <1>3, PrefixFromKeys
  <1>5. /\ countOfAll(T, T[id].items) = T[id].accumCount
        /\ accumOfAll(T, T[id].items) = T[id].accum
    BY SoundCounts
  <1> QED
    BY <1>2, <1>3, <1>4, <1>5 DEF PrefixSpans, NodeSpans

LEMMA KeysFromChildren ==
    ASSUME NEW h, Sound(nodes, h, rootNodeId), NEW s, Listed(nodes, h, s),
           NEW id \in DOMAIN nodes,
           \A c \in DOMAIN nodes : h[c] < h[id] => NodeSpans(nodes, s, c)
    PROVE  KeysSpan(nodes, s, id)
  <1>1. SoundNode(nodes, h, id)
    BY NodeOfSound
  <1> SUFFICES ASSUME NEW i \in 1 .. Len(nodes[id].items)
               PROVE  LET b == edge(nodes, s, id, i - 1)
                          e == edge(nodes, s, id, i)
                      IN  /\ countOf(nodes, nodes[id].items[i]) = e - b
                          /\ accumOf(nodes, nodes[id].items[i]) = upTo(s, e) - upTo(s, b)
    BY DEF KeysSpan
  <1>2. PICK key : key = nodes[id].items[i]
    OBVIOUS
  <1>3. PICK b : b = edge(nodes, s, id, i - 1)
    OBVIOUS
  <1>4. PICK e : e = edge(nodes, s, id, i)
    OBVIOUS
  <1>5. CASE h[id] = 0
    <2>1. key.nodeId = 0
      BY <1>1, <1>2, <1>5 DEF SoundNode, LevelsAt
    <2>2. PICK g : Edges(nodes, s, id, g)
      BY NodeEdges
    <2>3. i \in 0 .. Len(nodes[id].items) /\ i - 1 \in 0 .. Len(nodes[id].items)
      BY <1>1 DEF SoundNode
    <2>4. g[i] = e /\ g[i - 1] = b /\ b \in Nat /\ PlacedAt(s, key.item, b + 1)
      BY <2>2, <2>3, <1>2, <1>3, <1>4 DEF Edges
    <2>5. e = b + 1
      BY <2>2, <2>4, <1>5, LeafEdges
    <2>6. e \in 1 .. Len(s) /\ s[e] = key.item /\ s \in Seq(Int)
      <3>1. s \in Seq(Nat)
        BY DEF Listed
      <3>2. s \in Seq(Int)
        BY <3>1
      <3> QED
        BY <3>2, <2>4, <2>5 DEF PlacedAt
    <2>7. upTo(s, e) = upTo(s, e - 1) + s[e]
      BY <2>6, SumOfOne
    <2>8. e - 1 = b /\ b \in 0 .. Len(s) /\ e \in 0 .. Len(s) /\ Len(s) \in Nat
      BY <2>4, <2>5, <2>6 DEF PlacedAt
    <2>9. upTo(s, b) \in Int /\ upTo(s, e) \in Int /\ s[e] \in Int
      <3>1. s \in Seq(Nat)
        BY DEF Listed
      <3> QED
        BY <3>1, <2>6, <2>8, UpToType
    <2>10. countOf(nodes, key) = 1 /\ accumOf(nodes, key) = key.item
      BY <2>1 DEF countOf, accumOf
    <2>11. e - b = 1 /\ upTo(s, e) - upTo(s, b) = s[e]
      <3>1. upTo(s, e) = upTo(s, b) + s[e]
        BY <2>7, <2>8
      <3> QED
        BY ONLY <3>1, <2>9, <2>5, <2>4
    <2> QED
      BY <2>6, <2>10, <2>11, <1>2, <1>3, <1>4
  <1>6. CASE h[id] # 0
    <2>1. PICK c : c = key.nodeId
      OBVIOUS
    <2>2. ChildOf(nodes, h, id, i, c)
      BY <2>1, <1>2, <1>6, ChildOfSound
    <2>3. c \in DOMAIN nodes /\ c # 0 /\ h[c] < h[id]
      BY <2>2, <1>1 DEF ChildOf, SoundNode
    <2>4. NodeSpans(nodes, s, c)
      BY <2>3
    <2>5. /\ edge(nodes, s, c, 0) = b
          /\ edge(nodes, s, c, Len(nodes[c].items)) = e
      BY <2>1, <1>2, <1>3, <1>4, <1>6, ChildEdges
    <2>6. countOf(nodes, key) = nodes[c].accumCount /\ accumOf(nodes, key) = nodes[c].accum
      BY <2>1, <2>3 DEF countOf, accumOf
    <2> QED
      BY <2>4, <2>5, <2>6, <1>2, <1>3, <1>4 DEF NodeSpans
  <1> QED
    BY <1>5, <1>6

LEMMA AllSpan ==
    ASSUME NEW h, Sound(nodes, h, rootNodeId), NEW s, Listed(nodes, h, s)
    PROVE  \A id \in DOMAIN nodes : NodeSpans(nodes, s, id) /\ KeysSpan(nodes, s, id)
  <1> DEFINE Bad == {n \in Nat : \E id \in DOMAIN nodes :
                        h[id] = n /\ ~NodeSpans(nodes, s, id)}
  <1>1. \A id \in DOMAIN nodes : h[id] \in Nat
    BY NodeOfSound DEF SoundNode
  <1>2. Bad = {}
    <2> SUFFICES ASSUME Bad # {}
                 PROVE  FALSE
      OBVIOUS
    <2>1. PICK n \in Bad : \A k \in Bad : n <= k
      <3>1. Bad \subseteq Nat
        OBVIOUS
      <3> HIDE DEF Bad
      <3> QED
        BY <3>1, LeastNumber
    <2>2. PICK id \in DOMAIN nodes : h[id] = n /\ ~NodeSpans(nodes, s, id)
      BY <2>1
    <2>3. ASSUME NEW c \in DOMAIN nodes, h[c] < h[id]
          PROVE  NodeSpans(nodes, s, c)
      <3> SUFFICES ASSUME ~NodeSpans(nodes, s, c)
                   PROVE  FALSE
        OBVIOUS
      <3>1. h[c] \in Nat /\ h[id] \in Nat /\ h[c] < n
        BY <1>1, <2>2, <2>3
      <3>2. h[c] \in Bad
        BY <3>1
      <3> HIDE DEF Bad
      <3>3. n <= h[c]
        BY <3>2, <2>1
      <3> QED
        BY <3>1, <3>3, <2>2
    <2>4. NodeSpans(nodes, s, id)
      BY <2>3, KeysFromChildren, NodeFromKeys
    <2> QED
      BY <2>2, <2>4
  <1>3. \A id \in DOMAIN nodes : NodeSpans(nodes, s, id)
    BY <1>1, <1>2
  <1> QED
    BY <1>3, KeysFromChildren

LEMMA AllPrefixes ==
    ASSUME NEW h, Sound(nodes, h, rootNodeId), NEW s, Listed(nodes, h, s),
           NEW id \in DOMAIN nodes, NEW n \in 0 .. Len(nodes[id].items)
    PROVE  PrefixSpans(nodes, s, id, n)
  BY AllSpan, PrefixFromKeys

(* The root has all items under it. *)
LEMMA RootEdges ==
    ASSUME NEW h, Sound(nodes, h, rootNodeId), NEW s, Listed(nodes, h, s)
    PROVE  /\ rootNodeId \in DOMAIN nodes
           /\ edge(nodes, s, rootNodeId, 0) = 0
           /\ edge(nodes, s, rootNodeId, Len(nodes[rootNodeId].items)) = Len(s)
           /\ nodes[rootNodeId].accumCount = Len(s)
           /\ Len(s) \in Nat /\ Len(s) > 0
           /\ s[1] = firstItem(nodes, rootNodeId)
  <1>1. rootNodeId \in DOMAIN nodes /\ nodes[rootNodeId].nextSibling = 0
    BY DEF Sound, Rooted
  <1>2. SoundNode(nodes, h, rootNodeId)
    BY <1>1, NodeOfSound
  <1>3. 1 \in 1 .. Len(nodes[rootNodeId].items)
    BY <1>2 DEF SoundNode
  <1>4. PICK key : key = nodes[rootNodeId].items[1]
    OBVIOUS
  <1>5. PlacedAt(s, key.item, place(s, key) + 1)
    BY <1>1, <1>3, <1>4, KeyPlaced
  <1>6. FirstPlaceHyp(nodes, h, key.item)
    <2>1. firstItem(nodes, rootNodeId) = key.item
      BY <1>4 DEF firstItem
    <2> QED
      BY <2>1, RootFirst
  <1>7. place(s, key) + 1 = 1
    BY <1>5, <1>6, FirstPlace
  <1>8. PICK g : Edges(nodes, s, rootNodeId, g)
    BY <1>1, NodeEdges
  <1>9. 0 \in 0 .. Len(nodes[rootNodeId].items)
    BY <1>2 DEF SoundNode
  <1>10. edge(nodes, s, rootNodeId, 0) = place(s, key) /\ place(s, key) \in Nat
    <2>1. edge(nodes, s, rootNodeId, 0) = place(s, key)
      BY <1>4 DEF edge
    <2>2. edge(nodes, s, rootNodeId, 0) \in Nat
      BY <1>8, <1>9 DEF Edges
    <2> QED
      BY <2>1, <2>2
  <1>11. edge(nodes, s, rootNodeId, 0) = 0
    BY <1>7, <1>10
  <1>12. edge(nodes, s, rootNodeId, Len(nodes[rootNodeId].items)) = Len(s)
    <2>1. /\ Len(nodes[rootNodeId].items) # 0
          /\ ~(Len(nodes[rootNodeId].items) < Len(nodes[rootNodeId].items))
      BY <1>2 DEF SoundNode
    <2>2. nextKey(nodes, rootNodeId, Len(nodes[rootNodeId].items)) = none
      BY <2>1, <1>1 DEF nextKey, firstKey
    <2> QED
      BY <2>1, <2>2 DEF edge, place
  <1>13. Len(s) \in Nat /\ Len(s) > 0
    BY <1>5 DEF PlacedAt
  <1>14. nodes[rootNodeId].accumCount = Len(s)
    <2>1. nodes[rootNodeId].accumCount = Len(s) - 0
      BY <1>1, <1>11, <1>12, AllSpan DEF NodeSpans
    <2> QED
      BY <2>1, <1>13
  <1>15. s[1] = firstItem(nodes, rootNodeId)
    BY <1>4, <1>5, <1>7 DEF PlacedAt, firstItem
  <1> QED
    BY <1>1, <1>11, <1>12, <1>13, <1>14, <1>15

-----------------------------------------------------------------------------
(* Numbers in steps of one, or of at least one. *)
LEMMA StepsOfOne ==
    ASSUME NEW m \in Nat, NEW g \in [0 .. m -> Nat],
           \A i \in 1 .. m : g[i] = g[i - 1] + 1
    PROVE  \A n \in 0 .. m : g[n] = g[0] + n
  <1> DEFINE Bad == {n \in Nat : n <= m /\ g[n] # g[0] + n}
  <1> SUFFICES ASSUME Bad # {}
               PROVE  FALSE
    <2>1. ASSUME Bad = {}, NEW n \in 0 .. m
          PROVE  g[n] = g[0] + n
      <3>1. n \in Nat /\ n <= m
        OBVIOUS
      <3>2. n \notin Bad
        <4> HIDE DEF Bad
        <4> QED
          BY <2>1
      <3> QED
        BY <3>1, <3>2
    <2> HIDE DEF Bad
    <2> QED
      BY <2>1
  <1>1. PICK n \in Bad : \A k \in Bad : n <= k
    <2>1. Bad \subseteq Nat
      OBVIOUS
    <2> HIDE DEF Bad
    <2> QED
      BY <2>1, LeastNumber
  <1>2. n \in Nat /\ n <= m /\ g[n] # g[0] + n
    BY <1>1
  <1>3. n # 0
    BY <1>2
  <1>4. n - 1 \in Nat /\ n - 1 <= m /\ ~(n <= n - 1)
    BY <1>2, <1>3
  <1>5. n - 1 \notin Bad
    <2> HIDE DEF Bad
    <2> QED
      BY <1>1, <1>4
  <1>6. g[n - 1] = g[0] + (n - 1)
    BY <1>4, <1>5
  <1>7. g[n] = g[n - 1] + 1
    BY <1>2, <1>3
  <1> QED
    BY <1>2, <1>3, <1>6, <1>7

LEMMA Increases ==
    ASSUME NEW m \in Nat, NEW g \in [0 .. m -> Nat],
           \A i \in 1 .. m : g[i - 1] < g[i],
           NEW a \in 0 .. m, NEW n \in 0 .. m, a <= n
    PROVE  g[a] + (n - a) <= g[n]
  <1> DEFINE Bad == {k \in Nat : a <= k /\ k <= m /\ ~(g[a] + (k - a) <= g[k])}
  <1> SUFFICES ASSUME Bad # {}
               PROVE  FALSE
    <2>1. ASSUME Bad = {}
          PROVE  g[a] + (n - a) <= g[n]
      <3>1. n \in Nat /\ n <= m /\ a <= n
        OBVIOUS
      <3>2. n \notin Bad
        <4> HIDE DEF Bad
        <4> QED
          BY <2>1
      <3> QED
        BY <3>1, <3>2
    <2> HIDE DEF Bad
    <2> QED
      BY <2>1
  <1>1. PICK k \in Bad : \A j \in Bad : k <= j
    <2>1. Bad \subseteq Nat
      OBVIOUS
    <2> HIDE DEF Bad
    <2> QED
      BY <2>1, LeastNumber
  <1>2. k \in Nat /\ a <= k /\ k <= m /\ ~(g[a] + (k - a) <= g[k]) /\ a \in Nat
        /\ g[a] \in Nat /\ g[k] \in Nat
    BY <1>1
  <1>3. k # a
    BY <1>2
  <1>4. k - 1 \in Nat /\ a <= k - 1 /\ k - 1 <= m /\ ~(k <= k - 1)
        /\ k \in 1 .. m /\ k - 1 \in 0 .. m
    BY <1>2, <1>3
  <1>5. k - 1 \notin Bad
    <2> HIDE DEF Bad
    <2> QED
      BY <1>1, <1>4
  <1>6. g[a] + ((k - 1) - a) <= g[k - 1]
    BY <1>4, <1>5
  <1>7. g[k - 1] < g[k] /\ g[k - 1] \in Nat
    BY <1>4
  <1> QED
    BY ONLY <1>2, <1>4, <1>6, <1>7

(* A node that traverseToOffset takes for a leaf. *)
Single(id) == Len(nodes[id].items) = nodes[id].accumCount

(* An item under each key. *)
OneEach(s, id) ==
    \A n \in 0 .. Len(nodes[id].items) :
        /\ edge(nodes, s, id, n) = edge(nodes, s, id, 0) + n
        /\ edge(nodes, s, id, n) \in 0 .. Len(s)

LEMMA SingleOneEach ==
    ASSUME NEW h, Sound(nodes, h, rootNodeId), NEW s, Listed(nodes, h, s),
           NEW id \in DOMAIN nodes, Single(id)
    PROVE  OneEach(s, id)
  <1>1. PICK g : Edges(nodes, s, id, g)
    BY NodeEdges
  <1>2. PICK m : m = Len(nodes[id].items)
    OBVIOUS
  <1>3. /\ m \in Nat /\ Len(s) \in Nat
        /\ \A n \in 0 .. m : g[n] = edge(nodes, s, id, n) /\ g[n] \in Nat
        /\ \A i \in 1 .. m : g[i - 1] < g[i]
        /\ g \in [0 .. m -> 0 .. Len(s)]
    BY <1>1, <1>2 DEF Edges
  <1>4. g \in [0 .. m -> Nat]
    BY <1>3
  <1>5. 0 \in 0 .. m /\ m \in 0 .. m
    BY <1>3
  <1>6. m = g[m] - g[0]
    <2>1. nodes[id].accumCount = edge(nodes, s, id, m) - edge(nodes, s, id, 0)
      BY <1>2, AllSpan DEF NodeSpans
    <2> QED
      BY <2>1, <1>2, <1>3, <1>5 DEF Single
  <1>7. ASSUME NEW n \in 0 .. m
        PROVE  g[n] = g[0] + n
    <2>1. 0 <= n /\ n <= m /\ n \in Int
      BY <1>3
    <2>2. g[0] + (n - 0) <= g[n]
      BY <1>3, <1>4, <1>5, <2>1, Increases
    <2>3. g[n] + (m - n) <= g[m]
      BY <1>3, <1>4, <1>5, <2>1, Increases
    <2>4. g[0] \in Nat /\ g[n] \in Nat /\ g[m] \in Nat
      BY <1>4, <1>5
    <2> QED
      <3>1. m \in Int
        BY <1>3
      <3> QED
        BY ONLY <2>1, <2>2, <2>3, <2>4, <1>6, <3>1
  <1> QED
    BY <1>2, <1>3, <1>5, <1>7 DEF OneEach

LEMMA LeafSingle ==
    ASSUME NEW h, Sound(nodes, h, rootNodeId), NEW s, Listed(nodes, h, s),
           NEW id \in DOMAIN nodes, h[id] = 0
    PROVE  Single(id)
  <1>1. PICK g : Edges(nodes, s, id, g)
    BY NodeEdges
  <1>2. PICK m : m = Len(nodes[id].items)
    OBVIOUS
  <1>3. /\ m \in Nat
        /\ \A n \in 0 .. m : g[n] = edge(nodes, s, id, n) /\ g[n] \in Nat
        /\ g \in [0 .. m -> 0 .. Len(s)]
    BY <1>1, <1>2 DEF Edges
  <1>4. g \in [0 .. m -> Nat]
    BY <1>3
  <1>5. \A i \in 1 .. m : g[i] = g[i - 1] + 1
    BY <1>1, <1>2, LeafEdges
  <1>6. 0 \in 0 .. m /\ m \in 0 .. m
    BY <1>3
  <1>7. g[m] = g[0] + m
    BY <1>3, <1>4, <1>5, <1>6, StepsOfOne
  <1>8. nodes[id].accumCount = edge(nodes, s, id, m) - edge(nodes, s, id, 0)
    BY <1>2, AllSpan DEF NodeSpans
  <1> QED
    BY <1>2, <1>3, <1>6, <1>7, <1>8 DEF Single

(* A node above the leaves is taken for one only at the end of a level. *)
LEMMA SingleEnds ==
    ASSUME NEW h, Sound(nodes, h, rootNodeId), NEW s, Listed(nodes, h, s),
           NEW id \in DOMAIN nodes, Single(id)
    PROVE  nodes[id].nextSibling # 0 => h[id] = 0
  <1> SUFFICES ASSUME h[id] # 0, nodes[id].nextSibling # 0
               PROVE  FALSE
    OBVIOUS
  <1>1. SoundNode(nodes, h, id)
    BY NodeOfSound
  <1>2. PICK m : m = Len(nodes[id].items)
    OBVIOUS
  <1>3. m \in 1 .. Len(nodes[id].items) /\ ~(m < Len(nodes[id].items))
        /\ m \in 0 .. Len(nodes[id].items) /\ m - 1 \in 0 .. Len(nodes[id].items)
    BY <1>1, <1>2 DEF SoundNode
  <1>4. PICK c : c = nodes[id].items[m].nodeId
    OBVIOUS
  <1>5. ChildOf(nodes, h, id, m, c)
    BY <1>3, <1>4, ChildOfSound
  <1>6. nodes[c].nextSibling # 0
    <2>1. PICK b \in DOMAIN nodes : b = nodes[id].nextSibling /\ h[b] = h[id]
      BY <1>1 DEF SoundNode, LinkedAt
    <2>2. SoundNode(nodes, h, b)
      BY NodeOfSound
    <2>3. b # 0 /\ Len(nodes[b].items) # 0 /\ 1 \in 1 .. Len(nodes[b].items)
      BY <2>2 DEF SoundNode
    <2>4. nextKey(nodes, id, m) = nodes[b].items[1]
      BY <2>1, <2>3, <1>3 DEF nextKey, firstKey
    <2>5. ChildOf(nodes, h, b, 1, nodes[b].items[1].nodeId)
      BY <2>1, <2>3, ChildOfSound
    <2> QED
      BY <2>4, <2>5, <1>5 DEF ChildOf
  <1>7. c \in DOMAIN nodes
    BY <1>5 DEF ChildOf
  <1>8. Len(nodes[c].items) >= 2 /\ Len(nodes[c].items) \in Nat
    <2>1. Sized(nodes[c])
      BY <1>7 DEF Sound, Exact
    <2>2. Len(nodes[c].items) \in Nat
      BY <1>7, NodeOfSound DEF SoundNode
    <2> QED
      <3>1. MIN_ITEMS \in Nat /\ MIN_ITEMS >= 2
        BY Sizes
      <3>2. Len(nodes[c].items) >= MIN_ITEMS
        BY <2>1, <1>6 DEF Sized
      <3> QED
        BY ONLY <2>2, <3>1, <3>2
  <1>9. PICK g : Edges(nodes, s, c, g)
    BY <1>7, NodeEdges
  <1>10. PICK n \in Nat : n = Len(nodes[c].items)
    BY <1>8
  <1>11. /\ g \in [0 .. n -> Nat] /\ \A i \in 1 .. n : g[i - 1] < g[i]
         /\ g[0] = edge(nodes, s, c, 0) /\ g[n] = edge(nodes, s, c, n)
    <2>1. 0 \in 0 .. n /\ n \in 0 .. n
      BY <1>10
    <2>2. /\ g \in [0 .. n -> 0 .. Len(s)] /\ \A i \in 1 .. n : g[i - 1] < g[i]
          /\ \A a \in 0 .. n : g[a] = edge(nodes, s, c, a) /\ g[a] \in Nat
      BY <1>9, <1>10 DEF Edges
    <2> QED
      BY <2>1, <2>2
  <1>12. g[0] + (n - 0) <= g[n]
    <2>1. 0 \in 0 .. n /\ n \in 0 .. n /\ 0 <= n
      BY <1>10
    <2> QED
      BY <2>1, <1>11, Increases
  <1>13. /\ g[0] = edge(nodes, s, id, m - 1) /\ g[n] = edge(nodes, s, id, m)
    <2>1. /\ edge(nodes, s, c, 0) = edge(nodes, s, id, m - 1)
          /\ edge(nodes, s, c, Len(nodes[c].items)) = edge(nodes, s, id, m)
      BY <1>3, <1>4, ChildEdges
    <2> QED
      BY <2>1, <1>10, <1>11
  <1>14. OneEach(s, id)
    BY SingleOneEach
  <1>15. /\ edge(nodes, s, id, m - 1) = edge(nodes, s, id, 0) + (m - 1)
         /\ edge(nodes, s, id, m) = edge(nodes, s, id, 0) + m
    BY <1>3, <1>14 DEF OneEach
  <1>16. edge(nodes, s, id, 0) \in Int
    <2>1. 0 \in 0 .. Len(nodes[id].items) /\ s \in Seq(Nat)
      BY <1>1 DEF SoundNode, Listed
    <2>2. edge(nodes, s, id, 0) \in 0 .. Len(s)
      BY <2>1, <1>14 DEF OneEach
    <2> QED
      BY <2>1, <2>2
  <1>17. m \in Int /\ n >= 2
    BY <1>3, <1>8, <1>10
  <1> QED
    BY ONLY <1>12, <1>13, <1>15, <1>16, <1>17, <1>10

-----------------------------------------------------------------------------
(* traverseToOffset.                                                       *)

(* What is under the first n keys of a node. *)
before(id, n) == countOfAll(nodes, SubSeq(nodes[id].items, 1, n))
passed(id, n) == accumOfAll(nodes, SubSeq(nodes[id].items, 1, n))

pick(id, k) ==
    CHOOSE j \in 1 .. Len(nodes[id].items) : before(id, j - 1) <= k /\ k < before(id, j)

Numbers(s, id) ==
    /\ Len(nodes[id].items) \in Nat /\ Len(nodes[id].items) > 0 /\ Len(s) \in Nat
    /\ \A n \in 0 .. Len(nodes[id].items) :
          /\ edge(nodes, s, id, n) \in 0 .. Len(s)
          /\ edge(nodes, s, id, n) \in Nat
          /\ upTo(s, edge(nodes, s, id, n)) \in Int
          /\ before(id, n) = edge(nodes, s, id, n) - edge(nodes, s, id, 0)
          /\ before(id, n) \in Nat
          /\ passed(id, n) = upTo(s, edge(nodes, s, id, n)) - upTo(s, edge(nodes, s, id, 0))
          /\ passed(id, n) \in Int
    /\ before(id, 0) = 0
    /\ \A n \in 1 .. Len(nodes[id].items) : before(id, n - 1) < before(id, n)

LEMMA NumbersOf ==
    ASSUME NEW h, Sound(nodes, h, rootNodeId), NEW s, Listed(nodes, h, s),
           NEW id \in DOMAIN nodes
    PROVE  Numbers(s, id)
  <1>1. PICK g : Edges(nodes, s, id, g)
    BY NodeEdges
  <1>2. PICK m : m = Len(nodes[id].items)
    OBVIOUS
  <1>3. /\ m \in Nat /\ m > 0 /\ Len(s) \in Nat
        /\ g \in [0 .. m -> 0 .. Len(s)]
        /\ \A n \in 0 .. m : g[n] = edge(nodes, s, id, n) /\ g[n] \in Nat
        /\ \A i \in 1 .. m : g[i - 1] < g[i]
    BY <1>1, <1>2 DEF Edges
  <1>4. s \in Seq(Nat)
    BY DEF Listed
  <1>5. 0 \in 0 .. m /\ \A n \in 1 .. m : n - 1 \in 0 .. m /\ n \in 0 .. m
    BY <1>3
  <1>6. \A n \in 0 .. m : g[n] \in 0 .. Len(s) /\ upTo(s, g[n]) \in Int
    BY <1>3, <1>4, UpToType
  <1>7. ASSUME NEW n \in 0 .. m
        PROVE  /\ before(id, n) = g[n] - g[0]
               /\ passed(id, n) = upTo(s, g[n]) - upTo(s, g[0])
    <2>1. PrefixSpans(nodes, s, id, n)
      BY <1>2, AllPrefixes
    <2> QED
      BY <2>1, <1>3, <1>5 DEF PrefixSpans, before, passed
  <1>8. ASSUME NEW n \in 0 .. m
        PROVE  before(id, n) \in Nat /\ passed(id, n) \in Int
    <2>1. 0 <= n
      BY <1>3
    <2>2. g[0] + (n - 0) <= g[n]
      <3>1. g \in [0 .. m -> Nat]
        BY <1>3
      <3> QED
        BY <3>1, <2>1, <1>3, <1>5, Increases
    <2>3. g[0] \in Nat /\ g[n] \in Nat /\ n \in Nat
      BY <1>3, <1>5
    <2>4. g[n] - g[0] \in Nat
      BY ONLY <2>2, <2>3
    <2>5. upTo(s, g[n]) \in Int /\ upTo(s, g[0]) \in Int
      BY <1>5, <1>6
    <2> QED
      BY <2>4, <2>5, <1>7
  <1>9. before(id, 0) = 0
    <2>1. g[0] \in Nat
      BY <1>3, <1>5
    <2> QED
      BY <2>1, <1>5, <1>7
  <1>10. ASSUME NEW n \in 1 .. m
         PROVE  before(id, n - 1) < before(id, n)
    <2>1. before(id, n - 1) = g[n - 1] - g[0] /\ before(id, n) = g[n] - g[0]
      BY <1>5, <1>7
    <2>2. g[n - 1] < g[n] /\ g[n - 1] \in Nat /\ g[n] \in Nat /\ g[0] \in Nat
      BY <1>3, <1>5
    <2> QED
      BY ONLY <2>1, <2>2
  <1> QED
    BY <1>2, <1>3, <1>5, <1>6, <1>7, <1>8, <1>9, <1>10 DEF Numbers

(* The child that an offset leads to. *)
Descends(h, s, id, k, i, c) ==
    /\ i = pick(id, k)
    /\ i \in 1 .. Len(nodes[id].items)
    /\ c = nodes[id].items[i].nodeId
    /\ c \in DOMAIN nodes /\ h[c] < h[id]
    /\ k - before(id, i - 1) \in Nat
    /\ passed(id, i - 1) \in Int
    /\ edge(nodes, s, c, 0) = edge(nodes, s, id, 0) + before(id, i - 1)
    /\ k - before(id, i - 1) < before(c, Len(nodes[c].items))
    /\ upTo(s, edge(nodes, s, c, 0)) = upTo(s, edge(nodes, s, id, 0)) + passed(id, i - 1)

LEMMA Descent ==
    ASSUME NEW h, Sound(nodes, h, rootNodeId), NEW s, Listed(nodes, h, s),
           NEW id \in DOMAIN nodes, NEW k \in Nat, ~Single(id),
           ~(k >= before(id, Len(nodes[id].items)))
    PROVE  \E i, c : Descends(h, s, id, k, i, c)
  <1>1. Numbers(s, id)
    BY NumbersOf
  <1>2. PICK m : m = Len(nodes[id].items)
    OBVIOUS
  <1>3. /\ m \in Nat /\ m > 0 /\ before(id, 0) = 0
        /\ \A n \in 0 .. m : before(id, n) \in Nat
    BY <1>1, <1>2 DEF Numbers
  <1> DEFINE Above == {j \in Nat : j \in 1 .. m /\ k < before(id, j)}
  <1>4. PICK j \in Above : \A l \in Above : j <= l
    <2>1. m \in Above
      <3>1. m \in 0 .. m /\ m \in 1 .. m
        BY <1>3
      <3>2. before(id, m) \in Nat
        BY <3>1, <1>3
      <3>3. k < before(id, m)
        BY <3>2, <1>2
      <3> QED
        BY <3>1, <3>3
    <2>2. Above \subseteq Nat /\ Above # {}
      BY <2>1
    <2> HIDE DEF Above
    <2> QED
      BY <2>2, LeastNumber
  <1>5. j \in 1 .. m /\ k < before(id, j) /\ before(id, j - 1) <= k
    <2>1. j \in 1 .. m /\ k < before(id, j)
      BY <1>4
    <2>2. CASE j = 1
      BY <2>1, <2>2, <1>3
    <2>3. CASE j # 1
      <3>1. j - 1 \in 1 .. m /\ ~(j <= j - 1) /\ j - 1 \in 0 .. m /\ j - 1 \in Nat
        BY <2>1, <2>3, <1>3
      <3>2. j - 1 \notin Above
        <4> HIDE DEF Above
        <4> QED
          BY <3>1, <1>4
      <3>3. ~(k < before(id, j - 1)) /\ before(id, j - 1) \in Nat
        BY <3>1, <3>2, <1>3
      <3> QED
        BY <2>1, <3>3
    <2> QED
      BY <2>2, <2>3
  <1> HIDE DEF Above
  <1>6. PICK i : i = pick(id, k)
    OBVIOUS
  <1>7. i \in 1 .. m /\ before(id, i - 1) <= k /\ k < before(id, i)
    BY <1>2, <1>5, <1>6 DEF pick
  <1>8. h[id] # 0
    BY LeafSingle
  <1>9. PICK c : c = nodes[id].items[i].nodeId
    OBVIOUS
  <1>10. ChildOf(nodes, h, id, i, c)
    BY <1>2, <1>7, <1>8, <1>9, ChildOfSound
  <1>11. c \in DOMAIN nodes /\ h[c] < h[id]
    <2>1. h[id] \in Nat
      BY NodeOfSound DEF SoundNode
    <2> QED
      BY <2>1, <1>10 DEF ChildOf
  <1>12. /\ edge(nodes, s, c, 0) = edge(nodes, s, id, i - 1)
         /\ edge(nodes, s, c, Len(nodes[c].items)) = edge(nodes, s, id, i)
    BY <1>2, <1>7, <1>8, <1>9, ChildEdges
  <1>13. i - 1 \in 0 .. m /\ i \in 0 .. m /\ 0 \in 0 .. m
    BY <1>3, <1>7
  <1>14. /\ before(id, i - 1) = edge(nodes, s, id, i - 1) - edge(nodes, s, id, 0)
         /\ before(id, i) = edge(nodes, s, id, i) - edge(nodes, s, id, 0)
         /\ before(id, i - 1) \in Nat
         /\ passed(id, i - 1) = upTo(s, edge(nodes, s, id, i - 1)) - upTo(s, edge(nodes, s, id, 0))
         /\ passed(id, i - 1) \in Int
         /\ edge(nodes, s, id, i - 1) \in Nat /\ edge(nodes, s, id, i) \in Nat
         /\ edge(nodes, s, id, 0) \in Nat
         /\ upTo(s, edge(nodes, s, id, i - 1)) \in Int
         /\ upTo(s, edge(nodes, s, id, 0)) \in Int
    BY <1>1, <1>2, <1>13 DEF Numbers
  <1>15. before(c, Len(nodes[c].items))
            = edge(nodes, s, c, Len(nodes[c].items)) - edge(nodes, s, c, 0)
    <2>1. Numbers(s, c)
      BY <1>11, NumbersOf
    <2>2. Len(nodes[c].items) \in 0 .. Len(nodes[c].items)
      BY <2>1 DEF Numbers
    <2> QED
      BY <2>1, <2>2 DEF Numbers
  <1>16. k - before(id, i - 1) \in Nat
    BY ONLY <1>7, <1>14, k \in Nat
  <1>17. edge(nodes, s, c, 0) = edge(nodes, s, id, 0) + before(id, i - 1)
    BY ONLY <1>12, <1>14
  <1>18. k - before(id, i - 1) < before(c, Len(nodes[c].items))
    BY ONLY SMTT(30), <1>7, <1>12, <1>14, <1>15, k \in Nat
  <1>19. upTo(s, edge(nodes, s, c, 0)) = upTo(s, edge(nodes, s, id, 0)) + passed(id, i - 1)
    <2>1. upTo(s, edge(nodes, s, c, 0)) = upTo(s, edge(nodes, s, id, i - 1))
      BY <1>12
    <2> QED
      BY ONLY <2>1, <1>14
  <1>20. Descends(h, s, id, k, i, c)
    BY <1>2, <1>6, <1>7, <1>9, <1>11, <1>14, <1>16, <1>17, <1>18, <1>19 DEF Descends
  <1> QED
    BY <1>20

-----------------------------------------------------------------------------
(* traverseToOffset as a function of the node and the offset in it.        *)
Offsets == (DOMAIN nodes) \X Nat

turn(f, at) ==
    LET id == at[1]
        k  == at[2]
    IN  IF Len(nodes[id].items) = nodes[id].accumCount
        THEN [node |-> id, index |-> k, accum |-> 0]
        ELSE IF k >= before(id, Len(nodes[id].items))
        THEN [node |-> 0, index |-> 0, accum |-> accumOfAll(nodes, nodes[id].items)]
        ELSE [f[<<nodes[id].items[pick(id, k)].nodeId, k - before(id, pick(id, k) - 1)>>]
                 EXCEPT !.accum = @ + passed(id, pick(id, k) - 1)]

Traverses(f) == f = [at \in Offsets |-> turn(f, at)]

LEMMA TraversalIs ==
    ASSUME NEW offset
    PROVE  traverseToOffset(offset)
             = IF rootNodeId = 0 THEN [node |-> 0, index |-> 0, accum |-> 0]
               ELSE (CHOOSE f : Traverses(f))[<<rootNodeId, offset>>]
  BY DEF traverseToOffset, Traverses, Offsets, turn, before, passed, pick

Arrival == [node : DOMAIN nodes \cup {0}, index : Nat, accum : Int]

LEMMA TraversalExists ==
    ASSUME NEW h, Sound(nodes, h, rootNodeId), NEW s, Listed(nodes, h, s)
    PROVE  \E f : Traverses(f)
  <1> DEFINE F == [f \in [Offsets -> Arrival] |-> [at \in Offsets |-> turn(f, at)]]
             rank == [at \in Offsets |-> h[at[1]]]
  <1>1. ASSUME NEW at \in Offsets
        PROVE  at[1] \in DOMAIN nodes /\ at[2] \in Nat /\ rank[at] = h[at[1]]
    BY <1>1 DEF Offsets
  <1>2. rank \in [Offsets -> Nat]
    <2>1. \A id \in DOMAIN nodes : h[id] \in Nat
      BY NodeOfSound DEF SoundNode
    <2> QED
      BY <2>1, <1>1
  <1> HIDE DEF rank
  <1>3. ASSUME NEW at \in Offsets, ~Single(at[1]),
               ~(at[2] >= before(at[1], Len(nodes[at[1]].items)))
        PROVE  \E i, c : Descends(h, s, at[1], at[2], i, c)
    BY <1>1, <1>3, Descent
  <1>4. ASSUME NEW f \in [Offsets -> Arrival], NEW at \in Offsets
        PROVE  turn(f, at) \in Arrival
    <2>1. CASE Single(at[1])
      <3>1. turn(f, at) = [node |-> at[1], index |-> at[2], accum |-> 0]
        BY <2>1 DEF turn, Single
      <3> QED
        BY <3>1, <1>1 DEF Arrival
    <2>2. CASE ~Single(at[1]) /\ at[2] >= before(at[1], Len(nodes[at[1]].items))
      <3>1. turn(f, at) = [node |-> 0, index |-> 0,
                           accum |-> accumOfAll(nodes, nodes[at[1]].items)]
        BY <2>2 DEF turn, Single
      <3>2. accumOfAll(nodes, nodes[at[1]].items) \in Int
        <4>1. SoundNode(nodes, h, at[1]) /\ HasChildren(nodes, nodes[at[1]].items)
          BY <1>1, NodeOfSound, SoundCounts
        <4>2. nodes[at[1]].items \in Seq(KeyType)
          BY <4>1 DEF SoundNode
        <4>3. nodes \in [DOMAIN nodes -> NodeType]
          BY DEF Sound, Structure, Stored
        <4>4. accumOfAll(nodes, nodes[at[1]].items) \in Nat
          BY <4>1, <4>2, <4>3, CountType
        <4> QED
          BY <4>4
      <3> QED
        BY <3>1, <3>2 DEF Arrival
    <2>3. CASE ~Single(at[1]) /\ ~(at[2] >= before(at[1], Len(nodes[at[1]].items)))
      <3>1. PICK i, c : Descends(h, s, at[1], at[2], i, c)
        BY <2>3, <1>3
      <3>2. PICK r : r = f[<<c, at[2] - before(at[1], i - 1)>>]
        OBVIOUS
      <3>3. turn(f, at) = [r EXCEPT !.accum = @ + passed(at[1], i - 1)]
        BY <2>3, <3>1, <3>2 DEF turn, Single, Descends
      <3>4. <<c, at[2] - before(at[1], i - 1)>> \in Offsets
        BY <3>1 DEF Descends, Offsets
      <3>5. r \in Arrival /\ passed(at[1], i - 1) \in Int
        BY <3>1, <3>2, <3>4 DEF Descends
      <3> QED
        BY <3>3, <3>5 DEF Arrival
    <2> QED
      BY <2>1, <2>2, <2>3
  <1>5. ASSUME NEW f \in [Offsets -> Arrival], NEW g \in [Offsets -> Arrival],
               NEW at \in Offsets,
               \A y \in Offsets : rank[y] < rank[at] => f[y] = g[y]
        PROVE  turn(f, at) = turn(g, at)
    <2>1. CASE Single(at[1]) \/ at[2] >= before(at[1], Len(nodes[at[1]].items))
      BY <2>1 DEF turn, Single
    <2>2. CASE ~Single(at[1]) /\ ~(at[2] >= before(at[1], Len(nodes[at[1]].items)))
      <3>1. PICK i, c : Descends(h, s, at[1], at[2], i, c)
        BY <2>2, <1>3
      <3>2. PICK y : y = <<c, at[2] - before(at[1], i - 1)>>
        OBVIOUS
      <3>3. y \in Offsets /\ y[1] = c
        BY <3>1, <3>2 DEF Descends, Offsets
      <3>4. rank[y] < rank[at]
        BY <3>1, <3>3, <1>1 DEF Descends
      <3>5. f[y] = g[y]
        BY <3>3, <3>4, <1>5
      <3>6. /\ y = <<nodes[at[1]].items[pick(at[1], at[2])].nodeId,
                     at[2] - before(at[1], pick(at[1], at[2]) - 1)>>
        BY <3>1, <3>2 DEF Descends
      <3>7. \A e : turn(e, at) = IF Len(nodes[at[1]].items) = nodes[at[1]].accumCount
        THEN [node |-> at[1], index |-> at[2], accum |-> 0]
        ELSE IF at[2] >= before(at[1], Len(nodes[at[1]].items))
        THEN [node |-> 0, index |-> 0, accum |-> accumOfAll(nodes, nodes[at[1]].items)]
        ELSE [e[y] EXCEPT !.accum = @ + passed(at[1], pick(at[1], at[2]) - 1)]
        BY <3>6 DEF turn
      <3> QED
        BY <3>5, <3>7
    <2> QED
      BY SMTT(30), <2>1, <2>2
  <1>6. /\ F \in [[Offsets -> Arrival] -> [Offsets -> Arrival]]
        /\ \A f \in [Offsets -> Arrival] : F[f] = [at \in Offsets |-> turn(f, at)]
    BY <1>4
  <1>7. \A f, g \in [Offsets -> Arrival] : \A x \in Offsets :
          (\A y \in Offsets : rank[y] < rank[x] => f[y] = g[y]) => F[f][x] = F[g][x]
    <2> HIDE DEF F
    <2> TAKE f, g \in [Offsets -> Arrival]
    <2> TAKE x \in Offsets
    <2> HAVE \A y \in Offsets : rank[y] < rank[x] => f[y] = g[y]
    <2>1. turn(f, x) = turn(g, x)
      BY <1>5
    <2>2. F[f] = [at \in Offsets |-> turn(f, at)] /\ F[g] = [at \in Offsets |-> turn(g, at)]
      BY <1>6
    <2>3. F[f][x] = turn(f, x) /\ F[g][x] = turn(g, x)
      BY <2>2
    <2> QED
      BY <2>1, <2>3
  <1> HIDE DEF F
  <1>8. Recursion(Offsets, Arrival, rank, F)
    BY <1>2, <1>6, <1>7 DEF Recursion
  <1>9. Arrival # {}
    <2>1. [node |-> 0, index |-> 0, accum |-> 0] \in Arrival
      BY DEF Arrival
    <2> QED
      BY <2>1
  <1>10. PICK f \in [Offsets -> Arrival] : F[f] = f
    BY <1>8, <1>9, RecursionExists
  <1>11. Traverses(f)
    BY <1>6, <1>10 DEF Traverses
  <1> QED
    BY <1>11

(* Where the traversal arrives. *)
Arrives(s, id, k, r) ==
    /\ r = [node |-> r.node, index |-> r.index, accum |-> r.accum]
    /\ r.node \in DOMAIN nodes /\ Single(r.node)
    /\ r.index \in Nat /\ r.index < Len(nodes[r.node].items)
    /\ edge(nodes, s, r.node, 0) + r.index = edge(nodes, s, id, 0) + k
    /\ r.accum = upTo(s, edge(nodes, s, r.node, 0)) - upTo(s, edge(nodes, s, id, 0))

LEMMA TraversalArrives ==
    ASSUME NEW h, Sound(nodes, h, rootNodeId), NEW s, Listed(nodes, h, s),
           NEW f, Traverses(f), NEW id \in DOMAIN nodes, NEW k \in Nat,
           k < before(id, Len(nodes[id].items))
    PROVE  Arrives(s, id, k, f[<<id, k>>])
  <1> DEFINE Wrong(a, l) == /\ l \in Nat /\ l < before(a, Len(nodes[a].items))
                            /\ ~Arrives(s, a, l, f[<<a, l>>])
             Bad == {n \in Nat : \E a \in DOMAIN nodes : h[a] = n /\ \E l : Wrong(a, l)}
  <1>1. \A a \in DOMAIN nodes : h[a] \in Nat
    BY NodeOfSound DEF SoundNode
  <1>2. Bad = {}
    <2> SUFFICES ASSUME Bad # {}
                 PROVE  FALSE
      OBVIOUS
    <2>1. PICK n \in Bad : \A m \in Bad : n <= m
      <3>1. Bad \subseteq Nat
        OBVIOUS
      <3> HIDE DEF Bad
      <3> QED
        BY <3>1, LeastNumber
    <2>2. PICK a \in DOMAIN nodes : h[a] = n /\ \E l : Wrong(a, l)
      BY <2>1
    <2>3. PICK l : Wrong(a, l)
      BY <2>2
    <2>4. /\ l \in Nat /\ l < before(a, Len(nodes[a].items))
          /\ ~Arrives(s, a, l, f[<<a, l>>])
      BY <2>3
    <2>5. ASSUME NEW c \in DOMAIN nodes, h[c] < h[a], NEW j \in Nat,
                 j < before(c, Len(nodes[c].items))
          PROVE  Arrives(s, c, j, f[<<c, j>>])
      <3> SUFFICES ASSUME ~Arrives(s, c, j, f[<<c, j>>])
                   PROVE  FALSE
        OBVIOUS
      <3>1. Wrong(c, j)
        BY <2>5
      <3>2. h[c] \in Nat /\ ~(n <= h[c])
        BY <1>1, <2>2, <2>5
      <3>3. h[c] \in Bad
        <4> HIDE DEF Wrong
        <4> QED
          BY <3>1, <3>2
      <3> HIDE DEF Bad
      <3> QED
        BY <3>2, <3>3, <2>1
    <2> HIDE DEF Bad, Wrong
    <2>6. Numbers(s, a)
      BY NumbersOf
    <2>7. PICK r : r = f[<<a, l>>]
      OBVIOUS
    <2>8. r = turn(f, <<a, l>>)
      <3>1. <<a, l>> \in Offsets
        BY <2>4 DEF Offsets
      <3>2. f = [at \in Offsets |-> turn(f, at)]
        BY DEF Traverses
      <3>3. f[<<a, l>>] = [at \in Offsets |-> turn(f, at)][<<a, l>>]
        BY <3>2
      <3> QED
        BY <3>1, <3>3, <2>7
    <2>9. before(a, Len(nodes[a].items)) \in Nat
      <3>1. Len(nodes[a].items) \in 0 .. Len(nodes[a].items)
        BY <2>6 DEF Numbers
      <3> QED
        BY <3>1, <2>6 DEF Numbers
    <2>10. ~(l >= before(a, Len(nodes[a].items)))
      BY <2>4, <2>9
    <2>11. /\ edge(nodes, s, a, 0) \in Nat
           /\ upTo(s, edge(nodes, s, a, 0)) \in Int
      <3>1. 0 \in 0 .. Len(nodes[a].items)
        BY <2>6 DEF Numbers
      <3> QED
        BY <3>1, <2>6 DEF Numbers
    <2>12. CASE Single(a)
      <3>1. r = [node |-> a, index |-> l, accum |-> 0]
        BY <2>8, <2>12 DEF turn, Single
      <3>2. before(a, Len(nodes[a].items)) = nodes[a].accumCount
        <4>1. SoundNode(nodes, h, a)
          BY NodeOfSound
        <4>2. SubSeq(nodes[a].items, 1, Len(nodes[a].items)) = nodes[a].items
          BY <4>1 DEF SoundNode
        <4> QED
          BY <4>2, SoundCounts DEF before
      <3>3. l < Len(nodes[a].items)
        BY <3>2, <2>4, <2>12 DEF Single
      <3>4. /\ r.node = a /\ r.index = l /\ r.accum = 0
            /\ r = [node |-> r.node, index |-> r.index, accum |-> r.accum]
        BY <3>1
      <3>5. r.accum = upTo(s, edge(nodes, s, r.node, 0)) - upTo(s, edge(nodes, s, a, 0))
        BY <3>4, <2>11
      <3>6. Arrives(s, a, l, r)
        BY <3>3, <3>4, <3>5, <2>4, <2>12 DEF Arrives
      <3> QED
        BY <3>6, <2>4, <2>7
    <2>13. CASE ~Single(a)
      <3>1. PICK i, c : Descends(h, s, a, l, i, c)
        BY <2>4, <2>10, <2>13, Descent
      <3>2. PICK j \in Nat : j = l - before(a, i - 1)
        BY <3>1 DEF Descends
      <3>3. PICK w : w = f[<<c, j>>]
        OBVIOUS
      <3>4. r = [w EXCEPT !.accum = @ + passed(a, i - 1)]
        BY <2>8, <2>10, <2>13, <3>1, <3>2, <3>3 DEF turn, Single, Descends
      <3>5. Arrives(s, c, j, w)
        <4>1. c \in DOMAIN nodes /\ h[c] < h[a] /\ j < before(c, Len(nodes[c].items))
          BY <3>1, <3>2 DEF Descends
        <4> QED
          BY <4>1, <3>3, <2>5
      <3>6. /\ w.accum = upTo(s, edge(nodes, s, w.node, 0)) - upTo(s, edge(nodes, s, c, 0))
            /\ w = [node |-> w.node, index |-> w.index, accum |-> w.accum]
        BY <3>5 DEF Arrives
      <3>7. r = [node |-> w.node, index |-> w.index, accum |-> w.accum + passed(a, i - 1)]
        BY <3>4, <3>6
      <3>8. /\ r.node = w.node /\ r.index = w.index
            /\ r.accum = w.accum + passed(a, i - 1)
            /\ r = [node |-> r.node, index |-> r.index, accum |-> r.accum]
        BY <3>7
      <3>9. edge(nodes, s, w.node, 0) + w.index = edge(nodes, s, a, 0) + l
        <4>1. edge(nodes, s, w.node, 0) + w.index = edge(nodes, s, c, 0) + j
          BY <3>5 DEF Arrives
        <4>2. edge(nodes, s, c, 0) = edge(nodes, s, a, 0) + before(a, i - 1)
          BY <3>1 DEF Descends
        <4>3. before(a, i - 1) \in Int
          BY <3>1, <2>6 DEF Descends, Numbers
        <4> QED
          BY ONLY <4>1, <4>2, <4>3, <3>2, <2>4, <2>11
      <3>10. r.accum = upTo(s, edge(nodes, s, r.node, 0)) - upTo(s, edge(nodes, s, a, 0))
        <4>1. upTo(s, edge(nodes, s, w.node, 0)) \in Int
          <5>1. w.node \in DOMAIN nodes
            BY <3>5 DEF Arrives
          <5>2. Numbers(s, w.node)
            BY <5>1, NumbersOf
          <5>3. 0 \in 0 .. Len(nodes[w.node].items)
            BY <5>2 DEF Numbers
          <5> QED
            BY <5>2, <5>3 DEF Numbers
        <4>2. /\ upTo(s, edge(nodes, s, c, 0)) = upTo(s, edge(nodes, s, a, 0)) + passed(a, i - 1)
              /\ passed(a, i - 1) \in Int
          BY <3>1 DEF Descends
        <4> QED
          BY ONLY <4>1, <4>2, <3>6, <3>8, <2>11
      <3>11. Arrives(s, a, l, r)
        BY <3>5, <3>8, <3>9, <3>10 DEF Arrives
      <3> QED
        BY <3>11, <2>4, <2>7
    <2> QED
      BY <2>12, <2>13
  <1>3. ~Wrong(id, k)
    <2>1. h[id] \in Nat
      BY <1>1
    <2> HIDE DEF Wrong
    <2> QED
      BY <2>1, <1>2
  <1> QED
    BY <1>3

-----------------------------------------------------------------------------
(* getItem and iterate.                                                    *)

(* A key of a node taken for a leaf is the item of its place. *)
LEMMA SingleItem ==
    ASSUME NEW h, Sound(nodes, h, rootNodeId), NEW s, Listed(nodes, h, s),
           NEW id \in DOMAIN nodes, Single(id),
           NEW i \in 1 .. Len(nodes[id].items)
    PROVE  /\ s[edge(nodes, s, id, 0) + i] = nodes[id].items[i].item
           /\ edge(nodes, s, id, 0) + i \in 1 .. Len(s)
  <1>1. PICK g : Edges(nodes, s, id, g)
    BY NodeEdges
  <1>2. OneEach(s, id)
    BY SingleOneEach
  <1>3. /\ Len(nodes[id].items) \in Nat
        /\ \A n \in 0 .. Len(nodes[id].items) : g[n] = edge(nodes, s, id, n) /\ g[n] \in Nat
        /\ PlacedAt(s, nodes[id].items[i].item, g[i - 1] + 1)
    BY <1>1 DEF Edges
  <1>4. i - 1 \in 0 .. Len(nodes[id].items) /\ 0 \in 0 .. Len(nodes[id].items)
    BY <1>3
  <1>5. g[i - 1] = g[0] + (i - 1) /\ g[0] = edge(nodes, s, id, 0) /\ g[0] \in Nat
    <2>1. edge(nodes, s, id, i - 1) = edge(nodes, s, id, 0) + (i - 1)
      BY <1>2, <1>4 DEF OneEach
    <2> QED
      BY <2>1, <1>3, <1>4
  <1>6. g[i - 1] + 1 = edge(nodes, s, id, 0) + i
    BY <1>5
  <1> QED
    BY <1>3, <1>6 DEF PlacedAt

(* Offsets from the root. *)
LEMMA RootArrives ==
    ASSUME NEW h, Sound(nodes, h, rootNodeId), NEW s, Listed(nodes, h, s),
           NEW k \in Nat, k < Len(s)
    PROVE  Arrives(s, rootNodeId, k, traverseToOffset(k))
  <1>1. rootNodeId \in DOMAIN nodes /\ rootNodeId # 0
    <2>1. rootNodeId \in DOMAIN nodes
      BY RootEdges
    <2> QED
      BY <2>1, NodeOfSound DEF SoundNode
  <1>2. Numbers(s, rootNodeId)
    BY <1>1, NumbersOf
  <1>3. before(rootNodeId, Len(nodes[rootNodeId].items)) = Len(s)
    <2>1. Len(nodes[rootNodeId].items) \in 0 .. Len(nodes[rootNodeId].items)
      BY <1>2 DEF Numbers
    <2>2. before(rootNodeId, Len(nodes[rootNodeId].items))
            = edge(nodes, s, rootNodeId, Len(nodes[rootNodeId].items))
                - edge(nodes, s, rootNodeId, 0)
      BY <2>1, <1>2 DEF Numbers
    <2>3. /\ edge(nodes, s, rootNodeId, 0) = 0 /\ Len(s) \in Nat
          /\ edge(nodes, s, rootNodeId, Len(nodes[rootNodeId].items)) = Len(s)
      BY RootEdges
    <2> QED
      BY <2>2, <2>3
  <1>4. PICK f : f = CHOOSE e : Traverses(e)
    OBVIOUS
  <1>5. Traverses(f)
    BY <1>4, TraversalExists
  <1>6. Arrives(s, rootNodeId, k, f[<<rootNodeId, k>>])
    BY <1>1, <1>3, <1>5, TraversalArrives
  <1>7. traverseToOffset(k) = f[<<rootNodeId, k>>]
    BY <1>1, <1>4, TraversalIs
  <1> QED
    BY <1>6, <1>7

(* getItem. *)
LEMMA GetsItem ==
    ASSUME NEW h, Sound(nodes, h, rootNodeId), NEW s, Listed(nodes, h, s),
           NEW k \in Nat, k < Len(s)
    PROVE  getItem(k) = s[k + 1]
  <1>1. PICK r : r = traverseToOffset(k)
    OBVIOUS
  <1>2. Arrives(s, rootNodeId, k, r)
    BY <1>1, RootArrives
  <1>3. /\ r.node \in DOMAIN nodes /\ Single(r.node)
        /\ r.index \in Nat /\ r.index < Len(nodes[r.node].items)
        /\ edge(nodes, s, r.node, 0) + r.index = k
    <2>1. edge(nodes, s, rootNodeId, 0) = 0
      BY RootEdges
    <2> QED
      BY <1>2, <2>1 DEF Arrives
  <1>4. Numbers(s, r.node)
    BY <1>3, NumbersOf
  <1>5. Len(nodes[r.node].items) \in Nat /\ edge(nodes, s, r.node, 0) \in Nat
    <2>1. 0 \in 0 .. Len(nodes[r.node].items)
      BY <1>4 DEF Numbers
    <2> QED
      BY <2>1, <1>4 DEF Numbers
  <1>6. r.index + 1 \in 1 .. Len(nodes[r.node].items)
    BY <1>3, <1>5
  <1>7. s[edge(nodes, s, r.node, 0) + (r.index + 1)] = nodes[r.node].items[r.index + 1].item
    BY <1>3, <1>6, SingleItem
  <1>8. edge(nodes, s, r.node, 0) + (r.index + 1) = k + 1
    BY ONLY <1>3, <1>5, k \in Nat
  <1> QED
    BY <1>1, <1>7, <1>8 DEF getItem

-----------------------------------------------------------------------------
(* iterate as a function of the node, the index in it and the number of    *)
(* items to come. *)
Cursors == (DOMAIN nodes \cup {0}) \X (0 .. MAX_ITEMS) \X Nat

handed(f, at) ==
    LET id    == at[1]
        index == at[2]
        num   == at[3]
    IN  IF num = 0 \/ id = 0 THEN <<>>
        ELSE <<nodes[id].items[index + 1].item>> \o
             f[<<IF index + 1 >= Len(nodes[id].items) THEN nodes[id].nextSibling ELSE id,
                 IF index + 1 >= Len(nodes[id].items) THEN 0 ELSE index + 1, num - 1>>]

Runs(f) == f = [at \in Cursors |-> handed(f, at)]

LEMMA IterateIs ==
    ASSUME NEW b, NEW e
    PROVE  iterate(b, e) = (CHOOSE f : Runs(f))[<<traverseToOffset(b).node,
                                                 traverseToOffset(b).index, e - b>>]
  BY DEF iterate, Runs, Cursors, handed
=============================================================================
