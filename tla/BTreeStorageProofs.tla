------------------------- MODULE BTreeStorageProofs -------------------------
(***************************************************************************)
(* What users of the tree rely on.  First its queries and verify(), in any *)
(* tree in shape (TreeInv of module BTreeShape): the recursions of the code*)
(* are followed along the edges of the keys, and along the levels of the   *)
(* tree, in which each node stands once, next to its siblings.             *)
(*                                                                         *)
(* Then the tree over LMDB: what the code writes to the cache, and what it *)
(* deletes, is what changes of the tree; so the nodes it reads are the     *)
(* tree's, and what it keeps is the set that was saved last.               *)
(***************************************************************************)
EXTENDS BTreeLMDB, BTreeProofs

-----------------------------------------------------------------------------
LEMMA RunExists ==
    ASSUME NEW h, Sound(nodes, h, rootNodeId)
    PROVE  \E f : Runs(f)
  <1> DEFINE W == {nodes[at[1]].items[at[2] + 1].item : at \in Cursors}
             F == [f \in [Cursors -> Seq(W)] |-> [at \in Cursors |-> handed(f, at)]]
             rank == [at \in Cursors |-> at[3]]
  <1>1. ASSUME NEW at \in Cursors
        PROVE  /\ at[1] \in DOMAIN nodes \cup {0} /\ at[2] \in 0 .. MAX_ITEMS
               /\ at[3] \in Nat /\ rank[at] = at[3]
    BY DEF Cursors
  <1>2. rank \in [Cursors -> Nat]
    BY <1>1
  <1>3. \A at \in Cursors : nodes[at[1]].items[at[2] + 1].item \in W
    OBVIOUS
  <1> HIDE DEF W, rank
  <1>4. ASSUME NEW at \in Cursors, at[3] # 0, at[1] # 0
        PROVE  \E y \in Cursors :
                  /\ rank[y] < rank[at]
                  /\ \A f : handed(f, at) = <<nodes[at[1]].items[at[2] + 1].item>> \o f[y]
    <2>1. PICK id \in DOMAIN nodes : id = at[1]
      BY <1>1, <1>4
    <2>2. PICK index \in 0 .. MAX_ITEMS : index = at[2]
      BY <1>1
    <2>3. PICK num \in Nat : num = at[3] /\ num # 0
      BY <1>1, <1>4
    <2>4. SoundNode(nodes, h, id)
      BY NodeOfSound
    <2>5. nodes[id].nextSibling \in DOMAIN nodes \cup {0}
      BY <2>4 DEF SoundNode, LinkedAt
    <2>6. Len(nodes[id].items) \in 1 .. MAX_ITEMS
      BY DEF Sound, Exact, Sized
    <2>7. PICK y : y = <<IF index + 1 >= Len(nodes[id].items) THEN nodes[id].nextSibling ELSE id,
                         IF index + 1 >= Len(nodes[id].items) THEN 0 ELSE index + 1, num - 1>>
      OBVIOUS
    <2>8. MAX_ITEMS \in Nat
      BY Sizes
    <2>9. y \in Cursors /\ y[3] = num - 1
      <3>1. num - 1 \in Nat /\ 0 \in 0 .. MAX_ITEMS
        BY <2>3, <2>8
      <3>2. CASE index + 1 >= Len(nodes[id].items)
        <4>1. y = <<nodes[id].nextSibling, 0, num - 1>>
          BY <2>7, <3>2
        <4> QED
          BY <4>1, <3>1, <2>5 DEF Cursors
      <3>3. CASE ~(index + 1 >= Len(nodes[id].items))
        <4>1. y = <<id, index + 1, num - 1>>
          BY <2>7, <3>3
        <4>2. index + 1 \in 0 .. MAX_ITEMS
          BY <3>3, <2>6, <2>8
        <4> QED
          BY <4>1, <4>2, <3>1 DEF Cursors
      <3> QED
        BY <3>2, <3>3
    <2>10. rank[y] < rank[at]
      BY <2>3, <2>9, <1>1
    <2>11. \A f : handed(f, at) = <<nodes[at[1]].items[at[2] + 1].item>> \o f[y]
      BY <2>1, <2>2, <2>3, <2>7, <1>4 DEF handed
    <2> QED
      BY <2>9, <2>10, <2>11
  <1>5. ASSUME NEW f \in [Cursors -> Seq(W)], NEW at \in Cursors
        PROVE  handed(f, at) \in Seq(W)
    <2>1. CASE at[3] = 0 \/ at[1] = 0
      <3>1. handed(f, at) = <<>>
        BY <2>1 DEF handed
      <3> QED
        BY <3>1
    <2>2. CASE at[3] # 0 /\ at[1] # 0
      <3>1. PICK y \in Cursors :
               handed(f, at) = <<nodes[at[1]].items[at[2] + 1].item>> \o f[y]
        BY <2>2, <1>4
      <3>2. f[y] \in Seq(W) /\ nodes[at[1]].items[at[2] + 1].item \in W
        BY <1>3
      <3> QED
        BY <3>1, <3>2
    <2> QED
      BY <2>1, <2>2
  <1>6. ASSUME NEW f \in [Cursors -> Seq(W)], NEW g \in [Cursors -> Seq(W)],
               NEW at \in Cursors,
               \A y \in Cursors : rank[y] < rank[at] => f[y] = g[y]
        PROVE  handed(f, at) = handed(g, at)
    <2>1. CASE at[3] = 0 \/ at[1] = 0
      BY <2>1 DEF handed
    <2>2. CASE at[3] # 0 /\ at[1] # 0
      <3>1. PICK y \in Cursors :
               /\ rank[y] < rank[at]
               /\ \A e : handed(e, at) = <<nodes[at[1]].items[at[2] + 1].item>> \o e[y]
        BY <2>2, <1>4
      <3>2. f[y] = g[y]
        BY <3>1, <1>6
      <3> QED
        BY <3>1, <3>2
    <2> QED
      BY <2>1, <2>2
  <1>7. /\ F \in [[Cursors -> Seq(W)] -> [Cursors -> Seq(W)]]
        /\ \A f \in [Cursors -> Seq(W)] : F[f] = [at \in Cursors |-> handed(f, at)]
    BY <1>5
  <1> HIDE DEF F
  <1>8. \A f, g \in [Cursors -> Seq(W)] : \A x \in Cursors :
          (\A y \in Cursors : rank[y] < rank[x] => f[y] = g[y]) => F[f][x] = F[g][x]
    <2> TAKE f, g \in [Cursors -> Seq(W)]
    <2> TAKE x \in Cursors
    <2> HAVE \A y \in Cursors : rank[y] < rank[x] => f[y] = g[y]
    <2>1. handed(f, x) = handed(g, x)
      BY <1>6
    <2>2. /\ F[f] = [at \in Cursors |-> handed(f, at)]
          /\ F[g] = [at \in Cursors |-> handed(g, at)]
      BY <1>7
    <2>3. F[f][x] = handed(f, x) /\ F[g][x] = handed(g, x)
      BY <2>2
    <2> QED
      BY <2>1, <2>3
  <1>9. Recursion(Cursors, Seq(W), rank, F)
    BY <1>2, <1>7, <1>8 DEF Recursion
  <1>10. Seq(W) # {}
    <2>1. <<>> \in Seq(W)
      OBVIOUS
    <2> QED
      BY <2>1
  <1>11. PICK f \in [Cursors -> Seq(W)] : F[f] = f
    BY <1>9, <1>10, RecursionExists
  <1>12. Runs(f)
    BY <1>7, <1>11 DEF Runs
  <1> QED
    BY <1>12

LEMMA FirstOfSlice ==
    ASSUME NEW s \in Seq(Nat), NEW p \in Nat, NEW n \in Nat, n # 0, p + n <= Len(s)
    PROVE  /\ slice(s, p, p + n) = <<s[p + 1]>> \o slice(s, p + 1, p + n)
           /\ p + n = (p + 1) + (n - 1)
           /\ slice(s, p, p) = <<>>
  <1>1. /\ p + 1 \in 1 .. Len(s) /\ Len(s) \in Nat /\ p + n \in Nat
        /\ p + 1 <= p + n
    OBVIOUS
  <1>2. slice(s, p, p + n) \in Seq(Nat) /\ Len(slice(s, p, p + n)) = n
        /\ \A i \in 1 .. n : slice(s, p, p + n)[i] = s[p + i]
    BY <1>1 DEF slice
  <1>3. slice(s, p + 1, p + n) \in Seq(Nat) /\ Len(slice(s, p + 1, p + n)) = n - 1
        /\ \A i \in 1 .. n - 1 : slice(s, p + 1, p + n)[i] = s[p + 1 + i]
    BY <1>1 DEF slice
  <1>4. PICK t : t = <<s[p + 1]>> \o slice(s, p + 1, p + n)
    OBVIOUS
  <1>5. /\ t \in Seq(Nat) /\ Len(t) = n /\ t[1] = s[p + 1]
        /\ \A i \in 1 .. n - 1 : t[1 + i] = slice(s, p + 1, p + n)[i]
    <2>0. PICK x \in Nat : x = s[p + 1]
      BY <1>1
    <2>7. <<x>> \in Seq(Nat) /\ Len(<<x>>) = 1 /\ <<x>>[1] = x
      BY <2>0
    <2>1. PICK a \in Seq(Nat) : a = <<s[p + 1]>> /\ Len(a) = 1 /\ a[1] = s[p + 1]
      BY <2>0, <2>7
    <2>2. PICK c \in Seq(Nat) : c = slice(s, p + 1, p + n) /\ Len(c) = n - 1
      BY <1>3
    <2>3. Joins(Nat, a, c, t)
      BY <1>4, <2>1, <2>2, Joined
    <2>5. /\ t \in Seq(Nat) /\ Len(t) = Len(a) + Len(c)
          /\ \A i \in 1 .. Len(a) : t[i] = a[i]
          /\ \A i \in 1 .. Len(c) : t[Len(a) + i] = c[i]
      BY <2>3 DEF Joins
    <2>4. /\ t \in Seq(Nat) /\ Len(t) = 1 + (n - 1)
          /\ t[1] = a[1] /\ \A i \in 1 .. n - 1 : t[1 + i] = c[i]
      <3>1. Len(a) = 1 /\ Len(c) = n - 1 /\ 1 \in 1 .. 1
        BY <2>1, <2>2
      <3>2. \A i \in 1 .. 1 : t[i] = a[i]
        BY ONLY <2>5, <3>1
      <3>3. \A i \in 1 .. n - 1 : t[1 + i] = c[i]
        BY ONLY <2>5, <3>1
      <3>4. Len(t) = 1 + (n - 1)
        BY ONLY <2>5, <3>1
      <3> QED
        BY ONLY <2>5, <3>1, <3>2, <3>3, <3>4
    <2>6. Len(t) = n
      BY ONLY <2>4, n \in Nat
    <2> QED
      BY ONLY <2>1, <2>2, <2>4, <2>6
  <1>6. \A i \in 1 .. n : t[i] = s[p + i]
    <2> SUFFICES ASSUME NEW i \in 1 .. n
                 PROVE  t[i] = s[p + i]
      OBVIOUS
    <2>1. CASE i = 1
      BY <2>1, <1>5
    <2>2. CASE i # 1
      <3>1. i - 1 \in 1 .. n - 1 /\ 1 + (i - 1) = i /\ p + 1 + (i - 1) = p + i
        BY <2>2
      <3>2. t[1 + (i - 1)] = s[p + 1 + (i - 1)]
        BY <3>1, <1>3, <1>5
      <3> QED
        BY <3>1, <3>2
    <2> QED
      BY <2>1, <2>2
  <1>7. slice(s, p, p + n) = t
    <2>1. PICK u : u = slice(s, p, p + n)
      OBVIOUS
    <2>2. u \in Seq(Nat) /\ Len(u) = n /\ \A i \in 1 .. n : u[i] = s[p + i]
      BY <1>2, <2>1
    <2>3. u = t
      BY ONLY <2>2, <1>5, <1>6, SeqEqual, n \in Nat
    <2> QED
      BY <2>1, <2>3
  <1>8. slice(s, p, p) = <<>>
    BY DEF slice
  <1> QED
    BY <1>4, <1>7, <1>8

(* Where a cursor goes on. *)
OnCursor(s, id, index, num, p) ==
    /\ id \in DOMAIN nodes /\ Single(id)
    /\ index \in Nat /\ index < Len(nodes[id].items)
    /\ num \in Nat /\ p = edge(nodes, s, id, 0) + index /\ p \in Nat
    /\ p + num <= Len(s)

LEMMA CursorGoesOn ==
    ASSUME NEW h, Sound(nodes, h, rootNodeId), NEW s, Listed(nodes, h, s),
           NEW id, NEW index, NEW num, num > 1, NEW p, OnCursor(s, id, index, num, p)
    PROVE  IF index + 1 >= Len(nodes[id].items)
           THEN OnCursor(s, nodes[id].nextSibling, 0, num - 1, p + 1)
           ELSE OnCursor(s, id, index + 1, num - 1, p + 1)
  <1>1. /\ id \in DOMAIN nodes /\ Single(id)
        /\ index \in Nat /\ index < Len(nodes[id].items)
        /\ num \in Nat /\ p = edge(nodes, s, id, 0) + index /\ p \in Nat
        /\ p + num <= Len(s)
    BY DEF OnCursor
  <1>2. Numbers(s, id) /\ SoundNode(nodes, h, id)
    BY <1>1, NumbersOf, NodeOfSound
  <1>3. PICK m \in Nat : m = Len(nodes[id].items) /\ m > 0 /\ Len(s) \in Nat
    BY <1>2 DEF Numbers
  <1>4. PICK e \in Nat : e = edge(nodes, s, id, 0)
    <2>1. 0 \in 0 .. Len(nodes[id].items)
      BY <1>3
    <2> QED
      BY <2>1, <1>2 DEF Numbers
  <1>5. num - 1 \in Nat /\ p + 1 \in Nat /\ (p + 1) + (num - 1) <= Len(s)
    BY <1>1, <1>3
  <1>6. CASE ~(index + 1 >= m)
    <2>1. index + 1 \in Nat /\ index + 1 < m /\ p + 1 = e + (index + 1)
      BY SMTT(30), <1>1, <1>3, <1>4, <1>6
    <2> QED
      BY <2>1, <1>1, <1>3, <1>4, <1>5, <1>6 DEF OnCursor
  <1>7. CASE index + 1 >= m
    <2>1. index + 1 = m /\ p + 1 = e + m
      BY SMTT(30), <1>1, <1>3, <1>4, <1>7
    <2>2. edge(nodes, s, id, m) = p + 1
      <3>1. OneEach(s, id) /\ m \in 0 .. Len(nodes[id].items)
        BY <1>1, <1>3, SingleOneEach
      <3> QED
        BY <3>1, <2>1, <1>4 DEF OneEach
    <2>3. edge(nodes, s, id, m) = place(s, firstKey(nodes, nodes[id].nextSibling))
      <3>1. m # 0 /\ ~(m < Len(nodes[id].items))
        BY <1>3
      <3> QED
        BY <3>1 DEF edge, nextKey
    <2>4. nodes[id].nextSibling # 0
      <3> SUFFICES ASSUME nodes[id].nextSibling = 0
                   PROVE  FALSE
        OBVIOUS
      <3>1. edge(nodes, s, id, m) = Len(s)
        BY <2>3 DEF firstKey, place
      <3> QED
        BY <3>1, <2>2, <1>1, <1>3
    <2>5. PICK b \in DOMAIN nodes : b = nodes[id].nextSibling /\ h[b] = h[id]
      BY <2>4, <1>2 DEF SoundNode, LinkedAt
    <2>6. h[b] = 0
      BY <2>4, <2>5, <1>1, SingleEnds
    <2>7. Single(b)
      BY <2>6, LeafSingle
    <2>8. Numbers(s, b) /\ b # 0 /\ Len(nodes[b].items) > 0 /\ Len(nodes[b].items) \in Nat
      BY NumbersOf, NodeOfSound DEF SoundNode
    <2>9. edge(nodes, s, b, 0) = p + 1
      <3>1. firstKey(nodes, b) = nodes[b].items[1]
        BY <2>8 DEF firstKey
      <3>2. edge(nodes, s, b, 0) = place(s, nodes[b].items[1])
        BY DEF edge
      <3> QED
        BY <3>1, <3>2, <2>2, <2>3, <2>5
    <2>10. OnCursor(s, b, 0, num - 1, p + 1)
      <3>1. p + 1 = edge(nodes, s, b, 0) + 0 /\ 0 < Len(nodes[b].items)
        BY <2>8, <2>9, <1>5
      <3> QED
        BY <3>1, <2>7, <1>5 DEF OnCursor
    <2> QED
      BY <2>5, <2>10, <1>3, <1>7
  <1> QED
    BY <1>3, <1>6, <1>7

-----------------------------------------------------------------------------
(* A run hands over the items from its place on. *)
OneStep(f, s, id, index, num, p) ==
    f[<<id, index, num>>]
        = <<nodes[id].items[index + 1].item>> \o
          f[<<IF index + 1 >= Len(nodes[id].items) THEN nodes[id].nextSibling ELSE id,
              IF index + 1 >= Len(nodes[id].items) THEN 0 ELSE index + 1, num - 1>>]

LEMMA RunSteps ==
    ASSUME NEW h, Sound(nodes, h, rootNodeId), NEW s, Listed(nodes, h, s),
           NEW f, Runs(f), NEW id, NEW index, NEW num, NEW p,
           OnCursor(s, id, index, num, p)
    PROVE  /\ num = 0 => f[<<id, index, num>>] = <<>>
           /\ num # 0 => OneStep(f, s, id, index, num, p)
           /\ \A a \in DOMAIN nodes \cup {0}, i \in 0 .. MAX_ITEMS :
                 f[<<a, i, 0>>] = <<>>
  <1>1. /\ id \in DOMAIN nodes /\ index \in Nat /\ index < Len(nodes[id].items)
        /\ num \in Nat
    BY DEF OnCursor
  <1>2. Len(nodes[id].items) \in 1 .. MAX_ITEMS
    BY <1>1 DEF Sound, Exact, Sized
  <1>3. MAX_ITEMS \in Nat
    BY NodeSizeAssumption
  <1>4. index \in 0 .. MAX_ITEMS
    BY <1>1, <1>2, <1>3
  <1>5. <<id, index, num>> \in Cursors
    BY <1>1, <1>4 DEF Cursors
  <1>6. f = [at \in Cursors |-> handed(f, at)]
    BY DEF Runs
  <1>7. f[<<id, index, num>>] = handed(f, <<id, index, num>>)
    <2>1. f[<<id, index, num>>] = [at \in Cursors |-> handed(f, at)][<<id, index, num>>]
      BY <1>6
    <2> QED
      BY <1>5, <2>1
  <1>8. id # 0
    <2>1. SoundNode(nodes, h, id)
      BY <1>1, NodeOfSound
    <2> QED
      BY <2>1 DEF SoundNode
  <1>9. ASSUME num = 0
        PROVE  f[<<id, index, num>>] = <<>>
    BY <1>7, <1>9 DEF handed
  <1>10. ASSUME num # 0
         PROVE  OneStep(f, s, id, index, num, p)
    BY <1>7, <1>8, <1>10 DEF handed, OneStep
  <1>11. ASSUME NEW a \in DOMAIN nodes \cup {0}, NEW i \in 0 .. MAX_ITEMS
         PROVE  f[<<a, i, 0>>] = <<>>
    <2>1. <<a, i, 0>> \in Cursors
      BY DEF Cursors
    <2>2. f[<<a, i, 0>>] = [at \in Cursors |-> handed(f, at)][<<a, i, 0>>]
      BY <1>6
    <2> QED
      BY <2>1, <2>2 DEF handed
  <1> QED
    BY <1>9, <1>10, <1>11

LEMMA RunsRight ==
    ASSUME NEW h, Sound(nodes, h, rootNodeId), NEW s, Listed(nodes, h, s),
           NEW f, Runs(f), NEW id, NEW index, NEW num, NEW p,
           OnCursor(s, id, index, num, p)
    PROVE  f[<<id, index, num>>] = slice(s, p, p + num)
  <1> DEFINE Wrong(a, i, n, q) == /\ OnCursor(s, a, i, n, q)
                                  /\ f[<<a, i, n>>] # slice(s, q, q + n)
             Bad == {n \in Nat : \E a, i, q : Wrong(a, i, n, q)}
  <1>1. Bad = {}
    <2> SUFFICES ASSUME Bad # {}
                 PROVE  FALSE
      OBVIOUS
    <2>1. PICK n \in Bad : \A m \in Bad : n <= m
      <3>1. Bad \subseteq Nat
        OBVIOUS
      <3> HIDE DEF Bad
      <3> QED
        BY <3>1, LeastNumber
    <2>2. n \in Nat /\ \E a, i, q : Wrong(a, i, n, q)
      BY <2>1
    <2> HIDE DEF Wrong
    <2>3. PICK a, i, q : Wrong(a, i, n, q)
      BY <2>2
    <2>4. OnCursor(s, a, i, n, q) /\ f[<<a, i, n>>] # slice(s, q, q + n)
      BY <2>3 DEF Wrong
    <2>5. \A b, j, r : OnCursor(s, b, j, n - 1, r) /\ n # 0
                         => f[<<b, j, n - 1>>] = slice(s, r, r + (n - 1))
      <3> SUFFICES ASSUME NEW b, NEW j, NEW r, OnCursor(s, b, j, n - 1, r), n # 0,
                          f[<<b, j, n - 1>>] # slice(s, r, r + (n - 1))
                   PROVE  FALSE
        OBVIOUS
      <3>1. Wrong(b, j, n - 1, r)
        BY DEF Wrong
      <3>2. n - 1 \in Nat /\ ~(n <= n - 1)
        BY <2>2
      <3>3. n - 1 \in Bad
        BY <3>1, <3>2
      <3> HIDE DEF Bad
      <3> QED
        BY <3>2, <3>3, <2>1
    <2> HIDE DEF Bad
    <2>6. /\ a \in DOMAIN nodes /\ i \in Nat /\ i < Len(nodes[a].items)
          /\ q = edge(nodes, s, a, 0) + i /\ q \in Nat /\ q + n <= Len(s)
          /\ Single(a)
      BY <2>4 DEF OnCursor
    <2>7. s \in Seq(Nat) /\ Len(s) \in Nat
      <3>1. s \in Seq(Nat)
        BY DEF Listed
      <3> QED
        BY <3>1
    <2>8. CASE n = 0
      <3>1. f[<<a, i, n>>] = <<>>
        BY <2>4, <2>8, RunSteps
      <3>2. slice(s, q, q) = <<>> /\ q + 0 = q
        BY <2>6 DEF slice
      <3> QED
        BY <2>4, <2>8, <3>1, <3>2
    <2>9. CASE n # 0
      <3>1. OneStep(f, s, a, i, n, q)
        BY <2>4, <2>9, RunSteps
      <3>2. nodes[a].items[i + 1].item = s[q + 1]
        <4>1. PICK e \in Nat : e = edge(nodes, s, a, 0)
          <5>1. Numbers(s, a)
            BY <2>6, NumbersOf
          <5>2. 0 \in 0 .. Len(nodes[a].items)
            BY <5>1 DEF Numbers
          <5> QED
            BY <5>1, <5>2 DEF Numbers
        <4>2. i + 1 \in 1 .. Len(nodes[a].items)
          <5>1. SoundNode(nodes, h, a)
            BY <2>6, NodeOfSound
          <5>2. Len(nodes[a].items) \in Nat
            BY <5>1 DEF SoundNode
          <5> QED
            BY <5>2, <2>6
        <4>3. s[edge(nodes, s, a, 0) + (i + 1)] = nodes[a].items[i + 1].item
          BY <4>2, <2>6, SingleItem
        <4>4. edge(nodes, s, a, 0) + (i + 1) = q + 1
          BY <4>1, <2>6
        <4> QED
          BY <4>3, <4>4
      <3>3. PICK b, j : /\ b = IF i + 1 >= Len(nodes[a].items)
                               THEN nodes[a].nextSibling ELSE a
                        /\ j = IF i + 1 >= Len(nodes[a].items) THEN 0 ELSE i + 1
        OBVIOUS
      <3>4. f[<<a, i, n>>] = <<s[q + 1]>> \o f[<<b, j, n - 1>>]
        BY <3>1, <3>2, <3>3 DEF OneStep
      <3>5. /\ slice(s, q, q + n) = <<s[q + 1]>> \o slice(s, q + 1, q + n)
            /\ q + n = (q + 1) + (n - 1)
        BY <2>2, <2>6, <2>7, <2>9, FirstOfSlice
      <3>6. f[<<b, j, n - 1>>] = slice(s, q + 1, (q + 1) + (n - 1))
        <4>1. CASE n = 1
          <5>1. b \in DOMAIN nodes \cup {0} /\ j \in 0 .. MAX_ITEMS
            <6>1. nodes[a].nextSibling \in DOMAIN nodes \cup {0}
              <7>1. SoundNode(nodes, h, a)
                BY <2>6, NodeOfSound
              <7> QED
                BY <7>1 DEF SoundNode, LinkedAt
            <6>2. Len(nodes[a].items) \in 1 .. MAX_ITEMS /\ MAX_ITEMS \in Nat
              BY <2>6, NodeSizeAssumption DEF Sound, Exact, Sized
            <6>3. j \in 0 .. MAX_ITEMS
              BY <6>2, <3>3, <2>6
            <6> QED
              BY <6>1, <6>3, <3>3, <2>6
          <5>2. f[<<b, j, 0>>] = <<>>
            BY <5>1, <2>4, RunSteps
          <5>3. n - 1 = 0 /\ (q + 1) + (n - 1) = q + 1
            BY <4>1, <2>6
          <5>4. slice(s, q + 1, q + 1) = <<>>
            <6>1. q + 1 < (q + 1) + 1
              BY <2>6
            <6> QED
              BY <6>1, <2>6 DEF slice
          <5> QED
            BY <5>2, <5>3, <5>4
        <4>2. CASE n # 1
          <5>1. n > 1
            BY <2>2, <2>9, <4>2
          <5>2. OnCursor(s, b, j, n - 1, q + 1)
            BY <5>1, <2>4, <3>3, CursorGoesOn
          <5> QED
            BY <5>2, <2>5, <2>9
        <4> QED
          BY <4>1, <4>2
      <3>7. f[<<a, i, n>>] = slice(s, q, q + n)
        BY <3>4, <3>5, <3>6
      <3> QED
        BY <3>7, <2>4
    <2> QED
      BY <2>8, <2>9
  <1>2. num \in Nat
    BY DEF OnCursor
  <1> QED
    <2> SUFFICES ASSUME f[<<id, index, num>>] # slice(s, p, p + num)
                 PROVE  FALSE
      OBVIOUS
    <2>1. Wrong(id, index, num, p)
      OBVIOUS
    <2>2. num \in Bad
      <3> HIDE DEF Wrong
      <3> QED
        BY <1>2, <2>1
    <2> HIDE DEF Bad
    <2> QED
      BY <2>2, <1>1

-----------------------------------------------------------------------------
(* The items in order; their fingerprints.                                 *)

(* The items of the tree in order. *)
LEMMA FiniteContents ==
    ASSUME NEW h, Sound(nodes, h, rootNodeId), DOMAIN nodes \subseteq 1 .. nextNodeId - 1,
           nextNodeId \in Nat,
           \A x \in contents : InLeaf(nodes, h, x)
    PROVE  IsFiniteSet(contents)
  <1> DEFINE D == DOMAIN nodes
             P == D \X (1 .. MAX_ITEMS)
             f == [at \in P |-> nodes[at[1]].items[at[2]].item]
             C == {f[at] : at \in P}
  <1>1. IsFiniteSet(D)
    <2>1. IsFiniteSet(1 .. nextNodeId - 1)
      BY FS_Interval
    <2> QED
      BY <2>1, FS_Subset
  <1>2. IsFiniteSet(P)
    <2>1. IsFiniteSet(1 .. MAX_ITEMS)
      BY FS_Interval, NodeSizeAssumption
    <2> QED
      BY <1>1, <2>1, FS_Product
  <1>3. IsFiniteSet(C)
    <2>1. f \in Surjection(P, C)
      BY DEF Surjection
    <2> HIDE DEF P, C, f
    <2> QED
      BY SMTT(30), <2>1, <1>2, FS_Surjection
  <1>4. contents \subseteq C
    <2> SUFFICES ASSUME NEW x \in contents
                 PROVE  x \in C
      OBVIOUS
    <2>1. InLeaf(nodes, h, x)
      OBVIOUS
    <2>2. PICK id \in DOMAIN nodes : \E i \in DOMAIN nodes[id].items :
              nodes[id].items[i].item = x
      BY <2>1 DEF InLeaf
    <2>3. PICK i \in DOMAIN nodes[id].items : nodes[id].items[i].item = x
      BY <2>2
    <2>4. i \in 1 .. MAX_ITEMS
      <3>1. DOMAIN nodes[id].items = 1 .. Len(nodes[id].items)
        BY NodeOfSound DEF SoundNode
      <3>2. Len(nodes[id].items) \in 1 .. MAX_ITEMS
        BY DEF Sound, Exact, Sized
      <3> QED
        BY <3>1, <3>2, <2>3, NodeSizeAssumption
    <2>5. <<id, i>> \in P /\ f[<<id, i>>] = x
      BY <2>3, <2>4
    <2> QED
      BY <2>5
  <1> HIDE DEF C
  <1> QED
    BY <1>3, <1>4, FS_Subset

LEMMA AscendingCovers ==
    ASSUME NEW S \in SUBSET Int, IsFiniteSet(S), NEW x \in S
    PROVE  \E k \in 1 .. Cardinality(S) : ascending(S)[k] = x
  <1>1. PICK n \in Nat : n = Cardinality(S)
    BY FS_CardinalityType
  <1>2. PICK s : s = ascending(S)
    OBVIOUS
  <1>3. s \in Seq(S) /\ Len(s) = n /\ Strict(s)
    BY <1>1, <1>2, Ascending
  <1>4. s \in [1 .. n -> S] /\ \A i \in 1 .. n : s[i] \in Int
    <2>1. s \in [1 .. n -> S]
      BY <1>3
    <2>2. \A i \in 1 .. n : s[i] \in S
      BY <2>1
    <2> QED
      BY <2>1, <2>2
  <1>5. \A i, j \in 1 .. n : s[i] = s[j] => i = j
    <2> SUFFICES ASSUME NEW i \in 1 .. n, NEW j \in 1 .. n, s[i] = s[j], i # j
                 PROVE  FALSE
      OBVIOUS
    <2>1. i < j \/ j < i
      OBVIOUS
    <2>2. s[i] < s[j] \/ s[j] < s[i]
      BY <2>1, <1>3 DEF Strict
    <2> QED
      BY <2>2, <1>4
  <1>6. s \in Injection(1 .. n, S)
    BY <1>4, <1>5 DEF Injection, IsInjective
  <1>7. Cardinality(1 .. n) = n
    BY FS_Interval
  <1>8. s \in Surjection(1 .. n, S)
    BY <1>1, <1>6, <1>7, FS_Injection
  <1> QED
    BY <1>1, <1>2, <1>8 DEF Surjection

LEMMA OrderedIs ==
    ASSUME TypeOK, TreeInv, Idle, NEW h, Shape(h)
    PROVE  IF rootNodeId = 0 THEN contents = {} /\ Ordered = <<>> /\ DOMAIN nodes = {}
           ELSE Sound(nodes, h, rootNodeId) /\ Listed(nodes, h, Ordered)
  <1>1. /\ \A item \in Items : item \in contents <=> InLeaf(nodes, h, item)
        /\ rootNodeId = 0 => DOMAIN nodes = {}
        /\ rootNodeId # 0 => Sound(nodes, h, rootNodeId)
    BY SoundAtRest
  <1>2. contents \subseteq Items /\ Items \subseteq Nat
        /\ DOMAIN nodes \subseteq 1 .. nextNodeId - 1 /\ nextNodeId \in Nat
    BY ItemsAssumption DEF TreeInv
  <1>3. CASE rootNodeId = 0
    <2>1. contents = {}
      BY <1>1, <1>2, <1>3 DEF InLeaf
    <2>2. Cardinality(contents) = 0
      BY <2>1, FS_EmptySet
    <2>3. Ordered = <<>>
      BY <2>2 DEF Ordered, ascending
    <2> QED
      BY <1>1, <1>3, <2>1, <2>3
  <1>4. CASE rootNodeId # 0
    <2>1. Sound(nodes, h, rootNodeId)
      BY <1>1, <1>4
    <2>2. IsFiniteSet(contents)
      <3>1. \A x \in contents : InLeaf(nodes, h, x)
        BY <1>1, <1>2
      <3> QED
        BY <2>1, <3>1, <1>2, FiniteContents
    <2>3. \A x : InLeaf(nodes, h, x) <=> x \in contents
      <3> SUFFICES ASSUME NEW x, InLeaf(nodes, h, x)
                   PROVE  x \in contents
        BY <1>1, <1>2
      <3>1. PICK id \in DOMAIN nodes : \E i \in DOMAIN nodes[id].items :
                nodes[id].items[i].item = x
        BY DEF InLeaf
      <3>2. PICK i \in DOMAIN nodes[id].items : nodes[id].items[i].item = x
        BY <3>1
      <3>3. nodes[id].items[i] \in ToSet(keysOf(id))
        BY <3>2 DEF ToSet, keysOf
      <3>4. \A key \in ToSet(keysOf(id)) : key.item \in Items
        BY DEF TypeOK
      <3>5. x \in Items
        BY <3>2, <3>3, <3>4
      <3> QED
        BY <3>5, <1>1
    <2>4. PICK s : s = Ordered
      OBVIOUS
    <2>5. s \in Seq(contents) /\ Len(s) = Cardinality(contents) /\ Strict(s)
      <3>1. contents \in SUBSET Int
        BY <1>2
      <3> QED
        BY <2>2, <2>4, <3>1, Ascending DEF Ordered
    <2>6. \A k \in 1 .. Cardinality(contents) : s[k] \in contents
      BY <2>5
    <2>7. \A x \in contents : \E i \in 1 .. Len(s) : s[i] = x
      <3>1. \A x \in contents : \E k \in 1 .. Cardinality(contents) : ascending(contents)[k] = x
        <4>1. contents \in SUBSET Int
          BY <1>2
        <4> QED
          BY <4>1, <2>2, AscendingCovers
      <3> QED
        BY <3>1, <2>4, <2>5 DEF Ordered
    <2>8. s \in Seq(Nat)
      <3>1. s \in [1 .. Len(s) -> contents] /\ Len(s) \in Nat
        BY <2>5
      <3>2. s \in [1 .. Len(s) -> Nat]
        BY <3>1, <1>2
      <3> QED
        BY <3>1, <3>2, SeqDef
    <2>9. Listed(nodes, h, s)
      BY <2>3, <2>5, <2>6, <2>7, <2>8 DEF Listed
    <2> QED
      BY <1>4, <2>1, <2>4, <2>9
  <1> QED
    BY <1>3, <1>4

-----------------------------------------------------------------------------
(* The traversal to the end. *)
LEMMA EndArrives ==
    ASSUME NEW h, Sound(nodes, h, rootNodeId), NEW s, Listed(nodes, h, s)
    PROVE  /\ Single(rootNodeId) =>
                 /\ traverseToOffset(Len(s))
                      = [node |-> rootNodeId, index |-> Len(s), accum |-> 0]
                 /\ Len(nodes[rootNodeId].items) = Len(s)
           /\ ~Single(rootNodeId) =>
                 traverseToOffset(Len(s))
                      = [node |-> 0, index |-> 0, accum |-> upTo(s, Len(s)) - upTo(s, 0)]
  <1>1. PICK root : root = rootNodeId
    OBVIOUS
  <1>2. PICK k : k = Len(s)
    OBVIOUS
  <1>3. /\ root \in DOMAIN nodes /\ edge(nodes, s, root, 0) = 0
        /\ edge(nodes, s, root, Len(nodes[root].items)) = k
        /\ nodes[root].accumCount = k /\ k \in Nat /\ k > 0
    BY <1>1, <1>2, RootEdges
  <1>4. SoundNode(nodes, h, root) /\ root # 0
    BY <1>3, NodeOfSound DEF SoundNode
  <1>5. PICK f : Traverses(f) /\ f = CHOOSE g : Traverses(g)
    BY TraversalExists
  <1>6. traverseToOffset(k) = f[<<root, k>>]
    BY <1>1, <1>4, <1>5, TraversalIs
  <1>7. f[<<root, k>>] = turn(f, <<root, k>>)
    <2>1. <<root, k>> \in Offsets
      BY <1>3 DEF Offsets
    <2>2. f = [at \in Offsets |-> turn(f, at)]
      BY <1>5 DEF Traverses
    <2>3. f[<<root, k>>] = [at \in Offsets |-> turn(f, at)][<<root, k>>]
      BY <2>2
    <2> QED
      BY <2>1, <2>3
  <1>8. PICK m : m = Len(nodes[root].items)
    OBVIOUS
  <1>9. /\ m \in Nat /\ m \in 0 .. m
        /\ before(root, m) = k - 0 /\ passed(root, m) = upTo(s, k) - upTo(s, 0)
    <2>1. Numbers(s, root)
      BY <1>3, NumbersOf
    <2>2. m \in 0 .. m /\ m \in Nat
      BY <2>1, <1>8 DEF Numbers
    <2> QED
      BY <2>1, <2>2, <1>3, <1>8 DEF Numbers
  <1>10. passed(root, m) = accumOfAll(nodes, nodes[root].items)
    <2>1. PICK items \in Seq(KeyType) : items = nodes[root].items
      BY <1>4 DEF SoundNode
    <2>2. SubSeq(items, 1, Len(items)) = items
      OBVIOUS
    <2> QED
      BY <2>1, <2>2, <1>8 DEF passed
  <1>11. CASE Single(root)
    <2>1. m = k
      BY <1>3, <1>8, <1>11 DEF Single
    <2>2. turn(f, <<root, k>>) = [node |-> root, index |-> k, accum |-> 0]
      BY <1>11 DEF turn, Single
    <2> QED
      BY <1>1, <1>2, <1>6, <1>7, <1>8, <1>11, <2>1, <2>2
  <1>12. CASE ~Single(root)
    <2>1. before(root, Len(nodes[root].items)) = k
      BY <1>3, <1>8, <1>9
    <2>2. k >= before(root, Len(nodes[root].items))
      BY <2>1, <1>3
    <2>3. turn(f, <<root, k>>)
            = [node |-> 0, index |-> 0, accum |-> accumOfAll(nodes, nodes[root].items)]
      BY <2>2, <1>12 DEF turn, Single
    <2> QED
      BY <1>1, <1>2, <1>6, <1>7, <1>9, <1>10, <1>12, <2>3
  <1> QED
    BY <1>1, <1>11, <1>12

(* iterate. *)
LEMMA RunEnds ==
    ASSUME NEW f, Runs(f), NEW a \in DOMAIN nodes \cup {0}, NEW i \in 0 .. MAX_ITEMS
    PROVE  f[<<a, i, 0>>] = <<>>
  <1>1. <<a, i, 0>> \in Cursors
    BY DEF Cursors
  <1>2. f = [at \in Cursors |-> handed(f, at)]
    BY DEF Runs
  <1>3. f[<<a, i, 0>>] = [at \in Cursors |-> handed(f, at)][<<a, i, 0>>]
    BY <1>2
  <1> QED
    BY <1>1, <1>3 DEF handed

LEMMA IteratesRight ==
    ASSUME NEW h, Sound(nodes, h, rootNodeId), NEW s, Listed(nodes, h, s),
           NEW b \in 0 .. Len(s), NEW e \in b .. Len(s)
    PROVE  iterate(b, e) = slice(s, b, e)
  <1>1. Len(s) \in Nat /\ rootNodeId \in DOMAIN nodes
        /\ edge(nodes, s, rootNodeId, 0) = 0
    BY RootEdges
  <1>2. PICK f : Runs(f) /\ f = CHOOSE g : Runs(g)
    BY RunExists
  <1>3. PICK r : r = traverseToOffset(b)
    OBVIOUS
  <1>4. iterate(b, e) = f[<<r.node, r.index, e - b>>]
    BY <1>2, <1>3, IterateIs
  <1>5. CASE b = Len(s)
    <2>1. e - b = 0 /\ e = b
      BY <1>1, <1>5
    <2>2. r.node \in DOMAIN nodes \cup {0} /\ r.index \in 0 .. MAX_ITEMS
      <3>1. Len(nodes[rootNodeId].items) \in 1 .. MAX_ITEMS /\ MAX_ITEMS \in Nat
        BY <1>1, NodeSizeAssumption DEF Sound, Exact, Sized
      <3>2. CASE Single(rootNodeId)
        <4>1. /\ r = [node |-> rootNodeId, index |-> Len(s), accum |-> 0]
              /\ Len(nodes[rootNodeId].items) = Len(s)
          BY <3>2, <1>3, <1>5, EndArrives
        <4>2. r.node = rootNodeId /\ r.index = Len(s)
          BY <4>1
        <4> QED
          BY <3>1, <4>1, <4>2, <1>1
      <3>3. CASE ~Single(rootNodeId)
        <4>1. r = [node |-> 0, index |-> 0, accum |-> upTo(s, Len(s)) - upTo(s, 0)]
          BY <3>3, <1>3, <1>5, EndArrives
        <4>2. r.node = 0 /\ r.index = 0
          BY <4>1
        <4> QED
          BY <3>1, <4>2
      <3> QED
        BY <3>2, <3>3
    <2>3. f[<<r.node, r.index, 0>>] = <<>>
      BY <2>2, <1>2, RunEnds
    <2>4. slice(s, b, b) = <<>>
      <3>1. b < b + 1 /\ b \in Nat
        BY <1>1
      <3> QED
        BY <3>1 DEF slice
    <2> QED
      BY <1>4, <2>1, <2>3, <2>4
  <1>6. CASE b # Len(s)
    <2>1. b \in Nat /\ b < Len(s) /\ e - b \in Nat /\ b + (e - b) = e /\ e <= Len(s)
          /\ 0 + b = b
      BY <1>1, <1>6
    <2>2. Arrives(s, rootNodeId, b, r)
      BY <2>1, <1>3, RootArrives
    <2>3. /\ r.node \in DOMAIN nodes /\ Single(r.node)
          /\ r.index \in Nat /\ r.index < Len(nodes[r.node].items)
          /\ edge(nodes, s, r.node, 0) + r.index = b
      BY <1>1, <2>1, <2>2 DEF Arrives
    <2>4. OnCursor(s, r.node, r.index, e - b, b)
      BY <2>1, <2>3 DEF OnCursor
    <2>5. f[<<r.node, r.index, e - b>>] = slice(s, b, b + (e - b))
      BY <2>4, <1>2, RunsRight
    <2> QED
      BY <1>4, <2>1, <2>5
  <1> QED
    BY <1>5, <1>6

-----------------------------------------------------------------------------
(* The items of a leaf. *)
LEMMA ItemsUpToIs ==
    ASSUME NEW h, Sound(nodes, h, rootNodeId), NEW s, Listed(nodes, h, s),
           NEW id \in DOMAIN nodes, Single(id),
           NEW n \in 0 .. Len(nodes[id].items), NEW e, e = edge(nodes, s, id, 0)
    PROVE  /\ itemsUpTo(id, n) = upTo(s, e + n) - upTo(s, e)
           /\ upTo(s, e + n) \in Int /\ upTo(s, e) \in Int
  <1>1. Numbers(s, id) /\ OneEach(s, id)
    BY NumbersOf, SingleOneEach
  <1>2. PICK m \in Nat : m = Len(nodes[id].items)
    BY <1>1 DEF Numbers
  <1>3. e \in Nat /\ n \in Nat /\ n <= m /\ Len(s) \in Nat
    <2>1. 0 \in 0 .. Len(nodes[id].items)
      BY <1>2
    <2> QED
      BY <2>1, <1>1, <1>2 DEF Numbers
  <1>4. e + n \in e .. Len(s)
    <2>1. edge(nodes, s, id, n) = e + n /\ edge(nodes, s, id, n) \in 0 .. Len(s)
      BY <1>1 DEF OneEach
    <2> QED
      BY <2>1, <1>3
  <1>5. s \in Seq(Int)
    <2>1. s \in Seq(Nat)
      BY DEF Listed
    <2> QED
      BY <2>1
  <1>6. PICK t : t = slice(s, e, e + n)
    OBVIOUS
  <1>7. /\ t \in Seq(Int) /\ Len(t) = n
        /\ \A i \in 1 .. n : t[i] = s[e + i] /\ e + i \in 1 .. Len(s)
    <2>1. (e + n) - e = n
      BY <1>3
    <2>2. e \in Nat /\ e + n \in e .. Len(s)
      BY <1>3, <1>4
    <2>3. /\ t \in Seq(Int) /\ Len(t) = (e + n) - e
          /\ \A i \in 1 .. (e + n) - e : t[i] = s[e + i] /\ e + i \in 1 .. Len(s)
      BY ONLY <2>2, <1>5, <1>6, Sliced
    <2> QED
      BY <2>1, <2>3
  <1>8. PICK u : u = [i \in 1 .. n |-> nodes[id].items[i].item]
    OBVIOUS
  <1>9. \A i \in 1 .. n : u[i] = s[e + i] /\ s[e + i] \in Int
    <2> SUFFICES ASSUME NEW i \in 1 .. n
                 PROVE  u[i] = s[e + i] /\ s[e + i] \in Int
      OBVIOUS
    <2>1. i \in 1 .. Len(nodes[id].items)
      BY <1>2, <1>3
    <2>2. s[e + i] = nodes[id].items[i].item
      BY <2>1, SingleItem
    <2>3. s[e + i] \in Int
      BY <1>5, <1>7
    <2> QED
      BY <2>2, <2>3, <1>8
  <1>10. u = t
    <2>1. \A i \in 1 .. n : u[i] = t[i] /\ u[i] \in Int
      BY <1>7, <1>9
    <2>2. u \in Seq(Int) /\ Len(u) = n
      <3>1. u \in [1 .. n -> Int]
        BY <2>1, <1>8
      <3> QED
        BY <3>1, <1>3, SeqDef
    <2> QED
      BY ONLY <2>1, <2>2, <1>7, SeqEqual
  <1>11. itemsUpTo(id, n) = sumOf(s, e, e + n)
    BY <1>6, <1>8, <1>10 DEF itemsUpTo, sumOf
  <1> QED
    BY <1>3, <1>4, <1>5, <1>11, SumOfRange

LEMMA AccumLeft ==
    ASSUME NEW h, Sound(nodes, h, rootNodeId), NEW s, Listed(nodes, h, s),
           NEW k \in 0 .. Len(s)
    PROVE  accumLeftOf(k) = upTo(s, k) /\ upTo(s, k) \in Int
  <1>1. /\ Len(s) \in Nat /\ rootNodeId \in DOMAIN nodes
        /\ edge(nodes, s, rootNodeId, 0) = 0
    BY RootEdges
  <1>2. s \in Seq(Int)
    <2>1. s \in Seq(Nat)
      BY DEF Listed
    <2> QED
      BY <2>1
  <1>3. upTo(s, 0) = 0
    <2>1. upTo(s, 1) = upTo(s, 1 - 1) + s[1] /\ upTo(s, 0) = 0
      <3>1. 1 \in 1 .. Len(s)
        BY RootEdges
      <3> QED
        BY <3>1, <1>2, SumOfOne
    <2> QED
      BY <2>1
  <1>4. upTo(s, k) \in Int
    <2>1. k \in 0 .. Len(s) /\ 0 \in Nat /\ k \in Nat
      BY <1>1
    <2> QED
      BY <2>1, <1>2, SumOfRange
  <1>5. PICK r : r = traverseToOffset(k)
    OBVIOUS
  <1>6. accumLeftOf(k) = r.accum + (IF r.node = 0 THEN 0 ELSE itemsUpTo(r.node, r.index))
    BY <1>5 DEF accumLeftOf
  <1>7. CASE k = Len(s)
    <2>1. CASE Single(rootNodeId)
      <3>1. /\ r = [node |-> rootNodeId, index |-> Len(s), accum |-> 0]
            /\ Len(nodes[rootNodeId].items) = Len(s)
        BY <2>1, <1>5, <1>7, EndArrives
      <3>2. r.node = rootNodeId /\ r.index = k /\ r.accum = 0
        BY <3>1, <1>7
      <3>3. rootNodeId # 0
        <4>1. SoundNode(nodes, h, rootNodeId)
          BY <1>1, NodeOfSound
        <4> QED
          BY <4>1 DEF SoundNode
      <3>4. itemsUpTo(rootNodeId, k) = upTo(s, 0 + k) - upTo(s, 0)
        <4>1. k \in 0 .. Len(nodes[rootNodeId].items)
          BY <3>1, <1>1, <1>7
        <4> QED
          BY <4>1, <2>1, <1>1, ItemsUpToIs
      <3>5. 0 + k = k
        BY <1>1
      <3> QED
        BY <3>2, <3>3, <3>4, <3>5, <1>3, <1>4, <1>6
    <2>2. CASE ~Single(rootNodeId)
      <3>1. r = [node |-> 0, index |-> 0, accum |-> upTo(s, Len(s)) - upTo(s, 0)]
        BY <2>2, <1>5, <1>7, EndArrives
      <3>2. r.node = 0 /\ r.accum = upTo(s, k) - upTo(s, 0)
        BY <3>1, <1>7
      <3> QED
        BY <3>2, <1>3, <1>4, <1>6
    <2> QED
      BY <2>1, <2>2
  <1>8. CASE k # Len(s)
    <2>1. k \in Nat /\ k < Len(s)
      BY <1>1, <1>8
    <2>2. Arrives(s, rootNodeId, k, r)
      BY <2>1, <1>5, RootArrives
    <2>3. PICK e : e = edge(nodes, s, r.node, 0)
      OBVIOUS
    <2>4. /\ r.node \in DOMAIN nodes /\ Single(r.node)
          /\ r.index \in Nat /\ r.index < Len(nodes[r.node].items)
          /\ e + r.index = 0 + k
          /\ r.accum = upTo(s, e) - upTo(s, 0)
      BY <2>2, <2>3, <1>1 DEF Arrives
    <2>5. SoundNode(nodes, h, r.node)
      BY <2>4, NodeOfSound
    <2>6. r.node # 0 /\ r.index \in 0 .. Len(nodes[r.node].items)
      BY <2>4, <2>5 DEF SoundNode
    <2>7. itemsUpTo(r.node, r.index) = upTo(s, e + r.index) - upTo(s, e)
          /\ upTo(s, e) \in Int
      BY <2>3, <2>4, <2>6, ItemsUpToIs
    <2>8. e + r.index = k
      BY <2>1, <2>4
    <2> QED
      BY <2>4, <2>6, <2>7, <2>8, <1>3, <1>4, <1>6
  <1> QED
    BY <1>4, <1>7, <1>8

-----------------------------------------------------------------------------
(* A tree without nodes. *)
LEMMA EmptyTree ==
    ASSUME rootNodeId = 0, DOMAIN nodes = {}
    PROVE  size = 0 /\ iterate(0, 0) = <<>> /\ fingerprint(0, 0) = 0
  <1>1. traverseToOffset(0) = [node |-> 0, index |-> 0, accum |-> 0]
    BY TraversalIs
  <1>2. PICK r : r = traverseToOffset(0) /\ r.node = 0 /\ r.index = 0 /\ r.accum = 0
    BY <1>1
  <1>3. size = 0
    BY DEF size
  <1>4. iterate(0, 0) = <<>>
    <2>1. \E f : Runs(f)
      <3> DEFINE g == [at \in Cursors |-> <<>>]
      <3>1. \A at \in Cursors : handed(g, at) = <<>>
        BY DEF Cursors, handed
      <3>2. g = [at \in Cursors |-> handed(g, at)]
        BY <3>1
      <3> HIDE DEF g
      <3> QED
        BY <3>2 DEF Runs
    <2>2. PICK f : Runs(f) /\ f = CHOOSE g : Runs(g)
      BY <2>1
    <2>3. iterate(0, 0) = f[<<r.node, r.index, 0 - 0>>]
      BY <2>2, <1>2, IterateIs
    <2>4. f[<<0, 0, 0>>] = <<>>
      <3>1. 0 \in 0 .. MAX_ITEMS
        BY NodeSizeAssumption
      <3> QED
        BY <3>1, <2>2, RunEnds
    <2> QED
      BY <2>3, <2>4, <1>2
  <1>5. fingerprint(0, 0) = 0
    <2>1. accumLeftOf(0) = 0
      BY <1>2 DEF accumLeftOf
    <2> QED
      BY <2>1 DEF fingerprint
  <1> QED
    BY <1>3, <1>4, <1>5

LEMMA NothingListed ==
    \A b \in 0 .. 0 : \A e \in b .. 0 :
        b = 0 /\ e = 0 /\ slice(<<>>, b, e) = <<>> /\ sumOf(<<>>, b, e) = 0
  <1> SUFFICES ASSUME NEW b \in 0 .. 0, NEW e \in b .. 0
               PROVE  b = 0 /\ e = 0 /\ slice(<<>>, b, e) = <<>> /\ sumOf(<<>>, b, e) = 0
    OBVIOUS
  <1>1. b = 0 /\ e = 0
    OBVIOUS
  <1>2. slice(<<>>, 0, 0) = <<>>
    BY DEF slice
  <1>3. total(<<>>) = 0
    BY TotalFew
  <1> QED
    BY <1>1, <1>2, <1>3 DEF sumOf

(* The queries of a call at rest. *)
LEMMA IterationHolds ==
    ASSUME TypeOK, TreeInv
    PROVE  IterationInOrder
  <1> SUFFICES ASSUME Settled
               PROVE  LET items == Ordered
                      IN  /\ size = Len(items)
                          /\ \A i \in 0 .. size - 1 : getItem(i) = items[i + 1]
                          /\ \A b \in 0 .. size : \A e \in b .. size :
                                iterate(b, e) = slice(items, b, e)
    BY DEF IterationInOrder
  <1>1. Idle
    BY DEF Settled
  <1>2. PICK h : Shape(h)
    BY DEF TreeInv
  <1>3. PICK s : s = Ordered
    OBVIOUS
  <1>4. CASE rootNodeId = 0
    <2>1. s = <<>> /\ DOMAIN nodes = {}
      BY <1>1, <1>2, <1>3, <1>4, OrderedIs
    <2>2. size = 0 /\ iterate(0, 0) = <<>>
      BY <2>1, <1>4, EmptyTree
    <2>3. Len(s) = 0 /\ 0 .. 0 - 1 = {}
      BY <2>1
    <2>4. \A b \in 0 .. 0 : \A e \in b .. 0 : iterate(b, e) = slice(s, b, e)
      BY <2>1, <2>2, NothingListed
    <2> QED
      BY <2>2, <2>3, <2>4, <1>3
  <1>5. CASE rootNodeId # 0
    <2>1. Sound(nodes, h, rootNodeId) /\ Listed(nodes, h, s)
      BY <1>1, <1>2, <1>3, <1>5, OrderedIs
    <2>2. size = Len(s) /\ Len(s) \in Nat
      BY <2>1, <1>5, RootEdges DEF size
    <2>3. ASSUME NEW i \in 0 .. Len(s) - 1
          PROVE  getItem(i) = s[i + 1]
      <3>1. i \in Nat /\ i < Len(s)
        BY <2>2
      <3> QED
        BY <2>1, <3>1, GetsItem
    <2>4. ASSUME NEW b \in 0 .. Len(s), NEW e \in b .. Len(s)
          PROVE  iterate(b, e) = slice(s, b, e)
      BY <2>1, IteratesRight
    <2> QED
      BY <2>2, <2>3, <2>4, <1>3
  <1> QED
    BY <1>4, <1>5

LEMMA FingerprintsHold ==
    ASSUME TypeOK, TreeInv
    PROVE  FingerprintsOfRanges
  <1> SUFFICES ASSUME Settled
               PROVE  \A b \in 0 .. size : \A e \in b .. size :
                          fingerprint(b, e) = sumOf(Ordered, b, e)
    BY DEF FingerprintsOfRanges
  <1>1. Idle
    BY DEF Settled
  <1>2. PICK h : Shape(h)
    BY DEF TreeInv
  <1>3. PICK s : s = Ordered
    OBVIOUS
  <1>4. CASE rootNodeId = 0
    <2>1. s = <<>> /\ DOMAIN nodes = {}
      BY <1>1, <1>2, <1>3, <1>4, OrderedIs
    <2>2. size = 0 /\ fingerprint(0, 0) = 0
      BY <2>1, <1>4, EmptyTree
    <2>3. \A b \in 0 .. 0 : \A e \in b .. 0 : fingerprint(b, e) = sumOf(s, b, e)
      BY <2>1, <2>2, NothingListed
    <2> QED
      BY <2>2, <2>3, <1>3
  <1>5. CASE rootNodeId # 0
    <2>1. Sound(nodes, h, rootNodeId) /\ Listed(nodes, h, s)
      BY <1>1, <1>2, <1>3, <1>5, OrderedIs
    <2>2. size = Len(s) /\ Len(s) \in Nat
      BY <2>1, <1>5, RootEdges DEF size
    <2>3. ASSUME NEW b \in 0 .. Len(s), NEW e \in b .. Len(s)
          PROVE  fingerprint(b, e) = sumOf(s, b, e)
      <3>1. b \in Nat /\ e \in 0 .. Len(s)
        BY <2>2
      <3>2. accumLeftOf(b) = upTo(s, b) /\ accumLeftOf(e) = upTo(s, e)
        BY <2>1, <3>1, AccumLeft
      <3>3. s \in Seq(Int)
        <4>1. s \in Seq(Nat)
          BY <2>1 DEF Listed
        <4> QED
          BY <4>1
      <3>4. sumOf(s, b, e) = upTo(s, e) - upTo(s, b)
        BY <3>1, <3>3, SumOfRange
      <3> QED
        BY <3>2, <3>4 DEF fingerprint
    <2> QED
      BY <2>2, <2>3, <1>3
  <1> QED
    BY <1>4, <1>5

-----------------------------------------------------------------------------
(* findLowerBound.                                                         *)

(* The key that the search for a bound goes on under. *)
LEMMA BoundIndexIs ==
    ASSUME NEW keys, Len(keys) \in Nat, Len(keys) > 0,
           \A j \in 1 .. Len(keys) : keys[j].item \in Nat,
           NEW value \in Nat, NEW i, i = boundIndex(keys, value)
    PROVE  /\ i \in 1 .. Len(keys) /\ i \in Nat
           /\ i = 1 \/ keys[i].item < value
           /\ i = Len(keys) \/ value <= keys[i + 1].item
  <1> DEFINE stop == {j \in 2 .. Len(keys) : value <= keys[j].item}
  <1>1. i = IF stop = {} THEN Len(keys) ELSE Min(stop) - 1
    BY DEF boundIndex
  <1>2. CASE stop = {}
    <2>1. i = Len(keys)
      BY <1>1, <1>2
    <2>2. i = 1 \/ i \in 2 .. Len(keys)
      BY <2>1
    <2>3. i = 1 \/ ~(value <= keys[i].item)
      BY <2>2, <1>2
    <2>4. i \in 1 .. Len(keys) /\ i \in Nat
      BY <2>1
    <2>5. keys[i].item \in Nat
      BY <2>4
    <2> QED
      BY <2>1, <2>3, <2>4, <2>5
  <1>3. CASE stop # {}
    <2>1. PICK m \in stop : \A j \in stop : m <= j
      <3>1. stop \subseteq Nat
        OBVIOUS
      <3> HIDE DEF stop
      <3> QED
        BY <3>1, <1>3, LeastNumber
    <2>2. Min(stop) = m
      <3>1. \A x \in stop : (\A y \in stop : x <= y) => x = m
        BY <2>1
      <3>2. m \in {x \in stop : \A y \in stop : x <= y}
        BY <2>1
      <3> HIDE DEF stop
      <3> QED
        BY <3>1, <3>2, <2>1 DEF Min
    <2>3. m \in 2 .. Len(keys) /\ value <= keys[m].item
      BY <2>1
    <2>4. i = m - 1 /\ i + 1 = m /\ i \in 1 .. Len(keys) /\ i \in Nat
      BY <1>1, <1>3, <2>2, <2>3
    <2>5. i = 1 \/ keys[i].item < value
      <3> SUFFICES ASSUME i # 1, ~(keys[i].item < value)
                   PROVE  FALSE
        OBVIOUS
      <3>1. i \in 2 .. Len(keys) /\ value <= keys[i].item
        BY <2>4
      <3>2. i \in stop
        BY <3>1
      <3> HIDE DEF stop
      <3>3. m <= i
        BY <3>2, <2>1
      <3> QED
        BY <3>3, <2>3, <2>4
    <2> QED
      BY <2>3, <2>4, <2>5
  <1> QED
    BY <1>2, <1>3

(* A bound that is under a node, or right of all of it. *)
LeftBound(id, value) ==
    /\ firstItem(nodes, id) < value
    /\ nodes[id].nextSibling # 0 => value <= firstItem(nodes, nodes[id].nextSibling)

Goes(id, value, i, c) ==
    /\ i = boundIndex(nodes[id].items, value)
    /\ i \in 1 .. Len(nodes[id].items)
    /\ c = nodes[id].items[i].nodeId
    /\ nodes[id].items[i].item < value
    /\ nextKey(nodes, id, i) = none \/ value <= nextKey(nodes, id, i).item

LEMMA LeftTurn ==
    ASSUME NEW h, Sound(nodes, h, rootNodeId), NEW id \in DOMAIN nodes,
           NEW value \in Nat, LeftBound(id, value)
    PROVE  \E i, c : Goes(id, value, i, c)
  <1>1. SoundNode(nodes, h, id)
    BY NodeOfSound
  <1>2. PICK keys : keys = nodes[id].items
    OBVIOUS
  <1>3. /\ Len(keys) \in Nat /\ Len(keys) > 0
        /\ \A j \in 1 .. Len(keys) : keys[j].item \in Nat
    BY <1>1, <1>2 DEF SoundNode
  <1>4. PICK i : i = boundIndex(keys, value)
    OBVIOUS
  <1>5. /\ i \in 1 .. Len(keys) /\ i \in Nat
        /\ i = 1 \/ keys[i].item < value
        /\ i = Len(keys) \/ value <= keys[i + 1].item
    BY <1>3, <1>4, BoundIndexIs
  <1>6. keys[i].item < value
    BY <1>2, <1>5 DEF LeftBound, firstItem
  <1>7. nextKey(nodes, id, i) = none \/ value <= nextKey(nodes, id, i).item
    <2>1. CASE i < Len(keys)
      <3>1. nextKey(nodes, id, i) = keys[i + 1]
        BY <2>1, <1>2 DEF nextKey
      <3> QED
        BY <3>1, <2>1, <1>3, <1>5
    <2>2. CASE ~(i < Len(keys))
      <3>1. nextKey(nodes, id, i) = firstKey(nodes, nodes[id].nextSibling)
        BY <2>2, <1>2 DEF nextKey
      <3>2. CASE nodes[id].nextSibling = 0
        BY <3>1, <3>2 DEF firstKey
      <3>3. CASE nodes[id].nextSibling # 0
        BY <3>1, <3>3 DEF firstKey, LeftBound, firstItem
      <3> QED
        BY <3>2, <3>3
    <2> QED
      BY <2>1, <2>2
  <1> QED
    BY <1>2, <1>4, <1>5, <1>6, <1>7 DEF Goes

LEMMA LeftLeaf ==
    ASSUME NEW h, Sound(nodes, h, rootNodeId), NEW s, Listed(nodes, h, s),
           NEW id \in DOMAIN nodes, h[id] = 0, NEW value \in Nat,
           NEW i, NEW c, Goes(id, value, i, c)
    PROVE  /\ c = 0
           /\ before(id, i - 1) + 1 = countBelow(s, value) - edge(nodes, s, id, 0)
  <1>1. SoundNode(nodes, h, id) /\ Numbers(s, id)
    BY NodeOfSound, NumbersOf
  <1>2. PICK m \in Nat : m = Len(nodes[id].items)
    BY <1>1 DEF Numbers
  <1>3. /\ i \in 1 .. m /\ c = nodes[id].items[i].nodeId /\ nodes[id].items[i].item < value
        /\ nextKey(nodes, id, i) = none \/ value <= nextKey(nodes, id, i).item
    BY <1>2 DEF Goes
  <1>4. c = 0
    BY <1>1, <1>2, <1>3 DEF SoundNode, LevelsAt
  <1>5. PICK g : Edges(nodes, s, id, g)
    BY NodeEdges
  <1>6. i - 1 \in 0 .. m /\ i \in 0 .. m /\ 0 \in 0 .. m /\ i # 0
    BY <1>3
  <1>7. /\ g[i - 1] \in Nat /\ g[i] \in Nat /\ g[0] \in Nat
        /\ g[i] = edge(nodes, s, id, i) /\ g[0] = edge(nodes, s, id, 0)
        /\ g[i - 1] = edge(nodes, s, id, i - 1)
        /\ PlacedAt(s, nodes[id].items[i].item, g[i - 1] + 1)
        /\ g[i] \in 0 .. Len(s) /\ Len(s) \in Nat
    BY <1>2, <1>3, <1>5, <1>6 DEF Edges
  <1>8. g[i] = g[i - 1] + 1
    BY <1>2, <1>3, <1>5, LeafEdges
  <1>9. s[g[i]] = nodes[id].items[i].item
    BY <1>7, <1>8 DEF PlacedAt
  <1>10. g[i] = Len(s) \/ value <= s[g[i] + 1]
    <2>1. PICK k : k = nextKey(nodes, id, i)
      OBVIOUS
    <2>2. g[i] = place(s, k)
      BY <2>1, <1>6, <1>7 DEF edge
    <2>3. CASE k = none
      BY <2>2, <2>3 DEF place
    <2>4. CASE k # none
      <3>1. PICK b \in DOMAIN nodes : \E j \in 1 .. Len(nodes[b].items) : k = nodes[b].items[j]
        BY <2>1, <2>4, <1>2, <1>3, NextKeyIs DEF RightOf
      <3>2. PICK j \in 1 .. Len(nodes[b].items) : k = nodes[b].items[j]
        BY <3>1
      <3>3. PlacedAt(s, k.item, place(s, k) + 1)
        BY <3>2, KeyPlaced
      <3>4. s[g[i] + 1] = k.item
        BY <3>3, <2>2 DEF PlacedAt
      <3> QED
        BY <3>4, <2>1, <2>4, <1>3
    <2> QED
      BY <2>3, <2>4
  <1>11. countBelow(s, value) = g[i]
    <2>1. s \in Seq(Nat) /\ Strict(s)
      BY DEF Listed
    <2>2. s[g[i]] < value
      BY <1>3, <1>9
    <2> QED
      BY <2>1, <2>2, <1>7, <1>10, StrictPlace
  <1>12. before(id, i - 1) = g[i - 1] - g[0]
    BY <1>1, <1>2, <1>6, <1>7 DEF Numbers
  <1> QED
    BY <1>4, <1>7, <1>8, <1>11, <1>12

LEMMA LeftChild ==
    ASSUME NEW h, Sound(nodes, h, rootNodeId), NEW s, Listed(nodes, h, s),
           NEW id \in DOMAIN nodes, h[id] # 0, NEW value \in Nat,
           NEW i, NEW c, Goes(id, value, i, c)
    PROVE  /\ c \in DOMAIN nodes /\ h[c] < h[id] /\ LeftBound(c, value)
           /\ edge(nodes, s, c, 0) = edge(nodes, s, id, 0) + before(id, i - 1)
  <1>1. SoundNode(nodes, h, id) /\ Numbers(s, id)
    BY NodeOfSound, NumbersOf
  <1>2. PICK m \in Nat : m = Len(nodes[id].items)
    BY <1>1 DEF Numbers
  <1>3. /\ i \in 1 .. m /\ c = nodes[id].items[i].nodeId /\ nodes[id].items[i].item < value
        /\ nextKey(nodes, id, i) = none \/ value <= nextKey(nodes, id, i).item
    BY <1>2 DEF Goes
  <1>4. ChildOf(nodes, h, id, i, c)
    BY <1>2, <1>3, ChildOfSound
  <1>5. /\ c \in DOMAIN nodes /\ c # 0 /\ h[c] = h[id] - 1
        /\ nodes[id].items[i].item = firstItem(nodes, c)
        /\ nodes[c].nextSibling = nextKey(nodes, id, i).nodeId
    BY <1>4 DEF ChildOf
  <1>6. h[c] < h[id]
    <2>1. h[id] \in Nat
      BY <1>1 DEF SoundNode
    <2> QED
      BY <2>1, <1>5
  <1>7. LeftBound(c, value)
    <2>1. PICK k : k = nextKey(nodes, id, i)
      OBVIOUS
    <2>2. CASE k = none
      <3>1. k.nodeId = 0
        BY <2>2 DEF none, Key
      <3> QED
        BY <3>1, <2>1, <1>3, <1>5 DEF LeftBound
    <2>3. CASE k # none
      <3>1. PICK b \in DOMAIN nodes : \E j \in 1 .. Len(nodes[b].items) : k = nodes[b].items[j]
        BY <2>1, <2>3, <1>2, <1>3, NextKeyIs DEF RightOf
      <3>2. PICK j \in 1 .. Len(nodes[b].items) : k = nodes[b].items[j]
        BY <3>1
      <3>3. SoundNode(nodes, h, b)
        BY NodeOfSound
      <3>4. k.nodeId # 0 => k.item = firstItem(nodes, k.nodeId)
        BY <3>2, <3>3 DEF SoundNode, KeysFirst
      <3> QED
        BY <3>4, <2>1, <2>3, <1>3, <1>5 DEF LeftBound
    <2> QED
      BY <2>2, <2>3
  <1>8. edge(nodes, s, c, 0) = edge(nodes, s, id, 0) + before(id, i - 1)
    <2>1. edge(nodes, s, c, 0) = edge(nodes, s, id, i - 1)
      BY <1>2, <1>3, ChildEdges
    <2>2. i - 1 \in 0 .. m /\ 0 \in 0 .. m
      BY <1>3
    <2>3. /\ before(id, i - 1) = edge(nodes, s, id, i - 1) - edge(nodes, s, id, 0)
          /\ edge(nodes, s, id, i - 1) \in Nat /\ edge(nodes, s, id, 0) \in Nat
      BY <2>2, <1>1, <1>2 DEF Numbers
    <2> QED
      BY <2>1, <2>3
  <1> QED
    BY <1>5, <1>6, <1>7, <1>8

-----------------------------------------------------------------------------
(* findLowerBound as a function of the node and the number of items left   *)
(* of it. *)
Heads == (DOMAIN nodes \cup {0}) \X Nat

leftOf(f, at, value) ==
    LET id        == at[1]
        numToLeft == at[2]
    IN  IF id = 0 THEN numToLeft + 1
        ELSE LET keys == nodes[id].items
                 i    == boundIndex(keys, value)
             IN  f[<<keys[i].nodeId, numToLeft + before(id, i - 1)>>]

HeadCounts(f, value) == f = [at \in Heads |-> leftOf(f, at, value)]

LEMMA LowerBoundIs ==
    ASSUME NEW b, NEW e, NEW value
    PROVE  findLowerBound(b, e, value)
             = IF rootNodeId = 0 THEN e
               ELSE IF value <= firstItem(nodes, rootNodeId) THEN b
               ELSE Min({(CHOOSE f : HeadCounts(f, value))[<<rootNodeId, 0>>], e})
  BY DEF findLowerBound, HeadCounts, Heads, leftOf, before

(* Where a head goes on. *)
Continues(h, at, value, y) ==
    /\ y \in Heads
    /\ y[1] # 0 => h[y[1]] < h[at[1]]
    /\ \A f : leftOf(f, at, value) = f[y]

LEMMA HeadGoesOn ==
    ASSUME NEW h, Sound(nodes, h, rootNodeId), NEW s, Listed(nodes, h, s),
           NEW value \in Nat, NEW at \in Heads, at[1] # 0
    PROVE  \E y : Continues(h, at, value, y)
  <1>1. PICK id \in DOMAIN nodes : id = at[1] /\ id # 0
    BY DEF Heads
  <1>2. PICK n \in Nat : n = at[2]
    BY DEF Heads
  <1>3. SoundNode(nodes, h, id) /\ Numbers(s, id)
    BY NodeOfSound, NumbersOf
  <1>4. PICK keys : keys = nodes[id].items
    OBVIOUS
  <1>5. PICK i : i = boundIndex(keys, value)
    OBVIOUS
  <1>6. /\ Len(keys) \in Nat /\ Len(keys) > 0
        /\ \A j \in 1 .. Len(keys) : keys[j].item \in Nat
    BY <1>3, <1>4 DEF SoundNode
  <1>7. i \in 1 .. Len(keys) /\ i \in Nat
    BY <1>5, <1>6, BoundIndexIs
  <1>8. before(id, i - 1) \in Nat
    <2>1. i - 1 \in 0 .. Len(keys)
      BY <1>6, <1>7
    <2> QED
      BY <2>1, <1>3, <1>4 DEF Numbers
  <1>9. PICK c : c = keys[i].nodeId
    OBVIOUS
  <1>10. c \in DOMAIN nodes \cup {0} /\ (c # 0 => h[c] < h[id])
    <2>1. CASE h[id] = 0
      <3>1. c = 0
        BY <2>1, <1>3, <1>4, <1>7, <1>9 DEF SoundNode, LevelsAt
      <3> QED
        BY <3>1
    <2>2. CASE h[id] # 0
      <3>1. ChildOf(nodes, h, id, i, c)
        BY <2>2, <1>4, <1>7, <1>9, ChildOfSound
      <3>2. h[id] \in Nat
        BY <1>3 DEF SoundNode
      <3> QED
        BY <3>1, <3>2 DEF ChildOf
    <2> QED
      BY <2>1, <2>2
  <1>11. PICK y : y = <<c, n + before(id, i - 1)>>
    OBVIOUS
  <1>12. y \in Heads /\ y[1] = c
    BY <1>8, <1>10, <1>11 DEF Heads
  <1>13. ASSUME NEW f PROVE leftOf(f, at, value) = f[y]
    BY <1>1, <1>2, <1>4, <1>5, <1>9, <1>11 DEF leftOf
  <1> QED
    BY <1>1, <1>10, <1>12, <1>13 DEF Continues

LEMMA CountsExist ==
    ASSUME NEW h, Sound(nodes, h, rootNodeId), NEW s, Listed(nodes, h, s),
           NEW value \in Nat
    PROVE  \E f : HeadCounts(f, value)
  <1> DEFINE F == [f \in [Heads -> Nat] |-> [at \in Heads |-> leftOf(f, at, value)]]
             rank == [at \in Heads |-> IF at[1] = 0 THEN 0 ELSE h[at[1]] + 1]
  <1>1. ASSUME NEW at \in Heads
        PROVE  /\ at[1] \in DOMAIN nodes \cup {0} /\ at[2] \in Nat
               /\ rank[at] = IF at[1] = 0 THEN 0 ELSE h[at[1]] + 1
    BY <1>1 DEF Heads
  <1>2. \A id \in DOMAIN nodes : h[id] \in Nat
    BY NodeOfSound DEF SoundNode
  <1>3. rank \in [Heads -> Nat]
    BY <1>1, <1>2
  <1> HIDE DEF rank
  <1>4. ASSUME NEW at \in Heads, at[1] # 0
        PROVE  \E y \in Heads : rank[y] < rank[at] /\ \A f : leftOf(f, at, value) = f[y]
    <2>1. PICK y : Continues(h, at, value, y)
      BY <1>4, HeadGoesOn
    <2>2. y \in Heads /\ (y[1] # 0 => h[y[1]] < h[at[1]])
          /\ \A f : leftOf(f, at, value) = f[y]
      BY <2>1 DEF Continues
    <2>3. rank[y] < rank[at]
      <3>1. rank[at] = h[at[1]] + 1 /\ h[at[1]] \in Nat
        BY <1>1, <1>2, <1>4
      <3>2. rank[y] = (IF y[1] = 0 THEN 0 ELSE h[y[1]] + 1)
            /\ (y[1] # 0 => h[y[1]] \in Nat)
        BY <2>2, <1>1, <1>2
      <3> QED
        BY <3>1, <3>2, <2>2
    <2> QED
      BY <2>2, <2>3
  <1>5. ASSUME NEW f \in [Heads -> Nat], NEW at \in Heads
        PROVE  leftOf(f, at, value) \in Nat
    <2>1. CASE at[1] = 0
      <3>1. leftOf(f, at, value) = at[2] + 1
        BY <2>1 DEF leftOf
      <3> QED
        BY <3>1, <1>1
    <2>2. CASE at[1] # 0
      <3>1. PICK y \in Heads : leftOf(f, at, value) = f[y]
        BY <2>2, <1>4
      <3> QED
        BY <3>1
    <2> QED
      BY <2>1, <2>2
  <1>6. ASSUME NEW f \in [Heads -> Nat], NEW g \in [Heads -> Nat], NEW at \in Heads,
               \A y \in Heads : rank[y] < rank[at] => f[y] = g[y]
        PROVE  leftOf(f, at, value) = leftOf(g, at, value)
    <2>1. CASE at[1] = 0
      BY <2>1 DEF leftOf
    <2>2. CASE at[1] # 0
      <3>1. PICK y \in Heads : rank[y] < rank[at] /\ \A e : leftOf(e, at, value) = e[y]
        BY <2>2, <1>4
      <3>2. f[y] = g[y]
        BY <3>1, <1>6
      <3> QED
        BY <3>1, <3>2
    <2> QED
      BY <2>1, <2>2
  <1>7. /\ F \in [[Heads -> Nat] -> [Heads -> Nat]]
        /\ \A f \in [Heads -> Nat] : F[f] = [at \in Heads |-> leftOf(f, at, value)]
    BY <1>5
  <1> HIDE DEF F
  <1>8. \A f, g \in [Heads -> Nat] : \A x \in Heads :
          (\A y \in Heads : rank[y] < rank[x] => f[y] = g[y]) => F[f][x] = F[g][x]
    <2> TAKE f, g \in [Heads -> Nat]
    <2> TAKE x \in Heads
    <2> HAVE \A y \in Heads : rank[y] < rank[x] => f[y] = g[y]
    <2>1. leftOf(f, x, value) = leftOf(g, x, value)
      BY <1>6
    <2>2. /\ F[f] = [at \in Heads |-> leftOf(f, at, value)]
          /\ F[g] = [at \in Heads |-> leftOf(g, at, value)]
      BY <1>7
    <2>3. F[f][x] = leftOf(f, x, value) /\ F[g][x] = leftOf(g, x, value)
      BY <2>2
    <2> QED
      BY <2>1, <2>3
  <1>9. Recursion(Heads, Nat, rank, F)
    BY <1>3, <1>7, <1>8 DEF Recursion
  <1>10. PICK f \in [Heads -> Nat] : F[f] = f
    <2>1. Nat # {}
      OBVIOUS
    <2> QED
      BY <2>1, <1>9, RecursionExists
  <1>11. HeadCounts(f, value)
    BY <1>7, <1>10 DEF HeadCounts
  <1> QED
    BY <1>11

(* The count at a node that the bound is under. *)
LEMMA CountsRight ==
    ASSUME NEW h, Sound(nodes, h, rootNodeId), NEW s, Listed(nodes, h, s),
           NEW value \in Nat, NEW f, HeadCounts(f, value),
           NEW id \in DOMAIN nodes, NEW n \in Nat, LeftBound(id, value)
    PROVE  f[<<id, n>>] = n + countBelow(s, value) - edge(nodes, s, id, 0)
  <1> DEFINE Wrong(a, l) == /\ l \in Nat /\ LeftBound(a, value)
                            /\ f[<<a, l>>] # l + countBelow(s, value) - edge(nodes, s, a, 0)
             Bad == {m \in Nat : \E a \in DOMAIN nodes : h[a] = m /\ \E l : Wrong(a, l)}
  <1>1. \A a \in DOMAIN nodes : h[a] \in Nat /\ a # 0
    BY NodeOfSound DEF SoundNode
  <1>2. countBelow(s, value) \in Int
    <2>1. s \in Seq(Int) /\ InOrder(s)
      <3>1. s \in Seq(Nat) /\ Strict(s)
        BY DEF Listed
      <3>2. s \in Seq(Int)
        BY <3>1
      <3> QED
        BY <3>1, <3>2, StrictIs
    <2> QED
      BY <2>1, CountsBelow
  <1>3. \A at \in Heads : f[at] = leftOf(f, at, value)
    <2>1. f = [at \in Heads |-> leftOf(f, at, value)]
      BY DEF HeadCounts
    <2> TAKE at \in Heads
    <2>2. f[at] = [x \in Heads |-> leftOf(f, x, value)][at]
      BY <2>1
    <2> QED
      BY <2>2
  <1>4. Bad = {}
    <2> SUFFICES ASSUME Bad # {}
                 PROVE  FALSE
      OBVIOUS
    <2>1. PICK m \in Bad : \A k \in Bad : m <= k
      <3>1. Bad \subseteq Nat
        OBVIOUS
      <3> HIDE DEF Bad
      <3> QED
        BY <3>1, LeastNumber
    <2>2. PICK a \in DOMAIN nodes : h[a] = m /\ \E l : Wrong(a, l)
      BY <2>1
    <2>3. PICK l : Wrong(a, l)
      BY <2>2
    <2>4. /\ l \in Nat /\ LeftBound(a, value)
          /\ f[<<a, l>>] # l + countBelow(s, value) - edge(nodes, s, a, 0)
      BY <2>3
    <2>5. ASSUME NEW c \in DOMAIN nodes, h[c] < h[a], NEW j \in Nat, LeftBound(c, value)
          PROVE  f[<<c, j>>] = j + countBelow(s, value) - edge(nodes, s, c, 0)
      <3> SUFFICES ASSUME f[<<c, j>>] # j + countBelow(s, value) - edge(nodes, s, c, 0)
                   PROVE  FALSE
        OBVIOUS
      <3>1. Wrong(c, j)
        BY <2>5
      <3>2. h[c] \in Nat /\ ~(m <= h[c])
        BY <1>1, <2>2, <2>5
      <3>3. h[c] \in Bad
        <4> HIDE DEF Wrong
        <4> QED
          BY <3>1, <3>2
      <3> HIDE DEF Bad
      <3> QED
        BY <3>2, <3>3, <2>1
    <2> HIDE DEF Bad, Wrong
    <2>6. PICK i, c : Goes(a, value, i, c)
      BY <2>4, LeftTurn
    <2>7. Numbers(s, a)
      BY NumbersOf
    <2>8. i \in 1 .. Len(nodes[a].items) /\ Len(nodes[a].items) \in Nat
      BY <2>6, <2>7 DEF Goes, Numbers
    <2>9. before(a, i - 1) \in Nat /\ edge(nodes, s, a, 0) \in Nat
      <3>1. i - 1 \in 0 .. Len(nodes[a].items) /\ 0 \in 0 .. Len(nodes[a].items)
        BY <2>8
      <3> QED
        BY <3>1, <2>7 DEF Numbers
    <2>10. f[<<a, l>>] = f[<<c, l + before(a, i - 1)>>]
      <3>1. <<a, l>> \in Heads
        BY <2>4 DEF Heads
      <3>2. f[<<a, l>>] = leftOf(f, <<a, l>>, value)
        BY <3>1, <1>3
      <3> QED
        BY <3>2, <2>6, <1>1 DEF leftOf, Goes
    <2>11. CASE h[a] = 0
      <3>1. c = 0 /\ before(a, i - 1) + 1 = countBelow(s, value) - edge(nodes, s, a, 0)
        BY <2>6, <2>11, LeftLeaf
      <3>2. PICK k \in Nat : k = l + before(a, i - 1)
        BY <2>4, <2>9
      <3>3. f[<<0, k>>] = k + 1
        <4>1. <<0, k>> \in Heads
          BY DEF Heads
        <4>2. f[<<0, k>>] = leftOf(f, <<0, k>>, value)
          BY <4>1, <1>3
        <4> QED
          BY <4>2 DEF leftOf
      <3>4. f[<<a, l>>] = (l + before(a, i - 1)) + 1
        BY <2>10, <3>1, <3>2, <3>3
      <3> QED
        BY ONLY <3>1, <3>4, <2>4, <2>9, <1>2
    <2>12. CASE h[a] # 0
      <3>1. /\ c \in DOMAIN nodes /\ h[c] < h[a] /\ LeftBound(c, value)
            /\ edge(nodes, s, c, 0) = edge(nodes, s, a, 0) + before(a, i - 1)
        BY <2>6, <2>12, LeftChild
      <3>2. PICK k \in Nat : k = l + before(a, i - 1)
        BY <2>4, <2>9
      <3>3. f[<<c, k>>] = k + countBelow(s, value) - edge(nodes, s, c, 0)
        BY <3>1, <2>5
      <3>4. f[<<a, l>>] = k + countBelow(s, value) - (edge(nodes, s, a, 0) + before(a, i - 1))
        BY <3>1, <3>2, <3>3, <2>10
      <3> QED
        BY ONLY <3>2, <3>4, <2>4, <2>9, <1>2
    <2> QED
      BY <2>11, <2>12
  <1> QED
    <2> SUFFICES ASSUME ~(f[<<id, n>>] = n + countBelow(s, value) - edge(nodes, s, id, 0))
                 PROVE  FALSE
      OBVIOUS
    <2>1. Wrong(id, n)
      OBVIOUS
    <2>2. h[id] \in Bad
      <3> HIDE DEF Wrong
      <3> QED
        BY <2>1, <1>1
    <2> HIDE DEF Bad
    <2> QED
      BY <2>2, <1>4

-----------------------------------------------------------------------------
(* Lower bounds. *)
LEMMA BoundFound ==
    ASSUME NEW h, Sound(nodes, h, rootNodeId), NEW s, Listed(nodes, h, s),
           NEW value \in Nat, NEW b, NEW e
    PROVE  findLowerBound(b, e, value) = TreeLowerBound(s, b, e, value)
  <1>1. /\ rootNodeId \in DOMAIN nodes /\ edge(nodes, s, rootNodeId, 0) = 0
        /\ Len(s) > 0 /\ s[1] = firstItem(nodes, rootNodeId)
    BY RootEdges
  <1>2. rootNodeId # 0 /\ nodes[rootNodeId].nextSibling = 0
    <2>1. SoundNode(nodes, h, rootNodeId)
      BY <1>1, NodeOfSound
    <2> QED
      BY <2>1 DEF SoundNode, Sound, Rooted
  <1>3. s # <<>>
    BY <1>1
  <1>4. PICK f : HeadCounts(f, value) /\ f = CHOOSE g : HeadCounts(g, value)
    BY CountsExist
  <1>5. CASE value <= firstItem(nodes, rootNodeId)
    <2>1. findLowerBound(b, e, value) = b
      BY <1>2, <1>5, LowerBoundIs
    <2>2. TreeLowerBound(s, b, e, value) = b
      BY <1>1, <1>3, <1>5 DEF TreeLowerBound
    <2> QED
      BY <2>1, <2>2
  <1>6. CASE ~(value <= firstItem(nodes, rootNodeId))
    <2>1. findLowerBound(b, e, value) = Min({f[<<rootNodeId, 0>>], e})
      BY <1>2, <1>4, <1>6, LowerBoundIs
    <2>2. firstItem(nodes, rootNodeId) \in Nat
      <3>1. s \in Seq(Nat)
        BY DEF Listed
      <3> QED
        BY <3>1, <1>1
    <2>3. LeftBound(rootNodeId, value)
      BY <1>2, <1>6, <2>2 DEF LeftBound
    <2>4. f[<<rootNodeId, 0>>] = 0 + countBelow(s, value) - 0
      BY <1>1, <1>4, <2>3, CountsRight
    <2>5. countBelow(s, value) \in Int
      <3>1. s \in Seq(Nat) /\ Strict(s)
        BY DEF Listed
      <3>2. s \in Seq(Int)
        BY <3>1
      <3>3. InOrder(s)
        BY <3>1, <3>2, StrictIs
      <3> QED
        BY <3>2, <3>3, CountsBelow
    <2>6. TreeLowerBound(s, b, e, value) = Min({countBelow(s, value), e})
      BY <1>1, <1>3, <1>6 DEF TreeLowerBound
    <2> QED
      BY <2>1, <2>4, <2>5, <2>6
  <1> QED
    BY <1>5, <1>6

LEMMA BothFind ==
    ASSUME NEW s \in Seq(Int), InOrder(s), NEW value \in Int,
           NEW b \in Nat, NEW e \in b .. Len(s), b <= countBelow(s, value)
    PROVE  TreeLowerBound(s, b, e, value) = VectorLowerBound(s, b, e, value)
  <1>1. PICK k : k = countBelow(s, value)
    OBVIOUS
  <1>2. k \in 0 .. Len(s) /\ Len(s) \in Nat
    BY <1>1, CountsBelow
  <1>3. TreeLowerBound(s, b, e, value) = IF k = 0 THEN b ELSE IF k <= e THEN k ELSE e
    BY <1>1, TreeFinds
  <1>4. VectorLowerBound(s, b, e, value) = IF k < b THEN b ELSE IF k > e THEN e ELSE k
    BY <1>1, VectorFinds DEF Clamp
  <1>5. b <= k
    BY <1>1
  <1> QED
    BY ONLY <1>2, <1>3, <1>4, <1>5, b \in Nat, e \in b .. Len(s)

LEMMA LowerBoundsHold ==
    ASSUME TypeOK, TreeInv
    PROVE  LowerBounds
  <1>1. CASE ~Settled
    BY <1>1 DEF LowerBounds
  <1>2. CASE Settled
    <2>1. Idle
      BY <1>2 DEF Settled
    <2>2. PICK h : Shape(h)
      BY DEF TreeInv
    <2>3. PICK s : s = Ordered
      OBVIOUS
    <2>4. \A value \in Items \cup {0} \cup {item + 1 : item \in Items} : value \in Nat
      BY ItemsAssumption
    <2>5. s \in Seq(Int) /\ InOrder(s)
      <3>1. CASE rootNodeId = 0
        <4>1. s = <<>>
          BY <2>1, <2>2, <2>3, <3>1, OrderedIs
        <4>2. <<>> \in Seq(Int) /\ InOrder(<<>>)
          BY DEF InOrder
        <4> QED
          BY <4>1, <4>2
      <3>2. CASE rootNodeId # 0
        <4>1. Listed(nodes, h, s)
          BY <2>1, <2>2, <2>3, <3>2, OrderedIs
        <4>2. s \in Seq(Nat) /\ Strict(s)
          BY <4>1 DEF Listed
        <4>3. s \in Seq(Int)
          BY <4>2
        <4> QED
          BY <4>2, <4>3, StrictIs
      <3> QED
        BY <3>1, <3>2
    <2>6. ASSUME NEW value \in Nat, NEW e \in 0 .. Len(s), NEW b \in 0 .. e
          PROVE  findLowerBound(b, e, value) = TreeLowerBound(s, b, e, value)
      <3>1. CASE rootNodeId = 0
        <4>1. s = <<>>
          BY <2>1, <2>2, <2>3, <3>1, OrderedIs
        <4>2. findLowerBound(b, e, value) = e
          BY <3>1, LowerBoundIs
        <4> QED
          BY <4>1, <4>2 DEF TreeLowerBound
      <3>2. CASE rootNodeId # 0
        <4>1. Sound(nodes, h, rootNodeId) /\ Listed(nodes, h, s)
          BY <2>1, <2>2, <2>3, <3>2, OrderedIs
        <4> QED
          BY <4>1, BoundFound
      <3> QED
        BY <3>1, <3>2
    <2>7. ASSUME NEW value \in Nat, NEW e \in 0 .. Len(s), NEW b \in 0 .. e
          PROVE  b <= countBelow(s, value) =>
                     findLowerBound(b, e, value) = VectorLowerBound(s, b, e, value)
      <3>1. Len(s) \in Nat /\ value \in Int
        BY <2>5
      <3>2. b \in Nat /\ e \in b .. Len(s)
        BY <3>1
      <3> QED
        BY <3>1, <3>2, <2>5, <2>6, BothFind
    <2>8. \A value \in Nat : \A e \in 0 .. Len(s) : \A b \in 0 .. e :
              /\ findLowerBound(b, e, value) = TreeLowerBound(s, b, e, value)
              /\ b <= countBelow(s, value) =>
                     findLowerBound(b, e, value) = VectorLowerBound(s, b, e, value)
      BY <2>6, <2>7
    <2> QED
      BY ONLY <1>2, <2>3, <2>4, <2>8 DEF LowerBounds
  <1> QED
    BY <1>1, <1>2

-----------------------------------------------------------------------------
(* Slices that follow one another. *)
LEMMA OffsetsAre ==
    ASSUME NEW n \in Nat, NEW o \in [0 .. n -> Nat], NEW g \in [0 .. n -> Nat],
           o[0] = 0, \A i \in 1 .. n : o[i] = o[i - 1] + (g[i] - g[i - 1])
    PROVE  \A i \in 0 .. n : o[i] = g[i] - g[0]
  <1> DEFINE Off(k) == o[k] # g[k] - g[0]
             Bad == {k \in Nat : k \in 0 .. n /\ Off(k)}
  <1> HIDE DEF Off
  <1>1. Bad = {}
    <2> SUFFICES ASSUME Bad # {}
                 PROVE  FALSE
      OBVIOUS
    <2>1. PICK k \in Bad : \A m \in Bad : k <= m
      <3>1. Bad \subseteq Nat
        OBVIOUS
      <3> HIDE DEF Bad
      <3> QED
        BY <3>1, LeastNumber
    <2>2. k \in Nat /\ k \in 0 .. n /\ Off(k)
      BY <2>1
    <2>3. k # 0
      <3>1. ~Off(0)
        <4>1. 0 \in 0 .. n
          OBVIOUS
        <4>2. g[0] \in Nat
          BY <4>1
        <4>3. o[0] = g[0] - g[0]
          BY <4>2
        <4> QED
          BY <4>3 DEF Off
      <3> QED
        BY <2>2, <3>1
    <2>4. k \in 1 .. n /\ k - 1 \in Nat /\ k - 1 \in 0 .. n /\ ~(k <= k - 1) /\ 0 \in 0 .. n
      BY ONLY <2>2, <2>3, n \in Nat
    <2>5. ~Off(k - 1)
      <3>1. k - 1 \notin Bad
        <4> HIDE DEF Bad
        <4> QED
          BY <2>1, <2>4
      <3> QED
        BY <2>4, <3>1
    <2>6. o[k - 1] = g[k - 1] - g[0]
      BY <2>5 DEF Off
    <2>7. g[k - 1] \in Nat /\ g[k] \in Nat /\ g[0] \in Nat
      BY <2>2, <2>4
    <2>8. o[k] = o[k - 1] + (g[k] - g[k - 1])
      BY <2>4
    <2>9. o[k] = g[k] - g[0]
      BY ONLY <2>6, <2>7, <2>8
    <2> QED
      BY <2>2, <2>9 DEF Off
  <1>2. \A k \in 0 .. n : k \in Nat
    BY n \in Nat
  <1>3. \A k \in 0 .. n : ~Off(k)
    <2> TAKE k \in 0 .. n
    <2>1. k \in Nat /\ k \notin Bad
      BY <1>1, <1>2
    <2> QED
      BY <2>1
  <1> QED
    BY <1>3 DEF Off

Slices(s, seqs, n, g) ==
    /\ s \in Seq(Int) /\ n \in Nat /\ n = Len(seqs) /\ g \in [0 .. n -> 0 .. Len(s)]
    /\ \A i \in 1 .. n : g[i - 1] < g[i] /\ seqs[i] = slice(s, g[i - 1], g[i])

LEMMA SlicesJoin ==
    ASSUME NEW s, NEW seqs, NEW t \in Seq(Int), NEW o, Flattened(seqs, t, o),
           NEW n, NEW g, Slices(s, seqs, n, g)
    PROVE  t = slice(s, g[0], g[n])
  <1> s \in Seq(Int) /\ n \in Nat /\ n = Len(seqs) /\ g \in [0 .. n -> 0 .. Len(s)]
    BY DEF Slices
  <1>0. \A i \in 1 .. n : g[i - 1] < g[i] /\ seqs[i] = slice(s, g[i - 1], g[i])
    BY DEF Slices
  <1>1. Len(s) \in Nat /\ 0 \in 0 .. n /\ n \in 0 .. n
    OBVIOUS
  <1>2. g \in [0 .. n -> Nat]
    BY <1>1
  <1>3. /\ o \in [0 .. n -> Nat] /\ o[0] = 0 /\ Len(t) = o[n]
        /\ \A i \in 1 .. n : o[i] = o[i - 1] + Len(seqs[i])
    BY DEF Flattened
  <1>4. ASSUME NEW i \in 1 .. n
        PROVE  /\ i - 1 \in 0 .. n /\ i \in 0 .. n
               /\ g[i - 1] \in Nat /\ g[i] \in Nat
               /\ Len(seqs[i]) = g[i] - g[i - 1]
               /\ \A j \in 1 .. Len(seqs[i]) : seqs[i][j] = s[g[i - 1] + j]
    <2>1. i - 1 \in 0 .. n /\ i \in 0 .. n
      OBVIOUS
    <2>2. PICK a \in Nat : a = g[i - 1]
      BY <1>2, <2>1
    <2>3. PICK b \in Nat : b = g[i] /\ b \in 0 .. Len(s)
      BY <1>2, <2>1
    <2>4. a < b /\ seqs[i] = slice(s, a, b)
      BY <1>0, <2>2, <2>3
    <2>5. b \in a .. Len(s)
      BY ONLY <2>3, <2>4, <1>1, a \in Nat
    <2>6. /\ Len(slice(s, a, b)) = b - a
          /\ \A j \in 1 .. b - a : slice(s, a, b)[j] = s[a + j]
      BY <2>5, Sliced
    <2> QED
      BY <2>1, <2>2, <2>3, <2>4, <2>6
  <1>5. \A i \in 0 .. n : o[i] = g[i] - g[0]
    <2>1. \A i \in 1 .. n : o[i] = o[i - 1] + (g[i] - g[i - 1])
      BY <1>3, <1>4
    <2> QED
      BY <2>1, <1>2, <1>3, OffsetsAre
  <1>6. PICK a \in Nat : a = g[0]
    BY <1>1, <1>2
  <1>7. PICK b \in Nat : b = g[n] /\ b \in 0 .. Len(s)
    BY <1>1, <1>2
  <1>8. o[n] = b - a /\ b - a \in Nat
    <2>1. o[n] = b - a
      BY <1>1, <1>5, <1>6, <1>7
    <2>2. o[n] \in Nat
      BY <1>1, <1>3
    <2> QED
      BY <2>1, <2>2
  <1>9. b \in a .. Len(s)
    BY ONLY <1>1, <1>6, <1>7, <1>8
  <1>10. /\ slice(s, a, b) \in Seq(Int) /\ Len(slice(s, a, b)) = b - a
         /\ \A k \in 1 .. b - a : slice(s, a, b)[k] = s[a + k]
    BY <1>9, Sliced
  <1>11. ASSUME NEW p \in 1 .. Len(t)
         PROVE  t[p] = s[a + p]
    <2>1. PICK i \in 1 .. Len(seqs) : \E j \in 1 .. Len(seqs[i]) :
              p = o[i - 1] + j /\ t[p] = seqs[i][j]
      <3>1. InPart(seqs, t, o, p)
        BY Located
      <3> QED
        BY ONLY <3>1 DEF InPart
    <2>2. PICK j \in 1 .. Len(seqs[i]) : p = o[i - 1] + j /\ t[p] = seqs[i][j]
      BY <2>1
    <2>3. /\ i - 1 \in 0 .. n /\ g[i - 1] \in Nat
          /\ seqs[i][j] = s[g[i - 1] + j]
          /\ Len(seqs[i]) = g[i] - g[i - 1] /\ g[i] \in Nat
      BY <1>4
    <2>4. o[i - 1] = g[i - 1] - a
      BY <2>3, <1>5, <1>6
    <2>5. j \in Nat
      BY <2>3
    <2>6. a + p = g[i - 1] + j
      BY ONLY <2>2, <2>3, <2>4, <2>5, a \in Nat
    <2> QED
      BY <2>2, <2>3, <2>6
  <1>12. PICK u : u = slice(s, a, b)
    OBVIOUS
  <1>13. /\ u \in Seq(Int) /\ Len(u) = b - a
         /\ \A k \in 1 .. b - a : u[k] = s[a + k]
    BY <1>10, <1>12
  <1>14. Len(t) = b - a
    BY <1>3, <1>8
  <1>15. t = u
    BY ONLY <1>11, <1>13, <1>14, t \in Seq(Int), SeqEqual
  <1> QED
    BY <1>6, <1>7, <1>12, <1>15

-----------------------------------------------------------------------------
(* The items of the leaves as a function of the node. *)
itemsBelow(f, id) ==
    IF isLeaf(id) THEN [i \in DOMAIN keysOf(id) |-> keysOf(id)[i].item]
    ELSE FlattenSeq([i \in DOMAIN keysOf(id) |-> f[keysOf(id)[i].nodeId]])

Collects(f) == f = [id \in DOMAIN nodes |-> itemsBelow(f, id)]

LEMMA ItemsOfLeavesIs ==
    ItemsOfLeaves = IF rootNodeId = 0 THEN <<>> ELSE (CHOOSE f : Collects(f))[rootNodeId]
  BY DEF ItemsOfLeaves, Collects, itemsBelow

LEMMA IsLeafIs ==
    ASSUME NEW h, Sound(nodes, h, rootNodeId), NEW id \in DOMAIN nodes
    PROVE  /\ isLeaf(id) <=> h[id] = 0
           /\ keysOf(id) = nodes[id].items
           /\ DOMAIN keysOf(id) = 1 .. Len(keysOf(id))
           /\ Len(keysOf(id)) \in Nat /\ Len(keysOf(id)) > 0
           /\ h[id] \in Nat /\ id # 0
           /\ h[id] # 0 => \A i \in 1 .. Len(keysOf(id)) :
                 /\ keysOf(id)[i].nodeId \in DOMAIN nodes
                 /\ h[keysOf(id)[i].nodeId] = h[id] - 1
                 /\ h[keysOf(id)[i].nodeId] < h[id]
  <1>1. SoundNode(nodes, h, id)
    BY NodeOfSound
  <1>2. /\ DOMAIN nodes[id].items = 1 .. Len(nodes[id].items)
        /\ Len(nodes[id].items) \in Nat /\ Len(nodes[id].items) > 0
        /\ h[id] \in Nat /\ id # 0 /\ LevelsAt(nodes, h, id)
    BY <1>1 DEF SoundNode
  <1>3. 1 \in 1 .. Len(nodes[id].items)
    BY <1>2
  <1>4. ASSUME h[id] # 0, NEW i \in 1 .. Len(nodes[id].items)
        PROVE  /\ nodes[id].items[i].nodeId \in DOMAIN nodes
               /\ nodes[id].items[i].nodeId # 0
               /\ h[nodes[id].items[i].nodeId] = h[id] - 1
               /\ h[nodes[id].items[i].nodeId] < h[id]
    <2>1. ChildOf(nodes, h, id, i, nodes[id].items[i].nodeId)
      BY <1>4, ChildOfSound
    <2> QED
      BY <2>1, <1>2 DEF ChildOf
  <1>5. isLeaf(id) <=> h[id] = 0
    <2>1. ASSUME h[id] = 0 PROVE nodes[id].items[1].nodeId = 0
      BY <2>1, <1>2, <1>3 DEF LevelsAt
    <2>2. ASSUME h[id] # 0 PROVE nodes[id].items[1].nodeId # 0
      BY <2>2, <1>3, <1>4
    <2> QED
      BY <2>1, <2>2 DEF isLeaf, keysOf
  <1> QED
    BY <1>2, <1>4, <1>5 DEF keysOf

LEMMA FunctionIsSeq ==
    ASSUME NEW S, NEW n \in Nat, NEW f \in [1 .. n -> S]
    PROVE  f \in Seq(S)
  BY SeqDef

LEMMA GathersExists ==
    ASSUME NEW h, Sound(nodes, h, rootNodeId)
    PROVE  \E f \in [DOMAIN nodes -> Seq(Nat)] : Collects(f)
  <1> DEFINE D == DOMAIN nodes
             F == [f \in [D -> Seq(Nat)] |-> [id \in D |-> itemsBelow(f, id)]]
             rank == [id \in D |-> h[id]]
  <1>1. \A id \in D : h[id] \in Nat /\ rank[id] = h[id]
    BY IsLeafIs
  <1>2. rank \in [D -> Nat]
    BY <1>1
  <1> HIDE DEF rank
  <1>3. ASSUME NEW f \in [D -> Seq(Nat)], NEW id \in D
        PROVE  itemsBelow(f, id) \in Seq(Nat)
    <2>1. PICK n \in Nat : n = Len(keysOf(id)) /\ DOMAIN keysOf(id) = 1 .. n
      BY IsLeafIs
    <2>2. CASE isLeaf(id)
      <3>1. \A i \in 1 .. n : keysOf(id)[i].item \in Nat
        BY <2>1, NodeOfSound DEF SoundNode, keysOf
      <3>2. [i \in 1 .. n |-> keysOf(id)[i].item] \in [1 .. n -> Nat]
        BY <3>1
      <3>3. [i \in 1 .. n |-> keysOf(id)[i].item] \in Seq(Nat)
        BY <3>2, SeqDef
      <3> QED
        BY <3>3, <2>1, <2>2 DEF itemsBelow
    <2>3. CASE ~isLeaf(id)
      <3>1. \A i \in 1 .. n : f[keysOf(id)[i].nodeId] \in Seq(Nat)
        BY <2>1, <2>3, IsLeafIs
      <3>2. [i \in 1 .. n |-> f[keysOf(id)[i].nodeId]] \in [1 .. n -> Seq(Nat)]
        BY <3>1
      <3>3. PICK seqs \in Seq(Seq(Nat)) : seqs = [i \in 1 .. n |-> f[keysOf(id)[i].nodeId]]
        BY ONLY <3>2, n \in Nat, FunctionIsSeq
      <3>4. FlattenSeq(seqs) \in Seq(Nat)
        BY FlattenIs
      <3> QED
        BY <3>3, <3>4, <2>1, <2>3 DEF itemsBelow
    <2> QED
      BY <2>2, <2>3
  <1>4. ASSUME NEW f \in [D -> Seq(Nat)], NEW g \in [D -> Seq(Nat)], NEW x \in D,
               \A y \in D : rank[y] < rank[x] => f[y] = g[y]
        PROVE  itemsBelow(f, x) = itemsBelow(g, x)
    <2>1. CASE isLeaf(x)
      BY <2>1 DEF itemsBelow
    <2>2. CASE ~isLeaf(x)
      <3>1. \A i \in DOMAIN keysOf(x) : f[keysOf(x)[i].nodeId] = g[keysOf(x)[i].nodeId]
        <4> TAKE i \in DOMAIN keysOf(x)
        <4>1. /\ keysOf(x)[i].nodeId \in D
              /\ h[keysOf(x)[i].nodeId] < h[x]
          BY <2>2, IsLeafIs
        <4>2. rank[keysOf(x)[i].nodeId] < rank[x]
          BY <4>1, <1>1
        <4> QED
          BY <4>1, <4>2, <1>4
      <3>2. [i \in DOMAIN keysOf(x) |-> f[keysOf(x)[i].nodeId]]
              = [i \in DOMAIN keysOf(x) |-> g[keysOf(x)[i].nodeId]]
        BY <3>1
      <3> QED
        BY <3>2, <2>2 DEF itemsBelow
    <2> QED
      BY <2>1, <2>2
  <1>5. /\ F \in [[D -> Seq(Nat)] -> [D -> Seq(Nat)]]
        /\ \A f \in [D -> Seq(Nat)] : F[f] = [id \in D |-> itemsBelow(f, id)]
    BY <1>3
  <1> HIDE DEF F
  <1>6. \A f, g \in [D -> Seq(Nat)] : \A x \in D :
          (\A y \in D : rank[y] < rank[x] => f[y] = g[y]) => F[f][x] = F[g][x]
    <2> TAKE f, g \in [D -> Seq(Nat)]
    <2> TAKE x \in D
    <2> HAVE \A y \in D : rank[y] < rank[x] => f[y] = g[y]
    <2>1. itemsBelow(f, x) = itemsBelow(g, x)
      BY <1>4
    <2>2. F[f] = [i \in D |-> itemsBelow(f, i)] /\ F[g] = [i \in D |-> itemsBelow(g, i)]
      BY <1>5
    <2>3. F[f][x] = itemsBelow(f, x) /\ F[g][x] = itemsBelow(g, x)
      BY <2>2
    <2> QED
      BY <2>1, <2>3
  <1>7. Recursion(D, Seq(Nat), rank, F)
    BY <1>2, <1>5, <1>6 DEF Recursion
  <1>8. PICK e \in [D -> Seq(Nat)] : F[e] = e
    <2>1. <<>> \in Seq(Nat)
      OBVIOUS
    <2>2. Seq(Nat) # {}
      BY <2>1
    <2> QED
      BY <2>2, <1>7, RecursionExists
  <1>9. Collects(e)
    BY <1>5, <1>8 DEF Collects
  <1> QED
    BY <1>8, <1>9

-----------------------------------------------------------------------------
(* The items under a node are those between its edges. *)
Told(f, s, id) ==
    f[id] = slice(s, edge(nodes, s, id, 0), edge(nodes, s, id, Len(nodes[id].items)))

LEMMA LeafTold ==
    ASSUME NEW h, Sound(nodes, h, rootNodeId), NEW s, Listed(nodes, h, s),
           NEW f, Collects(f), NEW id \in DOMAIN nodes, h[id] = 0
    PROVE  Told(f, s, id)
  <1>1. s \in Seq(Int)
    <2>1. s \in Seq(Nat)
      BY DEF Listed
    <2> QED
      BY <2>1
  <1>2. PICK n \in Nat : n = Len(nodes[id].items) /\ DOMAIN keysOf(id) = 1 .. n
                         /\ isLeaf(id)
    BY IsLeafIs DEF keysOf
  <1>3. Single(id)
    BY LeafSingle
  <1>4. OneEach(s, id)
    BY <1>3, SingleOneEach
  <1>5. PICK a : a = edge(nodes, s, id, 0)
    OBVIOUS
  <1>6. PICK b : b = edge(nodes, s, id, n)
    OBVIOUS
  <1>7. a \in 0 .. Len(s) /\ b \in 0 .. Len(s) /\ b = a + n
    <2>1. 0 \in 0 .. n /\ n \in 0 .. n
      OBVIOUS
    <2> QED
      BY <1>2, <1>4, <1>5, <1>6, <2>1 DEF OneEach
  <1>8. a \in Nat /\ b \in a .. Len(s) /\ b - a = n /\ Len(s) \in Nat
    BY ONLY <1>1, <1>7, n \in Nat
  <1>9. PICK u : u = slice(s, a, b)
    OBVIOUS
  <1>10. u \in Seq(Int) /\ Len(u) = n /\ \A i \in 1 .. n : u[i] = s[a + i]
    BY <1>1, <1>8, <1>9, Sliced
  <1>11. PICK t : t = [i \in 1 .. n |-> nodes[id].items[i].item]
    OBVIOUS
  <1>12. f[id] = t
    <2>1. f[id] = itemsBelow(f, id)
      BY DEF Collects
    <2> QED
      BY <2>1, <1>2, <1>11 DEF itemsBelow, keysOf
  <1>13. \A i \in 1 .. n : t[i] = u[i]
    <2> TAKE i \in 1 .. n
    <2>1. s[a + i] = nodes[id].items[i].item
      BY <1>2, <1>3, <1>5, SingleItem
    <2> QED
      BY <2>1, <1>10, <1>11
  <1>14. t = u
    <2>1. u \in [1 .. n -> Int]
      BY <1>10
    <2>2. u = [i \in 1 .. n |-> u[i]]
      BY ONLY <2>1
    <2>3. t = [i \in 1 .. n |-> t[i]]
      BY ONLY <1>11
    <2> QED
      BY ONLY <2>2, <2>3, <1>13
  <1> QED
    BY <1>2, <1>5, <1>6, <1>9, <1>12, <1>14 DEF Told

LEMMA InnerTold ==
    ASSUME NEW h, Sound(nodes, h, rootNodeId), NEW s, Listed(nodes, h, s),
           NEW f, Collects(f), NEW id \in DOMAIN nodes, h[id] # 0,
           \A c \in DOMAIN nodes : h[c] < h[id] => Told(f, s, c)
    PROVE  Told(f, s, id)
  <1>1. s \in Seq(Int)
    <2>1. s \in Seq(Nat)
      BY DEF Listed
    <2> QED
      BY <2>1
  <1>2. PICK n \in Nat : /\ n = Len(nodes[id].items) /\ DOMAIN keysOf(id) = 1 .. n
                         /\ ~isLeaf(id) /\ n > 0 /\ keysOf(id) = nodes[id].items
    BY IsLeafIs DEF keysOf
  <1>3. PICK g : Edges(nodes, s, id, g)
    BY NodeEdges
  <1>4. /\ g \in [0 .. n -> 0 .. Len(s)] /\ Len(s) \in Nat
        /\ g[0] = edge(nodes, s, id, 0) /\ g[n] = edge(nodes, s, id, n)
        /\ \A i \in 1 .. n : g[i - 1] < g[i] /\ g[i - 1] = edge(nodes, s, id, i - 1)
                             /\ g[i] = edge(nodes, s, id, i)
                             /\ g[i - 1] \in Nat /\ g[i] \in 0 .. Len(s)
    <2>1. 0 \in 0 .. n /\ n \in 0 .. n
      OBVIOUS
    <2>2. \A i \in 1 .. n : i - 1 \in 0 .. n /\ i \in 0 .. n
      OBVIOUS
    <2> QED
      BY <1>2, <1>3, <2>1, <2>2 DEF Edges
  <1>5. PICK seqs : seqs = [i \in 1 .. n |-> f[nodes[id].items[i].nodeId]]
    OBVIOUS
  <1>6. ASSUME NEW i \in 1 .. n
        PROVE  seqs[i] = slice(s, g[i - 1], g[i]) /\ seqs[i] \in Seq(Int)
    <2>1. PICK c \in DOMAIN nodes : c = nodes[id].items[i].nodeId /\ h[c] < h[id]
      BY <1>2, IsLeafIs
    <2>2. Told(f, s, c)
      BY <2>1
    <2>3. /\ edge(nodes, s, c, 0) = g[i - 1]
          /\ edge(nodes, s, c, Len(nodes[c].items)) = g[i]
      BY <1>2, <1>4, <2>1, ChildEdges
    <2>4. seqs[i] = slice(s, g[i - 1], g[i])
      BY <1>5, <2>1, <2>2, <2>3 DEF Told
    <2>5. PICK a \in Nat : a = g[i - 1]
      BY <1>4
    <2>6. PICK b \in 0 .. Len(s) : b = g[i]
      BY <1>4
    <2>7. a < b
      BY <1>4, <2>5, <2>6
    <2>8. b \in a .. Len(s)
      BY ONLY <1>4, <2>7, a \in Nat, b \in 0 .. Len(s)
    <2>9. slice(s, a, b) \in Seq(Int)
      BY <1>1, <2>8, Sliced
    <2> QED
      BY <2>4, <2>5, <2>6, <2>9
  <1>7. seqs \in [1 .. n -> Seq(Int)]
    BY <1>5, <1>6
  <1>8. seqs \in Seq(Seq(Int)) /\ Len(seqs) = n
    <2>1. seqs \in Seq(Seq(Int))
      BY ONLY <1>7, n \in Nat, FunctionIsSeq
    <2>2. DOMAIN seqs = 1 .. n
      BY <1>7
    <2> QED
      BY ONLY <2>1, <2>2, n \in Nat
  <1>9. PICK t \in Seq(Int) : t = FlattenSeq(seqs)
    BY <1>8, FlattenIs
  <1>10. PICK o : Flattened(seqs, t, o)
    BY <1>8, <1>9, FlattenIs
  <1>11. \A i \in 1 .. n : g[i - 1] < g[i] /\ seqs[i] = slice(s, g[i - 1], g[i])
    BY <1>4, <1>6
  <1>12. t = slice(s, g[0], g[n])
    <2>1. Slices(s, seqs, n, g)
      BY ONLY <1>1, <1>4, <1>8, <1>11, n \in Nat DEF Slices
    <2> QED
      BY ONLY <2>1, <1>10, t \in Seq(Int), SlicesJoin
  <1>13. f[id] = t
    <2>1. f[id] = itemsBelow(f, id)
      BY DEF Collects
    <2> QED
      BY <2>1, <1>2, <1>5, <1>9 DEF itemsBelow
  <1> QED
    BY <1>2, <1>4, <1>12, <1>13 DEF Told

LEMMA AllTold ==
    ASSUME NEW h, Sound(nodes, h, rootNodeId), NEW s, Listed(nodes, h, s),
           NEW f, Collects(f)
    PROVE  \A id \in DOMAIN nodes : Told(f, s, id)
  <1> DEFINE Bad == {l \in Nat : \E id \in DOMAIN nodes : h[id] = l /\ ~Told(f, s, id)}
  <1>1. \A id \in DOMAIN nodes : h[id] \in Nat
    BY IsLeafIs
  <1>2. Bad = {}
    <2> SUFFICES ASSUME Bad # {}
                 PROVE  FALSE
      OBVIOUS
    <2>1. PICK l \in Bad : \A m \in Bad : l <= m
      <3>1. Bad \subseteq Nat
        OBVIOUS
      <3> HIDE DEF Bad
      <3> QED
        BY <3>1, LeastNumber
    <2>2. PICK id \in DOMAIN nodes : h[id] = l /\ ~Told(f, s, id)
      BY <2>1
    <2>3. ASSUME NEW c \in DOMAIN nodes, h[c] < h[id], ~Told(f, s, c)
          PROVE  FALSE
      <3>1. h[c] \in Bad
        BY <1>1, <2>3
      <3>2. ~(l <= h[c])
        BY <1>1, <2>2, <2>3
      <3> HIDE DEF Bad
      <3> QED
        BY <3>1, <3>2, <2>1
    <2>4. \A c \in DOMAIN nodes : h[c] < h[id] => Told(f, s, c)
      BY <2>3
    <2> QED
      BY <2>2, <2>4, LeafTold, InnerTold
  <1> QED
    BY <1>1, <1>2

LEMMA WholeSlice ==
    ASSUME NEW s \in Seq(Int)
    PROVE  slice(s, 0, Len(s)) = s
  <1>1. Len(s) \in Nat /\ Len(s) \in 0 .. Len(s) /\ 0 \in Nat
    OBVIOUS
  <1>2. PICK u : u = slice(s, 0, Len(s))
    OBVIOUS
  <1>3. PICK n \in Nat : n = Len(s)
    BY <1>1
  <1>4. u \in Seq(Int) /\ Len(u) = n /\ \A i \in 1 .. n : u[i] = s[i]
    <2>1. u \in Seq(Int) /\ Len(u) = n - 0 /\ \A i \in 1 .. n - 0 : u[i] = s[0 + i]
      BY <1>1, <1>2, <1>3, Sliced
    <2> QED
      BY ONLY <2>1, n \in Nat
  <1>5. u = s
    BY ONLY <1>3, <1>4, s \in Seq(Int), SeqEqual
  <1> QED
    BY <1>2, <1>5

LEMMA HoldsContentsHold ==
    ASSUME TypeOK, TreeInv
    PROVE  HoldsContents
  <1> SUFFICES ASSUME Idle
               PROVE  ItemsOfLeaves = Ordered
    BY DEF HoldsContents
  <1>1. PICK h : Shape(h)
    BY DEF TreeInv
  <1>2. PICK s : s = Ordered
    OBVIOUS
  <1>3. CASE rootNodeId = 0
    <2>1. Ordered = <<>>
      BY <1>1, <1>3, OrderedIs
    <2> QED
      BY <2>1, <1>3, ItemsOfLeavesIs
  <1>4. CASE rootNodeId # 0
    <2>1. Sound(nodes, h, rootNodeId) /\ Listed(nodes, h, s)
      BY <1>1, <1>2, <1>4, OrderedIs
    <2>2. PICK f : Collects(f) /\ f = CHOOSE e : Collects(e)
      <3>1. \E e : Collects(e)
        BY <2>1, GathersExists
      <3> QED
        BY <3>1
    <2>3. ItemsOfLeaves = f[rootNodeId]
      BY <1>4, <2>2, ItemsOfLeavesIs
    <2>4. /\ rootNodeId \in DOMAIN nodes
          /\ edge(nodes, s, rootNodeId, 0) = 0
          /\ edge(nodes, s, rootNodeId, Len(nodes[rootNodeId].items)) = Len(s)
      BY <2>1, RootEdges
    <2>5. f[rootNodeId] = slice(s, 0, Len(s))
      BY <2>1, <2>2, <2>4, AllTold DEF Told
    <2>6. s \in Seq(Int)
      <3>1. s \in Seq(Nat)
        BY <2>1 DEF Listed
      <3> QED
        BY <3>1
    <2> QED
      BY <1>2, <2>3, <2>5, <2>6, WholeSlice
  <1> QED
    BY <1>3, <1>4

-----------------------------------------------------------------------------
(* The levels of the tree.                                                 *)

(* Neighbours in a whole are neighbours in a part, or where two parts meet. *)
AllThere(seqs) == Len(seqs) # 0 /\ \A i \in 1 .. Len(seqs) : Len(seqs[i]) # 0

Neighbours(seqs, a, b) ==
    \E i \in 1 .. Len(seqs) :
        \/ \E j \in 1 .. Len(seqs[i]) :
              j # Len(seqs[i]) /\ a = seqs[i][j] /\ b = seqs[i][j + 1]
        \/ /\ i # Len(seqs)
           /\ a = seqs[i][Len(seqs[i])] /\ b = seqs[i + 1][1]

EndsMeet(seqs, t) ==
    /\ Len(t) \in Nat /\ Len(t) # 0
    /\ t[1] = seqs[1][1]
    /\ t[Len(t)] = seqs[Len(seqs)][Len(seqs[Len(seqs)])]

LEMMA JoinEnds ==
    ASSUME NEW seqs, NEW t, NEW o, Flattened(seqs, t, o), AllThere(seqs)
    PROVE  EndsMeet(seqs, t)
  <1>1. PICK n \in Nat : n = Len(seqs) /\ n # 0
    BY DEF Flattened, AllThere
  <1>2. /\ o \in [0 .. n -> Nat] /\ o[0] = 0 /\ Len(t) = o[n]
        /\ \A i \in 1 .. n :
              /\ Len(seqs[i]) \in Nat
              /\ o[i] = o[i - 1] + Len(seqs[i])
              /\ \A j \in 1 .. Len(seqs[i]) : t[o[i - 1] + j] = seqs[i][j]
    BY <1>1 DEF Flattened
  <1>3. \A i \in 1 .. n : Len(seqs[i]) # 0
    BY <1>1 DEF AllThere
  <1>4. 1 \in 1 .. n /\ n \in 1 .. n /\ n - 1 \in 0 .. n
    BY <1>1
  <1>5. t[1] = seqs[1][1]
    <2>1. PICK l \in Nat : l = Len(seqs[1]) /\ l # 0
      BY <1>2, <1>3, <1>4
    <2>2. 1 \in 1 .. l /\ 1 - 1 = 0 /\ 0 + 1 = 1
      BY ONLY <2>1, l \in Nat
    <2>3. t[o[1 - 1] + 1] = seqs[1][1]
      BY <1>2, <1>4, <2>1, <2>2
    <2>4. o[1 - 1] = 0
      BY <1>2, <2>2
    <2> QED
      BY ONLY <2>2, <2>3, <2>4
  <1>6. /\ Len(t) \in Nat /\ Len(t) # 0
        /\ t[Len(t)] = seqs[n][Len(seqs[n])]
    <2>1. PICK l \in Nat : l = Len(seqs[n]) /\ l # 0
      BY <1>2, <1>3, <1>4
    <2>2. PICK m \in Nat : m = o[n - 1]
      BY <1>2, <1>4
    <2>3. o[n] = m + l /\ t[m + l] = seqs[n][l]
      <3>1. l \in 1 .. l
        BY ONLY <2>1, l \in Nat
      <3> QED
        BY <1>2, <1>4, <2>1, <2>2, <3>1
    <2>4. m + l \in Nat /\ m + l # 0
      BY ONLY <2>1, l \in Nat, m \in Nat
    <2> QED
      BY <1>2, <2>1, <2>3, <2>4
  <1> QED
    BY <1>1, <1>5, <1>6 DEF EndsMeet

LEMMA JoinNeighbours ==
    ASSUME NEW seqs, NEW t, NEW o, Flattened(seqs, t, o), AllThere(seqs),
           NEW p \in 1 .. Len(t), p # Len(t)
    PROVE  Neighbours(seqs, t[p], t[p + 1])
  <1>1. PICK n \in Nat : n = Len(seqs) /\ n # 0
    BY DEF Flattened, AllThere
  <1>2. /\ o \in [0 .. n -> Nat] /\ o[0] = 0 /\ Len(t) = o[n]
        /\ \A i \in 1 .. n :
              /\ Len(seqs[i]) \in Nat
              /\ o[i] = o[i - 1] + Len(seqs[i])
              /\ \A j \in 1 .. Len(seqs[i]) : t[o[i - 1] + j] = seqs[i][j]
    BY <1>1 DEF Flattened
  <1>3. \A i \in 1 .. n : Len(seqs[i]) # 0
    BY <1>1 DEF AllThere
  <1>4. InPart(seqs, t, o, p)
    BY Located
  <1>5. PICK i \in 1 .. n : \E j \in 1 .. Len(seqs[i]) :
            p = o[i - 1] + j /\ t[p] = seqs[i][j]
    BY <1>1, <1>4 DEF InPart
  <1>6. PICK l \in Nat : l = Len(seqs[i])
    BY <1>2
  <1>7. PICK j \in 1 .. l : p = o[i - 1] + j /\ t[p] = seqs[i][j]
    BY <1>5, <1>6
  <1>8. i - 1 \in 0 .. n
    OBVIOUS
  <1>9. PICK m \in Nat : m = o[i - 1]
    BY <1>2, <1>8
  <1>10. p = m + j /\ o[i] = m + l
    BY <1>2, <1>6, <1>7, <1>9
  <1>11. CASE j # l
    <2>1. j + 1 \in 1 .. l /\ p + 1 = m + (j + 1)
      BY ONLY <1>10, <1>11, j \in 1 .. l, l \in Nat, m \in Nat
    <2>2. t[m + (j + 1)] = seqs[i][j + 1]
      BY <1>2, <1>6, <1>9, <2>1
    <2>3. t[p + 1] = seqs[i][j + 1]
      BY ONLY <2>1, <2>2
    <2> QED
      BY ONLY <1>1, <1>6, <1>7, <1>11, <2>3, i \in 1 .. n DEF Neighbours
  <1>12. CASE j = l
    <2>1. p = o[i] /\ p # o[n]
      BY <1>2, <1>10, <1>12
    <2>2. i # n
      BY <2>1
    <2>3. i + 1 \in 1 .. n /\ (i + 1) - 1 = i
      BY ONLY <2>2, i \in 1 .. n, n \in Nat
    <2>4. PICK k \in Nat : k = Len(seqs[i + 1]) /\ k # 0
      BY <1>2, <1>3, <2>3
    <2>5. 1 \in 1 .. k
      BY ONLY <2>4, k \in Nat
    <2>6. t[o[(i + 1) - 1] + 1] = seqs[i + 1][1]
      BY <1>2, <2>3, <2>4, <2>5
    <2>7. t[p + 1] = seqs[i + 1][1]
      BY ONLY <2>1, <2>3, <2>6
    <2>8. t[p] = seqs[i][Len(seqs[i])]
      BY <1>6, <1>7, <1>12
    <2> QED
      BY ONLY <1>1, <2>2, <2>7, <2>8, i \in 1 .. n DEF Neighbours
  <1> QED
    BY <1>11, <1>12

-----------------------------------------------------------------------------
(* The nodes d levels below a node. *)
rowOf(f, at) ==
    LET id == at[1]
        d  == at[2]
    IN  IF d = 0 THEN <<id>>
        ELSE IF isLeaf(id) THEN <<>>
        ELSE FlattenSeq([i \in DOMAIN keysOf(id) |->
                            f[<<keysOf(id)[i].nodeId, d - 1>>]])

Rows(f) == f = [at \in (DOMAIN nodes) \X Nat |-> rowOf(f, at)]

LEMMA LevelIs ==
    ASSUME NEW n
    PROVE  Level(n) = IF rootNodeId = 0 THEN <<>>
                      ELSE (CHOOSE f : Rows(f))[<<rootNodeId, n>>]
  BY DEF Level, Rows, rowOf

(* What a row is made of. *)
Lines(f, id, d) == [i \in 1 .. Len(nodes[id].items) |-> f[<<nodes[id].items[i].nodeId, d - 1>>]]

LEMMA RowIs ==
    ASSUME NEW h, Sound(nodes, h, rootNodeId), NEW f, NEW id \in DOMAIN nodes, NEW d \in Nat
    PROVE  rowOf(f, <<id, d>>) = IF d = 0 THEN <<id>> ELSE IF h[id] = 0 THEN <<>>
                                 ELSE FlattenSeq(Lines(f, id, d))
  <1>1. /\ isLeaf(id) <=> h[id] = 0
        /\ keysOf(id) = nodes[id].items
        /\ DOMAIN keysOf(id) = 1 .. Len(nodes[id].items)
    BY IsLeafIs
  <1>2. <<id, d>>[1] = id /\ <<id, d>>[2] = d
    OBVIOUS
  <1> QED
    BY <1>1, <1>2 DEF rowOf, Lines

RowsBelowIn(V, h, f, id, d) ==
    \A c \in DOMAIN nodes : h[c] = h[id] - 1 => f[<<c, d - 1>>] \in V

OneLineEach(V, f, id, d) ==
    /\ Lines(f, id, d) \in Seq(V) /\ Len(Lines(f, id, d)) = Len(nodes[id].items)
    /\ \A i \in 1 .. Len(nodes[id].items) :
          Lines(f, id, d)[i] = f[<<nodes[id].items[i].nodeId, d - 1>>]

LEMMA LinesAre ==
    ASSUME NEW h, Sound(nodes, h, rootNodeId), NEW V, NEW f, NEW id \in DOMAIN nodes,
           NEW d \in Nat, h[id] # 0, RowsBelowIn(V, h, f, id, d)
    PROVE  OneLineEach(V, f, id, d)
  <1>1. PICK n \in Nat : n = Len(nodes[id].items)
    BY IsLeafIs DEF keysOf
  <1>2. \A i \in 1 .. n : /\ nodes[id].items[i].nodeId \in DOMAIN nodes
                          /\ h[nodes[id].items[i].nodeId] = h[id] - 1
    BY <1>1, IsLeafIs DEF keysOf
  <1>3. PICK seqs : seqs = Lines(f, id, d)
    OBVIOUS
  <1>4. /\ seqs = [i \in 1 .. n |-> f[<<nodes[id].items[i].nodeId, d - 1>>]]
        /\ \A i \in 1 .. n : seqs[i] \in V
    BY <1>1, <1>2, <1>3 DEF Lines, RowsBelowIn
  <1>5. seqs \in [1 .. n -> V]
    BY <1>4
  <1>6. seqs \in Seq(V)
    BY ONLY <1>5, n \in Nat, FunctionIsSeq
  <1>7. Len(seqs) = n
    <2>1. DOMAIN seqs = 1 .. n
      BY <1>4
    <2> QED
      BY ONLY <1>6, <2>1, n \in Nat
  <1> QED
    BY <1>1, <1>3, <1>4, <1>6, <1>7 DEF OneLineEach

LEMMA RowsExist ==
    ASSUME NEW h, Sound(nodes, h, rootNodeId)
    PROVE  \E f : Rows(f)
  <1> DEFINE D == DOMAIN nodes
             E == D \X Nat
             V == Seq(D)
             F == [f \in [E -> V] |-> [at \in E |-> rowOf(f, at)]]
             rank == [at \in E |-> at[2]]
  <1>1. \A at \in E : /\ at[1] \in D /\ at[2] \in Nat /\ at = <<at[1], at[2]>>
                      /\ rank[at] = at[2]
    OBVIOUS
  <1>2. rank \in [E -> Nat]
    OBVIOUS
  <1>3. ASSUME NEW c \in D, NEW d \in Nat
        PROVE  <<c, d>> \in E /\ rank[<<c, d>>] = d
    OBVIOUS
  <1> HIDE DEF rank, E
  <1>4. ASSUME NEW f \in [E -> V], NEW at \in E
        PROVE  rowOf(f, at) \in V
    <2>1. PICK id \in D, d \in Nat : at = <<id, d>>
      BY <1>1
    <2>2. CASE d = 0
      <3>1. <<id>> \in Seq(D)
        OBVIOUS
      <3> QED
        BY <2>1, <2>2, <3>1, RowIs
    <2>3. CASE d # 0 /\ h[id] = 0
      <3>1. <<>> \in Seq(D)
        OBVIOUS
      <3> QED
        BY <2>1, <2>3, <3>1, RowIs
    <2>4. CASE d # 0 /\ h[id] # 0
      <3>1. d - 1 \in Nat
        BY <2>4
      <3>2. \A c \in D : f[<<c, d - 1>>] \in V
        BY <1>3, <3>1
      <3>3. Lines(f, id, d) \in Seq(V)
        <4>1. RowsBelowIn(V, h, f, id, d)
          BY <3>2 DEF RowsBelowIn
        <4>2. OneLineEach(V, f, id, d)
          <5> HIDE DEF V
          <5> QED
            BY <4>1, <2>4, LinesAre
        <4> QED
          BY <4>2 DEF OneLineEach
      <3>4. FlattenSeq(Lines(f, id, d)) \in Seq(D)
        BY ONLY <3>3, FlattenIs
      <3> QED
        BY <2>1, <2>4, <3>4, RowIs
    <2> QED
      BY <2>2, <2>3, <2>4
  <1>5. ASSUME NEW f \in [E -> V], NEW g \in [E -> V], NEW x \in E,
               \A y \in E : rank[y] < rank[x] => f[y] = g[y]
        PROVE  rowOf(f, x) = rowOf(g, x)
    <2>1. PICK id \in D, d \in Nat : x = <<id, d>> /\ rank[x] = d
      BY <1>1
    <2>2. CASE d = 0 \/ h[id] = 0
      BY <2>1, <2>2, RowIs
    <2>3. CASE d # 0 /\ h[id] # 0
      <3>1. d - 1 \in Nat /\ d - 1 < d
        BY <2>3
      <3>2. \A c \in D : f[<<c, d - 1>>] = g[<<c, d - 1>>]
        <4> TAKE c \in D
        <4>1. <<c, d - 1>> \in E /\ rank[<<c, d - 1>>] < rank[x]
          BY <1>3, <2>1, <3>1
        <4> QED
          BY <4>1, <1>5
      <3>3. \A i \in 1 .. Len(nodes[id].items) : nodes[id].items[i].nodeId \in D
        BY <2>3, IsLeafIs DEF keysOf
      <3>4. Lines(f, id, d) = Lines(g, id, d)
        BY <3>2, <3>3 DEF Lines
      <3> QED
        BY <2>1, <2>3, <3>4, RowIs
    <2> QED
      BY <2>2, <2>3
  <1> HIDE DEF V
  <1>6. /\ F \in [[E -> V] -> [E -> V]]
        /\ \A f \in [E -> V] : F[f] = [at \in E |-> rowOf(f, at)]
    BY <1>4
  <1> HIDE DEF F
  <1>7. \A f, g \in [E -> V] : \A x \in E :
          (\A y \in E : rank[y] < rank[x] => f[y] = g[y]) => F[f][x] = F[g][x]
    <2> TAKE f, g \in [E -> V]
    <2> TAKE x \in E
    <2> HAVE \A y \in E : rank[y] < rank[x] => f[y] = g[y]
    <2>1. rowOf(f, x) = rowOf(g, x)
      BY <1>5
    <2>2. F[f] = [i \in E |-> rowOf(f, i)] /\ F[g] = [i \in E |-> rowOf(g, i)]
      BY <1>6
    <2>3. F[f][x] = rowOf(f, x) /\ F[g][x] = rowOf(g, x)
      BY <2>2
    <2> QED
      BY <2>1, <2>3
  <1>8. Recursion(E, V, rank, F)
    BY <1>2, <1>6, <1>7 DEF Recursion
  <1>9. PICK e \in [E -> V] : F[e] = e
    <2>1. <<>> \in V
      BY DEF V
    <2>2. V # {}
      BY <2>1
    <2> QED
      BY <2>2, <1>8, RecursionExists
  <1>10. Rows(e)
    BY <1>6, <1>9 DEF Rows, E
  <1> QED
    BY <1>10

-----------------------------------------------------------------------------
(* The nodes d levels below a node, in a row: their siblings are the next   *)
(* ones, or are below the next sibling.                                     *)
Row(f, h, id, d) ==
    LET t == f[<<id, d>>]
    IN  /\ t \in Seq(DOMAIN nodes) /\ Len(t) \in Nat /\ Len(t) # 0
        /\ \A p \in 1 .. Len(t) : t[p] \in DOMAIN nodes /\ h[t[p]] = h[id] - d
        /\ \A p \in 1 .. Len(t) :
              p # Len(t) => nodes[t[p]].nextSibling = t[p + 1]
        /\ nodes[t[Len(t)]].nextSibling =
              IF nodes[id].nextSibling = 0 THEN 0
              ELSE f[<<nodes[id].nextSibling, d>>][1]
        /\ nodes[id].prevSibling = 0 => nodes[t[1]].prevSibling = 0

LEMMA RowTells ==
    ASSUME NEW f, NEW h, NEW id, NEW d, Row(f, h, id, d), NEW t, t = f[<<id, d>>]
    PROVE  /\ t \in Seq(DOMAIN nodes) /\ Len(t) \in Nat /\ Len(t) # 0
           /\ \A p \in 1 .. Len(t) : t[p] \in DOMAIN nodes /\ h[t[p]] = h[id] - d
           /\ \A p \in 1 .. Len(t) :
                 p # Len(t) => nodes[t[p]].nextSibling = t[p + 1]
           /\ nodes[id].prevSibling = 0 => nodes[t[1]].prevSibling = 0
  BY DEF Row

Composed(f, id, d) ==
    LET seqs == Lines(f, id, d)
        t    == f[<<id, d>>]
    IN  /\ Len(seqs) = Len(nodes[id].items) /\ AllThere(seqs)
        /\ \A i \in 1 .. Len(nodes[id].items) :
              seqs[i] = f[<<nodes[id].items[i].nodeId, d - 1>>]
        /\ t \in Seq(DOMAIN nodes) /\ EndsMeet(seqs, t)
        /\ \E o : Flattened(seqs, t, o)

LEMMA RowComposed ==
    ASSUME NEW h, Sound(nodes, h, rootNodeId), NEW f, Rows(f),
           NEW id \in DOMAIN nodes, NEW d \in Nat, d # 0, h[id] # 0,
           \A c \in DOMAIN nodes : h[c] = h[id] - 1 => Row(f, h, c, d - 1)
    PROVE  Composed(f, id, d)
  <1> DEFINE V == Seq(DOMAIN nodes)
  <1>1. \A c \in DOMAIN nodes : h[c] = h[id] - 1 =>
            f[<<c, d - 1>>] \in V /\ Len(f[<<c, d - 1>>]) # 0
    BY DEF Row
  <1>2. PICK seqs : seqs = Lines(f, id, d)
    OBVIOUS
  <1>3. PICK n \in Nat : n = Len(nodes[id].items) /\ n # 0
    BY IsLeafIs DEF keysOf
  <1>4. \A i \in 1 .. n : /\ nodes[id].items[i].nodeId \in DOMAIN nodes
                          /\ h[nodes[id].items[i].nodeId] = h[id] - 1
    BY <1>3, IsLeafIs DEF keysOf
  <1>5. /\ seqs \in Seq(V) /\ Len(seqs) = n
        /\ \A i \in 1 .. n : seqs[i] = f[<<nodes[id].items[i].nodeId, d - 1>>]
    <2>1. RowsBelowIn(V, h, f, id, d)
      BY <1>1 DEF RowsBelowIn
    <2> HIDE DEF V
    <2>2. OneLineEach(V, f, id, d)
      BY <2>1, LinesAre
    <2> QED
      BY ONLY <1>2, <1>3, <2>2 DEF OneLineEach
  <1>6. AllThere(seqs)
    BY <1>1, <1>3, <1>4, <1>5 DEF AllThere
  <1>7. PICK t : t = f[<<id, d>>]
    OBVIOUS
  <1>8. t = FlattenSeq(seqs)
    <2>1. <<id, d>> \in (DOMAIN nodes) \X Nat
      OBVIOUS
    <2>2. f[<<id, d>>] = rowOf(f, <<id, d>>)
      BY <2>1 DEF Rows
    <2> QED
      BY <2>2, <1>2, <1>7, RowIs
  <1>9. t \in Seq(DOMAIN nodes) /\ \E o : Flattened(seqs, t, o)
    BY ONLY <1>5, <1>8, FlattenIs
  <1>10. EndsMeet(seqs, t)
    BY <1>6, <1>9, JoinEnds
  <1> QED
    BY <1>2, <1>3, <1>5, <1>6, <1>7, <1>9, <1>10 DEF Composed

LEMMA FirstRow ==
    ASSUME NEW h, Sound(nodes, h, rootNodeId), NEW f, Rows(f),
           NEW id \in DOMAIN nodes
    PROVE  Row(f, h, id, 0)
  <1>1. \A x \in DOMAIN nodes : f[<<x, 0>>] = <<x>>
    <2> TAKE x \in DOMAIN nodes
    <2>1. <<x, 0>> \in (DOMAIN nodes) \X Nat
      OBVIOUS
    <2>2. f[<<x, 0>>] = rowOf(f, <<x, 0>>)
      BY <2>1 DEF Rows
    <2> QED
      BY <2>2, RowIs
  <1>2. h[id] \in Nat /\ h[id] - 0 = h[id]
    BY IsLeafIs
  <1>3. nodes[id].nextSibling # 0 => nodes[id].nextSibling \in DOMAIN nodes
    BY NodeOfSound DEF SoundNode, LinkedAt
  <1>4. nodes[id].nextSibling # 0 => f[<<nodes[id].nextSibling, 0>>][1] = nodes[id].nextSibling
    BY <1>1, <1>3
  <1>5. PICK t : t = <<id>>
    OBVIOUS
  <1>6. t \in Seq(DOMAIN nodes) /\ Len(t) = 1 /\ t[1] = id
    BY <1>5
  <1>7. \A p \in 1 .. Len(t) : p = Len(t) /\ t[p] = id
    BY <1>6
  <1>8. t = f[<<id, 0>>]
    BY <1>1, <1>5
  <1>9. t[Len(t)] = id /\ Len(t) \in Nat /\ Len(t) # 0
    BY <1>6
  <1> QED
    BY ONLY <1>2, <1>4, <1>6, <1>7, <1>8, <1>9, id \in DOMAIN nodes DEF Row

LEMMA NextRow ==
    ASSUME NEW h, Sound(nodes, h, rootNodeId), NEW f, Rows(f),
           NEW id \in DOMAIN nodes, NEW d \in Nat, d # 0, h[id] # 0,
           \A c \in DOMAIN nodes : h[c] = h[id] - 1 => Row(f, h, c, d - 1)
    PROVE  Row(f, h, id, d)
  <1>1. PICK n \in Nat : n = Len(nodes[id].items) /\ n # 0
    BY IsLeafIs DEF keysOf
  <1>2. PICK seqs : seqs = Lines(f, id, d)
    OBVIOUS
  <1>3. PICK t : t = f[<<id, d>>]
    OBVIOUS
  <1>4. Composed(f, id, d)
    BY RowComposed
  <1>5. /\ Len(seqs) = n /\ AllThere(seqs) /\ t \in Seq(DOMAIN nodes) /\ EndsMeet(seqs, t)
        /\ \A i \in 1 .. n : seqs[i] = f[<<nodes[id].items[i].nodeId, d - 1>>]
    BY <1>1, <1>2, <1>3, <1>4 DEF Composed
  <1>6. PICK o : Flattened(seqs, t, o)
    BY <1>2, <1>3, <1>4 DEF Composed
  <1> DEFINE c(i) == nodes[id].items[i].nodeId
  <1>7. ASSUME NEW i \in 1 .. n
        PROVE  /\ c(i) \in DOMAIN nodes /\ c(i) # 0 /\ h[c(i)] = h[id] - 1
               /\ seqs[i] = f[<<c(i), d - 1>>] /\ Row(f, h, c(i), d - 1)
               /\ nodes[c(i)].nextSibling = nextKey(nodes, id, i).nodeId
    <2>1. ChildOf(nodes, h, id, i, c(i))
      BY <1>1, ChildOfSound
    <2> QED
      BY <2>1, <1>5 DEF ChildOf
  <1>8. h[id] \in Nat /\ (h[id] - 1) - (d - 1) = h[id] - d
    BY IsLeafIs
  <1>9. ASSUME NEW p \in 1 .. Len(t)
        PROVE  t[p] \in DOMAIN nodes /\ h[t[p]] = h[id] - d
    <2>1. InPart(seqs, t, o, p)
      BY <1>6, Located
    <2>2. PICK i \in 1 .. n : \E j \in 1 .. Len(seqs[i]) : t[p] = seqs[i][j]
      BY <1>5, <2>1 DEF InPart
    <2>3. PICK x \in DOMAIN nodes : x = c(i) /\ h[x] = h[id] - 1 /\ seqs[i] = f[<<x, d - 1>>]
                                    /\ Row(f, h, x, d - 1)
      BY <1>7
    <2>4. PICK u : u = seqs[i]
      OBVIOUS
    <2>5. \A j \in 1 .. Len(u) : u[j] \in DOMAIN nodes /\ h[u[j]] = h[x] - (d - 1)
      BY <2>3, <2>4, RowTells
    <2>6. t[p] \in DOMAIN nodes /\ h[t[p]] = h[x] - (d - 1)
      BY ONLY <2>2, <2>4, <2>5
    <2> QED
      BY <2>3, <2>6, <1>8
  <1>10. ASSUME NEW p \in 1 .. Len(t), p # Len(t)
         PROVE  nodes[t[p]].nextSibling = t[p + 1]
    <2>1. Neighbours(seqs, t[p], t[p + 1])
      BY <1>5, <1>6, <1>10, JoinNeighbours
    <2>2. PICK i \in 1 .. n :
            \/ \E j \in 1 .. Len(seqs[i]) :
                  j # Len(seqs[i]) /\ t[p] = seqs[i][j] /\ t[p + 1] = seqs[i][j + 1]
            \/ /\ i # n
               /\ t[p] = seqs[i][Len(seqs[i])] /\ t[p + 1] = seqs[i + 1][1]
      BY SMTT(30), <1>5, <2>1 DEF Neighbours
    <2>3. CASE i # n /\ t[p] = seqs[i][Len(seqs[i])] /\ t[p + 1] = seqs[i + 1][1]
      <3>1. i + 1 \in 1 .. n /\ i < n
        BY <2>3
      <3>2. nextKey(nodes, id, i).nodeId = c(i + 1)
        BY <1>1, <3>1 DEF nextKey
      <3>3. nodes[c(i)].nextSibling = c(i + 1) /\ c(i + 1) # 0
            /\ seqs[i + 1] = f[<<c(i + 1), d - 1>>]
        BY <1>7, <3>1, <3>2
      <3>4. seqs[i] = f[<<c(i), d - 1>>] /\ Row(f, h, c(i), d - 1)
        BY <1>7
      <3> QED
        BY <2>3, <3>3, <3>4 DEF Row
    <2>4. CASE \E j \in 1 .. Len(seqs[i]) :
                  j # Len(seqs[i]) /\ t[p] = seqs[i][j] /\ t[p + 1] = seqs[i][j + 1]
      <3>1. seqs[i] = f[<<c(i), d - 1>>] /\ Row(f, h, c(i), d - 1)
        BY <1>7
      <3>2. PICK u : u = seqs[i]
        OBVIOUS
      <3>3. \A j \in 1 .. Len(u) : j # Len(u) => nodes[u[j]].nextSibling = u[j + 1]
        BY <3>1, <3>2, RowTells
      <3> QED
        BY ONLY <2>4, <3>2, <3>3
    <2> QED
      BY <2>2, <2>3, <2>4
  <1>11. t[1] = seqs[1][1] /\ t[Len(t)] = seqs[n][Len(seqs[n])]
         /\ Len(t) \in Nat /\ Len(t) # 0
    BY <1>5 DEF EndsMeet
  <1>12. 1 \in 1 .. n /\ n \in 1 .. n /\ ~(n < n)
    BY SMTT(30), <1>1
  <1>13. ASSUME nodes[id].prevSibling = 0
         PROVE  nodes[t[1]].prevSibling = 0
    <2>1. nodes[c(1)].prevSibling = 0
      BY <1>1, <1>12, <1>13, ChildPrev
    <2>2. seqs[1] = f[<<c(1), d - 1>>] /\ Row(f, h, c(1), d - 1)
      BY <1>7, <1>12
    <2> QED
      BY <2>1, <2>2, <1>11 DEF Row
  <1>14. nodes[t[Len(t)]].nextSibling =
              IF nodes[id].nextSibling = 0 THEN 0
              ELSE f[<<nodes[id].nextSibling, d>>][1]
    <2>1. PICK m : m = nodes[id].nextSibling
      OBVIOUS
    <2>2. seqs[n] = f[<<c(n), d - 1>>] /\ Row(f, h, c(n), d - 1)
          /\ nodes[c(n)].nextSibling = nextKey(nodes, id, n).nodeId
      BY <1>7, <1>12
    <2>3. nextKey(nodes, id, n) = firstKey(nodes, m)
      BY SMTT(30), <1>1, <1>12, <2>1 DEF nextKey
    <2>4. nodes[t[Len(t)]].nextSibling =
              IF firstKey(nodes, m).nodeId = 0 THEN 0
              ELSE f[<<firstKey(nodes, m).nodeId, d - 1>>][1]
      BY <1>11, <2>2, <2>3 DEF Row
    <2>5. CASE m = 0
      BY <2>1, <2>4, <2>5 DEF firstKey, none, Key
    <2>6. CASE m # 0
      <3>1. m \in DOMAIN nodes /\ h[m] = h[id]
        BY <2>1, <2>6, NodeOfSound DEF SoundNode, LinkedAt
      <3>2. PICK k \in Nat : k = Len(nodes[m].items) /\ k # 0
        BY <3>1, IsLeafIs DEF keysOf
      <3>3. firstKey(nodes, m) = nodes[m].items[1] /\ 1 \in 1 .. k
        BY <2>6, <3>2 DEF firstKey
      <3>4. Composed(f, m, d)
        BY <3>1, RowComposed
      <3>5. f[<<m, d>>][1] = f[<<nodes[m].items[1].nodeId, d - 1>>][1]
        <4>1. f[<<m, d>>][1] = Lines(f, m, d)[1][1]
          BY <3>4 DEF Composed, EndsMeet
        <4>2. Lines(f, m, d)[1] = f[<<nodes[m].items[1].nodeId, d - 1>>]
          BY <3>2, <3>3, <3>4 DEF Composed
        <4> QED
          BY <4>1, <4>2
      <3>6. nodes[m].items[1].nodeId # 0
        <4>1. ChildOf(nodes, h, m, 1, nodes[m].items[1].nodeId)
          BY <3>1, <3>2, <3>3, ChildOfSound
        <4> QED
          BY <4>1 DEF ChildOf
      <3> QED
        BY <2>1, <2>4, <2>6, <3>3, <3>5, <3>6
    <2> QED
      BY <2>5, <2>6
  <1> QED
    BY <1>3, <1>5, <1>9, <1>10, <1>11, <1>13, <1>14 DEF Row

LEMMA AllRows ==
    ASSUME NEW h, Sound(nodes, h, rootNodeId), NEW f, Rows(f)
    PROVE  \A d \in Nat : \A id \in DOMAIN nodes : d <= h[id] => Row(f, h, id, d)
  <1> DEFINE Bad == {d \in Nat : \E id \in DOMAIN nodes : d <= h[id] /\ ~Row(f, h, id, d)}
  <1>1. \A id \in DOMAIN nodes : h[id] \in Nat
    BY IsLeafIs
  <1>2. Bad = {}
    <2> SUFFICES ASSUME Bad # {}
                 PROVE  FALSE
      OBVIOUS
    <2>1. PICK d \in Bad : \A e \in Bad : d <= e
      <3>1. Bad \subseteq Nat
        OBVIOUS
      <3> HIDE DEF Bad
      <3> QED
        BY <3>1, LeastNumber
    <2>2. d \in Nat
      OBVIOUS
    <2>3. PICK id \in DOMAIN nodes : d <= h[id] /\ ~Row(f, h, id, d)
      BY <2>1
    <2>4. d # 0
      BY <2>3, FirstRow
    <2>5. d - 1 \in Nat /\ ~(d <= d - 1) /\ h[id] # 0 /\ d - 1 <= h[id] - 1
      BY <1>1, <2>2, <2>3, <2>4
    <2>6. ASSUME NEW c \in DOMAIN nodes, h[c] = h[id] - 1, ~Row(f, h, c, d - 1)
          PROVE  FALSE
      <3>1. d - 1 \in Bad
        BY <2>5, <2>6
      <3> HIDE DEF Bad
      <3> QED
        BY <3>1, <2>1, <2>5
    <2>7. \A c \in DOMAIN nodes : h[c] = h[id] - 1 => Row(f, h, c, d - 1)
      BY <2>6
    <2> HIDE DEF Bad
    <2> QED
      BY <2>2, <2>3, <2>4, <2>5, <2>7, NextRow
  <1> QED
    BY <1>2

(* Further down there is nothing. *)
LEMMA NoRows ==
    ASSUME NEW h, Sound(nodes, h, rootNodeId), NEW f, Rows(f)
    PROVE  \A d \in Nat : \A id \in DOMAIN nodes : ~(d <= h[id]) => f[<<id, d>>] = <<>>
  <1> DEFINE Bad == {d \in Nat : \E id \in DOMAIN nodes : ~(d <= h[id]) /\ f[<<id, d>>] # <<>>}
  <1>1. \A id \in DOMAIN nodes : h[id] \in Nat
    BY IsLeafIs
  <1>2. Bad = {}
    <2> SUFFICES ASSUME Bad # {}
                 PROVE  FALSE
      OBVIOUS
    <2>1. PICK d \in Bad : \A e \in Bad : d <= e
      <3>1. Bad \subseteq Nat
        OBVIOUS
      <3> HIDE DEF Bad
      <3> QED
        BY <3>1, LeastNumber
    <2>2. d \in Nat
      OBVIOUS
    <2>3. PICK id \in DOMAIN nodes : ~(d <= h[id]) /\ f[<<id, d>>] # <<>>
      BY <2>1
    <2>4. d # 0 /\ d - 1 \in Nat /\ ~(d <= d - 1) /\ ~(d - 1 <= h[id] - 1)
      BY <1>1, <2>2, <2>3
    <2>5. f[<<id, d>>] = rowOf(f, <<id, d>>)
      <3>1. <<id, d>> \in (DOMAIN nodes) \X Nat
        BY <2>2
      <3> QED
        BY <3>1 DEF Rows
    <2>6. h[id] # 0 /\ f[<<id, d>>] = FlattenSeq(Lines(f, id, d))
      BY <2>2, <2>3, <2>4, <2>5, RowIs
    <2>7. ASSUME NEW c \in DOMAIN nodes, h[c] = h[id] - 1, f[<<c, d - 1>>] # <<>>
          PROVE  FALSE
      <3>1. d - 1 \in Bad
        BY <2>4, <2>7
      <3> HIDE DEF Bad
      <3> QED
        BY <3>1, <2>1, <2>4
    <2> HIDE DEF Bad
    <2> DEFINE V == Seq(DOMAIN nodes)
    <2>8. \A c \in DOMAIN nodes : h[c] = h[id] - 1 => f[<<c, d - 1>>] \in V
      <3>1. <<>> \in V
        OBVIOUS
      <3> HIDE DEF V
      <3> QED
        BY <3>1, <2>7
    <2>9. PICK n \in Nat : n = Len(nodes[id].items)
      BY IsLeafIs DEF keysOf
    <2>10. PICK seqs : seqs = Lines(f, id, d)
      OBVIOUS
    <2>11. /\ seqs \in Seq(V) /\ Len(seqs) = n
           /\ \A i \in 1 .. n : seqs[i] = f[<<nodes[id].items[i].nodeId, d - 1>>]
      <3>1. RowsBelowIn(V, h, f, id, d)
        BY <2>8 DEF RowsBelowIn
      <3> HIDE DEF V
      <3>2. OneLineEach(V, f, id, d)
        BY <3>1, <2>2, <2>6, LinesAre
      <3> QED
        BY ONLY <2>9, <2>10, <3>2 DEF OneLineEach
    <2>12. \A i \in 1 .. n : seqs[i] = <<>>
      <3> TAKE i \in 1 .. n
      <3>1. /\ nodes[id].items[i].nodeId \in DOMAIN nodes
            /\ h[nodes[id].items[i].nodeId] = h[id] - 1
        BY <2>6, <2>9, IsLeafIs DEF keysOf
      <3> QED
        BY <3>1, <2>7, <2>11
    <2>13. PICK t \in Seq(DOMAIN nodes) : t = FlattenSeq(seqs) /\ t # <<>>
      <3>1. FlattenSeq(seqs) \in Seq(DOMAIN nodes)
        BY ONLY <2>11, FlattenIs
      <3> QED
        BY <3>1, <2>3, <2>6, <2>10
    <2>14. PICK o : Flattened(seqs, t, o)
      BY ONLY <2>11, <2>13, FlattenIs
    <2>15. Len(t) \in Nat /\ Len(t) # 0
      BY <2>13, EmptySeq
    <2>16. 1 \in 1 .. Len(t)
      BY <2>15
    <2>17. InPart(seqs, t, o, 1)
      BY <2>14, <2>16, Located
    <2>18. PICK i \in 1 .. n : \E j \in 1 .. Len(seqs[i]) : TRUE
      BY <2>11, <2>17 DEF InPart
    <2>19. Len(seqs[i]) = 0
      BY <2>12
    <2> QED
      BY ONLY <2>18, <2>19
  <1> QED
    BY <1>2

-----------------------------------------------------------------------------
(* The levels of the tree. *)
LevelTold(h, t, n) ==
    IF n <= h[rootNodeId]
    THEN /\ t \in Seq(DOMAIN nodes) /\ Len(t) \in Nat /\ Len(t) # 0
         /\ \A p \in 1 .. Len(t) : t[p] \in DOMAIN nodes /\ h[t[p]] = h[rootNodeId] - n
         /\ \A p \in 1 .. Len(t) :
               nodes[t[p]].nextSibling = IF p # Len(t) THEN t[p + 1] ELSE 0
         /\ nodes[t[1]].prevSibling = 0
    ELSE t = <<>>

LEMMA LevelTells ==
    ASSUME NEW h, Sound(nodes, h, rootNodeId), NEW f, Rows(f), NEW n \in Nat
    PROVE  LevelTold(h, f[<<rootNodeId, n>>], n)
  <1>1. /\ rootNodeId \in DOMAIN nodes
        /\ nodes[rootNodeId].nextSibling = 0 /\ nodes[rootNodeId].prevSibling = 0
    BY DEF Sound, Rooted
  <1>2. PICK r : r = rootNodeId
    OBVIOUS
  <1>3. PICK t : t = f[<<r, n>>]
    OBVIOUS
  <1>4. CASE n <= h[r]
    <2>1. Row(f, h, r, n)
      BY <1>1, <1>2, <1>4, AllRows
    <2>2. /\ t \in Seq(DOMAIN nodes) /\ Len(t) \in Nat /\ Len(t) # 0
          /\ \A p \in 1 .. Len(t) : t[p] \in DOMAIN nodes /\ h[t[p]] = h[r] - n
          /\ \A p \in 1 .. Len(t) : p # Len(t) => nodes[t[p]].nextSibling = t[p + 1]
          /\ nodes[r].prevSibling = 0 => nodes[t[1]].prevSibling = 0
      BY SMTT(30), <1>3, <2>1, RowTells
    <2>3. nodes[t[Len(t)]].nextSibling = 0
      BY <1>1, <1>2, <1>3, <2>1 DEF Row
    <2> QED
      BY ONLY <1>1, <1>2, <1>3, <1>4, <2>2, <2>3 DEF LevelTold
  <1>5. CASE ~(n <= h[r])
    <2>1. t = <<>>
      BY <1>1, <1>2, <1>3, <1>5, NoRows
    <2> QED
      BY <1>2, <1>3, <1>5, <2>1 DEF LevelTold
  <1> QED
    BY <1>4, <1>5

LEMMA LevelOfTree ==
    ASSUME NEW h, Sound(nodes, h, rootNodeId), rootNodeId # 0
    PROVE  \E f : Rows(f) /\ \A n : Level(n) = f[<<rootNodeId, n>>]
  <1>1. PICK f : Rows(f) /\ f = CHOOSE g : Rows(g)
    BY RowsExist
  <1> QED
    BY <1>1, LevelIs

LEMMA FiniteTree ==
    ASSUME TreeInv
    PROVE  IsFiniteSet(DOMAIN nodes) /\ Cardinality(DOMAIN nodes) \in Nat
  <1>1. nextNodeId \in Nat /\ DOMAIN nodes \subseteq 1 .. nextNodeId - 1
    BY DEF TreeInv
  <1>2. IsFiniteSet(1 .. nextNodeId - 1)
    BY <1>1, FS_Interval
  <1>3. IsFiniteSet(DOMAIN nodes)
    BY <1>1, <1>2, FS_Subset
  <1> QED
    BY <1>3, FS_CardinalityType

Linked(level) ==
    LET at(i) == IF i \in DOMAIN level THEN level[i] ELSE 0
    IN  \A i \in DOMAIN level :
           /\ nodes[level[i]].prevSibling = at(i - 1)
           /\ nodes[level[i]].nextSibling = at(i + 1)

LEMMA LevelLinked ==
    ASSUME NEW h, Sound(nodes, h, rootNodeId), NEW n \in Nat, NEW t,
           LevelTold(h, t, n)
    PROVE  Linked(t)
  <1>1. CASE ~(n <= h[rootNodeId])
    <2>1. t = <<>>
      BY <1>1 DEF LevelTold
    <2>2. DOMAIN t = {}
      BY <2>1
    <2> QED
      BY <2>2 DEF Linked
  <1>2. CASE n <= h[rootNodeId]
    <2>1. PICK l \in Nat : l = Len(t) /\ l # 0
      BY <1>2 DEF LevelTold
    <2>2. /\ t \in Seq(DOMAIN nodes)
          /\ \A p \in 1 .. l : t[p] \in DOMAIN nodes
          /\ \A p \in 1 .. l :
                nodes[t[p]].nextSibling = IF p # l THEN t[p + 1] ELSE 0
          /\ nodes[t[1]].prevSibling = 0
      BY <1>2, <2>1 DEF LevelTold
    <2>3. DOMAIN t = 1 .. l
      BY <2>1, <2>2
    <2> DEFINE at(i) == IF i \in DOMAIN t THEN t[i] ELSE 0
    <2>4. ASSUME NEW i \in 1 .. l
          PROVE  nodes[t[i]].nextSibling = at(i + 1)
      <3>1. CASE i = l
        <4>1. i + 1 \notin 1 .. l
          BY ONLY <3>1, l \in Nat
        <4> QED
          BY <4>1, <3>1, <2>2, <2>3
      <3>2. CASE i # l
        <4>1. i + 1 \in 1 .. l
          BY ONLY <3>2, i \in 1 .. l, l \in Nat
        <4> QED
          BY <4>1, <3>2, <2>2, <2>3
      <3> QED
        BY <3>1, <3>2
    <2>5. ASSUME NEW i \in 1 .. l
          PROVE  nodes[t[i]].prevSibling = at(i - 1)
      <3>1. CASE i = 1
        <4>1. i - 1 \notin 1 .. l
          BY ONLY <3>1, l \in Nat
        <4> QED
          BY <4>1, <3>1, <2>2, <2>3
      <3>2. CASE i # 1
        <4>1. i - 1 \in 1 .. l /\ i - 1 # l /\ (i - 1) + 1 = i
          BY ONLY <3>2, i \in 1 .. l, l \in Nat
        <4>2. PICK a \in DOMAIN nodes : a = t[i - 1]
          BY <4>1, <2>2
        <4>3. nodes[t[i - 1]].nextSibling = t[(i - 1) + 1]
          BY <4>1, <2>2
        <4>4. nodes[a].nextSibling = t[i]
          BY ONLY <4>1, <4>2, <4>3
        <4>5. t[i] # 0
          BY <2>2, NodeOfSound DEF SoundNode
        <4>6. nodes[nodes[a].nextSibling].prevSibling = a
          BY <4>4, <4>5, NodeOfSound DEF SoundNode, LinkedAt
        <4> QED
          BY <2>3, <4>1, <4>2, <4>4, <4>6
      <3> QED
        BY <3>1, <3>2
    <2> QED
      BY <2>3, <2>4, <2>5 DEF Linked
  <1> QED
    BY <1>1, <1>2

LEMMA SiblingsHold ==
    ASSUME TreeInv
    PROVE  SiblingsLinked
  <1> SUFFICES ASSUME Idle, NEW n \in 0 .. Cardinality(DOMAIN nodes)
               PROVE  Linked(Level(n))
    BY DEF SiblingsLinked, Linked
  <1>1. PICK h : Shape(h)
    BY DEF TreeInv
  <1>2. n \in Nat
    BY FiniteTree
  <1>3. CASE rootNodeId = 0
    <2>1. Level(n) = <<>>
      BY <1>3, LevelIs
    <2>2. DOMAIN Level(n) = {}
      BY <2>1
    <2> QED
      BY <2>2 DEF Linked
  <1>4. CASE rootNodeId # 0
    <2>1. Sound(nodes, h, rootNodeId)
      BY <1>1, <1>4, SoundAtRest
    <2>2. PICK f : Rows(f) /\ \A k : Level(k) = f[<<rootNodeId, k>>]
      BY <1>4, <2>1, LevelOfTree
    <2>3. PICK t : t = Level(n)
      OBVIOUS
    <2>4. LevelTold(h, t, n)
      BY <1>2, <2>1, <2>2, <2>3, LevelTells
    <2> QED
      BY <1>2, <2>1, <2>3, <2>4, LevelLinked
  <1> QED
    BY <1>3, <1>4

-----------------------------------------------------------------------------
(* Every node is on one level.                                             *)

(* First items ascend along a level, so no node is twice on it. *)
LEMMA NextIsRight ==
    ASSUME NEW h, Sound(nodes, h, rootNodeId), NEW a \in DOMAIN nodes,
           nodes[a].nextSibling # 0
    PROVE  /\ nodes[a].nextSibling \in DOMAIN nodes
           /\ firstItem(nodes, a) < firstItem(nodes, nodes[a].nextSibling)
           /\ firstItem(nodes, a) \in Nat
           /\ nodes[a].items[Len(nodes[a].items)].item
                 < firstItem(nodes, nodes[a].nextSibling)
  <1>1. SoundNode(nodes, h, a)
    BY NodeOfSound
  <1>2. PICK b \in DOMAIN nodes : b = nodes[a].nextSibling /\ b # 0
    BY <1>1 DEF SoundNode, LinkedAt
  <1>3. SoundNode(nodes, h, b)
    BY NodeOfSound
  <1>4. PICK m \in Nat : m = Len(nodes[a].items) /\ m # 0
    BY <1>1 DEF SoundNode
  <1>5. Len(nodes[b].items) # 0 /\ nodes[b].items[1].item \in Nat /\ nodes[b].items[1] # none
    <2>1. Len(nodes[b].items) \in Nat /\ Len(nodes[b].items) > 0
      BY <1>3 DEF SoundNode
    <2>2. 1 \in 1 .. Len(nodes[b].items)
      BY <2>1
    <2> QED
      BY <2>1, <2>2, <1>3 DEF SoundNode
  <1>6. m \in 1 .. m /\ 1 \in 1 .. m /\ ~(m < m)
    BY <1>4
  <1>7. nextKey(nodes, a, m) = nodes[b].items[1]
    BY <1>2, <1>4, <1>5, <1>6 DEF nextKey, firstKey
  <1>8. nodes[a].items[m].item < nodes[b].items[1].item
    BY <1>1, <1>4, <1>5, <1>6, <1>7 DEF SoundNode, OrderedAt
  <1>9. nodes[a].items[1].item \in Nat /\ nodes[a].items[m].item \in Nat
    BY <1>1, <1>4, <1>6 DEF SoundNode
  <1>10. m = 1 \/ nodes[a].items[1].item < nodes[a].items[m].item
    <2>0. m # 0
      BY <1>4
    <2>1. m # 1 => 1 < m
      BY ONLY <2>0, m \in Nat
    <2> QED
      BY <2>1, <1>1, <1>4, <1>6 DEF SoundNode, Ascends
  <1>11. nodes[a].items[1].item < nodes[b].items[1].item
    BY <1>5, <1>8, <1>9, <1>10
  <1> QED
    BY <1>2, <1>4, <1>8, <1>9, <1>11 DEF firstItem

LEMMA Rises ==
    ASSUME NEW l \in Nat, NEW g \in [1 .. l -> Nat],
           \A p \in 1 .. l : p # l => g[p] < g[p + 1],
           NEW p \in 1 .. l, NEW q \in 1 .. l, p < q
    PROVE  g[p] < g[q]
  <1>1. PICK m \in Nat : m = l - 1
    BY l \in Nat, p \in 1 .. l
  <1>2. PICK k : k = [i \in 0 .. m |-> g[i + 1]]
    OBVIOUS
  <1>3. \A i \in 0 .. m : i + 1 \in 1 .. l /\ k[i] = g[i + 1]
    BY <1>1, <1>2
  <1>4. k \in [0 .. m -> Nat]
    BY <1>2, <1>3
  <1>5. \A i \in 1 .. m : k[i - 1] < k[i]
    <2> TAKE i \in 1 .. m
    <2>1. i - 1 \in 0 .. m /\ i \in 0 .. m /\ (i - 1) + 1 = i /\ i # l /\ i \in 1 .. l
      BY <1>1
    <2>2. k[i - 1] = g[i]
      BY <1>2, <2>1
    <2>3. k[i] = g[i + 1]
      BY <1>2, <2>1
    <2> QED
      BY <2>1, <2>2, <2>3
  <1>6. p - 1 \in 0 .. m /\ q - 1 \in 0 .. m /\ p - 1 <= q - 1
        /\ (p - 1) + 1 = p /\ (q - 1) + 1 = q
    BY <1>1
  <1>7. k[p - 1] + ((q - 1) - (p - 1)) <= k[q - 1]
    BY <1>4, <1>5, <1>6, Increases
  <1>8. k[p - 1] = g[p] /\ k[q - 1] = g[q]
    BY <1>2, <1>6
  <1>9. g[p] \in Nat /\ g[q] \in Nat
    OBVIOUS
  <1> QED
    BY ONLY <1>7, <1>8, <1>9, p \in 1 .. l, q \in 1 .. l, p < q, l \in Nat

LEMMA LevelInjective ==
    ASSUME NEW h, Sound(nodes, h, rootNodeId), NEW n \in Nat, NEW t, LevelTold(h, t, n)
    PROVE  IsInjective(t)
  <1>1. CASE ~(n <= h[rootNodeId])
    <2>1. t = <<>>
      BY <1>1 DEF LevelTold
    <2>2. DOMAIN t = {}
      BY <2>1
    <2> QED
      BY <2>2 DEF IsInjective
  <1>2. CASE n <= h[rootNodeId]
    <2>1. PICK l \in Nat : l = Len(t) /\ l # 0
      BY <1>2 DEF LevelTold
    <2>2. /\ t \in Seq(DOMAIN nodes)
          /\ \A p \in 1 .. l : t[p] \in DOMAIN nodes
          /\ \A p \in 1 .. l : p # l => nodes[t[p]].nextSibling = t[p + 1]
      BY <1>2, <2>1 DEF LevelTold
    <2>3. DOMAIN t = 1 .. l
      BY <2>1, <2>2
    <2>4. PICK g : g = [p \in 1 .. l |-> firstItem(nodes, t[p])]
      OBVIOUS
    <2>5. g \in [1 .. l -> Nat]
      <3>1. \A p \in 1 .. l : firstItem(nodes, t[p]) \in Nat
        <4> TAKE p \in 1 .. l
        <4>1. PICK a \in DOMAIN nodes : a = t[p]
          BY <2>2
        <4>2. SoundNode(nodes, h, a)
          BY NodeOfSound
        <4>3. 1 \in 1 .. Len(nodes[a].items)
          BY <4>2 DEF SoundNode
        <4> QED
          BY <4>1, <4>2, <4>3 DEF SoundNode, firstItem
      <3> QED
        BY <2>4, <3>1
    <2>6. \A p \in 1 .. l : p # l => g[p] < g[p + 1]
      <3> SUFFICES ASSUME NEW p \in 1 .. l, p # l
                   PROVE  g[p] < g[p + 1]
        OBVIOUS
      <3>1. p + 1 \in 1 .. l
        BY ONLY p \in 1 .. l, p # l, l \in Nat
      <3>2. PICK a \in DOMAIN nodes : a = t[p]
        BY <2>2
      <3>3. nodes[a].nextSibling = t[p + 1] /\ t[p + 1] # 0
        BY <2>2, <3>1, <3>2, NodeOfSound DEF SoundNode
      <3>4. firstItem(nodes, a) < firstItem(nodes, t[p + 1])
        BY <3>3, NextIsRight
      <3> QED
        BY <2>4, <3>1, <3>2, <3>4
    <2>7. ASSUME NEW p \in 1 .. l, NEW q \in 1 .. l, p < q
          PROVE  t[p] # t[q]
      <3>1. g[p] < g[q] /\ g[p] \in Nat
        BY <2>5, <2>6, <2>7, Rises
      <3>2. g[p] # g[q]
        BY <3>1
      <3> QED
        BY <3>2, <2>4
    <2>8. \A p, q \in 1 .. l : t[p] = t[q] => p = q
      <3> SUFFICES ASSUME NEW p \in 1 .. l, NEW q \in 1 .. l, t[p] = t[q], p # q
                   PROVE  FALSE
        OBVIOUS
      <3>1. p < q \/ q < p
        OBVIOUS
      <3> QED
        BY <3>1, <2>7
    <2> QED
      BY <2>3, <2>8 DEF IsInjective
  <1> QED
    BY <1>1, <1>2

-----------------------------------------------------------------------------
(* Every node is on its level. *)
LEMMA PartFound ==
    ASSUME NEW seqs, NEW t, NEW o, Flattened(seqs, t, o),
           NEW i \in 1 .. Len(seqs), NEW j \in 1 .. Len(seqs[i])
    PROVE  \E q \in 1 .. Len(t) : t[q] = seqs[i][j]
  <1>1. PICK n \in Nat : n = Len(seqs)
    BY DEF Flattened
  <1>2. /\ o \in [0 .. n -> Nat] /\ o[0] = 0 /\ Len(t) = o[n]
        /\ \A k \in 1 .. n :
              /\ Len(seqs[k]) \in Nat
              /\ o[k] = o[k - 1] + Len(seqs[k])
              /\ \A m \in 1 .. Len(seqs[k]) : t[o[k - 1] + m] = seqs[k][m]
    BY <1>1 DEF Flattened
  <1>3. \A k \in 1 .. n : o[k - 1] <= o[k]
    <2> TAKE k \in 1 .. n
    <2>1. k - 1 \in 0 .. n /\ k \in 0 .. n
      OBVIOUS
    <2>2. o[k - 1] \in Nat /\ o[k] \in Nat
      BY <1>2, <2>1
    <2>3. Len(seqs[k]) \in Nat /\ o[k] = o[k - 1] + Len(seqs[k])
      BY <1>2
    <2> QED
      BY ONLY <2>2, <2>3
  <1>4. i \in 0 .. n /\ n \in i .. n /\ i - 1 \in 0 .. n /\ i \in 1 .. n
    BY <1>1
  <1>5. o[i] <= o[n]
    BY <1>2, <1>3, <1>4, Grows
  <1>6. PICK a \in Nat : a = o[i - 1]
    BY <1>2, <1>4
  <1>7. PICK l \in Nat : l = Len(seqs[i])
    BY <1>2, <1>4
  <1>8. o[i] = a + l /\ t[a + j] = seqs[i][j] /\ o[n] \in Nat
    BY SMTT(30), <1>2, <1>4, <1>6, <1>7
  <1>9. a + j \in 1 .. o[n]
    BY ONLY <1>5, <1>7, <1>8, a \in Nat, l \in Nat, j \in 1 .. Len(seqs[i])
  <1> QED
    BY <1>2, <1>8, <1>9

OnRow(f, id, d, x) == \E q \in 1 .. Len(f[<<id, d>>]) : f[<<id, d>>][q] = x

LEMMA WithinLine ==
    ASSUME NEW f, NEW id, NEW d, Composed(f, id, d), NEW i \in 1 .. Len(nodes[id].items),
           NEW x, OnRow(f, nodes[id].items[i].nodeId, d - 1, x)
    PROVE  OnRow(f, id, d, x)
  <1>1. PICK seqs, t : seqs = Lines(f, id, d) /\ t = f[<<id, d>>]
    OBVIOUS
  <1>2. PICK o : Flattened(seqs, t, o)
    BY <1>1 DEF Composed
  <1>3. i \in 1 .. Len(seqs) /\ seqs[i] = f[<<nodes[id].items[i].nodeId, d - 1>>]
    BY <1>1 DEF Composed
  <1>4. PICK u : u = f[<<nodes[id].items[i].nodeId, d - 1>>]
    OBVIOUS
  <1>5. PICK q \in 1 .. Len(u) : u[q] = x
    BY <1>4 DEF OnRow
  <1>6. \E p \in 1 .. Len(t) : t[p] = seqs[i][q]
    BY <1>2, <1>3, <1>4, PartFound
  <1> QED
    BY <1>1, <1>3, <1>4, <1>5, <1>6 DEF OnRow

LEMMA WithinSome ==
    ASSUME NEW f, NEW id, NEW d, Composed(f, id, d), NEW x, OnRow(f, id, d, x)
    PROVE  \E i \in 1 .. Len(nodes[id].items) : OnRow(f, nodes[id].items[i].nodeId, d - 1, x)
  <1>1. PICK seqs, t : seqs = Lines(f, id, d) /\ t = f[<<id, d>>]
    OBVIOUS
  <1>2. PICK o : Flattened(seqs, t, o)
    BY <1>1 DEF Composed
  <1>3. PICK p \in 1 .. Len(t) : t[p] = x
    BY <1>1 DEF OnRow
  <1>4. InPart(seqs, t, o, p)
    BY <1>2, Located
  <1>5. PICK i \in 1 .. Len(seqs) : \E j \in 1 .. Len(seqs[i]) : t[p] = seqs[i][j]
    BY <1>4 DEF InPart
  <1>6. i \in 1 .. Len(nodes[id].items)
        /\ seqs[i] = f[<<nodes[id].items[i].nodeId, d - 1>>]
    BY <1>1 DEF Composed
  <1>7. PICK u : u = f[<<nodes[id].items[i].nodeId, d - 1>>]
    OBVIOUS
  <1>8. \E j \in 1 .. Len(u) : u[j] = x
    BY <1>3, <1>5, <1>6, <1>7
  <1>9. OnRow(f, nodes[id].items[i].nodeId, d - 1, x)
    BY <1>7, <1>8 DEF OnRow
  <1> QED
    BY <1>6, <1>9

(* The children of a node of one level are on the next one. *)
GoesDown(f, id, d) ==
    \A p \in DOMAIN nodes : OnRow(f, id, d, p) =>
        \A i \in 1 .. Len(nodes[p].items) : OnRow(f, id, d + 1, nodes[p].items[i].nodeId)

LEMMA RowsComposed ==
    ASSUME NEW h, Sound(nodes, h, rootNodeId), NEW f, Rows(f)
    PROVE  \A id \in DOMAIN nodes : \A d \in Nat :
               d # 0 /\ d <= h[id] => Composed(f, id, d)
  <1> SUFFICES ASSUME NEW id \in DOMAIN nodes, NEW d \in Nat, d # 0, d <= h[id]
               PROVE  Composed(f, id, d)
    OBVIOUS
  <1>1. \A c \in DOMAIN nodes : h[c] \in Nat
    BY IsLeafIs
  <1>2. h[id] # 0 /\ d - 1 \in Nat
    BY <1>1
  <1>3. \A c \in DOMAIN nodes : h[c] = h[id] - 1 => Row(f, h, c, d - 1)
    <2> SUFFICES ASSUME NEW c \in DOMAIN nodes, h[c] = h[id] - 1
                 PROVE  Row(f, h, c, d - 1)
      OBVIOUS
    <2>1. d - 1 <= h[c]
      BY <1>1
    <2> QED
      BY <1>2, <2>1, AllRows
  <1> QED
    BY <1>2, <1>3, RowComposed

LEMMA OneBelow ==
    ASSUME NEW h, Sound(nodes, h, rootNodeId), NEW f, Rows(f),
           NEW id \in DOMAIN nodes, NEW x
    PROVE  OnRow(f, id, 0, x) <=> x = id
  <1>1. <<id, 0>> \in (DOMAIN nodes) \X Nat
    OBVIOUS
  <1>2. f[<<id, 0>>] = rowOf(f, <<id, 0>>)
    BY <1>1 DEF Rows
  <1>3. rowOf(f, <<id, 0>>) = <<id>>
    BY RowIs
  <1>4. PICK u : u = f[<<id, 0>>]
    OBVIOUS
  <1>5. u = <<id>> /\ Len(u) = 1 /\ u[1] = id
    BY <1>2, <1>3, <1>4
  <1>6. \A q \in 1 .. 1 : q = 1
    OBVIOUS
  <1> QED
    BY <1>4, <1>5, <1>6 DEF OnRow

LEMMA AllGoDown ==
    ASSUME NEW h, Sound(nodes, h, rootNodeId), NEW f, Rows(f)
    PROVE  \A d \in Nat : \A id \in DOMAIN nodes : d + 1 <= h[id] => GoesDown(f, id, d)
  <1> DEFINE Bad == {d \in Nat : \E id \in DOMAIN nodes : d + 1 <= h[id] /\ ~GoesDown(f, id, d)}
  <1>1. \A id \in DOMAIN nodes : h[id] \in Nat
    BY IsLeafIs
  <1>2. Bad = {}
    <2> SUFFICES ASSUME Bad # {}
                 PROVE  FALSE
      OBVIOUS
    <2>1. PICK d \in Bad : \A e \in Bad : d <= e
      <3>1. Bad \subseteq Nat
        OBVIOUS
      <3> HIDE DEF Bad
      <3> QED
        BY <3>1, LeastNumber
    <2>2. d \in Nat
      OBVIOUS
    <2>3. PICK id \in DOMAIN nodes : d + 1 <= h[id] /\ ~GoesDown(f, id, d)
      BY <2>1
    <2>4. PICK p \in DOMAIN nodes : OnRow(f, id, d, p) /\
              ~ \A i \in 1 .. Len(nodes[p].items) : OnRow(f, id, d + 1, nodes[p].items[i].nodeId)
      BY <2>3 DEF GoesDown
    <2>5. PICK i \in 1 .. Len(nodes[p].items) : ~OnRow(f, id, d + 1, nodes[p].items[i].nodeId)
      BY <2>4
    <2>6. PICK x : x = nodes[p].items[i].nodeId
      OBVIOUS
    <2>7. d + 1 \in Nat /\ d + 1 # 0 /\ (d + 1) - 1 = d /\ h[id] # 0
      BY <1>1, <2>2, <2>3
    <2>8. Composed(f, id, d + 1)
      BY <2>3, <2>7, RowsComposed
    <2>9. \A k \in 1 .. Len(nodes[id].items) : ~OnRow(f, nodes[id].items[k].nodeId, d, x)
      <3> SUFFICES ASSUME NEW k \in 1 .. Len(nodes[id].items),
                          OnRow(f, nodes[id].items[k].nodeId, d, x)
                   PROVE  FALSE
        OBVIOUS
      <3>1. OnRow(f, nodes[id].items[k].nodeId, (d + 1) - 1, x)
        BY <2>7
      <3>2. OnRow(f, id, d + 1, x)
        BY <3>1, <2>8, WithinLine
      <3> QED
        BY <3>2, <2>5, <2>6
    <2>10. CASE d = 0
      <3>1. p = id
        BY <2>4, <2>10, OneBelow
      <3>2. x \in DOMAIN nodes
        BY <2>6, <2>7, <3>1, IsLeafIs DEF keysOf
      <3>3. OnRow(f, x, 0, x)
        BY <3>2, OneBelow
      <3> QED
        BY <2>6, <2>9, <2>10, <3>1, <3>3
    <2>11. CASE d # 0
      <3>1. d - 1 \in Nat /\ ~(d <= d - 1) /\ (d - 1) + 1 = d /\ d <= h[id]
        BY <1>1, <2>2, <2>3, <2>11
      <3>2. Composed(f, id, d)
        BY <2>2, <2>11, <3>1, RowsComposed
      <3>3. PICK k \in 1 .. Len(nodes[id].items) :
                OnRow(f, nodes[id].items[k].nodeId, d - 1, p)
        BY <2>4, <3>2, WithinSome
      <3>4. PICK c \in DOMAIN nodes : c = nodes[id].items[k].nodeId /\ h[c] = h[id] - 1
        BY <2>7, IsLeafIs DEF keysOf
      <3>5. d <= h[c]
        BY <1>1, <2>2, <2>3, <3>4
      <3>6. d - 1 \notin Bad
        <4> HIDE DEF Bad
        <4> QED
          BY <3>1, <2>1
      <3>7. GoesDown(f, c, d - 1)
        BY <3>1, <3>5, <3>6
      <3>8. OnRow(f, c, (d - 1) + 1, x)
        BY <2>6, <3>3, <3>4, <3>7 DEF GoesDown
      <3> QED
        BY <3>1, <3>4, <3>8, <2>9
    <2> QED
      BY <2>10, <2>11
  <1>3. \A d \in Nat : d \notin Bad
    <2> HIDE DEF Bad
    <2> QED
      BY <1>2
  <1> QED
    BY <1>3

(* A node d levels below the root is on that level. *)
LEMMA AllWithin ==
    ASSUME NEW h, Sound(nodes, h, rootNodeId), NEW f, Rows(f)
    PROVE  \A x \in DOMAIN nodes :
              /\ h[rootNodeId] - h[x] \in Nat
              /\ OnRow(f, rootNodeId, h[rootNodeId] - h[x], x)
  <1>1. \A x \in DOMAIN nodes : h[x] \in Nat
    BY IsLeafIs
  <1>2. rootNodeId \in DOMAIN nodes
        /\ \A x \in DOMAIN nodes \ {rootNodeId} : h[x] < h[rootNodeId] /\ IsChild(nodes, x)
    BY DEF Sound, Rooted
  <1>3. \A x \in DOMAIN nodes : h[rootNodeId] - h[x] \in Nat
    <2> TAKE x \in DOMAIN nodes
    <2>1. h[x] <= h[rootNodeId]
      <3>1. CASE x = rootNodeId
        BY <3>1, <1>1
      <3>2. CASE x # rootNodeId
        <4>1. h[x] < h[rootNodeId]
          BY <3>2, <1>2
        <4> QED
          BY <4>1, <1>1, <1>2
      <3> QED
        BY <3>1, <3>2
    <2> QED
      BY <2>1, <1>1, <1>2
  <1> DEFINE Bad == {e \in Nat : \E x \in DOMAIN nodes :
                        e = h[rootNodeId] - h[x] /\ ~OnRow(f, rootNodeId, e, x)}
  <1>4. Bad = {}
    <2> SUFFICES ASSUME Bad # {}
                 PROVE  FALSE
      OBVIOUS
    <2>1. PICK e \in Bad : \A k \in Bad : e <= k
      <3>1. Bad \subseteq Nat
        OBVIOUS
      <3> HIDE DEF Bad
      <3> QED
        BY <3>1, LeastNumber
    <2>2. e \in Nat
      OBVIOUS
    <2>3. PICK x \in DOMAIN nodes : e = h[rootNodeId] - h[x] /\ ~OnRow(f, rootNodeId, e, x)
      BY <2>1
    <2>4. x # rootNodeId
      <3> SUFFICES ASSUME x = rootNodeId
                   PROVE  FALSE
        OBVIOUS
      <3>1. e = 0
        BY <1>1, <2>3
      <3> QED
        BY <1>2, <2>3, <3>1, OneBelow
    <2>5. PICK p \in DOMAIN nodes : \E i \in DOMAIN nodes[p].items : nodes[p].items[i].nodeId = x
      BY <1>2, <2>4 DEF IsChild
    <2>6. PICK i \in DOMAIN nodes[p].items : nodes[p].items[i].nodeId = x
      BY <2>5
    <2>7. i \in 1 .. Len(nodes[p].items) /\ SoundNode(nodes, h, p) /\ x # 0
      <3>1. SoundNode(nodes, h, p) /\ SoundNode(nodes, h, x)
        BY NodeOfSound
      <3> QED
        BY <3>1 DEF SoundNode
    <2>8. h[x] = h[p] - 1
      BY <2>6, <2>7 DEF SoundNode, LevelsAt
    <2>9. e - 1 = h[rootNodeId] - h[p] /\ h[rootNodeId] - h[p] \in Nat
          /\ ~(e <= e - 1) /\ (e - 1) + 1 = e /\ e <= h[rootNodeId] /\ e - 1 \in Nat
      BY <1>1, <1>2, <1>3, <2>2, <2>3, <2>8
    <2>10. e - 1 \notin Bad
      <3> HIDE DEF Bad
      <3> QED
        BY <2>1, <2>9
    <2>11. OnRow(f, rootNodeId, e - 1, p)
      BY <2>9, <2>10
    <2>12. GoesDown(f, rootNodeId, e - 1)
      BY <1>2, <2>9, AllGoDown
    <2>13. OnRow(f, rootNodeId, (e - 1) + 1, x)
      BY <2>6, <2>7, <2>11, <2>12 DEF GoesDown
    <2> QED
      BY <2>3, <2>9, <2>13
  <1>5. \A x \in DOMAIN nodes : h[rootNodeId] - h[x] \notin Bad
    <2> HIDE DEF Bad
    <2> QED
      BY <1>4
  <1> QED
    BY <1>3, <1>5

-----------------------------------------------------------------------------
(* There are no more levels than nodes. *)
LEMMA LevelsFit ==
    ASSUME NEW h, Sound(nodes, h, rootNodeId), IsFiniteSet(DOMAIN nodes)
    PROVE  h[rootNodeId] < Cardinality(DOMAIN nodes)
  <1>1. PICK f : Rows(f)
    BY RowsExist
  <1>2. PICK H \in Nat : H = h[rootNodeId]
    BY IsLeafIs DEF Sound, Rooted
  <1>3. PICK D : D = DOMAIN nodes /\ IsFiniteSet(D)
    OBVIOUS
  <1>4. ASSUME NEW l \in 0 .. H
        PROVE  \E x \in D : h[x] = l
    <2>1. H - l \in Nat /\ H - l <= H /\ H - (H - l) = l
      BY H \in Nat
    <2>2. PICK t : t = f[<<rootNodeId, H - l>>]
      OBVIOUS
    <2>3. LevelTold(h, t, H - l)
      BY <1>1, <2>1, <2>2, LevelTells
    <2>4. Len(t) \in Nat /\ Len(t) # 0
          /\ \A p \in 1 .. Len(t) : t[p] \in DOMAIN nodes /\ h[t[p]] = H - (H - l)
      BY <1>2, <2>1, <2>3 DEF LevelTold
    <2>5. 1 \in 1 .. Len(t)
      BY ONLY <2>4
    <2> QED
      BY <1>3, <2>1, <2>4, <2>5
  <1> DEFINE g == [l \in 0 .. H |-> CHOOSE x \in D : h[x] = l]
  <1>5. \A l \in 0 .. H : g[l] \in D /\ h[g[l]] = l
    BY <1>4
  <1>6. g \in [0 .. H -> D]
    BY <1>5
  <1> HIDE DEF g
  <1>7. g \in Injection(0 .. H, D)
    BY <1>5, <1>6 DEF Injection, IsInjective
  <1>8. Cardinality(0 .. H) <= Cardinality(D)
    BY <1>3, <1>7, FS_Injection
  <1>9. Cardinality(0 .. H) = H + 1
    BY FS_Interval
  <1>10. Cardinality(D) \in Nat
    BY <1>3, FS_CardinalityType
  <1> QED
    BY <1>2, <1>3, <1>8, <1>9, <1>10

LEMMA LevelMembers ==
    ASSUME NEW h, Sound(nodes, h, rootNodeId), NEW n \in Nat, NEW t, LevelTold(h, t, n)
    PROVE  \A x \in ToSet(t) : x \in DOMAIN nodes /\ h[x] = h[rootNodeId] - n
  <1>1. CASE ~(n <= h[rootNodeId])
    <2>1. t = <<>>
      BY <1>1 DEF LevelTold
    <2>2. DOMAIN t = {}
      BY <2>1
    <2> QED
      BY <2>2 DEF ToSet
  <1>2. CASE n <= h[rootNodeId]
    <2>1. /\ t \in Seq(DOMAIN nodes) /\ Len(t) \in Nat
          /\ \A p \in 1 .. Len(t) : t[p] \in DOMAIN nodes /\ h[t[p]] = h[rootNodeId] - n
      BY <1>2 DEF LevelTold
    <2>2. DOMAIN t = 1 .. Len(t)
      BY <2>1
    <2> QED
      BY <2>1, <2>2 DEF ToSet
  <1> QED
    BY <1>1, <1>2

LEMMA EmptyLevels ==
    ASSUME rootNodeId = 0, DOMAIN nodes = {}
    PROVE  \A n \in DOMAIN Levels : Levels[n] = <<>> /\ ToSet(Levels[n]) = {}
  <1> TAKE n \in DOMAIN Levels
  <1>1. Levels[n] = Level(n)
    BY DEF Levels
  <1>2. Level(n) = <<>>
    BY LevelIs
  <1>3. ToSet(<<>>) = {}
    BY DEF ToSet
  <1> QED
    BY <1>1, <1>2, <1>3

LevelsSound(levels) ==
    /\ \A n \in DOMAIN levels :
          /\ IsInjective(levels[n])
          /\ \A m \in DOMAIN levels \ {n} :
                ToSet(levels[m]) \cap ToSet(levels[n]) = {}
          /\ \A a, b \in ToSet(levels[n]) : isLeaf(a) <=> isLeaf(b)
    /\ UNION {ToSet(levels[n]) : n \in DOMAIN levels} = DOMAIN nodes

LEMMA LevelsOfTree ==
    ASSUME TreeInv, NEW h, Sound(nodes, h, rootNodeId), rootNodeId # 0
    PROVE  LevelsSound(Levels)
  <1>1. IsFiniteSet(DOMAIN nodes) /\ Cardinality(DOMAIN nodes) \in Nat
    BY FiniteTree
  <1>2. PICK f : Rows(f) /\ \A n : Level(n) = f[<<rootNodeId, n>>]
    BY LevelOfTree
  <1>3. PICK levels : levels = Levels
    OBVIOUS
  <1>4. /\ DOMAIN levels = 0 .. Cardinality(DOMAIN nodes)
        /\ \A n \in DOMAIN levels : n \in Nat /\ levels[n] = f[<<rootNodeId, n>>]
    BY <1>1, <1>2, <1>3 DEF Levels
  <1>5. \A n \in DOMAIN levels : LevelTold(h, levels[n], n)
    BY <1>2, <1>4, LevelTells
  <1>6. \A n \in DOMAIN levels : \A x \in ToSet(levels[n]) :
            x \in DOMAIN nodes /\ h[x] = h[rootNodeId] - n
    BY <1>4, <1>5, LevelMembers
  <1>7. \A x \in DOMAIN nodes : h[x] \in Nat /\ (isLeaf(x) <=> h[x] = 0)
    BY IsLeafIs
  <1>8. rootNodeId \in DOMAIN nodes
    BY DEF Sound, Rooted
  <1>9. ASSUME NEW n \in DOMAIN levels
        PROVE  /\ IsInjective(levels[n])
               /\ \A m \in DOMAIN levels \ {n} :
                     ToSet(levels[m]) \cap ToSet(levels[n]) = {}
               /\ \A a, b \in ToSet(levels[n]) : isLeaf(a) <=> isLeaf(b)
    <2>1. IsInjective(levels[n])
      BY <1>4, <1>5, LevelInjective
    <2>2. ASSUME NEW m \in DOMAIN levels \ {n}, NEW x \in ToSet(levels[m]) \cap ToSet(levels[n])
          PROVE  FALSE
      <3>1. h[rootNodeId] - m = h[rootNodeId] - n
        BY <1>6
      <3>2. m \in Nat /\ n \in Nat /\ h[rootNodeId] \in Nat /\ m # n
        BY <1>4, <1>7, <1>8
      <3> QED
        BY ONLY <3>1, <3>2
    <2>3. \A a, b \in ToSet(levels[n]) : isLeaf(a) <=> isLeaf(b)
      <3> TAKE a, b \in ToSet(levels[n])
      <3>1. a \in DOMAIN nodes /\ b \in DOMAIN nodes /\ h[a] = h[b]
        BY <1>6
      <3> QED
        BY <3>1, <1>7
    <2> QED
      BY <2>1, <2>2, <2>3
  <1>10. \A x \in DOMAIN nodes : \E n \in DOMAIN levels : x \in ToSet(levels[n])
    <2> TAKE x \in DOMAIN nodes
    <2>1. h[rootNodeId] < Cardinality(DOMAIN nodes)
      BY <1>1, LevelsFit
    <2>2. PICK n \in Nat : n = h[rootNodeId] - h[x]
      BY <1>2, AllWithin
    <2>3. OnRow(f, rootNodeId, n, x)
      BY <1>2, <2>2, AllWithin
    <2>4. n \in DOMAIN levels
      <3>1. h[x] \in Nat /\ h[rootNodeId] \in Nat
        BY <1>7, <1>8
      <3>2. n \in 0 .. Cardinality(DOMAIN nodes)
        BY ONLY <1>1, <2>1, <2>2, <3>1
      <3> QED
        BY <1>4, <3>2
    <2>5. PICK t : t = levels[n]
      OBVIOUS
    <2>6. t = f[<<rootNodeId, n>>]
      BY <1>4, <2>4, <2>5
    <2>7. \E q \in 1 .. Len(t) : t[q] = x
      BY <2>3, <2>6 DEF OnRow
    <2>8. \A q \in 1 .. Len(t) : q \in DOMAIN t
      <3>1. LevelTold(h, t, n)
        BY <1>5, <2>4, <2>5
      <3>2. CASE n <= h[rootNodeId]
        <4>1. t \in Seq(DOMAIN nodes)
          BY <3>1, <3>2 DEF LevelTold
        <4> QED
          BY <4>1
      <3>3. CASE ~(n <= h[rootNodeId])
        <4>1. t = <<>>
          BY <3>1, <3>3 DEF LevelTold
        <4> QED
          BY <4>1
      <3> QED
        BY <3>2, <3>3
    <2>9. x \in ToSet(t)
      BY <2>7, <2>8 DEF ToSet
    <2> QED
      BY <2>4, <2>5, <2>9
  <1>11. UNION {ToSet(levels[n]) : n \in DOMAIN levels} = DOMAIN nodes
    BY <1>6, <1>10
  <1>12. LevelsSound(levels)
    BY <1>9, <1>11 DEF LevelsSound
  <1> QED
    BY <1>3, <1>12

LEMMA BalancedHold ==
    ASSUME TreeInv
    PROVE  Balanced
  <1> SUFFICES ASSUME Idle
               PROVE  /\ LevelsSound(Levels)
                      /\ \A id \in DOMAIN nodes :
                            /\ Len(keysOf(id)) \in 1 .. MAX_ITEMS
                            /\ nodes[id].nextSibling # 0 => Len(keysOf(id)) >= MIN_ITEMS
    BY DEF Balanced, LevelsSound
  <1>1. PICK h : Shape(h)
    BY DEF TreeInv
  <1>2. \A id \in DOMAIN nodes :
            /\ Len(keysOf(id)) \in 1 .. MAX_ITEMS
            /\ nodes[id].nextSibling # 0 => Len(keysOf(id)) >= MIN_ITEMS
    BY <1>1 DEF Shape, Exact, Sized, keysOf
  <1>3. CASE rootNodeId = 0
    <2>1. DOMAIN nodes = {}
      BY <1>1, <1>3, SoundAtRest
    <2>2. PICK levels : levels = Levels
      OBVIOUS
    <2>3. \A n \in DOMAIN levels : levels[n] = <<>> /\ ToSet(levels[n]) = {}
      BY <1>3, <2>1, <2>2, EmptyLevels
    <2>4. IsInjective(<<>>)
      <3>1. DOMAIN <<>> = {}
        OBVIOUS
      <3> QED
        BY <3>1 DEF IsInjective
    <2>5. LevelsSound(levels)
      BY <2>1, <2>3, <2>4 DEF LevelsSound
    <2> QED
      BY <1>2, <2>2, <2>5
  <1>4. CASE rootNodeId # 0
    <2>1. Sound(nodes, h, rootNodeId)
      BY <1>1, <1>4, SoundAtRest
    <2>2. LevelsSound(Levels)
      BY <1>4, <2>1, LevelsOfTree
    <2> QED
      BY <1>2, <2>2
  <1> QED
    BY <1>3, <1>4

-----------------------------------------------------------------------------
(* verify(): the nodes.                                                    *)

(* What verify() visits. *)
visit(ns, f, root, n) ==
    IF n = 0 THEN {root} \ {0}
    ELSE f[n - 1] \cup UNION {childIds(ns, id) : id \in f[n - 1] \cap DOMAIN ns}

Visits(ns, f, root) ==
    f = [n \in 0 .. Cardinality(DOMAIN ns) |-> visit(ns, f, root, n)]

LEMMA AllIdsAre ==
    ASSUME NEW ns, NEW root
    PROVE  allNodeIds(ns, root) = (CHOOSE f : Visits(ns, f, root))[Cardinality(DOMAIN ns)]
  BY DEF allNodeIds, Visits, visit

ChildrenStored == \A id \in DOMAIN nodes : childIds(nodes, id) \subseteq DOMAIN nodes

LEMMA VisitsExist ==
    ASSUME NEW ns, NEW root, Cardinality(DOMAIN ns) \in Nat
    PROVE  \E f : Visits(ns, f, root)
  <1>1. PICK C \in Nat : C = Cardinality(DOMAIN ns)
    OBVIOUS
  <1> DEFINE D == 0 .. C
             V == SUBSET ({root} \cup UNION {childIds(ns, id) : id \in DOMAIN ns})
             F == [f \in [D -> V] |-> [n \in D |-> visit(ns, f, root, n)]]
             rank == [n \in D |-> n]
  <1>2. rank \in [D -> Nat] /\ \A n \in D : n \in Nat /\ rank[n] = n
    OBVIOUS
  <1>3. \A n \in D : n # 0 => n - 1 \in D /\ rank[n - 1] < rank[n]
    OBVIOUS
  <1> HIDE DEF rank, D
  <1>4. ASSUME NEW f \in [D -> V], NEW n \in D
        PROVE  visit(ns, f, root, n) \in V
    <2>1. n # 0 => f[n - 1] \in V
      BY <1>3
    <2> QED
      BY <2>1 DEF visit
  <1>5. ASSUME NEW f \in [D -> V], NEW g \in [D -> V], NEW x \in D,
               \A y \in D : rank[y] < rank[x] => f[y] = g[y]
        PROVE  visit(ns, f, root, x) = visit(ns, g, root, x)
    <2>1. x # 0 => f[x - 1] = g[x - 1]
      BY <1>3, <1>5
    <2> QED
      BY <2>1 DEF visit
  <1> HIDE DEF V
  <1>6. /\ F \in [[D -> V] -> [D -> V]]
        /\ \A f \in [D -> V] : F[f] = [n \in D |-> visit(ns, f, root, n)]
    BY <1>4
  <1> HIDE DEF F
  <1>7. \A f, g \in [D -> V] : \A x \in D :
          (\A y \in D : rank[y] < rank[x] => f[y] = g[y]) => F[f][x] = F[g][x]
    <2> TAKE f, g \in [D -> V]
    <2> TAKE x \in D
    <2> HAVE \A y \in D : rank[y] < rank[x] => f[y] = g[y]
    <2>1. visit(ns, f, root, x) = visit(ns, g, root, x)
      BY <1>5
    <2>2. F[f] = [n \in D |-> visit(ns, f, root, n)] /\ F[g] = [n \in D |-> visit(ns, g, root, n)]
      BY <1>6
    <2>3. F[f][x] = visit(ns, f, root, x) /\ F[g][x] = visit(ns, g, root, x)
      BY <2>2
    <2> QED
      BY <2>1, <2>3
  <1>8. Recursion(D, V, rank, F)
    BY <1>2, <1>6, <1>7 DEF Recursion
  <1>9. PICK e \in [D -> V] : F[e] = e
    <2>1. {} \in V
      BY DEF V
    <2>2. V # {}
      BY <2>1
    <2> QED
      BY <2>2, <1>8, RecursionExists
  <1>10. e = [n \in D |-> visit(ns, e, root, n)]
    BY <1>6, <1>9
  <1>11. D = 0 .. Cardinality(DOMAIN ns)
    BY <1>1 DEF D
  <1>12. Visits(ns, e, root)
    BY <1>10, <1>11 DEF Visits
  <1> QED
    BY <1>12

LEMMA VisitsStored ==
    ASSUME NEW root, root = 0 \/ root \in DOMAIN nodes, ChildrenStored,
           NEW C \in Nat, C = Cardinality(DOMAIN nodes), NEW f, Visits(nodes, f, root)
    PROVE  \A n \in 0 .. C : f[n] \subseteq DOMAIN nodes
  <1>1. \A n \in 0 .. C : f[n] = visit(nodes, f, root, n)
    BY DEF Visits
  <1> DEFINE Bad == {n \in Nat : n \in 0 .. C /\ ~(f[n] \subseteq DOMAIN nodes)}
  <1>2. Bad = {}
    <2> SUFFICES ASSUME Bad # {}
                 PROVE  FALSE
      OBVIOUS
    <2>1. PICK n \in Bad : \A k \in Bad : n <= k
      <3>1. Bad \subseteq Nat
        OBVIOUS
      <3> HIDE DEF Bad
      <3> QED
        BY <3>1, LeastNumber
    <2>2. n \in Nat /\ n \in 0 .. C /\ ~(f[n] \subseteq DOMAIN nodes)
      BY <2>1
    <2>3. n # 0
      BY <1>1, <2>2 DEF visit
    <2>4. n - 1 \in Nat /\ n - 1 \in 0 .. C /\ ~(n <= n - 1)
      BY ONLY <2>2, <2>3, C \in Nat
    <2>5. n - 1 \notin Bad
      <3> HIDE DEF Bad
      <3> QED
        BY <2>1, <2>4
    <2>6. f[n - 1] \subseteq DOMAIN nodes
      BY <2>4, <2>5
    <2>7. f[n] = visit(nodes, f, root, n)
      BY <1>1, <2>2
    <2>8. visit(nodes, f, root, n) \subseteq DOMAIN nodes
      BY <2>3, <2>6 DEF visit, ChildrenStored
    <2> QED
      BY <2>2, <2>7, <2>8
  <1>3. \A n \in 0 .. C : n \in Nat
    BY C \in Nat
  <1>4. \A n \in 0 .. C : n \notin Bad
    <2> HIDE DEF Bad
    <2> QED
      BY <1>2
  <1> QED
    BY <1>3, <1>4

(* After n rounds it has been n levels below the root, as far as there are  *)
(* nodes as they were. *)
Intact(ns, h, m) ==
    \A x \in DOMAIN nodes : h[x] > m => x \in DOMAIN ns /\ ns[x].items = nodes[x].items

Reached(f, h, m, n) ==
    \A x \in DOMAIN nodes : h[x] >= m /\ h[rootNodeId] - h[x] <= n => x \in f[n]

LEMMA VisitsReach ==
    ASSUME NEW h, Sound(nodes, h, rootNodeId), NEW ns, NEW m \in Nat, Intact(ns, h, m),
           NEW C \in Nat, C = Cardinality(DOMAIN ns), NEW f, Visits(ns, f, rootNodeId)
    PROVE  \A n \in 0 .. C : Reached(f, h, m, n)
  <1>1. \A n \in 0 .. C : f[n] = visit(ns, f, rootNodeId, n)
    BY DEF Visits
  <1>2. /\ rootNodeId \in DOMAIN nodes
        /\ \A x \in DOMAIN nodes \ {rootNodeId} : h[x] < h[rootNodeId] /\ IsChild(nodes, x)
    BY DEF Sound, Rooted
  <1>3. \A x \in DOMAIN nodes : h[x] \in Nat /\ x # 0
    BY IsLeafIs
  <1> DEFINE Bad == {n \in Nat : n \in 0 .. C /\ ~Reached(f, h, m, n)}
  <1>5. Bad = {}
    <2> SUFFICES ASSUME Bad # {}
                 PROVE  FALSE
      OBVIOUS
    <2>1. PICK n \in Bad : \A k \in Bad : n <= k
      <3>1. Bad \subseteq Nat
        OBVIOUS
      <3> HIDE DEF Bad
      <3> QED
        BY <3>1, LeastNumber
    <2>2. n \in Nat /\ n \in 0 .. C /\ ~Reached(f, h, m, n)
      BY <2>1
    <2>3. PICK x \in DOMAIN nodes : /\ h[x] >= m /\ h[rootNodeId] - h[x] <= n
                                    /\ x \notin f[n]
      BY <2>2 DEF Reached
    <2>4. f[n] = visit(ns, f, rootNodeId, n)
      BY <1>1, <2>2
    <2>5. n = 0 => x # rootNodeId
      BY <1>2, <1>3, <2>3, <2>4 DEF visit
    <2>6. n # 0
      <3>1. x # rootNodeId => h[x] < h[rootNodeId]
        BY <1>2
      <3>2. h[x] \in Nat /\ h[rootNodeId] \in Nat
        BY <1>2, <1>3
      <3> QED
        BY <2>3, <2>5, <3>1, <3>2
    <2>7. n - 1 \in Nat /\ n - 1 \in 0 .. C /\ ~(n <= n - 1)
      BY ONLY <2>2, <2>6, C \in Nat
    <2>8. n - 1 \notin Bad
      <3> HIDE DEF Bad
      <3> QED
        BY <2>1, <2>7
    <2>9. Reached(f, h, m, n - 1)
      BY <2>7, <2>8
    <2>10. f[n - 1] \subseteq f[n]
           /\ \A y \in f[n - 1] \cap DOMAIN ns : childIds(ns, y) \subseteq f[n]
      BY <2>4, <2>6 DEF visit
    <2>11. CASE x = rootNodeId
      <3>1. h[rootNodeId] - h[x] <= n - 1
        BY <2>11, <1>2, <1>3, <2>7
      <3> QED
        BY <3>1, <2>3, <2>9, <2>10 DEF Reached
    <2>12. CASE x # rootNodeId
      <3>1. PICK p \in DOMAIN nodes : \E i \in DOMAIN nodes[p].items : nodes[p].items[i].nodeId = x
        BY <1>2, <2>12 DEF IsChild
      <3>2. PICK i \in DOMAIN nodes[p].items : nodes[p].items[i].nodeId = x
        BY <3>1
      <3>3. SoundNode(nodes, h, p) /\ x # 0
        BY <1>3, NodeOfSound
      <3>4. h[x] = h[p] - 1
        BY <3>2, <3>3 DEF SoundNode, LevelsAt
      <3>5. h[rootNodeId] - h[p] <= n - 1 /\ h[p] > m /\ h[p] >= m
        <4>1. h[x] \in Nat /\ h[rootNodeId] \in Nat /\ h[p] \in Nat
          BY <1>2, <1>3
        <4> QED
          BY ONLY <4>1, <2>2, <2>3, <3>4, m \in Nat
      <3>6. p \in f[n - 1] /\ p \in DOMAIN ns /\ ns[p].items = nodes[p].items
        BY <2>9, <3>5 DEF Reached, Intact
      <3>7. x \in childIds(ns, p)
        BY <3>2, <3>3, <3>6 DEF childIds, ToSet
      <3> QED
        BY <2>3, <2>10, <3>6, <3>7
    <2> QED
      BY <2>11, <2>12
  <1>6. \A n \in 0 .. C : n \in Nat
    BY C \in Nat
  <1>7. \A n \in 0 .. C : n \notin Bad
    <2> HIDE DEF Bad
    <2> QED
      BY <1>5
  <1> QED
    BY <1>6, <1>7

LEMMA ChildIdsAre ==
    ASSUME NEW h, Sound(nodes, h, rootNodeId)
    PROVE  ChildrenStored
  <1> SUFFICES ASSUME NEW id \in DOMAIN nodes, NEW c \in childIds(nodes, id)
               PROVE  c \in DOMAIN nodes
    BY DEF ChildrenStored
  <1>1. SoundNode(nodes, h, id)
    BY NodeOfSound
  <1>2. PICK i \in DOMAIN nodes[id].items : c = nodes[id].items[i].nodeId
    BY DEF childIds, ToSet
  <1>3. c # 0
    BY DEF childIds
  <1> QED
    BY <1>1, <1>2, <1>3 DEF SoundNode, LevelsAt

LEMMA AllVisited ==
    ASSUME TreeInv, NEW h, Sound(nodes, h, rootNodeId)
    PROVE  allNodeIds(nodes, rootNodeId) = DOMAIN nodes
  <1>1. PICK C \in Nat : C = Cardinality(DOMAIN nodes)
    BY FiniteTree
  <1>2. ChildrenStored /\ rootNodeId \in DOMAIN nodes
    BY ChildIdsAre DEF Sound, Rooted
  <1>3. PICK f : Visits(nodes, f, rootNodeId) /\ f = CHOOSE g : Visits(nodes, g, rootNodeId)
    BY <1>1, <1>2, VisitsExist
  <1>4. allNodeIds(nodes, rootNodeId) = f[C]
    BY <1>1, <1>3, AllIdsAre
  <1>5. C \in 0 .. C
    BY C \in Nat
  <1>6. f[C] \subseteq DOMAIN nodes
    BY <1>1, <1>2, <1>3, <1>5, VisitsStored
  <1>7. \A x \in DOMAIN nodes : x \in f[C]
    <2> TAKE x \in DOMAIN nodes
    <2>1. h[rootNodeId] < C
      BY <1>1, FiniteTree, LevelsFit
    <2>2. h[rootNodeId] \in Nat /\ h[x] \in Nat
      BY <1>2, IsLeafIs
    <2>3. h[rootNodeId] - h[x] <= C
      BY ONLY <2>1, <2>2, C \in Nat
    <2>4. Intact(nodes, h, 0) /\ 0 \in Nat
      BY DEF Intact
    <2>5. Reached(f, h, 0, C)
      BY <1>1, <1>3, <1>5, <2>4, VisitsReach
    <2> QED
      BY <2>2, <2>3, <2>5 DEF Reached
  <1> QED
    BY <1>4, <1>6, <1>7

LEMMA NoneVisited ==
    ASSUME rootNodeId = 0, DOMAIN nodes = {}
    PROVE  allNodeIds(nodes, rootNodeId) = {}
  <1>1. Cardinality(DOMAIN nodes) = 0 /\ Cardinality(DOMAIN nodes) \in Nat
    BY FS_EmptySet
  <1>2. ChildrenStored
    BY DEF ChildrenStored
  <1>3. PICK f : Visits(nodes, f, rootNodeId) /\ f = CHOOSE g : Visits(nodes, g, rootNodeId)
    BY <1>1, VisitsExist
  <1>4. f[0] = visit(nodes, f, rootNodeId, 0)
    <2>1. 0 \in 0 .. Cardinality(DOMAIN nodes)
      BY <1>1
    <2> QED
      BY <2>1, <1>3 DEF Visits
  <1>5. allNodeIds(nodes, rootNodeId) = f[0]
    BY <1>1, <1>3, AllIdsAre
  <1> QED
    BY <1>4, <1>5 DEF visit

-----------------------------------------------------------------------------
(* What verify() asks of each node. *)
References(ids, id) ==
    {at \in ids \X (1 .. MAX_ITEMS + 1) :
        at[2] \in DOMAIN nodes[at[1]].items /\ nodes[at[1]].items[at[2]].nodeId = id}

LEMMA SeenOnceIs ==
    ASSUME NEW root, NEW ids,
           \A id \in ids : Cardinality(References(ids, id)) = IF id = root THEN 0 ELSE 1
    PROVE  SeenOnce(nodes, root, ids)
  BY DEF SeenOnce, References

LEMMA EachSeenOnce ==
    ASSUME NEW h, Sound(nodes, h, rootNodeId), NEW id \in DOMAIN nodes
    PROVE  /\ Cardinality(References(DOMAIN nodes, id)) = IF id = rootNodeId THEN 0 ELSE 1
           /\ IsFiniteSet(References(DOMAIN nodes, id))
  <1>1. /\ rootNodeId \in DOMAIN nodes
        /\ \A x \in DOMAIN nodes \ {rootNodeId} : h[x] < h[rootNodeId] /\ IsChild(nodes, x)
        /\ OneParent(nodes)
    BY DEF Sound, Rooted, Structure
  <1>2. \A x \in DOMAIN nodes : h[x] \in Nat /\ x # 0
    BY IsLeafIs
  <1>3. CASE id = rootNodeId
    <2>1. References(DOMAIN nodes, id) = {}
      <3> SUFFICES ASSUME NEW at \in References(DOMAIN nodes, id)
                   PROVE  FALSE
        OBVIOUS
      <3>1. PICK p \in DOMAIN nodes : p = at[1]
        BY DEF References
      <3>2. PICK i : i = at[2]
        OBVIOUS
      <3>3. i \in DOMAIN nodes[p].items /\ nodes[p].items[i].nodeId = id
        BY <3>1, <3>2 DEF References
      <3>4. h[id] = h[p] - 1
        BY <1>2, <3>3, NodeOfSound DEF SoundNode, LevelsAt
      <3>5. p = rootNodeId \/ h[p] < h[rootNodeId]
        BY <1>1
      <3>6. h[p] \in Nat /\ h[id] \in Nat
        BY <1>2
      <3> QED
        BY <1>3, <3>4, <3>5, <3>6
    <2> QED
      BY <1>3, <2>1, FS_EmptySet
  <1>4. CASE id # rootNodeId
    <2>1. PICK p \in DOMAIN nodes : \E i \in DOMAIN nodes[p].items : nodes[p].items[i].nodeId = id
      BY <1>1, <1>4 DEF IsChild
    <2>2. PICK i \in DOMAIN nodes[p].items : nodes[p].items[i].nodeId = id
      BY <2>1
    <2>3. i \in 1 .. MAX_ITEMS + 1
      <3>1. DOMAIN nodes[p].items = 1 .. Len(nodes[p].items)
        BY NodeOfSound DEF SoundNode
      <3>2. Len(nodes[p].items) \in 1 .. MAX_ITEMS
        BY DEF Sound, Exact, Sized
      <3> QED
        BY <3>1, <3>2, NodeSizeAssumption
    <2>4. <<p, i>> \in References(DOMAIN nodes, id)
      BY <2>2, <2>3 DEF References
    <2>5. ASSUME NEW at \in References(DOMAIN nodes, id)
          PROVE  at = <<p, i>>
      <3>1. PICK q \in DOMAIN nodes, j \in 1 .. MAX_ITEMS + 1 : at = <<q, j>>
        BY DEF References
      <3>2. j \in DOMAIN nodes[q].items /\ nodes[q].items[j].nodeId = id
        BY <3>1 DEF References
      <3>3. q = p /\ j = i
        BY <1>1, <1>2, <2>2, <3>2 DEF OneParent
      <3> QED
        BY <3>1, <3>3
    <2>6. References(DOMAIN nodes, id) = {<<p, i>>}
      BY <2>4, <2>5
    <2> QED
      BY <1>4, <2>6, FS_Singleton
  <1> QED
    BY <1>3, <1>4

LEMMA NodesOk ==
    ASSUME NEW h, Sound(nodes, h, rootNodeId), NEW id \in DOMAIN nodes
    PROVE  NodeOk(nodes, id)
  <1>1. SoundNode(nodes, h, id)
    BY NodeOfSound
  <1>2. /\ Len(nodes[id].items) \in 1 .. MAX_ITEMS
        /\ nodes[id].nextSibling # 0 => Len(nodes[id].items) >= MIN_ITEMS
        /\ KeysFirst(nodes, nodes[id].items, {})
        /\ nodes[id].accumCount = countOfAll(nodes, nodes[id].items)
        /\ nodes[id].accum = accumOfAll(nodes, nodes[id].items)
    <2>1. id # 0 /\ Exact(nodes, 0)
      BY <1>1 DEF SoundNode, Sound
    <2> QED
      BY <2>1 DEF Exact, Sized
  <1>3. nodes[id].items # <<>>
    <2>1. Len(nodes[id].items) > 0
      BY <1>1 DEF SoundNode
    <2>2. Len(<<>>) = 0
      OBVIOUS
    <2> QED
      BY <2>1, <2>2
  <1>4. Len(nodes[id].items) <= MAX_ITEMS
    BY <1>2, NodeSizeAssumption
  <1>5. ASSUME NEW key \in ToSet(nodes[id].items), key.nodeId # 0
        PROVE  nodes[key.nodeId].items # <<>> /\ firstItem(nodes, key.nodeId) = key.item
    <2>1. PICK i \in DOMAIN nodes[id].items : key = nodes[id].items[i]
      BY DEF ToSet
    <2>2. nodes[id].items[i].nodeId \in DOMAIN nodes
      BY <1>1, <1>5, <2>1 DEF SoundNode, LevelsAt
    <2>3. PICK c \in DOMAIN nodes : c = key.nodeId
      BY <2>1, <2>2
    <2>4. Len(nodes[c].items) > 0
      BY NodeOfSound DEF SoundNode
    <2>5. Len(<<>>) = 0
      OBVIOUS
    <2>6. nodes[c].items # <<>>
      BY <2>4, <2>5
    <2>7. i \in DOMAIN nodes[id].items \ {}
      BY <2>1
    <2>8. key.item = firstItem(nodes, key.nodeId)
      BY <1>2, <1>5, <2>1, <2>7 DEF KeysFirst
    <2> QED
      BY <2>3, <2>6, <2>8
  <1>6. ASSUME NEW i \in 2 .. Len(nodes[id].items)
        PROVE  nodes[id].items[i - 1].item < nodes[id].items[i].item
    <2>1. Len(nodes[id].items) \in Nat
      BY <1>1 DEF SoundNode
    <2>2. i - 1 \in 1 .. Len(nodes[id].items) /\ i \in 1 .. Len(nodes[id].items) /\ i - 1 < i
      BY <2>1
    <2> QED
      BY <1>1, <2>2 DEF SoundNode, Ascends
  <1> QED
    BY <1>2, <1>3, <1>4, <1>5, <1>6 DEF NodeOk

-----------------------------------------------------------------------------
(* The leaves with their depths. *)
LeafAt == [id : DOMAIN nodes, depth : Nat]

LeavesUnder(ns, f, id, depth) ==
    [i \in DOMAIN ns[id].items |->
        IF ns[id].items[i].nodeId = 0 THEN <<>>
        ELSE f[<<ns[id].items[i].nodeId, depth + 1>>]]

leavesBelow(ns, f, at) ==
    LET id    == at[1]
        depth == at[2]
    IN  (IF leaf(ns, id) THEN <<[id |-> id, depth |-> depth]>> ELSE <<>>)
            \o FlattenSeq(LeavesUnder(ns, f, id, depth))

LeafWalks(ns, f) == f = [at \in (DOMAIN ns) \X Nat |-> leavesBelow(ns, f, at)]

LEMMA LeafNodesAre ==
    ASSUME NEW ns, NEW root
    PROVE  leafNodeIds(ns, root) =
             IF root = 0 THEN <<>> ELSE (CHOOSE f : LeafWalks(ns, f))[<<root, 0>>]
  BY DEF leafNodeIds, LeafWalks, leavesBelow, LeavesUnder

LEMMA LeavesBelowLeaf ==
    ASSUME NEW h, Sound(nodes, h, rootNodeId), NEW f, NEW id \in DOMAIN nodes,
           NEW depth \in Nat, h[id] = 0
    PROVE  leavesBelow(nodes, f, <<id, depth>>) = <<[id |-> id, depth |-> depth]>>
  <1>1. PICK n \in Nat : n = Len(nodes[id].items) /\ DOMAIN nodes[id].items = 1 .. n
    BY IsLeafIs DEF keysOf
  <1>2. leaf(nodes, id)
    BY IsLeafIs DEF isLeaf, keysOf, leaf
  <1>3. \A i \in 1 .. n : nodes[id].items[i].nodeId = 0
    BY <1>1, NodeOfSound DEF SoundNode, LevelsAt
  <1>4. PICK seqs : seqs = LeavesUnder(nodes, f, id, depth)
    OBVIOUS
  <1>5. seqs = [i \in 1 .. n |-> <<>>]
    BY <1>1, <1>3, <1>4 DEF LeavesUnder
  <1>6. seqs \in Seq(Seq(Nat)) /\ Len(seqs) = n
    <2>1. <<>> \in Seq(Nat)
      OBVIOUS
    <2>2. seqs \in [1 .. n -> Seq(Nat)]
      BY <1>5, <2>1
    <2>3. seqs \in Seq(Seq(Nat))
      BY ONLY <2>2, n \in Nat, FunctionIsSeq
    <2>4. DOMAIN seqs = 1 .. n
      BY <1>5
    <2> QED
      BY ONLY <2>3, <2>4, n \in Nat
  <1>7. PICK t \in Seq(Nat) : t = FlattenSeq(seqs)
    BY <1>6, FlattenIs
  <1>8. PICK o : Flattened(seqs, t, o)
    BY <1>6, <1>7, FlattenIs
  <1>9. t = <<>>
    <2> SUFFICES ASSUME t # <<>>
                 PROVE  FALSE
      OBVIOUS
    <2>1. Len(t) \in Nat /\ Len(t) # 0
      BY EmptySeq
    <2>2. 1 \in 1 .. Len(t)
      BY <2>1
    <2>3. InPart(seqs, t, o, 1)
      BY <1>8, <2>2, Located
    <2>4. PICK i \in 1 .. n : \E j \in 1 .. Len(seqs[i]) : TRUE
      BY <1>6, <2>3 DEF InPart
    <2>5. seqs[i] = <<>>
      BY <1>5
    <2>6. Len(seqs[i]) = 0
      BY <2>5
    <2> QED
      BY ONLY <2>4, <2>6
  <1>10. PICK u : u = <<[id |-> id, depth |-> depth]>>
    OBVIOUS
  <1>11. u \o <<>> = u
    BY <1>10
  <1>12. leavesBelow(nodes, f, <<id, depth>>)
           = <<[id |-> id, depth |-> depth]>> \o FlattenSeq(LeavesUnder(nodes, f, id, depth))
    BY <1>2 DEF leavesBelow
  <1> QED
    BY <1>4, <1>7, <1>9, <1>10, <1>11, <1>12

(* Above the leaves only the children count. *)
Rays(f, id, depth) ==
    [i \in 1 .. Len(nodes[id].items) |-> f[<<nodes[id].items[i].nodeId, depth + 1>>]]

RaysBelowIn(V, h, f, id, depth) ==
    \A c \in DOMAIN nodes : h[c] = h[id] - 1 => f[<<c, depth + 1>>] \in Seq(V)

LEMMA RaysAre ==
    ASSUME NEW h, Sound(nodes, h, rootNodeId), NEW V, NEW f, NEW id \in DOMAIN nodes,
           NEW depth \in Nat, h[id] # 0, RaysBelowIn(V, h, f, id, depth)
    PROVE  /\ Rays(f, id, depth) \in Seq(Seq(V))
           /\ Len(Rays(f, id, depth)) = Len(nodes[id].items)
           /\ leavesBelow(nodes, f, <<id, depth>>) = FlattenSeq(Rays(f, id, depth))
           /\ FlattenSeq(Rays(f, id, depth)) \in Seq(V)
  <1>1. PICK n \in Nat : n = Len(nodes[id].items) /\ DOMAIN nodes[id].items = 1 .. n
    BY IsLeafIs DEF keysOf
  <1>2. \A i \in 1 .. n : /\ nodes[id].items[i].nodeId \in DOMAIN nodes
                          /\ h[nodes[id].items[i].nodeId] = h[id] - 1
                          /\ nodes[id].items[i].nodeId # 0
    <2>1. \A i \in 1 .. n : /\ nodes[id].items[i].nodeId \in DOMAIN nodes
                            /\ h[nodes[id].items[i].nodeId] = h[id] - 1
      BY <1>1, IsLeafIs DEF keysOf
    <2> QED
      BY <2>1, IsLeafIs
  <1>3. PICK seqs : seqs = Rays(f, id, depth)
    OBVIOUS
  <1>4. seqs = [i \in 1 .. n |-> f[<<nodes[id].items[i].nodeId, depth + 1>>]]
    BY <1>1, <1>3 DEF Rays
  <1>5. seqs = LeavesUnder(nodes, f, id, depth)
    BY <1>1, <1>2, <1>4 DEF LeavesUnder
  <1>6. seqs \in Seq(Seq(V)) /\ Len(seqs) = n
    <2>1. \A i \in 1 .. n : seqs[i] \in Seq(V)
      BY <1>2, <1>4 DEF RaysBelowIn
    <2>2. seqs \in [1 .. n -> Seq(V)]
      BY <1>4, <2>1
    <2>3. seqs \in Seq(Seq(V))
      BY ONLY <2>2, n \in Nat, FunctionIsSeq
    <2>4. DOMAIN seqs = 1 .. n
      BY <1>4
    <2> QED
      BY ONLY <2>3, <2>4, n \in Nat
  <1>7. PICK t \in Seq(V) : t = FlattenSeq(seqs)
    BY <1>6, FlattenIs
  <1>8. <<>> \o t = t
    OBVIOUS
  <1>9. ~leaf(nodes, id)
    BY IsLeafIs DEF isLeaf, keysOf, leaf
  <1>10. leavesBelow(nodes, f, <<id, depth>>) = <<>> \o FlattenSeq(LeavesUnder(nodes, f, id, depth))
    BY <1>9 DEF leavesBelow
  <1> QED
    BY <1>1, <1>3, <1>5, <1>6, <1>7, <1>8, <1>10

-----------------------------------------------------------------------------
(* verify(): the leaves.                                                   *)

(* What a sequence of sequences is flattened to is one thing. *)
LEMMA SameOffsets ==
    ASSUME NEW seqs, NEW t, NEW o, Flattened(seqs, t, o), NEW u, NEW v, Flattened(seqs, u, v)
    PROVE  \A i \in 0 .. Len(seqs) : o[i] = v[i]
  <1>1. PICK n \in Nat : n = Len(seqs)
    BY DEF Flattened
  <1>2. /\ o \in [0 .. n -> Nat] /\ o[0] = 0 /\ v \in [0 .. n -> Nat] /\ v[0] = 0
        /\ \A i \in 1 .. n : /\ o[i] = o[i - 1] + Len(seqs[i])
                             /\ v[i] = v[i - 1] + Len(seqs[i])
    BY <1>1 DEF Flattened
  <1> DEFINE Bad == {i \in 0 .. n : o[i] # v[i]}
  <1>3. Bad = {}
    <2> SUFFICES ASSUME Bad # {}
                 PROVE  FALSE
      OBVIOUS
    <2>1. PICK i \in Bad : \A e \in Bad : i <= e
      <3>1. Bad \subseteq Nat
        OBVIOUS
      <3> HIDE DEF Bad
      <3> QED
        BY <3>1, LeastNumber
    <2>2. i \in 0 .. n /\ o[i] # v[i]
      OBVIOUS
    <2>3. i # 0
      BY <2>2, <1>2
    <2>4. i - 1 \in 0 .. n /\ ~(i <= i - 1) /\ i \in 1 .. n
      BY <2>2, <2>3
    <2>5. i - 1 \notin Bad
      <3> HIDE DEF Bad
      <3> QED
        BY <2>1, <2>4
    <2>6. o[i - 1] = v[i - 1]
      BY <2>4, <2>5
    <2> HIDE DEF Bad
    <2> QED
      BY <1>2, <2>2, <2>4, <2>6
  <1> QED
    BY <1>1, <1>3

LEMMA SameFlat ==
    ASSUME NEW S, NEW seqs, NEW t \in Seq(S), NEW o, Flattened(seqs, t, o),
           NEW u \in Seq(S), NEW v, Flattened(seqs, u, v)
    PROVE  t = u
  <1>1. PICK n \in Nat : n = Len(seqs)
    BY DEF Flattened
  <1>2. /\ o \in [0 .. n -> Nat] /\ Len(t) = o[n] /\ Len(u) = v[n]
        /\ \A i \in 1 .. n : \A j \in 1 .. Len(seqs[i]) : u[v[i - 1] + j] = seqs[i][j]
    BY <1>1 DEF Flattened
  <1>3. \A i \in 0 .. n : o[i] = v[i]
    BY <1>1, SameOffsets
  <1>4. n \in 0 .. n
    BY <1>1
  <1>5. Len(t) = Len(u)
    BY <1>2, <1>3, <1>4
  <1>6. ASSUME NEW p \in 1 .. Len(t)
        PROVE  t[p] = u[p]
    <2>1. InPart(seqs, t, o, p)
      BY Located
    <2>2. PICK i \in 1 .. n : \E j \in 1 .. Len(seqs[i]) : p = o[i - 1] + j /\ t[p] = seqs[i][j]
      BY <1>1, <2>1 DEF InPart
    <2>3. i - 1 \in 0 .. n
      BY <1>1
    <2>4. o[i - 1] = v[i - 1]
      BY <1>3, <2>3
    <2> QED
      BY <1>2, <2>2, <2>4
  <1> QED
    BY <1>5, <1>6, SeqEqual

-----------------------------------------------------------------------------
(* The leaves below a node are the row of its leaves, all equally deep. *)
LEMMA LeafWalksExist ==
    ASSUME NEW h, Sound(nodes, h, rootNodeId)
    PROVE  \E f : LeafWalks(nodes, f)
  <1> DEFINE D == DOMAIN nodes
             E == D \X Nat
             V == Seq(LeafAt)
             F == [f \in [E -> V] |-> [at \in E |-> leavesBelow(nodes, f, at)]]
             rank == [at \in E |-> h[at[1]]]
  <1>1. \A at \in E : /\ at[1] \in D /\ at[2] \in Nat /\ at = <<at[1], at[2]>>
                      /\ rank[at] = h[at[1]]
    OBVIOUS
  <1>2. rank \in [E -> Nat]
    BY IsLeafIs
  <1>3. ASSUME NEW c \in D, NEW d \in Nat
        PROVE  <<c, d>> \in E /\ rank[<<c, d>>] = h[c]
    OBVIOUS
  <1> HIDE DEF rank, E
  <1>4. ASSUME NEW f \in [E -> V], NEW at \in E
        PROVE  leavesBelow(nodes, f, at) \in V
    <2>1. PICK id \in D, d \in Nat : at = <<id, d>>
      BY <1>1
    <2>2. CASE h[id] = 0
      <3>1. [id |-> id, depth |-> d] \in LeafAt
        BY DEF LeafAt
      <3>2. <<[id |-> id, depth |-> d]>> \in V
        BY <3>1
      <3> QED
        BY <2>1, <2>2, <3>2, LeavesBelowLeaf
    <2>3. CASE h[id] # 0
      <3>1. d + 1 \in Nat
        OBVIOUS
      <3>2. RaysBelowIn(LeafAt, h, f, id, d)
        <4>1. \A c \in D : f[<<c, d + 1>>] \in V
          BY <1>3, <3>1
        <4> QED
          BY <4>1 DEF RaysBelowIn
      <3>3. FlattenSeq(Rays(f, id, d)) \in Seq(LeafAt)
            /\ leavesBelow(nodes, f, <<id, d>>) = FlattenSeq(Rays(f, id, d))
        BY <3>2, <2>3, RaysAre
      <3> QED
        BY <2>1, <3>3
    <2> QED
      BY <2>2, <2>3
  <1>5. ASSUME NEW f \in [E -> V], NEW g \in [E -> V], NEW x \in E,
               \A y \in E : rank[y] < rank[x] => f[y] = g[y]
        PROVE  leavesBelow(nodes, f, x) = leavesBelow(nodes, g, x)
    <2>1. PICK id \in D, d \in Nat : x = <<id, d>> /\ rank[x] = h[id]
      BY <1>1
    <2>2. CASE h[id] = 0
      BY <2>1, <2>2, LeavesBelowLeaf
    <2>3. CASE h[id] # 0
      <3>1. d + 1 \in Nat /\ h[id] \in Nat /\ h[id] - 1 < h[id]
        BY IsLeafIs
      <3>2. RaysBelowIn(LeafAt, h, f, id, d) /\ RaysBelowIn(LeafAt, h, g, id, d)
        <4>1. \A c \in D : f[<<c, d + 1>>] \in V /\ g[<<c, d + 1>>] \in V
          BY <1>3, <3>1
        <4> QED
          BY <4>1 DEF RaysBelowIn
      <3>3. \A c \in D : h[c] = h[id] - 1 => f[<<c, d + 1>>] = g[<<c, d + 1>>]
        <4> SUFFICES ASSUME NEW c \in D, h[c] = h[id] - 1
                     PROVE  f[<<c, d + 1>>] = g[<<c, d + 1>>]
          OBVIOUS
        <4>1. <<c, d + 1>> \in E /\ rank[<<c, d + 1>>] < rank[x]
          BY <1>3, <2>1, <3>1
        <4> QED
          BY <4>1, <1>5
      <3>4. \A i \in 1 .. Len(nodes[id].items) :
              nodes[id].items[i].nodeId \in D /\ h[nodes[id].items[i].nodeId] = h[id] - 1
        BY <2>3, IsLeafIs DEF keysOf
      <3>5. Rays(f, id, d) = Rays(g, id, d)
        BY <3>3, <3>4 DEF Rays
      <3>6. leavesBelow(nodes, f, <<id, d>>) = FlattenSeq(Rays(f, id, d))
        BY <3>2, <2>3, RaysAre
      <3>7. leavesBelow(nodes, g, <<id, d>>) = FlattenSeq(Rays(g, id, d))
        BY <3>2, <2>3, RaysAre
      <3> QED
        BY <2>1, <3>5, <3>6, <3>7
    <2> QED
      BY <2>2, <2>3
  <1> HIDE DEF V
  <1>6. /\ F \in [[E -> V] -> [E -> V]]
        /\ \A f \in [E -> V] : F[f] = [at \in E |-> leavesBelow(nodes, f, at)]
    BY <1>4
  <1> HIDE DEF F
  <1>7. \A f, g \in [E -> V] : \A x \in E :
          (\A y \in E : rank[y] < rank[x] => f[y] = g[y]) => F[f][x] = F[g][x]
    <2> TAKE f, g \in [E -> V]
    <2> TAKE x \in E
    <2> HAVE \A y \in E : rank[y] < rank[x] => f[y] = g[y]
    <2>1. leavesBelow(nodes, f, x) = leavesBelow(nodes, g, x)
      BY <1>5
    <2>2. F[f] = [i \in E |-> leavesBelow(nodes, f, i)] /\ F[g] = [i \in E |-> leavesBelow(nodes, g, i)]
      BY <1>6
    <2>3. F[f][x] = leavesBelow(nodes, f, x) /\ F[g][x] = leavesBelow(nodes, g, x)
      BY <2>2
    <2> QED
      BY <2>1, <2>3
  <1>8. Recursion(E, V, rank, F)
    BY <1>2, <1>6, <1>7 DEF Recursion
  <1>9. PICK e \in [E -> V] : F[e] = e
    <2>1. <<>> \in V
      BY DEF V
    <2>2. V # {}
      BY <2>1
    <2> QED
      BY <2>2, <1>8, RecursionExists
  <1>10. LeafWalks(nodes, e)
    BY <1>6, <1>9 DEF LeafWalks, E
  <1> QED
    BY <1>10

AtDepth(t, n) == [k \in 1 .. Len(t) |-> [id |-> t[k], depth |-> n]]

LEMMA AtDepthIs ==
    ASSUME NEW t \in Seq(DOMAIN nodes), NEW n \in Nat
    PROVE  AtDepth(t, n) \in Seq(LeafAt) /\ Len(AtDepth(t, n)) = Len(t)
  <1>1. PICK l \in Nat : l = Len(t)
    OBVIOUS
  <1>2. PICK u : u = AtDepth(t, n)
    OBVIOUS
  <1>3. u = [k \in 1 .. l |-> [id |-> t[k], depth |-> n]]
    BY <1>1, <1>2 DEF AtDepth
  <1>4. \A k \in 1 .. l : t[k] \in DOMAIN nodes
    BY <1>1
  <1>5. \A k \in 1 .. l : u[k] \in LeafAt
    BY <1>3, <1>4 DEF LeafAt
  <1>6. DOMAIN u = 1 .. l
    BY <1>3
  <1>7. u \in [1 .. l -> LeafAt]
    BY <1>3, <1>5
  <1>8. u \in Seq(LeafAt)
    BY ONLY <1>7, l \in Nat, FunctionIsSeq
  <1>9. Len(u) = l
    BY ONLY <1>6, <1>8, l \in Nat
  <1> QED
    BY <1>1, <1>2, <1>8, <1>9

-----------------------------------------------------------------------------
LEMMA DepthOne ==
    ASSUME NEW id, NEW n
    PROVE  AtDepth(<<id>>, n) = <<[id |-> id, depth |-> n]>>
  <1>1. PICK t : t = <<id>>
    OBVIOUS
  <1>2. Len(t) = 1 /\ t[1] = id
    BY <1>1
  <1>3. AtDepth(t, n) = [k \in 1 .. 1 |-> [id |-> t[k], depth |-> n]]
    BY <1>2 DEF AtDepth
  <1>4. \A k \in 1 .. 1 : k = 1
    OBVIOUS
  <1>5. PICK x : x = [id |-> id, depth |-> n]
    OBVIOUS
  <1>6. AtDepth(t, n) = [k \in 1 .. 1 |-> x]
    BY <1>2, <1>3, <1>4, <1>5
  <1>7. [k \in 1 .. 1 |-> x] = <<x>>
    OBVIOUS
  <1> QED
    BY <1>1, <1>5, <1>6, <1>7

(* Parts and wholes whose members have all got the same depth. *)
DepthsOf(seqs, rows, n) ==
    /\ Len(rows) = Len(seqs)
    /\ \A i \in 1 .. Len(seqs) : seqs[i] = AtDepth(rows[i], n) /\ Len(seqs[i]) = Len(rows[i])

LEMMA FlatAtDepth ==
    ASSUME NEW rows, NEW t \in Seq(DOMAIN nodes), NEW o, Flattened(rows, t, o), NEW n \in Nat,
           NEW seqs, DepthsOf(seqs, rows, n)
    PROVE  Flattened(seqs, AtDepth(t, n), o)
  <1>1. PICK m \in Nat : m = Len(rows) /\ m = Len(seqs)
    BY DEF Flattened, DepthsOf
  <1>2. /\ o \in [0 .. m -> Nat] /\ o[0] = 0 /\ Len(t) = o[m]
        /\ \A i \in 1 .. m :
              /\ Len(rows[i]) \in Nat
              /\ o[i] = o[i - 1] + Len(rows[i])
              /\ \A j \in 1 .. Len(rows[i]) : t[o[i - 1] + j] = rows[i][j]
    BY <1>1 DEF Flattened
  <1>3. PICK u : u = AtDepth(t, n)
    OBVIOUS
  <1>4. Len(u) = o[m]
    BY <1>2, <1>3, AtDepthIs
  <1>5. \A i \in 1 .. m : /\ Len(seqs[i]) = Len(rows[i])
                          /\ seqs[i] = AtDepth(rows[i], n)
    BY <1>1 DEF DepthsOf
  <1>6. \A i \in 1 .. m : o[i - 1] <= o[i]
    <2> TAKE i \in 1 .. m
    <2>1. i - 1 \in 0 .. m /\ i \in 0 .. m
      OBVIOUS
    <2>2. o[i - 1] \in Nat /\ o[i] \in Nat
      BY <1>2, <2>1
    <2>3. Len(rows[i]) \in Nat /\ o[i] = o[i - 1] + Len(rows[i])
      BY <1>2
    <2> QED
      BY ONLY <2>2, <2>3
  <1>7. ASSUME NEW i \in 1 .. m, NEW j \in 1 .. Len(rows[i])
        PROVE  u[o[i - 1] + j] = seqs[i][j]
    <2>1. i \in 0 .. m /\ m \in i .. m /\ i - 1 \in 0 .. m
      OBVIOUS
    <2>2. o[i] <= o[m]
      BY <1>2, <1>6, <2>1, Grows
    <2>3. PICK a \in Nat : a = o[i - 1]
      BY <1>2, <2>1
    <2>4. PICK l \in Nat : l = Len(rows[i])
      BY <1>2
    <2>5. o[i] = a + l /\ t[a + j] = rows[i][j] /\ o[m] \in Nat
      BY SMTT(30), <1>2, <2>1, <2>3, <2>4
    <2>6. a + j \in 1 .. o[m]
      BY ONLY <2>2, <2>4, <2>5, a \in Nat, l \in Nat, j \in 1 .. Len(rows[i])
    <2>7. u[a + j] = [id |-> t[a + j], depth |-> n]
      BY <1>2, <1>3, <2>6 DEF AtDepth
    <2>8. seqs[i][j] = [id |-> rows[i][j], depth |-> n]
      BY <1>5 DEF AtDepth
    <2> QED
      BY <2>3, <2>5, <2>7, <2>8
  <1>8. \A i \in 1 .. m :
           /\ Len(seqs[i]) \in Nat
           /\ o[i] = o[i - 1] + Len(seqs[i])
           /\ \A j \in 1 .. Len(seqs[i]) : u[o[i - 1] + j] = seqs[i][j]
    <2> TAKE i \in 1 .. m
    <2>1. Len(seqs[i]) = Len(rows[i])
      BY <1>5
    <2> QED
      BY <2>1, <1>2, <1>7
  <1> QED
    BY ONLY <1>1, <1>2, <1>3, <1>4, <1>8 DEF Flattened

Counterpart(f, g, h, id) ==
    \A depth \in Nat : g[<<id, depth>>] = AtDepth(f[<<id, h[id]>>], depth + h[id])

LEMMA LeafCounterpart ==
    ASSUME NEW h, Sound(nodes, h, rootNodeId), NEW f, Rows(f), NEW g, LeafWalks(nodes, g),
           NEW id \in DOMAIN nodes, h[id] = 0
    PROVE  Counterpart(f, g, h, id)
  <1> SUFFICES ASSUME NEW depth \in Nat
               PROVE  g[<<id, depth>>] = AtDepth(f[<<id, h[id]>>], depth + h[id])
    BY DEF Counterpart
  <1>1. <<id, depth>> \in (DOMAIN nodes) \X Nat /\ <<id, 0>> \in (DOMAIN nodes) \X Nat
    OBVIOUS
  <1>2. g[<<id, depth>>] = leavesBelow(nodes, g, <<id, depth>>)
    BY <1>1 DEF LeafWalks
  <1>3. f[<<id, 0>>] = rowOf(f, <<id, 0>>)
    BY <1>1 DEF Rows
  <1>4. rowOf(f, <<id, 0>>) = <<id>>
    <2>1. 0 \in Nat
      OBVIOUS
    <2> QED
      BY <2>1, RowIs
  <1>5. leavesBelow(nodes, g, <<id, depth>>) = <<[id |-> id, depth |-> depth]>>
    BY LeavesBelowLeaf
  <1>6. depth + 0 = depth
    OBVIOUS
  <1> QED
    BY <1>2, <1>3, <1>4, <1>5, <1>6, DepthOne

LEMMA InnerCounterpart ==
    ASSUME NEW h, Sound(nodes, h, rootNodeId), NEW f, Rows(f), NEW g, LeafWalks(nodes, g),
           NEW id \in DOMAIN nodes, h[id] # 0,
           \A c \in DOMAIN nodes : h[c] = h[id] - 1 => Counterpart(f, g, h, c)
    PROVE  Counterpart(f, g, h, id)
  <1> SUFFICES ASSUME NEW depth \in Nat
               PROVE  g[<<id, depth>>] = AtDepth(f[<<id, h[id]>>], depth + h[id])
    BY DEF Counterpart
  <1>1. PICK d \in Nat : d = h[id] /\ d # 0
    BY IsLeafIs
  <1>2. d - 1 \in Nat /\ depth + 1 \in Nat /\ depth + d \in Nat
        /\ (depth + 1) + (d - 1) = depth + d
    BY <1>1
  <1>3. PICK n \in Nat : n = Len(nodes[id].items)
    BY IsLeafIs DEF keysOf
  <1>4. ASSUME NEW c \in DOMAIN nodes, h[c] = h[id] - 1
        PROVE  /\ f[<<c, d - 1>>] \in Seq(DOMAIN nodes)
               /\ g[<<c, depth + 1>>] = AtDepth(f[<<c, d - 1>>], depth + d)
    <2>1. d - 1 <= h[c]
      BY <1>1, <1>4
    <2>2. Row(f, h, c, d - 1)
      BY <1>2, <2>1, AllRows
    <2>3. g[<<c, depth + 1>>] = AtDepth(f[<<c, h[c]>>], (depth + 1) + h[c])
      BY <1>2, <1>4 DEF Counterpart
    <2> QED
      BY <1>1, <1>2, <1>4, <2>2, <2>3 DEF Row
  <1>5. ASSUME NEW c \in DOMAIN nodes, h[c] = h[id] - 1
        PROVE  /\ g[<<c, depth + 1>>] \in Seq(LeafAt)
               /\ Len(g[<<c, depth + 1>>]) = Len(f[<<c, d - 1>>])
    BY <1>2, <1>4, <1>5, AtDepthIs
  <1>6. RaysBelowIn(LeafAt, h, g, id, depth)
    BY <1>5 DEF RaysBelowIn
  <1>7. PICK seqs : seqs = Rays(g, id, depth)
    OBVIOUS
  <1>8. /\ seqs \in Seq(Seq(LeafAt)) /\ Len(seqs) = n
        /\ leavesBelow(nodes, g, <<id, depth>>) = FlattenSeq(seqs)
        /\ FlattenSeq(seqs) \in Seq(LeafAt)
    BY <1>1, <1>3, <1>6, <1>7, RaysAre
  <1>9. PICK rows, t : rows = Lines(f, id, d) /\ t = f[<<id, d>>]
    OBVIOUS
  <1>10. Composed(f, id, d)
    BY <1>1, RowsComposed
  <1>11. /\ Len(rows) = n /\ t \in Seq(DOMAIN nodes)
         /\ \A i \in 1 .. n : rows[i] = f[<<nodes[id].items[i].nodeId, d - 1>>]
    BY <1>3, <1>9, <1>10 DEF Composed
  <1>12. PICK o : Flattened(rows, t, o)
    BY <1>9, <1>10 DEF Composed
  <1>13. DepthsOf(seqs, rows, depth + d)
    <2>1. ASSUME NEW i \in 1 .. n
          PROVE  seqs[i] = AtDepth(rows[i], depth + d) /\ Len(seqs[i]) = Len(rows[i])
      <3>1. PICK c \in DOMAIN nodes : c = nodes[id].items[i].nodeId /\ h[c] = h[id] - 1
        BY <1>1, <1>3, IsLeafIs DEF keysOf
      <3>2. seqs[i] = g[<<c, depth + 1>>]
        BY <1>3, <1>7, <3>1 DEF Rays
      <3>3. rows[i] = f[<<c, d - 1>>]
        BY <1>11, <3>1
      <3> QED
        BY <3>1, <3>2, <3>3, <1>4, <1>5
    <2> QED
      BY <1>8, <1>11, <2>1 DEF DepthsOf
  <1>14. Flattened(seqs, AtDepth(t, depth + d), o)
    BY <1>2, <1>11, <1>12, <1>13, FlatAtDepth
  <1>15. PICK v : Flattened(seqs, FlattenSeq(seqs), v)
    BY ONLY <1>8, FlattenIs
  <1>16. AtDepth(t, depth + d) \in Seq(LeafAt)
    BY <1>2, <1>11, AtDepthIs
  <1>17. FlattenSeq(seqs) = AtDepth(t, depth + d)
    BY <1>8, <1>14, <1>15, <1>16, SameFlat
  <1>18. <<id, depth>> \in (DOMAIN nodes) \X Nat
    OBVIOUS
  <1>19. g[<<id, depth>>] = leavesBelow(nodes, g, <<id, depth>>)
    BY <1>18 DEF LeafWalks
  <1> QED
    BY <1>1, <1>8, <1>9, <1>17, <1>19

LEMMA AllCounterparts ==
    ASSUME NEW h, Sound(nodes, h, rootNodeId), NEW f, Rows(f), NEW g, LeafWalks(nodes, g)
    PROVE  \A id \in DOMAIN nodes : Counterpart(f, g, h, id)
  <1> DEFINE Bad == {n \in Nat : \E id \in DOMAIN nodes : n = h[id] /\ ~Counterpart(f, g, h, id)}
  <1>1. \A id \in DOMAIN nodes : h[id] \in Nat
    BY IsLeafIs
  <1>2. Bad = {}
    <2> SUFFICES ASSUME Bad # {}
                 PROVE  FALSE
      OBVIOUS
    <2>1. PICK n \in Bad : \A e \in Bad : n <= e
      <3>1. Bad \subseteq Nat
        OBVIOUS
      <3> HIDE DEF Bad
      <3> QED
        BY <3>1, LeastNumber
    <2>2. n \in Nat
      OBVIOUS
    <2>3. PICK id \in DOMAIN nodes : n = h[id] /\ ~Counterpart(f, g, h, id)
      BY <2>1
    <2>4. n # 0
      BY <2>3, LeafCounterpart
    <2>5. n - 1 \in Nat /\ ~(n <= n - 1)
      BY <2>2, <2>4
    <2>6. n - 1 \notin Bad
      <3> HIDE DEF Bad
      <3> QED
        BY <2>1, <2>5
    <2>7. \A c \in DOMAIN nodes : h[c] = h[id] - 1 => Counterpart(f, g, h, c)
      BY <2>3, <2>5, <2>6
    <2> HIDE DEF Bad
    <2> QED
      BY <2>3, <2>4, <2>7, InnerCounterpart
  <1>3. \A id \in DOMAIN nodes : h[id] \notin Bad
    <2> HIDE DEF Bad
    <2> QED
      BY <1>2
  <1> QED
    BY <1>1, <1>3

(* The leaves of a tree of which sibling pointers and totals may differ.   *)
SameItems(ns) ==
    DOMAIN ns = DOMAIN nodes /\ \A x \in DOMAIN nodes : ns[x].items = nodes[x].items

LEMMA SameWalks ==
    ASSUME NEW ns, SameItems(ns), NEW f
    PROVE  LeafWalks(ns, f) <=> LeafWalks(nodes, f)
  <1>1. DOMAIN ns = DOMAIN nodes
    BY DEF SameItems
  <1>2. ASSUME NEW id \in DOMAIN nodes, NEW depth \in Nat
        PROVE  leavesBelow(ns, f, <<id, depth>>) = leavesBelow(nodes, f, <<id, depth>>)
    <2>1. ns[id].items = nodes[id].items
      BY DEF SameItems
    <2>2. LeavesUnder(ns, f, id, depth) = LeavesUnder(nodes, f, id, depth)
      BY <2>1 DEF LeavesUnder
    <2>3. leaf(ns, id) <=> leaf(nodes, id)
      BY <2>1 DEF leaf
    <2> QED
      BY <2>2, <2>3 DEF leavesBelow
  <1>3. \A at \in (DOMAIN nodes) \X Nat : leavesBelow(ns, f, at) = leavesBelow(nodes, f, at)
    <2> TAKE at \in (DOMAIN nodes) \X Nat
    <2>1. PICK id \in DOMAIN nodes, depth \in Nat : at = <<id, depth>>
      OBVIOUS
    <2> QED
      BY <1>2, <2>1
  <1>4. [at \in (DOMAIN nodes) \X Nat |-> leavesBelow(ns, f, at)]
          = [at \in (DOMAIN nodes) \X Nat |-> leavesBelow(nodes, f, at)]
    BY <1>3
  <1> QED
    BY <1>1, <1>4 DEF LeafWalks

LEMMA LeavesOfTree ==
    ASSUME NEW h, Sound(nodes, h, rootNodeId), rootNodeId # 0, NEW ns, SameItems(ns)
    PROVE  \E t : /\ LevelTold(h, t, h[rootNodeId])
                  /\ leafNodeIds(ns, rootNodeId) = AtDepth(t, h[rootNodeId])
                  /\ \A x \in DOMAIN nodes : h[x] = 0 => \E q \in 1 .. Len(t) : t[q] = x
  <1>1. rootNodeId \in DOMAIN nodes
    BY DEF Sound, Rooted
  <1>2. h[rootNodeId] \in Nat /\ h[rootNodeId] - 0 = h[rootNodeId]
    BY <1>1, IsLeafIs
  <1>3. PICK f : Rows(f)
    BY RowsExist
  <1>4. PICK g : LeafWalks(ns, g) /\ g = CHOOSE k : LeafWalks(ns, k)
    <2>1. \E k : LeafWalks(nodes, k)
      BY LeafWalksExist
    <2>2. \E k : LeafWalks(ns, k)
      BY <2>1, SameWalks
    <2> QED
      BY <2>2
  <1>5. leafNodeIds(ns, rootNodeId) = g[<<rootNodeId, 0>>]
    BY <1>4, LeafNodesAre
  <1>6. Counterpart(f, g, h, rootNodeId)
    <2>1. LeafWalks(nodes, g)
      BY <1>4, SameWalks
    <2> QED
      BY <1>1, <1>3, <2>1, AllCounterparts
  <1>7. PICK t : t = f[<<rootNodeId, h[rootNodeId]>>]
    OBVIOUS
  <1>8. 0 \in Nat /\ 0 + h[rootNodeId] = h[rootNodeId]
    BY <1>2
  <1>9. g[<<rootNodeId, 0>>] = AtDepth(f[<<rootNodeId, h[rootNodeId]>>], 0 + h[rootNodeId])
    BY <1>6, <1>8 DEF Counterpart
  <1>10. LevelTold(h, t, h[rootNodeId])
    BY <1>2, <1>3, <1>7, LevelTells
  <1>11. ASSUME NEW x \in DOMAIN nodes, h[x] = 0
         PROVE  \E q \in 1 .. Len(t) : t[q] = x
    <2>1. OnRow(f, rootNodeId, h[rootNodeId] - h[x], x)
      BY <1>3, AllWithin
    <2>2. OnRow(f, rootNodeId, h[rootNodeId], x)
      BY <1>2, <1>11, <2>1
    <2> QED
      BY <1>7, <2>2 DEF OnRow
  <1> QED
    BY SMTT(30), <1>5, <1>7, <1>8, <1>9, <1>10, <1>11

-----------------------------------------------------------------------------
(* What verify() asks of the leaves. *)
DepthsAgree(leaves) == \A i \in DOMAIN leaves : leaves[i].depth = leaves[1].depth

LEMMA LeavesLinked ==
    ASSUME NEW h, Sound(nodes, h, rootNodeId), NEW t, LevelTold(h, t, h[rootNodeId]),
           NEW isLMDB, NEW n \in Nat
    PROVE  LeavesOk(nodes, AtDepth(t, n), isLMDB) /\ DepthsAgree(AtDepth(t, n))
  <1>1. h[rootNodeId] \in Nat
    <2>1. rootNodeId \in DOMAIN nodes
      BY DEF Sound, Rooted
    <2> QED
      BY <2>1, IsLeafIs
  <1>2. PICK l \in Nat : l = Len(t) /\ l # 0
    BY <1>1 DEF LevelTold
  <1>3. /\ t \in Seq(DOMAIN nodes)
        /\ \A p \in 1 .. l : t[p] \in DOMAIN nodes
        /\ \A p \in 1 .. l :
              nodes[t[p]].nextSibling = IF p # l THEN t[p + 1] ELSE 0
        /\ nodes[t[1]].prevSibling = 0
    BY <1>1, <1>2 DEF LevelTold
  <1>4. PICK u : u = AtDepth(t, n)
    OBVIOUS
  <1>5. u = [k \in 1 .. l |-> [id |-> t[k], depth |-> n]]
    BY <1>2, <1>4 DEF AtDepth
  <1>6. Len(u) = l /\ DOMAIN u = 1 .. l
    <2>1. Len(u) = l
      BY <1>2, <1>3, <1>4, AtDepthIs
    <2> QED
      BY <2>1, <1>5
  <1>7. \A k \in 1 .. l : u[k].id = t[k] /\ u[k].depth = n
    BY <1>5
  <1>8. 1 \in 1 .. l
    BY <1>2
  <1>9. DepthsAgree(u)
    BY <1>6, <1>7, <1>8 DEF DepthsAgree
  <1>10. ASSUME NEW i \in 1 .. l
         PROVE  IF i < l THEN nodes[u[i].id].nextSibling = u[i + 1].id
                ELSE Ends(nodes, nodes[u[i].id].nextSibling, isLMDB)
    <2>1. CASE i < l
      <3>1. i + 1 \in 1 .. l /\ i # l
        BY ONLY <2>1, i \in 1 .. l, l \in Nat
      <3> QED
        BY <2>1, <3>1, <1>3, <1>7
    <2>2. CASE ~(i < l)
      <3>1. i = l
        BY ONLY <2>2, i \in 1 .. l, l \in Nat
      <3>2. nodes[u[i].id].nextSibling = 0
        BY <3>1, <1>3, <1>7
      <3> QED
        BY <2>2, <3>2 DEF Ends
    <2> QED
      BY <2>1, <2>2
  <1>11. ASSUME NEW i \in 1 .. l, i # 1
         PROVE  /\ nodes[u[i].id].prevSibling = u[i - 1].id
                /\ Last(nodes[u[i - 1].id].items).item < firstItem(nodes, u[i].id)
    <2>1. i - 1 \in 1 .. l /\ i - 1 # l /\ (i - 1) + 1 = i
      BY ONLY <1>11, i \in 1 .. l, l \in Nat
    <2>2. PICK a \in DOMAIN nodes : a = t[i - 1]
      BY <2>1, <1>3
    <2>3. nodes[t[i - 1]].nextSibling = t[(i - 1) + 1]
      BY <2>1, <1>3
    <2>4. nodes[a].nextSibling = t[i]
      BY ONLY <2>1, <2>2, <2>3
    <2>5. t[i] # 0
      BY <1>3, NodeOfSound DEF SoundNode
    <2>6. nodes[nodes[a].nextSibling].prevSibling = a
      BY <2>4, <2>5, NodeOfSound DEF SoundNode, LinkedAt
    <2>7. nodes[a].items[Len(nodes[a].items)].item < firstItem(nodes, t[i])
      BY <2>4, <2>5, NextIsRight
    <2>8. u[i].id = t[i] /\ u[i - 1].id = a
      BY <1>7, <2>1, <2>2
    <2> QED
      BY <2>4, <2>6, <2>7, <2>8 DEF Last
  <1>12. nodes[u[1].id].prevSibling = 0
    BY <1>3, <1>7, <1>8
  <1>13. \A i \in 1 .. l : i > 1 => i # 1
    OBVIOUS
  <1>14. LeavesOk(nodes, u, isLMDB)
    BY <1>6, <1>10, <1>11, <1>12, <1>13 DEF LeavesOk
  <1> QED
    BY <1>4, <1>9, <1>14

(* verify() of the whole tree, in memory or not. *)
Verdict(ns, root, stored, isLMDB, ids, leaves) ==
    /\ ids \subseteq DOMAIN ns
    /\ SeenOnce(ns, root, ids)
    /\ \A id \in ids : NodeOk(ns, id)
    /\ DepthsAgree(leaves)
    /\ LeavesOk(ns, leaves, isLMDB)
    /\ stored \subseteq ids

LEMMA VerifyIs ==
    ASSUME NEW ns, NEW root, NEW stored, NEW isLMDB,
           Verdict(ns, root, stored, isLMDB, allNodeIds(ns, root), leafNodeIds(ns, root))
    PROVE  verify(ns, root, stored, isLMDB)
  BY DEF verify, Verdict, DepthsAgree

LEMMA VerifyTree ==
    ASSUME TreeInv, Idle, NEW isLMDB
    PROVE  verify(nodes, rootNodeId, DOMAIN nodes, isLMDB)
  <1>1. PICK h : Shape(h)
    BY DEF TreeInv
  <1>2. PICK ids, leaves : /\ ids = allNodeIds(nodes, rootNodeId)
                           /\ leaves = leafNodeIds(nodes, rootNodeId)
    OBVIOUS
  <1>3. CASE rootNodeId = 0
    <2>1. DOMAIN nodes = {}
      BY <1>1, <1>3, SoundAtRest
    <2>2. ids = {}
      BY <1>2, <1>3, <2>1, NoneVisited
    <2>3. leaves = <<>>
      BY <1>2, <1>3, LeafNodesAre
    <2>4. DOMAIN leaves = {}
      BY <2>3
    <2>5. LeavesOk(nodes, leaves, isLMDB) /\ DepthsAgree(leaves)
      BY <2>4 DEF LeavesOk, DepthsAgree
    <2>6. SeenOnce(nodes, rootNodeId, ids)
      BY <2>2 DEF SeenOnce
    <2>7. Verdict(nodes, rootNodeId, DOMAIN nodes, isLMDB, ids, leaves)
      BY <2>1, <2>2, <2>5, <2>6 DEF Verdict
    <2> QED
      BY <1>2, <2>7, VerifyIs
  <1>4. CASE rootNodeId # 0
    <2>1. Sound(nodes, h, rootNodeId)
      BY <1>1, <1>4, SoundAtRest
    <2>2. ids = DOMAIN nodes
      BY <1>2, <2>1, AllVisited
    <2>3. \A id \in ids : NodeOk(nodes, id)
      BY <2>1, <2>2, NodesOk
    <2>4. SeenOnce(nodes, rootNodeId, ids)
      <3>1. \A id \in ids : Cardinality(References(ids, id)) = IF id = rootNodeId THEN 0 ELSE 1
        BY <2>1, <2>2, EachSeenOnce
      <3> QED
        BY <3>1, SeenOnceIs
    <2>5. PICK t : LevelTold(h, t, h[rootNodeId]) /\ leaves = AtDepth(t, h[rootNodeId])
      <3>1. SameItems(nodes)
        BY DEF SameItems
      <3> QED
        BY <1>2, <1>4, <2>1, <3>1, LeavesOfTree
    <2>6. h[rootNodeId] \in Nat
      <3>1. rootNodeId \in DOMAIN nodes
        BY <2>1 DEF Sound, Rooted
      <3> QED
        BY <2>1, <3>1, IsLeafIs
    <2>7. LeavesOk(nodes, leaves, isLMDB) /\ DepthsAgree(leaves)
      BY <2>1, <2>5, <2>6, LeavesLinked
    <2>8. Verdict(nodes, rootNodeId, DOMAIN nodes, isLMDB, ids, leaves)
      BY <2>2, <2>3, <2>4, <2>7 DEF Verdict
    <2> QED
      BY <1>2, <2>8, VerifyIs
  <1> QED
    BY <1>3, <1>4

LEMMA VerifyAcceptsHold ==
    ASSUME TreeInv
    PROVE  VerifyAccepts
  BY VerifyTree DEF VerifyAccepts

-----------------------------------------------------------------------------
(* verify(): what it notices.                                              *)

(* What verify() says of a tree it accepts. *)
Passes(ns) ==
    /\ allNodeIds(ns, rootNodeId) = DOMAIN ns
    /\ SeenOnce(ns, rootNodeId, DOMAIN ns)
    /\ \A id \in DOMAIN ns : NodeOk(ns, id)
    /\ LeavesOk(ns, leafNodeIds(ns, rootNodeId), FALSE)

LEMMA VerifyTells ==
    ASSUME NEW ns, verify(ns, rootNodeId, DOMAIN ns, FALSE)
    PROVE  Passes(ns)
  <1>1. PICK ids, leaves : /\ ids = allNodeIds(ns, rootNodeId)
                           /\ leaves = leafNodeIds(ns, rootNodeId)
    OBVIOUS
  <1>2. /\ ids \subseteq DOMAIN ns /\ DOMAIN ns \subseteq ids
        /\ SeenOnce(ns, rootNodeId, ids)
        /\ \A id \in ids : NodeOk(ns, id)
        /\ LeavesOk(ns, leaves, FALSE)
    BY <1>1 DEF verify
  <1>3. ids = DOMAIN ns
    BY <1>2
  <1> QED
    BY <1>1, <1>2, <1>3 DEF Passes

LEMMA NodePasses ==
    ASSUME NEW ns, Passes(ns), NEW id \in DOMAIN ns
    PROVE  /\ ns[id].items # <<>>
           /\ ns[id].accumCount = countOfAll(ns, ns[id].items)
           /\ ns[id].accum = accumOfAll(ns, ns[id].items)
  BY DEF Passes, NodeOk

LEMMA ChildPasses ==
    ASSUME NEW ns, Passes(ns), NEW id \in DOMAIN ns, NEW i \in DOMAIN ns[id].items,
           ns[id].items[i].nodeId # 0
    PROVE  firstItem(ns, ns[id].items[i].nodeId) = ns[id].items[i].item
  <1>1. ns[id].items[i] \in ToSet(ns[id].items)
    BY DEF ToSet
  <1> QED
    BY <1>1 DEF Passes, NodeOk

ReferencesIn(ns, id) ==
    {at \in (DOMAIN ns) \X (1 .. MAX_ITEMS + 1) :
        at[2] \in DOMAIN ns[at[1]].items /\ ns[at[1]].items[at[2]].nodeId = id}

LEMMA OncePasses ==
    ASSUME NEW ns, Passes(ns), NEW id \in DOMAIN ns
    PROVE  Cardinality(ReferencesIn(ns, id)) = IF id = rootNodeId THEN 0 ELSE 1
  BY DEF Passes, SeenOnce, ReferencesIn

(* What is below nodes as they were is visited. *)
LEMMA StillVisited ==
    ASSUME NEW h, Sound(nodes, h, rootNodeId), NEW ns, NEW x \in DOMAIN nodes,
           Intact(ns, h, h[x]),
           NEW C \in Nat, C = Cardinality(DOMAIN ns), h[rootNodeId] <= C
    PROVE  /\ x \in allNodeIds(ns, rootNodeId)
           /\ h[rootNodeId] < C /\ x \in DOMAIN ns =>
                  childIds(ns, x) \subseteq allNodeIds(ns, rootNodeId)
  <1>1. PICK f : Visits(ns, f, rootNodeId) /\ f = CHOOSE g : Visits(ns, g, rootNodeId)
    BY VisitsExist
  <1>2. allNodeIds(ns, rootNodeId) = f[C]
    BY <1>1, AllIdsAre
  <1>3. \A n \in 0 .. C : f[n] = visit(ns, f, rootNodeId, n)
    BY <1>1 DEF Visits
  <1>4. rootNodeId \in DOMAIN nodes
    BY DEF Sound, Rooted
  <1>5. PICK m \in Nat, r \in Nat : m = h[x] /\ r = h[rootNodeId]
    BY <1>4, IsLeafIs
  <1>6. C \in 0 .. C
    OBVIOUS
  <1>7. ASSUME NEW n \in 0 .. C, r <= n
        PROVE  x \in f[n]
    <2>1. Reached(f, h, m, n)
      BY <1>1, <1>5, VisitsReach
    <2>2. h[x] >= m /\ h[rootNodeId] - h[x] <= n
      BY <1>5, <1>7
    <2> QED
      BY <2>1, <2>2 DEF Reached
  <1>8. x \in f[C]
    BY <1>5, <1>6, <1>7
  <1>9. ASSUME r < C, x \in DOMAIN ns
        PROVE  childIds(ns, x) \subseteq f[C]
    <2>1. C # 0 /\ C - 1 \in 0 .. C /\ r <= C - 1
      BY <1>9
    <2>2. x \in f[C - 1]
      BY <1>7, <2>1
    <2>3. f[C] = visit(ns, f, rootNodeId, C)
      BY <1>3, <1>6
    <2> QED
      BY <1>9, <2>1, <2>2, <2>3 DEF visit
  <1> QED
    BY <1>2, <1>5, <1>8, <1>9

-----------------------------------------------------------------------------
(* Totals, keys and nodes that verify() misses or finds too many.          *)
LEMMA ChildrenElsewhere ==
    ASSUME NEW h, Sound(nodes, h, rootNodeId), NEW id \in DOMAIN nodes
    PROVE  \A i \in 1 .. Len(nodes[id].items) :
              LET c == nodes[id].items[i].nodeId
              IN  c # 0 => /\ h[id] # 0 /\ c \in DOMAIN nodes /\ c # id /\ c # rootNodeId
                           /\ h[c] = h[id] - 1 /\ firstItem(nodes, c) = nodes[id].items[i].item
  <1> SUFFICES ASSUME NEW i \in 1 .. Len(nodes[id].items),
                      NEW c, c = nodes[id].items[i].nodeId, c # 0
               PROVE  /\ h[id] # 0 /\ c \in DOMAIN nodes /\ c # id /\ c # rootNodeId
                      /\ h[c] = h[id] - 1 /\ firstItem(nodes, c) = nodes[id].items[i].item
    OBVIOUS
  <1>1. /\ DOMAIN nodes[id].items = 1 .. Len(nodes[id].items)
        /\ LevelsAt(nodes, h, id)
    BY NodeOfSound DEF SoundNode
  <1>2. h[id] # 0
    BY <1>1 DEF LevelsAt
  <1>3. ChildOf(nodes, h, id, i, c)
    BY <1>2, ChildOfSound
  <1>4. /\ rootNodeId \in DOMAIN nodes
        /\ \A x \in DOMAIN nodes \ {rootNodeId} : h[x] < h[rootNodeId]
    BY DEF Sound, Rooted
  <1>5. h[id] \in Nat /\ h[rootNodeId] \in Nat
    BY <1>4, IsLeafIs
  <1>6. c \in DOMAIN nodes /\ h[c] = h[id] - 1 /\ firstItem(nodes, c) = nodes[id].items[i].item
    BY <1>3 DEF ChildOf
  <1>7. h[id] <= h[rootNodeId]
    BY <1>4, <1>5
  <1> QED
    BY <1>2, <1>5, <1>6, <1>7

LEMMA CountPositive ==
    ASSUME NEW h, Sound(nodes, h, rootNodeId)
    PROVE  \A x \in DOMAIN nodes : nodes[x].accumCount \in Nat \ {0}
  <1> DEFINE Bad == {n \in Nat : \E x \in DOMAIN nodes :
                        n = h[x] /\ nodes[x].accumCount \notin Nat \ {0}}
  <1>1. \A x \in DOMAIN nodes : h[x] \in Nat
    BY IsLeafIs
  <1>2. Bad = {}
    <2> SUFFICES ASSUME Bad # {}
                 PROVE  FALSE
      OBVIOUS
    <2>1. PICK n \in Bad : \A k \in Bad : n <= k
      <3>1. Bad \subseteq Nat
        OBVIOUS
      <3> HIDE DEF Bad
      <3> QED
        BY <3>1, LeastNumber
    <2>2. PICK x \in DOMAIN nodes : n = h[x] /\ nodes[x].accumCount \notin Nat \ {0}
      OBVIOUS
    <2>3. /\ Len(nodes[x].items) \in Nat /\ Len(nodes[x].items) > 0
          /\ nodes[x].items \in Seq(KeyType)
          /\ nodes \in [DOMAIN nodes -> NodeType]
      <3>1. nodes \in [DOMAIN nodes -> NodeType]
        BY DEF Sound, Structure, Stored
      <3> QED
        BY <3>1, NodeOfSound DEF SoundNode, NodeType
    <2>4. /\ HasChildren(nodes, nodes[x].items)
          /\ countOfAll(nodes, nodes[x].items) = nodes[x].accumCount
      BY SoundCounts
    <2>5. PICK K : K = RemoveAt(nodes[x].items, 1)
      OBVIOUS
    <2>6. 1 \in 1 .. Len(nodes[x].items)
      BY <2>3
    <2>7. Removed(KeyType, nodes[x].items, 1, K)
      BY <2>3, <2>5, <2>6, RemoveAtIs
    <2>8. /\ countOfAll(nodes, K)
               = countOfAll(nodes, nodes[x].items) - countOf(nodes, nodes[x].items[1])
          /\ HasChildren(nodes, K)
      BY <2>3, <2>4, <2>5, <2>6, <2>7, RemoveCounts
    <2>9. K \in Seq(KeyType)
      BY <2>7 DEF Removed
    <2>10. countOfAll(nodes, K) \in Nat
      BY <2>3, <2>8, <2>9, CountType
    <2>11. nodes[x].accumCount \in Nat
      BY <2>3 DEF NodeType
    <2>12. countOf(nodes, nodes[x].items[1]) \in Nat \ {0}
      <3>1. CASE nodes[x].items[1].nodeId = 0
        BY <3>1 DEF countOf
      <3>2. CASE nodes[x].items[1].nodeId # 0
        <4>1. PICK c \in DOMAIN nodes : /\ c = nodes[x].items[1].nodeId
                                        /\ h[x] # 0 /\ h[c] = h[x] - 1
          BY <2>6, <3>2, ChildrenElsewhere
        <4>2. h[c] \in Nat /\ ~(n <= h[c])
          BY <1>1, <2>2, <4>1
        <4>3. h[c] \notin Bad
          <5> HIDE DEF Bad
          <5> QED
            BY <2>1, <4>2
        <4>4. nodes[c].accumCount \in Nat \ {0}
          BY <4>2, <4>3
        <4> QED
          BY <3>2, <4>1, <4>4 DEF countOf
      <3> QED
        BY <3>1, <3>2
    <2> HIDE DEF Bad
    <2> QED
      BY <2>2, <2>4, <2>8, <2>10, <2>11, <2>12
  <1>3. \A x \in DOMAIN nodes : h[x] \notin Bad
    <2> HIDE DEF Bad
    <2> QED
      BY <1>2
  <1> QED
    BY <1>1, <1>3

(* All nodes but one are as they were. *)
UntouchedBut(ns, id) ==
    /\ DOMAIN ns = DOMAIN nodes
    /\ \A x \in DOMAIN nodes : x # id => ns[x] = nodes[x]

LEMMA TotalsTell ==
    ASSUME NEW h, Sound(nodes, h, rootNodeId), NEW id \in DOMAIN nodes,
           NEW ns, UntouchedBut(ns, id), ns[id].items = nodes[id].items, Passes(ns)
    PROVE  ns[id].accumCount = nodes[id].accumCount /\ ns[id].accum = nodes[id].accum
  <1>1. PICK keys : keys = nodes[id].items
    OBVIOUS
  <1>2. \A i \in DOMAIN keys : keys[i].nodeId # 0 =>
           /\ keys[i].nodeId # id /\ keys[i].nodeId \in DOMAIN nodes
    BY <1>1, ChildrenElsewhere, NodeOfSound DEF SoundNode
  <1>3. \A i \in DOMAIN keys : keys[i].nodeId # 0 => ns[keys[i].nodeId] = nodes[keys[i].nodeId]
    BY <1>2 DEF UntouchedBut
  <1>4. /\ countOfAll(ns, keys) = countOfAll(nodes, keys)
        /\ accumOfAll(ns, keys) = accumOfAll(nodes, keys)
    BY <1>3, SameCounts
  <1>5. /\ countOfAll(nodes, keys) = nodes[id].accumCount
        /\ accumOfAll(nodes, keys) = nodes[id].accum
    BY <1>1, SoundCounts
  <1>6. id \in DOMAIN ns
    BY DEF UntouchedBut
  <1>7. /\ ns[id].accumCount = countOfAll(ns, keys)
        /\ ns[id].accum = accumOfAll(ns, keys)
    BY <1>1, <1>6, NodePasses
  <1> QED
    BY <1>4, <1>5, <1>7

LEMMA TotalsNoticed ==
    ASSUME NEW h, Sound(nodes, h, rootNodeId), NEW id \in DOMAIN nodes,
           NEW d \in {-1, 0, 1}, NEW e \in {-1, 0, 1}, NEW ns,
           ns = [nodes EXCEPT ![id].accumCount = @ + d, ![id].accum = @ + d + e],
           Passes(ns)
    PROVE  ns = nodes
  <1>1. nodes \in [DOMAIN nodes -> NodeType]
    BY DEF Sound, Structure, Stored
  <1>2. nodes[id] \in NodeType
    BY <1>1
  <1>3. /\ DOMAIN ns = DOMAIN nodes
        /\ \A x \in DOMAIN nodes : x # id => ns[x] = nodes[x]
        /\ ns[id].items = nodes[id].items
        /\ ns[id].accumCount = nodes[id].accumCount + d
        /\ ns[id].accum = (nodes[id].accum + d) + e
    BY <1>1, <1>2 DEF NodeType
  <1>4. ns[id].accumCount = nodes[id].accumCount /\ ns[id].accum = nodes[id].accum
    <2>1. UntouchedBut(ns, id) /\ ns[id].items = nodes[id].items
      BY <1>3 DEF UntouchedBut
    <2> QED
      BY <2>1, TotalsTell
  <1>5. nodes[id].accumCount \in Nat /\ nodes[id].accum \in Nat
    BY <1>2 DEF NodeType
  <1>6. d = 0
    BY ONLY <1>3, <1>4, <1>5, d \in {-1, 0, 1}
  <1>7. e = 0
    BY ONLY <1>3, <1>4, <1>5, <1>6, e \in {-1, 0, 1}
  <1>8. PICK node \in NodeType : node = nodes[id]
    BY <1>2
  <1>9. node.accumCount + d = node.accumCount /\ node.accum + d + e = node.accum
    BY <1>5, <1>6, <1>7, <1>8
  <1>10. ns = [nodes EXCEPT ![id] = [[node EXCEPT !.accumCount = node.accumCount + d]
                                       EXCEPT !.accum = node.accum + d + e]]
    BY <1>8
  <1>11. [[node EXCEPT !.accumCount = node.accumCount] EXCEPT !.accum = node.accum] = node
    BY <1>8 DEF NodeType
  <1>12. ns = [nodes EXCEPT ![id] = nodes[id]]
    BY ONLY <1>8, <1>9, <1>10, <1>11
  <1> QED
    BY ONLY <1>1, <1>12, id \in DOMAIN nodes

LEMMA MissingKeyNoticed ==
    ASSUME NEW h, Sound(nodes, h, rootNodeId), NEW id \in DOMAIN nodes,
           NEW i \in 1 .. Len(nodes[id].items), NEW ns,
           ns = [nodes EXCEPT ![id].items = RemoveAt(@, i)]
    PROVE  ~Passes(ns)
  <1> SUFFICES ASSUME Passes(ns)
               PROVE  FALSE
    OBVIOUS
  <1>1. nodes \in [DOMAIN nodes -> NodeType]
    BY DEF Sound, Structure, Stored
  <1>2. nodes[id] \in NodeType
    BY <1>1
  <1>3. PICK K : K = RemoveAt(nodes[id].items, i)
    OBVIOUS
  <1>4. nodes[id].items \in Seq(KeyType) /\ Len(nodes[id].items) \in Nat
    BY <1>2 DEF NodeType
  <1>5. Removed(KeyType, nodes[id].items, i, K)
    BY <1>3, <1>4, RemoveAtIs
  <1>6. /\ DOMAIN ns = DOMAIN nodes
        /\ \A x \in DOMAIN nodes : x # id => ns[x] = nodes[x]
        /\ ns[id].items = K
        /\ ns[id].accumCount = nodes[id].accumCount
    BY <1>1, <1>2, <1>3 DEF NodeType
  <1>7. HasChildren(nodes, nodes[id].items)
        /\ countOfAll(nodes, nodes[id].items) = nodes[id].accumCount
    BY SoundCounts
  <1>8. countOfAll(nodes, K) = countOfAll(nodes, nodes[id].items) - countOf(nodes, nodes[id].items[i])
    BY <1>1, <1>3, <1>4, <1>5, <1>7, RemoveCounts
  <1>9. \A j \in DOMAIN K : \E k \in 1 .. Len(nodes[id].items) : K[j] = nodes[id].items[k]
    <2>1. /\ K \in Seq(KeyType) /\ Len(K) = Len(nodes[id].items) - 1
          /\ \A j \in 1 .. i - 1 : K[j] = nodes[id].items[j]
          /\ \A j \in i .. Len(nodes[id].items) - 1 : K[j] = nodes[id].items[j + 1]
      BY <1>5 DEF Removed
    <2>2. PICK n \in Nat : n = Len(nodes[id].items) /\ DOMAIN K = 1 .. n - 1
      BY <1>4, <2>1
    <2> TAKE j \in DOMAIN K
    <2>3. j \in 1 .. n - 1
      BY <2>2
    <2>4. CASE j < i
      <3>1. j \in 1 .. i - 1 /\ j \in 1 .. n
        BY <2>3, <2>4, <2>2
      <3> QED
        BY <2>1, <2>2, <3>1
    <2>5. CASE ~(j < i)
      <3>1. j \in i .. n - 1 /\ j + 1 \in 1 .. n
        BY <2>3, <2>5, <2>2
      <3> QED
        BY <2>1, <2>2, <3>1
    <2> QED
      BY <2>4, <2>5
  <1>10. countOfAll(ns, K) = countOfAll(nodes, K)
    <2>1. \A j \in DOMAIN K : K[j].nodeId # 0 =>
             K[j].nodeId \in DOMAIN nodes /\ K[j].nodeId # id
      BY <1>9, ChildrenElsewhere
    <2>2. \A j \in DOMAIN K : K[j].nodeId # 0 => ns[K[j].nodeId] = nodes[K[j].nodeId]
      BY <1>6, <2>1
    <2> QED
      BY <2>2, SameCounts
  <1>11. ns[id].accumCount = countOfAll(ns, ns[id].items)
    BY <1>6, NodePasses
  <1>12. countOf(nodes, nodes[id].items[i]) \in Nat \ {0}
    <2>1. nodes[id].items[i].nodeId # 0 => nodes[id].items[i].nodeId \in DOMAIN nodes
      BY ChildrenElsewhere
    <2> QED
      BY <2>1, CountPositive DEF countOf
  <1>13. nodes[id].accumCount \in Nat
    BY <1>2 DEF NodeType
  <1> QED
    BY <1>6, <1>7, <1>8, <1>10, <1>11, <1>12, <1>13

-----------------------------------------------------------------------------
(* An item or a child that is not the one it was.                          *)
LEMMA ItemNoticed ==
    ASSUME NEW h, Sound(nodes, h, rootNodeId), NEW id \in DOMAIN nodes,
           NEW i \in 1 .. Len(nodes[id].items), NEW d \in {-1, 1}, NEW ns,
           ns = [nodes EXCEPT ![id].items[i].item = @ + d]
    PROVE  ~Passes(ns)
  <1> SUFFICES ASSUME Passes(ns)
               PROVE  FALSE
    OBVIOUS
  <1>1. nodes \in [DOMAIN nodes -> NodeType]
    BY DEF Sound, Structure, Stored
  <1>2. nodes[id] \in NodeType
    BY <1>1
  <1>3. PICK keys \in Seq(KeyType) : keys = nodes[id].items
    BY <1>2 DEF NodeType
  <1>4. PICK n \in Nat : n = Len(keys) /\ DOMAIN keys = 1 .. n /\ i \in 1 .. n
    BY <1>3
  <1>5. keys[i] \in KeyType /\ keys[i].item \in Nat
    BY <1>3, <1>4, NodeOfSound DEF SoundNode
  <1>6. PICK K : K = [keys EXCEPT ![i].item = keys[i].item + d]
    OBVIOUS
  <1>7. /\ UntouchedBut(ns, id)
        /\ ns[id].items = K
        /\ ns[id].accum = nodes[id].accum
    BY <1>1, <1>2, <1>3, <1>6 DEF NodeType, UntouchedBut
  <1>8. /\ DOMAIN K = 1 .. n
        /\ \A j \in 1 .. n : j # i => K[j] = keys[j]
        /\ K[i].nodeId = keys[i].nodeId
        /\ K[i].item = keys[i].item + d
    BY <1>3, <1>4, <1>5, <1>6 DEF KeyType
  <1>9. id \in DOMAIN ns
    BY <1>7 DEF UntouchedBut
  <1>10. CASE keys[i].nodeId # 0
    <2>1. PICK c \in DOMAIN nodes : /\ c = keys[i].nodeId /\ c # id
                                    /\ firstItem(nodes, c) = keys[i].item
      BY <1>3, <1>4, <1>10, ChildrenElsewhere
    <2>2. firstItem(ns, c) = firstItem(nodes, c)
      BY <1>7, <2>1 DEF UntouchedBut, firstItem
    <2>3. firstItem(ns, c) = K[i].item
      <3>1. i \in DOMAIN ns[id].items /\ ns[id].items[i].nodeId = c /\ c # 0
        BY <1>4, <1>7, <1>8, <1>10, <2>1
      <3>2. firstItem(ns, ns[id].items[i].nodeId) = ns[id].items[i].item
        BY ONLY Passes(ns), <1>9, <3>1, ChildPasses
      <3> QED
        BY <1>7, <3>1, <3>2
    <2> QED
      BY ONLY <1>5, <1>8, <2>1, <2>2, <2>3, d \in {-1, 1}
  <1>11. CASE keys[i].nodeId = 0
    <2>1. h[id] = 0 /\ \A j \in 1 .. n : keys[j].nodeId = 0
      <3>1. LevelsAt(nodes, h, id)
        BY NodeOfSound DEF SoundNode
      <3>2. \A x \in DOMAIN nodes : x # 0
        BY NodeOfSound DEF SoundNode
      <3> QED
        BY <1>3, <1>4, <1>11, <3>1, <3>2 DEF LevelsAt
    <2>2. PICK s : s = [j \in 1 .. n |-> keys[j].item]
      OBVIOUS
    <2>3. PICK t : t = [j \in 1 .. n |-> K[j].item]
      OBVIOUS
    <2>4. \A j \in 1 .. n : keys[j].item \in Nat
      BY <1>3, <1>4, NodeOfSound DEF SoundNode
    <2>5. \A j \in 1 .. n : K[j].item \in Int
      BY <1>5, <1>8, <2>4
    <2>6. s \in Seq(Int) /\ Len(s) = n /\ t \in Seq(Int) /\ Len(t) = n
      <3>1. s \in [1 .. n -> Int] /\ t \in [1 .. n -> Int]
        BY <2>2, <2>3, <2>4, <2>5
      <3> QED
        BY <1>4, <3>1, FunctionIsSeq
    <2>7. total(t) = total(s) - s[i] + t[i]
      <3>1. \A j \in 1 .. n : j # i => t[j] = s[j]
        BY <1>8, <2>2, <2>3
      <3> QED
        BY <1>4, <2>6, <3>1, TotalChange
    <2>8. total(s) \in Int
      BY <2>6, TotalType
    <2>9. s[i] = keys[i].item /\ t[i] = keys[i].item + d
      BY <1>4, <1>8, <2>2, <2>3
    <2>10. accumOfAll(nodes, keys) = total(s)
      <3>1. [j \in DOMAIN keys |-> accumOf(nodes, keys[j])] = s
        BY <1>4, <2>1, <2>2 DEF accumOf
      <3> QED
        BY <3>1 DEF accumOfAll
    <2>11. accumOfAll(ns, K) = total(t)
      <3>1. \A j \in 1 .. n : K[j].nodeId = 0
        BY <1>8, <2>1
      <3>2. [j \in DOMAIN K |-> accumOf(ns, K[j])] = t
        BY <1>8, <2>3, <3>1 DEF accumOf
      <3> QED
        BY <3>2 DEF accumOfAll
    <2>12. accumOfAll(nodes, keys) = nodes[id].accum
      BY <1>3, SoundCounts
    <2>13. ns[id].accum = accumOfAll(ns, K)
      BY <1>7, <1>9, NodePasses
    <2> QED
      BY ONLY <1>5, <1>7, <2>7, <2>8, <2>9, <2>10, <2>11, <2>12, <2>13, d \in {-1, 1}
  <1> QED
    BY <1>10, <1>11

(* The references to a node after one of them has changed.                 *)
LEMMA OldChildGone ==
    ASSUME NEW h, Sound(nodes, h, rootNodeId), NEW id \in DOMAIN nodes,
           NEW i \in DOMAIN nodes[id].items, NEW ns, UntouchedBut(ns, id),
           DOMAIN ns[id].items = DOMAIN nodes[id].items,
           \A j \in DOMAIN nodes[id].items : j # i => ns[id].items[j] = nodes[id].items[j],
           NEW c, c = nodes[id].items[i].nodeId, c # 0, ns[id].items[i].nodeId # c
    PROVE  ReferencesIn(ns, c) = {}
  <1> SUFFICES ASSUME NEW at \in ReferencesIn(ns, c)
               PROVE  FALSE
    OBVIOUS
  <1>1. PICK p \in DOMAIN nodes, q \in 1 .. MAX_ITEMS + 1 :
            q \in DOMAIN ns[p].items /\ ns[p].items[q].nodeId = c
    BY DEF ReferencesIn, UntouchedBut
  <1>2. ~(p = id /\ q = i)
    BY <1>1
  <1>3. q \in DOMAIN nodes[p].items /\ nodes[p].items[q].nodeId = c
    BY <1>1, <1>2 DEF UntouchedBut
  <1>4. OneParent(nodes)
    BY DEF Sound, Structure
  <1> QED
    BY <1>2, <1>3, <1>4 DEF OneParent

LEMMA NewChildTwice ==
    ASSUME NEW h, Sound(nodes, h, rootNodeId), NEW id \in DOMAIN nodes,
           NEW i \in DOMAIN nodes[id].items, i \in 1 .. MAX_ITEMS + 1,
           NEW ns, UntouchedBut(ns, id),
           DOMAIN ns[id].items = DOMAIN nodes[id].items,
           \A j \in DOMAIN nodes[id].items : j # i => ns[id].items[j] = nodes[id].items[j],
           NEW n, n = ns[id].items[i].nodeId, nodes[id].items[i].nodeId # n
    PROVE  /\ ReferencesIn(ns, n) = References(DOMAIN nodes, n) \cup {<<id, i>>}
           /\ <<id, i>> \notin References(DOMAIN nodes, n)
  <1>1. \A p \in DOMAIN nodes, q \in 1 .. MAX_ITEMS + 1 :
           <<p, q>> \in ReferencesIn(ns, n) <=>
               <<p, q>> \in References(DOMAIN nodes, n) \/ (p = id /\ q = i)
    <2> TAKE p \in DOMAIN nodes, q \in 1 .. MAX_ITEMS + 1
    <2>1. <<p, q>> \in ReferencesIn(ns, n) <=>
              q \in DOMAIN ns[p].items /\ ns[p].items[q].nodeId = n
      BY DEF ReferencesIn, UntouchedBut
    <2>2. <<p, q>> \in References(DOMAIN nodes, n) <=>
              q \in DOMAIN nodes[p].items /\ nodes[p].items[q].nodeId = n
      BY DEF References
    <2>3. CASE p = id /\ q = i
      BY <2>1, <2>3
    <2>4. CASE p = id /\ q # i
      BY <2>1, <2>2, <2>4
    <2>5. CASE p # id
      BY <2>1, <2>2, <2>5 DEF UntouchedBut
    <2> QED
      BY <2>3, <2>4, <2>5
  <1>2. /\ ReferencesIn(ns, n) \subseteq (DOMAIN nodes) \X (1 .. MAX_ITEMS + 1)
        /\ References(DOMAIN nodes, n) \subseteq (DOMAIN nodes) \X (1 .. MAX_ITEMS + 1)
        /\ <<id, i>> \in (DOMAIN nodes) \X (1 .. MAX_ITEMS + 1)
    BY DEF ReferencesIn, References, UntouchedBut
  <1>3. <<id, i>> \notin References(DOMAIN nodes, n)
    BY DEF References
  <1>4. \A at \in (DOMAIN nodes) \X (1 .. MAX_ITEMS + 1) :
           at \in ReferencesIn(ns, n) <=> at \in References(DOMAIN nodes, n) \cup {<<id, i>>}
    <2> TAKE at \in (DOMAIN nodes) \X (1 .. MAX_ITEMS + 1)
    <2>1. PICK p \in DOMAIN nodes, q \in 1 .. MAX_ITEMS + 1 : at = <<p, q>>
      OBVIOUS
    <2>2. at = <<id, i>> <=> p = id /\ q = i
      BY <2>1
    <2> QED
      BY <1>1, <2>1, <2>2
  <1> QED
    BY <1>2, <1>3, <1>4

-----------------------------------------------------------------------------
(* Children and nodes that are not those that were there.                  *)
LEMMA ChildNoticed ==
    ASSUME TreeInv, NEW h, Sound(nodes, h, rootNodeId), NEW id \in DOMAIN nodes,
           NEW i \in 1 .. Len(nodes[id].items), NEW n,
           n # nodes[id].items[i].nodeId, NEW ns,
           ns = [nodes EXCEPT ![id].items[i].nodeId = n]
    PROVE  ~Passes(ns)
  <1> SUFFICES ASSUME Passes(ns)
               PROVE  FALSE
    OBVIOUS
  <1>1. nodes \in [DOMAIN nodes -> NodeType]
    BY DEF Sound, Structure, Stored
  <1>2. nodes[id] \in NodeType
    BY <1>1
  <1>3. PICK keys \in Seq(KeyType) : keys = nodes[id].items
    BY <1>2 DEF NodeType
  <1>4. DOMAIN keys = 1 .. Len(keys) /\ i \in 1 .. Len(keys) /\ keys[i] \in KeyType
        /\ i \in 1 .. MAX_ITEMS + 1
    <2>1. Len(keys) \in 1 .. MAX_ITEMS /\ Len(keys) \in Nat
      <3>1. Exact(nodes, 0) /\ id # 0
        BY NodeOfSound DEF SoundNode, Sound
      <3>2. Sized(nodes[id])
        BY ONLY <3>1, id \in DOMAIN nodes DEF Exact
      <3> QED
        BY ONLY <1>3, <3>2 DEF Sized
    <2>2. MAX_ITEMS \in Nat
      BY NodeSizeAssumption
    <2> QED
      BY <1>3, <2>1, <2>2
  <1>5. PICK K : K = [keys EXCEPT ![i].nodeId = n]
    OBVIOUS
  <1>6. UntouchedBut(ns, id) /\ ns[id].items = K
    BY <1>1, <1>2, <1>3, <1>5 DEF NodeType, UntouchedBut
  <1>7. /\ DOMAIN K = DOMAIN keys
        /\ \A j \in DOMAIN keys : j # i => K[j] = keys[j]
        /\ K[i].nodeId = n
    BY <1>3, <1>4, <1>5 DEF KeyType
  <1>8. /\ DOMAIN ns[id].items = DOMAIN nodes[id].items
        /\ \A j \in DOMAIN nodes[id].items : j # i => ns[id].items[j] = nodes[id].items[j]
        /\ ns[id].items[i].nodeId = n
        /\ i \in DOMAIN nodes[id].items
    BY ONLY <1>3, <1>4, <1>6, <1>7
  <1>9. DOMAIN ns = DOMAIN nodes
    BY <1>6 DEF UntouchedBut
  <1>10. CASE keys[i].nodeId # 0
    <2>1. PICK c \in DOMAIN nodes : c = keys[i].nodeId /\ c # rootNodeId /\ c # 0
      BY <1>3, <1>4, <1>10, ChildrenElsewhere
    <2>2. ReferencesIn(ns, c) = {}
      <3>1. c = nodes[id].items[i].nodeId /\ c # 0 /\ ns[id].items[i].nodeId # c
        BY ONLY <1>3, <1>8, <2>1, n # nodes[id].items[i].nodeId
      <3> QED
        BY ONLY Sound(nodes, h, rootNodeId), <1>6, <1>8, <2>1, <3>1, OldChildGone
    <2>3. Cardinality(ReferencesIn(ns, c)) = 1
      BY ONLY Passes(ns), <1>9, <2>1, OncePasses
    <2> QED
      BY ONLY <2>2, <2>3, FS_EmptySet
  <1>11. CASE keys[i].nodeId = 0
    <2>1. h[id] = 0 /\ n # 0
      <3>1. LevelsAt(nodes, h, id)
        BY NodeOfSound DEF SoundNode
      <3>2. \A x \in DOMAIN nodes : x # 0
        BY NodeOfSound DEF SoundNode
      <3> QED
        BY <1>3, <1>4, <1>11, <3>1, <3>2 DEF LevelsAt
    <2>2. PICK C \in Nat : C = Cardinality(DOMAIN ns) /\ h[rootNodeId] < C
      BY <1>9, FiniteTree, LevelsFit
    <2>3. h[rootNodeId] \in Nat /\ h[rootNodeId] <= C
      BY <2>2, IsLeafIs DEF Sound, Rooted
    <2>4. Intact(ns, h, h[id])
      BY <1>6, <2>1 DEF Intact, UntouchedBut
    <2>5. childIds(ns, id) \subseteq allNodeIds(ns, rootNodeId)
      <3>1. id \in DOMAIN ns /\ h[rootNodeId] < C
        BY <1>9, <2>2
      <3> QED
        BY ONLY Sound(nodes, h, rootNodeId), id \in DOMAIN nodes, <2>2, <2>3, <2>4, <3>1, StillVisited
    <2>6. n \in childIds(ns, id)
      <3>1. ns[id].items[i] \in ToSet(ns[id].items)
        BY <1>8 DEF ToSet
      <3> QED
        BY <1>8, <2>1, <3>1 DEF childIds
    <2>7. n \in DOMAIN ns /\ n \in DOMAIN nodes
      BY <1>9, <2>5, <2>6 DEF Passes
    <2>8. /\ ReferencesIn(ns, n) = References(DOMAIN nodes, n) \cup {<<id, i>>}
          /\ <<id, i>> \notin References(DOMAIN nodes, n)
      <3>1. n = ns[id].items[i].nodeId /\ nodes[id].items[i].nodeId # n
        BY ONLY <1>8, n # nodes[id].items[i].nodeId
      <3> QED
        BY ONLY Sound(nodes, h, rootNodeId), <1>4, <1>6, <1>8, <3>1, NewChildTwice,
                id \in DOMAIN nodes
    <2>9. Cardinality(ReferencesIn(ns, n)) = IF n = rootNodeId THEN 0 ELSE 1
      BY ONLY Passes(ns), <2>7, OncePasses
    <2>10. /\ Cardinality(References(DOMAIN nodes, n)) = IF n = rootNodeId THEN 0 ELSE 1
           /\ IsFiniteSet(References(DOMAIN nodes, n))
      BY <2>7, EachSeenOnce
    <2>11. Cardinality(ReferencesIn(ns, n)) = Cardinality(References(DOMAIN nodes, n)) + 1
      BY ONLY <2>8, <2>10, FS_AddElement
    <2> QED
      BY ONLY <2>9, <2>10, <2>11
  <1> QED
    BY <1>10, <1>11

LEMMA MissingNodeNoticed ==
    ASSUME TreeInv, NEW h, Sound(nodes, h, rootNodeId), NEW id \in DOMAIN nodes
    PROVE  ~Passes(deleteNode(nodes, id))
  <1>1. PICK ns : ns = deleteNode(nodes, id)
    OBVIOUS
  <1> SUFFICES ASSUME Passes(ns)
               PROVE  FALSE
    BY <1>1
  <1>2. DOMAIN ns = DOMAIN nodes \ {id} /\ \A x \in DOMAIN ns : ns[x] = nodes[x]
    BY <1>1 DEF deleteNode
  <1>3. PICK N \in Nat : N = Cardinality(DOMAIN nodes) /\ h[rootNodeId] < N
    BY FiniteTree, LevelsFit
  <1>4. Cardinality(DOMAIN ns) = N - 1
    BY ONLY <1>2, <1>3, id \in DOMAIN nodes, TreeInv, FiniteTree, FS_RemoveElement
  <1>5. h[rootNodeId] \in Nat
    BY IsLeafIs DEF Sound, Rooted
  <1>6. PICK C \in Nat : C = Cardinality(DOMAIN ns) /\ h[rootNodeId] <= C
    BY <1>3, <1>4, <1>5
  <1>7. Intact(ns, h, h[id])
    <2>1. h[id] \in Nat
      BY IsLeafIs
    <2> QED
      BY <1>2, <2>1 DEF Intact
  <1>8. id \in allNodeIds(ns, rootNodeId)
    BY ONLY Sound(nodes, h, rootNodeId), id \in DOMAIN nodes, <1>6, <1>7, StillVisited
  <1> QED
    BY <1>2, <1>8 DEF Passes

LEMMA NewNodeNoticed ==
    ASSUME TreeInv
    PROVE  ~Passes(makeNode(nodes))
  <1> SUFFICES ASSUME Passes(makeNode(nodes))
               PROVE  FALSE
    OBVIOUS
  <1>1. nextNodeId \notin DOMAIN nodes
    BY DEF TreeInv
  <1>2. /\ nextNodeId \in DOMAIN makeNode(nodes)
        /\ makeNode(nodes)[nextNodeId] = EmptyNode
    BY <1>1 DEF makeNode
  <1>3. makeNode(nodes)[nextNodeId].items # <<>>
    BY <1>2, NodePasses
  <1> QED
    BY <1>2, <1>3 DEF EmptyNode

-----------------------------------------------------------------------------
(* Pointers to siblings, of which verify() sees those of leaves.           *)
OtherPointers(ns) ==
    /\ DOMAIN ns = DOMAIN nodes
    /\ \A x \in DOMAIN nodes : \E next, prev :
          ns[x] = [nodes[x] EXCEPT !.nextSibling = next, !.prevSibling = prev]

SeenNode(ns, id) ==
    IF ns[id].items = <<>> THEN ns[id]
    ELSE IF ~leaf(ns, id)
    THEN [ns[id] EXCEPT !.nextSibling = 0, !.prevSibling = 0]
    ELSE [ns[id] EXCEPT !.nextSibling = IF @ \in DOMAIN ns THEN @ ELSE 0]

LEMMA SeenIs ==
    ASSUME NEW ns
    PROVE  Seen(ns) = [id \in DOMAIN ns |-> SeenNode(ns, id)]
  BY DEF Seen, SeenNode

LEMMA SeenAgree ==
    ASSUME NEW ns, DOMAIN ns = DOMAIN nodes,
           \A id \in DOMAIN nodes : SeenNode(ns, id) = SeenNode(nodes, id)
    PROVE  Seen(ns) = Seen(nodes)
  BY SeenIs

PointersAgree(ns, t, q) ==
    /\ IF q # Len(t) THEN ns[t[q]].nextSibling = nodes[t[q]].nextSibling
       ELSE /\ ns[t[q]].nextSibling = 0 \/ ns[t[q]].nextSibling \notin DOMAIN ns
            /\ nodes[t[q]].nextSibling = 0
    /\ ns[t[q]].prevSibling = nodes[t[q]].prevSibling

LEMMA LeafPointers ==
    ASSUME NEW h, Sound(nodes, h, rootNodeId), NEW t, LevelTold(h, t, h[rootNodeId]),
           NEW n \in Nat, NEW ns, DOMAIN ns = DOMAIN nodes,
           LeavesOk(ns, AtDepth(t, n), FALSE), NEW q \in 1 .. Len(t)
    PROVE  PointersAgree(ns, t, q)
  <1>1. h[rootNodeId] \in Nat
    BY IsLeafIs DEF Sound, Rooted
  <1>2. PICK l \in Nat : l = Len(t) /\ l # 0 /\ q \in 1 .. l
    BY <1>1 DEF LevelTold
  <1>3. /\ t \in Seq(DOMAIN nodes)
        /\ \A p \in 1 .. l : t[p] \in DOMAIN nodes
        /\ \A p \in 1 .. l :
              nodes[t[p]].nextSibling = IF p # l THEN t[p + 1] ELSE 0
        /\ nodes[t[1]].prevSibling = 0
    BY <1>1, <1>2 DEF LevelTold
  <1>4. PICK u : u = AtDepth(t, n)
    OBVIOUS
  <1>5. u = [k \in 1 .. l |-> [id |-> t[k], depth |-> n]]
    BY <1>2, <1>4 DEF AtDepth
  <1>6. Len(u) = l /\ DOMAIN u = 1 .. l
    <2>1. Len(u) = l
      BY <1>2, <1>3, <1>4, AtDepthIs
    <2> QED
      BY <2>1, <1>5
  <1>7. \A k \in 1 .. l : u[k].id = t[k]
    BY <1>5
  <1>8. /\ IF q < l THEN ns[u[q].id].nextSibling = u[q + 1].id
           ELSE Ends(ns, ns[u[q].id].nextSibling, FALSE)
        /\ ns[u[q].id].prevSibling = IF q = 1 THEN 0 ELSE u[q - 1].id
    BY <1>2, <1>4, <1>6 DEF LeavesOk
  <1>9. IF q # l THEN ns[t[q]].nextSibling = nodes[t[q]].nextSibling
        ELSE /\ ns[t[q]].nextSibling = 0 \/ ns[t[q]].nextSibling \notin DOMAIN ns
             /\ nodes[t[q]].nextSibling = 0
    <2>1. CASE q < l
      <3>1. q + 1 \in 1 .. l /\ q # l
        BY ONLY <2>1, <1>2
      <3>2. ns[t[q]].nextSibling = t[q + 1]
        BY <1>2, <1>7, <1>8, <2>1, <3>1
      <3> QED
        BY <1>2, <1>3, <3>1, <3>2
    <2>2. CASE ~(q < l)
      <3>1. q = l
        BY ONLY <2>2, <1>2
      <3>2. Ends(ns, ns[t[q]].nextSibling, FALSE)
        BY <1>2, <1>7, <1>8, <2>2
      <3> QED
        BY <1>2, <1>3, <3>1, <3>2 DEF Ends
    <2> QED
      BY <2>1, <2>2
  <1>10. ns[t[q]].prevSibling = nodes[t[q]].prevSibling
    <2>1. CASE q = 1
      BY <1>2, <1>3, <1>7, <1>8, <2>1
    <2>2. CASE q # 1
      <3>1. q - 1 \in 1 .. l /\ q - 1 # l /\ (q - 1) + 1 = q
        BY ONLY <2>2, <1>2
      <3>2. PICK a \in DOMAIN nodes : a = t[q - 1]
        BY <3>1, <1>3
      <3>3. nodes[t[q - 1]].nextSibling = t[(q - 1) + 1]
        BY <3>1, <1>3
      <3>4. nodes[a].nextSibling = t[q]
        BY ONLY <3>1, <3>2, <3>3
      <3>5. t[q] # 0
        BY <1>2, <1>3, NodeOfSound DEF SoundNode
      <3>6. nodes[t[q]].prevSibling = a
        BY <3>4, <3>5, NodeOfSound DEF SoundNode, LinkedAt
      <3>7. ns[t[q]].prevSibling = a
        BY <1>2, <1>7, <1>8, <2>2, <3>1, <3>2
      <3> QED
        BY <3>6, <3>7
    <2> QED
      BY <2>1, <2>2
  <1> QED
    BY <1>2, <1>9, <1>10 DEF PointersAgree

LEMMA PointersNoticed ==
    ASSUME NEW h, Sound(nodes, h, rootNodeId), rootNodeId # 0,
           NEW ns, OtherPointers(ns), Passes(ns)
    PROVE  Seen(ns) = Seen(nodes)
  <1>1. nodes \in [DOMAIN nodes -> NodeType]
    BY DEF Sound, Structure, Stored
  <1>2. \A x \in DOMAIN nodes :
           /\ nodes[x] \in NodeType
           /\ ns[x] \in [items : Seq(KeyType), nextSibling : {ns[x].nextSibling},
                         prevSibling : {ns[x].prevSibling}, accumCount : Nat, accum : Nat]
           /\ ns[x] = [nodes[x] EXCEPT !.nextSibling = ns[x].nextSibling,
                                      !.prevSibling = ns[x].prevSibling]
    <2> TAKE x \in DOMAIN nodes
    <2>1. PICK next, prev :
              ns[x] = [nodes[x] EXCEPT !.nextSibling = next, !.prevSibling = prev]
      BY DEF OtherPointers
    <2>2. PICK node \in NodeType : node = nodes[x]
      BY <1>1
    <2>3. ns[x] = [node EXCEPT !.nextSibling = next, !.prevSibling = prev]
      BY <2>1, <2>2
    <2>4. ns[x].nextSibling = next /\ ns[x].prevSibling = prev
      BY <2>3 DEF NodeType
    <2> QED
      BY <2>2, <2>3, <2>4 DEF NodeType
  <1>3. SameItems(ns)
    <2>1. \A x \in DOMAIN nodes : ns[x].items = nodes[x].items
      BY <1>2 DEF NodeType
    <2> QED
      BY <2>1 DEF SameItems, OtherPointers
  <1>4. PICK t : /\ LevelTold(h, t, h[rootNodeId])
                 /\ leafNodeIds(ns, rootNodeId) = AtDepth(t, h[rootNodeId])
                 /\ \A x \in DOMAIN nodes : h[x] = 0 => \E q \in 1 .. Len(t) : t[q] = x
    BY <1>3, LeavesOfTree
  <1>5. PICK n \in Nat : n = h[rootNodeId]
    BY IsLeafIs DEF Sound, Rooted
  <1>6. LeavesOk(ns, AtDepth(t, n), FALSE) /\ DOMAIN ns = DOMAIN nodes
    BY <1>4, <1>5 DEF Passes, OtherPointers
  <1>7. ASSUME NEW x \in DOMAIN nodes
        PROVE  SeenNode(ns, x) = SeenNode(nodes, x)
    <2>1. PICK node \in NodeType : node = nodes[x]
      BY <1>1
    <2>2. PICK next, prev : next = ns[x].nextSibling /\ prev = ns[x].prevSibling
      OBVIOUS
    <2>3. ns[x] = [node EXCEPT !.nextSibling = next, !.prevSibling = prev]
      BY <1>2, <2>1, <2>2
    <2>4. nodes[x].items # <<>> /\ ns[x].items # <<>>
      <3>1. Len(nodes[x].items) > 0 /\ Len(<<>>) = 0
        BY NodeOfSound DEF SoundNode
      <3> QED
        BY <3>1, <1>3 DEF SameItems
    <2>5. leaf(ns, x) <=> leaf(nodes, x)
      BY <1>3 DEF SameItems, leaf
    <2>6. CASE ~leaf(nodes, x)
      <3>1. [[node EXCEPT !.nextSibling = next, !.prevSibling = prev]
                EXCEPT !.nextSibling = 0, !.prevSibling = 0]
              = [node EXCEPT !.nextSibling = 0, !.prevSibling = 0]
        BY <2>1 DEF NodeType
      <3> QED
        BY <2>1, <2>3, <2>4, <2>5, <2>6, <3>1 DEF SeenNode
    <2>7. CASE leaf(nodes, x)
      <3>1. h[x] = 0
        BY <2>7, IsLeafIs DEF leaf, isLeaf, keysOf
      <3>2. PICK q \in 1 .. Len(t) : t[q] = x
        BY <1>4, <3>1
      <3>3. LevelTold(h, t, h[rootNodeId])
        BY <1>4
      <3>4. PointersAgree(ns, t, q)
        BY ONLY Sound(nodes, h, rootNodeId), <1>6, <3>3, n \in Nat, q \in 1 .. Len(t),
                LeafPointers
      <3>5. /\ next = node.nextSibling \/ ((next = 0 \/ next \notin DOMAIN nodes)
                                             /\ node.nextSibling = 0)
            /\ prev = node.prevSibling
        BY ONLY <1>6, <2>1, <2>2, <3>2, <3>4 DEF PointersAgree
      <3> DEFINE kept(p) == IF p \in DOMAIN nodes THEN p ELSE 0
      <3>6. kept(next) = kept(node.nextSibling)
        BY ONLY <3>5
      <3>7. SeenNode(nodes, x) = [node EXCEPT !.nextSibling = kept(node.nextSibling)]
        BY <2>1, <2>4, <2>7 DEF SeenNode
      <3>8. SeenNode(ns, x) = [ns[x] EXCEPT !.nextSibling = kept(ns[x].nextSibling)]
        BY <1>6, <2>4, <2>5, <2>7 DEF SeenNode
      <3>9. SeenNode(ns, x) = [[node EXCEPT !.nextSibling = next, !.prevSibling = prev]
                                  EXCEPT !.nextSibling = kept(next)]
        BY ONLY <2>2, <2>3, <3>8
      <3> HIDE DEF kept
      <3>10. \A k : [[node EXCEPT !.nextSibling = next, !.prevSibling = prev]
                        EXCEPT !.nextSibling = k] = [node EXCEPT !.nextSibling = k]
        BY <2>1, <3>5 DEF NodeType
      <3> QED
        BY ONLY <3>6, <3>7, <3>9, <3>10
    <2> QED
      BY <2>6, <2>7
  <1> QED
    BY <1>6, <1>7, SeenAgree

-----------------------------------------------------------------------------
(* Every damage is noticed.                                                *)
LEMMA NextNoticed ==
    ASSUME NEW h, Sound(nodes, h, rootNodeId), rootNodeId # 0, NEW id \in DOMAIN nodes,
           NEW n, NEW ns, ns = [nodes EXCEPT ![id].nextSibling = n], Passes(ns)
    PROVE  Seen(ns) = Seen(nodes)
  <1>1. nodes \in [DOMAIN nodes -> NodeType]
    BY DEF Sound, Structure, Stored
  <1>2. OtherPointers(ns)
    <2>1. DOMAIN ns = DOMAIN nodes
      BY <1>1
    <2>2. ASSUME NEW x \in DOMAIN nodes
          PROVE  \E next, prev :
                    ns[x] = [nodes[x] EXCEPT !.nextSibling = next, !.prevSibling = prev]
      <3>1. PICK node \in NodeType : node = nodes[x]
        BY <1>1
      <3>2. PICK next : next = IF x = id THEN n ELSE node.nextSibling
        OBVIOUS
      <3>3. ns[x] = [node EXCEPT !.nextSibling = next, !.prevSibling = node.prevSibling]
        <4>1. CASE x = id
          <5>1. ns[x] = [node EXCEPT !.nextSibling = n]
            BY <1>1, <3>1, <4>1
          <5> QED
            BY ONLY <3>1, <3>2, <4>1, <5>1 DEF NodeType
        <4>2. CASE x # id
          <5>1. ns[x] = node
            BY <1>1, <3>1, <4>2
          <5> QED
            BY ONLY <3>1, <3>2, <4>2, <5>1 DEF NodeType
        <4> QED
          BY <4>1, <4>2
      <3> QED
        BY <3>1, <3>3
    <2> QED
      BY <2>1, <2>2 DEF OtherPointers
  <1> QED
    BY <1>2, PointersNoticed

LEMMA PrevNoticed ==
    ASSUME NEW h, Sound(nodes, h, rootNodeId), rootNodeId # 0, NEW id \in DOMAIN nodes,
           NEW n, NEW ns, ns = [nodes EXCEPT ![id].prevSibling = n], Passes(ns)
    PROVE  Seen(ns) = Seen(nodes)
  <1>1. nodes \in [DOMAIN nodes -> NodeType]
    BY DEF Sound, Structure, Stored
  <1>2. OtherPointers(ns)
    <2>1. DOMAIN ns = DOMAIN nodes
      BY <1>1
    <2>2. ASSUME NEW x \in DOMAIN nodes
          PROVE  \E next, prev :
                    ns[x] = [nodes[x] EXCEPT !.nextSibling = next, !.prevSibling = prev]
      <3>1. PICK node \in NodeType : node = nodes[x]
        BY <1>1
      <3>2. PICK prev : prev = IF x = id THEN n ELSE node.prevSibling
        OBVIOUS
      <3>3. ns[x] = [node EXCEPT !.nextSibling = node.nextSibling, !.prevSibling = prev]
        <4>1. CASE x = id
          <5>1. ns[x] = [node EXCEPT !.prevSibling = n]
            BY <1>1, <3>1, <4>1
          <5> QED
            BY ONLY <3>1, <3>2, <4>1, <5>1 DEF NodeType
        <4>2. CASE x # id
          <5>1. ns[x] = node
            BY <1>1, <3>1, <4>2
          <5> QED
            BY ONLY <3>1, <3>2, <4>2, <5>1 DEF NodeType
        <4> QED
          BY <4>1, <4>2
      <3> QED
        BY <3>1, <3>3
    <2> QED
      BY <2>1, <2>2 DEF OtherPointers
  <1> QED
    BY <1>2, PointersNoticed

LEMMA SameChild ==
    ASSUME NEW h, Sound(nodes, h, rootNodeId), NEW id \in DOMAIN nodes,
           NEW i \in 1 .. Len(nodes[id].items), NEW ns,
           ns = [nodes EXCEPT ![id].items[i].nodeId = nodes[id].items[i].nodeId]
    PROVE  ns = nodes
  <1>1. nodes \in [DOMAIN nodes -> NodeType]
    BY DEF Sound, Structure, Stored
  <1>2. PICK node \in NodeType : node = nodes[id]
    BY <1>1
  <1>3. PICK keys \in Seq(KeyType) : keys = node.items /\ i \in 1 .. Len(keys)
    BY <1>2 DEF NodeType
  <1>4. PICK key \in KeyType : key = keys[i]
    BY <1>3
  <1>5. [key EXCEPT !.nodeId = key.nodeId] = key
    BY <1>4 DEF KeyType
  <1>6. [keys EXCEPT ![i] = key] = keys
    BY <1>3, <1>4
  <1>7. [node EXCEPT !.items = keys] = node
    BY <1>2, <1>3 DEF NodeType
  <1>8. [nodes EXCEPT ![id] = node] = nodes
    BY <1>1, <1>2
  <1>9. ns = [nodes EXCEPT ![id] = [node EXCEPT !.items =
                  [keys EXCEPT ![i] = [key EXCEPT !.nodeId = key.nodeId]]]]
    BY ONLY SMTT(30), <1>2, <1>3, <1>4,
            ns = [nodes EXCEPT ![id].items[i].nodeId = nodes[id].items[i].nodeId]
  <1> QED
    BY ONLY <1>5, <1>6, <1>7, <1>8, <1>9

LEMMA FieldNoticed ==
    ASSUME TreeInv, NEW h, Sound(nodes, h, rootNodeId), rootNodeId # 0,
           NEW id \in DOMAIN nodes, NEW ns \in FieldsChanged(id), Passes(ns)
    PROVE  Seen(ns) = Seen(nodes)
  <1>1. DOMAIN keysOf(id) = 1 .. Len(nodes[id].items)
    BY IsLeafIs DEF keysOf
  <1>2. \/ \E d, e \in {-1, 0, 1} :
              ns = [nodes EXCEPT ![id].accumCount = @ + d, ![id].accum = @ + d + e]
        \/ \E n : ns = [nodes EXCEPT ![id].nextSibling = n]
        \/ \E n : ns = [nodes EXCEPT ![id].prevSibling = n]
        \/ \E i \in 1 .. Len(nodes[id].items) : ns = [nodes EXCEPT ![id].items = RemoveAt(@, i)]
        \/ \E i \in 1 .. Len(nodes[id].items), d \in {-1, 1} :
              ns = [nodes EXCEPT ![id].items[i].item = @ + d]
        \/ \E i \in 1 .. Len(nodes[id].items) : \E n :
              ns = [nodes EXCEPT ![id].items[i].nodeId = n]
    <2> DEFINE
          other(d, e) == [nodes EXCEPT ![id].accumCount = @ + d, ![id].accum = @ + d + e]
          totals   == {other(d, e) : d, e \in {-1, 0, 1}}
          nexts    == {[nodes EXCEPT ![id].nextSibling = n] : n \in NodeIds \cup {0}}
          prevs    == {[nodes EXCEPT ![id].prevSibling = n] : n \in NodeIds \cup {0}}
          missing  == {[nodes EXCEPT ![id].items = RemoveAt(@, i)] : i \in DOMAIN keysOf(id)}
          moved    == {[nodes EXCEPT ![id].items[i].item = @ + d] :
                          i \in DOMAIN keysOf(id), d \in {-1, 1}}
          children == {[nodes EXCEPT ![id].items[i].nodeId = n] :
                          i \in DOMAIN keysOf(id), n \in NodeIds \cup {0}}
    <2>1. FieldsChanged(id) = UNION {totals, nexts, prevs, missing, moved, children}
      BY DEF FieldsChanged
    <2>2. ns \in totals => \E d, e \in {-1, 0, 1} :
              ns = [nodes EXCEPT ![id].accumCount = @ + d, ![id].accum = @ + d + e]
      <3>1. PICK S : S = {-1, 0, 1}
        OBVIOUS
      <3>2. ns \in totals => \E d, e \in S : ns = other(d, e)
        <4>1. totals = {other(d, e) : d, e \in S}
          BY ONLY <3>1
        <4> HIDE DEF totals, other
        <4> QED
          BY ONLY <4>1
      <3> QED
        BY <3>1, <3>2
    <2>3. ns \in nexts => \E n : ns = [nodes EXCEPT ![id].nextSibling = n]
      OBVIOUS
    <2>4. ns \in prevs => \E n : ns = [nodes EXCEPT ![id].prevSibling = n]
      OBVIOUS
    <2>5. ns \in missing => \E i \in 1 .. Len(nodes[id].items) :
              ns = [nodes EXCEPT ![id].items = RemoveAt(@, i)]
      BY <1>1
    <2>6. ns \in moved => \E i \in 1 .. Len(nodes[id].items), d \in {-1, 1} :
              ns = [nodes EXCEPT ![id].items[i].item = @ + d]
      BY <1>1
    <2>7. ns \in children => \E i \in 1 .. Len(nodes[id].items) : \E n :
              ns = [nodes EXCEPT ![id].items[i].nodeId = n]
      BY <1>1
    <2>8. \/ ns \in totals \/ ns \in nexts \/ ns \in prevs
          \/ ns \in missing \/ ns \in moved \/ ns \in children
      <3> HIDE DEF totals, nexts, prevs, missing, moved, children
      <3> QED
        BY <2>1
    <2> HIDE DEF totals, nexts, prevs, missing, moved, children
    <2> QED
      BY <2>2, <2>3, <2>4, <2>5, <2>6, <2>7, <2>8
  <1>3. CASE \E d, e \in {-1, 0, 1} :
              ns = [nodes EXCEPT ![id].accumCount = @ + d, ![id].accum = @ + d + e]
    <2>1. ns = nodes
      BY <1>3, TotalsNoticed
    <2> QED
      BY <2>1
  <1>4. CASE \E n : ns = [nodes EXCEPT ![id].nextSibling = n]
    BY <1>4, NextNoticed
  <1>5. CASE \E n : ns = [nodes EXCEPT ![id].prevSibling = n]
    BY <1>5, PrevNoticed
  <1>6. CASE \E i \in 1 .. Len(nodes[id].items) : ns = [nodes EXCEPT ![id].items = RemoveAt(@, i)]
    BY <1>6, MissingKeyNoticed
  <1>7. CASE \E i \in 1 .. Len(nodes[id].items), d \in {-1, 1} :
              ns = [nodes EXCEPT ![id].items[i].item = @ + d]
    BY <1>7, ItemNoticed
  <1>8. CASE \E i \in 1 .. Len(nodes[id].items) : \E n :
              ns = [nodes EXCEPT ![id].items[i].nodeId = n]
    <2> PICK i \in 1 .. Len(nodes[id].items) :
            \E n : ns = [nodes EXCEPT ![id].items[i].nodeId = n]
      BY <1>8
    <2>1. PICK n : ns = [nodes EXCEPT ![id].items[i].nodeId = n]
      OBVIOUS
    <2>2. n = nodes[id].items[i].nodeId
      BY <2>1, ChildNoticed
    <2>3. ns = [nodes EXCEPT ![id].items[i].nodeId = nodes[id].items[i].nodeId]
      BY <2>1, <2>2
    <2>4. ns = nodes
      BY <2>3, SameChild
    <2> QED
      BY <2>4
  <1> QED
    BY <1>2, <1>3, <1>4, <1>5, <1>6, <1>7, <1>8

LEMMA VerifyDetectsHold ==
    ASSUME TreeInv
    PROVE  VerifyDetects
  <1> SUFFICES ASSUME Settled, NEW ns \in Damaged,
                      verify(ns, rootNodeId, DOMAIN ns, FALSE)
               PROVE  Seen(ns) = Seen(nodes)
    BY DEF VerifyDetects
  <1>1. Passes(ns)
    BY VerifyTells
  <1>2. PICK h : Shape(h)
    BY DEF TreeInv
  <1>3. Idle
    BY DEF Settled
  <1>4. ns # makeNode(nodes)
    BY <1>1, NewNodeNoticed
  <1>5. PICK id \in DOMAIN nodes : ns \in FieldsChanged(id) \/ ns = deleteNode(nodes, id)
    BY <1>4 DEF Damaged
  <1>6. rootNodeId # 0 /\ Sound(nodes, h, rootNodeId)
    BY <1>2, <1>3, <1>5, SoundAtRest
  <1>7. ns # deleteNode(nodes, id)
    BY <1>1, <1>6, MissingNodeNoticed
  <1> QED
    BY <1>1, <1>5, <1>6, <1>7, FieldNoticed

-----------------------------------------------------------------------------
(* What the queries and verify() promise.                                  *)

LEMMA QueriesPromise ==
    TypeOK /\ TreeInv => IterationInOrder /\ FingerprintsOfRanges /\ LowerBounds
  BY IterationHolds, FingerprintsHold, LowerBoundsHold

LEMMA WalksPromise ==
    TypeOK /\ TreeInv => HoldsContents /\ SiblingsLinked /\ Balanced /\ VerifyAccepts
  BY HoldsContentsHold, SiblingsHold, BalancedHold, VerifyAcceptsHold

(* getItem and iterate hand over the items of every range  *)
(* in order, however they lie in the leaves. *)
THEOREM IterationStays == Spec => []IterationInOrder
  BY TreeStays, TypesStay, QueriesPromise, PTL

(* The difference of two prefix sums taken on the way down is   *)
(* the fingerprint of the items of the range, for every range. *)
THEOREM FingerprintsStay == Spec => []FingerprintsOfRanges
  BY TreeStays, TypesStay, QueriesPromise, PTL

(* findLowerBound gives the place of the first item that is     *)
(* not below the bound, for every bound and every range it may search. *)
THEOREM LowerBoundsStay == Spec => []LowerBounds
  BY TreeStays, TypesStay, QueriesPromise, PTL

(* The leaves under the root hold exactly the items that were inserted and   *)
(* not erased, in order. *)
THEOREM ContentsStay == Spec => []HoldsContents
  BY TreeStays, TypesStay, WalksPromise, PTL

(* Splits, merges and exchanges leave the sibling pointers of every level    *)
(* in the order of the level, both ways. *)
THEOREM SiblingsStay == Spec => []SiblingsLinked
  BY TreeStays, TypesStay, WalksPromise, PTL

(* All leaves are equally deep, and no node but the last of a level has      *)
(* fewer than MIN_ITEMS keys. *)
THEOREM BalanceStays == Spec => []Balanced
  BY TreeStays, TypesStay, WalksPromise, PTL

(* No sequence of insertions and erasures leaves a tree that verify() of     *)
(* btree/debug.h rejects. *)
THEOREM VerifyStays == Spec => []VerifyAccepts
  BY TreeStays, TypesStay, WalksPromise, PTL

LEMMA NoticedPromise ==
    TreeInv => VerifyDetects
  BY VerifyDetectsHold

(* verify() rejects the tree with one field of one node changed, or with one *)
(* node missing or too many, whatever the tree and the field, sibling        *)
(* pointers of interior nodes excepted. *)
THEOREM VerifyNotices == Spec => []VerifyDetects
  BY TreeStays, NoticedPromise, PTL

-----------------------------------------------------------------------------
(* A tree kept in a table between two calls.                               *)

IsFcn(f) == f = [x \in DOMAIN f |-> f[x]]

-----------------------------------------------------------------------------
(* A tree between two calls. *)
RestTree(T, root, next, set) ==
    /\ next \in Nat \ {0} /\ DOMAIN T \subseteq 1 .. next - 1
    /\ set \subseteq Items
    /\ \E h : /\ Stored(T, h) /\ Structure(T, h, 0) /\ Exact(T, 0)
              /\ IF root = 0 THEN DOMAIN T = {} ELSE Rooted(T, h, root)
              /\ \A item \in Items : item \in set <=> InLeaf(T, h, item)

LEMMA IdleRests ==
    ASSUME TreeInv, Idle
    PROVE  RestTree(nodes, rootNodeId, nextNodeId, contents)
  <1>1. TreeTypes
    BY TreeInvIs
  <1>2. PICK h : Shape(h)
    BY TreeInvIs
  <1>3. /\ ahead = nodes /\ current = 0
        /\ \A item \in Items : item \in contents <=> InLeaf(nodes, h, item)
        /\ AtRest(h)
    BY <1>2, SoundAtRest DEF Shape, Idle
  <1>4. Stored(nodes, h) /\ Structure(nodes, h, 0) /\ Exact(nodes, 0)
    BY <1>2, <1>3 DEF Shape
  <1>5. IF rootNodeId = 0 THEN DOMAIN nodes = {} ELSE Rooted(nodes, h, rootNodeId)
    BY <1>3 DEF AtRest
  <1> QED
    BY <1>1, <1>3, <1>4, <1>5 DEF RestTree, TreeTypes

LEMMA ConstructRests ==
    ASSUME Construct,
           RestTree(table', meta'.rootNodeId, meta'.nextNodeId, contents'),
           load' \in Seq(Items)
    PROVE  TreeInv'
  <1>1. PICK N, root, next : N = table' /\ root = meta'.rootNodeId /\ next = meta'.nextNodeId
    OBVIOUS
  <1>2. /\ nodes' = N /\ rootNodeId' = root /\ nextNodeId' = next
        /\ running' = "none" /\ oldNew' = 0 /\ breadcrumbs' = <<>>
        /\ newKey' = NoKey /\ pending' = FALSE /\ neighbourRefreshNeeded' = FALSE
    BY <1>1 DEF Construct
  <1>3. RestTree(N, root, next, contents')
    BY <1>1
  <1>4. PICK h : /\ Stored(N, h) /\ Structure(N, h, 0) /\ Exact(N, 0)
                 /\ IF root = 0 THEN DOMAIN N = {} ELSE Rooted(N, h, root)
                 /\ \A item \in Items : item \in contents' <=> InLeaf(N, h, item)
    BY <1>3 DEF RestTree
  <1>5. Shape(h)'
    BY <1>2, <1>4, SoundShape
  <1>6. TreeTypes'
    <2>1. breadcrumbs' \in Seq(CrumbType)
      BY <1>2
    <2> QED
      BY <1>2, <1>3, <2>1 DEF TreeTypes, RestTree
  <1> QED
    BY <1>5, <1>6, TreeInvNext

-----------------------------------------------------------------------------
(* The nodes that can be read are those of the tree. *)
Overlaid(c, s, f) ==
    /\ DOMAIN f = DOMAIN c \cup DOMAIN s
    /\ IsFcn(f)
    /\ \A x \in DOMAIN f : f[x] = IF x \in DOMAIN c THEN c[x] ELSE s[x]

LEMMA OverIs ==
    ASSUME NEW c, NEW s
    PROVE  Overlaid(c, s, over(c, s))
  BY DEF Overlaid, over, IsFcn

LEMMA OverNothing ==
    ASSUME NEW s, IsFcn(s)
    PROVE  over(<<>>, s) = s
  <1>1. PICK e, f : e = <<>> /\ f = over(e, s)
    OBVIOUS
  <1>2. DOMAIN e = {}
    BY <1>1
  <1>3. /\ DOMAIN f = DOMAIN s /\ IsFcn(f)
        /\ \A x \in DOMAIN s : f[x] = s[x]
    <2>1. Overlaid(e, s, f)
      BY <1>1, <1>2, OverIs
    <2> QED
      BY <2>1, <1>2 DEF Overlaid
  <1> QED
    BY <1>1, <1>3 DEF IsFcn

(* A step: nodes outside W stay, those of D go. *)
Wrote(T, N, W, D) ==
    /\ IsFcn(N)
    /\ DOMAIN N = (DOMAIN T \cup W) \ D
    /\ \A a \in DOMAIN T : a \notin W /\ a \notin D => N[a] = T[a]

LEMMA StoreCoherent ==
    ASSUME CacheCoherent, NEW W, NEW D, Store(W, D), Wrote(nodes, nodes', W, D)
    PROVE  CacheCoherent' /\ IsFcn(table')
  <1>1. PICK c, s, c2, s2, T, N :
            /\ c = dirtyNodeCache /\ s = table /\ c2 = dirtyNodeCache' /\ s2 = table'
            /\ T = nodes /\ N = nodes'
    OBVIOUS
  <1>2. T = over(c, s)
    BY <1>1 DEF CacheCoherent, Readable
  <1>3. /\ c2 = [id \in (DOMAIN c \cup W) \ D |-> IF id \in W THEN N[id] ELSE c[id]]
        /\ s2 = [id \in DOMAIN s \ D |-> s[id]]
    BY <1>1 DEF Store
  <1>4. PICK f : f = over(c2, s2)
    OBVIOUS
  <1>5. /\ DOMAIN f = DOMAIN c2 \cup DOMAIN s2 /\ IsFcn(f)
        /\ \A x \in DOMAIN f : f[x] = IF x \in DOMAIN c2 THEN c2[x] ELSE s2[x]
    <2>1. Overlaid(c2, s2, f)
      BY <1>4, OverIs
    <2> QED
      BY <2>1 DEF Overlaid
  <1>6. /\ DOMAIN T = DOMAIN c \cup DOMAIN s
        /\ \A x \in DOMAIN T : T[x] = IF x \in DOMAIN c THEN c[x] ELSE s[x]
    <2>1. Overlaid(c, s, T)
      BY <1>2, OverIs
    <2> QED
      BY <2>1 DEF Overlaid
  <1>7. /\ IsFcn(N) /\ DOMAIN N = (DOMAIN T \cup W) \ D
        /\ \A a \in DOMAIN T : a \notin W /\ a \notin D => N[a] = T[a]
    BY <1>1 DEF Wrote
  <1>8. DOMAIN c2 = (DOMAIN c \cup W) \ D /\ DOMAIN s2 = DOMAIN s \ D
    BY <1>3
  <1>9. DOMAIN f = DOMAIN N
    BY <1>5, <1>6, <1>7, <1>8
  <1>10. ASSUME NEW x \in DOMAIN f
         PROVE  f[x] = N[x]
    <2>1. f[x] = IF x \in DOMAIN c2 THEN c2[x] ELSE s2[x]
      BY <1>5
    <2>2. x \in DOMAIN N /\ x \notin D
      BY <1>7, <1>9
    <2>3. CASE x \in W
      BY <1>3, <1>8, <2>1, <2>2, <2>3
    <2>4. CASE x \notin W
      <3>1. x \in DOMAIN T /\ N[x] = T[x]
        BY <1>7, <2>2, <2>4
      <3>2. x \in DOMAIN c2 <=> x \in DOMAIN c
        BY <1>8, <2>2, <2>4
      <3>3. CASE x \in DOMAIN c
        <4>1. c2[x] = c[x]
          BY <1>3, <1>8, <2>4, <3>2, <3>3
        <4> QED
          BY <1>6, <2>1, <3>1, <3>2, <3>3, <4>1
      <3>4. CASE x \notin DOMAIN c
        <4>1. s2[x] = s[x]
          BY <1>3, <1>6, <2>2, <3>1, <3>4
        <4> QED
          BY <1>6, <2>1, <3>1, <3>2, <3>4, <4>1
      <3> QED
        BY <3>3, <3>4
    <2> QED
      BY <2>3, <2>4
  <1>11. N = f
    BY <1>5, <1>7, <1>9, <1>10 DEF IsFcn
  <1>12. nodes' = over(dirtyNodeCache', table')
    BY <1>1, <1>4, <1>11
  <1>13. IsFcn(s2)
    BY <1>3 DEF IsFcn
  <1> QED
    BY <1>1, <1>12, <1>13 DEF CacheCoherent, Readable

-----------------------------------------------------------------------------
(* Steps that change nodes in place. *)
Same(T, N, W) ==
    /\ IsFcn(N) /\ DOMAIN N = DOMAIN T
    /\ \A a \in DOMAIN T : a \notin W => N[a] = T[a]

LEMMA SameThen ==
    ASSUME NEW T, NEW M, NEW N, NEW V, NEW W, Same(T, M, V), Same(M, N, W)
    PROVE  Same(T, N, V \cup W)
  BY DEF Same

LEMMA SameMore ==
    ASSUME NEW T, NEW N, NEW V, NEW W, Same(T, N, V), V \subseteq W
    PROVE  Same(T, N, W)
  BY DEF Same

LEMMA AddSame ==
    ASSUME NEW ns, NEW id, NEW count, NEW accum
    PROVE  Same(ns, addToNode(ns, id, count, accum), {id})
  BY DEF Same, addToNode, IsFcn

LEMMA RefillSame ==
    ASSUME NEW ns, NEW id, NEW keys
    PROVE  Same(ns, refill(ns, id, keys), {id})
  BY DEF Same, refill, IsFcn

LEMMA RefreshSame ==
    ASSUME NEW ns, IsFcn(ns), NEW id, NEW index
    PROVE  Same(ns, refreshIndex(ns, id, index), {id})
  BY DEF Same, refreshIndex, IsFcn

LEMMA NextSame ==
    ASSUME NEW ns, IsFcn(ns), NEW id, NEW next
    PROVE  Same(ns, setNext(ns, id, next), {id} \ {0})
  BY DEF Same, setNext, IsFcn

LEMMA PrevSame ==
    ASSUME NEW ns, IsFcn(ns), NEW id, NEW prev
    PROVE  Same(ns, setPrev(ns, id, prev), {id} \ {0})
  BY DEF Same, setPrev, IsFcn

LEMMA MakeSame ==
    ASSUME NEW ns, NEW M, M = makeNode(ns), NEW N, NEW W, Same(M, N, W),
           NEW V, V = W \cup {nextNodeId}, V \subseteq DOMAIN ns \cup {nextNodeId}
    PROVE  Wrote(ns, N, V, {})
  <1>1. DOMAIN M = DOMAIN ns \cup {nextNodeId} /\ \A a \in DOMAIN ns : M[a] = ns[a]
    BY DEF makeNode
  <1>2. /\ IsFcn(N) /\ DOMAIN N = DOMAIN M
        /\ \A a \in DOMAIN M : a \notin W => N[a] = M[a]
    BY DEF Same
  <1> QED
    BY <1>1, <1>2 DEF Wrote

LEMMA SameWrote ==
    ASSUME NEW T, NEW N, NEW W, Same(T, N, W), W \subseteq DOMAIN T
    PROVE  Wrote(T, N, W, {})
  BY DEF Same, Wrote

-----------------------------------------------------------------------------
(* The nodes of a tree are a function. *)
LEMMA NodesFcn ==
    ASSUME TreeInv
    PROVE  IsFcn(nodes)
  <1>1. PICK h : Shape(h)
    BY TreeInvIs
  <1>2. Stored(nodes, h)
    BY <1>1 DEF Shape
  <1> QED
    BY <1>2 DEF Stored, IsFcn

(* insertItem. *)
LEMMA FirstWrote ==
    ASSUME NEW keys, NEW N, N = refill(makeNode(nodes), nextNodeId, keys)
    PROVE  Wrote(nodes, N, {nextNodeId}, {})
  <1>1. PICK M : M = makeNode(nodes)
    OBVIOUS
  <1>2. Same(M, N, {nextNodeId})
    BY <1>1, RefillSame
  <1> QED
    BY <1>1, <1>2, MakeSame

LEMMA UpdateWrote ==
    ASSUME TreeInv, InsertUpdate
    PROVE  Same(nodes, nodes', {Crumb.nodeId})
  <1>1. PICK id, T, M, N : /\ id = Crumb.nodeId /\ T = nodes /\ N = nodes'
                           /\ M = addToNode(T, id, 1, oldNew)
    OBVIOUS
  <1>2. N = refreshIndex(M, id, 0)
    BY <1>1 DEF InsertUpdate
  <1>3. Same(T, M, {id}) /\ IsFcn(M)
    BY <1>1, AddSame DEF Same
  <1>4. Same(M, N, {id})
    BY <1>2, <1>3, RefreshSame
  <1>5. Same(T, N, {id} \cup {id})
    BY <1>3, <1>4, SameThen
  <1>6. {id} \cup {id} = {id}
    OBVIOUS
  <1> QED
    BY <1>1, <1>5, <1>6

LEMMA MergeWrote ==
    ASSUME TreeInv, InsertMerge
    PROVE  Same(nodes, nodes', {Crumb.nodeId})
  <1>1. PICK id, T, K, L, M, N :
            /\ id = Crumb.nodeId /\ T = nodes /\ N = nodes'
            /\ L = [T EXCEPT ![id].items = withKey(@, newKey)]
            /\ M = addToNode(L, id, 1, oldNew)
    OBVIOUS
  <1>2. N = refreshIndex(M, id, 0)
    BY <1>1 DEF InsertMerge
  <1>3. Same(T, L, {id})
    BY <1>1 DEF Same, IsFcn
  <1>a. M = addToNode(L, id, 1, oldNew)
    BY <1>1
  <1>4. Same(L, M, {id})
    BY ONLY <1>a, AddSame
  <1>m. IsFcn(M)
    BY ONLY <1>4 DEF Same
  <1>5. Same(M, N, {id})
    BY <1>2, <1>m, RefreshSame
  <1>6. Same(T, M, {id} \cup {id})
    BY <1>3, <1>4, SameThen
  <1>7. Same(T, N, ({id} \cup {id}) \cup {id})
    BY <1>5, <1>6, SameThen
  <1>8. ({id} \cup {id}) \cup {id} = {id}
    OBVIOUS
  <1> QED
    BY <1>1, <1>7, <1>8

LEMMA SplitWrote ==
    ASSUME TreeInv, InsertSplit
    PROVE  Wrote(nodes, nodes',
                 {Crumb.nodeId, nextNodeId, nodes[Crumb.nodeId].nextSibling} \ {0}, {})
  <1>1. PICK left, right, next, T, N :
            /\ left = Crumb.nodeId /\ right = nextNodeId /\ T = nodes /\ N = nodes'
            /\ next = T[left].nextSibling
    OBVIOUS
  <1>2. \E M, K, m, A, B, C, D, E, F :
            /\ M = makeNode(T)
            /\ A = refill(M, left, SubSeq(K, 1, m))
            /\ B = refill(A, right, SubSeq(K, m + 1, Len(K)))
            /\ C = setNext(B, right, next)
            /\ D = setPrev(C, right, left)
            /\ E = setNext(D, left, right)
            /\ F = setPrev(E, next, right)
            /\ N = refreshIndex(F, left, 0)
    <2>1. PICK K : K = withKey(T[left].items, newKey)
      OBVIOUS
    <2>2. PICK m : m = IF next = 0 THEN MAX_ITEMS ELSE MAX_ITEMS \div 2 + 1
      OBVIOUS
    <2> QED
      BY <1>1, <2>1, <2>2 DEF InsertSplit
  <1>3. PICK M, K, m, A, B, C, D, E, F :
            /\ M = makeNode(T)
            /\ A = refill(M, left, SubSeq(K, 1, m))
            /\ B = refill(A, right, SubSeq(K, m + 1, Len(K)))
            /\ C = setNext(B, right, next)
            /\ D = setPrev(C, right, left)
            /\ E = setNext(D, left, right)
            /\ F = setPrev(E, next, right)
            /\ N = refreshIndex(F, left, 0)
    BY <1>2
  <1>4. PICK W : W = {left, right, next} \ {0}
    OBVIOUS
  <1>5. /\ left \in DOMAIN T /\ left # 0 /\ right # 0 /\ next \in DOMAIN T \cup {0}
    <2>1. PICK h : Shape(h)
      BY TreeInvIs
    <2>2. TreeTypes
      BY TreeInvIs
    <2>3. running = "insert" /\ breadcrumbs # <<>> /\ breadcrumbs \in Seq(CrumbType)
      BY <2>2 DEF InsertSplit, TreeTypes
    <2>4. PICK K2 : K2 = keysAhead
      OBVIOUS
    <2>5. Amid(h, left, K2)
      BY <1>1, <2>1, <2>3, <2>4, AmidCall
    <2>6. PICK S : S = ahead
      OBVIOUS
    <2>7. /\ left # 0 /\ left \in DOMAIN T /\ Rekeyed(T, S, left, K2)
          /\ Structure(S, h, left)
      BY <1>1, <2>5, <2>6 DEF Amid
    <2>8. left \in DOMAIN S /\ DOMAIN S = DOMAIN T /\ S[left].nextSibling = next
      BY <1>1, <2>7 DEF Rekeyed
    <2>9. LinkedAt(S, h, left)
      BY <2>7, <2>8 DEF Structure
    <2>10. next \in DOMAIN T \cup {0}
      BY <2>8, <2>9 DEF LinkedAt
    <2>11. right # 0
      BY <1>1, <2>2 DEF TreeTypes
    <2> QED
      BY <2>7, <2>10, <2>11
  <1>6. left \in W /\ right \in W /\ {next} \ {0} \subseteq W
    BY <1>4, <1>5
  <1>7. {left} \subseteq W /\ {right} \subseteq W /\ {left} \ {0} \subseteq W
        /\ {right} \ {0} \subseteq W /\ {next} \ {0} \subseteq W
    BY <1>6
  <1>a. Same(M, A, W)
    <2>1. Same(M, A, {left})
      BY <1>3, RefillSame
    <2> QED
      BY <1>7, <2>1, SameMore
  <1>b. Same(A, B, W)
    <2>1. Same(A, B, {right})
      BY <1>3, RefillSame
    <2> QED
      BY <1>7, <2>1, SameMore
  <1>c. Same(B, C, W)
    <2>0. IsFcn(B)
      BY <1>b DEF Same
    <2>1. Same(B, C, {right} \ {0})
      BY <1>3, <2>0, NextSame
    <2> QED
      BY <1>7, <2>1, SameMore
  <1>d. Same(C, D, W)
    <2>0. IsFcn(C)
      BY <1>c DEF Same
    <2>1. Same(C, D, {right} \ {0})
      BY <1>3, <2>0, PrevSame
    <2> QED
      BY <1>7, <2>1, SameMore
  <1>e. Same(D, E, W)
    <2>0. IsFcn(D)
      BY <1>d DEF Same
    <2>1. Same(D, E, {left} \ {0})
      BY <1>3, <2>0, NextSame
    <2> QED
      BY <1>7, <2>1, SameMore
  <1>f. Same(E, F, W)
    <2>0. IsFcn(E)
      BY <1>e DEF Same
    <2>1. Same(E, F, {next} \ {0})
      BY <1>3, <2>0, PrevSame
    <2> QED
      BY <1>7, <2>1, SameMore
  <1>g. Same(F, N, W)
    <2>0. IsFcn(F)
      BY <1>f DEF Same
    <2>1. Same(F, N, {left})
      BY <1>3, <2>0, RefreshSame
    <2> QED
      BY <1>7, <2>1, SameMore
  <1>8. Same(M, N, W)
    BY ONLY <1>a, <1>b, <1>c, <1>d, <1>e, <1>f, <1>g DEF Same
  <1>9. W = W \cup {nextNodeId} /\ W \subseteq DOMAIN T \cup {nextNodeId}
    BY <1>1, <1>4, <1>5, <1>6
  <1>10. Wrote(T, N, W, {})
    BY <1>3, <1>8, <1>9, MakeSame
  <1> QED
    BY <1>1, <1>4, <1>10

-----------------------------------------------------------------------------
(* eraseItem: what is written of a tree that is T before the turn of the   *)
(* loop, and R when its item is removed. *)
LEMMA NodeIs ==
    ASSUME NEW a \in NodeType
    PROVE  a = [items |-> a.items, nextSibling |-> a.nextSibling,
                prevSibling |-> a.prevSibling, accumCount |-> a.accumCount,
                accum |-> a.accum]
  BY DEF NodeType

LEMMA NodesEqual ==
    ASSUME NEW a \in NodeType, NEW b \in NodeType,
           a.items = b.items, a.nextSibling = b.nextSibling,
           a.prevSibling = b.prevSibling, a.accumCount = b.accumCount,
           a.accum = b.accum
    PROVE  a = b
  <1>1. /\ a = [items |-> a.items, nextSibling |-> a.nextSibling,
                prevSibling |-> a.prevSibling, accumCount |-> a.accumCount,
                accum |-> a.accum]
        /\ b = [items |-> b.items, nextSibling |-> b.nextSibling,
                prevSibling |-> b.prevSibling, accumCount |-> b.accumCount,
                accum |-> b.accum]
    BY NodeIs
  <1> QED
    BY <1>1

LEMMA OutWrote ==
    ASSUME NEW T, NEW S, NEW N, NEW id, NEW x, NEW y, TakenOut(S, N, id, x, y),
           Stores(S), NEW V, Same(T, S, V), V \subseteq DOMAIN T,
           {x, y} \ {0} \subseteq DOMAIN T, id \in DOMAIN T
    PROVE  Wrote(T, N, (V \cup {id}) \cup ({x, y} \ {0}), {id})
  <1>1. /\ Stores(N) /\ DOMAIN N = DOMAIN S \ {id}
        /\ \A a \in DOMAIN N :
              /\ SameRecords(S, N, a)
              /\ N[a].nextSibling = IF a = x THEN y ELSE S[a].nextSibling
              /\ N[a].prevSibling = IF a = y THEN x ELSE S[a].prevSibling
    BY DEF TakenOut
  <1>2. DOMAIN S = DOMAIN T /\ \A a \in DOMAIN T : a \notin V => S[a] = T[a]
    BY DEF Same
  <1>3. S \in [DOMAIN S -> NodeType] /\ N \in [DOMAIN N -> NodeType] /\ 0 \notin DOMAIN S
    BY <1>1 DEF Stores
  <1>4. IsFcn(N)
    BY <1>3 DEF IsFcn
  <1>5. ASSUME NEW a \in DOMAIN T, a \notin (V \cup {id}) \cup ({x, y} \ {0})
        PROVE  N[a] = T[a]
    <2>1. a \in DOMAIN N /\ a \in DOMAIN S /\ a # x /\ a # y /\ a # id /\ a \notin V
      BY <1>1, <1>2, <1>3, <1>5
    <2>2. /\ SameRecords(S, N, a)
          /\ N[a].nextSibling = S[a].nextSibling /\ N[a].prevSibling = S[a].prevSibling
      BY <1>1, <2>1
    <2>3. S[a] \in NodeType /\ N[a] \in NodeType
      BY <1>3, <2>1
    <2>4. N[a] = S[a]
      BY <2>2, <2>3, NodesEqual DEF SameRecords
    <2> QED
      BY <1>2, <2>1, <2>4
  <1>6. DOMAIN N = (DOMAIN T \cup ((V \cup {id}) \cup ({x, y} \ {0}))) \ {id}
    BY <1>1, <1>2
  <1> QED
    BY <1>4, <1>5, <1>6 DEF Wrote

EraseWrites(R, id, pair) ==
    {id} \cup (IF tooSmall(R) THEN {pair.left, pair.right} ELSE {})
         \cup (IF pending' THEN siblings(R, id) ELSE {})
EraseDeletes(id) == IF pending' THEN {id} ELSE {}

(* The tree R. *)
LEMMA TurnFrame ==
    ASSUME NEW h, NEW id, NEW K, NEW R, NEW p, NEW j, Turning(h, id, K, R, p, j)
    PROVE  /\ Same(nodes, R, {id}) /\ Stores(R) /\ id \in DOMAIN nodes /\ id # 0
           /\ Structure(R, h, 0) /\ Stored(R, h) /\ DOMAIN R = DOMAIN nodes
           /\ siblings(R, id) \subseteq DOMAIN nodes
           /\ siblings(R, id) = {R[id].prevSibling, R[id].nextSibling} \ {0}
  <1>1. /\ Thin(nodes, R, h, rootNodeId, id, p, j, oldNew) /\ Amid(h, id, K)
    BY DEF Turning
  <1>2. /\ Structure(R, h, 0) /\ Stored(R, h)
        /\ DOMAIN R = DOMAIN nodes /\ id \in DOMAIN nodes
    BY <1>1, ThinParts
  <1>3. \A a \in DOMAIN nodes : a # id => R[a] = nodes[a]
    BY <1>1 DEF Thin
  <1>4. R \in [DOMAIN R -> NodeType] /\ 0 \notin DOMAIN R
    BY <1>2 DEF Stored
  <1>5. Stores(R) /\ IsFcn(R)
    BY <1>4 DEF Stores, IsFcn
  <1>6. Same(nodes, R, {id})
    BY <1>2, <1>3, <1>5 DEF Same
  <1>7. LinkedAt(R, h, id)
    BY <1>2 DEF Structure
  <1>8. siblings(R, id) \subseteq DOMAIN nodes
    BY <1>2, <1>7 DEF LinkedAt, siblings
  <1>9. id # 0
    BY <1>1 DEF Amid
  <1> QED
    BY <1>2, <1>5, <1>6, <1>8, <1>9 DEF siblings

LEMMA AloneWrote ==
    ASSUME NEW h, NEW id, NEW K, NEW R, NEW p, NEW j, Turning(h, id, K, R, p, j),
           ~tooSmall(R), EraseStep, NEW pair
    PROVE  Wrote(nodes, nodes', EraseWrites(R, id, pair), EraseDeletes(id))
  <1>1. id = Crumb.nodeId /\ R = removed
    BY DEF Turning
  <1>2. PICK N, T : N = nodes' /\ T = nodes
    OBVIOUS
  <1>3. /\ N = IF R[id].items = <<>> THEN unlink(R, id) ELSE R
        /\ pending' = (R[id].items = <<>>)
    BY <1>1, <1>2 DEF EraseStep, EraseTurn
  <1>4. /\ Same(T, R, {id}) /\ Stores(R) /\ id \in DOMAIN T
        /\ Structure(R, h, 0) /\ Stored(R, h) /\ DOMAIN R = DOMAIN T
        /\ siblings(R, id) \subseteq DOMAIN T
        /\ siblings(R, id) = {R[id].prevSibling, R[id].nextSibling} \ {0}
    BY <1>2, TurnFrame
  <1>5. CASE R[id].items # <<>>
    <2>1. N = R /\ pending' = FALSE
      BY <1>3, <1>5
    <2>2. EraseWrites(R, id, pair) = {id} /\ EraseDeletes(id) = {}
      BY <2>1 DEF EraseWrites, EraseDeletes
    <2>3. Wrote(T, N, {id}, {})
      BY <1>4, <2>1, SameWrote
    <2> QED
      BY <1>2, <2>2, <2>3
  <1>6. CASE R[id].items = <<>>
    <2>1. N = unlink(R, id) /\ pending' = TRUE
      BY <1>3, <1>6
    <2>2. PICK x, y : x = R[id].prevSibling /\ y = R[id].nextSibling
      OBVIOUS
    <2>3. EraseWrites(R, id, pair) = {id} \cup ({x, y} \ {0}) /\ EraseDeletes(id) = {id}
      BY <1>4, <2>1, <2>2 DEF EraseWrites, EraseDeletes
    <2>4. Between(R, x, y)
      <3>1. LinkedAt(R, h, id)
        BY <1>4 DEF Structure
      <3>2. x \in Nat /\ y \in Nat
        BY <1>4, <2>2, NodeFacts
      <3> QED
        BY <1>4, <2>2, <3>1, <3>2 DEF Between, LinkedAt
    <2>5. TakenOut(R, N, id, x, y)
      BY <2>1, <2>2, <2>4, UnlinkIs
    <2>6. {x, y} \ {0} \subseteq DOMAIN T /\ {id} \subseteq DOMAIN T
      BY <1>4, <2>2
    <2>7. Wrote(T, N, ({id} \cup {id}) \cup ({x, y} \ {0}), {id})
      BY <1>4, <2>5, <2>6, OutWrote
    <2>8. {id} \cup {id} = {id}
      OBVIOUS
    <2> QED
      BY <1>2, <2>3, <2>7, <2>8
  <1> QED
    BY <1>5, <1>6

LEMMA JoinWrote ==
    ASSUME NEW h, NEW id, NEW K, NEW R, NEW p, NEW j, Turning(h, id, K, R, p, j),
           tooSmall(R), EraseStep,
           NEW pair, NEW left, NEW right, NEW to, NEW i, NEW n, NEW row, NEW x,
           Paired(h, id, R, p, j, pair, left, right, to, i, n, row, x),
           Len(row) <= REBALANCE_THRESHOLD
    PROVE  Wrote(nodes, nodes', EraseWrites(R, id, pair), EraseDeletes(id))
  <1>1. id = Crumb.nodeId /\ R = removed
    BY DEF Turning
  <1>2. /\ Pair(R, h, id, p, left, right, to, i)
        /\ InARow(R, left, right, n, row, x)
        /\ pair = neighbours(R) /\ left = pair.left /\ right = pair.right
        /\ p # 0 /\ totalItems(R, pair) = Len(row)
    BY DEF Paired
  <1>3. PICK M, N, T, y, z :
            /\ M = mergeInto(R, pair) /\ N = nodes' /\ T = nodes
            /\ y = R[id].prevSibling /\ z = R[id].nextSibling
    OBVIOUS
  <1>4. /\ id \in {left, right} /\ to \in {left, right} /\ to # id /\ left # right
        /\ left \in DOMAIN R /\ right \in DOMAIN R
    BY <1>2 DEF Pair
  <1>5. to = IF id = left THEN right ELSE left
    BY SMTT(30), <1>4
  <1>6. MergesInto(R, M, id, left, right, to)
    BY <1>1, <1>2, <1>3, <1>5 DEF MergesInto, mergeInto
  <1>7. /\ Same(T, R, {id}) /\ Stores(R) /\ id \in DOMAIN T
        /\ Structure(R, h, 0) /\ Stored(R, h) /\ DOMAIN R = DOMAIN T
        /\ siblings(R, id) \subseteq DOMAIN T
        /\ siblings(R, id) = {y, z} \ {0}
    BY <1>3, TurnFrame
  <1>8. /\ nodes' = IF M[id].items = <<>> THEN unlink(M, id) ELSE M
        /\ pending' = (M[id].items = <<>>)
    BY <1>1, <1>2, <1>3 DEF EraseStep, EraseTurn
  <1>9. M[id].items = <<>>
    <2>1. PICK U : U = unlink(M, id)
      OBVIOUS
    <2> QED
      BY <1>2, <1>3, <1>6, <1>7, <2>1, MergeMakes
  <1>10. N = unlink(M, id) /\ pending' = TRUE
    BY <1>3, <1>8, <1>9
  <1>11. Merged(R, N, id, to, row, y, z)
    BY <1>2, <1>3, <1>6, <1>7, <1>10, MergeMakes
  <1>12. PICK S : /\ Reworked(R, S, to, id, row, R[to].accumCount + R[id].accumCount,
                               R[to].accum + R[id].accum, <<>>, R[id].accumCount, R[id].accum)
                  /\ Stores(S) /\ TakenOut(S, N, id, y, z)
    BY <1>11 DEF Merged
  <1>13. Same(R, S, {to, id})
    BY <1>12 DEF Reworked, Same, IsFcn
  <1>14. Same(T, S, {id} \cup {to, id})
    BY <1>7, <1>13, SameThen
  <1>15. PICK V : V = {id} \cup {to, id}
    OBVIOUS
  <1>16. Wrote(T, N, (V \cup {id}) \cup ({y, z} \ {0}), {id})
    <2>1. V \subseteq DOMAIN T /\ {y, z} \ {0} \subseteq DOMAIN T
      BY <1>4, <1>7, <1>15
    <2> QED
      BY <1>7, <1>12, <1>14, <1>15, <2>1, OutWrote
  <1>17. /\ EraseWrites(R, id, pair) = ({id} \cup {left, right}) \cup ({y, z} \ {0})
         /\ EraseDeletes(id) = {id}
    BY <1>2, <1>7, <1>10 DEF EraseWrites, EraseDeletes
  <1>18. ({id} \cup {left, right}) = V \cup {id}
    BY <1>4, <1>15
  <1> QED
    BY <1>3, <1>16, <1>17, <1>18

LEMMA LevelWrote ==
    ASSUME NEW h, NEW id, NEW K, NEW R, NEW p, NEW j, Turning(h, id, K, R, p, j),
           tooSmall(R), EraseStep,
           NEW pair, NEW left, NEW right, NEW to, NEW i, NEW n, NEW row, NEW x,
           Paired(h, id, R, p, j, pair, left, right, to, i, n, row, x),
           ~(Len(row) <= REBALANCE_THRESHOLD)
    PROVE  Wrote(nodes, nodes', EraseWrites(R, id, pair), EraseDeletes(id))
  <1>1. id = Crumb.nodeId /\ R = removed /\ oldNew \in Nat
        /\ Thin(nodes, R, h, rootNodeId, id, p, j, oldNew)
    BY DEF Turning
  <1>2. /\ Pair(R, h, id, p, left, right, to, i)
        /\ InARow(R, left, right, n, row, x)
        /\ pair = neighbours(R) /\ left = pair.left /\ right = pair.right
        /\ p # 0 /\ Len(R[id].items) < MIN_ITEMS
        /\ Len(row) \in Nat /\ totalItems(R, pair) = Len(row)
    BY DEF Paired
  <1>3. PICK N, m, T : /\ N = rebalance(R, pair) /\ m = (Len(row) + 1) \div 2
                       /\ T = nodes
    OBVIOUS
  <1>4. Len(row) > REBALANCE_THRESHOLD
    BY <1>2, Sizes
  <1>5. Leveling(nodes, R, h, rootNodeId, id, p, j, oldNew, left, right, to, i, n, row, x, m)
    BY <1>1, <1>2, <1>3, <1>4 DEF Leveling
  <1>6. Levelings(R, h, id, p, left, right, to, i, n, row, x, m)
    BY <1>5, LevelingParts
  <1>7. PICK b, z : /\ b = Len(R[right].items) /\ z = Len(row)
                    /\ LevelSizes(id, left, right, n, b, z, m)
    BY SMTT(30), <1>5, LevelingSizes
  <1>8. m = (z + 1) \div 2 /\ row = R[left].items \o R[right].items
        /\ totalItems(R, pair) = z
    BY SMTT(30), <1>2, <1>3, <1>7 DEF InARow
  <1>9. LevelsOut(R, N, pair, id, left, right, n, row, m)
    BY <1>2, <1>3, <1>6, <1>7, <1>8, RebalanceIs
  <1>11. PICK c, s, e, f : /\ Moves(R, n, row, m, c, s) /\ e = -c /\ f = -s
                           /\ RebalancesInto(R, N, left, right, row, m, c, s, e, f)
    BY <1>9 DEF LevelsOut
  <1>12. PICK L, Q : Rebalanced(R, N, left, right, row, m, L, Q)
    BY <1>6, <1>7, <1>11, RebalanceMakes
  <1>13. Leveled(nodes, R, N, h, rootNodeId, id, p, j, oldNew, left, right, to, i, n, row, x,
                 m, b, z, L, Q)
    BY <1>5, <1>7, <1>12 DEF Leveled
  <1>14. N[id].items # <<>>
    <2>1. Sized(N[left]) /\ Sized(N[right])
      BY <1>1, <1>13, LevelRecorded
    <2>2. id \in {left, right}
      BY <1>2 DEF Pair
    <2>3. Len(N[id].items) \in 1 .. MAX_ITEMS
      BY <2>1, <2>2 DEF Sized
    <2> QED
      BY <2>3
  <1>15. nodes' = N /\ pending' = FALSE
    <2>1. ~(totalItems(R, neighbours(R)) <= REBALANCE_THRESHOLD)
      BY <1>2
    <2>2. /\ nodes' = IF N[id].items = <<>> THEN unlink(N, id) ELSE N
          /\ pending' = (N[id].items = <<>>)
      BY <1>1, <1>2, <1>3, <2>1 DEF EraseStep, EraseTurn
    <2> QED
      BY <2>2, <1>14
  <1>16. /\ Same(T, R, {id}) /\ id \in DOMAIN T /\ DOMAIN R = DOMAIN T
    BY <1>3, TurnFrame
  <1>17. Same(R, N, {left, right})
    <2>1. /\ Stores(N) /\ DOMAIN N = DOMAIN R
          /\ \A a \in DOMAIN R : a # left /\ a # right => N[a] = R[a]
      BY <1>12 DEF Rebalanced, SameLinks
    <2>2. IsFcn(N)
      BY <2>1 DEF Stores, IsFcn
    <2> QED
      BY <2>1, <2>2 DEF Same
  <1>18. Same(T, N, {id} \cup {left, right})
    BY <1>16, <1>17, SameThen
  <1>19. {id} \cup {left, right} \subseteq DOMAIN T
    BY <1>2, <1>16 DEF Pair
  <1>20. Wrote(T, N, {id} \cup {left, right}, {})
    BY <1>18, <1>19, SameWrote
  <1>21. EraseWrites(R, id, pair) = {id} \cup {left, right} /\ EraseDeletes(id) = {}
    BY <1>2, <1>15 DEF EraseWrites, EraseDeletes
  <1> QED
    BY <1>3, <1>15, <1>20, <1>21

LEMMA EraseWrote ==
    ASSUME TreeInv, EraseStep
    PROVE  Wrote(nodes, nodes', EraseWrites(removed, Crumb.nodeId, neighbours(removed)),
                 EraseDeletes(Crumb.nodeId))
  <1>1. PICK h : Shape(h)
    BY TreeInvIs
  <1>2. running = "erase" /\ breadcrumbs # <<>> /\ breadcrumbs \in Seq(CrumbType)
    BY TreeInvIs DEF EraseStep, EraseTurn, TreeTypes
  <1>3. PICK id, K, R, p, j : Turning(h, id, K, R, p, j)
    BY <1>1, <1>2, TurnBegins
  <1>4. id = Crumb.nodeId /\ R = removed
    BY <1>3 DEF Turning
  <1>5. CASE ~tooSmall(R)
    BY <1>3, <1>4, <1>5, AloneWrote
  <1>6. CASE tooSmall(R)
    <2>1. PICK pair, left, right, to, i, n, row, x :
              Paired(h, id, R, p, j, pair, left, right, to, i, n, row, x)
      BY <1>3, <1>6, TurnPair
    <2>2. pair = neighbours(R)
      BY <2>1 DEF Paired
    <2>3. Wrote(nodes, nodes', EraseWrites(R, id, pair), EraseDeletes(id))
      <3>1. CASE Len(row) <= REBALANCE_THRESHOLD
        BY <1>3, <1>6, <2>1, <3>1, JoinWrote
      <3>2. CASE ~(Len(row) <= REBALANCE_THRESHOLD)
        BY <1>3, <1>6, <2>1, <3>2, LevelWrote
      <3> QED
        BY <3>1, <3>2
    <2> QED
      BY <1>4, <2>2, <2>3
  <1> QED
    BY <1>5, <1>6

-----------------------------------------------------------------------------
(* Pages that breadcrumbs point to.                                        *)

(* The last step of a call. *)
LEMMA ReturnWrote ==
    ASSUME TreeInv, EraseReturn
    PROVE  Wrote(nodes, nodes', {},
                 IF rootNodeId' = 0 THEN {} ELSE {rootNodeId} \ {rootNodeId'})
  <1>1. PICK h : Shape(h)
    BY TreeInvIs
  <1>2. PICK T, N, root, single :
            /\ T = nodes /\ N = nodes' /\ root = rootNodeId
            /\ single = (/\ ~pending /\ Len(T[root].items) = 1
                         /\ T[root].items[1].nodeId # 0)
    OBVIOUS
  <1>3. /\ rootNodeId' = IF pending THEN 0
                         ELSE IF single THEN T[root].items[1].nodeId ELSE root
        /\ N = IF single THEN deleteNode(T, root) ELSE T
        /\ running = "erase" /\ breadcrumbs = <<>>
    BY <1>2 DEF EraseReturn
  <1>4. current = 0 /\ ahead = T
    BY <1>2, <1>3 DEF current, ahead
  <1>5. /\ Structure(T, h, 0) /\ Stored(T, h)
        /\ ~pending => Rooted(T, h, root)
    BY <1>1, <1>2, <1>3, <1>4 DEF Shape, Erasing
  <1>6. IsFcn(T)
    BY <1>5 DEF Stored, IsFcn
  <1>7. CASE pending
    <2>1. N = T /\ rootNodeId' = 0
      BY <1>2, <1>3, <1>7
    <2> QED
      BY <1>2, <1>6, <2>1 DEF Wrote
  <1>8. CASE ~pending /\ ~single
    <2>1. N = T /\ rootNodeId' = root
      BY <1>3, <1>8
    <2> QED
      BY <1>2, <1>6, <2>1 DEF Wrote
  <1>9. CASE single
    <2>1. PICK c : c = T[root].items[1].nodeId
      OBVIOUS
    <2>2. ~pending /\ Len(T[root].items) = 1 /\ c # 0 /\ root \in DOMAIN T
      BY <1>2, <1>5, <1>9, <2>1 DEF Rooted
    <2>3. N = deleteNode(T, root) /\ rootNodeId' = c
      BY <1>3, <1>9, <2>1, <2>2
    <2>4. c # root
      <3>1. LevelsAt(T, h, root)
        BY <1>5, <2>2 DEF Structure
      <3>2. 1 \in DOMAIN T[root].items /\ h[root] \in Nat
        <4>1. DOMAIN T[root].items = 1 .. Len(T[root].items)
          BY <1>5, <2>2, NodeFacts
        <4>2. h[root] \in Nat
          BY <1>5, <2>2 DEF Stored
        <4> QED
          BY <2>2, <4>1, <4>2
      <3>3. h[c] = h[root] - 1
        BY <2>1, <2>2, <3>1, <3>2 DEF LevelsAt
      <3> QED
        BY <3>2, <3>3
    <2>5. (IF rootNodeId' = 0 THEN {} ELSE {rootNodeId} \ {rootNodeId'}) = {root}
      BY <1>2, <2>2, <2>3, <2>4
    <2>6. Wrote(T, N, {}, {root})
      BY <2>3 DEF Wrote, deleteNode, IsFcn
    <2> QED
      BY <1>2, <2>5, <2>6
  <1> QED
    BY <1>2, <1>7, <1>8, <1>9

-----------------------------------------------------------------------------
(* Where LMDB moves no records, a call reads the number of items of a node *)
(* above through its breadcrumb as it is: nothing written on the way up    *)
(* has outdated it. *)
CrumbsRead ==
    \A c \in ToSet(breadcrumbs) :
        c.nodeId \in DOMAIN pages => pages[c.nodeId] = {Len(keysOf(c.nodeId))}

(* The nodes of the breadcrumbs that are left keep their keys. *)
KeptUp(h) ==
    \A a \in DOMAIN nodes :
        h[a] > h[Crumb.nodeId] => nodes'[a].items = nodes[a].items

LEMMA CallPath ==
    ASSUME NEW h, Shape(h), breadcrumbs # <<>>, running = "insert" \/ running = "erase"
    PROVE  PathFrom(rootNodeId, h)
  BY DEF Shape, Inserting, Erasing

LEMMA CrumbsGoUp ==
    ASSUME NEW h, Shape(h), breadcrumbs \in Seq(CrumbType), breadcrumbs # <<>>,
           running = "insert" \/ running = "erase", CrumbsRead, KeptUp(h),
           breadcrumbs' = Front(breadcrumbs), pages' = pages
    PROVE  CrumbsRead'
  <1>1. PathFrom(rootNodeId, h)
    BY CallPath
  <1>2. PICK s, t, n, T, N : /\ s = breadcrumbs /\ t = breadcrumbs' /\ n = Len(s)
                             /\ T = nodes /\ N = nodes'
    OBVIOUS
  <1>3. n \in Nat /\ n > 0 /\ DOMAIN s = 1 .. n /\ s \in Seq(CrumbType)
    BY <1>2, LenProperties, EmptySeq
  <1>4. Fronts(s, t)
    BY <1>2, <1>3, FrontIs
  <1>5. Crumb = s[n]
    BY <1>2 DEF Crumb, Last
  <1>6. Stored(T, h)
    BY <1>2 DEF Shape
  <1>7. ASSUME NEW c \in ToSet(t), c.nodeId \in DOMAIN pages
        PROVE  pages[c.nodeId] = {Len(N[c.nodeId].items)}
    <2>1. PICK k \in DOMAIN t : t[k] = c
      BY DEF ToSet
    <2>2. k \in 1 .. n - 1 /\ s[k] = c
      BY <1>2, <1>4, <2>1 DEF Fronts
    <2>3. k \in 1 .. n /\ n \in 1 .. n /\ k < n
      BY <1>3, <2>2
    <2>4. c \in ToSet(s)
      BY <1>3, <2>2, <2>3 DEF ToSet
    <2>5. /\ c.nodeId \in DOMAIN T /\ h[c.nodeId] = h[rootNodeId] + 1 - k
          /\ s[n].nodeId \in DOMAIN T /\ h[s[n].nodeId] = h[rootNodeId] + 1 - n
          /\ s[1].nodeId = rootNodeId /\ s[1].nodeId \in DOMAIN T
      <3>1. k \in DOMAIN s /\ n \in DOMAIN s /\ 1 \in DOMAIN s
        BY <1>3, <2>3
      <3> QED
        BY <1>1, <1>2, <2>2, <3>1 DEF PathFrom
    <2>6. h[rootNodeId] \in Nat
      BY <1>6, <2>5 DEF Stored
    <2>7. h[c.nodeId] > h[s[n].nodeId]
      BY <1>3, <2>3, <2>5, <2>6
    <2>8. N[c.nodeId].items = T[c.nodeId].items
      BY <1>2, <1>5, <2>5, <2>7 DEF KeptUp
    <2> QED
      BY <1>2, <1>7, <2>4, <2>8 DEF CrumbsRead, keysOf
  <1> QED
    BY <1>2, <1>7 DEF CrumbsRead, keysOf

LEMMA KeptSame ==
    ASSUME NEW h, Shape(h), breadcrumbs # <<>>, breadcrumbs \in Seq(CrumbType),
           running = "insert" \/ running = "erase",
           \A a \in DOMAIN nodes : a # Crumb.nodeId => nodes'[a].items = nodes[a].items
    PROVE  KeptUp(h)
  <1>1. PICK id : id = Crumb.nodeId
    OBVIOUS
  <1>2. id \in DOMAIN nodes
    <2>1. PathFrom(rootNodeId, h)
      BY CallPath
    <2>2. Len(breadcrumbs) \in DOMAIN breadcrumbs /\ Crumb = breadcrumbs[Len(breadcrumbs)]
      BY LenProperties, EmptySeq DEF Crumb, Last
    <2> QED
      BY <1>1, <2>1, <2>2 DEF PathFrom
  <1>3. h[id] \in Nat
    BY <1>2 DEF Shape, Stored
  <1>4. ASSUME NEW a \in DOMAIN nodes, h[a] > h[id]
        PROVE  a # id
    BY <1>3, <1>4
  <1> QED
    BY <1>1, <1>4 DEF KeptUp

LEMMA SplitKept ==
    ASSUME NEW h, Shape(h), TreeInv, InsertSplit
    PROVE  \A a \in DOMAIN nodes : a # Crumb.nodeId => nodes'[a].items = nodes[a].items
  <1>1. TreeTypes
    BY TreeInvIs
  <1>2. PICK left, m, K, F : Split(h, left, nextNodeId, m, K, F)
    BY <1>1, InsertSplits DEF TreeTypes
  <1>3. Amid(h, left, K) /\ Halved(nodes, nodes', left, nextNodeId, m, K, F)
    BY <1>2 DEF Split, Splitting
  <1>4. left = Crumb.nodeId
    BY <1>3 DEF Amid, current
  <1> QED
    BY <1>3, <1>4 DEF Halved

-----------------------------------------------------------------------------
(* The inductive invariant: what was committed is a tree as well. *)
LMDBInv ==
    /\ TreeInv
    /\ CacheCoherent
    /\ CrumbsRead
    /\ IsFcn(table)
    /\ RestTree(committed.table, committed.meta.rootNodeId,
                committed.meta.nextNodeId, committed.contents)
    /\ IsFcn(committed.table)
    /\ committed.load \in Seq(Items)

LEMMA FirstLMDB == LMDBInit => LMDBInv
  <1> SUFFICES ASSUME LMDBInit
               PROVE  LMDBInv
    OBVIOUS
  <1>1. /\ Init /\ dirtyNodeCache = <<>> /\ table = <<>> /\ pages = <<>>
        /\ committed.table = table /\ committed.meta = meta
        /\ meta.rootNodeId = 0 /\ meta.nextNodeId = 1
        /\ committed.contents = {} /\ committed.load = load
    BY DEF LMDBInit
  <1>2. TreeInv
    BY <1>1, FirstTree
  <1>3. /\ nodes = <<>> /\ rootNodeId = 0 /\ nextNodeId = 1 /\ contents = {}
        /\ breadcrumbs = <<>> /\ Idle
    BY <1>1 DEF Init, Idle
  <1>4. IsFcn(table)
    <2>1. PICK e : e = <<>>
      OBVIOUS
    <2>2. e = [x \in DOMAIN e |-> e[x]]
      BY <2>1
    <2> QED
      BY <1>1, <2>1, <2>2 DEF IsFcn
  <1>5. CacheCoherent
    BY <1>1, <1>3, <1>4, OverNothing DEF CacheCoherent, Readable
  <1>6. CrumbsRead
    <2>1. ToSet(breadcrumbs) = {}
      BY <1>3 DEF ToSet
    <2> QED
      BY <2>1 DEF CrumbsRead
  <1>7. RestTree(nodes, rootNodeId, nextNodeId, contents)
    BY <1>2, <1>3, IdleRests
  <1>8. load \in Seq(Items)
    BY <1>2 DEF TreeInv
  <1> QED
    BY <1>1, <1>2, <1>3, <1>4, <1>5, <1>6, <1>7, <1>8 DEF LMDBInv

-----------------------------------------------------------------------------
(* Steps of calls. *)
LEMMA StoredLMDB ==
    ASSUME LMDBInv, TreeInv', CrumbsRead', NEW W, NEW D, Store(W, D),
           Wrote(nodes, nodes', W, D)
    PROVE  LMDBInv'
  <1>1. CacheCoherent' /\ IsFcn(table')
    BY StoreCoherent DEF LMDBInv
  <1>2. committed' = committed
    BY DEF Store
  <1> QED
    BY <1>1, <1>2 DEF LMDBInv

LEMMA NothingWrote ==
    ASSUME TreeInv, nodes' = nodes
    PROVE  Wrote(nodes, nodes', {}, {})
  BY NodesFcn DEF Wrote

LEMMA NoCrumbs ==
    ASSUME breadcrumbs' = <<>>
    PROVE  CrumbsRead'
  <1>1. ToSet(breadcrumbs') = {}
    BY DEF ToSet
  <1> QED
    BY <1>1 DEF CrumbsRead

LEMMA CallNode ==
    ASSUME TreeInv, running = "insert" \/ running = "erase", breadcrumbs # <<>>
    PROVE  {Crumb.nodeId} \subseteq DOMAIN nodes
  <1>1. PICK h : Shape(h)
    BY TreeInvIs
  <1>2. PathFrom(rootNodeId, h)
    BY <1>1, CallPath
  <1>3. breadcrumbs \in Seq(CrumbType)
    BY TreeInvIs DEF TreeTypes
  <1>4. Len(breadcrumbs) \in DOMAIN breadcrumbs /\ Crumb = breadcrumbs[Len(breadcrumbs)]
    BY <1>3, LenProperties, EmptySeq DEF Crumb, Last
  <1> QED
    BY <1>2, <1>4 DEF PathFrom

(* A call begins at rest; then the pages are read as the nodes. *)
LEMMA BeginFresh ==
    ASSUME LMDBInv, TreeInv', nodes' = nodes,
           pages' = [id \in {c.nodeId : c \in ToSet(breadcrumbs')}
                               \ DOMAIN dirtyNodeCache
                        |-> {Len(table[id].items)}]
    PROVE  CrumbsRead'
  <1>1. PICK c, s, T, P, B : /\ c = dirtyNodeCache /\ s = table /\ T = nodes
                             /\ P = pages' /\ B = breadcrumbs'
    OBVIOUS
  <1>2. T = over(c, s)
    BY <1>1 DEF LMDBInv, CacheCoherent, Readable
  <1>3. Overlaid(c, s, T)
    BY <1>2, OverIs
  <1>4. PICK h : Shape(h)'
    BY DEF TreeInv
  <1>5. ASSUME NEW x \in ToSet(B)
        PROVE  x.nodeId \in DOMAIN T
    <2>1. B # <<>>
      BY <1>5 DEF ToSet
    <2>2. running' \in {"none", "insert", "erase"}
      BY DEF TreeInv
    <2>3. PathFrom(rootNodeId, h)'
      BY <1>1, <1>4, <2>1, <2>2 DEF Shape, AtRest, Inserting, Erasing
    <2>4. PICK k \in DOMAIN B : B[k] = x
      BY <1>5 DEF ToSet
    <2> QED
      BY <1>1, <2>3, <2>4 DEF PathFrom
  <1>6. ASSUME NEW x \in ToSet(B), x.nodeId \in DOMAIN P
        PROVE  P[x.nodeId] = {Len(T[x.nodeId].items)}
    <2>1. PICK id : id = x.nodeId
      OBVIOUS
    <2>2. id \notin DOMAIN c /\ P[id] = {Len(s[id].items)}
      BY <1>1, <1>6, <2>1
    <2>3. id \in DOMAIN T
      BY <1>5, <2>1
    <2>4. T[id] = s[id]
      BY <1>3, <2>2, <2>3 DEF Overlaid
    <2> QED
      BY <2>1, <2>2, <2>4
  <1> QED
    BY <1>1, <1>6 DEF CrumbsRead, keysOf

LEMMA BeginLMDB ==
    ASSUME LMDBInv, BeginCall
    PROVE  LMDBInv'
  <1>1. TreeInv /\ TreeInv'
    <2>1. Next
      BY DEF BeginCall, Next
    <2> QED
      BY <2>1, NextTree DEF LMDBInv
  <1>2. PICK item \in Items : Insert(item) \/ Erase(item)
    <2>1. CASE LoadNext
      <3>1. Head(load) \in Items
        BY <1>1, <2>1 DEF LoadNext, TreeInv
      <3> QED
        BY <2>1, <3>1 DEF LoadNext
    <2>2. CASE Operate
      BY <2>2 DEF Operate
    <2> QED
      BY <2>1, <2>2 DEF BeginCall
  <1>3. Idle
    BY <1>2 DEF Insert, Erase
  <1>4. breadcrumbs = <<>>
    <2>1. PICK h : Shape(h)
      BY <1>1, TreeInvIs
    <2> QED
      BY <1>3, <2>1, SoundAtRest
  <1>5. CASE rootNodeId = 0
    <2>1. /\ nodes' = refill(makeNode(nodes), nextNodeId, <<Key(item, 0)>>)
          /\ breadcrumbs' = breadcrumbs
      BY <1>2, <1>5 DEF Insert, Erase, callVars
    <2>2. Wrote(nodes, nodes', {nextNodeId}, {})
      BY <2>1, FirstWrote
    <2>3. Store({nextNodeId}, {})
      BY <1>5 DEF BeginCall
    <2>4. CrumbsRead'
      BY <1>4, <2>1, NoCrumbs
    <2> QED
      BY <1>1, <2>2, <2>3, <2>4, StoredLMDB
  <1>6. CASE rootNodeId # 0
    <2>1. nodes' = nodes
      BY <1>2, <1>6 DEF Insert, Erase, treeVars
    <2>2. Wrote(nodes, nodes', {}, {})
      BY <1>1, <2>1, NothingWrote
    <2>3. Store({}, {})
      BY <1>6 DEF BeginCall
    <2>4. CrumbsRead'
      BY <1>1, <2>1, BeginFresh DEF BeginCall
    <2> QED
      BY <1>1, <2>2, <2>3, <2>4, StoredLMDB
  <1> QED
    BY <1>5, <1>6

LEMMA CallStep ==
    ASSUME LMDBInv, InsertUpdate \/ InsertMerge \/ InsertSplit \/ EraseStep,
           UNCHANGED pages
    PROVE  TreeInv /\ TreeInv' /\ CrumbsRead'
  <1>1. TreeInv /\ TreeInv'
    <2>1. Next
      BY DEF Next
    <2> QED
      BY <2>1, NextTree DEF LMDBInv
  <1>2. PICK h : Shape(h)
    BY <1>1, TreeInvIs
  <1>3. TreeTypes
    BY <1>1, TreeInvIs
  <1>4. /\ breadcrumbs # <<>> /\ breadcrumbs \in Seq(CrumbType)
        /\ running = "insert" \/ running = "erase"
        /\ breadcrumbs' = Front(breadcrumbs)
    BY <1>3 DEF InsertUpdate, InsertMerge, InsertSplit, EraseStep, EraseTurn, TreeTypes
  <1>5. KeptUp(h)
    <2>1. CASE InsertUpdate \/ InsertMerge
      <3>1. Same(nodes, nodes', {Crumb.nodeId})
        BY <1>1, <2>1, UpdateWrote, MergeWrote
      <3>2. \A a \in DOMAIN nodes : a # Crumb.nodeId => nodes'[a].items = nodes[a].items
        BY <3>1 DEF Same
      <3> QED
        BY <1>2, <1>4, <3>2, KeptSame
    <2>2. CASE InsertSplit
      <3>1. \A a \in DOMAIN nodes : a # Crumb.nodeId => nodes'[a].items = nodes[a].items
        BY <1>1, <1>2, <2>2, SplitKept
      <3> QED
        BY <1>2, <1>4, <3>1, KeptSame
    <2>3. CASE EraseStep
      <3>1. AboveKept(nodes, nodes', h, Crumb.nodeId)
        BY <1>2, <1>4, <2>3, EraseStepShape
      <3> QED
        BY <3>1 DEF AboveKept, KeptUp
    <2> QED
      BY <2>1, <2>2, <2>3
  <1>6. CrumbsRead'
    BY <1>2, <1>4, <1>5, CrumbsGoUp DEF LMDBInv
  <1> QED
    BY <1>1, <1>6

LEMMA InsertStepLMDB ==
    ASSUME LMDBInv, InsertStep
    PROVE  LMDBInv'
  <1>1. PICK id : id = Crumb.nodeId
    OBVIOUS
  <1>2. CASE InsertUpdate /\ Store({id}, {})
    <2>1. TreeInv /\ TreeInv' /\ CrumbsRead'
      BY <1>2, CallStep DEF InsertStep
    <2>2. Same(nodes, nodes', {id})
      BY <1>1, <1>2, <2>1, UpdateWrote
    <2>3. Wrote(nodes, nodes', {id}, {})
      BY <1>1, <1>2, <2>1, <2>2, SameWrote, CallNode DEF InsertUpdate
    <2> QED
      BY <1>2, <2>1, <2>3, StoredLMDB
  <1>3. CASE InsertMerge /\ Store({id}, {})
    <2>1. TreeInv /\ TreeInv' /\ CrumbsRead'
      BY <1>3, CallStep DEF InsertStep
    <2>2. Same(nodes, nodes', {id})
      BY <1>1, <1>3, <2>1, MergeWrote
    <2>3. Wrote(nodes, nodes', {id}, {})
      BY <1>1, <1>3, <2>1, <2>2, SameWrote, CallNode DEF InsertMerge
    <2> QED
      BY <1>3, <2>1, <2>3, StoredLMDB
  <1>4. CASE InsertSplit /\ Store({id, nextNodeId, nodes[id].nextSibling} \ {0}, {})
    <2>1. TreeInv /\ TreeInv' /\ CrumbsRead'
      BY <1>4, CallStep DEF InsertStep
    <2>2. Wrote(nodes, nodes', {id, nextNodeId, nodes[id].nextSibling} \ {0}, {})
      BY <1>1, <1>4, <2>1, SplitWrote
    <2> QED
      BY <1>4, <2>1, <2>2, StoredLMDB
  <1> QED
    BY <1>1, <1>2, <1>3, <1>4 DEF InsertStep

(* A turn of the loop finds its node to be small when it is. *)
LEMMA TurnReads ==
    ASSUME CrumbsRead, needsItems(removed), breadcrumbs \in Seq(CrumbType)
    PROVE  {n > 1 : n \in parentItems} = {tooSmall(removed)}
  <1>1. PICK c : c = breadcrumbs[Len(breadcrumbs) - 1]
    OBVIOUS
  <1>2. c \in ToSet(breadcrumbs)
    <2>1. Len(breadcrumbs) > 1
      BY DEF needsItems
    <2>2. Len(breadcrumbs) - 1 \in 1 .. Len(breadcrumbs)
      BY <2>1
    <2>3. DOMAIN breadcrumbs = 1 .. Len(breadcrumbs)
      OBVIOUS
    <2> QED
      BY <1>1, <2>2, <2>3 DEF ToSet
  <1>3. Parent.items = nodes[c.nodeId].items
    BY <1>1 DEF Parent
  <1>4. parentItems = {Len(nodes[c.nodeId].items)}
    BY <1>1, <1>2 DEF parentItems, CrumbsRead, keysOf
  <1>5. tooSmall(removed) = (Len(Parent.items) > 1)
    BY DEF tooSmall
  <1> QED
    BY <1>3, <1>4, <1>5

LEMMA EraseNodeTurns ==
    ASSUME LMDBInv, EraseNode, RecordsMove = FALSE
    PROVE  /\ EraseStep /\ UNCHANGED pages
           /\ Store(EraseWrites(removed, Crumb.nodeId, neighbours(removed)),
                    EraseDeletes(Crumb.nodeId))
  <1>1. PICK id, pair : id = Crumb.nodeId /\ pair = neighbours(removed)
    OBVIOUS
  <1>2. PICK small \in IF running = "erase" /\ breadcrumbs # <<>> /\ needsItems(removed)
                       THEN {n > 1 : n \in parentItems} ELSE {FALSE} :
            /\ EraseTurn(small)
            /\ Store({id}
                       \cup (IF small THEN {pair.left, pair.right} ELSE {})
                       \cup (IF pending' THEN siblings(removed, id) ELSE {}),
                     EraseDeletes(id))
            /\ pages' = movedBy(EraseDeletes(id))
    BY <1>1 DEF EraseNode, EraseDeletes
  <1>3. running = "erase" /\ breadcrumbs # <<>>
    BY <1>2 DEF EraseTurn
  <1>4. CrumbsRead /\ breadcrumbs \in Seq(CrumbType)
    BY TreeInvIs DEF LMDBInv, TreeTypes
  <1>5. small = tooSmall(removed)
    <2>1. CASE needsItems(removed)
      BY <1>2, <1>3, <1>4, <2>1, TurnReads
    <2>2. CASE ~needsItems(removed)
      BY <1>2, <2>2 DEF tooSmall
    <2> QED
      BY <2>1, <2>2
  <1>6. EraseStep
    BY <1>2, <1>5 DEF EraseStep
  <1>7. Store(EraseWrites(removed, id, pair), EraseDeletes(id))
    BY <1>2, <1>5 DEF EraseWrites
  <1>8. pages' = pages
    BY <1>2 DEF movedBy
  <1> QED
    BY <1>1, <1>6, <1>7, <1>8

LEMMA EraseNodeLMDB ==
    ASSUME LMDBInv, EraseNode, RecordsMove = FALSE
    PROVE  LMDBInv'
  <1>1. PICK id, pair : id = Crumb.nodeId /\ pair = neighbours(removed)
    OBVIOUS
  <1>2. /\ EraseStep /\ UNCHANGED pages
        /\ Store(EraseWrites(removed, id, pair), EraseDeletes(id))
    BY <1>1, EraseNodeTurns
  <1>3. TreeInv /\ TreeInv' /\ CrumbsRead'
    BY <1>2, CallStep
  <1>4. Wrote(nodes, nodes', EraseWrites(removed, id, pair), EraseDeletes(id))
    BY <1>1, <1>2, <1>3, EraseWrote
  <1> QED
    BY <1>2, <1>3, <1>4, StoredLMDB

LEMMA EndLMDB ==
    ASSUME LMDBInv, EndCall
    PROVE  LMDBInv'
  <1>1. TreeInv /\ TreeInv'
    <2>1. Next
      BY DEF EndCall, Next
    <2> QED
      BY <2>1, NextTree DEF LMDBInv
  <1>2. CrumbsRead'
    <2>1. breadcrumbs' = <<>>
      BY DEF EndCall, InsertNewRoot, InsertReturn, EraseReturn, Return
    <2> QED
      BY <2>1, NoCrumbs
  <1>3. CASE InsertNewRoot /\ Store({nextNodeId}, {})
    <2>1. Wrote(nodes, nodes', {nextNodeId}, {})
      BY <1>3, FirstWrote DEF InsertNewRoot
    <2> QED
      BY <1>1, <1>2, <1>3, <2>1, StoredLMDB
  <1>4. CASE InsertReturn /\ Store({}, {})
    <2>1. Wrote(nodes, nodes', {}, {})
      BY <1>1, <1>4, NothingWrote DEF InsertReturn, treeVars
    <2> QED
      BY <1>1, <1>2, <1>4, <2>1, StoredLMDB
  <1>5. CASE /\ EraseReturn
             /\ Store({}, IF rootNodeId' = 0 THEN {} ELSE {rootNodeId} \ {rootNodeId'})
    BY <1>1, <1>2, <1>5, ReturnWrote, StoredLMDB
  <1> QED
    BY <1>3, <1>4, <1>5 DEF EndCall

-----------------------------------------------------------------------------
(* Saving, and beginning again.                                            *)

(* A step that leaves the tree as it is and rewrites where it is kept. *)
LEMMA FlushLMDB ==
    ASSUME LMDBInv, flush
    PROVE  LMDBInv'
  <1>1. /\ UNCHANGED vars /\ dirtyNodeCache' = <<>> /\ table' = over(dirtyNodeCache, table)
        /\ committed' = committed /\ pages' = pages
    BY DEF flush, flushed
  <1>2. /\ nodes' = nodes /\ breadcrumbs' = breadcrumbs /\ Idle
    BY <1>1 DEF vars, treeVars, callVars, flush
  <1>3. TreeInv'
    BY <1>1, StutterTree DEF LMDBInv
  <1>4. breadcrumbs = <<>>
    <2>1. TreeInv
      BY DEF LMDBInv
    <2>2. PICK h : Shape(h)
      BY <2>1, TreeInvIs
    <2> QED
      BY <1>2, <2>2, SoundAtRest
  <1>5. CrumbsRead'
    BY <1>2, <1>4, NoCrumbs
  <1>6. table' = nodes /\ IsFcn(table')
    <2>1. nodes = over(dirtyNodeCache, table)
      BY DEF LMDBInv, CacheCoherent, Readable
    <2>2. IsFcn(nodes)
      BY NodesFcn DEF LMDBInv
    <2> QED
      BY <1>1, <2>1, <2>2
  <1>7. over(dirtyNodeCache', table') = table'
    BY <1>1, <1>6, OverNothing
  <1>8. CacheCoherent'
    BY <1>2, <1>6, <1>7 DEF CacheCoherent, Readable
  <1> QED
    BY <1>1, <1>3, <1>5, <1>6, <1>8 DEF LMDBInv

(* An object made in a transaction that holds a tree at rest. *)
LEMMA ConstructLMDB ==
    ASSUME Construct, IsFcn(table'), load' \in Seq(Items),
           RestTree(table', meta'.rootNodeId, meta'.nextNodeId, contents')
    PROVE  TreeInv' /\ CacheCoherent' /\ CrumbsRead'
  <1>1. TreeInv'
    BY ConstructRests
  <1>2. dirtyNodeCache' = <<>> /\ nodes' = table' /\ breadcrumbs' = <<>>
    BY DEF Construct
  <1>3. over(dirtyNodeCache', table') = table'
    BY <1>2, OverNothing
  <1> QED
    BY <1>1, <1>2, <1>3, NoCrumbs DEF CacheCoherent, Readable

LEMMA ReconstructLMDB ==
    ASSUME LMDBInv, Reconstruct
    PROVE  LMDBInv'
  <1>1. /\ Construct /\ Idle /\ table' = over(dirtyNodeCache, table)
        /\ meta' = metaDataCache /\ contents' = contents /\ load' = load
        /\ committed' = committed
    BY DEF Reconstruct, flushed, flushedMeta
  <1>2. RestTree(nodes, rootNodeId, nextNodeId, contents)
    BY <1>1, IdleRests DEF LMDBInv
  <1>3. table' = nodes /\ IsFcn(nodes)
    BY <1>1, NodesFcn DEF LMDBInv, CacheCoherent, Readable
  <1>4. meta'.rootNodeId = rootNodeId /\ meta'.nextNodeId = nextNodeId
    BY <1>1 DEF metaDataCache
  <1>5. load' \in Seq(Items)
    BY <1>1 DEF LMDBInv, TreeInv
  <1>6. TreeInv' /\ CacheCoherent' /\ CrumbsRead'
    BY <1>1, <1>2, <1>3, <1>4, <1>5, ConstructLMDB
  <1> QED
    BY <1>1, <1>3, <1>6 DEF LMDBInv

LEMMA CommitLMDB ==
    ASSUME LMDBInv, Commit
    PROVE  LMDBInv'
  <1>1. /\ Construct /\ Idle /\ dirtyNodeCache = <<>> /\ meta = metaDataCache
        /\ table' = table /\ meta' = meta /\ contents' = contents /\ load' = load
        /\ committed' = [table |-> table, meta |-> meta, contents |-> contents,
                         load |-> load, ops |-> ops]
    BY DEF Commit
  <1>2. RestTree(nodes, rootNodeId, nextNodeId, contents)
    BY <1>1, IdleRests DEF LMDBInv
  <1>3. nodes = table
    <2>1. IsFcn(table) /\ nodes = over(dirtyNodeCache, table)
      BY DEF LMDBInv, CacheCoherent, Readable
    <2> QED
      BY <1>1, <2>1, OverNothing
  <1>4. meta.rootNodeId = rootNodeId /\ meta.nextNodeId = nextNodeId
    BY <1>1 DEF metaDataCache
  <1>5. load \in Seq(Items) /\ IsFcn(table)
    BY DEF LMDBInv, TreeInv
  <1>6. TreeInv' /\ CacheCoherent' /\ CrumbsRead'
    BY <1>1, <1>2, <1>3, <1>4, <1>5, ConstructLMDB
  <1>7. /\ committed'.table = nodes /\ committed'.meta.rootNodeId = rootNodeId
        /\ committed'.meta.nextNodeId = nextNodeId
        /\ committed'.contents = contents /\ committed'.load = load
    BY <1>1, <1>3, <1>4
  <1> QED
    BY <1>1, <1>2, <1>3, <1>5, <1>6, <1>7 DEF LMDBInv

LEMMA AbandonLMDB ==
    ASSUME LMDBInv, Abandon
    PROVE  LMDBInv'
  <1>1. /\ Construct /\ table' = committed.table /\ meta' = committed.meta
        /\ contents' = committed.contents /\ load' = committed.load
        /\ committed' = committed
    BY DEF Abandon
  <1>2. TreeInv' /\ CacheCoherent' /\ CrumbsRead'
    BY <1>1, ConstructLMDB DEF LMDBInv
  <1> QED
    BY <1>1, <1>2 DEF LMDBInv

LEMMA StutterLMDB ==
    ASSUME LMDBInv, UNCHANGED allVars
    PROVE  LMDBInv'
  <1>1. /\ UNCHANGED vars /\ dirtyNodeCache' = dirtyNodeCache /\ table' = table
        /\ committed' = committed /\ pages' = pages
        /\ nodes' = nodes /\ breadcrumbs' = breadcrumbs
    BY DEF allVars, lmdbVars, vars, treeVars, callVars
  <1>2. TreeInv'
    BY <1>1, StutterTree DEF LMDBInv
  <1>3. CacheCoherent' /\ CrumbsRead'
    BY <1>1 DEF LMDBInv, CacheCoherent, Readable, CrumbsRead, keysOf
  <1> QED
    BY <1>1, <1>2, <1>3 DEF LMDBInv

LEMMA NextLMDB ==
    ASSUME LMDBInv, [LMDBNext]_allVars, RecordsMove = FALSE
    PROVE  LMDBInv'
  <1>1. CASE Rest /\ UNCHANGED lmdbVars
    BY <1>1, StutterLMDB DEF Rest, allVars
  <1>2. CASE UNCHANGED allVars
    BY <1>2, StutterLMDB
  <1> QED
    BY <1>1, <1>2, BeginLMDB, InsertStepLMDB, EraseNodeLMDB, EndLMDB, FlushLMDB,
       ReconstructLMDB, CommitLMDB, AbandonLMDB DEF LMDBNext

(* Over LMDB too the tree keeps its shape, and the cache and the table are  *)
(* the tree (LMDBInv), whatever is flushed, committed or abandoned, where a *)
(* node has pages of its own (with 4 KB pages: it takes 3952 bytes). *)
THEOREM StoreStays ==
    ASSUME RecordsMove = FALSE
    PROVE  LMDBSpec => []LMDBInv
  <1>1. LMDBInit => LMDBInv
    BY FirstLMDB
  <1>2. LMDBInv /\ [LMDBNext]_allVars => LMDBInv'
    BY NextLMDB
  <1> QED
    BY <1>1, <1>2, PTL DEF LMDBSpec

LEMMA CachePromises == LMDBInv => CacheCoherent /\ FreshNodeIds
  <1>1. SUFFICES ASSUME LMDBInv
                 PROVE  CacheCoherent /\ FreshNodeIds
    OBVIOUS
  <1>2. CacheCoherent
    BY <1>1 DEF LMDBInv
  <1>3. nextNodeId \in Nat /\ DOMAIN nodes \subseteq 1 .. nextNodeId - 1
    BY <1>1 DEF LMDBInv, TreeInv
  <1>4. FreshNodeIds
    BY <1>2, <1>3 DEF CacheCoherent, FreshNodeIds
  <1> QED
    BY <1>2, <1>4

(* getNodeRead() returns what was written last, from the cache or the       *)
(* table, and nothing that was deleted (nodes with pages of their own). *)
THEOREM CacheStays ==
    ASSUME RecordsMove = FALSE
    PROVE  LMDBSpec => []CacheCoherent
  BY StoreStays, CachePromises, PTL

(* makeNode() after a flush or in a new transaction gives out no id that    *)
(* the table has (nodes with pages of their own). *)
THEOREM FreshIdsStay ==
    ASSUME RecordsMove = FALSE
    PROVE  LMDBSpec => []FreshNodeIds
  BY StoreStays, CachePromises, PTL

-----------------------------------------------------------------------------
(* The items under a node, level by level. *)
gathered(f, T, id) ==
    IF id = 0 THEN {}
    ELSE UNION {IF key.nodeId = 0 THEN {key.item} ELSE
                IF key.nodeId \in DOMAIN T THEN f[key.nodeId]
                ELSE {} : key \in ToSet(T[id].items)}

Gathers(f, T, h, n) ==
    /\ DOMAIN f = DOMAIN T \cup {0}
    /\ IsFcn(f)
    /\ f[0] = {}
    /\ \A id \in DOMAIN T : h[id] < n => f[id] = gathered(f, T, id)

(* What the levels of a tree say about a key. *)
LEMMA KeyLevel ==
    ASSUME NEW T, NEW h, Stored(T, h), Structure(T, h, 0), NEW id \in DOMAIN T,
           NEW key \in ToSet(T[id].items)
    PROVE  /\ h[id] \in Nat /\ id # 0
           /\ h[id] = 0 => key.nodeId = 0
           /\ h[id] # 0 => key.nodeId \in DOMAIN T /\ key.nodeId # 0
                           /\ h[key.nodeId] = h[id] - 1 /\ h[key.nodeId] \in Nat
  <1>1. PICK i \in DOMAIN T[id].items : T[id].items[i] = key
    BY DEF ToSet
  <1>2. LevelsAt(T, h, id)
    BY DEF Structure
  <1>3. IF h[id] = 0 THEN key.nodeId = 0
        ELSE key.nodeId \in DOMAIN T /\ h[key.nodeId] = h[id] - 1
    BY <1>1, <1>2 DEF LevelsAt
  <1>4. \A a \in DOMAIN T : a # 0 /\ h[a] \in Nat
    BY DEF Stored
  <1> QED
    BY <1>3, <1>4

(* Nodes whose children have the same items under them have so themselves. *)
LEMMA GatheredSame ==
    ASSUME NEW T, NEW h, Stored(T, h), Structure(T, h, 0), NEW id \in DOMAIN T,
           NEW f, NEW g,
           \A c \in DOMAIN T : h[c] = h[id] - 1 => f[c] = g[c]
    PROVE  gathered(f, T, id) = gathered(g, T, id)
  <1>1. ASSUME NEW key \in ToSet(T[id].items)
        PROVE  (IF key.nodeId = 0 THEN {key.item} ELSE
                IF key.nodeId \in DOMAIN T THEN f[key.nodeId] ELSE {})
             = (IF key.nodeId = 0 THEN {key.item} ELSE
                IF key.nodeId \in DOMAIN T THEN g[key.nodeId] ELSE {})
    BY KeyLevel
  <1> QED
    BY <1>1 DEF gathered

LEMMA GatherExists ==
    ASSUME NEW T, NEW h, Stored(T, h), Structure(T, h, 0), NEW n \in Nat
    PROVE  \E f : Gathers(f, T, h, n)
  <1> DEFINE S == {m \in Nat : \A f : ~Gathers(f, T, h, m)}
  <1>1. SUFFICES ASSUME S # {} PROVE FALSE
    OBVIOUS
  <1>2. PICK m \in S : \A k \in S : m <= k
    <2>1. S \subseteq Nat
      OBVIOUS
    <2> HIDE DEF S
    <2> QED
      BY <1>1, <2>1, LeastNumber
  <1>3. m \in Nat /\ \A f : ~Gathers(f, T, h, m)
    BY <1>2
  <1>s. \A id \in DOMAIN T : h[id] \in Nat /\ id # 0
    BY DEF Stored
  <1>4. m # 0
    <2> DEFINE f == [id \in DOMAIN T \cup {0} |-> {}]
    <2>1. DOMAIN f = DOMAIN T \cup {0} /\ IsFcn(f) /\ f[0] = {}
      BY DEF IsFcn
    <2> HIDE DEF f
    <2>2. \A id \in DOMAIN T : ~(h[id] < 0)
      BY <1>s
    <2>3. Gathers(f, T, h, 0)
      BY <2>1, <2>2 DEF Gathers
    <2> QED
      BY <1>3, <2>3
  <1>5. m - 1 \in Nat /\ ~(m <= m - 1)
    BY <1>3, <1>4
  <1>6. PICK f : Gathers(f, T, h, m - 1)
    <2>1. m - 1 \notin S
      <3> HIDE DEF S
      <3> QED
        BY <1>2, <1>5
    <2> QED
      BY <1>5, <2>1
  <1> DEFINE g == [id \in DOMAIN T \cup {0} |->
                      IF id # 0 /\ h[id] = m - 1 THEN gathered(f, T, id) ELSE f[id]]
  <1>7. /\ f[0] = {}
        /\ \A id \in DOMAIN T : h[id] < m - 1 => f[id] = gathered(f, T, id)
    BY <1>6 DEF Gathers
  <1>8. /\ DOMAIN g = DOMAIN T \cup {0} /\ IsFcn(g)
        /\ \A id \in DOMAIN T \cup {0} :
               g[id] = IF id # 0 /\ h[id] = m - 1 THEN gathered(f, T, id) ELSE f[id]
    BY DEF IsFcn
  <1> HIDE DEF g
  <1>9. ASSUME NEW id \in DOMAIN T, h[id] < m
        PROVE  g[id] = gathered(g, T, id)
    <2>1. \A c \in DOMAIN T : h[c] = h[id] - 1 => f[c] = g[c]
      <3> TAKE c \in DOMAIN T
      <3> HAVE h[c] = h[id] - 1
      <3>1. h[c] # m - 1
        BY <1>9, <1>s, <1>3
      <3> QED
        BY <3>1, <1>8
    <2>2. gathered(f, T, id) = gathered(g, T, id)
      BY <2>1, GatheredSame
    <2>3. g[id] = gathered(f, T, id)
      <3>1. CASE h[id] = m - 1
        BY <3>1, <1>8, <1>s
      <3>2. CASE h[id] # m - 1
        <4>1. h[id] < m - 1
          BY <3>2, <1>9, <1>s, <1>3
        <4> QED
          BY <3>2, <4>1, <1>7, <1>8
      <3> QED
        BY <3>1, <3>2
    <2> QED
      BY <2>2, <2>3
  <1>10. g[0] = {}
    BY <1>7, <1>8
  <1>11. Gathers(g, T, h, m)
    BY <1>8, <1>9, <1>10 DEF Gathers
  <1> QED
    BY <1>3, <1>11

(* itemsUnder() is one that gathers. *)
LEMMA UnderGathers ==
    ASSUME NEW T, NEW h, NEW root, Stored(T, h), Structure(T, h, 0),
           IF root = 0 THEN DOMAIN T = {} ELSE Rooted(T, h, root)
    PROVE  \E u : /\ u[0] = {}
                  /\ \A id \in DOMAIN T : u[id] = gathered(u, T, id)
                  /\ itemsUnder(T, root) = u[IF root \in DOMAIN T THEN root ELSE 0]
  <1> DEFINE D == DOMAIN T \cup {0}
             step(f) == [id \in D |->
                 IF id = 0 THEN {}
                 ELSE UNION {IF key.nodeId = 0 THEN {key.item} ELSE
                             IF key.nodeId \in DOMAIN T THEN f[key.nodeId]
                             ELSE {} : key \in ToSet(T[id].items)}]
             u == CHOOSE f : f = step(f)
  <1>1. itemsUnder(T, root) = u[IF root \in DOMAIN T THEN root ELSE 0]
    BY DEF itemsUnder
  <1>2. PICK n \in Nat : \A id \in DOMAIN T : h[id] < n
    <2>1. CASE root = 0
      BY <2>1
    <2>2. CASE root # 0
      <3>1. root \in DOMAIN T /\ \A id \in DOMAIN T \ {root} : h[id] < h[root]
        BY <2>2 DEF Rooted
      <3>2. \A id \in DOMAIN T : h[id] \in Nat
        BY DEF Stored
      <3>3. h[root] + 1 \in Nat /\ \A id \in DOMAIN T : h[id] < h[root] + 1
        BY <3>1, <3>2
      <3> QED
        BY <3>3
    <2> QED
      BY <2>1, <2>2
  <1>3. PICK f : Gathers(f, T, h, n)
    BY GatherExists
  <1>4. /\ DOMAIN f = D /\ IsFcn(f) /\ f[0] = {}
        /\ \A id \in DOMAIN T : f[id] = gathered(f, T, id)
    BY <1>2, <1>3 DEF Gathers
  <1>5. f = step(f)
    <2>1. \A id \in D : f[id] = step(f)[id]
      BY <1>4 DEF gathered
    <2>2. f = [id \in D |-> f[id]]
      BY <1>4 DEF IsFcn
    <2> QED
      BY <2>1, <2>2
  <1> HIDE DEF step
  <1>6. u = step(u)
    BY <1>5
  <1> HIDE DEF u
  <1>7. \A id \in D : u[id] = gathered(u, T, id)
    BY <1>6 DEF step, gathered
  <1>8. u[0] = {}
    BY <1>7 DEF gathered
  <1> QED
    BY <1>1, <1>7, <1>8

(* An item under a node is in a leaf. *)
LEMMA UnderInLeaf ==
    ASSUME NEW T, NEW h, Stored(T, h), Structure(T, h, 0), NEW u,
           \A id \in DOMAIN T : u[id] = gathered(u, T, id),
           NEW id \in DOMAIN T, NEW x \in u[id]
    PROVE  InLeaf(T, h, x)
  <1> DEFINE S == {l \in Nat : \E a \in DOMAIN T : h[a] = l /\ x \in u[a]}
  <1>s. \A a \in DOMAIN T : h[a] \in Nat /\ a # 0
    BY DEF Stored
  <1>1. h[id] \in S
    BY <1>s
  <1>2. PICK l \in S : \A m \in S : l <= m
    <2>1. S \subseteq Nat
      OBVIOUS
    <2> HIDE DEF S
    <2> QED
      BY <1>1, <2>1, LeastNumber
  <1>3. PICK a \in DOMAIN T : h[a] = l /\ x \in u[a]
    BY <1>2
  <1>4. PICK key \in ToSet(T[a].items) :
            x \in IF key.nodeId = 0 THEN {key.item} ELSE
                  IF key.nodeId \in DOMAIN T THEN u[key.nodeId] ELSE {}
    <2>1. x \in gathered(u, T, a) /\ a # 0
      BY <1>3, <1>s
    <2> QED
      BY <2>1 DEF gathered
  <1>5. h[a] = 0
    <2> SUFFICES ASSUME h[a] # 0 PROVE FALSE
      OBVIOUS
    <2>1. key.nodeId \in DOMAIN T /\ key.nodeId # 0 /\ h[key.nodeId] = l - 1
      BY <1>3, KeyLevel
    <2>2. x \in u[key.nodeId]
      BY <1>4, <2>1
    <2>3. l - 1 \in S
      BY <1>s, <2>1, <2>2
    <2>4. l \in Nat
      BY <1>2
    <2> HIDE DEF S
    <2>5. l <= l - 1
      BY <1>2, <2>3
    <2> QED
      BY <2>4, <2>5
  <1>6. key.nodeId = 0 /\ x = key.item
    BY <1>4, <1>5, KeyLevel
  <1>7. PICK i \in DOMAIN T[a].items : T[a].items[i] = key
    BY DEF ToSet
  <1> QED
    BY <1>5, <1>6, <1>7 DEF InLeaf

(* An item in a leaf is under the root. *)
LEMMA LeafUnder ==
    ASSUME NEW T, NEW h, NEW root, Stored(T, h), Structure(T, h, 0),
           Rooted(T, h, root), NEW u,
           \A id \in DOMAIN T : u[id] = gathered(u, T, id),
           NEW x, InLeaf(T, h, x)
    PROVE  x \in u[root]
  <1> DEFINE S == {l \in Nat : \E a \in DOMAIN T : h[root] - h[a] = l /\ x \in u[a]}
  <1>s. \A a \in DOMAIN T : h[a] \in Nat /\ a # 0
    BY DEF Stored
  <1>r. root \in DOMAIN T /\ \A a \in DOMAIN T : h[root] - h[a] \in Nat
    <2>1. root \in DOMAIN T /\ \A a \in DOMAIN T \ {root} : h[a] < h[root]
      BY DEF Rooted
    <2>2. ASSUME NEW a \in DOMAIN T
          PROVE  h[root] - h[a] \in Nat
      <3>1. h[a] <= h[root] /\ h[a] \in Nat /\ h[root] \in Nat
        BY <1>s, <2>1
      <3> QED
        BY <3>1
    <2> QED
      BY <2>1, <2>2
  <1>1. S # {}
    <2>1. PICK a, i : /\ a \in DOMAIN T /\ h[a] = 0
                      /\ i \in DOMAIN T[a].items /\ T[a].items[i].item = x
      BY DEF InLeaf
    <2>2. PICK key : key = T[a].items[i] /\ key \in ToSet(T[a].items)
      BY <2>1 DEF ToSet
    <2>3. key.nodeId = 0 /\ x \in {key.item}
      BY <2>1, <2>2, KeyLevel
    <2>4. x \in gathered(u, T, a)
      BY <1>s, <2>1, <2>2, <2>3 DEF gathered
    <2> QED
      BY <1>r, <2>1, <2>4
  <1>2. PICK l \in S : \A m \in S : l <= m
    <2>1. S \subseteq Nat
      OBVIOUS
    <2> HIDE DEF S
    <2> QED
      BY <1>1, <2>1, LeastNumber
  <1>3. PICK a \in DOMAIN T : h[root] - h[a] = l /\ x \in u[a]
    BY <1>2
  <1>4. a = root
    <2> SUFFICES ASSUME a # root PROVE FALSE
      OBVIOUS
    <2>1. PICK p, i : /\ p \in DOMAIN T /\ i \in DOMAIN T[p].items
                      /\ T[p].items[i].nodeId = a
      BY DEF Rooted, IsChild
    <2>2. PICK key : key = T[p].items[i] /\ key \in ToSet(T[p].items)
      BY <2>1 DEF ToSet
    <2>3. key.nodeId = a /\ a # 0
      BY <1>s, <2>1, <2>2
    <2>4. h[a] = h[p] - 1
      BY <2>1, <2>2, <2>3, KeyLevel
    <2>5. x \in gathered(u, T, p)
      <3>1. x \in IF key.nodeId = 0 THEN {key.item} ELSE
                  IF key.nodeId \in DOMAIN T THEN u[key.nodeId] ELSE {}
        BY <1>3, <2>3
      <3> QED
        BY <1>s, <2>1, <2>2, <3>1 DEF gathered
    <2>6. h[root] - h[p] \in S /\ x \in u[p]
      BY <1>r, <2>1, <2>5
    <2>7. h[root] - h[p] = l - 1 /\ l \in Nat
      BY <1>2, <1>3, <1>r, <1>s, <2>1, <2>4
    <2> HIDE DEF S
    <2>8. l <= l - 1
      BY <1>2, <2>6, <2>7
    <2> QED
      BY <2>7, <2>8
  <1> QED
    BY <1>3, <1>4

(* The items under the root of a tree at rest are its set. *)
LEMMA UnderRoot ==
    ASSUME NEW T, NEW root, NEW next, NEW set, RestTree(T, root, next, set)
    PROVE  itemsUnder(T, root) = set
  <1>1. PICK h : /\ Stored(T, h) /\ Structure(T, h, 0) /\ Exact(T, 0)
                 /\ IF root = 0 THEN DOMAIN T = {} ELSE Rooted(T, h, root)
                 /\ \A item \in Items : item \in set <=> InLeaf(T, h, item)
    BY DEF RestTree
  <1>2. PICK u : /\ u[0] = {}
                 /\ \A id \in DOMAIN T : u[id] = gathered(u, T, id)
                 /\ itemsUnder(T, root) = u[IF root \in DOMAIN T THEN root ELSE 0]
    BY <1>1, UnderGathers
  <1>3. ASSUME NEW x, InLeaf(T, h, x)
        PROVE  x \in Items
    <2>1. PICK a, i : /\ a \in DOMAIN T /\ i \in DOMAIN T[a].items
                      /\ T[a].items[i].item = x
      BY <1>3 DEF InLeaf
    <2>2. T[a].items \in Seq(KeyType)
      BY <1>1, <2>1 DEF Stored, NodeType
    <2>3. T[a].items[i] \in KeyType
      BY <2>1, <2>2
    <2> QED
      BY <2>1, <2>3 DEF KeyType
  <1>4. set \subseteq Items
    BY DEF RestTree
  <1>5. CASE root = 0
    <2>1. root \notin DOMAIN T /\ \A x : ~InLeaf(T, h, x)
      BY <1>1, <1>5 DEF InLeaf
    <2> QED
      BY <1>1, <1>2, <1>4, <2>1
  <1>6. CASE root # 0
    <2>1. Rooted(T, h, root) /\ root \in DOMAIN T
      BY <1>1, <1>6 DEF Rooted
    <2>2. itemsUnder(T, root) = u[root]
      BY <1>2, <2>1
    <2>3. ASSUME NEW x \in u[root]
          PROVE  x \in set
      <3>1. InLeaf(T, h, x)
        BY <1>1, <1>2, <2>1, UnderInLeaf
      <3> QED
        BY <1>1, <1>3, <3>1
    <2>4. ASSUME NEW x \in set
          PROVE  x \in u[root]
      <3>1. InLeaf(T, h, x)
        BY <1>1, <1>4
      <3> QED
        BY <1>1, <1>2, <2>1, <3>1, LeafUnder
    <2> QED
      BY <2>2, <2>3, <2>4
  <1> QED
    BY <1>5, <1>6

-----------------------------------------------------------------------------
(* The refinement.                                                         *)

setNow   == IF Idle THEN itemsUnder(Readable, rootNodeId) ELSE contents
savedNow == itemsUnder(committed.table, committed.meta.rootNodeId)

(* The sets that can be found are those the calls were about. *)
LEMMA Mapped == LMDBInv => setNow = contents /\ savedNow = committed.contents
  <1> SUFFICES ASSUME LMDBInv
               PROVE  setNow = contents /\ savedNow = committed.contents
    OBVIOUS
  <1>1. savedNow = committed.contents
    <2>1. RestTree(committed.table, committed.meta.rootNodeId,
                   committed.meta.nextNodeId, committed.contents)
      BY DEF LMDBInv
    <2> QED
      BY <2>1, UnderRoot DEF savedNow
  <1>2. setNow = contents
    <2>1. CASE Idle
      <3>1. RestTree(nodes, rootNodeId, nextNodeId, contents)
        BY <2>1, IdleRests DEF LMDBInv
      <3>2. itemsUnder(nodes, rootNodeId) = contents
        BY <3>1, UnderRoot
      <3>3. nodes = Readable
        BY DEF LMDBInv, CacheCoherent
      <3> QED
        BY <2>1, <3>2, <3>3 DEF setNow
    <2>2. CASE ~Idle
      BY <2>2 DEF setNow
    <2> QED
      BY <2>1, <2>2
  <1> QED
    BY <1>1, <1>2

LEMMA MappedNext == (LMDBInv => setNow = contents /\ savedNow = committed.contents)'
  BY Mapped, PTL

(* Beginning a call changes the set by its item, which was not there, or   *)
(* was. *)
LEMMA BeginMaps ==
    ASSUME LMDBInv, BeginCall
    PROVE  /\ \E item \in Items :
                 \/ item \notin contents /\ contents' = contents \cup {item}
                 \/ item \in contents /\ contents' = contents \ {item}
           /\ committed' = committed
  <1>1. TreeInv
    BY DEF LMDBInv
  <1>2. PICK item \in Items : Insert(item) \/ Erase(item)
    <2>1. CASE LoadNext
      <3>1. Head(load) \in Items
        BY <1>1, <2>1 DEF LoadNext, TreeInv
      <3> QED
        BY <2>1, <3>1 DEF LoadNext
    <2>2. CASE Operate
      BY <2>2 DEF Operate
    <2> QED
      BY <2>1, <2>2 DEF BeginCall
  <1>3. committed' = committed
    BY DEF BeginCall, Store
  <1>4. Idle
    BY <1>2 DEF Insert, Erase
  <1>5. rootNodeId # 0 => (found(searchItem(item), item) <=> item \in contents)
    BY <1>1, <1>4, TreeSearchFinds DEF SearchFinds
  <1>6. rootNodeId = 0 => item \notin contents
    <2> SUFFICES ASSUME rootNodeId = 0, item \in contents PROVE FALSE
      OBVIOUS
    <2>1. PICK h : Shape(h)
      BY <1>1, TreeInvIs
    <2>2. AtRest(h) /\ \A x \in Items : x \in contents <=> InLeaf(nodes, h, x)
      BY <1>4, <2>1, SoundAtRest DEF Shape, Idle
    <2>3. DOMAIN nodes = {}
      BY <2>2 DEF AtRest
    <2> QED
      BY <2>2, <2>3 DEF InLeaf
  <1>7. CASE Insert(item)
    <2>1. contents' = contents \cup {item}
      BY <1>7 DEF Insert
    <2>2. item \notin contents
      BY <1>5, <1>6, <1>7 DEF Insert
    <2> QED
      BY <1>3, <2>1, <2>2
  <1>8. CASE Erase(item)
    <2>1. contents' = contents \ {item} /\ rootNodeId # 0
          /\ found(searchItem(item), item)
      BY <1>8 DEF Erase
    <2>2. item \in contents
      BY <1>5, <2>1
    <2> QED
      BY <1>3, <2>1, <2>2
  <1> QED
    BY <1>2, <1>7, <1>8

LEMMA StepMaps ==
    ASSUME LMDBInv, LMDBInv', [LMDBNext]_allVars
    PROVE  [Durable!Next]_<<setNow, savedNow>>
  <1>1. /\ setNow = contents /\ savedNow = committed.contents
        /\ setNow' = contents' /\ savedNow' = committed'.contents
    BY Mapped, MappedNext
  <1>2. CASE BeginCall
    <2>1. PICK item \in Items :
              \/ item \notin contents /\ contents' = contents \cup {item}
              \/ item \in contents /\ contents' = contents \ {item}
      BY <1>2, BeginMaps
    <2>2. savedNow' = savedNow
      BY <1>1, <1>2, BeginMaps
    <2>3. Durable!Add \/ Durable!Remove
      BY <1>1, <2>1, <2>2 DEF Durable!Add, Durable!Remove, setNow, savedNow
    <2> QED
      BY <2>3 DEF Durable!Next
  <1>3. ASSUME contents' = contents, committed' = committed
        PROVE  UNCHANGED <<setNow, savedNow>>
    BY <1>1, <1>3
  <1>4. CASE InsertStep \/ EraseNode \/ EndCall
    <2>1. contents' = contents
      BY <1>4 DEF InsertStep, EraseNode, EndCall, InsertUpdate, InsertMerge, InsertSplit,
         EraseTurn, InsertNewRoot, InsertReturn, EraseReturn, Return
    <2>2. committed' = committed
      BY <1>4 DEF InsertStep, EraseNode, EndCall, Store
    <2> QED
      BY <1>3, <2>1, <2>2
  <1>5. CASE flush
    <2>1. contents' = contents /\ committed' = committed
      BY <1>5 DEF flush, vars
    <2> QED
      BY <1>3, <2>1
  <1>6. CASE Reconstruct
    <2>1. contents' = contents /\ committed' = committed
      BY <1>6 DEF Reconstruct
    <2> QED
      BY <1>3, <2>1
  <1>7. CASE Commit
    <2>1. contents' = contents /\ committed'.contents = contents
      BY <1>7 DEF Commit
    <2>2. Durable!Save
      BY <1>1, <2>1 DEF Durable!Save, setNow, savedNow
    <2> QED
      BY <2>2 DEF Durable!Next
  <1>8. CASE Abandon
    <2>1. contents' = committed.contents /\ committed' = committed
      BY <1>8 DEF Abandon
    <2>2. Durable!Revert
      BY <1>1, <2>1 DEF Durable!Revert, setNow, savedNow
    <2> QED
      BY <2>2 DEF Durable!Next
  <1>9. CASE (Rest /\ UNCHANGED lmdbVars) \/ UNCHANGED allVars
    <2>1. contents' = contents /\ committed' = committed
      BY <1>9 DEF Rest, allVars, lmdbVars, vars
    <2> QED
      BY <1>3, <2>1
  <1> QED
    BY <1>2, <1>4, <1>5, <1>6, <1>7, <1>8, <1>9 DEF LMDBNext

(* The tree over LMDB implements a set that survives: a committed           *)
(* transaction saves it, an abandoned one leaves what was saved last, where *)
(* nodes have pages of their own. *)
THEOREM StoreIsDurable ==
    ASSUME RecordsMove = FALSE
    PROVE  LMDBSpec => ImplementsDurableSet
  <1>1. LMDBInit => LMDBInv /\ Durable!Init
    <2> SUFFICES ASSUME LMDBInit
                 PROVE  LMDBInv /\ Durable!Init
      OBVIOUS
    <2>1. LMDBInv
      BY FirstLMDB
    <2>2. contents = {} /\ committed.contents = {}
      BY DEF LMDBInit, Init
    <2>3. setNow = {} /\ savedNow = {}
      BY <2>1, <2>2, Mapped
    <2> QED
      BY <2>1, <2>3 DEF Durable!Init, setNow, savedNow
  <1>2. LMDBInv /\ LMDBInv' /\ [LMDBNext]_allVars =>
            [Durable!Next]_<<setNow, savedNow>>
    BY StepMaps
  <1> QED
    BY <1>1, <1>2, StoreStays, PTL
    DEF LMDBSpec, ImplementsDurableSet, Durable!Spec, setNow, savedNow

-----------------------------------------------------------------------------
LEMMA VerifyPromises ==
    ASSUME OtherTree = {}
    PROVE  LMDBInv => VerifyAcceptsInLMDB
  <1> SUFFICES ASSUME LMDBInv, Idle
               PROVE  verify(Readable, rootNodeId, DOMAIN Readable \cup OtherTree, TRUE)
    BY DEF VerifyAcceptsInLMDB
  <1>1. TreeInv /\ nodes = Readable
    BY DEF LMDBInv, CacheCoherent
  <1>2. verify(nodes, rootNodeId, DOMAIN nodes, TRUE)
    BY <1>1, VerifyTree
  <1>3. DOMAIN Readable \cup OtherTree = DOMAIN nodes
    BY <1>1
  <1> QED
    BY <1>1, <1>2, <1>3

(* Nor does verify() reject the tree over LMDB, where it looks at all nodes  *)
(* of the table, as long as no other tree is in it and nodes have pages of   *)
(* their own. *)
THEOREM VerifyStaysInLMDB ==
    ASSUME OtherTree = {}, RecordsMove = FALSE
    PROVE  LMDBSpec => []VerifyAcceptsInLMDB
  BY StoreStays, VerifyPromises, PTL
=============================================================================
