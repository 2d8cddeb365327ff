--------------------------- MODULE BTreeProperties ---------------------------
(***************************************************************************)
(* What module BTree must guarantee between two calls: the invariants of   *)
(* the comment at the top of core.h and of verify() in btree/debug.h, and  *)
(* the results of the queries.                                             *)
(***************************************************************************)
EXTENDS BTree

keysOf(id)     == nodes[id].items
isLeaf(id)     == keysOf(id)[1].nodeId = 0

(* The nodes n levels below the root, from left to right.                  *)
Level(n) ==
    LET row[at \in (DOMAIN nodes) \X Nat] ==
            LET id == at[1]
                d  == at[2]
            IN  IF d = 0 THEN <<id>>
                ELSE IF isLeaf(id) THEN <<>>
                ELSE FlattenSeq([i \in DOMAIN keysOf(id) |->
                                    row[<<keysOf(id)[i].nodeId, d - 1>>]])
    IN  IF rootNodeId = 0 THEN <<>> ELSE row[<<rootNodeId, n>>]

Levels == [n \in 0 .. Cardinality(DOMAIN nodes) |-> Level(n)]

(* The items of the leaves from left to right.                             *)
ItemsOfLeaves ==
    LET items[id \in DOMAIN nodes] ==
            IF isLeaf(id) THEN [i \in DOMAIN keysOf(id) |-> keysOf(id)[i].item]
            ELSE FlattenSeq([i \in DOMAIN keysOf(id) |->
                                items[keysOf(id)[i].nodeId]])
    IN  IF rootNodeId = 0 THEN <<>> ELSE items[rootNodeId]

(* The contents in ascending order.                                        *)
Ordered == ascending(contents)

(* Type correctness of the node store and of the call.  A node id is one   *)
(* that was given out; during a call its node may be gone.                 *)
NodeIds == 1 .. nextNodeId - 1

TypeOK ==
    /\ DOMAIN nodes \subseteq NodeIds
    /\ rootNodeId \in NodeIds \cup {0}
    /\ \A id \in DOMAIN nodes :
          /\ \A key \in ToSet(keysOf(id)) :
                key.item \in Items /\ key.nodeId \in NodeIds \cup {0}
          /\ nodes[id].nextSibling \in NodeIds \cup {0}
          /\ nodes[id].prevSibling \in NodeIds \cup {0}
          /\ nodes[id].accumCount \in Nat /\ nodes[id].accum \in Nat
    /\ running \in {"none", "insert", "erase"}
    /\ \A c \in ToSet(breadcrumbs) :
          c.nodeId \in NodeIds /\ c.index \in 0 .. MAX_ITEMS
    /\ pending \in BOOLEAN /\ neighbourRefreshNeeded \in BOOLEAN
    /\ contents \subseteq Items

(* Every node is reached from the root exactly once and no other node is   *)
(* stored; a level has only leaves or none; except for the last node of a  *)
(* level, nodes have MIN_ITEMS to MAX_ITEMS keys, and no node is empty.    *)
Balanced ==
    Idle =>
        LET levels == Levels
        IN  /\ \A n \in DOMAIN levels :
                  /\ IsInjective(levels[n])
                  /\ \A m \in DOMAIN levels \ {n} :
                        ToSet(levels[m]) \cap ToSet(levels[n]) = {}
                  /\ \A a, b \in ToSet(levels[n]) : isLeaf(a) <=> isLeaf(b)
            /\ UNION {ToSet(levels[n]) : n \in DOMAIN levels} = DOMAIN nodes
            /\ \A id \in DOMAIN nodes :
                  /\ Len(keysOf(id)) \in 1 .. MAX_ITEMS
                  /\ nodes[id].nextSibling # 0 => Len(keysOf(id)) >= MIN_ITEMS

(* On every level, the leaves' and the interior ones, the sibling pointers *)
(* lead through the nodes from left to right and back: eraseItem takes the *)
(* sibling for the neighbour that has the same parent.                     *)
SiblingsLinked ==
    Idle => \A n \in 0 .. Cardinality(DOMAIN nodes) :
        LET level == Level(n)
            at(i) == IF i \in DOMAIN level THEN level[i] ELSE 0
        IN  \A i \in DOMAIN level :
               /\ nodes[level[i]].prevSibling = at(i - 1)
               /\ nodes[level[i]].nextSibling = at(i + 1)

(* The key of a child is the child's first item, and the totals of a node  *)
(* are those of the items under it: searches and fingerprints rely on      *)
(* both, and every level above a change has to be brought up to date.      *)
KeysAndTotals ==
    Idle => \A id \in DOMAIN nodes :
        /\ \A key \in ToSet(keysOf(id)) :
              key.nodeId # 0 => key.item = firstItem(nodes, key.nodeId)
        /\ nodes[id].accumCount = countOfAll(nodes, keysOf(id))
        /\ nodes[id].accum = accumOfAll(nodes, keysOf(id))

(* The leaves, from left to right, hold the items inserted and not erased, *)
(* in order and once each; the tree implements a sorted set.               *)
HoldsContents == Idle => ItemsOfLeaves = Ordered

(* insert() refuses an item, and erase() erases one, exactly if it is      *)
(* there: the search along the keys finds every item.                      *)
SearchFinds ==
    Idle /\ rootNodeId # 0 =>
        \A item \in Items : found(searchItem(item), item) <=> item \in contents

(* What follows is checked on the trees that the scripts lead to, and after *)
(* further operations.                                                     *)
Settled == Idle /\ load = <<>>

(* size(), getItem() and iterate() agree with the sorted sequence at every *)
(* offset, across leaves.                                                  *)
IterationInOrder ==
    Settled =>
        LET items == Ordered
        IN  /\ size = Len(items)
            /\ \A i \in 0 .. size - 1 : getItem(i) = items[i + 1]
            /\ \A b \in 0 .. size : \A e \in b .. size :
                  iterate(b, e) = slice(items, b, e)

(* The fingerprint of a range, a difference of two sums over whole         *)
(* subtrees, is the sum of the items of the range.                         *)
FingerprintsOfRanges ==
    Settled =>
        LET items == Ordered
        IN  \A b \in 0 .. size : \A e \in b .. size :
                fingerprint(b, e) = sumOf(items, b, e)

(* findLowerBound counts whole subtrees left of the value, whatever begin: *)
(* for every range and value it is what module SubRange builds on, and the *)
(* first index in the range whose item is not below the value if begin is  *)
(* not above it, which holds in the engine.                                *)
LowerBounds ==
    Settled =>
        LET items == Ordered
        IN  \A value \in Items \cup {0} \cup {item + 1 : item \in Items} :
            LET below == countBelow(items, value)
            IN  \A e \in 0 .. Len(items) : \A b \in 0 .. e :
                   LET index == findLowerBound(b, e, value)
                   IN  /\ index = TreeLowerBound(items, b, e, value)
                       /\ b <= below =>
                              index = VectorLowerBound(items, b, e, value)
=============================================================================
