-------------------------------- MODULE BTree --------------------------------
(***************************************************************************)
(* The B-tree storage of storage/btree/core.h over the node store of       *)
(* storage/BTreeMem.h: insertion and erasure, one action per turn of their *)
(* loops from the leaf back to the root, and the queries of the storage    *)
(* interface.                                                              *)
(*                                                                         *)
(* Items are integers in the order of Item; an accumulator is the sum of   *)
(* the items added to it (the code adds their IDs).  The items array of a  *)
(* node is the sequence of its numItems first elements; the rest of the    *)
(* array is zero.                                                          *)
(***************************************************************************)
EXTENDS Storage

CONSTANTS
    MIN_ITEMS, REBALANCE_THRESHOLD, MAX_ITEMS,
    Items,      \* the items that exist
    Loads,      \* scripts: sequences of items, one of which runs first
    MaxOps      \* bound: operations after the script

(* The static_asserts of core.h. *)
ASSUME NodeSizeAssumption ==
    /\ MIN_ITEMS \in Nat /\ REBALANCE_THRESHOLD \in Nat /\ MAX_ITEMS \in Nat
    /\ MIN_ITEMS < REBALANCE_THRESHOLD
    /\ REBALANCE_THRESHOLD < MAX_ITEMS
    /\ MAX_ITEMS \div 2 > MIN_ITEMS
    /\ \A n \in {MIN_ITEMS, REBALANCE_THRESHOLD, MAX_ITEMS} : n % 2 = 0

(* eraseItem only refreshes the key of a neighbour that gave items to the  *)
(* node left of it: with two nodes of MIN_ITEMS keys at the threshold, a   *)
(* node below MIN_ITEMS always takes items, and never gives any.           *)
ASSUME ThresholdAssumption ==
    MIN_ITEMS > 0 /\ REBALANCE_THRESHOLD >= 2 * MIN_ITEMS

ASSUME ItemsAssumption ==
    Items \subseteq Nat /\ Loads \subseteq Seq(Items) /\ MaxOps \in Nat

VARIABLES
    nodes,                          \* _nodeStorageMap
    rootNodeId, nextNodeId,
    running,                        \* the call being executed
    oldNew,                         \* its item: newItem or oldItem
    breadcrumbs,                    \* [index, nodeId], the root first
    newKey,                         \* insertItem
    pending,                        \* needsMerge or needsRemove
    neighbourRefreshNeeded,         \* eraseItem
    contents,                       \* the set the tree stands for
    load, ops

treeVars == <<nodes, rootNodeId, nextNodeId>>
callVars == <<running, oldNew, breadcrumbs, newKey, pending,
              neighbourRefreshNeeded>>
vars     == <<treeVars, callVars, contents, load, ops>>

Key(item, nodeId) == [item |-> item, nodeId |-> nodeId]
NoKey == Key(0, 0)

EmptyNode == [items |-> <<>>, nextSibling |-> 0, prevSibling |-> 0,
              accumCount |-> 0, accum |-> 0]

-----------------------------------------------------------------------------
(* searchItem.                                                             *)

(* Mutant: an item equal to a key is searched left of it. *)
searchIndexLeft(node, item) ==
    CHOOSE i \in 0 .. Len(node.items) - 1 :
        /\ i = 0 \/ node.items[i + 1].item < item
        /\ \A j \in i + 2 .. Len(node.items) : item <= node.items[j].item

(* The child to descend to, or the item found: the last key not above the  *)
(* item, the first key if all are.  Indices count from 0.                  *)
searchIndex(node, item) ==
    CHOOSE i \in 0 .. Len(node.items) - 1 :
        /\ i = 0 \/ node.items[i + 1].item <= item
        /\ \A j \in i + 2 .. Len(node.items) : item < node.items[j].item

searchItem(item) ==
    LET crumbs[id \in DOMAIN nodes \cup {0}] ==
            IF id = 0 THEN <<>>
            ELSE LET i == searchIndex(nodes[id], item)
                 IN  <<[index |-> i, nodeId |-> id]>>
                         \o crumbs[nodes[id].items[i + 1].nodeId]
    IN  crumbs[rootNodeId]

found(crumbs, item) ==
    \E c \in ToSet(crumbs) : nodes[c.nodeId].items[c.index + 1].item = item

-----------------------------------------------------------------------------
(* Operations on nodes: each takes the node store ns and returns the next. *)

firstItem(ns, id) == ns[id].items[1].item

refreshIndex(ns, id, index) ==
    LET child == ns[id].items[index + 1].nodeId
    IN  IF child = 0 THEN ns
        ELSE [ns EXCEPT ![id].items[index + 1].item = firstItem(ns, child)]

countOf(ns, key) == IF key.nodeId = 0 THEN 1 ELSE ns[key.nodeId].accumCount
accumOf(ns, key) == IF key.nodeId = 0 THEN key.item ELSE ns[key.nodeId].accum

countOfAll(ns, keys) == total([i \in DOMAIN keys |-> countOf(ns, keys[i])])
accumOfAll(ns, keys) == total([i \in DOMAIN keys |-> accumOf(ns, keys[i])])

(* Mutant: added and subtracted the wrong way round. *)
subFromNode(ns, id, count, accum) ==
    [ns EXCEPT ![id].accumCount = @ - count, ![id].accum = @ - accum]

addToNode(ns, id, count, accum) ==
    [ns EXCEPT ![id].accumCount = @ + count, ![id].accum = @ + accum]

(* Mutant: the totals are not set to zero first. *)
refillOntoTotals(ns, id, keys) ==
    [ns EXCEPT ![id].items = keys,
               ![id].accumCount = @ + countOfAll(ns, keys),
               ![id].accum = @ + accumOfAll(ns, keys)]

(* node.items with its keys replaced and its totals recomputed (addToAccum) *)
refill(ns, id, keys) ==
    [ns EXCEPT ![id].items = keys,
               ![id].accumCount = countOfAll(ns, keys),
               ![id].accum = accumOfAll(ns, keys)]

setNext(ns, id, next) ==
    IF id = 0 THEN ns ELSE [ns EXCEPT ![id].nextSibling = next]
(* Mutant: the way back is not kept. *)
setNoPrev(ns, id, prev) == ns

setPrev(ns, id, prev) ==
    IF id = 0 THEN ns ELSE [ns EXCEPT ![id].prevSibling = prev]

(* A node that is there already would be taken for the new one. *)
makeNode(ns) ==
    [id \in DOMAIN ns \cup {nextNodeId} |->
        IF id \in DOMAIN ns THEN ns[id] ELSE EmptyNode]

deleteNode(ns, id) == [n \in DOMAIN ns \ {id} |-> ns[n]]

-----------------------------------------------------------------------------
(* Calls.                                                                  *)

Crumb  == Last(breadcrumbs)
Parent == nodes[breadcrumbs[Len(breadcrumbs) - 1].nodeId]

Idle == running = "none"

Begin(call, item) ==
    /\ running' = call
    /\ oldNew' = item
    /\ breadcrumbs' = searchItem(item)
    /\ pending' = TRUE
    /\ neighbourRefreshNeeded' = FALSE

Return ==
    /\ running' = "none"
    /\ breadcrumbs' = <<>>
    /\ pending' = FALSE
    /\ newKey' = NoKey
    /\ oldNew' = 0
    /\ neighbourRefreshNeeded' = FALSE
    /\ UNCHANGED <<contents, load, ops>>

(* insertItem into an empty tree makes a root leaf; otherwise the loop     *)
(* starts at the leaf the search ended in.  (Inserting an item that is     *)
(* there, or erasing one that is not, changes nothing and is no step.)     *)
Insert(item) ==
    /\ Idle
    /\ contents' = contents \cup {item}
    /\ IF rootNodeId = 0
       THEN /\ nodes' = refill(makeNode(nodes), nextNodeId, <<Key(item, 0)>>)
            /\ rootNodeId' = nextNodeId
            /\ nextNodeId' = nextNodeId + 1
            /\ UNCHANGED callVars
       ELSE /\ ~found(searchItem(item), item)
            /\ Begin("insert", item)
            /\ newKey' = Key(item, 0)
            /\ UNCHANGED treeVars

(* Nothing left to add a key for: only the totals change. *)
InsertUpdate ==
    /\ running = "insert" /\ breadcrumbs # <<>>
    /\ ~pending
    /\ nodes' = refreshIndex(addToNode(nodes, Crumb.nodeId, 1, oldNew),
                             Crumb.nodeId, 0)
    /\ breadcrumbs' = Front(breadcrumbs)
    /\ UNCHANGED <<rootNodeId, nextNodeId, running, oldNew, newKey, pending,
                   neighbourRefreshNeeded, contents, load, ops>>

(* Mutant: the new key is not merged in. *)
withKeyLast(keys, key) == Append(keys, key)

(* std::inplace_merge: the key goes before the first one above it. *)
placeOf(keys, key) ==
    CHOOSE i \in 1 .. Len(keys) + 1 :
        /\ \A j \in 1 .. i - 1 : keys[j].item <= key.item
        /\ i <= Len(keys) => key.item < keys[i].item

withKey(keys, key) == InsertAt(keys, placeOf(keys, key), key)

(* The node has room. *)
InsertMerge ==
    /\ running = "insert" /\ breadcrumbs # <<>>
    /\ pending
    /\ Len(nodes[Crumb.nodeId].items) < MAX_ITEMS
    /\ LET id == Crumb.nodeId
           ns == [nodes EXCEPT ![id].items = withKey(@, newKey)]
       IN  nodes' = refreshIndex(addToNode(ns, id, 1, oldNew), id, 0)
    /\ pending' = FALSE
    /\ breadcrumbs' = Front(breadcrumbs)
    /\ UNCHANGED <<rootNodeId, nextNodeId, running, oldNew, newKey,
                   neighbourRefreshNeeded, contents, load, ops>>

(* The node is full: packed if it is the last of its level, else halved. *)
InsertSplit ==
    /\ running = "insert" /\ breadcrumbs # <<>>
    /\ pending
    /\ Len(nodes[Crumb.nodeId].items) >= MAX_ITEMS
    /\ LET left    == Crumb.nodeId
           right   == nextNodeId
           next    == nodes[left].nextSibling
           keys    == withKey(nodes[left].items, newKey)
           numLeft == IF next = 0 THEN MAX_ITEMS ELSE MAX_ITEMS \div 2 + 1
           halves  == refill(refill(makeNode(nodes), left,
                                    SubSeq(keys, 1, numLeft)),
                             right, SubSeq(keys, numLeft + 1, Len(keys)))
           linked  == setPrev(setNext(setPrev(setNext(halves, right, next),
                                              right, left),
                                      left, right),
                              next, right)
       IN  /\ nodes' = refreshIndex(linked, left, 0)
           /\ newKey' = Key(firstItem(linked, right), right)
    /\ nextNodeId' = nextNodeId + 1
    /\ breadcrumbs' = Front(breadcrumbs)
    /\ UNCHANGED <<rootNodeId, running, oldNew, pending,
                   neighbourRefreshNeeded, contents, load, ops>>

(* The root was split: a new level. *)
InsertNewRoot ==
    /\ running = "insert" /\ breadcrumbs = <<>>
    /\ pending
    /\ nodes' = refill(makeNode(nodes), nextNodeId,
                       <<Key(firstItem(nodes, rootNodeId), rootNodeId),
                         Key(firstItem(nodes, newKey.nodeId), newKey.nodeId)>>)
    /\ rootNodeId' = nextNodeId
    /\ nextNodeId' = nextNodeId + 1
    /\ Return

InsertReturn ==
    /\ running = "insert" /\ breadcrumbs = <<>>
    /\ ~pending
    /\ Return
    /\ UNCHANGED treeVars

-----------------------------------------------------------------------------
(* eraseItem.                                                              *)

Erase(item) ==
    /\ Idle
    /\ rootNodeId # 0
    /\ found(searchItem(item), item)
    /\ Begin("erase", item)
    /\ newKey' = NoKey
    /\ contents' = contents \ {item}
    /\ UNCHANGED treeVars

(* Mutant: the key of a neighbour whose first items moved stays. *)
removedOnly ==
    LET id == Crumb.nodeId
        i  == Crumb.index
        ns == IF pending
              THEN [nodes EXCEPT ![id].items = RemoveAt(@, i + 1)]
              ELSE nodes
    IN  addToNode(IF i < Len(ns[id].items) THEN refreshIndex(ns, id, i) ELSE ns,
                  id, -1, -oldNew)

(* Removal of the crumb's key, or only of the item from the totals, and    *)
(* the keys of the children that changed.                                  *)
removed ==
    LET id == Crumb.nodeId
        i  == Crumb.index
        ns == IF pending
              THEN [nodes EXCEPT ![id].items = RemoveAt(@, i + 1)]
              ELSE nodes
        refreshed == IF i < Len(ns[id].items)
                     THEN refreshIndex(ns, id, i) ELSE ns
    IN  addToNode(IF neighbourRefreshNeeded
                  THEN refreshIndex(refreshed, id, i + 1) ELSE refreshed,
                  id, -1, -oldNew)

(* Mutant: one item less is tolerated. *)
tooSmallLate(ns) ==
    /\ Len(ns[Crumb.nodeId].items) < MIN_ITEMS - 1
    /\ Len(breadcrumbs) > 1
    /\ Len(Parent.items) > 1

needsItems(ns) == Len(ns[Crumb.nodeId].items) < MIN_ITEMS /\ Len(breadcrumbs) > 1

tooSmall(ns) == needsItems(ns) /\ Len(Parent.items) > 1

(* The neighbour has the same parent: the right one for the first child.   *)
neighbours(ns) ==
    LET id == Crumb.nodeId
    IN  IF breadcrumbs[Len(breadcrumbs) - 1].index = 0
        THEN [left |-> id, right |-> ns[id].nextSibling]
        ELSE [left |-> ns[id].prevSibling, right |-> id]

totalItems(ns, pair) == Len(ns[pair.left].items) + Len(ns[pair.right].items)

(* All keys of the crumb's node move to its neighbour. *)
mergeInto(ns, pair) ==
    LET id == Crumb.nodeId
        to == IF id = pair.left THEN pair.right ELSE pair.left
        ms == [ns EXCEPT ![to].items = ns[pair.left].items
                                           \o ns[pair.right].items,
                         ![id].items = <<>>]
        ts == addToNode(ms, to, ns[id].accumCount, ns[id].accum)
        prev == ns[id].prevSibling
        next == ns[id].nextSibling
    IN  IF to = pair.right THEN setPrev(setNext(ts, prev, next), to, prev)
                           ELSE setNext(setPrev(ts, next, prev), to, next)

movesLeft(ns, pair) ==
    Len(ns[pair.right].items) >= totalItems(ns, pair) \div 2

rebalance(ns, pair) ==
    LET all     == ns[pair.left].items \o ns[pair.right].items
        numLeft == (Len(all) + 1) \div 2
        was     == Len(ns[pair.left].items)
        moved   == IF movesLeft(ns, pair)
                   THEN SubSeq(all, was + 1, numLeft)
                   ELSE SubSeq(all, numLeft + 1, was)
        sign    == IF movesLeft(ns, pair) THEN 1 ELSE -1
        count   == sign * countOfAll(ns, moved)
        accum   == sign * accumOfAll(ns, moved)
        ms == [ns EXCEPT ![pair.left].items = SubSeq(all, 1, numLeft),
                         ![pair.right].items =
                             SubSeq(all, numLeft + 1, Len(all))]
    IN  addToNode(addToNode(ms, pair.left, count, accum),
                  pair.right, -count, -accum)

unlink(ns, id) ==
    deleteNode(setPrev(setNext(ns, ns[id].prevSibling, ns[id].nextSibling),
                       ns[id].nextSibling, ns[id].prevSibling), id)

(* One turn of the loop: the node is left alone, or, if it is found to be *)
(* small, merged or rebalanced, and deleted when that has emptied it.      *)
EraseTurn(small) ==
    /\ running = "erase" /\ breadcrumbs # <<>>
    /\ LET id   == Crumb.nodeId
           pair == neighbours(removed)
           fits == totalItems(removed, pair) <= REBALANCE_THRESHOLD
           ns   == IF ~small THEN removed
                   ELSE IF fits THEN mergeInto(removed, pair)
                   ELSE rebalance(removed, pair)
           empty == ns[id].items = <<>>
       IN  /\ nodes' = IF empty THEN unlink(ns, id) ELSE ns
           /\ pending' = empty
           /\ neighbourRefreshNeeded' =
                  (small /\ ~fits /\ movesLeft(removed, pair))
    /\ breadcrumbs' = Front(breadcrumbs)
    /\ UNCHANGED <<rootNodeId, nextNodeId, running, oldNew, newKey, contents,
                   load, ops>>

EraseStep == EraseTurn(tooSmall(removed))

(* The root was deleted, is a single child's parent, or stays. *)
EraseReturn ==
    /\ running = "erase" /\ breadcrumbs = <<>>
    /\ LET single == /\ ~pending
                     /\ Len(nodes[rootNodeId].items) = 1
                     /\ nodes[rootNodeId].items[1].nodeId # 0
       IN  /\ rootNodeId' = IF pending THEN 0
                            ELSE IF single
                            THEN nodes[rootNodeId].items[1].nodeId
                            ELSE rootNodeId
           /\ nodes' = IF single THEN deleteNode(nodes, rootNodeId) ELSE nodes
    /\ UNCHANGED nextNodeId
    /\ Return

-----------------------------------------------------------------------------
Init ==
    /\ nodes = <<>> /\ rootNodeId = 0 /\ nextNodeId = 1
    /\ running = "none" /\ oldNew = 0 /\ breadcrumbs = <<>>
    /\ newKey = NoKey /\ pending = FALSE
    /\ neighbourRefreshNeeded = FALSE
    /\ contents = {}
    /\ load \in Loads
    /\ ops = 0

(* A script inserts the items it names, and erases those it names again.   *)
LoadNext ==
    /\ load # <<>>
    /\ Insert(Head(load)) \/ Erase(Head(load))
    /\ load' = Tail(load)
    /\ UNCHANGED ops

Operate ==
    /\ load = <<>> /\ ops < MaxOps
    /\ \E item \in Items : Insert(item) \/ Erase(item)
    /\ ops' = ops + 1
    /\ UNCHANGED load

Rest == Idle /\ load = <<>> /\ ops = MaxOps /\ UNCHANGED vars

Next ==
    \/ LoadNext
    \/ Operate
    \/ InsertUpdate \/ InsertMerge \/ InsertSplit \/ InsertNewRoot
    \/ InsertReturn
    \/ EraseStep \/ EraseReturn
    \/ Rest

Spec == Init /\ [][Next]_vars

-----------------------------------------------------------------------------
(* The queries of the storage interface.                                   *)

size == IF rootNodeId = 0 THEN 0 ELSE nodes[rootNodeId].accumCount

(* traverseToOffset: the node the callback gets, the index in it and the   *)
(* accumulated totals of the children passed on the way; node 0 when the   *)
(* callback is not called.  A node with as many keys as items counts as a  *)
(* leaf.                                                                   *)
traverseToOffset(offset) ==
    LET walk[at \in (DOMAIN nodes) \X Nat] ==
            LET id   == at[1]
                k    == at[2]
                node == nodes[id]
                \* items under the first i children
                before(i) == countOfAll(nodes, SubSeq(node.items, 1, i))
            IN  IF Len(node.items) = node.accumCount
                THEN [node |-> id, index |-> k, accum |-> 0]
                ELSE IF k >= before(Len(node.items))
                THEN [node |-> 0, index |-> 0,
                      accum |-> accumOfAll(nodes, node.items)]
                ELSE LET i == CHOOSE j \in 1 .. Len(node.items) :
                                  before(j - 1) <= k /\ k < before(j)
                         w == walk[<<node.items[i].nodeId, k - before(i - 1)>>]
                     IN  [w EXCEPT !.accum =
                             @ + accumOfAll(nodes,
                                            SubSeq(node.items, 1, i - 1))]
    IN  IF rootNodeId = 0 THEN [node |-> 0, index |-> 0, accum |-> 0]
                          ELSE walk[<<rootNodeId, offset>>]

(* iterate(begin, end): the items handed to the callback. *)
iterate(begin, end) ==
    LET start == traverseToOffset(begin)
        run[at \in (DOMAIN nodes \cup {0}) \X (0 .. MAX_ITEMS) \X Nat] ==
            LET id    == at[1]
                index == at[2]
                num   == at[3]
            IN  IF num = 0 \/ id = 0 THEN <<>>
                ELSE LET node == nodes[id]
                         last == index + 1 >= Len(node.items)
                     IN  <<node.items[index + 1].item>> \o
                         run[<<IF last THEN node.nextSibling ELSE id,
                               IF last THEN 0 ELSE index + 1, num - 1>>]
    IN  run[<<start.node, start.index, end - begin>>]

getItem(index) ==
    LET at == traverseToOffset(index)
    IN  nodes[at.node].items[at.index + 1].item

(* Mutant: a key equal to the value does not end the search. *)
boundIndexAfter(keys, value) ==
    LET stop == {i \in 2 .. Len(keys) : value < keys[i].item}
    IN  IF stop = {} THEN Len(keys) ELSE Min(stop) - 1

(* The key before the first one, from the second on, not below the value. *)
boundIndex(keys, value) ==
    LET stop == {i \in 2 .. Len(keys) : value <= keys[i].item}
    IN  IF stop = {} THEN Len(keys) ELSE Min(stop) - 1

findLowerBound(begin, end, value) ==
    LET aux[at \in (DOMAIN nodes \cup {0}) \X Nat] ==
            LET id        == at[1]
                numToLeft == at[2]
            IN  IF id = 0 THEN numToLeft + 1
                ELSE LET keys == nodes[id].items
                         i    == boundIndex(keys, value)
                     IN  aux[<<keys[i].nodeId,
                               numToLeft
                                 + countOfAll(nodes, SubSeq(keys, 1, i - 1))>>]
    IN  IF rootNodeId = 0 THEN end
        ELSE IF value <= firstItem(nodes, rootNodeId) THEN begin
        ELSE Min({aux[<<rootNodeId, 0>>], end})

(* fingerprint(begin, end): the sum of the items left of end, less those   *)
(* left of begin.                                                          *)
itemsUpTo(id, index) == total([i \in 1 .. index |-> nodes[id].items[i].item])

(* Mutant: what was passed on the way to the leaf is not counted. *)
accumLeftInLeaf(index) ==
    LET at == traverseToOffset(index)
    IN  IF at.node = 0 THEN at.accum
        ELSE itemsUpTo(at.node, at.index)

accumLeftOf(index) ==
    LET at == traverseToOffset(index)
    IN  at.accum + (IF at.node = 0 THEN 0
                    ELSE itemsUpTo(at.node, at.index))

fingerprint(begin, end) == accumLeftOf(end) - accumLeftOf(begin)
=============================================================================
