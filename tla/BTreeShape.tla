------------------------------ MODULE BTreeShape ------------------------------
(***************************************************************************)
(* The shape of the tree in the middle of a call: the inductive invariant  *)
(* of module BTree.                                                        *)
(*                                                                         *)
(* A call changes its leaf first and the levels above one by one.  All     *)
(* nodes are as they should be but one, that of the last breadcrumb: a key *)
(* is still missing from it or still has to go, some of its keys are not   *)
(* the first items of their nodes any more, and its totals are off by the  *)
(* item of the call.                                                       *)
(*                                                                         *)
(* The conditions are local: each is about a node, its children and its    *)
(* sibling.  What is left to find is the level h of each node, that of     *)
(* leaves being 0.                                                         *)
(***************************************************************************)
EXTENDS BTreeProperties

KeyType  == [item : Items, nodeId : Nat]
NodeType == [items : Seq(KeyType), nextSibling : Nat, prevSibling : Nat,
             accumCount : Nat, accum : Nat]

Stored(T, h) ==
    /\ DOMAIN T \subseteq Nat \ {0}
    /\ T \in [DOMAIN T -> NodeType]
    /\ h \in [DOMAIN T -> Nat]

-----------------------------------------------------------------------------
(* The structure of a level and the one below it.                          *)

(* A key that is not there. *)
none == Key(-1, 0)

firstKey(T, id) ==
    IF id = 0 THEN none
    ELSE IF Len(T[id].items) = 0 THEN none ELSE T[id].items[1]

(* The key to the right, in the same node or in its sibling. *)
nextKey(T, id, i) ==
    IF i < Len(T[id].items) THEN T[id].items[i + 1]
    ELSE firstKey(T, T[id].nextSibling)

(* Leaves have items, the nodes of a level above have nodes of the level   *)
(* below it. *)
LevelsAt(T, h, id) ==
    \A i \in DOMAIN T[id].items :
        IF h[id] = 0 THEN T[id].items[i].nodeId = 0
        ELSE /\ T[id].items[i].nodeId \in DOMAIN T
             /\ h[T[id].items[i].nodeId] = h[id] - 1

(* No node is a child twice. *)
OneParent(T) ==
    \A a, b \in DOMAIN T :
        \A i \in DOMAIN T[a].items, j \in DOMAIN T[b].items :
            T[a].items[i].nodeId = T[b].items[j].nodeId
                /\ T[a].items[i].nodeId # 0 => a = b /\ i = j

(* Siblings point to each other. *)
LinkedAt(T, h, id) ==
    /\ T[id].nextSibling # 0 =>
          /\ T[id].nextSibling \in DOMAIN T
          /\ h[T[id].nextSibling] = h[id]
          /\ T[T[id].nextSibling].prevSibling = id
    /\ T[id].prevSibling # 0 =>
          /\ T[id].prevSibling \in DOMAIN T
          /\ h[T[id].prevSibling] = h[id]
          /\ T[T[id].prevSibling].nextSibling = id

(* The sibling of a child is the child of the next key. *)
AdjacentAt(T, h, id) ==
    h[id] > 0 =>
        \A i \in DOMAIN T[id].items :
            T[T[id].items[i].nodeId].nextSibling = nextKey(T, id, i).nodeId

OrderedAt(T, id) ==
    \A i \in DOMAIN T[id].items :
        nextKey(T, id, i) = none \/ T[id].items[i].item < nextKey(T, id, i).item

(* The order is not asked for on the level of the node p, if it is not a   *)
(* leaf. *)
Structure(T, h, p) ==
    /\ Stored(T, h)
    /\ OneParent(T)
    /\ \A id \in DOMAIN T :
          /\ LevelsAt(T, h, id)
          /\ LinkedAt(T, h, id)
          /\ AdjacentAt(T, h, id)
          /\ OrderedAt(T, id) \/ (p # 0 /\ h[id] = h[p] /\ h[p] > 0)

IsChild(T, child) ==
    \E id \in DOMAIN T : \E i \in DOMAIN T[id].items :
        T[id].items[i].nodeId = child

(* Every node but the root is the child of another one. *)
Rooted(T, h, root) ==
    /\ root \in DOMAIN T
    /\ T[root].nextSibling = 0 /\ T[root].prevSibling = 0
    /\ \A id \in DOMAIN T \ {root} : h[id] < h[root] /\ IsChild(T, id)

InLeaf(T, h, item) ==
    \E id \in DOMAIN T :
        h[id] = 0 /\ \E i \in DOMAIN T[id].items : T[id].items[i].item = item

-----------------------------------------------------------------------------
(* What nodes record of their children.                                    *)

(* All nodes have at least one key and at most MAX_ITEMS of them, and all  *)
(* but the last of a level have at least MIN_ITEMS. *)
Sized(node) ==
    /\ Len(node.items) \in 1 .. MAX_ITEMS
    /\ node.nextSibling # 0 => Len(node.items) >= MIN_ITEMS

(* The keys are the first items of the children, but for those in stale. *)
KeysFirst(T, keys, stale) ==
    \A i \in DOMAIN keys \ stale :
        keys[i].nodeId # 0 => keys[i].item = firstItem(T, keys[i].nodeId)

(* The totals are those of the children, of which delta are to come. *)
TotalsOff(T, keys, node, delta) ==
    /\ countOfAll(T, keys) = node.accumCount + delta
    /\ accumOfAll(T, keys) = node.accum + delta * oldNew

Exact(T, p) ==
    \A id \in DOMAIN T :
        /\ Sized(T[id])
        /\ id # p => /\ KeysFirst(T, T[id].items, {})
                     /\ T[id].accumCount = countOfAll(T, T[id].items)
                     /\ T[id].accum = accumOfAll(T, T[id].items)

-----------------------------------------------------------------------------
(* Calls.                                                                  *)

(* The breadcrumbs: the way from the root, one level a step.               *)
PathFrom(root, h) ==
    \A k \in DOMAIN breadcrumbs :
        LET id    == breadcrumbs[k].nodeId
            index == breadcrumbs[k].index
        IN  /\ id \in DOMAIN nodes
            /\ index \in Nat /\ index < Len(nodes[id].items)
            /\ h[id] = h[root] + 1 - k
            /\ k = 1 => id = root
            /\ k < Len(breadcrumbs) =>
                   breadcrumbs[k + 1].nodeId = nodes[id].items[index + 1].nodeId

(* The node that the call has come to, and the keys it is about to have.   *)
current == IF breadcrumbs = <<>> THEN 0 ELSE Crumb.nodeId

keysAhead ==
    IF ~pending THEN nodes[current].items
    ELSE IF running = "insert" THEN withKey(nodes[current].items, newKey)
    ELSE RemoveAt(nodes[current].items, Crumb.index + 1)

ahead == IF current = 0 THEN nodes
         ELSE [nodes EXCEPT ![current].items = keysAhead]

(* insertItem: only the first key of the node can be stale, for an item    *)
(* below all others.                                                       *)
InsertPath(h) ==
    \A k \in DOMAIN breadcrumbs :
        LET node  == nodes[breadcrumbs[k].nodeId]
            index == breadcrumbs[k].index
        IN  /\ node.items[1].item <= oldNew \/ node.prevSibling = 0
            /\ node.items[index + 1].item <= oldNew \/ index = 0

InsertCurrent(h) ==
    LET keys == nodes[current].items
    IN  /\ KeysFirst(nodes, keysAhead, IF oldNew < keys[1].item THEN {1} ELSE {})
        /\ TotalsOff(nodes, keysAhead, nodes[current], 1)
        /\ Len(keysAhead) = Len(keys) + (IF pending THEN 1 ELSE 0)
        /\ \/ keysAhead[1] = keys[1]
           \/ h[current] = 0 /\ oldNew < keys[1].item
        /\ \A i \in 3 .. Len(keysAhead) : keys[1].item < keysAhead[i].item

Inserting(h) ==
    /\ oldNew \in Items
    /\ ~neighbourRefreshNeeded
    /\ rootNodeId \in DOMAIN nodes
    /\ PathFrom(rootNodeId, h)
    /\ InsertPath(h)
    /\ current # 0 => InsertCurrent(h)
    /\ IF current = 0 /\ pending
       \* the root was split
       THEN LET right == newKey.nodeId
            IN  /\ right \in DOMAIN nodes \ {rootNodeId}
                /\ h[right] = h[rootNodeId]
                /\ nodes[rootNodeId].prevSibling = 0
                /\ nodes[rootNodeId].nextSibling = right
                /\ nodes[right].nextSibling = 0
                /\ \A id \in DOMAIN nodes \ {rootNodeId, right} :
                      h[id] < h[rootNodeId] /\ IsChild(nodes, id)
       ELSE Rooted(ahead, h, rootNodeId)

(* eraseItem: the key of the child below can be stale, and the one after   *)
(* it if items have moved out of that.                                     *)
EraseCurrent ==
    LET index == Crumb.index
    IN  /\ KeysFirst(nodes, keysAhead,
                     {index + 1} \cup (IF neighbourRefreshNeeded
                                       THEN {index + 2} ELSE {}))
        /\ TotalsOff(nodes, keysAhead, nodes[current], -1)
        /\ neighbourRefreshNeeded =>
               ~pending /\ index + 2 <= Len(nodes[current].items)

Erasing(h) ==
    /\ oldNew \in Items
    /\ newKey = NoKey
    /\ breadcrumbs # <<>> => PathFrom(rootNodeId, h) /\ EraseCurrent
    /\ breadcrumbs = <<>> => ~neighbourRefreshNeeded
    /\ IF current = 0 /\ pending
       \* the root was deleted
       THEN DOMAIN nodes = {}
       ELSE Rooted(ahead, h, rootNodeId)

(* Between two calls. *)
AtRest(h) ==
    /\ breadcrumbs = <<>>
    /\ oldNew = 0 /\ newKey = NoKey /\ ~pending /\ ~neighbourRefreshNeeded
    /\ IF rootNodeId = 0 THEN DOMAIN nodes = {}
       ELSE Rooted(nodes, h, rootNodeId)

Shape(h) ==
    /\ Structure(ahead, h, current)
    /\ Exact(nodes, current)
    /\ Stored(nodes, h)
    /\ \A item \in Items : item \in contents <=> InLeaf(ahead, h, item)
    /\ running = "none"   => AtRest(h)
    /\ running = "insert" => Inserting(h)
    /\ running = "erase"  => Erasing(h)

TreeInv ==
    /\ nextNodeId \in Nat \ {0}
    /\ DOMAIN nodes \subseteq 1 .. nextNodeId - 1
    /\ contents \subseteq Items
    /\ load \in Seq(Items)
    /\ running \in {"none", "insert", "erase"}
    /\ pending \in BOOLEAN
    /\ breadcrumbs \in Seq([index : Nat, nodeId : Nat])
    /\ \E h : Shape(h)
=============================================================================
