----------------------------- MODULE BTreeVerify -----------------------------
(***************************************************************************)
(* verify() of btree/debug.h, by which the fuzz tests judge a tree, and    *)
(* what its verdict is worth: it accepts every tree the operations leave,  *)
(* and no tree that differs from such a one in a single field, sibling     *)
(* pointers of interior nodes excepted.                                    *)
(*                                                                         *)
(* The function throws at the first of the conditions that fails; here     *)
(* they are conjuncts in the same order, over any node store ns.           *)
(***************************************************************************)
EXTENDS BTreeProperties

leaf(ns, id) == ns[id].items[1].nodeId = 0

childIds(ns, id) == {key.nodeId : key \in ToSet(ns[id].items)} \ {0}

(* ctx.allNodeIds: what the recursion visits. *)
allNodeIds(ns, root) ==
    LET visited[n \in 0 .. Cardinality(DOMAIN ns)] ==
            IF n = 0 THEN {root} \ {0}
            ELSE LET ids == visited[n - 1]
                 IN  ids \cup UNION {childIds(ns, id) : id \in ids \cap DOMAIN ns}
    IN  visited[Cardinality(DOMAIN ns)]

(* "saw node id again" *)
SeenOnce(ns, root, ids) ==
    LET references(id) ==
            {at \in ids \X (1 .. MAX_ITEMS + 1) :
                LET keys == ns[at[1]].items
                IN  at[2] \in DOMAIN keys /\ keys[at[2]].nodeId = id}
    IN  \A id \in ids :
            Cardinality(references(id)) = IF id = root THEN 0 ELSE 1

(* The recursion at one node; its totals are checked bottom up, so that    *)
(* those of the children can be taken for the sums of their items.         *)
NodeOk(ns, id) ==
    LET node == ns[id]
    IN  /\ node.items # <<>>
        /\ node.nextSibling # 0 => Len(node.items) >= MIN_ITEMS
        /\ Len(node.items) <= MAX_ITEMS
        /\ \A key \in ToSet(node.items) :
              key.nodeId # 0 => /\ ns[key.nodeId].items # <<>>
                                /\ firstItem(ns, key.nodeId) = key.item
        /\ \A i \in 2 .. Len(node.items) :
              node.items[i - 1].item < node.items[i].item
        /\ node.accumCount = countOfAll(ns, node.items)
        /\ node.accum = accumOfAll(ns, node.items)

(* The leaves from left to right, each with its depth. *)
leafNodeIds(ns, root) ==
    LET below[at \in (DOMAIN ns) \X Nat] ==
            LET id       == at[1]
                depth    == at[2]
                child(i) == ns[id].items[i].nodeId
            IN  (IF leaf(ns, id) THEN <<[id |-> id, depth |-> depth]>> ELSE <<>>)
                    \o FlattenSeq([i \in DOMAIN ns[id].items |->
                                      IF child(i) = 0 THEN <<>>
                                      ELSE below[<<child(i), depth + 1>>]])
    IN  IF root = 0 THEN <<>> ELSE below[<<root, 0>>]

(* The walk along the leaves stops where getNodeRead() finds no node: the  *)
(* one of BTreeMem takes a node that is gone for none, that of BTreeLMDB   *)
(* throws.                                                                 *)
Ends(ns, next, isLMDB) == next = 0 \/ (~isLMDB /\ next \notin DOMAIN ns)

(* Mutant: the way back is not looked at. *)
LeavesOkForward(ns, leaves, isLMDB) ==
    \A i \in DOMAIN leaves :
        /\ IF i < Len(leaves)
           THEN ns[leaves[i].id].nextSibling = leaves[i + 1].id
           ELSE Ends(ns, ns[leaves[i].id].nextSibling, isLMDB)
        /\ i > 1 => Last(ns[leaves[i - 1].id].items).item
                        < firstItem(ns, leaves[i].id)

(* The leaves are linked in this order, both ways, and ascend.  (A list    *)
(* that goes on after the last leaf is read past the end of leafNodeIds,   *)
(* and fails unless that happens to hold the id; a shorter one fails the   *)
(* count of its items.)                                                    *)
LeavesOk(ns, leaves, isLMDB) ==
    \A i \in DOMAIN leaves :
        /\ IF i < Len(leaves)
           THEN ns[leaves[i].id].nextSibling = leaves[i + 1].id
           ELSE Ends(ns, ns[leaves[i].id].nextSibling, isLMDB)
        /\ ns[leaves[i].id].prevSibling =
              IF i = 1 THEN 0 ELSE leaves[i - 1].id
        /\ i > 1 => Last(ns[leaves[i - 1].id].items).item
                        < firstItem(ns, leaves[i].id)

(* verify, over a store with the nodes `stored`, leaks and dangling nodes  *)
(* included.                                                               *)
verify(ns, root, stored, isLMDB) ==
    LET ids    == allNodeIds(ns, root)
        leaves == leafNodeIds(ns, root)
    IN  /\ ids \subseteq DOMAIN ns
        /\ SeenOnce(ns, root, ids)
        /\ \A id \in ids : NodeOk(ns, id)
        /\ \A i \in DOMAIN leaves : leaves[i].depth = leaves[1].depth
        /\ LeavesOk(ns, leaves, isLMDB)
        /\ stored \subseteq ids

-----------------------------------------------------------------------------
(* The fuzz tests call verify after every operation: no sequence of        *)
(* insertions and erasures leaves a tree it rejects.                       *)
VerifyAccepts == Idle => verify(nodes, rootNodeId, DOMAIN nodes, FALSE)

(* One field of one node holds another value, or a node is missing or too  *)
(* many. *)
FieldsChanged(id) ==
    UNION {
        {[nodes EXCEPT ![id].accumCount = @ + d, ![id].accum = @ + d + e] :
            d, e \in {-1, 0, 1}},
        {[nodes EXCEPT ![id].nextSibling = n] : n \in NodeIds \cup {0}},
        {[nodes EXCEPT ![id].prevSibling = n] : n \in NodeIds \cup {0}},
        {[nodes EXCEPT ![id].items = RemoveAt(@, i)] :
            i \in DOMAIN keysOf(id)},
        {[nodes EXCEPT ![id].items[i].item = @ + d] :
            i \in DOMAIN keysOf(id), d \in {-1, 1}},
        {[nodes EXCEPT ![id].items[i].nodeId = n] :
            i \in DOMAIN keysOf(id),
            n \in NodeIds \cup {0}}}

Damaged ==
    (UNION {FieldsChanged(id) : id \in DOMAIN nodes})
        \cup {deleteNode(nodes, id) : id \in DOMAIN nodes}
        \cup {makeNode(nodes)}

(* What verify sees of a tree: no sibling pointers of interior nodes, and  *)
(* no difference between a pointer to a node that is gone and none.        *)
Seen(ns) ==
    [id \in DOMAIN ns |->
        IF ns[id].items = <<>> THEN ns[id]
        ELSE IF ~leaf(ns, id)
        THEN [ns[id] EXCEPT !.nextSibling = 0, !.prevSibling = 0]
        ELSE [ns[id] EXCEPT !.nextSibling = IF @ \in DOMAIN ns THEN @ ELSE 0]]

(* What verify accepts is the tree it should be: any other value of one    *)
(* field is noticed, but for a next leaf that is gone after the last one,  *)
(* and the sibling pointers of interior nodes, which eraseItem follows and *)
(* verify does not.                                                        *)
VerifyDetects ==
    Settled => \A ns \in Damaged :
        verify(ns, rootNodeId, DOMAIN ns, FALSE) => Seen(ns) = Seen(nodes)
=============================================================================
