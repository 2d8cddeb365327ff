------------------------------ MODULE BTreeLMDB ------------------------------
(***************************************************************************)
(* The B-tree over LMDB (storage/BTreeLMDB.h): nodes are read from a table *)
(* of the transaction, copied into a cache to be changed, and written back *)
(* by flush(); a node that is deleted disappears from both at once.        *)
(*                                                                         *)
(* The steps are those of module BTree, whose `nodes` are the nodes as     *)
(* getNodeRead() finds them; here each step also says which nodes the code *)
(* asks of getNodeWrite() and makeNode(), and which it deletes.  LMDB      *)
(* itself is external: a transaction is committed as a whole, or nothing   *)
(* of it remains, as after a crash.                                        *)
(***************************************************************************)
EXTENDS BTreeVerify

CONSTANTS
    OtherTree,   \* ids of the nodes of another tree in the same table
    RecordsMove, \* LMDB keeps several nodes in a page
    MaxSaves     \* bound: flushes, commits, restarts

ASSUME LMDBAssumption ==
    OtherTree \subseteq Nat \ {0} /\ RecordsMove \in BOOLEAN /\ MaxSaves \in Nat

VARIABLES
    dirtyNodeCache,
    table, meta,    \* in the transaction: the nodes, and the metadata
    committed,      \* what a new transaction finds, and where the script was
    updated,        \* the transaction has written to the table
    pages,          \* breadcrumbs that point into the database, and what
                    \* numbers of items they may lead to
    saves

lmdbVars == <<dirtyNodeCache, table, meta, committed, updated, pages, saves>>
allVars  == <<vars, lmdbVars>>

metaDataCache == [rootNodeId |-> rootNodeId, nextNodeId |-> nextNodeId]

(* The nodes of the cache, and those of the table that are not in it.      *)
over(cache, stored) ==
    [id \in DOMAIN cache \cup DOMAIN stored |->
        IF id \in DOMAIN cache THEN cache[id] ELSE stored[id]]

(* getNodeRead: the cache, else the table. *)
Readable == over(dirtyNodeCache, table)

-----------------------------------------------------------------------------
(* Steps of insertions and erasures.                                       *)

(* Mutant: deleteNode() leaves the node in the table. *)
StoreKeepingDeleted(written, deleted) ==
    /\ dirtyNodeCache' =
          [id \in (DOMAIN dirtyNodeCache \cup written) \ deleted |->
              IF id \in written THEN nodes'[id] ELSE dirtyNodeCache[id]]
    /\ UNCHANGED <<table, meta, committed, updated, saves>>

(* The nodes obtained for writing change in the cache; deleteNode() takes  *)
(* a node out of the cache and out of the table. *)
Store(written, deleted) ==
    /\ dirtyNodeCache' =
          [id \in (DOMAIN dirtyNodeCache \cup written) \ deleted |->
              IF id \in written THEN nodes'[id] ELSE dirtyNodeCache[id]]
    /\ table' = [id \in DOMAIN table \ deleted |-> table[id]]
    /\ updated' = (updated \/ deleted \cap DOMAIN table # {})
    /\ UNCHANGED <<meta, committed, saves>>

(* searchItem: a breadcrumb points into the cache, or else into a page of  *)
(* the database.  insertItem (core.h:209) and eraseItem (core.h:350) read  *)
(* numItems through it, insertItem before anything is deleted.             *)
BeginCall ==
    /\ LoadNext \/ Operate
    /\ Store(IF rootNodeId = 0 THEN {nextNodeId} ELSE {}, {})
    /\ pages' = [id \in {c.nodeId : c \in ToSet(breadcrumbs')}
                            \ DOMAIN dirtyNodeCache
                    |-> {Len(table[id].items)}]

InsertStep ==
    LET id == Crumb.nodeId
    IN  /\ \/ InsertUpdate /\ Store({id}, {})
           \/ InsertMerge /\ Store({id}, {})
           \/ InsertSplit /\ Store({id, nextNodeId, nodes[id].nextSibling}
                                       \ {0}, {})
        /\ UNCHANGED pages

siblings(ns, id) == {ns[id].prevSibling, ns[id].nextSibling} \ {0}

(* LMDB, external: a record that is deleted in a page this transaction has *)
(* written before is closed up by moving the other records of the page; a  *)
(* pointer into it then leads to one of them.  (A page that is clean is    *)
(* copied instead, and a node that has pages of its own stays.)            *)
movedBy(deleted) ==
    IF RecordsMove /\ updated /\ deleted \cap DOMAIN table # {}
    THEN [id \in DOMAIN pages |->
             pages[id] \cup {Len(table[n].items) : n \in DOMAIN table \ deleted}]
    ELSE pages

(* breadcrumbs.back().nodePtr.get().numItems *)
parentItems ==
    LET id == breadcrumbs[Len(breadcrumbs) - 1].nodeId
    IN  IF id \in DOMAIN pages THEN pages[id] ELSE {Len(nodes[id].items)}

(* The neighbours of a child that has none are null pointers, on which the *)
(* process dies (Abandon). *)
EraseNode ==
    LET id   == Crumb.nodeId
        pair == neighbours(removed)
    IN  \E small \in IF running = "erase" /\ breadcrumbs # <<>> /\ needsItems(removed)
                     THEN {n > 1 : n \in parentItems} ELSE {FALSE} :
          /\ EraseTurn(small)
          /\ small => 0 \notin {pair.left, pair.right}
          /\ LET deleted == IF pending' THEN {id} ELSE {}
             IN  /\ Store({id}
                           \cup (IF small THEN {pair.left, pair.right} ELSE {})
                           \cup (IF pending' THEN siblings(removed, id) ELSE {}),
                           deleted)
                 /\ pages' = movedBy(deleted)

EndCall ==
    /\ \/ InsertNewRoot /\ Store({nextNodeId}, {})
       \/ InsertReturn /\ Store({}, {})
       \/ /\ EraseReturn
          /\ Store({}, IF rootNodeId' = 0 THEN {} ELSE {rootNodeId} \ {rootNodeId'})
    /\ pages' = <<>>

-----------------------------------------------------------------------------
(* The object and its transaction.                                         *)

Bounded == saves < MaxSaves /\ saves' = saves + 1

(* Mutant: the metadata is written only when the root has changed. *)
flushedMetaOfRoot ==
    IF rootNodeId # meta.rootNodeId THEN metaDataCache ELSE meta

(* The code leaves out the write when there is nothing new to write. *)
flushedMeta == metaDataCache

flushWrites == dirtyNodeCache # <<>> \/ flushedMeta # meta

(* Mutant: what is in the table is not written over. *)
flushedNew == over(table, dirtyNodeCache)

flushed == over(dirtyNodeCache, table)

flush ==
    /\ Idle /\ Bounded
    /\ dirtyNodeCache' = <<>>
    /\ table' = flushed
    /\ meta' = flushedMeta
    /\ updated' = (updated \/ flushWrites)
    /\ UNCHANGED <<vars, committed, pages>>

(* The constructor: nothing is cached, the metadata is what the table has. *)
Construct ==
    /\ dirtyNodeCache' = <<>> /\ pages' = <<>>
    /\ nodes' = table'
    /\ rootNodeId' = meta'.rootNodeId
    /\ nextNodeId' = meta'.nextNodeId
    /\ running' = "none" /\ oldNew' = 0 /\ breadcrumbs' = <<>>
    /\ newKey' = NoKey /\ pending' = FALSE
    /\ neighbourRefreshNeeded' = FALSE

(* The object is destroyed, which flushes it, and another one made in the  *)
(* same transaction. *)
Reconstruct ==
    /\ Idle /\ Bounded
    /\ table' = flushed
    /\ meta' = flushedMeta
    /\ updated' = (updated \/ flushWrites)
    /\ Construct
    /\ UNCHANGED <<contents, load, ops, committed>>

(* cpp/README.md: flush() before the transaction is committed.  The next   *)
(* object is made in the next transaction. *)
Commit ==
    /\ Idle /\ Bounded
    /\ dirtyNodeCache = <<>> /\ meta = metaDataCache
    /\ committed' = [table |-> table, meta |-> meta, contents |-> contents,
                     load |-> load, ops |-> ops]
    /\ UNCHANGED <<table, meta>> /\ updated' = FALSE
    /\ Construct
    /\ UNCHANGED <<contents, load, ops>>

(* The process dies, or an exception leaves a call and ends the            *)
(* transaction.  What was done since the last commit is done again. *)
Abandon ==
    /\ Bounded
    /\ table' = committed.table /\ meta' = committed.meta /\ updated' = FALSE
    /\ Construct
    /\ contents' = committed.contents
    /\ load' = committed.load /\ ops' = committed.ops
    /\ UNCHANGED committed

-----------------------------------------------------------------------------
LMDBInit ==
    /\ Init
    /\ dirtyNodeCache = <<>> /\ table = <<>> /\ pages = <<>> /\ updated = FALSE
    /\ meta = [rootNodeId |-> 0, nextNodeId |-> 1]
    /\ committed = [table |-> table, meta |-> meta, contents |-> {},
                    load |-> load, ops |-> 0]
    /\ saves = 0

LMDBNext ==
    \/ BeginCall \/ InsertStep \/ EraseNode \/ EndCall
    \/ flush \/ Reconstruct \/ Commit \/ Abandon
    \/ Rest /\ UNCHANGED lmdbVars

LMDBSpec == LMDBInit /\ [][LMDBNext]_allVars

-----------------------------------------------------------------------------
(* Every change of a node reaches the cache, whatever of the tree is in    *)
(* the cache, was flushed, or was deleted: getNodeRead() finds the tree's  *)
(* nodes, and no others.  (A node changed through getNodeRead() would be   *)
(* a write into a page of the database.)                                   *)
CacheCoherent == nodes = Readable

(* makeNode() takes the node try_emplace() finds for a new, zeroed one:    *)
(* no id that is given out next is in use, also after a flush without      *)
(* a commit, a crash or another object.                                    *)
FreshNodeIds == \A id \in DOMAIN Readable : id < nextNodeId

(* The items under a node of a table.                                      *)
itemsUnder(ns, root) ==
    LET under[id \in DOMAIN ns \cup {0}] ==
            IF id = 0 THEN {}
            ELSE UNION {IF key.nodeId = 0 THEN {key.item} ELSE
                        IF key.nodeId \in DOMAIN ns THEN under[key.nodeId]
                        ELSE {} : key \in ToSet(ns[id].items)}
    IN  under[IF root \in DOMAIN ns THEN root ELSE 0]

(* Between two calls the set is what is stored, in the cache and in the    *)
(* table; what is saved is what a new transaction finds.  Insertions and   *)
(* erasures cut short, flushed or not, leave no trace after a crash, and   *)
(* all there is is kept by a commit.                                       *)
Durable == INSTANCE DurableSet WITH
    set   <- IF Idle THEN itemsUnder(Readable, rootNodeId) ELSE contents,
    saved <- itemsUnder(committed.table, committed.meta.rootNodeId)

ImplementsDurableSet == Durable!Spec

(* verify() with isLMDB flushes, and looks for leaks among the keys of the *)
(* whole table.  cpp/README.md: the treeId "allows many different trees to *)
(* co-exist in the same DBI".                                              *)
VerifyAcceptsInLMDB ==
    Idle => verify(Readable, rootNodeId, DOMAIN Readable \cup OtherTree, TRUE)
=============================================================================
