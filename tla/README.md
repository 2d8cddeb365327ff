# Verification of negentropy

negentropy reconciles two sets of records by ranges: a client and a server
exchange fingerprints and lists of ID ranges until the client knows which
records only it has and which only the server has. This directory holds TLA+
models of the C++ implementation in `cpp/`, of the C wrapper and of parts of the
JavaScript port, TLC configurations that check them on small instances, and
TLAPS proofs about them.

Run a configuration with `tlc -config Negentropy_fixed.cfg MCNegentropy`,
according to the table under "Runs", and the proofs with
`tlapm` on each of the modules under "Proofs".

## The system

| Component | State | Operations | Used by |
|---|---|---|---|
| Engine, `cpp/negentropy.h` | `isInitiator`, `lastTimestampIn/Out`; during a call the remaining query, the output, `prevIndex`, `prevBound`, `skip` | `initiate`, `setInitiator`, `reconcile` (two overloads) | the application, the C wrapper |
| Items, bounds, accumulator, `types.h` | none | order, 256-bit sum, fingerprint | all |
| Wire encoding, `encoding.h` | the unread rest of a message | varints, bytes | engine, accumulator |
| `storage/Vector.h` | `items`, `sealed` | `insert`, `seal`, `unseal`, queries | engine, SubRange |
| `storage/btree/core.h` with `storage/BTreeMem.h` | nodes, root, next node id | `insertItem`, `eraseItem`, queries | engine, SubRange, C wrapper |
| `storage/BTreeLMDB.h` | metadata cache, dirty nodes, the LMDB transaction | node operations, `flush` | `btree/core.h` |
| `storage/SubRange.h` | indices into another storage | queries | engine, C wrapper |
| `btree/debug.h` | none | `verify`, `dump` | tests |
| C wrapper, `c/` | allocated results | one function per method | foreign callers |
| JavaScript port, `js/Negentropy.js` | as the engine and Vector | asynchronous `initiate`, `reconcile` | applications |
| Test drivers, `test/` | two child processes | random data, message loop | |

The engine asks its storage for `size`, `findLowerBound`, `fingerprint` and
`iterate`; between two calls a BTree storage may be changed by anyone. The
application carries messages: it gives each to `reconcile` of the other side,
collects the `have` and `need` arrays at the client, and stops when the client's
`reconcile` returns `nullopt`.

What is hard here: ranges are connected by bounds, not indices, and a bound
goes through a delta encoding and a shortening to a prefix; skips are collected
and left implicit at the end of a message; a frame limit makes either side drop
work it must come back to; storages change between two messages, and calls may
throw or answers come late; the B-tree changes nodes on several levels, with
sibling pointers, keys and totals that must agree afterwards; over LMDB those
changes wait in a cache while deletions do not; and the C wrapper hands memory
over a field at a time. `PROJECT.json` lists each hazard at its line.

What makes each part correct: the engine - reports are right at every time and
complete at the end, the protocol ends, frames fit their limit; the codecs -
the receiver reads what was written, or notices that it cannot; the B-tree - it
is a balanced tree that holds exactly the set, and its queries answer as a
sorted array would; LMDB storage - what is committed is a tree, and a crash falls
back to it; SubRange - it answers as a copy of the range would; accumulator - a
sum modulo 2^256, whatever was added and taken away in between; the C wrapper -
all memory of a result is freed, once.

## Modules

| Module | What it is |
|---|---|
| `Types` | items, bounds, order, `encodeTimestampOut`, `decodeTimestampIn`, `getMinimalBound` |
| `SetReconciliation` | abstract specification: what a synchronisation promises |
| `Negentropy` | client and server engine, messages, application, storages that change, failures |
| `NegentropyProperties`, `MCNegentropy` | its properties and refinement; instances for TLC |
| `NegentropyProofs` | theorems: types, frame limit and bounds; what messages say; what the client is told, and the refinement |
| `Storage` | sorting, and the queries of the storage interface on sequences, for Vector and B-tree |
| `SubRange`, `SubRangeProofs` | a Vector that is sealed and unsealed, or a B-tree, and a proxy over it; theorems |
| `BTree` | insertion, erasure and queries of the B-tree |
| `BTreeProperties`, `BTreeVerify`, `MCBTree` | its invariants, over the queries of `Storage`; `verify()` and what its verdict is worth; instances |
| `BTreeShape`, `BTreeLemmas`, `BTreeProofs` | the inductive invariant `TreeInv` of the B-tree; lemmas; theorems |
| `BTreeLMDB`, `DurableSet`, `MCBTreeLMDB` | the steps of `BTree` over a write-back cache and a transaction; the abstract durable set it implements; instances |
| `BTreeStorageProofs` | theorems: queries and `verify()` of the B-tree; the tree over LMDB |
| `Accumulator`, `AccumulatorProofs`, `MCAccumulator` | 256-bit sums in four words; theorems; instance |
| `Encoding`, `EncodingProofs`, `MCEncoding` | varints and byte strings of both ports, byte by byte; theorems; instance |
| `CWrapper`, `CWrapperProofs`, `MCCWrapper` | the memory of results; theorems; instances |

The modules meet in these places. `Negentropy` asks its storage through
`storageLowerBound`, which is that of a Vector, or of a `SubRange` over a B-tree
when `base` holds the tree's items left of the range; `SubRange` builds on
`TreeLowerBound` of `Storage`; and the run `btree` shows that
`findLowerBound` of `BTree` is `TreeLowerBound` (`LowerBounds`) and that its other
queries are those of `Storage`. `BTree` and `Storage` add integers where the
code adds 256-bit buffers: `Accumulator` shows that this is the same sum modulo
2^256. `Negentropy` passes bounds as records: `Encoding` shows that they
survive the bytes.

A definition marked `Mutant` right before another one is that definition with a
plausible mistake. With it in the other's place, the property named next to it
in `PROJECT.json` fails.

### Negentropy

The state of the two objects, the locals of the one `reconcileAux` that runs,
the messages on their way, the application's accumulated arrays (as counts per
ID, so that duplicates show) and the two storages. Actions: `Initiate`;
`Receive` (call of `reconcile`, version check, resets) or `RefuseVersion`; one
action per range of the query, by mode and role - `SkipStep`,
`FingerprintMatches`, `FingerprintDiffers`, `IdListAtInitiator`,
`IdListAtResponder` - each with the whole tail of the loop's body (`EndRange`:
frame limit, remaining fingerprint, `prevIndex`, `prevBound`); and
`ReturnAtResponder`, `Continue` or `Finish`. Between calls `Insert`, `Erase` and
`Recreate` (a new object goes on, a client's after `setInitiator`) may happen at
either side while the client waits. `ProbeNewerVersion` and `Downgrade` are an
external client that first tries a newer version, as `test/protoversion.pl` does.

The frame limits of the two objects and the position of their storages in a tree
are fixed at construction: `Init` chooses them from `FrameSizeLimits` and
`Bases`.

Failures. `StorageFails` is a storage query that throws in the middle of a call:
the locals are lost, with whatever `haveIds` and `needIds` held, and the objects
keep their offsets until the next call resets them. `BadRange` is the exception of
the storage's `checkBounds` (`SubRange.h:57`, `Vector.h:82`) when a lower bound comes
back below `begin`.
`Timeout` is a client that stops waiting; messages on their way are lost, or
merely late. `Retry` starts again with a new client object and the arrays
collected so far; a late answer of the old attempt is then taken for one to the
new attempt.

What is abstracted. An ID is a number, in the order of `memcmp`; a fingerprint
is the set it digests, so collisions do not exist; a message is a sequence of
ranges with a size, where bound, mode and count of a range take a constant
worst-case `HeaderSize`. The bound of an item, encoded with 32 bytes in the
code, counts as such a header. Timestamps keep their width (`MAX_U64` is a
parameter) with wrap-around and saturation. `MinimalPrefix` is a parameter of
which `PrefixAssumption` says what the byte loop guarantees; the instance for
TLC computes it on two-digit IDs.

### SubRange

A Vector or a B-tree as a sequence of numbers, edited by its own calls
(`VectorInsert`, `Seal`, which sorts, finds duplicates and is sealed by then,
`Unseal`, `TreeEdit`), and one proxy with its fields `subBegin`, `subEnd`,
`subSize`. The queries are operators with `size_t` arithmetic modulo
`SizeModulus`. The two storages differ in `findLowerBound`: the one of a B-tree
counts in the whole tree, whatever `begin` (`btree/core.h:593`), and a proxy
subtracts its offset from that count (`SubRange.h:47`). The specification is `copy`,
the items from the lower bound up to and without the upper one, as the README of
`cpp/` has it. The code takes an item equal to the upper bound in, so `VectorProxy`
and `TreeProxy` are for ranges whose upper bound is no item (`EndsBetweenItems`), and
`UpperBoundExclusive`, without that condition, is violated.

### BTree, BTreeVerify

The node store, and one action per turn of the loops of `insertItem` and
`eraseItem` from the leaf back to the root, with the breadcrumbs and flags they
carry: `InsertUpdate`, `InsertMerge`, `InsertSplit`, `InsertNewRoot`,
`InsertReturn`; `EraseStep` (remove, refresh keys, then leave, merge or
rebalance, then delete if empty) and `EraseReturn`. An accumulator is the sum of
the items. The queries are operators evaluated between calls. A `load` is a
script of operations by which a run reaches a big tree without enumerating all
ways to it.

`verify` is `verify()` with its conditions in the order of the code. Two
properties ask what its verdict is worth: it accepts every tree the operations
leave, and it rejects every tree that differs from such a tree in one field,
lacks a node or has one too many. Two kinds of damage it cannot see, and
`VerifyDetects` says so through `Seen`: the sibling pointers of interior nodes,
which no one compares (the walk is along the leaves) although `eraseItem` follows
them; and, over BTreeMem, a next pointer of the last leaf to a node that is gone.

### BTreeLMDB

Every step of `BTree` is conjoined with what it does to the write-back cache:
`Store(written, deleted)` names the nodes the code asks of `getNodeWrite` and
`makeNode`, which go to `dirtyNodeCache`, and those it gives to `deleteNode`,
which leave cache and `table` at once. `flush` writes cache and metadata to the
transaction; `Reconstruct` destroys the object, which flushes it, and makes
another one; `Commit` makes the transaction durable; `Abandon` is a crash or an
exception in the middle of anything, after which what was done since the last
commit is done again.

LMDB itself is external: a transaction is committed as a whole, or nothing of it
remains. What it says of pointers matters here: the one `getNodeRead` hands out
leads into a page of the database (`BTreeLMDB.h:68-77`), and is valid until the next
update of the transaction only. Breadcrumbs keep such pointers, `deleteNode` is such
an update (`BTreeLMDB.h:108`), and the turns after it read the parent's number of
items through them (`btree/core.h:350`). `pages` has, for each breadcrumb that points
into the database, the numbers of items it may lead to. A deletion adds those of the
other nodes (`movedBy`) when `RecordsMove` says that nodes share pages and `updated`
that the transaction has written to the table before: LMDB closes up the records of
a page it has already copied, and copies the page otherwise. `EraseNode` then
chooses among them whether the node is taken for too small
(`EraseTurn` of `BTree`; `EraseStep` is the same with the parent's own number).
Which pages were copied and which nodes lie in them is not modelled: with
`RecordsMove` every pointer is affected once something was written. The 3952 bytes
of a node have a page of 4096 to themselves, and a record of that size is put on an
overflow page of its own (`RecordsMove = FALSE`); nodes of the fuzz test's
build, or pages of 16 KB, are shared.

`DurableSet` is the abstract specification: a set that is changed, saved,
and reverts to what was saved. The refinement maps the set to the items under the
root as a reader finds them and the saved set to those under the committed root.

### Accumulator

Buffers are four words of `Base`, added with the code's two wrap tests per word;
negation is the complement plus one, and subtraction is the addition of the
negation. Actions on a pair of nodes: an item added or subtracted, one moved by
`rebalance` (through a buffer of its own), a merge.

### Encoding

A writer appends bounds, the transport cuts the message at any byte, and a reader
takes it apart a byte at a time. `ends` remembers where each bound ends, and `arrived`
how much was delivered: the reader must end well only at one of these places, and
throw only within the bound after those it has read (`NoticesTruncation`). `port`
chooses between the functions of `encoding.h` and those of `js/Negentropy.js`, whose
shifts work on signed 32-bit integers. What is read back is what was written, for
the JavaScript port, only under `Representable`, that is for offsets below 2^31: from
there on a value is read back negative, and from 2^32 on its high digits are lost
(`ReadsEveryNumber` is violated). The framing does not depend on it.

### CWrapper

Blocks of memory are numbers, a field of the result struct is the set of blocks
it leads to, and `Wild` is a length and pointer nobody wrote. One action per
exported function that fills in a result or calls back, with its failing paths,
and `free_result`. `ZeroEachTime` is the caller's discipline: whether it clears
the struct before every call or only once.

## Runs

| Run | Configuration, module | Instance | Shows |
|---|---|---|---|
| `fixed` | `Negentropy_fixed.cfg`, `MCNegentropy` | all but at most two of ten items at either peer, or a client over a SubRange of the last five; no limit or one at either peer; one version probe | `CompleteWhenDone`, `FingerprintsTruthful`, `NoDuplicateReports`, `IdListsTruthful`, `WithinFrameLimit`, refinement of `SetReconciliation` |
| `changing` | `Negentropy_changing.cfg`, `MCNegentropy` | three storages of six items, no limit, two edits, one failure | `TypeOK`, `AscendingBounds`, `SoundReports`, refinement, `Termination` |
| `both_limits` | `Negentropy_both_limits.cfg`, `MCNegentropy` | uneven storages of eight items, limits at both peers, one edit, one failure | `SoundReports`, `SkipsCoalesced`, `IdListsTruthful`, `Termination` |
| `missed` | `Negentropy_missed.cfg`, `MCNegentropy` | storages of five to eight items, limits at both peers | `CompleteWhenDone` is violated |
| `partial_sync` | `Negentropy_partial_sync.cfg`, `MCNegentropy` | a server over a SubRange of a B-tree | `SoundReports` is violated |
| `btree` | `BTree.cfg`, `MCBTree` | 40 items inserted and erased in 144 pairs of orders; one more operation on packed, halved and nearly empty trees | `TypeOK`, `Balanced`, `SiblingsLinked`, `KeysAndTotals`, `HoldsContents`, `SearchFinds`, `IterationInOrder`, `FingerprintsOfRanges`, `LowerBounds`, `VerifyAccepts`, `VerifyDetects` |
| `lmdb` | `BTreeLMDB.cfg`, `MCBTreeLMDB` | 22 items inserted and erased in two orders, and two operations on trees of eight; three flushes, commits, new objects or crashes anywhere | `CacheCoherent`, `FreshNodeIds`, `VerifyAcceptsInLMDB`, refinement of `DurableSet` |
| `subrange` | `SubRange.cfg`, `SubRange` | every pair of bounds over every Vector and tree six calls make | `TypeOK`, `VectorProxy`, `TreeProxy` |
| `accumulator` | `Accumulator.cfg`, `MCAccumulator` | three calls on two nodes, IDs of extreme and small words | `SumOfIds` |
| `encoding` | `Encoding.cfg`, `MCEncoding` | two bounds of every number, cut at every byte, both ports | `TypeOK`, `ReadsWhatWasWritten`, `NoticesTruncation` |
| `c_wrapper` | `CWrapper.cfg`, `MCCWrapper` | four calls, a struct cleared every time | `ResultReadable`, `NoLeak` |
| `c_wrapper_reused` | `CWrapper_reused.cfg`, `MCCWrapper` | three calls, a struct cleared once | `FreesOnlyLive` is violated |

Four more configurations are kept beside these runs. Each has TLC refute one property,
and each says why a run or a theorem has the hypothesis it has; what they mean is
under "Findings".

| Configuration, module | Instance | Refuted |
|---|---|---|
| `BTreeLMDB_moved.cfg`, `MCBTreeLMDB` | as `lmdb`, but nodes share pages; one flush, commit, new object or crash | `VerifyAcceptsInLMDB` |
| `BTreeLMDB_two_trees.cfg`, `MCBTreeLMDB` | as `lmdb`, with the nodes 1 and 2 of another tree in the table | `VerifyAcceptsInLMDB` |
| `SubRange_end.cfg`, `SubRange` | as `subrange`, ranges that end at an item included | `UpperBoundExclusive` |
| `Encoding_js.cfg`, `MCEncoding` | one bound of every number, in JavaScript from 2^31 on too | `ReadsEveryNumber` |

Why the bounds are enough.

*Negentropy*: `Buckets = 2` (16 in the code), limits of 11 or 12 and a reserve of
5 (4096 or more, and 200). With two buckets a range is listed below four items
and split from four on; eight items split two deep, and uneven splits occur. With
ten items, or a peer with twice the items of the other, lists are cut short by
the limit, and an answer is dropped after several were written. Limits of 11 and
12 with the reserve of 5 are the smallest `SizeAssumption` allows; lists are cut
short, splits are dropped, and both happen in one synchronisation. The items
share timestamps with and without a common first digit, so that every kind of
bound occurs, and lie at both ends of the timestamp range, so that the delta
decoding saturates. Two edits let an insertion and an erasure meet at one or both
sides between any two messages. One failure lets an attempt be cut off at any
query or message, with or without its messages left over for the next one.

*BTree*: node sizes of 2, 4 and 6, those of the fuzz test build, are the smallest
the static asserts permit with all cases distinct; three levels are the least on
which an interior node that is not the root is split, merged and rebalanced, and
a further level repeats that. Over LMDB three saves are a flush, a commit and a
crash, in every order and at every step.

*SubRange*: six calls are three items, a seal and two proxies, or an unseal
between them; items at even numbers leave a bound below, between and above any
two, and `SizeModulus` only has to exceed the sizes.
*Accumulator*: words of two bits have every combination of the two wrap tests;
the theorem covers all others. *Encoding*: five bits in digits of two leave the
last digit partly used, as 64 bits in digits of seven do; JavaScript's limit of
half of that range puts representable numbers and others on both sides of it.
*CWrapper*: two IDs of either kind, and four calls, bring every pair of functions
one after the other and a third after a failure.

Fairness. `FairSpec` says only that the protocol's own steps are not put off for
ever: messages are delivered, `reconcile` returns, the application calls it, and a
client that failed tries again. The code is a loop in one thread over a
transport the application provides, so this is what a working transport gives;
edits, failures and probes are not fair, and bounded. A storage that changes for
ever may keep a synchronisation busy for ever. `Termination` holds with edits,
with one failure, with late answers, and with limits at both peers.

Completeness is combined with limits, and with changing storages, but not with
both: with a limit at one peer two erasures between messages can empty a bucket
whose answer had been dropped, and the finding below applies.

`TreeProxy` and the client's SubRange in `fixed` state what a partial
synchronisation over a B-tree can expect, and it is less than one might hope: a
bound of the server's may lie among the tree's items left of the client's range.
The client's `findLowerBound` then answers `begin` or more than it should; in the
instances of `fixed` that is `BadRange`, the exception of `checkBounds`, or
harmless, and a client that gets to its end is sound and complete. It is not so in
general: see the finding on SubRange.

## Findings

*Differences missed with two limits* (`missed`, `negentropy.h:188`). When the
answer to a range does not fit the frame it is dropped, with the pending skip
before it, and one fingerprint is sent of the items from index `upper` on. Its
receiver takes it for the fingerprint of everything since the last bound that was
written, which includes the range just dropped: it is not "a digest of all the IDs
the sender has within the Range" (`docs/negentropy-protocol-v1.md:47`). If the
sender has items there and the receiver none, and the rest agrees, they match, and
the difference is never reported. With a limit at one peer only, and storages that
do not change, the untrue fingerprint never matches wrongly in the instances
checked (`fixed`): the dropped answer was to a fingerprint that the unlimited peer
made of a bucket with items. Reports stay right in all cases (`both_limits`).

*A server over a SubRange of a B-tree reports wrong IDs* (`partial_sync`,
`SubRange.h:47`). A client's bounds left of the range make
`base.findLowerBound(...) - subBegin` wrap around, and the range is taken to lie
left of the bound. The test `test/cpp/subRange.cpp:61` compares the query with a
Vector's for a few bounds, none of them among the tree's items left of the range.
A client over such a SubRange is exposed to it as well: over the last two of ten
items, against a server with most of them and a frame limit, the bound at which
a list of the server was cut lies left of the client's range, and the client
reports wrong IDs.

*A result used twice is freed twice* (`c_wrapper_reused`,
`negentropy_wrapper.cpp:139`). A failing call writes the error only, and
`free_result` resets nothing. `c/example/test.c` does this at lines 122, 128 and
138, and does not initialise its struct at 113; with
`FirstResult <- Indeterminate` the same property fails at the first `free_result`.

The next four have configurations but no runs.

*An erasure over LMDB reads a node through a stale pointer* (`BTreeLMDB_moved.cfg`,
`btree/core.h:350`). A tree of three levels is flushed and then erased from in the
same transaction. The erasure deletes a leaf in the table; the next turn reads the
root's number of items through the pointer of its breadcrumb, finds 1, and leaves an
interior node with fewer than `MIN_ITEMS`, which `verify()` rejects. This is what
`btreeFuzz.cpp` over LMDB does, whose `verify()` flushes after every operation and
whose nodes share pages; it says "TREE FAILED INVARIANTS" of such a tree
(`test/cpp/btreeFuzz.cpp:44`). Whether a build of the code shows it depends on
where in its page the parent lies; it was not reproduced with the compiled library. Reading the number before the loop deletes anything, or taking the node
with `getNodeRead` again, would do.

*verify() takes another tree for a leak* (`BTreeLMDB_two_trees.cfg`,
`btree/debug.h:157`). Over LMDB it looks for leaks among the keys of all trees of the
table, where `cpp/README.md:83` says that many trees may co-exist in it.

*The upper bound of a SubRange is inclusive for an equal item* (`SubRange_end.cfg`,
`SubRange.h:23`), where `cpp/README.md:91` says upper bounds are exclusive. It takes a
bound with a full ID, or an ID of zeros only.

*JavaScript's timestamps end at 2^31* (`Encoding_js.cfg`, `js/Negentropy.js:63`).
`js/README.md:54` says that values "greater than `Number.MAX_VALUE`" cause failures;
the shifts work on signed 32-bit integers.

## Proofs

All theorems are for every value of the constants that the named assumptions
allow; TLC evaluates those assumptions in the runs.

| Module | Theorem | Property | Hypotheses |
|---|---|---|---|
| `NegentropyProofs` | `TypeCorrect`, `FrameLimit` | `TypeOK`, `WithinFrameLimit` | |
| | `SkipsAreCoalesced` | `SkipsCoalesced` | |
| | `BoundsAscend`, `IdListsAreTruthful`, `FingerprintsAreTruthful` | `AscendingBounds`, `IdListsTruthful`, `FingerprintsTruthful` | `NoBases` |
| | `ReportsAreSound`, `DifferencesAreReportedOnce` | `SoundReports`, `NoDuplicateReports` | `NoBases` |
| | `ReportsAreComplete`, `SynchronisesSets` | `CompleteWhenDone`, `ImplementsSetReconciliation` | `NoBases`, `Unlimited`, `Undisturbed` |
| `BTreeProofs` | `TreeStays`, `TypesStay`, `KeysAndTotalsStay`, `SearchFindsStay` | `TypeOK`, `KeysAndTotals`, `SearchFinds` | |
| `BTreeStorageProofs` | `IterationStays`, `FingerprintsStay`, `LowerBoundsStay`, `ContentsStay` | `IterationInOrder`, `FingerprintsOfRanges`, `LowerBounds`, `HoldsContents` | |
| | `SiblingsStay`, `BalanceStays`, `VerifyStays`, `VerifyNotices` | `SiblingsLinked`, `Balanced`, `VerifyAccepts`, `VerifyDetects` | |
| | `StoreStays`, `CacheStays`, `FreshIdsStay`, `StoreIsDurable` | `CacheCoherent`, `FreshNodeIds`, `ImplementsDurableSet` | `RecordsMove = FALSE` |
| | `VerifyStaysInLMDB` | `VerifyAcceptsInLMDB` | `RecordsMove = FALSE`, `OtherTree = {}` |
| `SubRangeProofs` | `StorageSorted`, `VectorProxied`, `TreeProxied` | `TypeOK`, `VectorProxy`, `TreeProxy` | |
| `EncodingProofs` | `ReaderTypes`, `BoundsReadAsWritten`, `TruncationNoticed` | `TypeOK`, `ReadsWhatWasWritten`, `NoticesTruncation` | |
| `AccumulatorProofs` | `AccumulatorCorrect`, `SubUndoesAdd` | `TypeOK`, `SumOfIds` | |
| `CWrapperProofs` | `ResultsCanBeRead`, `ResultsFreedOnce` | `ResultReadable`, `FreesOnlyLive`, `NoLeak` | `ZeroEachTime` |

### The engine

`NoBases` says that no peer's storage is a
SubRange over a B-tree: its `findLowerBound` breaks all that follows (run
`partial_sync`). Changes of the storages between messages, exceptions, timeouts,
late messages, retries, recreated objects and frame limits at both peers are
covered by everything that does not name the other two hypotheses.

*Types and frames.* `TypeOK` is inductive as stated; it includes that storages
stay sorted and that `prevIndex` stays within the storage while a call runs.
`FrameLimit` needs `FrameInv`, which bounds `outputSize` while a call runs: at most
the limit less the reserve as long as there is query left, at most the limit when
there is none. The case of `IdListAtResponder` uses that the last ID listed was
listed below the limit; the reserve holds that ID, a skip, the list's header and
the final fingerprint. The first message needs `LargestSplit` to fit.

*Bounds.* The order is total; the delta encoding and the minimal prefix are
decoded to a bound that separates the same items (`Codec` and the lemmas after
it); a bound that the receiver decodes has one index in a sorted storage; and the
ranges of `splitRange` cover what was split. That `decodedBounds`, a recursive
function over the ranges of a message, gives back the sender's bounds is shown for
all messages by looking at the least range where it would not (`LeastNumber`).

*What messages say.* `Honest(q, a, from)` says of a sequence `a` of ranges with
full bounds that it ascends, that its lists are the IDs the sender `q` has between
the bounds and its fingerprints those of a sender without limit digest - items
edited since then excepted. `Means` relates it to the encoded ranges. `TruthInv`
says it of every message on its way (`MailInv`), of what is left of the query and
of the output of a running call (`CallInv`), of which the last skip is not yet
written and the first part has the index `prevIndex` in the storage. Every action
of the loop appends to the output what it takes off the query.

*What is reported.* Soundness follows from `TruthInv` and that a report comes from
a list. For the rest, `Covers(a, from, it)` says that the item `it` lies in a range
of `a` that asks for an answer. `OnceInv`: a difference that was reported is
covered by nothing on its way. `CoverInv`: a difference that was not, nor edited,
is covered by the message on its way, the rest of the query or the output. When
the client has ended, nothing is on its way (an output of one byte is one without
ranges, `SizeInv`, because a range takes a byte at least), so everything was
reported; with soundness that is `CompleteWhenDone`, and each report of the
abstract specification follows.

Completeness and the refinement assume `Unlimited`, no frame limits, since with
limits at both peers they are false (run `missed`); and `Undisturbed`, that not
both refused versions and failures occur: a probe whose refusal arrives in a later
attempt would be taken for an empty answer, the end of the protocol. With a limit at
one peer completeness is checked by TLC only (`fixed`).

### B-tree

`KeysAndTotals` is not inductive: between two turns of a loop the node above has a
key too few or one that is not a first item any more, and its totals are off by
one item. `TreeInv` (`BTreeShape`) is the shape of the tree in the middle of a
call. `ahead` is the tree with the pending key put in or taken out of the node
that the call has come to; on it hold the local conditions of `Structure` - the
keys of a node lead one level down, no node is a child twice, siblings point to each
other and are the children of adjacent keys, keys ascend across siblings - and
`Exact`: every other node has sizes, keys and totals as they should be. `Inserting`
and `Erasing` say which keys may be stale at the current node and by what its
totals differ, and that the breadcrumbs are a path from the root. That the tree is
balanced is the existence of a level `h` for each node, which a new root extends by
one node. `TreeInv` itself was checked by TLC on the instance of `btree` before it
was proved.

The proof has one lemma per kind of change (`BTreeLemmas`: a key put in, a node
split, a key removed, a node merged or refilled from its sibling, a node unlinked, the
first key corrected, the totals corrected) and one per action (`BTreeProofs`;
those of `insertItem` up to a split are in `BTreeLemmas`).
Totals are sums of recursive functions, of which the lemmas show that
they exist and what an insertion, removal or cut does to them. `SearchFinds`
follows from the order of each level: an item of a leaf is in the range of every
key above it, and the search goes to the last key not above the item.

*Queries.* Between two calls the items of the leaves lie in one sequence `s`, and
every key of every node has a place in it, its edge: the number of items before it.
The totals of a key are those of the items from its edge to the next one
(`NodeSpans`, `PrefixSpans`). The queries are recursive functions on pairs of a
node and a number. `RecursionExists` shows once that a function exists whose values
rest on arguments of a lower rank, here the level or the number of items to come.
Then the descent of `traverseToOffset` is followed from edge to edge (`fingerprint`
is a difference of two such prefixes); the walk of `iterate` from item to item and,
past the last key of a leaf, to the edge of its sibling; and that of
`findLowerBound` to the last key not above the bound. What a node gathers from the
leaves below it is the slice of `s` between its first edge and its last one
(`HoldsContents`).

*Levels.* The nodes of one level are a row, from the first to the last by the
sibling pointers (`LevelTold`), and the row below is that of their children; each
node stands once in one row, and first items ascend along it. `Balanced` and
`SiblingsLinked` are read off the rows.

*verify().* Its recursion visits what is n levels below the root after n rounds,
which is everything; no node is referred to twice, since no node is a child twice;
and the leaves it lists are the last row (`LeavesOfTree`). For `VerifyDetects`
each kind of damage has a lemma that says which condition it breaks: a total is
that of the children, which are untouched (`TotalsTell`); a key taken away has at
least one item below it; an item is the first of its child or counts in the total
of a leaf; a child exchanged for another leaves the one without a
reference or gives the other a second one; a node that is missing is still visited, one that is new
has no items; and a pointer of a leaf is told by the last row.

`ThresholdAssumption` (`BTree`) is `MIN_ITEMS > 0` and
`REBALANCE_THRESHOLD >= 2 * MIN_ITEMS`. It is true of the code's 30, 60 and 80, and
the `static_assert`s do not state it; `eraseItem` relies on it: it refreshes the key
of a neighbour that gave items away but not of one that took some, and only with it
does a node that is too small always take.

### LMDB storage

The theorems are for nodes that have pages of their own (`RecordsMove = FALSE`);
otherwise the tree need not stay one (`BTreeLMDB_moved.cfg`). A pointer into the
database then leads to what the search saw, and since a call changes a node only after
it has passed it, that is still the node's number of items (`CrumbsRead`): the steps of
`BTreeLMDB` are those of `BTree` (`TurnReads`; `StoreStays` has `TreeInv` in it). The
rest is about the cache: the nodes a step changes are among those it names to
`Store`. `LMDBInv` adds that the committed table is a tree at rest, so that falling
back to it gives one. The refinement maps the start of a call to the change of the
set and the rest of the call to stuttering: at its end the items under the root, as a
reader finds them, are `contents`. `VerifyAcceptsInLMDB` is `verify()` of the tree,
which is what a reader finds; it also assumes `OtherTree = {}`, without which the
property is false (`BTreeLMDB_two_trees.cfg`).

### SubRange

`VectorProxied` and `TreeProxied` are about ranges whose upper bound is no item, as the
properties are. The invariant `ProxyInv` says that a readable base is sorted and that a proxy that
is up to date has the fields the constructor would compute now (`Made`). The rest
is about operators: a strictly ascending sequence is the only one of its items
(`AscendingIsUnique`), so the slice of the base between the two indices is the
ascending sequence of the items between the bounds; `std::lower_bound` counts the
items below, which a slice shifts by its offset; and differences of indices do not
wrap around as long as the base has fewer items than `SizeModulus`
(`SubRangeAssumption`).

### Encoding

Every number is decoded from its digits: a prefix of the digits of `n` is the
digits of a smaller number, and digits determine the number (`DigitPrefixes`,
`DigitsDetermine`, by the least counterexample), so each turn of `decodeVarInt`
goes from one such number to the next and never exceeds `n`; for numbers that
fit, no shift loses a bit (`Turn`). `WireInv` says that there is a message, the
end of each bound in it (`Marked`: these are `ends`), the number of bytes read and the number that arrived,
of which `encoded` is the part between, and where in a bound the reader is.
Lengths are always small, so the framing holds even where the JavaScript port
decodes an offset wrongly.

### Accumulator

`StandsFor(a, n)` says that the buffer `a` and the integer `n` differ by a multiple
of the modulus; it is preserved by `add` (word by word, with the carry of each),
`negate` and `sub`, and the invariant `Sums` says it of every node. A remainder
alone would not do: it says nothing of the words being words. `SubUndoesAdd`:
subtracting a buffer that was added gives every byte back.

### C wrapper

`ZeroEachTime` is the caller clearing the struct before every call. The invariant
`Owned` says that the live blocks are those of the returned result, each in one
field, or those of the running callback, and that all are numbered up to
`allocated`, so that new ones are new. Without `ZeroEachTime` the run
`c_wrapper_reused` refutes it.

### Left to TLC

Liveness (`Termination`) and whatever needs ENABLED; the properties of the
runs and configurations that expect a violation; and completeness with a frame limit at one peer, which
`fixed` checks and the theorem does not cover: the fingerprint made for a dropped
answer is then untrue, and that it never matches wrongly rests on which range it
was an answer to, rounds earlier.

The library's induction theorems cannot be used, since they take an operator as a
parameter; induction over numbers is done by the least counterexample instead, and
a recursive function is unfolded after showing that one exists.
`SelectSeq`, `@@` and `:>` are opaque to the prover, which is why some definitions
are written without them.

## Not modelled

Exceptions for malformed input (`unexpected mode`, an invalid version byte, bad
sizes; a truncated message is in `Encoding`, and its effect on the objects is that
of any exception, `Throw`). The initiator's exception for another version, as an
answer of a newer server. Calls of the wrong overload and repeated `initiate` of
the C++ object (the C function's is in `CWrapper`). Hash collisions, and SHA-256.
The zeroed bytes of unused keys that `verify()` looks at (`debug.h:96`), since an
`items` array is a sequence here; `dump()`, which prints. Two live LMDB objects of
one tree in a transaction, and overlapping calls of one JavaScript object at their
awaits: nothing in the repository makes either, and the code does not claim to
support them. The wrapper's functions that create and delete objects. The
harnesses of other implementations, the measuring program and the generators of
random test data have no logic of the system. A SubRange whose base changes under
it: the README of `cpp/` calls the object a proxy and says nothing of what it then
holds, so there is no property to state; `VectorProxy` and `TreeProxy` are for a base
that has not changed.
