----------------------------- MODULE Negentropy -----------------------------
(***************************************************************************)
(* The reconciliation engine of cpp/negentropy.h: a client object          *)
(* (the initiator) and a server object exchanging messages, each over a    *)
(* sorted storage, driven by the client loop of the READMEs.               *)
(*                                                                         *)
(* A message is a protocol version and a sequence of ranges; a range has   *)
(* an encoded upper bound, a mode and a set of IDs.  The set of a          *)
(* Fingerprint range stands for its digest, which is taken as collision    *)
(* free; the set of an IdList range is its list.  Every range processed by *)
(* the loop of reconcileAux is one action, so the loop's locals are        *)
(* variables.  Sizes are counted in bytes, with one worst-case size for    *)
(* every bound, mode and count.                                            *)
(***************************************************************************)
EXTENDS Types, Sequences, SequencesExt

CONSTANTS
    Client, Server,
    NoPeer,                \* no call is running
    Universe,              \* the items that exist
    InitialStores,         \* the sorted storages a peer may start with
    Bases,                 \* what may be left of the peers' storages
    FrameSizeLimits,       \* the limits the two objects may have
    Buckets,               \* 16 in the code
    HeaderSize,            \* encoded bound, mode and count of a range
    FingerprintSize,       \* 16
    IdSize,                \* 32
    Reserve,               \* 200: exceededFrameSizeLimit keeps it free
    MaxEdits,              \* bound: storage changes during one sync
    MaxProbes,             \* bound: messages of a newer protocol version
    MaxFaults              \* bound: exceptions and timeouts retried after

Peer == {Client, Server}

other(p) == IF p = Client THEN Server ELSE Client

ASSUME PeerAssumption ==
    /\ Client # Server
    /\ NoPeer \notin Peer

ASSUME DataAssumption ==
    /\ Universe \subseteq Item
    /\ \A a, b \in Universe : a.id = b.id => a = b
    /\ InitialStores \subseteq Seq(Universe)
    /\ \A s \in InitialStores : Sorted(s)
    /\ Bases \subseteq [Peer -> SUBSET Item]

ASSUME BoundsAssumption ==
    MaxEdits \in Nat /\ MaxProbes \in Nat /\ MaxFaults \in Nat

(* splitRange never produces more than this.                               *)
LargestSplit ==
    LET list  == HeaderSize + (2 * Buckets - 1) * IdSize
        split == Buckets * (HeaderSize + FingerprintSize)
    IN  IF list < split THEN split ELSE list

(* What makes 200 and 4096 good choices: the reserve holds what is written *)
(* after the last test against it, and a frame has room for one range.     *)
ASSUME SizeAssumption ==
    /\ Buckets \in Nat /\ Buckets >= 2
    /\ HeaderSize \in Nat \ {0} /\ FingerprintSize \in Nat
    /\ IdSize \in Nat \ {0} /\ Reserve \in Nat
    /\ FrameSizeLimits \subseteq [Peer -> Nat]
    /\ Reserve >= IdSize + 2 * HeaderSize + (HeaderSize + FingerprintSize)
    /\ \A limit \in FrameSizeLimits : \A p \in Peer :
          limit[p] # 0 =>
              limit[p] >= Reserve + 1 + HeaderSize + LargestSplit

-----------------------------------------------------------------------------

Mode == {"skip", "fingerprint", "idlist"}

(* A range before and after its bound is encoded. *)
PlainRange == [upper : Bound, mode : Mode, ids : SUBSET Id]
WireRange  == [timestamp : Timestamp, prefix : Id, mode : Mode, ids : SUBSET Id]

PROTOCOL_VERSION == 1
NEWER_VERSION    == 2

Message == [version : {PROTOCOL_VERSION, NEWER_VERSION},
            ranges : Seq(WireRange), size : Nat]

Phase == {"idle", "probing", "waiting", "failed", "done"}

VARIABLES
    frameSizeLimit,     \* of the two objects, 0: unlimited
    store,              \* the storages, sorted; store[p][i + 1] is index i
    base,               \* of a SubRange over a B-tree, the tree's items
                        \* left of the range; else empty
    inbox,              \* messages on their way to a peer
    isInitiator, lastTimestampIn, lastTimestampOut,   \* the two objects
    active,             \* the peer whose reconcile() is running
    query, fullOutput, outputSize, prevBound, prevIndex, skip,
    haveIds, needIds,   \* locals of that call; the vectors as counts
    phase, have, need,  \* the client application
    touched, edits, probes, faults

callVars   == <<query, fullOutput, outputSize, prevBound, prevIndex, skip>>
objectVars == <<isInitiator, lastTimestampIn, lastTimestampOut>>
appVars    == <<phase, have, need, probes, faults>>
storeVars  == <<frameSizeLimit, base, store, touched, edits>>

vars == <<storeVars, inbox, objectVars, active, callVars, haveIds, needIds,
          appVars>>

-----------------------------------------------------------------------------
(* The storage interface: indices count from 0 and ranges are half open.   *)

IdsIn(s, lower, upper) == {s[i].id : i \in (lower + 1) .. upper}

(* Mutant: an upper bound, an item equal to the bound is left of it. *)
findUpperBound(s, begin, bound, upper) ==
    /\ upper \in begin .. Len(s)
    /\ \A i \in (begin + 1) .. upper : s[i] \preceq bound
    /\ \A i \in (upper + 1) .. Len(s) : ~(s[i] \preceq bound)

findLowerBound(s, begin, bound, upper) ==
    /\ upper \in begin .. Len(s)
    /\ \A i \in (begin + 1) .. upper : s[i] \prec bound
    /\ \A i \in (upper + 1) .. Len(s) : ~(s[i] \prec bound)

(* upper = storage.findLowerBound(begin, storage.size(), bound).  SubRange  *)
(* subtracts its offset from an index that a B-tree counts from its first  *)
(* item: the difference wraps around if that index is left of the range,   *)
(* and may be less than begin otherwise.                                   *)
storageLowerBound(p, begin, bound, upper) ==
    IF \A a \in base[p] : bound \preceq a
    THEN findLowerBound(store[p], begin, bound, upper)
    ELSE IF \E a \in base[p] : bound \preceq a
    THEN upper = Len(store[p])
    ELSE findLowerBound(store[p], 0, bound, upper)

FingerprintOf(s, lower, upper) == IdsIn(s, lower, upper)

-----------------------------------------------------------------------------
(* Producing ranges.                                                       *)

SkipRange(upper) == [upper |-> upper, mode |-> "skip", ids |-> {}]

FingerprintRange(upper, ids) ==
    [upper |-> upper, mode |-> "fingerprint", ids |-> ids]

IdListRange(upper, ids) == [upper |-> upper, mode |-> "idlist", ids |-> ids]

lastTimestampAfter(ranges, last) ==
    IF ranges = <<>> THEN last ELSE ranges[Len(ranges)].upper.timestamp

(* Mutant: lastTimestampOut is not moved by a bound. *)
encodeFromLast(ranges, last) ==
    [i \in 1 .. Len(ranges) |->
        [timestamp |-> encodeTimestampOut(ranges[i].upper.timestamp, last),
         prefix    |-> ranges[i].upper.id,
         mode      |-> ranges[i].mode,
         ids       |-> ranges[i].ids]]

(* encodeBound of each range: the offset is from the bound before it. *)
encode(ranges, last) ==
    [i \in 1 .. Len(ranges) |->
        [timestamp |-> encodeTimestampOut(ranges[i].upper.timestamp,
                            IF i = 1 THEN last
                                     ELSE ranges[i - 1].upper.timestamp),
         prefix    |-> ranges[i].upper.id,
         mode      |-> ranges[i].mode,
         ids       |-> ranges[i].ids]]

(* Mutant: the remainder is given to no bucket. *)
currWithoutExtra(lower, upper, i) == lower + i * ((upper - lower) \div Buckets)

(* curr after i buckets of splitRange; the first ones take the remainder. *)
curr(lower, upper, i) ==
    LET n == upper - lower
        extra == n % Buckets
    IN  lower + i * (n \div Buckets) + (IF i < extra THEN i ELSE extra)

splitRange(s, lower, upper, upperBound) ==
    IF upper - lower < 2 * Buckets
    THEN <<IdListRange(upperBound, IdsIn(s, lower, upper))>>
    ELSE [i \in 1 .. Buckets |->
            LET from == curr(lower, upper, i - 1)
                to   == curr(lower, upper, i)
            IN  FingerprintRange(
                    IF to = upper THEN upperBound
                                  ELSE getMinimalBound(s[to], s[to + 1]),
                    FingerprintOf(s, from, to))]

splitSize(n) == IF n < 2 * Buckets
                THEN HeaderSize + n * IdSize
                ELSE Buckets * (HeaderSize + FingerprintSize)

(* Mutant: nothing is kept free. *)
exceededWithoutReserve(p, n) ==
    frameSizeLimit[p] # 0 /\ n > frameSizeLimit[p]

exceededFrameSizeLimit(p, n) ==
    frameSizeLimit[p] # 0 /\ n > frameSizeLimit[p] - Reserve

-----------------------------------------------------------------------------

NoIds == [k \in Id |-> 0]

Count(counts, ids) ==
    [k \in Id |-> IF k \in ids THEN counts[k] + 1 ELSE counts[k]]

AddCounts(a, b) == [k \in Id |-> a[k] + b[k]]

Reported(counts) == {k \in Id : counts[k] > 0}

Send(to, ranges, size) ==
    inbox' = [inbox EXCEPT ![to] =
        Append(@, [version |-> PROTOCOL_VERSION, ranges |-> ranges,
                   size |-> size])]

Init ==
    /\ frameSizeLimit \in FrameSizeLimits
    /\ base \in Bases
    /\ store \in [Peer -> InitialStores]
    /\ \A p \in Peer : \A a \in base[p], b \in ToSet(store[p]) : a \prec b
    /\ inbox = [p \in Peer |-> <<>>]
    /\ isInitiator = [p \in Peer |-> FALSE]
    /\ lastTimestampIn = [p \in Peer |-> 0]
    /\ lastTimestampOut = [p \in Peer |-> 0]
    /\ active = NoPeer
    /\ query = <<>> /\ fullOutput = <<>> /\ outputSize = 1
    /\ prevBound = ZeroBound /\ prevIndex = 0 /\ skip = FALSE
    /\ haveIds = NoIds /\ needIds = NoIds
    /\ phase = "idle" /\ have = NoIds /\ need = NoIds
    /\ touched = {} /\ edits = 0 /\ probes = 0 /\ faults = 0

-----------------------------------------------------------------------------
(* The client application.                                                 *)

(* initiate(), and the message sent.  lastTimestampOut is not reset here. *)
Initiate ==
    /\ phase = "idle"
    /\ ~isInitiator[Client]
    /\ LET n      == Len(store[Client])
           ranges == splitRange(store[Client], 0, n, Infinity)
           last   == lastTimestampOut[Client]
       IN  /\ Send(Server, encode(ranges, last), 1 + splitSize(n))
           /\ lastTimestampOut' = [lastTimestampOut EXCEPT ![Client] =
                                      lastTimestampAfter(ranges, last)]
    /\ isInitiator' = [isInitiator EXCEPT ![Client] = TRUE]
    /\ phase' = "waiting"
    /\ UNCHANGED <<storeVars, lastTimestampIn, active, callVars, haveIds,
                   needIds, have, need, probes, faults>>

(* External: a client of a newer version tries that version first ...      *)
ProbeNewerVersion ==
    /\ phase = "idle"
    /\ probes < MaxProbes
    /\ inbox' = [inbox EXCEPT ![Server] =
           Append(@, [version |-> NEWER_VERSION, ranges |-> <<>>, size |-> 1])]
    /\ phase' = "probing"
    /\ probes' = probes + 1
    /\ UNCHANGED <<storeVars, objectVars, active, callVars, haveIds, needIds,
                   have, need, faults>>

(* ... and falls back to version 1 when told so. *)
Downgrade ==
    /\ phase = "probing"
    /\ inbox[Client] # <<>>
    /\ Head(inbox[Client]).version = PROTOCOL_VERSION
    /\ inbox' = [inbox EXCEPT ![Client] = Tail(@)]
    /\ phase' = "idle"
    /\ UNCHANGED <<storeVars, objectVars, active, callVars, haveIds, needIds,
                   have, need, probes, faults>>

-----------------------------------------------------------------------------
(* reconcile(): the version check, the loop, the return.                   *)

resetTimestamps(p) ==
    /\ lastTimestampIn' = [lastTimestampIn EXCEPT ![p] = 0]
    /\ lastTimestampOut' = [lastTimestampOut EXCEPT ![p] = 0]

Receive(p) ==
    /\ active = NoPeer
    /\ p = Server \/ phase = "waiting"
    /\ inbox[p] # <<>>
    /\ Head(inbox[p]).version = PROTOCOL_VERSION
    /\ isInitiator[p] <=> p = Client    \* the overload the application calls
    /\ active' = p
    /\ query' = Head(inbox[p]).ranges
    /\ inbox' = [inbox EXCEPT ![p] = Tail(@)]
    /\ resetTimestamps(p)
    /\ fullOutput' = <<>>
    /\ outputSize' = 1
    /\ prevBound' = ZeroBound
    /\ prevIndex' = 0
    /\ skip' = FALSE
    /\ haveIds' = NoIds
    /\ needIds' = NoIds
    /\ UNCHANGED <<storeVars, isInitiator, appVars>>

(* A version the server does not speak is answered with its own. *)
RefuseVersion ==
    /\ active = NoPeer
    /\ inbox[Server] # <<>>
    /\ Head(inbox[Server]).version # PROTOCOL_VERSION
    /\ ~isInitiator[Server]
    /\ inbox' = [inbox EXCEPT
           ![Server] = Tail(@),
           ![Client] = Append(@, [version |-> PROTOCOL_VERSION,
                                  ranges |-> <<>>, size |-> 1])]
    /\ resetTimestamps(Server)
    /\ UNCHANGED <<storeVars, isInitiator, active, callVars, haveIds, needIds,
                   appVars>>

-----------------------------------------------------------------------------
(* One turn of the loop of reconcileAux.                                   *)

decodeBound(range, last) ==
    [timestamp |-> decodeTimestampIn(range.timestamp, last),
     id        |-> range.prefix]

currBound(p) == decodeBound(Head(query), lastTimestampIn[p])

(* The next range has this mode and ends, in the storage, at upper. *)
NextRange(p, mode, upper) ==
    /\ active = p
    /\ query # <<>>
    /\ Head(query).mode = mode
    /\ storageLowerBound(p, prevIndex, currBound(p), upper)
    /\ lastTimestampIn' =
           [lastTimestampIn EXCEPT ![p] = currBound(p).timestamp]
    /\ UNCHANGED <<storeVars, inbox, isInitiator, active, appVars>>

(* Output of one turn: ranges, and the bytes they take. *)
Output == [ranges : Seq(PlainRange), size : Nat]

Nothing == [ranges |-> <<>>, size |-> 0]

(* Mutant: ranges that need no answer are forgotten. *)
noSkip == Nothing

doSkip == IF skip THEN [ranges |-> <<SkipRange(prevBound)>>, size |-> HeaderSize]
                  ELSE Nothing

a \bullet b == [ranges |-> a.ranges \o b.ranges, size |-> a.size + b.size]

Split(p, upper) ==
    [ranges |-> splitRange(store[p], prevIndex, upper, currBound(p)),
     size   |-> splitSize(upper - prevIndex)]

(* Mutant: the message just stops. *)
NoRest(p, upper) == Nothing

Rest(p, upper) ==
    [ranges |-> <<FingerprintRange(Infinity,
                      FingerprintOf(store[p], upper, Len(store[p])))>>,
     size   |-> HeaderSize + FingerprintSize]

(* Mutant: the list is cut short, its bound stays. *)
ListToBound(p, upper, end) ==
    [ranges |-> <<IdListRange(currBound(p), IdsIn(store[p], prevIndex, end))>>,
     size   |-> HeaderSize + (end - prevIndex) * IdSize]

(* The items of the range whose index is below end. *)
List(p, upper, end) ==
    [ranges |-> <<IdListRange(
                      IF end < upper THEN store[p][end + 1] ELSE currBound(p),
                      IdsIn(store[p], prevIndex, end))>>,
     size   |-> HeaderSize + (end - prevIndex) * IdSize]

Write(p, o) ==
    /\ fullOutput' = fullOutput \o encode(o.ranges, lastTimestampOut[p])
    /\ outputSize' = outputSize + o.size
    /\ lastTimestampOut' = [lastTimestampOut EXCEPT ![p] =
           lastTimestampAfter(o.ranges, lastTimestampOut[p])]

(* The end of the loop's body.  written is in the output already, o is     *)
(* not: unless that exceeds the limit it is added, and the loop goes on.   *)
(* Otherwise o is dropped, one fingerprint stands for the rest, and the    *)
(* rest of the query is not read.  (That o moved lastTimestampOut makes no *)
(* difference: the bound encoded next is infinity, which has no offset.)   *)
EndRange(p, written, o, upper) ==
    IF exceededFrameSizeLimit(p, outputSize + written.size + o.size)
    THEN /\ Write(p, written \bullet Rest(p, upper))
         /\ query' = <<>>
         /\ UNCHANGED <<prevIndex, prevBound>>
    ELSE /\ Write(p, written \bullet o)
         /\ query' = Tail(query)
         /\ prevIndex' = upper
         /\ prevBound' = currBound(p)

(* Mutant: a skipped range is answered with a skipped range at once. *)
SkipAnswered(p, upper) ==
    /\ NextRange(p, "skip", upper)
    /\ skip' = FALSE
    /\ EndRange(p, Nothing,
                [ranges |-> <<SkipRange(currBound(p))>>, size |-> HeaderSize],
                upper)
    /\ UNCHANGED <<haveIds, needIds>>

SkipStep(p, upper) ==
    /\ NextRange(p, "skip", upper)
    /\ skip' = TRUE
    /\ EndRange(p, Nothing, Nothing, upper)
    /\ UNCHANGED <<haveIds, needIds>>

FingerprintMatches(p, upper) ==
    /\ NextRange(p, "fingerprint", upper)
    /\ Head(query).ids = FingerprintOf(store[p], prevIndex, upper)
    /\ skip' = TRUE
    /\ EndRange(p, Nothing, Nothing, upper)
    /\ UNCHANGED <<haveIds, needIds>>

FingerprintDiffers(p, upper) ==
    /\ NextRange(p, "fingerprint", upper)
    /\ Head(query).ids # FingerprintOf(store[p], prevIndex, upper)
    /\ skip' = FALSE
    /\ EndRange(p, Nothing, doSkip \bullet Split(p, upper), upper)
    /\ UNCHANGED <<haveIds, needIds>>

(* The initiator compares the list with its own items of the range, and is *)
(* done with the range.                                                    *)
IdListAtInitiator(p, upper) ==
    /\ NextRange(p, "idlist", upper)
    /\ isInitiator[p]
    /\ LET ours   == IdsIn(store[p], prevIndex, upper)
           theirs == Head(query).ids
       IN  /\ haveIds' = Count(haveIds, ours \ theirs)
           /\ needIds' = Count(needIds, theirs \ ours)
    /\ skip' = TRUE
    /\ EndRange(p, Nothing, Nothing, upper)

(* How many of the n items of a range the responder lists before the frame *)
(* is full.                                                                *)
Listed(p, n, count) ==
    /\ \A j \in 0 .. count - 1 :
          ~exceededFrameSizeLimit(p, outputSize + j * IdSize)
    /\ count < n => exceededFrameSizeLimit(p, outputSize + count * IdSize)

(* Any other peer answers a list, whatever it says, with its own: of the   *)
(* whole range, or of its items before the first one that is not listed.   *)
IdListAtResponder(p, upper) ==
    /\ NextRange(p, "idlist", upper)
    /\ ~isInitiator[p]
    /\ skip' = FALSE
    /\ \E end \in prevIndex .. upper :
          /\ Listed(p, upper - prevIndex, end - prevIndex)
          /\ EndRange(p, doSkip \bullet List(p, upper, end), Nothing, end)
    /\ UNCHANGED <<haveIds, needIds>>

(* A range that is skipped is not looked up: upper may be any index.       *)
ReconcileRange(p) ==
    \/ \E upper \in 0 .. Len(store[p]) : SkipStep(p, upper)
    \/ \E upper \in prevIndex .. Len(store[p]) :
        \/ FingerprintMatches(p, upper)
        \/ FingerprintDiffers(p, upper)
        \/ IdListAtInitiator(p, upper)
        \/ IdListAtResponder(p, upper)

-----------------------------------------------------------------------------
(* The end of a call.                                                      *)

DropLocals ==
    /\ active' = NoPeer
    /\ query' = <<>> /\ fullOutput' = <<>> /\ outputSize' = 1
    /\ prevBound' = ZeroBound /\ prevIndex' = 0 /\ skip' = FALSE
    /\ haveIds' = NoIds /\ needIds' = NoIds

LeaveCall ==
    /\ active # NoPeer
    /\ query = <<>>
    /\ DropLocals
    /\ UNCHANGED <<storeVars, objectVars, probes, faults>>

ReturnAtResponder ==
    /\ active = Server
    /\ LeaveCall
    /\ Send(Client, fullOutput, outputSize)
    /\ UNCHANGED <<phase, have, need>>

ReturnAtInitiator ==
    /\ active = Client
    /\ LeaveCall
    /\ have' = AddCounts(have, haveIds)
    /\ need' = AddCounts(need, needIds)

(* The client loop: an output without ranges is nullopt and ends it. *)
Continue ==
    /\ ReturnAtInitiator
    /\ outputSize # 1
    /\ Send(Server, fullOutput, outputSize)
    /\ UNCHANGED phase

Finish ==
    /\ ReturnAtInitiator
    /\ outputSize = 1
    /\ phase' = "done"
    /\ UNCHANGED inbox

-----------------------------------------------------------------------------
(* Failures.  The application's loop declares haveIds and needIds anew for *)
(* each call: what a call had found is gone with the exception.  (So are   *)
(* its changes of the timestamps, which the next call resets.)             *)

Throw(p) ==
    /\ active = p
    /\ DropLocals
    /\ phase' = IF phase = "done" THEN "done" ELSE "failed"
    /\ faults' = faults + 1
    /\ UNCHANGED <<storeVars, inbox, objectVars, have, need, probes>>

(* A query of the storage throws. *)
StorageFails(p) == faults < MaxFaults /\ Throw(p)

(* checkBounds of the storage: "bad range". *)
BadRange(p) ==
    /\ query # <<>>
    /\ Head(query).mode # "skip"
    /\ \E upper \in 0 .. prevIndex - 1 :
          storageLowerBound(p, prevIndex, currBound(p), upper)
    /\ Throw(p)

(* External: the client stops waiting.  What is on its way may be lost or  *)
(* only late ...                                                           *)
Timeout ==
    /\ phase = "waiting"
    /\ active = NoPeer
    /\ faults < MaxFaults
    /\ phase' = "failed"
    /\ faults' = faults + 1
    /\ inbox' \in {inbox, [p \in Peer |-> <<>>]}
    /\ UNCHANGED <<storeVars, objectVars, active, callVars, haveIds, needIds,
                   have, need, probes>>

(* ... when it starts again with a new object. *)
Retry ==
    /\ phase = "failed"
    /\ faults <= MaxFaults
    /\ phase' = "idle"
    /\ isInitiator' = [isInitiator EXCEPT ![Client] = FALSE]
    /\ resetTimestamps(Client)
    /\ UNCHANGED <<storeVars, inbox, active, callVars, haveIds, needIds,
                   have, need, probes, faults>>

-----------------------------------------------------------------------------
(* Between calls.                                                          *)

(* BTree storages accept insertions and erasures at any time. *)
EditStore(p, s, k) ==
    /\ phase = "waiting"
    /\ active = NoPeer
    /\ edits < MaxEdits
    /\ store' = [store EXCEPT ![p] = s]
    /\ edits' = edits + 1
    /\ touched' = touched \cup {k}
    /\ UNCHANGED <<frameSizeLimit, base, inbox, objectVars, active, callVars,
                   haveIds, needIds, appVars>>

(* Mutant: an item that is there is inserted again. *)
InsertAnyway(p) ==
    \E item \in Universe, i \in 1 .. Len(store[p]) + 1 :
        /\ \A j \in 1 .. i - 1 : store[p][j] \preceq item
        /\ \A j \in i .. Len(store[p]) : item \prec store[p][j]
        /\ EditStore(p, InsertAt(store[p], i, item), item.id)

Insert(p) ==
    \E item \in Universe, i \in 1 .. Len(store[p]) + 1 :
        /\ \A j \in 1 .. i - 1 : store[p][j] \prec item
        /\ \A j \in i .. Len(store[p]) : item \prec store[p][j]
        /\ EditStore(p, InsertAt(store[p], i, item), item.id)

Erase(p) ==
    \E i \in 1 .. Len(store[p]) :
        EditStore(p, RemoveAt(store[p], i), store[p][i].id)

(* A new object takes over, a client's with setInitiator(): an object      *)
(* carries nothing else from one call to the next.                         *)
Recreate(p) ==
    /\ phase = "waiting"
    /\ active = NoPeer
    /\ isInitiator' = [isInitiator EXCEPT ![p] = (p = Client)]
    /\ resetTimestamps(p)
    /\ UNCHANGED <<storeVars, inbox, active, callVars, haveIds, needIds,
                   appVars>>

Terminated == phase \in {"failed", "done"} /\ UNCHANGED vars

Protocol ==
    \/ Initiate
    \/ Downgrade
    \/ RefuseVersion
    \/ \E p \in Peer : Receive(p)
    \/ \E p \in Peer : ReconcileRange(p)
    \/ ReturnAtResponder
    \/ Continue
    \/ Finish
    \/ Retry

Next ==
    \/ Protocol
    \/ ProbeNewerVersion
    \/ Timeout
    \/ \E p \in Peer : StorageFails(p) \/ BadRange(p)
    \/ \E p \in Peer : Insert(p) \/ Erase(p) \/ Recreate(p)
    \/ Terminated

Spec == Init /\ [][Next]_vars

(* Messages are delivered, calls return and failed clients try again. *)
FairSpec == Spec /\ WF_vars(Protocol)
=============================================================================
