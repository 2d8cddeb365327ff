------------------------ MODULE NegentropyProperties ------------------------
(***************************************************************************)
(* What the engine of module Negentropy must guarantee.                    *)
(***************************************************************************)
EXTENDS Negentropy

(* Type correctness of the objects, the call in progress and the           *)
(* application; the storages stay sorted and hold existing items, which is *)
(* what findLowerBound's binary search needs.                              *)
TypeOK ==
    /\ frameSizeLimit \in FrameSizeLimits
    /\ base \in Bases
    /\ store \in [Peer -> Seq(Universe)]
    /\ \A p \in Peer : Sorted(store[p])
    /\ inbox \in [Peer -> Seq(Message)]
    /\ isInitiator \in [Peer -> BOOLEAN]
    /\ lastTimestampIn \in [Peer -> Timestamp]
    /\ lastTimestampOut \in [Peer -> Timestamp]
    /\ active \in Peer \cup {NoPeer}
    /\ query \in Seq(WireRange)
    /\ fullOutput \in Seq(WireRange)
    /\ outputSize \in Nat
    /\ prevBound \in Bound
    /\ prevIndex \in Nat
    /\ active # NoPeer => prevIndex <= Len(store[active])
    /\ skip \in BOOLEAN
    /\ haveIds \in [Id -> Nat]
    /\ needIds \in [Id -> Nat]
    /\ phase \in Phase
    /\ have \in [Id -> Nat]
    /\ need \in [Id -> Nat]
    /\ touched \in SUBSET Id
    /\ edits \in 0 .. MaxEdits
    /\ probes \in 0 .. MaxProbes
    /\ faults \in Nat

-----------------------------------------------------------------------------
(* The two sets being reconciled.                                          *)

IdsOf(p) == IdsIn(store[p], 0, Len(store[p]))

(* Only the client has it, only the server has it. *)
OnlyMine   == IdsOf(Client) \ IdsOf(Server)
OnlyTheirs == IdsOf(Server) \ IdsOf(Client)

(* Whatever the frame limits, the splits and the changes of the storages   *)
(* between two calls, reconcile() at the client reports an ID as "have"    *)
(* only if the client has it and the server does not, and as "need" only   *)
(* in the opposite case - an ID inserted or erased meanwhile excepted.     *)
SoundReports ==
    /\ Reported(haveIds) \cup Reported(have) \subseteq OnlyMine \cup touched
    /\ Reported(needIds) \cup Reported(need) \subseteq OnlyTheirs \cup touched

(* README, "Protocol": after the protocol terminates, the client will have *)
(* determined what IDs it has and the server needs, and which it needs.    *)
CompleteWhenDone ==
    phase = "done" => /\ OnlyMine \ touched \subseteq Reported(have)
                      /\ OnlyTheirs \ touched \subseteq Reported(need)

(* README, "Frame Size Limits": only with a limit may a difference be      *)
(* reported more than once (and by a client that starts again); reconciled *)
(* ranges are never visited again.                                         *)
NoDuplicateReports ==
    (\A p \in Peer : frameSizeLimit[p] = 0) /\ faults = 0 =>
        \A k \in Id : /\ have[k] + haveIds[k] <= 1
                      /\ need[k] + needIds[k] <= 1

(* The engine, the codecs and the client loop implement the abstract       *)
(* synchronisation of module SetReconciliation, storage changes between    *)
(* the calls included: reports are sound at every step, complete at the    *)
(* last one, and nothing is reported after it.                             *)
Abstract == INSTANCE SetReconciliation WITH
                mine   <- IdsOf(Client),
                theirs <- IdsOf(Server),
                have   <- Reported(have),
                need   <- Reported(need),
                done   <- phase = "done"

ImplementsSetReconciliation == Abstract!Spec

(* With messages delivered and calls returning, the client gets to its     *)
(* last call: splits end, and every call under a frame limit makes some    *)
(* progress in spite of the ranges it drops.                               *)
Termination == <>(phase = "done")

-----------------------------------------------------------------------------
(* The messages, read as their receiver will read them.                    *)

(* decodedBound[i] is the upper bound of range i, decodedBound[0] the      *)
(* lower bound of the first range.                                         *)
decodedBounds(ranges) ==
    LET bound[i \in 0 .. Len(ranges)] ==
            IF i = 0 THEN ZeroBound
                     ELSE decodeBound(ranges[i], bound[i - 1].timestamp)
    IN  bound

IdsBetween(p, lower, upper) ==
    {item.id : item \in {it \in ToSet(store[p]) :
                            lower \preceq it /\ it \prec upper}}

SameUntouched(a, b) == a \ touched = b \ touched

(* The ranges of this mode that are on their way from p hold exactly its   *)
(* IDs between the range's two bounds.                                     *)
Truthful(p, mode) ==
    \A m \in ToSet(inbox[other(p)]) :
        LET bound == decodedBounds(m.ranges)
        IN  \A i \in DOMAIN m.ranges :
               m.ranges[i].mode = mode =>
                  SameUntouched(m.ranges[i].ids,
                                IdsBetween(p, bound[i - 1], bound[i]))

(* docs/negentropy-protocol-v1.md, "Range": an IdList is "a                *)
(* variable-length list of all IDs the sender has within the Range".       *)
IdListsTruthful == \A p \in Peer : Truthful(p, "idlist")

(* Same place: a Fingerprint is "a digest of all the IDs the sender has    *)
(* within the Range".  So it is in what a peer without frame limit sends;  *)
(* the fingerprint of the rest that a limit adds is of another range.      *)
FingerprintsTruthful ==
    \A p \in Peer : frameSizeLimit[p] = 0 => Truthful(p, "fingerprint")

(* docs/negentropy-protocol-v1.md, "Bound": ranges in a message are always *)
(* in ascending order and never overlap.  So the receiver must decode      *)
(* strictly ascending bounds, through the delta encoding with its wrap     *)
(* around and saturation; only after infinity may an empty range follow.   *)
AscendingBounds ==
    \A p \in Peer : \A m \in ToSet(inbox[p]) :
        LET bound == decodedBounds(m.ranges)
        IN  \A i \in DOMAIN m.ranges :
               \/ bound[i - 1] \prec bound[i]
               \/ i = Len(m.ranges) /\ i > 1 /\ bound[i - 1] = Infinity
                                             /\ bound[i] = Infinity

(* README, "Algorithm": adjacent Skip ranges are coalesced into one, and   *)
(* the last one is left implicit - the empty message by which the client   *)
(* knows the end depends on it.                                            *)
SkipsCoalesced ==
    \A p \in Peer : \A m \in ToSet(inbox[p]) :
        \A i \in DOMAIN m.ranges :
            m.ranges[i].mode = "skip" =>
                i < Len(m.ranges) /\ m.ranges[i + 1].mode # "skip"

(* README, "Frame Size Limits": all messages created by an instance are at *)
(* most its frame size limit long, the first message included.             *)
WithinFrameLimit ==
    \A p \in Peer : \A m \in ToSet(inbox[other(p)]) :
        frameSizeLimit[p] # 0 /\ m.version = PROTOCOL_VERSION =>
            m.size <= frameSizeLimit[p]
=============================================================================
