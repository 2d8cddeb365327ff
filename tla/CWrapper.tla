------------------------------- MODULE CWrapper -------------------------------
(***************************************************************************)
(* The memory of the C functions (c/negentropy_wrapper.cpp): a call copies *)
(* what the engine returns into heap blocks and puts them into a result    *)
(* struct of the caller, who frees them with free_result.  Every function  *)
(* fills in only the fields it has something for.                          *)
(*                                                                         *)
(* A field of a result is the set of blocks it leads to, empty if its      *)
(* length is 0 or its pointer NULL: the array of have_ids and the IDs it   *)
(* points to are one field.  Wild stands for a length and a pointer that   *)
(* nobody wrote.  Blocks are numbered in the order of their allocation.    *)
(***************************************************************************)
EXTENDS Integers, FiniteSets

CONSTANTS
    OverTrees,     \* Negentropy objects over a BTreeMem
    OverRanges,    \* Negentropy objects over a SubRange
    FirstResult,   \* contents of a result nobody wrote to
    ZeroEachTime,  \* the caller clears the result before every call
    MaxIds,        \* bound: IDs a call reports
    MaxCalls       \* bound: calls

Wild  == 0
Field == {"output", "have_ids", "need_ids", "error"}
Blank == [f \in Field |-> {}]
Indeterminate == [f \in Field |-> {Wild}]

ASSUME CWrapperAssumption ==
    /\ OverTrees \cap OverRanges = {}
    /\ FirstResult \in {Blank, Indeterminate}
    /\ ZeroEachTime \in BOOLEAN
    /\ MaxIds \in Nat /\ MaxCalls \in Nat

Instances == OverTrees \cup OverRanges

VARIABLES
    isInitiator,   \* of the engine objects
    live,          \* allocated blocks that are not freed
    allocated,     \* number of the last block
    result,        \* the caller's struct
    state,         \* of the caller: "idle", "returned", "callback"
    borrowed,      \* blocks of a running callback
    badFree,       \* a block was freed that is not live
    calls

vars == <<isInitiator, live, allocated, result, state, borrowed, badFree, calls>>

Block == 1 .. allocated

Init ==
    /\ isInitiator = [i \in Instances |-> FALSE]
    /\ live = {} /\ allocated = 0
    /\ result = FirstResult
    /\ state = "idle" /\ borrowed = {}
    /\ badFree = FALSE /\ calls = 0

-----------------------------------------------------------------------------
New(n) == (allocated + 1) .. (allocated + n)

BeginCall ==
    /\ state = "idle" /\ calls < MaxCalls
    /\ calls' = calls + 1
    /\ UNCHANGED badFree

(* The struct as the called function finds it.                             *)
given == IF ZeroEachTime THEN Blank ELSE result

(* The call writes fields and returns; it allocated the blocks in them.    *)
Return(fields, n) ==
    /\ result' = [f \in Field |->
                    IF f \in DOMAIN fields THEN fields[f] ELSE given[f]]
    /\ live' = live \cup New(n)
    /\ allocated' = allocated + n
    /\ state' = "returned"
    /\ UNCHANGED borrowed

(* An exception of the engine: its text.                                   *)
Error == Return([error |-> New(1)], 1)

Output == Return([output |-> New(1)], 1)

(* "Returns -1 if already initiated", and there is nothing to free.        *)
Initiate(i) ==
    /\ BeginCall
    /\ isInitiator' = [isInitiator EXCEPT ![i] = TRUE]
    /\ IF isInitiator[i]
       THEN result' = given /\ UNCHANGED <<live, allocated, state, borrowed>>
       ELSE Output

negentropy_initiate(i) == Initiate(i)
negentropy_subrange_initiate(i) == Initiate(i)

(* The header does not declare the one for ranges: C cannot call it.       *)
negentropy_setinitiator(i) ==
    /\ state = "idle"
    /\ isInitiator' = [isInitiator EXCEPT ![i] = TRUE]
    /\ UNCHANGED <<live, allocated, result, state, borrowed, badFree, calls>>

(* Any message may be one the engine cannot parse.                         *)
Reconcile(i) ==
    /\ BeginCall
    /\ UNCHANGED isInitiator
    /\ \/ Error
       \/ ~isInitiator[i] /\ Output

reconcile(i) == Reconcile(i)
reconcile_subrange(i) == Reconcile(i)

(* The blocks of an array of n IDs: none if there are no IDs.              *)
BlocksOf(n) == IF n = 0 THEN 0 ELSE n + 1

(* Mutant: the array points into the engine's strings, as for a callback. *)
transform(n, first) == IF n = 0 THEN {} ELSE {first, Wild}

transform_with_alloc(n, first) == first .. (first + BlocksOf(n) - 1)

(* The output is nullopt when nothing is left to reconcile.                *)
ReconcileWithIds(i) ==
    /\ BeginCall
    /\ UNCHANGED isInitiator
    /\ \/ Error
       \/ /\ isInitiator[i]
          /\ \E have, need \in 0 .. MaxIds, out \in 0 .. 1 :
                LET h == allocated + 1
                    n == h + BlocksOf(have)
                    o == n + BlocksOf(need)
                IN  Return([have_ids |-> transform_with_alloc(have, h),
                            need_ids |-> transform_with_alloc(need, n),
                            output   |-> o .. (o + out - 1)],
                           o + out - h)

reconcile_with_ids_no_cbk(i) == ReconcileWithIds(i)
reconcile_with_ids_subrange_no_cbk(i) == ReconcileWithIds(i)

(* The arrays live as long as the callback runs; the IDs and the output    *)
(* are the engine's strings.  An exception leaves nothing behind.          *)
reconcile_with_ids(i) ==
    /\ BeginCall
    /\ UNCHANGED <<isInitiator, result>>
    /\ \/ UNCHANGED <<live, allocated, state, borrowed>>
       \/ /\ isInitiator[i]
          /\ borrowed' = New(2) /\ live' = live \cup New(2)
          /\ allocated' = allocated + 2
          /\ state' = "callback"

CallbackReturns ==
    /\ state = "callback"
    /\ live' = live \ borrowed /\ borrowed' = {}
    /\ state' = "idle"
    /\ UNCHANGED <<isInitiator, allocated, result, badFree, calls>>

(* Mutant: the IDs of the needs are forgotten, only their array is freed. *)
freedArraysOnly(r) ==
    r.output \cup r.have_ids \cup r.error
        \cup {b \in r.need_ids : \A c \in r.need_ids : b <= c}

(* Blocks that free_result frees.                                          *)
freed(r) == UNION {r[f] : f \in Field}

(* The fields keep what they were.                                         *)
free_result ==
    /\ state = "returned"
    /\ badFree' = (badFree \/ ~(freed(result) \subseteq live))
    /\ live' = live \ freed(result)
    /\ state' = "idle"
    /\ UNCHANGED <<isInitiator, allocated, result, borrowed, calls>>

Stop == state = "idle" /\ calls = MaxCalls /\ UNCHANGED vars

Next ==
    \/ \E i \in OverTrees :
          \/ negentropy_initiate(i) \/ negentropy_setinitiator(i)
          \/ reconcile(i) \/ reconcile_with_ids(i)
          \/ reconcile_with_ids_no_cbk(i)
    \/ \E i \in OverRanges :
          \/ negentropy_subrange_initiate(i) \/ reconcile_subrange(i)
          \/ reconcile_with_ids_subrange_no_cbk(i)
    \/ CallbackReturns
    \/ free_result
    \/ Stop

Spec == Init /\ [][Next]_vars

-----------------------------------------------------------------------------
(* "This function assumes that all relevant heap memory is alloced and     *)
(* just tries to free" (the comment on free_result): whatever a call left  *)
(* in a result, failed calls included, free_result frees live memory only. *)
FreesOnlyLive == ~badFree

(* Whatever fields of a result say, the caller can read: no field leads to *)
(* memory that is gone, and no block is in two fields.                     *)
ResultReadable ==
    state = "returned" =>
        /\ \A f \in Field : result[f] \subseteq live
        /\ \A f, g \in Field : f # g => result[f] \cap result[g] = {}

(* A caller that frees every result has freed all memory: no path through  *)
(* a function allocates what the result does not lead to.                  *)
NoLeak == state = "idle" => live = {}
=============================================================================
