---------------------------- MODULE CWrapperProofs ----------------------------
(***************************************************************************)
(* Proofs about module CWrapper, for any objects, any number of calls and  *)
(* of IDs: a caller that clears its result before every call is safe.      *)
(***************************************************************************)
EXTENDS CWrapper, TLAPS

(* Inductive: the live blocks are those the caller still has to free, or   *)
(* those of a running callback, and blocks are numbered by allocation.     *)
Owned ==
    /\ allocated \in Nat
    /\ live \subseteq 1 .. allocated
    /\ state \in {"idle", "returned", "callback"}
    /\ ~badFree
    /\ state = "idle" => live = {}
    /\ state # "callback" => borrowed = {}
    /\ state = "callback" => live = borrowed
    /\ state = "returned" =>
          /\ DOMAIN result = Field
          /\ live = freed(result)
          /\ \A f, g \in Field : f # g => result[f] \cap result[g] = {}

(* What a call returns that allocated n blocks, each of them in exactly    *)
(* one of the fields it wrote.                                             *)
LEMMA ReturnOwned ==
    ASSUME ZeroEachTime, Owned, state = "idle", ~badFree',
           NEW fields, NEW n \in Nat,
           DOMAIN fields \subseteq Field,
           UNION {fields[f] : f \in DOMAIN fields} = New(n),
           \A f, g \in DOMAIN fields : f # g => fields[f] \cap fields[g] = {},
           Return(fields, n)
    PROVE  Owned'
  <1>1. result' = [f \in Field |-> IF f \in DOMAIN fields THEN fields[f]
                                                         ELSE {}]
    BY DEF Return, given, Blank
  <1>2. freed(result') = New(n)
    BY <1>1 DEF freed
  <1>3. live' = New(n) /\ allocated' = allocated + n /\ state' = "returned"
    BY DEF Return, Owned
  <1>4. allocated' \in Nat /\ New(n) \subseteq 1 .. allocated'
    BY <1>3, SMT DEF Owned, New
  <1>5. \A f, g \in Field : f # g => result'[f] \cap result'[g] = {}
    BY <1>1
  <1>6. freed(result)' = freed(result')
    BY DEF freed
  <1>7. borrowed' = {}
    BY DEF Return, Owned
  <1> QED
    BY <1>1, <1>2, <1>3, <1>4, <1>5, <1>6, <1>7 DEF Owned

(* The blocks of one field: the text of an error, or an output.            *)
LEMMA ErrorOrOutputOwned ==
    ASSUME ZeroEachTime, Owned, state = "idle", ~badFree', Error \/ Output
    PROVE  Owned'
  <1>1. CASE Error
    <2> DEFINE fields == [error |-> New(1)]
    <2>1. DOMAIN fields = {"error"} /\ fields["error"] = New(1)
      OBVIOUS
    <2>2. Return(fields, 1)
      BY <1>1 DEF Error
    <2> HIDE DEF fields
    <2>3. 1 \in Nat
      BY SMT
    <2>4. UNION {fields[f] : f \in DOMAIN fields} = New(1)
      BY <2>1
    <2> QED
      BY <2>1, <2>2, <2>3, <2>4, ReturnOwned DEF Field
  <1>2. CASE Output
    <2> DEFINE fields == [output |-> New(1)]
    <2>1. DOMAIN fields = {"output"} /\ fields["output"] = New(1)
      OBVIOUS
    <2>2. Return(fields, 1)
      BY <1>2 DEF Output
    <2> HIDE DEF fields
    <2>3. 1 \in Nat
      BY SMT
    <2>4. UNION {fields[f] : f \in DOMAIN fields} = New(1)
      BY <2>1
    <2> QED
      BY <2>1, <2>2, <2>3, <2>4, ReturnOwned DEF Field
  <1> QED
    BY <1>1, <1>2

LEMMA InitiateOwned ==
    ASSUME ZeroEachTime, Owned, NEW i, Initiate(i)
    PROVE  Owned'
  <1>1. state = "idle" /\ ~badFree'
    BY DEF Initiate, BeginCall, Owned
  <1>2. CASE isInitiator[i]
    BY <1>1, <1>2 DEF Initiate, Owned
  <1>3. CASE ~isInitiator[i]
    BY <1>1, <1>3, ErrorOrOutputOwned DEF Initiate
  <1> QED
    BY <1>2, <1>3

LEMMA ReconcileOwned ==
    ASSUME ZeroEachTime, Owned, NEW i, Reconcile(i)
    PROVE  Owned'
  <1>1. state = "idle" /\ ~badFree'
    BY DEF Reconcile, BeginCall, Owned
  <1> QED
    BY <1>1, ErrorOrOutputOwned DEF Reconcile

(* The arrays and the output lie one behind the other.                     *)
LEMMA ReconcileWithIdsOwned ==
    ASSUME ZeroEachTime, Owned, NEW i, ReconcileWithIds(i)
    PROVE  Owned'
  <1>1. state = "idle" /\ ~badFree' /\ allocated \in Nat
    BY DEF ReconcileWithIds, BeginCall, Owned
  <1>2. CASE Error
    BY <1>1, <1>2, ErrorOrOutputOwned
  <1>3. CASE ~Error
    <2>1. PICK haves \in 0 .. MaxIds, needs \in 0 .. MaxIds, out \in 0 .. 1 :
             LET h == allocated + 1
                 n == h + BlocksOf(haves)
                 o == n + BlocksOf(needs)
             IN  Return([have_ids |-> transform_with_alloc(haves, h),
                         need_ids |-> transform_with_alloc(needs, n),
                         output   |-> o .. (o + out - 1)],
                        o + out - h)
      BY <1>3 DEF ReconcileWithIds
    <2> DEFINE first   == allocated + 1
               second  == first + BlocksOf(haves)
               third   == second + BlocksOf(needs)
               havesOf == first .. (second - 1)
               needsOf == second .. (third - 1)
               outOf   == third .. (third + out - 1)
               fields  == [have_ids |-> havesOf, need_ids |-> needsOf,
                           output   |-> outOf]
               all     == third + out - first
    <2>2. BlocksOf(haves) \in Nat /\ BlocksOf(needs) \in Nat
      BY CWrapperAssumption, SMT DEF BlocksOf
    <2>3. Return(fields, all)
      <3>1. Return([have_ids |-> transform_with_alloc(haves, first),
                    need_ids |-> transform_with_alloc(needs, second),
                    output   |-> outOf], all)
        BY <2>1
      <3>2. /\ transform_with_alloc(haves, first) = havesOf
            /\ transform_with_alloc(needs, second) = needsOf
        BY <1>1, <2>2, SMT DEF transform_with_alloc
      <3> HIDE DEF first, second, havesOf, needsOf, outOf, all
      <3> QED
        BY <3>1, <3>2
    <2>4. all \in Nat
      BY <1>1, <2>2, SMT
    <2>5. havesOf \cup needsOf \cup outOf = New(all)
      BY <1>1, <2>2, SMT DEF New
    <2>6. /\ havesOf \cap needsOf = {} /\ havesOf \cap outOf = {}
          /\ needsOf \cap outOf = {}
      BY <1>1, <2>2, SMT
    <2>7. /\ DOMAIN fields = {"have_ids", "need_ids", "output"}
          /\ fields["have_ids"] = havesOf /\ fields["need_ids"] = needsOf
          /\ fields["output"] = outOf
      OBVIOUS
    <2> HIDE DEF fields, all, havesOf, needsOf, outOf
    <2>8. UNION {fields[f] : f \in DOMAIN fields} = New(all)
      BY <2>5, <2>7
    <2>9. \A f, g \in DOMAIN fields : f # g => fields[f] \cap fields[g] = {}
      BY <2>6, <2>7
    <2> QED
      BY <1>1, <2>3, <2>4, <2>7, <2>8, <2>9, ReturnOwned DEF Field
  <1> QED
    BY <1>2, <1>3

(* What the callback of reconcile_with_ids is given.                       *)
LEMMA CallbackOwned ==
    ASSUME Owned, NEW i, reconcile_with_ids(i)
    PROVE  Owned'
  <1>1. state = "idle" /\ live = {} /\ ~badFree' /\ allocated \in Nat
    BY DEF reconcile_with_ids, BeginCall, Owned
  <1>2. CASE UNCHANGED <<live, allocated, state, borrowed>>
    BY <1>1, <1>2 DEF Owned
  <1>3. CASE /\ borrowed' = New(2) /\ live' = live \cup New(2)
             /\ allocated' = allocated + 2
             /\ state' = "callback"
    <2>1. allocated' \in Nat /\ New(2) \subseteq 1 .. allocated'
      BY <1>1, <1>3, SMT DEF New
    <2> QED
      BY <1>1, <1>3, <2>1 DEF Owned
  <1> QED
    BY <1>2, <1>3 DEF reconcile_with_ids

LEMMA InitOwned == Init => Owned
  BY SMT DEF Init, Owned

LEMMA NextOwned == ZeroEachTime /\ Owned /\ [Next]_vars => Owned'
  <1> SUFFICES ASSUME ZeroEachTime, Owned, [Next]_vars PROVE Owned'
    OBVIOUS
  <1>1. ASSUME NEW i, Initiate(i) PROVE Owned'
    BY <1>1, InitiateOwned
  <1>2. ASSUME NEW i, negentropy_setinitiator(i) PROVE Owned'
    BY <1>2 DEF negentropy_setinitiator, Owned, freed
  <1>3. ASSUME NEW i, Reconcile(i) PROVE Owned'
    BY <1>3, ReconcileOwned
  <1>4. ASSUME NEW i, ReconcileWithIds(i) PROVE Owned'
    BY <1>4, ReconcileWithIdsOwned
  <1>5. ASSUME NEW i, reconcile_with_ids(i) PROVE Owned'
    BY <1>5, CallbackOwned
  <1>6. CASE CallbackReturns
    BY <1>6 DEF CallbackReturns, Owned
  <1>7. CASE free_result
    <2>1. freed(result) \subseteq live /\ live \ freed(result) = {}
      BY <1>7 DEF free_result, Owned
    <2>2. borrowed' = {}
      BY <1>7 DEF free_result, Owned
    <2> QED
      BY <1>7, <2>1, <2>2 DEF free_result, Owned
  <1>8. CASE Stop \/ UNCHANGED vars
    <2>1. UNCHANGED <<live, allocated, result, state, borrowed, badFree>>
      BY <1>8 DEF Stop, vars
    <2> QED
      BY <2>1 DEF Owned, freed
  <1> QED
    BY <1>1, <1>2, <1>3, <1>4, <1>5, <1>6, <1>7, <1>8
       DEF Next, negentropy_initiate, negentropy_subrange_initiate, reconcile,
           reconcile_subrange, reconcile_with_ids_no_cbk,
           reconcile_with_ids_subrange_no_cbk

(* What the inductive invariant says of a returned result.                  *)
LEMMA OwnedIsReadable == Owned => ResultReadable /\ FreesOnlyLive /\ NoLeak
  BY DEF Owned, ResultReadable, FreesOnlyLive, NoLeak, freed

(* A caller that clears its struct before every call never meets a length  *)
(* or pointer nobody wrote, whichever function it called and wherever that *)
(* failed: what a call did not write is what the caller cleared.           *)
THEOREM ResultsCanBeRead == ZeroEachTime => (Spec => []ResultReadable)
  <1> SUFFICES ASSUME ZeroEachTime PROVE Spec => []ResultReadable
    OBVIOUS
  <1>1. Owned => ResultReadable
    BY OwnedIsReadable
  <1>2. Owned /\ [Next]_vars => Owned'
    BY NextOwned
  <1> QED
    BY <1>1, <1>2, InitOwned, PTL DEF Spec

(* A caller that clears its struct before every call and frees it after    *)
(* every call that did not say there is nothing to free: whatever the      *)
(* calls return, exceptions included, it frees live memory only, and it    *)
(* leaks none.                                                             *)
THEOREM ResultsFreedOnce ==
    ZeroEachTime => (Spec => [](FreesOnlyLive /\ NoLeak))
  <1> SUFFICES ASSUME ZeroEachTime PROVE Spec => [](FreesOnlyLive /\ NoLeak)
    OBVIOUS
  <1>1. Owned => FreesOnlyLive /\ NoLeak
    BY OwnedIsReadable
  <1>2. Owned /\ [Next]_vars => Owned'
    BY NextOwned
  <1> QED
    BY <1>1, <1>2, InitOwned, PTL DEF Spec
=============================================================================
