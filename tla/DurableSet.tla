----------------------------- MODULE DurableSet ------------------------------
(***************************************************************************)
(* What a B-tree in a transactional database promises: a set that can be   *)
(* changed, saved, and that falls back to what was saved last.             *)
(***************************************************************************)
CONSTANT Items

VARIABLES set, saved

Init == set = {} /\ saved = {}

Add    == \E item \in Items \ set : set' = set \cup {item} /\ UNCHANGED saved
Remove == \E item \in set : set' = set \ {item} /\ UNCHANGED saved
Save   == saved' = set /\ UNCHANGED set
Revert == set' = saved /\ UNCHANGED saved

Next == Add \/ Remove \/ Save \/ Revert

Spec == Init /\ [][Next]_<<set, saved>>
=============================================================================
