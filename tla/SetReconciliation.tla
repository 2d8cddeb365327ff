-------------------------- MODULE SetReconciliation --------------------------
(***************************************************************************)
(* What one synchronisation promises its client, whatever the messages.    *)
(*                                                                         *)
(* Two parties hold sets of IDs.  The client accumulates the IDs it has    *)
(* (and the server needs) and the IDs it needs.  Each party's set may      *)
(* change while the synchronisation runs; nothing is promised about an ID  *)
(* that was inserted or erased meanwhile, and everything about the others. *)
(***************************************************************************)
CONSTANT Id

VARIABLES
    mine, theirs,     \* the client's and the server's set of IDs
    touched,          \* the IDs inserted or erased since the beginning
    have, need,       \* what the client has been told so far
    done              \* the client has ended the protocol

vars == <<mine, theirs, touched, have, need, done>>

Init ==
    /\ mine \in SUBSET Id
    /\ theirs \in SUBSET Id
    /\ touched = {}
    /\ have = {}
    /\ need = {}
    /\ done = FALSE

Edit(k) ==
    /\ ~done
    /\ \/ mine' \in {mine \cup {k}, mine \ {k}} /\ UNCHANGED theirs
       \/ theirs' \in {theirs \cup {k}, theirs \ {k}} /\ UNCHANGED mine
    /\ touched' = touched \cup {k}
    /\ UNCHANGED <<have, need, done>>

(* Every report is right, ... *)
Report ==
    /\ ~done
    /\ have' \in SUBSET (have \cup (mine \ theirs) \cup touched)
    /\ have \subseteq have'
    /\ need' \in SUBSET (need \cup (theirs \ mine) \cup touched)
    /\ need \subseteq need'
    /\ UNCHANGED <<mine, theirs, touched>>

(* ... and the last one leaves nothing out. *)
Complete(h, n) ==
    /\ (mine \ theirs) \ touched \subseteq h
    /\ (theirs \ mine) \ touched \subseteq n

Continue == Report /\ UNCHANGED done

Finish == Report /\ done' = TRUE /\ Complete(have', need')

Next == (\E k \in Id : Edit(k)) \/ Continue \/ Finish

Spec == Init /\ [][Next]_vars
=============================================================================
