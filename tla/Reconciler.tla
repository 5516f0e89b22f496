----------------------------- MODULE Reconciler -----------------------------
(***************************************************************************)
(* What a reconciliation loop promises about one object, with no caches,   *)
(* requests, errors or passes: others may change the object or what is     *)
(* wanted, a finite number of times; apart from that, the only thing that  *)
(* ever happens to it is that it gets the content wanted now, and keeps    *)
(* what others recorded in it; and this does happen.                       *)
(***************************************************************************)
EXTENDS Naturals

CONSTANTS
    Specs,       \* contents the object may have
    Pvcs,        \* what others may record in it
    None         \* the object does not exist; nothing is wanted

VARIABLES
    spec, pvcs,  \* the object
    wanted,      \* the content it should have
    outside      \* outside events still to come

vars == <<spec, pvcs, wanted, outside>>

Init ==
    /\ spec = None /\ pvcs = {}
    /\ wanted \in Specs \cup {None} /\ outside \in Nat

\* The object is created, or brought to what is wanted.
Repair ==
    /\ wanted # None /\ spec # wanted
    /\ spec' = wanted
    /\ UNCHANGED <<pvcs, wanted, outside>>

\* Somebody else deletes the object, changes its content or records something.
Disturb ==
    /\ spec # None /\ outside' < outside
    /\ \/ spec' = None /\ pvcs' = {}
       \/ spec' \in Specs /\ UNCHANGED pvcs
       \/ pvcs' \in SUBSET Pvcs /\ pvcs \subseteq pvcs' /\ UNCHANGED spec
    /\ UNCHANGED wanted

\* Something else is wanted from now on.
Reconfigure ==
    /\ outside' < outside
    /\ wanted' \in Specs \cup {None}
    /\ UNCHANGED <<spec, pvcs>>

Next == Repair \/ Disturb \/ Reconfigure

Safety == Init /\ [][Next]_vars
Spec == Safety /\ WF_vars(Repair)
=============================================================================
