------------------------------- MODULE Records -------------------------------
(***************************************************************************)
(* What the control plane's store promises: one set of records that every  *)
(* reader sees whole, a copy of it that a restart reads back, and of every *)
(* change an answer.  "ok" means that what is seen is what is kept; an     *)
(* error leaves open whether the change is kept, and it is seen until the  *)
(* next restart either way.                                                *)
(***************************************************************************)
CONSTANTS
    Contents,  \* what the store can hold
    Blank,     \* what it holds at first
    Changes    \* pairs of contents that are one call apart

VARIABLES
    seen,    \* what readers are told
    kept,    \* what a restart reads back
    answer   \* to the latest change: "none", "ok" or "error"

vars == <<seen, kept, answer>>

Init == seen = Blank /\ kept = Blank /\ answer = "none"

\* A change is kept before anybody sees it.
Keep ==
    /\ kept' \in Contents
    /\ <<seen, kept'>> \in Changes
    /\ UNCHANGED <<seen, answer>>

\* Whoever made it is told that it is kept.
Ok ==
    /\ <<seen, kept>> \in Changes
    /\ seen' = kept
    /\ answer' = "ok"
    /\ UNCHANGED kept

\* It was not kept, or nobody knows.
Error ==
    /\ seen' \in Contents
    /\ <<seen, seen'>> \in Changes
    /\ answer' = "error"
    /\ UNCHANGED kept

Restart ==
    /\ seen' = kept
    /\ answer' = "none"
    /\ UNCHANGED kept

Next == Keep \/ Ok \/ Error \/ Restart

Spec == Init /\ [][Next]_vars
=============================================================================
