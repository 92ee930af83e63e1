---------------------------- MODULE ExclusiveSlots ----------------------------
(***************************************************************************)
(* What the launch guard promises, with neither registry nor pending       *)
(* markers: a launch takes all of its guard keys at once, at most once, if *)
(* nobody holds one of them, and keeps them until it gives them up.        *)
(***************************************************************************)
CONSTANT Launches

VARIABLES
    keys,     \* the guard keys of each launch; never changes
    holders,  \* the launches that hold their keys
    spent     \* launches that have had their turn

slotVars == <<keys, holders, spent>>

Init ==
    /\ holders = {}
    /\ spent = {}

Acquire(l) ==
    /\ l \notin spent
    /\ \A k \in holders : keys[k] \cap keys[l] = {}
    /\ holders' = holders \cup {l}
    /\ spent' = spent \cup {l}
    /\ UNCHANGED keys

\* Launches end, are refused before they hold anything, or are lost in a crash.
GiveUp(ended, refused) ==
    /\ holders' = holders \ ended
    /\ spent' = spent \cup refused
    /\ UNCHANGED keys

Next ==
    \/ \E l \in Launches : Acquire(l)
    \/ \E ended, refused \in SUBSET Launches : GiveUp(ended, refused)

Spec == Init /\ [][Next]_slotVars
==============================================================================
