------------------------------- MODULE Mutex -------------------------------
(***************************************************************************)
(* What the scheduler lock promises: one thread at a time, and a thread    *)
(* that dies inside does not keep the others out.  Whoever comes after it  *)
(* is told nothing of what it left undone.                                 *)
(***************************************************************************)
CONSTANTS Thread, None
VARIABLES owner, dead

Init == owner = None /\ dead = {}

Acquire(t) == t \notin dead /\ owner = None /\ owner' = t /\ UNCHANGED dead
Release    == owner \in Thread /\ owner' = None /\ UNCHANGED dead
Seize(t)   == t \notin dead /\ owner \in dead /\ owner' = t /\ UNCHANGED dead
Die(T)     == dead' = dead \cup T /\ UNCHANGED owner

Next ==
    \/ \E t \in Thread : Acquire(t) \/ Seize(t)
    \/ Release
    \/ \E T \in SUBSET Thread : Die(T)

Spec == Init /\ [][Next]_<<owner, dead>>
=============================================================================
