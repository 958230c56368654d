------------------------------- MODULE Baton -------------------------------
(***************************************************************************)
(* What the baton promises, whatever it is made of: of all the threads of  *)
(* a run at most one runs, and that is the one the baton was last given    *)
(* to; a holder that dies is replaced.                                     *)
(***************************************************************************)
CONSTANTS Thread, None
VARIABLES holder,    \* whose baton it is, None before the run starts
          running,   \* the threads that run
          dead
vars == <<holder, running, dead>>

Init == holder = None /\ running = {} /\ dead = {}

\* The baton changes hands: from nobody, from the thread that runs, or from
\* one that died with it.
Give(u) ==
    /\ u \in Thread \ dead
    /\ holder \in dead \cup running \cup {None}
    /\ holder # u
    /\ holder' = u
    /\ running' = {}
    /\ UNCHANGED dead

\* The new holder notices.
Take ==
    /\ holder \in Thread \ dead
    /\ running = {}
    /\ running' = {holder}
    /\ UNCHANGED <<holder, dead>>

Die(t) ==
    /\ t \in Thread \ dead
    /\ dead' = dead \cup {t}
    /\ running' = running \ {t}
    /\ UNCHANGED holder

Next == Take \/ \E t \in Thread : Give(t) \/ Die(t)

Spec == Init /\ [][Next]_vars /\ WF_vars(Take)
=============================================================================
