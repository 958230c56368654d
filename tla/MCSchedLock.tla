---------------------------- MODULE MCSchedLock ----------------------------
(***************************************************************************)
(* SchedLock with two guest processes, one of them with two threads, so    *)
(* that it can exec away a thread that is inside.                          *)
(***************************************************************************)
EXTENDS SchedLock

CONSTANTS a1, a2, b, A, B
Threads == {a1, a2, b}
Owners  == [t \in Threads |-> IF t = b THEN B ELSE A]
=============================================================================
