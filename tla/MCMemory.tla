------------------------------ MODULE MCMemory ------------------------------
(***************************************************************************)
(* Small heaps and regions for TLC: slabs of 4 units (64 bytes instead of  *)
(* 64 KB), classes of 1, 2 and 4 units in pools of 2, 8 slabs of which the *)
(* window has 2, and 5 pages for mappings.                                 *)
(***************************************************************************)
EXTENDS Memory

\* A small block, one that is aligned, and runs of one and of two slabs
Sizes == {<<1, 1>>, <<0, 2>>, <<4, 1>>, <<7, 1>>}

HeapCalls == {"malloc", "free", "realloc", "outside"}
OwnCalls  == {"own"}
MapCalls  == {"map", "shm", "exit", "kernel"}
AllPrograms == {HeapCalls, OwnCalls, MapCalls}
=============================================================================
