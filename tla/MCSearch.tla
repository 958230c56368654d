------------------------------ MODULE MCSearch ------------------------------
(***************************************************************************)
(* Small searches for TLC.                                                 *)
(***************************************************************************)
EXTENDS Search

Moments == {0} \cup 2..20
=============================================================================
