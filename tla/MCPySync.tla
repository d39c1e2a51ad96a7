------------------------------ MODULE MCPySync ------------------------------
(***************************************************************************)
(* PySync for TLC: sync tasks are interchangeable.                         *)
(***************************************************************************)
EXTENDS PySync, TLC

TaskSymmetry == Permutations(Tasks)
=============================================================================
