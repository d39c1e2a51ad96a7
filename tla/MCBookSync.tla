----------------------------- MODULE MCBookSync -----------------------------
(***************************************************************************)
(* BookSync for TLC: sync tasks are interchangeable.                       *)
(***************************************************************************)
EXTENDS BookSync, TLC

TaskSymmetry == Permutations(Tasks)
=============================================================================
