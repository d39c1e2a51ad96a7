-------------------------- MODULE MCSnapshotPacer --------------------------
(***************************************************************************)
(* SnapshotPacer for TLC: a task of the best rank and two of another.      *)
(***************************************************************************)
EXTENDS SnapshotPacer

CONSTANTS btc, eth, sol

MCTasks == {btc, eth, sol}
MCRank == [t \in MCTasks |-> IF t = btc THEN 0 ELSE 1]
=============================================================================
