---------------------------- MODULE MCTelemetry ----------------------------
(***************************************************************************)
(* Telemetry for TLC: one shard of two symbols, and two gatherers.  Two    *)
(* books are what it takes for "most books are live" to say more than "the *)
(* book is live"; the two, and the two gatherers, are interchangeable.     *)
(***************************************************************************)
EXTENDS Telemetry, TLC

MCShardOf == [y \in Symbols |-> CHOOSE s \in Shards : TRUE]
MCMaxCount == [f \in Counter |-> IF f = "snapshots" THEN 2 ELSE 1]

Symmetry == Permutations(Gatherers) \cup Permutations(Symbols)
=============================================================================
