------------------------------- MODULE MCFeed -------------------------------
(***************************************************************************)
(* Feed for TLC: two symbols share a shard, the third has one of its own.  *)
(***************************************************************************)
EXTENDS Feed

CONSTANTS btc, eth, sol, k1, k2

MCSymbols == {btc, eth, sol}
MCShards == {k1, k2}
MCShardOf == [s \in MCSymbols |-> IF s = sol THEN k2 ELSE k1]
MCRank == [s \in MCSymbols |-> IF s = btc THEN 0 ELSE IF s = sol THEN 1 ELSE 2]
=============================================================================
