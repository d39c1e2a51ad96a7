----------------------------- MODULE MCUniverse -----------------------------
(***************************************************************************)
(* Universe for TLC: four symbols, two to a shard, any volumes among three *)
(* with ties and zeros, and tickers that miss some or all of the symbols.  *)
(***************************************************************************)
EXTENDS Universe, TLC

MCNames == 1..4
MCTickers == [MCNames -> 0..2] \cup {<<>>, 3 :> 1, (1 :> 0) @@ (4 :> 2)}
MCExplicits == {<<>>, <<3, 1, 3, 2>>, <<2, 3, 1>>, <<4>>}
MCCaps == {NoCap, 0, 1, 3}
=============================================================================
