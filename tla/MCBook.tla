------------------------------- MODULE MCBook -------------------------------
(***************************************************************************)
(* Book for TLC: two prices, update ids 1..3, and a handful of events and  *)
(* snapshots that continue each other, leave gaps, overlap, cross the book *)
(* and empty a side.                                                       *)
(***************************************************************************)
EXTENDS Book, TLC

MCPrice == 1..2
MCQty == 0..1

(* A quote inside the grid, a bid that crosses it, both asks gone. *)
Quote == [bids |-> 1 :> 1, asks |-> 2 :> 1]
CrossingBid == [bids |-> 2 :> 1, asks |-> <<>>]
Withdrawal == [bids |-> 2 :> 0, asks |-> (1 :> 0) @@ (2 :> 0)]

Covering(pu, u, d) == [U |-> pu + 1, u |-> u, pu |-> pu, bids |-> d.bids, asks |-> d.asks]

MCEvents ==
  {Covering(0, 1, Quote), Covering(0, 2, CrossingBid), Covering(1, 2, Quote),
   Covering(1, 3, CrossingBid), Covering(2, 3, Withdrawal), Covering(2, 3, Quote)}

Shallow(bid, ask) == [bids |-> (bid :> 1) @@ Empty, asks |-> (ask :> 1) @@ Empty]

MCSnapshots ==
  {[lastUpdateId |-> 1, bids |-> Shallow(1, 2).bids, asks |-> Shallow(1, 2).asks],
   [lastUpdateId |-> 2, bids |-> Shallow(1, 2).bids, asks |-> Shallow(1, 2).asks],
   [lastUpdateId |-> 2, bids |-> Shallow(2, 1).bids, asks |-> Shallow(2, 1).asks]}

MCTickers == {[bid |-> 2, ask |-> 2], [bid |-> 1, ask |-> 2]}
=============================================================================
