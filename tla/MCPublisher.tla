----------------------------- MODULE MCPublisher -----------------------------
(***************************************************************************)
(* Publisher for TLC: two symbols and two filters, one of everything and   *)
(* one of a single stream and symbol.                                      *)
(***************************************************************************)
EXTENDS Publisher

CONSTANTS btc, eth

MCSymbols == {btc, eth}

MCFilters ==
  {[streams |-> Streams, symbols |-> MCSymbols],
   [streams |-> {"bbo"}, symbols |-> {btc}]}
=============================================================================
