----------------------------- MODULE ExactCopy -----------------------------
(***************************************************************************)
(* What an order book promises to whoever reads it: either it admits to    *)
(* having nothing, or it is the venue's book of some moment, every update  *)
(* up to then and none after, and that moment does not go back while the   *)
(* copy lasts.  BookSync implements this for books whose snapshot was      *)
(* straddled by a buffered event.                                          *)
(***************************************************************************)
EXTENDS Naturals

VARIABLES now,              \* the venue's latest update
          copy              \* the updates the reader's book holds

vars == <<now, copy>>

Init == now = 0 /\ copy = {}

Tick == now' = now + 1 /\ UNCHANGED copy

Sync ==
  /\ \E n \in 0..now : copy' = 1..n
  /\ copy \subseteq copy'
  /\ UNCHANGED now

Lose == copy' = {} /\ UNCHANGED now

Next == Tick \/ Sync \/ Lose

Spec == Init /\ [][Next]_vars
=============================================================================
