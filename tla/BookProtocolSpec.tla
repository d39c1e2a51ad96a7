-------------------------- MODULE BookProtocolSpec --------------------------
(***************************************************************************)
(* BookProtocol as a specification: any legal event, snapshot, reset or    *)
(* resync at any time, and any verdict on the levels.  Module Book         *)
(* implements it.                                                          *)
(***************************************************************************)
EXTENDS BookProtocol

CONSTANTS MaxId,            \* bound: update ids are 1..MaxId
          MaxGaps           \* bound on gap_count

(* Every event the venue's numbering allows, within the bound: it covers   *)
(* at least one id and comes after the event it names.                     *)
BoundedEvent ==
  {ev \in [U : 1..MaxId, u : 1..MaxId, pu : 0..MaxId] : ev.pu < ev.U /\ ev.U <= ev.u}

Next ==
  \/ \E ev \in BoundedEvent, sound \in BOOLEAN, ret \in Action :
       book.gap_count < MaxGaps /\ OnDepth(ev, sound, ret)
  \/ \E lui \in 0..MaxId, sound \in BOOLEAN, ret \in BOOLEAN :
       OnSnapshot(lui, sound, ret)
  \/ Reset
  \/ MarkForResync

Spec == BookInit /\ [][Next]_book
=============================================================================
