---------------------------- MODULE RankedSlots ----------------------------
(***************************************************************************)
(* What the snapshot pacer promises (SnapshotPacer in                      *)
(* rust/src/feed_handler.rs): slots at least an interval apart, each to a  *)
(* request that waits and that no waiting request is to be served before.  *)
(* A request may be withdrawn, and leaves no trace.  SnapshotPacer         *)
(* implements it; Feed uses it in the pacer's place.                       *)
(***************************************************************************)
EXTENDS Naturals

CONSTANTS Request,          \* requests for a slot
          Before(_, _),     \* the order in which they are served
          Interval          \* ticks between two slots

VARIABLES queue,            \* the requests that wait
          since             \* time since the last slot, up to Interval

vars == <<queue, since>>

Init == queue = {} /\ since = 0

Ask(k) ==
  /\ k \in Request \ queue
  /\ queue' = queue \cup {k}
  /\ UNCHANGED since

Withdraw(K) ==
  /\ queue' = queue \ K
  /\ UNCHANGED since

Grant(k) ==
  /\ since = Interval
  /\ k \in queue
  /\ \A j \in queue : ~Before(j, k)
  /\ queue' = queue \ {k}
  /\ since' = 0

Tick ==
  /\ since < Interval
  /\ since' = since + 1
  /\ UNCHANGED queue

Next ==
  \/ \E k \in Request : Ask(k) \/ Withdraw({k}) \/ Grant(k)
  \/ Tick

Spec == Init /\ [][Next]_vars
=============================================================================
