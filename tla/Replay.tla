------------------------------- MODULE Replay -------------------------------
(***************************************************************************)
(* The resync buffer of a book (rust/src/book.rs) and the rule by which    *)
(* on_snapshot replays it over a REST snapshot.  A depth event is known by *)
(* its update ids: it covers the ids U..u and names in pu the last id of   *)
(* the event before it.                                                    *)
(*                                                                         *)
(* The loop of on_snapshot is written here twice: without a loop, as the   *)
(* models use it (which buffered events it reaches, where it stops, the id *)
(* it leaves the book at), and event by event, as the code has it.         *)
(***************************************************************************)
EXTENDS Integers, Sequences, FiniteSetsExt

CONSTANT BufferMax          \* BUFFER_MAX: the most events the buffer holds

ASSUME BufferMaxAssumption == BufferMax \in Nat \ {0}

(* An event of the venue's stream covers the ids right after pu. *)
StreamEvent ==
  {ev \in [U : Nat, u : Nat, pu : Nat] : ev.U = ev.pu + 1 /\ ev.U <= ev.u}

Covered(ev) == ev.U .. ev.u

(* Mutant of Push: the buffer has no bound. *)
PushUnbounded(buf, ev) == Append(buf, ev)

(* buffer_push: the oldest event makes room when the buffer is full. *)
Push(buf, ev) == Append(IF Len(buf) >= BufferMax THEN Tail(buf) ELSE buf, ev)

(* Mutant of Replayable: the event that ends at the snapshot is skipped. *)
ReplayableAfter(buf, lui) == {i \in DOMAIN buf : buf[i].u > lui}

(* The buffered events the snapshot does not already contain; the others   *)
(* are skipped.                                                            *)
Replayable(buf, lui) == {i \in DOMAIN buf : buf[i].u >= lui}

(* j is the event the loop reaches next after i. *)
Adjacent(K, i, j) == i < j /\ \A k \in K : k <= i \/ j <= k

(* Mutant of Breaks: only the first event is checked. *)
BreaksUnchained(buf, lui) ==
  {j \in Replayable(buf, lui) :
     (\A i \in Replayable(buf, lui) : j <= i) /\ buf[j].U > lui}

(* The events at which the loop gives up: the first one does not straddle  *)
(* the snapshot, or a later one does not continue its predecessor.         *)
Breaks(buf, lui) ==
  LET K == Replayable(buf, lui) IN
  {j \in K : \/ (\A i \in K : j <= i) /\ buf[j].U > lui
             \/ \E i \in K : Adjacent(K, i, j) /\ buf[j].pu # buf[i].u}

(* The events applied before the loop ends or gives up. *)
Replayed(buf, lui) ==
  {j \in Replayable(buf, lui) : \A b \in Breaks(buf, lui) : j < b}

(* last_update_id after the replay. *)
ReplayedTo(buf, lui) ==
  IF Replayed(buf, lui) = {} THEN lui ELSE buf[Max(Replayed(buf, lui))].u

(* The body of the loop: live until it returns false, last is              *)
(* last_update_id, any is applied_any.                                     *)
Iteration(before, ev, lui) ==
  IF ~before.live \/ ev.u < lui THEN before
  ELSE IF IF before.any THEN ev.pu # before.last ELSE ev.U > lui
       THEN [live |-> FALSE, last |-> before.last, any |-> before.any]
       ELSE [live |-> TRUE, last |-> ev.u, any |-> TRUE]

(* What the loop leaves: after[i] is where it is after i events.           *)
Loop(buf, lui) ==
  LET after[i \in 0..Len(buf)] ==
        IF i = 0 THEN [live |-> TRUE, last |-> lui, any |-> FALSE]
                 ELSE Iteration(after[i - 1], buf[i], lui)
  IN after[Len(buf)]
=============================================================================
