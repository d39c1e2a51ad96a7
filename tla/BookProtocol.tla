---------------------------- MODULE BookProtocol ----------------------------
(***************************************************************************)
(* The sequence-number half of one order book (struct Book in              *)
(* rust/src/book.rs): when a diff is buffered, ignored, applied or taken   *)
(* for a gap, and when a snapshot makes the book live.  Price levels are   *)
(* left out; all the protocol sees of them is the verdict of               *)
(* check_integrity, which may fall either way here.  Module Book adds the  *)
(* levels; module BookSync runs this one between the tasks of the feed     *)
(* handler; module BookProtocolSpec makes a specification of it.           *)
(*                                                                         *)
(* Each operation is an action that constrains its return value ret.       *)
(***************************************************************************)
EXTENDS Replay

VARIABLE book               \* the fields of Book that the protocol reads

BookState == {"uninitialized", "buffering", "live"}
Action == {"publish", "need_snapshot", "none"}

Event == [U : Nat, u : Nat, pu : Nat]

BookTypeOK ==
  /\ book \in [state : BookState, last_update_id : Nat, buffer : Seq(Event),
               need_first_event : BOOLEAN, gap_count : Nat]
  /\ Len(book.buffer) <= BufferMax

NewBook ==
  [state |-> "uninitialized", last_update_id |-> 0, buffer |-> <<>>,
   need_first_event |-> FALSE, gap_count |-> 0]

BookInit == book = NewBook

-----------------------------------------------------------------------------
(* on_depth *)

BufferDepth(ev, ret) ==
  /\ book.state # "live"
  /\ ret = IF book.state = "uninitialized" THEN "need_snapshot" ELSE "none"
  /\ book' = [book EXCEPT !.state = "buffering", !.buffer = Push(@, ev)]

(* A live book has already seen the event. *)
IgnoreDepth(ev, ret) ==
  /\ book.state = "live"
  /\ ev.u <= book.last_update_id
  /\ ret = "none"
  /\ UNCHANGED book

(* Mutant of Accepts: pu is not looked at. *)
AcceptsUnchained(ev) ==
  /\ book.state = "live"
  /\ ev.u > book.last_update_id

(* A live book takes the event: it continues the chain, or it is the one   *)
(* event accepted unchecked after a snapshot nothing straddled.            *)
Accepts(ev) ==
  /\ book.state = "live"
  /\ ev.u > book.last_update_id
  /\ book.need_first_event \/ ev.pu = book.last_update_id

(* Mutant of GapDepth: no event is exempt from the pu check. *)
GapDepthAlways(ev, ret) ==
  /\ book.state = "live"
  /\ ev.u > book.last_update_id
  /\ ev.pu # book.last_update_id
  /\ ret = "need_snapshot"
  /\ book' = [book EXCEPT !.state = "buffering", !.buffer = <<ev>>,
                          !.gap_count = @ + 1]

GapDepth(ev, ret) ==
  /\ book.state = "live"
  /\ ev.u > book.last_update_id
  /\ ~book.need_first_event
  /\ ev.pu # book.last_update_id
  /\ ret = "need_snapshot"
  /\ book' = [book EXCEPT !.state = "buffering", !.buffer = <<ev>>,
                          !.gap_count = @ + 1]

(* Mutant of ApplyDepth: the verdict of check_integrity is not returned. *)
ApplyDepthPublished(ev, sound, ret) ==
  /\ Accepts(ev)
  /\ ret = "publish"
  /\ book' = [book EXCEPT !.state = IF sound THEN "live" ELSE "buffering",
                          !.last_update_id = ev.u,
                          !.need_first_event = FALSE,
                          !.buffer = IF sound THEN @ ELSE <<ev>>]

(* fall_back_to_buffering keeps last_update_id, already moved to ev.u. *)
ApplyDepth(ev, sound, ret) ==
  /\ Accepts(ev)
  /\ ret = IF sound THEN "publish" ELSE "need_snapshot"
  /\ book' = [book EXCEPT !.state = IF sound THEN "live" ELSE "buffering",
                          !.last_update_id = ev.u,
                          !.need_first_event = FALSE,
                          !.buffer = IF sound THEN @ ELSE <<ev>>]

OnDepth(ev, sound, ret) ==
  \/ BufferDepth(ev, ret)
  \/ IgnoreDepth(ev, ret)
  \/ GapDepth(ev, ret)
  \/ ApplyDepth(ev, sound, ret)

-----------------------------------------------------------------------------
(* on_snapshot *)

(* A book that no longer waits for a snapshot drops it and reports success. *)
UnwantedSnapshot(ret) ==
  /\ book.state # "buffering"
  /\ ret = TRUE
  /\ UNCHANGED book

(* The buffer is drained whatever the replay finds. *)
RejectSnapshot(lui, ret) ==
  /\ book.state = "buffering"
  /\ Breaks(book.buffer, lui) # {}
  /\ ret = FALSE
  /\ book' = [book EXCEPT !.last_update_id = ReplayedTo(book.buffer, lui),
                          !.buffer = <<>>]

ApplySnapshot(lui, sound, ret) ==
  /\ book.state = "buffering"
  /\ Breaks(book.buffer, lui) = {}
  /\ ret = sound
  /\ book' = [book EXCEPT !.state = IF sound THEN "live" ELSE "buffering",
                          !.last_update_id = ReplayedTo(book.buffer, lui),
                          !.need_first_event = (Replayed(book.buffer, lui) = {}),
                          !.buffer = <<>>]

OnSnapshot(lui, sound, ret) ==
  \/ UnwantedSnapshot(ret)
  \/ RejectSnapshot(lui, ret)
  \/ ApplySnapshot(lui, sound, ret)

-----------------------------------------------------------------------------
Reset == book' = [NewBook EXCEPT !.gap_count = book.gap_count]

MarkForResync ==
  book' = [NewBook EXCEPT !.gap_count = book.gap_count, !.state = "buffering"]
=============================================================================
