-------------------------------- MODULE Book --------------------------------
(***************************************************************************)
(* One order book (struct Book in rust/src/book.rs): its price levels, the *)
(* ticker it is checked against, its resync buffer and its counters, with  *)
(* one action per operation.  It implements BookProtocol, where the        *)
(* verdict of check_integrity is any verdict.                              *)
(*                                                                         *)
(* A side of the book maps every price to a quantity, 0 where BTreeMap has *)
(* no entry; a diff maps the prices it mentions.                           *)
(***************************************************************************)
EXTENDS Replay

CONSTANTS Price,                  \* the price grid, positive integers
          Qty,                    \* quantities, 0 among them
          BboMismatchThreshold,   \* BBO_MISMATCH_THRESHOLD
          Events,                 \* depth events that may arrive
          Snapshots,              \* snapshots that may arrive
          Tickers,                \* best bid and ask that bookTicker may report
          MaxSnapshots,           \* bound on snapshot_count
          MaxTroubles             \* bound on gaps, crossings and drops together

Level == [Price -> Qty]
Diff == UNION {[S -> Qty] : S \in SUBSET Price}

ASSUME BookAssumption ==
  /\ Price \subseteq Nat \ {0} /\ Qty \subseteq Nat /\ 0 \in Qty
  /\ BboMismatchThreshold \in Nat \ {0}
  /\ \A ev \in Events : ev \in [U : Nat, u : Nat, pu : Nat, bids : Diff, asks : Diff]
  /\ \A s \in Snapshots : s \in [lastUpdateId : Nat, bids : Level, asks : Level]
  /\ \A t \in Tickers : t \in [bid : Price \cup {0}, ask : Price \cup {0}]
  /\ MaxSnapshots \in Nat /\ MaxTroubles \in Nat

VARIABLES
  state, last_update_id, buffer, need_first_event,
  bids, asks,
  ticker,                   \* ticker_bid and ticker_ask
  bbo_mismatch_count,
  snapshot_count, gap_count, crossed_count, buffer_dropped,
  unverified_bridge_count,
  unchecked                 \* history: events accepted without a pu check

levels == <<bids, asks>>
counters == <<snapshot_count, gap_count, crossed_count, buffer_dropped,
              unverified_bridge_count, unchecked>>
vars == <<state, last_update_id, buffer, need_first_event, levels, ticker,
          bbo_mismatch_count, counters>>

Empty == [p \in Price |-> 0]
NoTicker == [bid |-> 0, ask |-> 0]

TypeOK ==
  /\ state \in {"uninitialized", "buffering", "live"}
  /\ last_update_id \in Nat
  /\ buffer \in Seq(Events) /\ Len(buffer) <= BufferMax
  /\ need_first_event \in BOOLEAN
  /\ bids \in Level /\ asks \in Level
  /\ ticker \in Tickers \cup {NoTicker}
  /\ \A n \in {bbo_mismatch_count, snapshot_count, gap_count, crossed_count,
               buffer_dropped, unverified_bridge_count, unchecked} : n \in Nat

Init ==
  /\ state = "uninitialized" /\ last_update_id = 0
  /\ buffer = <<>> /\ need_first_event = FALSE
  /\ bids = Empty /\ asks = Empty
  /\ ticker = NoTicker /\ bbo_mismatch_count = 0
  /\ snapshot_count = 0 /\ gap_count = 0 /\ crossed_count = 0
  /\ buffer_dropped = 0 /\ unverified_bridge_count = 0 /\ unchecked = 0

-----------------------------------------------------------------------------
(* check_integrity, given the levels b, a and the mismatch count n.        *)

Prices(side) == {p \in Price : side[p] > 0}

TwoSided(b, a) == Prices(b) # {} /\ Prices(a) # {}

Crossed(b, a) == TwoSided(b, a) /\ Max(Prices(b)) >= Min(Prices(a))

(* The ticker is consulted once both of its prices are known. *)
Compared(b, a) ==
  TwoSided(b, a) /\ ~Crossed(b, a) /\ ticker.bid # 0 /\ ticker.ask # 0

Mismatches(b, a, n) ==
  IF ~Compared(b, a) THEN n
  ELSE IF ticker = [bid |-> Max(Prices(b)), ask |-> Min(Prices(a))] THEN 0
  ELSE n + 1

(* Mutant of Sound: one mismatch too many is tolerated. *)
SoundOnceMore(b, a, n) ==
  /\ ~Crossed(b, a)
  /\ Compared(b, a) => Mismatches(b, a, n) <= BboMismatchThreshold

Sound(b, a, n) ==
  /\ ~Crossed(b, a)
  /\ Compared(b, a) => Mismatches(b, a, n) < BboMismatchThreshold

(* What every check does to crossed_count. *)
CountCrossing(b, a) ==
  crossed_count' = crossed_count + IF Crossed(b, a) THEN 1 ELSE 0

-----------------------------------------------------------------------------
(* on_depth *)

(* Mutant of BufferDepth: the oldest event is dropped in silence. *)
BufferDepthSilent(ev) ==
  /\ state # "live"
  /\ state' = "buffering"
  /\ buffer' = Push(buffer, ev)
  /\ UNCHANGED <<last_update_id, need_first_event, levels, ticker,
                 bbo_mismatch_count, counters>>

BufferDepth(ev) ==
  /\ state # "live"
  /\ state' = "buffering"
  /\ buffer' = Push(buffer, ev)
  /\ buffer_dropped' = buffer_dropped + IF Len(buffer) >= BufferMax THEN 1 ELSE 0
  /\ UNCHANGED <<last_update_id, need_first_event, levels, ticker,
                 bbo_mismatch_count, snapshot_count, gap_count, crossed_count,
                 unverified_bridge_count, unchecked>>

(* Mutant of Continues: any event from the past will do. *)
ContinuesLoosely(ev) == need_first_event \/ ev.pu <= last_update_id

Continues(ev) == need_first_event \/ ev.pu = last_update_id

(* apply_diff on one side: a quantity of 0 removes the level. *)
After(side, diff) ==
  [p \in Price |-> IF p \in DOMAIN diff THEN diff[p] ELSE side[p]]

IgnoreDepth(ev) ==
  /\ state = "live" /\ ev.u <= last_update_id
  /\ UNCHANGED vars

(* fall_back_to_buffering: the offending event is the first of the new buffer. *)
FallBack(ev) ==
  /\ state' = "buffering"
  /\ buffer' = <<ev>>
  /\ bbo_mismatch_count' = 0

GapDepth(ev) ==
  /\ state = "live" /\ ev.u > last_update_id
  /\ ~Continues(ev)
  /\ gap_count' = gap_count + 1
  /\ FallBack(ev)
  /\ UNCHANGED <<last_update_id, need_first_event, levels, ticker, snapshot_count,
                 crossed_count, buffer_dropped, unverified_bridge_count, unchecked>>

ApplyDepth(ev) ==
  /\ state = "live" /\ ev.u > last_update_id
  /\ Continues(ev)
  /\ bids' = After(bids, ev.bids)
  /\ asks' = After(asks, ev.asks)
  /\ last_update_id' = ev.u
  /\ need_first_event' = FALSE
  /\ unchecked' = unchecked + IF need_first_event THEN 1 ELSE 0
  /\ CountCrossing(bids', asks')
  /\ \/ /\ Sound(bids', asks', bbo_mismatch_count)
        /\ bbo_mismatch_count' = Mismatches(bids', asks', bbo_mismatch_count)
        /\ UNCHANGED <<state, buffer>>
     \/ /\ ~Sound(bids', asks', bbo_mismatch_count)
        /\ FallBack(ev)
  /\ UNCHANGED <<ticker, snapshot_count, gap_count, buffer_dropped,
                 unverified_bridge_count>>

OnDepth(ev) ==
  BufferDepth(ev) \/ IgnoreDepth(ev) \/ GapDepth(ev) \/ ApplyDepth(ev)

-----------------------------------------------------------------------------
(* on_snapshot *)

(* A side after the events at R: each price as the last of them left it. *)
Overlay(side, diffs, R) ==
  [p \in Price |->
     LET mentions == {i \in R : p \in DOMAIN diffs[i]}
     IN IF mentions = {} THEN side[p] ELSE diffs[Max(mentions)][p]]

UnwantedSnapshot(s) == state # "buffering" /\ UNCHANGED vars

(* What happens to the book before the bridge is known to hold or not. *)
LoadSnapshot(s) ==
  LET lui == s.lastUpdateId
      R == Replayed(buffer, lui)
  IN
  /\ state = "buffering"
  /\ bids' = Overlay(s.bids, [i \in DOMAIN buffer |-> buffer[i].bids], R)
  /\ asks' = Overlay(s.asks, [i \in DOMAIN buffer |-> buffer[i].asks], R)
  /\ last_update_id' = ReplayedTo(buffer, lui)
  /\ buffer' = <<>>
  /\ snapshot_count' = snapshot_count + 1
  /\ UNCHANGED <<ticker, gap_count, buffer_dropped, unchecked>>

RejectSnapshot(s) ==
  /\ LoadSnapshot(s)
  /\ Breaks(buffer, s.lastUpdateId) # {}
  /\ UNCHANGED <<state, need_first_event, bbo_mismatch_count, crossed_count,
                 unverified_bridge_count>>

(* Mutant of ApplySnapshot: a buffer of which every event was skipped is   *)
(* not an unverified bridge.                                               *)
ApplySnapshotUncounted(s) ==
  /\ LoadSnapshot(s)
  /\ Breaks(buffer, s.lastUpdateId) = {}
  /\ need_first_event' = (Replayed(buffer, s.lastUpdateId) = {})
  /\ unverified_bridge_count' =
       unverified_bridge_count + IF buffer = <<>> THEN 1 ELSE 0
  /\ CountCrossing(bids', asks')
  /\ bbo_mismatch_count' = Mismatches(bids', asks', 0)
  /\ state' = IF Sound(bids', asks', 0) THEN "live" ELSE "buffering"

ApplySnapshot(s) ==
  /\ LoadSnapshot(s)
  /\ Breaks(buffer, s.lastUpdateId) = {}
  /\ need_first_event' = (Replayed(buffer, s.lastUpdateId) = {})
  /\ unverified_bridge_count' =
       unverified_bridge_count + IF need_first_event' THEN 1 ELSE 0
  /\ CountCrossing(bids', asks')
  /\ bbo_mismatch_count' = Mismatches(bids', asks', 0)
  /\ state' = IF Sound(bids', asks', 0) THEN "live" ELSE "buffering"

OnSnapshot(s) == UnwantedSnapshot(s) \/ RejectSnapshot(s) \/ ApplySnapshot(s)

-----------------------------------------------------------------------------
SetTickerBbo(t) ==
  /\ ticker' = t
  /\ UNCHANGED <<state, last_update_id, buffer, need_first_event, levels,
                 bbo_mismatch_count, counters>>

(* Mutant of Cleared: the buffer survives. *)
ClearedButBuffer ==
  /\ bids' = Empty /\ asks' = Empty
  /\ last_update_id' = 0
  /\ need_first_event' = FALSE
  /\ ticker' = NoTicker
  /\ bbo_mismatch_count' = 0
  /\ UNCHANGED <<buffer, counters>>

Cleared ==
  /\ bids' = Empty /\ asks' = Empty
  /\ last_update_id' = 0
  /\ buffer' = <<>>
  /\ need_first_event' = FALSE
  /\ ticker' = NoTicker
  /\ bbo_mismatch_count' = 0
  /\ UNCHANGED counters

Reset == Cleared /\ state' = "uninitialized"

MarkForResync == Cleared /\ state' = "buffering"

WithinBounds ==
  /\ snapshot_count < MaxSnapshots
  /\ gap_count + crossed_count + buffer_dropped < MaxTroubles

Next ==
  \/ WithinBounds /\ \E ev \in Events : OnDepth(ev)
  \/ WithinBounds /\ \E s \in Snapshots : OnSnapshot(s)
  \/ \E t \in Tickers : SetTickerBbo(t)
  \/ Reset
  \/ MarkForResync

Spec == Init /\ [][Next]_vars

-----------------------------------------------------------------------------
(* A live book is not crossed, and has not disagreed with the ticker for   *)
(* BBO_MISMATCH_THRESHOLD checks in a row: every path that changes levels  *)
(* and stays live goes through check_integrity.                            *)
LiveIsSound ==
  state = "live" => ~Crossed(bids, asks) /\ bbo_mismatch_count < BboMismatchThreshold

(* README.md: an event accepted without a pu check is counted, at most one *)
(* per snapshot; resets, fall-backs and failed snapshots leave no licence  *)
(* for a second one (need_first_event, unverified_bridge_count).           *)
UncheckedIsCounted ==
  unchecked + (IF state = "live" /\ need_first_event THEN 1 ELSE 0)
    <= unverified_bridge_count

(* No event from before a book went live is left to be replayed later      *)
(* (on_snapshot drains, fall_back_to_buffering clears, reset clears).      *)
BufferOnlyWhileBuffering == state # "buffering" => buffer = <<>>

(* What a step may do to the buffer, and to buffer_dropped with it. *)
BufferMoves ==
  LET drops == buffer_dropped' - buffer_dropped IN
  \/ drops = 0 /\ UNCHANGED buffer
  \/ /\ buffer' # <<>> /\ drops \in 0..Len(buffer)
     /\ SubSeq(buffer', 1, Len(buffer') - 1) = SubSeq(buffer, drops + 1, Len(buffer))
  \/ /\ buffer' = <<>> /\ drops = 0
     /\ state' = "live" => \A i \in DOMAIN buffer : buffer[i].u <= last_update_id'

(* The comment on buffer_push: a drop must never be silent.  Where the     *)
(* buffer goes on, exactly its oldest events are missing, and each is in   *)
(* buffer_dropped.  Where it is given up as a whole, nothing is counted;   *)
(* but the book is then live only if it is past all of it.  What a         *)
(* rejected or unsound snapshot or a reset gives up is in no counter.      *)
DropsAreCounted == [][BufferMoves]_vars

(* What BookProtocol sees of an event, of a buffer and of the book. *)
Numbers(ev) == [U |-> ev.U, u |-> ev.u, pu |-> ev.pu]

NumbersOf(buf) == [i \in DOMAIN buf |-> Numbers(buf[i])]

protocolBook ==
  [state |-> state, last_update_id |-> last_update_id, buffer |-> NumbersOf(buffer),
   need_first_event |-> need_first_event, gap_count |-> gap_count]

Ids == {ev.u : ev \in Events} \cup {s.lastUpdateId : s \in Snapshots}

(* The venue's numbering, which BookProtocol takes for granted: an event   *)
(* covers at least one id and comes after the event it names.  An id is a  *)
(* u64, so there are finitely many.                                        *)
ASSUME NumberingAssumption ==
  /\ IsFiniteSet(Ids)
  /\ \A ev \in Events : ev.pu < ev.U /\ ev.U <= ev.u

Protocol ==
  INSTANCE BookProtocolSpec WITH
    MaxId <- Max(Ids), MaxGaps <- MaxTroubles, book <- protocolBook

(* The whole book follows the sequence-number protocol: levels, ticker and *)
(* counters only ever decide the verdict.                                  *)
ImplementsProtocol == Protocol!Spec
=============================================================================
