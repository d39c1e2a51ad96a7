----------------------------- MODULE BookProofs -----------------------------
(***************************************************************************)
(* Proofs about the whole book: it is never live on levels its checks      *)
(* refuse, its counters tell what they are said to tell, and it follows    *)
(* BookProtocol.                                                           *)
(***************************************************************************)
EXTENDS Book, ReplayProofs

(* The events and snapshots that may arrive are well formed. *)
LEMMA EventFields ==
  /\ \A ev \in Events : /\ ev.U \in Nat /\ ev.u \in Nat /\ ev.pu \in Nat
                        /\ ev.bids \in Diff /\ ev.asks \in Diff
  /\ \A s \in Snapshots : s.lastUpdateId \in Nat /\ s.bids \in Level /\ s.asks \in Level
BY BookAssumption DEF BookAssumption

(* A diff over a side is a side. *)
LEMMA DiffOverLevel ==
  ASSUME NEW d \in Diff, NEW side \in Level
  PROVE  After(side, d) \in Level
<1>1. PICK S \in SUBSET Price : d \in [S -> Qty]
  BY DEF Diff
<1> QED
  BY <1>1 DEF Level, After

(* So is a side after any of the buffered diffs. *)
LEMMA OverlayLevel ==
  ASSUME NEW n \in Nat, NEW side \in Level, NEW diffs,
         \A i \in 1..n : diffs[i] \in Diff,
         NEW R \in SUBSET (1..n)
  PROVE  Overlay(side, diffs, R) \in Level
<1>1. ASSUME NEW p \in Price
      PROVE  LET mentions == {i \in R : p \in DOMAIN diffs[i]}
             IN  (IF mentions = {} THEN side[p] ELSE diffs[Max(mentions)][p]) \in Qty
  <2> DEFINE mentions == {i \in R : p \in DOMAIN diffs[i]}
  <2>1. CASE mentions = {}
    BY <2>1 DEF Level
  <2>2. CASE mentions # {}
    <3>1. Max(mentions) \in mentions
      <4>1. mentions \in SUBSET (1..n)
        OBVIOUS
      <4> HIDE DEF mentions
      <4> QED
        BY <2>2, <4>1, MaxIsGreatest
    <3>2. PICK S \in SUBSET Price : diffs[Max(mentions)] \in [S -> Qty]
      BY <3>1 DEF Diff
    <3>3. p \in S
      BY <3>1, <3>2
    <3> QED
      BY <2>2, <3>2, <3>3
  <2> QED
    BY <2>1, <2>2
<1> QED
  BY <1>1 DEF Overlay, Level

(* A count of mismatches stays a count. *)
LEMMA MismatchesNatural ==
  ASSUME NEW b, NEW a, NEW n \in Nat
  PROVE  Mismatches(b, a, n) \in Nat
<1>1. \E c \in {n, 0, n + 1} : Mismatches(b, a, n) = c
  BY DEF Mismatches
<1> QED
  BY <1>1

-----------------------------------------------------------------------------
(* Types: a new book is well typed, and every operation keeps it so. *)
LEMMA InitTyped == Init => TypeOK
<1> SUFFICES ASSUME Init PROVE TypeOK
  OBVIOUS
<1>1. Empty \in Level
  BY BookAssumption DEF BookAssumption, Empty, Level
<1>2. buffer \in Seq(Events) /\ Len(buffer) <= BufferMax
  BY BufferMaxAssumption DEF Init
<1>3. /\ state \in {"uninitialized", "buffering", "live"}
      /\ last_update_id \in Nat /\ need_first_event \in BOOLEAN
      /\ ticker \in Tickers \cup {NoTicker}
  BY DEF Init
<1>4. \A n \in {bbo_mismatch_count, snapshot_count, gap_count, crossed_count,
               buffer_dropped, unverified_bridge_count, unchecked} : n \in Nat
  BY DEF Init
<1>5. bids \in Level /\ asks \in Level
  BY <1>1 DEF Init
<1> QED
  BY <1>2, <1>3, <1>4, <1>5 DEF TypeOK

(* A diff is buffered, ignored, applied or taken for a gap. *)
LEMMA DepthTyped ==
  ASSUME TypeOK, NEW ev \in Events, OnDepth(ev)
  PROVE  TypeOK'
<1>1. CASE BufferDepth(ev)
  <2>1. buffer' \in Seq(Events) /\ Len(buffer') <= BufferMax
    BY <1>1, PushType DEF BufferDepth, TypeOK
  <2>2. buffer_dropped' \in Nat
    BY <1>1 DEF BufferDepth, TypeOK
  <2> QED
    BY <1>1, <2>1, <2>2 DEF BufferDepth, TypeOK, levels, counters
<1>2. CASE IgnoreDepth(ev)
  BY <1>2 DEF IgnoreDepth, TypeOK, vars, levels, counters
<1>3. <<ev>> \in Seq(Events) /\ Len(<<ev>>) <= BufferMax
  BY BufferMaxAssumption
<1>4. CASE GapDepth(ev)
  <2>1. gap_count' \in Nat
    BY <1>4 DEF GapDepth, TypeOK
  <2> QED
    BY <1>3, <1>4, <2>1 DEF GapDepth, FallBack, TypeOK, levels
<1>5. CASE ApplyDepth(ev)
  <2>1. bids' \in Level /\ asks' \in Level
    BY <1>5, EventFields, DiffOverLevel DEF ApplyDepth, TypeOK
  <2>2. last_update_id' \in Nat
    BY <1>5, EventFields DEF ApplyDepth
  <2>3. crossed_count' \in Nat /\ unchecked' \in Nat
    BY <1>5 DEF ApplyDepth, CountCrossing, TypeOK
  <2>4. \/ /\ bbo_mismatch_count' = Mismatches(bids', asks', bbo_mismatch_count)
           /\ UNCHANGED <<state, buffer>>
        \/ FallBack(ev)
    BY <1>5 DEF ApplyDepth
  <2>5. state' \in {"uninitialized", "buffering", "live"}
        /\ buffer' \in Seq(Events) /\ Len(buffer') <= BufferMax
    BY <1>3, <2>4 DEF FallBack, TypeOK
  <2>6. bbo_mismatch_count' \in Nat
    BY <2>4, MismatchesNatural DEF FallBack, TypeOK
  <2> QED
    BY <1>5, <2>1, <2>2, <2>3, <2>5, <2>6 DEF ApplyDepth, TypeOK
<1> QED
  BY <1>1, <1>2, <1>4, <1>5 DEF OnDepth

(* What a snapshot leaves, before anything is known of the bridge. *)
LEMMA LoadTyped ==
  ASSUME TypeOK, NEW s \in Snapshots, LoadSnapshot(s)
  PROVE  /\ bids' \in Level /\ asks' \in Level
         /\ last_update_id' \in Nat
         /\ buffer' \in Seq(Events) /\ Len(buffer') <= BufferMax
         /\ snapshot_count' \in Nat
         /\ UNCHANGED <<ticker, gap_count, buffer_dropped, unchecked>>
<1> DEFINE R == Replayed(buffer, s.lastUpdateId)
           bidDiffs == [i \in DOMAIN buffer |-> buffer[i].bids]
           askDiffs == [i \in DOMAIN buffer |-> buffer[i].asks]
<1>1. Len(buffer) \in Nat /\ R \in SUBSET (1..Len(buffer))
  BY ReplayableType DEF TypeOK
<1>2. \A i \in 1..Len(buffer) : bidDiffs[i] \in Diff /\ askDiffs[i] \in Diff
  BY EventFields DEF TypeOK
<1>3. bids' = Overlay(s.bids, bidDiffs, R) /\ asks' = Overlay(s.asks, askDiffs, R)
  BY DEF LoadSnapshot
<1>4. s.bids \in Level /\ s.asks \in Level /\ s.lastUpdateId \in Nat
  BY EventFields
<1>5. last_update_id' \in Nat
  BY <1>4, EventFields, ReplayedToNatural DEF LoadSnapshot, TypeOK
<1>6. buffer' \in Seq(Events) /\ Len(buffer') <= BufferMax
  BY BufferMaxAssumption DEF LoadSnapshot
<1>7. snapshot_count' \in Nat /\ UNCHANGED <<ticker, gap_count, buffer_dropped, unchecked>>
  BY DEF LoadSnapshot, TypeOK
<1>8. bids' \in Level /\ asks' \in Level
  <2> HIDE DEF R, bidDiffs, askDiffs
  <2> QED
    BY <1>1, <1>2, <1>3, <1>4, OverlayLevel
<1> QED
  BY <1>5, <1>6, <1>7, <1>8

(* on_snapshot keeps the types, whether the replay breaks or not. *)
LEMMA SnapshotTyped ==
  ASSUME TypeOK, NEW s \in Snapshots, OnSnapshot(s)
  PROVE  TypeOK'
<1>1. CASE UnwantedSnapshot(s)
  BY <1>1 DEF UnwantedSnapshot, TypeOK, vars, levels, counters
<1>2. CASE RejectSnapshot(s)
  <2>1. UNCHANGED <<state, need_first_event, bbo_mismatch_count, crossed_count,
                    unverified_bridge_count>>
    BY <1>2 DEF RejectSnapshot
  <2>2. LoadSnapshot(s)
    BY <1>2 DEF RejectSnapshot
  <2> QED
    BY <2>1, <2>2, LoadTyped DEF TypeOK
<1>3. CASE ApplySnapshot(s)
  <2>1. state' \in {"uninitialized", "buffering", "live"} /\ need_first_event' \in BOOLEAN
    BY <1>3 DEF ApplySnapshot
  <2>2. crossed_count' \in Nat /\ unverified_bridge_count' \in Nat
    BY <1>3 DEF ApplySnapshot, CountCrossing, TypeOK
  <2>3. bbo_mismatch_count' \in Nat
    BY <1>3, MismatchesNatural DEF ApplySnapshot
  <2>4. LoadSnapshot(s)
    BY <1>3 DEF ApplySnapshot
  <2> QED
    BY <2>1, <2>2, <2>3, <2>4, LoadTyped DEF TypeOK
<1> QED
  BY <1>1, <1>2, <1>3 DEF OnSnapshot

(* A ticker arrives; the book is cleared. *)
LEMMA OtherTyped ==
  ASSUME TypeOK, (\E t \in Tickers : SetTickerBbo(t)) \/ Reset \/ MarkForResync
  PROVE  TypeOK'
<1>1. CASE \E t \in Tickers : SetTickerBbo(t)
  BY <1>1 DEF SetTickerBbo, TypeOK, levels, counters
<1>2. CASE Reset \/ MarkForResync
  <2>1. Empty \in Level
    BY BookAssumption DEF BookAssumption, Empty, Level
  <2>2. buffer' \in Seq(Events) /\ Len(buffer') <= BufferMax
    <3>1. buffer' = <<>>
      BY <1>2 DEF Reset, MarkForResync, Cleared
    <3> QED
      BY <3>1, BufferMaxAssumption
  <2>3. Cleared /\ state' \in {"uninitialized", "buffering", "live"}
    BY <1>2 DEF Reset, MarkForResync
  <2>4. bids' \in Level /\ asks' \in Level
    BY <2>1, <2>3 DEF Cleared
  <2>5. (\A n \in {bbo_mismatch_count, snapshot_count, gap_count, crossed_count,
                  buffer_dropped, unverified_bridge_count, unchecked} : n \in Nat)'
    BY <2>3 DEF Cleared, TypeOK, counters
  <2>6. /\ last_update_id' \in Nat /\ need_first_event' \in BOOLEAN
        /\ ticker' \in Tickers \cup {NoTicker}
    BY <2>3 DEF Cleared
  <2> QED
    BY <2>2, <2>3, <2>4, <2>5, <2>6 DEF TypeOK
<1> QED
  BY <1>1, <1>2

(* Every reachable book is well typed, and its buffer within BUFFER_MAX.   *)
THEOREM TypeCorrect == Spec => []TypeOK
<1>1. TypeOK /\ [Next]_vars => TypeOK'
  <2> SUFFICES ASSUME TypeOK, [Next]_vars PROVE TypeOK'
    OBVIOUS
  <2>1. CASE UNCHANGED vars
    BY <2>1 DEF vars, levels, counters, TypeOK
  <2> QED
    BY <2>1, DepthTyped, SnapshotTyped, OtherTyped DEF Next
<1> QED
  BY <1>1, InitTyped, PTL DEF Spec
-----------------------------------------------------------------------------
(* Invariants.  Each part is disturbed by few actions; together with the   *)
(* types they are inductive.                                               *)

Invariants == LiveIsSound /\ UncheckedIsCounted /\ BufferOnlyWhileBuffering

(* Levels that check_integrity accepts leave the count under the threshold *)
(* it was under.                                                           *)
LEMMA SoundStaysUnder ==
  ASSUME NEW b, NEW a, NEW n \in Nat, n < BboMismatchThreshold, Sound(b, a, n)
  PROVE  ~Crossed(b, a) /\ Mismatches(b, a, n) < BboMismatchThreshold
<1>1. CASE Compared(b, a)
  BY <1>1 DEF Sound
<1>2. CASE ~Compared(b, a)
  BY <1>2 DEF Sound, Mismatches
<1> QED
  BY <1>1, <1>2

(* A diff keeps them. *)
LEMMA DepthKeeps ==
  ASSUME TypeOK, Invariants, NEW ev \in Events, OnDepth(ev)
  PROVE  Invariants'
<1> USE DEF Invariants
<1>1. CASE BufferDepth(ev)
  <2>1. state' = "buffering" /\ UNCHANGED <<unchecked, unverified_bridge_count>>
    BY <1>1 DEF BufferDepth
  <2>2. unchecked <= unverified_bridge_count
    BY DEF UncheckedIsCounted, TypeOK
  <2> QED
    BY <2>1, <2>2 DEF LiveIsSound, UncheckedIsCounted, BufferOnlyWhileBuffering, TypeOK
<1>2. CASE IgnoreDepth(ev)
  BY <1>2 DEF IgnoreDepth, vars, levels, counters, LiveIsSound, UncheckedIsCounted,
              BufferOnlyWhileBuffering
<1>3. CASE GapDepth(ev)
  <2>1. state' = "buffering" /\ UNCHANGED <<unchecked, unverified_bridge_count>>
    BY <1>3 DEF GapDepth, FallBack
  <2>2. unchecked <= unverified_bridge_count
    BY DEF UncheckedIsCounted, TypeOK
  <2> QED
    BY <2>1, <2>2 DEF LiveIsSound, UncheckedIsCounted, BufferOnlyWhileBuffering, TypeOK
<1>4. CASE ApplyDepth(ev)
  <2>1. state = "live" /\ buffer = <<>> /\ bbo_mismatch_count < BboMismatchThreshold
    BY <1>4 DEF ApplyDepth, LiveIsSound, BufferOnlyWhileBuffering
  <2>2. UncheckedIsCounted'
    <3>1. unchecked' <= unverified_bridge_count /\ need_first_event' = FALSE
      BY <1>4, <2>1 DEF ApplyDepth, UncheckedIsCounted, TypeOK
    <3>2. unchecked' \in Nat /\ UNCHANGED unverified_bridge_count
      BY <1>4 DEF ApplyDepth, TypeOK
    <3> QED
      BY <3>1, <3>2 DEF UncheckedIsCounted
  <2>3. CASE /\ Sound(bids', asks', bbo_mismatch_count)
             /\ bbo_mismatch_count' = Mismatches(bids', asks', bbo_mismatch_count)
             /\ UNCHANGED <<state, buffer>>
    <3>1. ~Crossed(bids', asks') /\ bbo_mismatch_count' < BboMismatchThreshold
      BY <2>1, <2>3, SoundStaysUnder DEF TypeOK
    <3>2. Crossed(bids', asks') <=> Crossed(bids, asks)'
      BY DEF Crossed, TwoSided, Prices
    <3> QED
      BY <2>1, <2>2, <2>3, <3>1, <3>2 DEF LiveIsSound, BufferOnlyWhileBuffering
  <2>4. CASE FallBack(ev)
    BY <2>2, <2>4 DEF FallBack, LiveIsSound, BufferOnlyWhileBuffering
  <2> QED
    BY <1>4, <2>3, <2>4 DEF ApplyDepth
<1> QED
  BY <1>1, <1>2, <1>3, <1>4 DEF OnDepth

(* So does a snapshot. *)
LEMMA SnapshotKeeps ==
  ASSUME TypeOK, Invariants, NEW s \in Snapshots, OnSnapshot(s)
  PROVE  Invariants'
<1> USE DEF Invariants
<1>1. CASE UnwantedSnapshot(s)
  BY <1>1 DEF UnwantedSnapshot, vars, levels, counters, LiveIsSound, UncheckedIsCounted,
              BufferOnlyWhileBuffering
<1>2. CASE RejectSnapshot(s)
  <2>1. state' = "buffering" /\ UNCHANGED <<unchecked, unverified_bridge_count>>
    BY <1>2 DEF RejectSnapshot, LoadSnapshot
  <2>2. unchecked <= unverified_bridge_count
    BY DEF UncheckedIsCounted, TypeOK
  <2> QED
    BY <2>1, <2>2 DEF LiveIsSound, UncheckedIsCounted, BufferOnlyWhileBuffering, TypeOK
<1>3. CASE ApplySnapshot(s)
  <2>1. /\ state = "buffering" /\ buffer' = <<>> /\ UNCHANGED unchecked
        /\ need_first_event' \in BOOLEAN
        /\ unverified_bridge_count' =
             unverified_bridge_count + IF need_first_event' THEN 1 ELSE 0
    BY <1>3 DEF ApplySnapshot, LoadSnapshot
  <2>2. unchecked <= unverified_bridge_count
    BY <2>1 DEF UncheckedIsCounted, TypeOK
  <2>3. UncheckedIsCounted'
    BY <2>1, <2>2 DEF UncheckedIsCounted, TypeOK
  <2>4. LiveIsSound'
    <3>1. CASE Sound(bids', asks', 0)
      <4>1. ~Crossed(bids', asks') /\ bbo_mismatch_count' < BboMismatchThreshold
        <5>1. 0 \in Nat /\ 0 < BboMismatchThreshold
          BY BookAssumption DEF BookAssumption
        <5>2. bbo_mismatch_count' = Mismatches(bids', asks', 0)
          BY <1>3 DEF ApplySnapshot
        <5> QED
          BY <3>1, <5>1, <5>2, SoundStaysUnder
      <4>2. Crossed(bids', asks') <=> Crossed(bids, asks)'
        BY DEF Crossed, TwoSided, Prices
      <4> QED
        BY <4>1, <4>2 DEF LiveIsSound
    <3>2. CASE ~Sound(bids', asks', 0)
      BY <1>3, <3>2 DEF ApplySnapshot, LiveIsSound
    <3> QED
      BY <3>1, <3>2
  <2> QED
    BY <2>1, <2>3, <2>4 DEF BufferOnlyWhileBuffering
<1> QED
  BY <1>1, <1>2, <1>3 DEF OnSnapshot

(* And so do a ticker and a clearing. *)
LEMMA OtherKeeps ==
  ASSUME TypeOK, Invariants, (\E t \in Tickers : SetTickerBbo(t)) \/ Reset \/ MarkForResync
  PROVE  Invariants'
<1> USE DEF Invariants
<1>1. CASE \E t \in Tickers : SetTickerBbo(t)
  BY <1>1 DEF SetTickerBbo, levels, counters, LiveIsSound, UncheckedIsCounted,
              BufferOnlyWhileBuffering, Crossed, TwoSided, Prices
<1>2. CASE Reset \/ MarkForResync
  <2>1. state' # "live" /\ buffer' = <<>> /\ UNCHANGED <<unchecked, unverified_bridge_count>>
    BY <1>2 DEF Reset, MarkForResync, Cleared, counters
  <2>2. unchecked <= unverified_bridge_count
    BY DEF UncheckedIsCounted, TypeOK
  <2> QED
    BY <2>1, <2>2 DEF LiveIsSound, UncheckedIsCounted, BufferOnlyWhileBuffering, TypeOK
<1> QED
  BY <1>1, <1>2

(* All of it holds of every reachable book.                                *)
LEMMA Holds == Spec => []Invariants
<1>1. Init => Invariants
  BY BookAssumption DEF BookAssumption, Init, Invariants, LiveIsSound, UncheckedIsCounted,
                        BufferOnlyWhileBuffering
<1>2. TypeOK /\ Invariants /\ [Next]_vars => Invariants'
  <2> SUFFICES ASSUME TypeOK, Invariants, [Next]_vars PROVE Invariants'
    OBVIOUS
  <2>1. CASE UNCHANGED vars
    BY <2>1 DEF vars, levels, counters, Invariants, LiveIsSound, UncheckedIsCounted,
                BufferOnlyWhileBuffering, Crossed, TwoSided, Prices
  <2> QED
    BY <2>1, DepthKeeps, SnapshotKeeps, OtherKeeps DEF Next
<1> QED
  BY <1>1, <1>2, TypeCorrect, PTL DEF Spec

(* A live book is never crossed, nor at odds with the ticker for           *)
(* BBO_MISMATCH_THRESHOLD checks in a row, whatever events, snapshots and  *)
(* tickers arrive in whatever order: check_integrity guards every path to  *)
(* "live" and every change of levels there.                                *)
THEOREM LiveBooksAreSound == Spec => []LiveIsSound
BY Holds, PTL DEF Invariants

(* Every event accepted without a pu check is paid for by a counted        *)
(* unverified bridge: need_first_event licenses one such event, and every  *)
(* way out of "live" forfeits the licence.                                 *)
THEOREM UncheckedEventsAreCounted == Spec => []UncheckedIsCounted
BY Holds, PTL DEF Invariants

(* Only a buffering book has a buffer, so no replay reaches back over a    *)
(* time the book was live.                                                 *)
THEOREM OnlyBufferingBuffers == Spec => []BufferOnlyWhileBuffering
BY Holds, PTL DEF Invariants

(* An event pushed into a buffer stands behind all of it, or all but the   *)
(* oldest.                                                                 *)
LEMMA PushDropsOldest ==
  ASSUME NEW E, NEW buf \in Seq(E), NEW ev \in E, NEW full \in {0, 1},
         full <= Len(buf), NEW kept, kept = IF full = 1 THEN Tail(buf) ELSE buf,
         NEW longer, longer = Append(kept, ev)
  PROVE  longer # <<>> /\ SubSeq(longer, 1, Len(longer) - 1) = SubSeq(buf, full + 1, Len(buf))
<1>1. kept \in Seq(E) /\ Len(kept) = Len(buf) - full /\ Len(buf) \in Nat
  OBVIOUS
<1>2. \A i \in 1..Len(kept) : kept[i] = buf[i + full]
  BY <1>1
<1>3. longer \in Seq(E) /\ Len(longer) = Len(kept) + 1
  BY <1>1
<1>4. \A i \in 1..Len(kept) : longer[i] = kept[i]
  BY <1>1
<1> QED
  BY <1>1, <1>2, <1>3, <1>4

(* on_depth counts what a full buffer sheds. *)
LEMMA DepthMoves ==
  ASSUME TypeOK, BufferOnlyWhileBuffering, NEW ev \in Events, OnDepth(ev)
  PROVE  BufferMoves
<1>1. CASE BufferDepth(ev)
  <2> DEFINE full == IF Len(buffer) >= BufferMax THEN 1 ELSE 0
             kept == IF full = 1 THEN Tail(buffer) ELSE buffer
  <2>1. full \in {0, 1} /\ full <= Len(buffer) /\ Len(buffer) \in Nat
    BY BufferMaxAssumption DEF TypeOK
  <2>2. buffer' = Append(kept, ev)
    BY <1>1 DEF BufferDepth, Push
  <2>3. buffer_dropped' = buffer_dropped + full /\ buffer_dropped \in Nat
    BY <1>1 DEF BufferDepth, TypeOK
  <2>4. buffer \in Seq(Events)
    BY DEF TypeOK
  <2> HIDE DEF full
  <2>5. /\ buffer' # <<>>
        /\ SubSeq(buffer', 1, Len(buffer') - 1) = SubSeq(buffer, full + 1, Len(buffer))
    BY <2>1, <2>2, <2>4, PushDropsOldest
  <2>6. buffer_dropped' - buffer_dropped = full
    BY <2>1, <2>3
  <2>7. full \in 0..Len(buffer)
    BY <2>1
  <2> QED
    BY <2>5, <2>6, <2>7 DEF BufferMoves
<1>2. CASE state = "live" /\ buffer' = <<ev>> /\ buffer_dropped' = buffer_dropped
  <2>1. buffer = <<>>
    BY <1>2 DEF BufferOnlyWhileBuffering
  <2>2. buffer_dropped' - buffer_dropped = 0
    BY <1>2 DEF TypeOK
  <2> QED
    BY <1>2, <2>1, <2>2 DEF BufferMoves
<1>3. CASE UNCHANGED <<buffer, buffer_dropped>>
  BY <1>3 DEF BufferMoves, TypeOK
<1>4. \/ BufferDepth(ev)
      \/ state = "live" /\ buffer' = <<ev>> /\ buffer_dropped' = buffer_dropped
      \/ UNCHANGED <<buffer, buffer_dropped>>
  BY DEF OnDepth, IgnoreDepth, GapDepth, ApplyDepth, FallBack, vars, counters
<1> QED
  BY <1>1, <1>2, <1>3, <1>4

(* A snapshot that makes the book live leaves it past what was buffered.   *)
LEMMA SnapshotMoves ==
  ASSUME TypeOK, NEW s \in Snapshots, OnSnapshot(s)
  PROVE  BufferMoves
<1>1. CASE UnwantedSnapshot(s)
  BY <1>1 DEF UnwantedSnapshot, BufferMoves, vars, counters, TypeOK
<1>2. CASE RejectSnapshot(s) \/ ApplySnapshot(s)
  <2>1. LoadSnapshot(s)
    BY <1>2 DEF RejectSnapshot, ApplySnapshot
  <2>2. /\ buffer' = <<>> /\ state = "buffering"
        /\ buffer_dropped' - buffer_dropped = 0
        /\ last_update_id' = ReplayedTo(buffer, s.lastUpdateId)
    BY <2>1 DEF LoadSnapshot, TypeOK
  <2>3. state' = "live" => Breaks(buffer, s.lastUpdateId) = {}
    BY <1>2, <2>2 DEF RejectSnapshot, ApplySnapshot
  <2>4. /\ \A ev \in Events : ev.u \in Nat /\ ev.pu \in Nat /\ ev.pu < ev.u
        /\ s.lastUpdateId \in Nat
    <3>1. \A ev \in Events : /\ ev.u \in Nat /\ ev.U \in Nat /\ ev.pu \in Nat
                              /\ ev.pu < ev.U /\ ev.U <= ev.u
      BY EventFields, NumberingAssumption DEF NumberingAssumption
    <3> QED
      BY <3>1, EventFields
  <2>5. state' = "live" => \A i \in 1..Len(buffer) : buffer[i].u <= last_update_id'
    BY <2>2, <2>3, <2>4, UnbrokenIsPast DEF TypeOK
  <2> QED
    BY <2>2, <2>5 DEF BufferMoves, TypeOK
<1> QED
  BY <1>1, <1>2 DEF OnSnapshot

(* Nothing else makes a book live, or drops a part of its buffer. *)
LEMMA OtherMoves ==
  ASSUME TypeOK, (\E t \in Tickers : SetTickerBbo(t)) \/ Reset \/ MarkForResync
  PROVE  BufferMoves
<1>1. \/ UNCHANGED <<buffer, buffer_dropped>>
      \/ buffer' = <<>> /\ state' # "live" /\ buffer_dropped' = buffer_dropped
  BY DEF SetTickerBbo, Reset, MarkForResync, Cleared, counters
<1> QED
  BY <1>1 DEF BufferMoves, TypeOK

(* In every step of a book the buffer either loses its oldest events, each *)
(* counted in buffer_dropped, or is given up as a whole; and a book that   *)
(* goes live giving up its buffer has in it, by replay or by the snapshot, *)
(* all that was buffered.  What a book gives up that stays without a       *)
(* snapshot, after a rejected one or a reset, is not counted.              *)
THEOREM NoSilentDrop == Spec => DropsAreCounted
<1>1. TypeOK /\ Invariants /\ [Next]_vars => [BufferMoves]_vars
  <2> SUFFICES ASSUME TypeOK, Invariants, Next PROVE BufferMoves
    OBVIOUS
  <2>1. BufferOnlyWhileBuffering
    BY DEF Invariants
  <2> QED
    BY <2>1, DepthMoves, SnapshotMoves, OtherMoves DEF Next
<1> QED
  BY <1>1, TypeCorrect, Holds, PTL DEF Spec, DropsAreCounted
-----------------------------------------------------------------------------
(* The book follows BookProtocol.  A step of the book, seen through        *)
(* protocolBook, is a step of the protocol or a stutter.                   *)

(* What the protocol sees of an event is one of its own. *)
LEMMA EventsAreBounded ==
  ASSUME NEW ev \in Events
  PROVE  Numbers(ev) \in Protocol!BoundedEvent
<1>1. ev.U \in Nat /\ ev.u \in Nat /\ ev.pu \in Nat /\ ev.pu < ev.U /\ ev.U <= ev.u
  BY EventFields, NumberingAssumption DEF NumberingAssumption
<1>2. ev.u <= Max(Ids) /\ Max(Ids) \in Nat
  <2>1. Ids \in SUBSET Nat /\ ev.u \in Ids
    BY EventFields DEF Ids
  <2> QED
    BY <2>1, NumberingAssumption, FiniteMaxIsGreatest DEF NumberingAssumption
<1>3. ev.U \in 1..Max(Ids) /\ ev.u \in 1..Max(Ids) /\ ev.pu \in 0..Max(Ids)
  <2> DEFINE top == Max(Ids)
  <2>1. top \in Nat /\ ev.u <= top
    BY <1>2
  <2> HIDE DEF top
  <2> QED
    BY <1>1, <2>1 DEF top
<1>4. /\ Numbers(ev) \in [U : 1..Max(Ids), u : 1..Max(Ids), pu : 0..Max(Ids)]
      /\ Numbers(ev).U = ev.U /\ Numbers(ev).u = ev.u /\ Numbers(ev).pu = ev.pu
  BY <1>3 DEF Numbers
<1> QED
  BY <1>1, <1>4 DEF Protocol!BoundedEvent

(* So is the id of a snapshot. *)
LEMMA SnapshotsAreBounded ==
  ASSUME NEW s \in Snapshots
  PROVE  s.lastUpdateId \in 0..Max(Ids)
<1> DEFINE top == Max(Ids)
<1>1. Ids \in SUBSET Nat /\ s.lastUpdateId \in Ids /\ s.lastUpdateId \in Nat
  BY EventFields DEF Ids
<1>2. top \in Nat /\ s.lastUpdateId <= top
  BY <1>1, NumberingAssumption, FiniteMaxIsGreatest DEF NumberingAssumption
<1> HIDE DEF top
<1>3. s.lastUpdateId \in Nat
  BY <1>1
<1>4. s.lastUpdateId \in 0..top
  BY <1>2, <1>3
<1> QED
  BY <1>4 DEF top

(* The buffer's numbers, one for each event, in order. *)
LEMMA NumbersInOrder ==
  ASSUME NEW buf \in Seq(Events)
  PROVE  /\ NumbersOf(buf) \in Seq(Protocol!BoundedEvent)
         /\ Len(NumbersOf(buf)) = Len(buf)
         /\ \A i \in 1..Len(buf) : NumbersOf(buf)[i] = Numbers(buf[i])
<1>1. Len(buf) \in Nat /\ DOMAIN buf = 1..Len(buf)
  OBVIOUS
<1> DEFINE B == Protocol!BoundedEvent
           n == Len(buf)
<1>2. \A i \in 1..n : Numbers(buf[i]) \in B
  BY EventsAreBounded
<1>3. NumbersOf(buf) = [i \in 1..n |-> Numbers(buf[i])]
  BY <1>1 DEF NumbersOf
<1> HIDE DEF B, n
<1>4. /\ NumbersOf(buf) \in Seq(B) /\ Len(NumbersOf(buf)) = n
      /\ \A i \in 1..n : NumbersOf(buf)[i] = Numbers(buf[i])
  BY <1>1, <1>2, <1>3 DEF n
<1> QED
  BY <1>4 DEF B, n

(* An empty buffer has none. *)
LEMMA NoNumbers == NumbersOf(<<>>) = <<>>
<1>1. <<>> \in Seq(Events)
  OBVIOUS
<1> DEFINE none == <<>>
<1>2. NumbersOf(none) \in Seq(Protocol!BoundedEvent) /\ Len(NumbersOf(none)) = Len(none)
  <2> HIDE DEF none
  <2> QED
    BY <1>1, NumbersInOrder DEF none
<1>3. \A E : \A seq \in Seq(E) : Len(seq) = 0 => seq = <<>>
  OBVIOUS
<1> QED
  BY <1>2, <1>3

(* Buffering an event buffers its numbers. *)
LEMMA NumbersOfPush ==
  ASSUME NEW buf \in Seq(Events), NEW ev \in Events
  PROVE  NumbersOf(Push(buf, ev)) = Protocol!Push(NumbersOf(buf), Numbers(ev))
<1> DEFINE B == Protocol!BoundedEvent
           kept == IF Len(buf) >= BufferMax THEN Tail(buf) ELSE buf
           seen == NumbersOf(buf)
           keptSeen == IF Len(seen) >= BufferMax THEN Tail(seen) ELSE seen
<1>1. /\ seen \in Seq(B) /\ Len(seen) = Len(buf)
      /\ \A i \in 1..Len(buf) : seen[i] = Numbers(buf[i])
  BY NumbersInOrder
<1>2. Numbers(ev) \in B
  BY EventsAreBounded
<1>3. kept \in Seq(Events) /\ Push(buf, ev) = Append(kept, ev)
  BY BufferMaxAssumption DEF Push
<1>4. Protocol!Push(seen, Numbers(ev)) = Append(keptSeen, Numbers(ev))
  BY DEF Protocol!Push
<1> HIDE DEF seen, B
<1>5. keptSeen \in Seq(B) /\ Len(keptSeen) = Len(kept)
  BY <1>1, BufferMaxAssumption
<1>6. \A i \in 1..Len(kept) : keptSeen[i] = Numbers(kept[i])
  BY <1>1, BufferMaxAssumption
<1> HIDE DEF kept, keptSeen
<1> DEFINE longer == Append(kept, ev)
           pushed == NumbersOf(longer)
           pushedSeen == Append(keptSeen, Numbers(ev))
<1>7. longer \in Seq(Events) /\ Len(longer) = Len(kept) + 1
  BY <1>3
<1>8. /\ pushed \in Seq(B) /\ Len(pushed) = Len(kept) + 1
      /\ \A i \in 1..(Len(kept) + 1) : pushed[i] = Numbers(longer[i])
  <2> HIDE DEF longer
  <2>1. /\ pushed \in Seq(B) /\ Len(pushed) = Len(longer)
        /\ \A i \in 1..Len(longer) : pushed[i] = Numbers(longer[i])
    BY <1>7, NumbersInOrder DEF B
  <2> QED
    BY <1>7, <2>1
<1>9. /\ pushedSeen \in Seq(B) /\ Len(pushedSeen) = Len(kept) + 1
      /\ \A i \in 1..(Len(kept) + 1) : pushedSeen[i] = Numbers(longer[i])
  BY <1>2, <1>3, <1>5, <1>6
<1>10. pushed = pushedSeen
  <2> HIDE DEF pushed, pushedSeen
  <2> QED
    BY <1>8, <1>9
<1>11. NumbersOf(Push(buf, ev)) = pushed
  BY <1>3
<1>12. Protocol!Push(NumbersOf(buf), Numbers(ev)) = pushedSeen
  BY <1>4 DEF seen
<1> QED
  BY <1>10, <1>11, <1>12

(* The protocol replays a buffer's numbers as the book replays the buffer. *)
LEMMA NumbersReplayAlike ==
  ASSUME NEW buf \in Seq(Events), NEW lui
  PROVE  /\ Protocol!Breaks(NumbersOf(buf), lui) = Breaks(buf, lui)
         /\ Protocol!Replayed(NumbersOf(buf), lui) = Replayed(buf, lui)
         /\ Protocol!ReplayedTo(NumbersOf(buf), lui) = ReplayedTo(buf, lui)
<1> DEFINE seen == NumbersOf(buf)
<1>1. /\ seen \in Seq(Protocol!BoundedEvent) /\ Len(seen) = Len(buf)
      /\ \A i \in 1..Len(buf) : seen[i].U = buf[i].U /\ seen[i].u = buf[i].u
                                /\ seen[i].pu = buf[i].pu
  <2>1. \A ev : Numbers(ev).U = ev.U /\ Numbers(ev).u = ev.u /\ Numbers(ev).pu = ev.pu
    BY DEF Numbers
  <2> QED
    BY <2>1, NumbersInOrder
<1>2. /\ Breaks(seen, lui) = Breaks(buf, lui)
      /\ Replayed(seen, lui) = Replayed(buf, lui)
      /\ ReplayedTo(seen, lui) = ReplayedTo(buf, lui)
  <2> HIDE DEF seen
  <2> QED
    BY <1>1, SameIdsReplayAlike
<1>3. Protocol!Breaks(seen, lui) = Breaks(seen, lui)
  BY DEF Protocol!Breaks, Breaks, Protocol!Replayable, Replayable, Protocol!Adjacent, Adjacent
<1>4. Protocol!Replayed(seen, lui) = Replayed(seen, lui)
  BY <1>3 DEF Protocol!Replayed, Replayed, Protocol!Replayable, Replayable
<1>5. Protocol!ReplayedTo(seen, lui) = ReplayedTo(seen, lui)
  BY <1>4 DEF Protocol!ReplayedTo, ReplayedTo, Protocol!Max, Max
<1> QED
  BY <1>2, <1>3, <1>4, <1>5
(* A book of the protocol. *)
ProtocolBook(s, l, buf, n, g) ==
  [state |-> s, last_update_id |-> l, buffer |-> buf, need_first_event |-> n,
   gap_count |-> g]

(* The book of this module is one, now and after a step. *)
LEMMA BookSeen ==
  /\ protocolBook = ProtocolBook(state, last_update_id, NumbersOf(buffer),
                                 need_first_event, gap_count)
  /\ protocolBook' = ProtocolBook(state', last_update_id', NumbersOf(buffer'),
                                  need_first_event', gap_count')
  /\ protocolBook.state = state /\ protocolBook.last_update_id = last_update_id
  /\ protocolBook.buffer = NumbersOf(buffer)
  /\ protocolBook.need_first_event = need_first_event
  /\ protocolBook.gap_count = gap_count
BY DEF protocolBook, ProtocolBook, NumbersOf, Numbers

(* What BookProtocol's updates make of it: an event is buffered, *)
LEMMA BookBuffers ==
  ASSUME NEW s, NEW buf
  PROVE  [protocolBook EXCEPT !.state = s, !.buffer = buf]
           = ProtocolBook(s, last_update_id, buf, need_first_event, gap_count)
<1>1. [protocolBook EXCEPT !.state = s]
        = ProtocolBook(s, last_update_id, NumbersOf(buffer), need_first_event, gap_count)
  BY DEF ProtocolBook, protocolBook
<1>2. [ProtocolBook(s, last_update_id, NumbersOf(buffer), need_first_event, gap_count) EXCEPT !.buffer = buf]
        = ProtocolBook(s, last_update_id, buf, need_first_event, gap_count)
  BY DEF ProtocolBook, protocolBook
<1> QED
  BY <1>1, <1>2

(* a gap is found, *)
LEMMA BookGaps ==
  ASSUME NEW s, NEW buf, NEW g
  PROVE  [protocolBook EXCEPT !.state = s, !.buffer = buf, !.gap_count = g]
           = ProtocolBook(s, last_update_id, buf, need_first_event, g)
<1>1. [protocolBook EXCEPT !.state = s]
        = ProtocolBook(s, last_update_id, NumbersOf(buffer), need_first_event, gap_count)
  BY DEF ProtocolBook, protocolBook
<1>2. [ProtocolBook(s, last_update_id, NumbersOf(buffer), need_first_event, gap_count) EXCEPT !.buffer = buf]
        = ProtocolBook(s, last_update_id, buf, need_first_event, gap_count)
  BY DEF ProtocolBook, protocolBook
<1>3. [ProtocolBook(s, last_update_id, buf, need_first_event, gap_count) EXCEPT !.gap_count = g]
        = ProtocolBook(s, last_update_id, buf, need_first_event, g)
  BY DEF ProtocolBook, protocolBook
<1> QED
  BY <1>1, <1>2, <1>3

(* an event or a snapshot is applied, *)
LEMMA BookMoves ==
  ASSUME NEW s, NEW l, NEW n, NEW buf
  PROVE  [protocolBook EXCEPT !.state = s, !.last_update_id = l, !.need_first_event = n, !.buffer = buf]
           = ProtocolBook(s, l, buf, n, gap_count)
<1>1. [protocolBook EXCEPT !.state = s]
        = ProtocolBook(s, last_update_id, NumbersOf(buffer), need_first_event, gap_count)
  BY DEF ProtocolBook, protocolBook
<1>2. [ProtocolBook(s, last_update_id, NumbersOf(buffer), need_first_event, gap_count) EXCEPT !.last_update_id = l]
        = ProtocolBook(s, l, NumbersOf(buffer), need_first_event, gap_count)
  BY DEF ProtocolBook, protocolBook
<1>3. [ProtocolBook(s, l, NumbersOf(buffer), need_first_event, gap_count) EXCEPT !.need_first_event = n]
        = ProtocolBook(s, l, NumbersOf(buffer), n, gap_count)
  BY DEF ProtocolBook, protocolBook
<1>4. [ProtocolBook(s, l, NumbersOf(buffer), n, gap_count) EXCEPT !.buffer = buf]
        = ProtocolBook(s, l, buf, n, gap_count)
  BY DEF ProtocolBook, protocolBook
<1> QED
  BY <1>1, <1>2, <1>3, <1>4

(* a snapshot is rejected, *)
LEMMA BookDrains ==
  ASSUME NEW l, NEW buf
  PROVE  [protocolBook EXCEPT !.last_update_id = l, !.buffer = buf]
           = ProtocolBook(state, l, buf, need_first_event, gap_count)
<1>1. [protocolBook EXCEPT !.last_update_id = l]
        = ProtocolBook(state, l, NumbersOf(buffer), need_first_event, gap_count)
  BY DEF ProtocolBook, protocolBook
<1>2. [ProtocolBook(state, l, NumbersOf(buffer), need_first_event, gap_count) EXCEPT !.buffer = buf]
        = ProtocolBook(state, l, buf, need_first_event, gap_count)
  BY DEF ProtocolBook, protocolBook
<1> QED
  BY <1>1, <1>2

(* or the book is cleared. *)
LEMMA BookClears ==
  ASSUME NEW s, NEW g
  PROVE  /\ [Protocol!NewBook EXCEPT !.gap_count = g]
              = ProtocolBook("uninitialized", 0, <<>>, FALSE, g)
         /\ [Protocol!NewBook EXCEPT !.gap_count = g, !.state = s]
              = ProtocolBook(s, 0, <<>>, FALSE, g)
<1> DEFINE blank == "uninitialized"
           zero == 0
           none == <<>>
           no == FALSE
<1>1. Protocol!NewBook = ProtocolBook(blank, zero, none, no, zero)
  BY DEF Protocol!NewBook, ProtocolBook
<1> HIDE DEF blank, zero, none, no
<1>2. [ProtocolBook(blank, zero, none, no, zero) EXCEPT !.gap_count = g]
        = ProtocolBook(blank, zero, none, no, g)
  BY DEF ProtocolBook
<1>3. [ProtocolBook(blank, zero, none, no, g) EXCEPT !.state = s]
        = ProtocolBook(s, zero, none, no, g)
  BY DEF ProtocolBook
<1>4. /\ [Protocol!NewBook EXCEPT !.gap_count = g] = ProtocolBook(blank, zero, none, no, g)
      /\ [Protocol!NewBook EXCEPT !.gap_count = g, !.state = s]
           = ProtocolBook(s, zero, none, no, g)
  BY <1>1, <1>2, <1>3
<1> QED
  BY <1>4 DEF blank, zero, none, no

(* A diff takes the protocol's step for its numbers. *)
LEMMA DepthFollows ==
  ASSUME TypeOK, NEW ev \in Events, OnDepth(ev), WithinBounds
  PROVE  Protocol!Next
<1> DEFINE ids == Numbers(ev)
<1>1. /\ ids \in Protocol!BoundedEvent
      /\ ids.U = ev.U /\ ids.u = ev.u /\ ids.pu = ev.pu
  BY EventsAreBounded DEF Numbers
<1>2. gap_count < MaxTroubles
  BY BookAssumption DEF BookAssumption, WithinBounds, TypeOK
<1>3. SUFFICES \E sound \in BOOLEAN, ret \in Protocol!Action :
                 Protocol!OnDepth(ids, sound, ret)
  BY <1>1, <1>2, BookSeen DEF Protocol!Next
<1> HIDE DEF ids
<1>4. NumbersOf(<<ev>>) = <<ids>>
  <2>1. /\ <<ev>> \in Seq(Events)
        /\ NumbersOf(<<ev>>) \in Seq(Protocol!BoundedEvent)
        /\ Len(NumbersOf(<<ev>>)) = 1 /\ NumbersOf(<<ev>>)[1] = ids
    <3> DEFINE one == <<ev>>
    <3>1. one \in Seq(Events) /\ Len(one) = 1 /\ one[1] = ev
      OBVIOUS
    <3> HIDE DEF one
    <3>2. /\ NumbersOf(one) \in Seq(Protocol!BoundedEvent)
          /\ Len(NumbersOf(one)) = 1 /\ NumbersOf(one)[1] = ids
      BY <3>1, NumbersInOrder DEF ids
    <3> QED
      BY <3>1, <3>2 DEF one
  <2> QED
    BY <2>1
<1>5. CASE BufferDepth(ev)
  <2> DEFINE ret == IF state = "uninitialized" THEN "need_snapshot" ELSE "none"
  <2>1. Protocol!BufferDepth(ids, ret)
    <3>1. NumbersOf(buffer') = Protocol!Push(NumbersOf(buffer), ids)
      BY <1>5, NumbersOfPush DEF BufferDepth, TypeOK, ids
    <3>2. [protocolBook EXCEPT !.state = "buffering", !.buffer = NumbersOf(buffer')]
            = ProtocolBook("buffering", last_update_id, NumbersOf(buffer'),
                           need_first_event, gap_count)
      BY BookBuffers
    <3>3. protocolBook' = ProtocolBook("buffering", last_update_id, NumbersOf(buffer'),
                                       need_first_event, gap_count)
      BY <1>5, BookSeen DEF BufferDepth
    <3>4. protocolBook' = [protocolBook EXCEPT !.state = "buffering",
                                        !.buffer = Protocol!Push(protocolBook.buffer, ids)]
      BY <3>1, <3>2, <3>3, BookSeen, Zenon
    <3>5. state # "live" /\ protocolBook.state = state
      BY <1>5, BookSeen DEF BufferDepth
    <3> QED
      BY <3>4, <3>5 DEF Protocol!BufferDepth
  <2>2. ret \in Protocol!Action
    BY DEF Protocol!Action
  <2> HIDE DEF ret
  <2> QED
    BY <2>1, <2>2 DEF Protocol!OnDepth
<1>6. CASE IgnoreDepth(ev)
  <2>1. Protocol!IgnoreDepth(ids, "none")
    BY <1>1, <1>6, BookSeen DEF IgnoreDepth, Protocol!IgnoreDepth, vars, counters
  <2> QED
    BY <2>1 DEF Protocol!OnDepth, Protocol!Action
<1>7. CASE GapDepth(ev)
  <2>1. Protocol!GapDepth(ids, "need_snapshot")
    <3>1. [protocolBook EXCEPT !.state = "buffering", !.buffer = <<ids>>,
                               !.gap_count = gap_count + 1]
            = ProtocolBook("buffering", last_update_id, <<ids>>, need_first_event,
                           gap_count + 1)
      BY BookGaps
    <3>2. protocolBook' = ProtocolBook("buffering", last_update_id, <<ids>>,
                                       need_first_event, gap_count + 1)
      BY <1>4, <1>7, BookSeen DEF GapDepth, FallBack
    <3>3. protocolBook' = [protocolBook EXCEPT !.state = "buffering", !.buffer = <<ids>>,
                                               !.gap_count = protocolBook.gap_count + 1]
      BY <3>1, <3>2, BookSeen, Zenon
    <3>4. /\ protocolBook.state = "live" /\ ids.u > protocolBook.last_update_id
          /\ ~protocolBook.need_first_event /\ ids.pu # protocolBook.last_update_id
      BY <1>1, <1>7, BookSeen DEF GapDepth, Continues
    <3> QED
      BY <3>3, <3>4 DEF Protocol!GapDepth
  <2> QED
    BY <2>1 DEF Protocol!OnDepth, Protocol!Action
<1>8. CASE ApplyDepth(ev)
  <2>1. Protocol!Accepts(ids)
    BY <1>1, <1>8, BookSeen DEF ApplyDepth, Continues, Protocol!Accepts
  <2>2. CASE UNCHANGED <<state, buffer>>
    <3>1. Protocol!ApplyDepth(ids, TRUE, "publish")
      <4>1. [protocolBook EXCEPT !.state = "live", !.last_update_id = ids.u,
                                 !.need_first_event = FALSE, !.buffer = NumbersOf(buffer)]
              = ProtocolBook("live", ids.u, NumbersOf(buffer), FALSE, gap_count)
        BY BookMoves
      <4>2. protocolBook' = ProtocolBook("live", ids.u, NumbersOf(buffer), FALSE, gap_count)
        BY <1>1, <1>8, <2>2, BookSeen DEF ApplyDepth
      <4>3. protocolBook' = [protocolBook EXCEPT !.state = "live", !.last_update_id = ids.u,
                                                 !.need_first_event = FALSE,
                                                 !.buffer = protocolBook.buffer]
        BY <4>1, <4>2, BookSeen, Zenon
      <4> QED
        BY <2>1, <4>3 DEF Protocol!ApplyDepth
    <3> QED
      BY <3>1 DEF Protocol!OnDepth, Protocol!Action
  <2>3. CASE FallBack(ev)
    <3>1. Protocol!ApplyDepth(ids, FALSE, "need_snapshot")
      <4>1. [protocolBook EXCEPT !.state = "buffering", !.last_update_id = ids.u,
                                 !.need_first_event = FALSE, !.buffer = <<ids>>]
              = ProtocolBook("buffering", ids.u, <<ids>>, FALSE, gap_count)
        BY BookMoves
      <4>2. protocolBook' = ProtocolBook("buffering", ids.u, <<ids>>, FALSE, gap_count)
        BY <1>1, <1>4, <1>8, <2>3, BookSeen DEF ApplyDepth, FallBack
      <4>3. protocolBook' = [protocolBook EXCEPT !.state = "buffering",
                                                 !.last_update_id = ids.u,
                                                 !.need_first_event = FALSE,
                                                 !.buffer = <<ids>>]
        BY <4>1, <4>2, Zenon
      <4> QED
        BY <2>1, <4>3 DEF Protocol!ApplyDepth
    <3> QED
      BY <3>1 DEF Protocol!OnDepth, Protocol!Action
  <2> QED
    BY <1>8, <2>2, <2>3 DEF ApplyDepth
<1> QED
  BY <1>5, <1>6, <1>7, <1>8 DEF OnDepth

(* A snapshot takes the protocol's step for its id. *)
LEMMA SnapshotFollows ==
  ASSUME TypeOK, NEW s \in Snapshots, OnSnapshot(s)
  PROVE  Protocol!Next
<1> DEFINE lui == s.lastUpdateId
<1>1. SUFFICES \E sound \in BOOLEAN, ret \in BOOLEAN : Protocol!OnSnapshot(lui, sound, ret)
  BY SnapshotsAreBounded DEF Protocol!Next
<1> HIDE DEF lui
<1>2. CASE UnwantedSnapshot(s)
  <2>1. Protocol!UnwantedSnapshot(TRUE)
    BY <1>2, BookSeen DEF UnwantedSnapshot, Protocol!UnwantedSnapshot, vars, counters
  <2> QED
    BY <2>1 DEF Protocol!OnSnapshot
<1>3. /\ Protocol!Breaks(NumbersOf(buffer), lui) = Breaks(buffer, lui)
      /\ Protocol!Replayed(NumbersOf(buffer), lui) = Replayed(buffer, lui)
      /\ Protocol!ReplayedTo(NumbersOf(buffer), lui) = ReplayedTo(buffer, lui)
  BY NumbersReplayAlike DEF TypeOK
<1>4. ASSUME LoadSnapshot(s)
      PROVE  /\ state = "buffering" /\ last_update_id' = ReplayedTo(buffer, lui)
             /\ NumbersOf(buffer') = <<>> /\ UNCHANGED gap_count
  BY <1>4, NoNumbers DEF LoadSnapshot, lui
<1>5. CASE RejectSnapshot(s)
  <2>1. Breaks(buffer, lui) # {} /\ UNCHANGED <<state, need_first_event>>
    BY <1>5 DEF RejectSnapshot, lui
  <2>2. Protocol!RejectSnapshot(lui, FALSE)
    <3> DEFINE to == ReplayedTo(buffer, lui)
    <3>1. [protocolBook EXCEPT !.last_update_id = to, !.buffer = <<>>]
            = ProtocolBook(state, to, <<>>, need_first_event, gap_count)
      BY BookDrains
    <3>2. LoadSnapshot(s)
      BY <1>5 DEF RejectSnapshot
    <3>3. protocolBook' = ProtocolBook(state, to, <<>>, need_first_event, gap_count)
      BY <1>4, <2>1, <3>2, BookSeen
    <3>4. /\ protocolBook.state = "buffering"
          /\ Protocol!Breaks(protocolBook.buffer, lui) # {}
          /\ Protocol!ReplayedTo(protocolBook.buffer, lui) = to
      BY <1>3, <1>4, <2>1, <3>2, BookSeen
    <3>5. protocolBook' = [protocolBook EXCEPT !.last_update_id = to, !.buffer = <<>>]
      BY <3>1, <3>3, Zenon
    <3> HIDE DEF to
    <3> QED
      BY <3>4, <3>5 DEF Protocol!RejectSnapshot
  <2> QED
    BY <2>2 DEF Protocol!OnSnapshot
<1>6. CASE ApplySnapshot(s)
  <2> DEFINE sound == Sound(bids', asks', 0)
  <2>1. /\ Breaks(buffer, lui) = {}
        /\ need_first_event' = (Replayed(buffer, lui) = {})
        /\ state' = IF sound THEN "live" ELSE "buffering"
    BY <1>6 DEF ApplySnapshot, lui
  <2> DEFINE to == ReplayedTo(buffer, lui)
             fresh == (Replayed(buffer, lui) = {})
             verdict == IF sound THEN "live" ELSE "buffering"
  <2>2. LoadSnapshot(s)
    BY <1>6 DEF ApplySnapshot
  <2>3. /\ protocolBook.state = "buffering"
        /\ Protocol!Breaks(protocolBook.buffer, lui) = {}
        /\ Protocol!ReplayedTo(protocolBook.buffer, lui) = to
        /\ Protocol!Replayed(protocolBook.buffer, lui) = Replayed(buffer, lui)
    BY <1>3, <1>4, <2>1, <2>2, BookSeen
  <2>4. protocolBook' = ProtocolBook(verdict, to, <<>>, fresh, gap_count)
    BY <1>4, <2>1, <2>2, BookSeen
  <2>5. [protocolBook EXCEPT !.state = verdict, !.last_update_id = to,
                             !.need_first_event = fresh, !.buffer = <<>>]
          = ProtocolBook(verdict, to, <<>>, fresh, gap_count)
    <3> HIDE DEF to, fresh, verdict
    <3> QED
      BY BookMoves
  <2>6. protocolBook' = [protocolBook EXCEPT !.state = verdict, !.last_update_id = to,
                                             !.need_first_event = fresh, !.buffer = <<>>]
    <3> HIDE DEF to, fresh, verdict
    <3> QED
      BY <2>4, <2>5, Zenon
  <2>7. Protocol!ApplySnapshot(lui, sound, sound)
    <3> HIDE DEF sound, to
    <3> QED
      BY <2>3, <2>6 DEF Protocol!ApplySnapshot
  <2>8. sound \in BOOLEAN
    BY DEF Sound
  <2> HIDE DEF sound
  <2> QED
    BY <2>7, <2>8 DEF Protocol!OnSnapshot
<1> QED
  BY <1>2, <1>5, <1>6 DEF OnSnapshot

(* A clearing is the protocol's, and a ticker is nothing to it. *)
LEMMA OtherFollows ==
  ASSUME (\E t \in Tickers : SetTickerBbo(t)) \/ Reset \/ MarkForResync
  PROVE  [Protocol!Next]_protocolBook
<1>1. CASE \E t \in Tickers : SetTickerBbo(t)
  BY <1>1, BookSeen DEF SetTickerBbo, counters
<1>2. CASE Reset
  <2>1. Protocol!Reset
    <3>1. protocolBook' = ProtocolBook("uninitialized", 0, <<>>, FALSE, gap_count)
      BY <1>2, NoNumbers, BookSeen DEF Reset, Cleared, counters
    <3>2. [Protocol!NewBook EXCEPT !.gap_count = gap_count]
            = ProtocolBook("uninitialized", 0, <<>>, FALSE, gap_count)
      BY BookClears
    <3>3. protocolBook' = [Protocol!NewBook EXCEPT !.gap_count = protocolBook.gap_count]
      BY <3>1, <3>2, BookSeen, Zenon
    <3> QED
      BY <3>3 DEF Protocol!Reset
  <2> QED
    BY <2>1 DEF Protocol!Next
<1>3. CASE MarkForResync
  <2>1. Protocol!MarkForResync
    <3>1. protocolBook' = ProtocolBook("buffering", 0, <<>>, FALSE, gap_count)
      BY <1>3, NoNumbers, BookSeen DEF MarkForResync, Cleared, counters
    <3>2. [Protocol!NewBook EXCEPT !.gap_count = gap_count, !.state = "buffering"]
            = ProtocolBook("buffering", 0, <<>>, FALSE, gap_count)
      BY BookClears
    <3>3. protocolBook' = [Protocol!NewBook EXCEPT !.gap_count = protocolBook.gap_count,
                                                   !.state = "buffering"]
      BY <3>1, <3>2, BookSeen, Zenon
    <3> QED
      BY <3>3 DEF Protocol!MarkForResync
  <2> QED
    BY <2>1 DEF Protocol!Next
<1> QED
  BY <1>1, <1>2, <1>3

(* The book with its levels, ticker and counters implements the            *)
(* sequence-number protocol that BookSync runs between the tasks of the    *)
(* feed handler: what check_integrity looks at only ever decides the       *)
(* verdict, so what is shown of the protocol holds of the whole book.      *)
THEOREM FollowsProtocol == Spec => ImplementsProtocol
<1>1. Init => Protocol!BookInit
  BY NoNumbers, BookSeen DEF Init, Protocol!BookInit, Protocol!NewBook, ProtocolBook
<1>2. TypeOK /\ [Next]_vars => [Protocol!Next]_protocolBook
  <2> SUFFICES ASSUME TypeOK, [Next]_vars PROVE [Protocol!Next]_protocolBook
    OBVIOUS
  <2>1. CASE UNCHANGED vars
    BY <2>1, BookSeen DEF vars, counters
  <2> QED
    BY <2>1, DepthFollows, SnapshotFollows, OtherFollows DEF Next
<1> QED
  BY <1>1, <1>2, TypeCorrect, PTL DEF Spec, ImplementsProtocol, Protocol!Spec
=============================================================================
