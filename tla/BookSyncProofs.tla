--------------------------- MODULE BookSyncProofs ---------------------------
(***************************************************************************)
(* BookSync and PySync for every number of tasks, updates, faults and      *)
(* buffer slots: the types of a book, that a proven book has no hole, that *)
(* a waiting book always has somebody fetching its snapshot, and that      *)
(* every gap is a loss, in Python but for one with each lost connection;   *)
(* then what is shown to the outside: a proven book is an exact copy of    *)
(* the venue's, what is published moves forward only, and, in Rust, fresh  *)
(* snapshots leave no hole in a book not both swept and disconnected.      *)
(***************************************************************************)
EXTENDS PySync, ReplayProofs

(* StreamEvent is narrower than Event; short sequences of either fit the   *)
(* buffer.                                                                 *)
LEMMA EventSeqs ==
  /\ StreamEvent \subseteq Event
  /\ <<>> \in Seq(Event) /\ <<>> \in Seq(StreamEvent)
  /\ \A ev \in Event : <<ev>> \in Seq(Event)
  /\ \A ev \in StreamEvent : <<ev>> \in Seq(StreamEvent)
  /\ Len(<<>>) <= BufferMax /\ \A ev \in Event : Len(<<ev>>) <= BufferMax
<1>1. StreamEvent \subseteq Event
  BY DEF StreamEvent, Event
<1>2. BufferMax \in Nat /\ 1 <= BufferMax
  BY BufferMaxAssumption
<1>3. Len(<<>>) <= BufferMax /\ \A ev \in Event : Len(<<ev>>) <= BufferMax
  BY <1>2
<1> QED
  BY <1>1, <1>3

(* A depth event leaves a well-typed book, whatever the book does with it. *)
LEMMA DepthTypes ==
  ASSUME BookTypeOK, NEW ev \in Event, NEW ret,
         \/ BufferDepth(ev, ret) \/ IgnoreDepth(ev, ret) \/ GapDepth(ev, ret)
         \/ \E sound \in BOOLEAN : ApplyDepth(ev, sound, ret)
  PROVE  BookTypeOK'
<1>1. CASE BufferDepth(ev, ret)
  <2>1. Push(book.buffer, ev) \in Seq(Event) /\ Len(Push(book.buffer, ev)) <= BufferMax
    BY PushType DEF BookTypeOK
  <2> QED
    BY <1>1, <2>1 DEF BookTypeOK, BufferDepth, BookState
<1>2. CASE IgnoreDepth(ev, ret)
  BY <1>2 DEF BookTypeOK, IgnoreDepth
<1>3. CASE GapDepth(ev, ret)
  <2>1. <<ev>> \in Seq(Event) /\ Len(<<ev>>) <= BufferMax
    BY EventSeqs
  <2>2. book.gap_count + 1 \in Nat
    BY DEF BookTypeOK
  <2>3. book' = [book EXCEPT !.state = "buffering", !.buffer = <<ev>>,
                             !.gap_count = @ + 1]
    BY <1>3 DEF GapDepth
  <2> HIDE <1>3
  <2> QED
    BY <2>1, <2>2, <2>3 DEF BookTypeOK, BookState
<1>4. ASSUME NEW sound \in BOOLEAN, ApplyDepth(ev, sound, ret) PROVE BookTypeOK'
  <2>1. ev.u \in Nat
    BY DEF Event
  <2>2. CASE sound
    BY <1>4, <2>1, <2>2 DEF BookTypeOK, ApplyDepth, BookState
  <2>3. CASE ~sound
    BY <1>4, <2>1, <2>3, EventSeqs DEF BookTypeOK, ApplyDepth, BookState
  <2> QED
    BY <2>2, <2>3
<1> QED
  BY <1>1, <1>2, <1>3, <1>4

(* So does a snapshot; events in the buffer are all the stream's. *)
LEMMA SnapshotTypes ==
  ASSUME BookTypeOK, book.buffer \in Seq(StreamEvent), NEW lui \in Nat, NEW ret,
         \/ UnwantedSnapshot(ret) \/ RejectSnapshot(lui, ret)
         \/ \E sound \in BOOLEAN : ApplySnapshot(lui, sound, ret)
  PROVE  BookTypeOK' /\ book'.buffer \in Seq(StreamEvent)
<1>1. ReplayedTo(book.buffer, lui) \in Nat
  BY ReplayedToType
<1>2. CASE UnwantedSnapshot(ret)
  BY <1>2 DEF BookTypeOK, UnwantedSnapshot
<1>3. CASE RejectSnapshot(lui, ret)
  BY <1>1, <1>3, EventSeqs DEF BookTypeOK, RejectSnapshot, BookState
<1>4. ASSUME NEW sound \in BOOLEAN, ApplySnapshot(lui, sound, ret)
      PROVE  BookTypeOK' /\ book'.buffer \in Seq(StreamEvent)
  <2>1. (Replayed(book.buffer, lui) = {}) \in BOOLEAN
    OBVIOUS
  <2> QED
    BY <1>1, <1>4, <2>1, EventSeqs DEF BookTypeOK, ApplySnapshot, BookState
<1> QED
  BY <1>2, <1>3, <1>4

-----------------------------------------------------------------------------
(* Types, with every event a StreamEvent. *)
Typed == TypeOK /\ StreamOK

(* A step of the program in Rust or in Python. *)
EitherNext == Next \/ CleanClose

EitherSpec == Init /\ [][EitherNext]_vars

(* What is proved of EitherSpec is so of both programs. *)
LEMMA BothAreEither == (Spec => EitherSpec) /\ (PySpec => EitherSpec)
<1>1. [Next]_vars => [EitherNext]_vars
  BY DEF EitherNext
<1>2. [PyNext]_vars => [EitherNext]_vars
  BY DEF PyNext, PyShard, PySyncTask, PySweeper, EitherNext, Next, Shard, Sync, Sweeper
<1> QED
  BY <1>1, <1>2, PTL DEF Spec, PySpec, EitherSpec

(* Nothing is buffered or on its way at the start. *)
LEMMA InitTyped == Init => Typed
<1> SUFFICES ASSUME Init PROVE Typed
  OBVIOUS
<1>1. BookTypeOK /\ book.buffer = <<>>
  BY EventSeqs DEF Init, BookInit, BookTypeOK, NewBook, BookState
<1>2. task \in [Tasks -> SyncTask]
  BY DEF Init, Idle, SyncTask
<1> QED
  BY <1>1, <1>2, EventSeqs DEF Init, Typed, TypeOK, StreamOK

(* What the venue sends continues its stream. *)
LEMMA VenueTyped == ASSUME Typed, Venue PROVE Typed'
<1> USE DEF Typed, TypeOK, StreamOK, BookTypeOK, venue, counts, bookVars
<1>1. CASE Tick
  BY <1>1 DEF Tick
<1>2. CASE Emit
  <2>1. CASE Streaming
    <3> DEFINE ev == [U |-> emitted + 1, u |-> vnow, pu |-> emitted]
    <3>1. ev \in StreamEvent /\ ev \in Event
      BY <1>2 DEF Emit, StreamEvent, Event
    <3>2. wire' = Append(wire, ev)
      BY <1>2, <2>1 DEF Emit
    <3> HIDE DEF ev
    <3>3. wire' \in Seq(StreamEvent) /\ wire' \in Seq(Event)
      BY <3>1, <3>2
    <3> QED
      BY <1>2, <3>3 DEF Emit
  <2>2. CASE ~Streaming
    BY <1>2, <2>2 DEF Emit
  <2> QED
    BY <2>1, <2>2
<1>3. CASE Skip
  BY <1>3 DEF Skip
<1> QED
  BY <1>1, <1>2, <1>3 DEF Venue

(* Either verdict of check_integrity keeps the count of refusals a natural. *)
LEMMA VerdictType ==
  ASSUME unsound \in Nat, NEW sound \in BOOLEAN, Verdict(sound)
  PROVE  unsound' \in Nat
<1>1. CASE sound
  BY <1>1 DEF Verdict
<1>2. CASE ~sound
  BY <1>2 DEF Verdict
<1> QED
  BY <1>1, <1>2

(* What an operation on the book changes is well typed again. *)
LEMMA TakeDepthTyped ==
  ASSUME Typed, NEW ev \in StreamEvent, NEW ret, TakeDepth(ev, ret)
  PROVE  /\ BookTypeOK' /\ book'.buffer \in Seq(StreamEvent)
         /\ have' \subseteq Nat /\ unsound' \in Nat
         /\ UNCHANGED <<proven, stranded>>
<1>1. BookTypeOK'
  BY DepthTypes, EventSeqs DEF Typed, TypeOK, TakeDepth
<1>2. CASE BufferDepth(ev, ret) /\ UNCHANGED <<have, proven, stranded, unsound>>
  <2>1. Push(book.buffer, ev) \in Seq(StreamEvent)
    BY PushType DEF Typed, StreamOK
  <2> QED
    BY <1>1, <1>2, <2>1 DEF Typed, TypeOK, BufferDepth, BookTypeOK
<1>3. CASE IgnoreDepth(ev, ret) /\ UNCHANGED <<have, proven, stranded, unsound>>
  BY <1>1, <1>3 DEF Typed, TypeOK, StreamOK, IgnoreDepth
<1>4. CASE GapDepth(ev, ret) /\ UNCHANGED <<have, proven, stranded, unsound>>
  <2>1. <<ev>> \in Seq(StreamEvent)
    BY EventSeqs
  <2> QED
    BY <1>1, <1>4, <2>1 DEF Typed, TypeOK, GapDepth, BookTypeOK
<1>5. ASSUME NEW sound \in BOOLEAN, ApplyDepth(ev, sound, ret),
             have' = have \cup Covered(ev), UNCHANGED <<proven, stranded>>,
             Verdict(sound)
      PROVE  /\ book'.buffer \in Seq(StreamEvent)
             /\ have' \subseteq Nat /\ unsound' \in Nat
             /\ UNCHANGED <<proven, stranded>>
  <2>1. <<ev>> \in Seq(StreamEvent)
    BY EventSeqs
  <2>2. book'.buffer \in Seq(StreamEvent)
    BY <1>5, <2>1 DEF Typed, TypeOK, StreamOK, ApplyDepth, BookTypeOK
  <2>3. Covered(ev) \subseteq Nat
    BY StreamEventIds DEF Covered
  <2>4. unsound' \in Nat
    BY <1>5, VerdictType DEF Typed, TypeOK
  <2> QED
    BY <1>5, <2>2, <2>3, <2>4 DEF Typed, TypeOK
<1> QED
  BY <1>1, <1>2, <1>3, <1>4, <1>5 DEF TakeDepth

(* Loaded is a set of naturals whatever the buffer holds. *)
LEMMA LoadedType ==
  ASSUME Typed, NEW lui \in Nat
  PROVE  Loaded(lui) \subseteq Nat
<1>1. \A i \in Replayed(book.buffer, lui) : book.buffer[i] \in StreamEvent
  BY ReplayableType DEF Typed, StreamOK
<1>2. \A i \in Replayed(book.buffer, lui) : Covered(book.buffer[i]) \subseteq Nat
  BY <1>1, StreamEventIds DEF Covered
<1>3. 1..lui \subseteq Nat
  OBVIOUS
<1> QED
  BY <1>2, <1>3 DEF Loaded

(* on_snapshot, its levels included, leaves well-typed state. *)
LEMMA TakeSnapshotTyped ==
  ASSUME Typed, NEW lui \in Nat, NEW ret, TakeSnapshot(lui, ret)
  PROVE  /\ BookTypeOK' /\ book'.buffer \in Seq(StreamEvent)
         /\ have' \subseteq Nat /\ proven' \in BOOLEAN /\ stranded' \in BOOLEAN
         /\ unsound' \in Nat
<1>1. BookTypeOK' /\ book'.buffer \in Seq(StreamEvent)
  BY SnapshotTypes DEF Typed, TypeOK, StreamOK, TakeSnapshot
<1>2. Loaded(lui) \subseteq Nat
  BY LoadedType
<1>3. \/ UNCHANGED <<have, proven, stranded, unsound>>
      \/ have' = Loaded(lui) /\ UNCHANGED <<proven, stranded, unsound>>
      \/ \E sound \in BOOLEAN :
           /\ have' = Loaded(lui)
           /\ proven' = (Replayed(book.buffer, lui) # {})
           /\ stranded' = (stranded /\ ~sound)
           /\ Verdict(sound)
  BY DEF TakeSnapshot
<1>4. have' \subseteq Nat
  BY <1>2, <1>3 DEF Typed, TypeOK
<1>5. proven' \in BOOLEAN
  <2>1. (Replayed(book.buffer, lui) # {}) \in BOOLEAN
    OBVIOUS
  <2> QED
    BY <1>3, <2>1 DEF Typed, TypeOK
<1>6. unsound' \in Nat
  <2>1. unsound \in Nat
    BY DEF Typed, TypeOK
  <2> QED
    BY <1>3, <2>1, VerdictType
<1>7. stranded' \in BOOLEAN
  <2>1. stranded \in BOOLEAN
    BY DEF Typed, TypeOK
  <2> QED
    BY <1>3, <2>1
<1> QED
  BY <1>1, <1>4, <1>5, <1>6, <1>7

(* reset and mark_for_resync do. *)
LEMMA ClearTyped ==
  ASSUME Typed, Reset \/ MarkForResync, Cleared
  PROVE  /\ BookTypeOK' /\ book'.buffer \in Seq(StreamEvent)
         /\ have' = {} /\ proven' = FALSE /\ stranded' = FALSE /\ unsound' = unsound
<1>1. book.gap_count \in Nat
  BY DEF Typed, TypeOK, BookTypeOK
<1>2. \E st \in {"uninitialized", "buffering"} :
        book' = [state |-> st, last_update_id |-> 0, buffer |-> <<>>,
                 need_first_event |-> FALSE, gap_count |-> book.gap_count]
  BY DEF Reset, MarkForResync, NewBook
<1> QED
  BY <1>1, <1>2, EventSeqs DEF Cleared, BookTypeOK, BookState

(* The tasks a step of one task, or of the shard, leaves. *)
LEMMA TaskTypes ==
  ASSUME Typed,
         NEW t \in Tasks,
         NEW r \in SyncTask
  PROVE  [task EXCEPT ![t] = r] \in [Tasks -> SyncTask]
BY DEF Typed, TypeOK

(* Each step of run_shard keeps the types. *)
LEMMA ShardTyped == ASSUME Typed, Shard PROVE Typed'
<1>1. CASE Connect
  BY <1>1 DEF Typed, TypeOK, StreamOK, BookTypeOK, Connect, venue, counts, bookVars
<1>2. CASE Read
  <2>1. Head(wire) \in StreamEvent /\ wire' \in Seq(StreamEvent) /\ wire' \in Seq(Event)
    BY <1>2 DEF Read, Typed, TypeOK, StreamOK
  <2>2. PICK ret \in Action :
          /\ TakeDepth(Head(wire), ret)
          /\ shard' = [publish |-> "publishing", need_snapshot |-> "requesting",
                       none |-> "reading"][ret]
    BY <1>2 DEF Read
  <2>3. /\ BookTypeOK' /\ book'.buffer \in Seq(StreamEvent)
        /\ have' \subseteq Nat /\ unsound' \in Nat
        /\ UNCHANGED <<proven, stranded>>
    BY <2>1, <2>2, TakeDepthTyped
  <2>4. shard' \in {"reading", "requesting", "publishing"}
    BY <2>2 DEF Action
  <2> QED
    BY <1>2, <2>1, <2>3, <2>4 DEF Read, Typed, TypeOK, StreamOK, venue
<1>3. CASE RequestSync
  <2>1. PICK t \in Tasks :
          /\ task' = [s \in Tasks |-> IF s = t THEN [Idle EXCEPT !.pc = "check"]
                                      ELSE IF s = handle THEN Idle ELSE task[s]]
          /\ handle' = t
    BY <1>3 DEF RequestSync
  <2>2. task' \in [Tasks -> SyncTask]
    BY <2>1 DEF Typed, TypeOK, Idle, SyncTask
  <2> QED
    BY <1>3, <2>1, <2>2 DEF RequestSync, Typed, TypeOK, StreamOK, BookTypeOK, venue,
       counts, bookVars
<1>4. CASE Publish
  BY <1>4 DEF Publish, Typed, TypeOK, StreamOK, BookTypeOK, venue, counts, bookVars
<1>5. CASE Disconnect
  BY <1>5, EventSeqs DEF Disconnect, Typed, TypeOK, StreamOK, BookTypeOK, venue, bookVars
<1>6. CASE ResetBook
  BY <1>6, ClearTyped DEF ResetBook, Typed, TypeOK, StreamOK, venue
<1>7. CASE AbortSyncs
  BY <1>7 DEF AbortSyncs, Typed, TypeOK, StreamOK, BookTypeOK, Idle, SyncTask, venue,
     counts, bookVars
<1>8. CASE ShardPanic
  BY <1>8, EventSeqs DEF ShardPanic, Typed, TypeOK, StreamOK, BookTypeOK, venue, bookVars
<1> QED
  BY <1>1, <1>2, <1>3, <1>4, <1>5, <1>6, <1>7, <1>8 DEF Shard

(* A task that dies takes nothing with it but its place. *)
LEMMA DiedTyped ==
  ASSUME Typed, NEW t \in Tasks, NEW r \in SyncTask,
         task' = [task EXCEPT ![t] = r], Died
  PROVE  Typed'
<1>1. task' \in [Tasks -> SyncTask]
  BY TaskTypes
<1>2. deaths' \in Nat
  BY DEF Died, Typed, TypeOK
<1>3. stranded' \in BOOLEAN
  <2>1. stranded \in BOOLEAN
    BY DEF Typed, TypeOK
  <2> QED
    BY <2>1 DEF Died
<1> QED
  BY <1>1, <1>2, <1>3 DEF Died, Typed, TypeOK, StreamOK, BookTypeOK, venue

(* Each step of a sync task does. *)
LEMMA SyncTyped == ASSUME Typed, NEW t \in Tasks, Sync(t) PROVE Typed'
<1>1. CASE Check(t)
  <2>1. task' \in [Tasks -> SyncTask]
    BY <1>1 DEF Check, Typed, TypeOK, Idle, SyncTask
  <2> QED
    BY <1>1, <2>1 DEF Check, Typed, TypeOK, StreamOK, BookTypeOK, venue, counts, bookVars
<1>2. CASE Serve(t)
  <2>1. PICK lag \in 0..MaxLag :
          /\ lag <= vnow
          /\ task' = [task EXCEPT ![t] = [pc |-> "reply", lui |-> vnow - lag]]
    BY <1>2 DEF Serve
  <2>2. vnow - lag \in Nat
    BY <2>1, SyncAssumption DEF SyncAssumption, Typed, TypeOK
  <2>3. task' \in [Tasks -> SyncTask]
    BY <2>1, <2>2, TaskTypes DEF SyncTask
  <2> QED
    BY <1>2, <2>3 DEF Serve, Typed, TypeOK, StreamOK, BookTypeOK, venue, counts, bookVars
<1>3. CASE Fail(t)
  BY <1>3 DEF Fail, Typed, TypeOK, StreamOK, BookTypeOK, SyncTask, venue, counts, bookVars
<1>4. CASE Apply(t)
  <2>1. PICK ret \in BOOLEAN :
          /\ TakeSnapshot(task[t].lui, ret)
          /\ task' = [task EXCEPT ![t] = IF ret THEN Idle ELSE [Idle EXCEPT !.pc = "check"]]
    BY <1>4 DEF Apply
  <2>2. task[t].lui \in Nat
    BY DEF Typed, TypeOK, SyncTask
  <2>3. /\ BookTypeOK' /\ book'.buffer \in Seq(StreamEvent)
        /\ have' \subseteq Nat /\ proven' \in BOOLEAN /\ stranded' \in BOOLEAN
        /\ unsound' \in Nat
    BY <2>1, <2>2, TakeSnapshotTyped
  <2>4. task' \in [Tasks -> SyncTask]
    BY <2>1, TaskTypes DEF Idle, SyncTask
  <2> QED
    BY <1>4, <2>3, <2>4 DEF Apply, Typed, TypeOK, StreamOK, venue
<1>5. CASE Hang(t) \/ Panic(t)
  <2>1. Idle \in SyncTask /\ [Idle EXCEPT !.pc = "hung"] \in SyncTask
    BY DEF Idle, SyncTask
  <2> QED
    BY <1>5, <2>1, DiedTyped DEF Hang, Panic
<1> QED
  BY <1>1, <1>2, <1>3, <1>4, <1>5 DEF Sync

(* Each step of the sweeper does. *)
LEMMA SweeperTyped == ASSUME Typed, Sweeper PROVE Typed'
<1>1. CASE TakeStale
  <2>1. /\ BookTypeOK' /\ book'.buffer \in Seq(StreamEvent)
        /\ have' = {} /\ proven' = FALSE /\ stranded' = FALSE /\ unsound' = unsound
    BY <1>1, ClearTyped DEF TakeStale
  <2>2. sweeps' \in Nat /\ sweeper' = "spawning"
    BY <1>1 DEF TakeStale, Typed, TypeOK
  <2>3. UNCHANGED <<vnow, emitted, losses, wire, shard, handle, task, disconnects, deaths,
                    published>>
    BY <1>1 DEF TakeStale, venue
  <2> QED
    BY <2>1, <2>2, <2>3 DEF Typed, TypeOK, StreamOK
<1>2. CASE SpawnResync
  <2>1. task' \in [Tasks -> SyncTask] /\ sweeper' = "asleep"
    BY <1>2 DEF SpawnResync, Typed, TypeOK, SyncTask
  <2>2. UNCHANGED <<vnow, emitted, losses, wire, shard, handle, disconnects, sweeps, unsound,
                    deaths, book, have, proven, stranded, published>>
    BY <1>2 DEF SpawnResync, venue, counts, bookVars
  <2> QED
    BY <2>1, <2>2 DEF Typed, TypeOK, StreamOK, BookTypeOK
<1> QED
  BY <1>1, <1>2 DEF Sweeper

(* So Typed, which unlike TypeOK is inductive, holds throughout. *)
LEMMA TypedInvariant == EitherSpec => []Typed
<1>1. Init => Typed
  BY InitTyped
<1>2. Typed /\ [EitherNext]_vars => Typed'
  <2> SUFFICES ASSUME Typed, [EitherNext]_vars PROVE Typed'
    OBVIOUS
  <2>1. CASE UNCHANGED vars
    BY <2>1 DEF vars, Typed, TypeOK, StreamOK, BookTypeOK
  <2>2. CASE CleanClose
    BY <2>2, EventSeqs DEF CleanClose, venue, bookVars, Typed, TypeOK, StreamOK, BookTypeOK
  <2> QED
    BY <2>1, <2>2, VenueTyped, ShardTyped, SyncTyped, SweeperTyped DEF EitherNext, Next
<1> QED
  BY <1>1, <1>2, PTL DEF EitherSpec

(* Every field of the book, of the shard and of the sync tasks keeps its   *)
(* type, with any number of tasks, buffer slots, updates and faults.       *)
THEOREM TypeCorrect == Spec => []TypeOK
<1>1. Typed => TypeOK
  BY DEF Typed
<1> QED
  BY <1>1, TypedInvariant, BothAreEither, PTL

(* So does every field of the Python program. *)
THEOREM PyTypeCorrect == PySpec => []TypeOK
<1>1. Typed => TypeOK
  BY DEF Typed
<1> QED
  BY <1>1, TypedInvariant, BothAreEither, PTL

(* The proofs below reason about a replay as a set of positions; whatever  *)
(* buffer a book comes to have, with any number of updates and slots, that *)
(* is what on_snapshot computes event by event, for every snapshot.        *)
THEOREM ReplayIsWhatLoopDoes == Spec => []ReplayMatchesLoop
<1>1. Typed => ReplayMatchesLoop
  <2> SUFFICES ASSUME Typed, NEW lui \in 0..MaxId
               PROVE  Loop(book.buffer, lui) =
                        [live |-> Breaks(book.buffer, lui) = {},
                         last |-> ReplayedTo(book.buffer, lui),
                         any |-> Replayed(book.buffer, lui) # {}]
    BY DEF ReplayMatchesLoop
  <2>1. Event \subseteq EventIds
    BY DEF Event, EventIds
  <2>2. book.buffer \in Seq(Event)
    BY DEF Typed, TypeOK, BookTypeOK
  <2>3. book.buffer \in Seq(EventIds)
    BY <2>1, <2>2
  <2>4. lui \in Int
    BY SyncAssumption
  <2> QED
    BY <2>3, <2>4, ReplayIsLoop
<1> QED
  BY <1>1, TypedInvariant, BothAreEither, PTL

-----------------------------------------------------------------------------
(* A depth event keeps a proven live book complete: it is ignored, or it   *)
(* starts right after the last id, or it ends the book's live spell.       *)
LEMMA DepthProven ==
  ASSUME Typed, ProvenChained, NEW ev \in StreamEvent, NEW ret, TakeDepth(ev, ret)
  PROVE  ProvenChained'
<1>1. SUFFICES ASSUME book'.state = "live", proven'
               PROVE  ~book'.need_first_event /\ have' = 1..book'.last_update_id
  BY DEF ProvenChained, ProvenComplete
<1>2. proven
  BY <1>1, TakeDepthTyped
<1>3. CASE BufferDepth(ev, ret) \/ GapDepth(ev, ret)
  BY <1>1, <1>3 DEF BufferDepth, GapDepth, Typed, TypeOK, BookTypeOK
<1>4. CASE IgnoreDepth(ev, ret) /\ UNCHANGED have
  BY <1>1, <1>2, <1>4 DEF IgnoreDepth, ProvenChained, ProvenComplete
<1>5. ASSUME NEW sound \in BOOLEAN, ApplyDepth(ev, sound, ret),
             have' = have \cup Covered(ev)
      PROVE  ~book'.need_first_event /\ have' = 1..book'.last_update_id
  <2>1. /\ book.state = "live"
        /\ ev.u > book.last_update_id
        /\ book.need_first_event \/ ev.pu = book.last_update_id
    BY <1>5 DEF ApplyDepth, Accepts
  <2>2. ~book.need_first_event /\ have = 1..book.last_update_id
    BY <1>2, <2>1 DEF ProvenChained, ProvenComplete
  <2>3. book'.last_update_id = ev.u /\ ~book'.need_first_event
    BY <1>5 DEF ApplyDepth, Typed, TypeOK, BookTypeOK
  <2>4. ev.U = book.last_update_id + 1 /\ ev.U <= ev.u /\ ev.u \in Nat
    BY <2>1, <2>2, StreamEventIds
  <2>5. book.last_update_id \in Nat
    BY DEF Typed, TypeOK, BookTypeOK
  <2>6. (1..book.last_update_id) \cup Covered(ev) = 1..ev.u
    BY <2>4, <2>5 DEF Covered
  <2> QED
    BY <1>5, <2>2, <2>3, <2>6
<1> QED
  BY <1>3, <1>4, <1>5 DEF TakeDepth

(* A snapshot that goes live on a straddling event leaves no hole. *)
LEMMA SnapshotProven ==
  ASSUME Typed, ProvenChained, NEW lui \in Nat, NEW ret, TakeSnapshot(lui, ret)
  PROVE  ProvenChained'
<1>1. SUFFICES ASSUME book'.state = "live", proven'
               PROVE  ~book'.need_first_event /\ have' = 1..book'.last_update_id
  BY DEF ProvenChained, ProvenComplete
<1>2. CASE UnwantedSnapshot(ret) /\ UNCHANGED <<have, proven>>
  BY <1>1, <1>2 DEF UnwantedSnapshot, ProvenChained, ProvenComplete
<1>3. CASE RejectSnapshot(lui, ret)
  BY <1>1, <1>3 DEF RejectSnapshot, Typed, TypeOK, BookTypeOK
<1>4. ASSUME NEW sound \in BOOLEAN, ApplySnapshot(lui, sound, ret),
             have' = Loaded(lui), proven' = (Replayed(book.buffer, lui) # {})
      PROVE  ~book'.need_first_event /\ have' = 1..book'.last_update_id
  <2>1. Breaks(book.buffer, lui) = {} /\ Replayed(book.buffer, lui) # {}
    BY <1>1, <1>4 DEF ApplySnapshot
  <2>2. /\ book'.last_update_id = ReplayedTo(book.buffer, lui)
        /\ book'.need_first_event = (Replayed(book.buffer, lui) = {})
    BY <1>4 DEF ApplySnapshot, Typed, TypeOK, BookTypeOK
  <2>3. Loaded(lui) = 1..ReplayedTo(book.buffer, lui)
    BY <2>1, ReplayComplete DEF Loaded, Typed, StreamOK
  <2> QED
    BY <1>4, <2>1, <2>2, <2>3
<1> QED
  BY <1>2, <1>3, <1>4 DEF TakeSnapshot

(* Steps that leave the book alone, and those that clear it. *)
LEMMA QuietProven ==
  ASSUME ProvenChained, UNCHANGED <<book, have, proven>> \/ Cleared
  PROVE  ProvenChained'
BY DEF ProvenChained, ProvenComplete, Cleared

(* So a live proven book has no hole in either program. *)
LEMMA ProvenInvariant == EitherSpec => []ProvenComplete
<1>1. Init => ProvenChained
  BY DEF Init, ProvenChained
<1>2. Typed /\ ProvenChained /\ [EitherNext]_vars => ProvenChained'
  <2> SUFFICES ASSUME Typed, ProvenChained, [EitherNext]_vars PROVE ProvenChained'
    OBVIOUS
  <2>1. CASE Read
    <3>1. Head(wire) \in StreamEvent
      BY <2>1 DEF Read, Typed, StreamOK
    <3> QED
      BY <2>1, <3>1, DepthProven DEF Read
  <2>2. ASSUME NEW t \in Tasks, Apply(t) PROVE ProvenChained'
    <3>1. task[t].lui \in Nat
      BY DEF Typed, TypeOK, SyncTask
    <3> QED
      BY <2>2, <3>1, SnapshotProven DEF Apply
  <2>3. CASE ResetBook \/ TakeStale
    BY <2>3, QuietProven DEF ResetBook, TakeStale
  <2>4. CASE Venue \/ Connect \/ ShardPanic \/ RequestSync \/ Publish \/ Disconnect
             \/ AbortSyncs \/ SpawnResync \/ CleanClose \/ UNCHANGED vars
    BY <2>4, QuietProven DEF Venue, Tick, Emit, Skip, Connect, ShardPanic, RequestSync,
       Publish, Disconnect, AbortSyncs, SpawnResync, CleanClose, vars, bookVars
  <2>5. ASSUME NEW t \in Tasks, Check(t) \/ Serve(t) \/ Fail(t) \/ Hang(t) \/ Panic(t)
        PROVE  ProvenChained'
    BY <2>5, QuietProven DEF Check, Serve, Fail, Hang, Panic, Died, bookVars
  <2> QED
    BY <2>1, <2>2, <2>3, <2>4, <2>5 DEF EitherNext, Next, Shard, Sync, Sweeper
<1>3. ProvenChained => ProvenComplete
  BY DEF ProvenChained, ProvenComplete
<1> QED
  BY <1>1, <1>2, <1>3, TypedInvariant, PTL DEF EitherSpec

(* A live book whose snapshot a buffered event straddled holds every       *)
(* update up to its last_update_id, through any losses, reconnects, sweeps *)
(* and stale snapshots.                                                    *)
THEOREM ProvenNeverHoled == Spec => []ProvenComplete
BY ProvenInvariant, BothAreEither, PTL

(* So it does in the Python program, although a clean close keeps the book *)
(* over what the stream carries until the next connection.                 *)
THEOREM PyProvenNeverHoled == PySpec => []ProvenComplete
BY ProvenInvariant, BothAreEither, PTL

-----------------------------------------------------------------------------
(* Why a waiting book is served: whenever a step leaves it waiting, a      *)
(* request is on its way or a task already runs; an abort never takes the  *)
(* last task of a waiting book; and a death that does is remembered.       *)
Served == AbortingIsReset /\ BufferingIsServed

(* Each step of run_shard keeps a waiting book served. *)
LEMMA ShardServed == ASSUME Typed, Served, Shard PROVE Served'
<1> USE DEF Served, AbortingIsReset, BufferingIsServed, Fetching
<1>1. CASE Connect \/ ShardPanic \/ Publish \/ Disconnect
  BY <1>1 DEF Connect, ShardPanic, Publish, Disconnect, bookVars
<1>2. CASE Read
  <2>1. PICK ret \in Action :
          /\ TakeDepth(Head(wire), ret)
          /\ shard' = [publish |-> "publishing", need_snapshot |-> "requesting",
                       none |-> "reading"][ret]
    BY <1>2 DEF Read
  <2>2. /\ ret = "need_snapshot" => shard' = "requesting"
        /\ shard' # "aborting"
        /\ shard = "reading"
        /\ UNCHANGED <<task, sweeper>>
    BY <1>2, <2>1 DEF Action, Read
  <2>3. /\ ret = "need_snapshot" \/ (book'.state = "buffering" => book.state = "buffering")
        /\ UNCHANGED stranded
    BY <2>1 DEF TakeDepth, BufferDepth, IgnoreDepth, GapDepth, ApplyDepth, Typed,
       TypeOK, BookTypeOK, BookState
  <2> QED
    BY <2>2, <2>3
<1>3. CASE RequestSync
  <2>1. PICK t \in Tasks :
          task' = [s \in Tasks |-> IF s = t THEN [Idle EXCEPT !.pc = "check"]
                                  ELSE IF s = handle THEN Idle ELSE task[s]]
    BY <1>3 DEF RequestSync
  <2>2. task'[t].pc = "check"
    BY <2>1 DEF Idle
  <2> QED
    BY <1>3, <2>2 DEF RequestSync
<1>4. CASE ResetBook
  <2>1. book'.state = "uninitialized"
    BY <1>4 DEF ResetBook, Reset, NewBook
  <2> QED
    BY <2>1
<1>5. CASE AbortSyncs
  BY <1>5 DEF AbortSyncs, bookVars
<1> QED
  BY <1>1, <1>2, <1>3, <1>4, <1>5 DEF Shard

(* A sync task gives up only a book that no longer waits. *)
LEMMA SyncServed == ASSUME Typed, Served, NEW t \in Tasks, Sync(t) PROVE Served'
<1> USE DEF Served, AbortingIsReset, BufferingIsServed, Fetching
<1>1. CASE Check(t)
  <2>1. UNCHANGED <<book, shard, sweeper>>
    BY <1>1 DEF Check, bookVars
  <2>2. book.state = "buffering" => task'[t].pc = "fetch"
    BY <1>1 DEF Check, Typed, TypeOK, Idle, SyncTask
  <2> QED
    BY <2>1, <2>2
<1>2. CASE Serve(t)
  <2>1. UNCHANGED <<book, shard, sweeper>>
    BY <1>2 DEF Serve, bookVars
  <2>2. task'[t].pc = "reply"
    BY <1>2 DEF Serve, Typed, TypeOK, SyncTask
  <2> QED
    BY <2>1, <2>2
<1>3. CASE Fail(t)
  <2>1. UNCHANGED <<book, shard, sweeper>>
    BY <1>3 DEF Fail, bookVars
  <2>2. task'[t].pc = "check"
    BY <1>3 DEF Fail, Typed, TypeOK, SyncTask
  <2> QED
    BY <2>1, <2>2
<1>4. CASE Apply(t)
  <2>1. PICK ret \in BOOLEAN :
          /\ TakeSnapshot(task[t].lui, ret)
          /\ task' = [task EXCEPT ![t] = IF ret THEN Idle ELSE [Idle EXCEPT !.pc = "check"]]
    BY <1>4 DEF Apply
  <2>2. UNCHANGED <<shard, sweeper>>
    BY <1>4 DEF Apply
  <2>3. CASE UnwantedSnapshot(ret) /\ UNCHANGED stranded
    <3>1. book.state # "buffering" /\ UNCHANGED book
      BY <2>3 DEF UnwantedSnapshot
    <3> QED
      BY <2>2, <3>1
  <2>4. CASE RejectSnapshot(task[t].lui, ret)
                \/ \E sound \in BOOLEAN : ApplySnapshot(task[t].lui, sound, ret)
    <3>1. shard # "aborting"
      BY <2>4 DEF RejectSnapshot, ApplySnapshot
    <3>2. book'.state = "buffering" => ~ret
      BY <2>4 DEF RejectSnapshot, ApplySnapshot, Typed, TypeOK, BookTypeOK
    <3>3. ~ret => task'[t].pc = "check"
      BY <2>1 DEF Typed, TypeOK, Idle, SyncTask
    <3> QED
      BY <2>2, <3>1, <3>2, <3>3
  <2> QED
    BY <2>1, <2>3, <2>4 DEF TakeSnapshot
<1>5. CASE Hang(t) \/ Panic(t)
  <2>1. Died
    BY <1>5 DEF Hang, Panic
  <2>2. UNCHANGED <<book, shard, sweeper>>
    BY <2>1 DEF Died
  <2>3. book.state = "buffering" /\ ~Fetching' => stranded'
    BY <2>1 DEF Died
  <2> QED
    BY <2>2, <2>3
<1> QED
  BY <1>1, <1>2, <1>3, <1>4, <1>5 DEF Sync

(* A sweep leaves the book waiting, and is about to spawn its task. *)
LEMMA SweeperServed == ASSUME Typed, Served, Sweeper PROVE Served'
<1> USE DEF Served, AbortingIsReset, BufferingIsServed, Fetching
<1>1. CASE TakeStale
  BY <1>1 DEF TakeStale
<1>2. CASE SpawnResync
  <2>1. PICK t \in Tasks : task' = [task EXCEPT ![t].pc = "check"]
    BY <1>2 DEF SpawnResync
  <2>2. task'[t].pc = "check"
    BY <2>1 DEF Typed, TypeOK, SyncTask
  <2> QED
    BY <1>2, <2>2 DEF SpawnResync, bookVars
<1> QED
  BY <1>1, <1>2 DEF Sweeper

(* So no wake-up is lost in either program. *)
LEMMA ServedInvariant == EitherSpec => []BufferingIsServed
<1>1. Init => Served
  BY DEF Init, BookInit, NewBook, Served, AbortingIsReset, BufferingIsServed
<1>2. Typed /\ Served /\ [EitherNext]_vars => Served'
  <2> SUFFICES ASSUME Typed, Served, [EitherNext]_vars PROVE Served'
    OBVIOUS
  <2>1. CASE Venue
    BY <2>1 DEF Venue, Tick, Emit, Skip, bookVars, Served, AbortingIsReset,
       BufferingIsServed, Fetching
  <2>2. CASE UNCHANGED vars
    BY <2>2 DEF vars, Served, AbortingIsReset, BufferingIsServed, Fetching
  <2>3. CASE CleanClose
    BY <2>3 DEF CleanClose, bookVars, Served, AbortingIsReset, BufferingIsServed, Fetching
  <2> QED
    BY <2>1, <2>2, <2>3, ShardServed, SyncServed, SweeperServed DEF EitherNext, Next
<1>3. Served => BufferingIsServed
  BY DEF Served
<1> QED
  BY <1>1, <1>2, <1>3, TypedInvariant, PTL DEF EitherSpec

(* No wake-up is lost: a book that waits for a snapshot always has a       *)
(* running task, a request the shard is about to make, or a sweep about to *)
(* spawn one; or a panic or a hanging request has taken its last task.     *)
THEOREM WaitingIsServed == Spec => []BufferingIsServed
BY ServedInvariant, BothAreEither, PTL

(* In the Python program, which catches what a request raises and lets it  *)
(* time out, there is no such exception: a waiting book is always served,  *)
(* across clean closes too.                                                *)
THEOREM PyWaitingIsServed == PySpec => [](book.state = "buffering" => Fetching)
<1>1. Init => ~stranded
  BY DEF Init
<1>2. ~stranded /\ [PyNext]_vars => ~stranded'
  <2> SUFFICES ASSUME ~stranded, [PyNext]_vars PROVE ~stranded'
    OBVIOUS
  <2>1. CASE Venue \/ Connect \/ Disconnect \/ CleanClose \/ RequestSync \/ Publish
             \/ AbortSyncs \/ SpawnResync \/ UNCHANGED vars
    BY <2>1 DEF Venue, Tick, Emit, Skip, Connect, Disconnect, CleanClose, RequestSync,
       Publish, AbortSyncs, SpawnResync, bookVars, vars
  <2>2. CASE ResetBook \/ TakeStale
    BY <2>2 DEF ResetBook, TakeStale, Cleared
  <2>3. CASE Read
    BY <2>3 DEF Read, TakeDepth
  <2>4. ASSUME NEW t \in Tasks, Check(t) \/ Serve(t) \/ Fail(t) \/ Apply(t)
        PROVE  ~stranded'
    BY <2>4 DEF Check, Serve, Fail, Apply, TakeSnapshot, bookVars
  <2> QED
    BY <2>1, <2>2, <2>3, <2>4 DEF PyNext, PyShard, PySyncTask, PySweeper
<1>3. BufferingIsServed /\ ~stranded => (book.state = "buffering" => Fetching)
  BY DEF BufferingIsServed
<1> QED
  BY <1>1, <1>2, <1>3, ServedInvariant, BothAreEither, PTL DEF PySpec

-----------------------------------------------------------------------------
(* Why a gap is a loss: the events on the wire continue one another and    *)
(* the book, but where the venue skipped one.                              *)

(* Where the book stands in the stream, if it checks pu or has buffered.   *)
Anchored ==
  \/ book.state = "live" /\ ~book.need_first_event
  \/ book.state = "buffering" /\ book.buffer # <<>>

Anchor ==
  IF book.state = "live" THEN book.last_update_id ELSE book.buffer[Len(book.buffer)].u

(* The ids after which an event starts, the one still to be emitted        *)
(* included, and at which one ends.                                        *)
Starts == {wire[i].pu : i \in DOMAIN wire} \cup {emitted}
Ends == {wire[i].u : i \in DOMAIN wire}
First == IF wire = <<>> THEN emitted ELSE wire[1].pu
Stand == IF Anchored THEN Anchor ELSE First

(* The starts at which neither the book nor an event ends. *)
Missed == Starts \ (Ends \cup {Stand})
Misses == Cardinality(Missed)

WireInOrder ==
  /\ \A i, j \in DOMAIN wire : i < j => wire[i].u <= wire[j].pu
  /\ \A i \in DOMAIN wire : wire[i].u <= emitted
  /\ ~Streaming => wire = <<>>

BufferInOrder ==
  /\ \A i \in DOMAIN book.buffer : book.buffer[i].u <= book.buffer[Len(book.buffer)].u
  /\ book.state = "uninitialized" => book.buffer = <<>>

ResetOffline == shard \in {"offline", "aborting"} => book.state = "uninitialized"

StandsBehind == Stand <= First

InOrder == WireInOrder /\ BufferInOrder /\ StandsBehind

(* Every gap, and every miss the book has yet to find, is a loss, but for  *)
(* n of them: none in Rust, one for each lost connection in Python.        *)
Accounted(n) ==
  /\ book.gap_count <= losses + n
  /\ Streaming => book.gap_count + Misses <= losses + n

(* The wire, as sets of ids. *)
LEMMA WireIds ==
  ASSUME Typed, WireInOrder
  PROVE  /\ Starts \in SUBSET Nat /\ Ends \in SUBSET Nat /\ First \in Starts
         /\ \A p \in Starts : First <= p /\ p <= emitted
         /\ IsFiniteSet(Missed) /\ Misses \in Nat
<1>1. /\ wire \in Seq(StreamEvent) /\ emitted \in Nat
      /\ \A i \in DOMAIN wire : i \in Nat \ {0} /\ wire[i] \in StreamEvent
      /\ wire # <<>> => 1 \in DOMAIN wire
  BY DEF Typed, TypeOK, StreamOK
<1>2. \A i \in DOMAIN wire : /\ wire[i].pu \in Nat /\ wire[i].u \in Nat
                             /\ wire[i].pu < wire[i].u
  BY <1>1, StreamEventIds
<1>3. Starts \in SUBSET Nat /\ Ends \in SUBSET Nat /\ First \in Starts
  BY <1>1, <1>2 DEF Starts, Ends, First
<1>4. \A i \in DOMAIN wire : wire[i].pu <= emitted
  BY <1>1, <1>2 DEF WireInOrder
<1>5. \A i \in DOMAIN wire : wire[1].pu <= wire[i].pu /\ wire # <<>>
  <2> SUFFICES ASSUME NEW i \in DOMAIN wire
               PROVE  wire[1].pu <= wire[i].pu /\ wire # <<>>
    OBVIOUS
  <2>1. wire # <<>> /\ 1 \in DOMAIN wire
    BY <1>1
  <2>2. CASE i = 1
    BY <1>2, <2>1, <2>2
  <2>3. CASE 1 < i
    <3>1. wire[1].u <= wire[i].pu
      BY <2>1, <2>3 DEF WireInOrder
    <3> QED
      BY <1>2, <2>1, <3>1
  <2> QED
    BY <1>1, <2>2, <2>3
<1>6. \A p \in Starts : First <= p /\ p <= emitted
  <2>1. CASE wire = <<>>
    BY <1>1, <2>1 DEF Starts, First
  <2>2. CASE wire # <<>>
    BY <1>1, <1>2, <1>4, <1>5, <2>2 DEF Starts, First
  <2> QED
    BY <2>1, <2>2
<1>7. IsFiniteSet(Starts)
  BY <1>1, <1>3, <1>6, FS_BoundedSetOfNaturals
<1>8. IsFiniteSet(Missed)
  BY <1>7, FS_Subset DEF Missed
<1> QED
  BY <1>3, <1>6, <1>8, FS_CardinalityType DEF Misses

(* Fewer misses are fewer. *)
LEMMA FewerMissed ==
  ASSUME Typed, WireInOrder, NEW p,
         Missed' \subseteq Missed \ {p}
  PROVE  /\ Misses' \in Nat /\ Misses' <= Misses
         /\ p \in Missed => Misses' + 1 <= Misses
<1>1. IsFiniteSet(Missed) /\ Misses \in Nat /\ Misses = Cardinality(Missed)
  BY WireIds DEF Misses
<1>2. /\ IsFiniteSet(Missed \ {p})
      /\ Cardinality(Missed \ {p}) = IF p \in Missed THEN Misses - 1 ELSE Misses
  BY <1>1, FS_RemoveElement
<1>3. Misses' \in Nat /\ Misses' <= Cardinality(Missed \ {p})
  BY <1>2, FS_Subset, FS_CardinalityType DEF Misses
<1> QED
  BY <1>1, <1>2, <1>3

(* The first event leaves the wire. *)
LEMMA WireRead ==
  ASSUME Typed, WireInOrder, wire # <<>>, wire' = Tail(wire), emitted' = emitted,
         NEW ev, ev = Head(wire)
  PROVE  /\ ev \in StreamEvent /\ First = ev.pu /\ ev.pu \in Starts \ Ends
         /\ ev.pu \in Nat /\ ev.u \in Nat /\ ev.pu < ev.u
         /\ Starts' \subseteq Starts /\ \A p \in Starts' : ev.u <= p
         /\ Ends = Ends' \cup {ev.u}
         /\ First' \in Starts' /\ \A p \in Starts' : First' <= p
         /\ wire' \in Seq(StreamEvent)
         /\ \A i, j \in DOMAIN wire' : i < j => wire'[i].u <= wire'[j].pu
         /\ \A i \in DOMAIN wire' : wire'[i].u <= emitted
<1>1. /\ wire \in Seq(StreamEvent) /\ emitted \in Nat
      /\ \A i \in DOMAIN wire : i \in Nat \ {0} /\ wire[i] \in StreamEvent
      /\ 1 \in DOMAIN wire /\ ev = wire[1]
  BY DEF Typed, TypeOK, StreamOK
<1>2. \A i \in DOMAIN wire : /\ wire[i].pu \in Nat /\ wire[i].u \in Nat
                             /\ wire[i].pu < wire[i].u
  BY <1>1, StreamEventIds
<1>3. /\ wire' \in Seq(StreamEvent)
      /\ \A i \in DOMAIN wire' : /\ i \in Nat \ {0} /\ i + 1 \in DOMAIN wire
                                 /\ wire'[i] = wire[i + 1]
      /\ wire' # <<>> => 1 \in DOMAIN wire'
      /\ \A i \in DOMAIN wire : i = 1 \/ (i - 1 \in DOMAIN wire' /\ wire[i] = wire'[i - 1])
  BY <1>1
<1>4. /\ \A i, j \in DOMAIN wire' : i < j => wire'[i].u <= wire'[j].pu
      /\ \A i \in DOMAIN wire' : wire'[i].u <= emitted
      /\ \A i \in DOMAIN wire' : ev.u <= wire'[i].pu
      /\ ev.u <= emitted
  <2>1. /\ \A i, j \in DOMAIN wire : i < j => wire[i].u <= wire[j].pu
        /\ \A i \in DOMAIN wire : wire[i].u <= emitted
    BY DEF WireInOrder
  <2>2. \A i, j \in DOMAIN wire' : i < j => wire'[i].u <= wire'[j].pu
    <3> SUFFICES ASSUME NEW i \in DOMAIN wire', NEW j \in DOMAIN wire', i < j
                 PROVE  wire'[i].u <= wire'[j].pu
      OBVIOUS
    <3>1. /\ i + 1 \in DOMAIN wire /\ j + 1 \in DOMAIN wire /\ i + 1 < j + 1
          /\ wire'[i] = wire[i + 1] /\ wire'[j] = wire[j + 1]
      BY <1>3
    <3> QED
      BY <2>1, <3>1
  <2>3. \A i \in DOMAIN wire' : wire'[i].u <= emitted
    BY <1>3, <2>1
  <2>4. \A i \in DOMAIN wire' : ev.u <= wire'[i].pu
    <3> SUFFICES ASSUME NEW i \in DOMAIN wire'
                 PROVE  ev.u <= wire'[i].pu
      OBVIOUS
    <3>1. i + 1 \in DOMAIN wire /\ 1 < i + 1 /\ wire'[i] = wire[i + 1]
      BY <1>3
    <3> QED
      BY <1>1, <2>1, <3>1
  <2> QED
    BY <1>1, <2>1, <2>2, <2>3, <2>4
<1>5. ev \in StreamEvent /\ First = ev.pu /\ ev.pu \in Nat /\ ev.u \in Nat /\ ev.pu < ev.u
  BY <1>1, <1>2 DEF First
<1>6. ev.pu \in Starts \ Ends
  <2>1. \A i \in DOMAIN wire : wire[i].u # ev.pu
    <3> SUFFICES ASSUME NEW i \in DOMAIN wire
                 PROVE  wire[i].u # ev.pu
      OBVIOUS
    <3>1. CASE i = 1
      BY <1>1, <1>5, <3>1
    <3>2. CASE 1 < i
      <4>1. ev.u <= wire[i].pu /\ wire[i].pu < wire[i].u
        BY <1>1, <1>2, <3>2 DEF WireInOrder
      <4> QED
        BY <1>2, <1>5, <4>1
    <3> QED
      BY <1>1, <3>1, <3>2
  <2> QED
    BY <1>1, <2>1 DEF Starts, Ends
<1>7. Starts' \subseteq Starts
  BY <1>3 DEF Starts
<1>8. \A p \in Starts' : ev.u <= p
  BY <1>4 DEF Starts
<1>9. Ends = Ends' \cup {ev.u}
  <2>1. ASSUME NEW e \in Ends
        PROVE  e \in Ends' \cup {ev.u}
    <3>1. PICK i \in DOMAIN wire : e = wire[i].u
      BY <2>1 DEF Ends
    <3> QED
      BY <1>1, <1>3, <3>1 DEF Ends
  <2>2. ASSUME NEW e \in Ends'
        PROVE  e \in Ends
    <3>1. PICK i \in DOMAIN wire' : e = wire'[i].u
      BY <2>2 DEF Ends
    <3> QED
      BY <1>3, <3>1 DEF Ends
  <2>3. ev.u \in Ends
    BY <1>1 DEF Ends
  <2> QED
    BY <2>1, <2>2, <2>3
<1>10. First' \in Starts'
  BY <1>3 DEF First, Starts
<1>11. \A p \in Starts' : First' <= p
  <2>1. \A i \in DOMAIN wire' : wire'[i] \in StreamEvent /\ wire'[i].u \in Nat
                                /\ wire'[i].pu \in Nat /\ wire'[i].pu < wire'[i].u
    BY <1>2, <1>3
  <2>2. \A i \in DOMAIN wire' : wire'[1].pu <= wire'[i].pu /\ wire' # <<>>
    <3> SUFFICES ASSUME NEW i \in DOMAIN wire'
                 PROVE  wire'[1].pu <= wire'[i].pu /\ wire' # <<>>
      OBVIOUS
    <3>1. wire' # <<>> /\ 1 \in DOMAIN wire' /\ i \in Nat \ {0}
      BY <1>3
    <3>2. CASE i = 1
      BY <2>1, <3>1, <3>2
    <3>3. CASE 1 < i
      <4>1. wire'[1].u <= wire'[i].pu
        BY <1>4, <3>1, <3>3
      <4>2. /\ wire'[1].pu \in Nat /\ wire'[1].u \in Nat /\ wire'[i].pu \in Nat
            /\ wire'[1].pu < wire'[1].u
        BY <2>1, <3>1
      <4> QED
        BY <3>1, <4>1, <4>2
    <3>4. i = 1 \/ 1 < i
      BY <3>1
    <3> QED
      BY <3>1, <3>2, <3>3, <3>4
  <2>3. \A i \in DOMAIN wire' : wire'[i].pu <= emitted
    BY <1>1, <1>4, <2>1
  <2>4. CASE wire' = <<>>
    BY <1>1, <2>4 DEF Starts, First
  <2>5. CASE wire' # <<>>
    <3>1. First' = wire'[1].pu /\ 1 \in DOMAIN wire'
      BY <1>3, <2>5 DEF First
    <3>2. \A p \in Starts' : p = emitted \/ \E i \in DOMAIN wire' : p = wire'[i].pu
      BY <1>1 DEF Starts
    <3> QED
      BY <2>2, <2>3, <3>1, <3>2
  <2> QED
    BY <2>4, <2>5
<1> QED
  BY <1>3, <1>4, <1>5, <1>6, <1>7, <1>8, <1>9, <1>10, <1>11

(* What is pushed comes last, after events of the buffer. *)
LEMMA PushLast ==
  ASSUME NEW E, NEW buf \in Seq(E), NEW ev \in E, NEW new, new = Push(buf, ev)
  PROVE  /\ new # <<>> /\ Len(new) \in DOMAIN new /\ new[Len(new)] = ev
         /\ \A i \in DOMAIN new : new[i] = ev \/ \E j \in DOMAIN buf : new[i] = buf[j]
<1> DEFINE kept == IF Len(buf) >= BufferMax THEN Tail(buf) ELSE buf
<1>1. kept \in Seq(E) /\ \A i \in DOMAIN kept : \E j \in DOMAIN buf : kept[i] = buf[j]
  <2>1. BufferMax \in Nat \ {0}
    BY BufferMaxAssumption
  <2>2. CASE Len(buf) >= BufferMax
    <3>1. buf # <<>>
      BY <2>1, <2>2
    <3>2. Tail(buf) \in Seq(E) /\ \A i \in DOMAIN Tail(buf) : i + 1 \in DOMAIN buf
                                                            /\ Tail(buf)[i] = buf[i + 1]
      BY <3>1
    <3> QED
      BY <2>2, <3>2
  <2>3. CASE ~(Len(buf) >= BufferMax)
    BY <2>3
  <2> QED
    BY <2>2, <2>3
<1>2. new = Append(kept, ev)
  BY DEF Push
<1> HIDE DEF kept
<1>3. /\ Len(new) = Len(kept) + 1 /\ new[Len(new)] = ev /\ Len(new) \in DOMAIN new
      /\ \A i \in DOMAIN new : (i \in DOMAIN kept /\ new[i] = kept[i]) \/ new[i] = ev
      /\ new # <<>>
  BY <1>1, <1>2
<1> QED
  BY <1>1, <1>3

(* The ids of the book. *)
LEMMA BookIds ==
  ASSUME Typed
  PROVE  /\ book.last_update_id \in Nat /\ book.gap_count \in Nat
         /\ \A i \in DOMAIN book.buffer : book.buffer[i].u \in Nat
         /\ book.buffer # <<>> => Len(book.buffer) \in DOMAIN book.buffer
         /\ Anchored => Anchor \in Nat
<1>1. book.last_update_id \in Nat /\ book.gap_count \in Nat
  BY DEF Typed, TypeOK, BookTypeOK
<1>2. book.buffer \in Seq(StreamEvent)
  BY DEF Typed, StreamOK
<1>3. \A i \in DOMAIN book.buffer : book.buffer[i].u \in Nat
  BY <1>2, StreamEventIds
<1>4. book.buffer # <<>> => Len(book.buffer) \in DOMAIN book.buffer
  BY <1>2
<1> QED
  BY <1>1, <1>3, <1>4 DEF Anchored, Anchor

(* An event that continues the stream anchors the book, and is taken for a *)
(* gap only if it does not continue where the book stands.                 *)
LEMMA DepthStand ==
  ASSUME Typed, BufferInOrder, NEW ev \in StreamEvent, Anchored => Anchor <= ev.pu,
         NEW ret, TakeDepth(ev, ret)
  PROVE  /\ BufferInOrder' /\ (Anchored' => Anchor' = ev.u)
         /\ \/ book'.gap_count = book.gap_count
            \/ Anchored /\ Anchor # ev.pu /\ book'.gap_count = book.gap_count + 1
<1>1. ev.pu \in Nat /\ ev.u \in Nat /\ ev.pu < ev.u
  BY StreamEventIds
<1>2. /\ <<ev>> # <<>> /\ Len(<<ev>>) = 1 /\ DOMAIN <<ev>> = {1} /\ <<ev>>[1] = ev
      /\ ev.u <= ev.u
  BY <1>1
<1>3. CASE BufferDepth(ev, ret)
  <2> DEFINE new == Push(book.buffer, ev)
  <2>1. /\ book.state # "live" /\ book'.state = "buffering"
        /\ book'.buffer = new /\ book'.gap_count = book.gap_count
    BY <1>3 DEF BufferDepth, Typed, TypeOK, BookTypeOK
  <2>2. /\ new # <<>> /\ new[Len(new)] = ev
        /\ \A i \in DOMAIN new : new[i] = ev \/ \E j \in DOMAIN book.buffer : new[i] = book.buffer[j]
    BY PushLast DEF Typed, StreamOK
  <2> HIDE DEF new
  <2>3. ASSUME NEW j \in DOMAIN book.buffer
        PROVE  book.buffer[j].u <= ev.u
    <3>1. book.buffer # <<>>
      OBVIOUS
    <3>2. book.state = "buffering"
      BY <2>1, <3>1 DEF BufferInOrder, Typed, TypeOK, BookTypeOK, BookState
    <3>3. Anchored /\ Anchor = book.buffer[Len(book.buffer)].u
      BY <3>1, <3>2 DEF Anchored, Anchor
    <3>4. book.buffer[j].u <= Anchor
      BY <3>3 DEF BufferInOrder
    <3>5. Anchor \in Nat /\ book.buffer[j].u \in Nat /\ Anchor <= ev.pu
      BY <3>3, BookIds
    <3> QED
      BY <1>1, <3>4, <3>5
  <2>4. \A i \in DOMAIN new : new[i].u <= new[Len(new)].u
    BY <1>2, <2>2, <2>3
  <2>5. BufferInOrder'
    BY <2>1, <2>4 DEF BufferInOrder
  <2>6. Anchor' = ev.u
    BY <2>1, <2>2 DEF Anchor
  <2> QED
    BY <2>1, <2>5, <2>6
<1>4. CASE IgnoreDepth(ev, ret)
  <2>1. UNCHANGED book /\ book.state = "live" /\ ev.u <= book.last_update_id
    BY <1>4 DEF IgnoreDepth
  <2>2. ~Anchored
    <3>1. SUFFICES ASSUME Anchored PROVE FALSE
      OBVIOUS
    <3>2. Anchor = book.last_update_id /\ Anchor \in Nat /\ Anchor <= ev.pu
      BY <2>1, <3>1, BookIds DEF Anchor
    <3> QED
      BY <1>1, <2>1, <3>2
  <2>3. ~Anchored' /\ BufferInOrder' /\ book'.gap_count = book.gap_count
    BY <2>1, <2>2 DEF Anchored, BufferInOrder
  <2> QED
    BY <2>3
<1>5. CASE GapDepth(ev, ret)
  <2>1. /\ book.state = "live" /\ ~book.need_first_event /\ ev.pu # book.last_update_id
        /\ book'.state = "buffering" /\ book'.buffer = <<ev>>
        /\ book'.gap_count = book.gap_count + 1
    BY <1>5 DEF GapDepth, Typed, TypeOK, BookTypeOK
  <2>2. Anchored /\ Anchor # ev.pu
    BY <2>1 DEF Anchored, Anchor
  <2>3. BufferInOrder' /\ Anchor' = ev.u
    BY <1>2, <2>1 DEF BufferInOrder, Anchor
  <2> QED
    BY <2>1, <2>2, <2>3
<1>6. ASSUME NEW sound \in BOOLEAN, ApplyDepth(ev, sound, ret)
      PROVE  /\ BufferInOrder' /\ (Anchored' => Anchor' = ev.u)
             /\ book'.gap_count = book.gap_count
  <2>1. /\ book.state = "live"
        /\ book'.state = IF sound THEN "live" ELSE "buffering"
        /\ book'.last_update_id = ev.u /\ book'.gap_count = book.gap_count
        /\ book'.buffer = IF sound THEN book.buffer ELSE <<ev>>
    BY <1>6 DEF ApplyDepth, Accepts, Typed, TypeOK, BookTypeOK
  <2>2. CASE sound
    BY <2>1, <2>2 DEF BufferInOrder, Anchor
  <2>3. CASE ~sound
    BY <1>2, <2>1, <2>3 DEF BufferInOrder, Anchor
  <2> QED
    BY <2>1, <2>2, <2>3
<1> QED
  BY <1>3, <1>4, <1>5, <1>6 DEF TakeDepth

(* A snapshot leaves the book where its buffer ends, or nowhere. *)
LEMMA SnapshotStand ==
  ASSUME Typed, BufferInOrder, NEW lui \in Nat, NEW ret, TakeSnapshot(lui, ret)
  PROVE  /\ BufferInOrder' /\ (Anchored' => Anchored /\ Anchor' = Anchor)
         /\ book'.gap_count = book.gap_count
         /\ book.state = "uninitialized" => book'.state = "uninitialized"
<1>1. CASE UnwantedSnapshot(ret)
  BY <1>1 DEF UnwantedSnapshot, BufferInOrder, Anchored, Anchor
<1>2. CASE RejectSnapshot(lui, ret)
  <2>1. /\ book.state = "buffering" /\ book'.state = "buffering" /\ book'.buffer = <<>>
        /\ book'.gap_count = book.gap_count
    BY <1>2 DEF RejectSnapshot, Typed, TypeOK, BookTypeOK
  <2> QED
    BY <2>1 DEF BufferInOrder, Anchored
<1>3. ASSUME NEW sound \in BOOLEAN, ApplySnapshot(lui, sound, ret)
      PROVE  /\ BufferInOrder' /\ (Anchored' => Anchored /\ Anchor' = Anchor)
             /\ book'.gap_count = book.gap_count /\ book.state # "uninitialized"
  <2> DEFINE buf == book.buffer
             R == Replayed(buf, lui)
  <2>1. /\ book.state = "buffering" /\ Breaks(buf, lui) = {}
        /\ book'.state = IF sound THEN "live" ELSE "buffering"
        /\ book'.last_update_id = ReplayedTo(buf, lui)
        /\ book'.need_first_event = (R = {})
        /\ book'.buffer = <<>> /\ book'.gap_count = book.gap_count
    BY <1>3 DEF ApplySnapshot, Typed, TypeOK, BookTypeOK
  <2>2. BufferInOrder'
    BY <2>1 DEF BufferInOrder
  <2>3. ASSUME Anchored'
        PROVE  Anchored /\ Anchor' = Anchor
    <3>1. book'.state = "live" /\ R # {}
      BY <2>1, <2>3 DEF Anchored
    <3>2. buf \in Seq(StreamEvent) /\ Len(buf) \in Nat /\ R \in SUBSET (1..Len(buf))
      BY ReplayableType DEF Typed, StreamOK
    <3>3. Max(R) \in R /\ \A k \in R : k <= Max(R)
      BY <3>1, <3>2, MaxIsGreatest
    <3>4. buf # <<>> /\ Len(buf) \in DOMAIN buf /\ Max(R) \in DOMAIN buf
      BY <3>2, <3>3
    <3>5. R = Replayable(buf, lui)
      BY <2>1 DEF Replayed
    <3>6. Len(buf) \in R
      <4>1. buf[Max(R)].u >= lui
        BY <3>3, <3>5 DEF Replayable
      <4>2. buf[Max(R)].u <= buf[Len(buf)].u
        BY <3>4 DEF BufferInOrder
      <4>3. buf[Max(R)].u \in Nat /\ buf[Len(buf)].u \in Nat
        BY <3>4, BookIds
      <4>4. buf[Len(buf)].u >= lui
        BY <4>1, <4>2, <4>3
      <4> QED
        BY <3>4, <3>5, <4>4 DEF Replayable
    <3>7. Max(R) = Len(buf)
      BY <3>2, <3>3, <3>6
    <3>8. book'.last_update_id = buf[Len(buf)].u
      BY <2>1, <3>1, <3>7 DEF ReplayedTo
    <3> QED
      BY <2>1, <3>1, <3>4, <3>8 DEF Anchored, Anchor
  <2> QED
    BY <2>1, <2>2, <2>3
<1> QED
  BY <1>1, <1>2, <1>3 DEF TakeSnapshot

(* A cleared book stands nowhere. *)
LEMMA ClearStand ==
  ASSUME Typed, Reset \/ MarkForResync
  PROVE  BufferInOrder' /\ ~Anchored' /\ book'.gap_count = book.gap_count
<1>1. \E st \in {"uninitialized", "buffering"} :
        book' = [state |-> st, last_update_id |-> 0, buffer |-> <<>>,
                 need_first_event |-> FALSE, gap_count |-> book.gap_count]
  BY DEF Reset, MarkForResync, NewBook
<1> QED
  BY <1>1 DEF BufferInOrder, Anchored

(* A book that stays where it stands, or gives that up, misses no more. *)
LEMMA SameWire ==
  ASSUME Typed, WireInOrder, UNCHANGED <<wire, emitted>>, Stand <= First,
         Anchored' => Anchored /\ Anchor' = Anchor
  PROVE  Missed' \subseteq Missed /\ Stand' <= First'
<1>1. UNCHANGED <<Starts, Ends, First>>
  BY DEF Starts, Ends, First
<1>2. First \in Starts /\ Starts \in SUBSET Nat /\ \A p \in Starts : First <= p
  BY WireIds
<1>3. CASE Anchored'
  BY <1>1, <1>3 DEF Stand, Missed
<1>4. CASE ~Anchored'
  <2>1. Stand' = First
    BY <1>1, <1>4 DEF Stand
  <2>2. Stand \in Nat
    BY <1>2, BookIds DEF Stand
  <2>3. \A p \in Starts : p # First => p # Stand
    BY <1>2, <2>2
  <2> QED
    BY <1>1, <1>2, <2>1, <2>3 DEF Missed
<1> QED
  BY <1>3, <1>4

(* run_shard reads the event the book waits for, or finds its gap. *)
LEMMA ReadAccounted ==
  ASSUME Typed, NEW n \in Nat, InOrder, Accounted(n), Read
  PROVE  InOrder' /\ Accounted(n)'
<1> DEFINE ev == Head(wire)
<1>1. /\ shard = "reading" /\ wire # <<>> /\ wire' = Tail(wire)
      /\ emitted' = emitted /\ losses' = losses /\ losses \in Nat
      /\ WireInOrder /\ BufferInOrder
  BY DEF Read, venue, InOrder, Typed, TypeOK
<1>2. PICK ret \in Action :
        /\ TakeDepth(ev, ret)
        /\ shard' = [publish |-> "publishing", need_snapshot |-> "requesting",
                     none |-> "reading"][ret]
  BY DEF Read
<1>3. Streaming /\ Streaming'
  BY <1>1, <1>2 DEF Streaming, Action
<1>4. /\ ev \in StreamEvent /\ First = ev.pu /\ ev.pu \in Starts \ Ends
      /\ ev.pu \in Nat /\ ev.u \in Nat /\ ev.pu < ev.u
      /\ Starts' \subseteq Starts /\ \A p \in Starts' : ev.u <= p
      /\ Ends = Ends' \cup {ev.u}
      /\ First' \in Starts' /\ \A p \in Starts' : First' <= p
  <2> HIDE DEF ev
  <2>1. ev = Head(wire)
    BY DEF ev
  <2> QED
    BY <1>1, <2>1, WireRead
<1>5. WireInOrder'
  <2>1. /\ \A i, j \in DOMAIN wire' : i < j => wire'[i].u <= wire'[j].pu
        /\ \A i \in DOMAIN wire' : wire'[i].u <= emitted
    BY <1>1, WireRead
  <2> QED
    BY <1>1, <1>3, <2>1 DEF WireInOrder
<1> HIDE DEF ev
<1>6. Starts \in SUBSET Nat /\ Stand \in Nat /\ Stand <= ev.pu
  BY <1>1, <1>3, <1>4, BookIds, WireIds DEF InOrder, StandsBehind, Stand
<1>7. /\ BufferInOrder' /\ (Anchored' => Anchor' = ev.u)
      /\ \/ book'.gap_count = book.gap_count
         \/ Anchored /\ Anchor # ev.pu /\ book'.gap_count = book.gap_count + 1
  <2>1. Anchored => Anchor <= ev.pu
    BY <1>6 DEF Stand
  <2> QED
    BY <1>1, <1>2, <1>4, <2>1, DepthStand
<1>8. Stand' = ev.u \/ Stand' = First'
  BY <1>7 DEF Stand
<1>10. StandsBehind'
  <2>1. First' \in Nat /\ ev.u <= First'
    BY <1>4, <1>6
  <2> QED
    BY <1>8, <2>1 DEF StandsBehind
<1>11. Missed' \subseteq Missed \ {ev.pu}
  <2> SUFFICES ASSUME NEW p \in Missed'
               PROVE  p \in Missed \ {ev.pu}
    OBVIOUS
  <2>1. p \in Starts' /\ p \notin Ends' /\ p # Stand'
    BY DEF Missed
  <2>2. /\ p \in Nat /\ First' \in Nat /\ p \in Starts
        /\ ev.u <= p /\ First' <= p /\ ev.u <= First'
    BY <1>4, <1>6, <2>1
  <2>3. ev.u < p
    BY <1>4, <1>8, <2>1, <2>2
  <2>4. p \notin Ends /\ p # Stand /\ p # ev.pu
    BY <1>4, <1>6, <2>1, <2>2, <2>3
  <2> QED
    BY <2>2, <2>4 DEF Missed
<1>12. /\ Misses \in Nat /\ Misses' \in Nat /\ Misses' <= Misses
       /\ ev.pu \in Missed => Misses' + 1 <= Misses
  BY <1>1, <1>11, FewerMissed, WireIds
<1>13. \/ book'.gap_count = book.gap_count
       \/ Misses' + 1 <= Misses /\ book'.gap_count = book.gap_count + 1
  BY <1>4, <1>7, <1>12 DEF Missed, Stand
<1>14. book'.gap_count \in Nat /\ book'.gap_count + Misses' <= losses + n
  <2>1. book.gap_count \in Nat /\ book.gap_count + Misses <= losses + n
    BY <1>3, BookIds DEF Accounted
  <2>2. ASSUME NEW g \in Nat, NEW m \in Nat, NEW k \in Nat, NEW l \in Nat, g + m <= l
        PROVE  /\ k <= m => g + k <= l
               /\ k + 1 <= m => (g + 1) + k <= l
    BY <2>2
  <2>3. losses + n \in Nat
    BY <1>1
  <2>4. CASE book'.gap_count = book.gap_count
    BY <1>12, <2>1, <2>2, <2>3, <2>4
  <2>5. CASE Misses' + 1 <= Misses /\ book'.gap_count = book.gap_count + 1
    <3>1. (book.gap_count + 1) + Misses' <= losses + n
      <4>1. Misses' + 1 <= Misses
        BY <2>5
      <4> QED
        BY <1>12, <2>1, <2>2, <2>3, <4>1
    <3>2. book'.gap_count = book.gap_count + 1 /\ book.gap_count + 1 \in Nat
      BY <2>1, <2>5
    <3> QED
      BY <3>1, <3>2
  <2> QED
    BY <1>13, <2>4, <2>5
<1>15. Accounted(n)'
  BY <1>1, <1>12, <1>14 DEF Accounted
<1> QED
  BY <1>5, <1>7, <1>10, <1>15 DEF InOrder

(* A step that leaves the stream alone keeps the account if the book stays *)
(* where it stands, or gives that up.                                      *)
LEMMA QuietAccounted ==
  ASSUME Typed, NEW n \in Nat, InOrder, Accounted(n), UNCHANGED <<wire, emitted, losses>>,
         Streaming' <=> Streaming, BufferInOrder',
         Anchored' => Anchored /\ Anchor' = Anchor,
         book'.gap_count = book.gap_count
  PROVE  InOrder' /\ Accounted(n)'
<1>1. WireInOrder' /\ WireInOrder /\ Stand <= First
  BY DEF InOrder, WireInOrder, StandsBehind
<1>2. Missed' \subseteq Missed /\ Stand' <= First'
  BY <1>1, SameWire
<1>3. IsFiniteSet(Missed) /\ Misses \in Nat /\ losses \in Nat /\ book.gap_count \in Nat
  BY <1>1, WireIds, BookIds DEF Typed, TypeOK
<1>4. Misses' \in Nat /\ Misses' <= Misses
  BY <1>2, <1>3, FS_Subset, FS_CardinalityType DEF Misses
<1>5. Streaming => book'.gap_count + Misses' <= losses' + n
  <2> SUFFICES ASSUME Streaming PROVE book'.gap_count + Misses' <= losses' + n
    OBVIOUS
  <2>1. book.gap_count + Misses <= losses + n
    BY DEF Accounted
  <2> QED
    BY <1>3, <1>4, <2>1
<1> QED
  BY <1>1, <1>2, <1>5 DEF InOrder, Accounted, StandsBehind

(* The same, of a step that leaves the book alone too. *)
LEMMA IdleAccounted ==
  ASSUME Typed, NEW n \in Nat, InOrder, Accounted(n), UNCHANGED <<wire, emitted, losses, book>>,
         \/ UNCHANGED shard
         \/ shard \in {"requesting", "publishing"} /\ shard' = "reading"
         \/ shard = "aborting" /\ shard' = "offline"
  PROVE  InOrder' /\ Accounted(n)'
<1>1. Streaming' <=> Streaming
  BY DEF Streaming
<1>2. BufferInOrder'
  BY DEF InOrder, BufferInOrder
<1>3. Anchored' => Anchored /\ Anchor' = Anchor
  BY DEF Anchored, Anchor
<1> QED
  BY <1>1, <1>2, <1>3, QuietAccounted

(* A book that is reset or marked for a resync owes no more. *)
LEMMA ClearAccounted ==
  ASSUME Typed, NEW n \in Nat, InOrder, Accounted(n), UNCHANGED <<wire, emitted, losses>>,
         \/ Reset /\ shard = "resetting" /\ shard' = "aborting"
         \/ MarkForResync /\ book.state = "live" /\ UNCHANGED shard
  PROVE  InOrder' /\ Accounted(n)'
<1>1. BufferInOrder' /\ ~Anchored' /\ book'.gap_count = book.gap_count
  BY ClearStand
<1>2. Streaming' <=> Streaming
  BY DEF Streaming
<1> QED
  BY <1>1, <1>2, QuietAccounted

(* A connection that is lost takes its events with it. *)
LEMMA LostAccounted ==
  ASSUME Typed, NEW n \in Nat, InOrder, Accounted(n), UNCHANGED <<emitted, losses, book>>,
         wire' = <<>>, shard' \notin {"reading", "requesting", "publishing"}
  PROVE  InOrder' /\ Accounted(n)'
<1>1. ~Streaming'
  BY DEF Streaming
<1>2. WireInOrder' /\ BufferInOrder'
  BY DEF InOrder, WireInOrder, BufferInOrder
<1>3. First' = emitted /\ First <= emitted /\ First \in Nat /\ emitted \in Nat
  BY WireIds DEF First, InOrder, Typed, TypeOK
<1>4. Stand \in Nat /\ Stand <= First
  BY <1>3, BookIds DEF InOrder, StandsBehind, Stand
<1>5. Stand' = Stand \/ Stand' = First'
  BY DEF Stand, Anchored, Anchor
<1>6. Stand' <= First'
  BY <1>3, <1>4, <1>5
<1> QED
  BY <1>1, <1>2, <1>6 DEF InOrder, Accounted, StandsBehind

(* A new connection starts where the stream is.  A book that has been      *)
(* reset stands nowhere, and misses nothing; another may miss what was     *)
(* sent in between, which is one event to it.                              *)
LEMMA ConnectAccounted ==
  ASSUME Typed, NEW n \in Nat, InOrder, Accounted(n), Connect,
         Anchored => book.gap_count + 1 <= losses + n
  PROVE  InOrder' /\ Accounted(n)'
<1>1. /\ shard = "offline" /\ shard' = "reading" /\ ~Streaming /\ wire = <<>>
      /\ wire' = <<>> /\ emitted' = emitted /\ losses' = losses /\ book' = book
      /\ emitted \in Nat /\ losses \in Nat /\ book.gap_count \in Nat
  BY BookIds DEF Connect, venue, bookVars, Streaming, InOrder, WireInOrder, Typed, TypeOK
<1>2. WireInOrder' /\ BufferInOrder'
  BY <1>1 DEF InOrder, WireInOrder, BufferInOrder
<1>3. First' = emitted /\ First = emitted /\ Starts' = {emitted}
  BY <1>1 DEF First, Starts
<1>4. Stand' = Stand
  BY <1>1, <1>3 DEF Stand, Anchored, Anchor
<1>5. StandsBehind'
  BY <1>3, <1>4 DEF InOrder, StandsBehind
<1>6. Misses' \in Nat /\ Misses' <= 1 /\ (~Anchored => Misses' = 0)
  <2>1. Missed' \subseteq {emitted} /\ (~Anchored => Missed' = {})
    BY <1>3, <1>4 DEF Missed, Stand
  <2>2. IsFiniteSet({emitted}) /\ Cardinality({emitted}) = 1
    BY FS_Singleton
  <2> QED
    BY <2>1, <2>2, FS_Subset, FS_CardinalityType, FS_EmptySet DEF Misses
<1>7. book.gap_count + Misses' <= losses + n
  <2>1. book.gap_count <= losses + n
    BY DEF Accounted
  <2>2. CASE Anchored
    BY <1>1, <1>6, <2>2
  <2>3. CASE ~Anchored
    BY <1>1, <1>6, <2>1, <2>3
  <2> QED
    BY <2>2, <2>3
<1> QED
  BY <1>1, <1>2, <1>5, <1>7 DEF InOrder, Accounted

(* An event that is sent starts where the last one ended. *)
LEMMA EmitAccounted ==
  ASSUME Typed, NEW n \in Nat, InOrder, Accounted(n), Emit
  PROVE  InOrder' /\ Accounted(n)'
<1> DEFINE ev == [U |-> emitted + 1, u |-> vnow, pu |-> emitted]
<1>1. /\ emitted < vnow /\ emitted' = vnow /\ emitted \in Nat /\ vnow \in Nat
      /\ UNCHANGED <<losses, shard, book>> /\ losses \in Nat /\ book.gap_count \in Nat
      /\ wire \in Seq(StreamEvent)
  BY BookIds DEF Emit, Typed, TypeOK, StreamOK, bookVars
<1>2. /\ BufferInOrder' /\ book'.gap_count <= losses' + n /\ WireInOrder
      /\ Streaming' <=> Streaming
  BY <1>1 DEF InOrder, BufferInOrder, Accounted, Streaming
<1>3. CASE ~Streaming
  <2>1. wire = <<>> /\ wire' = <<>>
    BY <1>2, <1>3 DEF Emit, WireInOrder
  <2>2. First' = vnow /\ First = emitted
    BY <1>1, <2>1 DEF First
  <2>3. Stand' = Stand \/ Stand' = First'
    BY <1>1 DEF Stand, Anchored, Anchor
  <2>4. Stand \in Nat /\ Stand <= emitted
    BY <1>1, <2>2, BookIds DEF InOrder, StandsBehind, Stand
  <2>5. StandsBehind'
    BY <1>1, <2>2, <2>3, <2>4 DEF StandsBehind
  <2> QED
    BY <1>2, <1>3, <2>1, <2>5 DEF InOrder, WireInOrder, Accounted
<1>4. CASE Streaming
  <2>1. wire' = Append(wire, ev)
    BY <1>4 DEF Emit
  <2>2. /\ ev.pu = emitted /\ ev.u = vnow
    OBVIOUS
  <2> HIDE DEF ev
  <2>3. /\ Len(wire) \in Nat /\ DOMAIN wire = 1..Len(wire)
        /\ DOMAIN wire' = 1..(Len(wire) + 1)
        /\ wire'[Len(wire) + 1] = ev /\ wire' # <<>>
        /\ \A i \in DOMAIN wire : wire'[i] = wire[i]
        /\ wire # <<>> => 1 \in DOMAIN wire
        /\ wire = <<>> => Len(wire) = 0
    BY <1>1, <2>1
  <2>4. \A i \in DOMAIN wire' : i \in DOMAIN wire \/ i = Len(wire) + 1
    BY <2>3
  <2>5. /\ \A i, j \in DOMAIN wire : i < j => wire[i].u <= wire[j].pu
        /\ \A i \in DOMAIN wire : wire[i].u <= emitted /\ wire[i].u \in Nat
    BY <1>1, <1>2, StreamEventIds DEF WireInOrder
  <2>6. \A i, j \in DOMAIN wire' : i < j => wire'[i].u <= wire'[j].pu
    <3> SUFFICES ASSUME NEW i \in DOMAIN wire', NEW j \in DOMAIN wire', i < j
                 PROVE  wire'[i].u <= wire'[j].pu
      OBVIOUS
    <3>1. i \in DOMAIN wire
      BY <2>3
    <3>2. CASE j \in DOMAIN wire
      BY <2>3, <2>5, <3>1, <3>2
    <3>3. CASE j = Len(wire) + 1
      BY <2>2, <2>3, <2>5, <3>1, <3>3
    <3> QED
      BY <2>4, <3>2, <3>3
  <2>7. \A i \in DOMAIN wire' : wire'[i].u <= emitted'
    <3> SUFFICES ASSUME NEW i \in DOMAIN wire' PROVE wire'[i].u <= vnow
      BY <1>1
    <3>1. CASE i \in DOMAIN wire
      <4>1. wire[i].u \in Nat /\ wire[i].u <= emitted
        BY <2>5, <3>1
      <4> QED
        BY <1>1, <2>3, <3>1, <4>1
    <3>2. CASE i = Len(wire) + 1
      BY <1>1, <2>2, <2>3, <3>2
    <3> QED
      BY <2>4, <3>1, <3>2
  <2>8. WireInOrder'
    BY <1>2, <1>4, <2>6, <2>7 DEF WireInOrder
  <2>9. First' = First
    BY <2>2, <2>3 DEF First
  <2>10. Starts' \subseteq Starts \cup {vnow}
    <3> SUFFICES ASSUME NEW p \in Starts' PROVE p \in Starts \cup {vnow}
      OBVIOUS
    <3>1. CASE p = emitted'
      BY <1>1, <3>1
    <3>2. ASSUME NEW i \in DOMAIN wire', p = wire'[i].pu
          PROVE  p \in Starts
      <4>1. CASE i \in DOMAIN wire
        BY <2>3, <3>2, <4>1 DEF Starts
      <4>2. CASE i = Len(wire) + 1
        BY <2>2, <2>3, <3>2, <4>2 DEF Starts
      <4> QED
        BY <2>4, <4>1, <4>2
    <3> QED
      BY <3>1, <3>2 DEF Starts
  <2>11. Ends \cup {vnow} \subseteq Ends'
    <3>1. vnow \in Ends'
      BY <2>2, <2>3 DEF Ends
    <3>2. Ends \subseteq Ends'
      BY <2>3 DEF Ends
    <3> QED
      BY <3>1, <3>2
  <2>12. Stand' = Stand
    BY <1>1, <2>9 DEF Stand, Anchored, Anchor
  <2>13. Missed' \subseteq Missed
    BY <2>10, <2>11, <2>12 DEF Missed
  <2>14. IsFiniteSet(Missed) /\ Misses \in Nat
    BY <1>2, WireIds
  <2>15. Misses' \in Nat /\ Misses' <= Misses
    BY <2>13, <2>14, FS_Subset, FS_CardinalityType DEF Misses
  <2>16. book.gap_count + Misses <= losses + n /\ Stand <= First
    BY <1>4 DEF Accounted, InOrder, StandsBehind
  <2>17. book'.gap_count + Misses' <= losses' + n
    BY <1>1, <2>14, <2>15, <2>16
  <2> QED
    BY <1>2, <2>8, <2>9, <2>12, <2>16, <2>17 DEF InOrder, Accounted, StandsBehind
<1> QED
  BY <1>3, <1>4

(* A skipped event is one more miss, and one more loss. *)
LEMMA SkipAccounted ==
  ASSUME Typed, NEW n \in Nat, InOrder, Accounted(n), Skip
  PROVE  InOrder' /\ Accounted(n)'
<1>1. /\ emitted < vnow /\ emitted' = vnow /\ emitted \in Nat /\ vnow \in Nat
      /\ UNCHANGED <<wire, shard, book>> /\ losses \in Nat /\ book.gap_count \in Nat
      /\ wire \in Seq(StreamEvent) /\ losses' = losses + 1 /\ Streaming /\ Streaming'
  BY BookIds DEF Skip, Typed, TypeOK, StreamOK, bookVars, Streaming
<1>2. BufferInOrder' /\ WireInOrder
  BY <1>1 DEF InOrder, BufferInOrder
<1>3. WireInOrder'
  <2>1. \A i \in DOMAIN wire : wire[i].u \in Nat /\ wire[i].u <= emitted
    BY <1>1, <1>2, StreamEventIds DEF WireInOrder
  <2>2. \A i \in DOMAIN wire : wire[i].u <= vnow
    BY <1>1, <2>1
  <2> QED
    BY <1>1, <1>2, <2>2 DEF WireInOrder
<1>4. Starts' \subseteq Starts \cup {vnow} /\ Ends' = Ends
  BY <1>1 DEF Starts, Ends
<1>5. /\ First' \in Nat /\ First \in Nat /\ First <= First'
      /\ First' = First \/ (First' = vnow /\ First = emitted)
  <2>1. CASE wire = <<>>
    BY <1>1, <2>1 DEF First
  <2>2. CASE wire # <<>>
    <3>1. First' = First
      BY <1>1, <2>2 DEF First
    <3>2. First \in Nat
      BY <1>2, WireIds
    <3> QED
      BY <3>1, <3>2
  <2> QED
    BY <2>1, <2>2
<1>6. /\ Stand \in Nat /\ Stand <= First /\ Stand' <= First'
      /\ Stand' = Stand \/ (Stand' = First' /\ Stand = First)
  <2>1. Stand <= First
    BY <1>1 DEF InOrder, StandsBehind
  <2>2. Anchored' = Anchored /\ Anchor' = Anchor
    BY <1>1 DEF Anchored, Anchor
  <2>3. CASE Anchored
    BY <1>5, <2>1, <2>2, <2>3, BookIds DEF Stand
  <2>4. CASE ~Anchored
    BY <1>5, <2>1, <2>2, <2>4 DEF Stand
  <2> QED
    BY <2>3, <2>4
<1>7. Missed' \subseteq Missed \cup {vnow}
  <2> SUFFICES ASSUME NEW p \in Missed', p # vnow PROVE p \in Missed
    OBVIOUS
  <2>1. p \in Starts' /\ p \in Starts /\ p \notin Ends /\ p # Stand'
    BY <1>4 DEF Missed
  <2>2. p # Stand
    <3>1. CASE Stand' = Stand
      BY <2>1, <3>1
    <3>2. CASE Stand' = First' /\ Stand = First /\ First' = First
      BY <2>1, <3>2
    <3>3. CASE Stand' = First' /\ Stand = First /\ First' = vnow /\ First = emitted
      <4>1. wire = <<>>
        <5> SUFFICES ASSUME wire # <<>> PROVE FALSE
          OBVIOUS
        <5>1. First' = First
          BY <1>1 DEF First
        <5> QED
          BY <1>1, <3>3, <5>1
      <4>2. Starts' = {vnow}
        BY <1>1, <4>1 DEF Starts
      <4> QED
        BY <2>1, <4>2
    <3> QED
      BY <1>5, <1>6, <3>1, <3>2, <3>3
  <2> QED
    BY <2>1, <2>2 DEF Missed
<1>8. IsFiniteSet(Missed) /\ Misses \in Nat
  BY <1>2, WireIds
<1>9. /\ IsFiniteSet(Missed \cup {vnow})
      /\ Cardinality(Missed \cup {vnow}) \in {Misses, Misses + 1}
  BY <1>8, FS_AddElement DEF Misses
<1>10. Misses' \in Nat /\ Misses' <= Cardinality(Missed \cup {vnow})
  BY <1>7, <1>9, FS_Subset, FS_CardinalityType DEF Misses
<1>11. book.gap_count + Misses <= losses + n
  BY <1>1 DEF Accounted
<1>12. book'.gap_count + Misses' <= losses' + n /\ book'.gap_count <= losses' + n
  BY <1>1, <1>8, <1>9, <1>10, <1>11
<1> QED
  BY <1>2, <1>3, <1>6, <1>12 DEF InOrder, Accounted, StandsBehind

(* Each step of run_shard but a connection and its loss keeps the account. *)
LEMMA ShardAccounted ==
  ASSUME Typed, NEW n \in Nat, InOrder, Accounted(n),
         Read \/ RequestSync \/ Publish \/ AbortSyncs \/ ResetBook
  PROVE  InOrder' /\ Accounted(n)'
<1>1. CASE Read
  BY <1>1, ReadAccounted
<1>2. CASE RequestSync \/ Publish \/ AbortSyncs
  BY <1>2, IdleAccounted DEF RequestSync, Publish, AbortSyncs, venue, bookVars
<1>3. CASE ResetBook
  BY <1>3, ClearAccounted DEF ResetBook, venue
<1> QED
  BY <1>1, <1>2, <1>3

(* Each step of a sync task does, and gives the book no new place. *)
LEMMA SyncAccounted ==
  ASSUME Typed, NEW n \in Nat, InOrder, Accounted(n), NEW t \in Tasks, Sync(t)
  PROVE  /\ InOrder' /\ Accounted(n)'
         /\ Anchored' => Anchored
         /\ book'.gap_count = book.gap_count
         /\ UNCHANGED <<shard, losses, disconnects>>
<1>1. CASE Check(t) \/ Serve(t) \/ Fail(t) \/ Hang(t) \/ Panic(t)
  <2>1. UNCHANGED <<wire, emitted, losses, book, shard, disconnects>>
    BY <1>1 DEF Check, Serve, Fail, Hang, Panic, Died, venue, bookVars, counts
  <2> QED
    BY <2>1, IdleAccounted DEF Anchored
<1>2. CASE Apply(t)
  <2>1. PICK ret \in BOOLEAN : TakeSnapshot(task[t].lui, ret)
    BY <1>2 DEF Apply
  <2>2. task[t].lui \in Nat
    BY DEF Typed, TypeOK, SyncTask
  <2>3. /\ BufferInOrder' /\ (Anchored' => Anchored /\ Anchor' = Anchor)
        /\ book'.gap_count = book.gap_count
    BY <2>1, <2>2, SnapshotStand DEF InOrder
  <2>4. UNCHANGED <<wire, emitted, losses, shard, disconnects>>
    BY <1>2 DEF Apply, venue
  <2>5. Streaming' <=> Streaming
    BY <2>4 DEF Streaming
  <2> QED
    BY <2>3, <2>4, <2>5, QuietAccounted
<1> QED
  BY <1>1, <1>2 DEF Sync

(* So does the sweeper. *)
LEMMA SweeperAccounted ==
  ASSUME Typed, NEW n \in Nat, InOrder, Accounted(n), Sweeper
  PROVE  /\ InOrder' /\ Accounted(n)'
         /\ Anchored' => Anchored
         /\ book'.gap_count = book.gap_count
         /\ UNCHANGED <<shard, losses, disconnects>>
<1>1. CASE TakeStale
  <2>1. /\ UNCHANGED <<wire, emitted, losses, shard, disconnects>>
        /\ MarkForResync /\ book.state = "live"
    BY <1>1 DEF TakeStale, venue
  <2> QED
    BY <2>1, ClearAccounted, ClearStand
<1>2. CASE SpawnResync
  <2>1. UNCHANGED <<wire, emitted, losses, book, shard, disconnects>>
    BY <1>2 DEF SpawnResync, venue, bookVars, counts
  <2> QED
    BY <2>1, IdleAccounted DEF Anchored
<1> QED
  BY <1>1, <1>2 DEF Sweeper

(* At the start nothing is owed. *)
LEMMA InitAccounted == Init => InOrder /\ Accounted(0) /\ ~Anchored /\ disconnects = 0
<1> SUFFICES ASSUME Init PROVE InOrder /\ Accounted(0) /\ ~Anchored /\ disconnects = 0
  OBVIOUS
<1>1. /\ wire = <<>> /\ shard = "offline" /\ book = NewBook /\ losses = 0
      /\ emitted = 0 /\ disconnects = 0
  BY DEF Init, BookInit
<1>2. ~Streaming
  BY <1>1 DEF Streaming
<1>3. ~Anchored
  BY <1>1 DEF NewBook, Anchored
<1>4. Stand <= First
  BY <1>1, <1>3 DEF Stand, First
<1> QED
  BY <1>1, <1>2, <1>3, <1>4 DEF NewBook, InOrder, WireInOrder, BufferInOrder, StandsBehind,
     Accounted

(* In Rust no book is offline that has not been reset: each step keeps it. *)
LEMMA OfflineStep ==
  Typed /\ ResetOffline /\ [Next]_vars => ResetOffline'
<1> SUFFICES ASSUME Typed, ResetOffline, [Next]_vars PROVE ResetOffline'
  OBVIOUS
<1>1. CASE Venue \/ RequestSync \/ Publish \/ AbortSyncs \/ SpawnResync \/ UNCHANGED vars
  BY <1>1 DEF Venue, Tick, Emit, Skip, RequestSync, Publish, AbortSyncs, SpawnResync,
     bookVars, vars, ResetOffline
<1>2. CASE Connect \/ ShardPanic \/ Disconnect
  BY <1>2 DEF Connect, ShardPanic, Disconnect, ResetOffline
<1>3. CASE Read
  BY <1>3 DEF Read, Action, ResetOffline
<1>4. CASE ResetBook
  BY <1>4 DEF ResetBook, Reset, NewBook, ResetOffline
<1>5. CASE TakeStale
  BY <1>5 DEF TakeStale, ResetOffline
<1>6. ASSUME NEW t \in Tasks, Sync(t) PROVE ResetOffline'
  <2>1. UNCHANGED shard
    BY <1>6 DEF Sync, Check, Serve, Fail, Apply, Hang, Panic, Died
  <2>2. book.state = "uninitialized" => UNCHANGED book
    BY <1>6 DEF Sync, Check, Serve, Fail, Apply, Hang, Panic, Died, bookVars, TakeSnapshot,
       UnwantedSnapshot, RejectSnapshot, ApplySnapshot
  <2> QED
    BY <2>1, <2>2 DEF ResetOffline
<1> QED
  BY <1>1, <1>2, <1>3, <1>4, <1>5, <1>6 DEF Next, Shard, Sweeper

(* A new book is as if reset. *)
LEMMA InitOffline == Init => ResetOffline
BY DEF Init, BookInit, NewBook, ResetOffline

(* So it is throughout. *)
LEMMA OfflineIsReset == Spec => []ResetOffline
BY InitOffline, OfflineStep, TypedInvariant, BothAreEither, PTL DEF Spec

(* So each step of the Rust program keeps the account ... *)
LEMMA AccountedStep ==
  Typed /\ ResetOffline /\ InOrder /\ Accounted(0) /\ [Next]_vars
    => InOrder' /\ Accounted(0)'
<1> SUFFICES ASSUME Typed, ResetOffline, InOrder, Accounted(0), [Next]_vars
             PROVE  InOrder' /\ Accounted(0)'
  OBVIOUS
<1>0. 0 \in Nat
  OBVIOUS
<1>1. CASE Tick
  BY <1>0, <1>1, IdleAccounted DEF Tick, bookVars
<1>2. CASE UNCHANGED vars
  BY <1>0, <1>2, IdleAccounted DEF vars
<1>3. CASE Connect
  <2>1. ~Anchored
    BY <1>3 DEF Connect, ResetOffline, Anchored
  <2> QED
    BY <1>0, <1>3, <2>1, ConnectAccounted
<1>4. CASE ShardPanic \/ Disconnect
  BY <1>0, <1>4, LostAccounted DEF ShardPanic, Disconnect, venue, bookVars
<1> QED
  BY <1>0, <1>1, <1>2, <1>3, <1>4, EmitAccounted, SkipAccounted, ShardAccounted,
     SyncAccounted, SweeperAccounted DEF Next, Venue, Shard

(* ... and it holds throughout. *)
LEMMA AccountedInvariant == Spec => [](InOrder /\ Accounted(0))
BY InitAccounted, AccountedStep, TypedInvariant, OfflineIsReset, BothAreEither, PTL DEF Spec

(* Every gap the book reports is an event the venue skipped: reconnects,   *)
(* sweeps, retried snapshots and events dropped from a full buffer raise   *)
(* none, with any number of tasks, updates and buffer slots.               *)
THEOREM GapsAreLosses == Spec => []NoFalseGap
<1>1. Typed /\ Accounted(0) => NoFalseGap
  BY DEF Typed, TypeOK, Accounted, NoFalseGap
<1> QED
  BY <1>1, TypedInvariant, AccountedInvariant, BothAreEither, PTL

(* What a book that a clean close leaves standing owes to what is sent     *)
(* before the next connection.                                             *)
Standing == ~Streaming /\ Anchored => book.gap_count + 1 <= losses + disconnects

(* In the Python program a book is not reset when its connection is closed *)
(* in order, and takes what it missed for a gap: one for each connection   *)
(* that was lost, and no more, is not a loss.                              *)
THEOREM PyGapsAreLossesOrCloses == PySpec => [](book.gap_count <= losses + disconnects)
<1> DEFINE Inv == InOrder /\ Accounted(disconnects) /\ Standing
<1>1. Init => Inv
  BY InitAccounted DEF Standing
<1>2. Typed /\ Typed' /\ Inv /\ [PyNext]_vars => Inv'
  <2> SUFFICES ASSUME Typed, Typed', Inv, [PyNext]_vars PROVE Inv'
    OBVIOUS
  <2>1. /\ disconnects \in Nat /\ losses \in Nat /\ book.gap_count \in Nat
        /\ book'.gap_count \in Nat /\ losses' \in Nat
    BY BookIds DEF Typed, TypeOK, BookTypeOK
  <2>2. PICK n \in Nat : n = disconnects
    BY <2>1
  <2>3. Accounted(n) /\ InOrder
    BY <2>2
  <2>4. ASSUME InOrder', Accounted(n)', UNCHANGED disconnects,
               \/ Streaming'
               \/ /\ ~Streaming /\ UNCHANGED losses /\ (Anchored' => Anchored)
                  /\ book'.gap_count = book.gap_count
        PROVE  Inv'
    <3>1. Accounted(disconnects)'
      BY <2>2, <2>4
    <3>2. Standing'
      BY <2>4 DEF Standing
    <3> QED
      BY <2>4, <3>1, <3>2
  <2>5. ASSUME InOrder', Accounted(n)', ~Streaming', disconnects' = disconnects + 1,
               UNCHANGED losses, book'.gap_count = book.gap_count
        PROVE  Inv'
    <3>1. book.gap_count <= losses + n
      BY <2>3 DEF Accounted
    <3>2. book.gap_count + 1 <= losses + (n + 1) /\ book.gap_count <= losses + (n + 1)
      BY <2>1, <3>1
    <3>3. disconnects' = n + 1
      BY <2>2, <2>5
    <3>4. Accounted(disconnects)' /\ Standing'
      BY <2>5, <3>2, <3>3 DEF Accounted, Standing
    <3> QED
      BY <2>5, <3>4
  <2> HIDE DEF Inv
  <2>6. CASE Tick \/ UNCHANGED vars
    <3>1. UNCHANGED <<wire, emitted, losses, shard, book, disconnects>>
      BY <2>6 DEF Tick, vars, bookVars, counts
    <3>2. InOrder' /\ Accounted(n)'
      BY <2>3, <3>1, IdleAccounted
    <3> QED
      BY <2>4, <3>1, <3>2 DEF Streaming, Anchored
  <2>7. CASE Emit \/ Skip
    <3>1. InOrder' /\ Accounted(n)'
      BY <2>3, <2>7, EmitAccounted, SkipAccounted
    <3>2. /\ UNCHANGED <<shard, book, disconnects>>
          /\ UNCHANGED losses \/ Streaming
      BY <2>7 DEF Emit, Skip, bookVars, counts
    <3> QED
      BY <2>4, <3>1, <3>2 DEF Streaming, Anchored
  <2>8. CASE Connect
    <3>1. ~Streaming /\ Streaming' /\ UNCHANGED disconnects
      BY <2>8 DEF Connect, Streaming, counts
    <3>2. Anchored => book.gap_count + 1 <= losses + n
      BY <2>2, <3>1 DEF Inv, Standing
    <3>3. InOrder' /\ Accounted(n)'
      BY <2>3, <2>8, <3>2, ConnectAccounted
    <3> QED
      BY <2>4, <3>1, <3>3
  <2>9. CASE Disconnect \/ CleanClose
    <3>1. /\ UNCHANGED <<emitted, losses, book>> /\ wire' = <<>>
          /\ shard' \in {"resetting", "offline"} /\ disconnects' = disconnects + 1
      BY <2>9 DEF Disconnect, CleanClose, venue, bookVars
    <3>2. InOrder' /\ Accounted(n)'
      BY <2>3, <3>1, LostAccounted
    <3> QED
      BY <2>5, <3>1, <3>2 DEF Streaming
  <2>10. CASE Read \/ RequestSync \/ Publish \/ AbortSyncs \/ ResetBook
    <3>1. InOrder' /\ Accounted(n)'
      BY <2>3, <2>10, ShardAccounted
    <3>2. CASE Read \/ RequestSync \/ Publish
      <4>1. Streaming' /\ UNCHANGED disconnects
        BY <3>2 DEF Read, RequestSync, Publish, Streaming, Action, counts
      <4> QED
        BY <2>4, <3>1, <4>1
    <3>3. CASE AbortSyncs
      <4>1. ~Streaming /\ UNCHANGED <<losses, book, disconnects>>
        BY <3>3 DEF AbortSyncs, Streaming, venue, bookVars, counts
      <4> QED
        BY <2>4, <3>1, <4>1 DEF Anchored
    <3>4. CASE ResetBook
      <4>1. ~Streaming /\ UNCHANGED <<losses, disconnects>> /\ Reset
        BY <3>4 DEF ResetBook, Streaming, venue
      <4>2. ~Anchored' /\ book'.gap_count = book.gap_count
        BY <4>1, ClearStand
      <4> QED
        BY <2>4, <3>1, <4>1, <4>2
    <3> QED
      BY <2>10, <3>2, <3>3, <3>4
  <2>11. ASSUME NEW t \in Tasks, PySyncTask(t) PROVE Inv'
    <3>1. Sync(t)
      BY <2>11 DEF PySyncTask, Sync
    <3> QED
      BY <2>3, <2>4, <3>1, SyncAccounted DEF Streaming
  <2>12. CASE PySweeper
    <3>1. Sweeper
      BY <2>12 DEF PySweeper, Sweeper
    <3> QED
      BY <2>3, <2>4, <3>1, SweeperAccounted DEF Streaming
  <2> QED
    BY <2>6, <2>7, <2>8, <2>9, <2>10, <2>11, <2>12 DEF PyNext, PyShard, Venue
<1>3. Inv => book.gap_count <= losses + disconnects
  BY DEF Accounted
<1> QED
  BY <1>1, <1>2, <1>3, TypedInvariant, BothAreEither, PTL DEF PySpec

-----------------------------------------------------------------------------
(* Events of updates the venue has made by n. *)
PastEvent(n) == {ev \in StreamEvent : ev.u <= n}

(* Nobody knows of an update the venue has not made. *)
Past ==
  /\ emitted <= vnow
  /\ wire \in Seq(PastEvent(vnow)) /\ book.buffer \in Seq(PastEvent(vnow))
  /\ book.last_update_id <= vnow
  /\ \A t \in Tasks : task[t].lui <= vnow

(* What is past stays past. *)
LEMMA PastSeqs ==
  ASSUME NEW n \in Nat
  PROVE  /\ <<>> \in Seq(PastEvent(n))
         /\ \A ev \in PastEvent(n) : <<ev>> \in Seq(PastEvent(n)) /\ ev \in StreamEvent /\ ev.u <= n
         /\ \A s \in Seq(PastEvent(n)) : s \in Seq(PastEvent(n + 1))
<1>1. PastEvent(n) \subseteq PastEvent(n + 1)
  BY StreamEventIds DEF PastEvent
<1>2. \A s \in Seq(PastEvent(n)) : s \in Seq(PastEvent(n + 1))
  BY <1>1
<1> QED
  BY <1>2 DEF PastEvent

(* A replay ends at the snapshot or at an event of the buffer. *)
LEMMA ReplayedToPast ==
  ASSUME NEW n \in Nat, NEW buf \in Seq(PastEvent(n)), NEW lui \in Nat, lui <= n
  PROVE  ReplayedTo(buf, lui) <= n
<1> DEFINE R == Replayed(buf, lui)
<1>1. /\ Len(buf) \in Nat /\ R \in SUBSET (1..Len(buf))
      /\ \A i \in R : buf[i] \in PastEvent(n)
  BY ReplayableType
<1>2. ReplayedTo(buf, lui) = IF R = {} THEN lui ELSE buf[Max(R)].u
  BY DEF ReplayedTo
<1> HIDE DEF R
<1>3. R # {} => Max(R) \in R
  BY <1>1, MaxIsGreatest
<1> QED
  BY <1>1, <1>2, <1>3 DEF PastEvent

(* A depth event brings the book no id of the future. *)
LEMMA DepthPast ==
  ASSUME Typed, Past, NEW ev \in PastEvent(vnow), NEW ret, TakeDepth(ev, ret)
  PROVE  book'.buffer \in Seq(PastEvent(vnow)) /\ book'.last_update_id <= vnow
<1>1. vnow \in Nat /\ ev.u <= vnow /\ <<ev>> \in Seq(PastEvent(vnow))
  BY PastSeqs DEF Typed, TypeOK
<1>2. CASE BufferDepth(ev, ret)
  <2>1. Push(book.buffer, ev) \in Seq(PastEvent(vnow))
    BY PushType DEF Past
  <2> QED
    BY <1>2, <2>1 DEF BufferDepth, Typed, TypeOK, BookTypeOK, Past
<1>3. CASE IgnoreDepth(ev, ret)
  BY <1>3 DEF IgnoreDepth, Past
<1>4. CASE GapDepth(ev, ret)
  BY <1>1, <1>4 DEF GapDepth, Typed, TypeOK, BookTypeOK, Past
<1>5. ASSUME NEW sound \in BOOLEAN, ApplyDepth(ev, sound, ret)
      PROVE  book'.buffer \in Seq(PastEvent(vnow)) /\ book'.last_update_id <= vnow
  BY <1>1, <1>5 DEF ApplyDepth, Typed, TypeOK, BookTypeOK, Past
<1> QED
  BY <1>2, <1>3, <1>4, <1>5 DEF TakeDepth

(* Nor does a snapshot. *)
LEMMA SnapshotPast ==
  ASSUME Typed, Past, NEW lui \in Nat, lui <= vnow, NEW ret, TakeSnapshot(lui, ret)
  PROVE  book'.buffer \in Seq(PastEvent(vnow)) /\ book'.last_update_id <= vnow
<1>1. vnow \in Nat /\ <<>> \in Seq(PastEvent(vnow))
  BY PastSeqs DEF Typed, TypeOK
<1>2. ReplayedTo(book.buffer, lui) <= vnow
  BY <1>1, ReplayedToPast DEF Past
<1>3. CASE UnwantedSnapshot(ret)
  BY <1>3 DEF UnwantedSnapshot, Past
<1>4. CASE RejectSnapshot(lui, ret)
  BY <1>1, <1>2, <1>4 DEF RejectSnapshot, Typed, TypeOK, BookTypeOK
<1>5. ASSUME NEW sound \in BOOLEAN, ApplySnapshot(lui, sound, ret)
      PROVE  book'.buffer \in Seq(PastEvent(vnow)) /\ book'.last_update_id <= vnow
  BY <1>1, <1>2, <1>5 DEF ApplySnapshot, Typed, TypeOK, BookTypeOK
<1> QED
  BY <1>3, <1>4, <1>5 DEF TakeSnapshot

(* A cleared book knows nothing. *)
LEMMA ClearPast ==
  ASSUME Typed, Reset \/ MarkForResync
  PROVE  book'.buffer \in Seq(PastEvent(vnow)) /\ book'.last_update_id <= vnow
<1>1. vnow \in Nat /\ <<>> \in Seq(PastEvent(vnow))
  BY PastSeqs DEF Typed, TypeOK
<1>2. \E st \in {"uninitialized", "buffering"} :
        book' = [state |-> st, last_update_id |-> 0, buffer |-> <<>>,
                 need_first_event |-> FALSE, gap_count |-> book.gap_count]
  BY DEF Reset, MarkForResync, NewBook
<1> QED
  BY <1>1, <1>2

(* So it is in every step. *)
LEMMA PastInvariant == EitherSpec => []Past
<1>1. Init => Past
  <2> SUFFICES ASSUME Init PROVE Past
    OBVIOUS
  <2>1. <<>> \in Seq(PastEvent(0))
    BY PastSeqs
  <2> QED
    BY <2>1 DEF Init, BookInit, NewBook, Idle, Past
<1>2. Typed /\ Past /\ [EitherNext]_vars => Past'
  <2> SUFFICES ASSUME Typed, Past, [EitherNext]_vars PROVE Past'
    OBVIOUS
  <2>0. vnow \in Nat /\ emitted \in Nat /\ <<>> \in Seq(PastEvent(vnow))
    BY PastSeqs DEF Typed, TypeOK
  <2>1. CASE Tick
    <3>1. /\ vnow' = vnow + 1
          /\ UNCHANGED <<emitted, wire, book, task>>
      BY <2>1 DEF Tick, bookVars
    <3>2. wire \in Seq(PastEvent(vnow + 1)) /\ book.buffer \in Seq(PastEvent(vnow + 1))
      BY <2>0, PastSeqs DEF Past
    <3>3. book.last_update_id \in Nat /\ \A t \in Tasks : task[t].lui \in Nat
      BY DEF Typed, TypeOK, BookTypeOK, SyncTask
    <3> QED
      BY <2>0, <3>1, <3>2, <3>3 DEF Past
  <2>2. CASE Emit
    <3> DEFINE ev == [U |-> emitted + 1, u |-> vnow, pu |-> emitted]
    <3>1. ev \in PastEvent(vnow)
      BY <2>0, <2>2 DEF Emit, PastEvent, StreamEvent
    <3>2. wire' = wire \/ wire' = Append(wire, ev)
      BY <2>2 DEF Emit
    <3> HIDE DEF ev
    <3>3. wire' \in Seq(PastEvent(vnow))
      BY <3>1, <3>2 DEF Past
    <3> QED
      BY <2>0, <2>2, <3>3 DEF Emit, Past, bookVars
  <2>3. CASE Skip
    BY <2>0, <2>3 DEF Skip, Past, bookVars
  <2>4. CASE Read
    <3>1. Head(wire) \in PastEvent(vnow) /\ Tail(wire) \in Seq(PastEvent(vnow))
      BY <2>4 DEF Read, Past
    <3>2. book'.buffer \in Seq(PastEvent(vnow)) /\ book'.last_update_id <= vnow
      BY <2>4, <3>1, DepthPast DEF Read
    <3> QED
      BY <2>4, <3>1, <3>2 DEF Read, Past, venue
  <2>5. CASE Connect \/ ShardPanic \/ Publish \/ Disconnect \/ CleanClose
    BY <2>0, <2>5 DEF Connect, ShardPanic, Publish, Disconnect, CleanClose, Past, venue,
       bookVars
  <2>6. CASE RequestSync \/ AbortSyncs \/ SpawnResync
    <3>1. UNCHANGED <<vnow, emitted, wire, book>>
      BY <2>6 DEF RequestSync, AbortSyncs, SpawnResync, venue, bookVars
    <3>2. \A t \in Tasks : task'[t].lui = 0 \/ task'[t].lui = task[t].lui
      BY <2>6 DEF RequestSync, AbortSyncs, SpawnResync, Idle, Typed, TypeOK, SyncTask
    <3> QED
      BY <2>0, <3>1, <3>2 DEF Past
  <2>7. CASE ResetBook \/ TakeStale
    <3>1. book'.buffer \in Seq(PastEvent(vnow)) /\ book'.last_update_id <= vnow
      BY <2>7, ClearPast DEF ResetBook, TakeStale
    <3> QED
      BY <2>7, <3>1 DEF ResetBook, TakeStale, Past, venue
  <2>8. ASSUME NEW t \in Tasks, Check(t) \/ Fail(t) \/ Hang(t) \/ Panic(t) PROVE Past'
    <3>1. UNCHANGED <<vnow, emitted, wire, book>>
      BY <2>8 DEF Check, Fail, Hang, Panic, Died, venue, bookVars
    <3>2. task \in [Tasks -> SyncTask]
      BY DEF Typed, TypeOK
    <3>3. CASE Fail(t)
      <4>1. \A s \in Tasks : task'[s].lui = task[s].lui
        BY <3>2, <3>3 DEF Fail, SyncTask
      <4> QED
        BY <2>0, <3>1, <4>1 DEF Past
    <3>4. CASE Check(t) \/ Hang(t) \/ Panic(t)
      <4>1. \A s \in Tasks : task'[s].lui = 0 \/ task'[s].lui = task[s].lui
        BY <3>2, <3>4 DEF Check, Hang, Panic, Idle
      <4> QED
        BY <2>0, <3>1, <4>1 DEF Past
    <3> QED
      BY <2>8, <3>3, <3>4
  <2>9. ASSUME NEW t \in Tasks, Serve(t) PROVE Past'
    <3>1. UNCHANGED <<vnow, emitted, wire, book>>
      BY <2>9 DEF Serve, venue, bookVars
    <3>2. PICK lag \in 0..MaxLag :
            lag <= vnow /\ task' = [task EXCEPT ![t] = [pc |-> "reply", lui |-> vnow - lag]]
      BY <2>9 DEF Serve
    <3>3. lag \in Nat
      BY SyncAssumption DEF SyncAssumption
    <3>4. \A s \in Tasks : task'[s].lui <= vnow
      BY <2>0, <3>2, <3>3 DEF Typed, TypeOK, Past
    <3> QED
      BY <3>1, <3>4 DEF Past
  <2>10. ASSUME NEW t \in Tasks, Apply(t) PROVE Past'
    <3>1. task[t].lui \in Nat /\ task[t].lui <= vnow
      BY DEF Typed, TypeOK, SyncTask, Past
    <3>2. book'.buffer \in Seq(PastEvent(vnow)) /\ book'.last_update_id <= vnow
      BY <2>10, <3>1, SnapshotPast DEF Apply
    <3>3. \A s \in Tasks : task'[s].lui = 0 \/ task'[s].lui = task[s].lui
      BY <2>10 DEF Apply, Idle, Typed, TypeOK, SyncTask
    <3> QED
      BY <2>0, <2>10, <3>2, <3>3 DEF Apply, Past, venue
  <2>11. CASE UNCHANGED vars
    BY <2>11 DEF vars, Past
  <2> QED
    BY <2>1, <2>2, <2>3, <2>4, <2>5, <2>6, <2>7, <2>8, <2>9, <2>10, <2>11
       DEF EitherNext, Next, Venue, Shard, Sync, Sweeper
<1> QED
  BY <1>1, <1>2, TypedInvariant, PTL DEF EitherSpec

-----------------------------------------------------------------------------
(* What is readable, as ImplementsExactCopy has it. *)
Readable == IF book.state = "live" /\ proven THEN have ELSE {}

(* No step but the loss of the whole takes a level from a reader. *)
LEMMA ReadableGrows ==
  ASSUME Typed, [EitherNext]_vars, Readable' # {}, Readable' # Readable
  PROVE  vnow' = vnow /\ Readable \subseteq Readable'
<1>1. book'.state = "live" /\ proven'
  BY DEF Readable
<1>2. CASE Read
  <2>1. PICK ret \in Action : TakeDepth(Head(wire), ret)
    BY <1>2 DEF Read
  <2>2. have \subseteq have'
    BY <2>1 DEF TakeDepth
  <2> QED
    BY <1>1, <1>2, <2>2 DEF Read, venue, Readable
<1>3. ASSUME NEW t \in Tasks, Apply(t) PROVE vnow' = vnow /\ Readable \subseteq Readable'
  <2>1. PICK ret \in BOOLEAN : TakeSnapshot(task[t].lui, ret)
    BY <1>3 DEF Apply
  <2>2. CASE UnwantedSnapshot(ret) /\ UNCHANGED <<have, proven, stranded, unsound>>
    BY <2>2 DEF UnwantedSnapshot, Readable
  <2>3. CASE book.state = "buffering"
    BY <1>3, <2>3 DEF Apply, venue, Readable
  <2> QED
    BY <2>1, <2>2, <2>3 DEF TakeSnapshot, RejectSnapshot, ApplySnapshot
<1>4. CASE ResetBook \/ TakeStale
  BY <1>1, <1>4 DEF ResetBook, TakeStale, Cleared
<1>5. CASE Venue \/ Connect \/ ShardPanic \/ RequestSync \/ Publish \/ Disconnect
           \/ AbortSyncs \/ SpawnResync \/ CleanClose \/ UNCHANGED vars
  BY <1>5 DEF Venue, Tick, Emit, Skip, Connect, ShardPanic, RequestSync, Publish, Disconnect,
     AbortSyncs, SpawnResync, CleanClose, vars, bookVars, Readable
<1>6. ASSUME NEW t \in Tasks, Check(t) \/ Serve(t) \/ Fail(t) \/ Hang(t) \/ Panic(t)
      PROVE  vnow' = vnow /\ Readable \subseteq Readable'
  BY <1>6 DEF Check, Serve, Fail, Hang, Panic, Died, bookVars, Readable
<1> QED
  BY <1>2, <1>3, <1>4, <1>5, <1>6 DEF EitherNext, Next, Shard, Sync, Sweeper

(* So either program refines ExactCopy. *)
LEMMA EitherIsExactCopy == EitherSpec => ImplementsExactCopy
<1>1. Init => Copy!Init
  BY DEF Init, BookInit, NewBook, Copy!Init
<1>2. ASSUME Typed, Past, ProvenComplete, Typed', Past', ProvenComplete', [EitherNext]_vars
      PROVE  [Copy!Next]_(Copy!vars)
  <2>1. Readable = IF book.state = "live" /\ proven THEN have ELSE {}
    BY DEF Readable
  <2>2. SUFFICES \/ vnow' = vnow + 1 /\ Readable' = Readable
                 \/ /\ \E n \in 0..vnow : Readable' = 1..n
                    /\ Readable \subseteq Readable'
                    /\ vnow' = vnow
                 \/ Readable' = {} /\ vnow' = vnow
                 \/ vnow' = vnow /\ Readable' = Readable
    BY DEF Readable, Copy!Next, Copy!Tick, Copy!Sync, Copy!Lose, Copy!vars
  <2>3. vnow' = vnow \/ (vnow' = vnow + 1 /\ Readable' = Readable)
    <3>1. CASE Tick
      BY <3>1 DEF Tick, bookVars, Readable
    <3>2. CASE Emit \/ Skip \/ Shard \/ Sweeper \/ CleanClose \/ UNCHANGED vars
      BY <3>2 DEF Emit, Skip, Shard, Connect, Read, ShardPanic, RequestSync, Publish,
         Disconnect, ResetBook, AbortSyncs, Sweeper, TakeStale, SpawnResync, CleanClose,
         venue, vars
    <3>3. ASSUME NEW t \in Tasks, Sync(t) PROVE vnow' = vnow
      BY <3>3 DEF Sync, Check, Serve, Fail, Apply, Hang, Panic, Died, venue
    <3> QED
      BY <1>2, <3>1, <3>2, <3>3 DEF EitherNext, Next, Venue
  <2>4. Readable' = {} \/ \E n \in 0..vnow' : Readable' = 1..n
    <3>1. vnow' \in Nat /\ book'.last_update_id \in 0..vnow'
      BY <1>2 DEF Typed, TypeOK, BookTypeOK, Past
    <3> QED
      BY <1>2, <3>1 DEF Readable, ProvenComplete
  <2> QED
    BY <1>2, <2>3, <2>4, ReadableGrows
<1>3. Typed /\ Past /\ ProvenComplete /\ Typed' /\ Past' /\ ProvenComplete' /\ [EitherNext]_vars
        => [Copy!Next]_(Copy!vars)
  BY <1>2
<1>4. EitherSpec => Copy!Spec
  BY <1>1, <1>3, TypedInvariant, PastInvariant, ProvenInvariant, PTL
     DEF EitherSpec, Copy!Spec
<1> QED
  BY <1>4 DEF ImplementsExactCopy

(* To a reader of proven live books the program is an exact copy of the    *)
(* venue's book that only moves forward, or nothing.                       *)
THEOREM IsExactCopy == Spec => ImplementsExactCopy
BY EitherIsExactCopy, BothAreEither, PTL

(* So is the Python program: a clean close does not touch what a reader of *)
(* proven live books sees.                                                 *)
THEOREM PyIsExactCopy == PySpec => ImplementsExactCopy
BY EitherIsExactCopy, BothAreEither, PTL

-----------------------------------------------------------------------------
(* Why published ids increase: the wire holds events in ascending order,   *)
(* all beyond the last published id, and nobody touches the book between   *)
(* the event it took and its publication.                                  *)
Ascending ==
  /\ \A i \in DOMAIN wire : published < wire[i].u /\ wire[i].u <= emitted
  /\ \A i, j \in DOMAIN wire : i < j => wire[i].u < wire[j].u
  /\ published <= emitted
  /\ shard = "publishing" =>
       /\ book.state = "live" /\ published < book.last_update_id
       /\ book.last_update_id <= emitted
       /\ \A i \in DOMAIN wire : book.last_update_id < wire[i].u

(* A read leaves the rest of the wire in order, and beyond what was read. *)
LEMMA ReadAscends == ASSUME Typed, Past, Ascending, Read PROVE Ascending'
<1>1. /\ wire \in Seq(StreamEvent) /\ wire # <<>> /\ wire' = Tail(wire)
      /\ UNCHANGED <<emitted, published>>
  BY DEF Read, Typed, StreamOK, venue
<1>2. /\ \A i \in DOMAIN wire' : i + 1 \in DOMAIN wire /\ wire'[i] = wire[i + 1]
      /\ DOMAIN wire' \subseteq Nat \ {0}
      /\ 1 \in DOMAIN wire /\ Head(wire) = wire[1] /\ Head(wire) \in StreamEvent
  BY <1>1
<1>3. /\ \A i \in DOMAIN wire' : published < wire'[i].u /\ wire'[i].u <= emitted
      /\ \A i, j \in DOMAIN wire' : i < j => wire'[i].u < wire'[j].u
      /\ \A i \in DOMAIN wire' : Head(wire).u < wire'[i].u
      /\ published < Head(wire).u /\ Head(wire).u <= emitted
  BY <1>2 DEF Ascending
<1>4. PICK ret \in Action :
        /\ TakeDepth(Head(wire), ret)
        /\ shard' = [publish |-> "publishing", need_snapshot |-> "requesting",
                     none |-> "reading"][ret]
  BY DEF Read
<1>5. shard' = "publishing" => ret = "publish"
  BY <1>4 DEF Action
<1>6. ret = "publish" => book'.state = "live" /\ book'.last_update_id = Head(wire).u
  <2>1. ret = "publish" => \E sound \in BOOLEAN : ApplyDepth(Head(wire), sound, ret)
    BY <1>4 DEF TakeDepth, BufferDepth, IgnoreDepth, GapDepth
  <2> QED
    BY <2>1 DEF ApplyDepth, Typed, TypeOK, BookTypeOK
<1> QED
  BY <1>1, <1>3, <1>5, <1>6 DEF Ascending

(* The venue's next event is beyond all it has sent. *)
LEMMA EmitAscends == ASSUME Typed, Ascending, Emit PROVE Ascending'
<1> DEFINE ev == [U |-> emitted + 1, u |-> vnow, pu |-> emitted]
<1>1. /\ emitted \in Nat /\ vnow \in Nat /\ published \in Nat /\ emitted < vnow
      /\ emitted' = vnow /\ wire \in Seq(StreamEvent)
      /\ UNCHANGED <<published, book, shard>>
  BY DEF Emit, Typed, TypeOK, StreamOK, bookVars
<1>2. \A i \in DOMAIN wire : wire[i].u \in Nat /\ wire[i] \in StreamEvent
  BY <1>1, StreamEventIds
<1>3. book.last_update_id \in Nat
  BY DEF Typed, TypeOK, BookTypeOK
<1>4. CASE Streaming
  <2>1. wire' = Append(wire, ev) /\ ev.u = vnow
    BY <1>4 DEF Emit
  <2> HIDE DEF ev
  <2>2. \A i \in DOMAIN wire' :
          (i \in DOMAIN wire /\ wire'[i] = wire[i]) \/ (i = Len(wire) + 1 /\ wire'[i] = ev)
    BY <1>1, <2>1
  <2>3. Len(wire) \in Nat /\ DOMAIN wire = 1..Len(wire)
    BY <1>1
  <2> QED
    BY <1>1, <1>2, <1>3, <2>1, <2>2, <2>3 DEF Ascending
<1>5. CASE ~Streaming
  <2>1. wire' = wire
    BY <1>5 DEF Emit
  <2> QED
    BY <1>1, <1>2, <1>3, <2>1 DEF Ascending
<1> QED
  BY <1>4, <1>5

(* So it is in every step. *)
LEMMA AscendingInvariant == EitherSpec => []Ascending
<1>1. Init => Ascending
  BY DEF Init, Ascending
<1>2. Typed /\ Past /\ Ascending /\ [EitherNext]_vars => Ascending'
  <2> SUFFICES ASSUME Typed, Past, Ascending, [EitherNext]_vars PROVE Ascending'
    OBVIOUS
  <2>0. /\ emitted \in Nat /\ vnow \in Nat /\ published \in Nat /\ emitted <= vnow
        /\ book.last_update_id \in Nat
        /\ \A i \in DOMAIN wire : wire[i].u \in Nat
    BY StreamEventIds DEF Typed, TypeOK, StreamOK, BookTypeOK, Past
  <2>1. CASE Read
    BY <2>1, ReadAscends
  <2>2. CASE Emit
    BY <2>2, EmitAscends
  <2>3. CASE Skip
    BY <2>0, <2>3 DEF Skip, Ascending, bookVars
  <2>4. CASE Publish
    BY <2>0, <2>4 DEF Publish, Ascending, venue, bookVars
  <2>5. CASE ShardPanic \/ Disconnect \/ CleanClose
    BY <2>5 DEF ShardPanic, Disconnect, CleanClose, Ascending, venue
  <2>6. CASE Connect \/ RequestSync \/ ResetBook \/ AbortSyncs \/ TakeStale
    BY <2>6 DEF Connect, RequestSync, ResetBook, AbortSyncs, TakeStale, Ascending, venue
  <2>7. CASE Tick \/ SpawnResync \/ UNCHANGED vars
    BY <2>7 DEF Tick, SpawnResync, Ascending, venue, bookVars, vars
  <2>8. ASSUME NEW t \in Tasks, Check(t) \/ Serve(t) \/ Fail(t) \/ Hang(t) \/ Panic(t)
        PROVE  Ascending'
    BY <2>8 DEF Check, Serve, Fail, Hang, Panic, Died, Ascending, venue, bookVars
  <2>9. ASSUME NEW t \in Tasks, Apply(t) PROVE Ascending'
    <3>1. book.state = "live" => UNCHANGED book
      BY <2>9 DEF Apply, TakeSnapshot, UnwantedSnapshot, RejectSnapshot, ApplySnapshot
    <3> QED
      BY <2>9, <3>1 DEF Apply, Ascending, venue
  <2> QED
    BY <2>1, <2>2, <2>3, <2>4, <2>5, <2>6, <2>7, <2>8, <2>9
       DEF EitherNext, Next, Venue, Shard, Sync, Sweeper
<1> QED
  BY <1>1, <1>2, TypedInvariant, PastInvariant, PTL DEF EitherSpec

(* So what either program publishes moves forward. *)
LEMMA EitherIncreases == EitherSpec => PublishesInOrder
<1>1. Typed /\ Ascending /\ [EitherNext]_vars =>
        [published' # published => book.state = "live" /\ published' > published]_vars
  <2> SUFFICES ASSUME Typed, Ascending, EitherNext, published' # published
               PROVE  book.state = "live" /\ published' > published
    OBVIOUS
  <2>1. Publish
    BY DEF EitherNext, CleanClose, Next, Venue, Tick, Emit, Skip, Shard, Connect, Read, ShardPanic, RequestSync,
       Disconnect, ResetBook, AbortSyncs, Sync, Check, Serve, Fail, Apply, Hang, Panic, Died,
       Sweeper, TakeStale, SpawnResync
  <2>2. published \in Nat /\ book.last_update_id \in Nat
    BY DEF Typed, TypeOK, BookTypeOK
  <2> QED
    BY <2>1, <2>2 DEF Publish, Ascending
<1>2. EitherSpec => [][published' # published => book.state = "live" /\ published' > published]_vars
  BY <1>1, TypedInvariant, AscendingInvariant, PTL DEF EitherSpec
<1> QED
  BY <1>2 DEF PublishesInOrder

(* Subscribers see the ids of a symbol's book increase, and only those of  *)
(* a live book, through any disconnects, sweeps and stale snapshots.       *)
THEOREM PublishedIncreases == Spec => PublishesInOrder
BY EitherIncreases, BothAreEither, PTL

(* So do those of the Python program, through clean closes too.            *)
THEOREM PyPublishedIncreases == PySpec => PublishesInOrder
BY EitherIncreases, BothAreEither, PTL

-----------------------------------------------------------------------------
(* Why a calm book has one sync task at a time: while it has not been both *)
(* swept and disconnected, whoever starts a task finds none running, and a *)
(* task ends when the book is live.                                        *)
Servers == {t \in Tasks : task[t].pc \in {"check", "fetch", "reply"}}

Calm == sweeps = 0 \/ disconnects = 0

(* An unswept book is served by the shard's own task.                      *)
OwnSync ==
  sweeps = 0 => sweeper = "asleep" /\ (shard # "dead" => Servers \subseteq {handle})

NeverLeft == disconnects = 0 => shard \notin {"resetting", "aborting"}

OneServer ==
  Calm =>
    /\ \A s, t \in Servers : s = t
    /\ shard = "requesting" \/ sweeper = "spawning" => Servers = {}
    /\ ~(shard = "requesting" /\ sweeper = "spawning")
    /\ book.state # "buffering" =>
         /\ shard # "requesting" /\ sweeper = "asleep"
         /\ shard # "aborting" => Servers = {}

Alone == OwnSync /\ NeverLeft /\ OneServer

(* A snapshot is asked for exactly when the book starts to wait. *)
LEMMA DepthAsks ==
  ASSUME Typed, NEW ev, NEW ret, TakeDepth(ev, ret)
  PROVE  /\ ret = "need_snapshot" <=> book.state # "buffering" /\ book'.state = "buffering"
         /\ book.state = "buffering" => book'.state = "buffering"
<1>1. CASE BufferDepth(ev, ret)
  BY <1>1 DEF BufferDepth, Typed, TypeOK, BookTypeOK, BookState
<1>2. CASE IgnoreDepth(ev, ret)
  BY <1>2 DEF IgnoreDepth
<1>3. CASE GapDepth(ev, ret)
  BY <1>3 DEF GapDepth, Typed, TypeOK, BookTypeOK
<1>4. ASSUME NEW sound \in BOOLEAN, ApplyDepth(ev, sound, ret)
      PROVE  /\ ret = "need_snapshot" <=> book.state # "buffering" /\ book'.state = "buffering"
             /\ book.state = "buffering" => book'.state = "buffering"
  <2>1. book.state = "live" /\ book'.state = IF sound THEN "live" ELSE "buffering"
    BY <1>4 DEF ApplyDepth, Accepts, Typed, TypeOK, BookTypeOK
  <2> QED
    BY <1>4, <2>1 DEF ApplyDepth
<1> QED
  BY <1>1, <1>2, <1>3, <1>4 DEF TakeDepth

(* Each step of run_shard leaves one server at most. *)
LEMMA ShardAlone == ASSUME Typed, ResetOffline, Alone, Shard PROVE Alone'
<1> USE DEF Alone, OwnSync, NeverLeft, OneServer, Calm
<1>1. CASE Connect \/ ShardPanic \/ Publish \/ Disconnect
  <2>1. UNCHANGED <<task, book, sweeper, sweeps>> /\ Servers' = Servers
    BY <1>1 DEF Connect, ShardPanic, Publish, Disconnect, counts, bookVars, Servers
  <2>2. disconnects' = 0 => disconnects = 0
    BY <1>1 DEF Connect, ShardPanic, Publish, Disconnect, counts, Typed, TypeOK
  <2>3. disconnects' = 0 => shard' \notin {"resetting", "aborting"}
    BY <1>1 DEF Connect, ShardPanic, Publish, Disconnect, counts, Typed, TypeOK
  <2>4. /\ shard' # "requesting" /\ shard # "aborting" /\ shard # "dead"
        /\ shard' # "dead" => handle' = handle
    BY <1>1 DEF Connect, ShardPanic, Publish, Disconnect
  <2> QED
    BY <2>1, <2>2, <2>3, <2>4
<1>2. CASE Read
  <2>1. /\ UNCHANGED <<task, handle, sweeper, sweeps, disconnects>> /\ Servers' = Servers
        /\ shard = "reading"
    BY <1>2 DEF Read, Servers
  <2>2. PICK ret \in Action :
          /\ TakeDepth(Head(wire), ret)
          /\ shard' = [publish |-> "publishing", need_snapshot |-> "requesting",
                       none |-> "reading"][ret]
    BY <1>2 DEF Read
  <2>3. /\ shard' \in {"publishing", "requesting", "reading"}
        /\ shard' = "requesting" => ret = "need_snapshot"
    BY <2>2 DEF Action
  <2>4. /\ shard' = "requesting" => book.state # "buffering" /\ book'.state = "buffering"
        /\ book.state = "buffering" => book'.state = "buffering"
    BY <2>2, <2>3, DepthAsks
  <2> QED
    BY <2>1, <2>3, <2>4
<1>3. CASE RequestSync
  <2>1. PICK t \in Tasks :
          /\ task' = [s \in Tasks |-> IF s = t THEN [Idle EXCEPT !.pc = "check"]
                                      ELSE IF s = handle THEN Idle ELSE task[s]]
          /\ handle' = t
    BY <1>3 DEF RequestSync
  <2>2. UNCHANGED <<book, sweeper, sweeps, disconnects>> /\ shard = "requesting" /\ shard' = "reading"
    BY <1>3 DEF RequestSync, counts, bookVars
  <2>3. Servers' \subseteq Servers \cup {t}
    BY <2>1 DEF Servers, Idle
  <2>4. OwnSync' /\ NeverLeft'
    <3>1. sweeps = 0 => Servers' \subseteq {t}
      <4>1. sweeps = 0 => Calm /\ Calm'
        BY <2>2
      <4>2. sweeps = 0 => Servers = {}
        BY <2>2, <4>1
      <4> QED
        BY <2>3, <4>2
    <3> QED
      BY <2>1, <2>2, <3>1
  <2>5. OneServer'
    <3> SUFFICES ASSUME Calm PROVE OneServer'
      BY <2>2
    <3>1. Servers = {} /\ sweeper # "spawning" /\ book.state = "buffering"
      BY <2>2
    <3>2. \A s, u \in Servers' : s = u
      BY <2>3, <3>1
    <3> QED
      BY <2>2, <3>1, <3>2
  <2> QED
    BY <2>4, <2>5
<1>4. CASE ResetBook
  <2>1. /\ UNCHANGED <<task, handle, sweeper, sweeps, disconnects>> /\ Servers' = Servers
        /\ shard = "resetting" /\ shard' = "aborting"
    BY <1>4 DEF ResetBook, Servers
  <2> QED
    BY <2>1
<1>5. CASE AbortSyncs
  <2>1. /\ task' = [t \in Tasks |-> IF t = handle THEN Idle ELSE task[t]]
        /\ shard = "aborting" /\ shard' = "offline"
        /\ UNCHANGED <<book, sweeper, sweeps, disconnects>>
    BY <1>5 DEF AbortSyncs, counts, bookVars
  <2>2. Servers' \subseteq Servers \ {handle}
    BY <2>1 DEF Servers, Idle
  <2> QED
    BY <2>1, <2>2
<1> QED
  BY <1>1, <1>2, <1>3, <1>4, <1>5 DEF Shard

(* Each step of a sync task does. *)
LEMMA SyncAlone ==
  ASSUME Typed, ResetOffline, Alone, NEW t \in Tasks, Sync(t)
  PROVE  Alone'
<1> USE DEF Alone, OwnSync, NeverLeft, OneServer, Calm
<1>1. UNCHANGED <<shard, handle, sweeper, sweeps, disconnects>>
  BY DEF Sync, Check, Serve, Fail, Apply, Hang, Panic, Died, counts
<1>2. Servers' \subseteq Servers
  <2>1. PICK r : task' = [task EXCEPT ![t] = r]
    BY DEF Sync, Check, Serve, Fail, Apply, Hang, Panic
  <2>2. \A s \in Tasks : s # t => task'[s] = task[s]
    BY <2>1 DEF Typed, TypeOK
  <2>3. t \in Servers' => t \in Servers
    BY DEF Sync, Check, Serve, Fail, Apply, Hang, Panic, Idle, Servers, Typed, TypeOK, SyncTask
  <2> QED
    BY <2>2, <2>3 DEF Servers
<1>3. OwnSync' /\ NeverLeft'
  BY <1>1, <1>2
<1>4. CASE UNCHANGED book
  BY <1>1, <1>2, <1>4
<1>5. CASE Apply(t) /\ book.state = "buffering"
  <2>1. PICK ret \in BOOLEAN :
          /\ TakeSnapshot(task[t].lui, ret)
          /\ task' = [task EXCEPT ![t] = IF ret THEN Idle ELSE [Idle EXCEPT !.pc = "check"]]
    BY <1>5 DEF Apply
  <2>2. book'.state # "buffering" => ret
    <3>1. CASE RejectSnapshot(task[t].lui, ret)
      BY <3>1 DEF RejectSnapshot, Typed, TypeOK, BookTypeOK
    <3>2. ASSUME NEW sound \in BOOLEAN, ApplySnapshot(task[t].lui, sound, ret)
          PROVE  book'.state # "buffering" => ret
      BY <3>2 DEF ApplySnapshot, Typed, TypeOK, BookTypeOK
    <3> QED
      BY <1>5, <2>1, <3>1, <3>2 DEF TakeSnapshot, UnwantedSnapshot
  <2>3. t \in Servers /\ (ret => t \notin Servers')
    BY <1>5, <2>1 DEF Apply, Servers, Idle, Typed, TypeOK
  <2> SUFFICES ASSUME Calm PROVE OneServer'
    BY <1>1, <1>3
  <2>4. \A s \in Servers : s = t
    BY <2>3
  <2>5. shard # "requesting" /\ sweeper # "spawning"
    BY <2>3
  <2>6. sweeper = "asleep"
    BY <2>5 DEF Typed, TypeOK
  <2>7. book'.state # "buffering" => Servers' = {}
    BY <1>2, <2>2, <2>3, <2>4
  <2> QED
    BY <1>1, <1>2, <2>4, <2>5, <2>6, <2>7
<1>6. CASE Apply(t) /\ book.state # "buffering"
  <2>1. UNCHANGED book
    BY <1>6 DEF Apply, TakeSnapshot, UnwantedSnapshot, RejectSnapshot, ApplySnapshot
  <2> QED
    BY <1>4, <2>1
<1> QED
  BY <1>4, <1>5, <1>6 DEF Sync, Check, Serve, Fail, Hang, Panic, Died, bookVars

(* So it is in every step. *)
LEMMA AloneStep ==
  Typed /\ ResetOffline /\ Alone /\ [Next]_vars => Alone'
<1> USE DEF Alone, OwnSync, NeverLeft, OneServer, Calm
<1> SUFFICES ASSUME Typed, ResetOffline, Alone, [Next]_vars PROVE Alone'
  OBVIOUS
<1>1. CASE Venue \/ UNCHANGED vars
  <2>1. UNCHANGED <<shard, handle, sweeper, sweeps, disconnects, book, task>>
    BY <1>1 DEF Venue, Tick, Emit, Skip, counts, bookVars, vars
  <2>2. Servers' = Servers
    BY <2>1 DEF Servers
  <2> QED
    BY <2>1, <2>2
<1>2. CASE TakeStale
  <2>1. /\ UNCHANGED <<shard, handle, disconnects, task>> /\ Servers' = Servers
        /\ sweeps' = sweeps + 1 /\ sweeps \in Nat /\ book.state = "live"
        /\ sweeper' = "spawning" /\ shard \in {"reading", "resetting", "dead"}
        /\ book'.state = "buffering"
    BY <1>2 DEF TakeStale, Servers, Typed, TypeOK, MarkForResync, NewBook
  <2>2. sweeps' # 0
    BY <2>1
  <2> QED
    BY <2>1, <2>2
<1>3. CASE SpawnResync
  <2>1. PICK t \in Tasks : task' = [task EXCEPT ![t].pc = "check"]
    BY <1>3 DEF SpawnResync
  <2>2. /\ UNCHANGED <<shard, handle, sweeps, disconnects, book>>
        /\ sweeper = "spawning" /\ sweeper' = "asleep"
    BY <1>3 DEF SpawnResync, counts, bookVars
  <2>3. Servers' \subseteq Servers \cup {t}
    BY <2>1 DEF Servers, Typed, TypeOK
  <2>4. OwnSync' /\ NeverLeft'
    BY <2>2
  <2> SUFFICES ASSUME Calm PROVE OneServer'
    BY <2>2, <2>4
  <2>5. Servers = {} /\ shard # "requesting" /\ book.state = "buffering"
    BY <2>2
  <2> QED
    BY <2>2, <2>3, <2>5
<1> QED
  BY <1>1, <1>2, <1>3, ShardAlone, SyncAlone DEF Next, Sweeper

(* There are no tasks to begin with. *)
LEMMA InitAlone == Init => Alone
<1> SUFFICES ASSUME Init PROVE Alone
  OBVIOUS
<1>1. Servers = {}
  BY DEF Init, Idle, Servers
<1> QED
  BY <1>1 DEF Init, Alone, OwnSync, NeverLeft, OneServer, Calm

(* So a calm book never has two. *)
LEMMA AloneInvariant == Spec => []Alone
BY InitAlone, AloneStep, TypedInvariant, OfflineIsReset, BothAreEither, PTL DEF Spec

-----------------------------------------------------------------------------
(* Why fresh snapshots leave no hole in a calm book: the snapshot a lone   *)
(* task brings is never behind what the book waits for next, so the one    *)
(* event that is not checked continues it.                                 *)
Fresh == MaxLag = 0 /\ losses = 0 /\ Calm

NoHole ==
  book.state = "live" =>
    /\ have = 1..book.last_update_id
    /\ book.need_first_event /\ Streaming => First <= book.last_update_id

InTime ==
  Streaming /\ book.state = "buffering" /\ book.buffer = <<>> =>
    \A t \in Tasks : task[t].pc = "reply" => First <= task[t].lui

(* The stream continues where the book stands, if nothing was skipped. *)
NoMiss ==
  /\ First \notin Ends
  /\ Streaming /\ losses = 0 => Missed = {} /\ Stand = First

(* Each event read was sent after all that was read before, and without   *)
(* losses nothing lies between what was sent and what will be.             *)
LEMMA NothingMissed ==
  ASSUME Typed, InOrder, Accounted(0)
  PROVE  NoMiss
<1>1. /\ wire \in Seq(StreamEvent) /\ WireInOrder
      /\ \A i \in DOMAIN wire : i \in Nat \ {0} /\ wire[i] \in StreamEvent
  BY DEF Typed, StreamOK, InOrder
<1>2. \A i \in DOMAIN wire : wire[i].pu \in Nat /\ wire[i].u \in Nat
                             /\ wire[i].pu < wire[i].u
  BY <1>1, StreamEventIds
<1>3. First \notin Ends
  <2> SUFFICES ASSUME NEW i \in DOMAIN wire, First = wire[i].u PROVE FALSE
    BY DEF Ends
  <2>1. First <= wire[i].pu /\ First \in Nat
    BY <1>1, WireIds DEF Starts
  <2> QED
    BY <1>2, <2>1
<1>4. ASSUME Streaming, losses = 0
      PROVE  Missed = {} /\ Stand = First
  <2>1. /\ IsFiniteSet(Missed) /\ Misses \in Nat /\ First \in Starts
        /\ book.gap_count \in Nat /\ book.gap_count + Misses <= losses + 0
    BY <1>1, <1>4, WireIds, BookIds DEF Accounted
  <2>2. Misses = 0
    BY <1>4, <2>1
  <2>3. Missed = {}
    BY <2>1, <2>2, FS_EmptySet DEF Misses
  <2> QED
    BY <1>3, <2>1, <2>3 DEF Missed
<1> QED
  BY <1>3, <1>4 DEF NoMiss

(* Whatever is read next continues what was read. *)
LEMMA NoMissInvariant == Spec => []NoMiss
<1>1. Typed /\ InOrder /\ Accounted(0) => NoMiss
  BY NothingMissed
<1> QED
  BY <1>1, TypedInvariant, AccountedInvariant, BothAreEither, PTL

(* Then the event that is read takes the stream one event further. *)
LEMMA ReadNext ==
  ASSUME Typed, InOrder, NoMiss, NoMiss', losses = 0, Read,
         NEW ev, ev = Head(wire)
  PROVE  /\ ev \in StreamEvent /\ First = ev.pu /\ First' = ev.u
         /\ Streaming /\ Streaming'
<1>1. /\ shard = "reading" /\ wire # <<>> /\ wire' = Tail(wire) /\ emitted' = emitted
      /\ WireInOrder
  BY DEF Read, venue, InOrder
<1>2. Streaming /\ Streaming'
  <2>1. PICK ret \in Action :
          shard' = [publish |-> "publishing", need_snapshot |-> "requesting",
                    none |-> "reading"][ret]
    BY DEF Read
  <2> QED
    BY <1>1, <2>1 DEF Streaming, Action
<1>3. /\ ev \in StreamEvent /\ First = ev.pu
      /\ ev.pu \in Nat /\ ev.u \in Nat /\ ev.pu < ev.u
      /\ Starts' \subseteq Starts /\ \A p \in Starts' : ev.u <= p
      /\ Ends = Ends' \cup {ev.u} /\ First' \in Starts'
  BY <1>1, WireRead
<1>4. Starts \subseteq Nat
  BY <1>1, WireIds
<1>5. First' \in Nat /\ ev.u <= First' /\ First' \in Starts
  BY <1>3, <1>4
<1>6. First' # Stand /\ First' \notin Missed
  BY <1>2, <1>3, <1>5 DEF NoMiss
<1>7. First' \in Ends
  BY <1>5, <1>6 DEF Missed
<1>8. First' \notin Ends'
  BY DEF NoMiss
<1> QED
  BY <1>2, <1>3, <1>7, <1>8

(* A live book takes it without a hole. *)
LEMMA DepthWhole ==
  ASSUME Typed, NoHole, NEW ev \in StreamEvent, First = ev.pu, First' = ev.u,
         Streaming, NEW ret, TakeDepth(ev, ret)
  PROVE  NoHole' /\ (book'.state = "buffering" => book'.buffer # <<>>)
<1>1. ev.pu \in Nat /\ ev.u \in Nat /\ ev.U = ev.pu + 1 /\ ev.U <= ev.u
  BY StreamEventIds
<1>2. CASE BufferDepth(ev, ret)
  <2>1. Push(book.buffer, ev) # <<>>
    BY PushLast DEF Typed, StreamOK
  <2>2. book'.state = "buffering" /\ book'.buffer = Push(book.buffer, ev)
    BY <1>2 DEF BufferDepth, Typed, TypeOK, BookTypeOK
  <2> QED
    BY <2>1, <2>2 DEF NoHole
<1>3. CASE IgnoreDepth(ev, ret) /\ UNCHANGED have
  BY <1>3 DEF IgnoreDepth, NoHole
<1>4. CASE GapDepth(ev, ret)
  <2>1. book'.state = "buffering" /\ book'.buffer = <<ev>>
    BY <1>4 DEF GapDepth, Typed, TypeOK, BookTypeOK
  <2> QED
    BY <2>1 DEF NoHole
<1>5. ASSUME NEW sound \in BOOLEAN, ApplyDepth(ev, sound, ret),
             have' = have \cup Covered(ev)
      PROVE  NoHole' /\ (book'.state = "buffering" => book'.buffer # <<>>)
  <2>1. /\ book.state = "live" /\ ev.u > book.last_update_id
        /\ book.need_first_event \/ ev.pu = book.last_update_id
        /\ book.last_update_id \in Nat
    BY <1>5 DEF ApplyDepth, Accepts, Typed, TypeOK, BookTypeOK
  <2>2. /\ book'.state = IF sound THEN "live" ELSE "buffering"
        /\ book'.last_update_id = ev.u /\ ~book'.need_first_event
        /\ ~sound => book'.buffer = <<ev>>
    BY <1>5 DEF ApplyDepth, Typed, TypeOK, BookTypeOK
  <2>3. have = 1..book.last_update_id /\ ev.pu <= book.last_update_id
    BY <1>1, <2>1 DEF NoHole
  <2>4. (1..book.last_update_id) \cup Covered(ev) = 1..ev.u
    BY <1>1, <2>1, <2>3 DEF Covered
  <2>5. have' = 1..ev.u
    BY <1>5, <2>3, <2>4
  <2>6. NoHole'
    BY <2>2, <2>5 DEF NoHole
  <2>7. book'.state = "buffering" => book'.buffer = <<ev>>
    BY <2>2
  <2>8. <<ev>> # <<>>
    OBVIOUS
  <2> QED
    BY <2>6, <2>7, <2>8
<1> QED
  BY <1>2, <1>3, <1>4, <1>5 DEF TakeDepth

(* The snapshot a lone task brings goes live without one. *)
LEMMA SnapshotWhole ==
  ASSUME Typed, NoMiss, NoHole, InTime, losses = 0,
         UNCHANGED <<wire, emitted, shard>>,
         NEW t \in Tasks, task[t].pc = "reply", NEW ret, TakeSnapshot(task[t].lui, ret)
  PROVE  NoHole'
<1> DEFINE lui == task[t].lui
           buf == book.buffer
<1>1. lui \in Nat /\ buf \in Seq(StreamEvent) /\ Streaming' = Streaming /\ First' = First
  BY DEF Typed, TypeOK, StreamOK, SyncTask, Streaming, First
<1>2. CASE UnwantedSnapshot(ret) /\ UNCHANGED have
  BY <1>1, <1>2 DEF UnwantedSnapshot, NoHole
<1>3. CASE RejectSnapshot(lui, ret)
  <2>1. book'.state = "buffering"
    BY <1>3 DEF RejectSnapshot, Typed, TypeOK, BookTypeOK
  <2> QED
    BY <2>1 DEF NoHole
<1>4. ASSUME NEW sound \in BOOLEAN, ApplySnapshot(lui, sound, ret), have' = Loaded(lui)
      PROVE  NoHole'
  <2>1. /\ book.state = "buffering" /\ Breaks(buf, lui) = {}
        /\ book'.last_update_id = ReplayedTo(buf, lui)
        /\ book'.need_first_event = (Replayed(buf, lui) = {})
    BY <1>4 DEF ApplySnapshot, Typed, TypeOK, BookTypeOK
  <2>2. CASE Replayed(buf, lui) # {}
    <3>1. Loaded(lui) = 1..ReplayedTo(buf, lui)
      BY <1>1, <2>1, <2>2, ReplayComplete DEF Loaded
    <3> QED
      BY <1>4, <2>1, <2>2, <3>1 DEF NoHole
  <2>3. CASE Replayed(buf, lui) = {}
    <3>1. Loaded(lui) = 1..lui /\ ReplayedTo(buf, lui) = lui
      BY <2>3 DEF Loaded, ReplayedTo
    <3>2. Replayable(buf, lui) = {}
      BY <2>1, <2>3 DEF Replayed
    <3>3. ASSUME Streaming
          PROVE  First <= lui
      <4>1. CASE buf = <<>>
        BY <2>1, <3>3, <4>1 DEF InTime
      <4>2. CASE buf # <<>>
        <5>1. First = buf[Len(buf)].u
          BY <2>1, <3>3, <4>2 DEF NoMiss, Stand, Anchored, Anchor
        <5>2. Len(buf) \in DOMAIN buf /\ buf[Len(buf)].u \in Nat
          BY <4>2, BookIds
        <5>3. ~(buf[Len(buf)].u >= lui)
          BY <3>2, <5>2 DEF Replayable
        <5> QED
          BY <1>1, <5>1, <5>2, <5>3
      <4> QED
        BY <4>1, <4>2
    <3> QED
      BY <1>1, <1>4, <2>1, <3>1, <3>3 DEF NoHole
  <2> QED
    BY <2>2, <2>3
<1> QED
  BY <1>2, <1>3, <1>4 DEF TakeSnapshot

(* A book that is fresh has always been. *)
LEMMA FreshStays == ASSUME Typed, [Next]_vars PROVE Fresh' => Fresh
<1>1. /\ losses \in Nat /\ sweeps \in Nat /\ disconnects \in Nat
      /\ losses' = losses \/ losses' = losses + 1
      /\ sweeps' = sweeps \/ sweeps' = sweeps + 1
      /\ disconnects' = disconnects \/ disconnects' = disconnects + 1
  BY DEF Typed, TypeOK, Next, Venue, Tick, Emit, Skip, Shard, Connect, Read, ShardPanic,
     RequestSync, Publish, Disconnect, ResetBook, AbortSyncs, Sync, Check, Serve, Fail, Apply,
     Hang, Panic, Died, Sweeper, TakeStale, SpawnResync, venue, counts, vars
<1> QED
  BY <1>1 DEF Fresh, Calm

(* While it is, the shard ... *)
LEMMA ShardWhole ==
  ASSUME Typed, ResetOffline, InOrder, NoMiss, NoMiss', NoHole, InTime, losses = 0, Shard
  PROVE  NoHole' /\ InTime'
<1>1. CASE Read
  <2> DEFINE ev == Head(wire)
  <2>1. PICK ret \in Action : TakeDepth(ev, ret)
    BY <1>1 DEF Read
  <2>2. /\ ev \in StreamEvent /\ First = ev.pu /\ First' = ev.u /\ Streaming
    BY <1>1, ReadNext
  <2> HIDE DEF ev
  <2> QED
    BY <2>1, <2>2, DepthWhole DEF InTime
<1>2. CASE Connect
  <2>1. book.state = "uninitialized" /\ UNCHANGED book
    BY <1>2 DEF Connect, ResetOffline, bookVars
  <2> QED
    BY <2>1 DEF NoHole, InTime
<1>3. CASE ShardPanic \/ Disconnect
  <2>1. ~Streaming' /\ UNCHANGED <<book, have>>
    BY <1>3 DEF ShardPanic, Disconnect, Streaming, bookVars
  <2> QED
    BY <2>1 DEF NoHole, InTime
<1>4. CASE Publish
  <2>1. UNCHANGED <<book, have, task, wire, emitted>> /\ Streaming
    BY <1>4 DEF Publish, Streaming, bookVars, venue
  <2>2. First' = First
    BY <2>1 DEF First
  <2> QED
    BY <2>1, <2>2 DEF NoHole, InTime
<1>5. CASE RequestSync
  <2>1. UNCHANGED <<book, have, wire, emitted>> /\ Streaming
    BY <1>5 DEF RequestSync, Streaming, bookVars, venue
  <2>2. First' = First
    BY <2>1 DEF First
  <2>3. \A s \in Tasks : task'[s].pc = "reply" => task'[s] = task[s]
    BY <1>5 DEF RequestSync, Idle
  <2> QED
    BY <2>1, <2>2, <2>3 DEF NoHole, InTime
<1>6. CASE ResetBook
  <2>1. book'.state = "uninitialized"
    BY <1>6 DEF ResetBook, Reset, NewBook
  <2> QED
    BY <2>1 DEF NoHole, InTime
<1>7. CASE AbortSyncs
  <2>1. ~Streaming' /\ UNCHANGED <<book, have>>
    BY <1>7 DEF AbortSyncs, Streaming, bookVars
  <2> QED
    BY <2>1 DEF NoHole, InTime
<1> QED
  BY <1>1, <1>2, <1>3, <1>4, <1>5, <1>6, <1>7 DEF Shard

(* ... its sync tasks ... *)
LEMMA SyncWhole ==
  ASSUME Typed, Past, InOrder, Alone, NoMiss, NoHole, InTime, Fresh, NEW t \in Tasks, Sync(t)
  PROVE  NoHole' /\ InTime'
<1>1. UNCHANGED <<wire, emitted, shard, vnow>> /\ First' = First /\ Streaming' = Streaming
  <2>1. UNCHANGED <<wire, emitted, shard, vnow>>
    BY DEF Sync, Check, Serve, Fail, Apply, Hang, Panic, Died, venue
  <2> QED
    BY <2>1 DEF First, Streaming
<1>2. \A s \in Tasks : s # t => task'[s] = task[s]
  BY DEF Sync, Check, Serve, Fail, Apply, Hang, Panic, Typed, TypeOK
<1>3. CASE Serve(t)
  <2>1. UNCHANGED <<book, have>>
    BY <1>3 DEF Serve, bookVars
  <2>2. task'[t].lui = vnow
    <3>1. MaxLag = 0 /\ vnow \in Nat
      BY DEF Fresh, Typed, TypeOK
    <3>2. PICK lag \in 0..MaxLag : task' = [task EXCEPT ![t] = [pc |-> "reply", lui |-> vnow - lag]]
      BY <1>3 DEF Serve
    <3>3. lag = 0 /\ vnow - 0 = vnow
      BY <3>1
    <3> QED
      BY <3>2, <3>3 DEF Typed, TypeOK
  <2>3. First <= vnow
    <3>1. First \in Nat /\ First <= emitted
      BY WireIds DEF InOrder
    <3>2. emitted \in Nat /\ vnow \in Nat /\ emitted <= vnow
      BY DEF Typed, TypeOK, Past
    <3> QED
      BY <3>1, <3>2
  <2> QED
    BY <1>1, <1>2, <2>1, <2>2, <2>3 DEF NoHole, InTime
<1>4. CASE Check(t) \/ Fail(t) \/ Hang(t) \/ Panic(t)
  <2>1. UNCHANGED <<book, have>> /\ task'[t].pc # "reply"
    BY <1>4 DEF Check, Fail, Hang, Panic, Died, Idle, bookVars, Typed, TypeOK, SyncTask
  <2> QED
    BY <1>1, <1>2, <2>1 DEF NoHole, InTime
<1>5. CASE Apply(t)
  <2>1. NoHole'
    <3>1. PICK ret \in BOOLEAN : TakeSnapshot(task[t].lui, ret)
      BY <1>5 DEF Apply
    <3>2. task[t].pc = "reply" /\ losses = 0
      BY <1>5 DEF Apply, Fresh
    <3> QED
      BY <1>1, <3>1, <3>2, SnapshotWhole
  <2>2. ASSUME NEW s \in Tasks, task'[s].pc = "reply"
        PROVE  FALSE
    <3>1. task'[t].pc # "reply" /\ task[t].pc = "reply"
      BY <1>5 DEF Apply, Idle, Typed, TypeOK
    <3>2. s # t /\ task'[s] = task[s]
      BY <1>2, <2>2, <3>1
    <3>3. s \in Servers /\ t \in Servers
      BY <2>2, <3>1, <3>2 DEF Servers
    <3> QED
      BY <3>2, <3>3 DEF Fresh, Alone, OneServer
  <2> QED
    BY <2>1, <2>2 DEF InTime
<1> QED
  BY <1>3, <1>4, <1>5 DEF Sync

(* ... and the venue and the sweeper leave no hole. *)
LEMMA OthersWhole ==
  ASSUME Typed, Alone, NoHole, InTime, Fresh, Fresh', Venue \/ Sweeper
  PROVE  NoHole' /\ InTime'
<1>1. CASE Tick
  <2>1. UNCHANGED <<wire, emitted, shard, book, have, task>>
    BY <1>1 DEF Tick, bookVars
  <2>2. First' = First /\ Streaming' = Streaming
    BY <2>1 DEF First, Streaming
  <2> QED
    BY <2>1, <2>2 DEF NoHole, InTime
<1>2. CASE Emit
  <2>1. UNCHANGED <<shard, book, have, task>>
    BY <1>2 DEF Emit, bookVars
  <2>2. Streaming' = Streaming
    BY <2>1 DEF Streaming
  <2>3. Streaming => First' = First
    <3> DEFINE ev == [U |-> emitted + 1, u |-> vnow, pu |-> emitted]
    <3>1. SUFFICES ASSUME Streaming PROVE First' = First
      OBVIOUS
    <3>2. wire' = Append(wire, ev) /\ ev.pu = emitted /\ wire \in Seq(StreamEvent)
      BY <1>2, <3>1 DEF Emit, Typed, StreamOK
    <3> HIDE DEF ev
    <3>3. wire' # <<>> /\ wire'[1] = IF wire = <<>> THEN ev ELSE wire[1]
      BY <3>2
    <3> QED
      BY <3>2, <3>3 DEF First
  <2> QED
    BY <2>1, <2>2, <2>3 DEF NoHole, InTime
<1>3. CASE Skip
  BY <1>3 DEF Skip, Fresh, Typed, TypeOK
<1>4. CASE TakeStale
  <2>1. book.state = "live" /\ shard # "aborting" /\ book'.state = "buffering" /\ UNCHANGED task
    BY <1>4 DEF TakeStale, MarkForResync, NewBook
  <2>2. Servers = {}
    BY <2>1 DEF Fresh, Alone, OneServer
  <2>3. \A s \in Tasks : task'[s].pc # "reply"
    BY <2>1, <2>2 DEF Servers
  <2> QED
    BY <2>1, <2>3 DEF NoHole, InTime
<1>5. CASE SpawnResync
  <2>1. UNCHANGED <<wire, emitted, shard, book, have>>
    BY <1>5 DEF SpawnResync, bookVars, venue
  <2>2. First' = First /\ Streaming' = Streaming
    BY <2>1 DEF First, Streaming
  <2>3. \A s \in Tasks : task'[s].pc = "reply" => task'[s] = task[s]
    BY <1>5 DEF SpawnResync, Typed, TypeOK
  <2> QED
    BY <2>1, <2>2, <2>3 DEF NoHole, InTime
<1> QED
  BY <1>1, <1>2, <1>3, <1>4, <1>5 DEF Venue, Sweeper

Whole == Fresh => NoHole /\ InTime

(* The first book is not live and has no task. *)
LEMMA InitWhole == Init => Whole
BY DEF Init, BookInit, NewBook, NoHole, InTime, Whole

(* Every step of the Rust program leaves a fresh book whole. *)
LEMMA WholeStep ==
  /\ Typed /\ Past /\ ResetOffline /\ InOrder /\ Alone /\ NoMiss /\ NoMiss' /\ Whole
  /\ [Next]_vars
  => Whole'
<1> SUFFICES ASSUME Typed, Past, ResetOffline, InOrder, Alone, NoMiss, NoMiss', Whole,
                    [Next]_vars, Fresh'
             PROVE  NoHole' /\ InTime'
  BY DEF Whole
<1>1. Fresh /\ NoHole /\ InTime /\ losses = 0
  BY FreshStays DEF Fresh, Whole
<1>2. CASE UNCHANGED vars
  BY <1>1, <1>2 DEF vars, NoHole, InTime, First, Streaming
<1> QED
  BY <1>1, <1>2, OthersWhole, ShardWhole, SyncWhole DEF Next

(* While the stream loses nothing, snapshots are fresh, and the book has   *)
(* not been both swept and disconnected, no live book has a hole, although *)
(* one event after a snapshot may be accepted unchecked: README.md's "It   *)
(* is not a hole", as far as it is true.                                   *)
THEOREM FreshIsComplete == Spec => []FreshComplete
<1>1. Whole => FreshComplete
  BY DEF Whole, Fresh, Calm, NoHole, FreshComplete, LiveComplete
<1> QED
  BY <1>1, InitWhole, WholeStep, TypedInvariant, PastInvariant, OfflineIsReset, AccountedInvariant,
     AloneInvariant, NoMissInvariant, BothAreEither, PTL DEF Spec

-----------------------------------------------------------------------------
(* A Python program that has lost no connection has made no step that the  *)
(* Rust program would not make.                                            *)
LEMMA ConnectedIsRust ==
  ASSUME Typed, [PyNext]_vars, disconnects' = 0
  PROVE  disconnects = 0 /\ [Next]_vars
<1>1. disconnects \in Nat
  BY DEF Typed, TypeOK
<1>2. CASE CleanClose \/ Disconnect
  BY <1>1, <1>2 DEF CleanClose, Disconnect
<1>3. CASE UNCHANGED vars
  BY <1>3 DEF vars
<1>4. CASE Venue
  BY <1>4 DEF Venue, Tick, Emit, Skip, counts, Next
<1>5. CASE Connect \/ Read \/ RequestSync \/ Publish \/ ResetBook \/ AbortSyncs
  BY <1>5 DEF Connect, Read, RequestSync, Publish, ResetBook, AbortSyncs, counts, Shard, Next
<1>6. CASE PySweeper
  BY <1>6 DEF PySweeper, TakeStale, SpawnResync, counts, Sweeper, Next
<1>7. ASSUME NEW t \in Tasks, PySyncTask(t)
      PROVE  disconnects = 0 /\ [Next]_vars
  <2>1. Sync(t)
    BY <1>7 DEF PySyncTask, Sync
  <2>2. UNCHANGED disconnects
    BY <1>7 DEF PySyncTask, Check, Serve, Fail, Apply, counts
  <2> QED
    BY <2>1, <2>2 DEF Next
<1> QED
  BY <1>2, <1>3, <1>4, <1>5, <1>6, <1>7 DEF PyNext, PyShard

(* So fresh snapshots and a stream without losses leave no hole in a live  *)
(* Python book either, proven or not, until a connection is lost.          *)
THEOREM PyFreshUntilLost == PySpec => [](disconnects = 0 => FreshComplete)
<1> DEFINE Rust == ResetOffline /\ InOrder /\ Accounted(0) /\ Alone /\ Whole
           Inv == disconnects = 0 => Rust
           Continues == Typed /\ InOrder /\ Accounted(0) => NoMiss
<1>1. Init => Inv
  BY InitOffline, InitAlone, InitWhole, InitAccounted
<1>2. Continues
  BY NothingMissed
<1>3. Typed /\ Typed' /\ Past /\ Continues /\ Continues' /\ Inv /\ [PyNext]_vars => Inv'
  <2> SUFFICES ASSUME Typed, Typed', Past, Continues, Continues', Inv, [PyNext]_vars,
                      disconnects' = 0
               PROVE  Rust'
    OBVIOUS
  <2>1. Rust /\ [Next]_vars
    BY ConnectedIsRust
  <2>2. ResetOffline' /\ InOrder' /\ Accounted(0)' /\ Alone'
    BY <2>1, OfflineStep, AccountedStep, AloneStep
  <2>3. NoMiss /\ NoMiss'
    BY <2>1, <2>2
  <2> QED
    BY <2>1, <2>2, <2>3, WholeStep
<1>4. Inv => (disconnects = 0 => FreshComplete)
  BY DEF Whole, Fresh, Calm, NoHole, FreshComplete, LiveComplete
<1> QED
  BY <1>1, <1>2, <1>3, <1>4, TypedInvariant, PastInvariant, BothAreEither, PTL DEF PySpec
=============================================================================
