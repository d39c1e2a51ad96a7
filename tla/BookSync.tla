------------------------------ MODULE BookSync ------------------------------
(***************************************************************************)
(* How one symbol's book is kept in step with the venue                    *)
(* (rust/src/feed_handler.rs): the shard task reads depth events and       *)
(* requests snapshots (run_shard), sync tasks fetch and apply them         *)
(* (sync_book), and the staleness sweeper un-syncs a silent book and       *)
(* starts a sync task of its own (check_stale).  All of them work on the   *)
(* same book under one lock; every step below is what one task does        *)
(* between two releases of that lock, or between two awaits.               *)
(*                                                                         *)
(* The venue numbers its updates 1, 2, ...; an event of the stream carries *)
(* all updates since the previous event, a snapshot all updates up to its  *)
(* lastUpdateId.  Levels are abstracted to the set of updates they hold.   *)
(***************************************************************************)
EXTENDS BookProtocol

CONSTANTS Tasks,            \* slots for running sync tasks
          NoTask,           \* no task in sync_handles
          MaxId,            \* bound: the venue makes MaxId updates
          MaxLag,           \* a snapshot may miss this many of the latest updates
          MaxDisconnects,   \* bound on lost connections
          MaxSweeps,        \* bound on sweeps that find the book stale
          MaxLosses,        \* bound on events the venue's stream skips
          MaxUnsound,       \* bound on books check_integrity rejects
          MaxDeaths         \* bound on tasks lost to a panic or an unanswered request

ASSUME SyncAssumption ==
  /\ NoTask \notin Tasks
  /\ {MaxId, MaxLag, MaxDisconnects, MaxSweeps, MaxLosses, MaxUnsound, MaxDeaths}
       \subseteq Nat

VARIABLES
  vnow,                     \* the venue's latest update
  emitted,                  \* the latest update its stream has carried
  losses,                   \* events skipped while the stream was open
  wire,                     \* events sent and not yet read
  shard,                    \* what the shard task does next
  handle,                   \* the task in sync_handles, or NoTask
  task,                     \* the sync tasks
  sweeper,                  \* what the sweeper does next
  disconnects, sweeps, unsound, deaths,     \* counted against their bounds
  have,                     \* the updates its levels hold
  proven,                   \* it went live on an event that straddled the snapshot
  stranded,                 \* history: it waits, and lost the last task that served it
  published                 \* last_update_id of the latest published BookEvent

venue == <<vnow, emitted, losses>>
counts == <<disconnects, sweeps, unsound, deaths>>
bookVars == <<book, have, proven, stranded>>
vars == <<vnow, emitted, losses, wire, shard, handle, task, sweeper, disconnects,
          sweeps, unsound, deaths, book, have, proven, stranded, published>>

SyncTask == [pc : {"idle", "check", "fetch", "reply", "hung"}, lui : Nat]
Idle == [pc |-> "idle", lui |-> 0]

TypeOK ==
  /\ vnow \in Nat /\ emitted \in Nat /\ losses \in Nat
  /\ wire \in Seq(Event)
  /\ shard \in {"offline", "reading", "requesting", "publishing",
                "resetting", "aborting", "dead"}
  /\ handle \in Tasks \cup {NoTask}
  /\ task \in [Tasks -> SyncTask]
  /\ sweeper \in {"asleep", "spawning"}
  /\ disconnects \in Nat /\ sweeps \in Nat /\ unsound \in Nat /\ deaths \in Nat
  /\ BookTypeOK
  /\ have \subseteq Nat
  /\ proven \in BOOLEAN /\ stranded \in BOOLEAN
  /\ published \in Nat

Init ==
  /\ vnow = 0 /\ emitted = 0 /\ losses = 0
  /\ wire = <<>>
  /\ shard = "offline" /\ handle = NoTask
  /\ task = [t \in Tasks |-> Idle]
  /\ sweeper = "asleep"
  /\ disconnects = 0 /\ sweeps = 0 /\ unsound = 0 /\ deaths = 0
  /\ BookInit /\ have = {} /\ proven = FALSE /\ stranded = FALSE
  /\ published = 0

-----------------------------------------------------------------------------
(* The venue (external). *)

Tick ==
  /\ vnow < MaxId
  /\ vnow' = vnow + 1
  /\ UNCHANGED <<emitted, losses, wire, shard, handle, task, sweeper, counts,
                 bookVars, published>>

Streaming == shard \in {"reading", "requesting", "publishing"}

(* The next event of the stream; nobody receives it without a connection. *)
Emit ==
  /\ emitted < vnow
  /\ emitted' = vnow
  /\ wire' = IF Streaming
             THEN Append(wire, [U |-> emitted + 1, u |-> vnow, pu |-> emitted])
             ELSE wire
  /\ UNCHANGED <<vnow, losses, shard, handle, task, sweeper, counts, bookVars,
                 published>>

(* The venue drops an event of an open stream. *)
Skip ==
  /\ Streaming /\ emitted < vnow /\ losses < MaxLosses
  /\ emitted' = vnow
  /\ losses' = losses + 1
  /\ UNCHANGED <<vnow, wire, shard, handle, task, sweeper, counts, bookVars,
                 published>>

-----------------------------------------------------------------------------
(* The book's operations, with the levels they leave.  check_integrity may *)
(* reject the levels, at most MaxUnsound times.                            *)

Verdict(sound) ==
  IF sound THEN UNCHANGED unsound
           ELSE unsound < MaxUnsound /\ unsound' = unsound + 1

TakeDepth(ev, ret) ==
  \/ /\ \/ BufferDepth(ev, ret)
        \/ IgnoreDepth(ev, ret)
        \/ GapDepth(ev, ret)
     /\ UNCHANGED <<have, proven, stranded, unsound>>
  \/ \E sound \in BOOLEAN :
       /\ ApplyDepth(ev, sound, ret)
       /\ have' = have \cup Covered(ev)
       /\ UNCHANGED <<proven, stranded>>
       /\ Verdict(sound)

(* The updates in the levels once lui has been loaded and the buffer       *)
(* replayed over it.                                                       *)
Loaded(lui) ==
  (1..lui) \cup
    UNION {Covered(book.buffer[i]) : i \in Replayed(book.buffer, lui)}

TakeSnapshot(lui, ret) ==
  \/ UnwantedSnapshot(ret) /\ UNCHANGED <<have, proven, stranded, unsound>>
  \/ /\ RejectSnapshot(lui, ret)
     /\ have' = Loaded(lui)
     /\ UNCHANGED <<proven, stranded, unsound>>
  \/ \E sound \in BOOLEAN :
       /\ ApplySnapshot(lui, sound, ret)
       /\ have' = Loaded(lui)
       /\ proven' = (Replayed(book.buffer, lui) # {})
       /\ stranded' = (stranded /\ ~sound)
       /\ Verdict(sound)

(* reset and mark_for_resync clear the levels. *)
Cleared ==
  have' = {} /\ proven' = FALSE /\ stranded' = FALSE /\ UNCHANGED unsound

-----------------------------------------------------------------------------
(* The shard task: run_shard. *)

Connect ==
  /\ shard = "offline"
  /\ shard' = "reading"
  /\ UNCHANGED <<venue, wire, handle, task, sweeper, counts, bookVars, published>>

(* A depth event, up to the release of the lock on the books. *)
Read ==
  /\ shard = "reading" /\ wire # <<>>
  /\ wire' = Tail(wire)
  /\ \E ret \in Action :
       /\ TakeDepth(Head(wire), ret)
       /\ shard' = [publish |-> "publishing", need_snapshot |-> "requesting",
                    none |-> "reading"][ret]
  /\ UNCHANGED <<venue, handle, task, sweeper, disconnects, sweeps, deaths, published>>

(* The shard task panics over an event whose levels are no pairs of        *)
(* decimals, before it locks the books.  Its sync tasks run on without it. *)
ShardPanic ==
  /\ shard = "reading" /\ wire # <<>> /\ deaths < MaxDeaths
  /\ shard' = "dead"
  /\ deaths' = deaths + 1
  /\ wire' = <<>>
  /\ handle' = NoTask
  /\ UNCHANGED <<venue, task, sweeper, disconnects, sweeps, unsound, bookVars, published>>

(* request_sync: abort the symbol's previous sync task, start another. *)
RequestSync ==
  /\ shard = "requesting"
  /\ \E t \in Tasks :
       /\ task[t].pc = "idle" \/ t = handle
       /\ task' = [s \in Tasks |-> IF s = t THEN [Idle EXCEPT !.pc = "check"]
                                   ELSE IF s = handle THEN Idle ELSE task[s]]
       /\ handle' = t
  /\ shard' = "reading"
  /\ UNCHANGED <<venue, wire, sweeper, counts, bookVars, published>>

(* The book is locked again to be published. *)
Publish ==
  /\ shard = "publishing"
  /\ published' = book.last_update_id
  /\ shard' = "reading"
  /\ UNCHANGED <<venue, wire, handle, task, sweeper, counts, bookVars>>

(* The socket fails or is closed; what was not read is lost. *)
Disconnect ==
  /\ shard = "reading" /\ disconnects < MaxDisconnects
  /\ shard' = "resetting"
  /\ disconnects' = disconnects + 1
  /\ wire' = <<>>
  /\ UNCHANGED <<venue, handle, task, sweeper, sweeps, unsound, deaths, bookVars,
                 published>>

(* Mutant of ResetBook: the book is left waiting for a snapshot. *)
ResetBookWaiting ==
  /\ shard = "resetting"
  /\ MarkForResync /\ Cleared
  /\ shard' = "aborting"
  /\ UNCHANGED <<venue, wire, handle, task, sweeper, disconnects, sweeps, deaths,
                 published>>

ResetBook ==
  /\ shard = "resetting"
  /\ Reset /\ Cleared
  /\ shard' = "aborting"
  /\ UNCHANGED <<venue, wire, handle, task, sweeper, disconnects, sweeps, deaths,
                 published>>

(* Mutant of AbortSyncs: the table is cleared, its tasks run on. *)
AbortSyncsForgotten ==
  /\ shard = "aborting"
  /\ handle' = NoTask
  /\ shard' = "offline"
  /\ UNCHANGED <<venue, wire, task, sweeper, counts, bookVars, published>>

(* The shard's own sync task dies with the connection. *)
AbortSyncs ==
  /\ shard = "aborting"
  /\ task' = [t \in Tasks |-> IF t = handle THEN Idle ELSE task[t]]
  /\ handle' = NoTask
  /\ shard' = "offline"
  /\ UNCHANGED <<venue, wire, sweeper, counts, bookVars, published>>

-----------------------------------------------------------------------------
(* A sync task: sync_book.  The pauses between its attempts are the delay  *)
(* before its next step.                                                   *)

(* The head of the loop: nothing to do unless the book waits. *)
Check(t) ==
  /\ task[t].pc = "check"
  /\ task' = [task EXCEPT ![t] = IF book.state = "buffering"
                                 THEN [Idle EXCEPT !.pc = "fetch"] ELSE Idle]
  /\ UNCHANGED <<venue, wire, shard, handle, sweeper, counts, bookVars, published>>

(* The venue answers, after the wait for the pacer's permit. *)
Serve(t) ==
  /\ task[t].pc = "fetch"
  /\ \E lag \in 0..MaxLag :
       /\ lag <= vnow
       /\ task' = [task EXCEPT ![t] = [pc |-> "reply", lui |-> vnow - lag]]
  /\ UNCHANGED <<venue, wire, shard, handle, sweeper, counts, bookVars, published>>

(* The request fails or is rate limited, and is retried. *)
Fail(t) ==
  /\ task[t].pc = "fetch"
  /\ task' = [task EXCEPT ![t].pc = "check"]
  /\ UNCHANGED <<venue, wire, shard, handle, sweeper, counts, bookVars, published>>

(* Somebody is fetching the book's snapshot, or is about to be started. *)
Fetching ==
  \/ \E t \in Tasks : task[t].pc \in {"check", "fetch", "reply"}
  \/ shard = "requesting"
  \/ sweeper = "spawning"

Died ==
  /\ deaths < MaxDeaths
  /\ deaths' = deaths + 1
  /\ UNCHANGED <<venue, wire, shard, handle, sweeper, disconnects, sweeps, unsound,
                 book, have, proven, published>>
  /\ stranded' = (stranded \/ (book.state = "buffering" /\ ~Fetching'))

(* The venue never answers, and the client waits without a timeout. *)
Hang(t) ==
  /\ task[t].pc = "fetch"
  /\ task' = [task EXCEPT ![t] = [Idle EXCEPT !.pc = "hung"]]
  /\ Died

(* The task panics over a level that is no decimal, before it locks. *)
Panic(t) ==
  /\ task[t].pc = "reply"
  /\ task' = [task EXCEPT ![t] = Idle]
  /\ Died

(* Mutant of Apply: a snapshot that does not fit ends the task. *)
ApplyOnce(t) ==
  /\ task[t].pc = "reply"
  /\ \E ret \in BOOLEAN : TakeSnapshot(task[t].lui, ret)
  /\ task' = [task EXCEPT ![t] = Idle]
  /\ UNCHANGED <<venue, wire, shard, handle, sweeper, disconnects, sweeps, deaths,
                 published>>

Apply(t) ==
  /\ task[t].pc = "reply"
  /\ \E ret \in BOOLEAN :
       /\ TakeSnapshot(task[t].lui, ret)
       /\ task' = [task EXCEPT ![t] = IF ret THEN Idle ELSE [Idle EXCEPT !.pc = "check"]]
  /\ UNCHANGED <<venue, wire, shard, handle, sweeper, disconnects, sweeps, deaths,
                 published>>

-----------------------------------------------------------------------------
(* The staleness sweeper: take_stale_books under the lock, then one sync   *)
(* task per stale book, which no table holds and nothing aborts.  A book   *)
(* is not stale while its event is being handled: the event has just set   *)
(* last_update_time.                                                       *)

TakeStale ==
  /\ sweeper = "asleep" /\ sweeps < MaxSweeps
  /\ book.state = "live"
  /\ shard \in {"reading", "resetting", "dead"}
  /\ sweeps' = sweeps + 1
  /\ MarkForResync /\ Cleared
  /\ sweeper' = "spawning"
  /\ UNCHANGED <<venue, wire, shard, handle, task, disconnects, deaths, published>>

SpawnResync ==
  /\ sweeper = "spawning"
  /\ \E t \in Tasks \ {handle} :
       /\ task[t].pc = "idle"
       /\ task' = [task EXCEPT ![t].pc = "check"]
  /\ sweeper' = "asleep"
  /\ UNCHANGED <<venue, wire, shard, handle, counts, bookVars, published>>

-----------------------------------------------------------------------------
Venue == Tick \/ Emit \/ Skip
Shard == Connect \/ Read \/ ShardPanic \/ RequestSync \/ Publish \/ Disconnect
         \/ ResetBook \/ AbortSyncs
Sync(t) == Check(t) \/ Serve(t) \/ Fail(t) \/ Apply(t) \/ Hang(t) \/ Panic(t)
Sweeper == TakeStale \/ SpawnResync

Next == Venue \/ Shard \/ (\E t \in Tasks : Sync(t)) \/ Sweeper

Spec == Init /\ [][Next]_vars

(* The runtime polls every task that can run, and the venue answers a      *)
(* request that is repeated often enough, unless it hangs.  Nothing makes  *)
(* the stream emit, a connection break or a book go stale.                 *)
Fairness ==
  /\ WF_vars(Connect) /\ WF_vars(Read) /\ WF_vars(RequestSync)
  /\ WF_vars(Publish) /\ WF_vars(ResetBook) /\ WF_vars(AbortSyncs)
  /\ WF_vars(SpawnResync)
  /\ \A t \in Tasks : WF_vars(Check(t)) /\ SF_vars(Serve(t)) /\ WF_vars(Apply(t))

FairSpec == Spec /\ Fairness

-----------------------------------------------------------------------------
(* A live book whose snapshot was straddled by a buffered event holds      *)
(* every update up to its last_update_id, whatever the stream loses and    *)
(* however old the snapshot was (on_snapshot, on_depth).                   *)
ProvenComplete ==
  book.state = "live" /\ proven => have = 1..book.last_update_id

(* README.md, on need_first_event: "It is not a hole".  While the stream   *)
(* loses nothing, a live book holds every update up to its last_update_id  *)
(* even when no event straddled its snapshot.                              *)
LiveComplete ==
  book.state = "live" /\ losses = 0 => have = 1..book.last_update_id

(* What is true of it: so it is when snapshots are fresh, and the book has *)
(* not seen both a sweep and a disconnect.                                 *)
FreshComplete ==
  MaxLag = 0 /\ (sweeps = 0 \/ disconnects = 0) => LiveComplete

(* Every gap the book reports is an event the stream lost: reconnects,     *)
(* sweeps and retried snapshots raise no false gap (on_depth, reset).      *)
NoFalseGap == book.gap_count <= losses

(* A book that waits for a snapshot has a task that fetches one, or one is *)
(* about to be started, unless its last task died under it: no wake-up is  *)
(* lost between the shard, its sync tasks, their aborts and the sweeper.   *)
BufferingIsServed == book.state = "buffering" => Fetching \/ stranded

(* What the invariants above rest on.  Every event continues the stream;   *)
(* a proven book checks pu from its first live event on; the book stays    *)
(* reset until the shard has aborted its sync tasks, so none of them is    *)
(* killed while a waiting book needs it.                                   *)
StreamOK == wire \in Seq(StreamEvent) /\ book.buffer \in Seq(StreamEvent)

ProvenChained ==
  book.state = "live" /\ proven => ~book.need_first_event /\ ProvenComplete

AbortingIsReset == shard = "aborting" => book.state = "uninitialized"

(* What is said above of a replay is what the loop of on_snapshot          *)
(* computes: how far it gets, whether it gives up and whether it applies   *)
(* an event, for the buffer the book has and every snapshot that may come. *)
ReplayMatchesLoop ==
  \A lui \in 0..MaxId :
    Loop(book.buffer, lui) =
      [live |-> Breaks(book.buffer, lui) = {},
       last |-> ReplayedTo(book.buffer, lui),
       any |-> Replayed(book.buffer, lui) # {}]

(* The reader's copy: the levels of a book that is live and proven. *)
Copy ==
  INSTANCE ExactCopy
    WITH now <- vnow, copy <- IF book.state = "live" /\ proven THEN have ELSE {}

(* To a reader, a book that is live and proven is a copy of the venue's    *)
(* book that only moves forward; it is lost as a whole or not at all       *)
(* (run_shard, sync_book, check_stale).                                    *)
ImplementsExactCopy == Copy!Spec

(* Between on_depth and the second lock nothing disturbs the book: what is *)
(* published is the live book the event left, and subscribers see its ids  *)
(* increase (run_shard).                                                   *)
PublishesInOrder ==
  [][published' # published => book.state = "live" /\ published' > published]_vars

(* A book that waits for a snapshot does not wait for ever, unless its     *)
(* last task dies: nothing but a disconnect helps it then (sync_book,      *)
(* check_stale).                                                           *)
Recovers == book.state = "buffering" ~> book.state # "buffering" \/ stranded
=============================================================================
