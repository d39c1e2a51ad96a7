# A TLA+ model of binance-feed-handler

The program keeps an order book per Binance futures symbol in step with the venue: it reads depth
diffs and tickers over WebSocket connections, fetches REST snapshots where a book has to be built
anew, and publishes best bids and offers and book tops to WebSocket clients of its own. It exists
twice, in Rust (`rust/src`) and in Python (`python`). This directory models the Rust program,
and of the Python program the synchronisation, where it differs.

The modules are checked with TLC on small instances (`MC*.tla`, `*.cfg`), and part of what is
checked is proved with TLAPS for all instances (`*Proofs.tla`). `PROJECT.json` maps each definition
to the lines of the source it models.

## The system

| Component | State | Operations | Hard behaviour |
|---|---|---|---|
| Order book (`book.rs`) | state, `last_update_id`, levels, resync buffer, `need_first_event`, ticker, mismatch and other counters | `on_depth`, `on_snapshot`, `set_ticker_bbo`, `reset`, `mark_for_resync` | long sequences of legal calls; off-by-one at the bridge; a full buffer; partial failure of a snapshot |
| Synchronisation (`feed_handler.rs`: `run_shard`, `sync_book`, `check_stale`) | the connection, `sync_handles`, the running sync tasks, the books behind a lock | read, request a snapshot, publish, disconnect, reset, abort; check, fetch, apply; sweep | tasks that interleave at every await and lock; aborts; a task no table holds; stale snapshots; retries |
| Snapshot pacer (`SnapshotPacer`, `Ticket`, `pace`) | `next_seq`, ticket channel, heap, `next_at` | `acquire`, receive, sleep, grant | tickets racing a sleep; aborted waiters; starvation by rank |
| Publisher (`put`, `publisher.rs`) | dispatcher channels, `SUBSCRIBERS`, a queue, streaming task, outgoing channel and socket per client, drop counters | `put`, `publish`, subscribe, unsubscribe, end | bounded queues that shed; a client that leaves or unsubscribes with events on the way |
| Telemetry (`Telemetry::gather`, `/health`, `/stats`, `/metrics`, the stats line) | book counters, `ShardInfo`, global atomics | gather | a report of figures that go on changing |
| Feed (`run`: all shards, one sweeper, one pacer) | connection per shard, book and sync tasks per symbol, the sweeper's batch | all of the above, for many symbols | a shard that goes down while others are swept and resynced; many tasks before one pacer |
| Universe (`resolve_universe`, `rank_by_volume`, `pick_top_by_volume`, shards) | the tracked symbols, their ranks and shards | start, list, rank, fail, exit | two requests at different moments; ties, caps and symbols missing; stability across restarts |
| Configuration, command line, test drivers (`main.rs`) | none | - | - |
| Python port (`python/*.py`) | as above | as above, on one thread | a cleanly closed socket leaves the read loop without an exception and without a reset |

How they interact. A shard task owns one connection and its `sync_handles`. It passes each depth
event to the symbol's book under the lock on all books; the book returns `Publish`, `NeedSnapshot`
or nothing. On `NeedSnapshot` the shard aborts the symbol's previous sync task and spawns another,
which asks the pacer for a slot, fetches, and applies the snapshot under the same lock. From time to
time the sweeper un-syncs books that are live but silent, and spawns sync tasks for them that no
table holds. On `Publish` the shard takes the lock again and puts the top of the book into a
dispatcher channel; a dispatcher task hands it to each subscriber's queue. Telemetry reads all of it.

What makes each part correct:

- book: a live book is contiguous, uncrossed and agrees with the ticker; the unproven path is
  counted; nothing buffered in one life of the book is replayed in another;
- synchronisation: no live book has a hole; no false gap; a book that waits for a snapshot has
  somebody who fetches it, and stops waiting;
- feed: nobody who waits is forgotten; a disconnect stays with its shard; once faults cease no book waits for ever;
- pacer: at most one request per interval, best rank first, no slot burned on the dead, no ticket
  lost, nobody waits for ever once requests cease;
- publisher: every event is delivered, queued or counted as shed; order and filter are kept; no
  client can hold up the feed; no entry outlives its client;
- universe: what is tracked is what was asked for, ranked by liquidity, each symbol on one shard, and on
  the same one after a restart;
- telemetry: counters do not go back; a report is current and does not contradict itself.

## The modules

    Replay ---- BookProtocol ---- BookProtocolSpec <==(implements)== Book
                      |
                      +---------- BookSync ==(implements)==> ExactCopy
                                     |
                                     +---- PySync

    RankedSlots <==(implements)== SnapshotPacer
       |
       +---- Feed                                     Publisher   Telemetry   Universe

Beside them stand the proofs, a module for each component: `ReplayProofs` (used by the next two), `BookProofs`, `BookSyncProofs`,
`PacerProofs`, `FeedProofs`, `PublisherProofs`, `TelemetryProofs`, `UniverseProofs`.

**Replay** has the operators of the resync buffer: `Push` (`buffer_push`, which drops the oldest
event of a full buffer) and the replay of `on_snapshot`. The loop of the code is written as sets of
buffer positions: those not contained in the snapshot (`Replayable`), those at which the loop gives
up (`Breaks`: the first does not straddle `lastUpdateId`, or a later one does not continue its
predecessor), those it applies (`Replayed`), and the id it ends at (`ReplayedTo`). Beside them is the
loop as the code has it, event by event (`Iteration`, `Loop`). `ReplayMatchesLoop` compares the two: TLC in every
state of the `sync` run, and `ReplayIsLoop` for all buffers and snapshots.

**BookProtocol** is the book without its levels, one record `book` and one action per outcome of each
operation. The action has the operation's result as a parameter `ret`. The verdict of
`check_integrity` is a parameter `sound`. `BookProtocolSpec` lets a bounded environment call the
operations in any order; it is the abstract specification of a book.

**Book** is the whole of `struct Book`: sides as functions from price to quantity (0: no entry),
`check_integrity` with its crossing test and its count of ticker mismatches, and the exported
counters. `unchecked` is a history variable: events accepted without a `pu` check.

**BookSync** composes one book with the venue, the shard task, sync tasks and the sweeper. A step is
what one task does between two awaits or two releases of the lock. Levels are the set `have` of venue
updates they contain, which is what the contiguity claims are about. A panic (`parse_levels`, on a level
that is no decimal) ends the shard or the sync task that parses; a request the venue never answers keeps its task
for ever. Such losses are counted in `deaths`; the history variable `stranded` says that one of them took the
last task of a book that waits, until a disconnect resets the book.

| `BookSync` | `feed_handler.rs` |
|---|---|
| `shard` = offline, reading, requesting, publishing, resetting, aborting, dead | where `run_shard` is: connect (515), read (547), `request_sync` (489), second lock (642), reset (710), abort (718); ended by a panic |
| `handle` | `sync_handles.get(symbol)` |
| `task[t].pc` = check, fetch, reply, hung | `sync_book`: the test at 440, `fetch_snapshot` at 447, before the lock at 451; waiting for an answer that does not come |
| `task[t].lui` | the `lastUpdateId` of a snapshot that was fetched and not yet applied |
| `sweeper` = spawning | between `take_stale_books` and the spawn at 1039 |
| `wire` | diffs sent and not yet read |

**ExactCopy** is what a book promises to its reader: nothing, or the venue's book of some moment, which does not go
back while the copy lasts. BookSync implements it, where the reader is one who reads books that are live and proven
(`Copy` in BookSync has the mapping).

**PySync** is BookSync as the Python program runs it: on one thread, so that no step of another task comes between two steps
without an await (`Occupied`); without panics and hanging requests, which it catches or times out; and with `CleanClose`, the read loop
that ends without an exception when the socket is closed in order, and so without a reset.

**RankedSlots** is what the pacer promises: slots at least an interval apart, each to a waiting request that none goes before;
a request that is withdrawn leaves no trace. SnapshotPacer implements it (`Slots` in SnapshotPacer has the mapping: the
tickets that somebody still waits on), and Feed uses it in its place.

**Feed** has several shards, their symbols, one sweeper and the pacer. A book is its state, an event or a snapshot is what
it does to the state. `Disconnect`, `ResetBooks` (all books of the shard, one lock), `Abort` (one task after another) and
`AllAborted` are `run_shard` from 704 to 720; `TakeStale` takes any set of live books under one lock, `SpawnResync` starts their
tasks one after another, as `check_stale` does. A sync task is `<<symbol, "own">>` (in `sync_handles`) or
`<<symbol, "orphan">>` (the sweeper's), and waits at the pacer between `Check` and `Grant`.

**Universe** has the start of the process: the two requests, either of which may fail, the selection, the ranks and the shards, over
several starts between which listing, volumes and arguments may change. A sort by a total order is written as what it results in:
each element stands behind as many as come before it in the order.

**SnapshotPacer** has `acquire` in three steps (number, send, wait), aborts, and the pacing task's
loop: drain the channel, sleep while the next slot is in the future, else take the best ticket and
grant it if somebody still waits. Of `next_at` the time left until it is kept, so that time is finite.

**Publisher** has `put` and both dispatcher tasks, `publish` under the lock of the table, and
`handle_ws_client` with its outer and its streaming loop, its streaming task (`Take`, `Pass`, `Stop`; `carried` is the event in its
hand while it waits for room in the outgoing channel) and its end. Between
`StreamBreaks` and `End` the entry and the streaming task outlive the streaming loop, as in the code.

**Telemetry** has `gather` as the lock, the count of the books, one load per atomic, and the return;
around it those steps of shards, sync tasks and sweeper that change a reported figure. Books are
reduced to their state and two counters.

Operators whose comment begins with *Mutant of* are not part of the
specifications: each is a plausible bug in that definition, and the property it was written for is
violated once it takes the definition's place.

## The runs

| Run | States | What it shows |
|---|---|---|
| `book` | 38,041 | `LiveIsSound`, `UncheckedIsCounted`, `BufferOnlyWhileBuffering`; `DropsAreCounted`: what leaves a buffer that goes on is counted, and a book that goes live is past all it gave up; `ImplementsProtocol`: the whole book refines `BookProtocolSpec` |
| `sync` | 568,974 | `ProvenComplete`, `NoFalseGap`, `BufferingIsServed`, `PublishesInOrder`, `ImplementsExactCopy`, with one of every fault and snapshots up to two updates old; `ReplayMatchesLoop`: the set form of the replay gives what the loop gives, for every buffer met and every snapshot |
| `sync_fresh` | 463,231 | `FreshComplete`: with fresh snapshots, and two sweeps or two disconnects but not both kinds, no live book has a hole, proven bridge or not |
| `sync_orphan` | violated | `LiveComplete` (finding 1) |
| `sync_live` | 22,346 | `Recovers`, under `FairSpec` |
| `python_clean_close` | violated | `LiveComplete` (finding 2) |
| `pacer` | 89,407 | `ImplementsRankedSlots` (rate and order), `NoSlotBurned`, `TicketsKept`, `EveryoneServed` |
| `feed` | 60,190 | `WaitingAreServed`, `OfflineIsUnsynced`, `DisconnectIsLocal`; `WaitingEnds`, under `FairSpec`; `TypeOK` says that the pacer holds the requests of those that wait, and of no one else |
| `publisher` | 256,050 | `EveryDropCounted`, `SentInOrder`, `TableMatchesHandlers`; `FeedNeverBlocks`, with fairness for the dispatcher tasks alone |
| `publisher_resubscribe` | violated | `LatestFilterServed` (finding 3) |
| `telemetry` | 2,860,151 | `AppliedWereRequested`, `BookDropsWereProduced`, `NoneLiveOffline`, `CountersGrow`, `ReportIsCurrent` |
| `universe` | 166,497 | `TracksWhatWasAsked`, `RanksFollowLiquidity`, `ShardsPartition`, `StableAcrossRestarts` |

`tlc -workers 2 -config <Run>.cfg <MC module>` repeats any of them; `PROJECT.json` names the pairs.

### The bounds, and why they are enough

- *Update ids* (`MaxId` 3 to 5). The protocol only compares ids. Five updates are enough for two
  buffered events, a snapshot between, before or after them, a lost event and the event after it.
- *Buffer* (`BufferMax` 2, 3 in `sync`; 5,000 in the code). The bound is met in every run, so a
  full buffer that drops its oldest event is part of each.
- *Tasks*. `sync` has two slots: the task in `sync_handles` and one orphan of the sweeper.
  `sync_fresh` has three, for two orphans beside the shard's task. A slot bounds how many run at once,
  not how often.
- *Faults* (`MaxDisconnects`, `MaxSweeps`, `MaxLosses`, `MaxUnsound`, `MaxDeaths`): one of each in `sync`, all of
  which may hit the same resync; two sweeps and two disconnects in `sync_fresh`.
- *Age of snapshots* (`MaxLag`): 2 in `sync`, which makes two stale snapshots in a row possible. The
  README of the repository measures that REST runs ahead of the stream, so `sync_fresh`, `sync_orphan`
  and `sync_live` have 0; `ProvenComplete`, `NoFalseGap` and `BufferingIsServed` do not need it.
- *Book*: two prices, two quantities, and six diffs and three snapshots chosen to continue each
  other, to leave gaps, to cross the book and to empty a side; the mismatch threshold is 2, so that
  the counter is met, reset and exceeded.
- *Pacer*: two ranks, two tasks of one rank, four tickets (an aborted task can ask again), an interval
  of two ticks. *Publisher*: capacity two everywhere and three events of the two streams together, so that two events
  may stand in each queue, in either order of their streams, and each queue may overflow; three messages of one client. Clients
  share only the table, and no step of one reads another's part; what one does to another's queue is left to the proofs, which hold for
  any number.
- *Feed*: two symbols on one shard and one on the other, so that a disconnect hits some and not all; ranks that alternate
  between the shards; an interval of one tick; one disconnect, one sweep of any batch, one event or snapshot that does not fit. Two
  disconnects (334,736 states, about five minutes) pass as well.
- *Universe*: four symbols, two to a shard, so that there is a full, a short and no last shard; volumes of three values, so that every
  pattern of ties and zeros occurs; caps of none, zero, one and three; two starts, which is what stability compares.
- *Telemetry*: two symbols (with one, "a majority" would be "all"), two requests answered at a time,
  each counter up to one, snapshots up to two.

Symmetry is declared for sync tasks, gatherers and, in Telemetry, symbols: no definition tells
their members apart. It is not used where liveness is checked. In `python_clean_close` one
clean close alone is enough; all other faults are zero. `CHECK_DEADLOCK FALSE` stands where
the bounds let the system stop: all faults spent, all updates made, all requests sent.

### Fairness

- `BookSync!Fairness`: weak fairness of each step of the shard, of the sync tasks and of the
  sweeper's spawn, since the runtime polls every task that can run; strong fairness of `Serve`, which says
  that the venue answers a request that is repeated for ever (`fetch_snapshot` may fail any number of
  times in between, and `sync_book` retries without end). None for `Fail`, for the stream, for
  connections or for sweeps. `Recovers` is about books that are not stranded: a panic or a request that hangs
  may end a book's recovery, and the property says that nothing else does.
- `Feed!Fairness`: weak fairness of each step of a shard but the faults, of each spawn, of the pacer and of time; strong fairness
  of an answer, as above. None for any event of a stream: the README of the repository names symbols that have no flow at all. The
  bounds end the faults, and `WaitingEnds` says what follows: each book is live for good, or has had no event since its last connect and
  has asked for nothing.
- `SnapshotPacer!FairSpec`: time passes, the pacing task and a task about to send its ticket run.
  None for `UseSlot` and `Abort`. `EveryoneServed` holds because the bounded `MaxSeq` ends the requests; with an
  endless supply of better-ranked ones the tail starves, by design of the heap.
- `Publisher!FairSpec`: the dispatcher tasks run. Nothing of clients, handlers or streaming tasks, which
  is the point of `FeedNeverBlocks`.

### Assumptions of the models

- An abort takes effect at once. In tokio it takes effect at the task's next await; a task inside
  `on_snapshot` holds the lock on the books and finishes, which is the order "apply, then abort".
- A book is not stale while an event of it is being handled: the event has just set
  `last_update_time`, and the threshold is 30 s (`TakeStale` waits for `reading` or `resetting`).
- The venue's events are contiguous but for those it loses (`Emit`, `Skip`), and a snapshot is a
  prefix of its updates.
- A panic of a task drops its locks as `tokio`'s mutex does, without poisoning them: other tasks go on.
- The atomics of Telemetry are sequentially consistent; the code uses `Relaxed`, which allows more. The
  order on which `AppliedWereRequested` and `BookDropsWereProduced` rest is also given by the lock that
  both sides take between the two counts.
- Volumes are numbers (`UniverseAssumption`): a ticker's text that is none counts as 0 in the code, but the text `NaN` would parse.

## What is proved

The eight `*Proofs.tla` modules hold theorems for every number of tasks, clients, symbols and shards, every buffer, queue and
channel size, every number of updates and faults, every interval, every age of snapshots and all volumes. Every invariant,
every action property and all three refinements that the passing runs check are among them. They rest on the named assumptions of the
modules, which TLC evaluates in the runs and which say no more than this:

- `BufferMaxAssumption`, `SyncAssumption`, `FeedAssumption`, `PacerAssumption`, `PublisherAssumption`: capacities and the interval are
  positive, bounds are naturals, each symbol has a shard and each task a rank, and `NoTask` is no task;
- `BookAssumption`: diffs, snapshots and tickers are made of prices, quantities and naturals;
- `NumberingAssumption`, for `FollowsProtocol` alone: the venue numbers each event beyond its `pu` (`U <= u`), and ids are
  finitely many, as they are in a `u64`;
- `TelemetryAssumption`, `UniverseAssumption`: finitely many symbols and shards; volumes are numbers.

### Synchronisation (`ReplayProofs`, `BookSyncProofs`)

1. **`ReplayComplete`**: for any buffer of stream events and any `lastUpdateId`, a replay that does not
   break and applies at least one event leaves exactly the updates `1..last_update_id`. No induction
   over the loop is needed. The replayed positions chain (`ReplayChains`) and end in ascending order
   (`ReplayAscends`), so for an update beyond the snapshot the *least* replayed position whose event ends at or
   after it is the one that covers it: its predecessor ends before the update, and it starts right there.
   **`ReplayIsLoop`**: this way to speak of a replay, by positions, is what the loop of `on_snapshot` computes, for any buffer and any
   `lastUpdateId`; so it is `Spec => []ReplayMatchesLoop` (**`ReplayIsWhatLoopDoes`**). Where the loop is after a prefix of the
   buffer has a form without a loop too (`AfterPrefix`: whether a break was met, and the last position applied), which the body of the
   loop takes from each prefix to the next (`PrefixIterates`: an event is skipped, breaks, or is applied). So the equations of the
   loop have a solution, and only one, for where two of them first differ the body would have given both the same
   (`LoopIsUnique`). This stands in for the induction, of which the provers have none: a least counterexample.
2. **`TypeCorrect`**: `Spec => []TypeOK`. `TypeOK` is not inductive: whether an event that arrives
   is well formed depends on what the stream put on the wire. `Typed == TypeOK /\ StreamOK` adds that the wire
   and the buffer hold only events that cover the ids right after their `pu`, and is.
3. **`ProvenNeverHoled`**: `Spec => []ProvenComplete`. A live book that went live on a straddling event
   holds every update up to its `last_update_id`, however many events are lost, snapshots stale, tasks
   orphaned. `ProvenComplete` alone is not preserved: a book with `need_first_event` set would
   accept any event. `ProvenChained` adds that a proven live book has it unset, so that each event
   that moves the book starts right after the last. The step for snapshots is `ReplayComplete`.
4. **`WaitingIsServed`**: `Spec => []BufferingIsServed`. Whenever a book waits there is a task, a
   request about to be made or a sweep about to spawn one, or its last task was lost to a panic or an unanswered request
   (`stranded`). The step that could break it is
   `AbortSyncs`; it is covered by `AbortingIsReset` (the book stays uninitialised from its reset to the
   abort, since nothing is read, swept or applied to it in between), the other half of `Served`.
5. **`IsExactCopy`**: `Spec => ImplementsExactCopy`. The invariant is `Past`: whatever is on the wire, in the
   buffer, in a fetched snapshot or in the book is not beyond the venue's latest update. With `ProvenComplete` a
   proven live book is then a prefix `1..n` of what exists, and `ReadableGrows` goes through the steps: only the loss of the whole
   book takes an update from a reader. Each step of BookSync is a `Tick`, a `Sync`, a `Lose` or a stutter of ExactCopy.
6. **`PublishedIncreases`**: `Spec => PublishesInOrder`. The lock is released between an event's effect on the book
   and its publication. The invariant `Ascending` says that the wire ascends beyond the last published id, and that between
   the two the book stays live, beyond the last published id and short of the wire.
7. **`GapsAreLosses`**: `Spec => []NoFalseGap`. The count of gaps says nothing about the state that makes the next one, so the
   invariant counts what is still to come. `InOrder` says that the events on the wire ascend, each beginning where an earlier
   one ended or later, and that the book stands before them. `Accounted(n)` says that the gaps counted, and, while the shard
   streams, the misses ahead (events on the wire that begin where nothing before them ends) together are no more than the losses
   and `n`. In Rust `n` is 0. Reading an event removes a miss whenever it counts a gap (`FewerMissed`, `ReadStep`); a lost connection
   removes them all; and a new one finds no book to miss anything, since none that is offline is not reset (`OfflineIsReset`).
8. **`FreshIsComplete`**: `Spec => []FreshComplete`. Three invariants carry it. `Alone`: while there was no sweep or no
   disconnect, at most one sync task can still hand the book a snapshot. `NoMiss`: without losses the next event
   continues where the stream stands. `NoHole` and `InTime`: the snapshot of that one task is not behind what an empty buffer waits for
   next, and a live book that has yet to take its first event unchecked is not behind the event that comes. Finding 1 is what
   happens where `Alone` fails.
9. **The same of the Python program**: `PyTypeCorrect`, `PyProvenNeverHoled`, `PyIsExactCopy`, `PyPublishedIncreases`. A step of
   PySync is a step of BookSync or a `CleanClose` (`BothAreEither`), and the invariants of 2 to 6 are invariants of both together
   (`EitherSpec`). `PyWaitingIsServed` is stronger than its counterpart: nothing is `stranded` where no task dies.
10. **What a clean close costs** (finding 2). `PyGapsAreLossesOrCloses`: `PySpec => [](book.gap_count <= losses + disconnects)`,
    by `Accounted(disconnects)`: a book left standing may take what it missed for one gap when the shard connects again, and what is
    sent while nobody listens is no loss. `Standing` keeps that one gap in reserve until the connect. `PyFreshUntilLost`:
    until a connection is lost, fresh snapshots and a stream without losses leave no hole in a live book, whatever sweeps there are, as
    such a run is one of the Rust program (`ConnectedIsRust`). By `PyProvenNeverHoled` only unproven books suffer from what comes after.

### Book (`BookProofs`)

11. **`LiveBooksAreSound`**, **`UncheckedEventsAreCounted`**, **`OnlyBufferingBuffers`** and **`TypeCorrect`**: the three invariants are
   inductive together, over the types. A book leaves `OnDepth` and `OnSnapshot` live only through `check_integrity`, whose count of
   mismatches is then under the threshold.
12. **`NoSilentDrop`**: `Spec => DropsAreCounted`, over every step. A diff takes the oldest event of a full buffer and counts it
   (`DepthMoves`); a fall-back starts from an empty buffer, by `BufferOnlyWhileBuffering`. A snapshot empties the buffer; if the
   book goes live by it the replay met no break, so that every event was in the snapshot or replayed, and ends no later than
   the last one replayed (`UnbrokenIsPast`, by `ReplayAscends` and the venue's numbering). What a rejected snapshot or a reset gives up
   is not counted (see the observations below), and the theorem says no more of it than that the book is not live then.
13. **`FollowsProtocol`**: `Spec => ImplementsProtocol`. Each call of `Book` is the abstract call with the verdict of `check_integrity` for
    `sound` and the same result. The replay of `Book` runs over full diffs and that of the protocol over their ids;
    `SameIdsReplayAlike` says that they break and end alike. The numbers of the buffer do not exceed the greatest id, which is why the
    abstract `MaxId` may be it.

### Pacer and feed (`PacerProofs`, `FeedProofs`)

14. **`TypeCorrect`** and **`NoTicketLost`** of SnapshotPacer. `NumbersApart` says that a number given out and not yet sent
    is below the counter, is on no ticket held, and is nobody else's; so a ticket that arrives never replaces another, and the one
    taken from the heap is that of no second task.
15. **`SlotsAreUsed`** (`NoSlotBurned`) and **`KeepsItsPromise`**: `Spec => ImplementsRankedSlots`. `Clock` ties the time left to the next slot
    to the time since the last. A grant is the abstract grant since the least ticket of the heap is ahead of all that still wait
    (`BestIsAhead`): the channel has been drained by then. Sending enqueues, an abort dequeues, and taking the ticket of an
    aborted task is a stutter.
16. **Feed**: `TypeCorrect` (the pacer holds exactly the requests of those that wait, after every abort and grant),
    `NobodyForgotten` (`WaitingAreServed`), `NoneWithoutConnection` (`OfflineIsUnsynced`) and `OthersUndisturbed`
    (`DisconnectIsLocal`). `WaitingAreServed` is not inductive alone: an abort takes the task of a book, which waits unless the shard has
    reset it, so it needs `OfflineIsUnsynced` for the shard that is aborting.

### Publisher (`PublisherProofs`)

17. **`DropsCounted`** (`EveryDropCounted`). The balance has one equation per stream (produced = published + in hand + in the
    channel + shed) and one per client (offered = sent + outgoing + in hand + queued + dropped). They need `OwnStream`: what a
    channel and a dispatcher hold is of their own stream. Each step moves one event from one term to the next.
18. **`NoEntryLeaks`** (`TableMatchesHandlers`), over the types, by cases of the handler.
19. **`StreamsInOrder`** (`SentInOrder`). An event passes six stages: sent, outgoing, in the streaming task's hand, queue, in the dispatcher's hand,
    channel. `InOrder` says that in
    each stage the events of a stream ascend, that those of an earlier stage are all before those of a later one, and that none is beyond
    what has been made. It is kept by what steps do to stages: one loses its head, one hands its head to the next, the last gains the
    newest (`ShortenedInOrder`, `ForwardInOrder`, `AddedInOrder`). That what is sent passes the filter is `ClientWanted` of the
    four stages a client owns.

### Telemetry (`TelemetryProofs`)

20. **`AppliedAreRequested`** and **`BookDropsAreProduced`**. At any moment snapshots applied, with those about to be, are at most those
    requested, and book events shed, with those about to be put, at most those produced (`Promises`). A report is read over many moments,
    so `Gathering` follows it: what a gatherer has counted of the books stays true while it holds them (`Surveyed`), what it has loaded
    lies between the latest report and the present (`Between`), and of each pair that the code loads in a certain order the first is
    not overtaken by the second (`InOrder`).
21. **`NoneLooksLiveOffline`**, from `Connected` and `Buffered`, which say what a shard may do to its books before its reset.
22. **`CountersNeverGoBack`** (`CountersGrow`) and **`ReportsAreCurrent`** (`ReportIsCurrent`), from `Gathering` and the lock. The
    totals over symbols are cardinalities of sets of marks, one mark per symbol and unit (`AllMarks`), so that a sum
    grows when a term does without an induction over the symbols.

### Universe (`UniverseProofs`)

23. By a strict total order the number of elements before it is a place of its own for each element of a finite set, and every place
    up to the cardinality is taken (`PlacesNumber`). So the sort has each symbol once (`SortedIsSort`), ranks number the symbols
    (`RankIsPlace`), and the cap takes as many as it allows, none of them less liquid than one left out (`PickedIsTop`).
24. The chunks of a sequence are slices that are full but for the last and never empty (`Spans`, `ChunksCut`), every place is in one
    (`EveryPlace`) and none in two (`PlaceOnce`); the arithmetic of the division is `Ceiling`.
25. **`TracksAsked`**, **`RankedByLiquidity`**, **`EachOnOneShard`** and **`SameAfterRestart`** follow from the invariant `IInv`, which says how far
    `resolve_universe` has come with what it was asked for, and that the start before came to its shards in the same way.

### What is only model-checked

Out of the prover's reach, and left to TLC: `Recovers`, `WaitingEnds`, `EveryoneServed` and `FeedNeverBlocks`, which are liveness under
fairness. That the three violations happen is shown by their runs; the theorems bound the first (`FreshIsComplete`) and the
second (`PyFreshUntilLost`, `PyProvenNeverHoled`, `PyGapsAreLossesOrCloses`).

## Findings

1. *The unverified bridge can be a hole* (`sync_orphan`). The sweeper's sync task is not in
   `sync_handles`, so a disconnect does not abort it (`feed_handler.rs:1039`, 718). It can hand a
   snapshot taken before the reconnect to the book that buffers after it; `on_snapshot` rejects it but
   has drained the buffer (`book.rs:181`). The shard's own snapshot, already fetched and older than the drained events,
   then meets an empty buffer, and the book goes live over them.
   The repository's README says of this path "It is not a hole". `sync_fresh` bounds the
   matter: it takes a sweep *and* a disconnect. The same happens without either if two
   snapshots in a row lag the stream (`MaxLag` 1, and no sweep and no disconnect, in `MCBookSyncOrphan.cfg`), which the README
   measures not to be the venue's way.
2. *A clean close leaves the Python book live over what it missed* (`python_clean_close`). When the venue closes the socket in
   order, `async for` (`python/feed_handler.py:284`) ends without an exception; the reset and the cancels at 334-344 are
   skipped. A book that is live and still has `_need_first_event` set takes the first event of the next connection unchecked, over the
   updates in between. The README promises an un-sync when the socket is "closed or errored". The Rust loop is followed by the
   reset however it ends. A book that checks `pu` takes what it missed for a gap and resyncs, at most once for each connection lost
   (`PyGapsAreLossesOrCloses`), and a proven book has no hole (`PyProvenNeverHoled`).
3. *A second subscribe is ignored while streaming* (`publisher_resubscribe`): `publisher.rs:197`
   knows only unsubscribe there; the Python handler replaces the subscription, and the README promises the
   same protocol.

Four observations without a run, since each is the matter of one line or of what no property can assume:

- `bfh_book_snapshots_total` is counted before the bridge is checked (`book.rs:177`), and `bfh_unverified_bridges_total`
  (`book.rs:214`) before `check_integrity`, so both include snapshots that did not go live.
- `gather` loads its atomics one after the other while ticker events are counted and put without the lock it holds, so a report can shed
  ticker events it does not count as produced; for book events, which are put under it, it cannot (`BookDropsWereProduced`).
- A snapshot whose bridge breaks has drained the buffer (`book.rs:181`): the event at the break and all that stand after it are gone
  while the book goes on waiting, and `buffer_dropped` does not count them (`book.rs:197`, 201). The comment on `buffer_push` is about a full buffer, where
  every drop is counted; "A silent drop is a correctness bug" in the README of the repository may be read more widely.
- A book asks for its first snapshot on a depth event (`book.rs:106`, `feed_handler.rs:637`), and the sweeper looks at live books only. A symbol
  without flow after a connect therefore never goes live, where the README of the repository, of a change it plans, has such a symbol
  "still go live". `WaitingEnds` has it as one of two ways to end.

## Not modelled, and why

- `main.rs` and rendering: arguments, the drivers of the cross-language test, JSON and Prometheus text. No state outlives a call.
- The Python publisher and the parts of the Python port that do what the Rust program does.
- A TCP connection that dies without a close: the Rust shard has no ping and no read timeout, so it reads for ever. What the
  model has of it is the sweeps. Listed as a hazard.
- `ShardInfo` after a panic: `connected` stays set, and no document says what `/health` promises then. Listed as a hazard.
- Volumes that parse as `NaN`, for which the comparison of the ranking is no order. Listed as a hazard.
- Latency, message counts, uptime, the rate of events: gauges with no invariant.
- Panics and unanswered requests in Feed: BookSync has them.

## Plan

Done, most important first: Replay, BookProtocol, BookSync, Book, their proofs, SnapshotPacer, Publisher, Telemetry, ExactCopy,
RankedSlots, Feed, Universe, PySync and their proofs. Left:

1. *Model*: the Python publisher (sheds the oldest, a new subscription replaces the old).
2. *Specify*: an abstract lossy channel, refined by Publisher.
3. *Prove*: the refinement of step 2.
