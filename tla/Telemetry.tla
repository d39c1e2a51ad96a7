------------------------------ MODULE Telemetry ------------------------------
(***************************************************************************)
(* What /health, /stats, /metrics and the stats line report                *)
(* (Telemetry::gather in rust/src/feed_handler.rs), while shards, sync     *)
(* tasks and the sweeper go on changing what is reported.  gather holds    *)
(* the lock on the books until it returns; the global counters are atomics *)
(* that it loads one after the other.                                      *)
(*                                                                         *)
(* Of a shard only the places are kept where a reported value changes, of  *)
(* a book its state and its counters.                                      *)
(***************************************************************************)
EXTENDS Integers, Sequences, FiniteSets

CONSTANTS Shards,
          Symbols,
          ShardOf,          \* the shard of each symbol
          Gatherers,        \* requests to an endpoint, and log_stats
          Nobody,
          MaxCount          \* bound on each counter

(* The fields loaded from atomics, in the order of the struct expression. *)
Loads == <<"bbo_published", "book_published", "snapshots", "bbo_dropped", "book_dropped">>
Atomic == {Loads[i] : i \in DOMAIN Loads}

(* The fields that /metrics declares as counters. *)
Counter == Atomic \cup {"gaps", "snapshots_per_book"}

Report == [Counter \cup {"connected", "live"} -> Nat]

ASSUME TelemetryAssumption ==
  /\ IsFiniteSet(Shards) /\ IsFiniteSet(Symbols)
  /\ ShardOf \in [Symbols -> Shards]
  /\ Nobody \notin Gatherers
  /\ MaxCount \in [Counter -> Nat]

VARIABLES
  connected,                \* ShardInfo.connected
  shard,                    \* where each shard task is
  state, gap_count, snapshot_count,     \* of each book
  sync,                     \* the sync task of each symbol
  atomic,                   \* the global counters
  lock,                     \* the gatherer that holds the books, or Nobody
  step,                     \* what each gatherer has done: 0, or 1 plus its loads
  draft,                    \* the report each gatherer is filling in
  report                    \* the latest complete report

books == <<state, gap_count, snapshot_count>>
gather == <<lock, step, draft, report>>
vars == <<connected, shard, state, gap_count, snapshot_count, sync, atomic,
          lock, step, draft, report>>

NoReport == [f \in Counter \cup {"connected", "live"} |-> 0]

(* Whoever fills in a report holds the books, from the first field on. *)
TypeOK ==
  /\ connected \in [Shards -> BOOLEAN]
  /\ shard \in [Shards -> {"offline", "reading", "publishing", "counted", "ticking",
                           "resetting"}]
  /\ state \in [Symbols -> {"uninitialized", "buffering", "live"}]
  /\ gap_count \in [Symbols -> Nat] /\ snapshot_count \in [Symbols -> Nat]
  /\ sync \in [Symbols -> {"idle", "asked", "answered"}]
  /\ atomic \in [Atomic -> Nat]
  /\ lock \in Gatherers \cup {Nobody}
  /\ step \in [Gatherers -> 0..Len(Loads) + 2]
  /\ draft \in [Gatherers -> Report] /\ report \in Report
  /\ \A g \in Gatherers : step[g] > 0 => lock = g

Init ==
  /\ connected = [s \in Shards |-> FALSE] /\ shard = [s \in Shards |-> "offline"]
  /\ state = [y \in Symbols |-> "uninitialized"]
  /\ gap_count = [y \in Symbols |-> 0] /\ snapshot_count = [y \in Symbols |-> 0]
  /\ sync = [y \in Symbols |-> "idle"]
  /\ atomic = [f \in Atomic |-> 0]
  /\ lock = Nobody /\ step = [g \in Gatherers |-> 0]
  /\ draft = [g \in Gatherers |-> NoReport] /\ report = NoReport

Increment(f) ==
  /\ atomic[f] < MaxCount[f]
  /\ atomic' = [atomic EXCEPT ![f] = @ + 1]

-----------------------------------------------------------------------------
(* A shard: run_shard. *)

Connect(s) ==
  /\ shard[s] = "offline"
  /\ shard' = [shard EXCEPT ![s] = "reading"]
  /\ connected' = [connected EXCEPT ![s] = TRUE]
  /\ UNCHANGED <<books, sync, atomic, gather>>

(* A depth event: the book starts to buffer, goes on to, is to be published, *)
(* finds a gap, or fails its integrity check.                               *)
Depth(s, y) ==
  /\ shard[s] = "reading" /\ ShardOf[y] = s /\ lock = Nobody
  /\ \/ /\ state[y] = "uninitialized"
        /\ state' = [state EXCEPT ![y] = "buffering"]
        /\ UNCHANGED <<shard, gap_count>>
     \/ /\ state[y] = "live"
        /\ shard' = [shard EXCEPT ![s] = "publishing"]
        /\ UNCHANGED <<state, gap_count>>
     \/ /\ state[y] = "live"
        /\ state' = [state EXCEPT ![y] = "buffering"]
        /\ \/ UNCHANGED gap_count
           \/ gap_count[y] < MaxCount["gaps"] /\ gap_count' = [gap_count EXCEPT ![y] = @ + 1]
        /\ UNCHANGED shard
  /\ UNCHANGED <<connected, snapshot_count, sync, atomic, gather>>

CountBook(s) ==
  /\ shard[s] = "publishing"
  /\ Increment("book_published")
  /\ shard' = [shard EXCEPT ![s] = "counted"]
  /\ UNCHANGED <<connected, books, sync, gather>>

(* Mutant of PutBook: the event is put once the lock is released. *)
PutBookUnlocked(s) ==
  /\ shard[s] = "counted"
  /\ UNCHANGED atomic \/ Increment("book_dropped")
  /\ shard' = [shard EXCEPT ![s] = "reading"]
  /\ UNCHANGED <<connected, books, sync, gather>>

(* The event is put, and perhaps shed, under the lock on the books. *)
PutBook(s) ==
  /\ shard[s] = "counted" /\ lock = Nobody
  /\ UNCHANGED atomic \/ Increment("book_dropped")
  /\ shard' = [shard EXCEPT ![s] = "reading"]
  /\ UNCHANGED <<connected, books, sync, gather>>

(* A ticker event is counted and put without it. *)
CountBbo(s) ==
  /\ shard[s] = "reading"
  /\ Increment("bbo_published")
  /\ shard' = [shard EXCEPT ![s] = "ticking"]
  /\ UNCHANGED <<connected, books, sync, gather>>

PutBbo(s) ==
  /\ shard[s] = "ticking"
  /\ UNCHANGED atomic \/ Increment("bbo_dropped")
  /\ shard' = [shard EXCEPT ![s] = "reading"]
  /\ UNCHANGED <<connected, books, sync, gather>>

Disconnect(s) ==
  /\ shard[s] = "reading"
  /\ shard' = [shard EXCEPT ![s] = "resetting"]
  /\ connected' = [connected EXCEPT ![s] = FALSE]
  /\ UNCHANGED <<books, sync, atomic, gather>>

(* Mutant of ResetBooks: the books are made anew. *)
ResetBooksAnew(s) ==
  /\ shard[s] = "resetting" /\ lock = Nobody
  /\ state' = [y \in Symbols |-> IF ShardOf[y] = s THEN "uninitialized" ELSE state[y]]
  /\ gap_count' = [y \in Symbols |-> IF ShardOf[y] = s THEN 0 ELSE gap_count[y]]
  /\ snapshot_count' = [y \in Symbols |-> IF ShardOf[y] = s THEN 0 ELSE snapshot_count[y]]
  /\ shard' = [shard EXCEPT ![s] = "offline"]
  /\ UNCHANGED <<connected, sync, atomic, gather>>

(* reset keeps a book's counters. *)
ResetBooks(s) ==
  /\ shard[s] = "resetting" /\ lock = Nobody
  /\ state' = [y \in Symbols |-> IF ShardOf[y] = s THEN "uninitialized" ELSE state[y]]
  /\ shard' = [shard EXCEPT ![s] = "offline"]
  /\ UNCHANGED <<connected, gap_count, snapshot_count, sync, atomic, gather>>

-----------------------------------------------------------------------------
(* The sync task of a symbol, and the sweeper. *)

Request(y) ==
  /\ sync[y] = "idle" /\ state[y] = "buffering" /\ lock = Nobody
  /\ sync' = [sync EXCEPT ![y] = "asked"]
  /\ UNCHANGED <<connected, shard, books, atomic, gather>>

(* Mutant of Answer: only a refused request is counted. *)
AnswerUncounted(y) ==
  /\ sync[y] = "asked"
  /\ \/ Increment("snapshots") /\ sync' = [sync EXCEPT ![y] = "idle"]
     \/ UNCHANGED atomic /\ sync' = [sync EXCEPT ![y] = "answered"]
  /\ UNCHANGED <<connected, shard, books, gather>>

(* A request is counted when it is answered, before anyone looks at the    *)
(* answer: it may be a refusal.                                            *)
Answer(y) ==
  /\ sync[y] = "asked"
  /\ Increment("snapshots")
  /\ \E next \in {"idle", "answered"} : sync' = [sync EXCEPT ![y] = next]
  /\ UNCHANGED <<connected, shard, books, gather>>

Abort(y) ==
  /\ sync[y] # "idle"
  /\ sync' = [sync EXCEPT ![y] = "idle"]
  /\ UNCHANGED <<connected, shard, books, atomic, gather>>

(* Mutant of Apply: a book takes a snapshot whatever its state. *)
ApplyUnasked(y) ==
  /\ sync[y] = "answered" /\ lock = Nobody
  /\ sync' = [sync EXCEPT ![y] = "idle"]
  /\ snapshot_count' = [snapshot_count EXCEPT ![y] = @ + 1]
  /\ \E next \in {"buffering", "live"} : state' = [state EXCEPT ![y] = next]
  /\ UNCHANGED <<connected, shard, gap_count, atomic, gather>>

(* A snapshot is counted by a buffering book, which may still reject it. *)
Apply(y) ==
  /\ sync[y] = "answered" /\ lock = Nobody
  /\ sync' = [sync EXCEPT ![y] = "idle"]
  /\ IF state[y] = "buffering"
     THEN /\ snapshot_count' = [snapshot_count EXCEPT ![y] = @ + 1]
          /\ \E next \in {"buffering", "live"} : state' = [state EXCEPT ![y] = next]
     ELSE UNCHANGED <<state, snapshot_count>>
  /\ UNCHANGED <<connected, shard, gap_count, atomic, gather>>

TakeStale(y) ==
  /\ state[y] = "live" /\ lock = Nobody
  /\ state' = [state EXCEPT ![y] = "buffering"]
  /\ UNCHANGED <<connected, shard, gap_count, snapshot_count, sync, atomic, gather>>

-----------------------------------------------------------------------------
(* gather *)

Lock(g) ==
  /\ step[g] = 0 /\ lock = Nobody
  /\ lock' = g
  /\ step' = [step EXCEPT ![g] = 1]
  /\ UNCHANGED <<connected, shard, books, sync, atomic, draft, report>>

(* The sum over the books: as many as there are marks of a book's count. *)
Total(count) == Cardinality(UNION {{y} \X (1..count[y]) : y \in Symbols})

Live == Cardinality({y \in Symbols : state[y] = "live"})

(* The shards are copied, the books counted. *)
Survey ==
  [NoReport EXCEPT !.connected = Cardinality({s \in Shards : connected[s]}),
                   !.live = Live,
                   !.gaps = Total(gap_count),
                   !.snapshots_per_book = Total(snapshot_count)]

(* Mutant of Count: the books are released once they are counted. *)
CountAndRelease(g) ==
  /\ step[g] = 1
  /\ draft' = [draft EXCEPT ![g] = Survey]
  /\ step' = [step EXCEPT ![g] = 2]
  /\ lock' = Nobody
  /\ UNCHANGED <<connected, shard, books, sync, atomic, report>>

Count(g) ==
  /\ step[g] = 1
  /\ draft' = [draft EXCEPT ![g] = Survey]
  /\ step' = [step EXCEPT ![g] = 2]
  /\ UNCHANGED <<connected, shard, books, sync, atomic, lock, report>>

Load(g) ==
  /\ step[g] \in 2..Len(Loads) + 1
  /\ LET f == Loads[step[g] - 1] IN draft' = [draft EXCEPT ![g][f] = atomic[f]]
  /\ step' = [step EXCEPT ![g] = @ + 1]
  /\ UNCHANGED <<connected, shard, books, sync, atomic, lock, report>>

(* gather returns, and the lock on the books with it. *)
Finish(g) ==
  /\ step[g] = Len(Loads) + 2
  /\ report' = draft[g]
  /\ draft' = [draft EXCEPT ![g] = NoReport]
  /\ step' = [step EXCEPT ![g] = 0]
  /\ lock' = Nobody
  /\ UNCHANGED <<connected, shard, books, sync, atomic>>

Healthy(r) ==
  r.connected = Cardinality(Shards) /\ r.live > Cardinality(Symbols) \div 2

-----------------------------------------------------------------------------
Shard(s) ==
  \/ Connect(s) \/ CountBook(s) \/ PutBook(s) \/ CountBbo(s) \/ PutBbo(s)
  \/ Disconnect(s) \/ ResetBooks(s) \/ \E y \in Symbols : Depth(s, y)

Next ==
  \/ \E s \in Shards : Shard(s)
  \/ \E y \in Symbols : Request(y) \/ Answer(y) \/ Abort(y) \/ Apply(y) \/ TakeStale(y)
  \/ \E g \in Gatherers : Lock(g) \/ Count(g) \/ Load(g) \/ Finish(g)

Spec == Init /\ [][Next]_vars

-----------------------------------------------------------------------------
(* Every snapshot that a report says was applied, it also says was         *)
(* requested, although the two are read at different moments.              *)
AppliedWereRequested == report.snapshots_per_book <= report.snapshots

(* No report sheds a book event that it does not count as produced: the    *)
(* event is put under the lock that gather holds.                          *)
BookDropsWereProduced == report.book_dropped <= report.book_published

(* What /metrics declares a counter never goes back from one report to the *)
(* next, whichever endpoint asked, through resets and resyncs.             *)
CountersGrow == [][\A f \in Counter : report'[f] >= report[f]]_vars

(* A report of the books is true when it is given, and /health answers 200 *)
(* only if most books really are live then.                                *)
ReportIsCurrent ==
  [][report' # report =>
       /\ report'.live = Live
       /\ report'.gaps = Total(gap_count)
       /\ Healthy(report') => 2 * Live > Cardinality(Symbols)]_vars

(* No book of a shard without a connection looks live, but for the moment  *)
(* before the shard resets it, however late a snapshot arrives: /health    *)
(* counts live books.                                                      *)
NoneLiveOffline ==
  \A y \in Symbols : state[y] = "live" =>
    shard[ShardOf[y]] # "offline" /\ (connected[ShardOf[y]] \/ shard[ShardOf[y]] = "resetting")
=============================================================================
