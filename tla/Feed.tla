-------------------------------- MODULE Feed --------------------------------
(***************************************************************************)
(* The feed as a whole (run in rust/src/feed_handler.rs): several shards,  *)
(* each with its connection and the books of its symbols, one sweeper over *)
(* all books, and sync tasks of all symbols that compete for the slots of  *)
(* one pacer.  BookSync has one symbol in all detail; here a book is its   *)
(* state, an event or a snapshot is what it does to that state, and the    *)
(* pacer is what SnapshotPacer implements, RankedSlots.                    *)
(***************************************************************************)
EXTENDS Naturals

CONSTANTS Symbols,
          Shards,
          ShardOf,          \* the shard of each symbol
          Rank,             \* snapshot_rank: liquidity rank, 0 the best
          Interval,         \* ticks between two slots of the pacer
          MaxDisconnects,   \* bound on lost connections
          MaxSweeps,        \* bound on sweeps that find something stale
          MaxTroubles       \* bound on books that fall back and snapshots that do not fit

ASSUME FeedAssumption ==
  /\ ShardOf \in [Symbols -> Shards]
  /\ Rank \in [Symbols -> Nat]
  /\ {Interval, MaxDisconnects, MaxSweeps, MaxTroubles} \subseteq Nat

(* A symbol has at most two sync tasks here: the one in its shard's        *)
(* sync_handles, and one that the sweeper started.                         *)
Task == Symbols \X {"own", "orphan"}

VARIABLES
  conn,                     \* what each shard task does
  state,                    \* the state of each book
  task,                     \* the sync tasks
  queue, since,             \* the pacer
  stale,                    \* swept books whose sync task is still to be spawned
  disconnects, sweeps, troubles     \* counted against their bounds

slots == <<queue, since>>
counts == <<disconnects, sweeps, troubles>>
vars == <<conn, state, task, slots, stale, counts>>

Better(j, k) == Rank[j[1]] < Rank[k[1]]

Slots == INSTANCE RankedSlots WITH Request <- Task, Before <- Better

Running(s) == {t \in {<<s, "own">>, <<s, "orphan">>} : task[t] # "idle"}

(* The pacer holds a request of every task that waits for a slot, and of   *)
(* no other.                                                               *)
TypeOK ==
  /\ conn \in [Shards -> {"offline", "reading", "resetting", "aborting"}]
  /\ state \in [Symbols -> {"uninitialized", "buffering", "live"}]
  /\ task \in [Task -> {"idle", "check", "queued", "fetch"}]
  /\ queue = {t \in Task : task[t] = "queued"} /\ since \in 0..Interval
  /\ stale \subseteq Symbols
  /\ disconnects \in Nat /\ sweeps \in Nat /\ troubles \in Nat

Init ==
  /\ conn = [k \in Shards |-> "offline"]
  /\ state = [s \in Symbols |-> "uninitialized"]
  /\ task = [t \in Task |-> "idle"]
  /\ Slots!Init
  /\ stale = {}
  /\ disconnects = 0 /\ sweeps = 0 /\ troubles = 0

-----------------------------------------------------------------------------
(* A shard task.  An event that changes nothing but levels is no step.     *)

Connect(k) ==
  /\ conn[k] = "offline"
  /\ conn' = [conn EXCEPT ![k] = "reading"]
  /\ UNCHANGED <<state, task, slots, stale, counts>>

(* request_sync: the symbol's previous sync task is aborted. *)
RequestSync(s) ==
  /\ state' = [state EXCEPT ![s] = "buffering"]
  /\ task' = [task EXCEPT ![<<s, "own">>] = "check"]
  /\ Slots!Withdraw({<<s, "own">>})

(* The first event of a book, and one that shows a gap or upsets its       *)
(* integrity.                                                              *)
FirstEvent(s) ==
  /\ conn[ShardOf[s]] = "reading" /\ state[s] = "uninitialized"
  /\ RequestSync(s)
  /\ UNCHANGED <<conn, stale, counts>>

BadEvent(s) ==
  /\ conn[ShardOf[s]] = "reading" /\ state[s] = "live"
  /\ troubles < MaxTroubles
  /\ troubles' = troubles + 1
  /\ RequestSync(s)
  /\ UNCHANGED <<conn, stale, disconnects, sweeps>>

Disconnect(k) ==
  /\ conn[k] = "reading" /\ disconnects < MaxDisconnects
  /\ conn' = [conn EXCEPT ![k] = "resetting"]
  /\ disconnects' = disconnects + 1
  /\ UNCHANGED <<state, task, slots, stale, sweeps, troubles>>

(* Mutants of ResetBooks: the loop goes over all books instead of the      *)
(* shard's; the reset is left to the next connection.                      *)
ResetBooksOfAll(k) ==
  /\ conn[k] = "resetting"
  /\ conn' = [conn EXCEPT ![k] = "aborting"]
  /\ state' = [s \in Symbols |-> "uninitialized"]
  /\ UNCHANGED <<task, slots, stale, counts>>

ResetBooksLater(k) ==
  /\ conn[k] = "resetting"
  /\ conn' = [conn EXCEPT ![k] = "aborting"]
  /\ UNCHANGED <<state, task, slots, stale, counts>>

(* All books of the shard under one lock. *)
ResetBooks(k) ==
  /\ conn[k] = "resetting"
  /\ conn' = [conn EXCEPT ![k] = "aborting"]
  /\ state' = [s \in Symbols |-> IF ShardOf[s] = k THEN "uninitialized" ELSE state[s]]
  /\ UNCHANGED <<task, slots, stale, counts>>

(* Mutant of Abort: the ticket of the aborted task still gets a slot. *)
AbortTicketKept(s) ==
  /\ conn[ShardOf[s]] = "aborting" /\ task[<<s, "own">>] # "idle"
  /\ task' = [task EXCEPT ![<<s, "own">>] = "idle"]
  /\ UNCHANGED <<conn, state, slots, stale, counts>>

(* The drain of sync_handles, one abort at a time. *)
Abort(s) ==
  /\ conn[ShardOf[s]] = "aborting" /\ task[<<s, "own">>] # "idle"
  /\ task' = [task EXCEPT ![<<s, "own">>] = "idle"]
  /\ Slots!Withdraw({<<s, "own">>})
  /\ UNCHANGED <<conn, state, stale, counts>>

AllAborted(k) ==
  /\ conn[k] = "aborting"
  /\ \A s \in Symbols : ShardOf[s] = k => task[<<s, "own">>] = "idle"
  /\ conn' = [conn EXCEPT ![k] = "offline"]
  /\ UNCHANGED <<state, task, slots, stale, counts>>

-----------------------------------------------------------------------------
(* A sync task.  t[1] is its symbol.                                       *)

(* The head of the loop, up to the wait for a slot. *)
Check(t) ==
  /\ task[t] = "check"
  /\ IF state[t[1]] = "buffering"
     THEN task' = [task EXCEPT ![t] = "queued"] /\ Slots!Ask(t)
     ELSE task' = [task EXCEPT ![t] = "idle"] /\ UNCHANGED slots
  /\ UNCHANGED <<conn, state, stale, counts>>

Grant(t) ==
  /\ Slots!Grant(t)
  /\ task' = [task EXCEPT ![t] = "fetch"]
  /\ UNCHANGED <<conn, state, stale, counts>>

Tick == Slots!Tick /\ UNCHANGED <<conn, state, task, stale, counts>>

(* The request fails, or is answered with a rate limit. *)
Fail(t) ==
  /\ task[t] = "fetch"
  /\ task' = [task EXCEPT ![t] = "check"]
  /\ UNCHANGED <<conn, state, slots, stale, counts>>

(* A snapshot nobody waits for any more, one that does not fit or leaves   *)
(* a crossed book, and one that makes the book live.                       *)
Unwanted(t) ==
  /\ task[t] = "fetch" /\ state[t[1]] # "buffering"
  /\ task' = [task EXCEPT ![t] = "idle"]
  /\ UNCHANGED <<conn, state, slots, stale, counts>>

(* Mutant of Rejected: the task takes the answer for the end of its work. *)
RejectedForGood(t) ==
  /\ task[t] = "fetch" /\ state[t[1]] = "buffering"
  /\ troubles < MaxTroubles
  /\ troubles' = troubles + 1
  /\ task' = [task EXCEPT ![t] = "idle"]
  /\ UNCHANGED <<conn, state, slots, stale, disconnects, sweeps>>

Rejected(t) ==
  /\ task[t] = "fetch" /\ state[t[1]] = "buffering"
  /\ troubles < MaxTroubles
  /\ troubles' = troubles + 1
  /\ task' = [task EXCEPT ![t] = "check"]
  /\ UNCHANGED <<conn, state, slots, stale, disconnects, sweeps>>

Accepted(t) ==
  /\ task[t] = "fetch" /\ state[t[1]] = "buffering"
  /\ state' = [state EXCEPT ![t[1]] = "live"]
  /\ task' = [task EXCEPT ![t] = "idle"]
  /\ UNCHANGED <<conn, slots, stale, counts>>

-----------------------------------------------------------------------------
(* The sweeper: any live books, all under one lock, then one spawn after   *)
(* another.                                                                *)

TakeStale(S) ==
  /\ stale = {} /\ sweeps < MaxSweeps
  /\ S # {} /\ \A s \in S : state[s] = "live"
  /\ sweeps' = sweeps + 1
  /\ state' = [s \in Symbols |-> IF s \in S THEN "buffering" ELSE state[s]]
  /\ stale' = S
  /\ UNCHANGED <<conn, task, slots, disconnects, troubles>>

(* Mutant of SpawnResync: the sweep is over with its first spawn. *)
SpawnResyncOne(s) ==
  /\ s \in stale /\ task[<<s, "orphan">>] = "idle"
  /\ stale' = {}
  /\ task' = [task EXCEPT ![<<s, "orphan">>] = "check"]
  /\ UNCHANGED <<conn, state, slots, counts>>

SpawnResync(s) ==
  /\ s \in stale /\ task[<<s, "orphan">>] = "idle"
  /\ stale' = stale \ {s}
  /\ task' = [task EXCEPT ![<<s, "orphan">>] = "check"]
  /\ UNCHANGED <<conn, state, slots, counts>>

-----------------------------------------------------------------------------
Shard ==
  \/ \E k \in Shards : Connect(k) \/ Disconnect(k) \/ ResetBooks(k) \/ AllAborted(k)
  \/ \E s \in Symbols : FirstEvent(s) \/ BadEvent(s) \/ Abort(s)

Answered(t) == Unwanted(t) \/ Rejected(t) \/ Accepted(t)

Sync(t) == Check(t) \/ Grant(t) \/ Fail(t) \/ Answered(t)

Sweeper == (\E S \in SUBSET Symbols : TakeStale(S)) \/ (\E s \in Symbols : SpawnResync(s))

Next == Shard \/ (\E t \in Task : Sync(t)) \/ Tick \/ Sweeper

Spec == Init /\ [][Next]_vars

(* The runtime polls every task that can run, the pacer included, time     *)
(* passes, and the venue answers a request that is repeated often enough.  *)
(* That it sends a symbol any event is not assumed.                        *)
Fairness ==
  /\ \A k \in Shards :
       WF_vars(Connect(k)) /\ WF_vars(ResetBooks(k)) /\ WF_vars(AllAborted(k))
  /\ \A s \in Symbols : WF_vars(Abort(s)) /\ WF_vars(SpawnResync(s))
  /\ WF_vars(Tick) /\ WF_vars(\E t \in Task : Grant(t))
  /\ \A t \in Task : WF_vars(Check(t)) /\ SF_vars(Answered(t))

FairSpec == Spec /\ Fairness

-----------------------------------------------------------------------------
(* A book that waits has a task of its own that runs, or the sweeper is    *)
(* about to spawn one: whichever shards go down while a sweep is under way *)
(* (run_shard, check_stale).                                               *)
WaitingAreServed ==
  \A s \in Symbols : state[s] = "buffering" => Running(s) # {} \/ s \in stale

(* Between the loss of a connection and the next one no book of its shard  *)
(* is live or waits, whatever the sweeper and late snapshots do            *)
(* (run_shard: "Unsync every book the moment the socket dies").            *)
OfflineIsUnsynced ==
  \A s \in Symbols :
    conn[ShardOf[s]] \in {"aborting", "offline"} => state[s] = "uninitialized"

(* A disconnect costs the books of other shards nothing: neither their     *)
(* levels nor a task on its way (README.md: "fewer symbols per socket      *)
(* means a disconnect re-snapshots fewer books").                          *)
DisconnectIsLocal ==
  [][\A s \in Symbols : conn[ShardOf[s]] \notin {"resetting", "aborting"} =>
       /\ state'[s] = "uninitialized" => state[s] = "uninitialized"
       /\ Running(s) # {} /\ state[s] = "buffering" /\ state'[s] = "buffering"
            => Running(s)' # {}]_vars

(* Once connections hold and sweeps and troubles cease, no book waits for  *)
(* a snapshot any more: each is live for good, whatever its rank and       *)
(* whichever requests were withdrawn and tasks aborted, or has had no      *)
(* event since its last connect, without which it asks for none (run,      *)
(* on_depth).                                                              *)
WaitingEnds ==
  \A s \in Symbols : <>[](state[s] = "live") \/ <>[](state[s] = "uninitialized")
=============================================================================
