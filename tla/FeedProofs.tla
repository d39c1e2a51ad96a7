----------------------------- MODULE FeedProofs -----------------------------
(***************************************************************************)
(* Feed for every number of symbols, shards and faults, and every          *)
(* assignment of symbols to shards: no waiting book is forgotten, and the  *)
(* shards do not get into each other's way.                                *)
(***************************************************************************)
EXTENDS Feed, TLAPS

(* The pacer's operators, as Feed uses them. *)
LEMMA SlotSteps ==
  ASSUME NEW t, NEW T
  PROVE  /\ Slots!Ask(t) => queue' = queue \cup {t} /\ since' = since
         /\ Slots!Withdraw(T) => queue' = queue \ T /\ since' = since
         /\ Slots!Grant(t) => t \in queue /\ queue' = queue \ {t} /\ since' = 0
         /\ Slots!Tick => since < Interval /\ since' = since + 1 /\ queue' = queue
BY DEF Slots!Ask, Slots!Withdraw, Slots!Grant, Slots!Tick

(* A task is its symbol and which of the two it is. *)
LEMMA TaskPairs == \A t \in Task : t[1] \in Symbols
BY DEF Task

(* Each symbol has its two tasks. *)
LEMMA OwnAndOrphan ==
  ASSUME NEW s \in Symbols
  PROVE  <<s, "own">> \in Task /\ <<s, "orphan">> \in Task
BY DEF Task

(* Nothing waits at the start. *)
LEMMA InitTyped == Init => TypeOK
BY FeedAssumption DEF FeedAssumption, Init, TypeOK, Slots!Init

(* Each step of a shard task keeps the types, and withdraws the request of *)
(* a task it ends.                                                         *)
LEMMA ShardTyped == ASSUME TypeOK, Shard PROVE TypeOK'
<1>1. ASSUME NEW k \in Shards, Connect(k) \/ Disconnect(k) \/ ResetBooks(k) \/ AllAborted(k)
      PROVE  TypeOK'
  BY <1>1 DEF TypeOK, Connect, Disconnect, ResetBooks, AllAborted, slots, counts
<1>2. ASSUME NEW s \in Symbols, FirstEvent(s) \/ BadEvent(s) PROVE TypeOK'
  <2>1. RequestSync(s)
    BY <1>2 DEF FirstEvent, BadEvent
  <2>2. /\ state' = [state EXCEPT ![s] = "buffering"]
        /\ task' = [task EXCEPT ![<<s, "own">>] = "check"]
        /\ queue' = queue \ {<<s, "own">>} /\ since' = since
    BY <2>1, SlotSteps DEF RequestSync
  <2>3. queue' = {t \in Task : task'[t] = "queued"}
    BY <2>2, OwnAndOrphan DEF TypeOK
  <2>4. /\ conn' = conn /\ stale' = stale /\ disconnects' = disconnects
        /\ sweeps' = sweeps /\ troubles' \in Nat
    BY <1>2 DEF FirstEvent, BadEvent, TypeOK, counts
  <2> QED
    BY <2>2, <2>3, <2>4 DEF TypeOK
<1>3. ASSUME NEW s \in Symbols, Abort(s) PROVE TypeOK'
  <2>1. /\ task' = [task EXCEPT ![<<s, "own">>] = "idle"]
        /\ queue' = queue \ {<<s, "own">>} /\ since' = since
        /\ UNCHANGED <<conn, state, stale, disconnects, sweeps, troubles>>
    BY <1>3, SlotSteps DEF Abort, counts
  <2>2. queue' = {t \in Task : task'[t] = "queued"}
    BY <2>1, OwnAndOrphan DEF TypeOK
  <2> QED
    BY <2>1, <2>2 DEF TypeOK
<1> QED
  BY <1>1, <1>2, <1>3 DEF Shard

(* Each step of a sync task keeps them, and asks only once. *)
LEMMA SyncTyped == ASSUME TypeOK, NEW t \in Task, Sync(t) PROVE TypeOK'
<1>1. CASE Check(t)
  <2>1. UNCHANGED <<conn, state, stale, disconnects, sweeps, troubles>>
    BY <1>1 DEF Check, counts
  <2>2. \/ /\ task' = [task EXCEPT ![t] = "queued"]
           /\ queue' = queue \cup {t} /\ since' = since
        \/ /\ task' = [task EXCEPT ![t] = "idle"]
           /\ UNCHANGED <<queue, since>>
    BY <1>1, SlotSteps DEF Check, slots
  <2>3. task[t] = "check"
    BY <1>1 DEF Check
  <2>4. queue' = {r \in Task : task'[r] = "queued"}
    BY <2>2, <2>3 DEF TypeOK
  <2> QED
    BY <2>1, <2>2, <2>4 DEF TypeOK
<1>2. CASE Grant(t)
  <2>1. /\ task' = [task EXCEPT ![t] = "fetch"]
        /\ queue' = queue \ {t} /\ since' = 0
        /\ UNCHANGED <<conn, state, stale, disconnects, sweeps, troubles>>
    BY <1>2, SlotSteps DEF Grant, counts
  <2>2. queue' = {r \in Task : task'[r] = "queued"}
    BY <2>1 DEF TypeOK
  <2>3. since' \in 0..Interval
    BY <2>1, FeedAssumption DEF FeedAssumption
  <2> QED
    BY <2>1, <2>2, <2>3 DEF TypeOK
<1>3. CASE Fail(t) \/ Answered(t)
  <2>1. /\ task[t] = "fetch"
        /\ task' = [task EXCEPT ![t] = "check"] \/ task' = [task EXCEPT ![t] = "idle"]
        /\ UNCHANGED <<conn, queue, since, stale, disconnects, sweeps>>
    BY <1>3 DEF Fail, Answered, Unwanted, Rejected, Accepted, slots, counts
  <2>2. queue' = {r \in Task : task'[r] = "queued"}
    BY <2>1 DEF TypeOK
  <2>3. state' \in [Symbols -> {"uninitialized", "buffering", "live"}]
    BY <1>3, TaskPairs DEF TypeOK, Fail, Answered, Unwanted, Rejected, Accepted
  <2>4. troubles' \in Nat
    BY <1>3 DEF TypeOK, Fail, Answered, Unwanted, Rejected, Accepted, counts
  <2> QED
    BY <2>1, <2>2, <2>3, <2>4 DEF TypeOK
<1> QED
  BY <1>1, <1>2, <1>3 DEF Sync

(* Each step of the sweeper keeps them. *)
LEMMA SweeperTyped == ASSUME TypeOK, Sweeper PROVE TypeOK'
<1>1. ASSUME NEW S \in SUBSET Symbols, TakeStale(S) PROVE TypeOK'
  BY <1>1 DEF TypeOK, TakeStale, slots
<1>2. ASSUME NEW s \in Symbols, SpawnResync(s) PROVE TypeOK'
  <2>1. /\ task[<<s, "orphan">>] = "idle"
        /\ task' = [task EXCEPT ![<<s, "orphan">>] = "check"]
        /\ stale' = stale \ {s}
        /\ UNCHANGED <<conn, state, queue, since, disconnects, sweeps, troubles>>
    BY <1>2 DEF SpawnResync, slots, counts
  <2>2. queue' = {r \in Task : task'[r] = "queued"}
    BY <2>1 DEF TypeOK
  <2> QED
    BY <2>1, <2>2 DEF TypeOK
<1> QED
  BY <1>1, <1>2 DEF Sweeper

(* The pacer holds the requests of exactly the tasks that wait for it.     *)
THEOREM TypeCorrect == Spec => []TypeOK
<1>1. TypeOK /\ [Next]_vars => TypeOK'
  <2> SUFFICES ASSUME TypeOK, [Next]_vars PROVE TypeOK'
    OBVIOUS
  <2>1. CASE Tick
    <3>1. since' \in 0..Interval /\ queue' = queue
      BY <2>1, SlotSteps, FeedAssumption DEF FeedAssumption, Tick, TypeOK
    <3> QED
      BY <2>1, <3>1 DEF Tick, TypeOK, counts
  <2>2. CASE UNCHANGED vars
    BY <2>2 DEF vars, slots, counts, TypeOK
  <2> QED
    BY <2>1, <2>2, ShardTyped, SyncTyped, SweeperTyped DEF Next
<1> QED
  BY <1>1, InitTyped, PTL DEF Spec

-----------------------------------------------------------------------------
(* Between the loss of a connection and the next one, no book of the shard *)
(* is live or waits.                                                       *)
THEOREM NoneWithoutConnection == Spec => []OfflineIsUnsynced
<1>1. Init => OfflineIsUnsynced
  BY DEF Init, OfflineIsUnsynced
<1>2. TypeOK /\ OfflineIsUnsynced /\ [Next]_vars => OfflineIsUnsynced'
  <2> SUFFICES ASSUME TypeOK, OfflineIsUnsynced, [Next]_vars, NEW s \in Symbols,
                      conn'[ShardOf[s]] \in {"aborting", "offline"}
               PROVE  state'[s] = "uninitialized"
    BY DEF OfflineIsUnsynced
  <2>1. ShardOf[s] \in Shards
    BY FeedAssumption DEF FeedAssumption
  <2>2. ASSUME NEW k \in Shards, Connect(k) \/ Disconnect(k) \/ ResetBooks(k) \/ AllAborted(k)
        PROVE  state'[s] = "uninitialized"
    BY <2>1, <2>2 DEF Connect, Disconnect, ResetBooks, AllAborted, OfflineIsUnsynced, TypeOK
  <2>3. ASSUME NEW r \in Symbols, FirstEvent(r) \/ BadEvent(r) \/ Abort(r)
        PROVE  state'[s] = "uninitialized"
    BY <2>3 DEF FirstEvent, BadEvent, RequestSync, Abort, OfflineIsUnsynced, TypeOK
  <2>4. ASSUME NEW t \in Task, Sync(t) PROVE state'[s] = "uninitialized"
    <3>1. conn' = conn
      BY <2>4 DEF Sync, Check, Grant, Fail, Answered, Unwanted, Rejected, Accepted
    <3>2. state' = state \/ (state[t[1]] = "buffering" /\ state' = [state EXCEPT ![t[1]] = "live"])
      BY <2>4 DEF Sync, Check, Grant, Fail, Answered, Unwanted, Rejected, Accepted
    <3> QED
      BY <3>1, <3>2 DEF OfflineIsUnsynced, TypeOK
  <2>5. ASSUME NEW S \in SUBSET Symbols, TakeStale(S) PROVE state'[s] = "uninitialized"
    BY <2>5 DEF TakeStale, OfflineIsUnsynced
  <2>6. CASE Tick \/ UNCHANGED vars \/ \E r \in Symbols : SpawnResync(r)
    BY <2>6 DEF Tick, vars, SpawnResync, OfflineIsUnsynced
  <2> QED
    BY <2>2, <2>3, <2>4, <2>5, <2>6 DEF Next, Shard, Sweeper
<1> QED
  BY <1>1, <1>2, TypeCorrect, PTL DEF Spec

-----------------------------------------------------------------------------
(* A step of one task concerns its own symbol: the other symbols' running  *)
(* tasks run on, and its own gives up only a book that does not wait.      *)
LEMMA TaskStepServes ==
  ASSUME TypeOK, NEW t \in Task, Sync(t), NEW s \in Symbols,
         Running(s) # {}, state'[s] = "buffering"
  PROVE  Running(s)' # {} /\ state[s] = "buffering"
<1>1. /\ task' \in [Task -> {"idle", "check", "queued", "fetch"}]
      /\ \A r \in Task : r # t => task'[r] = task[r]
  BY SyncTyped DEF TypeOK, Sync, Check, Grant, Fail, Answered, Unwanted, Rejected, Accepted
<1>2. state' = state \/ state' = [state EXCEPT ![t[1]] = "live"]
  BY DEF Sync, Check, Grant, Fail, Answered, Unwanted, Rejected, Accepted
<1>3. state[s] = "buffering"
  BY <1>2 DEF TypeOK
<1>4. t[1] = s => task'[t] # "idle"
  <2>1. t[1] = s /\ task'[t] = "idle" => state[s] # "buffering" \/ state'[s] = "live"
    BY DEF Sync, Check, Grant, Fail, Answered, Unwanted, Rejected, Accepted, TypeOK
  <2> QED
    BY <1>3, <2>1
<1>5. <<s, "own">>[1] = s /\ <<s, "orphan">>[1] = s
  OBVIOUS
<1>6. \E r \in {<<s, "own">>, <<s, "orphan">>} : task'[r] # "idle"
  BY <1>1, <1>4, <1>5, OwnAndOrphan DEF Running
<1> QED
  BY <1>3, <1>6 DEF Running

(* No other step ends a task, but for aborts of a shard whose books are    *)
(* all unsynced.                                                           *)
LEMMA OtherStepsServe ==
  ASSUME TypeOK, OfflineIsUnsynced, Shard \/ Sweeper, NEW s \in Symbols,
         state'[s] = "buffering"
  PROVE  /\ Running(s) # {} /\ state[s] = "buffering" => Running(s)' # {}
         /\ state[s] # "buffering" => Running(s)' # {} \/ s \in stale'
<1>1. <<s, "own">> \in Task /\ <<s, "orphan">> \in Task
  BY OwnAndOrphan
<1>2. ASSUME NEW k \in Shards, Connect(k) \/ Disconnect(k) \/ ResetBooks(k) \/ AllAborted(k)
      PROVE  Running(s)' = Running(s) /\ state[s] = "buffering"
  BY <1>2 DEF Connect, Disconnect, ResetBooks, AllAborted, Running, TypeOK
<1>3. ASSUME NEW r \in Symbols, FirstEvent(r) \/ BadEvent(r)
      PROVE  /\ Running(s) # {} => Running(s)' # {}
             /\ state[s] # "buffering" => Running(s)' # {}
  <2>1. /\ task' = [task EXCEPT ![<<r, "own">>] = "check"]
        /\ state' = [state EXCEPT ![r] = "buffering"]
    BY <1>3 DEF FirstEvent, BadEvent, RequestSync
  <2>2. \A q \in Task : task[q] # "idle" => task'[q] # "idle"
    BY <2>1 DEF TypeOK
  <2>3. r = s => task'[<<s, "own">>] = "check"
    BY <1>1, <2>1 DEF TypeOK
  <2>4. r # s => state'[s] = state[s]
    BY <2>1 DEF TypeOK
  <2> QED
    BY <1>1, <2>2, <2>3, <2>4 DEF Running
<1>4. ASSUME NEW r \in Symbols, Abort(r)
      PROVE  Running(s)' = Running(s) /\ state[s] = "buffering"
  <2>1. state[s] = "buffering"
    BY <1>4 DEF Abort
  <2>2. r # s
    BY <1>4, <2>1 DEF Abort, OfflineIsUnsynced
  <2>3. \A c \in {"own", "orphan"} : task'[<<s, c>>] = task[<<s, c>>]
    BY <1>4, <2>2 DEF Abort, TypeOK
  <2> QED
    BY <2>1, <2>3 DEF Running
<1>5. ASSUME NEW S \in SUBSET Symbols, TakeStale(S)
      PROVE  Running(s)' = Running(s) /\ (state[s] # "buffering" => s \in stale')
  BY <1>5 DEF TakeStale, Running, TypeOK
<1>6. ASSUME NEW r \in Symbols, SpawnResync(r)
      PROVE  state[s] = "buffering" /\ (Running(s) # {} => Running(s)' # {})
  <2>1. state[s] = "buffering"
    BY <1>6 DEF SpawnResync
  <2>2. \A q \in Task : task[q] # "idle" => task'[q] # "idle"
    BY <1>6 DEF SpawnResync, TypeOK
  <2> QED
    BY <1>1, <2>1, <2>2 DEF Running
<1> QED
  BY <1>2, <1>3, <1>4, <1>5, <1>6 DEF Shard, Sweeper

(* A swept book keeps its place in the batch until its task is spawned.    *)
LEMMA BatchServed ==
  ASSUME TypeOK, [Next]_vars, NEW s \in stale
  PROVE  s \in stale' \/ Running(s)' # {}
<1>1. CASE stale' = stale \/ \E S \in SUBSET Symbols : TakeStale(S)
  BY <1>1 DEF TakeStale
<1>2. ASSUME NEW r \in Symbols, SpawnResync(r) PROVE s \in stale' \/ Running(s)' # {}
  <2>1. CASE r = s
    <3>1. task'[<<s, "orphan">>] = "check"
      BY <1>2, <2>1, OwnAndOrphan DEF SpawnResync, TypeOK
    <3> QED
      BY <3>1 DEF Running
  <2>2. CASE r # s
    BY <1>2, <2>2 DEF SpawnResync
  <2> QED
    BY <2>1, <2>2
<1>3. Shard => stale' = stale
  BY DEF Shard, Connect, Disconnect, ResetBooks, AllAborted, FirstEvent, BadEvent, Abort
<1>4. \A t \in Task : Sync(t) => stale' = stale
  BY DEF Sync, Check, Grant, Fail, Answered, Unwanted, Rejected, Accepted
<1> QED
  BY <1>1, <1>2, <1>3, <1>4 DEF Next, Sweeper, Tick, vars

(* A book that waits has a running task of its own, or its turn in the     *)
(* sweeper's batch is still to come.                                       *)
THEOREM NobodyForgotten == Spec => []WaitingAreServed
<1>1. Init => WaitingAreServed
  BY DEF Init, WaitingAreServed
<1>2. TypeOK /\ OfflineIsUnsynced /\ WaitingAreServed /\ [Next]_vars => WaitingAreServed'
  <2> SUFFICES ASSUME TypeOK, OfflineIsUnsynced, WaitingAreServed, [Next]_vars,
                      NEW s \in Symbols, state'[s] = "buffering"
               PROVE  Running(s)' # {} \/ s \in stale'
    BY DEF WaitingAreServed
  <2>1. state[s] = "buffering" => Running(s) # {} \/ s \in stale
    BY DEF WaitingAreServed
  <2>2. s \in stale => s \in stale' \/ Running(s)' # {}
    BY BatchServed
  <2>3. CASE Shard \/ Sweeper
    BY <2>1, <2>2, <2>3, OtherStepsServe
  <2>4. ASSUME NEW t \in Task, Sync(t) PROVE Running(s)' # {} \/ s \in stale'
    <3>1. state[s] = "buffering"
      BY <2>4 DEF Sync, Check, Grant, Fail, Answered, Unwanted, Rejected, Accepted, TypeOK
    <3> QED
      BY <2>1, <2>2, <2>4, <3>1, TaskStepServes
  <2>5. CASE Tick \/ UNCHANGED vars
    BY <2>1, <2>5 DEF Tick, vars, Running
  <2> QED
    BY <2>3, <2>4, <2>5 DEF Next
<1> QED
  BY <1>1, <1>2, TypeCorrect, NoneWithoutConnection, PTL DEF Spec

(* Whatever a shard's disconnect, its sync tasks and the sweeper do, the   *)
(* books of a shard that is connected are not reset, and do not lose their *)
(* last task while they wait.                                              *)
THEOREM OthersUndisturbed == Spec => DisconnectIsLocal
<1> DEFINE Undisturbed ==
      \A s \in Symbols : conn[ShardOf[s]] \notin {"resetting", "aborting"} =>
         /\ state'[s] = "uninitialized" => state[s] = "uninitialized"
         /\ Running(s) # {} /\ state[s] = "buffering" /\ state'[s] = "buffering"
              => Running(s)' # {}
<1>1. TypeOK /\ OfflineIsUnsynced /\ [Next]_vars => [Undisturbed]_vars
  <2> SUFFICES ASSUME TypeOK, OfflineIsUnsynced, Next, NEW s \in Symbols,
                      conn[ShardOf[s]] \notin {"resetting", "aborting"}
               PROVE  /\ state'[s] = "uninitialized" => state[s] = "uninitialized"
                      /\ Running(s) # {} /\ state[s] = "buffering" /\ state'[s] = "buffering"
                           => Running(s)' # {}
    OBVIOUS
  <2>1. CASE Shard \/ Sweeper
    <3>1. state'[s] = "uninitialized" => state[s] = "uninitialized"
      BY ZenonT(30), <2>1 DEF Shard, Connect, Disconnect, ResetBooks, AllAborted, FirstEvent, BadEvent,
         RequestSync, Abort, Sweeper, TakeStale, SpawnResync, TypeOK
    <3> QED
      BY <2>1, <3>1, OtherStepsServe
  <2>2. ASSUME NEW t \in Task, Sync(t)
        PROVE  /\ state'[s] = "uninitialized" => state[s] = "uninitialized"
               /\ Running(s) # {} /\ state'[s] = "buffering" => Running(s)' # {}
    <3>1. state' = state \/ state' = [state EXCEPT ![t[1]] = "live"]
      BY <2>2 DEF Sync, Check, Grant, Fail, Answered, Unwanted, Rejected, Accepted
    <3> QED
      BY <2>2, <3>1, TaskStepServes DEF TypeOK
  <2>3. CASE Tick
    BY <2>3 DEF Tick, Running
  <2> QED
    BY <2>1, <2>2, <2>3 DEF Next
<1>2. Spec => [][Undisturbed]_vars
  BY <1>1, TypeCorrect, NoneWithoutConnection, PTL DEF Spec
<1> QED
  BY <1>2 DEF DisconnectIsLocal
=============================================================================
