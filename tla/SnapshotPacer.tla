---------------------------- MODULE SnapshotPacer ----------------------------
(***************************************************************************)
(* The rate limit on snapshot requests (SnapshotPacer and pace in          *)
(* rust/src/feed_handler.rs).  Sync tasks send tickets to the pacing task, *)
(* which hands out at most one slot per interval, best rank first, and     *)
(* sleeps or waits for a ticket in between.  A sync task may be aborted    *)
(* while it waits for its slot.                                            *)
(*                                                                         *)
(* Time moves in Tick; of next_at only what is left until then is kept.    *)
(***************************************************************************)
EXTENDS Integers

CONSTANTS Tasks,            \* tasks that ask for slots
          Rank,             \* liquidity rank of each task's symbol, 0 the best
          Interval,         \* 1 / rate, in ticks
          MaxSeq            \* bound on tickets

ASSUME PacerAssumption ==
  /\ Rank \in [Tasks -> Nat]
  /\ Interval \in Nat \ {0} /\ MaxSeq \in Nat \ {0}

Seqs == 0..MaxSeq-1
Ticket == [task : Tasks, seq : Seqs]

VARIABLES
  seq,                      \* the next arrival number
  client,                   \* what each task is doing, and the number of its ticket
  channel,                  \* tickets sent and not yet received
  heap,                     \* tickets the pacing task holds
  asleep,                   \* the pacing task sleeps until next_at
  delay,                    \* the time left until next_at, 0 once it has passed
  since                     \* history: time since the last slot, up to Interval

vars == <<seq, client, channel, heap, asleep, delay, since>>

(* Numbers are given out once: the heap never compares two tickets equal. *)
TypeOK ==
  /\ seq \in 0..MaxSeq
  /\ client \in [Tasks -> [pc : {"idle", "numbered", "waiting", "granted"}, seq : Seqs]]
  /\ channel \subseteq Ticket /\ heap \subseteq Ticket
  /\ \A k \in channel \cup heap :
       k.seq < seq /\ \A j \in channel \cup heap : j.seq = k.seq => j = k
  /\ asleep \in BOOLEAN
  /\ delay \in 0..Interval /\ since \in 0..Interval

Init ==
  /\ seq = 0
  /\ client = [t \in Tasks |-> [pc |-> "idle", seq |-> 0]]
  /\ channel = {} /\ heap = {}
  /\ asleep = FALSE
  /\ delay = Interval /\ since = 0

Tick ==
  /\ delay > 0 \/ since < Interval
  /\ delay' = IF delay > 0 THEN delay - 1 ELSE 0
  /\ since' = IF since < Interval THEN since + 1 ELSE Interval
  /\ UNCHANGED <<seq, client, channel, heap, asleep>>

-----------------------------------------------------------------------------
(* acquire: number a ticket, send it, wait.  Tasks on other threads number *)
(* and send theirs in between.                                             *)

(* Mutant of TakeNumber: the number is read, not taken. *)
TakeNumberShared(t) ==
  /\ client[t].pc = "idle" /\ seq < MaxSeq
  /\ client' = [client EXCEPT ![t] = [pc |-> "numbered", seq |-> seq]]
  /\ UNCHANGED <<seq, channel, heap, asleep, delay, since>>

TakeNumber(t) ==
  /\ client[t].pc = "idle" /\ seq < MaxSeq
  /\ client' = [client EXCEPT ![t] = [pc |-> "numbered", seq |-> seq]]
  /\ seq' = seq + 1
  /\ UNCHANGED <<channel, heap, asleep, delay, since>>

TicketOf(t) == [task |-> t, seq |-> client[t].seq]

SendTicket(t) ==
  /\ client[t].pc = "numbered"
  /\ client' = [client EXCEPT ![t].pc = "waiting"]
  /\ channel' = channel \cup {TicketOf(t)}
  /\ UNCHANGED <<seq, heap, asleep, delay, since>>

(* The task wakes with its slot and goes on to its request. *)
UseSlot(t) ==
  /\ client[t].pc = "granted"
  /\ client' = [client EXCEPT ![t].pc = "idle"]
  /\ UNCHANGED <<seq, channel, heap, asleep, delay, since>>

(* The task is aborted where it waits, and drops its end of the permit; a  *)
(* later request of the symbol is a new ticket.                            *)
Abort(t) ==
  /\ client[t].pc \in {"waiting", "granted"}
  /\ client' = [client EXCEPT ![t].pc = "idle"]
  /\ UNCHANGED <<seq, channel, heap, asleep, delay, since>>

-----------------------------------------------------------------------------
(* pace: every turn of the loop starts by draining the channel.            *)

Waiting(k) == client[k.task].pc = "waiting" /\ client[k.task].seq = k.seq

(* Mutant of Before: of two tickets of a rank, the later one is the better. *)
BeforeLastIn(j, k) ==
  \/ Rank[j.task] < Rank[k.task]
  \/ Rank[j.task] = Rank[k.task] /\ j.seq > k.seq

(* The order of the heap. *)
Before(j, k) ==
  \/ Rank[j.task] < Rank[k.task]
  \/ Rank[j.task] = Rank[k.task] /\ j.seq < k.seq

Awake == asleep => delay = 0

(* Mutant of Sleep: what was received is not put on the heap. *)
SleepLosing ==
  /\ Awake /\ heap \cup channel # {} /\ delay > 0
  /\ channel' = {}
  /\ asleep' = TRUE
  /\ UNCHANGED <<seq, client, heap, delay, since>>

Sleep ==
  /\ Awake /\ heap \cup channel # {} /\ delay > 0
  /\ heap' = heap \cup channel /\ channel' = {}
  /\ asleep' = TRUE
  /\ UNCHANGED <<seq, client, delay, since>>

Best(k) == \A j \in heap \cup channel : j # k => Before(k, j)

(* Mutants of Serve: next_at does not move for a permit, moves for a ticket *)
(* nobody waits on, and such a ticket is looked at but not taken.           *)
ServeUnspaced ==
  /\ Awake /\ heap \cup channel # {} /\ delay = 0
  /\ \E k \in heap \cup channel :
       /\ Best(k)
       /\ heap' = (heap \cup channel) \ {k} /\ channel' = {}
       /\ IF Waiting(k)
          THEN client' = [client EXCEPT ![k.task].pc = "granted"] /\ since' = 0
          ELSE UNCHANGED <<client, since>>
  /\ asleep' = FALSE
  /\ UNCHANGED <<seq, delay>>

ServeBurning ==
  /\ Awake /\ heap \cup channel # {} /\ delay = 0
  /\ \E k \in heap \cup channel :
       /\ Best(k)
       /\ heap' = (heap \cup channel) \ {k} /\ channel' = {}
       /\ IF Waiting(k)
          THEN client' = [client EXCEPT ![k.task].pc = "granted"] /\ since' = 0
          ELSE UNCHANGED <<client, since>>
  /\ delay' = Interval
  /\ asleep' = FALSE
  /\ UNCHANGED seq

ServePeeking ==
  /\ Awake /\ heap \cup channel # {} /\ delay = 0
  /\ \E k \in heap \cup channel :
       /\ Best(k) /\ channel' = {}
       /\ IF Waiting(k)
          THEN /\ heap' = (heap \cup channel) \ {k}
               /\ client' = [client EXCEPT ![k.task].pc = "granted"]
               /\ delay' = Interval
               /\ since' = 0
          ELSE heap' = heap \cup channel /\ UNCHANGED <<client, delay, since>>
  /\ asleep' = FALSE
  /\ UNCHANGED seq

(* The best ticket is taken; a slot is used only if somebody waits for it. *)
Serve ==
  /\ Awake /\ heap \cup channel # {} /\ delay = 0
  /\ \E k \in heap \cup channel :
       /\ Best(k)
       /\ heap' = (heap \cup channel) \ {k} /\ channel' = {}
       /\ IF Waiting(k)
          THEN /\ client' = [client EXCEPT ![k.task].pc = "granted"]
               /\ delay' = Interval
               /\ since' = 0
          ELSE UNCHANGED <<client, delay, since>>
  /\ asleep' = FALSE
  /\ UNCHANGED seq

Next ==
  \/ Tick
  \/ \E t \in Tasks : TakeNumber(t) \/ SendTicket(t) \/ UseSlot(t) \/ Abort(t)
  \/ Sleep
  \/ Serve

Spec == Init /\ [][Next]_vars

(* Time passes, and the runtime polls the pacing task and the sync tasks. *)
FairSpec ==
  /\ Spec
  /\ WF_vars(Tick) /\ WF_vars(Sleep) /\ WF_vars(Serve)
  /\ \A t \in Tasks : WF_vars(SendTicket(t))

-----------------------------------------------------------------------------
Granted(t) == client[t].pc = "waiting" /\ client'[t].pc = "granted"

(* The promised order, and the abstract pacer with the tickets that were   *)
(* sent and still wait for its queue.                                      *)
Ahead(j, k) ==
  Rank[j.task] < Rank[k.task] \/ (Rank[j.task] = Rank[k.task] /\ j.seq < k.seq)

Slots ==
  INSTANCE RankedSlots
    WITH Request <- Ticket, Before <- Ahead,
         queue <- {TicketOf(t) : t \in {s \in Tasks : client[s].pc = "waiting"}}

(* The pacer keeps its promise: two slots are an interval apart, the first *)
(* comes an interval after the start, and none goes to a task while one of *)
(* a better rank, or of the same rank and asking earlier, has sent its     *)
(* ticket and still waits; however tickets arrive, overtake one another on *)
(* the way, and are dropped (SnapshotPacer, pace).                         *)
ImplementsRankedSlots == Slots!Spec

(* The slot of a task that was aborted goes to the next one: next_at moves *)
(* only for a task that receives its permit (pace).                        *)
NoSlotBurned == [][delay' > delay => \E t \in Tasks : Granted(t)]_vars

(* The ticket of a waiting task is never lost between channel and heap.    *)
TicketsKept ==
  \A t \in Tasks : client[t].pc = "waiting" => TicketOf(t) \in channel \cup heap

(* As long as requests do not keep coming, a waiting task gets its slot.   *)
EveryoneServed ==
  \A t \in Tasks : client[t].pc = "waiting" ~> client[t].pc # "waiting"
=============================================================================
