---------------------------- MODULE PacerProofs ----------------------------
(***************************************************************************)
(* Proofs about SnapshotPacer: tickets are numbered once and never lost,   *)
(* no slot is burned, and the pacer implements RankedSlots.                *)
(***************************************************************************)
EXTENDS SnapshotPacer, TLAPS

Held == channel \cup heap

Numbered(t) == client[t].pc = "numbered"

(* What the types rest on: a number that was given out is below the        *)
(* counter, and until its ticket is sent nobody else has it.               *)
NumbersApart ==
  \A t \in Tasks : Numbered(t) =>
    /\ client[t].seq < seq
    /\ \A k \in Held : k.seq # client[t].seq
    /\ \A s \in Tasks : Numbered(s) /\ client[s].seq = client[t].seq => s = t

(* The time since the last slot and the time until the next make up the    *)
(* interval.                                                               *)
Clock == delay = Interval - since

IInv == TypeOK /\ NumbersApart /\ TicketsKept /\ Clock

(* A task's ticket is one. *)
LEMMA TicketOfIsTicket ==
  ASSUME TypeOK, NEW t \in Tasks
  PROVE  TicketOf(t) \in Ticket /\ TicketOf(t).task = t /\ TicketOf(t).seq = client[t].seq
BY DEF TypeOK, TicketOf, Ticket

-----------------------------------------------------------------------------
(* Nothing is numbered at the start, and the first slot is an interval     *)
(* away.                                                                   *)
LEMMA InitInvariant == Init => IInv
<1> SUFFICES ASSUME Init PROVE IInv
  OBVIOUS
<1>1. 0 \in Seqs /\ MaxSeq \in Nat /\ Interval \in Nat
  BY PacerAssumption DEF PacerAssumption, Seqs
<1>2. TypeOK
  <2>1. client \in [Tasks -> [pc : {"idle", "numbered", "waiting", "granted"}, seq : Seqs]]
    BY <1>1 DEF Init
  <2>2. seq \in 0..MaxSeq /\ delay \in 0..Interval /\ since \in 0..Interval
    BY <1>1 DEF Init
  <2>3. channel = {} /\ heap = {} /\ asleep \in BOOLEAN
    BY DEF Init
  <2> QED
    BY <2>1, <2>2, <2>3 DEF TypeOK
<1>3. NumbersApart /\ TicketsKept
  BY DEF Init, NumbersApart, Numbered, TicketsKept, Held
<1>4. Clock
  BY <1>1 DEF Init, Clock
<1> QED
  BY <1>2, <1>3, <1>4 DEF IInv

(* Time. *)
LEMMA TickInvariant == ASSUME IInv, Tick PROVE IInv'
<1>1. UNCHANGED <<seq, client, channel, heap, asleep>>
  BY DEF Tick
<1>2. delay' \in 0..Interval /\ since' \in 0..Interval /\ delay' = Interval - since'
  BY PacerAssumption DEF PacerAssumption, Tick, IInv, TypeOK, Clock
<1> QED
  BY <1>1, <1>2 DEF IInv, TypeOK, NumbersApart, Numbered, Held, TicketsKept, TicketOf, Clock

(* A number is taken: it is the counter's, which is above all others.      *)
LEMMA TakeNumberInvariant ==
  ASSUME IInv, NEW t \in Tasks, TakeNumber(t)
  PROVE  IInv'
<1>1. /\ UNCHANGED <<channel, heap, asleep, delay, since>>
      /\ seq' = seq + 1 /\ seq \in Seqs
      /\ client' = [client EXCEPT ![t] = [pc |-> "numbered", seq |-> seq]]
  BY PacerAssumption DEF PacerAssumption, TakeNumber, Seqs, IInv, TypeOK
<1>2. TypeOK'
  BY <1>1, PacerAssumption DEF PacerAssumption, IInv, TypeOK, Ticket, Seqs
<1>3. NumbersApart'
  BY <1>1, PacerAssumption DEF PacerAssumption, IInv, TypeOK, NumbersApart, Numbered, Held,
     Ticket, Seqs
<1>4. TicketsKept' /\ Clock'
  BY <1>1 DEF IInv, TypeOK, TicketsKept, TicketOf, Clock
<1> QED
  BY <1>2, <1>3, <1>4 DEF IInv

(* A ticket is sent: its number was nobody else's.                         *)
LEMMA SendTicketInvariant ==
  ASSUME IInv, NEW t \in Tasks, SendTicket(t)
  PROVE  IInv'
<1>1. /\ UNCHANGED <<seq, heap, asleep, delay, since>>
      /\ Numbered(t)
      /\ client' = [client EXCEPT ![t].pc = "waiting"]
      /\ channel' = channel \cup {TicketOf(t)}
  BY DEF SendTicket, Numbered
<1>2. TicketOf(t) \in Ticket /\ TicketOf(t).seq = client[t].seq
  BY TicketOfIsTicket DEF IInv
<1>3. /\ client' \in [Tasks -> [pc : {"idle", "numbered", "waiting", "granted"}, seq : Seqs]]
      /\ \A s \in Tasks : client'[s].seq = client[s].seq /\ (s # t => client'[s] = client[s])
      /\ client'[t].pc = "waiting"
  BY <1>1 DEF IInv, TypeOK
<1>4. \A k \in Held : k.seq # client[t].seq
  BY <1>1 DEF IInv, NumbersApart
<1>5. TypeOK'
  BY <1>1, <1>2, <1>3, <1>4 DEF IInv, TypeOK, NumbersApart, Held
<1>6. NumbersApart'
  BY <1>1, <1>2, <1>3 DEF IInv, NumbersApart, Numbered, Held
<1>7. TicketsKept' /\ Clock'
  BY <1>1, <1>3 DEF IInv, TicketsKept, TicketOf, Clock
<1> QED
  BY <1>5, <1>6, <1>7 DEF IInv

(* A task that goes on with its slot, or is aborted, leaves its ticket to  *)
(* be found by nobody.                                                     *)
LEMMA LeaveInvariant ==
  ASSUME IInv, NEW t \in Tasks, UseSlot(t) \/ Abort(t)
  PROVE  IInv'
<1>1. /\ UNCHANGED <<seq, channel, heap, asleep, delay, since>>
      /\ client' = [client EXCEPT ![t].pc = "idle"]
  BY DEF UseSlot, Abort
<1>2. /\ client' \in [Tasks -> [pc : {"idle", "numbered", "waiting", "granted"}, seq : Seqs]]
      /\ \A s \in Tasks : client'[s].seq = client[s].seq /\ (s # t => client'[s] = client[s])
      /\ client'[t].pc = "idle"
  BY <1>1 DEF IInv, TypeOK
<1> QED
  BY <1>1, <1>2 DEF IInv, TypeOK, NumbersApart, Numbered, Held, TicketsKept, TicketOf, Clock

(* The pacing task drains the channel and goes to sleep.                   *)
LEMMA SleepInvariant == ASSUME IInv, Sleep PROVE IInv'
<1>1. /\ UNCHANGED <<seq, client, delay, since>>
      /\ heap' = heap \cup channel /\ channel' = {}
      /\ asleep' = TRUE
  BY DEF Sleep
<1> QED
  BY <1>1 DEF IInv, TypeOK, NumbersApart, Numbered, Held, TicketsKept, TicketOf, Clock

(* What a turn of the pacing task does: the best ticket goes, with a slot  *)
(* if somebody waits for it.                                               *)
LEMMA ServeStep ==
  ASSUME IInv, Serve
  PROVE  \E k \in Held :
           /\ Best(k) /\ delay = 0
           /\ heap' = Held \ {k} /\ channel' = {}
           /\ asleep' = FALSE /\ seq' = seq
           /\ \/ /\ Waiting(k) /\ k.task \in Tasks /\ TicketOf(k.task) = k
                 /\ client' = [client EXCEPT ![k.task].pc = "granted"]
                 /\ delay' = Interval /\ since' = 0
              \/ ~Waiting(k) /\ UNCHANGED <<client, delay, since>>
<1>1. PICK k \in Held :
        /\ Best(k)
        /\ heap' = Held \ {k} /\ channel' = {}
        /\ IF Waiting(k)
           THEN /\ client' = [client EXCEPT ![k.task].pc = "granted"]
                /\ delay' = Interval
                /\ since' = 0
           ELSE UNCHANGED <<client, delay, since>>
  BY DEF Serve, Held
<1>2. k \in Ticket
  BY DEF IInv, TypeOK, Held
<1>3. Waiting(k) => k.task \in Tasks /\ TicketOf(k.task) = k
  BY <1>2 DEF Waiting, TicketOf, Ticket
<1> QED
  BY <1>1, <1>3 DEF Serve

(* The ticket that goes is that of the task that gets the slot, or of      *)
(* nobody who waits.                                                       *)
LEMMA ServeInvariant == ASSUME IInv, Serve PROVE IInv'
<1>1. PICK k \in Held :
        /\ heap' = Held \ {k} /\ channel' = {}
        /\ asleep' = FALSE /\ seq' = seq
        /\ \/ /\ Waiting(k) /\ k.task \in Tasks /\ TicketOf(k.task) = k
              /\ client' = [client EXCEPT ![k.task].pc = "granted"]
              /\ delay' = Interval /\ since' = 0
           \/ ~Waiting(k) /\ UNCHANGED <<client, delay, since>>
  BY ServeStep
<1>2. Held' = Held \ {k}
  BY <1>1 DEF Held
<1>3. CASE UNCHANGED <<client, delay, since>> /\ ~Waiting(k)
  <2>1. TypeOK' /\ NumbersApart' /\ Clock'
    BY <1>1, <1>2, <1>3 DEF IInv, TypeOK, NumbersApart, Numbered, Held, Clock
  <2>2. \A t \in Tasks : client[t].pc = "waiting" => TicketOf(t) # k
    BY <1>3, TicketOfIsTicket DEF Waiting, IInv
  <2>3. TicketsKept'
    BY <1>2, <1>3, <2>2 DEF IInv, TicketsKept, TicketOf, Held
  <2> QED
    BY <2>1, <2>3 DEF IInv
<1>4. CASE /\ Waiting(k) /\ k.task \in Tasks /\ TicketOf(k.task) = k
           /\ client' = [client EXCEPT ![k.task].pc = "granted"]
           /\ delay' = Interval /\ since' = 0
  <2>1. /\ client' \in [Tasks -> [pc : {"idle", "numbered", "waiting", "granted"}, seq : Seqs]]
        /\ \A s \in Tasks : client'[s].seq = client[s].seq
                            /\ (s # k.task => client'[s] = client[s])
        /\ client'[k.task].pc = "granted"
    BY <1>4 DEF IInv, TypeOK
  <2>2. TypeOK' /\ Clock'
    <3>1. delay' \in 0..Interval /\ since' \in 0..Interval /\ Clock'
      BY <1>4, PacerAssumption DEF PacerAssumption, Clock
    <3>2. /\ heap' \subseteq Held /\ channel' = {}
          /\ \A i, j \in Held : i.seq < seq /\ (j.seq = i.seq => j = i)
          /\ Held \subseteq Ticket
      BY <1>1 DEF IInv, TypeOK, Held
    <3> QED
      BY <1>1, <2>1, <3>1, <3>2 DEF IInv, TypeOK
  <2>3. NumbersApart'
    BY <1>1, <1>2, <2>1 DEF IInv, NumbersApart, Numbered
  <2>4. \A t \in Tasks : t # k.task => TicketOf(t) # k
    BY TicketOfIsTicket DEF IInv
  <2>5. TicketsKept'
    BY <1>2, <2>1, <2>4 DEF IInv, TicketsKept, TicketOf, Held
  <2> QED
    BY <2>2, <2>3, <2>5 DEF IInv
<1> QED
  BY <1>1, <1>3, <1>4

(* Every step keeps the invariant. *)
LEMMA NextInvariant == ASSUME IInv, [Next]_vars PROVE IInv'
<1>1. CASE UNCHANGED vars
  BY <1>1 DEF vars, IInv, TypeOK, NumbersApart, Numbered, Held, TicketsKept, TicketOf, Clock
<1> QED
  BY <1>1, TickInvariant, TakeNumberInvariant, SendTicketInvariant, LeaveInvariant,
     SleepInvariant, ServeInvariant DEF Next

(* So the invariant holds in every step. *)
LEMMA Invariant == Spec => []IInv
BY InitInvariant, NextInvariant, PTL DEF Spec

(* Tickets are well formed, and no two of them have the same number: the   *)
(* order of the heap is total.                                             *)
THEOREM TypeCorrect == Spec => []TypeOK
BY Invariant, PTL DEF IInv

(* A task that waits has its ticket in the channel or on the heap.         *)
THEOREM NoTicketLost == Spec => []TicketsKept
BY Invariant, PTL DEF IInv

-----------------------------------------------------------------------------
(* next_at moves only in a turn of the pacing task that finds somebody     *)
(* waiting for the best ticket: the slot of an aborted task is the next    *)
(* one's.                                                                  *)
THEOREM SlotsAreUsed == Spec => NoSlotBurned
<1>1. IInv /\ [Next]_vars => [delay' > delay => \E t \in Tasks : Granted(t)]_vars
  <2> SUFFICES ASSUME IInv, [Next]_vars, delay' > delay
               PROVE  \E t \in Tasks : Granted(t)
    OBVIOUS
  <2>1. delay \in Nat
    BY PacerAssumption DEF PacerAssumption, IInv, TypeOK
  <2>2. CASE Serve
    <3>1. PICK k \in Held :
            \/ /\ Waiting(k) /\ k.task \in Tasks
               /\ client' = [client EXCEPT ![k.task].pc = "granted"]
            \/ UNCHANGED delay
      BY <2>2, ServeStep
    <3>2. client'[k.task].pc = "granted"
      BY <2>1, <3>1 DEF IInv, TypeOK
    <3> QED
      BY <2>1, <3>1, <3>2 DEF Granted, Waiting
  <2>3. ASSUME delay' = delay \/ delay' = delay - 1 PROVE FALSE
    BY <2>1, <2>3
  <2>4. CASE Tick
    BY <2>1, <2>4 DEF Tick
  <2> QED
    BY <2>2, <2>3, <2>4 DEF Next, vars, TakeNumber, SendTicket, UseSlot, Abort, Sleep
<1> QED
  BY <1>1, Invariant, PTL DEF Spec, NoSlotBurned

-----------------------------------------------------------------------------
(* The abstract queue: tickets that were sent and are waited for.          *)
Queue == {TicketOf(t) : t \in {s \in Tasks : client[s].pc = "waiting"}}

(* The best ticket of all is ahead of every one that waits. *)
LEMMA BestIsAhead ==
  ASSUME IInv, NEW k \in Held, Best(k), NEW j \in Queue
  PROVE  ~Ahead(j, k)
<1>1. j \in Held /\ j \in Ticket /\ k \in Ticket
  BY TicketOfIsTicket DEF IInv, TypeOK, TicketsKept, Queue, Held
<1>2. /\ Rank[j.task] \in Nat /\ Rank[k.task] \in Nat
      /\ j.seq \in Nat /\ k.seq \in Nat
  BY <1>1, PacerAssumption DEF PacerAssumption, Ticket, Seqs
<1>3. j = k \/ Before(k, j)
  BY <1>1 DEF Best, Held
<1> QED
  BY <1>2, <1>3 DEF Before, Ahead

(* A task's change of state moves its ticket into the queue or out of it.  *)
LEMMA SendEnqueues ==
  ASSUME IInv, NEW t \in Tasks, SendTicket(t)
  PROVE  /\ TicketOf(t) \in Ticket \ Queue
         /\ Queue' = Queue \cup {TicketOf(t)}
<1>1. /\ client[t].pc = "numbered"
      /\ client' = [client EXCEPT ![t].pc = "waiting"]
  BY DEF SendTicket
<1>2. /\ \A s \in Tasks : client'[s].seq = client[s].seq /\ (s # t => client'[s] = client[s])
      /\ client'[t].pc = "waiting"
  BY <1>1 DEF IInv, TypeOK
<1>3. \A s \in Tasks : TicketOf(s)' = TicketOf(s) /\ (TicketOf(s) = TicketOf(t) => s = t)
  BY <1>2, TicketOfIsTicket DEF IInv, TicketOf
<1> QED
  BY <1>1, <1>2, <1>3, TicketOfIsTicket DEF Queue, IInv

(* So does leaving. *)
LEMMA LeaveDequeues ==
  ASSUME IInv, NEW t \in Tasks, client[t].pc = "waiting",
         client'[t].pc # "waiting",
         \A s \in Tasks : client'[s].seq = client[s].seq /\ (s # t => client'[s] = client[s])
  PROVE  TicketOf(t) \in Queue /\ Queue' = Queue \ {TicketOf(t)}
<1>1. \A s \in Tasks : TicketOf(s)' = TicketOf(s) /\ (TicketOf(s) = TicketOf(t) => s = t)
  BY TicketOfIsTicket DEF IInv, TicketOf
<1> QED
  BY <1>1 DEF Queue

(* The pacer keeps its promise.  Sending a ticket is Ask, an abort of a    *)
(* task that waits is Withdraw, a turn that finds somebody waiting is      *)
(* Grant; the rest is out of a client's sight.                             *)
THEOREM KeepsItsPromise == Spec => ImplementsRankedSlots
<1>1. Init => Slots!Init
  BY DEF Init, Slots!Init
<1>2. IInv /\ [Next]_vars => [Slots!Next]_(Slots!vars)
  <2> SUFFICES ASSUME IInv, [Next]_vars PROVE [Slots!Next]_(Slots!vars)
    OBVIOUS
  <2>1. SUFFICES \/ /\ since < Interval /\ since' = since + 1 /\ Queue' = Queue
                 \/ \E k \in Ticket :
                      \/ k \notin Queue /\ Queue' = Queue \cup {k} /\ since' = since
                      \/ Queue' = Queue \ {k} /\ since' = since
                      \/ /\ since = Interval /\ k \in Queue
                         /\ \A j \in Queue : ~Ahead(j, k)
                         /\ Queue' = Queue \ {k} /\ since' = 0
                 \/ Queue' = Queue /\ since' = since
    BY DEF Queue, Slots!Next, Slots!Ask, Slots!Withdraw, Slots!Grant, Slots!Tick, Slots!vars
  <2>2. since \in Nat /\ since <= Interval /\ Interval \in Nat
    BY PacerAssumption DEF PacerAssumption, IInv, TypeOK
  <2>3. CASE Tick
    <3>1. Queue' = Queue
      BY <2>3 DEF Tick, Queue, TicketOf
    <3>2. (since' = since + 1 /\ since < Interval) \/ since' = since
      BY <2>2, <2>3 DEF Tick
    <3> QED
      BY <3>1, <3>2
  <2>4. ASSUME NEW t \in Tasks, TakeNumber(t) PROVE Queue' = Queue /\ since' = since
    <3>1. /\ \A s \in Tasks : s # t => client'[s] = client[s]
          /\ client[t].pc = "idle" /\ client'[t].pc = "numbered"
      BY <2>4 DEF TakeNumber, IInv, TypeOK
    <3>2. \A s \in Tasks : s # t => TicketOf(s)' = TicketOf(s)
      BY <3>1 DEF TicketOf
    <3> QED
      BY <2>4, <3>1, <3>2 DEF Queue, TakeNumber
  <2>5. ASSUME NEW t \in Tasks, SendTicket(t)
        PROVE  TicketOf(t) \in Ticket \ Queue /\ Queue' = Queue \cup {TicketOf(t)}
               /\ since' = since
    BY <2>5, SendEnqueues DEF SendTicket
  <2>6. ASSUME NEW t \in Tasks, UseSlot(t) \/ Abort(t)
        PROVE  /\ since' = since
               /\ Queue' = Queue \/ Queue' = Queue \ {TicketOf(t)}
               /\ TicketOf(t) \in Ticket
    <3>1. /\ \A s \in Tasks : client'[s].seq = client[s].seq /\ (s # t => client'[s] = client[s])
          /\ client'[t].pc = "idle"
      BY <2>6 DEF UseSlot, Abort, IInv, TypeOK
    <3>2. client[t].pc # "waiting" => Queue' = Queue
      <4>1. \A s \in Tasks : TicketOf(s)' = TicketOf(s)
        BY <3>1 DEF TicketOf
      <4> QED
        BY <3>1, <4>1 DEF Queue
    <3> QED
      BY <2>6, <3>1, <3>2, LeaveDequeues, TicketOfIsTicket DEF UseSlot, Abort, IInv
  <2>7. CASE Sleep \/ UNCHANGED vars
    BY <2>7 DEF Sleep, vars, Queue, TicketOf
  <2>8. CASE Serve
    <3>1. PICK k \in Held :
            /\ Best(k) /\ delay = 0
            /\ \/ /\ Waiting(k) /\ k.task \in Tasks /\ TicketOf(k.task) = k
                  /\ client' = [client EXCEPT ![k.task].pc = "granted"]
                  /\ since' = 0
               \/ UNCHANGED <<client, since>>
      BY <2>8, ServeStep
    <3>2. CASE UNCHANGED <<client, since>>
      BY <3>2 DEF Queue, TicketOf
    <3>3. CASE /\ Waiting(k) /\ k.task \in Tasks /\ TicketOf(k.task) = k
               /\ client' = [client EXCEPT ![k.task].pc = "granted"]
               /\ since' = 0
      <4>1. /\ \A s \in Tasks : client'[s].seq = client[s].seq
                                /\ (s # k.task => client'[s] = client[s])
            /\ client[k.task].pc = "waiting" /\ client'[k.task].pc = "granted"
        BY <3>3 DEF IInv, TypeOK, Waiting
      <4>2. k \in Queue /\ Queue' = Queue \ {k}
        BY <3>3, <4>1, LeaveDequeues
      <4>3. since = Interval
        BY <2>2, <3>1 DEF IInv, Clock
      <4>4. \A j \in Queue : ~Ahead(j, k)
        BY <3>1, BestIsAhead
      <4>5. k \in Ticket
        BY <3>3, TicketOfIsTicket DEF IInv
      <4> QED
        BY <3>3, <4>2, <4>3, <4>4, <4>5
    <3> QED
      BY <3>1, <3>2, <3>3
  <2> QED
    BY <2>3, <2>4, <2>5, <2>6, <2>7, <2>8 DEF Next
<1> QED
  BY <1>1, <1>2, Invariant, PTL DEF Spec, Slots!Spec, ImplementsRankedSlots
=============================================================================
