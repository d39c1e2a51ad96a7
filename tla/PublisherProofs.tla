--------------------------- MODULE PublisherProofs ---------------------------
(***************************************************************************)
(* Proofs about the publisher: whatever the clients do, every event is     *)
(* sent, on its way or counted as dropped, the table holds who it should,  *)
(* and no client sees a stream out of order.                               *)
(***************************************************************************)
EXTENDS Publisher, TLAPS

(* A dispatcher holds one event at most, and only events of its stream.    *)
OwnStream ==
  \A s \in Streams :
    /\ Len(held[s]) <= 1
    /\ \A i \in 1..Len(held[s]) : held[s][i].stream = s
    /\ \A i \in 1..Len(channel[s]) : channel[s][i].stream = s

(* The constants are as assumed. *)
LEMMA Constants ==
  /\ MaxEvents \in Nat /\ MaxRequests \in Nat
  /\ ChannelMax \in Nat \ {0} /\ QueueMax \in Nat \ {0} /\ OutMax \in Nat \ {0}
  /\ \A f \in Filters : f \in Filter
BY PublisherAssumption DEF PublisherAssumption

(* What the fields of an event are. *)
LEMMA EventFields ==
  \A e \in Event : e.stream \in Streams /\ e.symbol \in Symbols /\ e.n \in 1..MaxEvents
BY DEF Event

(* Taking the first of a queue. *)
LEMMA Taking ==
  ASSUME NEW E, NEW q \in Seq(E), q # <<>>
  PROVE  /\ Len(q) \in Nat \ {0}
         /\ Head(q) \in E /\ Head(q) = q[1]
         /\ Tail(q) \in Seq(E) /\ Len(Tail(q)) = Len(q) - 1
         /\ \A i \in 1..Len(Tail(q)) : Tail(q)[i] = q[i + 1]
OBVIOUS

(* A queue of one. *)
LEMMA TheOnlyOne ==
  ASSUME NEW E, NEW q \in Seq(E), q # <<>>, Len(q) <= 1
  PROVE  Len(q) = 1 /\ q[1] \in E /\ Head(q) = q[1] /\ Tail(q) = <<>>
<1>1. Len(q) = 1
  BY SMTT(30), Taking
<1>2. Tail(q) \in Seq(E) /\ Len(Tail(q)) = 0
  BY <1>1
<1>3. Tail(q) = <<>>
  BY <1>2
<1> QED
  BY <1>1, <1>3

(* Adding one at its end. *)
LEMMA Adding ==
  ASSUME NEW E, NEW q \in Seq(E), NEW e \in E
  PROVE  /\ Append(q, e) \in Seq(E) /\ Len(Append(q, e)) = Len(q) + 1
         /\ \A i \in 1..Len(q) : Append(q, e)[i] = q[i]
         /\ Append(q, e)[Len(q) + 1] = e
         /\ \A i \in 1..Len(Append(q, e)) :
              \/ i \in 1..Len(q) /\ Append(q, e)[i] = q[i]
              \/ i = Len(q) + 1 /\ Append(q, e)[i] = e
OBVIOUS

-----------------------------------------------------------------------------
(* The feed: types, counts and streams together. *)

FeedTyped ==
  /\ produced \in [Streams -> 0..MaxEvents] /\ passed \in [Streams -> 0..MaxEvents]
  /\ shed \in [Streams -> 0..MaxEvents]
  /\ channel \in [Streams -> Seq(Event)] /\ held \in [Streams -> Seq(Event)]
  /\ \A s \in Streams : Len(channel[s]) <= ChannelMax

(* The numbers of a stream: its events, and where they are now. *)
Made(s) == produced[s]
Done(s) == passed[s]
InHand(s) == Len(held[s])
Waiting(s) == Len(channel[s])
Lost(s) == shed[s]

StreamCounted(s) == Made(s) = Done(s) + InHand(s) + Waiting(s) + Lost(s)

FeedCounted == \A s \in Streams : StreamCounted(s)

FeedInv == FeedTyped /\ FeedCounted /\ OwnStream

(* They are natural numbers. *)
LEMMA StreamNumbers ==
  ASSUME FeedTyped, NEW s \in Streams
  PROVE  /\ Made(s) \in 0..MaxEvents /\ Done(s) \in Nat /\ InHand(s) \in Nat
         /\ Waiting(s) \in Nat /\ Lost(s) \in Nat
BY DEF FeedTyped, Made, Done, InHand, Waiting, Lost

(* An event is queued or lost when it is made, taken, and then published. *)
LEMMA StreamMoves ==
  ASSUME FeedInv, NEW s \in Streams,
         \/ /\ Made(s)' = Made(s) + 1 /\ Waiting(s)' = Waiting(s) + 1
            /\ Done(s)' = Done(s) /\ InHand(s)' = InHand(s) /\ Lost(s)' = Lost(s)
         \/ /\ Made(s)' = Made(s) + 1 /\ Lost(s)' = Lost(s) + 1
            /\ Done(s)' = Done(s) /\ InHand(s)' = InHand(s) /\ Waiting(s)' = Waiting(s)
         \/ /\ InHand(s)' = InHand(s) + 1 /\ Waiting(s)' = Waiting(s) - 1
            /\ Made(s)' = Made(s) /\ Done(s)' = Done(s) /\ Lost(s)' = Lost(s)
         \/ /\ InHand(s)' = InHand(s) - 1 /\ Done(s)' = Done(s) + 1
            /\ Made(s)' = Made(s) /\ Waiting(s)' = Waiting(s) /\ Lost(s)' = Lost(s)
         \/ /\ InHand(s)' = InHand(s) /\ Done(s)' = Done(s)
            /\ Made(s)' = Made(s) /\ Waiting(s)' = Waiting(s) /\ Lost(s)' = Lost(s)
  PROVE  StreamCounted(s)'
<1>1. /\ Made(s) \in 0..MaxEvents /\ Done(s) \in Nat /\ InHand(s) \in Nat
      /\ Waiting(s) \in Nat /\ Lost(s) \in Nat
  BY StreamNumbers DEF FeedInv
<1>2. StreamCounted(s)
  BY DEF FeedInv, FeedCounted
<1> QED
  BY <1>1, <1>2 DEF StreamCounted

(* What was lost or is done was made. *)
LEMMA WithinMade ==
  ASSUME FeedInv, NEW s \in Streams
  PROVE  /\ Made(s) \in Nat /\ Lost(s) \in Nat /\ Lost(s) <= Made(s)
         /\ Done(s) \in Nat /\ Done(s) + InHand(s) <= Made(s)
         /\ Made(s) <= MaxEvents
<1>1. /\ Made(s) \in 0..MaxEvents /\ Done(s) \in Nat /\ InHand(s) \in Nat
      /\ Waiting(s) \in Nat /\ Lost(s) \in Nat
  BY StreamNumbers DEF FeedInv
<1>2. StreamCounted(s)
  BY DEF FeedInv, FeedCounted
<1> QED
  BY <1>1, <1>2, Constants DEF StreamCounted

(* The bound on the events of both streams bounds those of each. *)
LEMMA EventsLeft ==
  ASSUME FeedInv, NEW s \in Streams, NEW symbol \in Symbols, Put(s, symbol)
  PROVE  produced[s] \in 0..MaxEvents /\ produced[s] < MaxEvents
<1>1. produced["bbo"] \in 0..MaxEvents /\ produced["book"] \in 0..MaxEvents
  BY DEF FeedInv, FeedTyped, Streams
<1>2. produced["bbo"] + produced["book"] < MaxEvents
  BY DEF Put
<1>3. produced["bbo"] < MaxEvents /\ produced["book"] < MaxEvents
  BY <1>1, <1>2, Constants
<1> QED
  BY <1>1, <1>3 DEF Streams

(* A shard hands over an event: it is queued, or shed and counted. *)
LEMMA PutKeepsFeed ==
  ASSUME FeedInv, NEW s \in Streams, NEW symbol \in Symbols, Put(s, symbol)
  PROVE  FeedInv'
<1> DEFINE ev == [stream |-> s, symbol |-> symbol, n |-> produced[s] + 1]
<1>1. ev \in Event /\ ev.stream = s /\ produced[s] + 1 \in 0..MaxEvents
  <2>1. produced[s] \in 0..MaxEvents /\ produced[s] < MaxEvents
    BY EventsLeft
  <2>2. produced[s] + 1 \in 1..MaxEvents
    BY <2>1, Constants
  <2> QED
    BY <2>2 DEF Event
<1>2. /\ produced' \in [Streams -> 0..MaxEvents]
      /\ produced'[s] = produced[s] + 1
      /\ \A t \in Streams \ {s} : produced'[t] = produced[t]
      /\ UNCHANGED <<held, passed>>
  BY <1>1 DEF Put, FeedInv, FeedTyped
<1> HIDE DEF ev
<1>3. CASE Len(channel[s]) < ChannelMax
  <2>1. channel' = [channel EXCEPT ![s] = Append(channel[s], ev)] /\ UNCHANGED shed
    BY <1>3 DEF Put, ev
  <2>2. /\ Append(channel[s], ev) \in Seq(Event)
        /\ Len(Append(channel[s], ev)) = Len(channel[s]) + 1
        /\ \A i \in 1..Len(channel[s]) : Append(channel[s], ev)[i] = channel[s][i]
        /\ Append(channel[s], ev)[Len(channel[s]) + 1] = ev
    BY <1>1, Adding DEF FeedInv, FeedTyped
  <2>3. /\ channel' \in [Streams -> Seq(Event)]
        /\ channel'[s] = Append(channel[s], ev)
        /\ \A t \in Streams \ {s} : channel'[t] = channel[t]
    BY <2>1, <2>2 DEF FeedInv, FeedTyped
  <2>4. Len(channel[s]) \in Nat
    BY DEF FeedInv, FeedTyped
  <2>5. FeedTyped'
    BY <1>2, <1>3, <2>1, <2>2, <2>3, <2>4, Constants DEF FeedInv, FeedTyped
  <2>6. FeedCounted'
    <3>1. ASSUME NEW t \in Streams
          PROVE  StreamCounted(t)'
      <4>1. Done(t)' = Done(t) /\ InHand(t)' = InHand(t) /\ Lost(t)' = Lost(t)
        BY <1>2, <2>1 DEF Done, InHand, Lost
      <4>2. CASE t = s
        <5>1. Made(t)' = Made(t) + 1
          BY <1>2, <4>2 DEF Made
        <5>2. Waiting(t)' = Waiting(t) + 1
          BY <2>2, <2>3, <4>2 DEF Waiting
        <5> QED
          BY <4>1, <5>1, <5>2, StreamMoves
      <4>3. CASE t # s
        <5>1. Made(t)' = Made(t) /\ Waiting(t)' = Waiting(t)
          BY <1>2, <2>3, <4>3 DEF Made, Waiting
        <5> QED
          BY <4>1, <5>1, StreamMoves
      <4> QED
        BY <4>2, <4>3
    <3> QED
      BY <3>1 DEF FeedCounted
  <2>7. OwnStream'
    <3>1. ASSUME NEW t \in Streams, NEW i \in 1..Len(channel'[t])
          PROVE  channel'[t][i].stream = t
      <4>1. CASE t = s
        <5>1. i \in 1..Len(channel[s]) \/ i = Len(channel[s]) + 1
          BY <2>2, <2>3, <2>4, <4>1
        <5> QED
          BY <1>1, <2>2, <2>3, <4>1, <5>1 DEF FeedInv, OwnStream
      <4>2. CASE t # s
        BY <2>3, <4>2 DEF FeedInv, OwnStream
      <4> QED
        BY <4>1, <4>2
    <3> QED
      BY <1>2, <3>1 DEF FeedInv, OwnStream
  <2> QED
    BY <2>5, <2>6, <2>7 DEF FeedInv
<1>4. CASE Len(channel[s]) >= ChannelMax
  <2>1. shed' = [shed EXCEPT ![s] = shed[s] + 1] /\ UNCHANGED channel
    BY <1>4, Constants DEF Put, FeedInv, FeedTyped
  <2>3. /\ shed'[s] = shed[s] + 1
        /\ \A t \in Streams \ {s} : shed'[t] = shed[t]
    BY <2>1 DEF FeedInv, FeedTyped
  <2>4. FeedCounted'
    <3>1. ASSUME NEW t \in Streams
          PROVE  StreamCounted(t)'
      <4>1. Done(t)' = Done(t) /\ InHand(t)' = InHand(t) /\ Waiting(t)' = Waiting(t)
        BY <1>2, <2>1 DEF Done, InHand, Waiting
      <4>2. \/ Made(t)' = Made(t) + 1 /\ Lost(t)' = Lost(t) + 1
            \/ Made(t)' = Made(t) /\ Lost(t)' = Lost(t)
        BY <1>2, <2>3 DEF Made, Lost
      <4> QED
        BY <4>1, <4>2, StreamMoves
    <3> QED
      BY <3>1 DEF FeedCounted
  <2>5. shed[s] + 1 \in 0..MaxEvents
    <3>1. Lost(s) \in Nat /\ Lost(s) <= Made(s) /\ Made(s) \in Nat
      BY WithinMade
    <3>2. Made(s) + 1 \in 0..MaxEvents
      BY <1>1 DEF Made
    <3>3. Lost(s) + 1 \in 0..MaxEvents
      BY <3>1, <3>2, Constants
    <3> QED
      BY <3>3 DEF Lost
  <2>6. FeedTyped'
    BY <1>2, <2>1, <2>5 DEF FeedInv, FeedTyped
  <2>7. OwnStream'
    BY <1>2, <2>1 DEF FeedInv, OwnStream
  <2> QED
    BY <2>4, <2>6, <2>7 DEF FeedInv
<1> QED
  BY SMTT(30), <1>3, <1>4, Constants DEF FeedInv, FeedTyped

(* A dispatcher takes an event. *)
LEMMA ReceiveKeepsFeed ==
  ASSUME FeedInv, NEW s \in Streams, Receive(s)
  PROVE  FeedInv'
<1>1. /\ channel[s] \in Seq(Event) /\ channel[s] # <<>> /\ held[s] = <<>>
      /\ held' = [held EXCEPT ![s] = <<Head(channel[s])>>]
      /\ channel' = [channel EXCEPT ![s] = Tail(channel[s])]
      /\ UNCHANGED <<produced, shed, passed>>
  BY DEF Receive, FeedInv, FeedTyped
<1>2. /\ Len(channel[s]) \in Nat \ {0} /\ Head(channel[s]) \in Event
      /\ Head(channel[s]) = channel[s][1]
      /\ Tail(channel[s]) \in Seq(Event) /\ Len(Tail(channel[s])) = Len(channel[s]) - 1
      /\ \A i \in 1..Len(Tail(channel[s])) : Tail(channel[s])[i] = channel[s][i + 1]
  BY <1>1, Taking
<1>3. /\ channel' \in [Streams -> Seq(Event)] /\ held' \in [Streams -> Seq(Event)]
      /\ channel'[s] = Tail(channel[s]) /\ held'[s] = <<Head(channel[s])>>
      /\ \A t \in Streams \ {s} : channel'[t] = channel[t] /\ held'[t] = held[t]
  BY <1>1, <1>2 DEF FeedInv, FeedTyped
<1>4. FeedTyped'
  BY <1>1, <1>2, <1>3, Constants DEF FeedInv, FeedTyped
<1>5. FeedCounted'
  <2>1. InHand(s) = 0 /\ InHand(s)' = 1
    BY <1>1, <1>3 DEF InHand
  <2>2. ASSUME NEW t \in Streams
        PROVE  StreamCounted(t)'
    <3>1. Made(t)' = Made(t) /\ Done(t)' = Done(t) /\ Lost(t)' = Lost(t)
      BY <1>1 DEF Made, Done, Lost
    <3>2. CASE t = s
      <4>1. Waiting(t)' = Waiting(t) - 1
        BY <1>2, <1>3, <3>2 DEF Waiting
      <4>2. InHand(t)' = InHand(t) + 1
        BY <2>1, <3>2
      <4> QED
        BY <3>1, <4>1, <4>2, StreamMoves
    <3>3. CASE t # s
      <4>1. Waiting(t)' = Waiting(t) /\ InHand(t)' = InHand(t)
        BY <1>3, <3>3 DEF Waiting, InHand
      <4> QED
        BY <3>1, <4>1, StreamMoves
    <3> QED
      BY <3>2, <3>3
  <2> QED
    BY <2>2 DEF FeedCounted
<1>6. OwnStream'
  <2>1. Len(held'[s]) = 1 /\ held'[s][1] = channel[s][1]
    BY <1>2, <1>3
  <2>2. \A i \in 1..Len(channel[s]) : channel[s][i].stream = s
    BY DEF FeedInv, OwnStream
  <2>3. held'[s][1].stream = s
    BY <1>2, <2>1, <2>2
  <2>4. ASSUME NEW i \in 1..Len(channel'[s])
        PROVE  channel'[s][i].stream = s
    <3>1. i \in 1..Len(Tail(channel[s])) /\ i + 1 \in 1..Len(channel[s])
      BY <1>2, <1>3
    <3> QED
      BY <1>2, <1>3, <2>2, <3>1
  <2>5. ASSUME NEW t \in Streams
        PROVE  /\ Len(held'[t]) <= 1
               /\ \A i \in 1..Len(held'[t]) : held'[t][i].stream = t
               /\ \A i \in 1..Len(channel'[t]) : channel'[t][i].stream = t
    <3>1. CASE t = s
      <4>1. \A i \in 1..Len(held'[s]) : i = 1
        BY <2>1
      <4>2. \A i \in 1..Len(held'[s]) : held'[s][i].stream = s
        BY <2>3, <4>1
      <4>3. Len(held'[s]) <= 1
        BY <2>1
      <4> QED
        BY <2>4, <3>1, <4>2, <4>3
    <3>2. CASE t # s
      BY <1>3, <3>2 DEF FeedInv, OwnStream
    <3> QED
      BY <3>1, <3>2
  <2> QED
    BY <2>5 DEF OwnStream
<1> QED
  BY <1>4, <1>5, <1>6 DEF FeedInv

(* A dispatcher has published the event it held. *)
LEMMA PublishKeepsFeed ==
  ASSUME FeedInv, NEW s \in Streams, Publish(s)
  PROVE  FeedInv'
<1>0. /\ held[s] # <<>> /\ held' = [held EXCEPT ![s] = <<>>]
      /\ passed' = [passed EXCEPT ![s] = passed[s] + 1]
  BY DEF Publish
<1>1. UNCHANGED <<produced, shed, channel>>
  BY DEF Publish, feed
<1>2. Len(held[s]) = 1
  <2>1. held[s] \in Seq(Event) /\ Len(held[s]) <= 1
    BY DEF FeedInv, FeedTyped, OwnStream
  <2> QED
    BY <1>0, <2>1, TheOnlyOne
<1>3. /\ held' \in [Streams -> Seq(Event)]
      /\ held'[s] = <<>> /\ passed'[s] = passed[s] + 1
      /\ \A t \in Streams \ {s} : held'[t] = held[t] /\ passed'[t] = passed[t]
  BY <1>0 DEF FeedInv, FeedTyped
<1>4. Len(held'[s]) = 0
  BY <1>3
<1>5. InHand(s) = 1 /\ InHand(s)' = 0
  BY <1>2, <1>4 DEF InHand
<1>6. FeedCounted'
  <2>1. ASSUME NEW t \in Streams
        PROVE  StreamCounted(t)'
    <3>1. Made(t)' = Made(t) /\ Waiting(t)' = Waiting(t) /\ Lost(t)' = Lost(t)
      BY <1>1 DEF Made, Waiting, Lost
    <3>2. CASE t = s
      <4>1. Done(t)' = Done(t) + 1
        BY <1>3, <3>2 DEF Done
      <4>2. InHand(t)' = InHand(t) - 1
        BY <1>5, <3>2
      <4> QED
        BY <3>1, <4>1, <4>2, StreamMoves
    <3>3. CASE t # s
      <4>1. Done(t)' = Done(t) /\ InHand(t)' = InHand(t)
        BY <1>3, <3>3 DEF Done, InHand
      <4> QED
        BY <3>1, <4>1, StreamMoves
    <3> QED
      BY <3>2, <3>3
  <2> QED
    BY <2>1 DEF FeedCounted
<1>7. passed[s] + 1 \in 0..MaxEvents
  <2>1. Done(s) + 1 \in 0..MaxEvents
    BY <1>5, WithinMade, Constants
  <2> QED
    BY <2>1 DEF Done
<1>8. FeedTyped'
  BY <1>0, <1>1, <1>3, <1>7 DEF FeedInv, FeedTyped
<1>9. OwnStream'
  <2>1. ASSUME NEW t \in Streams
        PROVE  /\ Len(held'[t]) <= 1
               /\ \A i \in 1..Len(held'[t]) : held'[t][i].stream = t
               /\ \A i \in 1..Len(channel'[t]) : channel'[t][i].stream = t
    <3>1. CASE t = s
      BY <1>1, <1>4, <3>1 DEF FeedInv, OwnStream
    <3>2. CASE t # s
      BY <1>1, <1>3, <3>2 DEF FeedInv, OwnStream
    <3> QED
      BY <3>1, <3>2
  <2> QED
    BY <2>1 DEF OwnStream
<1> QED
  BY <1>6, <1>8, <1>9 DEF FeedInv

-----------------------------------------------------------------------------
(* The clients: their types. *)

ClientsTyped ==
  /\ table \subseteq Clients
  /\ filter \in [Clients -> Filter]
  /\ queue \in [Clients -> Seq(Event)] /\ out \in [Clients -> Seq(Event)]
  /\ carried \in [Clients -> Seq(Event)] /\ sent \in [Clients -> Seq(Event)]
  /\ \A c \in Clients :
       Len(queue[c]) <= QueueMax /\ Len(carried[c]) <= 1 /\ Len(out[c]) <= OutMax
  /\ inbox \in [Clients -> Seq(Request)]
  /\ receiving \subseteq Clients /\ left \subseteq Clients
  /\ handler \in [Clients -> {"outer", "streaming", "ended"}]
  /\ asked \in [Clients -> 0..MaxRequests]
  /\ dropped \in [Clients -> Nat] /\ offered \in [Clients -> Nat]

(* The types are those of the feed and those of the clients. *)
LEMMA TypeOKInTwo == TypeOK <=> FeedTyped /\ ClientsTyped
BY DEF TypeOK, FeedTyped, ClientsTyped

(* A message that is read asks for a filter, or is an unsubscribe. *)
LEMMA ReadsKeepTypes ==
  ASSUME ClientsTyped, NEW c \in Clients, NEW action, Reads(c, action)
  PROVE  /\ inbox' \in [Clients -> Seq(Request)]
         /\ action = "subscribe" => Head(inbox[c]).filter \in Filter
<1>1. /\ inbox[c] \in Seq(Request) /\ inbox[c] # <<>> /\ Head(inbox[c]).action = action
      /\ inbox' = [inbox EXCEPT ![c] = Tail(inbox[c])]
  BY DEF Reads, ClientsTyped
<1>2. Head(inbox[c]) \in Request /\ Tail(inbox[c]) \in Seq(Request)
  BY <1>1, Taking
<1>3. inbox' \in [Clients -> Seq(Request)]
  BY <1>1, <1>2 DEF ClientsTyped
<1>4. ASSUME action = "subscribe"
      PROVE  Head(inbox[c]).filter \in Filter
  BY <1>1, <1>2, <1>4, Constants DEF Request
<1> QED
  BY <1>3, <1>4

(* Empty queues are short enough. *)
LEMMA EmptyIsShort ==
  /\ <<>> \in Seq(Event)
  /\ Len(<<>>) <= QueueMax /\ Len(<<>>) <= 1 /\ Len(<<>>) <= OutMax
BY Constants

(* A new subscription. *)
LEMMA SubscribeKeepsTypes ==
  ASSUME ClientsTyped, NEW c \in Clients, Subscribe(c)
  PROVE  ClientsTyped'
<1>1. /\ inbox' \in [Clients -> Seq(Request)] /\ Head(inbox[c]).filter \in Filter
      /\ UNCHANGED <<asked, left>>
  BY ReadsKeepTypes DEF Subscribe, Reads
<1>2. /\ table' \subseteq Clients /\ receiving' \subseteq Clients
      /\ filter' \in [Clients -> Filter]
      /\ handler' \in [Clients -> {"outer", "streaming", "ended"}]
  BY <1>1 DEF Subscribe, ClientsTyped
<1>3. /\ queue' \in [Clients -> Seq(Event)] /\ out' \in [Clients -> Seq(Event)]
      /\ carried' \in [Clients -> Seq(Event)] /\ sent' \in [Clients -> Seq(Event)]
      /\ dropped' \in [Clients -> Nat] /\ offered' \in [Clients -> Nat]
  BY EmptyIsShort DEF Subscribe, ClientsTyped
<1>4. \A d \in Clients : /\ queue'[d] = <<>> \/ queue'[d] = queue[d]
                         /\ carried'[d] = <<>> \/ carried'[d] = carried[d]
                         /\ out'[d] = <<>> \/ out'[d] = out[d]
  BY DEF Subscribe, ClientsTyped
<1>5. \A d \in Clients :
        Len(queue'[d]) <= QueueMax /\ Len(carried'[d]) <= 1 /\ Len(out'[d]) <= OutMax
  BY <1>4, EmptyIsShort DEF ClientsTyped
<1> QED
  BY <1>1, <1>2, <1>3, <1>5 DEF ClientsTyped

(* The end of one. *)
LEMMA UnsubscribedKeepsTypes ==
  ASSUME ClientsTyped, NEW c \in Clients, Unsubscribed(c),
         inbox' \in [Clients -> Seq(Request)], UNCHANGED <<asked, left>>,
         handler' \in [Clients -> {"outer", "streaming", "ended"}]
  PROVE  ClientsTyped'
<1>1. /\ table' \subseteq Clients /\ receiving' \subseteq Clients
      /\ UNCHANGED <<filter, dropped, offered, sent>>
  BY DEF Unsubscribed, ClientsTyped
<1>2. /\ queue' \in [Clients -> Seq(Event)] /\ out' \in [Clients -> Seq(Event)]
      /\ carried' \in [Clients -> Seq(Event)]
  BY EmptyIsShort DEF Unsubscribed, ClientsTyped
<1>3. \A d \in Clients : /\ queue'[d] = <<>> \/ queue'[d] = queue[d]
                         /\ carried'[d] = <<>> \/ carried'[d] = carried[d]
                         /\ out'[d] = <<>> \/ out'[d] = out[d]
  BY DEF Unsubscribed, ClientsTyped
<1>4. \A d \in Clients :
        Len(queue'[d]) <= QueueMax /\ Len(carried'[d]) <= 1 /\ Len(out'[d]) <= OutMax
  BY <1>3, EmptyIsShort DEF ClientsTyped
<1> QED
  BY <1>1, <1>2, <1>4 DEF ClientsTyped

(* The streaming task takes an event. *)
LEMMA TakeKeepsTypes ==
  ASSUME ClientsTyped, NEW c \in Clients, Take(c)
  PROVE  ClientsTyped'
<1>1. /\ queue[c] \in Seq(Event) /\ queue[c] # <<>>
      /\ queue' = [queue EXCEPT ![c] = Tail(queue[c])]
      /\ carried' = [carried EXCEPT ![c] = <<Head(queue[c])>>]
      /\ UNCHANGED <<table, filter, dropped, receiving, out, offered, sent, handler, inbox,
                     asked, left>>
  BY DEF Take, sockets, ClientsTyped
<1>2. /\ Tail(queue[c]) \in Seq(Event) /\ Head(queue[c]) \in Event
      /\ Len(queue[c]) \in Nat /\ Len(Tail(queue[c])) = Len(queue[c]) - 1
  BY <1>1, Taking
<1>3. /\ queue' \in [Clients -> Seq(Event)] /\ queue'[c] = Tail(queue[c])
      /\ \A d \in Clients \ {c} : queue'[d] = queue[d]
  BY <1>1, <1>2 DEF ClientsTyped
<1>4. Len(Tail(queue[c])) <= QueueMax
  <2>1. Len(queue[c]) <= QueueMax
    BY DEF ClientsTyped
  <2> QED
    BY <1>2, <2>1, Constants
<1>5. <<Head(queue[c])>> \in Seq(Event) /\ Len(<<Head(queue[c])>>) <= 1
  BY <1>2
<1>6. /\ carried' \in [Clients -> Seq(Event)] /\ carried'[c] = <<Head(queue[c])>>
      /\ \A d \in Clients \ {c} : carried'[d] = carried[d]
  BY <1>1, <1>5 DEF ClientsTyped
<1>7. \A d \in Clients : Len(queue'[d]) <= QueueMax /\ Len(carried'[d]) <= 1
  BY <1>3, <1>4, <1>5, <1>6 DEF ClientsTyped
<1> QED
  BY <1>1, <1>3, <1>6, <1>7 DEF ClientsTyped

(* What it holds. *)
LEMMA CarriedEvent ==
  ASSUME ClientsTyped, NEW c \in Clients, carried[c] # <<>>
  PROVE  /\ carried[c] \in Seq(Event) /\ Head(carried[c]) \in Event
         /\ Len(carried[c]) = 1 /\ Tail(carried[c]) = <<>>
<1>1. carried[c] \in Seq(Event) /\ Len(carried[c]) <= 1
  BY DEF ClientsTyped
<1> QED
  BY <1>1, TheOnlyOne

(* It passes the event on. *)
LEMMA PassKeepsTypes ==
  ASSUME ClientsTyped, NEW c \in Clients, Pass(c)
  PROVE  ClientsTyped'
<1> DEFINE e == Head(carried[c])
<1>1. /\ out[c] \in Seq(Event) /\ carried[c] # <<>> /\ Len(out[c]) < OutMax
      /\ out' = [out EXCEPT ![c] = Append(out[c], e)]
      /\ carried' = [carried EXCEPT ![c] = <<>>]
      /\ UNCHANGED <<table, filter, queue, dropped, receiving, offered, sent, handler, inbox,
                     asked, left>>
  BY DEF Pass, sockets, ClientsTyped
<1>2. e \in Event
  BY <1>1, CarriedEvent
<1> HIDE DEF e
<1>3. /\ Append(out[c], e) \in Seq(Event) /\ Len(Append(out[c], e)) = Len(out[c]) + 1
      /\ Len(out[c]) \in Nat
  BY <1>1, <1>2, Adding
<1>4. /\ out' \in [Clients -> Seq(Event)] /\ out'[c] = Append(out[c], e)
      /\ \A d \in Clients \ {c} : out'[d] = out[d]
  BY <1>1, <1>3 DEF ClientsTyped
<1>5. Len(Append(out[c], e)) <= OutMax
  BY <1>1, <1>3, Constants
<1>6. carried' \in [Clients -> Seq(Event)] /\ \A d \in Clients : Len(carried'[d]) <= 1
  BY <1>1, EmptyIsShort DEF ClientsTyped
<1>7. \A d \in Clients : Len(out'[d]) <= OutMax
  BY <1>4, <1>5 DEF ClientsTyped
<1> QED
  BY <1>1, <1>4, <1>6, <1>7 DEF ClientsTyped

(* It ends with the outgoing channel. *)
LEMMA StopKeepsTypes ==
  ASSUME ClientsTyped, NEW c \in Clients, Stop(c)
  PROVE  ClientsTyped'
<1>1. /\ carried' = [carried EXCEPT ![c] = <<>>] /\ receiving' \subseteq Clients
      /\ UNCHANGED <<table, filter, queue, dropped, out, offered, sent, handler, inbox,
                     asked, left>>
  BY DEF Stop, sockets, ClientsTyped
<1>2. carried' \in [Clients -> Seq(Event)] /\ \A d \in Clients : Len(carried'[d]) <= 1
  BY <1>1, EmptyIsShort DEF ClientsTyped
<1> QED
  BY <1>1, <1>2 DEF ClientsTyped

(* The streaming loop sends an event. *)
LEMMA SendKeepsTypes ==
  ASSUME ClientsTyped, NEW c \in Clients, Send(c)
  PROVE  ClientsTyped'
<1>1. /\ out[c] \in Seq(Event) /\ out[c] # <<>> /\ sent[c] \in Seq(Event)
      /\ out' = [out EXCEPT ![c] = Tail(out[c])]
      /\ sent' = [sent EXCEPT ![c] = Append(sent[c], Head(out[c]))]
      /\ UNCHANGED <<table, filter, dropped, offered, queue, handler, inbox, asked, left>>
      /\ UNCHANGED <<receiving, carried>>
  BY DEF Send, sockets, ClientsTyped
<1>2. /\ Tail(out[c]) \in Seq(Event) /\ Head(out[c]) \in Event
      /\ Len(out[c]) \in Nat /\ Len(Tail(out[c])) = Len(out[c]) - 1
  BY <1>1, Taking
<1>3. Append(sent[c], Head(out[c])) \in Seq(Event)
  BY <1>1, <1>2, Adding
<1>4. /\ out' \in [Clients -> Seq(Event)] /\ out'[c] = Tail(out[c])
      /\ \A d \in Clients \ {c} : out'[d] = out[d]
      /\ sent' \in [Clients -> Seq(Event)]
  BY <1>1, <1>2, <1>3 DEF ClientsTyped
<1>5. \A d \in Clients : Len(out'[d]) <= OutMax
  <2>1. Len(Tail(out[c])) <= OutMax
    <3>1. Len(out[c]) <= OutMax
      BY DEF ClientsTyped
    <3> QED
      BY <1>2, <3>1, Constants
  <2> QED
    BY <1>4, <2>1 DEF ClientsTyped
<1> QED
  BY <1>1, <1>4, <1>5 DEF ClientsTyped
(* The event that a dispatcher publishes. *)
LEMMA HeldEvent ==
  ASSUME FeedInv, NEW s \in Streams, held[s] # <<>>
  PROVE  /\ held[s][1] \in Event /\ held[s][1].stream = s
         /\ Head(held[s]) = held[s][1] /\ Tail(held[s]) = <<>>
<1> DEFINE h == held[s]
<1>1. h \in Seq(Event) /\ h # <<>> /\ Len(h) <= 1
  BY DEF FeedInv, FeedTyped, OwnStream
<1>2. \A i \in 1..Len(h) : h[i].stream = s
  BY DEF FeedInv, OwnStream
<1> HIDE DEF h
<1>3. Len(h) = 1 /\ h[1] \in Event /\ Head(h) = h[1] /\ Tail(h) = <<>>
  BY <1>1, TheOnlyOne
<1>4. h[1].stream = s
  BY <1>2, <1>3
<1> QED
  BY <1>3, <1>4 DEF h

(* What a publication does to one client. *)
LEMMA PublishTo ==
  ASSUME ClientsTyped, NEW s \in Streams, NEW ev \in Event, ev = held[s][1],
         Publish(s), NEW c \in Clients
  PROVE  /\ sent'[c] = sent[c] /\ out'[c] = out[c] /\ carried'[c] = carried[c]
         /\ \/ /\ queue'[c] = Append(queue[c], ev) /\ Len(queue[c]) < QueueMax
               /\ dropped'[c] = dropped[c] /\ offered'[c] = offered[c] + 1
               /\ Wants(c, ev)
            \/ /\ queue'[c] = queue[c]
               /\ dropped'[c] = dropped[c] + 1 /\ offered'[c] = offered[c] + 1
            \/ /\ queue'[c] = queue[c]
               /\ dropped'[c] = dropped[c] /\ offered'[c] = offered[c]
<1>1. /\ queue'[c] = (IF c \in Reached(ev) \ Full(ev) THEN Append(queue[c], ev)
                     ELSE queue[c])
      /\ dropped'[c] = dropped[c] + (IF c \in Full(ev) THEN 1 ELSE 0)
      /\ offered'[c] = offered[c] + (IF c \in Reached(ev) THEN 1 ELSE 0)
      /\ UNCHANGED <<sent, carried, out>>
  BY DEF Publish, Offer
<1>2. c \in Full(ev) <=> c \in Reached(ev) /\ Len(queue[c]) >= QueueMax
  BY DEF Full
<1>3. c \in Reached(ev) => Wants(c, ev)
  BY DEF Reached
<1>4. dropped[c] \in Nat /\ offered[c] \in Nat /\ Len(queue[c]) \in Nat /\ QueueMax \in Nat
  BY Constants DEF ClientsTyped
<1>5. CASE c \in Reached(ev) /\ Len(queue[c]) < QueueMax
  <2>1. c \notin Full(ev)
    BY <1>2, <1>4, <1>5
  <2>2. /\ queue'[c] = Append(queue[c], ev)
        /\ dropped'[c] = dropped[c] + 0 /\ offered'[c] = offered[c] + 1
    BY <1>1, <1>5, <2>1
  <2>3. dropped'[c] = dropped[c]
    BY <1>4, <2>2
  <2> QED
    BY <1>1, <1>3, <1>5, <2>2, <2>3
<1>6. CASE c \in Reached(ev) /\ Len(queue[c]) >= QueueMax
  BY <1>1, <1>2, <1>6
<1>7. CASE c \notin Reached(ev)
  <2>1. c \notin Full(ev)
    BY <1>2, <1>7
  <2>2. /\ queue'[c] = queue[c]
        /\ dropped'[c] = dropped[c] + 0 /\ offered'[c] = offered[c] + 0
    BY <1>1, <1>7, <2>1
  <2>3. dropped'[c] = dropped[c] /\ offered'[c] = offered[c]
    BY <1>4, <2>2
  <2> QED
    BY <1>1, <2>2, <2>3
<1> QED
  BY <1>4, <1>5, <1>6, <1>7

(* A publication keeps the types. *)
LEMMA PublishKeepsTypes ==
  ASSUME FeedInv, ClientsTyped, NEW s \in Streams, Publish(s)
  PROVE  ClientsTyped'
<1> DEFINE ev == held[s][1]
<1>1. ev \in Event
  BY HeldEvent DEF Publish
<1>2. /\ UNCHANGED <<filter, receiving, carried, out, sent, handler, inbox, asked, left>>
      /\ table' \subseteq Clients
  BY DEF Publish, sockets, ClientsTyped
<1>3. /\ queue' = [c \in Clients |-> IF c \in Reached(ev) \ Full(ev)
                                     THEN Append(queue[c], ev) ELSE queue[c]]
      /\ dropped' = [c \in Clients |-> dropped[c] + IF c \in Full(ev) THEN 1 ELSE 0]
      /\ offered' = [c \in Clients |-> offered[c] + IF c \in Reached(ev) THEN 1 ELSE 0]
  BY DEF Publish, Offer
<1> HIDE DEF ev
<1>4. \A c \in Clients : Append(queue[c], ev) \in Seq(Event) /\ queue[c] \in Seq(Event)
  BY <1>1, Adding DEF ClientsTyped
<1>5. queue' \in [Clients -> Seq(Event)]
  BY <1>3, <1>4
<1>6. \A c \in Clients : dropped[c] \in Nat /\ offered[c] \in Nat
  BY DEF ClientsTyped
<1>7. dropped' \in [Clients -> Nat] /\ offered' \in [Clients -> Nat]
  BY <1>3, <1>6
<1>8. ASSUME NEW c \in Clients
      PROVE  Len(queue'[c]) <= QueueMax
  <2>1. \/ queue'[c] = Append(queue[c], ev) /\ Len(queue[c]) < QueueMax
        \/ queue'[c] = queue[c]
    BY <1>1, PublishTo DEF ev
  <2>2. /\ Len(Append(queue[c], ev)) = Len(queue[c]) + 1 /\ Len(queue[c]) \in Nat
        /\ Len(queue[c]) <= QueueMax
    BY <1>1, Adding DEF ClientsTyped
  <2> QED
    BY <2>1, <2>2, Constants
<1> QED
  BY <1>2, <1>5, <1>7, <1>8 DEF ClientsTyped

(* A client sends a message. *)
LEMMA AskKeepsTypes ==
  ASSUME ClientsTyped, NEW c \in Clients, NEW r \in Request, Ask(c, r)
  PROVE  ClientsTyped'
<1>1. /\ inbox[c] \in Seq(Request) /\ asked[c] \in 0..MaxRequests /\ asked[c] < MaxRequests
      /\ asked' = [asked EXCEPT ![c] = asked[c] + 1]
      /\ inbox' = [inbox EXCEPT ![c] = Append(inbox[c], r)]
  BY DEF Ask, ClientsTyped
<1>2. asked[c] + 1 \in 0..MaxRequests
  BY <1>1, Constants
<1>3. Append(inbox[c], r) \in Seq(Request)
  BY <1>1, Adding
<1>4. inbox' \in [Clients -> Seq(Request)] /\ asked' \in [Clients -> 0..MaxRequests]
  BY <1>1, <1>2, <1>3 DEF ClientsTyped
<1> QED
  BY <1>4 DEF Ask, subs, ClientsTyped

(* Every step keeps the types of the clients. *)
LEMMA NextKeepsTypes ==
  ASSUME FeedInv, ClientsTyped, [Next]_vars
  PROVE  ClientsTyped'
<1>1. ASSUME NEW s \in Streams, NEW symbol \in Symbols, Put(s, symbol)
      PROVE  ClientsTyped'
  BY <1>1 DEF Put, subs, sockets, ClientsTyped
<1>2. ASSUME NEW s \in Streams, Receive(s)
      PROVE  ClientsTyped'
  BY <1>2 DEF Receive, subs, sockets, ClientsTyped
<1>3. ASSUME NEW s \in Streams, Publish(s)
      PROVE  ClientsTyped'
  BY <1>3, PublishKeepsTypes
<1>4. ASSUME NEW c \in Clients, Leave(c)
      PROVE  ClientsTyped'
  BY <1>4 DEF Leave, subs, ClientsTyped
<1>5. ASSUME NEW c \in Clients, NEW r \in Request, Ask(c, r)
      PROVE  ClientsTyped'
  BY <1>5, AskKeepsTypes
<1>6. ASSUME NEW c \in Clients, Handler(c)
      PROVE  ClientsTyped'
  <2>1. CASE Subscribe(c)
    BY <2>1, SubscribeKeepsTypes
  <2>2. CASE OuterIgnore(c)
    <3>1. inbox' \in [Clients -> Seq(Request)] /\ UNCHANGED <<asked, left>>
      BY <2>2, ReadsKeepTypes DEF OuterIgnore, Reads
    <3> QED
      BY <2>2, <3>1 DEF OuterIgnore, subs, ClientsTyped
  <2>3. CASE Unsubscribe(c)
    <3>1. inbox' \in [Clients -> Seq(Request)] /\ UNCHANGED <<asked, left>>
      BY <2>3, ReadsKeepTypes DEF Unsubscribe, Reads
    <3>2. /\ Unsubscribed(c)
          /\ handler' \in [Clients -> {"outer", "streaming", "ended"}]
      BY <2>3 DEF Unsubscribe, ClientsTyped
    <3> QED
      BY <3>1, <3>2, UnsubscribedKeepsTypes
  <2>4. CASE StreamingIgnore(c)
    <3>1. inbox' \in [Clients -> Seq(Request)] /\ UNCHANGED <<asked, left>>
      BY <2>4, ReadsKeepTypes DEF StreamingIgnore, Reads
    <3> QED
      BY <2>4, <3>1 DEF StreamingIgnore, subs, ClientsTyped
  <2>5. CASE Take(c) \/ Pass(c) \/ Stop(c)
    BY <2>5, TakeKeepsTypes, PassKeepsTypes, StopKeepsTypes
  <2>6. CASE Send(c)
    BY <2>6, SendKeepsTypes
  <2>7. CASE StreamBreaks(c)
    <3>1. /\ out' = [out EXCEPT ![c] = <<>>]
          /\ handler' \in [Clients -> {"outer", "streaming", "ended"}]
      BY <2>7 DEF StreamBreaks, ClientsTyped
    <3>2. /\ out' \in [Clients -> Seq(Event)]
          /\ \A d \in Clients : out'[d] = <<>> \/ out'[d] = out[d]
      BY <3>1, EmptyIsShort DEF ClientsTyped
    <3>3. \A d \in Clients : Len(out'[d]) <= OutMax
      BY <3>2, EmptyIsShort DEF ClientsTyped
    <3> QED
      BY <2>7, <3>1, <3>2, <3>3 DEF StreamBreaks, ClientsTyped
  <2>8. CASE End(c)
    <3>1. /\ Unsubscribed(c) /\ UNCHANGED <<inbox, asked, left>>
          /\ handler' \in [Clients -> {"outer", "streaming", "ended"}]
          /\ inbox' \in [Clients -> Seq(Request)]
      BY <2>8 DEF End, ClientsTyped
    <3> QED
      BY <3>1, UnsubscribedKeepsTypes
  <2> QED
    BY <1>6, <2>1, <2>2, <2>3, <2>4, <2>5, <2>6, <2>7, <2>8 DEF Handler
<1>7. ASSUME UNCHANGED vars
      PROVE  ClientsTyped'
  BY <1>7 DEF vars, ClientsTyped
<1> QED
  BY <1>1, <1>2, <1>3, <1>4, <1>5, <1>6, <1>7 DEF Next
-----------------------------------------------------------------------------
(* What a step does to the queues of a client. *)

(* A new subscription: everything starts empty. *)
Renewed(d) ==
  /\ sent'[d] = <<>> /\ out'[d] = <<>> /\ carried'[d] = <<>> /\ queue'[d] = <<>>
  /\ dropped'[d] = 0 /\ offered'[d] = 0

Stays(d) == /\ filter'[d] = filter[d] /\ dropped'[d] = dropped[d]
            /\ offered'[d] = offered[d]

(* Nothing moves. *)
Rests(d) ==
  /\ Stays(d) /\ sent'[d] = sent[d] /\ out'[d] = out[d]
  /\ carried'[d] = carried[d] /\ queue'[d] = queue[d]
  /\ handler'[d] = handler[d]

(* What is on its way is thrown away, by a handler that does not stream. *)
CutOff(d) ==
  /\ Stays(d) /\ sent'[d] = sent[d]
  /\ out'[d] = <<>> \/ out'[d] = out[d]
  /\ carried'[d] = <<>> \/ carried'[d] = carried[d]
  /\ queue'[d] = <<>> \/ queue'[d] = queue[d]
  /\ handler'[d] # "streaming"

(* An event moves on. *)
Taken(d) ==
  /\ Stays(d) /\ sent'[d] = sent[d] /\ out'[d] = out[d] /\ handler'[d] = handler[d]
  /\ queue[d] # <<>> /\ queue'[d] = Tail(queue[d])
  /\ carried'[d] = Append(carried[d], Head(queue[d]))

Passed(d) ==
  /\ Stays(d) /\ sent'[d] = sent[d] /\ queue'[d] = queue[d] /\ handler'[d] = handler[d]
  /\ carried[d] # <<>> /\ carried'[d] = Tail(carried[d])
  /\ out'[d] = Append(out[d], Head(carried[d]))

SentOne(d) ==
  /\ Stays(d) /\ queue'[d] = queue[d] /\ carried'[d] = carried[d]
  /\ handler'[d] = handler[d]
  /\ out[d] # <<>> /\ out'[d] = Tail(out[d])
  /\ sent'[d] = Append(sent[d], Head(out[d]))

Moved(d) ==
  Renewed(d) \/ Rests(d) \/ CutOff(d) \/ Taken(d) \/ Passed(d) \/ SentOne(d)

(* A handler and its streaming task make these moves and no others. *)
LEMMA HandlerMoves ==
  ASSUME ClientsTyped, NEW c \in Clients, NEW d \in Clients, Handler(c)
  PROVE  Moved(d)
<1>1. CASE Subscribe(c)
  <2>1. CASE d = c
    BY <1>1, <2>1 DEF Subscribe, ClientsTyped, Moved, Renewed
  <2>2. CASE d # c
    BY <1>1, <2>2 DEF Subscribe, ClientsTyped, Moved, Rests, Stays
  <2> QED
    BY <2>1, <2>2
<1>2. CASE OuterIgnore(c) \/ StreamingIgnore(c)
  BY <1>2 DEF OuterIgnore, StreamingIgnore, subs, Moved, Rests, Stays
<1>3. CASE Unsubscribe(c)
  <2>1. CASE d = c
    BY <1>3, <2>1 DEF Unsubscribe, Unsubscribed, ClientsTyped, Moved, CutOff, Stays
  <2>2. CASE d # c
    BY <1>3, <2>2 DEF Unsubscribe, Unsubscribed, ClientsTyped, Moved, Rests, Stays
  <2> QED
    BY <2>1, <2>2
<1>4. CASE Take(c)
  <2>1. CASE d = c
    <3>1. carried'[d] = <<Head(queue[d])>> /\ carried[d] = <<>>
      BY <1>4, <2>1 DEF Take, ClientsTyped
    <3>2. carried'[d] = Append(carried[d], Head(queue[d]))
      <4>1. \A e : Append(<<>>, e) = <<e>>
        OBVIOUS
      <4> QED
        BY <3>1, <4>1
    <3> QED
      BY <1>4, <2>1, <3>2 DEF Take, sockets, ClientsTyped, Moved, Taken, Stays
  <2>2. CASE d # c
    BY <1>4, <2>2 DEF Take, sockets, ClientsTyped, Moved, Rests, Stays
  <2> QED
    BY <2>1, <2>2
<1>5. CASE Pass(c)
  <2>1. CASE d = c
    <3>1. carried'[d] = <<>> /\ carried[d] # <<>>
      BY <1>5, <2>1 DEF Pass, ClientsTyped
    <3>2. carried'[d] = Tail(carried[d])
      BY <3>1, CarriedEvent
    <3> QED
      BY <1>5, <2>1, <3>1, <3>2 DEF Pass, sockets, ClientsTyped, Moved, Passed, Stays
  <2>2. CASE d # c
    BY <1>5, <2>2 DEF Pass, sockets, ClientsTyped, Moved, Rests, Stays
  <2> QED
    BY <2>1, <2>2
<1>6. CASE Stop(c)
  <2>1. CASE d = c
    BY <1>6, <2>1 DEF Stop, sockets, ClientsTyped, Moved, CutOff, Stays
  <2>2. CASE d # c
    BY <1>6, <2>2 DEF Stop, sockets, ClientsTyped, Moved, Rests, Stays
  <2> QED
    BY <2>1, <2>2
<1>7. CASE Send(c)
  <2>1. CASE d = c
    BY <1>7, <2>1 DEF Send, sockets, ClientsTyped, Moved, SentOne, Stays
  <2>2. CASE d # c
    BY <1>7, <2>2 DEF Send, sockets, ClientsTyped, Moved, Rests, Stays
  <2> QED
    BY <2>1, <2>2
<1>8. CASE StreamBreaks(c)
  <2>1. CASE d = c
    BY <1>8, <2>1 DEF StreamBreaks, ClientsTyped, Moved, CutOff, Stays
  <2>2. CASE d # c
    BY <1>8, <2>2 DEF StreamBreaks, ClientsTyped, Moved, Rests, Stays
  <2> QED
    BY <2>1, <2>2
<1>9. CASE End(c)
  <2>1. CASE d = c
    BY <1>9, <2>1 DEF End, Unsubscribed, ClientsTyped, Moved, CutOff, Stays
  <2>2. CASE d # c
    BY <1>9, <2>2 DEF End, Unsubscribed, ClientsTyped, Moved, Rests, Stays
  <2> QED
    BY <2>1, <2>2
<1> QED
  BY <1>1, <1>2, <1>3, <1>4, <1>5, <1>6, <1>7, <1>8, <1>9 DEF Handler

(* So do the clients and the feed, except that a publication adds events. *)
LEMMA OtherMoves ==
  ASSUME NEW d \in Clients,
         \/ \E s \in Streams, symbol \in Symbols : Put(s, symbol)
         \/ \E s \in Streams : Receive(s)
         \/ \E c \in Clients : Leave(c) \/ \E r \in Request : Ask(c, r)
         \/ UNCHANGED vars
  PROVE  Rests(d)
BY DEF Put, Receive, Leave, Ask, subs, sockets, vars, Rests, Stays

-----------------------------------------------------------------------------
(* The count of a streaming client. *)

Offered(c) == offered[c]
Written(c) == Len(sent[c])
Outgoing(c) == Len(out[c])
Carried(c) == Len(carried[c])
Queued(c) == Len(queue[c])
Dropped(c) == dropped[c]

ClientCounted(c) ==
  handler[c] = "streaming" =>
    Offered(c) = Written(c) + Outgoing(c) + Carried(c) + Queued(c) + Dropped(c)

ClientsCounted == \A c \in Clients : ClientCounted(c)

(* The moves keep the count. *)
LEMMA MovedCounts ==
  ASSUME ClientsTyped, ClientsCounted, NEW d \in Clients, Moved(d)
  PROVE  ClientCounted(d)'
<1>1. /\ Offered(d) \in Nat /\ Written(d) \in Nat /\ Outgoing(d) \in Nat
      /\ Carried(d) \in Nat /\ Queued(d) \in Nat /\ Dropped(d) \in Nat
  BY DEF ClientsTyped, Offered, Written, Outgoing, Carried, Queued, Dropped
<1>2. ClientCounted(d)
  BY DEF ClientsCounted
<1>3. CASE Renewed(d)
  <2>1. /\ Offered(d)' = 0 /\ Written(d)' = 0 /\ Outgoing(d)' = 0
        /\ Carried(d)' = 0 /\ Queued(d)' = 0 /\ Dropped(d)' = 0
    BY <1>3 DEF Renewed, Offered, Written, Outgoing, Carried, Queued, Dropped
  <2> QED
    BY <2>1 DEF ClientCounted
<1>4. CASE Rests(d)
  BY <1>2, <1>4 DEF Rests, Stays, ClientCounted, Offered, Written, Outgoing, Carried, Queued, Dropped
<1>5. CASE CutOff(d)
  BY <1>5 DEF CutOff, ClientCounted
<1>6. CASE Taken(d)
  <2>1. /\ Len(queue'[d]) = Len(queue[d]) - 1 /\ Len(carried'[d]) = Len(carried[d]) + 1
        /\ Len(sent'[d]) = Len(sent[d]) /\ Len(out'[d]) = Len(out[d])
    <3>1. queue[d] \in Seq(Event) /\ carried[d] \in Seq(Event) /\ queue[d] # <<>>
      BY <1>6 DEF Taken, ClientsTyped
    <3>2. Head(queue[d]) \in Event /\ Len(Tail(queue[d])) = Len(queue[d]) - 1
      BY <3>1, Taking
    <3>3. Len(Append(carried[d], Head(queue[d]))) = Len(carried[d]) + 1
      BY <3>1, <3>2, Adding
    <3> QED
      BY <1>6, <3>2, <3>3 DEF Taken
  <2>2. /\ Queued(d)' = Queued(d) - 1 /\ Carried(d)' = Carried(d) + 1
        /\ Written(d)' = Written(d) /\ Outgoing(d)' = Outgoing(d)
    BY <2>1 DEF Queued, Carried, Written, Outgoing
  <2>3. /\ Offered(d)' = Offered(d) /\ Dropped(d)' = Dropped(d)
        /\ handler'[d] = handler[d]
    BY <1>6 DEF Taken, Stays, Offered, Dropped
  <2> QED
    BY <1>1, <1>2, <2>2, <2>3 DEF ClientCounted
<1>7. CASE Passed(d)
  <2>1. /\ Len(carried'[d]) = Len(carried[d]) - 1 /\ Len(out'[d]) = Len(out[d]) + 1
        /\ Len(sent'[d]) = Len(sent[d]) /\ Len(queue'[d]) = Len(queue[d])
    <3>1. carried[d] \in Seq(Event) /\ out[d] \in Seq(Event) /\ carried[d] # <<>>
      BY <1>7 DEF Passed, ClientsTyped
    <3>2. Head(carried[d]) \in Event /\ Len(Tail(carried[d])) = Len(carried[d]) - 1
      BY <3>1, Taking
    <3>3. Len(Append(out[d], Head(carried[d]))) = Len(out[d]) + 1
      BY <3>1, <3>2, Adding
    <3> QED
      BY <1>7, <3>2, <3>3 DEF Passed
  <2>2. /\ Carried(d)' = Carried(d) - 1 /\ Outgoing(d)' = Outgoing(d) + 1
        /\ Written(d)' = Written(d) /\ Queued(d)' = Queued(d)
    BY <2>1 DEF Carried, Outgoing, Written, Queued
  <2>3. /\ Offered(d)' = Offered(d) /\ Dropped(d)' = Dropped(d)
        /\ handler'[d] = handler[d]
    BY <1>7 DEF Passed, Stays, Offered, Dropped
  <2> QED
    BY <1>1, <1>2, <2>2, <2>3 DEF ClientCounted
<1>8. CASE SentOne(d)
  <2>1. /\ Len(out'[d]) = Len(out[d]) - 1 /\ Len(sent'[d]) = Len(sent[d]) + 1
        /\ Len(carried'[d]) = Len(carried[d]) /\ Len(queue'[d]) = Len(queue[d])
    <3>1. out[d] \in Seq(Event) /\ sent[d] \in Seq(Event) /\ out[d] # <<>>
      BY <1>8 DEF SentOne, ClientsTyped
    <3>2. Head(out[d]) \in Event /\ Len(Tail(out[d])) = Len(out[d]) - 1
      BY <3>1, Taking
    <3>3. Len(Append(sent[d], Head(out[d]))) = Len(sent[d]) + 1
      BY <3>1, <3>2, Adding
    <3> QED
      BY <1>8, <3>2, <3>3 DEF SentOne
  <2>2. /\ Outgoing(d)' = Outgoing(d) - 1 /\ Written(d)' = Written(d) + 1
        /\ Carried(d)' = Carried(d) /\ Queued(d)' = Queued(d)
    BY <2>1 DEF Outgoing, Written, Carried, Queued
  <2>3. /\ Offered(d)' = Offered(d) /\ Dropped(d)' = Dropped(d)
        /\ handler'[d] = handler[d]
    BY <1>8 DEF SentOne, Stays, Offered, Dropped
  <2> QED
    BY <1>1, <1>2, <2>2, <2>3 DEF ClientCounted
<1> QED
  BY <1>3, <1>4, <1>5, <1>6, <1>7, <1>8 DEF Moved

(* So does a publication. *)
LEMMA PublishCounts ==
  ASSUME FeedInv, ClientsTyped, ClientsCounted, NEW s \in Streams, Publish(s),
         NEW c \in Clients
  PROVE  ClientCounted(c)'
<1>1. /\ Offered(c) \in Nat /\ Written(c) \in Nat /\ Outgoing(c) \in Nat
      /\ Carried(c) \in Nat /\ Queued(c) \in Nat /\ Dropped(c) \in Nat
  BY DEF ClientsTyped, Offered, Written, Outgoing, Carried, Queued, Dropped
<1>2. ClientCounted(c)
  BY DEF ClientsCounted
<1>3. PICK ev \in Event : ev = held[s][1]
  BY HeldEvent DEF Publish
<1>4. Len(Append(queue[c], ev)) = Len(queue[c]) + 1
  BY Adding DEF ClientsTyped
<1>5. /\ sent'[c] = sent[c] /\ out'[c] = out[c] /\ carried'[c] = carried[c]
      /\ \/ /\ queue'[c] = Append(queue[c], ev)
            /\ dropped'[c] = dropped[c] /\ offered'[c] = offered[c] + 1
         \/ /\ queue'[c] = queue[c]
            /\ dropped'[c] = dropped[c] + 1 /\ offered'[c] = offered[c] + 1
         \/ /\ queue'[c] = queue[c]
            /\ dropped'[c] = dropped[c] /\ offered'[c] = offered[c]
  BY <1>3, PublishTo
<1>6. /\ Written(c)' = Written(c) /\ Outgoing(c)' = Outgoing(c) /\ Carried(c)' = Carried(c)
      /\ \/ /\ Queued(c)' = Queued(c) + 1
            /\ Dropped(c)' = Dropped(c) /\ Offered(c)' = Offered(c) + 1
         \/ /\ Queued(c)' = Queued(c)
            /\ Dropped(c)' = Dropped(c) + 1 /\ Offered(c)' = Offered(c) + 1
         \/ /\ Queued(c)' = Queued(c)
            /\ Dropped(c)' = Dropped(c) /\ Offered(c)' = Offered(c)
  BY <1>4, <1>5 DEF Offered, Written, Outgoing, Carried, Queued, Dropped
<1>7. handler' = handler
  BY DEF Publish, sockets
<1> QED
  BY <1>1, <1>2, <1>6, <1>7 DEF ClientCounted
-----------------------------------------------------------------------------
(* The types and the counts, inductively. *)

Counted == FeedInv /\ ClientsTyped /\ ClientsCounted

(* They hold at the start. *)
LEMMA InitCounted ==
  ASSUME Init
  PROVE  Counted
<1>1. <<>> \in Seq(Event) /\ <<>> \in Seq(Request) /\ NoFilter \in Filter /\ Len(<<>>) = 0
  BY DEF NoFilter, Filter
<1>2. FeedTyped
  BY <1>1, Constants DEF Init, FeedTyped
<1>3. OwnStream
  BY DEF Init, OwnStream
<1>4. FeedCounted
  <2>1. ASSUME NEW s \in Streams
        PROVE  /\ Made(s) = 0 /\ Done(s) = 0 /\ InHand(s) = 0
               /\ Waiting(s) = 0 /\ Lost(s) = 0
    BY DEF Init, Made, Done, InHand, Waiting, Lost
  <2> QED
    BY <2>1 DEF FeedCounted, StreamCounted
<1>5. ClientsTyped
  <2>1. /\ table \subseteq Clients /\ receiving \subseteq Clients /\ left \subseteq Clients
        /\ filter \in [Clients -> Filter]
        /\ handler \in [Clients -> {"outer", "streaming", "ended"}]
    BY <1>1 DEF Init
  <2>2. /\ queue \in [Clients -> Seq(Event)] /\ out \in [Clients -> Seq(Event)]
        /\ carried \in [Clients -> Seq(Event)] /\ sent \in [Clients -> Seq(Event)]
        /\ inbox \in [Clients -> Seq(Request)]
    BY <1>1 DEF Init
  <2>3. /\ asked \in [Clients -> 0..MaxRequests]
        /\ dropped \in [Clients -> Nat] /\ offered \in [Clients -> Nat]
    BY Constants DEF Init
  <2>4. \A c \in Clients :
          Len(queue[c]) <= QueueMax /\ Len(carried[c]) <= 1 /\ Len(out[c]) <= OutMax
    BY EmptyIsShort DEF Init
  <2> QED
    BY <2>1, <2>2, <2>3, <2>4 DEF ClientsTyped
<1>6. ClientsCounted
  BY DEF Init, ClientsCounted, ClientCounted
<1> QED
  BY <1>2, <1>3, <1>4, <1>5, <1>6 DEF Counted, FeedInv

(* The clients leave the feed alone. *)
LEMMA ClientsKeepFeed ==
  ASSUME FeedInv,
         \/ \E c \in Clients : Leave(c) \/ Handler(c) \/ \E r \in Request : Ask(c, r)
         \/ UNCHANGED vars
  PROVE  UNCHANGED <<produced, passed, shed, channel, held>> /\ FeedInv'
<1>1. UNCHANGED <<produced, passed, shed, channel, held>>
  BY DEF Leave, Ask, Handler, Subscribe, OuterIgnore, Unsubscribe, StreamingIgnore, Reads,
         Take, Pass, Stop, Send, StreamBreaks, End, feed, vars
<1>2. FeedTyped'
  BY <1>1 DEF FeedInv, FeedTyped
<1>3. OwnStream'
  BY <1>1 DEF FeedInv, OwnStream
<1>4. FeedCounted'
  BY <1>1 DEF FeedInv, FeedCounted, StreamCounted, Made, Done, InHand, Waiting, Lost
<1> QED
  BY <1>1, <1>2, <1>3, <1>4 DEF FeedInv

(* Every step keeps them. *)
LEMMA NextCounted ==
  ASSUME Counted, [Next]_vars
  PROVE  Counted'
<1>1. FeedInv /\ ClientsTyped /\ ClientsCounted
  BY DEF Counted
<1>2. ClientsTyped'
  BY <1>1, NextKeepsTypes
<1>3. ASSUME NEW s \in Streams, NEW symbol \in Symbols, Put(s, symbol)
      PROVE  FeedInv' /\ ClientsCounted'
  BY <1>1, <1>3, PutKeepsFeed, OtherMoves, MovedCounts DEF Moved, ClientsCounted
<1>4. ASSUME NEW s \in Streams, Receive(s)
      PROVE  FeedInv' /\ ClientsCounted'
  BY <1>1, <1>4, ReceiveKeepsFeed, OtherMoves, MovedCounts DEF Moved, ClientsCounted
<1>5. ASSUME NEW s \in Streams, Publish(s)
      PROVE  FeedInv' /\ ClientsCounted'
  BY <1>1, <1>5, PublishKeepsFeed, PublishCounts DEF ClientsCounted
<1>6. ASSUME NEW c \in Clients, Handler(c)
      PROVE  FeedInv' /\ ClientsCounted'
  BY <1>1, <1>6, ClientsKeepFeed, HandlerMoves, MovedCounts DEF ClientsCounted
<1>7. CASE \/ \E c \in Clients : Leave(c) \/ \E r \in Request : Ask(c, r)
           \/ UNCHANGED vars
  <2>1. FeedInv'
    BY <1>1, <1>7, ClientsKeepFeed
  <2>2. \A d \in Clients : Moved(d)
    BY <1>7, OtherMoves DEF Moved
  <2>3. ClientsCounted'
    BY <1>1, <2>2, MovedCounts DEF ClientsCounted
  <2> QED
    BY <1>2, <2>1, <2>3 DEF Counted
<1> QED
  BY <1>2, <1>3, <1>4, <1>5, <1>6, <1>7 DEF Counted, Next

(* Every reachable state has them. *)
LEMMA CountedAlways == Spec => []Counted
<1>1. Init => Counted
  BY InitCounted
<1>2. Counted /\ [Next]_vars => Counted'
  BY NextCounted
<1> QED
  BY <1>1, <1>2, PTL DEF Spec

(* Every variable keeps its type, and every queue its bound: ChannelMax,   *)
(* QueueMax and OutMax (publisher.rs, feed_handler.rs put).                *)
THEOREM TypeCorrect == Spec => []TypeOK
<1>1. Counted => TypeOK
  BY TypeOKInTwo DEF Counted, FeedInv
<1> QED
  BY <1>1, CountedAlways, PTL

(* Every drop is counted: what the shards hand over is published, on its   *)
(* way or in the drop counter of its stream, and what is offered to a      *)
(* streaming client is on its socket, on its way or in the client's.       *)
THEOREM DropsCounted == Spec => []EveryDropCounted
<1>1. Counted => EveryDropCounted
  <2> SUFFICES ASSUME Counted
               PROVE  EveryDropCounted
    OBVIOUS
  <2>1. FeedCounted /\ ClientsCounted
    BY DEF Counted, FeedInv
  <2>2. \A s \in Streams :
          produced[s] = passed[s] + Len(held[s]) + Len(channel[s]) + shed[s]
    BY <2>1 DEF FeedCounted, StreamCounted, Made, Done, InHand, Waiting, Lost
  <2>3. \A c \in Clients : handler[c] = "streaming" =>
          offered[c] = Len(sent[c]) + Len(out[c]) + Len(carried[c]) + Len(queue[c])
                         + dropped[c]
    BY <2>1 DEF ClientsCounted, ClientCounted, Offered, Written, Outgoing, Carried, Queued, Dropped
  <2> QED
    BY <2>2, <2>3 DEF EveryDropCounted
<1> QED
  BY <1>1, CountedAlways, PTL

-----------------------------------------------------------------------------
(* The table of subscribers. *)

(* Every step keeps the table. *)
LEMMA NextKeepsTable ==
  ASSUME ClientsTyped, TableMatchesHandlers, [Next]_vars
  PROVE  TableMatchesHandlers'
<1>1. ASSUME NEW s \in Streams, Publish(s)
      PROVE  TableMatchesHandlers'
  BY <1>1 DEF Publish, sockets, TableMatchesHandlers
<1>2. ASSUME NEW c \in Clients, Handler(c)
      PROVE  TableMatchesHandlers'
  <2>1. CASE Subscribe(c)
    BY <2>1 DEF Subscribe, ClientsTyped, TableMatchesHandlers
  <2>2. CASE OuterIgnore(c) \/ StreamingIgnore(c)
    BY <2>2 DEF OuterIgnore, StreamingIgnore, subs, TableMatchesHandlers
  <2>3. CASE Unsubscribe(c)
    BY <2>3 DEF Unsubscribe, Unsubscribed, ClientsTyped, TableMatchesHandlers
  <2>4. CASE Take(c) \/ Pass(c) \/ Stop(c)
    BY <2>4 DEF Take, Pass, Stop, sockets, ClientsTyped, TableMatchesHandlers
  <2>5. CASE Send(c)
    BY <2>5 DEF Send, sockets, TableMatchesHandlers
  <2>6. CASE StreamBreaks(c)
    BY <2>6 DEF StreamBreaks, ClientsTyped, TableMatchesHandlers
  <2>7. CASE End(c)
    BY <2>7 DEF End, Unsubscribed, ClientsTyped, TableMatchesHandlers
  <2> QED
    BY <1>2, <2>1, <2>2, <2>3, <2>4, <2>5, <2>6, <2>7 DEF Handler
<1>3. CASE \/ \E s \in Streams, symbol \in Symbols : Put(s, symbol)
           \/ \E s \in Streams : Receive(s)
           \/ \E c \in Clients : Leave(c) \/ \E r \in Request : Ask(c, r)
           \/ UNCHANGED vars
  <2>1. UNCHANGED <<table, receiving, handler>>
    BY <1>3 DEF Put, Receive, Leave, Ask, subs, sockets, vars
  <2> QED
    BY <2>1 DEF TableMatchesHandlers
<1> QED
  BY <1>1, <1>2, <1>3 DEF Next

(* A streaming client is in the table with a live receiver, and a client   *)
(* that ended has left no entry behind (handle_ws_client, publish).        *)
THEOREM NoEntryLeaks == Spec => []TableMatchesHandlers
<1>1. Init => TableMatchesHandlers
  BY DEF Init, TableMatchesHandlers
<1>2. ClientsTyped /\ TableMatchesHandlers /\ [Next]_vars => TableMatchesHandlers'
  BY NextKeepsTable
<1>3. Counted => ClientsTyped
  BY DEF Counted
<1> QED
  BY <1>1, <1>2, <1>3, CountedAlways, PTL DEF Spec
-----------------------------------------------------------------------------
(* The order of a stream. *)

Rising(s, q) ==
  \A i, j \in 1..Len(q) :
    i < j /\ q[i].stream = s /\ q[j].stream = s => q[i].n < q[j].n

Precedes(s, p, q) ==
  \A i \in 1..Len(p), j \in 1..Len(q) :
    p[i].stream = s /\ q[j].stream = s => p[i].n < q[j].n

Below(s, top, q) == \A i \in 1..Len(q) : q[i].stream = s => q[i].n <= top

(* Nothing is out of order in an empty queue. *)
LEMMA EmptyInOrder ==
  ASSUME NEW s
  PROVE  /\ Rising(s, <<>>) /\ \A top : Below(s, top, <<>>)
         /\ \A r : Precedes(s, <<>>, r) /\ Precedes(s, r, <<>>)
BY DEF Rising, Precedes, Below

(* Nor in what is left of a queue. *)
LEMMA TailInOrder ==
  ASSUME NEW s, NEW q \in Seq(Event), q # <<>>
  PROVE  /\ Rising(s, q) => Rising(s, Tail(q))
         /\ \A top : Below(s, top, q) => Below(s, top, Tail(q))
         /\ \A r \in Seq(Event) : /\ Precedes(s, q, r) => Precedes(s, Tail(q), r)
                                  /\ Precedes(s, r, q) => Precedes(s, r, Tail(q))
<1>1. /\ Len(q) \in Nat \ {0} /\ Len(Tail(q)) = Len(q) - 1
      /\ \A i \in 1..Len(Tail(q)) : i \in 1..Len(q) /\ i + 1 \in 1..Len(q)
                                  /\ Tail(q)[i] = q[i + 1]
  BY Taking
<1> DEFINE t == Tail(q)
           l == Len(t)
<1>2. /\ l \in Nat
      /\ \A i \in 1..l : i + 1 \in 1..Len(q) /\ t[i] = q[i + 1]
  BY <1>1
<1> HIDE DEF t
<1>3. Rising(s, q) => Rising(s, t)
  BY SMTT(30), <1>2 DEF Rising
<1>4. \A top : Below(s, top, q) => Below(s, top, t)
  BY <1>2 DEF Below
<1>5. \A r \in Seq(Event) : /\ Precedes(s, q, r) => Precedes(s, t, r)
                            /\ Precedes(s, r, q) => Precedes(s, r, t)
  BY <1>2 DEF Precedes
<1> QED
  BY <1>3, <1>4, <1>5 DEF t

(* Nor when the first of a queue moves to the end of the one before it. *)
LEMMA MovingInOrder ==
  ASSUME NEW s, NEW p \in Seq(Event), NEW q \in Seq(Event), q # <<>>
  PROVE  /\ Rising(s, p) /\ Precedes(s, p, q) => Rising(s, Append(p, Head(q)))
         /\ Rising(s, q) /\ Precedes(s, p, q) => Precedes(s, Append(p, Head(q)), Tail(q))
         /\ \A top : Below(s, top, p) /\ Below(s, top, q) => Below(s, top, Append(p, Head(q)))
         /\ \A r \in Seq(Event) :
              /\ Precedes(s, p, r) /\ Precedes(s, q, r) => Precedes(s, Append(p, Head(q)), r)
              /\ Precedes(s, r, p) /\ Precedes(s, r, q) => Precedes(s, r, Append(p, Head(q)))
<1> DEFINE t == Tail(q)
           a == Append(p, Head(q))
<1>1. /\ Len(q) \in Nat \ {0} /\ Len(t) = Len(q) - 1 /\ Head(q) \in Event /\ Head(q) = q[1]
      /\ \A i \in 1..Len(t) : t[i] = q[i + 1]
  BY Taking
<1>2. /\ Len(a) = Len(p) + 1 /\ Len(p) \in Nat
      /\ \A i \in 1..Len(p) : a[i] = p[i]
      /\ a[Len(p) + 1] = q[1]
      /\ \A i \in 1..Len(a) : \/ i \in 1..Len(p) /\ a[i] = p[i]
                              \/ i = Len(p) + 1 /\ a[i] = q[1]
  BY <1>1, Adding
<1> HIDE DEF t, a
<1>3. \A i \in 1..Len(t) : i + 1 \in 1..Len(q) /\ 1 < i + 1 /\ t[i] = q[i + 1]
  BY <1>1
<1>4. 1 \in 1..Len(q)
  BY <1>1
<1>5. Rising(s, p) /\ Precedes(s, p, q) => Rising(s, a)
  <2> SUFFICES ASSUME Rising(s, p), Precedes(s, p, q),
                      NEW i \in 1..Len(a), NEW j \in 1..Len(a), i < j,
                      a[i].stream = s, a[j].stream = s
               PROVE  a[i].n < a[j].n
    BY DEF Rising
  <2>1. i \in 1..Len(p) /\ a[i] = p[i]
    BY <1>2
  <2>2. CASE j \in 1..Len(p) /\ a[j] = p[j]
    BY <2>1, <2>2 DEF Rising
  <2>3. CASE a[j] = q[1]
    BY <1>4, <2>1, <2>3 DEF Precedes
  <2> QED
    BY <1>2, <2>2, <2>3
<1>6. Rising(s, q) /\ Precedes(s, p, q) => Precedes(s, a, t)
  <2> SUFFICES ASSUME Rising(s, q), Precedes(s, p, q),
                      NEW i \in 1..Len(a), NEW j \in 1..Len(t),
                      a[i].stream = s, t[j].stream = s
               PROVE  a[i].n < t[j].n
    BY DEF Precedes
  <2>1. j + 1 \in 1..Len(q) /\ 1 < j + 1 /\ t[j] = q[j + 1]
    BY <1>3
  <2>2. CASE i \in 1..Len(p) /\ a[i] = p[i]
    BY <2>1, <2>2 DEF Precedes
  <2>3. CASE a[i] = q[1]
    BY <1>4, <2>1, <2>3 DEF Rising
  <2> QED
    BY <1>2, <2>2, <2>3
<1>7. \A top : Below(s, top, p) /\ Below(s, top, q) => Below(s, top, a)
  BY <1>4, <1>2 DEF Below
<1>8. \A r \in Seq(Event) : /\ Precedes(s, p, r) /\ Precedes(s, q, r) => Precedes(s, a, r)
                            /\ Precedes(s, r, p) /\ Precedes(s, r, q) => Precedes(s, r, a)
  BY ZenonT(30), <1>4, <1>2 DEF Precedes
<1> QED
  BY <1>5, <1>6, <1>7, <1>8 DEF t, a

(* Nor when an event is added that is of another stream, or the latest. *)
LEMMA AddingInOrder ==
  ASSUME NEW s, NEW p \in Seq(Event), NEW e \in Event,
         e.stream = s => \A i \in 1..Len(p) : p[i].stream = s => p[i].n < e.n
  PROVE  /\ Rising(s, p) => Rising(s, Append(p, e))
         /\ \A top : Below(s, top, p) /\ (e.stream = s => e.n <= top)
                     => Below(s, top, Append(p, e))
         /\ \A r \in Seq(Event) :
              /\ Precedes(s, p, r) /\ e.stream # s => Precedes(s, Append(p, e), r)
              /\ Precedes(s, r, p) /\ (e.stream = s => \A i \in 1..Len(r) :
                                           r[i].stream = s => r[i].n < e.n)
                   => Precedes(s, r, Append(p, e))
<1> DEFINE a == Append(p, e)
<1>1. /\ Len(a) = Len(p) + 1 /\ Len(p) \in Nat
      /\ \A i \in 1..Len(p) : a[i] = p[i]
      /\ a[Len(p) + 1] = e
      /\ \A i \in 1..Len(a) : \/ i \in 1..Len(p) /\ a[i] = p[i]
                              \/ i = Len(p) + 1 /\ a[i] = e
  BY Adding
<1> HIDE DEF a
<1>2. Rising(s, p) => Rising(s, a)
  <2> SUFFICES ASSUME Rising(s, p),
                      NEW i \in 1..Len(a), NEW j \in 1..Len(a), i < j,
                      a[i].stream = s, a[j].stream = s
               PROVE  a[i].n < a[j].n
    BY DEF Rising
  <2>1. i \in 1..Len(p) /\ a[i] = p[i]
    BY <1>1
  <2>2. CASE j \in 1..Len(p) /\ a[j] = p[j]
    BY <2>1, <2>2 DEF Rising
  <2>3. CASE a[j] = e
    BY <2>1, <2>3
  <2> QED
    BY <1>1, <2>2, <2>3
<1>3. \A top : Below(s, top, p) /\ (e.stream = s => e.n <= top) => Below(s, top, a)
  BY <1>1 DEF Below
<1>4. \A r \in Seq(Event) :
        /\ Precedes(s, p, r) /\ e.stream # s => Precedes(s, a, r)
        /\ Precedes(s, r, p) /\ (e.stream = s => \A i \in 1..Len(r) :
                                     r[i].stream = s => r[i].n < e.n)
             => Precedes(s, r, a)
  BY <1>1 DEF Precedes
<1> QED
  BY <1>2, <1>3, <1>4 DEF a
-----------------------------------------------------------------------------
(* The way of a stream to a client, the latest events last. *)

Stage(c, s, b) == CASE b = 1 -> sent[c]
                    [] b = 2 -> out[c]
                    [] b = 3 -> carried[c]
                    [] b = 4 -> queue[c]
                    [] b = 5 -> held[s]
                    [] b = 6 -> channel[s]

Stages == 1..6

InOrder(c, s) ==
  \A a \in Stages :
    /\ Rising(s, Stage(c, s, a)) /\ Below(s, Made(s), Stage(c, s, a))
    /\ \A b \in Stages : a < b => Precedes(s, Stage(c, s, a), Stage(c, s, b))

(* Every stage holds events. *)
LEMMA StageTypes ==
  ASSUME FeedTyped, ClientsTyped, NEW c \in Clients, NEW s \in Streams
  PROVE  \A b \in Stages : Stage(c, s, b) \in Seq(Event)
BY DEF FeedTyped, ClientsTyped, Stage, Stages

(* Which stage is which. *)
LEMMA StageNames ==
  ASSUME NEW c, NEW s
  PROVE  /\ Stage(c, s, 1) = sent[c] /\ Stage(c, s, 2) = out[c]
         /\ Stage(c, s, 3) = carried[c] /\ Stage(c, s, 4) = queue[c]
         /\ Stage(c, s, 5) = held[s] /\ Stage(c, s, 6) = channel[s]
         /\ Stage(c, s, 1)' = sent'[c] /\ Stage(c, s, 2)' = out'[c]
         /\ Stage(c, s, 3)' = carried'[c] /\ Stage(c, s, 4)' = queue'[c]
         /\ Stage(c, s, 5)' = held'[s] /\ Stage(c, s, 6)' = channel'[s]
BY DEF Stage

(* Stages that stand, are emptied or lose their first keep the order. *)
LEMMA ShortenedInOrder ==
  ASSUME NEW c, NEW s, InOrder(c, s), Made(s)' = Made(s),
         \A a \in Stages : Stage(c, s, a) \in Seq(Event),
         \A a \in Stages :
           \/ Stage(c, s, a)' = Stage(c, s, a)
           \/ Stage(c, s, a)' = <<>>
           \/ Stage(c, s, a) # <<>> /\ Stage(c, s, a)' = Tail(Stage(c, s, a))
  PROVE  InOrder(c, s)'
<1>1. ASSUME NEW a \in Stages
      PROVE  /\ Rising(s, Stage(c, s, a)')
             /\ Below(s, Made(s), Stage(c, s, a)')
             /\ \A r \in Seq(Event) :
                  /\ Precedes(s, Stage(c, s, a), r) => Precedes(s, Stage(c, s, a)', r)
                  /\ Precedes(s, r, Stage(c, s, a)) => Precedes(s, r, Stage(c, s, a)')
             /\ Stage(c, s, a)' \in Seq(Event)
  <2>1. Rising(s, Stage(c, s, a)) /\ Below(s, Made(s), Stage(c, s, a))
    BY DEF InOrder
  <2>2. CASE Stage(c, s, a)' = Stage(c, s, a)
    BY <2>1, <2>2
  <2>3. CASE Stage(c, s, a)' = <<>>
    <3>1. <<>> \in Seq(Event)
      BY EmptyIsShort
    <3> QED
      BY <2>3, <3>1, EmptyInOrder
  <2>4. CASE Stage(c, s, a) # <<>> /\ Stage(c, s, a)' = Tail(Stage(c, s, a))
    <3>1. Tail(Stage(c, s, a)) \in Seq(Event)
      BY <2>4, Taking
    <3> QED
      BY <2>1, <2>4, <3>1, TailInOrder
  <2> QED
    BY <2>2, <2>3, <2>4
<1>2. ASSUME NEW a \in Stages, NEW b \in Stages, a < b
      PROVE  Precedes(s, Stage(c, s, a)', Stage(c, s, b)')
  <2>1. Precedes(s, Stage(c, s, a), Stage(c, s, b))
    BY <1>2 DEF InOrder
  <2>2. Precedes(s, Stage(c, s, a)', Stage(c, s, b))
    BY <1>1, <2>1
  <2> QED
    BY <1>1, <2>2
<1> QED
  BY <1>1, <1>2 DEF InOrder, Rising, Below, Precedes

(* So does an event that moves to the stage before. *)
LEMMA ForwardInOrder ==
  ASSUME NEW c, NEW s, InOrder(c, s), Made(s)' = Made(s),
         \A a \in Stages : Stage(c, s, a) \in Seq(Event),
         NEW x \in Stages, NEW y \in Stages, y = x + 1, Stage(c, s, y) # <<>>,
         Stage(c, s, x)' = Append(Stage(c, s, x), Head(Stage(c, s, y))),
         Stage(c, s, y)' = Tail(Stage(c, s, y)),
         \A a \in Stages \ {x, y} : Stage(c, s, a)' = Stage(c, s, a)
  PROVE  InOrder(c, s)'
<1> DEFINE p == Stage(c, s, x)
           q == Stage(c, s, y)
<1>1. /\ p \in Seq(Event) /\ q \in Seq(Event) /\ q # <<>>
      /\ Rising(s, p) /\ Rising(s, q)
      /\ Below(s, Made(s), p) /\ Below(s, Made(s), q)
      /\ Precedes(s, p, q)
      /\ \A a \in Stages \ {x, y} :
           /\ a < x => /\ Precedes(s, Stage(c, s, a), p) /\ Precedes(s, Stage(c, s, a), q)
           /\ x < a => /\ Precedes(s, p, Stage(c, s, a)) /\ Precedes(s, q, Stage(c, s, a))
  BY SMTT(30) DEF InOrder, Stages
<1>2. /\ Stage(c, s, x)' = Append(p, Head(q)) /\ Stage(c, s, y)' = Tail(q)
  OBVIOUS
<1> HIDE DEF p, q
<1>3. /\ Rising(s, Append(p, Head(q))) /\ Below(s, Made(s), Append(p, Head(q)))
      /\ Rising(s, Tail(q)) /\ Below(s, Made(s), Tail(q))
      /\ Precedes(s, Append(p, Head(q)), Tail(q))
      /\ \A r \in Seq(Event) :
           /\ Precedes(s, r, p) /\ Precedes(s, r, q)
                => Precedes(s, r, Append(p, Head(q))) /\ Precedes(s, r, Tail(q))
           /\ Precedes(s, p, r) /\ Precedes(s, q, r)
                => Precedes(s, Append(p, Head(q)), r) /\ Precedes(s, Tail(q), r)
  BY <1>1, TailInOrder, MovingInOrder
<1>4. ASSUME NEW a \in Stages
      PROVE  Rising(s, Stage(c, s, a)') /\ Below(s, Made(s), Stage(c, s, a)')
  <2>1. CASE a \in {x, y}
    BY <1>2, <1>3, <2>1
  <2>2. CASE a \notin {x, y}
    <3>1. Rising(s, Stage(c, s, a)) /\ Below(s, Made(s), Stage(c, s, a))
      BY DEF InOrder
    <3> QED
      BY <2>2, <3>1
  <2> QED
    BY <2>1, <2>2
<1>5. ASSUME NEW a \in Stages, NEW b \in Stages, a < b
      PROVE  Precedes(s, Stage(c, s, a)', Stage(c, s, b)')
  <2>1. CASE a = x /\ b = y
    BY <1>2, <1>3, <2>1
  <2>2. CASE a \in {x, y} /\ b \notin {x, y}
    <3>1. x < b
      BY <1>5, <2>2 DEF Stages
    <3>2. Precedes(s, p, Stage(c, s, b)) /\ Precedes(s, q, Stage(c, s, b))
      BY <1>1, <2>2, <3>1
    <3> QED
      BY <1>2, <1>3, <2>2, <3>2
  <2>3. CASE a \notin {x, y} /\ b \in {x, y}
    <3>1. a < x
      BY <1>5, <2>3 DEF Stages
    <3>2. Precedes(s, Stage(c, s, a), p) /\ Precedes(s, Stage(c, s, a), q)
      BY <1>1, <2>3, <3>1
    <3> QED
      BY <1>2, <1>3, <2>3, <3>2
  <2>4. CASE a \notin {x, y} /\ b \notin {x, y}
    <3>1. Precedes(s, Stage(c, s, a), Stage(c, s, b))
      BY <1>5 DEF InOrder
    <3> QED
      BY <2>4, <3>1
  <2>5. ~ (a = y /\ b = x) /\ a # b
    BY <1>5 DEF Stages
  <2> QED
    BY <2>1, <2>2, <2>3, <2>4, <2>5
<1> QED
  BY <1>4, <1>5 DEF InOrder, Rising, Below, Precedes
(* So does an event that is added: of another stream anywhere, of this one *)
(* at the end and as the latest.                                           *)
LEMMA AddedInOrder ==
  ASSUME NEW c, NEW s, InOrder(c, s), Made(s) \in Nat,
         \A a \in Stages : Stage(c, s, a) \in Seq(Event),
         NEW e \in Event, NEW y \in Stages,
         Stage(c, s, y)' = Append(Stage(c, s, y), e),
         \A a \in Stages \ {y} : Stage(c, s, a)' = Stage(c, s, a),
         \/ e.stream # s /\ Made(s)' = Made(s)
         \/ e.stream = s /\ y = 6 /\ Made(s)' = Made(s) + 1 /\ e.n = Made(s) + 1
  PROVE  InOrder(c, s)'
<1> DEFINE p == Stage(c, s, y)
<1>1. /\ p \in Seq(Event) /\ Rising(s, p) /\ Below(s, Made(s), p)
      /\ \A a \in Stages \ {y} :
           /\ a < y => Precedes(s, Stage(c, s, a), p)
           /\ y < a => Precedes(s, p, Stage(c, s, a))
  BY DEF InOrder
<1>2. Stage(c, s, y)' = Append(p, e)
  OBVIOUS
<1> HIDE DEF p
<1>3. \A r \in Seq(Event) : Below(s, Made(s), r) =>
        (e.stream = s => \A i \in 1..Len(r) : r[i].stream = s => r[i].n < e.n)
  <2> SUFFICES ASSUME NEW r \in Seq(Event), Below(s, Made(s), r), e.stream = s,
                      NEW i \in 1..Len(r), r[i].stream = s
               PROVE  r[i].n < e.n
    OBVIOUS
  <2>1. r[i].n <= Made(s)
    BY DEF Below
  <2>2. e.n = Made(s) + 1
    OBVIOUS
  <2>3. r[i].n \in Nat
    <3>1. r[i] \in Event
      OBVIOUS
    <3> QED
      BY <3>1, EventFields, Constants
  <2> QED
    BY <2>1, <2>2, <2>3
<1>4. e.stream = s => \A i \in 1..Len(p) : p[i].stream = s => p[i].n < e.n
  BY <1>1, <1>3
<1>5. Rising(s, Append(p, e))
  BY <1>1, <1>4, AddingInOrder
<1>6. \A q \in Seq(Event) : Below(s, Made(s), q) => Below(s, Made(s)', q)
  <2> SUFFICES ASSUME NEW q \in Seq(Event), Below(s, Made(s), q),
                      NEW i \in 1..Len(q), q[i].stream = s
               PROVE  q[i].n <= Made(s)'
    BY DEF Below
  <2>1. q[i].n <= Made(s)
    BY DEF Below
  <2>2. q[i].n \in Nat
    <3>1. q[i] \in Event
      OBVIOUS
    <3> QED
      BY <3>1, EventFields, Constants
  <2> QED
    BY <2>1, <2>2
<1>7. Below(s, Made(s)', Append(p, e))
  <2>1. Below(s, Made(s)', p)
    BY <1>1, <1>6
  <2>2. e.stream = s => e.n <= Made(s)'
    OBVIOUS
  <2> QED
    BY <1>1, <1>4, <2>1, <2>2, AddingInOrder
<1>8. ASSUME NEW a \in Stages
      PROVE  Rising(s, Stage(c, s, a)') /\ Below(s, Made(s)', Stage(c, s, a)')
  <2>1. CASE a = y
    BY <1>2, <1>5, <1>7, <2>1
  <2>2. CASE a # y
    <3>1. Rising(s, Stage(c, s, a)) /\ Below(s, Made(s), Stage(c, s, a))
      BY DEF InOrder
    <3>2. Stage(c, s, a)' = Stage(c, s, a)
      BY <2>2
    <3> QED
      BY <1>6, <3>1, <3>2
  <2> QED
    BY <2>1, <2>2
<1>9. ASSUME NEW a \in Stages, NEW b \in Stages, a < b
      PROVE  Precedes(s, Stage(c, s, a)', Stage(c, s, b)')
  <2>1. CASE a = y
    <3>1. b # y /\ y # 6 /\ Precedes(s, p, Stage(c, s, b)) /\ Stage(c, s, b)' = Stage(c, s, b)
      <4>1. b # y /\ y # 6 /\ y < b
        BY <1>9, <2>1 DEF Stages
      <4> QED
        BY <1>1, <4>1
    <3>2. e.stream # s
      BY <3>1
    <3> QED
      BY <1>1, <1>2, <1>4, <2>1, <3>1, <3>2, AddingInOrder
  <2>2. CASE b = y
    <3>1. a # y /\ Precedes(s, Stage(c, s, a), p) /\ Stage(c, s, a)' = Stage(c, s, a)
      <4>1. a # y /\ a < y
        BY <1>9, <2>2 DEF Stages
      <4> QED
        BY <1>1, <4>1
    <3>2. Stage(c, s, a) \in Seq(Event) /\ Below(s, Made(s), Stage(c, s, a))
      BY <1>1 DEF InOrder
    <3>3. e.stream = s => \A i \in 1..Len(Stage(c, s, a)) :
                            Stage(c, s, a)[i].stream = s => Stage(c, s, a)[i].n < e.n
      BY <1>3, <3>2
    <3>4. Precedes(s, Stage(c, s, a), Append(p, e))
      BY <1>1, <1>4, <3>1, <3>2, <3>3, AddingInOrder
    <3> QED
      BY <1>2, <2>2, <3>1, <3>4
  <2>3. CASE a # y /\ b # y
    <3>1. Precedes(s, Stage(c, s, a), Stage(c, s, b))
      BY <1>9 DEF InOrder
    <3> QED
      BY <2>3, <3>1
  <2> QED
    BY <2>1, <2>2, <2>3
<1> QED
  BY <1>8, <1>9 DEF InOrder, Rising, Below, Precedes

(* And an event that is lost before it is queued. *)
LEMMA SkippedInOrder ==
  ASSUME NEW c, NEW s, InOrder(c, s), Made(s) \in Nat, Made(s)' = Made(s) + 1,
         \A a \in Stages : Stage(c, s, a) \in Seq(Event),
         \A a \in Stages : Stage(c, s, a)' = Stage(c, s, a)
  PROVE  InOrder(c, s)'
<1>1. ASSUME NEW q \in Seq(Event), Below(s, Made(s), q)
      PROVE  Below(s, Made(s) + 1, q)
  <2> SUFFICES ASSUME NEW i \in 1..Len(q), q[i].stream = s
               PROVE  q[i].n <= Made(s) + 1
    BY DEF Below
  <2>1. q[i].n <= Made(s)
    BY <1>1 DEF Below
  <2>2. q[i].n \in Nat
    <3>1. q[i] \in Event
      OBVIOUS
    <3> QED
      BY <3>1, EventFields, Constants
  <2> QED
    BY <2>1, <2>2
<1>2. ASSUME NEW a \in Stages
      PROVE  /\ Rising(s, Stage(c, s, a)') /\ Below(s, Made(s)', Stage(c, s, a)')
             /\ \A b \in Stages : a < b => Precedes(s, Stage(c, s, a)', Stage(c, s, b)')
  BY <1>1 DEF InOrder
<1> QED
  BY <1>2 DEF InOrder, Rising, Below, Precedes
AllInOrder == \A c \in Clients, s \in Streams : InOrder(c, s)

(* The moves of a client keep its order while the feed stands. *)
LEMMA MovedInOrder ==
  ASSUME FeedTyped, ClientsTyped, AllInOrder, NEW d \in Clients, NEW s \in Streams,
         Moved(d), Made(s)' = Made(s), held'[s] = held[s], channel'[s] = channel[s]
  PROVE  InOrder(d, s)'
<1>1. \A a \in Stages : Stage(d, s, a) \in Seq(Event)
  BY StageTypes
<1>2. InOrder(d, s)
  BY DEF AllInOrder
<1>3. /\ Stage(d, s, 1) = sent[d] /\ Stage(d, s, 2) = out[d]
      /\ Stage(d, s, 3) = carried[d] /\ Stage(d, s, 4) = queue[d]
      /\ Stage(d, s, 1)' = sent'[d] /\ Stage(d, s, 2)' = out'[d]
      /\ Stage(d, s, 3)' = carried'[d] /\ Stage(d, s, 4)' = queue'[d]
  BY StageNames
<1>4. /\ Stage(d, s, 5)' = Stage(d, s, 5) /\ Stage(d, s, 6)' = Stage(d, s, 6)
  BY StageNames
<1>5. \A a \in Stages : a \in {1, 2, 3, 4, 5, 6}
  BY DEF Stages
<1>6. CASE Renewed(d) \/ Rests(d) \/ CutOff(d)
  <2>1. \A a \in 1..4 : Stage(d, s, a)' = Stage(d, s, a) \/ Stage(d, s, a)' = <<>>
    <3>1. /\ sent'[d] = sent[d] \/ sent'[d] = <<>>
          /\ out'[d] = out[d] \/ out'[d] = <<>>
          /\ carried'[d] = carried[d] \/ carried'[d] = <<>>
          /\ queue'[d] = queue[d] \/ queue'[d] = <<>>
      BY <1>6 DEF Renewed, Rests, CutOff
    <3>2. \A a \in 1..4 : a \in {1, 2, 3, 4}
      OBVIOUS
    <3> QED
      BY <3>1, <3>2, <1>3
  <2>2. \A a \in Stages : Stage(d, s, a)' = Stage(d, s, a) \/ Stage(d, s, a)' = <<>>
    BY <1>4, <1>5, <2>1
  <2> QED
    BY <1>1, <1>2, <2>2, ShortenedInOrder
<1>7. CASE Taken(d)
  <2>1. /\ Stage(d, s, 4) # <<>> /\ Stage(d, s, 4)' = Tail(Stage(d, s, 4))
        /\ Stage(d, s, 3)' = Append(Stage(d, s, 3), Head(Stage(d, s, 4)))
        /\ Stage(d, s, 1)' = Stage(d, s, 1)
        /\ Stage(d, s, 2)' = Stage(d, s, 2)
    <3>1. /\ queue[d] # <<>> /\ queue'[d] = Tail(queue[d])
          /\ carried'[d] = Append(carried[d], Head(queue[d]))
          /\ sent'[d] = sent[d] /\ out'[d] = out[d]
      BY <1>7 DEF Taken
    <3> QED
      BY <3>1, <1>3
  <2>2. \A a \in Stages \ {3, 4} : Stage(d, s, a)' = Stage(d, s, a)
    BY <1>4, <1>5, <2>1
  <2>3. 3 \in Stages /\ 4 \in Stages /\ 4 = 3 + 1
    BY DEF Stages
  <2> QED
    BY <1>1, <1>2, <2>1, <2>2, <2>3, ForwardInOrder
<1>8. CASE Passed(d)
  <2>1. /\ Stage(d, s, 3) # <<>> /\ Stage(d, s, 3)' = Tail(Stage(d, s, 3))
        /\ Stage(d, s, 2)' = Append(Stage(d, s, 2), Head(Stage(d, s, 3)))
        /\ Stage(d, s, 1)' = Stage(d, s, 1)
        /\ Stage(d, s, 4)' = Stage(d, s, 4)
    <3>1. /\ carried[d] # <<>> /\ carried'[d] = Tail(carried[d])
          /\ out'[d] = Append(out[d], Head(carried[d]))
          /\ sent'[d] = sent[d] /\ queue'[d] = queue[d]
      BY <1>8 DEF Passed
    <3> QED
      BY <3>1, <1>3
  <2>2. \A a \in Stages \ {2, 3} : Stage(d, s, a)' = Stage(d, s, a)
    BY <1>4, <1>5, <2>1
  <2>3. 2 \in Stages /\ 3 \in Stages /\ 3 = 2 + 1
    BY DEF Stages
  <2> QED
    BY <1>1, <1>2, <2>1, <2>2, <2>3, ForwardInOrder
<1>9. CASE SentOne(d)
  <2>1. /\ Stage(d, s, 2) # <<>> /\ Stage(d, s, 2)' = Tail(Stage(d, s, 2))
        /\ Stage(d, s, 1)' = Append(Stage(d, s, 1), Head(Stage(d, s, 2)))
        /\ Stage(d, s, 3)' = Stage(d, s, 3)
        /\ Stage(d, s, 4)' = Stage(d, s, 4)
    <3>1. /\ out[d] # <<>> /\ out'[d] = Tail(out[d])
          /\ sent'[d] = Append(sent[d], Head(out[d]))
          /\ carried'[d] = carried[d] /\ queue'[d] = queue[d]
      BY <1>9 DEF SentOne
    <3> QED
      BY <3>1, <1>3
  <2>2. \A a \in Stages \ {1, 2} : Stage(d, s, a)' = Stage(d, s, a)
    BY <1>4, <1>5, <2>1
  <2>3. 1 \in Stages /\ 2 \in Stages /\ 2 = 1 + 1
    BY DEF Stages
  <2> QED
    BY <1>1, <1>2, <2>1, <2>2, <2>3, ForwardInOrder
<1> QED
  BY <1>6, <1>7, <1>8, <1>9 DEF Moved

(* An event is made. *)
LEMMA PutInOrder ==
  ASSUME FeedInv, ClientsTyped, AllInOrder, NEW t \in Streams, NEW symbol \in Symbols,
         Put(t, symbol), NEW d \in Clients, NEW s \in Streams
  PROVE  InOrder(d, s)'
<1> DEFINE ev == [stream |-> t, symbol |-> symbol, n |-> produced[t] + 1]
<1>1. \A a \in Stages : Stage(d, s, a) \in Seq(Event)
  BY StageTypes DEF FeedInv
<1>2. InOrder(d, s)
  BY DEF AllInOrder
<1>3. Rests(d)
  BY OtherMoves
<1>4. /\ produced[t] \in Nat /\ produced[t] < MaxEvents
      /\ produced' = [produced EXCEPT ![t] = produced[t] + 1]
      /\ UNCHANGED held
      /\ \/ channel' = [channel EXCEPT ![t] = Append(channel[t], ev)]
         \/ UNCHANGED channel
  <2>1. produced[t] \in 0..MaxEvents /\ produced[t] < MaxEvents
    BY EventsLeft
  <2>2. produced[t] \in Nat
    BY <2>1, Constants
  <2> QED
    BY <2>1, <2>2 DEF Put
<1>5. ev \in Event /\ ev.stream = t /\ ev.n = produced[t] + 1
  <2>1. produced[t] + 1 \in 1..MaxEvents
    BY <1>4, Constants
  <2> QED
    BY <2>1 DEF Event
<1> HIDE DEF ev
<1>6. CASE t # s
  <2>1. Made(s)' = Made(s)
    BY <1>4, <1>6 DEF Made, FeedInv, FeedTyped
  <2>2. held'[s] = held[s] /\ channel'[s] = channel[s]
    BY <1>4, <1>6 DEF FeedInv, FeedTyped
  <2> QED
    BY <1>3, <2>1, <2>2, MovedInOrder DEF Moved, FeedInv
<1>7. CASE t = s
  <2>1. Made(s)' = Made(s) + 1 /\ Made(s) \in Nat /\ ev.n = Made(s) + 1
    BY <1>4, <1>5, <1>7 DEF Made, FeedInv, FeedTyped
  <2>2. /\ Stage(d, s, 1)' = Stage(d, s, 1) /\ Stage(d, s, 2)' = Stage(d, s, 2)
        /\ Stage(d, s, 3)' = Stage(d, s, 3) /\ Stage(d, s, 4)' = Stage(d, s, 4)
        /\ Stage(d, s, 5)' = Stage(d, s, 5)
    BY <1>3, <1>4, StageNames DEF Rests
  <2>3. \A a \in Stages : a \in {1, 2, 3, 4, 5, 6}
    BY DEF Stages
  <2>4. CASE UNCHANGED channel
    <3>1. Stage(d, s, 6)' = Stage(d, s, 6)
      BY <2>4, StageNames
    <3>2. \A a \in Stages : Stage(d, s, a)' = Stage(d, s, a)
      BY <2>2, <2>3, <3>1
    <3> QED
      BY <1>1, <1>2, <2>1, <3>2, SkippedInOrder
  <2>5. CASE channel' = [channel EXCEPT ![t] = Append(channel[t], ev)]
    <3>1. channel'[s] = Append(channel[s], ev)
      BY <1>7, <2>5 DEF FeedInv, FeedTyped
    <3>2. Stage(d, s, 6)' = Append(Stage(d, s, 6), ev)
      BY <3>1, StageNames
    <3>3. \A a \in Stages \ {6} : Stage(d, s, a)' = Stage(d, s, a)
      BY <2>2, <2>3
    <3>4. 6 \in Stages
      BY DEF Stages
    <3> QED
      BY <1>1, <1>2, <1>5, <1>7, <2>1, <3>2, <3>3, <3>4, AddedInOrder
  <2> QED
    BY <1>4, <2>4, <2>5
<1> QED
  BY <1>6, <1>7

(* A dispatcher takes one. *)
LEMMA ReceiveInOrder ==
  ASSUME FeedInv, ClientsTyped, AllInOrder, NEW t \in Streams, Receive(t),
         NEW d \in Clients, NEW s \in Streams
  PROVE  InOrder(d, s)'
<1>1. \A a \in Stages : Stage(d, s, a) \in Seq(Event)
  BY StageTypes DEF FeedInv
<1>2. InOrder(d, s)
  BY DEF AllInOrder
<1>3. Rests(d)
  BY OtherMoves
<1>4. /\ held[t] = <<>> /\ channel[t] # <<>> /\ UNCHANGED produced
      /\ held' = [held EXCEPT ![t] = <<Head(channel[t])>>]
      /\ channel' = [channel EXCEPT ![t] = Tail(channel[t])]
  BY DEF Receive
<1>5. Made(s)' = Made(s)
  BY <1>4 DEF Made
<1>6. CASE t # s
  <2>1. held'[s] = held[s] /\ channel'[s] = channel[s]
    BY <1>4, <1>6 DEF FeedInv, FeedTyped
  <2> QED
    BY <1>3, <1>5, <2>1, MovedInOrder DEF Moved, FeedInv
<1>7. CASE t = s
  <2>1. /\ held[s] = <<>> /\ held'[s] = <<Head(channel[s])>>
        /\ channel[s] # <<>> /\ channel'[s] = Tail(channel[s])
    BY <1>4, <1>7 DEF FeedInv, FeedTyped
  <2>2. held'[s] = Append(held[s], Head(channel[s]))
    <3>1. \A e : Append(<<>>, e) = <<e>>
      OBVIOUS
    <3> QED
      BY <2>1, <3>1
  <2>3. /\ Stage(d, s, 6) # <<>> /\ Stage(d, s, 6)' = Tail(Stage(d, s, 6))
        /\ Stage(d, s, 5)' = Append(Stage(d, s, 5), Head(Stage(d, s, 6)))
    <3>1. /\ Stage(d, s, 5) = held[s] /\ Stage(d, s, 6) = channel[s]
          /\ Stage(d, s, 5)' = held'[s] /\ Stage(d, s, 6)' = channel'[s]
      BY StageNames
    <3> QED
      BY <2>1, <2>2, <3>1
  <2>4. /\ Stage(d, s, 1)' = Stage(d, s, 1) /\ Stage(d, s, 2)' = Stage(d, s, 2)
        /\ Stage(d, s, 3)' = Stage(d, s, 3) /\ Stage(d, s, 4)' = Stage(d, s, 4)
    BY <1>3, StageNames DEF Rests
  <2>5. \A a \in Stages \ {5, 6} : Stage(d, s, a)' = Stage(d, s, a)
    BY <2>4 DEF Stages
  <2>6. 5 \in Stages /\ 6 \in Stages /\ 6 = 5 + 1
    BY DEF Stages
  <2> QED
    BY <1>1, <1>2, <1>5, <2>3, <2>5, <2>6, ForwardInOrder
<1> QED
  BY <1>6, <1>7

(* A dispatcher publishes one. *)
LEMMA PublishInOrder ==
  ASSUME FeedInv, ClientsTyped, AllInOrder, NEW t \in Streams, Publish(t),
         NEW d \in Clients, NEW s \in Streams
  PROVE  InOrder(d, s)'
<1>1. \A a \in Stages : Stage(d, s, a) \in Seq(Event)
  BY StageTypes DEF FeedInv
<1>2. InOrder(d, s)
  BY DEF AllInOrder
<1>3. /\ held[t] # <<>> /\ held' = [held EXCEPT ![t] = <<>>]
      /\ UNCHANGED <<produced, channel>>
  BY DEF Publish, feed
<1>4. PICK ev \in Event : /\ ev = held[t][1] /\ ev.stream = t
                          /\ Head(held[t]) = ev /\ Tail(held[t]) = <<>>
  BY <1>3, HeldEvent
<1>5. /\ sent'[d] = sent[d] /\ out'[d] = out[d] /\ carried'[d] = carried[d]
      /\ queue'[d] = Append(queue[d], ev) \/ queue'[d] = queue[d]
  BY <1>4, PublishTo
<1>6. Made(s)' = Made(s) /\ Made(s) \in Nat
  BY <1>3, WithinMade DEF Made
<1>7. /\ Stage(d, s, 1)' = Stage(d, s, 1) /\ Stage(d, s, 2)' = Stage(d, s, 2)
      /\ Stage(d, s, 3)' = Stage(d, s, 3) /\ Stage(d, s, 6)' = Stage(d, s, 6)
      /\ \/ Stage(d, s, 4)' = Append(Stage(d, s, 4), ev)
         \/ Stage(d, s, 4)' = Stage(d, s, 4)
  BY <1>3, <1>5, StageNames
<1>8. \A a \in Stages : a \in {1, 2, 3, 4, 5, 6}
  BY DEF Stages
<1>9. {4, 5} \subseteq Stages /\ 5 = 4 + 1
  BY DEF Stages
<1>10. CASE t # s
  <2>1. Stage(d, s, 5)' = Stage(d, s, 5)
    <3>1. held'[s] = held[s]
      BY <1>3, <1>10 DEF FeedInv, FeedTyped
    <3> QED
      BY <3>1, StageNames
  <2>2. CASE Stage(d, s, 4)' = Stage(d, s, 4)
    <3>1. \A a \in Stages : Stage(d, s, a)' = Stage(d, s, a)
      BY <1>7, <1>8, <2>1, <2>2
    <3> QED
      BY <1>1, <1>2, <1>6, <3>1, ShortenedInOrder
  <2>3. CASE Stage(d, s, 4)' = Append(Stage(d, s, 4), ev)
    <3>1. \A a \in Stages \ {4} : Stage(d, s, a)' = Stage(d, s, a)
      BY <1>7, <1>8, <2>1
    <3>2. 4 \in Stages /\ ev.stream # s
      BY <1>4, <1>9, <1>10
    <3> QED
      BY <1>1, <1>2, <1>6, <2>3, <3>1, <3>2, AddedInOrder
  <2> QED
    BY <1>7, <2>2, <2>3
<1>11. CASE t = s
  <2>1. /\ Stage(d, s, 5) # <<>> /\ Stage(d, s, 5)' = <<>>
        /\ Head(Stage(d, s, 5)) = ev /\ Tail(Stage(d, s, 5)) = <<>>
    <3>1. /\ held'[s] = <<>> /\ held[s] # <<>>
          /\ Head(held[s]) = ev /\ Tail(held[s]) = <<>>
      BY <1>3, <1>4, <1>11 DEF FeedInv, FeedTyped
    <3> QED
      BY <3>1, StageNames
  <2>2. CASE Stage(d, s, 4)' = Stage(d, s, 4)
    <3>1. \A a \in Stages : Stage(d, s, a)' = Stage(d, s, a) \/ Stage(d, s, a)' = <<>>
      BY <1>7, <1>8, <2>1, <2>2
    <3> QED
      BY <1>1, <1>2, <1>6, <3>1, ShortenedInOrder
  <2>3. CASE Stage(d, s, 4)' = Append(Stage(d, s, 4), ev)
    <3>1. \A a \in Stages \ {4, 5} : Stage(d, s, a)' = Stage(d, s, a)
      BY <1>7, <1>8
    <3>2. /\ Stage(d, s, 4)' = Append(Stage(d, s, 4), Head(Stage(d, s, 5)))
          /\ Stage(d, s, 5)' = Tail(Stage(d, s, 5))
      BY <2>1, <2>3
    <3>3. 4 \in Stages /\ 5 \in Stages /\ 5 = 4 + 1
      BY <1>9
    <3> QED
      BY <1>1, <1>2, <1>6, <2>1, <3>1, <3>2, <3>3, ForwardInOrder
  <2> QED
    BY <1>7, <2>2, <2>3
<1> QED
  BY <1>10, <1>11
-----------------------------------------------------------------------------
(* What a client gets is what it wants. *)

AllWanted(c, q) == \A i \in 1..Len(q) : Wants(c, q[i])

ClientWanted(c) ==
  /\ AllWanted(c, sent[c]) /\ AllWanted(c, out[c])
  /\ AllWanted(c, carried[c]) /\ AllWanted(c, queue[c])

(* The queues lose and pass on what is wanted. *)
LEMMA WantedMoves ==
  ASSUME NEW c, NEW p \in Seq(Event), NEW q \in Seq(Event)
  PROVE  /\ AllWanted(c, <<>>)
         /\ q # <<>> /\ AllWanted(c, q) => AllWanted(c, Tail(q)) /\ Wants(c, Head(q))
         /\ \A e \in Event : AllWanted(c, p) /\ Wants(c, e) => AllWanted(c, Append(p, e))
<1>1. AllWanted(c, <<>>)
  BY DEF AllWanted
<1>2. ASSUME q # <<>>, AllWanted(c, q)
      PROVE  AllWanted(c, Tail(q)) /\ Wants(c, Head(q))
  <2>1. /\ Len(q) \in Nat \ {0} /\ Head(q) = q[1] /\ Len(Tail(q)) = Len(q) - 1
        /\ \A i \in 1..Len(Tail(q)) : Tail(q)[i] = q[i + 1]
    BY <1>2, Taking
  <2>2. \A i \in 1..Len(Tail(q)) : i + 1 \in 1..Len(q)
    BY <2>1
  <2>3. 1 \in 1..Len(q)
    BY <2>1
  <2> QED
    BY <1>2, <2>1, <2>2, <2>3 DEF AllWanted
<1>3. ASSUME NEW e \in Event, AllWanted(c, p), Wants(c, e)
      PROVE  AllWanted(c, Append(p, e))
  <2>1. \A i \in 1..Len(Append(p, e)) :
          \/ i \in 1..Len(p) /\ Append(p, e)[i] = p[i]
          \/ i = Len(p) + 1 /\ Append(p, e)[i] = e
    BY Adding
  <2> QED
    BY <1>3, <2>1 DEF AllWanted
<1> QED
  BY <1>1, <1>2, <1>3

(* The moves of a client keep it. *)
LEMMA MovedWanted ==
  ASSUME ClientsTyped, NEW d \in Clients, ClientWanted(d), Moved(d)
  PROVE  ClientWanted(d)'
<1>1. /\ sent[d] \in Seq(Event) /\ out[d] \in Seq(Event)
      /\ carried[d] \in Seq(Event) /\ queue[d] \in Seq(Event)
  BY DEF ClientsTyped
<1>2. CASE Renewed(d)
  BY <1>2 DEF Renewed, ClientWanted, AllWanted
<1>3. CASE ~ Renewed(d)
  <2>1. filter'[d] = filter[d]
    BY <1>3 DEF Moved, Rests, CutOff, Taken, Passed, SentOne, Stays
  <2>2. /\ AllWanted(d, sent'[d]) /\ AllWanted(d, out'[d])
        /\ AllWanted(d, carried'[d]) /\ AllWanted(d, queue'[d])
    <3>1. /\ AllWanted(d, sent[d]) /\ AllWanted(d, out[d])
          /\ AllWanted(d, carried[d]) /\ AllWanted(d, queue[d])
      BY DEF ClientWanted
    <3>2. CASE Rests(d) \/ CutOff(d)
      BY <1>1, <3>1, <3>2, WantedMoves DEF Rests, CutOff
    <3>3. CASE Taken(d)
      <4>1. /\ AllWanted(d, Tail(queue[d])) /\ Wants(d, Head(queue[d]))
            /\ Head(queue[d]) \in Event
        BY <1>1, <3>1, <3>3, WantedMoves, Taking DEF Taken
      <4>2. AllWanted(d, Append(carried[d], Head(queue[d])))
        BY <1>1, <3>1, <4>1, WantedMoves
      <4> QED
        BY <3>1, <3>3, <4>1, <4>2 DEF Taken
    <3>4. CASE Passed(d)
      <4>1. /\ AllWanted(d, Tail(carried[d])) /\ Wants(d, Head(carried[d]))
            /\ Head(carried[d]) \in Event
        BY <1>1, <3>1, <3>4, WantedMoves, Taking DEF Passed
      <4>2. AllWanted(d, Append(out[d], Head(carried[d])))
        BY <1>1, <3>1, <4>1, WantedMoves
      <4> QED
        BY <3>1, <3>4, <4>1, <4>2 DEF Passed
    <3>5. CASE SentOne(d)
      <4>1. /\ AllWanted(d, Tail(out[d])) /\ Wants(d, Head(out[d]))
            /\ Head(out[d]) \in Event
        BY <1>1, <3>1, <3>5, WantedMoves, Taking DEF SentOne
      <4>2. AllWanted(d, Append(sent[d], Head(out[d])))
        BY <1>1, <3>1, <4>1, WantedMoves
      <4> QED
        BY <3>1, <3>5, <4>1, <4>2 DEF SentOne
    <3> QED
      BY <1>3, <3>2, <3>3, <3>4, <3>5 DEF Moved
  <2> QED
    BY <2>1, <2>2 DEF ClientWanted, AllWanted, Wants
<1> QED
  BY <1>2, <1>3

(* So does a publication. *)
LEMMA PublishWanted ==
  ASSUME FeedInv, ClientsTyped, NEW s \in Streams, Publish(s),
         NEW d \in Clients, ClientWanted(d)
  PROVE  ClientWanted(d)'
<1>1. PICK ev \in Event : ev = held[s][1]
  BY HeldEvent DEF Publish
<1>2. /\ sent'[d] = sent[d] /\ out'[d] = out[d] /\ carried'[d] = carried[d]
      /\ \/ queue'[d] = Append(queue[d], ev) /\ Wants(d, ev)
         \/ queue'[d] = queue[d]
  BY <1>1, PublishTo
<1>3. queue[d] \in Seq(Event)
  BY DEF ClientsTyped
<1>4. /\ AllWanted(d, sent[d]) /\ AllWanted(d, out[d])
      /\ AllWanted(d, carried[d]) /\ AllWanted(d, queue[d])
  BY DEF ClientWanted
<1>5. /\ AllWanted(d, sent'[d]) /\ AllWanted(d, out'[d])
      /\ AllWanted(d, carried'[d]) /\ AllWanted(d, queue'[d])
  BY <1>2, <1>3, <1>4, WantedMoves
<1>6. filter'[d] = filter[d]
  BY DEF Publish
<1> QED
  BY <1>5, <1>6 DEF ClientWanted, AllWanted, Wants

-----------------------------------------------------------------------------
(* What a client sees, inductively. *)

SeenInv == AllInOrder /\ \A c \in Clients : ClientWanted(c)

(* Every step keeps it. *)
LEMMA NextSeen ==
  ASSUME Counted, SeenInv, [Next]_vars
  PROVE  SeenInv'
<1>1. FeedInv /\ FeedTyped /\ ClientsTyped
  BY DEF Counted, FeedInv
<1>2. AllInOrder /\ \A c \in Clients : ClientWanted(c)
  BY DEF SeenInv
<1>3. ASSUME NEW d \in Clients, NEW s \in Streams
      PROVE  InOrder(d, s)' /\ ClientWanted(d)'
  <2>1. ASSUME NEW t \in Streams, NEW symbol \in Symbols, Put(t, symbol)
        PROVE  InOrder(d, s)' /\ ClientWanted(d)'
    <3>1. Moved(d)
      BY <2>1, OtherMoves DEF Moved
    <3> QED
      BY <1>1, <1>2, <2>1, <3>1, PutInOrder, MovedWanted
  <2>2. ASSUME NEW t \in Streams, Receive(t)
        PROVE  InOrder(d, s)' /\ ClientWanted(d)'
    <3>1. Moved(d)
      BY <2>2, OtherMoves DEF Moved
    <3> QED
      BY <1>1, <1>2, <2>2, <3>1, ReceiveInOrder, MovedWanted
  <2>3. ASSUME NEW t \in Streams, Publish(t)
        PROVE  InOrder(d, s)' /\ ClientWanted(d)'
    BY <1>1, <1>2, <2>3, PublishInOrder, PublishWanted
  <2>4. CASE \/ \E c \in Clients : Leave(c) \/ Handler(c) \/ \E r \in Request : Ask(c, r)
             \/ UNCHANGED vars
    <3>1. Moved(d)
      <4>1. CASE \E c \in Clients : Handler(c)
        BY <1>1, <4>1, HandlerMoves
      <4>2. CASE \/ \E c \in Clients : Leave(c) \/ \E r \in Request : Ask(c, r)
                 \/ UNCHANGED vars
        BY <4>2, OtherMoves DEF Moved
      <4> QED
        BY <2>4, <4>1, <4>2
    <3>2. UNCHANGED <<produced, passed, shed, channel, held>>
      BY <1>1, <2>4, ClientsKeepFeed
    <3>3. Made(s)' = Made(s) /\ held'[s] = held[s] /\ channel'[s] = channel[s]
      BY <3>2 DEF Made
    <3> QED
      BY <1>1, <1>2, <3>1, <3>3, MovedInOrder, MovedWanted
  <2> QED
    BY <2>1, <2>2, <2>3, <2>4 DEF Next
<1>4. \E s : s \in Streams
  BY DEF Streams
<1> QED
  BY <1>3, <1>4 DEF SeenInv, AllInOrder

(* A client sees the events of a stream in the order the shards made them, *)
(* none twice, and only those it subscribed to: through the channel, the   *)
(* dispatcher, its queue and its outgoing channel, whatever is shed on the *)
(* way and however it subscribes anew.                                     *)
THEOREM StreamsInOrder == Spec => []SentInOrder
<1>1. Init => SeenInv
  <2> SUFFICES ASSUME Init
               PROVE  SeenInv
    OBVIOUS
  <2>1. ASSUME NEW c \in Clients, NEW s \in Streams
        PROVE  InOrder(c, s)
    <3>1. \A a \in Stages : Stage(c, s, a) = <<>>
      BY DEF Init, Stage, Stages
    <3> QED
      BY <3>1, EmptyInOrder DEF InOrder
  <2>2. ASSUME NEW c \in Clients
        PROVE  ClientWanted(c)
    <3>1. sent[c] = <<>> /\ out[c] = <<>> /\ carried[c] = <<>> /\ queue[c] = <<>>
      BY DEF Init
    <3> QED
      BY <3>1 DEF ClientWanted, AllWanted
  <2> QED
    BY <2>1, <2>2 DEF SeenInv, AllInOrder
<1>2. Counted /\ SeenInv /\ [Next]_vars => SeenInv'
  BY NextSeen
<1>3. Counted /\ SeenInv => SentInOrder
  <2> SUFFICES ASSUME Counted, SeenInv, NEW c \in Clients
               PROVE  /\ \A i, j \in DOMAIN sent[c] :
                           i < j /\ sent[c][i].stream = sent[c][j].stream
                             => sent[c][i].n < sent[c][j].n
                      /\ \A i \in DOMAIN sent[c] : Wants(c, sent[c][i])
    BY DEF SentInOrder
  <2>1. sent[c] \in Seq(Event)
    BY DEF Counted, ClientsTyped
  <2>2. DOMAIN sent[c] = 1..Len(sent[c])
    BY <2>1
  <2>3. \A i \in DOMAIN sent[c] : sent[c][i].stream \in Streams
    <3>1. \A i \in DOMAIN sent[c] : sent[c][i] \in Event
      BY <2>1
    <3> QED
      BY <3>1, EventFields
  <2>4. \A s \in Streams : Rising(s, sent[c])
    <3>1. 1 \in Stages
      BY DEF Stages
    <3> QED
      BY <3>1, StageNames DEF SeenInv, AllInOrder, InOrder
  <2>5. \A i, j \in DOMAIN sent[c] :
          i < j /\ sent[c][i].stream = sent[c][j].stream => sent[c][i].n < sent[c][j].n
    BY <2>2, <2>3, <2>4 DEF Rising
  <2>6. \A i \in DOMAIN sent[c] : Wants(c, sent[c][i])
    BY <2>2 DEF SeenInv, ClientWanted, AllWanted
  <2> QED
    BY <2>5, <2>6
<1> QED
  BY <1>1, <1>2, <1>3, CountedAlways, PTL DEF Spec
==============================================================================
