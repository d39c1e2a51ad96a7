------------------------------ MODULE Publisher ------------------------------
(***************************************************************************)
(* The way of an event from the shards to a WebSocket client: put          *)
(* (rust/src/feed_handler.rs), then the dispatcher tasks, the subscriber   *)
(* table and the client handlers (rust/src/publisher.rs).  Each stream has *)
(* a channel and a dispatcher task; each subscribed client has a queue, a  *)
(* streaming task that moves it to an outgoing channel, and a handler that *)
(* owns the socket.  Every bounded queue sheds the newest.                 *)
(*                                                                         *)
(* An event is its stream, its symbol and its place in the stream.         *)
(***************************************************************************)
EXTENDS Integers, Sequences, FiniteSetsExt

CONSTANTS Clients,
          Symbols,
          Filters,          \* filters that clients ask for
          ChannelMax,       \* capacity of a dispatcher's channel
          QueueMax,         \* SUBSCRIBER_QUEUE_MAX
          OutMax,           \* capacity of the outgoing channel
          MaxEvents,        \* bound on the events of both streams together
          MaxRequests       \* bound on the messages of a client

Streams == {"bbo", "book"}
Filter == [streams : {Streams, {"bbo"}, {"book"}}, symbols : SUBSET Symbols]
Event == [stream : Streams, symbol : Symbols, n : 1..MaxEvents]
Request == [action : {"subscribe"}, filter : Filters] \cup [action : {"unsubscribe"}]

ASSUME PublisherAssumption ==
  /\ Filters \subseteq Filter
  /\ {ChannelMax, QueueMax, OutMax} \subseteq Nat \ {0}
  /\ {MaxEvents, MaxRequests} \subseteq Nat

VARIABLES
  produced,                 \* events offered to each channel
  channel, shed,            \* what each holds, and what it shed (BBO_DROPPED, BOOK_DROPPED)
  held,                     \* the event each dispatcher task is publishing, if any
  passed,                   \* history: events each dispatcher has published
  table,                    \* the clients in SUBSCRIBERS
  filter,                   \* the filter of a client's latest subscription
  queue, dropped,           \* its queue, and its share of SUBSCRIBER_DROPPED
  receiving,                \* its streaming task still holds the queue's receiver
  carried,                  \* the event that task moves to the outgoing channel, if any
  out,                      \* its outgoing channel
  handler,                  \* its handler: outer loop, streaming loop, or ended
  inbox, asked,             \* its messages not yet read, and how many it has sent
  left,                     \* it has closed its socket
  offered, sent             \* history: events offered to its queue, events on its socket

feed == <<produced, channel, shed>>
subs == <<table, filter, queue, dropped, receiving, carried, out, offered, sent>>
sockets == <<handler, inbox, asked, left>>
vars == <<produced, channel, shed, held, passed, table, filter, queue, dropped,
          receiving, carried, out, handler, inbox, asked, left, offered, sent>>

TypeOK ==
  /\ produced \in [Streams -> 0..MaxEvents] /\ passed \in [Streams -> 0..MaxEvents]
  /\ shed \in [Streams -> 0..MaxEvents]
  /\ channel \in [Streams -> Seq(Event)] /\ held \in [Streams -> Seq(Event)]
  /\ \A s \in Streams : Len(channel[s]) <= ChannelMax
  /\ table \subseteq Clients
  /\ filter \in [Clients -> Filter]
  /\ queue \in [Clients -> Seq(Event)] /\ out \in [Clients -> Seq(Event)]
  /\ carried \in [Clients -> Seq(Event)] /\ sent \in [Clients -> Seq(Event)]
  /\ \A c \in Clients :
       Len(queue[c]) <= QueueMax /\ Len(carried[c]) <= 1 /\ Len(out[c]) <= OutMax
  /\ inbox \in [Clients -> Seq(Request)]
  /\ receiving \subseteq Clients /\ left \subseteq Clients
  /\ handler \in [Clients -> {"outer", "streaming", "ended"}]
  /\ asked \in [Clients -> 0..MaxRequests]
  /\ dropped \in [Clients -> Nat] /\ offered \in [Clients -> Nat]

NoFilter == [streams |-> Streams, symbols |-> {}]

Init ==
  /\ produced = [s \in Streams |-> 0] /\ passed = [s \in Streams |-> 0]
  /\ channel = [s \in Streams |-> <<>>] /\ shed = [s \in Streams |-> 0]
  /\ held = [s \in Streams |-> <<>>]
  /\ table = {} /\ filter = [c \in Clients |-> NoFilter]
  /\ queue = [c \in Clients |-> <<>>] /\ dropped = [c \in Clients |-> 0]
  /\ receiving = {} /\ carried = [c \in Clients |-> <<>>]
  /\ out = [c \in Clients |-> <<>>]
  /\ handler = [c \in Clients |-> "outer"]
  /\ inbox = [c \in Clients |-> <<>>] /\ asked = [c \in Clients |-> 0]
  /\ left = {}
  /\ offered = [c \in Clients |-> 0] /\ sent = [c \in Clients |-> <<>>]

-----------------------------------------------------------------------------
(* Mutants of Put: the channel has no bound, the shed event is not counted. *)
PutUnbounded(s, symbol) ==
  LET ev == [stream |-> s, symbol |-> symbol, n |-> produced[s] + 1] IN
  /\ produced["bbo"] + produced["book"] < MaxEvents
  /\ produced' = [produced EXCEPT ![s] = @ + 1]
  /\ channel' = [channel EXCEPT ![s] = Append(@, ev)]
  /\ UNCHANGED <<shed, held, passed, subs, sockets>>

PutSilent(s, symbol) ==
  LET ev == [stream |-> s, symbol |-> symbol, n |-> produced[s] + 1] IN
  /\ produced["bbo"] + produced["book"] < MaxEvents
  /\ produced' = [produced EXCEPT ![s] = @ + 1]
  /\ channel' = [channel EXCEPT ![s] = IF Len(@) < ChannelMax THEN Append(@, ev) ELSE @]
  /\ UNCHANGED <<shed, held, passed, subs, sockets>>

(* put: a full channel sheds the event. *)
Put(s, symbol) ==
  LET ev == [stream |-> s, symbol |-> symbol, n |-> produced[s] + 1] IN
  /\ produced["bbo"] + produced["book"] < MaxEvents
  /\ produced' = [produced EXCEPT ![s] = @ + 1]
  /\ IF Len(channel[s]) < ChannelMax
     THEN channel' = [channel EXCEPT ![s] = Append(@, ev)] /\ UNCHANGED shed
     ELSE shed' = [shed EXCEPT ![s] = @ + 1] /\ UNCHANGED channel
  /\ UNCHANGED <<held, passed, subs, sockets>>

(* A dispatcher task takes an event, and then waits for the table's lock. *)
Receive(s) ==
  /\ held[s] = <<>> /\ channel[s] # <<>>
  /\ held' = [held EXCEPT ![s] = <<Head(channel[s])>>]
  /\ channel' = [channel EXCEPT ![s] = Tail(@)]
  /\ UNCHANGED <<produced, shed, passed, subs, sockets>>

Wants(c, ev) == ev.stream \in filter[c].streams /\ ev.symbol \in filter[c].symbols

(* The subscribers the event is for, and those of them without room for it. *)
Reached(ev) == {c \in table \cap receiving : Wants(c, ev)}

Full(ev) == {c \in Reached(ev) : Len(queue[c]) >= QueueMax}

(* Mutant of Offer: it waits for room in every queue. *)
OfferWaiting(ev) ==
  /\ Full(ev) = {}
  /\ queue' = [c \in Clients |-> IF c \in Reached(ev) THEN Append(queue[c], ev)
                                 ELSE queue[c]]
  /\ offered' = [c \in Clients |-> offered[c] + IF c \in Reached(ev) THEN 1 ELSE 0]
  /\ UNCHANGED dropped

(* put_value for each of them: a full queue sheds the event. *)
Offer(ev) ==
  /\ queue' = [c \in Clients |-> IF c \in Reached(ev) \ Full(ev) THEN Append(queue[c], ev)
                                 ELSE queue[c]]
  /\ dropped' = [c \in Clients |-> dropped[c] + IF c \in Full(ev) THEN 1 ELSE 0]
  /\ offered' = [c \in Clients |-> offered[c] + IF c \in Reached(ev) THEN 1 ELSE 0]

(* publish: entries whose receiver is gone are removed, the others offered *)
(* the event.                                                              *)
Publish(s) ==
  /\ held[s] # <<>>
  /\ held' = [held EXCEPT ![s] = <<>>]
  /\ passed' = [passed EXCEPT ![s] = @ + 1]
  /\ Offer(held[s][1])
  /\ table' = table \cap receiving
  /\ UNCHANGED <<feed, filter, receiving, carried, out, sent, sockets>>

-----------------------------------------------------------------------------
(* A client (external). *)

Ask(c, r) ==
  /\ c \notin left /\ asked[c] < MaxRequests
  /\ asked' = [asked EXCEPT ![c] = @ + 1]
  /\ inbox' = [inbox EXCEPT ![c] = Append(@, r)]
  /\ UNCHANGED <<feed, held, passed, subs, handler, left>>

Leave(c) ==
  /\ c \notin left
  /\ left' = left \cup {c}
  /\ UNCHANGED <<feed, held, passed, subs, handler, inbox, asked>>

-----------------------------------------------------------------------------
(* handle_ws_client *)

Reads(c, action) ==
  /\ inbox[c] # <<>> /\ Head(inbox[c]).action = action
  /\ inbox' = [inbox EXCEPT ![c] = Tail(@)]
  /\ UNCHANGED <<feed, held, passed, asked, left>>

(* The outer loop starts a subscription: the streaming task of an earlier  *)
(* one is aborted and its entry removed; queues and tasks are new.         *)
Subscribe(c) ==
  /\ handler[c] = "outer"
  /\ Reads(c, "subscribe")
  /\ handler' = [handler EXCEPT ![c] = "streaming"]
  /\ table' = table \cup {c}
  /\ filter' = [filter EXCEPT ![c] = Head(inbox[c]).filter]
  /\ receiving' = receiving \cup {c}
  /\ queue' = [queue EXCEPT ![c] = <<>>]
  /\ carried' = [carried EXCEPT ![c] = <<>>]
  /\ out' = [out EXCEPT ![c] = <<>>]
  /\ dropped' = [dropped EXCEPT ![c] = 0]
  /\ offered' = [offered EXCEPT ![c] = 0]
  /\ sent' = [sent EXCEPT ![c] = <<>>]

(* Any other message is ignored there. *)
OuterIgnore(c) ==
  /\ handler[c] = "outer"
  /\ Reads(c, "unsubscribe")
  /\ UNCHANGED <<subs, handler>>

(* The streaming task ends and the entry is removed, here and at the end.  *)
Unsubscribed(c) ==
  /\ table' = table \ {c}
  /\ receiving' = receiving \ {c}
  /\ queue' = [queue EXCEPT ![c] = <<>>]
  /\ carried' = [carried EXCEPT ![c] = <<>>]
  /\ out' = [out EXCEPT ![c] = <<>>]
  /\ UNCHANGED <<filter, dropped, offered, sent>>

Unsubscribe(c) ==
  /\ handler[c] = "streaming"
  /\ Reads(c, "unsubscribe")
  /\ handler' = [handler EXCEPT ![c] = "outer"]
  /\ Unsubscribed(c)

(* The streaming loop knows no other message, subscribe included. *)
StreamingIgnore(c) ==
  /\ handler[c] = "streaming"
  /\ Reads(c, "subscribe")
  /\ UNCHANGED <<subs, handler>>

(* Mutant of Take: the queue is popped at the wrong end. *)
TakeNewest(c) ==
  /\ c \in receiving /\ carried[c] = <<>> /\ queue[c] # <<>>
  /\ carried' = [carried EXCEPT ![c] = <<queue[c][Len(queue[c])]>>]
  /\ queue' = [queue EXCEPT ![c] = SubSeq(@, 1, Len(@) - 1)]
  /\ UNCHANGED <<feed, held, passed, table, filter, dropped, receiving, out, offered,
                 sent, sockets>>

(* The streaming task takes an event, and then waits for room in the       *)
(* outgoing channel.                                                       *)
Take(c) ==
  /\ c \in receiving /\ carried[c] = <<>> /\ queue[c] # <<>>
  /\ carried' = [carried EXCEPT ![c] = <<Head(queue[c])>>]
  /\ queue' = [queue EXCEPT ![c] = Tail(@)]
  /\ UNCHANGED <<feed, held, passed, table, filter, dropped, receiving, out, offered,
                 sent, sockets>>

Pass(c) ==
  /\ handler[c] = "streaming" /\ carried[c] # <<>> /\ Len(out[c]) < OutMax
  /\ out' = [out EXCEPT ![c] = Append(@, Head(carried[c]))]
  /\ carried' = [carried EXCEPT ![c] = <<>>]
  /\ UNCHANGED <<feed, held, passed, table, filter, queue, dropped, receiving, offered,
                 sent, sockets>>

(* The outgoing channel is gone: the task ends, its receiver with it. *)
Stop(c) ==
  /\ handler[c] = "outer" /\ c \in receiving /\ carried[c] # <<>>
  /\ receiving' = receiving \ {c}
  /\ carried' = [carried EXCEPT ![c] = <<>>]
  /\ UNCHANGED <<feed, held, passed, table, filter, queue, dropped, out, offered, sent,
                 sockets>>

(* The streaming loop sends an event; the socket of a client that left may *)
(* still take it.                                                          *)
Send(c) ==
  /\ handler[c] = "streaming" /\ out[c] # <<>>
  /\ sent' = [sent EXCEPT ![c] = Append(@, Head(out[c]))]
  /\ out' = [out EXCEPT ![c] = Tail(@)]
  /\ UNCHANGED <<feed, held, passed, table, filter, queue, dropped, receiving,
                 carried, offered, sockets>>

(* The streaming loop ends when a send fails or the socket reads as        *)
(* closed.  The outgoing channel goes with it; the entry in the table and  *)
(* the streaming task stay for now.                                        *)
StreamBreaks(c) ==
  /\ handler[c] = "streaming" /\ c \in left
  /\ out[c] # <<>> \/ inbox[c] = <<>>
  /\ handler' = [handler EXCEPT ![c] = "outer"]
  /\ out' = [out EXCEPT ![c] = <<>>]
  /\ UNCHANGED <<feed, held, passed, table, filter, queue, dropped, receiving,
                 carried, offered, sent, inbox, asked, left>>

(* Mutant of End: only the streaming task is cleaned up. *)
EndLeaking(c) ==
  /\ handler[c] = "outer" /\ c \in left /\ inbox[c] = <<>>
  /\ handler' = [handler EXCEPT ![c] = "ended"]
  /\ receiving' = receiving \ {c}
  /\ queue' = [queue EXCEPT ![c] = <<>>]
  /\ carried' = [carried EXCEPT ![c] = <<>>]
  /\ UNCHANGED <<feed, held, passed, table, filter, dropped, out, offered, sent,
                 inbox, asked, left>>

(* The outer loop reads the end of the socket, and cleans up. *)
End(c) ==
  /\ handler[c] = "outer" /\ c \in left /\ inbox[c] = <<>>
  /\ handler' = [handler EXCEPT ![c] = "ended"]
  /\ Unsubscribed(c)
  /\ UNCHANGED <<feed, held, passed, inbox, asked, left>>

-----------------------------------------------------------------------------
Handler(c) ==
  \/ Subscribe(c) \/ OuterIgnore(c) \/ Unsubscribe(c) \/ StreamingIgnore(c)
  \/ Take(c) \/ Pass(c) \/ Stop(c) \/ Send(c) \/ StreamBreaks(c) \/ End(c)

Next ==
  \/ \E s \in Streams, symbol \in Symbols : Put(s, symbol)
  \/ \E s \in Streams : Receive(s) \/ Publish(s)
  \/ \E c \in Clients : Leave(c) \/ Handler(c) \/ \E r \in Request : Ask(c, r)

Spec == Init /\ [][Next]_vars

(* The runtime polls the dispatcher tasks; nothing is assumed of clients.  *)
FairSpec == Spec /\ \A s \in Streams : WF_vars(Receive(s)) /\ WF_vars(Publish(s))

-----------------------------------------------------------------------------
(* README.md: every drop is counted.  An event offered by a shard has been *)
(* published, is on its way, or is in BBO_DROPPED or BOOK_DROPPED; one     *)
(* offered to a streaming client is on its socket, on its way, or in       *)
(* SUBSCRIBER_DROPPED.                                                     *)
EveryDropCounted ==
  /\ \A s \in Streams :
       produced[s] = passed[s] + Len(held[s]) + Len(channel[s]) + shed[s]
  /\ \A c \in Clients : handler[c] = "streaming" =>
       offered[c] = Len(sent[c]) + Len(out[c]) + Len(carried[c]) + Len(queue[c])
                      + dropped[c]

(* A client sees the events of a stream in the order they were made, none  *)
(* twice, and only those it subscribed to.                                 *)
SentInOrder ==
  \A c \in Clients :
    /\ \A i, j \in DOMAIN sent[c] :
         i < j /\ sent[c][i].stream = sent[c][j].stream => sent[c][i].n < sent[c][j].n
    /\ \A i \in DOMAIN sent[c] : Wants(c, sent[c][i])

(* A streaming client is in the table with a live receiver; one that ended *)
(* is not, so no entry leaks (handle_ws_client, publish).                  *)
TableMatchesHandlers ==
  \A c \in Clients :
    /\ handler[c] = "streaming" => c \in table \cap receiving
    /\ handler[c] = "ended" => c \notin table \cup receiving

(* The same WebSocket protocol as the Python handler, where a subscribe    *)
(* replaces the subscription before it: once a client's messages are read, *)
(* it has the filter it asked for last.                                    *)
LatestFilterServed ==
  [][\A c \in Clients :
       Len(inbox'[c]) < Len(inbox[c]) /\ Head(inbox[c]).action = "subscribe"
         => filter'[c] = Head(inbox[c]).filter]_vars

(* README.md: a consumer that falls behind never blocks the feed.  However *)
(* slowly clients read, what the shards hand over is published.            *)
FeedNeverBlocks ==
  \A s \in Streams : channel[s] # <<>> ~> channel[s] = <<>> /\ held[s] = <<>>
=============================================================================
