---------------------------- MODULE EventStreaming ----------------------------
(***************************************************************************)
(* The path of an event inside one worker process, from publish to the     *)
(* sockets: the event bus (EventBus) dispatches it to two subscribers, the *)
(* retention streams that new sockets are sent their history from          *)
(* (app/events/subscribers.py, stream_manager.py) and the broadcast of the *)
(* WebSocket manager (WebSocketManager).  The model starts when the        *)
(* lifespan of app/main.py has subscribed both and started bus and manager,*)
(* and follows the steps of the two components until the shutdown.         *)
(***************************************************************************)
EXTENDS Integers, Sequences, FiniteSets, EventChannels

CONSTANTS Sockets,
          RequestOf,        \* RequestOf[s]: the principal and endpoint of s
          Published,        \* the kinds of events published
          Any, Retention, Broadcast,   \* the bus key and the subscriber names
          HistoryLimit,     \* events in the history a join sends
          AskedLimits,      \* events in one a client asks for: _parse_history_limit
          RetentionLimit,   \* event_retention_limit
          QueueSize, MaxEvents, MaxGlobal, MaxPerOrg, MaxSubs

ASSUME StreamingAssumption ==
  /\ RequestOf \in [Sockets -> {r \in Request : Admitted(r)}]
  /\ Published \subseteq EventKind
  /\ Retention # Broadcast
  /\ {HistoryLimit} \cup AskedLimits \subseteq Nat \ {0}
  /\ RetentionLimit \in Nat
  /\ Any \notin Published
  /\ QueueSize \in Nat \ {0} /\ {MaxEvents, MaxGlobal, MaxPerOrg, MaxSubs} \subseteq Nat

VARIABLES
  phase, subscribers, since, kind, queue, current, pending, handled, missed,
  running, connections, subscriptions, members, quiet, handler, link, doomed, beat,
  cast, targets,
  streams,   \* streams[c]: the events retained for channel c, oldest first
  owed,      \* owed[s]: channels whose history the join still has to send
  got,       \* got[s][c]: events s was sent of c, live or as history (history)
  joined,    \* joined[s]: channels s was sent a history of, as long as a join's
             \* or longer, while subscribed
  due        \* the <<s, c, n>> such that event n has waited in the queue while s
             \* had joined c, and s has stayed and not been sent it: for the
             \* properties

Bus == INSTANCE EventBus WITH
         Kinds <- Published, Names <- {Retention, Broadcast}

WS == INSTANCE WebSocketManager WITH
        Channels <- Channel,
        Allowed <- [s \in Sockets |-> EndpointChannels(RequestOf[s])],
        Org <- [s \in Sockets |-> RequestOf[s].org],
        Cleaners <- {}

busVars == <<phase, subscribers, since, kind, queue, current, pending, handled, missed>>
wsVars == <<running, connections, subscriptions, members, quiet, handler, link, doomed,
            beat, cast, targets>>
clientVars == <<owed, got, joined>>
systemVars == <<busVars, wsVars, streams, clientVars>>
vars == <<systemVars, due>>

Retain == <<Any, Retention>>
Cast == <<Any, Broadcast>>

\* lifespan: both subscribed to every event type, then both components started.
Init ==
  /\ phase = "running"
  /\ subscribers = {Retain, Cast}
  /\ due = {}
  /\ since = [b \in Bus!Subscription |-> 0]
  /\ kind = <<>> /\ queue = <<>> /\ current = {} /\ pending = {}
  /\ handled = [b \in Bus!Subscription |-> {}]
  /\ missed = [b \in Bus!Subscription |-> {}]
  /\ WS!Init
  /\ streams = [c \in Channel |-> <<>>]
  /\ owed = [s \in Sockets |-> {}]
  /\ got = [s \in Sockets |-> [c \in Channel |-> {}]]
  /\ joined = [s \in Sockets |-> {}]

TypeOK ==
  /\ Bus!BusTypeOK
  /\ WS!TypeOK
  /\ streams \in [Channel -> Seq(Nat)]
  /\ \A c \in Channel : Len(streams[c]) <= RetentionLimit
  /\ owed \in [Sockets -> SUBSET Channel]
  /\ got \in [Sockets -> [Channel -> SUBSET Nat]]
  /\ joined \in [Sockets -> SUBSET Channel]

-----------------------------------------------------------------------------
(* Events.                                                                 *)

\* The last n elements of a sequence, or all of a shorter one.
Last(seq, n) == SubSeq(seq, IF Len(seq) > n THEN Len(seq) - n + 1 ELSE 1, Len(seq))

Elements(seq) == {seq[i] : i \in DOMAIN seq}

\* Some event is published.
Publish ==
  /\ \E k \in Published : Bus!Publish(k)
  /\ UNCHANGED <<wsVars, streams, clientVars>>

Dispatch ==
  /\ Bus!Take \/ Bus!Finish
  /\ UNCHANGED <<wsVars, streams, clientVars>>

\* Mutant: the streams are not bounded.
RetainForever ==
  /\ Bus!Run(Retain)
  /\ \E n \in current :
       streams' = [c \in Channel |->
                     IF c \in ChannelsOf(kind[n]) THEN Append(streams[c], n) ELSE streams[c]]
  /\ UNCHANGED <<wsVars, clientVars>>

\* StreamRetentionSubscriber.handle: the event joins the streams of its channels.
RetainEvent ==
  /\ Bus!Run(Retain)
  /\ \E n \in current :
       streams' = [c \in Channel |->
                     IF c \in ChannelsOf(kind[n])
                       THEN Last(Append(streams[c], n), RetentionLimit) ELSE streams[c]]
  /\ UNCHANGED <<wsVars, clientVars>>

\* The append cannot fail, so the callback ends after it.
RetentionEnds ==
  /\ current \subseteq handled[Retain]
  /\ Bus!End(Retain)
  /\ UNCHANGED <<wsVars, streams, clientVars>>

\* Mutant: the broadcast may start before the event is retained.
StartsAnyTime == TRUE

\* gather starts the callbacks in the order of subscription, and the retention
\* has no await: it has run when the broadcast starts.
BroadcastStarts == current \subseteq handled[Retain]

\* Mutant: only the platform-wide channels are broadcast on.
BroadcastGlobally ==
  /\ BroadcastStarts
  /\ Bus!Run(Cast)
  /\ \E n \in current : WS!PublishEvent({c \in ChannelsOf(kind[n]) : c[2] = Global})
  /\ UNCHANGED <<streams, clientVars>>

BroadcastEvent ==
  /\ BroadcastStarts
  /\ Bus!Run(Cast)
  /\ \E n \in current : WS!PublishEvent(ChannelsOf(kind[n]))
  /\ UNCHANGED <<streams, clientVars>>

\* publish_event waits for all its broadcasts.
BroadcastOver ==
  /\ current \subseteq handled[Cast]
  /\ \A c \in Channel : cast[c] = "none"
  /\ Bus!End(Cast)
  /\ UNCHANGED <<wsVars, streams, clientVars>>

BroadcastStep ==
  /\ \E c \in Channel : WS!Snapshot(c) \/ WS!BroadcastEnds(c)
  /\ UNCHANGED <<busVars, streams, clientVars>>

Deliver(s) ==
  /\ \E c \in Channel :
       /\ WS!Deliver(c, s)
       /\ got' = IF link[s] = "up" THEN [got EXCEPT ![s][c] = @ \cup current] ELSE got
  /\ UNCHANGED <<busVars, streams, owed, joined>>

-----------------------------------------------------------------------------
(* The endpoint handlers.                                                  *)

Arrive(s) ==
  /\ WS!Arrive(s) \/ WS!AcceptFails(s)
  /\ UNCHANGED <<busVars, streams, clientVars>>

\* The join owes the socket the history of the channels it got.
Register(s) ==
  /\ WS!Register(s)
  /\ owed' = [owed EXCEPT ![s] = subscriptions'[s]]
  /\ UNCHANGED <<busVars, streams, got, joined>>

\* A history message: the last events retained for c, at most limit of them.  The
\* join sends one for each channel it owes, and the read loop answers requests
\* for the channels of the endpoint.
SendHistory(s, c, limit) ==
  /\ WS!Reply(s)
  /\ IF owed[s] # {}
       THEN c \in owed[s] /\ limit = HistoryLimit
       ELSE c \in EndpointChannels(RequestOf[s]) /\ limit \in AskedLimits
  /\ owed' = [owed EXCEPT ![s] = @ \ {c}]
  /\ (handler'[s] = "reading") = (owed'[s] = {})
  /\ IF link[s] = "up"
       THEN /\ got' = [got EXCEPT ![s][c] = @ \cup Elements(Last(streams[c], limit))]
            /\ joined' = IF c \in subscriptions[s] /\ limit >= HistoryLimit
                           THEN [joined EXCEPT ![s] = @ \cup {c}] ELSE joined
       ELSE UNCHANGED <<got, joined>>
  /\ UNCHANGED <<busVars, streams>>

\* Any other message: the acknowledgement, a pong, an answer, an error.
SendOther(s) ==
  /\ WS!Reply(s)
  /\ owed[s] # {} => handler'[s] = "replying"
  /\ UNCHANGED <<busVars, streams, clientVars>>

Converse(s) ==
  /\ WS!Converse(s)
  /\ UNCHANGED <<busVars, streams, clientVars>>

\* A subscribe or unsubscribe message.  A socket that leaves a channel starts
\* over when it comes back; a message that changes nothing is like Converse.
Resubscribe(s, c) ==
  /\ WS!Subscribe(s, c) \/ WS!Unsubscribe(s, c)
  /\ subscriptions'[s] # subscriptions[s]
  /\ got' = [got EXCEPT ![s][c] = {}]
  /\ joined' = [joined EXCEPT ![s] = @ \ {c}]
  /\ UNCHANGED <<busVars, streams, owed>>

Depart(s) ==
  /\ WS!Leave(s) \/ WS!Crash(s) \/ WS!Drop(s)
  /\ UNCHANGED <<busVars, streams, clientVars>>

Pipeline ==
  \/ Dispatch \/ RetainEvent \/ RetentionEnds
  \/ BroadcastEvent \/ BroadcastStep \/ BroadcastOver
  \/ \E s \in Sockets : Deliver(s)

SocketStep(s) ==
  \/ Arrive(s) \/ Register(s) \/ SendOther(s) \/ Converse(s) \/ Depart(s)
  \/ \E c \in Channel : Resubscribe(s, c)
  \/ \E c \in Channel, limit \in {HistoryLimit} \cup AskedLimits : SendHistory(s, c, limit)

\* Event n is one of channel c, which s has joined, and s lacks it.
Lacks(s, c, n) == s \in connections /\ c \in joined[s] /\ c \in ChannelsOf(kind[n]) /\ n \notin got[s][c]

Next ==
  /\ Publish \/ Pipeline \/ \E s \in Sockets : SocketStep(s)
  /\ due' = {d \in Sockets \X Channel \X Bus!Event' :
               Lacks(d[1], d[2], d[3])' /\ (d[3] > Bus!Taken' \/ d \in due)}

Spec == Init /\ [][Next]_vars

\* The bus and its callbacks are never starved, and every send ends.
FairSpec == Spec /\ WF_systemVars(Pipeline)

-----------------------------------------------------------------------------
(* Properties.                                                             *)

\* The dispatch of event n is over.
Settled(n) == n \in Bus!Event /\ n <= Bus!Taken /\ n \notin current

\* What the history of a join holds of a channel with many events.
FullHistory == IF HistoryLimit < RetentionLimit THEN HistoryLimit ELSE RetentionLimit

\* A socket that joined a channel misses nothing from then on.  Of the settled
\* events of the channel it lacks at most those too old for a full history
\* message: whatever the order of its registration, the broadcasts and the
\* history, no event falls between the history and the live stream.
NoGapOnJoin ==
  \A s \in connections : \A c \in joined[s] :
    \A n \in {m \in Bus!Event : Settled(m) /\ c \in ChannelsOf(kind[m])} \ got[s][c] :
      /\ \A m \in got[s][c] : n < m
      /\ Cardinality(got[s][c]) >= FullHistory

\* A socket of a tenant is sent events about its own organization only.
TenantIsolation ==
  \A s \in Sockets : ~RequestOf[s].super =>
    \A c \in Channel : \A n \in got[s][c] : kind[n].org = RequestOf[s].org

\* What makes the two inductive.  The bus runs with its two subscribers, neither
\* of which misses an event; a broadcast is one of the event being dispatched, on
\* one of its channels, and its callback has not ended.
DispatchInv ==
  /\ phase = "running" /\ subscribers = {Retain, Cast}
  /\ \A b \in Bus!Subscription : missed[b] = {} /\ since[b] = 0
  /\ handled[Cast] \subseteq handled[Retain]
  /\ \A c \in Channel :
       /\ cast[c] # "none" =>
            /\ Cast \in pending /\ current # {} /\ current \subseteq handled[Cast]
            /\ \A n \in current : c \in ChannelsOf(kind[n])
       /\ cast[c] # "sending" => targets[c] = {}

RetainedFor(c) == {n \in handled[Retain] : c \in ChannelsOf(kind[n])}

\* The stream of a channel is the latest events retained for it, in order: one
\* that it lacks is older than those of a full stream.
StreamInv ==
  \A c \in Channel :
    /\ \A i \in 1 .. Len(streams[c]) : streams[c][i] \in RetainedFor(c)
    /\ \A i, j \in 1 .. Len(streams[c]) : i < j => streams[c][i] < streams[c][j]
    /\ \A n \in RetainedFor(c) \ Elements(streams[c]) :
         Len(streams[c]) = RetentionLimit /\ \A m \in Elements(streams[c]) : n < m

\* Event n is still to be broadcast on c, or to be sent to s by the broadcast.
Coming(s, c, n) ==
  n \in current /\ (n \notin handled[Cast] \/ cast[c] = "due" \/ s \in targets[c])

\* Of the retained events of a channel a socket lacks only the one that is coming
\* and older ones than it has, and once it has joined it had a full history first.
UpToDate(s, c) ==
  \A n \in RetainedFor(c) \ got[s][c] :
    \/ Coming(s, c, n)
    \/ /\ \A m \in got[s][c] : n < m
       /\ c \in joined[s] => Cardinality(got[s][c]) >= FullHistory

\* A socket joins channels of its endpoint it is subscribed to, after registering.
Enrolled(s) ==
  /\ owed[s] \subseteq EndpointChannels(RequestOf[s])
  /\ handler[s] \in {"away", "accepting"} => joined[s] = {}
  /\ s \in connections => joined[s] \subseteq subscriptions[s]

\* It is sent retained events of its endpoint's channels, and is up to date with
\* those it is subscribed to.
Served(s, c) ==
  /\ got[s][c] \subseteq RetainedFor(c)
  /\ got[s][c] # {} => c \in EndpointChannels(RequestOf[s])
  /\ handler[s] \in {"away", "accepting"} => got[s][c] = {} /\ s \notin targets[c]
  /\ s \in connections /\ c \in subscriptions[s] => UpToDate(s, c)

SocketInv == \A s \in Sockets : Enrolled(s) /\ \A c \in Channel : Served(s, c)

StreamingInv == DispatchInv /\ StreamInv /\ SocketInv

\* An event that waits in the queue while a socket has joined one of its channels
\* reaches the socket, unless the socket leaves the channel or the registry
\* first.  A finite number of events is published, so in the end none is due.
ReachesDashboards == []<>(due = {})
=============================================================================
