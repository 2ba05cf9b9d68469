-------------------------- MODULE WebSocketManager --------------------------
(***************************************************************************)
(* The WebSocket manager of one worker process (app/ws/manager.py) and the *)
(* endpoint handlers that drive it (app/api/routes/ws.py).                 *)
(*                                                                         *)
(* Everything runs on one event loop: a step of this model is what a task  *)
(* does from one await to the next, and the bodies of "async with          *)
(* self._lock" that contain no await are one step.  The tasks are the      *)
(* handler of each socket, the broadcasts of the event being dispatched,   *)
(* the heartbeat loop and the cleaners that look for idle connections.     *)
(***************************************************************************)
EXTENDS Integers, FiniteSets

CONSTANTS Sockets,         \* handshakes: each is one connection, used once
          Channels,
          Allowed,         \* Allowed[s]: the channels of the endpoint s came to
          Org,             \* Org[s]: the organization of its principal
          Cleaners,        \* tasks that run cleanup_idle_connections
          MaxGlobal,       \* ws_max_connections_global
          MaxPerOrg,       \* ws_max_connections_per_org
          MaxSubs          \* ws_max_subscriptions_per_connection

ASSUME WebSocketAssumption ==
  /\ Allowed \in [Sockets -> SUBSET Channels]
  /\ MaxGlobal \in Nat /\ MaxPerOrg \in Nat /\ MaxSubs \in Nat

VARIABLES running,         \* between start and stop
          connections,     \* the registry: the keys of _connections
          subscriptions,   \* subscriptions[s] of the connection object
          members,         \* _channel_members[c]; {} when c has no key
          quiet,           \* last_activity_at is past the idle threshold
          handler,         \* where the endpoint handler of s is
          link,            \* the transport: "up" until either side ends it
          doomed,          \* doomed[k]: stale ids cleaner k has yet to remove
          beat,            \* connections the heartbeat has yet to ping
          cast,            \* cast[c]: the broadcast of the current event on c
          targets          \* targets[c]: members it has yet to send to

registry == <<connections, subscriptions, members, quiet>>
tasks == <<doomed, beat, cast, targets>>
vars == <<running, registry, handler, link, tasks>>

TypeOK ==
  /\ running \in BOOLEAN
  /\ connections \in SUBSET Sockets
  /\ subscriptions \in [Sockets -> SUBSET Channels]
  /\ members \in [Channels -> SUBSET Sockets]
  /\ quiet \in [Sockets -> BOOLEAN]
  /\ handler \in [Sockets -> {"away", "accepting", "replying", "reading", "done"}]
  /\ link \in [Sockets -> {"up", "down"}]
  /\ doomed \in [Cleaners -> SUBSET Sockets]
  /\ beat \in SUBSET Sockets
  /\ cast \in [Channels -> {"none", "due", "sending"}]
  /\ targets \in [Channels -> SUBSET Sockets]

Init ==
  /\ running = TRUE
  /\ connections = {}
  /\ subscriptions = [s \in Sockets |-> {}]
  /\ members = [c \in Channels |-> {}]
  /\ quiet = [s \in Sockets |-> FALSE]
  /\ handler = [s \in Sockets |-> "away"]
  /\ link = [s \in Sockets |-> "up"]
  /\ doomed = [k \in Cleaners |-> {}]
  /\ beat = {}
  /\ cast = [c \in Channels |-> "none"]
  /\ targets = [c \in Channels |-> {}]

-----------------------------------------------------------------------------
(* The registry operations the tasks call, each under the lock.            *)

\* Mutant: disconnect leaves the channel index alone.
DisconnectForgets(s) ==
  connections' = connections \ {s} /\ UNCHANGED <<subscriptions, members, quiet>>

\* disconnect: leaves the registry and the channels it is subscribed to.
Disconnect(s) ==
  /\ connections' = connections \ {s}
  /\ members' = [c \in Channels |->
                   IF s \in connections /\ c \in subscriptions[s]
                     THEN members[c] \ {s} ELSE members[c]]
  /\ UNCHANGED <<subscriptions, quiet>>

\* Mutant: touch puts a connection it does not find into the registry.
TouchRevives(s) ==
  /\ connections' = connections \cup {s}
  /\ quiet' = [quiet EXCEPT ![s] = FALSE]
  /\ UNCHANGED <<subscriptions, members>>

\* touch: a registered connection has been active.
Touch(s) ==
  /\ quiet' = [quiet EXCEPT ![s] = @ /\ s \notin connections]
  /\ UNCHANGED <<connections, subscriptions, members>>

\* Mutant: a failed send is swallowed.
SendIgnoresFailure(s) == Touch(s)

\* send_json: a send that succeeds counts as activity, one that fails
\* removes the connection.
Send(s) == IF link[s] = "up" THEN Touch(s) ELSE Disconnect(s)

-----------------------------------------------------------------------------
(* The handler of a socket.                                                *)

OrgConnections(s) == {t \in connections : Org[t] = Org[s]}

HasRoom(s) ==
  /\ Cardinality(connections) < MaxGlobal
  /\ Cardinality(OrgConnections(s)) < MaxPerOrg

\* connect checks the limits and goes on to accept the handshake, or refuses.
Arrive(s) ==
  /\ running /\ handler[s] = "away"
  /\ handler' = [handler EXCEPT ![s] = IF HasRoom(s) THEN "accepting" ELSE "done"]
  /\ link' = IF HasRoom(s) THEN link ELSE [link EXCEPT ![s] = "down"]
  /\ UNCHANGED <<running, registry, tasks>>

\* The channels a new connection is subscribed to: as many of its endpoint's
\* as the subscription limit leaves room for.
Initial(s) ==
  {S \in SUBSET Allowed[s] :
     Cardinality(S) = IF Cardinality(Allowed[s]) <= MaxSubs
                        THEN Cardinality(Allowed[s]) ELSE MaxSubs}

\* The handshake is accepted; the connection is registered and subscribed.
Register(s) ==
  /\ handler[s] = "accepting"
  /\ \E S \in Initial(s) :
       /\ subscriptions' = [subscriptions EXCEPT ![s] = S]
       /\ members' = [c \in Channels |-> IF c \in S THEN members[c] \cup {s} ELSE members[c]]
  /\ connections' = connections \cup {s}
  /\ quiet' = [quiet EXCEPT ![s] = FALSE]
  /\ handler' = [handler EXCEPT ![s] = "replying"]
  /\ UNCHANGED <<running, link, tasks>>

\* The client went away during the handshake.
AcceptFails(s) ==
  /\ handler[s] = "accepting"
  /\ link[s] = "down"
  /\ handler' = [handler EXCEPT ![s] = "done"]
  /\ UNCHANGED <<running, registry, link, tasks>>

\* The acknowledgement, a history or the reply to a message is sent; another
\* one follows, or the read loop goes on.
Reply(s) ==
  /\ handler[s] = "replying"
  /\ Send(s)
  /\ \E next \in {"replying", "reading"} : handler' = [handler EXCEPT ![s] = next]
  /\ UNCHANGED <<running, link, tasks>>

\* A subscribe message for an allowed channel; refused at the limit, and when
\* the connection is no longer registered.
Subscribe(s, c) ==
  /\ handler[s] = "reading" /\ link[s] = "up"
  /\ c \in Allowed[s]
  /\ IF s \in connections /\ Cardinality(subscriptions[s]) < MaxSubs
       THEN /\ subscriptions' = [subscriptions EXCEPT ![s] = @ \cup {c}]
            /\ members' = [members EXCEPT ![c] = @ \cup {s}]
            /\ quiet' = [quiet EXCEPT ![s] = FALSE]
            /\ UNCHANGED connections
       ELSE Touch(s)
  /\ handler' = [handler EXCEPT ![s] = "replying"]
  /\ UNCHANGED <<running, link, tasks>>

\* An unsubscribe message, for any channel.
Unsubscribe(s, c) ==
  /\ handler[s] = "reading" /\ link[s] = "up"
  /\ IF s \in connections
       THEN /\ subscriptions' = [subscriptions EXCEPT ![s] = @ \ {c}]
            /\ members' = [members EXCEPT ![c] = @ \ {s}]
            /\ quiet' = [quiet EXCEPT ![s] = FALSE]
            /\ UNCHANGED connections
       ELSE UNCHANGED registry
  /\ handler' = [handler EXCEPT ![s] = "replying"]
  /\ UNCHANGED <<running, link, tasks>>

\* Any other message: ping, history, a malformed or unknown one.
Converse(s) ==
  /\ handler[s] = "reading" /\ link[s] = "up"
  /\ Touch(s)
  /\ handler' = [handler EXCEPT ![s] = "replying"]
  /\ UNCHANGED <<running, link, tasks>>

\* The read loop sees the transport closed, or gives up on a silent client.
Leave(s) ==
  /\ handler[s] = "reading"
  /\ Disconnect(s)
  /\ handler' = [handler EXCEPT ![s] = "done"]
  /\ link' = [link EXCEPT ![s] = "down"]
  /\ UNCHANGED <<running, tasks>>

\* The read loop dies of an exception it does not catch (receive_text on a
\* binary frame raises KeyError): the connection stays in the registry.
Crash(s) ==
  /\ handler[s] = "reading"
  /\ handler' = [handler EXCEPT ![s] = "done"]
  /\ link' = [link EXCEPT ![s] = "down"]
  /\ UNCHANGED <<running, registry, tasks>>

-----------------------------------------------------------------------------
(* The event being dispatched: one broadcast per channel of the event.     *)

\* publish_event starts a broadcast on each of the channels in E.
PublishEvent(E) ==
  /\ \A c \in Channels : cast[c] = "none"
  /\ cast' = [c \in Channels |-> IF c \in E THEN "due" ELSE "none"]
  /\ UNCHANGED <<running, registry, handler, link, doomed, beat, targets>>

\* A broadcast takes its snapshot of the members...
Snapshot(c) ==
  /\ cast[c] = "due"
  /\ cast' = [cast EXCEPT ![c] = "sending"]
  /\ targets' = [targets EXCEPT ![c] = members[c] \cap connections]
  /\ UNCHANGED <<running, registry, handler, link, doomed, beat>>

\* ... sends to each of them, whatever happens to the others...
Deliver(c, s) ==
  /\ s \in targets[c]
  /\ Send(s)
  /\ targets' = [targets EXCEPT ![c] = @ \ {s}]
  /\ UNCHANGED <<running, handler, link, doomed, beat, cast>>

\* ... and ends.
BroadcastEnds(c) ==
  /\ cast[c] = "sending" /\ targets[c] = {}
  /\ cast' = [cast EXCEPT ![c] = "none"]
  /\ UNCHANGED <<running, registry, handler, link, doomed, beat, targets>>

-----------------------------------------------------------------------------
(* The background tasks.                                                   *)

\* cleanup_idle_connections lists the stale connections...
Scan(k) ==
  /\ running /\ doomed[k] = {}
  /\ doomed' = [doomed EXCEPT ![k] = {s \in connections : quiet[s]}]
  /\ UNCHANGED <<running, registry, handler, link, beat, cast, targets>>

\* ... and removes them one by one, without looking at them again.
Reap(k, s) ==
  /\ s \in doomed[k]
  /\ Disconnect(s)
  /\ doomed' = [doomed EXCEPT ![k] = @ \ {s}]
  /\ UNCHANGED <<running, handler, link, beat, cast, targets>>

\* The heartbeat loop pings the connections it finds.
Heartbeat ==
  /\ running /\ beat = {}
  /\ beat' = connections
  /\ UNCHANGED <<running, registry, handler, link, doomed, cast, targets>>

Ping(s) ==
  /\ s \in beat
  /\ Send(s)
  /\ beat' = beat \ {s}
  /\ UNCHANGED <<running, handler, link, doomed, cast, targets>>

\* stop: the loops are cancelled, the registry is emptied and the sockets are
\* closed in turn; a close that raises leaves the remaining ones open.  The
\* server ends the handshakes in progress before it runs the shutdown.
Stop ==
  /\ running
  /\ \A s \in Sockets : handler[s] # "accepting"
  /\ running' = FALSE
  /\ connections' = {}
  /\ members' = [c \in Channels |-> {}]
  /\ \E closed \in SUBSET connections :
       /\ closed = connections \/ \E s \in connections : link[s] = "down"
       /\ link' = [s \in Sockets |-> IF s \in closed THEN "down" ELSE link[s]]
  /\ beat' = {}
  /\ doomed' = [k \in Cleaners |-> {}]
  /\ UNCHANGED <<subscriptions, quiet, handler, cast, targets>>

-----------------------------------------------------------------------------
(* The environment.                                                        *)

\* The client or the network ends the transport.
Drop(s) ==
  /\ link[s] = "up" /\ handler[s] \notin {"away", "done"}
  /\ link' = [link EXCEPT ![s] = "down"]
  /\ UNCHANGED <<running, registry, handler, tasks>>

\* ws_idle_timeout_seconds pass without activity on s.
FallQuiet(s) ==
  /\ s \in connections /\ ~quiet[s]
  /\ quiet' = [quiet EXCEPT ![s] = TRUE]
  /\ UNCHANGED <<running, connections, subscriptions, members, handler, link, tasks>>

HandlerStep(s) ==
  \/ Arrive(s) \/ Register(s) \/ AcceptFails(s) \/ Reply(s)
  \/ \E c \in Channels : Subscribe(s, c) \/ Unsubscribe(s, c)
  \/ Converse(s) \/ Leave(s) \/ Crash(s)

BroadcastStep(c) == Snapshot(c) \/ (\E s \in Sockets : Deliver(c, s)) \/ BroadcastEnds(c)

Next ==
  \/ \E s \in Sockets : HandlerStep(s) \/ Ping(s) \/ Drop(s) \/ FallQuiet(s)
  \/ \E E \in (SUBSET Channels) \ {{}} : PublishEvent(E)
  \/ \E c \in Channels : BroadcastStep(c)
  \/ \E k \in Cleaners : Scan(k) \/ \E s \in Sockets : Reap(k, s)
  \/ Heartbeat
  \/ Stop

\* Every broadcast is run, and every send completes or raises: the transport's
\* keep-alive ends a connection that no longer takes data.  The heartbeat loop
\* keeps running.  Nothing is assumed of the clients.
Fairness ==
  /\ \A c \in Channels : WF_vars(BroadcastStep(c))
  /\ WF_vars(Heartbeat)
  /\ \A s \in Sockets : WF_vars(Ping(s))

Spec == Init /\ [][Next]_vars

FairSpec == Spec /\ Fairness

-----------------------------------------------------------------------------
(* Properties.                                                             *)

\* The registry and the channel index never disagree: a socket is a member of
\* exactly the channels it is subscribed to while it is registered, through
\* every interleaving of handlers, broadcasts, reaping and shutdown.
RegistryConsistent ==
  \A s \in Sockets, c \in Channels :
    s \in members[c] <=> s \in connections /\ c \in subscriptions[s]

\* What makes RegistryConsistent inductive: a socket that registers was not in
\* the registry before.
NotYetRegistered ==
  \A s \in Sockets : handler[s] \in {"away", "accepting"} => s \notin connections

RegistryInv == RegistryConsistent /\ NotYetRegistered

\* No socket is sent an event of a channel its endpoint does not allow it.
OnlyAllowed ==
  \A c \in Channels : \A s \in members[c] \cup targets[c] : c \in Allowed[s]

OnlyNewcomersJoin == \A s \in connections' \ connections : handler[s] = "accepting"

\* A connection that has left the registry never comes back: a message it sent
\* before it was removed, handled after, does not register it again.
NoResurrection == [][OnlyNewcomersJoin]_vars

\* The slot of a handler that has ended, whatever ended it, is given back.
SlotReleased ==
  \A s \in Sockets : (handler[s] = "done") ~> (s \notin connections)

\* The connections are never more than the limits allow.
WithinLimits ==
  /\ Cardinality(connections) <= MaxGlobal
  /\ \A s \in Sockets : Cardinality(OrgConnections(s)) <= MaxPerOrg
=============================================================================
