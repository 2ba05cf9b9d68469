------------------------------- MODULE EventBus -------------------------------
(***************************************************************************)
(* The in-memory event bus of one worker process (app/events/event_bus.py):*)
(* a bounded queue that publishers put events in without waiting, and one  *)
(* task that takes the events in turn and runs the callbacks of an event's *)
(* subscriptions concurrently, waiting for all of them.                    *)
(*                                                                         *)
(* The event accepted n-th is the number n; kind[n] is its event type.  A  *)
(* subscription is a pair <<key, name>> whose key is an event type or Any  *)
(* (event_type=None): the bus keeps one callback for each such pair.       *)
(***************************************************************************)
EXTENDS Integers, Sequences

CONSTANTS Kinds,       \* event types
          Any,         \* the key of subscriptions to every type
          Names,       \* subscriber names
          QueueSize,   \* event_bus_queue_size
          MaxEvents    \* bound: events accepted

ASSUME EventBusAssumption ==
  /\ Any \notin Kinds
  /\ QueueSize \in Nat \ {0}
  /\ MaxEvents \in Nat

VARIABLES phase,           \* of the bus; "stopping": its worker is cancelled
          subscribers,     \* the pairs subscribed
          since,           \* since[b]: events taken when b was subscribed
          kind,            \* the kinds of the accepted events (history)
          queue,           \* the numbers of the events queued
          current,         \* the event being dispatched, a set of at most one
          pending,         \* the subscriptions whose callback has not ended
          handled,         \* handled[b]: events b's callback has acted on
          missed           \* missed[b]: events b's callback failed to act on,
                           \* or that a stop dropped

busVars ==
  <<phase, subscribers, since, kind, queue, current, pending, handled, missed>>

Subscription == (Kinds \cup {Any}) \X Names

Event == 1 .. Len(kind)

\* The events the worker has taken from the queue, or stop has discarded.
Taken == Len(kind) - Len(queue)

Queued == {queue[i] : i \in DOMAIN queue}

\* The subscriptions an event is dispatched to.
Audience(n) == {b \in subscribers : b[1] \in {Any, kind[n]}}

BusTypeOK ==
  /\ phase \in {"stopped", "running", "stopping"}
  /\ subscribers \in SUBSET Subscription
  /\ since \in [Subscription -> Nat]
  /\ kind \in Seq(Kinds) /\ Len(kind) <= MaxEvents
  /\ queue \in Seq(Event) /\ Len(queue) <= QueueSize /\ Taken \in Nat
  /\ current \in SUBSET Event
  /\ pending \in SUBSET Subscription
  /\ handled \in [Subscription -> SUBSET Event]
  /\ missed \in [Subscription -> SUBSET Event]

BusInit ==
  /\ phase = "stopped"
  /\ subscribers = {}
  /\ since = [b \in Subscription |-> 0]
  /\ kind = <<>>
  /\ queue = <<>>
  /\ current = {}
  /\ pending = {}
  /\ handled = [b \in Subscription |-> {}]
  /\ missed = [b \in Subscription |-> {}]

-----------------------------------------------------------------------------
(* What the rest of the program calls.                                     *)

\* start asks only that the bus is not running.  No start comes during a stop,
\* whose end would drop the new queue: the application's lifespan is the one
\* caller of both, and awaits each (main.py:43 and 60).
BusStart ==
  /\ phase = "stopped"
  /\ phase' = "running"
  /\ UNCHANGED <<subscribers, since, kind, queue, current, pending, handled, missed>>

BusSubscribe(b) ==
  /\ subscribers' = subscribers \cup {b}
  /\ since' = [since EXCEPT ![b] = IF b \in subscribers THEN @ ELSE Taken]
  /\ UNCHANGED <<phase, kind, queue, current, pending, handled, missed>>

BusUnsubscribe(b) ==
  /\ b \in subscribers
  /\ subscribers' = subscribers \ {b}
  /\ UNCHANGED <<phase, since, kind, queue, current, pending, handled, missed>>

\* An event is dropped while the bus is not running and when the queue is full.
Publish(k) ==
  /\ Len(kind) < MaxEvents
  /\ IF phase = "running" /\ Len(queue) < QueueSize
       THEN kind' = Append(kind, k) /\ queue' = Append(queue, Len(kind'))
       ELSE UNCHANGED <<kind, queue>>
  /\ UNCHANGED <<phase, subscribers, since, current, pending, handled, missed>>

\* stop cancels the worker...
BusStop ==
  /\ phase = "running"
  /\ phase' = "stopping"
  /\ UNCHANGED <<subscribers, since, kind, queue, current, pending, handled, missed>>

\* ... and, once the worker and the callbacks it awaits have ended, drops the
\* queue.
Stopped ==
  /\ phase = "stopping"
  /\ phase' = "stopped"
  /\ queue' = <<>>
  /\ current' = {}
  /\ pending' = {}
  /\ missed' = [b \in Subscription |->
                  missed[b] \cup (IF b \in pending THEN current \ handled[b] ELSE {})
                            \cup {n \in Queued : b \in Audience(n)}]
  /\ UNCHANGED <<subscribers, since, kind, handled>>

-----------------------------------------------------------------------------
(* The worker and the callbacks it runs.                                   *)

\* Mutant: the newest event first.
TakeNewest ==
  /\ phase = "running" /\ current = {} /\ queue # <<>>
  /\ current' = {queue[Len(queue)]}
  /\ pending' = Audience(queue[Len(queue)])
  /\ queue' = SubSeq(queue, 1, Len(queue) - 1)
  /\ UNCHANGED <<phase, subscribers, since, kind, handled, missed>>

\* The worker takes an event and starts the callbacks of its audience.
Take ==
  /\ phase = "running" /\ current = {} /\ queue # <<>>
  /\ current' = {Head(queue)}
  /\ pending' = Audience(Head(queue))
  /\ queue' = Tail(queue)
  /\ UNCHANGED <<phase, subscribers, since, kind, handled, missed>>

\* A callback acts on the event...
Run(b) ==
  /\ b \in pending
  /\ \E n \in current \ handled[b] : handled' = [handled EXCEPT ![b] = @ \cup {n}]
  /\ UNCHANGED <<phase, subscribers, since, kind, queue, current, pending, missed>>

\* Mutant: the exception of one callback ends the dispatch.
EndAborts(b) ==
  /\ b \in pending
  /\ pending' = IF current \subseteq handled[b] THEN pending \ {b} ELSE {}
  /\ missed' = [missed EXCEPT ![b] = @ \cup (current \ handled[b])]
  /\ UNCHANGED <<phase, subscribers, since, kind, queue, current, handled>>

\* ... and ends, or raises before it has: gather keeps the exception, and the
\* other callbacks go on.
End(b) ==
  /\ b \in pending
  /\ pending' = pending \ {b}
  /\ missed' = [missed EXCEPT ![b] = @ \cup (current \ handled[b])]
  /\ UNCHANGED <<phase, subscribers, since, kind, queue, current, handled>>

\* Mutant: a callback that raised ends the worker's loop.
FinishUnlessFailed ==
  /\ phase = "running" /\ current # {} /\ pending = {}
  /\ \A b \in Subscription : current \cap missed[b] = {}
  /\ current' = {}
  /\ UNCHANGED <<phase, subscribers, since, kind, queue, pending, handled, missed>>

\* All callbacks have ended: the worker goes on to the next event.
Finish ==
  /\ phase = "running" /\ current # {} /\ pending = {}
  /\ current' = {}
  /\ UNCHANGED <<phase, subscribers, since, kind, queue, pending, handled, missed>>

Callback(b) == Run(b) \/ End(b)

BusNext ==
  \/ BusStart \/ BusStop \/ Stopped
  \/ \E b \in Subscription : BusSubscribe(b) \/ BusUnsubscribe(b)
  \/ \E k \in Kinds : Publish(k)
  \/ Take \/ Finish
  \/ \E b \in Subscription : Callback(b)

\* The worker is never starved, every callback ends and a stop completes.
BusFairness ==
  /\ WF_busVars(Take) /\ WF_busVars(Finish) /\ WF_busVars(Stopped)
  /\ \A b \in Subscription : WF_busVars(End(b))

BusSpec == BusInit /\ [][BusNext]_busVars

BusFairSpec == BusSpec /\ BusFairness

-----------------------------------------------------------------------------
(* Properties.                                                             *)

Ordered == INSTANCE OrderedBroadcast WITH
  Kinds <- Kinds, Any <- Any, Names <- Names, subscriptions <- subscribers,
  since <- since, kind <- kind, handled <- handled, missed <- missed

\* The bus is an ordered broadcast: every subscription acts on the events in the
\* order of their publication, or misses them, and passes over none while it is
\* subscribed, across exceptions, stops and restarts, although the callbacks of
\* an event run concurrently and a stop drops those still queued.
ImplementsBroadcast == Ordered!Spec

\* No event is lost silently.  Whatever other callbacks did, a subscription has
\* acted on every event of its kinds dispatched since it was made, or its
\* callback failed on the event or is still to run, or a stop dropped the event.
Accounted ==
  \A b \in subscribers : \A n \in Event :
    /\ since[b] < n /\ n <= Taken /\ b[1] \in {Any, kind[n]}
    => n \in handled[b] \cup missed[b] \/ (n \in current /\ b \in pending)

\* What makes Accounted inductive and the broadcast ordered: the queue holds the events not
\* yet taken, in order; the event being dispatched is the last one taken; and
\* nobody has acted on, or been subscribed after, an event not yet taken.
QueueInv ==
  /\ \A i \in 1 .. Len(queue) : queue[i] = Taken + i
  /\ \A n \in current : n = Taken
  /\ \A b \in Subscription : since[b] <= Taken
  /\ \A b \in Subscription : \A n \in handled[b] : n <= Taken

\* What makes the broadcast a broadcast: what a subscription missed was taken
\* before, and a callback that has not ended is for an event that its
\* subscription wants and has not missed.
FateInv ==
  /\ \A b \in Subscription : \A n \in missed[b] : n <= Taken
  /\ \A b \in Subscription : handled[b] \cap missed[b] = {}
  /\ \A b \in pending : \A n \in current : b[1] \in {Any, kind[n]} /\ n \notin missed[b]

\* Every event that is accepted is dispatched and finished, unless the bus stops.
EveryEventFinished ==
  \A n \in 1 .. MaxEvents :
    (n \in Event) ~> (n <= Taken /\ n \notin current)
=============================================================================
