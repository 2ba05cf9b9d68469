------------------------- MODULE EventStreamingProofs -------------------------
(***************************************************************************)
(* Proofs about EventStreaming, for any organizations, sockets, endpoints, *)
(* events and limits.  What is proved of the bus and of the WebSocket      *)
(* manager alone holds here too: every step of the composition is a step   *)
(* of each of them or leaves it alone.                                     *)
(***************************************************************************)
EXTENDS EventStreaming, FiniteSetTheorems, TLAPS

Proved == INSTANCE BusAndSocketProofs WITH
            Kinds <- Published, Names <- {Retention, Broadcast},
            Channels <- Channel,
            Allowed <- [s \in Sockets |-> EndpointChannels(RequestOf[s])],
            Org <- [s \in Sockets |-> RequestOf[s].org],
            Cleaners <- {}

-----------------------------------------------------------------------------
(* The components' assumptions and steps.                                  *)

\* An event's channels and an endpoint's are channels.
LEMMA ChannelsType ==
  /\ \A k \in EventKind : ChannelsOf(k) \in SUBSET Channel /\ ChannelsOf(k) # {}
  /\ \A r \in Request : EndpointChannels(r) \in SUBSET Channel
<1>1. ASSUME NEW k \in EventKind PROVE ChannelsOf(k) \in SUBSET Channel /\ ChannelsOf(k) # {}
  <2>1. k.org \in Orgs \/ (k.org = NoOrg /\ k.type = "system.health.event")
    BY DEF EventKind
  <2>2. TopicsOf(k) \subseteq Topic
    BY DEF TopicsOf, Topic
  <2>3. Home(k) \in Channel
    BY <2>1 DEF Home, Channel, Topic, IntelligenceTypes, PlatformTypes
  <2>4. QED
    BY <2>1, <2>2, <2>3 DEF ChannelsOf, Channel
<1>2. ASSUME NEW r \in Request PROVE EndpointChannels(r) \in SUBSET Channel
  BY DEF Request, EndpointChannels, Channel, Topic
<1>3. QED
  BY <1>1, <1>2

LEMMA RequestType ==
  ASSUME NEW s \in Sockets
  PROVE  /\ RequestOf[s] \in Request /\ Admitted(RequestOf[s])
         /\ EndpointChannels(RequestOf[s]) \in SUBSET Channel
  BY ChannelsType, StreamingAssumption

LEMMA ComponentAssumptions == Proved!EventBusAssumption /\ Proved!WebSocketAssumption
  BY RequestType, StreamingAssumption DEF Proved!EventBusAssumption, Proved!WebSocketAssumption

\* The two instances of each component are the same.
LEMMA SameTypes == (Proved!BusTypeOK <=> Bus!BusTypeOK) /\ (Proved!TypeOK <=> WS!TypeOK)
  BY DEF Proved!BusTypeOK, Bus!BusTypeOK, Proved!Subscription, Bus!Subscription,
         Proved!Event, Bus!Event, Proved!Taken, Bus!Taken, Proved!TypeOK, WS!TypeOK

LEMMA SameBus == [Bus!BusNext]_busVars => [Proved!BusNext]_(Proved!busVars)
  BY DEF busVars, Proved!busVars, Bus!BusNext, Proved!BusNext,
         Bus!BusStart, Proved!BusStart, Bus!BusStop, Proved!BusStop, Bus!Stopped, Proved!Stopped,
         Bus!BusSubscribe, Proved!BusSubscribe, Bus!BusUnsubscribe, Proved!BusUnsubscribe,
         Bus!Publish, Proved!Publish, Bus!Take, Proved!Take, Bus!Finish, Proved!Finish,
         Bus!Callback, Proved!Callback, Bus!Run, Proved!Run, Bus!End, Proved!End,
         Bus!Subscription, Proved!Subscription, Bus!Taken, Proved!Taken,
         Bus!Audience, Proved!Audience, Bus!Queued, Proved!Queued

LEMMA SameCardinality == \A S : WS!Cardinality(S) = Proved!Cardinality(S)
  BY DEF WS!Cardinality, Proved!Cardinality

LEMMA SameRegistry ==
  \A s \in Sockets :
    /\ WS!Touch(s) <=> Proved!Touch(s)
    /\ WS!Disconnect(s) <=> Proved!Disconnect(s)
    /\ WS!Send(s) <=> Proved!Send(s)
    /\ WS!HasRoom(s) <=> Proved!HasRoom(s)
    /\ WS!Initial(s) = Proved!Initial(s)
<1> TAKE s \in Sockets
<1>1. WS!Touch(s) <=> Proved!Touch(s)
  BY DEF WS!Touch, Proved!Touch
<1>2. WS!Disconnect(s) <=> Proved!Disconnect(s)
  BY DEF WS!Disconnect, Proved!Disconnect
<1>3. WS!OrgConnections(s) = Proved!OrgConnections(s)
  BY DEF WS!OrgConnections, Proved!OrgConnections
<1>4. WS!HasRoom(s) <=> Proved!HasRoom(s)
  BY <1>3, SameCardinality DEF WS!HasRoom, Proved!HasRoom
<1>5. WS!Initial(s) = Proved!Initial(s)
  BY SameCardinality DEF WS!Initial, Proved!Initial
<1>6. QED
  BY <1>1, <1>2, <1>4, <1>5 DEF WS!Send, Proved!Send

LEMMA SameHandler == \A s \in Sockets : WS!HandlerStep(s) => Proved!HandlerStep(s)
<1> TAKE s \in Sockets
<1> USE DEF WS!registry, Proved!registry, WS!tasks, Proved!tasks
<1>1. WS!Arrive(s) => Proved!Arrive(s)
  BY SameRegistry DEF WS!Arrive, Proved!Arrive
<1>2. WS!Register(s) => Proved!Register(s)
  BY SameRegistry DEF WS!Register, Proved!Register
<1>3. WS!AcceptFails(s) => Proved!AcceptFails(s)
  BY DEF WS!AcceptFails, Proved!AcceptFails
<1>4. WS!Reply(s) => Proved!Reply(s)
  BY SameRegistry DEF WS!Reply, Proved!Reply
<1>5. \A c \in Channel : WS!Subscribe(s, c) => Proved!Subscribe(s, c)
  BY SameRegistry, SameCardinality DEF WS!Subscribe, Proved!Subscribe
<1>6. \A c \in Channel : WS!Unsubscribe(s, c) => Proved!Unsubscribe(s, c)
  BY DEF WS!Unsubscribe, Proved!Unsubscribe
<1>7. WS!Converse(s) => Proved!Converse(s)
  BY SameRegistry DEF WS!Converse, Proved!Converse
<1>8. WS!Leave(s) => Proved!Leave(s)
  BY SameRegistry DEF WS!Leave, Proved!Leave
<1>9. WS!Crash(s) => Proved!Crash(s)
  BY DEF WS!Crash, Proved!Crash
<1>10. QED
  BY <1>1, <1>2, <1>3, <1>4, <1>5, <1>6, <1>7, <1>8, <1>9
     DEF WS!HandlerStep, Proved!HandlerStep

\* The steps of the manager that the composition takes.
LEMMA SameManager ==
  /\ \A s \in Sockets : WS!HandlerStep(s) \/ WS!Drop(s) => Proved!Next
  /\ \A c \in Channel : WS!BroadcastStep(c) => Proved!Next
  /\ \A E \in SUBSET Channel : E # {} /\ WS!PublishEvent(E) => Proved!Next
<1>1. \A s \in Sockets : WS!Drop(s) => Proved!Drop(s)
  BY DEF WS!Drop, Proved!Drop, WS!registry, Proved!registry, WS!tasks, Proved!tasks
<1>2. \A c \in Channel : WS!BroadcastStep(c) => Proved!BroadcastStep(c)
  BY SameRegistry
     DEF WS!BroadcastStep, Proved!BroadcastStep, WS!Snapshot, Proved!Snapshot, WS!Deliver,
         Proved!Deliver, WS!BroadcastEnds, Proved!BroadcastEnds, WS!registry, Proved!registry
<1>3. \A E \in SUBSET Channel : WS!PublishEvent(E) => Proved!PublishEvent(E)
  BY DEF WS!PublishEvent, Proved!PublishEvent, WS!registry, Proved!registry
<1>4. QED
  BY <1>1, <1>2, <1>3, SameHandler DEF Proved!Next

-----------------------------------------------------------------------------
(* What the components promise, kept by every step of the composition.     *)

Components ==
  /\ Proved!BusTypeOK /\ Proved!QueueInv /\ Proved!Accounted /\ Proved!FateInv
  /\ Proved!IInv /\ Proved!OnlyAllowed

LEMMA Subscribers == Retain \in Bus!Subscription /\ Cast \in Bus!Subscription /\ Retain # Cast
  BY StreamingAssumption DEF Retain, Cast, Bus!Subscription

LEMMA ComponentsInit == Init => Components
<1> SUFFICES ASSUME Init PROVE Components
  OBVIOUS
<1> USE DEF Init
<1>1. Proved!BusTypeOK
  BY Subscribers, StreamingAssumption
     DEF Proved!BusTypeOK, Proved!Subscription, Bus!Subscription, Proved!Event, Proved!Taken
<1>2. Proved!QueueInv /\ Proved!Accounted /\ Proved!FateInv
  BY DEF Proved!QueueInv, Proved!Accounted, Proved!FateInv, Proved!Subscription,
         Bus!Subscription, Proved!Event, Proved!Taken
<1>3. Proved!Init
  BY DEF WS!Init, Proved!Init
<1>4. Proved!IInv
  BY <1>3, ComponentAssumptions, Proved!IInvInit DEF Proved!IInvInit
<1>5. Proved!OnlyAllowed
  BY <1>3 DEF Proved!OnlyAllowed, Proved!Init
<1>6. QED
  BY <1>1, <1>2, <1>4, <1>5 DEF Components

\* What the invariants of the components say in the terms of this module.
LEMMA Facts ==
  ASSUME Components
  PROVE  /\ kind \in Seq(Published) /\ Bus!Taken \in Nat /\ Bus!Taken <= Len(kind)
         /\ handled \in [Bus!Subscription -> SUBSET (1 .. Len(kind))]
         /\ current \in SUBSET (1 .. Len(kind))
         /\ \A n \in current : n = Bus!Taken
         /\ \A b \in Bus!Subscription : \A n \in handled[b] : n <= Bus!Taken
         /\ \A n \in 1 .. Len(kind) :
              /\ kind[n] \in EventKind
              /\ ChannelsOf(kind[n]) \in SUBSET Channel /\ ChannelsOf(kind[n]) # {}
<1> USE DEF Components, Proved!BusTypeOK, Proved!Event, Proved!Taken, Bus!Taken,
            Proved!Subscription, Bus!Subscription, Proved!QueueInv
<1>1. /\ kind \in Seq(Published) /\ Bus!Taken \in Nat /\ Bus!Taken <= Len(kind)
      /\ handled \in [Bus!Subscription -> SUBSET (1 .. Len(kind))]
      /\ current \in SUBSET (1 .. Len(kind))
      /\ \A n \in current : n = Bus!Taken
      /\ \A b \in Bus!Subscription : \A n \in handled[b] : n <= Bus!Taken
  OBVIOUS
<1>2. \A n \in 1 .. Len(kind) : kind[n] \in Published
  BY <1>1
<1>3. QED
  BY <1>1, <1>2, ChannelsType, StreamingAssumption

\* Every step is a step of each component, or leaves it alone.
LEMMA StepOfBoth ==
  ASSUME Components, [Next]_vars
  PROVE  [Bus!BusNext]_busVars /\ [Proved!Next]_(Proved!vars)
<1>1. UNCHANGED wsVars => UNCHANGED Proved!vars
  BY DEF wsVars, Proved!vars, Proved!registry, Proved!tasks
<1>2. CASE Publish
  BY <1>1, <1>2 DEF Publish, Bus!BusNext
<1>3. CASE Dispatch \/ RetainEvent \/ RetentionEnds \/ BroadcastOver
  BY <1>1, <1>3, Subscribers
     DEF Dispatch, RetainEvent, RetentionEnds, BroadcastOver, Bus!BusNext, Bus!Callback
<1>4. CASE BroadcastEvent
  <2>1. PICK n \in current : WS!PublishEvent(ChannelsOf(kind[n]))
    BY <1>4 DEF BroadcastEvent
  <2>2. ChannelsOf(kind[n]) \in SUBSET Channel /\ ChannelsOf(kind[n]) # {}
    BY Facts
  <2>3. Proved!Next
    BY <2>1, <2>2, SameManager
  <2>4. QED
    BY <1>4, <2>3, Subscribers DEF BroadcastEvent, Bus!BusNext, Bus!Callback
<1>5. CASE BroadcastStep \/ \E s \in Sockets : Deliver(s)
  BY <1>5, SameManager DEF BroadcastStep, Deliver, WS!BroadcastStep
<1>6. ASSUME NEW s \in Sockets, SocketStep(s)
      PROVE  [Bus!BusNext]_busVars /\ [Proved!Next]_(Proved!vars)
  <2>1. UNCHANGED busVars
    BY <1>6 DEF SocketStep, Arrive, Register, SendOther, Converse, Depart, SendHistory, Resubscribe
  <2>2. WS!HandlerStep(s) \/ WS!Drop(s)
    BY <1>6 DEF SocketStep, Arrive, Register, SendOther, Converse, Depart, SendHistory,
                Resubscribe, WS!HandlerStep
  <2>3. QED
    BY <2>1, <2>2, SameManager
<1>7. CASE UNCHANGED vars
  BY <1>1, <1>7 DEF vars, systemVars
<1>8. QED
  BY <1>2, <1>3, <1>4, <1>5, <1>6, <1>7 DEF Next, Pipeline

LEMMA ComponentsNext == Components /\ [Next]_vars => Components'
<1> SUFFICES ASSUME Components, [Next]_vars PROVE Components'
  OBVIOUS
<1>1. [Proved!BusNext]_(Proved!busVars) /\ [Proved!Next]_(Proved!vars)
  BY StepOfBoth, SameBus
<1> USE ComponentAssumptions DEF Components
<1>2. Proved!BusTypeOK' /\ Proved!QueueInv'
  BY <1>1, Proved!TypeNext, Proved!QueueNext DEF Proved!TypeNext, Proved!QueueNext
<1>3. Proved!Accounted' /\ Proved!FateInv'
  BY <1>1, Proved!AccountedNext, Proved!FateNext DEF Proved!AccountedNext, Proved!FateNext
<1>4. Proved!IInv' /\ Proved!OnlyAllowed'
  BY <1>1, Proved!IInvNext, Proved!AllowedNext DEF Proved!IInvNext, Proved!AllowedNext
<1>5. QED
  BY <1>2, <1>3, <1>4

\* What they say of the manager.
LEMMA ManagerFacts ==
  ASSUME Components
  PROVE  /\ connections \in SUBSET Sockets
         /\ subscriptions \in [Sockets -> SUBSET Channel]
         /\ members \in [Channel -> SUBSET Sockets]
         /\ targets \in [Channel -> SUBSET Sockets]
         /\ cast \in [Channel -> {"none", "due", "sending"}]
         /\ link \in [Sockets -> {"up", "down"}]
         /\ handler \in [Sockets -> {"away", "accepting", "replying", "reading", "done"}]
         /\ \A s \in Sockets, c \in Channel :
              s \in members[c] <=> s \in connections /\ c \in subscriptions[s]
         /\ \A s \in Sockets : handler[s] \in {"away", "accepting"} => s \notin connections
         /\ \A c \in Channel : \A s \in targets[c] : c \in EndpointChannels(RequestOf[s])
<1> USE DEF Components, Proved!IInv
<1>1. /\ connections \in SUBSET Sockets
      /\ subscriptions \in [Sockets -> SUBSET Channel]
      /\ members \in [Channel -> SUBSET Sockets]
  BY DEF Proved!RegistryType
<1>2. /\ targets \in [Channel -> SUBSET Sockets]
      /\ cast \in [Channel -> {"none", "due", "sending"}]
      /\ link \in [Sockets -> {"up", "down"}]
      /\ handler \in [Sockets -> {"away", "accepting", "replying", "reading", "done"}]
  BY DEF Proved!TaskType
<1>3. /\ \A s \in Sockets, c \in Channel :
           s \in members[c] <=> s \in connections /\ c \in subscriptions[s]
      /\ \A s \in Sockets : handler[s] \in {"away", "accepting"} => s \notin connections
  BY DEF Proved!RegistryInv, Proved!RegistryConsistent, Proved!NotYetRegistered
<1>4. \A c \in Channel : \A s \in targets[c] : c \in EndpointChannels(RequestOf[s])
  BY <1>2 DEF Proved!OnlyAllowed
<1>5. QED
  BY <1>1, <1>2, <1>3, <1>4

-----------------------------------------------------------------------------
(* Histories.                                                              *)

LEMMA LastEffect ==
  ASSUME NEW seq \in Seq(Nat), NEW n \in Nat
  PROVE  /\ Last(seq, n) \in Seq(Nat)
         /\ Len(Last(seq, n)) = IF Len(seq) > n THEN n ELSE Len(seq)
         /\ \A i \in 1 .. Len(Last(seq, n)) :
              /\ i + (Len(seq) - Len(Last(seq, n))) \in 1 .. Len(seq)
              /\ Last(seq, n)[i] = seq[i + (Len(seq) - Len(Last(seq, n)))]
<1> DEFINE from == IF Len(seq) > n THEN Len(seq) - n + 1 ELSE 1
<1>1. from \in 1 .. Len(seq) + 1 /\ Len(seq) \in Nat
  OBVIOUS
<1>2. Last(seq, n) = SubSeq(seq, from, Len(seq))
  BY DEF Last
<1>3. /\ Last(seq, n) \in Seq(Nat) /\ Len(Last(seq, n)) = Len(seq) - from + 1
      /\ \A i \in 1 .. Len(seq) - from + 1 : Last(seq, n)[i] = seq[i + from - 1]
  <2> HIDE DEF from
  <2>1. \A i \in from .. Len(seq) : seq[i] \in Nat
    BY <1>1
  <2>2. SubSeq(seq, from, Len(seq)) \in Seq(Nat) /\ Len(SubSeq(seq, from, Len(seq))) = Len(seq) - from + 1
    BY <1>1, <2>1
  <2>3. \A i \in 1 .. Len(seq) - from + 1 : SubSeq(seq, from, Len(seq))[i] = seq[i + from - 1]
    BY <1>1, <2>1
  <2>4. QED
    BY <1>2, <2>2, <2>3
<1>4. QED
  BY <1>1, <1>3

Increasing(seq) == \A i, j \in 1 .. Len(seq) : i < j => seq[i] < seq[j]

\* An increasing sequence has as many elements as it is long.
LEMMA IncreasingCardinality ==
  ASSUME NEW seq \in Seq(Nat), Increasing(seq)
  PROVE  IsFiniteSet(Elements(seq)) /\ Cardinality(Elements(seq)) = Len(seq)
<1>1. Len(seq) \in Nat /\ DOMAIN seq = 1 .. Len(seq) /\ \A i \in 1 .. Len(seq) : seq[i] \in Nat
  OBVIOUS
<1>2. \A i, j \in 1 .. Len(seq) : i # j => seq[i] # seq[j]
  <2> SUFFICES ASSUME NEW i \in 1 .. Len(seq), NEW j \in 1 .. Len(seq), i # j
               PROVE  seq[i] # seq[j]
    OBVIOUS
  <2>1. i < j \/ j < i
    OBVIOUS
  <2>2. QED
    BY <1>1, <2>1 DEF Increasing
<1>3. seq \in Bijection(1 .. Len(seq), Elements(seq))
  <2>1. seq \in [1 .. Len(seq) -> Elements(seq)]
    BY <1>1 DEF Elements
  <2>2. \A t \in Elements(seq) : \E i \in 1 .. Len(seq) : seq[i] = t
    BY <1>1 DEF Elements
  <2>3. IsInjective(seq)
    BY <1>1, <1>2 DEF IsInjective
  <2>4. QED
    BY <2>1, <2>2, <2>3 DEF Bijection, Injection, Surjection
<1>4. IsFiniteSet(1 .. Len(seq)) /\ Cardinality(1 .. Len(seq)) = Len(seq)
  BY <1>1, FS_Interval
<1>5. QED
  BY <1>3, <1>4, FS_Bijection DEF ExistsBijection

\* The last elements of an increasing sequence: one that is not among them is
\* older than each of them.
LEMMA LastOfIncreasing ==
  ASSUME NEW seq \in Seq(Nat), NEW n \in Nat, Increasing(seq)
  PROVE  /\ Increasing(Last(seq, n))
         /\ Elements(Last(seq, n)) \subseteq Elements(seq)
         /\ \A x \in Elements(seq) \ Elements(Last(seq, n)) :
              Len(Last(seq, n)) = n /\ \A m \in Elements(Last(seq, n)) : x < m
<1> DEFINE last == Last(seq, n)
           o == Len(seq) - Len(last)
<1>1. /\ last \in Seq(Nat) /\ Len(seq) \in Nat /\ Len(last) \in Nat /\ o \in Nat
      /\ Len(last) = IF Len(seq) > n THEN n ELSE Len(seq)
      /\ \A i \in 1 .. Len(last) : i + o \in 1 .. Len(seq) /\ last[i] = seq[i + o]
  <2>1. /\ last \in Seq(Nat) /\ Len(seq) \in Nat
        /\ Len(last) = IF Len(seq) > n THEN n ELSE Len(seq)
    BY LastEffect
  <2>2. \A i \in 1 .. Len(last) : i + o \in 1 .. Len(seq) /\ last[i] = seq[i + o]
    BY LastEffect
  <2> HIDE DEF last
  <2>3. Len(last) \in Nat /\ o \in Nat
    BY <2>1
  <2> HIDE DEF o
  <2>4. QED
    BY <2>1, <2>2, <2>3
<1>2. /\ DOMAIN seq = 1 .. Len(seq) /\ DOMAIN last = 1 .. Len(last)
      /\ \A i \in 1 .. Len(seq) : seq[i] \in Nat
  BY <1>1
<1> HIDE DEF last
<1>o. Len(seq) = o + Len(last)
  BY <1>1
<1> HIDE DEF o
<1>3. /\ o \in Nat /\ Len(seq) = o + Len(last)
      /\ \A i \in 1 .. Len(last) : i + o \in 1 .. Len(seq) /\ last[i] = seq[i + o]
  BY <1>1, <1>o
<1>4. Increasing(last)
  <2> SUFFICES ASSUME NEW i \in 1 .. Len(last), NEW j \in 1 .. Len(last), i < j
               PROVE  last[i] < last[j]
    BY DEF Increasing
  <2>1. i + o < j + o /\ i + o \in 1 .. Len(seq) /\ j + o \in 1 .. Len(seq)
    BY <1>1, <1>3
  <2>2. QED
    BY <1>3, <2>1 DEF Increasing
<1>5. Elements(last) \subseteq Elements(seq)
  BY <1>2, <1>3 DEF Elements
<1>6. ASSUME NEW x \in Elements(seq) \ Elements(last)
      PROVE  Len(last) = n /\ \A m \in Elements(last) : x < m
  <2>1. PICK i \in 1 .. Len(seq) : seq[i] = x
    BY <1>2, <1>6 DEF Elements
  <2>2. i <= o
    <3> SUFFICES ASSUME i > o PROVE FALSE
      BY <1>3, <2>1
    <3>1. i - o \in 1 .. Len(last) /\ (i - o) + o = i
      BY <1>1, <1>3
    <3>2. last[i - o] = x
      BY <1>3, <2>1, <3>1
    <3>3. QED
      BY <1>2, <1>6, <3>1, <3>2 DEF Elements
  <2>3. Len(last) = n
    BY <1>1, <1>3, <2>2
  <2>4. ASSUME NEW j \in 1 .. Len(last) PROVE x < last[j]
    <3>1. j + o \in 1 .. Len(seq) /\ i < j + o
      BY <1>1, <1>3, <2>2
    <3>2. QED
      BY <1>3, <2>1, <3>1 DEF Increasing
  <2>5. QED
    BY <1>2, <2>3, <2>4 DEF Elements
<1>7. QED
  BY <1>4, <1>5, <1>6 DEF last

\* The own variables keep their types.
StreamsType ==
  /\ streams \in [Channel -> Seq(Nat)]
  /\ \A c \in Channel : Len(streams[c]) <= RetentionLimit
  /\ owed \in [Sockets -> SUBSET Channel]
  /\ got \in [Sockets -> [Channel -> SUBSET Nat]]
  /\ joined \in [Sockets -> SUBSET Channel]

\* A history of a channel holds the latest of its events, and a join's is full if
\* one event of the channel is not in it.
LEMMA HistoryLemma ==
  ASSUME StreamsType, StreamInv, Components, NEW c \in Channel, NEW limit \in Nat
  PROVE  /\ Elements(Last(streams[c], limit)) \subseteq RetainedFor(c)
         /\ \A x \in RetainedFor(c) \ Elements(Last(streams[c], limit)) :
              /\ \A m \in Elements(Last(streams[c], limit)) : x < m
              /\ limit >= HistoryLimit =>
                   Cardinality(Elements(Last(streams[c], limit))) >= FullHistory
<1> DEFINE seq == streams[c]
           last == Last(seq, limit)
<1>1. seq \in Seq(Nat) /\ Increasing(seq) /\ Elements(seq) \subseteq RetainedFor(c)
  BY DEF StreamsType, StreamInv, Increasing, Elements
<1>2. /\ Increasing(last)
      /\ Elements(last) \subseteq Elements(seq)
      /\ \A x \in Elements(seq) \ Elements(last) :
           Len(last) = limit /\ \A m \in Elements(last) : x < m
  BY <1>1, LastOfIncreasing
<1>3. /\ last \in Seq(Nat)
      /\ Len(last) = IF Len(seq) > limit THEN limit ELSE Len(seq)
  BY <1>1, LastEffect
<1>4. Cardinality(Elements(last)) = Len(last)
  BY <1>2, <1>3, IncreasingCardinality
<1>5. \A x \in RetainedFor(c) \ Elements(seq) :
        Len(seq) = RetentionLimit /\ \A m \in Elements(seq) : x < m
  BY DEF StreamInv
<1>6. HistoryLimit \in Nat /\ RetentionLimit \in Nat
  BY StreamingAssumption
<1> HIDE DEF last, seq
<1>7. ASSUME NEW x \in RetainedFor(c) \ Elements(last)
      PROVE  /\ \A m \in Elements(last) : x < m
             /\ limit >= HistoryLimit => Cardinality(Elements(last)) >= FullHistory
  <2>1. CASE x \in Elements(seq)
    BY <1>2, <1>4, <1>6, <1>7, <2>1 DEF FullHistory
  <2>2. CASE x \notin Elements(seq)
    BY <1>2, <1>3, <1>4, <1>5, <1>6, <1>7, <2>2 DEF FullHistory
  <2>3. QED
    BY <2>1, <2>2
<1>8. QED
  BY <1>1, <1>2, <1>7 DEF last, seq

-----------------------------------------------------------------------------
(* What the steps leave alone.                                             *)

\* A send keeps the registry but for the socket, which a failure removes.
LEMMA SendFrame ==
  ASSUME NEW s \in Sockets, WS!Send(s) \/ WS!Touch(s) \/ WS!Disconnect(s)
  PROVE  /\ UNCHANGED subscriptions
         /\ connections' \subseteq connections /\ connections \ {s} = connections' \ {s}
         /\ (WS!Send(s) /\ link[s] # "up") => s \notin connections'
  BY DEF WS!Send, WS!Touch, WS!Disconnect

\* A step of a socket's handler leaves the bus, the streams, the broadcasts and
\* the other sockets alone.
LEMMA SocketFrame ==
  ASSUME StreamsType, Components, NEW s \in Sockets, SocketStep(s)
  PROVE  /\ UNCHANGED <<busVars, streams, cast, targets>>
         /\ \A t \in Sockets \ {s} :
              /\ owed'[t] = owed[t] /\ got'[t] = got[t] /\ joined'[t] = joined[t]
              /\ handler'[t] = handler[t] /\ subscriptions'[t] = subscriptions[t]
              /\ t \in connections' <=> t \in connections
<1> DEFINE Alone ==
      /\ UNCHANGED <<busVars, streams, cast, targets>>
      /\ \A t \in Sockets \ {s} :
           /\ owed'[t] = owed[t] /\ got'[t] = got[t] /\ joined'[t] = joined[t]
           /\ handler'[t] = handler[t] /\ subscriptions'[t] = subscriptions[t]
           /\ t \in connections' <=> t \in connections
<1> USE ManagerFacts DEF StreamsType
<1>1. CASE Arrive(s) \/ WS!Crash(s) \/ WS!Drop(s)
  BY <1>1 DEF Arrive, Depart, WS!Arrive, WS!AcceptFails, WS!Crash, WS!Drop, WS!registry, WS!tasks,
              clientVars, SocketStep, Register, SendOther, Converse, Resubscribe, SendHistory,
              WS!Register, WS!Reply, WS!Converse, WS!Leave, WS!Subscribe, WS!Unsubscribe
<1>2. CASE Register(s)
  BY <1>2 DEF Register, WS!Register, WS!tasks
<1>3. CASE SendOther(s)
  BY <1>3, SendFrame DEF SendOther, WS!Reply, WS!tasks, clientVars
<1>4. CASE Converse(s)
  BY <1>4, SendFrame DEF Converse, WS!Converse, WS!tasks, clientVars
<1>5. CASE Depart(s)
  BY <1>5, SendFrame
     DEF Depart, WS!Leave, WS!Crash, WS!Drop, WS!registry, WS!tasks, clientVars
<1>6. ASSUME NEW c \in Channel, Resubscribe(s, c) PROVE Alone
  BY <1>6, SendFrame DEF Resubscribe, WS!Subscribe, WS!Unsubscribe, WS!registry, WS!tasks
<1>7. ASSUME NEW c \in Channel, NEW limit, SendHistory(s, c, limit) PROVE Alone
  BY <1>7, SendFrame DEF SendHistory, WS!Reply, WS!tasks
<1>8. QED
  BY <1>1, <1>2, <1>3, <1>4, <1>5, <1>6, <1>7 DEF SocketStep

LEMMA StreamsTypeInit == Init => StreamsType
  BY StreamingAssumption DEF Init, StreamsType

LEMMA StreamsTypeNext == Components /\ Components' /\ StreamsType /\ [Next]_vars => StreamsType'
<1> SUFFICES ASSUME Components, Components', StreamsType, [Next]_vars PROVE StreamsType'
  OBVIOUS
<1> USE DEF StreamsType
<1>1. CASE Publish \/ Dispatch \/ RetentionEnds \/ BroadcastEvent \/ BroadcastStep \/ BroadcastOver
  BY <1>1 DEF Publish, Dispatch, RetentionEnds, BroadcastEvent, BroadcastStep, BroadcastOver,
              clientVars
<1>2. CASE RetainEvent
  <2>1. PICK n \in current :
          streams' = [c \in Channel |->
                        IF c \in ChannelsOf(kind[n])
                          THEN Last(Append(streams[c], n), RetentionLimit) ELSE streams[c]]
    BY <1>2 DEF RetainEvent
  <2>2. n \in Nat /\ RetentionLimit \in Nat
    BY Facts, StreamingAssumption
  <2>3. ASSUME NEW c \in Channel
        PROVE  /\ Last(Append(streams[c], n), RetentionLimit) \in Seq(Nat)
               /\ Len(Last(Append(streams[c], n), RetentionLimit)) <= RetentionLimit
    <3>1. Append(streams[c], n) \in Seq(Nat)
      BY <2>2
    <3> DEFINE seq == Append(streams[c], n)
    <3> HIDE DEF seq
    <3>2. /\ Last(seq, RetentionLimit) \in Seq(Nat)
          /\ Len(Last(seq, RetentionLimit)) = IF Len(seq) > RetentionLimit
                                                THEN RetentionLimit ELSE Len(seq)
      BY <2>2, <3>1, LastEffect DEF seq
    <3>3. Len(seq) \in Nat
      BY <3>1 DEF seq
    <3>4. QED
      BY <2>2, <3>2, <3>3 DEF seq
  <2>4. UNCHANGED clientVars
    BY <1>2 DEF RetainEvent
  <2>5. QED
    BY <2>1, <2>3, <2>4 DEF clientVars
<1>3. ASSUME NEW s \in Sockets, Deliver(s) PROVE StreamsType'
  BY <1>3, Facts DEF Deliver
<1>4. ASSUME NEW s \in Sockets, SocketStep(s) PROVE StreamsType'
  <2>1. CASE Arrive(s) \/ SendOther(s) \/ Converse(s) \/ Depart(s)
    BY <2>1 DEF Arrive, SendOther, Converse, Depart, clientVars
  <2>2. CASE Register(s)
    <3>1. subscriptions' \in [Sockets -> SUBSET Channel]
      BY DEF Components, Proved!IInv, Proved!RegistryType
    <3>2. QED
      BY <2>2, <3>1 DEF Register
  <2>3. ASSUME NEW c \in Channel, Resubscribe(s, c) PROVE StreamsType'
    BY <2>3 DEF Resubscribe
  <2>4. ASSUME NEW c \in Channel, NEW limit \in {HistoryLimit} \cup AskedLimits,
               SendHistory(s, c, limit)
        PROVE  StreamsType'
    <3>1. limit \in Nat /\ streams[c] \in Seq(Nat)
      BY StreamingAssumption
    <3>2. Last(streams[c], limit) \in Seq(Nat)
      BY <3>1, LastEffect
    <3>3. Elements(Last(streams[c], limit)) \subseteq Nat
      BY <3>2 DEF Elements
    <3> DEFINE sent == Elements(Last(streams[c], limit))
    <3>a. \/ got' = got /\ joined' = joined
          \/ /\ got' = [got EXCEPT ![s][c] = @ \cup sent]
             /\ joined' = [joined EXCEPT ![s] = @ \cup {c}] \/ joined' = joined
      BY <2>4 DEF SendHistory
    <3> HIDE DEF sent
    <3>4. got' \in [Sockets -> [Channel -> SUBSET Nat]] /\ joined' \in [Sockets -> SUBSET Channel]
      <4>1. sent \subseteq Nat
        BY <3>3 DEF sent
      <4>2. [got EXCEPT ![s][c] = @ \cup sent] \in [Sockets -> [Channel -> SUBSET Nat]]
        BY <4>1
      <4>3. got' \in [Sockets -> [Channel -> SUBSET Nat]]
        BY <3>a, <4>2, Zenon DEF StreamsType
      <4>4. [joined EXCEPT ![s] = @ \cup {c}] \in [Sockets -> SUBSET Channel]
        OBVIOUS
      <4>5. joined' \in [Sockets -> SUBSET Channel]
        BY <3>a, <4>4, Zenon DEF StreamsType
      <4>6. QED
        BY <4>3, <4>5
    <3>5. owed' \in [Sockets -> SUBSET Channel] /\ streams' = streams
      BY <2>4 DEF SendHistory
    <3>6. QED
      BY <3>4, <3>5
  <2>5. QED
    BY <1>4, <2>1, <2>2, <2>3, <2>4 DEF SocketStep
<1>5. CASE UNCHANGED vars
  BY <1>5 DEF vars, systemVars, clientVars
<1>6. QED
  BY <1>1, <1>2, <1>3, <1>4, <1>5 DEF Next, Pipeline

-----------------------------------------------------------------------------
(* The dispatch and the streams.                                           *)

LEMMA StreamingInit == Init => StreamingInv
<1> SUFFICES ASSUME Init PROVE StreamingInv
  OBVIOUS
<1> USE DEF Init, WS!Init
<1>1. DispatchInv
  BY Subscribers DEF DispatchInv
<1>2. \A c \in Channel : RetainedFor(c) = {}
  BY Subscribers DEF RetainedFor
<1>3. StreamInv
  BY <1>2 DEF StreamInv
<1>4. SocketInv
  BY <1>2 DEF SocketInv, Enrolled, Served, UpToDate
<1>5. QED
  BY <1>1, <1>3, <1>4 DEF StreamingInv

\* When no callback is left to run, both have acted on the event.
LEMMA AllHandled ==
  ASSUME Components, DispatchInv, pending = {}
  PROVE  current \subseteq handled[Cast] /\ current \subseteq handled[Retain]
<1> SUFFICES ASSUME NEW n \in current, NEW b \in {Retain, Cast} PROVE n \in handled[b]
  OBVIOUS
<1>1. n \in 1 .. Len(kind) /\ n = Bus!Taken
  BY Facts
<1>2. b \in subscribers /\ b[1] = Any /\ since[b] = 0 /\ missed[b] = {}
  BY Subscribers DEF DispatchInv, Retain, Cast
<1>3. since[b] < n /\ n <= Proved!Taken
  BY <1>1, <1>2 DEF Proved!Taken, Bus!Taken
<1>4. n \in handled[b] \cup missed[b] \/ (n \in current /\ b \in pending)
  BY <1>1, <1>2, <1>3 DEF Components, Proved!Accounted, Proved!Event
<1>5. QED
  BY <1>2, <1>4

\* What the bus's steps change, by the callback that takes them.
LEMMA RunEffect ==
  ASSUME Components, NEW b \in {Retain, Cast}, Bus!Run(b)
  PROVE  \E n \in current :
           /\ current = {n} /\ n \notin handled[b] /\ b \in pending
           /\ handled' = [handled EXCEPT ![b] = @ \cup {n}]
           /\ UNCHANGED <<phase, subscribers, since, kind, queue, current, pending, missed>>
<1>1. PICK n \in current \ handled[b] : handled' = [handled EXCEPT ![b] = @ \cup {n}]
  BY DEF Bus!Run
<1>2. current = {n}
  BY Facts
<1>3. QED
  BY <1>1, <1>2 DEF Bus!Run

LEMMA DispatchNext ==
  Components /\ Components' /\ StreamsType /\ DispatchInv /\ [Next]_vars => DispatchInv'
<1> SUFFICES ASSUME Components, Components', StreamsType, DispatchInv, [Next]_vars
             PROVE  DispatchInv'
  OBVIOUS
<1> USE Subscribers DEF DispatchInv
<1>1. CASE Publish
  <2>1. PICK k \in Published : Bus!Publish(k)
    BY <1>1 DEF Publish
  <2>2. UNCHANGED <<cast, targets, phase, subscribers, since, current, pending, handled, missed>>
    BY <1>1, <2>1 DEF Publish, wsVars, Bus!Publish
  <2>3. \A n \in current : kind'[n] = kind[n]
    <3>1. kind' = kind \/ kind' = Append(kind, k)
      BY <2>1 DEF Bus!Publish
    <3>2. QED
      BY <3>1, Facts
  <2>4. QED
    BY <2>2, <2>3
<1>2. CASE Dispatch
  <2>1. UNCHANGED <<cast, targets, phase, subscribers, since, kind, handled, missed>>
    BY <1>2 DEF Dispatch, wsVars, Bus!Take, Bus!Finish
  <2>2. current = {} \/ pending = {}
    BY <1>2 DEF Dispatch, Bus!Take, Bus!Finish
  <2>3. \A c \in Channel : cast[c] = "none"
    BY <2>2
  <2>4. QED
    BY <2>1, <2>3
<1>3. CASE RetainEvent
  <2>1. PICK n \in current :
           /\ handled' = [handled EXCEPT ![Retain] = @ \cup {n}]
           /\ UNCHANGED <<phase, subscribers, since, kind, queue, current, pending, missed>>
    BY <1>3, RunEffect DEF RetainEvent
  <2>2. UNCHANGED <<cast, targets>>
    BY <1>3 DEF RetainEvent, wsVars
  <2>3. handled'[Cast] = handled[Cast] /\ handled[Retain] \subseteq handled'[Retain]
    BY <2>1, Facts
  <2>4. QED
    BY <2>1, <2>2, <2>3
<1>4. CASE RetentionEnds \/ BroadcastOver
  <2>1. PICK b \in {Retain, Cast} : Bus!End(b) /\ current \subseteq handled[b]
    BY <1>4 DEF RetentionEnds, BroadcastOver
  <2>2. b = Cast => \A c \in Channel : cast[c] = "none"
    BY <1>4, <2>1 DEF RetentionEnds, BroadcastOver, Bus!End
  <2>3. /\ UNCHANGED <<cast, targets, phase, subscribers, since, kind, handled, current>>
        /\ pending' = pending \ {b}
    BY <1>4, <2>1 DEF RetentionEnds, BroadcastOver, wsVars, Bus!End
  <2>4. \A a \in Bus!Subscription : missed'[a] = {}
    <3>1. missed \in [Bus!Subscription -> SUBSET (1 .. Len(kind))]
      BY DEF Components, Proved!BusTypeOK, Proved!Subscription, Bus!Subscription, Proved!Event
    <3>2. missed' = [missed EXCEPT ![b] = @ \cup (current \ handled[b])]
      BY <2>1 DEF Bus!End
    <3>3. QED
      BY <2>1, <3>1, <3>2
  <2>5. \A c \in Channel : cast[c] # "none" => b # Cast
    BY <2>2
  <2>6. QED
    BY <2>3, <2>4, <2>5
<1>5. CASE BroadcastEvent
  <2>1. PICK n \in current :
           /\ current = {n}
           /\ handled' = [handled EXCEPT ![Cast] = @ \cup {n}] /\ Cast \in pending
           /\ UNCHANGED <<phase, subscribers, since, kind, queue, current, pending, missed>>
    BY <1>5, RunEffect DEF BroadcastEvent
  <2>2. WS!PublishEvent(ChannelsOf(kind[n]))
    BY <1>5, <2>1 DEF BroadcastEvent
  <2>3. /\ \A c \in Channel : cast[c] = "none"
        /\ cast' = [c \in Channel |-> IF c \in ChannelsOf(kind[n]) THEN "due" ELSE "none"]
        /\ UNCHANGED targets
    BY <2>2 DEF WS!PublishEvent
  <2>4. /\ handled'[Retain] = handled[Retain] /\ handled'[Cast] = handled[Cast] \cup {n}
        /\ n \in handled[Retain]
    BY <1>5, <2>1, Facts DEF BroadcastEvent, BroadcastStarts
  <2>5. QED
    BY <2>1, <2>3, <2>4
<1>6. CASE BroadcastStep \/ \E s \in Sockets : Deliver(s)
  <2>1. UNCHANGED <<phase, subscribers, since, kind, current, pending, handled, missed>>
    BY <1>6 DEF BroadcastStep, Deliver, busVars
  <2>2. \A c \in Channel :
          /\ cast'[c] # "none" => cast[c] # "none"
          /\ cast'[c] # "sending" => targets'[c] = {}
    <3>1. ASSUME NEW d \in Channel, WS!Snapshot(d) \/ WS!BroadcastEnds(d),
                 NEW c \in Channel
          PROVE  /\ cast'[c] # "none" => cast[c] # "none"
                 /\ cast'[c] # "sending" => targets'[c] = {}
      BY <3>1, ManagerFacts DEF WS!Snapshot, WS!BroadcastEnds
    <3>2. ASSUME NEW d \in Channel, NEW s \in Sockets, WS!Deliver(d, s), NEW c \in Channel
          PROVE  /\ cast'[c] # "none" => cast[c] # "none"
                 /\ cast'[c] # "sending" => targets'[c] = {}
      BY <3>2, ManagerFacts DEF WS!Deliver
    <3>3. QED
      BY <1>6, <3>1, <3>2 DEF BroadcastStep, Deliver
  <2>3. QED
    BY <2>1, <2>2
<1>7. ASSUME NEW s \in Sockets, SocketStep(s) PROVE DispatchInv'
  BY <1>7, SocketFrame DEF busVars
<1>8. CASE UNCHANGED vars
  BY <1>8 DEF vars, systemVars, busVars, wsVars
<1>9. QED
  BY <1>1, <1>2, <1>3, <1>4, <1>5, <1>6, <1>7, <1>8 DEF Next, Pipeline

\* The events retained for a channel change only when one is retained.
LEMMA RetainedFrame ==
  ASSUME Components, [Next]_vars, ~RetainEvent, NEW c \in Channel
  PROVE  RetainedFor(c)' = RetainedFor(c)
<1>1. handled'[Retain] = handled[Retain]
  <2>1. CASE BroadcastEvent
    BY <2>1, RunEffect, Facts, Subscribers DEF BroadcastEvent
  <2>2. CASE Publish \/ Dispatch \/ RetentionEnds \/ BroadcastOver
    BY <2>2 DEF Publish, Bus!Publish, Dispatch, Bus!Take, Bus!Finish, RetentionEnds, BroadcastOver, Bus!End
  <2>3. CASE BroadcastStep \/ \E s \in Sockets : Deliver(s)
    BY <2>3 DEF BroadcastStep, Deliver, busVars
  <2>4. ASSUME NEW s \in Sockets, SocketStep(s) PROVE UNCHANGED busVars
    BY <2>4 DEF SocketStep, Arrive, Register, SendOther, Converse, Depart, SendHistory, Resubscribe
  <2>5. QED
    BY <2>1, <2>2, <2>3, <2>4 DEF Next, Pipeline, vars, systemVars, busVars
<1>2. \A n \in handled[Retain] : kind'[n] = kind[n]
  <2>1. UNCHANGED kind \/ \E k \in Published : Bus!Publish(k)
    <3>1. CASE Publish
      BY <3>1 DEF Publish
    <3>2. CASE Dispatch \/ RetentionEnds \/ BroadcastOver \/ BroadcastEvent
      BY <3>2 DEF Dispatch, Bus!Take, Bus!Finish, RetentionEnds, BroadcastOver, Bus!End,
                  BroadcastEvent, Bus!Run
    <3>3. CASE BroadcastStep \/ \E s \in Sockets : Deliver(s)
      BY <3>3 DEF BroadcastStep, Deliver, busVars
    <3>4. ASSUME NEW s \in Sockets, SocketStep(s) PROVE UNCHANGED busVars
      BY <3>4 DEF SocketStep, Arrive, Register, SendOther, Converse, Depart, SendHistory, Resubscribe
    <3>5. QED
      BY <3>1, <3>2, <3>3, <3>4 DEF Next, Pipeline, vars, systemVars, busVars
  <2>2. handled[Retain] \subseteq 1 .. Len(kind) /\ kind \in Seq(Published)
    BY Facts, Subscribers
  <2>3. ASSUME NEW k \in Published, Bus!Publish(k), NEW n \in handled[Retain]
        PROVE  kind'[n] = kind[n]
    <3>1. kind' = kind \/ kind' = Append(kind, k)
      BY <2>3 DEF Bus!Publish
    <3>2. QED
      BY <3>1, <2>2
  <2>4. QED
    BY <2>1, <2>3
<1>3. QED
  BY <1>1, <1>2 DEF RetainedFor

\* An event that is retained is newer than all those retained before.
LEMMA RetainedGrows ==
  ASSUME Components, RetainEvent
  PROVE  \E n \in current :
           /\ current = {n} /\ n \in Nat /\ n \notin handled[Retain]
           /\ streams' = [c \in Channel |->
                            IF c \in ChannelsOf(kind[n])
                              THEN Last(Append(streams[c], n), RetentionLimit) ELSE streams[c]]
           /\ \A c \in Channel :
                /\ RetainedFor(c)' = RetainedFor(c)
                                       \cup (IF c \in ChannelsOf(kind[n]) THEN {n} ELSE {})
                /\ \A m \in RetainedFor(c) : m \in Nat /\ m < n
           /\ handled'[Cast] = handled[Cast] /\ UNCHANGED <<current, wsVars, clientVars>>
<1>1. PICK n \in current :
        /\ current = {n} /\ n \notin handled[Retain]
        /\ handled' = [handled EXCEPT ![Retain] = @ \cup {n}]
        /\ UNCHANGED <<phase, subscribers, since, kind, queue, current, pending, missed>>
  BY RunEffect DEF RetainEvent
<1>2. streams' = [c \in Channel |->
                    IF c \in ChannelsOf(kind[n])
                      THEN Last(Append(streams[c], n), RetentionLimit) ELSE streams[c]]
  BY <1>1 DEF RetainEvent
<1>3. handled'[Retain] = handled[Retain] \cup {n} /\ handled'[Cast] = handled[Cast]
  BY <1>1, Facts, Subscribers
<1>4. \A m \in handled[Retain] : m \in Nat /\ m < n
  <2>1. handled[Retain] \subseteq 1 .. Len(kind) /\ \A m \in handled[Retain] : m <= Bus!Taken
    BY Facts, Subscribers
  <2>2. n = Bus!Taken /\ Bus!Taken \in Nat
    BY Facts
  <2>3. QED
    BY <1>1, <2>1, <2>2
<1>5. \A c \in Channel :
        /\ RetainedFor(c)' = RetainedFor(c)
                               \cup (IF c \in ChannelsOf(kind[n]) THEN {n} ELSE {})
        /\ \A m \in RetainedFor(c) : m \in Nat /\ m < n
  BY <1>1, <1>3, <1>4 DEF RetainedFor
<1>6. n \in Nat
  BY Facts
<1>7. QED
  BY <1>1, <1>2, <1>3, <1>5, <1>6 DEF RetainEvent

LEMMA StreamNext ==
  Components /\ StreamsType /\ StreamInv /\ [Next]_vars => StreamInv'
<1> SUFFICES ASSUME Components, StreamsType, StreamInv, [Next]_vars PROVE StreamInv'
  OBVIOUS
<1>1. CASE ~RetainEvent
  <2>1. UNCHANGED streams
    <3>1. ASSUME NEW s \in Sockets, SocketStep(s) PROVE UNCHANGED streams
      BY <3>1, SocketFrame
    <3>2. QED
      BY <1>1, <3>1
         DEF Next, Pipeline, vars, systemVars, Publish, Dispatch, RetentionEnds, BroadcastEvent,
             BroadcastStep, BroadcastOver, Deliver
  <2>2. \A c \in Channel : RetainedFor(c)' = RetainedFor(c)
    BY <1>1, RetainedFrame
  <2>3. QED
    BY <2>1, <2>2 DEF StreamInv, Elements
<1>2. CASE RetainEvent
  <2>1. PICK n \in current :
          /\ n \in Nat
          /\ streams' = [c \in Channel |->
                           IF c \in ChannelsOf(kind[n])
                             THEN Last(Append(streams[c], n), RetentionLimit) ELSE streams[c]]
          /\ \A c \in Channel :
               /\ RetainedFor(c)' = RetainedFor(c)
                                      \cup (IF c \in ChannelsOf(kind[n]) THEN {n} ELSE {})
               /\ \A m \in RetainedFor(c) : m \in Nat /\ m < n
    BY <1>2, RetainedGrows
  <2>2. ASSUME NEW c \in Channel
        PROVE  /\ \A i \in 1 .. Len(streams'[c]) : streams'[c][i] \in RetainedFor(c)'
               /\ \A i, j \in 1 .. Len(streams'[c]) : i < j => streams'[c][i] < streams'[c][j]
               /\ \A x \in RetainedFor(c)' \ Elements(streams'[c]) :
                    Len(streams'[c]) = RetentionLimit /\ \A m \in Elements(streams'[c]) : x < m
    <3>1. CASE c \notin ChannelsOf(kind[n])
      <4>1. streams'[c] = streams[c] /\ RetainedFor(c)' = RetainedFor(c)
        BY <2>1, <3>1
      <4>2. QED
        BY <4>1 DEF StreamInv
    <3>2. CASE c \in ChannelsOf(kind[n])
      <4> DEFINE old == streams[c]
                 seq == Append(old, n)
                 last == Last(seq, RetentionLimit)
      <4>1. streams'[c] = last /\ RetainedFor(c)' = RetainedFor(c) \cup {n}
        BY <2>1, <3>2
      <4>2. old \in Seq(Nat) /\ RetentionLimit \in Nat /\ Len(old) <= RetentionLimit
        BY StreamingAssumption DEF StreamsType
      <4>3. /\ \A i \in 1 .. Len(old) : old[i] \in RetainedFor(c)
            /\ \A i, j \in 1 .. Len(old) : i < j => old[i] < old[j]
            /\ \A x \in RetainedFor(c) \ Elements(old) :
                 Len(old) = RetentionLimit /\ \A m \in Elements(old) : x < m
        BY DEF StreamInv
      <4>4. \A m \in RetainedFor(c) : m \in Nat /\ m < n
        BY <2>1
      <4> HIDE DEF old
      <4>5. /\ seq \in Seq(Nat) /\ Len(seq) = Len(old) + 1 /\ DOMAIN seq = 1 .. Len(seq)
            /\ seq[Len(old) + 1] = n /\ \A i \in 1 .. Len(old) : seq[i] = old[i]
            /\ DOMAIN old = 1 .. Len(old) /\ Len(old) \in Nat
        BY <2>1, <4>2
      <4> HIDE DEF seq
      <4>6. Increasing(seq)
        <5> SUFFICES ASSUME NEW i \in 1 .. Len(seq), NEW j \in 1 .. Len(seq), i < j
                     PROVE  seq[i] < seq[j]
          BY DEF Increasing
        <5>1. i \in 1 .. Len(old)
          BY <4>5
        <5>2. CASE j = Len(old) + 1
          BY <4>3, <4>4, <4>5, <5>1, <5>2
        <5>3. CASE j \in 1 .. Len(old)
          BY <4>3, <4>5, <5>1, <5>3
        <5>4. QED
          BY <4>5, <5>2, <5>3
      <4>7. Elements(seq) = Elements(old) \cup {n}
        <5>1. \A i \in 1 .. Len(seq) : i \in 1 .. Len(old) \/ i = Len(old) + 1
          BY <4>5
        <5>2. 1 .. Len(old) \subseteq 1 .. Len(seq) /\ Len(old) + 1 \in 1 .. Len(seq)
          BY <4>5
        <5>3. QED
          BY <4>5, <5>1, <5>2 DEF Elements
      <4>8. /\ Increasing(last) /\ Elements(last) \subseteq Elements(seq)
            /\ \A x \in Elements(seq) \ Elements(last) :
                 Len(last) = RetentionLimit /\ \A m \in Elements(last) : x < m
        BY <4>2, <4>5, <4>6, LastOfIncreasing
      <4>9. /\ last \in Seq(Nat)
            /\ Len(last) = IF Len(seq) > RetentionLimit THEN RetentionLimit ELSE Len(seq)
        BY <4>2, <4>5, LastEffect
      <4> HIDE DEF last
      <4>10. Elements(last) \subseteq RetainedFor(c)'
        <5>1. Elements(old) \subseteq RetainedFor(c)
          BY <4>3, <4>5 DEF Elements
        <5>2. QED
          BY <4>1, <4>7, <4>8, <5>1
      <4>11. \A i \in 1 .. Len(last) : last[i] \in RetainedFor(c)'
        BY <4>9, <4>10 DEF Elements
      <4>12. ASSUME NEW x \in RetainedFor(c)' \ Elements(last)
             PROVE  Len(last) = RetentionLimit /\ \A m \in Elements(last) : x < m
        <5>1. CASE x \in Elements(seq)
          BY <4>8, <4>12, <5>1
        <5>2. CASE x \notin Elements(seq)
          <6>1. x \in RetainedFor(c) \ Elements(old)
            BY <4>1, <4>7, <4>12, <5>2
          <6>2. Len(old) = RetentionLimit /\ \A m \in Elements(old) : x < m
            BY <4>3, <6>1
          <6>3. Len(last) = RetentionLimit
            BY <4>2, <4>5, <4>9, <6>2
          <6>4. QED
            BY <4>4, <4>7, <4>8, <6>1, <6>2, <6>3
        <5>3. QED
          BY <5>1, <5>2
      <4>13. QED
        BY <4>1, <4>8, <4>11, <4>12 DEF Increasing
    <3>3. QED
      BY <3>1, <3>2
  <2>3. QED
    BY <2>2 DEF StreamInv, Elements
<1>3. QED
  BY <1>1, <1>2

-----------------------------------------------------------------------------
(* The sockets.                                                            *)

\* A socket stays served if it was sent nothing new: an event that was coming is
\* still coming, and so is one that is newly retained.
LEMMA StaysServed ==
  ASSUME NEW s \in Sockets, NEW c \in Channel, Served(s, c),
         got'[s][c] = got[s][c],
         c \in joined'[s] => c \in joined[s],
         RetainedFor(c) \subseteq RetainedFor(c)',
         handler'[s] \in {"away", "accepting"} =>
           handler[s] \in {"away", "accepting"} /\ (s \in targets'[c] => s \in targets[c]),
         s \in connections' /\ c \in subscriptions'[s] =>
           /\ s \in connections /\ c \in subscriptions[s]
           /\ \A n \in RetainedFor(c)' :
                Coming(s, c, n)' \/ (n \in RetainedFor(c) /\ ~Coming(s, c, n))
  PROVE  Served(s, c)'
<1>1. ASSUME s \in connections', c \in subscriptions'[s] PROVE UpToDate(s, c)'
  <2>1. UpToDate(s, c)
    BY <1>1 DEF Served
  <2>2. SUFFICES ASSUME NEW n \in RetainedFor(c)' \ got'[s][c], ~Coming(s, c, n)'
                 PROVE  /\ \A m \in got'[s][c] : n < m
                        /\ c \in joined'[s] => Cardinality(got'[s][c]) >= FullHistory
    BY DEF UpToDate, FullHistory
  <2>3. n \in RetainedFor(c) \ got[s][c] /\ ~Coming(s, c, n)
    BY <1>1, <2>2
  <2>4. QED
    BY <2>1, <2>3 DEF UpToDate
<1>2. QED
  BY <1>1 DEF Served

\* It stays served if it is sent retained events, and what it then lacks is older
\* than they are: enough of them, or it was up to date before.
LEMMA SentServed ==
  ASSUME Components, Components', NEW s \in Sockets, NEW c \in Channel, NEW new,
         Served(s, c), RetainedFor(c)' = RetainedFor(c),
         got'[s][c] = got[s][c] \cup new, new \subseteq RetainedFor(c),
         c \in EndpointChannels(RequestOf[s]),
         handler'[s] \notin {"away", "accepting"},
         s \in connections' /\ c \in subscriptions'[s] =>
           s \in connections /\ c \in subscriptions[s],
         \A n \in RetainedFor(c) \ (got[s][c] \cup new) :
           /\ Coming(s, c, n) => Coming(s, c, n)'
           /\ \A m \in new : n < m
           /\ c \in joined'[s] => c \in joined[s] \/ Cardinality(new) >= FullHistory
  PROVE  Served(s, c)'
<1>1. IsFiniteSet(got'[s][c]) /\ IsFiniteSet(new) /\ IsFiniteSet(got[s][c])
  <2>1. got'[s][c] \subseteq 1 .. Len(kind) /\ Len(kind) \in Nat
    BY Facts, Subscribers DEF Served, RetainedFor
  <2>2. IsFiniteSet(1 .. Len(kind))
    BY <2>1, FS_Interval
  <2>3. got[s][c] \subseteq 1 .. Len(kind) /\ new \subseteq 1 .. Len(kind)
    BY <2>1
  <2>4. QED
    BY <2>1, <2>2, <2>3, FS_Subset
<1>2. /\ Cardinality(got'[s][c]) \in Nat /\ Cardinality(got[s][c]) \in Nat /\ Cardinality(new) \in Nat
      /\ Cardinality(got'[s][c]) >= Cardinality(got[s][c])
      /\ Cardinality(got'[s][c]) >= Cardinality(new)
  BY <1>1, FS_Subset, FS_CardinalityType
<1>3. FullHistory \in Nat
  BY StreamingAssumption DEF FullHistory
<1>4. ASSUME s \in connections', c \in subscriptions'[s] PROVE UpToDate(s, c)'
  <2>1. UpToDate(s, c)
    BY <1>4 DEF Served
  <2>2. SUFFICES ASSUME NEW n \in RetainedFor(c)' \ got'[s][c], ~Coming(s, c, n)'
                 PROVE  /\ \A m \in got'[s][c] : n < m
                        /\ c \in joined'[s] => Cardinality(got'[s][c]) >= FullHistory
    BY DEF UpToDate, FullHistory
  <2>3. n \in RetainedFor(c) \ got[s][c] /\ n \notin new /\ ~Coming(s, c, n)
    BY <2>2
  <2>4. /\ \A m \in got[s][c] : n < m
        /\ c \in joined[s] => Cardinality(got[s][c]) >= FullHistory
    BY <2>1, <2>3 DEF UpToDate
  <2>5. QED
    BY <1>2, <1>3, <2>3, <2>4
<1>5. QED
  BY <1>4 DEF Served

\* The steps of the bus: they send nothing.
LEMMA BusKeepsSockets ==
  ASSUME Components, Components', StreamsType, DispatchInv, SocketInv, [Next]_vars,
         Publish \/ Dispatch \/ RetainEvent \/ RetentionEnds \/ BroadcastEvent \/ BroadcastOver
  PROVE  SocketInv'
<1>1. UNCHANGED <<connections, subscriptions, members, handler, link, targets, clientVars>>
  BY DEF Publish, Dispatch, RetainEvent, RetentionEnds, BroadcastEvent, BroadcastOver, wsVars,
         clientVars, WS!PublishEvent, WS!registry
<1>2. \A s \in Sockets : Enrolled(s)'
  BY <1>1 DEF SocketInv, Enrolled, clientVars
<1>3. ASSUME NEW s \in Sockets, NEW c \in Channel PROVE Served(s, c)'
  <2>1. Served(s, c)
    BY DEF SocketInv
  <2>2. SUFFICES /\ RetainedFor(c) \subseteq RetainedFor(c)'
                 /\ \A n \in RetainedFor(c)' :
                      Coming(s, c, n)' \/ (n \in RetainedFor(c) /\ ~Coming(s, c, n))
    BY <1>1, <2>1, StaysServed DEF clientVars
  <2>3. CASE Publish \/ Dispatch \/ RetentionEnds \/ BroadcastOver
    <3>1. RetainedFor(c)' = RetainedFor(c)
      <4>2. UNCHANGED handled
        BY <2>3 DEF Publish, Bus!Publish, Dispatch, Bus!Take, Bus!Finish, RetentionEnds,
                    BroadcastOver, Bus!End
      <4>3. ~RetainEvent
        <5> SUFFICES ASSUME RetainEvent PROVE FALSE
          OBVIOUS
        <5>1. PICK n \in current :
                n \notin handled[Retain] /\ handled' = [handled EXCEPT ![Retain] = @ \cup {n}]
          BY RunEffect DEF RetainEvent
        <5>2. QED
          BY <4>2, <5>1, Facts, Subscribers
      <4>4. QED
        BY <4>3, RetainedFrame
    <3>2. \A n : Coming(s, c, n) => Coming(s, c, n)'
      <4>1. CASE Publish \/ RetentionEnds \/ BroadcastOver
        BY <1>1, <4>1 DEF Coming, Publish, Bus!Publish, RetentionEnds, BroadcastOver, Bus!End, wsVars
      <4>2. CASE Dispatch
        <5>1. current = {} \/ pending = {}
          BY <4>2 DEF Dispatch, Bus!Take, Bus!Finish
        <5>2. cast[c] = "none" /\ targets[c] = {}
          BY <5>1 DEF DispatchInv
        <5>3. current \subseteq handled[Cast]
          BY <5>1, AllHandled
        <5>4. QED
          BY <5>2, <5>3 DEF Coming
      <4>3. QED
        BY <2>3, <4>1, <4>2
    <3>3. QED
      BY <3>1, <3>2
  <2>4. CASE RetainEvent
    <3>1. PICK n \in current :
            /\ current = {n} /\ n \notin handled[Retain]
            /\ \A d \in Channel :
                 RetainedFor(d)' = RetainedFor(d)
                                     \cup (IF d \in ChannelsOf(kind[n]) THEN {n} ELSE {})
            /\ handled'[Cast] = handled[Cast] /\ UNCHANGED <<current, wsVars>>
      BY <2>4, RetainedGrows
    <3>2. n \notin handled[Cast]
      BY <3>1 DEF DispatchInv
    <3>3. Coming(s, c, n)'
      BY <3>1, <3>2 DEF Coming
    <3>4. \A m : Coming(s, c, m) => m = n
      BY <3>1 DEF Coming
    <3>5. QED
      BY <3>1, <3>3, <3>4
  <2>5. CASE BroadcastEvent
    <3>1. PICK n \in current :
            /\ current = {n} /\ handled' = [handled EXCEPT ![Cast] = @ \cup {n}]
            /\ UNCHANGED <<phase, subscribers, since, kind, queue, current, pending, missed>>
      BY <2>5, RunEffect DEF BroadcastEvent
    <3>2. cast' = [d \in Channel |-> IF d \in ChannelsOf(kind[n]) THEN "due" ELSE "none"]
      BY <2>5, <3>1 DEF BroadcastEvent, WS!PublishEvent
    <3>3. RetainedFor(c)' = RetainedFor(c)
      BY <3>1, Facts, Subscribers DEF RetainedFor
    <3>4. \A m \in RetainedFor(c) : Coming(s, c, m) => Coming(s, c, m)'
      BY <3>1, <3>2 DEF Coming, RetainedFor
    <3>5. QED
      BY <3>3, <3>4
  <2>6. QED
    BY <2>3, <2>4, <2>5
<1>4. QED
  BY <1>2, <1>3 DEF SocketInv

\* The steps of the broadcasts.
LEMMA BroadcastKeepsSockets ==
  ASSUME Components, Components', StreamsType, DispatchInv, SocketInv, BroadcastStep
  PROVE  SocketInv'
<1>1. PICK d \in Channel : WS!Snapshot(d) \/ WS!BroadcastEnds(d)
  BY DEF BroadcastStep
<1>2. UNCHANGED <<connections, subscriptions, members, handler, busVars, clientVars>>
  BY <1>1 DEF BroadcastStep, WS!Snapshot, WS!BroadcastEnds, WS!registry
<1>3. \A s \in Sockets : Enrolled(s)'
  BY <1>2 DEF SocketInv, Enrolled, clientVars
<1>4. ASSUME NEW s \in Sockets, NEW c \in Channel PROVE Served(s, c)'
  <2>1. Served(s, c)
    BY DEF SocketInv
  <2>2. RetainedFor(c)' = RetainedFor(c)
    BY <1>2 DEF RetainedFor, busVars
  <2>3. s \in targets'[c] => s \in targets[c] \/ s \in connections
    BY <1>1, ManagerFacts DEF WS!Snapshot, WS!BroadcastEnds
  <2>4. s \in connections => handler[s] \notin {"away", "accepting"}
    BY ManagerFacts
  <2>5. ASSUME s \in connections, c \in subscriptions[s], NEW n, Coming(s, c, n)
        PROVE  Coming(s, c, n)'
    <3>1. s \in members[c]
      BY <2>5, ManagerFacts
    <3>2. \/ cast'[c] = cast[c] /\ targets'[c] = targets[c]
          \/ s \in targets'[c]
          \/ cast[c] = "sending" /\ targets[c] = {}
      BY <1>1, <2>5, <3>1, ManagerFacts DEF WS!Snapshot, WS!BroadcastEnds
    <3>3. QED
      BY <1>2, <2>5, <3>2 DEF Coming, busVars
  <2>6. QED
    BY <1>2, <2>1, <2>2, <2>3, <2>4, <2>5, StaysServed DEF clientVars
<1>5. QED
  BY <1>3, <1>4 DEF SocketInv

LEMMA DeliverKeepsSockets ==
  ASSUME Components, Components', StreamsType, DispatchInv, SocketInv,
         NEW t \in Sockets, Deliver(t)
  PROVE  SocketInv'
<1>1. PICK d \in Channel :
        /\ WS!Deliver(d, t)
        /\ got' = IF link[t] = "up" THEN [got EXCEPT ![t][d] = @ \cup current] ELSE got
  BY DEF Deliver
<1>2. /\ UNCHANGED <<busVars, streams, owed, joined, handler, cast, subscriptions>>
      /\ connections' \subseteq connections
      /\ (link[t] # "up") => t \notin connections'
      /\ t \in targets[d] /\ targets' = [targets EXCEPT ![d] = @ \ {t}]
  BY <1>1, SendFrame DEF Deliver, WS!Deliver
<1>3. \A s \in Sockets : Enrolled(s)'
  BY <1>2 DEF SocketInv, Enrolled
<1>4. \A c \in Channel : RetainedFor(c)' = RetainedFor(c)
  BY <1>2 DEF RetainedFor, busVars
<1>5. \A c \in Channel : targets'[c] \subseteq targets[c]
  BY <1>2, ManagerFacts
<1>6. ASSUME NEW s \in Sockets, NEW c \in Channel, <<s, c>> # <<t, d>> \/ link[t] # "up"
      PROVE  Served(s, c)'
  <2>1. Served(s, c) /\ got'[s][c] = got[s][c]
    BY <1>1, <1>6 DEF SocketInv, StreamsType
  <2>2. ASSUME s \in connections', NEW n, Coming(s, c, n) PROVE Coming(s, c, n)'
    <3>1. s \in targets[c] => s \in targets'[c]
      BY <1>2, <1>6, <2>2, ManagerFacts
    <3>2. QED
      BY <1>2, <2>2, <3>1 DEF Coming, busVars
  <2>3. QED
    BY <1>2, <1>4, <1>5, <2>1, <2>2, StaysServed
<1>7. ASSUME link[t] = "up" PROVE Served(t, d)'
  <2>1. Served(t, d) /\ got'[t][d] = got[t][d] \cup current
    BY <1>1, <1>7 DEF SocketInv, StreamsType
  <2>2. current \subseteq RetainedFor(d)
    BY <1>2 DEF DispatchInv, RetainedFor
  <2>3. d \in EndpointChannels(RequestOf[t])
    BY <1>2, ManagerFacts
  <2>4. handler'[t] \notin {"away", "accepting"}
    BY <1>2, <2>1 DEF Served
  <2>5. ASSUME NEW n \in RetainedFor(d) \ (got[t][d] \cup current)
        PROVE  ~Coming(t, d, n) /\ \A m \in current : n < m
    <3>1. n \in Nat /\ n <= Bus!Taken /\ n \notin current
      BY <2>5, Facts, Subscribers DEF RetainedFor
    <3>2. \A m \in current : m = Bus!Taken /\ m \in Nat
      BY Facts
    <3>3. QED
      BY <3>1, <3>2 DEF Coming
  <2>6. QED
    BY <1>2, <1>4, <2>1, <2>2, <2>3, <2>4, <2>5, SentServed
<1>8. QED
  BY <1>3, <1>6, <1>7 DEF SocketInv

\* The steps of a handler: the other sockets are left alone.
LEMMA OthersServed ==
  ASSUME Components, StreamsType, SocketInv, NEW s \in Sockets, SocketStep(s),
         NEW t \in Sockets \ {s}
  PROVE  Enrolled(t)' /\ \A c \in Channel : Served(t, c)'
<1>1. /\ owed'[t] = owed[t] /\ got'[t] = got[t] /\ joined'[t] = joined[t]
      /\ handler'[t] = handler[t] /\ subscriptions'[t] = subscriptions[t]
      /\ t \in connections' <=> t \in connections
  BY SocketFrame
<1>2. UNCHANGED <<busVars, cast, targets>>
  BY SocketFrame
<1>3. Enrolled(t)'
  BY <1>1 DEF SocketInv, Enrolled
<1>4. ASSUME NEW c \in Channel PROVE Served(t, c)'
  <2>1. Served(t, c)
    BY DEF SocketInv
  <2>2. RetainedFor(c)' = RetainedFor(c) /\ \A n : Coming(t, c, n)' <=> Coming(t, c, n)
    BY <1>2 DEF RetainedFor, Coming, busVars
  <2>3. QED
    BY <1>1, <1>2, <2>1, <2>2, StaysServed
<1>5. QED
  BY <1>3, <1>4

\* The socket itself.
LEMMA OwnServed ==
  ASSUME Components, Components', StreamsType, StreamsType', StreamInv, SocketInv,
         NEW s \in Sockets, SocketStep(s)
  PROVE  Enrolled(s)' /\ \A c \in Channel : Served(s, c)'
<1>1. UNCHANGED <<busVars, streams, cast, targets>>
  BY SocketFrame
<1>2. \A c \in Channel : RetainedFor(c)' = RetainedFor(c)
                         /\ \A n : Coming(s, c, n)' <=> Coming(s, c, n)
  BY <1>1 DEF RetainedFor, Coming, busVars
<1>3. Enrolled(s) /\ \A c \in Channel : Served(s, c)
  BY DEF SocketInv
<1>4. CASE Arrive(s) \/ SendOther(s) \/ Converse(s) \/ Depart(s)
  <2>1. /\ UNCHANGED <<clientVars, subscriptions>>
        /\ connections' \subseteq connections
        /\ handler'[s] \in {"away", "accepting"} => handler[s] \in {"away", "accepting"}
    <3>1. CASE Arrive(s)
      BY <3>1, ManagerFacts
         DEF Arrive, WS!Arrive, WS!AcceptFails, WS!registry
    <3>2. CASE SendOther(s)
      BY <3>2, ManagerFacts, SendFrame DEF SendOther, WS!Reply
    <3>3. CASE Converse(s)
      BY <3>3, ManagerFacts, SendFrame DEF Converse, WS!Converse
    <3>4. CASE Depart(s)
      BY <3>4, ManagerFacts, SendFrame
         DEF Depart, WS!Leave, WS!Crash, WS!Drop, WS!registry
    <3>5. QED
      BY <1>4, <3>1, <3>2, <3>3, <3>4
  <2>2. Enrolled(s)'
    BY <1>3, <2>1 DEF Enrolled, clientVars
  <2>3. ASSUME NEW c \in Channel PROVE Served(s, c)'
    BY <1>1, <1>2, <1>3, <2>1, StaysServed DEF clientVars
  <2>4. QED
    BY <2>2, <2>3
<1>5. CASE Register(s)
  <2>1. /\ handler[s] = "accepting" /\ handler'[s] = "replying"
        /\ owed'[s] = subscriptions'[s] /\ UNCHANGED <<got, joined>>
    BY <1>5, ManagerFacts DEF Register, WS!Register, StreamsType
  <2>2. joined[s] = {} /\ \A c \in Channel : got[s][c] = {}
    BY <1>3, <2>1 DEF Enrolled, Served
  <2>3. subscriptions'[s] \subseteq EndpointChannels(RequestOf[s])
    BY <1>5, ManagerFacts DEF Register, WS!Register, WS!Initial
  <2>4. Enrolled(s)'
    BY <2>1, <2>2, <2>3 DEF Enrolled
  <2>5. ASSUME NEW c \in Channel PROVE Served(s, c)'
    <3>1. UpToDate(s, c)'
      BY <2>1, <2>2 DEF UpToDate
    <3>2. QED
      BY <2>1, <2>2, <3>1 DEF Served
  <2>6. QED
    BY <2>4, <2>5
<1>6. ASSUME NEW d \in Channel, Resubscribe(s, d)
      PROVE  Enrolled(s)' /\ \A c \in Channel : Served(s, c)'
  <2>1. /\ handler[s] = "reading" /\ handler'[s] = "replying" /\ owed' = owed
        /\ got'[s] = [got[s] EXCEPT ![d] = {}] /\ joined'[s] = joined[s] \ {d}
    <3>1. handler[s] = "reading" /\ handler'[s] = "replying"
      BY <1>6, ManagerFacts DEF Resubscribe, WS!Subscribe, WS!Unsubscribe
    <3>2. owed' = owed /\ got' = [got EXCEPT ![s][d] = {}] /\ joined' = [joined EXCEPT ![s] = @ \ {d}]
      BY <1>6 DEF Resubscribe
    <3>3. got'[s] = [got[s] EXCEPT ![d] = {}]
      BY <3>2 DEF StreamsType
    <3>4. joined'[s] = joined[s] \ {d}
      BY <3>2 DEF StreamsType
    <3>5. QED
      BY <3>1, <3>2, <3>3, <3>4
  <2>2. /\ connections' \subseteq connections
        /\ subscriptions'[s] \ {d} = subscriptions[s] \ {d}
    BY <1>6, ManagerFacts, SendFrame DEF Resubscribe, WS!Subscribe, WS!Unsubscribe, WS!registry
  <2>3. Enrolled(s)'
    BY <1>3, <2>1, <2>2 DEF Enrolled
  <2>4. ASSUME NEW c \in Channel \ {d} PROVE Served(s, c)'
    <3>1. got'[s][c] = got[s][c]
      BY <2>1 DEF StreamsType
    <3>2. QED
      BY <1>1, <1>2, <1>3, <2>1, <2>2, <3>1, StaysServed
  <2>5. Served(s, d)'
    <3>1. got'[s][d] = {} /\ d \notin joined'[s]
      BY <2>1 DEF StreamsType
    <3>2. UpToDate(s, d)'
      BY <3>1 DEF UpToDate
    <3>3. QED
      BY <2>1, <3>1, <3>2 DEF Served
  <2>6. QED
    BY <2>3, <2>4, <2>5
<1>7. ASSUME NEW d \in Channel, NEW limit \in {HistoryLimit} \cup AskedLimits,
             SendHistory(s, d, limit)
      PROVE  Enrolled(s)' /\ \A c \in Channel : Served(s, c)'
  <2> DEFINE sent == Elements(Last(streams[d], limit))
  <2>1. /\ handler[s] = "replying" /\ handler'[s] \in {"replying", "reading"}
        /\ UNCHANGED subscriptions /\ connections' \subseteq connections
        /\ owed'[s] \subseteq owed[s]
        /\ link[s] # "up" => s \notin connections'
    BY <1>7, ManagerFacts, SendFrame DEF SendHistory, WS!Reply, StreamsType
  <2>2. d \in EndpointChannels(RequestOf[s])
    BY <1>3, <1>7 DEF SendHistory, Enrolled
  <2>3. limit \in Nat
    BY StreamingAssumption
  <2>4. /\ sent \subseteq RetainedFor(d)
        /\ \A x \in RetainedFor(d) \ sent :
             /\ \A m \in sent : x < m
             /\ limit >= HistoryLimit => Cardinality(sent) >= FullHistory
    BY <2>3, HistoryLemma
  <2>5. CASE link[s] = "up"
    <3>1. /\ got' = [got EXCEPT ![s][d] = @ \cup sent]
          /\ joined' = IF d \in subscriptions[s] /\ limit >= HistoryLimit
                         THEN [joined EXCEPT ![s] = @ \cup {d}] ELSE joined
      BY <1>7, <2>5 DEF SendHistory
    <3> HIDE DEF sent
    <3>2. /\ got'[s][d] = got[s][d] \cup sent
          /\ \A c \in Channel \ {d} : got'[s][c] = got[s][c]
      BY <3>1 DEF StreamsType
    <3>3. /\ \A c \in Channel \ {d} : c \in joined'[s] => c \in joined[s]
          /\ d \in joined'[s] => d \in joined[s] \/ limit >= HistoryLimit
          /\ \A c \in joined'[s] : c \in joined[s] \/ c \in subscriptions[s]
      BY <3>1 DEF StreamsType
    <3>4. Enrolled(s)'
      BY <1>3, <2>1, <3>3 DEF Enrolled
    <3>5. ASSUME NEW c \in Channel \ {d} PROVE Served(s, c)'
      BY <1>1, <1>2, <1>3, <2>1, <3>2, <3>3, StaysServed
    <3>6. Served(s, d)'
      BY <1>2, <1>3, <2>1, <2>2, <2>4, <3>2, <3>3, SentServed
    <3>7. QED
      BY <3>4, <3>5, <3>6
  <2>6. CASE link[s] # "up"
    <3>1. UNCHANGED <<got, joined>>
      BY <1>7, <2>6 DEF SendHistory
    <3>2. Enrolled(s)'
      BY <1>3, <2>1, <3>1 DEF Enrolled
    <3>3. ASSUME NEW c \in Channel PROVE Served(s, c)'
      BY <1>1, <1>2, <1>3, <2>1, <3>1, StaysServed
    <3>4. QED
      BY <3>2, <3>3
  <2>7. QED
    BY <2>5, <2>6
<1>8. QED
  BY <1>4, <1>5, <1>6, <1>7 DEF SocketStep

LEMMA SocketNext ==
  Components /\ Components' /\ StreamsType /\ StreamsType' /\ StreamingInv /\ [Next]_vars
    => SocketInv'
<1> SUFFICES ASSUME Components, Components', StreamsType, StreamsType', StreamingInv,
                    [Next]_vars
             PROVE  SocketInv'
  OBVIOUS
<1> USE DEF StreamingInv
<1>1. ASSUME NEW s \in Sockets, SocketStep(s) PROVE SocketInv'
  <2>1. \A t \in Sockets : Enrolled(t)' /\ \A c \in Channel : Served(t, c)'
    BY <1>1, OthersServed, OwnServed
  <2>2. QED
    BY <2>1 DEF SocketInv
<1>2. CASE UNCHANGED vars
  BY <1>2 DEF vars, systemVars, busVars, wsVars, clientVars, SocketInv, Enrolled, Served,
              UpToDate, Coming, RetainedFor
<1>3. QED
  BY <1>1, <1>2, BusKeepsSockets, BroadcastKeepsSockets, DeliverKeepsSockets DEF Next, Pipeline

-----------------------------------------------------------------------------
(* The theorems.                                                           *)

LEMMA StreamingCorrect == Spec => [](Components /\ StreamsType /\ StreamingInv)
<1>1. Init => Components /\ StreamsType /\ StreamingInv
  BY ComponentsInit, StreamsTypeInit, StreamingInit
<1>2. Components /\ StreamsType /\ StreamingInv /\ [Next]_vars
        => (Components /\ StreamsType /\ StreamingInv)'
  <2> SUFFICES ASSUME Components, StreamsType, StreamingInv, [Next]_vars
               PROVE  (Components /\ StreamsType /\ StreamingInv)'
    OBVIOUS
  <2>1. Components'
    BY ComponentsNext
  <2>2. StreamsType'
    BY <2>1, StreamsTypeNext
  <2>3. DispatchInv' /\ StreamInv'
    BY <2>1, DispatchNext, StreamNext DEF StreamingInv
  <2>4. SocketInv'
    BY <2>1, <2>2, SocketNext
  <2>5. QED
    BY <2>1, <2>2, <2>3, <2>4 DEF StreamingInv
<1>3. QED
  BY <1>1, <1>2, PTL DEF Spec

\* Every variable of the bus, the manager, the streams and the clients keeps its
\* type, and no stream outgrows the retention limit.
THEOREM StreamingTypeCorrect == Spec => []TypeOK
<1>1. Components /\ StreamsType => TypeOK
  <2> SUFFICES ASSUME Components, StreamsType PROVE TypeOK
    OBVIOUS
  <2>1. Bus!BusTypeOK
    BY DEF Components, Proved!BusTypeOK, Bus!BusTypeOK, Proved!Subscription, Bus!Subscription,
           Proved!Event, Bus!Event, Proved!Taken, Bus!Taken
  <2>2. WS!TypeOK
    BY DEF Components, Proved!IInv, Proved!RegistryType, Proved!TaskType, WS!TypeOK
  <2>3. QED
    BY <2>1, <2>2 DEF TypeOK, StreamsType
<1>2. QED
  BY <1>1, StreamingCorrect, PTL

\* A socket that joined a channel misses nothing from then on: of the settled
\* events of the channel it lacks at most those older than a full history.
THEOREM NoGapCorrect == Spec => []NoGapOnJoin
<1>1. Components /\ StreamingInv => NoGapOnJoin
  <2> SUFFICES ASSUME Components, StreamingInv,
                      NEW s \in connections, NEW c \in joined[s],
                      NEW n \in {m \in Bus!Event : Settled(m) /\ c \in ChannelsOf(kind[m])}
                                  \ got[s][c]
               PROVE  (\A m \in got[s][c] : n < m) /\ Cardinality(got[s][c]) >= FullHistory
    BY DEF NoGapOnJoin
  <2>1. s \in Sockets
    BY ManagerFacts
  <2>2. c \in subscriptions[s] /\ c \in Channel
    BY <2>1, ManagerFacts DEF StreamingInv, SocketInv, Enrolled
  <2>3. n \in 1 .. Len(kind) /\ n <= Bus!Taken /\ n \notin current /\ c \in ChannelsOf(kind[n])
    BY DEF Settled, Bus!Event
  <2>4. n \in handled[Retain]
    <3>1. Retain \in subscribers /\ Retain[1] = Any /\ since[Retain] = 0 /\ missed[Retain] = {}
      BY Subscribers DEF StreamingInv, DispatchInv, Retain
    <3>2. since[Retain] < n /\ n <= Proved!Taken
      BY <2>3, <3>1 DEF Proved!Taken, Bus!Taken
    <3>3. n \in handled[Retain] \cup missed[Retain] \/ n \in current
      BY <2>3, <3>1, <3>2 DEF Components, Proved!Accounted, Proved!Event
    <3>4. QED
      BY <2>3, <3>1, <3>3
  <2>5. UpToDate(s, c)
    BY <2>1, <2>2 DEF StreamingInv, SocketInv, Served
  <2>6. QED
    BY <2>3, <2>4, <2>5 DEF UpToDate, RetainedFor, Coming
<1>2. QED
  BY <1>1, StreamingCorrect, PTL

\* The channels of a tenant's endpoint carry events about its organization only.
LEMMA OwnChannels ==
  ASSUME NEW r \in Request, Admitted(r), ~r.super, NEW k \in EventKind,
         NEW c \in EndpointChannels(r) \cap ChannelsOf(k)
  PROVE  k.org = r.org
<1>1. r.org \in Orgs /\ c[2] = r.org
  BY DEF Request, Admitted, EndpointChannels, Topic
<1>2. c[2] \in {k.org, Global}
  BY DEF ChannelsOf, Home
<1>3. QED
  BY <1>1, <1>2, ChannelsAssumption

\* A socket of a tenant is sent events about its own organization only, live and
\* as history, whatever channels it asks for.
THEOREM TenantIsolationCorrect == Spec => []TenantIsolation
<1>1. Components /\ StreamingInv => TenantIsolation
  <2> SUFFICES ASSUME Components, StreamingInv, NEW s \in Sockets, ~RequestOf[s].super,
                      NEW c \in Channel, NEW n \in got[s][c]
               PROVE  kind[n].org = RequestOf[s].org
    BY DEF TenantIsolation
  <2>1. n \in RetainedFor(c) /\ c \in EndpointChannels(RequestOf[s])
    BY DEF StreamingInv, SocketInv, Served
  <2>2. kind[n] \in EventKind /\ c \in ChannelsOf(kind[n])
    BY <2>1, Facts, Subscribers DEF RetainedFor
  <2>3. RequestOf[s] \in Request /\ Admitted(RequestOf[s])
    BY StreamingAssumption
  <2>4. QED
    BY <2>1, <2>2, <2>3, OwnChannels
<1>2. QED
  BY <1>1, StreamingCorrect, PTL
=============================================================================
