-------------------------- MODULE BusAndSocketProofs --------------------------
(***************************************************************************)
(* Proofs about EventBus, for any event types, subscribers and queue size, *)
(* and about WebSocketManager, for any sockets, channels, endpoints, limits*)
(* and number of cleaners.                                                 *)
(***************************************************************************)
EXTENDS EventBus, WebSocketManager, TLAPS

-----------------------------------------------------------------------------
(* The event bus: types.                                                   *)

LEMMA InitType == BusInit => BusTypeOK
  BY EventBusAssumption DEF BusInit, BusTypeOK, Event, Taken

LEMMA TypeNext == BusTypeOK /\ [BusNext]_busVars => BusTypeOK'
<1> SUFFICES ASSUME BusTypeOK, [BusNext]_busVars PROVE BusTypeOK'
  OBVIOUS
<1> USE EventBusAssumption DEF BusTypeOK, Event, Taken
<1>1. CASE BusStart \/ BusStop
  BY <1>1 DEF BusStart, BusStop
<1>2. CASE Stopped
  <2>1. Queued \subseteq 1 .. Len(kind)
    BY DEF Queued
  <2>2. missed' \in [Subscription -> SUBSET (1 .. Len(kind))]
    BY <1>2, <2>1 DEF Stopped
  <2>3. QED
    BY <1>2, <2>2 DEF Stopped
<1>3. ASSUME NEW b \in Subscription, BusSubscribe(b) \/ BusUnsubscribe(b) PROVE BusTypeOK'
  BY <1>3 DEF BusSubscribe, BusUnsubscribe
<1>4. ASSUME NEW k \in Kinds, Publish(k) PROVE BusTypeOK'
  <2>1. CASE UNCHANGED <<kind, queue>>
    BY <1>4, <2>1 DEF Publish
  <2>2. CASE /\ Len(kind) < MaxEvents /\ Len(queue) < QueueSize
             /\ kind' = Append(kind, k) /\ queue' = Append(queue, Len(kind'))
    <3>1. kind' \in Seq(Kinds) /\ Len(kind') = Len(kind) + 1
      BY <2>2
    <3>2. queue' \in Seq(1 .. Len(kind')) /\ Len(queue') = Len(queue) + 1
      <4>1. queue \in Seq(1 .. Len(kind')) /\ Len(kind') \in 1 .. Len(kind')
        BY <3>1
      <4>2. QED
        BY <2>2, <4>1
    <3>3. /\ handled' \in [Subscription -> SUBSET (1 .. Len(kind'))]
          /\ missed' \in [Subscription -> SUBSET (1 .. Len(kind'))]
          /\ current' \in SUBSET (1 .. Len(kind'))
      BY <1>4, <3>1 DEF Publish
    <3>4. QED
      BY <1>4, <2>2, <3>1, <3>2, <3>3 DEF Publish
  <2>3. QED
    BY <1>4, <2>1, <2>2 DEF Publish
<1>5. CASE Take
  <2>1. pending' \in SUBSET Subscription
    BY <1>5 DEF Take, Audience
  <2>2. QED
    BY <1>5, <2>1 DEF Take
<1>6. CASE Finish
  BY <1>6 DEF Finish
<1>7. ASSUME NEW b \in Subscription, Callback(b) PROVE BusTypeOK'
  <2>1. CASE Run(b)
    BY <2>1 DEF Run
  <2>2. CASE End(b)
    <3>1. missed' \in [Subscription -> SUBSET (1 .. Len(kind))]
      BY <2>2 DEF End
    <3>2. QED
      BY <2>2, <3>1 DEF End
  <2>3. QED
    BY <1>7, <2>1, <2>2 DEF Callback
<1>8. CASE UNCHANGED busVars
  BY <1>8 DEF busVars
<1>9. QED
  BY <1>1, <1>2, <1>3, <1>4, <1>5, <1>6, <1>7, <1>8 DEF BusNext

\* Every reachable state of the bus has the declared type; in particular the
\* queue never holds more than its capacity.
THEOREM BusTypeCorrect == BusSpec => []BusTypeOK
  BY InitType, TypeNext, PTL DEF BusSpec

-----------------------------------------------------------------------------
(* The queue and the order of its events.                                  *)

LEMMA QueueInit == BusInit => QueueInv
  BY DEF BusInit, QueueInv, Taken

LEMMA QueueNext == BusTypeOK /\ QueueInv /\ [BusNext]_busVars => QueueInv'
<1> SUFFICES ASSUME BusTypeOK, QueueInv, [BusNext]_busVars PROVE QueueInv'
  OBVIOUS
<1> USE EventBusAssumption DEF BusTypeOK, Event, Taken, QueueInv
<1>1. CASE BusStart \/ BusStop \/ Finish
  BY <1>1 DEF BusStart, BusStop, Finish
<1>2. CASE Stopped
  <2>1. Taken' >= Taken /\ UNCHANGED <<since, handled>>
    BY <1>2 DEF Stopped
  <2>2. QED
    BY <1>2, <2>1 DEF Stopped
<1>3. ASSUME NEW b \in Subscription, BusSubscribe(b) \/ BusUnsubscribe(b) PROVE QueueInv'
  <2>1. \A d \in Subscription : since'[d] \in {since[d], Taken}
    BY <1>3 DEF BusSubscribe, BusUnsubscribe
  <2>2. UNCHANGED <<kind, queue, current, handled>>
    BY <1>3 DEF BusSubscribe, BusUnsubscribe
  <2>3. UNCHANGED <<Taken, Len(queue)>>
    BY <2>2
  <2>4. \A d \in Subscription : since'[d] <= Taken'
    BY <2>1, <2>3
  <2>5. QED
    BY <2>2, <2>3, <2>4
<1>4. ASSUME NEW k \in Kinds, Publish(k) PROVE QueueInv'
  <2>1. CASE UNCHANGED <<kind, queue>>
    BY <1>4, <2>1 DEF Publish
  <2>2. CASE kind' = Append(kind, k) /\ queue' = Append(queue, Len(kind'))
    <3>1. Len(kind') = Len(kind) + 1 /\ Len(queue') = Len(queue) + 1
      BY <2>2
    <3>2. \A i \in 1 .. Len(queue') :
            queue'[i] = IF i <= Len(queue) THEN queue[i] ELSE Len(kind) + 1
      BY <2>2, <3>1
    <3>3. Taken' = Taken /\ UNCHANGED <<since, current, handled>>
      BY <1>4, <3>1 DEF Publish
    <3>4. \A i \in 1 .. Len(queue') : queue'[i] = Taken' + i
      <4>1. Len(queue) \in Nat /\ Len(kind) \in Nat
        OBVIOUS
      <4>2. ASSUME NEW i \in 1 .. Len(queue') PROVE queue'[i] = Taken + i
        <5>1. CASE i <= Len(queue)
          <6>1. i \in 1 .. Len(queue) /\ queue'[i] = queue[i]
            BY <3>1, <3>2, <4>1, <5>1
          <6>2. queue[i] = Taken + i
            BY <6>1 DEF QueueInv
          <6>3. QED
            BY <6>1, <6>2
        <5>2. CASE i = Len(queue) + 1
          BY <3>1, <3>2, <4>1, <5>2
        <5>3. QED
          BY <3>1, <4>1, <5>1, <5>2
      <4>3. QED
        BY <3>3, <4>2
    <3>5. QED
      BY <3>3, <3>4
  <2>3. QED
    BY <1>4, <2>1, <2>2 DEF Publish
<1>5. CASE Take
  <2>1. Taken' = Taken + 1
    BY <1>5 DEF Take
  <2>2. \A i \in 1 .. Len(queue') : queue'[i] = queue[i + 1]
    BY <1>5 DEF Take
  <2>3. Head(queue) = Taken + 1
    BY <1>5 DEF Take
  <2>4. QED
    BY <1>5, <2>1, <2>2, <2>3 DEF Take
<1>6. ASSUME NEW b \in Subscription, Callback(b) PROVE QueueInv'
  <2>1. CASE Run(b)
    <3>1. \A d \in Subscription : handled'[d] \subseteq handled[d] \cup current
      BY <2>1 DEF Run
    <3>2. QED
      BY <2>1, <3>1 DEF Run
  <2>2. CASE End(b)
    BY <2>2 DEF End
  <2>3. QED
    BY <1>6, <2>1, <2>2 DEF Callback
<1>7. CASE UNCHANGED busVars
  BY <1>7 DEF busVars
<1>8. QED
  BY <1>1, <1>2, <1>3, <1>4, <1>5, <1>6, <1>7 DEF BusNext

LEMMA QueueCorrect == BusSpec => [](BusTypeOK /\ QueueInv)
  BY InitType, TypeNext, QueueInit, QueueNext, PTL DEF BusSpec

-----------------------------------------------------------------------------
(* No silent loss.                                                         *)

LEMMA AccountedNext ==
  BusTypeOK /\ QueueInv /\ Accounted /\ [BusNext]_busVars => Accounted'
<1> SUFFICES ASSUME BusTypeOK, QueueInv, Accounted, [BusNext]_busVars PROVE Accounted'
  OBVIOUS
<1> USE EventBusAssumption DEF BusTypeOK, Event, Accounted
<1>1. CASE BusStart \/ BusStop
  BY <1>1 DEF BusStart, BusStop, Taken
<1>2. CASE Stopped
  <2>1. ASSUME NEW b \in subscribers, NEW n \in 1 .. Len(kind),
               since[b] < n, b[1] \in {Any, kind[n]}
        PROVE  n \in handled[b] \cup missed'[b]
    <3>1. CASE n <= Taken
      BY <1>2, <2>1, <3>1 DEF Stopped
    <3>2. CASE n > Taken
      <4>1. PICK i \in 1 .. Len(queue) : queue[i] = n
        <5>1. n - Taken \in 1 .. Len(queue)
          BY <3>2 DEF Taken
        <5>2. queue[n - Taken] = n
          BY <5>1, Taken + (n - Taken) = n DEF QueueInv, Taken
        <5>3. QED
          BY <5>1, <5>2
      <4>2. n \in Queued /\ b \in Audience(n)
        BY <2>1, <4>1 DEF Queued, Audience
      <4>3. QED
        BY <1>2, <4>2 DEF Stopped
    <3>3. QED
      BY <3>1, <3>2
  <2>2. QED
    BY <1>2, <2>1 DEF Stopped
<1>3. ASSUME NEW b \in Subscription, BusSubscribe(b) \/ BusUnsubscribe(b) PROVE Accounted'
  <2>1. UNCHANGED <<kind, queue, current, pending, handled, missed, Taken>>
    BY <1>3 DEF BusSubscribe, BusUnsubscribe, Taken
  <2>2. CASE BusSubscribe(b)
    <3>1. \A d \in subscribers' : since'[d] = IF d \in subscribers THEN since[d] ELSE Taken
      BY <2>2 DEF BusSubscribe
    <3>2. QED
      BY <2>1, <3>1
  <2>3. CASE BusUnsubscribe(b)
    BY <2>1, <2>3 DEF BusUnsubscribe
  <2>4. QED
    BY <1>3, <2>2, <2>3
<1>4. ASSUME NEW k \in Kinds, Publish(k) PROVE Accounted'
  <2>1. CASE UNCHANGED <<kind, queue>>
    BY <1>4, <2>1 DEF Publish, Taken
  <2>2. CASE kind' = Append(kind, k) /\ queue' = Append(queue, Len(kind'))
    <3>1. Taken' = Taken /\ \A n \in 1 .. Len(kind) : kind'[n] = kind[n]
      BY <2>2 DEF Taken
    <3>2. \A n \in 1 .. Len(kind') : n <= Taken => n \in 1 .. Len(kind)
      BY <2>2 DEF Taken
    <3>3. QED
      BY <1>4, <3>1, <3>2 DEF Publish
  <2>3. QED
    BY <1>4, <2>1, <2>2 DEF Publish
<1>5. CASE Take
  <2>1. Taken' = Taken + 1 /\ Head(queue) = Taken + 1
    BY <1>5 DEF Take, Taken, QueueInv
  <2>2. QED
    BY <1>5, <2>1 DEF Take, Audience
<1>6. CASE Finish
  BY <1>6 DEF Finish, Taken
<1>7. ASSUME NEW b \in Subscription, Run(b) PROVE Accounted'
  BY <1>7 DEF Run, Taken
<1>8. ASSUME NEW b \in Subscription, End(b) PROVE Accounted'
  BY <1>8 DEF End, Taken
<1>9. CASE UNCHANGED busVars
  BY <1>9 DEF busVars, Taken
<1>10. QED
  BY <1>1, <1>2, <1>3, <1>4, <1>5, <1>6, <1>7, <1>8, <1>9 DEF BusNext, Callback

\* Every event dispatched since a subscription was made is acted on, known to
\* have failed or been dropped by a stop, or still to be acted on.
THEOREM AccountedCorrect == BusSpec => []Accounted
<1>1. BusInit => Accounted
  BY DEF BusInit, Accounted
<1>2. QED
  BY <1>1, QueueCorrect, AccountedNext, PTL DEF BusSpec

-----------------------------------------------------------------------------
(* The bus implements an ordered broadcast.                                *)

LEMMA FateInit == BusInit => FateInv
  BY DEF BusInit, FateInv

LEMMA FateNext == BusTypeOK /\ QueueInv /\ FateInv /\ [BusNext]_busVars => FateInv'
<1> SUFFICES ASSUME BusTypeOK, QueueInv, FateInv, [BusNext]_busVars PROVE FateInv'
  OBVIOUS
<1> USE EventBusAssumption DEF BusTypeOK, Event, FateInv
<1>1. CASE BusStart \/ BusStop \/ Finish
  BY <1>1 DEF BusStart, BusStop, Finish, Taken
<1>2. CASE Stopped
  <2>1. Len(kind') = Len(kind) /\ Taken' = Len(kind) /\ Taken <= Len(kind)
    BY <1>2 DEF Stopped, Taken
  <2>2. ASSUME NEW n \in Queued PROVE n \in 1 .. Len(kind) /\ n > Taken
    <3>1. PICK i \in 1 .. Len(queue) : n = queue[i]
      BY DEF Queued
    <3>2. n \in 1 .. Len(kind) /\ n = Taken + i /\ Taken \in Nat
      BY <3>1 DEF QueueInv
    <3>3. QED
      BY <3>1, <3>2
  <2>3. ASSUME NEW b \in Subscription PROVE handled'[b] \cap missed'[b] = {}
    <3>1. missed'[b] = missed[b] \cup (IF b \in pending THEN current \ handled[b] ELSE {})
                                 \cup {n \in Queued : b \in Audience(n)}
      BY <1>2 DEF Stopped
    <3>2. \A n \in Queued : n \notin handled[b]
      BY <2>2 DEF QueueInv, Taken
    <3>3. QED
      BY <1>2, <3>1, <3>2 DEF Stopped
  <2>4. ASSUME NEW b \in Subscription, NEW n \in missed'[b] PROVE n <= Taken'
    <3>1. n \in missed[b] \/ n \in current \/ n \in Queued
      BY <1>2, <2>4 DEF Stopped
    <3>2. n \in 1 .. Len(kind)
      BY <2>2, <3>1
    <3>3. QED
      BY <2>1, <3>2
  <2>5. QED
    BY <1>2, <2>3, <2>4 DEF Stopped
<1>3. ASSUME NEW b \in Subscription, BusSubscribe(b) \/ BusUnsubscribe(b) PROVE FateInv'
  BY <1>3 DEF BusSubscribe, BusUnsubscribe, Taken
<1>4. ASSUME NEW k \in Kinds, Publish(k) PROVE FateInv'
  <2>1. CASE UNCHANGED <<kind, queue>>
    BY <1>4, <2>1 DEF Publish, Taken
  <2>2. CASE kind' = Append(kind, k) /\ queue' = Append(queue, Len(kind'))
    <3>1. Taken' = Taken /\ \A n \in 1 .. Len(kind) : kind'[n] = kind[n]
      BY <2>2 DEF Taken
    <3>2. QED
      BY <1>4, <3>1 DEF Publish
  <2>3. QED
    BY <1>4, <2>1, <2>2 DEF Publish
<1>5. CASE Take
  <2>1. Taken' = Taken + 1 /\ Head(queue) = Taken + 1 /\ Taken \in Nat
    BY <1>5 DEF Take, Taken, QueueInv
  <2>2. \A b \in Subscription : \A n \in missed[b] : n # Taken + 1
    BY <2>1
  <2>3. \A b \in pending' : b \in Subscription /\ b[1] \in {Any, kind[Taken + 1]}
    BY <1>5, <2>1 DEF Take, Audience
  <2>4. /\ UNCHANGED <<kind, handled, missed>>
        /\ current' = {Taken + 1}
    BY <1>5, <2>1 DEF Take
  <2>5. \A b \in Subscription : \A n \in missed'[b] : n <= Taken'
    BY <2>1, <2>4
  <2>6. QED
    BY <2>2, <2>3, <2>4, <2>5
<1>6. ASSUME NEW b \in Subscription, Run(b) PROVE FateInv'
  BY <1>6 DEF Run, Taken
<1>7. ASSUME NEW b \in Subscription, End(b) PROVE FateInv'
  <2>1. \A d \in Subscription :
          missed'[d] = IF d = b THEN missed[d] \cup (current \ handled[d]) ELSE missed[d]
    BY <1>7 DEF End
  <2>2. UNCHANGED <<kind, queue, current, handled, Taken>> /\ pending' = pending \ {b}
    BY <1>7 DEF End, Taken
  <2>3. \A n \in current : n <= Taken
    BY DEF QueueInv, Taken
  <2>4. QED
    BY <2>1, <2>2, <2>3
<1>8. CASE UNCHANGED busVars
  BY <1>8 DEF busVars, Taken
<1>9. QED
  BY <1>1, <1>2, <1>3, <1>4, <1>5, <1>6, <1>7, <1>8 DEF BusNext, Callback

LEMMA FateCorrect == BusSpec => [](BusTypeOK /\ QueueInv /\ Accounted /\ FateInv)
  BY QueueCorrect, AccountedCorrect, FateInit, FateNext, PTL DEF BusSpec

LEMMA BroadcastInit == BusInit => Ordered!Init
  BY DEF BusInit, Ordered!Init, Subscription, Ordered!Subscription

\* A step in which only the fates of the events of one subscription change is a
\* step of the broadcast if they change in turn.
LEMMA OneSettles ==
  ASSUME BusTypeOK', UNCHANGED <<subscribers, since, kind>>,
         \A b \in Subscription :
           /\ handled[b] \subseteq handled'[b] /\ missed[b] \subseteq missed'[b]
           /\ Ordered!InTurn(b, (handled'[b] \cup missed'[b]) \ (handled[b] \cup missed[b]))
           /\ handled'[b] \cap missed'[b] = {}
  PROVE  Ordered!Settle
  BY DEF Ordered!Settle, Ordered!Subscription, Subscription, Ordered!Event, Event,
         Ordered!Settled, BusTypeOK

\* The event being dispatched is the turn of every subscription whose callback
\* has not ended.
LEMMA CurrentInTurn ==
  ASSUME BusTypeOK, QueueInv, Accounted, FateInv,
         NEW b \in pending, NEW n \in current \ handled[b]
  PROVE  Ordered!InTurn(b, {n})
<1> USE DEF BusTypeOK, Event, Ordered!Event, Ordered!Settled, Ordered!Wants
<1>1. b \in Subscription /\ n = Taken /\ n \in 1 .. Len(kind)
  BY DEF QueueInv
<1>2. b[1] \in {Any, kind[n]} /\ n \notin missed[b]
  BY DEF FateInv
<1>3. \A m \in handled[b] \cup missed[b] : m \in 1 .. Len(kind) /\ m <= n
  BY <1>1 DEF QueueInv, FateInv
<1>4. \A m \in handled[b] \cup missed[b] : m < n
  BY <1>1, <1>2, <1>3
<1>5. ASSUME b \in subscribers, NEW m \in since[b] + 1 .. n - 1, b[1] \in {Any, kind[m]}
      PROVE  m \in handled[b] \cup missed[b]
  <2>1. since[b] \in Nat /\ Taken \in Nat
    BY <1>1
  <2>2. m \in 1 .. Len(kind) /\ since[b] < m /\ m <= Taken /\ m # n
    BY <1>1, <2>1
  <2>3. m \notin current
    BY <1>1, <2>2 DEF QueueInv
  <2>4. QED
    BY <1>5, <2>2, <2>3 DEF Accounted
<1>6. QED
  BY <1>1, <1>2, <1>4, <1>5 DEF Ordered!InTurn

\* What a stop drops is the turn of each subscription too: first the event that was
\* being dispatched, then those queued.
LEMMA DroppedInTurn ==
  ASSUME BusTypeOK, BusTypeOK', QueueInv, Accounted, FateInv, Stopped, NEW b \in Subscription
  PROVE  /\ missed[b] \subseteq missed'[b]
         /\ Ordered!InTurn(b, (handled'[b] \cup missed'[b]) \ (handled[b] \cup missed[b]))
<1> DEFINE old == handled[b] \cup missed[b]
           new == (handled'[b] \cup missed'[b]) \ old
<1> USE DEF BusTypeOK, Event
<1>1. /\ handled' = handled /\ UNCHANGED <<subscribers, since, kind>>
      /\ missed'[b] = missed[b] \cup (IF b \in pending THEN current \ handled[b] ELSE {})
                                \cup {n \in Queued : b \in Audience(n)}
  BY DEF Stopped
<1>2. ASSUME NEW n \in Queued PROVE n \in 1 .. Len(kind) /\ n > Taken
  <2>1. PICK i \in 1 .. Len(queue) : n = queue[i]
    BY DEF Queued
  <2>2. n \in 1 .. Len(kind) /\ n = Taken + i /\ Taken \in Nat
    BY <2>1 DEF QueueInv
  <2>3. QED
    BY <2>1, <2>2
<1>3. ASSUME NEW n \in 1 .. Len(kind), n > Taken PROVE n \in Queued
  <2>1. n - Taken \in 1 .. Len(queue)
    BY <1>3 DEF Taken
  <2>2. queue[n - Taken] = n
    BY <1>3, <2>1, Taken + (n - Taken) = n DEF QueueInv, Taken
  <2>3. QED
    BY <2>1, <2>2 DEF Queued
<1>4. ASSUME NEW n \in new
      PROVE  /\ n \in 1 .. Len(kind) /\ b[1] \in {Any, kind[n]}
             /\ \A m \in old : m < n
  <2>1. CASE b \in pending /\ n \in current
    <3>1. n \notin handled[b]
      BY <1>4
    <3>2. Ordered!InTurn(b, {n})
      BY <2>1, <3>1, CurrentInTurn
    <3>3. QED
      BY <3>2 DEF Ordered!InTurn, Ordered!Event, Ordered!Settled, Ordered!Wants
  <2>2. CASE n \in Queued /\ b \in Audience(n)
    <3>1. n \in 1 .. Len(kind) /\ n > Taken /\ b[1] \in {Any, kind[n]}
      BY <1>2, <2>2 DEF Audience
    <3>2. \A m \in old : m \in 1 .. Len(kind) /\ m <= Taken
      BY DEF QueueInv, FateInv
    <3>3. Taken \in Nat
      OBVIOUS
    <3>4. QED
      BY <3>1, <3>2, <3>3
  <2>3. QED
    BY <1>1, <1>4, <2>1, <2>2
<1>5. ASSUME NEW n \in new, b \in subscribers,
             NEW m \in since[b] + 1 .. n - 1, b[1] \in {Any, kind[m]}
      PROVE  m \in old \cup new
  <2>1. n \in 1 .. Len(kind) /\ since[b] \in Nat /\ Taken \in Nat
    BY <1>4
  <2>2. m \in 1 .. Len(kind) /\ since[b] < m /\ m < n
    BY <2>1
  <2>3. CASE m <= Taken
    <3>1. m \in old \/ (m \in current /\ b \in pending)
      BY <1>5, <2>2, <2>3 DEF Accounted
    <3>2. QED
      BY <1>1, <3>1
  <2>4. CASE m > Taken
    <3>1. m \in Queued /\ b \in Audience(m)
      BY <1>3, <1>5, <2>2, <2>4 DEF Audience
    <3>2. QED
      BY <1>1, <3>1
  <2>5. QED
    BY <2>1, <2>2, <2>3, <2>4
<1>6. QED
  <2>1. Ordered!InTurn(b, new)
    BY <1>4, <1>5
       DEF Ordered!InTurn, Ordered!Event, Ordered!Settled, Ordered!Wants
  <2>2. QED
    BY <1>1, <2>1

\* Every step of the bus is a step of the broadcast or changes nothing it shows.
LEMMA BroadcastNext ==
  BusTypeOK /\ BusTypeOK' /\ QueueInv /\ Accounted /\ FateInv /\ FateInv' /\ [BusNext]_busVars
    => [Ordered!Next]_Ordered!vars
<1> SUFFICES ASSUME BusTypeOK, BusTypeOK', QueueInv, Accounted, FateInv, FateInv',
                    [BusNext]_busVars
             PROVE  [Ordered!Next]_Ordered!vars
  OBVIOUS
<1> USE EventBusAssumption DEF Ordered!vars, Ordered!Next
<1>1. CASE BusStart \/ BusStop \/ Take \/ Finish \/ UNCHANGED busVars
  BY <1>1 DEF BusStart, BusStop, Take, Finish, busVars
<1>2. ASSUME NEW k \in Kinds, Publish(k) PROVE [Ordered!Next]_Ordered!vars
  BY <1>2 DEF Publish, Ordered!Accept
<1>3. ASSUME NEW b \in Subscription, BusSubscribe(b) PROVE [Ordered!Next]_Ordered!vars
  <2>1. CASE b \in subscribers
    <3>1. subscribers' = subscribers /\ since' = since
      BY <1>3, <2>1 DEF BusSubscribe, BusTypeOK
    <3>2. QED
      BY <1>3, <3>1 DEF BusSubscribe
  <2>2. CASE b \notin subscribers
    <3>1. since' = [since EXCEPT ![b] = Taken] /\ since'[b] = Taken
      BY <1>3, <2>2 DEF BusSubscribe, BusTypeOK
    <3>2. Taken \in 0 .. Len(kind)
      BY DEF Taken, BusTypeOK, Event
    <3>3. \A m \in handled[b] \cup missed[b] : m <= Taken
      BY <1>3 DEF QueueInv, FateInv
    <3>4. QED
      BY <1>3, <2>2, <3>1, <3>2, <3>3
         DEF BusSubscribe, Ordered!Subscribe, Ordered!Settled, Ordered!Subscription, Subscription
  <2>3. QED
    BY <2>1, <2>2
<1>4. ASSUME NEW b \in Subscription, BusUnsubscribe(b) PROVE [Ordered!Next]_Ordered!vars
  BY <1>4 DEF BusUnsubscribe, Ordered!Unsubscribe, Ordered!Subscription, Subscription
<1>5. ASSUME NEW b \in Subscription, Run(b) PROVE [Ordered!Next]_Ordered!vars
  <2>1. PICK n \in current \ handled[b] : handled' = [handled EXCEPT ![b] = @ \cup {n}]
    BY <1>5 DEF Run
  <2>2. b \in pending /\ Ordered!InTurn(b, {n}) /\ n \notin missed[b]
    BY <1>5, <2>1, CurrentInTurn DEF Run, FateInv
  <2>3. UNCHANGED <<subscribers, since, kind, missed>>
    BY <1>5 DEF Run
  <2>4. ASSUME NEW d \in Subscription
        PROVE  /\ handled[d] \subseteq handled'[d] /\ missed[d] \subseteq missed'[d]
               /\ Ordered!InTurn(d, (handled'[d] \cup missed'[d]) \ (handled[d] \cup missed[d]))
               /\ handled'[d] \cap missed'[d] = {}
    <3>1. CASE d = b
      <4>1. (handled'[d] \cup missed'[d]) \ (handled[d] \cup missed[d]) = {n}
        BY <2>1, <2>2, <2>3, <3>1 DEF BusTypeOK
      <4>2. QED
        BY <2>1, <2>2, <2>3, <3>1, <4>1 DEF BusTypeOK, FateInv
    <3>2. CASE d # b
      BY <2>1, <2>3, <3>2 DEF BusTypeOK, FateInv, Ordered!InTurn
    <3>3. QED
      BY <3>1, <3>2
  <2>5. QED
    BY <2>3, <2>4, OneSettles
<1>6. ASSUME NEW b \in Subscription, End(b) PROVE [Ordered!Next]_Ordered!vars
  <2>1. /\ b \in pending /\ UNCHANGED <<subscribers, since, kind, handled>>
        /\ missed' = [missed EXCEPT ![b] = @ \cup (current \ handled[b])]
    BY <1>6 DEF End
  <2>2. ASSUME NEW d \in Subscription
        PROVE  /\ handled[d] \subseteq handled'[d] /\ missed[d] \subseteq missed'[d]
               /\ Ordered!InTurn(d, (handled'[d] \cup missed'[d]) \ (handled[d] \cup missed[d]))
               /\ handled'[d] \cap missed'[d] = {}
    <3>1. CASE d = b /\ current \ handled[b] # {}
      <4>1. PICK n \in current \ handled[b] : TRUE
        BY <3>1
      <4>2. current \ handled[b] = {n}
        BY <4>1 DEF QueueInv
      <4>3. Ordered!InTurn(b, {n}) /\ n \notin missed[b]
        BY <2>1, <4>1, CurrentInTurn DEF FateInv
      <4>4. (handled'[d] \cup missed'[d]) \ (handled[d] \cup missed[d]) = {n}
        BY <2>1, <3>1, <4>2, <4>3 DEF BusTypeOK
      <4>5. Ordered!InTurn(d, (handled'[d] \cup missed'[d]) \ (handled[d] \cup missed[d]))
        BY <3>1, <4>3, <4>4
      <4>6. handled'[d] \cap missed'[d] = {}
        BY DEF FateInv
      <4>7. handled[d] \subseteq handled'[d] /\ missed[d] \subseteq missed'[d]
        BY <2>1 DEF BusTypeOK
      <4>8. QED
        BY <4>5, <4>6, <4>7
    <3>2. CASE ~(d = b /\ current \ handled[b] # {})
      BY <2>1, <3>2 DEF BusTypeOK, FateInv, Ordered!InTurn
    <3>3. QED
      BY <3>1, <3>2
  <2>3. QED
    BY <2>1, <2>2, OneSettles
<1>7. CASE Stopped
  <2>1. UNCHANGED <<subscribers, since, kind, handled>>
    BY <1>7 DEF Stopped
  <2>2. ASSUME NEW d \in Subscription
        PROVE  /\ handled[d] \subseteq handled'[d] /\ missed[d] \subseteq missed'[d]
               /\ Ordered!InTurn(d, (handled'[d] \cup missed'[d]) \ (handled[d] \cup missed[d]))
               /\ handled'[d] \cap missed'[d] = {}
    BY <1>7, DroppedInTurn DEF FateInv, Stopped
  <2>3. QED
    BY <2>1, <2>2, OneSettles
<1>8. QED
  BY <1>1, <1>2, <1>3, <1>4, <1>5, <1>6, <1>7 DEF BusNext, Callback

\* For any event types, subscribers, capacity of the queue and pattern of failing
\* callbacks and restarts, the bus implements the ordered broadcast.
THEOREM BroadcastCorrect == BusSpec => ImplementsBroadcast
<1>1. BusInit => Ordered!Init
  BY BroadcastInit
<1>2. BusTypeOK /\ BusTypeOK' /\ QueueInv /\ Accounted /\ FateInv /\ FateInv' /\ [BusNext]_busVars
        => [Ordered!Next]_Ordered!vars
  BY BroadcastNext
<1>3. QED
  BY <1>1, <1>2, FateCorrect, PTL DEF BusSpec, ImplementsBroadcast, Ordered!Spec

-----------------------------------------------------------------------------
(* The WebSocket manager: what the registry operations do, wherever they    *)
(* are called from.                                                        *)

\* The type of the registry alone.
RegistryType ==
  /\ connections \in SUBSET Sockets
  /\ subscriptions \in [Sockets -> SUBSET Channels]
  /\ members \in [Channels -> SUBSET Sockets]
  /\ quiet \in [Sockets -> BOOLEAN]

LEMMA DisconnectEffect ==
  ASSUME RegistryType, RegistryConsistent, NEW s \in Sockets, Disconnect(s)
  PROVE  /\ RegistryType'
         /\ RegistryConsistent'
         /\ connections' \subseteq connections
         /\ \A c \in Channels : members'[c] \subseteq members[c]
<1>1. RegistryType'
  BY DEF RegistryType, Disconnect
<1>2. RegistryConsistent'
  BY DEF RegistryType, RegistryConsistent, Disconnect
<1>3. QED
  BY <1>1, <1>2 DEF Disconnect

LEMMA TouchEffect ==
  ASSUME RegistryType, RegistryConsistent, NEW s \in Sockets, Touch(s)
  PROVE  /\ RegistryType'
         /\ RegistryConsistent'
         /\ connections' \subseteq connections
         /\ \A c \in Channels : members'[c] \subseteq members[c]
<1>1. quiet' \in [Sockets -> BOOLEAN]
  BY DEF RegistryType, Touch
<1>2. QED
  BY <1>1 DEF RegistryType, RegistryConsistent, Touch

LEMMA SendEffect ==
  ASSUME RegistryType, RegistryConsistent, NEW s \in Sockets, Send(s)
  PROVE  /\ RegistryType'
         /\ RegistryConsistent'
         /\ connections' \subseteq connections
         /\ \A c \in Channels : members'[c] \subseteq members[c]
  BY DisconnectEffect, TouchEffect DEF Send

-----------------------------------------------------------------------------
(* Types.                                                                  *)

TaskType ==
  /\ running \in BOOLEAN
  /\ handler \in [Sockets -> {"away", "accepting", "replying", "reading", "done"}]
  /\ link \in [Sockets -> {"up", "down"}]
  /\ doomed \in [Cleaners -> SUBSET Sockets]
  /\ beat \in SUBSET Sockets
  /\ cast \in [Channels -> {"none", "due", "sending"}]
  /\ targets \in [Channels -> SUBSET Sockets]

LEMMA TypeSplit == TypeOK <=> RegistryType /\ TaskType
  BY DEF TypeOK, RegistryType, TaskType

IInv == RegistryType /\ TaskType /\ RegistryInv

LEMMA IInvInit == Init => IInv
  BY DEF Init, IInv, RegistryType, TaskType, RegistryInv, RegistryConsistent, NotYetRegistered

\* The steps that leave the registry alone or only send or disconnect.
LEMMA SendStep ==
  ASSUME IInv, NEW s \in Sockets, Send(s) \/ Disconnect(s) \/ Touch(s),
         TaskType',
         \A t \in Sockets : handler'[t] \in {"away", "accepting"} => handler'[t] = handler[t]
  PROVE  IInv'
<1>1. /\ RegistryType'
      /\ RegistryConsistent'
      /\ connections' \subseteq connections
  BY SendEffect, DisconnectEffect, TouchEffect DEF IInv, RegistryInv
<1>2. QED
  BY <1>1 DEF IInv, RegistryInv, NotYetRegistered

LEMMA IdleStep ==
  ASSUME IInv, UNCHANGED <<connections, subscriptions, members>>,
         quiet' \in [Sockets -> BOOLEAN], TaskType',
         \A t \in Sockets : handler'[t] \in {"away", "accepting"}
                              => handler[t] \in {"away", "accepting"}
  PROVE  IInv'
  BY DEF IInv, RegistryType, RegistryInv, RegistryConsistent, NotYetRegistered

LEMMA ArriveStep == ASSUME IInv, NEW s \in Sockets, Arrive(s) PROVE IInv'
<1>1. TaskType'
  BY DEF IInv, TaskType, Arrive, tasks
<1>2. \A t \in Sockets : handler'[t] \in {"away", "accepting"}
                           => handler[t] \in {"away", "accepting"}
  BY DEF IInv, TaskType, Arrive
<1>3. quiet' \in [Sockets -> BOOLEAN] /\ UNCHANGED <<connections, subscriptions, members>>
  BY DEF IInv, RegistryType, Arrive, registry
<1>4. QED
  BY <1>1, <1>2, <1>3, IdleStep

LEMMA RegisterStep == ASSUME IInv, NEW s \in Sockets, Register(s) PROVE IInv'
<1>1. s \notin connections /\ \A c \in Channels : s \notin members[c]
  BY DEF IInv, RegistryInv, RegistryConsistent, NotYetRegistered, Register
<1>2. PICK S \in Initial(s) :
        /\ subscriptions' = [subscriptions EXCEPT ![s] = S]
        /\ members' = [c \in Channels |-> IF c \in S THEN members[c] \cup {s} ELSE members[c]]
  BY DEF Register
<1>3. S \subseteq Channels
  BY WebSocketAssumption DEF Initial
<1>4. RegistryType'
  BY <1>2, <1>3 DEF IInv, RegistryType, Register
<1>5. TaskType'
  BY DEF IInv, TaskType, Register, tasks
<1>6. RegistryConsistent'
  BY <1>1, <1>2, <1>3 DEF IInv, RegistryType, RegistryInv, RegistryConsistent, Register
<1>7. NotYetRegistered'
  BY DEF IInv, TaskType, RegistryInv, NotYetRegistered, Register
<1>8. QED
  BY <1>4, <1>5, <1>6, <1>7 DEF IInv, RegistryInv

LEMMA SubscribeStep ==
  ASSUME IInv, NEW s \in Sockets, NEW c \in Channels, Subscribe(s, c) PROVE IInv'
<1>1. TaskType' /\ \A t \in Sockets : handler'[t] \in {"away", "accepting"} => handler'[t] = handler[t]
  BY DEF IInv, TaskType, Subscribe, tasks
<1>2. CASE s \in connections /\ Cardinality(subscriptions[s]) < MaxSubs
  <2>1. /\ connections' = connections
        /\ subscriptions' = [subscriptions EXCEPT ![s] = @ \cup {c}]
        /\ members' = [members EXCEPT ![c] = @ \cup {s}]
        /\ quiet' = [quiet EXCEPT ![s] = FALSE]
    BY <1>2 DEF Subscribe
  <2>2. RegistryType' /\ RegistryConsistent'
    BY <1>2, <2>1 DEF IInv, RegistryType, RegistryInv, RegistryConsistent
  <2>3. NotYetRegistered'
    BY <1>1, <2>1 DEF IInv, RegistryInv, NotYetRegistered
  <2>4. QED
    BY <1>1, <2>2, <2>3 DEF IInv, RegistryInv
<1>3. CASE ~(s \in connections /\ Cardinality(subscriptions[s]) < MaxSubs)
  <2>1. Touch(s)
    BY <1>3 DEF Subscribe
  <2>2. QED
    BY <1>1, <2>1, SendStep
<1>4. QED
  BY <1>2, <1>3

LEMMA UnsubscribeStep ==
  ASSUME IInv, NEW s \in Sockets, NEW c \in Channels, Unsubscribe(s, c) PROVE IInv'
<1>1. TaskType' /\ \A t \in Sockets : handler'[t] \in {"away", "accepting"} => handler'[t] = handler[t]
  BY DEF IInv, TaskType, Unsubscribe, tasks
<1>2. CASE s \in connections
  <2>1. /\ connections' = connections
        /\ subscriptions' = [subscriptions EXCEPT ![s] = @ \ {c}]
        /\ members' = [members EXCEPT ![c] = @ \ {s}]
        /\ quiet' = [quiet EXCEPT ![s] = FALSE]
    BY <1>2 DEF Unsubscribe
  <2>2. RegistryType' /\ RegistryConsistent'
    BY <1>2, <2>1 DEF IInv, RegistryType, RegistryInv, RegistryConsistent
  <2>3. NotYetRegistered'
    BY <1>1, <2>1 DEF IInv, RegistryInv, NotYetRegistered
  <2>4. QED
    BY <1>1, <2>2, <2>3 DEF IInv, RegistryInv
<1>3. CASE s \notin connections
  <2>1. quiet' \in [Sockets -> BOOLEAN] /\ UNCHANGED <<connections, subscriptions, members>>
    BY <1>3 DEF IInv, RegistryType, Unsubscribe, registry
  <2>2. QED
    BY <1>1, <2>1, IdleStep
<1>4. QED
  BY <1>2, <1>3

LEMMA HandlerKeeps == ASSUME IInv, NEW s \in Sockets, HandlerStep(s) PROVE IInv'
<1>1. CASE Arrive(s)
  BY <1>1, ArriveStep
<1>2. CASE Register(s)
  BY <1>2, RegisterStep
<1>3. CASE \E c \in Channels : Subscribe(s, c) \/ Unsubscribe(s, c)
  BY <1>3, SubscribeStep, UnsubscribeStep
<1>4. CASE Reply(s) \/ Converse(s) \/ Leave(s)
  <2>1. Send(s) \/ Disconnect(s) \/ Touch(s)
    BY <1>4 DEF Reply, Converse, Leave
  <2>2. TaskType' /\ \A t \in Sockets : handler'[t] \in {"away", "accepting"} => handler'[t] = handler[t]
    BY <1>4 DEF IInv, TaskType, Reply, Converse, Leave, tasks
  <2>3. QED
    BY <2>1, <2>2, SendStep
<1>5. CASE AcceptFails(s) \/ Crash(s)
  <2>1. quiet' \in [Sockets -> BOOLEAN] /\ UNCHANGED <<connections, subscriptions, members>>
    BY <1>5 DEF IInv, RegistryType, AcceptFails, Crash, registry
  <2>2. TaskType' /\ \A t \in Sockets : handler'[t] \in {"away", "accepting"} => handler'[t] = handler[t]
    BY <1>5 DEF IInv, TaskType, AcceptFails, Crash, tasks
  <2>3. QED
    BY <2>1, <2>2, IdleStep
<1>6. QED
  BY <1>1, <1>2, <1>3, <1>4, <1>5 DEF HandlerStep

LEMMA TransportKeeps ==
  ASSUME IInv, NEW s \in Sockets, Ping(s) \/ Drop(s) \/ FallQuiet(s) PROVE IInv'
<1>1. CASE Ping(s)
  <2>1. TaskType' /\ UNCHANGED handler
    BY <1>1 DEF IInv, TaskType, Ping
  <2>2. QED
    BY <1>1, <2>1, SendStep DEF Ping
<1>2. CASE Drop(s) \/ FallQuiet(s)
  <2>1. TaskType' /\ UNCHANGED handler
    BY <1>2 DEF IInv, TaskType, Drop, FallQuiet, tasks
  <2>2. quiet' \in [Sockets -> BOOLEAN] /\ UNCHANGED <<connections, subscriptions, members>>
    BY <1>2 DEF IInv, RegistryType, Drop, FallQuiet, registry
  <2>3. QED
    BY <2>1, <2>2, IdleStep
<1>3. QED
  BY <1>1, <1>2

LEMMA BroadcastKeeps ==
  ASSUME IInv, NEW c \in Channels, BroadcastStep(c) PROVE IInv'
<1>1. CASE Snapshot(c) \/ BroadcastEnds(c)
  <2>1. TaskType' /\ UNCHANGED <<handler, registry>>
    BY <1>1 DEF IInv, TaskType, RegistryType, Snapshot, BroadcastEnds
  <2>2. QED
    BY <2>1, IdleStep DEF IInv, RegistryType, registry
<1>2. ASSUME NEW s \in Sockets, Deliver(c, s) PROVE IInv'
  <2>1. TaskType' /\ UNCHANGED handler
    BY <1>2 DEF IInv, TaskType, Deliver
  <2>2. QED
    BY <1>2, <2>1, SendStep DEF Deliver
<1>3. QED
  BY <1>1, <1>2 DEF BroadcastStep

LEMMA CleanerKeeps ==
  ASSUME IInv, NEW k \in Cleaners, Scan(k) \/ \E s \in Sockets : Reap(k, s) PROVE IInv'
<1>1. CASE Scan(k)
  <2>1. TaskType' /\ UNCHANGED <<handler, registry>>
    BY <1>1 DEF IInv, TaskType, RegistryType, Scan
  <2>2. QED
    BY <2>1, IdleStep DEF IInv, RegistryType, registry
<1>2. ASSUME NEW s \in Sockets, Reap(k, s) PROVE IInv'
  <2>1. TaskType' /\ UNCHANGED handler
    BY <1>2 DEF IInv, TaskType, Reap
  <2>2. QED
    BY <1>2, <2>1, SendStep DEF Reap
<1>3. QED
  BY <1>1, <1>2

LEMMA StopKeeps == ASSUME IInv, Stop PROVE IInv'
<1>1. RegistryType'
  BY DEF IInv, RegistryType, Stop
<1>2. TaskType'
  BY DEF IInv, TaskType, Stop
<1>3. RegistryConsistent' /\ NotYetRegistered'
  BY DEF RegistryConsistent, NotYetRegistered, Stop
<1>4. QED
  BY <1>1, <1>2, <1>3 DEF IInv, RegistryInv

LEMMA IInvNext == IInv /\ [Next]_vars => IInv'
<1> SUFFICES ASSUME IInv, [Next]_vars PROVE IInv'
  OBVIOUS
<1>1. ASSUME NEW E \in SUBSET Channels, PublishEvent(E) PROVE IInv'
  <2>1. TaskType' /\ UNCHANGED <<handler, registry>>
    BY <1>1 DEF IInv, TaskType, PublishEvent
  <2>2. QED
    BY <2>1, IdleStep DEF IInv, RegistryType, registry
<1>2. CASE Heartbeat
  <2>1. TaskType' /\ UNCHANGED <<handler, registry>>
    BY <1>2 DEF IInv, TaskType, RegistryType, Heartbeat
  <2>2. QED
    BY <2>1, IdleStep DEF IInv, RegistryType, registry
<1>3. CASE UNCHANGED vars
  <2>1. TaskType' /\ UNCHANGED <<handler, registry>>
    BY <1>3 DEF IInv, TaskType, vars, tasks
  <2>2. QED
    BY <2>1, IdleStep DEF IInv, RegistryType, registry
<1>4. QED
  BY <1>1, <1>2, <1>3, HandlerKeeps, TransportKeeps, BroadcastKeeps, CleanerKeeps, StopKeeps
     DEF Next

LEMMA IInvCorrect == Spec => []IInv
  BY IInvInit, IInvNext, PTL DEF Spec

\* Every variable of the manager keeps its type.
THEOREM ManagerTypeCorrect == Spec => []TypeOK
  BY IInvCorrect, TypeSplit, PTL DEF IInv

\* The registry and the channel index agree in every reachable state.
THEOREM RegistryCorrect == Spec => []RegistryConsistent
<1>1. IInv => RegistryConsistent
  BY DEF IInv, RegistryInv
<1>2. QED
  BY <1>1, IInvCorrect, PTL

-----------------------------------------------------------------------------
(* Who joins the registry, and who is sent what.                           *)

\* The steps of the tasks that never add a member or a connection.
Shrinks ==
  /\ connections' \subseteq connections
  /\ \A c \in Channels : members'[c] \subseteq members[c]

LEMMA ShrinkingSteps ==
  ASSUME IInv, [Next]_vars
  PROVE  \/ Shrinks
         \/ \E s \in Sockets : Register(s)
         \/ \E s \in Sockets, c \in Channels : Subscribe(s, c) \/ Unsubscribe(s, c)
<1>1. ASSUME NEW s \in Sockets, Send(s) \/ Disconnect(s) \/ Touch(s) PROVE Shrinks
  BY <1>1, SendEffect, DisconnectEffect, TouchEffect DEF IInv, RegistryInv, Shrinks
<1>2. ASSUME UNCHANGED registry PROVE Shrinks
  BY <1>2 DEF registry, Shrinks
<1>3. ASSUME NEW s \in Sockets, HandlerStep(s)
      PROVE  \/ Shrinks \/ Register(s)
             \/ \E c \in Channels : Subscribe(s, c) \/ Unsubscribe(s, c)
  BY <1>1, <1>2, <1>3 DEF HandlerStep, Arrive, AcceptFails, Reply, Converse, Leave, Crash
<1>4. ASSUME NEW s \in Sockets, Ping(s) \/ Drop(s) PROVE Shrinks
  BY <1>1, <1>2, <1>4 DEF Ping, Drop
<1>5. ASSUME NEW s \in Sockets, FallQuiet(s) PROVE Shrinks
  BY <1>5 DEF FallQuiet, Shrinks
<1>6. ASSUME NEW c \in Channels, BroadcastStep(c) PROVE Shrinks
  BY <1>1, <1>2, <1>6 DEF BroadcastStep, Snapshot, Deliver, BroadcastEnds
<1>7. ASSUME NEW k \in Cleaners, Scan(k) \/ \E s \in Sockets : Reap(k, s) PROVE Shrinks
  BY <1>1, <1>2, <1>7 DEF Scan, Reap
<1>8. CASE Stop
  BY <1>8 DEF Stop, Shrinks
<1>9. CASE Heartbeat \/ UNCHANGED vars
  BY <1>2, <1>9 DEF Heartbeat, vars
<1>10. ASSUME NEW E \in SUBSET Channels, PublishEvent(E) PROVE Shrinks
  BY <1>2, <1>10 DEF PublishEvent
<1>11. QED
  BY <1>3, <1>4, <1>5, <1>6, <1>7, <1>8, <1>9, <1>10 DEF Next

LEMMA JoinStep == IInv /\ [Next]_vars => [OnlyNewcomersJoin]_vars
<1> SUFFICES ASSUME IInv, Next PROVE OnlyNewcomersJoin
  BY DEF OnlyNewcomersJoin
<1>1. CASE Shrinks
  BY <1>1 DEF Shrinks, OnlyNewcomersJoin
<1>2. ASSUME NEW s \in Sockets, Register(s) PROVE OnlyNewcomersJoin
  BY <1>2 DEF Register, OnlyNewcomersJoin
<1>3. ASSUME NEW s \in Sockets, NEW c \in Channels, Subscribe(s, c) \/ Unsubscribe(s, c)
      PROVE  OnlyNewcomersJoin
  BY <1>3 DEF Subscribe, Unsubscribe, Touch, registry, OnlyNewcomersJoin
<1>4. QED
  BY <1>1, <1>2, <1>3, ShrinkingSteps

\* Only a handshake that has just been accepted enters the registry.
THEOREM NoResurrectionCorrect == Spec => NoResurrection
  BY IInvCorrect, JoinStep, PTL DEF Spec, NoResurrection

LEMMA AllowedNext == IInv /\ OnlyAllowed /\ [Next]_vars => OnlyAllowed'
<1> SUFFICES ASSUME IInv, OnlyAllowed, [Next]_vars PROVE OnlyAllowed'
  OBVIOUS
<1>1. \A c \in Channels : \A s \in members'[c] : c \in Allowed[s]
  <2>1. CASE Shrinks
    BY <2>1 DEF Shrinks, OnlyAllowed
  <2>2. ASSUME NEW s \in Sockets, Register(s)
        PROVE  \A c \in Channels : \A t \in members'[c] : c \in Allowed[t]
    <3>1. PICK S \in Initial(s) :
            members' = [c \in Channels |-> IF c \in S THEN members[c] \cup {s} ELSE members[c]]
      BY <2>2 DEF Register
    <3>2. S \subseteq Allowed[s]
      BY DEF Initial
    <3>3. QED
      BY <3>1, <3>2 DEF OnlyAllowed
  <2>3. ASSUME NEW s \in Sockets, NEW d \in Channels, Subscribe(s, d) \/ Unsubscribe(s, d)
        PROVE  \A c \in Channels : \A t \in members'[c] : c \in Allowed[t]
    BY <2>3 DEF Subscribe, Unsubscribe, Touch, registry, OnlyAllowed, IInv, RegistryType
  <2>4. QED
    BY <2>1, <2>2, <2>3, ShrinkingSteps
<1>2. ASSUME NEW c \in Channels, NEW s \in targets'[c]
      PROVE  s \in targets[c] \/ s \in members[c]
  <2> USE <1>2 DEF IInv, TaskType, RegistryType
  <2>1. CASE \E d \in Channels : Snapshot(d)
    BY <2>1 DEF Snapshot
  <2>2. CASE \E d \in Channels, t \in Sockets : Deliver(d, t)
    BY <2>2 DEF Deliver
  <2>3. CASE UNCHANGED targets
    BY <2>3
  <2>4. ASSUME NEW t \in Sockets, HandlerStep(t) \/ Ping(t) \/ Drop(t) \/ FallQuiet(t)
        PROVE  UNCHANGED targets
    BY <2>4 DEF HandlerStep, Arrive, Register, AcceptFails, Reply, Subscribe, Unsubscribe,
                Converse, Leave, Crash, Ping, Drop, FallQuiet, tasks
  <2>5. QED
    BY <2>1, <2>2, <2>3, <2>4
       DEF Next, PublishEvent, BroadcastStep, BroadcastEnds, Scan, Reap, Heartbeat, Stop,
           vars, tasks
<1>3. QED
  BY <1>1, <1>2 DEF OnlyAllowed

\* No socket is a member of, or about to be sent an event of, a channel its
\* endpoint does not allow.
THEOREM OnlyAllowedCorrect == Spec => []OnlyAllowed
<1>1. Init => OnlyAllowed
  BY DEF Init, OnlyAllowed
<1>2. QED
  BY <1>1, IInvCorrect, AllowedNext, PTL DEF Spec
=============================================================================
