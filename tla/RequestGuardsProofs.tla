------------------------- MODULE RequestGuardsProofs -------------------------
(***************************************************************************)
(* Proofs about RequestGuards, for any clients, keys, limits and times:    *)
(* what a refused client is told is true, and giving up on attempts never  *)
(* loses a slot of the semaphore.                                          *)
(***************************************************************************)
EXTENDS RequestGuards, FiniteSetTheorems, TLAPS

-----------------------------------------------------------------------------
(* What a client is told.  After it was told once, the bucket is over at   *)
(* most a tick after the wait; after it was told twice, it is over first.  *)

ToldOnce(c) ==
  LET left == buckets[told[c].by].left
  IN  /\ told[c].by \in DOMAIN buckets
      /\ left > 0
      /\ left <= told[c].wait + 1
      /\ told[c].times > 1 => told[c].times = 2 /\ left = 1 /\ told[c].wait > 0

Buckets == \A k \in DOMAIN buckets : buckets[k] \in [count : Nat, left : 0 .. Window]

Tells == told \in [Calls -> [wait : Nat, by : Refusers, times : Nat]]

WaitInv ==
  /\ Buckets
  /\ Tells
  /\ \A c \in Calls : told[c].times > 0 => ToldOnce(c)

LEMMA UntoldType == Untold \in [wait : Nat, by : Refusers, times : Nat] /\ Untold.times = 0
  BY DEF Untold, Refusers

LEMMA WaitInit == Init => WaitInv
<1> SUFFICES ASSUME Init PROVE WaitInv
  OBVIOUS
<1>1. Buckets
  BY DEF Init, Buckets
<1>2. Tells /\ \A c \in Calls : told[c].times = 0
  BY UntoldType DEF Init, Tells
<1>3. QED
  BY <1>1, <1>2 DEF WaitInv

\* A request leaves the end of a bucket that has begun where it is.
LEMMA ChargeKeeps ==
  ASSUME Buckets, NEW keys, NEW limit, Charge(keys, limit)
  PROVE  /\ Buckets'
         /\ \A k \in DOMAIN buckets : buckets[k].left > 0 =>
              k \in DOMAIN buckets' /\ buckets'[k].left = buckets[k].left
<1>1. \A k : (k \in DOMAIN buckets => buckets[k] \in [count : Nat, left : 0 .. Window])
             => Hit(k) \in [count : Nat, left : 0 .. Window]
  BY WindowAssumption DEF Hit, Current, Begins
<1>2. \A k \in DOMAIN buckets : buckets[k].left > 0 => Hit(k).left = buckets[k].left
  BY DEF Hit, Current, Begins, Buckets
<1>3. QED
  BY <1>1, <1>2 DEF Charge, Buckets

\* The key that refuses a request has a bucket that is not over.
LEMMA RefuserIsFull ==
  ASSUME NEW c \in Clients, NEW by \in RefusedBy(KeysOf[c], LimitOf(c))
  PROVE  /\ by \in Refusers
         /\ by \in DOMAIN buckets
         /\ buckets[by].left # 0
         /\ Current(by) = buckets[by]
<1>1. PICK i \in DOMAIN KeysOf[c] : by = KeysOf[c][i] /\ Current(by).count >= LimitOf(c)
  BY DEF RefusedBy, Refusing
<1>2. LimitOf(c) \in Nat \ {0}
  BY GuardsAssumption DEF LimitOf
<1>3. ~Begins(by)
  BY <1>1, <1>2 DEF Current
<1>4. by \in DOMAIN buckets /\ buckets[by].left # 0 /\ Current(by) = buckets[by]
  BY <1>3 DEF Begins, Current
<1>5. by \in Keys
  BY <1>1 DEF Keys
<1>6. QED
  BY <1>4, <1>5 DEF Refusers

\* A request that is not told anything keeps what the others were told.
LEMMA UntoldKeeps ==
  ASSUME WaitInv, NEW keys, NEW limit, Charge(keys, limit), UNCHANGED told
  PROVE  WaitInv'
<1>1. Buckets' /\ \A k \in DOMAIN buckets : buckets[k].left > 0 =>
                    k \in DOMAIN buckets' /\ buckets'[k].left = buckets[k].left
  BY ChargeKeeps DEF WaitInv
<1>2. QED
  BY <1>1 DEF WaitInv, Tells, ToldOnce

LEMMA RefusedKeeps ==
  ASSUME WaitInv, NEW c \in Calls, Charge(KeysOf[c], LimitOf(c)), Refused(c)
  PROVE  WaitInv'
<1>1. Buckets' /\ \A k \in DOMAIN buckets : buckets[k].left > 0 =>
                    k \in DOMAIN buckets' /\ buckets'[k].left = buckets[k].left
  BY ChargeKeeps DEF WaitInv
<1>2. PICK by \in RefusedBy(KeysOf[c], LimitOf(c)) :
        told' = [told EXCEPT ![c] =
                   [wait |-> RetryAfter(by), by |-> by,
                    times |-> LET before == IF told[c].by = by THEN told[c].times ELSE 0
                              IN  IF told[c].wait = 0 THEN before + 1 ELSE before]]
  BY DEF Refused
<1>3. /\ by \in Refusers
      /\ by \in DOMAIN buckets
      /\ buckets[by].left # 0
      /\ Current(by) = buckets[by]
  BY RefuserIsFull DEF Clients
<1>4. buckets[by].left \in Nat \ {0}
  BY <1>3 DEF WaitInv, Buckets
<1>5. /\ RetryAfter(by) \in Nat \ {0}
      /\ buckets[by].left <= RetryAfter(by) + 1
  BY <1>3, <1>4 DEF RetryAfter, Second
<1>6. told[c] \in [wait : Nat, by : Refusers, times : Nat]
  BY DEF WaitInv, Tells
<1>7. told'[c] = [wait |-> RetryAfter(by), by |-> by, times |-> told'[c].times]
      /\ told'[c].times = LET before == IF told[c].by = by THEN told[c].times ELSE 0
                          IN  IF told[c].wait = 0 THEN before + 1 ELSE before
  BY <1>2 DEF WaitInv, Tells
<1>8. Tells'
  BY <1>2, <1>3, <1>5, <1>6 DEF WaitInv, Tells
<1>9. ASSUME told'[c].times > 0 PROVE ToldOnce(c)'
  <2>1. told[c].by = by /\ told[c].times > 0 => ToldOnce(c)
    BY DEF WaitInv
  <2>2. by \in DOMAIN buckets' /\ buckets'[by].left = buckets[by].left
    BY <1>1, <1>3, <1>4
  <2>3. told'[c].times > 1 => told'[c].times = 2 /\ buckets[by].left = 1
    BY <1>4, <1>6, <1>7, <2>1 DEF ToldOnce
  <2>4. QED
    BY <1>4, <1>5, <1>7, <2>2, <2>3 DEF ToldOnce
<1>10. ASSUME NEW d \in Calls \ {c}, told'[d].times > 0 PROVE ToldOnce(d)'
  <2>1. told'[d] = told[d]
    BY <1>2 DEF WaitInv, Tells
  <2>2. ToldOnce(d)
    BY <1>10, <2>1 DEF WaitInv
  <2>3. QED
    BY <1>1, <2>1, <2>2 DEF ToldOnce
<1>11. QED
  BY <1>1, <1>8, <1>9, <1>10 DEF WaitInv

LEMMA LessType ==
  /\ \A n \in Nat : Less(n) \in Nat /\ (n > 0 => Less(n) = n - 1) /\ (n = 0 => Less(n) = 0)
  /\ \A n \in 0 .. Window : Less(n) \in 0 .. Window
  BY WindowAssumption DEF Less

LEMMA TickKeeps == ASSUME WaitInv, Tick PROVE WaitInv'
<1>1. Buckets'
  <2>1. DOMAIN buckets' = DOMAIN buckets
        /\ \A k \in DOMAIN buckets : buckets'[k] = [buckets[k] EXCEPT !.left = Less(@)]
    BY DEF Tick, Elapse
  <2>2. QED
    BY <2>1, LessType DEF WaitInv, Buckets
<1>2. Tells'
  <2>1. \A c \in Calls :
          [told[c] EXCEPT !.wait = Less(@), !.times = IF StillRefusing(c) THEN @ ELSE 0]
            \in [wait : Nat, by : Refusers, times : Nat]
    BY LessType DEF WaitInv, Tells
  <2>2. QED
    BY <2>1 DEF Tick, Tells
<1>3. ASSUME NEW c \in Calls, told'[c].times > 0 PROVE ToldOnce(c)'
  <2>1. told[c] \in [wait : Nat, by : Refusers, times : Nat]
    BY DEF WaitInv, Tells
  <2>2. /\ told'[c] = [told[c] EXCEPT !.wait = Less(@),
                                      !.times = IF StillRefusing(c) THEN @ ELSE 0]
    BY DEF Tick
  <2>3. StillRefusing(c) /\ told'[c].times = told[c].times /\ told'[c].by = told[c].by
        /\ told'[c].wait = Less(told[c].wait)
    BY <1>3, <2>1, <2>2
  <2>4. ToldOnce(c)
    BY <1>3, <2>3 DEF WaitInv
  <2>5. buckets[told[c].by] \in [count : Nat, left : 0 .. Window]
    BY <2>4 DEF ToldOnce, WaitInv, Buckets
  <2>6. /\ told[c].by \in DOMAIN buckets'
        /\ buckets'[told[c].by].left = buckets[told[c].by].left - 1
    <3>1. told[c].by \in DOMAIN buckets /\ buckets[told[c].by].left > 0
      BY <2>4 DEF ToldOnce
    <3>2. buckets' = [k \in DOMAIN buckets |-> [buckets[k] EXCEPT !.left = Less(@)]]
      BY DEF Tick, Elapse
    <3>3. buckets'[told[c].by].left = Less(buckets[told[c].by].left)
      BY <2>5, <3>1, <3>2
    <3>4. QED
      BY <2>5, <3>1, <3>2, <3>3, LessType
  <2>7. buckets[told[c].by].left > 1
    BY <2>3 DEF StillRefusing
  <2>8. told[c].times = told'[c].times /\ told[c].times <= 1
    BY <2>1, <2>3, <2>4, <2>7 DEF ToldOnce
  <2>9. told'[c].wait >= told[c].wait - 1
    BY <2>1, <2>3, LessType
  <2>10. buckets[told[c].by].left <= told[c].wait + 1
    BY <2>4 DEF ToldOnce
  <2>11. told'[c].wait \in Nat /\ told'[c].times \in Nat
    BY <2>1, <2>3, LessType
  <2>12. buckets[told[c].by].left \in Int /\ told[c].wait \in Int
    BY <2>1, <2>5
  <2>13. buckets'[told'[c].by].left <= told'[c].wait + 1
    BY <2>3, <2>6, <2>9, <2>10, <2>11, <2>12
  <2>14. told'[c].by \in DOMAIN buckets' /\ buckets'[told'[c].by].left > 0
    BY <2>3, <2>6, <2>7, <2>12
  <2>15. ~(told'[c].times > 1)
    BY <2>1, <2>8, <2>11
  <2>16. QED
    BY <2>13, <2>14, <2>15 DEF ToldOnce
<1>4. QED
  BY <1>1, <1>2, <1>3 DEF WaitInv

LEMMA WaitNext == WaitInv /\ [Next]_vars => WaitInv'
<1> SUFFICES ASSUME WaitInv, [Next]_vars PROVE WaitInv'
  OBVIOUS
<1>1. ASSUME NEW c \in Calls, Dispatch(c) PROVE WaitInv'
  <2>1. Charge(KeysOf[c], LimitOf(c))
    BY <1>1 DEF Dispatch
  <2>2. CASE Refused(c)
    BY <2>1, <2>2, RefusedKeeps
  <2>3. CASE told' = [told EXCEPT ![c] = Untold]
    <3>1. Buckets' /\ \A k \in DOMAIN buckets : buckets[k].left > 0 =>
                        k \in DOMAIN buckets' /\ buckets'[k].left = buckets[k].left
      BY <2>1, ChargeKeeps DEF WaitInv
    <3>2. Tells'
      BY <2>3, UntoldType DEF WaitInv, Tells
    <3>3. \A d \in Calls : told'[d].times > 0 => told'[d] = told[d]
      BY <2>3, UntoldType DEF WaitInv, Tells
    <3>4. QED
      BY <3>1, <3>2, <3>3 DEF WaitInv, ToldOnce
  <2>4. QED
    BY <1>1, <2>2, <2>3 DEF Dispatch
<1>2. ASSUME NEW s \in Sockets, Handshake(s) PROVE WaitInv'
  BY <1>2, UntoldKeeps DEF Handshake
<1>3. CASE CleanUp
  BY <1>3 DEF CleanUp, Cleanup, Over, WaitInv, Buckets, Tells, ToldOnce
<1>4. CASE (\E c \in Calls : Attempt(c)) \/ Abandoned \/ Recommend \/ UNCHANGED vars
  BY <1>4 DEF Attempt, Abandoned, Recommend, guardVars, vars, WaitInv, Buckets, Tells, ToldOnce
<1>5. CASE Tick
  BY <1>5, TickKeeps
<1>6. QED
  BY <1>1, <1>2, <1>3, <1>4, <1>5 DEF Next

(* A client that waits as it is told after every refusal is refused at     *)
(* most twice before the bucket that refuses it is over, for any keys,     *)
(* limits and windows (Retry-After of RateLimitMiddleware).                *)
THEOREM WaitsAreTrue == Spec => []WaitIsTrue
<1>1. WaitInv => WaitIsTrue
  BY DEF WaitInv, Tells, ToldOnce, WaitIsTrue
<1>2. QED
  BY <1>1, WaitInit, WaitNext, PTL DEF Spec

-----------------------------------------------------------------------------
(* The slots of the semaphore.  A waiter is at nothing else and waits once, *)
(* so that the one let in holds no slot yet.                                *)

Holding == {c \in Calls : call[c].at \in {"submitted", "sent"}}

Sent == {c \in Calls : call[c].at = "sent"}

Waiting ==
  /\ waiters \in Seq(Calls)
  /\ \A i \in DOMAIN waiters : call[waiters[i]].at = "waiting"
  /\ \A i, j \in DOMAIN waiters : waiters[i] = waiters[j] => i = j

SlotInv ==
  /\ slots \in Int
  /\ orphans \in Nat
  /\ call \in [Calls -> [at : {"idle", "waiting", "submitted", "sent", "pausing"},
                         attempt : Nat]]
  /\ Waiting
  /\ slots = Slots - Cardinality(Holding)
  /\ orphans + Cardinality(Sent) <= Threads

LEMMA Constants == /\ Slots \in Nat \ {0} /\ Threads \in Nat \ {0} /\ Attempts \in Nat \ {0}
                   /\ IsFiniteSet(Calls)
  BY GeminiAssumption

\* Any set of calls is finite, and one more or one less counts.
LEMMA Counts ==
  ASSUME NEW S \in SUBSET Calls, NEW c \in Calls
  PROVE  /\ IsFiniteSet(S) /\ Cardinality(S) \in Nat
         /\ c \notin S => Cardinality(S \cup {c}) = Cardinality(S) + 1
         /\ c \in S => Cardinality(S \ {c}) = Cardinality(S) - 1
<1>1. IsFiniteSet(S) /\ Cardinality(S) \in Nat
  BY Constants, FS_Subset, FS_CardinalityType
<1>2. QED
  BY <1>1, FS_AddElement, FS_RemoveElement

LEMMA SlotInit == Init => SlotInv
<1> SUFFICES ASSUME Init PROVE SlotInv
  OBVIOUS
<1>1. call = [c \in Calls |-> [at |-> "idle", attempt |-> 0]]
      /\ waiters = << >> /\ slots = Slots /\ orphans = 0
  BY DEF Init, GeminiInit, Idle
<1>2. Holding = {} /\ Sent = {}
  BY <1>1 DEF Holding, Sent
<1>3. Waiting
  BY <1>1 DEF Waiting
<1>4. Cardinality(Holding) = 0 /\ Cardinality(Sent) = 0
  BY <1>2, FS_EmptySet
<1>5. QED
  BY <1>1, <1>3, <1>4, Constants DEF SlotInv

\* A call that is at nothing, or pauses, becomes the last of the waiters.
LEMMA AwaitsKeeps ==
  ASSUME SlotInv, NEW c \in Calls, NEW n \in Nat, call[c].at \in {"idle", "pausing"},
         Awaits(c, n), UNCHANGED <<slots, orphans>>
  PROVE  SlotInv'
<1>1. call' \in [Calls -> [at : {"idle", "waiting", "submitted", "sent", "pausing"},
                          attempt : Nat]]
  BY DEF Awaits, SlotInv
<1>2. Holding' = Holding /\ Sent' = Sent
  BY DEF Awaits, SlotInv, Holding, Sent
<1>3. Waiting'
  <2>1. waiters' = Append(waiters, c) /\ waiters \in Seq(Calls)
    BY DEF Awaits, SlotInv, Waiting
  <2>2. \A i \in DOMAIN waiters : waiters[i] # c /\ waiters[i] \in Calls
    BY <2>1 DEF SlotInv, Waiting
  <2>3. call' = [call EXCEPT ![c] = [at |-> "waiting", attempt |-> n]]
    BY DEF Awaits
  <2>4. waiters' \in Seq(Calls)
    BY <2>1
  <2>5. \A i \in DOMAIN waiters' : call'[waiters'[i]].at = "waiting"
    BY <2>1, <2>2, <2>3 DEF SlotInv, Waiting
  <2>6. \A i, j \in DOMAIN waiters' : waiters'[i] = waiters'[j] => i = j
    BY <2>1, <2>2 DEF SlotInv, Waiting
  <2>7. QED
    BY <2>4, <2>5, <2>6 DEF Waiting
<1>4. QED
  BY <1>1, <1>2, <1>3 DEF SlotInv

LEMMA AcquireKeeps == ASSUME SlotInv, NEW c \in Calls, Acquire(c) PROVE SlotInv'
<1>1. /\ waiters \in Seq(Calls) /\ waiters # << >> /\ waiters' = Tail(waiters)
      /\ waiters[1] = c /\ call' = [call EXCEPT ![c].at = "submitted"]
      /\ slots' = slots - 1 /\ orphans' = orphans
  BY DEF Acquire, SlotInv, Waiting
<1>2. call[c].at = "waiting"
  BY <1>1 DEF SlotInv, Waiting
<1>3. c \notin Holding /\ Holding' = Holding \cup {c} /\ Sent' = Sent
  BY <1>1, <1>2 DEF SlotInv, Holding, Sent
<1>4. Cardinality(Holding') = Cardinality(Holding) + 1 /\ Cardinality(Holding) \in Nat
  BY <1>3, Counts DEF Holding
<1>5. Waiting'
  <2>1. waiters' \in Seq(Calls) /\ DOMAIN waiters' = 1 .. Len(waiters) - 1
        /\ \A i \in DOMAIN waiters' : waiters'[i] = waiters[i + 1] /\ i + 1 \in DOMAIN waiters
    BY <1>1
  <2>2. \A i \in DOMAIN waiters' : waiters'[i] # c
    BY <1>1, <2>1 DEF SlotInv, Waiting
  <2>3. \A i \in DOMAIN waiters' : call'[waiters'[i]].at = "waiting"
    BY <1>1, <2>1, <2>2 DEF SlotInv, Waiting
  <2>4. \A i, j \in DOMAIN waiters' : waiters'[i] = waiters'[j] => i = j
    BY <2>1 DEF SlotInv, Waiting
  <2>5. QED
    BY <2>1, <2>3, <2>4 DEF Waiting
<1>6. call' \in [Calls -> [at : {"idle", "waiting", "submitted", "sent", "pausing"},
                          attempt : Nat]]
  BY <1>1 DEF SlotInv
<1>7. slots' = Slots - Cardinality(Holding')
  BY <1>1, <1>4, Constants DEF SlotInv
<1>8. QED
  BY <1>1, <1>3, <1>5, <1>6, <1>7 DEF SlotInv

LEMMA SendKeeps == ASSUME SlotInv, NEW c \in Calls, Send(c) PROVE SlotInv'
<1>1. /\ call[c].at = "submitted" /\ call' = [call EXCEPT ![c].at = "sent"]
      /\ orphans + Cardinality(Sent) < Threads
      /\ UNCHANGED <<slots, waiters, orphans>>
  BY DEF Send, Sent
<1>2. Holding' = Holding
  BY <1>1 DEF SlotInv, Holding
<1>3. c \notin Sent /\ Sent' = Sent \cup {c}
  BY <1>1 DEF SlotInv, Sent
<1>4. Cardinality(Sent') = Cardinality(Sent) + 1 /\ Cardinality(Sent) \in Nat
  BY <1>3, Counts DEF Sent
<1>5. Waiting'
  BY <1>1 DEF SlotInv, Waiting
<1>6. QED
  BY <1>1, <1>2, <1>4, <1>5, Constants DEF SlotInv

\* However an attempt ends, the call gives its slot back, and the thread goes
\* with it or counts as given up.
LEMMA EndKeeps ==
  ASSUME SlotInv, NEW c \in Calls, call[c].at \in {"submitted", "sent"},
         NEW r \in [at : {"idle", "pausing"}, attempt : Nat],
         call' = [call EXCEPT ![c] = r], slots' = slots + 1, waiters' = waiters,
         \/ orphans' = orphans
         \/ call[c].at = "sent" /\ orphans' = orphans + 1
  PROVE  SlotInv'
<1>1. c \in Holding /\ Holding' = Holding \ {c}
  BY DEF SlotInv, Holding
<1>2. Cardinality(Holding') = Cardinality(Holding) - 1 /\ Cardinality(Holding) \in Nat
  BY <1>1, Counts DEF Holding
<1>3. Sent' = Sent \ {c} /\ (c \in Sent <=> call[c].at = "sent")
  BY DEF SlotInv, Sent
<1>4. c \notin Sent => Sent' = Sent
  BY <1>3
<1>5. Cardinality(Sent) \in Nat
      /\ Cardinality(Sent') = (IF c \in Sent THEN Cardinality(Sent) - 1 ELSE Cardinality(Sent))
  BY <1>3, <1>4, Counts DEF Sent
<1>6. orphans' \in Nat /\ orphans' + Cardinality(Sent') <= Threads
  BY <1>3, <1>5, Constants DEF SlotInv
<1>7. Waiting'
  BY DEF SlotInv, Waiting
<1>8. call' \in [Calls -> [at : {"idle", "waiting", "submitted", "sent", "pausing"},
                          attempt : Nat]]
  BY DEF SlotInv
<1>9. QED
  BY <1>2, <1>6, <1>7, <1>8, Constants DEF SlotInv

LEMMA SlotNext == SlotInv /\ [Next]_vars => SlotInv'
<1> SUFFICES ASSUME SlotInv, [Next]_vars PROVE SlotInv'
  OBVIOUS
<1>1. CASE UNCHANGED <<slots, waiters, call, orphans>>
  <2>1. Holding' = Holding /\ Sent' = Sent /\ Waiting' = Waiting
    BY <1>1 DEF Holding, Sent, Waiting
  <2>2. QED
    BY <1>1, <2>1 DEF SlotInv
<1>2. ASSUME NEW c \in Calls, Dispatch(c) PROVE SlotInv'
  <2>1. CASE UNCHANGED geminiVars
    BY <1>1, <2>1 DEF geminiVars
  <2>2. CASE analyze_request(c)
    <3>1. call[c].at = "idle"
      BY <1>2 DEF Dispatch, Idle
    <3>2. CASE Awaits(c, 1)
      BY <2>2, <3>1, <3>2, AwaitsKeeps DEF analyze_request
    <3>3. CASE UNCHANGED <<call, waiters>>
      BY <1>1, <2>2, <3>3 DEF analyze_request
    <3>4. QED
      BY <2>2, <3>2, <3>3 DEF analyze_request
  <2>3. QED
    BY <1>2, <2>1, <2>2 DEF Dispatch
<1>3. ASSUME NEW c \in Calls, Attempt(c) PROVE SlotInv'
  <2>1. CASE Answered(c)
    BY <2>1, EndKeeps, Idle \in [at : {"idle", "pausing"}, attempt : Nat] DEF Answered, Idle
  <2>2. ASSUME Failed(c), call[c].at \in {"submitted", "sent"},
               orphans' = orphans \/ (call[c].at = "sent" /\ orphans' = orphans + 1)
        PROVE  SlotInv'
    <3>1. CASE call' = [call EXCEPT ![c] = Idle]
      BY <2>2, <3>1, EndKeeps, Idle \in [at : {"idle", "pausing"}, attempt : Nat]
      DEF Failed, Idle
    <3>2. CASE call' = [call EXCEPT ![c] = [at |-> "pausing", attempt |-> @.attempt + 1]]
      <4> DEFINE r == [at |-> "pausing", attempt |-> call[c].attempt + 1]
      <4>1. r \in [at : {"idle", "pausing"}, attempt : Nat]
        BY DEF SlotInv
      <4>2. call' = [call EXCEPT ![c] = r] /\ slots' = slots + 1 /\ waiters' = waiters
        BY <2>2, <3>2 DEF Failed
      <4> HIDE DEF r
      <4>3. QED
        BY <2>2, <4>1, <4>2, EndKeeps
    <3>3. QED
      BY <2>2, <3>1, <3>2 DEF Failed
  <2>3. CASE Paused(c)
    <3>1. call[c].attempt \in Nat
      BY DEF SlotInv
    <3>2. QED
      BY <2>3, <3>1, AwaitsKeeps DEF Paused
  <2>4. QED
    BY <1>3, <2>1, <2>2, <2>3, AcquireKeeps, SendKeeps DEF Attempt, Raised, TimedOut
<1>4. CASE Abandoned \/ Recommend
  <2>1. /\ UNCHANGED <<slots, waiters, call>>
        /\ \/ orphans > 0 /\ orphans' = orphans - 1
           \/ orphans + Cardinality(Sent) < Threads /\ orphans' = orphans + 1
    BY <1>4 DEF Abandoned, ThreadEnds, Recommend, ThreadTaken, Sent
  <2>2. Holding' = Holding /\ Sent' = Sent /\ Waiting' /\ Cardinality(Sent) \in Int
    BY <2>1, Constants, FS_Subset, FS_CardinalityType DEF Holding, Sent, SlotInv, Waiting
  <2>3. QED
    BY <2>1, <2>2, Constants DEF SlotInv
<1>5. CASE \/ \E s \in Sockets : Handshake(s)
           \/ CleanUp \/ Tick \/ UNCHANGED vars
  BY <1>1, <1>5 DEF Handshake, CleanUp, Tick, GeminiElapse, geminiVars, vars
<1>6. QED
  BY <1>2, <1>3, <1>4, <1>5 DEF Next

(* Every slot is free or held by an attempt that goes on, and the threads   *)
(* at work, given up or not, are no more than the pool has, for any number  *)
(* of calls, slots, threads and attempts (analyze_request).                 *)
THEOREM NoSlotLost == Spec => []SlotsAccounted
<1>1. SlotInv => SlotsAccounted
  BY DEF SlotInv, Holding, Sent, SlotsAccounted
<1>2. QED
  BY <1>1, SlotInit, SlotNext, PTL DEF Spec

-----------------------------------------------------------------------------
(* What passes.  Until its bucket is over, a key's passes are those counted *)
(* in the bucket and those of before, no more than the limit either, and    *)
(* those of before leave the last Window no later than the bucket ends.     *)

Full == /\ DOMAIN buckets \subseteq Keys
        /\ \A k \in DOMAIN buckets : buckets[k] \in Bucket(Limit(k))

EldestFirst(s) == \A i, j \in DOMAIN s : i <= j => s[i] <= s[j]

Ticks == 1 .. Window

\* The first n passes of the key are of before its bucket.
Before(k, n) ==
  /\ n <= Limit(k)
  /\ Len(passes[k]) - n <= buckets[k].count
  /\ \A i \in 1 .. n : passes[k][i] <= buckets[k].left

KeyInv(k) ==
  /\ EldestFirst(passes[k])
  /\ Begins(k) => Len(passes[k]) <= Limit(k)
  /\ ~Begins(k) => \E n \in 0 .. Len(passes[k]) : Before(k, n)

PassInv ==
  /\ Full
  /\ passes \in [Keys -> Seq(Ticks)]
  /\ \A k \in Keys : KeyInv(k)

\* Whoever shares a key has its limit.
LEMMA OneLimit ==
  ASSUME NEW c \in Clients, NEW i \in DOMAIN KeysOf[c]
  PROVE  LET k == KeysOf[c][i] IN
         k \in Keys /\ Limit(k) = LimitOf(c) /\ Limit(k) \in Nat \ {0}
<1> DEFINE k == KeysOf[c][i]
           same == {LimitOf(d) : d \in {e \in Clients : \E j \in DOMAIN KeysOf[e] : KeysOf[e][j] = k}}
<1>1. \A d \in Clients : (\E j \in DOMAIN KeysOf[d] : KeysOf[d][j] = k) => LimitOf(d) = LimitOf(c)
  BY GuardsAssumption DEF LimitOf, Clients
<1>2. same = {LimitOf(c)}
  BY <1>1
<1>3. LimitOf(c) \in Nat \ {0}
  BY GuardsAssumption DEF LimitOf
<1>4. Limit(k) = Min(same)
  BY DEF Limit
<1> HIDE DEF same
<1>5. Min(same) = LimitOf(c)
  BY <1>2, <1>3 DEF Min
<1> QED
  BY <1>3, <1>4, <1>5 DEF Keys

LEMMA LimitType == \A k \in Keys : Limit(k) \in Nat \ {0}
<1> SUFFICES ASSUME NEW k \in Keys PROVE Limit(k) \in Nat \ {0}
  OBVIOUS
<1>1. PICK c \in Clients : \E i \in DOMAIN KeysOf[c] : k = KeysOf[c][i]
  BY DEF Keys
<1> QED
  BY <1>1, OneLimit

LEMMA Elements ==
  ASSUME NEW s \in Seq(Ticks)
  PROVE  /\ Len(s) \in Nat /\ DOMAIN s = 1 .. Len(s)
         /\ \A i \in 1 .. Len(s) : s[i] \in 1 .. Window
<1>1. Len(s) \in Nat /\ DOMAIN s = 1 .. Len(s) /\ \A i \in 1 .. Len(s) : s[i] \in Ticks
  OBVIOUS
<1> QED
  BY <1>1 DEF Ticks

LEMMA UpTo ==
  ASSUME NEW n \in Nat
  PROVE  IsFiniteSet(1 .. n) /\ Cardinality(1 .. n) = n
  BY FS_Interval

LEMMA IsSequence ==
  ASSUME NEW S, NEW n \in Nat, NEW s \in [1 .. n -> S]
  PROVE  s \in Seq(S) /\ Len(s) = n
  OBVIOUS

LEMMA OneMorePass ==
  ASSUME NEW s \in Seq(Ticks), NEW t \in {s, Append(s, Window)}
  PROVE  /\ t \in Seq(Ticks)
         /\ Len(s) \in Nat /\ Len(t) \in {Len(s), Len(s) + 1}
         /\ \A i \in 1 .. Len(s) : t[i] = s[i]
         /\ EldestFirst(s) => EldestFirst(t)
<1>1. Window \in Ticks
  BY WindowAssumption DEF Ticks
<1>2. CASE t = s
  BY <1>2
<1>3. CASE t = Append(s, Window)
  <2>1. /\ t \in Seq(Ticks) /\ Len(t) = Len(s) + 1 /\ Len(s) \in Nat
        /\ \A i \in 1 .. Len(s) : t[i] = s[i]
        /\ t[Len(t)] = Window
    BY <1>1, <1>3
  <2>2. \A i \in 1 .. Len(t) : t[i] \in Int /\ t[i] <= Window
    BY <2>1, Elements, WindowAssumption
  <2>3. DOMAIN t = 1 .. Len(t) /\ DOMAIN s = 1 .. Len(s)
    BY <2>1
  <2>4. ASSUME EldestFirst(s), NEW i \in 1 .. Len(t), NEW j \in 1 .. Len(t), i <= j
        PROVE  t[i] <= t[j]
    <3>1. CASE j = Len(t)
      BY <2>1, <2>2, <3>1
    <3>2. CASE j # Len(t)
      BY <2>1, <2>3, <2>4, <3>2 DEF EldestFirst
    <3> QED
      BY <3>1, <3>2
  <2> QED
    BY <2>1, <2>3, <2>4 DEF EldestFirst
<1> QED
  BY <1>2, <1>3

LEMMA PassInit == Init => PassInv
<1> SUFFICES ASSUME Init PROVE PassInv
  OBVIOUS
<1>1. Full
  BY DEF Init, Full
<1>2. \A k \in Keys : passes[k] = << >> /\ Begins(k)
  BY DEF Init, Begins
<1>3. \A k \in Keys : KeyInv(k)
  BY <1>2, LimitType DEF KeyInv, EldestFirst
<1> QED
  BY <1>1, <1>3 DEF Init, PassInv

\* A key that is charged has a bucket that is not over, and is not above its
\* limit.
LEMMA Charging ==
  ASSUME PassInv, NEW c \in Clients, NEW k \in Charged(KeysOf[c], LimitOf(c))
  PROVE  /\ k \in Keys /\ Hit(k) \in Bucket(Limit(k))
         /\ Hit(k).left > 0
         /\ Begins(k) => Hit(k).left = Window /\ Hit(k).count = 1
         /\ ~Begins(k) => Hit(k).left = buckets[k].left /\ Hit(k).count = buckets[k].count + 1
<1>1. PICK i \in DOMAIN KeysOf[c] : k = KeysOf[c][i] /\ i \notin Refusing(KeysOf[c], LimitOf(c))
  <2>1. PICK i \in DOMAIN KeysOf[c] : k = KeysOf[c][i]
                                     /\ \A r \in Refusing(KeysOf[c], LimitOf(c)) : i < r
    BY DEF Charged
  <2>2. i \in Int
    BY GuardsAssumption
  <2> QED
    BY <2>1, <2>2
<1>2. k \in Keys /\ Limit(k) = LimitOf(c) /\ Limit(k) \in Nat \ {0}
  BY <1>1, OneLimit
<1>3. ~(Current(k).count >= Limit(k))
  BY <1>1, <1>2 DEF Refusing
<1>4. CASE Begins(k)
  BY <1>2, <1>4, WindowAssumption DEF Hit, Current, Bucket
<1>5. CASE ~Begins(k)
  <2>1. k \in DOMAIN buckets /\ buckets[k].left # 0 /\ Current(k) = buckets[k]
    BY <1>5 DEF Begins, Current
  <2>2. buckets[k] \in [count : 0 .. Limit(k), left : 0 .. Window]
    BY <2>1 DEF PassInv, Full, Bucket
  <2> QED
    BY <1>2, <1>3, <1>5, <2>1, <2>2, WindowAssumption DEF Hit, Bucket
<1> QED
  BY <1>2, <1>4, <1>5

LEMMA ChargeKeepsFull ==
  ASSUME PassInv, NEW c \in Clients, Charge(KeysOf[c], LimitOf(c))
  PROVE  Full'
<1> DEFINE charged == Charged(KeysOf[c], LimitOf(c))
<1>1. \A k \in charged : k \in Keys /\ Hit(k) \in Bucket(Limit(k))
  BY Charging
<1>2. buckets' = [k \in DOMAIN buckets \cup charged |-> IF k \in charged THEN Hit(k) ELSE buckets[k]]
  BY DEF Charge
<1> HIDE DEF charged
<1> QED
  BY <1>1, <1>2 DEF PassInv, Full, Bucket, Limit

\* A request charges its keys, and passes or not.
LEMMA ChargeKeepsKey ==
  ASSUME PassInv, NEW c \in Clients, Charge(KeysOf[c], LimitOf(c)), NEW k \in Keys,
         passes'[k] \in {passes[k], Append(passes[k], Window)},
         k \notin Charged(KeysOf[c], LimitOf(c)) => passes'[k] = passes[k]
  PROVE  KeyInv(k)'
<1> DEFINE charged == Charged(KeysOf[c], LimitOf(c))
           s == passes[k]
<1>1. buckets' = [j \in DOMAIN buckets \cup charged |-> IF j \in charged THEN Hit(j) ELSE buckets[j]]
  BY DEF Charge
<1>2. KeyInv(k) /\ s \in Seq(Ticks)
  BY DEF PassInv
<1>3. CASE k \notin charged
  <2>1. Begins(k)' <=> Begins(k)
    BY <1>1, <1>3 DEF Begins
  <2>2. k \in DOMAIN buckets => buckets'[k] = buckets[k]
    BY <1>1, <1>3
  <2>3. ~Begins(k) => k \in DOMAIN buckets
    BY DEF Begins
  <2>4. passes'[k] = passes[k] /\ Limit(k)' = Limit(k)
    BY <1>3 DEF Limit
  <2> QED
    BY <1>2, <2>1, <2>2, <2>3, <2>4 DEF KeyInv, Before
<1>4. CASE k \in charged
  <2>1. /\ Hit(k) \in [count : 0 .. Limit(k), left : 0 .. Window]
        /\ Hit(k).left > 0
        /\ Begins(k) => Hit(k).left = Window /\ Hit(k).count = 1
        /\ ~Begins(k) => Hit(k).left = buckets[k].left /\ Hit(k).count = buckets[k].count + 1
    BY <1>4, Charging DEF Bucket
  <2>2. k \in DOMAIN buckets' /\ buckets'[k] = Hit(k) /\ ~Begins(k)'
    BY <1>1, <1>4, <2>1 DEF Begins
  <2>3. EldestFirst(passes[k])'
    BY <1>2, OneMorePass DEF KeyInv, EldestFirst
  <2>4. Limit(k) \in Nat /\ Limit(k)' = Limit(k)
    BY LimitType DEF Limit
  <2>5. PICK n \in 0 .. Len(s) :
          /\ n <= Limit(k)
          /\ Len(s) - n + 1 <= Hit(k).count
          /\ \A i \in 1 .. n : s[i] <= Hit(k).left
    <3>1. CASE Begins(k)
      <4>1. Len(s) <= Limit(k) /\ Len(s) \in 0 .. Len(s) /\ \A i \in 1 .. Len(s) : s[i] <= Window
        BY <1>2, <3>1, Elements, WindowAssumption DEF KeyInv
      <4> QED
        BY <1>2, <2>1, <3>1, <4>1
    <3>2. CASE ~Begins(k)
      <4>1. PICK n \in 0 .. Len(s) : Before(k, n)
        BY <1>2, <3>2 DEF KeyInv
      <4>2. k \in DOMAIN buckets
        BY <3>2 DEF Begins
      <4>3. buckets[k].count \in Int
        BY <4>2, <2>4 DEF PassInv, Full, Bucket
      <4>4. Hit(k).left = buckets[k].left /\ Hit(k).count = buckets[k].count + 1
        BY <2>1, <3>2
      <4>5. Len(s) \in Nat
        BY <1>2, Elements
      <4>6. n <= Limit(k) /\ Len(s) - n + 1 <= Hit(k).count
        BY <4>1, <4>3, <4>4, <4>5 DEF Before
      <4> QED
        BY <4>1, <4>4, <4>6 DEF Before
    <3> QED
      BY <3>1, <3>2
  <2>6. /\ Len(passes'[k]) <= Len(s) + 1 /\ n \in 0 .. Len(passes'[k])
        /\ \A i \in 1 .. n : passes'[k][i] = s[i]
    <3>1. /\ Len(s) \in Nat /\ Len(passes'[k]) \in {Len(s), Len(s) + 1}
          /\ \A i \in 1 .. Len(s) : passes'[k][i] = s[i]
      BY <1>2, OneMorePass
    <3> QED
      BY <3>1
  <2>7. Before(k, n)'
    <3>1. Len(passes'[k]) \in Nat /\ Len(s) \in Nat /\ Hit(k).count \in Int
      BY <1>2, <2>1, <2>4, WindowAssumption
    <3> QED
      BY <2>2, <2>4, <2>5, <2>6, <3>1 DEF Before
  <2> QED
    BY <2>2, <2>3, <2>6, <2>7 DEF KeyInv
<1> QED
  BY <1>3, <1>4

LEMMA RequestKeeps ==
  ASSUME PassInv, NEW c \in Clients, Charge(KeysOf[c], LimitOf(c)), Passed(c) \/ UNCHANGED passes
  PROVE  PassInv'
<1>1. Full'
  BY ChargeKeepsFull
<1>2. \A k \in Keys : /\ passes'[k] \in {passes[k], Append(passes[k], Window)}
                      /\ k \notin Charged(KeysOf[c], LimitOf(c)) => passes'[k] = passes[k]
  BY DEF Passed
<1>3. passes' \in [Keys -> Seq(Ticks)]
  <2>1. passes \in [Keys -> Seq(Ticks)]
    BY DEF PassInv
  <2>2. \A k \in Keys : passes'[k] \in Seq(Ticks)
    BY <1>2, <2>1, OneMorePass
  <2> QED
    BY <2>1, <2>2 DEF Passed
<1>4. \A k \in Keys : KeyInv(k)'
  BY <1>2, ChargeKeepsKey
<1> QED
  BY <1>1, <1>3, <1>4 DEF PassInv, Keys

LEMMA CleanUpKeeps == ASSUME PassInv, CleanUp PROVE PassInv'
<1>1. /\ buckets' = [k \in {j \in DOMAIN buckets : ~Over(j)} |-> buckets[k]]
      /\ passes' = passes
  BY DEF CleanUp, Cleanup
<1>2. \A k : (Begins(k)' <=> Begins(k)) /\ (~Begins(k) => buckets'[k] = buckets[k])
  BY <1>1 DEF Begins, Over
<1>3. Full'
  BY <1>1 DEF PassInv, Full, Keys, Limit, Bucket, Over
<1>4. \A k \in Keys : KeyInv(k)'
  BY <1>1, <1>2 DEF PassInv, KeyInv, Before, EldestFirst, Limit
<1> QED
  BY <1>1, <1>3, <1>4 DEF PassInv, Keys

\* The passes that expire are the first ones.
LEMMA ExpiredFirst ==
  ASSUME NEW k \in Keys, passes[k] \in Seq(Ticks), EldestFirst(passes[k])
  PROVE  /\ Expired(k) \in 0 .. Len(passes[k])
         /\ \A i \in 1 .. Len(passes[k]) : passes[k][i] = 1 <=> i <= Expired(k)
<1> DEFINE s == passes[k]
           gone == {i \in DOMAIN s : s[i] = 1}
           n == Cardinality(gone)
<1>1. Len(s) \in Nat /\ DOMAIN s = 1 .. Len(s) /\ \A i \in DOMAIN s : s[i] \in 1 .. Window
  BY Elements
<1>2. /\ \A i, j \in DOMAIN s : i <= j => s[i] <= s[j]
      /\ n = Expired(k)
  BY DEF EldestFirst, Expired
<1> HIDE DEF s
<1>3. IsFiniteSet(gone) /\ n \in 0 .. Len(s)
  <2>1. IsFiniteSet(1 .. Len(s)) /\ Cardinality(1 .. Len(s)) = Len(s)
    BY <1>1, UpTo
  <2>2. gone \in SUBSET (1 .. Len(s))
    BY <1>1
  <2> HIDE DEF gone
  <2>3. IsFiniteSet(gone) /\ Cardinality(gone) <= Len(s) /\ Cardinality(gone) \in Nat
    BY <2>1, <2>2, FS_Subset, FS_CardinalityType
  <2> QED
    BY <1>1, <2>3
<1>4. gone \subseteq 1 .. n
  <2> SUFFICES ASSUME NEW m \in gone PROVE m \in 1 .. n
    OBVIOUS
  <2>1. m \in 1 .. Len(s) /\ s[m] = 1
    BY <1>1
  <2>2. \A i \in 1 .. m : i \in DOMAIN s /\ s[i] = 1
    BY <1>1, <1>2, <2>1
  <2>3. (1 .. m) \in SUBSET gone
    BY <2>2
  <2>4. Cardinality(1 .. m) = m
    BY <2>1, UpTo
  <2> HIDE DEF gone
  <2>5. m <= n
    BY <1>3, <2>3, <2>4, FS_Subset
  <2> QED
    BY <1>3, <2>1, <2>5
<1>5. gone = 1 .. n
  <2>1. IsFiniteSet(1 .. n) /\ Cardinality(1 .. n) = n
    BY <1>3, UpTo
  <2> HIDE DEF gone
  <2> QED
    BY <1>4, <2>1, FS_Subset
<1>6. \A i \in 1 .. Len(s) : s[i] = 1 <=> i \in gone
  BY <1>1
<1> HIDE DEF gone
<1> QED
  BY <1>1, <1>2, <1>3, <1>5, <1>6 DEF s

LEMMA TickKeepsPasses == ASSUME PassInv, Tick PROVE PassInv'
<1>1. /\ buckets' = [k \in DOMAIN buckets |-> [buckets[k] EXCEPT !.left = Less(@)]]
      /\ passes' = [k \in Keys |->
                      [i \in 1 .. Len(passes[k]) - Expired(k) |-> passes[k][i + Expired(k)] - 1]]
  BY DEF Tick, Elapse
<1>2. \A k \in DOMAIN buckets :
        /\ buckets[k].left \in 0 .. Window /\ buckets[k].count \in 0 .. Limit(k)
        /\ buckets'[k] \in Bucket(Limit(k))
        /\ buckets'[k].count = buckets[k].count /\ buckets'[k].left = Less(buckets[k].left)
  BY <1>1, LessType DEF PassInv, Full, Bucket
<1>3. Full'
  BY <1>1, <1>2 DEF PassInv, Full, Keys, Limit, Bucket
<1>4. ASSUME NEW k \in Keys
      PROVE  passes'[k] \in Seq(Ticks) /\ KeyInv(k)'
  <2> DEFINE s == passes[k]
             t == passes'[k]
             e == Expired(k)
             left == buckets[k].left
  <2>1. s \in Seq(Ticks) /\ EldestFirst(s) /\ KeyInv(k)
    BY DEF PassInv, KeyInv
  <2>2. e \in 0 .. Len(s) /\ \A i \in 1 .. Len(s) : s[i] = 1 <=> i <= e
    BY <2>1, ExpiredFirst
  <2>3. t = [i \in 1 .. Len(s) - e |-> s[i + e] - 1]
    BY <1>1
  <2>4. Len(s) \in Nat /\ DOMAIN s = 1 .. Len(s) /\ \A i \in 1 .. Len(s) : s[i] \in 1 .. Window
    BY <2>1, Elements
  <2>5. \A i, j \in 1 .. Len(s) : i <= j => s[i] <= s[j]
    BY <2>1, <2>4 DEF EldestFirst
  <2>6. Begins(k) => Len(s) <= Limit(k)
    BY <2>1 DEF KeyInv
  <2>7. ~Begins(k) => \E n \in 0 .. Len(s) : Before(k, n)
    BY <2>1 DEF KeyInv
  <2> HIDE DEF e
  <2>8. /\ Len(s) - e \in Nat
        /\ \A i \in 1 .. Len(s) - e : /\ i + e \in 1 .. Len(s)
                                     /\ s[i + e] - 1 \in 1 .. Window
    BY <2>2, <2>4, WindowAssumption
  <2>9. t \in Seq(Ticks) /\ Len(t) = Len(s) - e /\ DOMAIN t = 1 .. Len(t)
    <3>1. t \in [1 .. Len(s) - e -> Ticks]
      BY <2>3, <2>8 DEF Ticks
    <3>2. t \in Seq(Ticks) /\ Len(t) = Len(s) - e
      BY <2>8, <3>1, IsSequence
    <3> QED
      BY <3>1, <3>2
  <2>10. \A i \in 1 .. Len(t) : t[i] = s[i + e] - 1
    BY <2>3, <2>9
  <2>11. EldestFirst(t)
    <3> SUFFICES ASSUME NEW i \in 1 .. Len(t), NEW j \in 1 .. Len(t), i <= j PROVE t[i] <= t[j]
      BY <2>9 DEF EldestFirst
    <3>1. /\ i + e \in 1 .. Len(s) /\ j + e \in 1 .. Len(s) /\ i + e <= j + e
          /\ s[i + e] \in Int /\ s[j + e] \in Int
      BY <2>2, <2>4, <2>8, <2>9
    <3>2. s[i + e] <= s[j + e] /\ t[i] = s[i + e] - 1 /\ t[j] = s[j + e] - 1
      BY <2>5, <2>10, <3>1
    <3> HIDE DEF s, t
    <3> QED
      BY <3>1, <3>2
  <2>12. Limit(k)' = Limit(k) /\ Limit(k) \in Nat
    BY LimitType DEF Limit
  <2>13. CASE Begins(k)
    <3>1. Begins(k)'
      BY <1>1, <1>2, <2>13, LessType DEF Begins
    <3>2. Len(t) <= Limit(k)
      BY <2>2, <2>4, <2>6, <2>9, <2>12, <2>13
    <3> QED
      BY <2>9, <2>11, <2>12, <3>1, <3>2 DEF KeyInv, EldestFirst
  <2>14. CASE ~Begins(k)
    <3>1. k \in DOMAIN buckets /\ left # 0
      BY <2>14 DEF Begins
    <3>2. left \in 1 .. Window /\ left - 1 \in Nat /\ buckets[k].count \in 0 .. Limit(k)
      BY <1>2, <3>1, WindowAssumption
    <3>3. k \in DOMAIN buckets' /\ buckets'[k].left = left - 1 /\ buckets'[k].count = buckets[k].count
      <4>1. buckets'[k].count = buckets[k].count /\ buckets'[k].left = Less(left)
        BY <1>2, <3>1
      <4>2. Less(left) = left - 1
        BY <3>2, LessType
      <4> QED
        BY <1>1, <3>1, <4>1, <4>2
    <3>4. PICK n \in 0 .. Len(s) : Before(k, n)
      BY <2>7, <2>14
    <3>5. /\ n <= Limit(k) /\ Len(s) - n <= buckets[k].count
          /\ \A i \in 1 .. n : s[i] <= left
      BY <3>4 DEF Before
    <3> HIDE DEF s, t, left
    <3>6. CASE left = 1
      <4>1. Begins(k)'
        BY <3>3, <3>6 DEF Begins
      <4>2. \A i \in 1 .. n : i <= e
        BY <2>2, <2>4, <3>5, <3>6
      <4>3. n <= e
        BY <2>2, <2>4, <4>2
      <4>4. Len(t) <= Limit(k)
        BY <2>2, <2>4, <2>9, <2>12, <3>2, <3>5, <4>3
      <4> QED
        BY <2>9, <2>11, <2>12, <4>1, <4>4 DEF KeyInv, EldestFirst, t
    <3>7. CASE left # 1
      <4>0. PICK m \in Int : m = IF n <= e THEN 0 ELSE n - e
        <5>1. n \in Int /\ e \in Int
          BY <2>2, <2>4
        <5>2. CASE n <= e
          BY <5>2
        <5>3. CASE ~(n <= e)
          BY <5>1, <5>3
        <5> QED
          BY <5>2, <5>3
      <4>1. ~Begins(k)'
        BY <3>2, <3>3, <3>7 DEF Begins
      <4>2. m \in 0 .. Len(t) /\ m <= Limit(k) /\ Len(t) - m <= buckets[k].count
        BY <2>2, <2>4, <2>9, <2>12, <3>2, <3>5, <4>0
      <4>3. \A i \in 1 .. m : t[i] <= left - 1
        <5> SUFFICES ASSUME NEW i \in 1 .. m PROVE t[i] <= left - 1
          OBVIOUS
        <5>1. i + e \in 1 .. n /\ i \in 1 .. Len(t) /\ i + e \in 1 .. Len(s)
          BY <2>2, <2>4, <2>9, <4>0, <4>2
        <5>2. s[i + e] <= left /\ s[i + e] \in Int
          BY <2>4, <3>5, <5>1
        <5> QED
          BY <2>10, <3>2, <5>1, <5>2
      <4>4. Before(k, m)'
        BY <2>12, <3>3, <4>2, <4>3 DEF Before, t
      <4> QED
        BY <2>9, <2>11, <4>1, <4>2, <4>4 DEF KeyInv, EldestFirst, t
    <3> QED
      BY <3>6, <3>7
  <2> QED
    BY <2>13, <2>14
<1>5. passes' \in [Keys -> Seq(Ticks)]
  BY <1>1, <1>4
<1> QED
  BY <1>3, <1>4, <1>5 DEF PassInv, Keys

LEMMA PassNext == PassInv /\ [Next]_vars => PassInv'
<1> SUFFICES ASSUME PassInv, [Next]_vars PROVE PassInv'
  OBVIOUS
<1>1. ASSUME NEW c \in Calls, Dispatch(c) PROVE PassInv'
  BY <1>1, RequestKeeps DEF Dispatch, Refused, Clients
<1>2. ASSUME NEW s \in Sockets, Handshake(s) PROVE PassInv'
  BY <1>2, RequestKeeps DEF Handshake, Clients
<1>3. CASE (\E c \in Calls : Attempt(c)) \/ Abandoned \/ Recommend \/ UNCHANGED vars
  <2>1. UNCHANGED <<buckets, passes>>
    BY <1>3 DEF Attempt, Abandoned, Recommend, guardVars, vars
  <2> QED
    BY <2>1 DEF PassInv, Full, Keys, Limit, Bucket, KeyInv, EldestFirst, Before, Begins
<1> QED
  BY <1>1, <1>2, <1>3, CleanUpKeeps, TickKeepsPasses DEF Next

(* In no span of a window's length do more than twice the limit pass for a  *)
(* key, for any clients, keys, limits and windows, whatever is refused,     *)
(* expires or is cleaned up in between (InMemoryRateLimiter).               *)
THEOREM BurstsAreBounded == Spec => []TwiceTheLimit
<1>1. PassInv => TwiceTheLimit
  <2> SUFFICES ASSUME PassInv, NEW k \in Keys PROVE Len(passes[k]) <= 2 * Limit(k)
    BY DEF TwiceTheLimit
  <2>1. KeyInv(k) /\ Len(passes[k]) \in Nat /\ Limit(k) \in Nat
    BY LimitType, Elements DEF PassInv
  <2>2. CASE Begins(k)
    BY <2>1, <2>2 DEF KeyInv
  <2>3. CASE ~Begins(k)
    <3>1. PICK n \in 0 .. Len(passes[k]) : Before(k, n)
      BY <2>1, <2>3 DEF KeyInv
    <3>2. buckets[k].count \in 0 .. Limit(k)
      BY <2>3 DEF PassInv, Full, Bucket, Begins
    <3> QED
      BY <2>1, <3>1, <3>2 DEF Before
  <2> QED
    BY <2>2, <2>3
<1>2. QED
  BY <1>1, PassInit, PassNext, PTL DEF Spec
=============================================================================
