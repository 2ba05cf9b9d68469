---------------------------- MODULE GeminiClient ----------------------------
(***************************************************************************)
(* The calls of the gateway to Gemini (services/gemini_service.py) and     *)
(* their protections (utils/resilience.py): a circuit breaker, a sliding   *)
(* window, a semaphore, attempts with a timeout and a pause between them.  *)
(* An attempt is a call in a thread of the event loop's pool.  Giving up   *)
(* on it frees its slot of the semaphore, not its thread.  The             *)
(* recommendations have a service of their own, with the threads in common.*)
(***************************************************************************)
EXTENDS Integers, Sequences, FiniteSets

CONSTANTS Calls,          \* requests of the gateway, each with one call
          WindowTicks,    \* ticks the sliding window spans
          CallLimit,      \* calls let through per window
          Slots,          \* attempts at a time
          Threads,        \* threads of the event loop's pool
          Attempts,       \* attempts per call
          FailThreshold,  \* failed calls that open the circuit
          Recovery        \* ticks it stays open

ASSUME GeminiAssumption ==
  /\ {CallLimit, Slots, Threads, Attempts, FailThreshold} \subseteq Nat \ {0}
  /\ {WindowTicks, Recovery} \subseteq Nat
  /\ IsFiniteSet(Calls)

VARIABLES circuit,   \* failures counted and ticks it stays open
          window,    \* for every call let through, the ticks it counts on
          slots,     \* free slots of the semaphore
          waiters,   \* calls that wait for a slot, in order
          call,      \* what every call is at, and its attempt
          orphans    \* threads that work for no attempt: one given up, or
                     \* another service's

geminiVars == <<circuit, window, slots, waiters, call, orphans>>

Idle == [at |-> "idle", attempt |-> 0]

GeminiTypeOK ==
  /\ circuit \in [failures : Nat, left : 0 .. Recovery]
  /\ window \in Seq(0 .. WindowTicks) /\ Len(window) <= CallLimit
  /\ slots \in 0 .. Slots
  /\ waiters \in Seq(Calls)
  /\ call \in [Calls -> [at : {"idle", "waiting", "submitted", "sent", "pausing"},
                         attempt : 0 .. Attempts]]
  /\ orphans \in 0 .. Threads

GeminiInit ==
  /\ circuit = [failures |-> 0, left |-> 0]
  /\ window = << >>
  /\ slots = Slots
  /\ waiters = << >>
  /\ call = [c \in Calls |-> Idle]
  /\ orphans = 0

IsOpen == circuit.left > 0

record_success == circuit' = [failures |-> 0, left |-> 0]

\* The count goes on through a recovery, so that one more failure opens it.
record_failure ==
  LET n == circuit.failures + 1
  IN  circuit' = [failures |-> IF n > FailThreshold THEN FailThreshold ELSE n,
                  left |-> IF n >= FailThreshold THEN Recovery ELSE circuit.left]

\* What the sliding window still counts.
Counted == SelectSeq(window, LAMBDA t : t > 0)

check_rate_limit(within) ==
  /\ within = (Len(Counted) < CallLimit)
  /\ window' = IF within THEN Append(Counted, WindowTicks) ELSE Counted

Awaits(c, n) ==
  /\ call' = [call EXCEPT ![c] = [at |-> "waiting", attempt |-> n]]
  /\ waiters' = Append(waiters, c)

\* Mutant: a call that is not made counts as a failure.
analyze_counting(c) ==
  \/ IsOpen /\ record_failure /\ UNCHANGED <<window, call, waiters, slots, orphans>>
  \/ ~IsOpen /\ check_rate_limit(FALSE) /\ UNCHANGED <<circuit, call, waiters, slots, orphans>>
  \/ ~IsOpen /\ check_rate_limit(TRUE) /\ Awaits(c, 1) /\ UNCHANGED <<circuit, slots, orphans>>

\* A call goes ahead, or the gateway does without an analysis.
analyze_request(c) ==
  /\ UNCHANGED <<circuit, slots, orphans>>
  /\ \/ IsOpen /\ UNCHANGED <<window, call, waiters>>
     \/ ~IsOpen /\ check_rate_limit(FALSE) /\ UNCHANGED <<call, waiters>>
     \/ ~IsOpen /\ check_rate_limit(TRUE) /\ Awaits(c, 1)

\* The semaphore lets the first of its waiters in; the pool queues the call.
Acquire(c) ==
  /\ waiters # << >> /\ Head(waiters) = c
  /\ slots > 0
  /\ slots' = slots - 1
  /\ waiters' = Tail(waiters)
  /\ call' = [call EXCEPT ![c].at = "submitted"]
  /\ UNCHANGED <<circuit, window, orphans>>

\* A thread of the pool is free.
Send(c) ==
  /\ call[c].at = "submitted"
  /\ orphans + Cardinality({d \in Calls : call[d].at = "sent"}) < Threads
  /\ call' = [call EXCEPT ![c].at = "sent"]
  /\ UNCHANGED <<circuit, window, slots, waiters, orphans>>

\* Gemini answers, with JSON or without.
Answered(c) ==
  /\ call[c].at = "sent"
  /\ record_success
  /\ slots' = slots + 1
  /\ call' = [call EXCEPT ![c] = Idle]
  /\ UNCHANGED <<window, waiters, orphans>>

\* Mutant: the slot is kept for the next attempt, which takes another.
FailedHolding(c) ==
  /\ UNCHANGED <<window, waiters>>
  /\ \/ /\ call[c].attempt < Attempts
        /\ call' = [call EXCEPT ![c] = [at |-> "pausing", attempt |-> @.attempt + 1]]
        /\ UNCHANGED <<circuit, slots>>
     \/ /\ call[c].attempt = Attempts
        /\ call' = [call EXCEPT ![c] = Idle]
        /\ slots' = slots + 1
        /\ record_failure

\* An attempt fails: the next one after a pause, or the call has failed.
Failed(c) ==
  /\ slots' = slots + 1
  /\ UNCHANGED <<window, waiters>>
  /\ \/ /\ call[c].attempt < Attempts
        /\ call' = [call EXCEPT ![c] = [at |-> "pausing", attempt |-> @.attempt + 1]]
        /\ UNCHANGED circuit
     \/ /\ call[c].attempt = Attempts
        /\ call' = [call EXCEPT ![c] = Idle]
        /\ record_failure

Raised(c) == call[c].at = "sent" /\ Failed(c) /\ UNCHANGED orphans

\* Mutant: giving up on an attempt does not give its slot back.
TimedOutHolding(c) ==
  /\ call[c].at \in {"submitted", "sent"}
  /\ call' = [call EXCEPT ![c] = Idle]
  /\ record_failure
  /\ UNCHANGED <<window, waiters, slots, orphans>>

\* The timeout drops a call the pool has not begun, and leaves the thread of
\* one it has.
TimedOut(c) ==
  /\ call[c].at \in {"submitted", "sent"}
  /\ Failed(c)
  /\ orphans' = IF call[c].at = "sent" THEN orphans + 1 ELSE orphans

\* RecommendationEngine has a circuit, window and semaphore of its own, and its
\* attempts take threads of the same pool.
ThreadTaken ==
  /\ orphans + Cardinality({d \in Calls : call[d].at = "sent"}) < Threads
  /\ orphans' = orphans + 1
  /\ UNCHANGED <<circuit, window, slots, waiters, call>>

Paused(c) ==
  /\ call[c].at = "pausing"
  /\ Awaits(c, call[c].attempt)
  /\ UNCHANGED <<circuit, window, slots, orphans>>

ThreadEnds == orphans > 0 /\ orphans' = orphans - 1
              /\ UNCHANGED <<circuit, window, slots, waiters, call>>

Passes(n) == IF n = 0 THEN 0 ELSE n - 1

GeminiElapse ==
  /\ circuit' = [circuit EXCEPT !.left = Passes(@)]
  /\ window' = [i \in DOMAIN window |-> Passes(window[i])]
  /\ UNCHANGED <<slots, waiters, call, orphans>>
=============================================================================
