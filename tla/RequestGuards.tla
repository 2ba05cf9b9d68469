---------------------------- MODULE RequestGuards ----------------------------
(***************************************************************************)
(* What stands between the clients and the slow work: requests to the      *)
(* gateway and handshakes of dashboards share the limiter of RateLimiter,  *)
(* and a request let through asks Gemini by way of GeminiClient.  Time     *)
(* passes for both in ticks.                                               *)
(***************************************************************************)
EXTENDS RateLimiter, GeminiClient, FiniteSetsExt

CONSTANTS Sockets,        \* dashboards that connect
          KeysOf,         \* the keys of every client: address, user, tenant
          GatewayLimit,   \* rate_limit_gateway_per_window
          ConnectLimit    \* rate_limit_ws_connect_per_window

Clients == Calls \cup Sockets

ASSUME GuardsAssumption ==
  /\ Calls \cap Sockets = {}
  /\ KeysOf \in [Clients -> Seq(STRING)]
  /\ \A c \in Clients : KeysOf[c] # << >>
  /\ {GatewayLimit, ConnectLimit} \subseteq Nat \ {0}
  \* A key names what it limits: a path of the API, or the handshake.
  /\ \A c \in Calls, s \in Sockets :
       \A i \in DOMAIN KeysOf[c], j \in DOMAIN KeysOf[s] : KeysOf[c][i] # KeysOf[s][j]

VARIABLES told,      \* what a request was last told: ticks to wait, the key that
                     \* refused it, and how often since that key's bucket began
          passes     \* for every key, the ticks each request that passed
                     \* still falls into the last Window, eldest first (history)

guardVars == <<buckets, told, passes>>
vars == <<guardVars, geminiVars>>

Keys == UNION {{KeysOf[c][i] : i \in DOMAIN KeysOf[c]} : c \in Clients}

LimitOf(c) == IF c \in Sockets THEN ConnectLimit ELSE GatewayLimit

Limit(k) == Min({LimitOf(c) : c \in {d \in Clients : \E i \in DOMAIN KeysOf[d] : KeysOf[d][i] = k}})

Refusers == Keys \cup {""}

Untold == [wait |-> 0, by |-> "", times |-> 0]

TypeOK ==
  /\ DOMAIN buckets \subseteq Keys
  /\ \A k \in DOMAIN buckets : buckets[k] \in Bucket(Limit(k))
  /\ told \in [Calls -> [wait : 0 .. Window, by : Refusers, times : Nat]]
  /\ passes \in [Keys -> Seq(1 .. Window)]
  /\ GeminiTypeOK

Init ==
  /\ buckets = [k \in {} |-> 0]
  /\ told = [c \in Calls |-> Untold]
  /\ passes = [k \in Keys |-> << >>]
  /\ GeminiInit

-----------------------------------------------------------------------------
(* Clients ask when they like, and those who care wait as told.            *)

Refused(c) ==
  /\ \E by \in RefusedBy(KeysOf[c], LimitOf(c)) :
       LET before == IF told[c].by = by THEN told[c].times ELSE 0
       IN  told' = [told EXCEPT ![c] =
                      [wait |-> RetryAfter(by), by |-> by,
                       times |-> IF told[c].wait = 0 THEN before + 1 ELSE before]]
  /\ UNCHANGED passes

Passed(c) ==
  /\ Refusing(KeysOf[c], LimitOf(c)) = {}
  /\ passes' = [k \in Keys |-> IF k \in Charged(KeysOf[c], LimitOf(c))
                               THEN Append(passes[k], Window) ELSE passes[k]]

\* A request to the gateway passes the middleware and asks Gemini.
Dispatch(c) ==
  /\ call[c] = Idle
  /\ Charge(KeysOf[c], LimitOf(c))
  /\ \/ Refused(c) /\ UNCHANGED geminiVars
     \/ /\ Passed(c)
        /\ told' = [told EXCEPT ![c] = Untold]
        /\ analyze_request(c)

\* A dashboard opens its WebSocket.
Handshake(s) ==
  /\ Charge(KeysOf[s], LimitOf(s))
  /\ \/ Refusing(KeysOf[s], LimitOf(s)) # {} /\ UNCHANGED passes
     \/ Passed(s)
  /\ UNCHANGED <<told, geminiVars>>

CleanUp == Cleanup /\ UNCHANGED <<told, passes, geminiVars>>

Attempt(c) ==
  /\ Acquire(c) \/ Send(c) \/ Answered(c) \/ Raised(c) \/ TimedOut(c) \/ Paused(c)
  /\ UNCHANGED guardVars

Abandoned == ThreadEnds /\ UNCHANGED guardVars

Recommend == ThreadTaken /\ UNCHANGED guardVars

\* A bucket that is over has nothing to say to those it refused.
StillRefusing(c) == told[c].by \in DOMAIN buckets /\ buckets[told[c].by].left > 1

\* The requests that fall out of the last Window: the eldest.
Expired(k) == Cardinality({i \in DOMAIN passes[k] : passes[k][i] = 1})

Tick ==
  /\ Elapse
  /\ GeminiElapse
  /\ told' = [c \in Calls |->
                [told[c] EXCEPT !.wait = Less(@),
                                !.times = IF StillRefusing(c) THEN @ ELSE 0]]
  /\ passes' = [k \in Keys |->
                  [i \in 1 .. Len(passes[k]) - Expired(k) |-> passes[k][i + Expired(k)] - 1]]

Next ==
  \/ \E c \in Calls : Dispatch(c) \/ Attempt(c)
  \/ \E s \in Sockets : Handshake(s)
  \/ CleanUp
  \/ Abandoned
  \/ Recommend
  \/ Tick

\* Time passes; the event loop hands on slots and keeps its timers.  Nothing
\* makes Gemini answer, or a thread that was given up end.
Fairness ==
  /\ WF_vars(Tick)
  /\ \A c \in Calls : /\ WF_vars(Acquire(c) /\ UNCHANGED guardVars)
                      /\ WF_vars(TimedOut(c) /\ UNCHANGED guardVars)
                      /\ WF_vars(Paused(c) /\ UNCHANGED guardVars)

Spec == Init /\ [][Next]_vars

FairSpec == Spec /\ Fairness

-----------------------------------------------------------------------------
(* Fixed windows let a burst at the end of one and one at the start of the *)
(* next through: in no span of a window's length do more than twice the    *)
(* limit pass for a key, whatever is refused, expires or is cleaned up     *)
(* in between (InMemoryRateLimiter.hit and cleanup).                       *)
TwiceTheLimit == \A k \in Keys : Len(passes[k]) <= 2 * Limit(k)

(* What a client is told is cut to whole seconds, so that it may be too    *)
(* short once.  A client that waits as told after every refusal is refused *)
(* at most twice before the bucket that refuses it is over, however many   *)
(* others ask meanwhile (Retry-After of RateLimitMiddleware).              *)
WaitIsTrue == \A c \in Calls : told[c].times <= 2

(* Giving up on an attempt does not end its thread, yet no more attempts   *)
(* are with Gemini than the pool has threads, those of the recommendations *)
(* included, and every slot of the semaphore is free or an attempt's       *)
(* (with_timeout around to_thread).                                        *)
SlotsAccounted ==
  /\ slots = Slots - Cardinality({c \in Calls : call[c].at \in {"submitted", "sent"}})
  /\ orphans + Cardinality({c \in Calls : call[c].at = "sent"}) <= Threads

(* Whatever Gemini does, the gateway gets an analysis or goes on without   *)
(* one: the call of every request ends, also while threads given up and    *)
(* those of the recommendations fill the pool (analyze_request).           *)
CallsEnd == \A c \in Calls : call[c] # Idle ~> call[c] = Idle

(* The circuit does not stay open for good: the calls that began before it *)
(* opened may push its recovery back, but they are few and none begins     *)
(* while it is open (CircuitBreaker.is_open and record_failure).           *)
Recovers == []<>~IsOpen
=============================================================================
