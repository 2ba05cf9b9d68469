----------------------------- MODULE RateLimiter -----------------------------
(***************************************************************************)
(* The fixed-window limiter of the HTTP middleware and of the WebSocket    *)
(* handshake (middleware/rate_limit.py): one bucket per key, which begins  *)
(* with the first hit and ends Window ticks later.  A tick is half a       *)
(* second, since what a client is told is cut to whole seconds.  A request *)
(* hits its keys one after the other; no hit is suspended, as nobody holds *)
(* the limiter's lock across an await.                                     *)
(***************************************************************************)
EXTENDS Integers, Sequences

CONSTANTS Window      \* ticks a bucket lasts

ASSUME WindowAssumption == Window \in Nat \ {0}

VARIABLE buckets      \* the buckets kept, by key

Second == 2

Bucket(limit) == [count : 0 .. limit, left : 0 .. Window]

\* A key without a bucket, or whose bucket is over, begins a new one.
Begins(k) == k \notin DOMAIN buckets \/ buckets[k].left = 0

Current(k) == IF Begins(k) THEN [count |-> 0, left |-> Window] ELSE buckets[k]

\* The places in keys at which a request would be refused.
Refusing(keys, limit) == {i \in DOMAIN keys : Current(keys[i]).count >= limit}

\* The key that refuses it, if any does: the first one that is full.
RefusedBy(keys, limit) ==
  LET no == Refusing(keys, limit)
  IN  {keys[i] : i \in {j \in no : \A r \in no : j <= r}}

\* Mutant: what a client is told may be no time at all.
RetryAtOnce(k) == Second * (Current(k).left \div Second)

RetryAfter(k) ==
  LET seconds == Current(k).left \div Second
  IN  Second * (IF seconds >= 1 THEN seconds ELSE 1)

\* The keys charged: all of them, or those before the one that refuses.
Charged(keys, limit) ==
  LET no == Refusing(keys, limit)
  IN  {keys[i] : i \in {j \in DOMAIN keys : \A r \in no : j < r}}

Hit(k) == [Current(k) EXCEPT !.count = @ + 1]

Charge(keys, limit) ==
  LET charged == Charged(keys, limit)
  IN  buckets' = [k \in DOMAIN buckets \cup charged |->
                    IF k \in charged THEN Hit(k) ELSE buckets[k]]

\* Mutant: those that are full as well.
OverOrFull(k) == buckets[k].left = 0 \/ buckets[k].count >= 1

\* The scheduler's clean-up drops the buckets that are over.
Over(k) == buckets[k].left = 0

Cleanup == buckets' = [k \in {j \in DOMAIN buckets : ~Over(j)} |-> buckets[k]]

Less(n) == IF n = 0 THEN 0 ELSE n - 1

Elapse == buckets' = [k \in DOMAIN buckets |-> [buckets[k] EXCEPT !.left = Less(@)]]
=============================================================================
