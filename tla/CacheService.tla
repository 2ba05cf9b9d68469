---------------------------- MODULE CacheService ----------------------------
(***************************************************************************)
(* One key of the two-tier cache of app/cache/cache_service.py: the value  *)
(* Redis holds for the key, shared by all the worker processes, and the    *)
(* private fallback dictionary of each process.  A Redis call may fail at  *)
(* any time (it raises, and the code falls back), so a failure is a choice *)
(* of every operation and there is no "Redis is up" flag.                  *)
(*                                                                         *)
(* A tier is the set of the entries it holds for the key: empty or one     *)
(* entry.  An entry counts down the ticks it has left.  Redis drops an     *)
(* entry when no tick is left; the fallback dictionary keeps an expired    *)
(* entry (left = -1) until a lookup pops it, and still serves it at the    *)
(* instant of expiry (left = 0), since get tests now <= expiry.            *)
(***************************************************************************)
EXTENDS Integers

CONSTANTS Workers,    \* the server processes, each with its own fallback
          Value,      \* what may be stored under the key
          TTL         \* redis_default_ttl_seconds, in ticks

VARIABLES redis,      \* the entries of Redis
          local       \* local[w]: the entries of worker w's _local_fallback

cacheVars == <<redis, local>>

RedisEntry == [value : Value, left : 1 .. TTL]
LocalEntry == [value : Value, left : -1 .. TTL]

CacheTypeOK ==
  /\ redis \in SUBSET RedisEntry
  /\ local \in [Workers -> SUBSET LocalEntry]
  /\ \A e, f \in redis : e = f
  /\ \A w \in Workers : \A e, f \in local[w] : e = f

CacheInit == redis = {} /\ local = [w \in Workers |-> {}]

\* Mutant: the fallback is served without looking at its expiry.
ServeExpired(entries) == entries

Fresh(v) == [value |-> v, left |-> TTL]

Unexpired(entries) == {e \in entries : e.left >= 0}

\* The entries a lookup could still be served from.
Served == redis \cup UNION {Unexpired(local[w]) : w \in Workers}

-----------------------------------------------------------------------------
(* The operations.                                                         *)

\* A lookup on worker w that is served from hit: the entries of Redis when
\* Redis answers, hit or miss; the unexpired fallback entry when it fails.
Get(w, hit) ==
  \/ hit = redis /\ UNCHANGED cacheVars
  \/ /\ hit = Unexpired(local[w])
     /\ local' = [local EXCEPT ![w] = Unexpired(@)]
     /\ UNCHANGED redis

\* Redis stores the value and the fallback is left alone, or the call fails,
\* possibly after Redis has applied it, and the fallback takes the value.
Set(w, v) ==
  \/ redis' = {Fresh(v)} /\ UNCHANGED local
  \/ /\ redis' \in {redis, {Fresh(v)}}
     /\ local' = [local EXCEPT ![w] = {Fresh(v)}]

\* Redis drops the entry or fails; the fallback of this process always does.
Delete(w) ==
  /\ redis' \in {redis, {}}
  /\ local' = [local EXCEPT ![w] = {}]

\* One tick of time for both tiers.
Elapse ==
  /\ redis' = {[e EXCEPT !.left = @ - 1] : e \in {f \in redis : f.left > 1}}
  /\ local' = [w \in Workers |->
                 {[e EXCEPT !.left = IF @ >= 0 THEN @ - 1 ELSE @] : e \in local[w]}]
=============================================================================
