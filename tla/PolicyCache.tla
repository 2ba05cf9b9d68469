----------------------------- MODULE PolicyCache -----------------------------
(***************************************************************************)
(* The active policies of one organization, as the runtime gateway sees    *)
(* them.  Administrators change the policy table in transactions that      *)
(* delete the cache key and only then commit (policy_service.py); gateway  *)
(* requests take the policies from the cache or, on a miss, read the       *)
(* committed table and fill the cache (engine/orchestration.py).  A row    *)
(* that the request's session has loaded before keeps its values in that   *)
(* reading, and the policies of the actor's organization are loaded when   *)
(* the request is admitted (models/organization.py).  The requests run on  *)
(* several worker processes (backend/Dockerfile starts two), so the steps  *)
(* of one interleave with those of the others.                             *)
(*                                                                         *)
(* The contents of the table are abstracted to the number of changes       *)
(* committed so far: version v is what v commits have made of it.          *)
(***************************************************************************)
EXTENDS Integers

CONSTANTS Admins,        \* administrators' policy mutations in progress
          Gateways,      \* gateway requests in progress
          Workers,       \* server processes
          TTL,           \* ticks a cache entry lives
          MaxFillDelay,  \* ticks between a gateway's admission and its fill
          MaxChanges     \* bound: committed policy changes

ASSUME PolicyCacheAssumption ==
  /\ TTL \in Nat \ {0}
  /\ MaxFillDelay \in Nat
  /\ MaxChanges \in Nat

VARIABLES redis, local,  \* the two cache tiers, see CacheService
          table,         \* the committed version of the policy table
          age,           \* age[v]: ticks since version v was superseded
          admin,         \* admin[a]: how far a's transaction has got
          gateway,       \* gateway[g]: how far g has got loading the policies
          raced          \* a Redis call failed where it matters, or a fill
                         \* overlapped a change (history)

Version == 0 .. MaxChanges

Cache == INSTANCE CacheService WITH Value <- Version

vars == <<redis, local, table, age, admin, gateway, raced>>

StalenessBound == TTL + MaxFillDelay

AgeCap == StalenessBound + 2    \* age stops counting here

\* A request that may yet fill the cache.
Pending == {"admitted", "miss", "read"}

Request == [at : Pending \cup {"idle", "loaded"},
            worker : Workers,
            version : Version,
            waited : 0 .. MaxFillDelay]

TypeOK ==
  /\ Cache!CacheTypeOK
  /\ table \in Version
  /\ age \in [Version -> 0 .. AgeCap]
  /\ admin \in [Admins -> {"idle", "flushed", "invalidated"}]
  /\ gateway \in [Gateways -> Request]
  /\ raced \in BOOLEAN

Loading(at, w, v) == [at |-> at, worker |-> w, version |-> v, waited |-> 0]

Init ==
  /\ Cache!CacheInit
  /\ table = 0
  /\ age = [v \in Version |-> 0]
  /\ admin = [a \in Admins |-> "idle"]
  /\ gateway \in [Gateways -> {Loading("idle", w, 0) : w \in Workers}]
  /\ raced = FALSE

-----------------------------------------------------------------------------
(* An administrator creates, updates or soft-deletes a policy.             *)

\* The change is validated, flushed and audited inside the transaction.
Flush(a) ==
  /\ admin[a] = "idle"
  /\ table < MaxChanges
  /\ admin' = [admin EXCEPT ![a] = "flushed"]
  /\ UNCHANGED <<redis, local, table, age, gateway, raced>>

\* Mutant: the cache key is not deleted.
ForgetToInvalidate(a) ==
  /\ admin[a] = "flushed"
  /\ admin' = [admin EXCEPT ![a] = "invalidated"]
  /\ UNCHANGED <<redis, local, table, age, gateway, raced>>

\* cache_service.delete, by the worker that serves this administrator.
Invalidate(a) ==
  /\ admin[a] = "flushed"
  /\ \E w \in Workers : Cache!Delete(w)
  /\ admin' = [admin EXCEPT ![a] = "invalidated"]
  /\ raced' = (raced \/ redis' # {})
  /\ UNCHANGED <<table, age, gateway>>

Commit(a) ==
  /\ admin[a] = "invalidated"
  /\ table < MaxChanges
  /\ table' = table + 1
  /\ admin' = [admin EXCEPT ![a] = "idle"]
  /\ UNCHANGED <<redis, local, age, gateway, raced>>

\* The request fails before its commit and the session rolls back.
Rollback(a) ==
  /\ admin[a] # "idle"
  /\ admin' = [admin EXCEPT ![a] = "idle"]
  /\ UNCHANGED <<redis, local, table, age, gateway, raced>>

-----------------------------------------------------------------------------
(* A gateway request loads the active policies.                            *)

\* The worker w admits the request: the actor is loaded, with the organization
\* and its policies.
Admit(g, w) ==
  /\ gateway[g].at = "idle"
  /\ gateway' = [gateway EXCEPT ![g] = Loading("admitted", w, table)]
  /\ UNCHANGED <<redis, local, table, age, admin, raced>>

\* The lookup, on the worker w that serves the request.
Lookup(g, w) ==
  /\ gateway[g].at = "admitted" /\ gateway[g].worker = w
  /\ \E hit \in {redis, Cache!Unexpired(local[w])} :
       /\ Cache!Get(w, hit)
       /\ \/ /\ hit = {}
             /\ gateway' = [gateway EXCEPT ![g].at = "miss"]
          \/ \E e \in hit :
               gateway' = [gateway EXCEPT ![g] = Loading("loaded", w, e.value)]
  /\ UNCHANGED <<table, age, admin, raced>>

\* The miss path reads the committed rows, those of the session as they were
\* loaded...
ReadTable(g) ==
  /\ gateway[g].at = "miss"
  /\ \E v \in {gateway[g].version, table} :
       gateway' = [gateway EXCEPT ![g].at = "read", ![g].version = v]
  /\ UNCHANGED <<redis, local, table, age, admin, raced>>

\* ... and writes them back under the key.
Fill(g) ==
  /\ gateway[g].at = "read"
  /\ Cache!Set(gateway[g].worker, gateway[g].version)
  /\ gateway' = [gateway EXCEPT ![g] = Loading("loaded", @.worker, @.version)]
  /\ raced' = \/ raced
              \/ local' # local
              \/ gateway[g].version # table
              \/ \E a \in Admins : admin[a] = "invalidated"
  /\ UNCHANGED <<table, age, admin>>

\* The governance engine decides with the loaded policies.
Decide(g) ==
  /\ gateway[g].at = "loaded"
  /\ gateway' = [gateway EXCEPT ![g] = Loading("idle", @.worker, 0)]
  /\ UNCHANGED <<redis, local, table, age, admin, raced>>

\* The request is abandoned: the database read or the connection fails.
Abandon(g) ==
  /\ gateway[g].at \in Pending
  /\ gateway' = [gateway EXCEPT ![g] = Loading("idle", @.worker, 0)]
  /\ UNCHANGED <<redis, local, table, age, admin, raced>>

-----------------------------------------------------------------------------

\* Time passes for the entries, the superseded versions and the fills.
Tick ==
  /\ \A g \in Gateways : gateway[g].at \in Pending => gateway[g].waited < MaxFillDelay
  /\ Cache!Elapse
  /\ age' = [v \in Version |->
               IF v < table /\ age[v] < AgeCap THEN age[v] + 1 ELSE age[v]]
  /\ gateway' = [g \in Gateways |->
                   [gateway[g] EXCEPT !.waited =
                      IF gateway[g].at \in Pending THEN @ + 1 ELSE @]]
  /\ UNCHANGED <<table, admin, raced>>

AdminStep(a) == Flush(a) \/ Invalidate(a) \/ Commit(a) \/ Rollback(a)

GatewayStep(g) ==
  \/ \E w \in Workers : Admit(g, w) \/ Lookup(g, w)
  \/ ReadTable(g) \/ Fill(g) \/ Decide(g) \/ Abandon(g)

Next ==
  \/ \E a \in Admins : AdminStep(a)
  \/ \E g \in Gateways : GatewayStep(g)
  \/ Tick

\* Time passes, and a gateway that is loading its policies gets an answer or a
\* failure from the database and from Redis.
Fairness ==
  /\ WF_vars(Tick)
  /\ \A g \in Gateways : WF_vars((\E w \in Workers : Lookup(g, w)) \/ ReadTable(g) \/ Fill(g) \/ Abandon(g))

Spec == Init /\ [][Next]_vars

FairSpec == Spec /\ Fairness

-----------------------------------------------------------------------------
(* Properties.                                                             *)

LoadsBounded ==
  \A g \in Gateways :
    gateway[g].at # "loaded" /\ gateway'[g].at = "loaded"
      => age[gateway'[g].version] <= StalenessBound

\* No gateway takes up policies that were superseded longer ago than a cache
\* entry lives plus the time a fill may be delayed: whatever races between
\* lookups, fills, invalidations and commits and whatever Redis calls fail, an
\* administrator's change is in force everywhere after that time.
StalenessBounded == [][LoadsBounded]_vars

\* The cache disagrees with the committed table only after a fill overlapped a
\* change of the table (loaded before its commit, or written between its delete
\* of the key and its commit) or after a Redis call failed: without such a
\* race every commit has removed what it made obsolete.
FreshUnlessRaced == ~raced => \A e \in Cache!Served : e.value = table

\* Once no more changes are committed, every lookup ends up being served the
\* committed table, from whichever tier and worker.
EventuallyFresh == <>[](\A e \in Cache!Served : e.value = table)

\* What makes StalenessBounded inductive: an entry and a fill in progress
\* carry a version no older than the time they have already spent.
EntryBounded(e) ==
  e.value <= table /\ (e.left >= 0 => age[e.value] + e.left <= StalenessBound)

AgeInv ==
  /\ \A e \in redis : EntryBounded(e)
  /\ \A w \in Workers : \A e \in local[w] : EntryBounded(e)
  /\ \A g \in Gateways : gateway[g].at \in Pending =>
       gateway[g].version <= table /\ age[gateway[g].version] <= gateway[g].waited
  /\ \A v \in Version : v >= table => age[v] = 0

\* What makes FreshUnlessRaced inductive: without a race no fallback holds an
\* entry, and Redis holds none between a delete and the commit it is for.
FreshInv ==
  ~raced =>
    /\ \A w \in Workers : local[w] = {}
    /\ \A a \in Admins : admin[a] = "invalidated" => redis = {}
    /\ \A e \in redis : e.value = table
=============================================================================
