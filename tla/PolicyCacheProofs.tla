-------------------------- MODULE PolicyCacheProofs --------------------------
(***************************************************************************)
(* Proofs about PolicyCache, for any administrators, gateway requests,     *)
(* workers, entry life and fill delay.                                     *)
(***************************************************************************)
EXTENDS PolicyCache, TLAPS

USE PolicyCacheAssumption

\* What a request may hold while it loads its policies.
LEMMA LoadingType ==
  ASSUME NEW at \in {"idle", "admitted", "miss", "read", "loaded"},
         NEW w \in Workers, NEW v \in Version
  PROVE  Loading(at, w, v) \in Request
  BY DEF Loading, Request, Pending

LEMMA LoadingAt ==
  \A at, w, v : Loading(at, w, v).at = at
  BY DEF Loading

LEMMA TypeInit == Init => TypeOK
<1> SUFFICES ASSUME Init PROVE TypeOK
  OBVIOUS
<1>1. Cache!CacheTypeOK
  BY DEF Init, Cache!CacheInit, Cache!CacheTypeOK
<1>2. /\ table \in Version
      /\ age \in [Version -> 0 .. AgeCap]
      /\ admin \in [Admins -> {"idle", "flushed", "invalidated"}]
  BY DEF Init, Version, AgeCap, StalenessBound
<1>3. gateway \in [Gateways -> Request]
  BY LoadingType DEF Init, Version
<1>4. raced \in BOOLEAN
  BY DEF Init
<1>5. QED
  BY <1>1, <1>2, <1>3, <1>4 DEF TypeOK

\* The operations of the cache keep the types of both tiers.
LEMMA DeleteType ==
  ASSUME Cache!CacheTypeOK, NEW w \in Workers, Cache!Delete(w)
  PROVE  Cache!CacheTypeOK'
  BY DEF Cache!CacheTypeOK, Cache!Delete, Cache!RedisEntry, Cache!LocalEntry

LEMMA SetType ==
  ASSUME Cache!CacheTypeOK, NEW w \in Workers, NEW v \in Version, Cache!Set(w, v)
  PROVE  Cache!CacheTypeOK'
  BY DEF Cache!CacheTypeOK, Cache!Set, Cache!Fresh, Cache!RedisEntry, Cache!LocalEntry

LEMMA GetType ==
  ASSUME Cache!CacheTypeOK, NEW w \in Workers, NEW hit, Cache!Get(w, hit)
  PROVE  /\ Cache!CacheTypeOK'
         /\ \A e \in hit : e.value \in Version
  BY DEF Cache!CacheTypeOK, Cache!Get, Cache!cacheVars, Cache!Unexpired,
         Cache!RedisEntry, Cache!LocalEntry

LEMMA ElapseType ==
  ASSUME Cache!CacheTypeOK, Cache!Elapse
  PROVE  Cache!CacheTypeOK'
  BY DEF Cache!CacheTypeOK, Cache!Elapse, Cache!RedisEntry, Cache!LocalEntry

LEMMA TypeNext == TypeOK /\ [Next]_vars => TypeOK'
<1> SUFFICES ASSUME TypeOK, [Next]_vars PROVE TypeOK'
  OBVIOUS
<1>1. ASSUME NEW a \in Admins, Flush(a) PROVE TypeOK'
  BY <1>1 DEF TypeOK, Flush, Cache!CacheTypeOK
<1>2. ASSUME NEW a \in Admins, Invalidate(a) PROVE TypeOK'
  <2>1. Cache!CacheTypeOK'
    BY <1>2, DeleteType DEF TypeOK, Invalidate
  <2>2. QED
    BY <1>2, <2>1 DEF TypeOK, Invalidate
<1>3. ASSUME NEW a \in Admins, Commit(a) PROVE TypeOK'
  BY <1>3 DEF TypeOK, Commit, Cache!CacheTypeOK, Version
<1>4. ASSUME NEW a \in Admins, Rollback(a) PROVE TypeOK'
  BY <1>4 DEF TypeOK, Rollback, Cache!CacheTypeOK
<1>5. ASSUME NEW g \in Gateways, NEW w \in Workers, Lookup(g, w) PROVE TypeOK'
  <2>1. PICK hit : /\ Cache!Get(w, hit)
                   /\ \/ gateway' = [gateway EXCEPT ![g].at = "miss"]
                      \/ \E e \in hit :
                           gateway' = [gateway EXCEPT ![g] = Loading("loaded", w, e.value)]
    BY <1>5 DEF Lookup
  <2>2. Cache!CacheTypeOK' /\ \A e \in hit : e.value \in Version
    BY <2>1, GetType DEF TypeOK
  <2>3. gateway' \in [Gateways -> Request]
    <3>1. [gateway[g] EXCEPT !.at = "miss"] \in Request
      BY DEF TypeOK, Request, Pending
    <3>2. QED
      BY <2>1, <2>2, <3>1, LoadingType DEF TypeOK, Version
  <2>4. QED
    BY <1>5, <2>2, <2>3 DEF TypeOK, Lookup
<1>6. ASSUME NEW g \in Gateways, ReadTable(g) PROVE TypeOK'
  <2>1. gateway[g].version \in Version /\ table \in Version
    BY DEF TypeOK, Request
  <2>2. gateway' \in [Gateways -> Request]
    <3>1. PICK v \in {gateway[g].version, table} :
            gateway' = [gateway EXCEPT ![g].at = "read", ![g].version = v]
      BY <1>6 DEF ReadTable
    <3>2. [gateway[g] EXCEPT !.at = "read", !.version = v] \in Request
      BY <2>1, <3>1 DEF TypeOK, Request, Pending
    <3>3. gateway' = [gateway EXCEPT ![g] = [gateway[g] EXCEPT !.at = "read", !.version = v]]
      BY <3>1 DEF TypeOK
    <3>4. QED
      BY <3>2, <3>3 DEF TypeOK
  <2>3. QED
    BY <1>6, <2>2 DEF TypeOK, ReadTable, Cache!CacheTypeOK
<1>7. ASSUME NEW g \in Gateways, Fill(g) PROVE TypeOK'
  <2>1. gateway[g].worker \in Workers /\ gateway[g].version \in Version
    BY DEF TypeOK, Request
  <2>2. Cache!CacheTypeOK'
    BY <1>7, <2>1, SetType DEF TypeOK, Fill
  <2>3. gateway' \in [Gateways -> Request]
    BY <1>7, <2>1, LoadingType DEF TypeOK, Fill
  <2>4. QED
    BY <1>7, <2>2, <2>3 DEF TypeOK, Fill
<1>8. ASSUME NEW g \in Gateways, Decide(g) \/ Abandon(g) PROVE TypeOK'
  <2>1. gateway[g].worker \in Workers /\ 0 \in Version
    BY DEF TypeOK, Request, Version
  <2>2. gateway' \in [Gateways -> Request]
    BY <1>8, <2>1, LoadingType DEF TypeOK, Decide, Abandon
  <2>3. QED
    BY <1>8, <2>2 DEF TypeOK, Decide, Abandon, Cache!CacheTypeOK
<1>9. CASE Tick
  <2>1. Cache!CacheTypeOK'
    BY <1>9, ElapseType DEF TypeOK, Tick
  <2>2. age' \in [Version -> 0 .. AgeCap]
    BY <1>9 DEF TypeOK, Tick, AgeCap, StalenessBound
  <2>3. gateway' \in [Gateways -> Request]
    BY <1>9 DEF TypeOK, Tick, Request
  <2>4. QED
    BY <1>9, <2>1, <2>2, <2>3 DEF TypeOK, Tick
<1>10. CASE UNCHANGED vars
  BY <1>10 DEF TypeOK, vars, Cache!CacheTypeOK
<1>11. ASSUME NEW g \in Gateways, NEW w \in Workers, Admit(g, w) PROVE TypeOK'
  BY <1>11, LoadingType DEF TypeOK, Admit, Cache!CacheTypeOK
<1>12. QED
  BY <1>1, <1>2, <1>3, <1>4, <1>5, <1>6, <1>7, <1>8, <1>9, <1>10, <1>11
     DEF Next, AdminStep, GatewayStep

\* Every variable keeps its type, whatever the interleaving.
THEOREM TypeCorrect == Spec => []TypeOK
  BY TypeInit, TypeNext, PTL DEF Spec

-----------------------------------------------------------------------------
(* The age of what the cache serves.                                       *)

LEMMA AgeInit == Init => AgeInv
  BY LoadingAt DEF Init, AgeInv, Cache!CacheInit, Version, Pending

LEMMA AgeNext == TypeOK /\ AgeInv /\ [Next]_vars => AgeInv'
<1> SUFFICES ASSUME TypeOK, AgeInv, [Next]_vars PROVE AgeInv'
  OBVIOUS
<1>1. ASSUME NEW a \in Admins, Flush(a) \/ Rollback(a) PROVE AgeInv'
  BY <1>1 DEF AgeInv, EntryBounded, Flush, Rollback
<1>2. ASSUME NEW a \in Admins, Invalidate(a) PROVE AgeInv'
  <2>1. /\ redis' \subseteq redis
        /\ \A w \in Workers : local'[w] \subseteq local[w]
    BY <1>2 DEF Invalidate, Cache!Delete, TypeOK, Cache!CacheTypeOK
  <2>2. QED
    BY <1>2, <2>1 DEF AgeInv, EntryBounded, Invalidate
<1>3. ASSUME NEW a \in Admins, Commit(a) PROVE AgeInv'
  <2>1. table \in Int /\ table' = table + 1
    BY <1>3 DEF Commit, TypeOK, Version
  <2>2. /\ \A e \in redis : e.value \in Int
        /\ \A w \in Workers : \A e \in local[w] : e.value \in Int
        /\ \A g \in Gateways : gateway[g].version \in Int
    BY DEF TypeOK, Cache!CacheTypeOK, Cache!RedisEntry, Cache!LocalEntry, Request, Version
  <2>3. QED
    BY <1>3, <2>1, <2>2 DEF AgeInv, EntryBounded, Commit, Version
<1>4. ASSUME NEW g \in Gateways, NEW w \in Workers, Lookup(g, w) PROVE AgeInv'
  <2>1. /\ redis' = redis
        /\ \A x \in Workers : local'[x] \subseteq local[x]
    BY <1>4 DEF Lookup, Cache!Get, Cache!cacheVars, Cache!Unexpired, TypeOK, Cache!CacheTypeOK
  <2>2. \A h \in Gateways : gateway'[h].at \in Pending =>
          /\ gateway[h].at \in Pending
          /\ gateway'[h].version = gateway[h].version
          /\ gateway'[h].waited = gateway[h].waited
    BY <1>4, LoadingAt DEF Lookup, TypeOK, Pending, Request
  <2>3. QED
    BY <1>4, <2>1, <2>2 DEF AgeInv, EntryBounded, Lookup
<1>5. ASSUME NEW g \in Gateways, ReadTable(g) PROVE AgeInv'
  <2>1. /\ gateway'[g].version \in {gateway[g].version, table}
        /\ gateway'[g].waited = gateway[g].waited
        /\ gateway[g].at \in Pending
    BY <1>5 DEF ReadTable, TypeOK, Request, Pending
  <2>2. \A h \in Gateways : h # g => gateway'[h] = gateway[h]
    BY <1>5 DEF ReadTable, TypeOK
  <2>3. /\ table \in Version /\ table <= table /\ age[table] = 0
        /\ gateway[g].waited \in 0 .. MaxFillDelay
    BY DEF TypeOK, AgeInv, Version, Request
  <2>4. /\ gateway'[g].version <= table
        /\ age[gateway'[g].version] <= gateway'[g].waited
    BY <2>1, <2>3 DEF AgeInv
  <2>5. QED
    BY <1>5, <2>2, <2>4 DEF AgeInv, EntryBounded, ReadTable
<1>6. ASSUME NEW g \in Gateways, Fill(g) PROVE AgeInv'
  <2> DEFINE f == Cache!Fresh(gateway[g].version)
  <2>1. /\ redis' \subseteq redis \cup {f}
        /\ \A x \in Workers : local'[x] \subseteq local[x] \cup {f}
    BY <1>6 DEF Fill, Cache!Set, TypeOK, Cache!CacheTypeOK
  <2>2. EntryBounded(f)
    <3>1. /\ gateway[g].version \in Version
          /\ gateway[g].waited \in 0 .. MaxFillDelay
          /\ age[gateway[g].version] \in 0 .. AgeCap
      BY DEF TypeOK, Request
    <3>2. gateway[g].version <= table /\ age[gateway[g].version] <= gateway[g].waited
      BY <1>6 DEF AgeInv, Fill, Pending
    <3>3. QED
      BY <3>1, <3>2 DEF EntryBounded, Cache!Fresh, StalenessBound
  <2>3. \A h \in Gateways : gateway'[h].at \in Pending => gateway'[h] = gateway[h]
    BY <1>6, LoadingAt DEF Fill, TypeOK, Pending
  <2>4. QED
    BY <1>6, <2>1, <2>2, <2>3 DEF AgeInv, EntryBounded, Fill
<1>7. ASSUME NEW g \in Gateways, Decide(g) \/ Abandon(g) PROVE AgeInv'
  <2>1. \A h \in Gateways : gateway'[h].at \in Pending => gateway'[h] = gateway[h]
    BY <1>7, LoadingAt DEF Decide, Abandon, TypeOK, Pending
  <2>2. QED
    BY <1>7, <2>1 DEF AgeInv, EntryBounded, Decide, Abandon
<1>8. CASE Tick
  <2>1. \A v \in Version : /\ age[v] \in Int /\ age'[v] \in Int
                           /\ age'[v] <= age[v] + 1
                           /\ v >= table => age'[v] = age[v]
    BY <1>8 DEF Tick, TypeOK, Version, AgeCap, StalenessBound
  <2>2. \A e \in redis' : \E f \in redis : e.value = f.value /\ e.left = f.left - 1
    BY <1>8 DEF Tick, Cache!Elapse, TypeOK, Cache!CacheTypeOK, Cache!RedisEntry
  <2>3. \A w \in Workers : \A e \in local'[w] :
          \E f \in local[w] : /\ e.value = f.value
                              /\ e.left = IF f.left >= 0 THEN f.left - 1 ELSE f.left
    BY <1>8 DEF Tick, Cache!Elapse, TypeOK, Cache!CacheTypeOK, Cache!LocalEntry
  <2>4. \A e \in redis' : EntryBounded(e)'
    <3> SUFFICES ASSUME NEW e \in redis' PROVE EntryBounded(e)'
      OBVIOUS
    <3>1. PICK f \in redis : e.value = f.value /\ e.left = f.left - 1
      BY <2>2
    <3>2. f.value \in Version /\ f.left \in 1 .. TTL /\ EntryBounded(f)
      BY DEF TypeOK, Cache!CacheTypeOK, Cache!RedisEntry, AgeInv
    <3>3. QED
      BY <1>8, <2>1, <3>1, <3>2 DEF EntryBounded, Tick, StalenessBound
  <2>5. \A w \in Workers : \A e \in local'[w] : EntryBounded(e)'
    <3> SUFFICES ASSUME NEW w \in Workers, NEW e \in local'[w] PROVE EntryBounded(e)'
      OBVIOUS
    <3>1. PICK f \in local[w] : /\ e.value = f.value
                                /\ e.left = IF f.left >= 0 THEN f.left - 1 ELSE f.left
      BY <2>3
    <3>2. f.value \in Version /\ f.left \in -1 .. TTL /\ EntryBounded(f)
      BY DEF TypeOK, Cache!CacheTypeOK, Cache!LocalEntry, AgeInv
    <3>3. QED
      BY <1>8, <2>1, <3>1, <3>2 DEF EntryBounded, Tick, StalenessBound
  <2>6. \A g \in Gateways : gateway'[g].at \in Pending =>
          gateway'[g].version <= table /\ age'[gateway'[g].version] <= gateway'[g].waited
    <3> SUFFICES ASSUME NEW g \in Gateways, gateway'[g].at \in Pending
                 PROVE  gateway'[g].version <= table
                        /\ age'[gateway'[g].version] <= gateway'[g].waited
      OBVIOUS
    <3>1. /\ gateway[g].at \in Pending
          /\ gateway'[g].version = gateway[g].version
          /\ gateway'[g].waited = gateway[g].waited + 1
      BY <1>8 DEF Tick, TypeOK, Request, Pending
    <3>2. gateway[g].version \in Version /\ gateway[g].waited \in Int
      BY DEF TypeOK, Request
    <3>3. QED
      BY <2>1, <3>1, <3>2 DEF AgeInv
  <2>7. \A v \in Version : v >= table => age'[v] = 0
    BY <2>1 DEF AgeInv
  <2>8. QED
    BY <1>8, <2>4, <2>5, <2>6, <2>7 DEF AgeInv, Tick
<1>9. CASE UNCHANGED vars
  BY <1>9 DEF AgeInv, EntryBounded, vars
<1>10. ASSUME NEW g \in Gateways, NEW w \in Workers, Admit(g, w) PROVE AgeInv'
  <2>1. gateway'[g].version = table /\ gateway'[g].waited = 0
    BY <1>10 DEF Admit, Loading, TypeOK
  <2>2. \A h \in Gateways : h # g => gateway'[h] = gateway[h]
    BY <1>10 DEF Admit, TypeOK
  <2>3. table \in Version /\ table <= table /\ age[table] = 0
    BY DEF TypeOK, AgeInv, Version
  <2>4. QED
    BY <1>10, <2>1, <2>2, <2>3 DEF AgeInv, EntryBounded, Admit
<1>11. QED
  BY <1>1, <1>2, <1>3, <1>4, <1>5, <1>6, <1>7, <1>8, <1>9, <1>10
     DEF Next, AdminStep, GatewayStep

\* An entry of the cache never outlives the version it holds by more than the
\* bound, however fills, deletes, commits and Redis failures interleave.
THEOREM AgeCorrect == Spec => []AgeInv
  BY TypeCorrect, AgeInit, AgeNext, PTL DEF Spec

LEMMA LoadsBoundedStep == TypeOK /\ AgeInv /\ [Next]_vars => [LoadsBounded]_vars
<1> SUFFICES ASSUME TypeOK, AgeInv, Next,
                    NEW g \in Gateways, gateway[g].at # "loaded", gateway'[g].at = "loaded"
             PROVE  age[gateway'[g].version] <= StalenessBound
  BY DEF LoadsBounded
<1>1. ASSUME NEW a \in Admins, AdminStep(a) PROVE FALSE
  BY <1>1 DEF AdminStep, Flush, Invalidate, Commit, Rollback
<1>2. ASSUME NEW h \in Gateways, NEW w \in Workers, Lookup(h, w)
      PROVE  age[gateway'[g].version] <= StalenessBound
  <2>1. PICK hit : /\ Cache!Get(w, hit)
                   /\ \/ gateway' = [gateway EXCEPT ![h].at = "miss"]
                      \/ \E e \in hit :
                           gateway' = [gateway EXCEPT ![h] = Loading("loaded", w, e.value)]
    BY <1>2 DEF Lookup
  <2>2. PICK e \in hit : gateway'[g].version = e.value
    BY <2>1 DEF TypeOK, Loading, Request
  <2>3. e.value \in Version /\ e.left \in 0 .. TTL /\ EntryBounded(e)
    BY <2>1 DEF TypeOK, AgeInv, Cache!CacheTypeOK, Cache!Get, Cache!Unexpired,
                Cache!RedisEntry, Cache!LocalEntry
  <2>4. age[e.value] \in Int
    BY <2>3 DEF TypeOK
  <2>5. QED
    BY <2>2, <2>3, <2>4 DEF EntryBounded, StalenessBound
<1>3. ASSUME NEW h \in Gateways, Fill(h)
      PROVE  age[gateway'[g].version] <= StalenessBound
  <2>1. gateway[g].at = "read" /\ gateway'[g].version = gateway[g].version
    BY <1>3 DEF Fill, Loading, TypeOK
  <2>2. /\ gateway[g].waited \in 0 .. MaxFillDelay
        /\ age[gateway[g].version] \in Int
        /\ age[gateway[g].version] <= gateway[g].waited
    BY <2>1 DEF TypeOK, Request, AgeInv, Pending
  <2>3. QED
    BY <2>1, <2>2 DEF StalenessBound
<1>4. ASSUME NEW h \in Gateways, NEW w \in Workers,
             Admit(h, w) \/ ReadTable(h) \/ Decide(h) \/ Abandon(h)
      PROVE  FALSE
  BY <1>4 DEF Admit, ReadTable, Decide, Abandon, Loading, TypeOK, Request
<1>5. CASE Tick
  BY <1>5 DEF Tick, TypeOK, Request
<1>6. \A h \in Gateways : gateway[h].worker \in Workers
  BY DEF TypeOK, Request
<1>7. QED
  BY <1>1, <1>2, <1>3, <1>4, <1>5, <1>6 DEF Next, GatewayStep

\* No gateway takes up policies superseded longer ago than the bound.
THEOREM StalenessCorrect == Spec => StalenessBounded
  BY TypeCorrect, AgeCorrect, LoadsBoundedStep, PTL DEF Spec, StalenessBounded

-----------------------------------------------------------------------------
(* Freshness in the absence of races.                                      *)

LEMMA FreshInit == Init => FreshInv
  BY DEF Init, FreshInv, Cache!CacheInit

LEMMA FreshNext == TypeOK /\ FreshInv /\ [Next]_vars => FreshInv'
<1> SUFFICES ASSUME TypeOK, FreshInv, [Next]_vars, ~raced' PROVE FreshInv'
  BY DEF FreshInv
<1>1. ASSUME NEW a \in Admins, Flush(a) \/ Rollback(a) PROVE FreshInv'
  BY <1>1 DEF FreshInv, Flush, Rollback, TypeOK
<1>2. ASSUME NEW a \in Admins, Invalidate(a) PROVE FreshInv'
  <2>1. redis' = {} /\ ~raced
    BY <1>2 DEF Invalidate, TypeOK
  <2>2. \A w \in Workers : local'[w] = {}
    BY <1>2, <2>1 DEF Invalidate, Cache!Delete, FreshInv, TypeOK, Cache!CacheTypeOK
  <2>3. QED
    BY <2>1, <2>2 DEF FreshInv
<1>3. ASSUME NEW a \in Admins, Commit(a) PROVE FreshInv'
  BY <1>3 DEF FreshInv, Commit, TypeOK
<1>4. ASSUME NEW g \in Gateways, NEW w \in Workers, Lookup(g, w) PROVE FreshInv'
  <2>1. ~raced /\ UNCHANGED <<redis, table, admin>>
    BY <1>4 DEF Lookup, Cache!Get, Cache!cacheVars
  <2>2. \A x \in Workers : local'[x] \subseteq local[x]
    BY <1>4 DEF Lookup, Cache!Get, Cache!cacheVars, Cache!Unexpired, TypeOK, Cache!CacheTypeOK
  <2>3. QED
    BY <2>1, <2>2 DEF FreshInv
<1>5. ASSUME NEW g \in Gateways, NEW w \in Workers,
             Admit(g, w) \/ ReadTable(g) \/ Decide(g) \/ Abandon(g)
      PROVE  FreshInv'
  BY <1>5 DEF FreshInv, Admit, ReadTable, Decide, Abandon
<1>6. ASSUME NEW g \in Gateways, Fill(g) PROVE FreshInv'
  <2>1. /\ ~raced /\ local' = local /\ gateway[g].version = table
        /\ \A a \in Admins : admin[a] # "invalidated"
    BY <1>6 DEF Fill
  <2>2. gateway[g].worker \in Workers /\ local \in [Workers -> SUBSET Cache!LocalEntry]
    BY DEF TypeOK, Request, Cache!CacheTypeOK
  <2>3. redis' = {Cache!Fresh(table)}
    BY <1>6, <2>1, <2>2 DEF Fill, Cache!Set, FreshInv
  <2>4. QED
    BY <1>6, <2>1, <2>3 DEF Fill, FreshInv, Cache!Fresh
<1>7. CASE Tick
  <2>1. ~raced /\ UNCHANGED <<table, admin>>
    BY <1>7 DEF Tick
  <2>2. \A e \in redis' : \E f \in redis : e.value = f.value
    BY <1>7 DEF Tick, Cache!Elapse, TypeOK, Cache!CacheTypeOK, Cache!RedisEntry
  <2>3. \A w \in Workers : local'[w] = {}
    BY <1>7, <2>1 DEF Tick, Cache!Elapse, FreshInv
  <2>4. QED
    BY <2>1, <2>2, <2>3 DEF FreshInv
<1>8. CASE UNCHANGED vars
  BY <1>8 DEF FreshInv, vars
<1>9. \A g \in Gateways : gateway[g].worker \in Workers
  BY DEF TypeOK, Request
<1>10. QED
  BY <1>1, <1>2, <1>3, <1>4, <1>5, <1>6, <1>7, <1>8, <1>9
     DEF Next, AdminStep, GatewayStep

\* Without a race or a Redis failure, the cache agrees with the table.
THEOREM FreshCorrect == Spec => []FreshUnlessRaced
<1>1. FreshInv => FreshUnlessRaced
  BY DEF FreshInv, FreshUnlessRaced, Cache!Served, Cache!Unexpired
<1>2. QED
  BY <1>1, TypeCorrect, FreshInit, FreshNext, PTL DEF Spec
=============================================================================
