------------------------- MODULE DnsResolverProofs -------------------------
(***************************************************************************)
(* The safety properties of DnsResolver, for any adapters, domains,        *)
(* callers and configuration.                                              *)
(*                                                                         *)
(* That a question has one lookup follows from what r.inflight says of     *)
(* each goroutine until its last critical section; that an adapter asks    *)
(* for one restart, from fallbackEmitted being set with the event and      *)
(* reset with the count.  The bound on the cache rests on                  *)
(* makeCacheRoomLocked alone, for a cache that is finite whatever the set  *)
(* of domains is.                                                          *)
(***************************************************************************)
EXTENDS DnsResolver, FiniteSetTheorems, TLAPS

\* A caller past its first step has a question.
AskedInv == \A c \in Callers : pc[c] = "asking" => key[c] \in Keys

\* While a lookup works, it is the one in flight for its question.
InflightInv ==
    \A l \in Lookups : Working(l) => /\ question[l] \in Keys
                                     /\ inflight[question[l]] = l

\* The event and the flag that keeps it from being emitted again.
EmittedInv ==
    \A a \in Adapters : /\ calls[a] \in {0, 1}
                        /\ calls[a] = 1 => fallbackEmitted[a]

\* The cache, as a set that has a size.
CacheInv == IsFiniteSet(Entries) /\ CacheBounded

DInv ==
    /\ DnsTypeOK
    /\ AskedInv
    /\ InflightInv
    /\ EmittedInv
    /\ CacheInv

-----------------------------------------------------------------------------

USE NobodyAssumption, PoliciesAssumption, ConfigAssumption

\* A function that is changed at one place, inside its domain or not.
LEMMA ExceptType ==
    ASSUME NEW D, NEW R, NEW f \in [D -> R], NEW x, NEW v \in R
    PROVE  [f EXCEPT ![x] = v] \in [D -> R]
  OBVIOUS

\* Dropping what has expired leaves a cache of the same type and no more
\* entries.
LEMMA UnexpiredCache ==
    ASSUME NEW t, cache \in [Keys -> 0..(MaxTime + CacheTTL)]
    PROVE  /\ Unexpired(t) \in [Keys -> 0..(MaxTime + CacheTTL)]
           /\ {k \in Keys : Unexpired(t)[k] # 0} \subseteq Entries
  BY DEF Unexpired, Entries

\* An answer expires within the time that the types allow.
LEMMA ResolvedType ==
    ASSUME DnsTypeOK, NEW l \in Lookups, NEW ttl \in 0..MaxTTL,
           Resolved(l, ttl)
    PROVE  expiry' \in [Lookups -> 0..(MaxTime + CacheTTL)]
<1> DEFINE capped == IF ttl > CacheTTL THEN CacheTTL ELSE ttl
           until == IF capped > 0 THEN now + capped ELSE 0
<1>1. capped \in 0..CacheTTL
  OBVIOUS
<1>2. until \in 0..(MaxTime + CacheTTL)
  BY <1>1 DEF DnsTypeOK
<1>3. expiry' = [expiry EXCEPT ![l] = until]
  BY DEF Resolved
<1> HIDE DEF until
<1> QED
  BY <1>2, <1>3 DEF DnsTypeOK

\* A new entry has a time to expire, and the others keep theirs.
LEMMA StoreType ==
    ASSUME DnsTypeOK, NEW k \in Keys, NEW until \in 0..(MaxTime + CacheTTL),
           Store(k, until)
    PROVE  cache' \in [Keys -> 0..(MaxTime + CacheTTL)]
  BY DEF DnsTypeOK, Store

\* Every step keeps the types.
LEMMA DnsTypeStep ==
    DnsTypeOK /\ AskedInv /\ InflightInv /\ [DnsNext]_vars => DnsTypeOK'
<1> SUFFICES ASSUME DnsTypeOK, AskedInv, InflightInv, [DnsNext]_vars
             PROVE  DnsTypeOK'
  OBVIOUS
<1> USE DEF DnsTypeOK, resolverVars, lookupVars, callerVars, LookupStates
<1>1. ASSUME NEW c \in Callers, NEW k \in Keys, Ask(c, k) PROVE DnsTypeOK'
  BY <1>1 DEF Ask
<1>2. ASSUME NEW c \in Callers, Hit(c) PROVE DnsTypeOK'
  BY <1>2, UnexpiredCache DEF Hit, Return
<1>3. ASSUME NEW c \in Callers, Join(c) PROVE DnsTypeOK'
  BY <1>3, UnexpiredCache DEF Join, AskedInv
<1>4. ASSUME NEW c \in Callers, NEW l \in Lookups, Miss(c, l)
      PROVE  DnsTypeOK'
  BY <1>4, UnexpiredCache DEF Miss, AskedInv
<1>5. ASSUME NEW c \in Callers, Told(c) \/ GiveUp(c) PROVE DnsTypeOK'
  BY <1>5 DEF Told, GiveUp, Return
<1>6. ASSUME NEW l \in Lookups, NEW ttl \in 0..MaxTTL,
             DoHAnswers(l, ttl) \/ LegacyAnswers(l, ttl)
      PROVE  DnsTypeOK'
  <2>1. expiry' \in [Lookups -> 0..(MaxTime + CacheTTL)]
    BY <1>6, ResolvedType DEF DoHAnswers, LegacyAnswers
  <2>2. UNCHANGED lookupErr
    BY <1>6 DEF DoHAnswers, LegacyAnswers, Resolved
  <2> QED
    BY <1>6, <2>1, <2>2 DEF DoHAnswers, LegacyAnswers
<1>7. ASSUME NEW l \in Lookups, DoHFails(l) PROVE DnsTypeOK'
  BY <1>7 DEF DoHFails
<1>8. ASSUME NEW l \in Lookups, DoHTimeout(l) \/ LegacyFails(l)
      PROVE  DnsTypeOK'
  BY <1>8 DEF DoHTimeout, LegacyFails, Failed
<1>9. ASSUME NEW l \in Lookups, RecordDoHSuccess(l) PROVE DnsTypeOK'
  <2> DEFINE a == question[l][1]
  <2>0. strictFailures' = [strictFailures EXCEPT ![a] = 0]
    BY <1>9 DEF RecordDoHSuccess
  <2>1. strictFailures' \in [Adapters -> 0..FailureThreshold]
    BY <2>0, ExceptType
  <2>2. fallbackEmitted' = [fallbackEmitted EXCEPT ![a] = FALSE]
    BY <1>9 DEF RecordDoHSuccess
  <2>3. fallbackEmitted' \in [Adapters -> BOOLEAN]
    BY <2>2
  <2>4. lookup' \in [Lookups -> LookupStates] /\ calls' \in [Adapters -> Nat]
    BY <1>9 DEF RecordDoHSuccess
  <2> QED
    BY <1>9, <2>1, <2>3, <2>4 DEF RecordDoHSuccess
<1>10. ASSUME NEW l \in Lookups, RecordStrictFailure(l) PROVE DnsTypeOK'
  <2> DEFINE a == question[l][1]
  <2>0. strictFailures' =
            [strictFailures EXCEPT ![a] = UpTo(strictFailures[a] + 1)]
    BY <1>10 DEF RecordStrictFailure
  <2>1. strictFailures' \in [Adapters -> 0..FailureThreshold]
    <3>1. CASE a \in Adapters
      <4>1. UpTo(strictFailures[a] + 1) \in 0..FailureThreshold
        BY <3>1 DEF UpTo
      <4> QED
        BY <2>0, <4>1, ExceptType
    <3>2. CASE a \notin Adapters
      <4>1. strictFailures' = strictFailures
        BY <2>0, <3>2
      <4> QED
        BY <4>1
    <3> QED
      BY <3>1, <3>2
  <2>2. \/ fallbackEmitted' = [fallbackEmitted EXCEPT ![a] = TRUE]
        \/ UNCHANGED fallbackEmitted
    BY <1>10 DEF RecordStrictFailure
  <2>3. fallbackEmitted' \in [Adapters -> BOOLEAN]
    BY <2>2
  <2>4. lookup' \in [Lookups -> LookupStates] /\ calls' \in [Adapters -> Nat]
    BY <1>10 DEF RecordStrictFailure
  <2>5. lookupErr' = [lookupErr EXCEPT ![l] = TRUE]
    BY <1>10 DEF RecordStrictFailure, Failed
  <2>6. lookupErr' \in [Lookups -> BOOLEAN]
    BY <2>5
  <2> QED
    BY <1>10, <2>1, <2>3, <2>4, <2>6 DEF RecordStrictFailure, Failed
<1>11. ASSUME NEW l \in Lookups, HandlerReturns(l) PROVE DnsTypeOK'
  BY <1>11 DEF HandlerReturns
<1>12. ASSUME NEW l \in Lookups, Finish(l) PROVE DnsTypeOK'
  <2>1. question[l] \in Keys
    BY <1>12 DEF Finish, InflightInv, Working
  <2>2. cache' \in [Keys -> 0..(MaxTime + CacheTTL)]
    BY <1>12, <2>1, StoreType DEF Finish
  <2>3. lookupErr' = [lookupErr EXCEPT ![l] = FALSE]
    BY <1>12 DEF Finish
  <2>4. lookupErr' \in [Lookups -> BOOLEAN]
    BY <2>3
  <2>5. /\ inflight' \in [Keys -> Lookups \cup {Nobody}]
        /\ lookup' \in [Lookups -> LookupStates]
        /\ question' \in [Lookups -> Keys \cup {Nobody}]
    BY <1>12 DEF Finish
  <2>6. expiry' = [expiry EXCEPT ![l] = 0]
    BY <1>12 DEF Finish
  <2>7. expiry' \in [Lookups -> 0..(MaxTime + CacheTTL)]
    BY <2>6
  <2> QED
    BY <1>12, <2>2, <2>4, <2>5, <2>7 DEF Finish
<1>13. CASE Status
  BY <1>13, UnexpiredCache DEF Status
<1>14. CASE Tick \/ CancelRoot
  BY <1>14 DEF Tick, CancelRoot
<1>15. CASE UNCHANGED vars
  BY <1>15 DEF vars
<1> QED
  BY <1>1, <1>2, <1>3, <1>4, <1>5, <1>6, <1>7, <1>8, <1>9, <1>10, <1>11,
     <1>12, <1>13, <1>14, <1>15 DEF DnsNext, ResolveStep, RootGone, RunLookup

-----------------------------------------------------------------------------

\* A lookup is in flight from the miss that starts it to its last critical
\* section, and nothing else replaces it.
LEMMA InflightStep ==
    DnsTypeOK /\ AskedInv /\ InflightInv /\ [DnsNext]_vars =>
        AskedInv' /\ InflightInv'
<1> SUFFICES ASSUME DnsTypeOK, AskedInv, InflightInv, [DnsNext]_vars
             PROVE  AskedInv' /\ InflightInv'
  OBVIOUS
<1> USE DEF AskedInv, InflightInv, Working, resolverVars, lookupVars,
            callerVars
<1>1. ASSUME NEW c \in Callers, NEW k \in Keys, Ask(c, k)
      PROVE  AskedInv' /\ InflightInv'
  BY <1>1 DEF Ask, DnsTypeOK
<1>2. ASSUME NEW c \in Callers, Hit(c) \/ Told(c) \/ GiveUp(c)
      PROVE  AskedInv' /\ InflightInv'
  BY <1>2 DEF Hit, Told, GiveUp, Return, DnsTypeOK
<1>3. ASSUME NEW c \in Callers, Join(c) PROVE AskedInv' /\ InflightInv'
  BY <1>3 DEF Join, DnsTypeOK
<1>4. ASSUME NEW c \in Callers, NEW l \in Lookups, Miss(c, l)
      PROVE  AskedInv' /\ InflightInv'
  <2>1. AskedInv'
    BY <1>4 DEF Miss, DnsTypeOK
  <2>2. /\ key[c] \in Keys /\ inflight[key[c]] = Nobody
        /\ inflight'[key[c]] = l
        /\ \A k \in Keys : k # key[c] => inflight'[k] = inflight[k]
    BY <1>4 DEF Miss, DnsTypeOK
  <2>3. /\ question'[l] = key[c]
        /\ \A m \in Lookups : m # l => /\ question'[m] = question[m]
                                       /\ lookup'[m] = lookup[m]
    BY <1>4 DEF Miss, DnsTypeOK
  <2> QED
    BY <2>1, <2>2, <2>3
<1>5. ASSUME NEW l \in Lookups, Finish(l) PROVE AskedInv' /\ InflightInv'
  <2>1. AskedInv'
    BY <1>5 DEF Finish
  <2>2. \A k \in Keys : k # question[l] => inflight'[k] = inflight[k]
    BY <1>5 DEF Finish, DnsTypeOK
  <2>3. /\ lookup'[l] = "done"
        /\ \A m \in Lookups : m # l => /\ question'[m] = question[m]
                                       /\ lookup'[m] = lookup[m]
    BY <1>5 DEF Finish, DnsTypeOK
  <2>4. \A m \in Lookups : Working(m) /\ m # l => question[m] # question[l]
    BY <1>5 DEF Finish
  <2> QED
    BY <2>1, <2>2, <2>3, <2>4
<1>6. ASSUME NEW l \in Lookups, RunLookup(l), ~Finish(l)
      PROVE  AskedInv' /\ InflightInv'
  <2>1. /\ UNCHANGED <<pc, key, inflight, question>>
        /\ Working(l)
        /\ \A m \in Lookups : m # l => lookup'[m] = lookup[m]
    BY <1>6 DEF RunLookup, DoHAnswers, LegacyAnswers, DoHFails, DoHTimeout,
       LegacyFails, RecordDoHSuccess, RecordStrictFailure, HandlerReturns,
       DnsTypeOK
  <2> QED
    BY <2>1
<1>7. CASE Status \/ Tick \/ CancelRoot \/ UNCHANGED vars
  BY <1>7 DEF Status, Tick, CancelRoot, vars
<1> QED
  BY <1>1, <1>2, <1>3, <1>4, <1>5, <1>6, <1>7 DEF DnsNext, ResolveStep,
     RootGone

\* The count of events and its flag change together.
LEMMA EmittedStep ==
    DnsTypeOK /\ InflightInv /\ EmittedInv /\ [DnsNext]_vars => EmittedInv'
<1> SUFFICES ASSUME DnsTypeOK, InflightInv, EmittedInv, [DnsNext]_vars
             PROVE  EmittedInv'
  OBVIOUS
<1> USE DEF EmittedInv, resolverVars
<1>1. ASSUME NEW l \in Lookups, RecordDoHSuccess(l) PROVE EmittedInv'
  <2> DEFINE a == question[l][1]
  <2>1. /\ calls' = [calls EXCEPT ![a] = 0]
        /\ fallbackEmitted' = [fallbackEmitted EXCEPT ![a] = FALSE]
    BY <1>1 DEF RecordDoHSuccess
  <2>2. \A b \in Adapters :
            \/ calls'[b] = 0
            \/ calls'[b] = calls[b] /\ fallbackEmitted'[b] = fallbackEmitted[b]
    BY <2>1 DEF DnsTypeOK
  <2> QED
    BY <2>2
<1>2. ASSUME NEW l \in Lookups, RecordStrictFailure(l) PROVE EmittedInv'
  <2> DEFINE a == question[l][1]
  <2>1. CASE UNCHANGED <<fallbackEmitted, calls>>
    BY <2>1
  <2>2. CASE MustEmit(a) /\ calls' = [calls EXCEPT ![a] = @ + 1]
             /\ fallbackEmitted' = [fallbackEmitted EXCEPT ![a] = TRUE]
    <3>1. \A b \in Adapters : b # a =>
              calls'[b] = calls[b] /\ fallbackEmitted'[b] = fallbackEmitted[b]
      BY <2>2 DEF DnsTypeOK
    <3>2. a \in Adapters => fallbackEmitted'[a] /\ calls'[a] = calls[a] + 1
      BY <2>2 DEF DnsTypeOK
    <3>3. a \in Adapters => calls[a] = 0
      BY <2>2 DEF MustEmit
    <3> QED
      BY <3>1, <3>2, <3>3
  <2> QED
    BY <1>2, <2>1, <2>2 DEF RecordStrictFailure
<1>3. CASE UNCHANGED <<fallbackEmitted, calls>>
  BY <1>3
<1> QED
  BY <1>1, <1>2, <1>3 DEF DnsNext, ResolveStep, RootGone, RunLookup, Ask, Hit,
     Join, Miss, Told, GiveUp, DoHAnswers, LegacyAnswers, DoHFails,
     DoHTimeout, LegacyFails, HandlerReturns, Finish, Status, Tick,
     CancelRoot, vars

\* makeCacheRoomLocked leaves room for one more entry.
LEMMA RoomIsMade ==
    ASSUME NEW left, IsFiniteSet(left), NEW E \in Room(left)
    PROVE  /\ IsFiniteSet(left \ E)
           /\ Cardinality(left \ E) + 1 <= MaxCacheEntries
<1>1. E \in SUBSET left /\ Cardinality(left) - Cardinality(E) < MaxCacheEntries
  BY DEF Room
<1>2. IsFiniteSet(E) /\ IsFiniteSet(left \ E)
  BY <1>1, FS_Subset
<1>3. /\ left = E \cup (left \ E)
      /\ E \cap (left \ E) = {}
  BY <1>1
<1>4. Cardinality(left) =
          Cardinality(E) + Cardinality(left \ E) - Cardinality({})
  BY <1>2, <1>3, FS_Union
<1>5. /\ Cardinality(left) \in Nat
      /\ Cardinality(E) \in Nat
      /\ Cardinality(left \ E) \in Nat
      /\ Cardinality({}) = 0
  BY <1>2, FS_CardinalityType, FS_EmptySet
<1> QED
  BY <1>1, <1>2, <1>4, <1>5

\* A cache with fewer entries keeps the bound.
LEMMA FewerEntries ==
    ASSUME CacheInv, NEW S \in SUBSET Entries
    PROVE  IsFiniteSet(S) /\ Cardinality(S) <= MaxCacheEntries
<1>1. IsFiniteSet(S) /\ Cardinality(S) <= Cardinality(Entries)
  BY FS_Subset DEF CacheInv
<1>2. Cardinality(S) \in Nat /\ Cardinality(Entries) \in Nat
  BY <1>1, FS_CardinalityType DEF CacheInv
<1> QED
  BY <1>1, <1>2 DEF CacheInv, CacheBounded

\* The cache stays within its bound.
LEMMA CacheStep ==
    DnsTypeOK /\ InflightInv /\ CacheInv /\ [DnsNext]_vars => CacheInv'
<1> SUFFICES ASSUME DnsTypeOK, InflightInv, CacheInv, [DnsNext]_vars
             PROVE  CacheInv'
  OBVIOUS
<1> USE DEF resolverVars
<1>1. ASSUME NEW t, cache' = Unexpired(t) PROVE CacheInv'
  <2>1. Entries' \subseteq Entries
    BY <1>1, UnexpiredCache DEF Entries, DnsTypeOK
  <2> QED
    BY <2>1, FewerEntries DEF CacheInv, CacheBounded
<1>2. CASE UNCHANGED cache
  BY <1>2 DEF CacheInv, CacheBounded, Entries
<1>3. ASSUME NEW k \in Keys, NEW until, Store(k, until) PROVE CacheInv'
  <2> DEFINE left == {j \in Keys : Unexpired(now)[j] # 0}
  <2>1. PICK E \in Room(left) :
           cache' = [j \in Keys |-> IF j = k THEN until
                                    ELSE IF j \in left \ E THEN cache[j]
                                    ELSE 0]
    BY <1>3 DEF Store
  <2>2. left \subseteq Entries
    BY UnexpiredCache DEF DnsTypeOK
  <2>3. IsFiniteSet(left)
    BY <2>2, FewerEntries
  <2>4. Entries' \subseteq (left \ E) \cup {k}
    BY <2>1 DEF Entries
  <2> HIDE DEF left
  <2>5. /\ IsFiniteSet(left \ E)
        /\ Cardinality(left \ E) + 1 <= MaxCacheEntries
    BY <2>1, <2>3, RoomIsMade
  <2>6. /\ IsFiniteSet((left \ E) \cup {k})
        /\ Cardinality((left \ E) \cup {k}) <= MaxCacheEntries
    BY <2>5, FS_AddElement, FS_CardinalityType
  <2>7. IsFiniteSet(Entries') /\ Cardinality(Entries') <= MaxCacheEntries
    BY <2>4, <2>6, FS_Subset, FS_CardinalityType
  <2> QED
    BY <2>7 DEF CacheInv, CacheBounded
<1>4. ASSUME NEW l \in Lookups, Finish(l) PROVE CacheInv'
  <2>1. question[l] \in Keys
    BY <1>4 DEF Finish, InflightInv, Working
  <2> QED
    BY <1>2, <1>3, <1>4, <2>1 DEF Finish
<1> QED
  BY <1>1, <1>2, <1>4 DEF DnsNext, ResolveStep, RootGone, RunLookup, Ask, Hit,
     Join, Miss, Told, GiveUp, DoHAnswers, LegacyAnswers, DoHFails,
     DoHTimeout, LegacyFails, RecordDoHSuccess, RecordStrictFailure,
     HandlerReturns, Status, Tick, CancelRoot, vars

-----------------------------------------------------------------------------

\* The resolver always satisfies its invariant.
THEOREM DnsInvariance == DnsSpec => []DInv
<1>1. DnsInit => DInv
  <2> SUFFICES ASSUME DnsInit PROVE DInv
    OBVIOUS
  <2>1. DnsTypeOK
    BY DEF DnsInit, DnsTypeOK, LookupStates
  <2>2. AskedInv /\ InflightInv /\ EmittedInv
    BY DEF DnsInit, AskedInv, InflightInv, EmittedInv, Working
  <2>3. Entries = {}
    BY DEF DnsInit, Entries
  <2>4. CacheInv
    BY <2>3, FS_EmptySet DEF CacheInv, CacheBounded
  <2> QED
    BY <2>1, <2>2, <2>4 DEF DInv
<1>2. DInv /\ [DnsNext]_vars => DInv'
  BY DnsTypeStep, InflightStep, EmittedStep, CacheStep DEF DInv
<1> QED
  BY <1>1, <1>2, PTL DEF DnsSpec

\* Type correctness of the resolver.
THEOREM DnsTypeCorrect == DnsSpec => []DnsTypeOK
<1>1. DInv => DnsTypeOK
  BY DEF DInv
<1> QED
  BY <1>1, DnsInvariance, PTL

\* "Cache storage is bounded", whatever the clock, the TTLs and the ties are.
THEOREM CacheBoundedAlways == DnsSpec => []CacheBounded
<1>1. DInv => CacheBounded
  BY DEF DInv, CacheInv
<1> QED
  BY <1>1, DnsInvariance, PTL

\* "Concurrent identical misses share one in-flight lookup".
THEOREM OneLookupAlways == DnsSpec => []OneLookup
<1>1. DInv => OneLookup
  BY DEF DInv, InflightInv, OneLookup
<1> QED
  BY <1>1, DnsInvariance, PTL

\* An adapter emits one fallback event between two answers of a provider.
THEOREM OneFallbackAlways == DnsSpec => []OneFallback
<1>1. DInv => OneFallback
  BY DEF DInv, EmittedInv, OneFallback
<1> QED
  BY <1>1, DnsInvariance, PTL

=============================================================================
