---------------------------- MODULE DnsResolver ----------------------------
(***************************************************************************)
(* The DNS engine of the proxy pool (engine/internal/dns/resolver.go).     *)
(*                                                                         *)
(* Many sessions call Resolve; a miss starts one goroutine, runLookup,     *)
(* which every caller that asks the same question while it runs shares.    *)
(* r.mu protects the cache, the lookups in flight and the failure counts.  *)
(* A step is one critical section of r.mu or one wait.                     *)
(*                                                                         *)
(* A question is an adapter and a domain (the record type is part of the   *)
(* domain here).  Of an answer only its expiry is kept.  The race of the   *)
(* DoH endpoints and the list of traditional servers are each one step     *)
(* with the outcomes that they can have.                                   *)
(***************************************************************************)
EXTENDS Naturals, FiniteSets

CONSTANTS Adapters, Domains, Callers, Lookups, Nobody,
          Policies,             \* the policies considered
          MaxCacheEntries,      \* config.MaxCacheEntries
          FailureThreshold,     \* config.FailureThreshold
          CacheTTL,             \* config.CacheTTL
          MaxTTL,               \* the longest TTL in an answer
          MaxTime               \* the bound of the clock

ASSUME NobodyAssumption == Nobody \notin Lookups

\* "strict" stands for the policies that name one provider.
ASSUME PoliciesAssumption == Policies \subseteq {"auto", "off", "strict"}

\* NormalizeConfig replaces what is not positive by a default.
ASSUME ConfigAssumption ==
    /\ MaxCacheEntries \in Nat \ {0}
    /\ FailureThreshold \in Nat \ {0}
    /\ CacheTTL \in Nat \ {0}
    /\ MaxTTL \in Nat
    /\ MaxTime \in Nat \ {0}

VARIABLES
    policy,             \* config.Policy
    now,                \* the clock
    cache,              \* r.cache: when each entry expires, 0 if there is none
    inflight,           \* r.inflight
    strictFailures,     \* r.strictFailures of each adapter, up to the threshold
    fallbackEmitted,    \* r.fallbackEmitted
    root,               \* whether r.root is cancelled
    lookup,             \* where each runLookup stands
    question,           \* its key
    expiry,             \* its result.ExpiresAt, 0 for nil
    lookupErr,          \* its err
    pc,                 \* where each Resolve stands
    key,                \* its key
    asked,              \* its local variable now
    call,               \* the lookup it waits for
    calls               \* history: fallback events since the last DoH answer

resolverVars == <<cache, inflight, strictFailures, fallbackEmitted>>
lookupVars == <<lookup, question, expiry, lookupErr>>
callerVars == <<pc, key, asked, call>>
vars == <<policy, now, resolverVars, root, lookupVars, callerVars, calls>>

Keys == Adapters \X Domains

LookupStates == {"doh", "answered", "refused", "emit", "legacy", "finish",
                 "done"}

\* The goroutine exists; call.done is closed when it ends.
Working(l) == lookup[l] # "done"

Entries == {k \in Keys : cache[k] # 0}

DnsTypeOK ==
    /\ policy \in Policies
    /\ now \in 1..MaxTime
    /\ cache \in [Keys -> 0..(MaxTime + CacheTTL)]
    /\ inflight \in [Keys -> Lookups \cup {Nobody}]
    /\ strictFailures \in [Adapters -> 0..FailureThreshold]
    /\ fallbackEmitted \in [Adapters -> BOOLEAN]
    /\ root \in {"live", "cancelled"}
    /\ lookup \in [Lookups -> LookupStates]
    /\ question \in [Lookups -> Keys \cup {Nobody}]
    /\ expiry \in [Lookups -> 0..(MaxTime + CacheTTL)]
    /\ lookupErr \in [Lookups -> BOOLEAN]
    /\ pc \in [Callers -> {"idle", "asking", "waiting"}]
    /\ key \in [Callers -> Keys \cup {Nobody}]
    /\ asked \in [Callers -> 0..MaxTime]
    /\ call \in [Callers -> Lookups \cup {Nobody}]
    /\ calls \in [Adapters -> Nat]

DnsInit ==
    /\ policy \in Policies
    /\ now = 1
    /\ cache = [k \in Keys |-> 0]
    /\ inflight = [k \in Keys |-> Nobody]
    /\ strictFailures = [a \in Adapters |-> 0]
    /\ fallbackEmitted = [a \in Adapters |-> FALSE]
    /\ root = "live"
    /\ lookup = [l \in Lookups |-> "done"]
    /\ question = [l \in Lookups |-> Nobody]
    /\ expiry = [l \in Lookups |-> 0]
    /\ lookupErr = [l \in Lookups |-> FALSE]
    /\ pc = [c \in Callers |-> "idle"]
    /\ key = [c \in Callers |-> Nobody]
    /\ asked = [c \in Callers |-> 0]
    /\ call = [c \in Callers |-> Nobody]
    /\ calls = [a \in Adapters |-> 0]

-----------------------------------------------------------------------------
(* Resolve                                                                 *)

\* removeExpiredLocked: what is left of the cache at time t.
Unexpired(t) == [k \in Keys |-> IF cache[k] > t THEN cache[k] ELSE 0]

\* Resolve returns, and its locals are gone.
Return(c) ==
    /\ pc' = [pc EXCEPT ![c] = "idle"]
    /\ key' = [key EXCEPT ![c] = Nobody]
    /\ asked' = [asked EXCEPT ![c] = 0]
    /\ call' = [call EXCEPT ![c] = Nobody]

\* The query is valid, and the clock is read before the lock is taken.
Ask(c, k) ==
    /\ pc[c] = "idle"
    /\ pc' = [pc EXCEPT ![c] = "asking"]
    /\ key' = [key EXCEPT ![c] = k]
    /\ asked' = [asked EXCEPT ![c] = now]
    /\ UNCHANGED <<policy, now, resolverVars, root, lookupVars, call, calls>>

\* A cached answer.
Hit(c) ==
    /\ pc[c] = "asking"
    /\ cache' = Unexpired(asked[c])
    /\ cache'[key[c]] # 0
    /\ Return(c)
    /\ UNCHANGED <<policy, now, inflight, strictFailures, fallbackEmitted, root,
                   lookupVars, calls>>

\* The caller joins the lookup of its question.
Join(c) ==
    /\ pc[c] = "asking"
    /\ cache' = Unexpired(asked[c])
    /\ cache'[key[c]] = 0
    /\ inflight[key[c]] # Nobody
    /\ call' = [call EXCEPT ![c] = inflight[key[c]]]
    /\ pc' = [pc EXCEPT ![c] = "waiting"]
    /\ UNCHANGED <<policy, now, inflight, strictFailures, fallbackEmitted, root,
                   lookupVars, key, asked, calls>>

\* A fault: lookups in flight are not shared.
MissAlways(c, l) ==
    /\ pc[c] = "asking"
    /\ ~Working(l) /\ \A d \in Callers : call[d] # l
    /\ cache' = Unexpired(asked[c])
    /\ cache'[key[c]] = 0
    /\ call' = [call EXCEPT ![c] = l]
    /\ inflight' = [inflight EXCEPT ![key[c]] = l]
    /\ lookup' = [lookup EXCEPT ![l] =
                     IF policy = "off" THEN "legacy" ELSE "doh"]
    /\ question' = [question EXCEPT ![l] = key[c]]
    /\ pc' = [pc EXCEPT ![c] = "waiting"]
    /\ UNCHANGED <<policy, now, strictFailures, fallbackEmitted, root, expiry,
                   lookupErr, key, asked, calls>>

\* The caller starts the lookup of its question.
Miss(c, l) ==
    /\ pc[c] = "asking"
    /\ ~Working(l) /\ \A d \in Callers : call[d] # l
    /\ cache' = Unexpired(asked[c])
    /\ cache'[key[c]] = 0
    /\ inflight[key[c]] = Nobody
    /\ call' = [call EXCEPT ![c] = l]
    /\ inflight' = [inflight EXCEPT ![key[c]] = l]
    /\ lookup' = [lookup EXCEPT ![l] =
                     IF policy = "off" THEN "legacy" ELSE "doh"]
    /\ question' = [question EXCEPT ![l] = key[c]]
    /\ pc' = [pc EXCEPT ![c] = "waiting"]
    /\ UNCHANGED <<policy, now, strictFailures, fallbackEmitted, root, expiry,
                   lookupErr, key, asked, calls>>

\* call.done is closed.
Told(c) ==
    /\ pc[c] = "waiting"
    /\ ~Working(call[c])
    /\ Return(c)
    /\ UNCHANGED <<policy, now, resolverVars, root, lookupVars, calls>>

\* The caller's context ends.
GiveUp(c) ==
    /\ pc[c] = "waiting"
    /\ Return(c)
    /\ UNCHANGED <<policy, now, resolverVars, root, lookupVars, calls>>

\* r.root is done.
RootGone(c) == root = "cancelled" /\ GiveUp(c)

-----------------------------------------------------------------------------
(* runLookup                                                               *)

\* The end of resolveUncached: an error, or an answer with its TTL, which is
\* capped; a TTL of zero leaves ExpiresAt nil.
Failed(l) ==
    /\ lookupErr' = [lookupErr EXCEPT ![l] = TRUE]
    /\ UNCHANGED expiry

Resolved(l, ttl) ==
    LET capped == IF ttl > CacheTTL THEN CacheTTL ELSE ttl
    IN  /\ expiry' = [expiry EXCEPT ![l] = IF capped > 0 THEN now + capped
                                                         ELSE 0]
        /\ UNCHANGED lookupErr

\* Counts at and beyond the threshold are not told apart.
UpTo(n) == IF n > FailureThreshold THEN FailureThreshold ELSE n

\* An endpoint answers first.
DoHAnswers(l, ttl) ==
    /\ lookup[l] = "doh"
    /\ lookup' = [lookup EXCEPT ![l] = "answered"]
    /\ Resolved(l, ttl)
    /\ UNCHANGED <<policy, now, resolverVars, root, question, callerVars,
                   calls>>

\* Every endpoint has refused, before the context ended.
DoHFails(l) ==
    /\ lookup[l] = "doh"
    /\ root = "live"
    /\ lookup' = [lookup EXCEPT ![l] = IF policy = "auto" THEN "legacy"
                                                          ELSE "refused"]
    /\ UNCHANGED <<policy, now, resolverVars, root, question, expiry,
                   lookupErr, callerVars, calls>>

\* QueryTimeout passes, or the root is cancelled.
DoHTimeout(l) ==
    /\ lookup[l] = "doh"
    /\ lookup' = [lookup EXCEPT ![l] = "finish"]
    /\ Failed(l)
    /\ UNCHANGED <<policy, now, resolverVars, root, question, callerVars, calls>>

\* The traditional servers answer, or none does.
LegacyAnswers(l, ttl) ==
    /\ lookup[l] = "legacy"
    /\ lookup' = [lookup EXCEPT ![l] = "finish"]
    /\ Resolved(l, ttl)
    /\ UNCHANGED <<policy, now, resolverVars, root, question, callerVars,
                   calls>>

LegacyFails(l) ==
    /\ lookup[l] = "legacy"
    /\ lookup' = [lookup EXCEPT ![l] = "finish"]
    /\ Failed(l)
    /\ UNCHANGED <<policy, now, resolverVars, root, question, callerVars,
                   calls>>

RecordDoHSuccess(l) ==
    LET a == question[l][1]
    IN  /\ lookup[l] = "answered"
        /\ lookup' = [lookup EXCEPT ![l] = "finish"]
        /\ strictFailures' = [strictFailures EXCEPT ![a] = 0]
        /\ fallbackEmitted' = [fallbackEmitted EXCEPT ![a] = FALSE]
        /\ calls' = [calls EXCEPT ![a] = 0]
        /\ UNCHANGED <<policy, now, cache, inflight, root, question, expiry,
                       lookupErr, callerVars>>

\* A fault: the threshold alone decides.
MustEmitEachTime(a) == strictFailures[a] + 1 >= FailureThreshold

\* The failure reaches the threshold and no event has been emitted.
MustEmit(a) == /\ strictFailures[a] + 1 >= FailureThreshold
               /\ ~fallbackEmitted[a]

RecordStrictFailure(l) ==
    LET a == question[l][1]
    IN  /\ lookup[l] = "refused"
        /\ strictFailures' = [strictFailures EXCEPT ![a] = UpTo(@ + 1)]
        /\ \/ /\ MustEmit(a)
              /\ fallbackEmitted' = [fallbackEmitted EXCEPT ![a] = TRUE]
              /\ calls' = [calls EXCEPT ![a] = @ + 1]
              /\ lookup' = [lookup EXCEPT ![l] = "emit"]
           \/ /\ ~MustEmit(a)
              /\ lookup' = [lookup EXCEPT ![l] = "finish"]
              /\ UNCHANGED <<fallbackEmitted, calls>>
        /\ Failed(l)
        /\ UNCHANGED <<policy, now, cache, inflight, root, question, callerVars>>

\* The handler of the host has written its event.
HandlerReturns(l) ==
    /\ lookup[l] = "emit"
    /\ lookup' = [lookup EXCEPT ![l] = "finish"]
    /\ UNCHANGED <<policy, now, resolverVars, root, question, expiry,
                   lookupErr, callerVars, calls>>

\* A fault: one entry too many is kept.
RoomOffByOne(left) ==
    {E \in SUBSET left :
        /\ Cardinality(left) - Cardinality(E) <= MaxCacheEntries
        /\ \A e \in E, k \in left \ E : cache[e] <= cache[k]
        /\ \A e \in E : Cardinality(left) - Cardinality(E \ {e})
                            > MaxCacheEntries}

\* makeCacheRoomLocked: the entries that may be evicted from those left, the
\* first to expire and no more than needed.  Entries that expire together
\* come in any order.
Room(left) ==
    {E \in SUBSET left :
        /\ Cardinality(left) - Cardinality(E) < MaxCacheEntries
        /\ \A e \in E, k \in left \ E : cache[e] <= cache[k]
        /\ \A e \in E : Cardinality(left) - Cardinality(E \ {e})
                            >= MaxCacheEntries}

Store(k, until) ==
    LET left == {j \in Keys : Unexpired(now)[j] # 0}
    IN  \E E \in Room(left) :
            cache' = [j \in Keys |-> IF j = k THEN until
                                     ELSE IF j \in left \ E THEN cache[j]
                                     ELSE 0]

\* A fault: a lookup that fails returns without closing call.done.
FinishAnswersOnly(l) ==
    /\ lookup[l] = "finish"
    /\ ~lookupErr[l]
    /\ inflight' = [inflight EXCEPT ![question[l]] = Nobody]
    /\ lookup' = [lookup EXCEPT ![l] = "done"]
    /\ question' = [question EXCEPT ![l] = Nobody]
    /\ expiry' = [expiry EXCEPT ![l] = 0]
    /\ UNCHANGED <<policy, now, cache, strictFailures, fallbackEmitted, root,
                   lookupErr, callerVars, calls>>

\* The last critical section of runLookup.
Finish(l) ==
    /\ lookup[l] = "finish"
    /\ \/ /\ ~lookupErr[l] /\ expiry[l] # 0
          /\ Store(question[l], expiry[l])
       \/ /\ lookupErr[l] \/ expiry[l] = 0
          /\ UNCHANGED cache
    /\ inflight' = [inflight EXCEPT ![question[l]] = Nobody]
    /\ lookup' = [lookup EXCEPT ![l] = "done"]
    /\ question' = [question EXCEPT ![l] = Nobody]
    /\ expiry' = [expiry EXCEPT ![l] = 0]
    /\ lookupErr' = [lookupErr EXCEPT ![l] = FALSE]
    /\ UNCHANGED <<policy, now, strictFailures, fallbackEmitted, root,
                   callerVars, calls>>

-----------------------------------------------------------------------------

\* dns.status and telemetry drop what has expired.
Status ==
    /\ cache' = Unexpired(now)
    /\ UNCHANGED <<policy, now, inflight, strictFailures, fallbackEmitted, root,
                   lookupVars, callerVars, calls>>

Tick ==
    /\ now < MaxTime
    /\ now' = now + 1
    /\ UNCHANGED <<policy, resolverVars, root, lookupVars, callerVars, calls>>

\* proxy.Server.Stop cancels the context given to New.
CancelRoot ==
    /\ root = "live"
    /\ root' = "cancelled"
    /\ UNCHANGED <<policy, now, resolverVars, lookupVars, callerVars, calls>>

ResolveStep(c) ==
    \/ Hit(c)
    \/ Join(c)
    \/ \E l \in Lookups : Miss(c, l)
    \/ Told(c)
    \/ RootGone(c)

RunLookup(l) ==
    \/ \E ttl \in 0..MaxTTL : DoHAnswers(l, ttl) \/ LegacyAnswers(l, ttl)
    \/ DoHFails(l)
    \/ DoHTimeout(l)
    \/ LegacyFails(l)
    \/ RecordDoHSuccess(l)
    \/ RecordStrictFailure(l)
    \/ HandlerReturns(l)
    \/ Finish(l)

DnsNext ==
    \/ \E c \in Callers : \/ \E k \in Keys : Ask(c, k)
                          \/ ResolveStep(c)
                          \/ GiveUp(c)
    \/ \E l \in Lookups : RunLookup(l)
    \/ Status
    \/ Tick
    \/ CancelRoot

\* Goroutines go on, and QueryTimeout ends what the network does not.
DnsSpec ==
    /\ DnsInit
    /\ [][DnsNext]_vars
    /\ \A c \in Callers : WF_vars(ResolveStep(c))
    /\ \A l \in Lookups : WF_vars(RunLookup(l))

-----------------------------------------------------------------------------
(* Properties                                                              *)

\* "Cache storage is bounded": room is made before an entry is added, and the
\* question of a lookup is never in the cache already.
CacheBounded == Cardinality(Entries) <= MaxCacheEntries

\* "Concurrent identical misses share one in-flight lookup": a second
\* goroutine never asks what one is asking, not even while the first one is
\* between its answer and its last critical section.
OneLookup ==
    \A l, m \in Lookups :
        Working(l) /\ Working(m) /\ question[l] = question[m] => l = m

\* "The engine emits one event": between two answers of a provider an adapter
\* asks for one restart, however many lookups fail at once.
OneFallback == \A a \in Adapters : calls[a] <= 1

\* A caller returns without a deadline of its own: the lookup it shares ends,
\* tells it, and is not replaced by one that it does not wait for.
ResolveReturns ==
    \A c \in Callers :
        pc[c] = "waiting" ~> pc[c] = "idle"

=============================================================================
