--------------------------- MODULE AdapterHealth ---------------------------
(***************************************************************************)
(* The choice of an adapter (engine/internal/proxy: health.go,             *)
(* scheduler.go, dial.go): the health table, the scheduler of one channel  *)
(* and the dials that share them.                                          *)
(*                                                                         *)
(* A dial selects an adapter under the locks of the scheduler and of the   *)
(* table, resolves and connects without a lock, records the outcome, and   *)
(* tries a second adapter if the first has failed.  Dials that began       *)
(* before an outcome was recorded report theirs after it.                  *)
(*                                                                         *)
(* There is one domain; a literal target has none.  Times are kept as the  *)
(* ticks that are left, and an entry with none left is no entry, which is  *)
(* what pruneExpiredDomains makes of it.                                   *)
(***************************************************************************)
EXTENDS Integers, Sequences, FiniteSets, FiniteSetsExt

CONSTANTS
    Order,              \* the adapters of the channel, as configured
    Weight,             \* their weights
    SingleStack,        \* those without an IPv6 address
    Dials,
    Backoff,            \* adapterFailureBackoff, in ticks
    EvidenceTTL,        \* domainEvidenceTTL
    QuarantineTTL       \* domainQuarantineTTL

Threshold == 2

Adapters == {Order[i] : i \in DOMAIN Order}

ASSUME OrderAssumption ==
    /\ Order \in Seq(Adapters) /\ Order # <<>>
    /\ Len(Order) = Cardinality(Adapters)
    /\ SingleStack \subseteq Adapters
    /\ Weight \in [Adapters -> Nat \ {0}]

ASSUME TimesAssumption ==
    /\ Backoff \in Seq(Nat \ {0}) /\ Backoff # <<>>
    /\ {EvidenceTTL, QuarantineTTL} \subseteq Nat \ {0}

\* A hundred years.
Forever == EvidenceTTL + QuarantineTTL + 1

VARIABLES
    isolation,      \* domainIsolation, and domainIsolationExpiry
    weighted,       \* s.weighted
    next,           \* s.next
    currentWeight,  \* s.currentWeight
    fails,          \* consecutiveFailures, as far as Backoff tells it
    cooldown,       \* the ticks until cooldownUntil
    evidence,       \* the evidence against an adapter for the domain
    expires,        \* the ticks until it expires
    pc,             \* where each dial stands
    named,          \* whether its target is the domain
    excluded,       \* the adapters it does not try, or not again
    attempts,       \* how often it may yet try
    chosen,         \* the adapter it tries
    blamed,         \* comparativeFailures
    reached         \* history: whether a dial has reached the domain

tableVars == <<fails, cooldown, evidence, expires>>
schedulerVars == <<next, currentWeight>>
dialVars == <<pc, named, excluded, attempts, chosen, blamed>>
config == <<isolation, weighted>>
healthVars == <<config, tableVars, schedulerVars, dialVars, reached>>

HealthTypeOK ==
    /\ isolation \in {"off", "expiring", "lasting"}
    /\ weighted \in BOOLEAN
    /\ next \in 0..(Len(Order) - 1)
    /\ currentWeight \in [Adapters -> Int]
    /\ fails \in [Adapters -> 0..Len(Backoff)]
    /\ cooldown \in [Adapters -> Nat]
    /\ evidence \in [Adapters -> 0..Threshold]
    /\ expires \in [Adapters -> 0..Forever]
    /\ pc \in [Dials -> {"idle", "select", "trying", "blame"}]
    /\ named \in [Dials -> BOOLEAN]
    /\ excluded \in [Dials -> SUBSET Adapters]
    /\ attempts \in [Dials -> 0..2]
    /\ chosen \in [Dials -> Adapters]
    /\ blamed \in [Dials -> SUBSET Adapters]
    /\ reached \in BOOLEAN

\* Quarantines of an earlier session are seeds.
HealthInit ==
    /\ isolation \in {"off", "expiring", "lasting"}
    /\ weighted \in BOOLEAN
    /\ next = 0
    /\ currentWeight = [a \in Adapters |-> 0]
    /\ fails = [a \in Adapters |-> 0]
    /\ cooldown = [a \in Adapters |-> 0]
    /\ \E seeds \in SUBSET Adapters :
          /\ evidence = [a \in Adapters |-> IF a \in seeds THEN Threshold ELSE 0]
          /\ expires = [a \in Adapters |->
                          IF a \notin seeds THEN 0
                          ELSE IF isolation = "lasting" THEN Forever
                          ELSE QuarantineTTL]
    /\ pc = [d \in Dials |-> "idle"]
    /\ named = [d \in Dials |-> FALSE]
    /\ excluded = [d \in Dials |-> {}]
    /\ attempts = [d \in Dials |-> 0]
    /\ chosen = [d \in Dials |-> Order[1]]
    /\ blamed = [d \in Dials |-> {}]
    /\ reached = FALSE

-----------------------------------------------------------------------------
(* The health table                                                        *)

Cooling(a) == cooldown[a] > 0

\* domainQuarantined
Quarantined(a, byName) ==
    /\ byName /\ isolation # "off"
    /\ evidence[a] >= Threshold /\ expires[a] > 0

\* A list of adapters has the order of the configuration, so that a set of
\* them is enough.
Before(a, b) ==
    \E i, j \in DOMAIN Order : i < j /\ Order[i] = a /\ Order[j] = b

\* A fault: the first one is taken.
FirstCooldown(list) == {a \in list : \A b \in list \ {a} : Before(a, b)}

\* earliestCooldown: the first of those whose cool-down ends first.
EarliestCooldown(list) ==
    {a \in list : \A b \in list \ {a} :
        \/ cooldown[a] < cooldown[b]
        \/ cooldown[a] = cooldown[b] /\ Before(a, b)}

Candidates(skip, byName) ==
    LET all == Adapters \ skip
        recovery == {a \in all : ~Quarantined(a, byName)}
        domainFallback == {a \in all : ~Cooling(a)}
        healthy == recovery \cap domainFallback
    IN IF healthy # {} THEN healthy
       ELSE IF domainFallback # {} THEN domainFallback
       ELSE IF recovery # {} THEN EarliestCooldown(recovery)
       ELSE EarliestCooldown(all)

RecordLocalFailure(a) ==
    /\ fails' = [fails EXCEPT ![a] = IF @ < Len(Backoff) THEN @ + 1 ELSE @]
    /\ cooldown' = [cooldown EXCEPT ![a] = Backoff[fails'[a]]]
    /\ UNCHANGED <<evidence, expires>>

RecordSuccess(a, byName) ==
    /\ fails' = [fails EXCEPT ![a] = 0]
    /\ cooldown' = [cooldown EXCEPT ![a] = 0]
    /\ evidence' = IF byName THEN [evidence EXCEPT ![a] = 0] ELSE evidence
    /\ expires' = IF byName THEN [expires EXCEPT ![a] = 0] ELSE expires

RecordComparativeFailure(a) ==
    /\ \/ isolation = "off" /\ UNCHANGED <<evidence, expires>>
       \/ /\ isolation # "off"
          /\ LET n == IF evidence[a] < Threshold THEN evidence[a] + 1
                                                 ELSE evidence[a]
             IN /\ evidence' = [evidence EXCEPT ![a] = n]
                /\ expires' = [expires EXCEPT ![a] =
                                 IF n < Threshold THEN EvidenceTTL
                                 ELSE IF isolation = "lasting" THEN Forever
                                 ELSE QuarantineTTL]
    /\ UNCHANGED <<fails, cooldown>>

\* Time passes; what has expired is gone.
Tick ==
    /\ \E a \in Adapters : cooldown[a] > 0 \/ expires[a] \in 1..(Forever - 1)
    /\ cooldown' = [a \in Adapters |-> IF cooldown[a] > 0 THEN cooldown[a] - 1
                                                          ELSE 0]
    /\ expires' = [a \in Adapters |->
                     IF expires[a] \in 1..(Forever - 1) THEN expires[a] - 1
                                                        ELSE expires[a]]
    /\ evidence' = [a \in Adapters |-> IF expires'[a] = 0 THEN 0
                                                          ELSE evidence[a]]
    /\ UNCHANGED <<config, fails, schedulerVars, dialVars, reached>>

-----------------------------------------------------------------------------
(* The scheduler                                                           *)

\* As many candidates come before a as the cursor says.
AtCursor(list, a) ==
    Cardinality({b \in list : Before(b, a)}) = next % Cardinality(list)

RoundRobin(list, a) ==
    /\ AtCursor(list, a)
    /\ next' = (next + 1) % Cardinality(list)
    /\ UNCHANGED currentWeight

Raised(list) == [b \in Adapters |-> IF b \in list THEN currentWeight[b] + Weight[b]
                                                  ELSE currentWeight[b]]

\* The loop over a list that adds up what f says of its members, and where it
\* has got after each adapter of the configuration.
Loop(f, list) ==
    LET sum[i \in 0..Len(Order)] ==
          IF i = 0 THEN 0
          ELSE sum[i - 1] + (IF Order[i] \in list THEN f[Order[i]] ELSE 0)
    IN sum

AddUp(f, list) == Loop(f, list)[Len(Order)]

Total(list) == AddUp(Weight, list)

\* A fault: the chosen adapter is lowered by the weights of all adapters.
SelectWeightedAll(list, a) ==
    /\ \A b \in list : Raised(list)[b] <= Raised(list)[a]
    /\ currentWeight' = [Raised(list) EXCEPT ![a] = @ - Total(Adapters)]
    /\ UNCHANGED next

\* Every candidate is raised by its weight, and the first of the highest is
\* chosen and lowered by the sum.
Highest(list, a) ==
    \A b \in list \ {a} :
        \/ Raised(list)[b] < Raised(list)[a]
        \/ Raised(list)[b] = Raised(list)[a] /\ Before(a, b)

SelectWeighted(list, a) ==
    /\ Highest(list, a)
    /\ currentWeight' = [Raised(list) EXCEPT ![a] = @ - Total(list)]
    /\ UNCHANGED next

SelectForDomain(list, a) ==
    IF weighted THEN SelectWeighted(list, a) ELSE RoundRobin(list, a)

-----------------------------------------------------------------------------
(* dialUpstream; createFlow of an association is a literal dial            *)

DialBegin(d) ==
    /\ pc[d] = "idle"
    /\ \E byName \in BOOLEAN, skip \in {{}, SingleStack} :
          /\ byName => skip = {}
          /\ named' = [named EXCEPT ![d] = byName]
          /\ excluded' = [excluded EXCEPT ![d] = skip]
          /\ LET n == Len(Order) - Cardinality(skip)
             IN attempts' = [attempts EXCEPT ![d] = IF n > 2 THEN 2 ELSE n]
    /\ attempts'[d] > 0
    /\ pc' = [pc EXCEPT ![d] = "select"]
    /\ UNCHANGED <<config, tableVars, schedulerVars, chosen, blamed, reached>>

\* What the dial held is gone.
Ended(d) ==
    /\ pc' = [pc EXCEPT ![d] = "idle"]
    /\ named' = [named EXCEPT ![d] = FALSE]
    /\ excluded' = [excluded EXCEPT ![d] = {}]
    /\ attempts' = [attempts EXCEPT ![d] = 0]
    /\ chosen' = [chosen EXCEPT ![d] = Order[1]]
    /\ blamed' = [blamed EXCEPT ![d] = {}]

List(d) == Candidates(excluded[d], named[d])

\* It always finds a candidate ("keep one recovery path available"): a dial
\* that found none would be stuck here.
Select(d) ==
    /\ pc[d] = "select"
    /\ \E a \in List(d) :
          /\ SelectForDomain(List(d), a)
          /\ chosen' = [chosen EXCEPT ![d] = a]
          /\ excluded' = [excluded EXCEPT ![d] = @ \cup {a}]
    /\ attempts' = [attempts EXCEPT ![d] = @ - 1]
    /\ pc' = [pc EXCEPT ![d] = "trying"]
    /\ UNCHANGED <<config, tableVars, named, blamed, reached>>

\* The next attempt, or the end of the dial.
Again(d, blame) ==
    IF attempts[d] = 0
      THEN Ended(d)
      ELSE /\ pc' = [pc EXCEPT ![d] = "select"]
           /\ blamed' = [blamed EXCEPT ![d] = @ \cup blame]
           /\ UNCHANGED <<named, excluded, attempts, chosen>>

\* A fault: an adapter is blamed though no other one has got through.
RemoteFailureBlames(d) ==
    /\ pc[d] = "trying"
    /\ IF named[d] THEN RecordComparativeFailure(chosen[d])
                   ELSE UNCHANGED tableVars
    /\ Again(d, {})
    /\ UNCHANGED <<config, schedulerVars, reached>>

\* The name is not resolved, or the server refuses or does not answer: the
\* adapter may be to blame, if another one gets through.
RemoteFailure(d) ==
    /\ pc[d] = "trying"
    /\ Again(d, IF named[d] THEN {chosen[d]} ELSE {})
    /\ UNCHANGED <<config, tableVars, schedulerVars, reached>>

\* The name has an address that the adapter has no source address for.
NoSourceAddress(d) ==
    /\ pc[d] = "trying" /\ named[d] /\ chosen[d] \in SingleStack
    /\ Again(d, {})
    /\ UNCHANGED <<config, tableVars, schedulerVars, reached>>

\* The socket cannot be bound, or isLocalConnectFailure.
LocalFailure(d) ==
    /\ pc[d] = "trying"
    /\ RecordLocalFailure(chosen[d])
    /\ Again(d, {})
    /\ UNCHANGED <<config, schedulerVars, reached>>

DialSucceeds(d) ==
    /\ pc[d] = "trying"
    /\ RecordSuccess(chosen[d], named[d])
    /\ reached' = (reached \/ named[d])
    /\ IF blamed[d] = {} THEN Ended(d)
         ELSE /\ pc' = [pc EXCEPT ![d] = "blame"]
              /\ UNCHANGED <<named, excluded, attempts, chosen, blamed>>
    /\ UNCHANGED <<config, schedulerVars>>

\* The adapter it failed on is blamed after its success.
Blame(d) ==
    /\ pc[d] = "blame"
    /\ \E a \in blamed[d] :
          /\ RecordComparativeFailure(a)
          /\ IF blamed[d] = {a} THEN Ended(d)
               ELSE /\ blamed' = [blamed EXCEPT ![d] = @ \ {a}]
                    /\ UNCHANGED <<pc, named, excluded, attempts, chosen>>
    /\ UNCHANGED <<config, schedulerVars, reached>>

DialStep(d) ==
    \/ Select(d)
    \/ RemoteFailure(d) \/ NoSourceAddress(d) \/ LocalFailure(d)
    \/ DialSucceeds(d) \/ Blame(d)

HealthNext ==
    \/ Tick
    \/ \E d \in Dials : DialBegin(d) \/ DialStep(d)

HealthSpec == HealthInit /\ [][HealthNext]_healthVars

-----------------------------------------------------------------------------
(* Properties                                                              *)

Rank(a, byName) == (IF Cooling(a) THEN 2 ELSE 0)
                   + (IF Quarantined(a, byName) THEN 1 ELSE 0)

\* The adapter that is tried is as good as any that may be tried: one that
\* cools down only if all do, and then the one that is ready first; one that
\* is quarantined only if all the others are too, or cool down.
PicksBest ==
    [][\A d \in Dials :
        pc[d] = "select" /\ pc'[d] = "trying" =>
            \A a \in Adapters \ excluded[d] :
                \/ Rank(chosen'[d], named[d]) < Rank(a, named[d])
                \/ /\ Rank(chosen'[d], named[d]) = Rank(a, named[d])
                   /\ cooldown[chosen'[d]] <= cooldown[a]]_healthVars

\* A domain is learnt from comparison only: until some dial has reached it,
\* no adapter is blamed, however many have failed.
NoBlameInOutage ==
    ~reached => \A a \in Adapters : evidence[a] \in {0, Threshold}

Heaviest == Max({Weight[a] : a \in Adapters})

\* The weights add up to nothing, and no adapter is ever owed, or has had in
\* advance, more than a turn of the heaviest for each of the others, though
\* cool-downs, quarantines and exclusions change the list from choice to choice.
WeightsBalanced ==
    /\ AddUp(currentWeight, Adapters) = 0
    /\ \A a \in Adapters :
          LET bound == Heaviest * (Len(Order) - 1)
          IN currentWeight[a] \in -bound..bound

=============================================================================
