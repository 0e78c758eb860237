------------------------ MODULE AdapterHealthProofs ------------------------
(***************************************************************************)
(* Proofs about the health table and the dials that share it, for any      *)
(* channel of adapters, any set of dials and any times.                    *)
(*                                                                         *)
(* The table and the dials come first, then the loop that adds up weights  *)
(* and the balance of the scheduler, then the adapter that a dial finds.   *)
(***************************************************************************)
EXTENDS AdapterHealth, Induction

ConfigType ==
    /\ isolation \in {"off", "expiring", "lasting"}
    /\ weighted \in BOOLEAN
    /\ reached \in BOOLEAN

TableType ==
    /\ fails \in [Adapters -> 0..Len(Backoff)]
    /\ cooldown \in [Adapters -> Nat]
    /\ evidence \in [Adapters -> 0..Threshold]
    /\ expires \in [Adapters -> 0..Forever]

PlaceType ==
    /\ pc \in [Dials -> {"idle", "select", "trying", "blame"}]
    /\ excluded \in [Dials -> SUBSET Adapters]
    /\ attempts \in [Dials -> 0..2]
    /\ chosen \in [Dials -> Adapters]
    /\ blamed \in [Dials -> SUBSET Adapters]

NamedType == named \in [Dials -> BOOLEAN]

\* The cursor stays within the channel, although it is kept modulo the length
\* of a list and used with another.
CursorInv == next \in 0..(Len(Order) - 1)

\* A dial that selects may yet try.
AttemptsInv == \A d \in Dials : pc[d] = "select" => attempts[d] > 0

\* Adapters are blamed for the domain only, and after it was reached.
BlameInv ==
    \A d \in Dials : /\ blamed[d] # {} => named[d] /\ pc[d] # "idle"
                     /\ pc[d] = "blame" => reached

AInv ==
    /\ ConfigType /\ TableType /\ PlaceType /\ NamedType
    /\ CursorInv /\ AttemptsInv /\ BlameInv
    /\ NoBlameInOutage

-----------------------------------------------------------------------------
(* The configuration                                                       *)

LEMMA OrderKnown ==
    /\ Len(Order) \in Nat \ {0} /\ DOMAIN Order = 1..Len(Order)
    /\ Order[1] \in Adapters
    /\ SingleStack \subseteq Adapters
<1>1. Order \in Seq(Adapters) /\ Order # <<>> /\ SingleStack \subseteq Adapters
  BY OrderAssumption
<1>2. Len(Order) \in Nat \ {0} /\ DOMAIN Order = 1..Len(Order)
  BY <1>1
<1> QED BY <1>1, <1>2

LEMMA AdaptersFinite ==
    /\ IsFiniteSet(Adapters)
    /\ \A S \in SUBSET Adapters :
          /\ IsFiniteSet(S) /\ Cardinality(S) \in Nat
          /\ Cardinality(S) <= Len(Order)
<1>1. IsFiniteSet(1..Len(Order))
  BY OrderKnown, FS_Interval
<1>2. Adapters = {Order[i] : i \in 1..Len(Order)}
  BY OrderKnown DEF Adapters
<1>3. IsFiniteSet({Order[i] : i \in 1..Len(Order)})
  <2> DEFINE f == [i \in 1..Len(Order) |-> Order[i]]
  <2>1. f \in Surjection(1..Len(Order), {Order[i] : i \in 1..Len(Order)})
    BY DEF Surjection
  <2> QED BY <1>1, <2>1, FS_Surjection
<1>4. IsFiniteSet(Adapters) /\ Len(Order) = Cardinality(Adapters)
  BY <1>2, <1>3, OrderAssumption
<1>5. ASSUME NEW S \in SUBSET Adapters
      PROVE  /\ IsFiniteSet(S) /\ Cardinality(S) \in Nat
             /\ Cardinality(S) <= Len(Order)
  BY <1>4, FS_Subset, FS_CardinalityType
<1> QED BY <1>4, <1>5

LEMMA TimesKnown ==
    /\ Len(Backoff) \in Nat \ {0}
    /\ \A i \in 1..Len(Backoff) : Backoff[i] \in Nat
    /\ Forever \in Nat
    /\ EvidenceTTL \in 0..Forever /\ QuarantineTTL \in 0..Forever
    /\ Forever \in 0..Forever /\ 0 \in 0..Forever
<1>1. Backoff \in Seq(Nat \ {0}) /\ Backoff # <<>>
  BY TimesAssumption
<1>2. Len(Backoff) \in Nat \ {0} /\ \A i \in 1..Len(Backoff) : Backoff[i] \in Nat
  BY <1>1
<1>3. EvidenceTTL \in Nat \ {0} /\ QuarantineTTL \in Nat \ {0}
  BY TimesAssumption
<1> QED BY <1>2, <1>3 DEF Forever

-----------------------------------------------------------------------------
(* The health table                                                        *)

\* What a step may do to the table: nothing is blamed that was not, unless
\* the domain was reached.
TableStep ==
    /\ TableType'
    /\ \A a \in Adapters : reached \/ evidence'[a] \in {0, evidence[a]}

LEMMA TableStays ==
    ASSUME TableType, UNCHANGED tableVars
    PROVE  TableStep
  BY DEF TableStep, TableType, tableVars

LEMMA LocalFailureKeepsTable ==
    ASSUME TableType, NEW a \in Adapters, RecordLocalFailure(a)
    PROVE  TableStep
<1>1. /\ fails' = [fails EXCEPT ![a] = IF @ < Len(Backoff) THEN @ + 1 ELSE @]
      /\ cooldown' = [cooldown EXCEPT ![a] = Backoff[fails'[a]]]
      /\ evidence' = evidence /\ expires' = expires
  BY DEF RecordLocalFailure
<1>2. /\ fails' \in [Adapters -> 0..Len(Backoff)]
      /\ fails'[a] \in 1..Len(Backoff)
  BY <1>1, TimesKnown DEF TableType
<1>3. cooldown' \in [Adapters -> Nat]
  BY <1>1, <1>2, TimesKnown DEF TableType
<1> QED BY <1>1, <1>2, <1>3 DEF TableStep, TableType

LEMMA SuccessKeepsTable ==
    ASSUME TableType, NEW a \in Adapters, NEW byName,
           RecordSuccess(a, byName)
    PROVE  TableStep
<1>1. /\ fails' = [fails EXCEPT ![a] = 0]
      /\ cooldown' = [cooldown EXCEPT ![a] = 0]
      /\ evidence' = [evidence EXCEPT ![a] = 0] \/ evidence' = evidence
      /\ expires' = [expires EXCEPT ![a] = 0] \/ expires' = expires
  BY DEF RecordSuccess
<1>2. fails' \in [Adapters -> 0..Len(Backoff)]
  BY <1>1, TimesKnown DEF TableType
<1>3. cooldown' \in [Adapters -> Nat]
  BY <1>1 DEF TableType
<1>4. expires' \in [Adapters -> 0..Forever]
  <2>1. 0 \in 0..Forever
    BY TimesKnown
  <2> QED BY <1>1, <2>1 DEF TableType
<1>5. /\ evidence' \in [Adapters -> 0..Threshold]
      /\ \A b \in Adapters : evidence'[b] \in {0, evidence[b]}
  <2>1. 0 \in 0..Threshold
    BY DEF Threshold
  <2> QED BY <1>1, <2>1 DEF TableType
<1> QED BY <1>2, <1>3, <1>4, <1>5 DEF TableStep, TableType

LEMMA ComparativeKeepsTable ==
    ASSUME TableType, reached, NEW a \in Adapters, RecordComparativeFailure(a)
    PROVE  TableStep
<1>1. fails' = fails /\ cooldown' = cooldown
  BY DEF RecordComparativeFailure
<1>2. CASE isolation = "off"
  BY <1>1, <1>2 DEF RecordComparativeFailure, TableStep, TableType
<1>3. CASE isolation # "off"
  <2> DEFINE n == IF evidence[a] < Threshold THEN evidence[a] + 1
                                              ELSE evidence[a]
             e == IF n < Threshold THEN EvidenceTTL
                  ELSE IF isolation = "lasting" THEN Forever
                  ELSE QuarantineTTL
  <2>1. /\ evidence' = [evidence EXCEPT ![a] = n]
        /\ expires' = [expires EXCEPT ![a] = e]
    BY <1>3 DEF RecordComparativeFailure
  <2>2. n \in 0..Threshold
    BY DEF TableType, Threshold
  <2>3. e \in 0..Forever
    BY TimesKnown
  <2> HIDE DEF n, e
  <2>4. /\ evidence' \in [Adapters -> 0..Threshold]
        /\ expires' \in [Adapters -> 0..Forever]
    BY <2>1, <2>2, <2>3 DEF TableType
  <2> QED BY <1>1, <2>4 DEF TableStep, TableType
<1> QED BY <1>2, <1>3

LEMMA TickKeepsTable ==
    ASSUME TableType, Tick
    PROVE  TableStep
<1>1. /\ fails' = fails
      /\ cooldown' = [a \in Adapters |-> IF cooldown[a] > 0
                                           THEN cooldown[a] - 1 ELSE 0]
      /\ expires' = [a \in Adapters |->
                       IF expires[a] \in 1..(Forever - 1) THEN expires[a] - 1
                                                          ELSE expires[a]]
      /\ evidence' = [a \in Adapters |-> IF expires'[a] = 0 THEN 0
                                                            ELSE evidence[a]]
  BY DEF Tick
<1>2. cooldown' \in [Adapters -> Nat]
  BY <1>1 DEF TableType
<1>3. expires' \in [Adapters -> 0..Forever]
  BY <1>1, TimesKnown DEF TableType
<1>4. /\ evidence' \in [Adapters -> 0..Threshold]
      /\ \A a \in Adapters : evidence'[a] \in {0, evidence[a]}
  BY <1>1 DEF TableType, Threshold
<1> QED BY <1>1, <1>2, <1>3, <1>4 DEF TableStep, TableType

\* Until the domain is reached nothing is learnt about it.
LEMMA OutageKeeps ==
    ASSUME TableStep, NoBlameInOutage, reached => reached'
    PROVE  NoBlameInOutage'
  BY DEF TableStep, NoBlameInOutage

-----------------------------------------------------------------------------
(* The scheduler                                                           *)

LEMMA CandidatesKnown ==
    ASSUME NEW skip, NEW byName
    PROVE  Candidates(skip, byName) \subseteq Adapters \ skip
  BY DEF Candidates, EarliestCooldown

LEMMA CursorKeeps ==
    ASSUME CursorInv, NEW list \in SUBSET Adapters, NEW a \in list,
           SelectForDomain(list, a)
    PROVE  CursorInv'
<1>1. CASE next' = next
  BY <1>1 DEF CursorInv
<1>2. CASE next' = (next + 1) % Cardinality(list)
  <2>1. Cardinality(list) \in Nat \ {0} /\ Cardinality(list) <= Len(Order)
    BY AdaptersFinite, FS_EmptySet
  <2>2. next \in Nat /\ Len(Order) \in Nat
    BY OrderKnown DEF CursorInv
  <2>3. (next + 1) % Cardinality(list) \in 0..(Cardinality(list) - 1)
    BY <2>1, <2>2
  <2> QED BY <1>2, <2>1, <2>2, <2>3 DEF CursorInv
<1> QED BY <1>1, <1>2 DEF SelectForDomain, SelectWeighted, RoundRobin

-----------------------------------------------------------------------------
(* The dials                                                               *)

DialInv == PlaceType /\ NamedType /\ AttemptsInv /\ BlameInv

LEMMA DialsStay ==
    ASSUME DialInv, UNCHANGED dialVars, reached => reached'
    PROVE  DialInv'
<1>1. NamedType' /\ BlameInv'
  BY DEF DialInv, NamedType, BlameInv, dialVars
<1>2. PlaceType' /\ AttemptsInv'
  BY DEF DialInv, PlaceType, AttemptsInv, dialVars
<1> QED BY <1>1, <1>2 DEF DialInv

\* A dial goes to another place,
DialTo(d, to, n, x, k, c, b) ==
    /\ pc' = [pc EXCEPT ![d] = to]
    /\ named' = [named EXCEPT ![d] = n]
    /\ excluded' = [excluded EXCEPT ![d] = x]
    /\ attempts' = [attempts EXCEPT ![d] = k]
    /\ chosen' = [chosen EXCEPT ![d] = c]
    /\ blamed' = [blamed EXCEPT ![d] = b]

\* with what the place needs.
Fits(to, n, x, k, c, b) ==
    /\ to \in {"idle", "select", "trying", "blame"}
    /\ n \in BOOLEAN
    /\ x \in SUBSET Adapters
    /\ k \in 0..2
    /\ c \in Adapters
    /\ b \in SUBSET Adapters
    /\ to = "select" => k > 0
    /\ b # {} => n /\ to # "idle"
    /\ to = "blame" => reached'

LEMMA DialMoves ==
    ASSUME DialInv, NEW d \in Dials, reached => reached',
           NEW to, NEW n, NEW x, NEW k, NEW c, NEW b,
           DialTo(d, to, n, x, k, c, b), Fits(to, n, x, k, c, b)
    PROVE  DialInv'
<1> USE DEF DialTo, Fits
<1>1. /\ \A e \in Dials \ {d} : /\ pc'[e] = pc[e] /\ named'[e] = named[e]
                                /\ attempts'[e] = attempts[e]
                                /\ blamed'[e] = blamed[e]
      /\ pc'[d] = to /\ named'[d] = n /\ attempts'[d] = k /\ blamed'[d] = b
  BY DEF DialInv, PlaceType, NamedType
<1>2. PlaceType'
  BY DEF DialInv, PlaceType
<1>3. NamedType'
  BY DEF DialInv, NamedType
<1>4. AttemptsInv'
  BY <1>1 DEF DialInv, AttemptsInv
<1>5. BlameInv'
  BY <1>1 DEF DialInv, BlameInv
<1> QED BY <1>2, <1>3, <1>4, <1>5 DEF DialInv

\* What a dial leaves alone is what it was.
LEMMA SameDial ==
    ASSUME DialInv, NEW d \in Dials
    PROVE  /\ named[d] \in BOOLEAN /\ named = [named EXCEPT ![d] = named[d]]
           /\ excluded[d] \in SUBSET Adapters
           /\ excluded = [excluded EXCEPT ![d] = excluded[d]]
           /\ attempts[d] \in 0..2
           /\ attempts = [attempts EXCEPT ![d] = attempts[d]]
           /\ chosen[d] \in Adapters /\ chosen = [chosen EXCEPT ![d] = chosen[d]]
           /\ blamed[d] \in SUBSET Adapters
           /\ blamed = [blamed EXCEPT ![d] = blamed[d]]
           /\ pc = [pc EXCEPT ![d] = pc[d]]
<1>1. named[d] \in BOOLEAN /\ named = [named EXCEPT ![d] = named[d]]
  BY DEF DialInv, NamedType
<1>2. excluded[d] \in SUBSET Adapters /\ blamed[d] \in SUBSET Adapters
  BY DEF DialInv, PlaceType
<1>3. attempts[d] \in 0..2 /\ chosen[d] \in Adapters
  BY DEF DialInv, PlaceType
<1>4. /\ excluded = [excluded EXCEPT ![d] = excluded[d]]
      /\ blamed = [blamed EXCEPT ![d] = blamed[d]]
  BY DEF DialInv, PlaceType
<1>5. /\ attempts = [attempts EXCEPT ![d] = attempts[d]]
      /\ chosen = [chosen EXCEPT ![d] = chosen[d]]
      /\ pc = [pc EXCEPT ![d] = pc[d]]
  BY DEF DialInv, PlaceType
<1> QED BY <1>1, <1>2, <1>3, <1>4, <1>5

LEMMA EndedKeeps ==
    ASSUME DialInv, NEW d \in Dials, reached => reached', Ended(d)
    PROVE  DialInv'
<1>1. DialTo(d, "idle", FALSE, {}, 0, Order[1], {})
  BY DEF Ended, DialTo
<1>2. Fits("idle", FALSE, {}, 0, Order[1], {})
  BY OrderKnown DEF Fits
<1> QED BY <1>1, <1>2, DialMoves

LEMMA AgainKeeps ==
    ASSUME DialInv, NEW d \in Dials, reached => reached',
           NEW blame \in SUBSET Adapters, blame # {} => named[d],
           Again(d, blame)
    PROVE  DialInv'
<1>1. CASE attempts[d] = 0
  BY <1>1, EndedKeeps DEF Again
<1>2. CASE attempts[d] # 0
  <2>1. /\ pc' = [pc EXCEPT ![d] = "select"]
        /\ blamed' = [blamed EXCEPT ![d] = blamed[d] \cup blame]
        /\ named' = named /\ excluded' = excluded
        /\ attempts' = attempts /\ chosen' = chosen
    BY <1>2 DEF Again
  <2>2. DialTo(d, "select", named[d], excluded[d], attempts[d], chosen[d],
               blamed[d] \cup blame)
    BY <2>1, SameDial DEF DialTo
  <2>3. blamed[d] \cup blame # {} => named[d]
    BY DEF DialInv, BlameInv
  <2>4. Fits("select", named[d], excluded[d], attempts[d], chosen[d],
             blamed[d] \cup blame)
    BY <1>2, <2>3, SameDial DEF Fits
  <2> QED BY <2>2, <2>4, DialMoves
<1> QED BY <1>1, <1>2

LEMMA Together ==
    ASSUME AInv, TableStep, DialInv', CursorInv', UNCHANGED config,
           reached' \in BOOLEAN, reached => reached'
    PROVE  AInv'
<1>1. ConfigType'
  BY DEF AInv, ConfigType, config
<1>2. NoBlameInOutage'
  BY OutageKeeps DEF AInv
<1> QED BY <1>1, <1>2 DEF AInv, TableStep, DialInv

LEMMA Parts ==
    ASSUME AInv
    PROVE  /\ DialInv /\ TableType /\ CursorInv
           /\ reached \in BOOLEAN
  BY DEF AInv, DialInv, ConfigType

LEMMA TickKeeps == ASSUME AInv, Tick PROVE AInv'
<1>1. UNCHANGED <<config, next, dialVars, reached>>
  BY DEF Tick, schedulerVars
<1>2. TableStep
  BY TickKeepsTable, Parts
<1>3. DialInv'
  BY <1>1, DialsStay, Parts
<1>4. CursorInv'
  BY <1>1, Parts DEF CursorInv
<1> QED BY <1>1, <1>2, <1>3, <1>4, Together, Parts

LEMMA DialBeginKeeps ==
    ASSUME AInv, NEW d \in Dials, DialBegin(d)
    PROVE  AInv'
<1>1. /\ UNCHANGED <<config, tableVars, next, chosen, blamed, reached>>
      /\ pc' = [pc EXCEPT ![d] = "select"]
      /\ pc[d] = "idle" /\ attempts'[d] > 0
  BY DEF DialBegin, schedulerVars
<1>2. PICK byName \in BOOLEAN, skip \in {{}, SingleStack} :
         /\ byName => skip = {}
         /\ named' = [named EXCEPT ![d] = byName]
         /\ excluded' = [excluded EXCEPT ![d] = skip]
         /\ LET n == Len(Order) - Cardinality(skip)
            IN attempts' = [attempts EXCEPT ![d] = IF n > 2 THEN 2 ELSE n]
  BY DEF DialBegin
<1> DEFINE n == Len(Order) - Cardinality(skip)
           k == IF n > 2 THEN 2 ELSE n
<1>3. k \in Int /\ k <= 2
  <2>1. Cardinality(skip) \in Nat /\ Len(Order) \in Nat
    BY OrderKnown, AdaptersFinite
  <2> QED BY <2>1
<1>4. attempts' = [attempts EXCEPT ![d] = k]
  BY <1>2
<1> HIDE DEF n, k
<1>5. k \in 1..2
  <2>1. attempts'[d] = k
    BY <1>4, Parts DEF DialInv, PlaceType
  <2> QED BY <1>1, <1>3, <2>1
<1>6. DialTo(d, "select", byName, skip, k, chosen[d], blamed[d])
  BY <1>1, <1>2, <1>4, SameDial, Parts DEF DialTo
<1>7. Fits("select", byName, skip, k, chosen[d], blamed[d])
  <2>1. blamed[d] = {} /\ skip \in SUBSET Adapters
    BY <1>1, Parts, OrderKnown DEF DialInv, BlameInv
  <2> QED BY <1>5, <2>1, SameDial, Parts DEF Fits
<1>8. DialInv'
  BY <1>1, <1>6, <1>7, DialMoves, Parts
<1>9. TableStep /\ CursorInv'
  BY <1>1, TableStays, Parts DEF CursorInv
<1> QED BY <1>1, <1>8, <1>9, Together, Parts

LEMMA SelectKeeps ==
    ASSUME AInv, NEW d \in Dials, Select(d)
    PROVE  AInv'
<1>1. /\ pc[d] = "select" /\ pc' = [pc EXCEPT ![d] = "trying"]
      /\ attempts' = [attempts EXCEPT ![d] = attempts[d] - 1]
      /\ UNCHANGED <<config, tableVars, named, blamed, reached>>
  BY DEF Select
<1>2. PICK a \in List(d) :
         /\ SelectForDomain(List(d), a)
         /\ chosen' = [chosen EXCEPT ![d] = a]
         /\ excluded' = [excluded EXCEPT ![d] = excluded[d] \cup {a}]
  BY DEF Select
<1>3. List(d) \in SUBSET Adapters /\ a \in Adapters
  BY <1>2, CandidatesKnown DEF List
<1>4. DialTo(d, "trying", named[d], excluded[d] \cup {a}, attempts[d] - 1, a,
             blamed[d])
  BY <1>1, <1>2, SameDial, Parts DEF DialTo
<1>5. Fits("trying", named[d], excluded[d] \cup {a}, attempts[d] - 1, a,
           blamed[d])
  <2>1. attempts[d] - 1 \in 0..2
    BY <1>1, SameDial, Parts DEF DialInv, AttemptsInv
  <2>2. blamed[d] # {} => named[d]
    BY Parts DEF DialInv, BlameInv
  <2> QED BY <1>3, <2>1, <2>2, SameDial, Parts DEF Fits
<1>6. DialInv'
  BY <1>1, <1>4, <1>5, DialMoves, Parts
<1>7. CursorInv'
  BY <1>2, <1>3, CursorKeeps, Parts
<1>8. TableStep
  BY <1>1, TableStays, Parts
<1> QED BY <1>1, <1>6, <1>7, <1>8, Together, Parts

\* A dial that fails.
LEMMA FailureKeeps ==
    ASSUME AInv, NEW d \in Dials,
           RemoteFailure(d) \/ NoSourceAddress(d) \/ LocalFailure(d)
    PROVE  AInv'
<1>1. UNCHANGED <<config, next, reached>>
  BY DEF RemoteFailure, NoSourceAddress, LocalFailure, schedulerVars
<1>2. TableStep
  BY TableStays, LocalFailureKeepsTable, SameDial, Parts
  DEF RemoteFailure, NoSourceAddress, LocalFailure
<1>3. DialInv'
  <2>1. PICK blame \in SUBSET Adapters :
           (blame # {} => named[d]) /\ Again(d, blame)
    <3>1. {} \in SUBSET Adapters /\ {chosen[d]} \in SUBSET Adapters
      BY SameDial, Parts
    <3> QED BY <3>1 DEF RemoteFailure, NoSourceAddress, LocalFailure
  <2> QED BY <1>1, <2>1, AgainKeeps, Parts
<1>4. CursorInv'
  BY <1>1, Parts DEF CursorInv
<1> QED BY <1>1, <1>2, <1>3, <1>4, Together, Parts

LEMMA DialSucceedsKeeps ==
    ASSUME AInv, NEW d \in Dials, DialSucceeds(d)
    PROVE  AInv'
<1>1. /\ UNCHANGED <<config, next>>
      /\ reached' = (reached \/ named[d])
      /\ RecordSuccess(chosen[d], named[d])
  BY DEF DialSucceeds, schedulerVars
<1>2. /\ reached' \in BOOLEAN
      /\ reached => reached'
      /\ named[d] => reached'
  BY <1>1, SameDial, Parts
<1>3. TableStep
  BY <1>1, SuccessKeepsTable, SameDial, Parts
<1>4. DialInv'
  <2>1. CASE blamed[d] = {}
    BY <1>2, <2>1, EndedKeeps, Parts DEF DialSucceeds
  <2>2. CASE blamed[d] # {}
    <3>1. DialTo(d, "blame", named[d], excluded[d], attempts[d], chosen[d],
                 blamed[d])
      BY <2>2, SameDial, Parts DEF DialSucceeds, DialTo
    <3>2. Fits("blame", named[d], excluded[d], attempts[d], chosen[d],
               blamed[d])
      <4>1. named[d]
        BY <2>2, Parts DEF DialInv, BlameInv
      <4> QED BY <1>2, <4>1, SameDial, Parts DEF Fits
    <3> QED BY <1>2, <3>1, <3>2, DialMoves, Parts
  <2> QED BY <2>1, <2>2
<1>5. CursorInv'
  BY <1>1, Parts DEF CursorInv
<1> QED BY <1>1, <1>2, <1>3, <1>4, <1>5, Together

LEMMA BlameKeeps ==
    ASSUME AInv, NEW d \in Dials, Blame(d)
    PROVE  AInv'
<1>1. UNCHANGED <<config, next, reached>> /\ pc[d] = "blame"
  BY DEF Blame, schedulerVars
<1>2. PICK a \in blamed[d] :
         /\ RecordComparativeFailure(a)
         /\ IF blamed[d] = {a} THEN Ended(d)
              ELSE /\ blamed' = [blamed EXCEPT ![d] = blamed[d] \ {a}]
                   /\ UNCHANGED <<pc, named, excluded, attempts, chosen>>
  BY DEF Blame
<1>3. a \in Adapters /\ reached /\ named[d]
  BY <1>1, <1>2, SameDial, Parts DEF DialInv, BlameInv
<1>4. TableStep
  BY <1>2, <1>3, ComparativeKeepsTable, Parts
<1>5. DialInv'
  <2>1. CASE blamed[d] = {a}
    BY <1>1, <1>2, <2>1, EndedKeeps, Parts
  <2>2. CASE blamed[d] # {a}
    <3>1. DialTo(d, "blame", named[d], excluded[d], attempts[d], chosen[d],
                 blamed[d] \ {a})
      BY <1>1, <1>2, <2>2, SameDial, Parts DEF DialTo
    <3>2. Fits("blame", named[d], excluded[d], attempts[d], chosen[d],
               blamed[d] \ {a})
      BY <1>1, <1>3, SameDial, Parts DEF Fits
    <3> QED BY <1>1, <3>1, <3>2, DialMoves, Parts
  <2> QED BY <2>1, <2>2
<1>6. CursorInv'
  BY <1>1, Parts DEF CursorInv
<1> QED BY <1>1, <1>4, <1>5, <1>6, Together, Parts

-----------------------------------------------------------------------------
(* The theorems                                                            *)

LEMMA HealthInvInit == HealthInit => AInv
<1> SUFFICES ASSUME HealthInit PROVE AInv
  OBVIOUS
<1>1. ConfigType
  BY Zenon DEF HealthInit, ConfigType
<1>2. PICK seeds \in SUBSET Adapters :
         /\ evidence = [a \in Adapters |-> IF a \in seeds THEN Threshold ELSE 0]
         /\ expires = [a \in Adapters |->
                         IF a \notin seeds THEN 0
                         ELSE IF isolation = "lasting" THEN Forever
                         ELSE QuarantineTTL]
  BY DEF HealthInit
<1>3. TableType
  <2>1. fails \in [Adapters -> 0..Len(Backoff)] /\ cooldown \in [Adapters -> Nat]
    BY TimesKnown DEF HealthInit
  <2>2. evidence \in [Adapters -> 0..Threshold]
    BY <1>2 DEF Threshold
  <2>3. expires \in [Adapters -> 0..Forever]
    BY <1>2, TimesKnown
  <2> QED BY <2>1, <2>2, <2>3 DEF TableType
<1>4. PlaceType /\ NamedType
  BY OrderKnown DEF HealthInit, PlaceType, NamedType
<1>5. CursorInv
  BY OrderKnown DEF HealthInit, CursorInv
<1>6. AttemptsInv /\ BlameInv
  BY DEF HealthInit, AttemptsInv, BlameInv
<1>7. NoBlameInOutage
  BY <1>2 DEF NoBlameInOutage
<1> QED BY <1>1, <1>3, <1>4, <1>5, <1>6, <1>7 DEF AInv

LEMMA HealthInvStep == AInv /\ [HealthNext]_healthVars => AInv'
<1> SUFFICES ASSUME AInv, [HealthNext]_healthVars PROVE AInv'
  OBVIOUS
<1>1. CASE UNCHANGED healthVars
  <2>1. UNCHANGED <<config, tableVars, next, dialVars, reached>>
    BY <1>1 DEF healthVars, schedulerVars
  <2>2. TableStep /\ DialInv' /\ CursorInv'
    BY <2>1, TableStays, DialsStay, Parts DEF CursorInv
  <2> QED BY <2>1, <2>2, Together, Parts
<1>2. CASE HealthNext
  BY <1>2, TickKeeps, DialBeginKeeps, SelectKeeps, FailureKeeps,
     DialSucceedsKeeps, BlameKeeps
  DEF HealthNext, DialStep
<1> QED BY <1>1, <1>2

\* The table and the dials keep their types, the cursor stays within the
\* channel, and blame is for a domain that was reached.
THEOREM HealthInvariance == HealthSpec => []AInv
  BY HealthInvInit, HealthInvStep, PTL DEF HealthSpec

\* Until a dial has reached the domain, no failure counts against an adapter.
THEOREM NoBlameInOutageAlways == HealthSpec => []NoBlameInOutage
<1>1. AInv => NoBlameInOutage
  BY DEF AInv
<1> QED BY <1>1, HealthInvariance, PTL

\* Only a selection takes a dial from selecting to trying.
LEMMA TriesWhatItSelects ==
    ASSUME AInv, [HealthNext]_healthVars, NEW d \in Dials,
           pc[d] = "select", pc'[d] = "trying"
    PROVE  chosen'[d] \in Candidates(excluded[d], named[d])
<1> DEFINE Places == {"idle", "select", "trying", "blame"}
<1>0. pc \in [Dials -> Places] /\ chosen \in [Dials -> Adapters]
  BY DEF AInv, PlaceType
<1>1. CASE UNCHANGED pc
  BY <1>1
<1>2. ASSUME NEW e \in Dials, NEW to, to # "trying",
             pc' = [pc EXCEPT ![e] = to]
      PROVE  FALSE
  BY <1>0, <1>2
<1>3. ASSUME NEW e \in Dials, Select(e)
      PROVE  chosen'[d] \in Candidates(excluded[d], named[d])
  <2>1. e = d
    BY <1>0, <1>3 DEF Select
  <2>2. PICK a \in List(d) : chosen' = [chosen EXCEPT ![d] = a]
    BY <1>3, <2>1 DEF Select
  <2> QED BY <1>0, <2>2 DEF List
<1>4. ASSUME NEW e \in Dials, Ended(e) PROVE FALSE
  BY <1>2, <1>4 DEF Ended
<1>5. ASSUME NEW e \in Dials, NEW blame, Again(e, blame) PROVE FALSE
  BY <1>2, <1>4, <1>5 DEF Again
<1>6. ASSUME NEW e \in Dials, DialBegin(e) PROVE FALSE
  BY <1>2, <1>6 DEF DialBegin
<1>7. ASSUME NEW e \in Dials,
             RemoteFailure(e) \/ NoSourceAddress(e) \/ LocalFailure(e)
      PROVE  FALSE
  BY <1>5, <1>7 DEF RemoteFailure, NoSourceAddress, LocalFailure
<1>8. ASSUME NEW e \in Dials, DialSucceeds(e) PROVE FALSE
  BY <1>2, <1>4, <1>8 DEF DialSucceeds
<1>9. ASSUME NEW e \in Dials, Blame(e) PROVE FALSE
  BY <1>1, <1>4, <1>9 DEF Blame
<1>10. Tick \/ UNCHANGED healthVars => UNCHANGED pc
  BY DEF Tick, healthVars, dialVars
<1> QED BY <1>1, <1>3, <1>6, <1>7, <1>8, <1>9, <1>10 DEF HealthNext, DialStep

\* A candidate is as good as any adapter that is not excluded.
LEMMA CandidatesBest ==
    ASSUME TableType, NEW skip, NEW byName,
           NEW a \in Candidates(skip, byName), NEW b \in Adapters \ skip
    PROVE  \/ Rank(a, byName) < Rank(b, byName)
           \/ /\ Rank(a, byName) = Rank(b, byName)
              /\ cooldown[a] <= cooldown[b]
<1> DEFINE all == Adapters \ skip
           recovery == {x \in all : ~Quarantined(x, byName)}
           domainFallback == {x \in all : ~Cooling(x)}
           healthy == recovery \cap domainFallback
<1>0. a \in all /\ cooldown[a] \in Nat /\ cooldown[b] \in Nat
  BY CandidatesKnown DEF TableType
<1>1. \A x \in Adapters :
         /\ Rank(x, byName) = 0 <=> ~Cooling(x) /\ ~Quarantined(x, byName)
         /\ Rank(x, byName) = 1 <=> ~Cooling(x) /\ Quarantined(x, byName)
         /\ Rank(x, byName) = 2 <=> Cooling(x) /\ ~Quarantined(x, byName)
         /\ Rank(x, byName) = 3 <=> Cooling(x) /\ Quarantined(x, byName)
         /\ Rank(x, byName) \in 0..3
  BY DEF Rank
<1>2. /\ ~Cooling(a) => cooldown[a] = 0
      /\ ~Cooling(b) => cooldown[b] = 0
  BY <1>0 DEF Cooling
<1>3. CASE healthy # {}
  <2>1. a \in healthy
    BY <1>3 DEF Candidates
  <2> QED BY <1>0, <1>1, <1>2, <2>1
<1>4. CASE healthy = {} /\ domainFallback # {}
  <2>1. a \in domainFallback
    BY <1>4 DEF Candidates
  <2>2. Rank(a, byName) = 1 /\ Rank(b, byName) # 0
    BY <1>0, <1>1, <1>4, <2>1
  <2> QED BY <1>0, <1>1, <1>2, <2>1, <2>2
<1>5. CASE domainFallback = {} /\ recovery # {}
  <2>1. a \in EarliestCooldown(recovery)
    BY <1>5 DEF Candidates
  <2>2. a \in recovery /\ (b \in recovery => cooldown[a] <= cooldown[b])
    BY <1>0, <2>1 DEF EarliestCooldown
  <2>3. Rank(a, byName) = 2 /\ Rank(b, byName) \in {2, 3}
    BY <1>0, <1>1, <1>5, <2>2
  <2>4. Rank(b, byName) = 2 => b \in recovery
    BY <1>1
  <2> QED BY <2>2, <2>3, <2>4
<1>6. CASE domainFallback = {} /\ recovery = {}
  <2>1. a \in EarliestCooldown(all)
    BY <1>6 DEF Candidates
  <2>2. cooldown[a] <= cooldown[b]
    BY <1>0, <2>1 DEF EarliestCooldown
  <2>3. Rank(a, byName) = 3 /\ Rank(b, byName) = 3
    BY <1>0, <1>1, <1>6
  <2> QED BY <2>2, <2>3
<1> QED BY <1>3, <1>4, <1>5, <1>6

\* A dial tries an adapter that is as good as any it may try, whatever other
\* dials have recorded since it began.
THEOREM PicksBestAlways == HealthSpec => PicksBest
<1> DEFINE Best == \A d \in Dials :
        pc[d] = "select" /\ pc'[d] = "trying" =>
            \A a \in Adapters \ excluded[d] :
                \/ Rank(chosen'[d], named[d]) < Rank(a, named[d])
                \/ /\ Rank(chosen'[d], named[d]) = Rank(a, named[d])
                   /\ cooldown[chosen'[d]] <= cooldown[a]
<1>1. AInv /\ [HealthNext]_healthVars => Best
  BY TriesWhatItSelects, CandidatesBest DEF AInv
<1>2. AInv /\ [HealthNext]_healthVars => [Best]_healthVars
  BY <1>1
<1> HIDE DEF Best
<1>3. HealthSpec => [][Best]_healthVars
  BY <1>2, HealthInvariance, PTL DEF HealthSpec
<1> QED BY <1>3 DEF Best, PicksBest

-----------------------------------------------------------------------------
(* What the loop of selectWeighted adds up                                 *)

\* No adapter is configured twice.
LEMMA OrderInjective ==
    /\ \A i \in 1..Len(Order) : Order[i] \in Adapters
    /\ \A a \in Adapters : \E i \in 1..Len(Order) : Order[i] = a
    /\ \A i, j \in 1..Len(Order) : Order[i] = Order[j] => i = j
<1> DEFINE N == Len(Order)
           f == [i \in 1..N |-> Order[i]]
<1>1. N \in Nat /\ Adapters = {Order[i] : i \in 1..N}
  BY OrderKnown DEF Adapters
<1>2. f \in Surjection(1..N, Adapters)
  BY <1>1 DEF Surjection
<1>3. IsFiniteSet(1..N) /\ Cardinality(1..N) = N
  <2> HIDE DEF N
  <2>1. N \in Int /\ 1 \in Int
    BY <1>1
  <2>2. IsFiniteSet(1..N) /\ Cardinality(1..N) = IF 1 > N THEN 0 ELSE N - 1 + 1
    BY <2>1, FS_Interval
  <2> QED BY <1>1, <2>2
<1>4. f \in Injection(1..N, Adapters)
  <2>1. Cardinality(1..N) = Cardinality(Adapters)
    BY <1>3, OrderAssumption
  <2> HIDE DEF f
  <2> QED BY <1>2, <1>3, <2>1, FS_SurjSameCardinalityImpliesInj
<1>5. \A i, j \in 1..N : f[i] = f[j] => i = j
  BY <1>4 DEF Injection, IsInjective
<1> QED BY <1>1, <1>5

\* What an adapter adds to the sum.
Part(f, list, a) == IF a \in list THEN f[a] ELSE 0

\* The loop, step by step.
LEMMA LoopSteps ==
    ASSUME NEW f \in [Adapters -> Int], NEW list
    PROVE  /\ Loop(f, list)[0] = 0
           /\ \A i \in 0..Len(Order) : Loop(f, list)[i] \in Int
           /\ \A i \in 1..Len(Order) :
                 Loop(f, list)[i] = Loop(f, list)[i - 1]
                                    + Part(f, list, Order[i])
<1> DEFINE N == Len(Order)
           h == [i \in 1..N |-> Part(f, list, Order[i])]
           Step(g) == [i \in 0..N |->
                         IF i = 0 THEN 0
                         ELSE g[i - 1] + Part(f, list, Order[i])]
           l == Loop(f, list)
<1>1. N \in Nat /\ \A i \in 1..N : Part(f, list, Order[i]) \in Int
  BY OrderKnown, OrderInjective DEF Part
<1>2. PICK g \in [0..N -> Int] :
         g[0] = 0 /\ \A i \in 1..N : g[i] = g[i - 1] + h[i]
  <2>1. h \in [1..N -> Int]
    BY <1>1
  <2> HIDE DEF h
  <2> QED BY <1>1, <2>1, LoopExists
<1>3. g = Step(g)
  <2>1. \A i \in 0..N : g[i] = Step(g)[i]
    BY <1>1, <1>2
  <2> QED BY <2>1
<1>4. l = Step(l)
  <2>1. l = CHOOSE x : x = Step(x)
    BY DEF Loop, Part
  <2> HIDE DEF l, Step
  <2> QED BY <1>3, <2>1, Zenon
<1>5. /\ l[0] = 0
      /\ \A i \in 1..N : l[i] = l[i - 1] + Part(f, list, Order[i])
  <2> HIDE DEF l
  <2>1. 0 \in 0..N /\ \A i \in 1..N : i \in 0..N /\ i # 0
    BY <1>1
  <2>2. \A i \in 0..N : l[i] = Step(l)[i]
    BY <1>4
  <2> QED BY <2>1, <2>2
<1>6. \A i \in 0..N : l[i] \in Int
  <2> DEFINE S == {n \in Nat : n <= N => l[n] \in Int}
  <2>1. 0 \in S
    BY <1>5
  <2>2. ASSUME NEW n \in Nat, n \in S PROVE n + 1 \in S
    <3> SUFFICES ASSUME n + 1 <= N PROVE l[n + 1] \in Int
      OBVIOUS
    <3>1. l[n] \in Int /\ n + 1 \in 1..N /\ (n + 1) - 1 = n
      BY <1>1, <2>2
    <3> HIDE DEF l
    <3> QED BY <1>1, <1>5, <3>1
  <2>3. \A n \in Nat : n \in S
    <3> HIDE DEF S
    <3> QED BY <2>1, <2>2, CountingUp
  <2> QED BY <1>1, <2>3
<1> QED BY <1>5, <1>6

LEMMA AddUpType ==
    ASSUME NEW f \in [Adapters -> Int], NEW list
    PROVE  AddUp(f, list) \in Int
<1>1. Len(Order) \in 0..Len(Order)
  BY OrderKnown
<1> QED BY <1>1, LoopSteps DEF AddUp

\* A sum whose parts are the sums of two others' is the sum of the two.
LEMMA AddUpPlus ==
    ASSUME NEW f \in [Adapters -> Int], NEW A,
           NEW g \in [Adapters -> Int], NEW B,
           NEW h \in [Adapters -> Int], NEW C,
           \A a \in Adapters : Part(f, A, a) = Part(g, B, a) + Part(h, C, a)
    PROVE  AddUp(f, A) = AddUp(g, B) + AddUp(h, C)
<1> DEFINE N == Len(Order)
           F == Loop(f, A)
           K == Loop(g, B)
           H == Loop(h, C)
           S == {n \in Nat : n <= N => F[n] = K[n] + H[n]}
<1>1. /\ F[0] = 0 /\ K[0] = 0 /\ H[0] = 0
      /\ \A i \in 0..N : F[i] \in Int /\ K[i] \in Int /\ H[i] \in Int
      /\ \A i \in 1..N : /\ F[i] = F[i - 1] + Part(f, A, Order[i])
                         /\ K[i] = K[i - 1] + Part(g, B, Order[i])
                         /\ H[i] = H[i - 1] + Part(h, C, Order[i])
  BY LoopSteps
<1>2. N \in Nat /\ \A i \in 1..N : Order[i] \in Adapters
  BY OrderKnown, OrderInjective
<1>3. \A a \in Adapters : Part(g, B, a) \in Int /\ Part(h, C, a) \in Int
  BY DEF Part
<1> HIDE DEF F, K, H
<1>4. 0 \in S
  BY <1>1
<1>5. ASSUME NEW n \in Nat, n \in S PROVE n + 1 \in S
  <2> SUFFICES ASSUME n + 1 <= N PROVE F[n + 1] = K[n + 1] + H[n + 1]
    OBVIOUS
  <2>1. /\ n + 1 \in 1..N /\ (n + 1) - 1 = n /\ n \in 0..N
        /\ F[n] = K[n] + H[n]
    BY <1>2, <1>5
  <2> DEFINE x == Part(g, B, Order[n + 1])
             y == Part(h, C, Order[n + 1])
  <2>2. x \in Int /\ y \in Int /\ Part(f, A, Order[n + 1]) = x + y
    BY <1>2, <1>3, <2>1
  <2>3. /\ F[n + 1] = F[n] + (x + y)
        /\ K[n + 1] = K[n] + x /\ H[n + 1] = H[n] + y
    BY <1>1, <2>1, <2>2
  <2>4. K[n] \in Int /\ H[n] \in Int
    BY <1>1, <2>1
  <2> HIDE DEF x, y
  <2> QED BY <2>1, <2>2, <2>3, <2>4
<1>6. \A n \in Nat : n \in S
  <2> HIDE DEF S
  <2> QED BY <1>4, <1>5, CountingUp
<1>7. F[N] = K[N] + H[N]
  BY <1>2, <1>6
<1> QED BY <1>7 DEF AddUp, F, K, H

LEMMA AddUpEmpty ==
    ASSUME NEW f \in [Adapters -> Int]
    PROVE  AddUp(f, {}) = 0
<1> DEFINE sum == AddUp(f, {})
<1>1. \A a \in Adapters : Part(f, {}, a) = Part(f, {}, a) + Part(f, {}, a)
  BY DEF Part
<1>2. sum = sum + sum
  BY <1>1, AddUpPlus
<1>3. sum \in Int
  BY AddUpType
<1>4. sum = 0
  <2> HIDE DEF sum
  <2> QED BY <1>2, <1>3
<1> QED BY <1>4

LEMMA AddUpSame ==
    ASSUME NEW f \in [Adapters -> Int], NEW g \in [Adapters -> Int],
           NEW A, NEW B,
           \A a \in Adapters : Part(f, A, a) = Part(g, B, a)
    PROVE  AddUp(f, A) = AddUp(g, B)
<1>1. \A a \in Adapters : Part(f, A, a) = Part(g, B, a) + Part(g, {}, a)
  BY DEF Part
<1>2. AddUp(f, A) = AddUp(g, B) + AddUp(g, {})
  BY <1>1, AddUpPlus
<1>3. AddUp(g, {}) = 0 /\ AddUp(g, B) \in Int
  BY AddUpEmpty, AddUpType
<1> QED BY <1>2, <1>3

LEMMA AddUpOne ==
    ASSUME NEW f \in [Adapters -> Int], NEW a \in Adapters
    PROVE  AddUp(f, {a}) = f[a]
<1> DEFINE N == Len(Order)
           F == Loop(f, {a})
<1>1. /\ F[0] = 0
      /\ \A i \in 1..N : F[i] = F[i - 1] + Part(f, {a}, Order[i])
  BY LoopSteps
<1>2. PICK p \in 1..N : Order[p] = a /\ \A i \in 1..N : Order[i] = a => i = p
  BY OrderInjective
<1>3. N \in Nat /\ f[a] \in Int
  BY OrderKnown
<1> DEFINE S == {n \in Nat : n <= N => F[n] = IF n < p THEN 0 ELSE f[a]}
<1> HIDE DEF F
<1>4. 0 \in S
  BY <1>1, <1>2
<1>5. ASSUME NEW n \in Nat, n \in S PROVE n + 1 \in S
  <2> SUFFICES ASSUME n + 1 <= N
               PROVE  F[n + 1] = IF n + 1 < p THEN 0 ELSE f[a]
    OBVIOUS
  <2>1. /\ n + 1 \in 1..N /\ (n + 1) - 1 = n
        /\ F[n] = IF n < p THEN 0 ELSE f[a]
    BY <1>3, <1>5
  <2>2. F[n + 1] = F[n] + Part(f, {a}, Order[n + 1])
    BY <1>1, <2>1
  <2>3. Part(f, {a}, Order[n + 1]) = IF n + 1 = p THEN f[a] ELSE 0
    BY <1>2, <2>1 DEF Part
  <2> QED BY <1>2, <1>3, <2>1, <2>2, <2>3
<1>6. \A n \in Nat : n \in S
  <2> HIDE DEF S
  <2> QED BY <1>4, <1>5, CountingUp
<1>7. F[N] = f[a]
  BY <1>2, <1>3, <1>6
<1> QED BY <1>7 DEF AddUp, F

\* The sum over two lists that have no adapter in common.
LEMMA AddUpUnion ==
    ASSUME NEW f \in [Adapters -> Int], NEW A, NEW B, A \cap B = {},
           NEW C, C = A \cup B
    PROVE  AddUp(f, C) = AddUp(f, A) + AddUp(f, B)
<1>1. \A a \in Adapters : Part(f, C, a) = Part(f, A, a) + Part(f, B, a)
  BY DEF Part
<1>2. f \in [Adapters -> Int]
  OBVIOUS
<1> QED BY ONLY <1>1, <1>2, AddUpPlus

\* One more adapter adds what it has.
LEMMA AddUpMore ==
    ASSUME NEW f \in [Adapters -> Int], NEW S, NEW a \in Adapters, a \notin S,
           NEW T, T = S \cup {a}
    PROVE  AddUp(f, T) = AddUp(f, S) + f[a]
<1>1. S \cap {a} = {}
  OBVIOUS
<1>2. AddUp(f, T) = AddUp(f, S) + AddUp(f, {a})
  BY <1>1, AddUpUnion
<1> QED BY <1>2, AddUpOne

\* Parts that are at most B add up to at most B for each.
LEMMA AddUpMost ==
    ASSUME NEW f \in [Adapters -> Int], NEW S \in SUBSET Adapters,
           NEW B \in Int, \A a \in S : f[a] <= B
    PROVE  AddUp(f, S) <= B * Cardinality(S)
<1> DEFINE G == {T \in SUBSET S : AddUp(f, T) <= B * Cardinality(T)}
<1>1. {} \in G
  BY AddUpEmpty, FS_EmptySet
<1>2. ASSUME NEW T \in SUBSET S, NEW a \in S \ T, T \in G
      PROVE  T \cup {a} \in G
  <2>1. AddUp(f, T \cup {a}) = AddUp(f, T) + f[a]
    <3> DEFINE U == T \cup {a}
    <3>1. a \in Adapters /\ a \notin T /\ U = T \cup {a}
      OBVIOUS
    <3>2. AddUp(f, U) = AddUp(f, T) + f[a]
      <4> HIDE DEF U
      <4> QED BY <3>1, AddUpMore
    <3> QED BY <3>2
  <2>2. Cardinality(T \cup {a}) = Cardinality(T) + 1 /\ Cardinality(T) \in Nat
    BY AdaptersFinite, FS_AddElement
  <2>3. AddUp(f, T) \in Int /\ f[a] \in Int /\ f[a] <= B
    BY AddUpType
  <2>4. AddUp(f, T) <= B * Cardinality(T)
    BY <1>2
  <2>5. B * (Cardinality(T) + 1) = B * Cardinality(T) + B
    BY <2>2
  <2>6. B * Cardinality(T) \in Int
    BY <2>2
  <2>7. AddUp(f, T \cup {a}) <= B * Cardinality(T \cup {a})
    BY <2>1, <2>2, <2>3, <2>4, <2>5, <2>6
  <2> QED BY <2>7
<1>3. S \in G
  <2> HIDE DEF G
  <2> QED BY <1>1, <1>2, AdaptersFinite, AddingMembers
<1> QED BY <1>3

\* Weights are positive, so that a longer list adds up to more.
LEMMA WeightsAddUp ==
    ASSUME NEW S
    PROVE  AddUp(Weight, S) \in Nat
<1> DEFINE minus == [a \in Adapters |-> -Weight[a]]
           zero == [a \in Adapters |-> 0]
           T == S \cap Adapters
           p == AddUp(Weight, T)
           q == AddUp(minus, T)
<1>1. Weight \in [Adapters -> Nat \ {0}]
  BY OrderAssumption
<1>2. /\ Weight \in [Adapters -> Int] /\ minus \in [Adapters -> Int]
      /\ zero \in [Adapters -> Int]
  BY <1>1
<1>3. AddUp(zero, T) = p + q
  <2>1. \A a \in Adapters : Part(zero, T, a) = Part(Weight, T, a) + Part(minus, T, a)
    BY <1>1 DEF Part
  <2> HIDE DEF minus, zero, T
  <2> QED BY ONLY <1>2, <2>1, AddUpPlus
<1>4. AddUp(zero, T) = AddUp(zero, {})
  <2>1. \A a \in Adapters : Part(zero, T, a) = Part(zero, {}, a)
    BY DEF Part
  <2> HIDE DEF minus, zero, T
  <2> QED BY ONLY <1>2, <2>1, AddUpSame
<1>5. AddUp(zero, {}) = 0
  BY <1>2, AddUpEmpty
<1>6. q <= 0
  <2>1. \A a \in T : minus[a] <= 0
    BY <1>1
  <2>2. T \in SUBSET Adapters /\ 0 \in Int
    OBVIOUS
  <2>3. AddUp(minus, T) <= 0 * Cardinality(T)
    <3> HIDE DEF minus, T
    <3> QED BY ONLY <1>2, <2>1, <2>2, AddUpMost
  <2>4. Cardinality(T) \in Nat
    BY <2>2, AdaptersFinite
  <2> HIDE DEF minus, T
  <2> QED BY <2>3, <2>4
<1>7. p \in Int /\ q \in Int
  BY <1>2, AddUpType
<1>8. p \in Nat
  <2> HIDE DEF p, q
  <2> QED BY <1>3, <1>4, <1>5, <1>6, <1>7
<1>9. AddUp(Weight, S) = AddUp(Weight, T)
  <2>1. \A a \in Adapters : Part(Weight, S, a) = Part(Weight, T, a)
    BY DEF Part
  <2> HIDE DEF T
  <2> QED BY ONLY <1>2, <2>1, AddUpSame
<1> QED BY <1>8, <1>9

LEMMA HeaviestKnown ==
    Heaviest \in Nat /\ \A a \in Adapters : Weight[a] <= Heaviest
<1> DEFINE S == {Weight[a] : a \in Adapters}
           f == [a \in Adapters |-> Weight[a]]
<1>1. Weight \in [Adapters -> Nat \ {0}]
  BY OrderAssumption
<1>2. S \in SUBSET Int /\ S # {}
  BY <1>1, OrderKnown
<1>3. IsFiniteSet(S)
  <2>1. f \in Surjection(Adapters, S)
    BY DEF Surjection
  <2> HIDE DEF f, S
  <2> QED BY <2>1, AdaptersFinite, FS_Surjection
<1>4. \E x \in S : \A y \in S : x >= y
  <2>1. \E x \in S : \A y \in S : y <= x
    <3> HIDE DEF S
    <3> QED BY <1>2, <1>3, HasLargest
  <2> QED BY <1>2, <2>1
<1>5. Heaviest \in S /\ \A y \in S : Heaviest >= y
  <2>1. Heaviest = CHOOSE x \in S : \A y \in S : x >= y
    BY DEF Heaviest, Max
  <2> HIDE DEF S
  <2> QED BY <1>4, <2>1
<1> QED BY <1>1, <1>2, <1>5

\* Turns that are owed to k of n adapters, at most.
Owed(k) == Heaviest * (k * (Len(Order) - k))

\* The weights add up to nothing, and those of any adapters, together, to no
\* more than the others can have had in advance.
BalanceInv ==
    /\ currentWeight \in [Adapters -> Int]
    /\ AddUp(currentWeight, Adapters) = 0
    /\ \A S \in SUBSET Adapters :
          AddUp(currentWeight, S) <= Owed(Cardinality(S))

\* The step of the argument where a list is weighed against the adapter that
\* is chosen from it: B is the heaviest weight, n the adapters, k those of S,
\* m those of S in the list, s and x what they are owed, w the weights of the
\* list in S, c and v what the chosen one is owed and weighs.
LEMMA Weighed ==
    ASSUME NEW B \in Nat, NEW n \in Nat, NEW k \in Nat, NEW m \in Nat \ {0},
           NEW s \in Int, NEW x \in Int, NEW w \in Int,
           NEW c \in Int, NEW v \in Int,
           s + c <= B * ((k + 1) * (n - (k + 1))),
           s - x <= B * ((k - m) * (n - (k - m))),
           x + w <= (c + v) * m,
           w <= B * m, v <= B
    PROVE  s + w <= B * (k * (n - k))
<1> DEFINE d == n - 2 * k
           f == B * (k * (n - k))
           q == B * (d + m)
<1> SUFFICES ASSUME s + w > f PROVE FALSE
  OBVIOUS
<1>1. f \in Int /\ q \in Int /\ d \in Int /\ B * m \in Int
  OBVIOUS
<1>2. B * ((k + 1) * (n - (k + 1))) = f + B * (d - 1)
  <2>1. (k + 1) * (n - (k + 1)) = k * (n - k) + (d - 1)
    OBVIOUS
  <2> DEFINE y == k * (n - k)
  <2>2. y \in Int
    OBVIOUS
  <2>3. B * (y + (d - 1)) = B * y + B * (d - 1)
    <3> HIDE DEF y, d
    <3> QED BY <1>1, <2>2
  <2> QED BY <2>1, <2>3
<1>3. B * ((k - m) * (n - (k - m))) = f - q * m
  <2>1. (k - m) * (n - (k - m)) = k * (n - k) - m * (d + m)
    OBVIOUS
  <2> DEFINE y == k * (n - k)
             e == d + m
  <2>2. y \in Int /\ e \in Int
    OBVIOUS
  <2>3. B * (y - m * e) = B * y - (B * e) * m
    <3> HIDE DEF y, d, e
    <3> QED BY <1>1, <2>2
  <2> QED BY <2>1, <2>3
<1>4. q = B * (d - 1) + B * m + B
  <2> HIDE DEF d
  <2> QED BY <1>1
<1> DEFINE r == B * (d - 1)
<1>5. r \in Int /\ q * m \in Int
  BY <1>1
<1> HIDE DEF f, q, d, r
<1>6. c + v < q
  <2>1. s + c <= f + r
    BY <1>2 DEF r
  <2>2. q = r + B * m + B
    BY <1>4 DEF r
  <2> QED BY <1>1, <1>5, <2>1, <2>2
<1>7. x + w > q * m
  BY <1>1, <1>3, <1>5
<1>8. (c + v) * m <= q * m
  <2> DEFINE u == c + v
  <2>1. u \in Int /\ u < q
    BY <1>6
  <2> HIDE DEF u
  <2>2. (q - u) * m >= 0
    BY <1>1, <2>1
  <2>3. (q - u) * m = q * m - u * m
    BY <1>1, <2>1
  <2>4. u * m \in Int
    BY <2>1
  <2> QED BY <1>5, <2>2, <2>3, <2>4 DEF u
<1>9. (c + v) * m \in Int
  OBVIOUS
<1> QED BY <1>5, <1>7, <1>8, <1>9

\* What is owed after a choice: the members of the list are raised, and the
\* one that is chosen pays for all.
LEMMA ChoiceAddsUp ==
    ASSUME currentWeight \in [Adapters -> Int],
           NEW list \in SUBSET Adapters, NEW c \in list,
           SelectWeighted(list, c)
    PROVE  /\ currentWeight' \in [Adapters -> Int]
           /\ \A S \in SUBSET Adapters :
                 AddUp(currentWeight', S) =
                     (AddUp(currentWeight, S) + AddUp(Weight, S \cap list))
                     + (IF c \in S THEN -Total(list) ELSE 0)
<1> DEFINE R == Raised(list)
           T == Total(list)
           debt == [a \in Adapters |-> IF a = c THEN -T ELSE 0]
<1>1. /\ Weight \in [Adapters -> Nat \ {0}] /\ Weight \in [Adapters -> Int]
      /\ c \in Adapters
  BY OrderAssumption
<1>2. /\ R \in [Adapters -> Int]
      /\ \A a \in Adapters :
            R[a] = IF a \in list THEN currentWeight[a] + Weight[a]
                                 ELSE currentWeight[a]
  BY <1>1 DEF Raised
<1>3. T \in Int
  BY <1>1, AddUpType DEF Total
<1>4. debt \in [Adapters -> Int] /\ debt[c] = -T
  <2> HIDE DEF T
  <2> QED BY <1>1, <1>3
<1>5. /\ currentWeight' \in [Adapters -> Int]
      /\ \A a \in Adapters : currentWeight'[a] = R[a] + debt[a]
  <2>1. currentWeight' = [R EXCEPT ![c] = @ - T]
    BY DEF SelectWeighted
  <2> HIDE DEF R, T
  <2> QED BY <1>1, <1>2, <1>3, <2>1
<1>6. ASSUME NEW S \in SUBSET Adapters
      PROVE  AddUp(R, S) = AddUp(currentWeight, S) + AddUp(Weight, S \cap list)
  <2> DEFINE X == S \cap list
  <2>1. \A a \in Adapters :
           Part(R, S, a) = Part(currentWeight, S, a) + Part(Weight, X, a)
    <3> HIDE DEF R
    <3> QED BY <1>1, <1>2 DEF Part
  <2>2. currentWeight \in [Adapters -> Int]
    OBVIOUS
  <2>3. AddUp(R, S) = AddUp(currentWeight, S) + AddUp(Weight, X)
    <3> HIDE DEF R, X
    <3> QED BY ONLY <1>1, <1>2, <2>1, <2>2, AddUpPlus
  <2> QED BY <2>3
<1>7. ASSUME NEW S \in SUBSET Adapters
      PROVE  AddUp(currentWeight', S) = AddUp(R, S) + AddUp(debt, S)
  <2>1. \A a \in Adapters :
           Part(currentWeight', S, a) = Part(R, S, a) + Part(debt, S, a)
    <3> HIDE DEF R, debt
    <3> QED BY <1>5 DEF Part
  <2> DEFINE later == currentWeight'
  <2>2. later \in [Adapters -> Int]
    BY <1>5
  <2>3. AddUp(later, S) = AddUp(R, S) + AddUp(debt, S)
    <3>1. \A a \in Adapters : Part(later, S, a) = Part(R, S, a) + Part(debt, S, a)
      BY <2>1
    <3> HIDE DEF R, debt, later
    <3> QED BY ONLY <1>2, <1>4, <2>2, <3>1, AddUpPlus
  <2> QED BY <2>3
<1>8. ASSUME NEW S \in SUBSET Adapters
      PROVE  AddUp(debt, S) = IF c \in S THEN -T ELSE 0
  <2>1. CASE c \in S
    <3>1. \A a \in Adapters : Part(debt, S, a) = Part(debt, {c}, a)
      BY <2>1 DEF Part
    <3>2. AddUp(debt, S) = AddUp(debt, {c})
      <4> HIDE DEF debt
      <4> QED BY ONLY <1>4, <3>1, AddUpSame
    <3>3. AddUp(debt, {c}) = debt[c]
      <4> HIDE DEF debt
      <4> QED BY <1>1, <1>4, AddUpOne
    <3> QED BY <1>4, <2>1, <3>2, <3>3
  <2>2. CASE c \notin S
    <3>1. \A a \in Adapters : Part(debt, S, a) = Part(debt, {}, a)
      BY <2>2 DEF Part
    <3>2. AddUp(debt, S) = AddUp(debt, {})
      <4> HIDE DEF debt
      <4> QED BY ONLY <1>4, <3>1, AddUpSame
    <3>3. AddUp(debt, {}) = 0
      <4> HIDE DEF debt
      <4> QED BY <1>4, AddUpEmpty
    <3> QED BY <2>2, <3>2, <3>3
  <2> QED BY <2>1, <2>2
<1> HIDE DEF R, T, debt
<1>9. ASSUME NEW S \in SUBSET Adapters
      PROVE  AddUp(currentWeight', S) =
                 (AddUp(currentWeight, S) + AddUp(Weight, S \cap list))
                 + (IF c \in S THEN -T ELSE 0)
  BY <1>6, <1>7, <1>8
<1> QED BY <1>5, <1>9 DEF T

\* Those who do not pay are raised no further than what they may be owed.
LEMMA OwedIsKept ==
    ASSUME BalanceInv, NEW list \in SUBSET Adapters, NEW c \in list,
           SelectWeighted(list, c), NEW S \in SUBSET Adapters, c \notin S
    PROVE  AddUp(currentWeight, S) + AddUp(Weight, S \cap list)
               <= Owed(Cardinality(S))
<1> DEFINE B == Heaviest
           n == Len(Order)
           k == Cardinality(S)
           X == S \cap list
           Y == S \ X
           Z == S \cup {c}
           m == Cardinality(X)
           s == AddUp(currentWeight, S)
           x == AddUp(currentWeight, X)
           w == AddUp(Weight, X)
<1>1. /\ Weight \in [Adapters -> Nat \ {0}] /\ Weight \in [Adapters -> Int]
      /\ currentWeight \in [Adapters -> Int] /\ c \in Adapters
  BY OrderAssumption DEF BalanceInv
<1>2. B \in Nat /\ \A a \in Adapters : Weight[a] <= B
  BY HeaviestKnown
<1>3. /\ n \in Nat /\ k \in Nat /\ m \in Nat
      /\ IsFiniteSet(S) /\ IsFiniteSet(X)
  BY OrderKnown, AdaptersFinite
<1>4. s \in Int /\ x \in Int /\ w \in Int
  BY <1>1, AddUpType
<1>5. CASE X = {}
  <2>1. w = 0
    BY <1>1, <1>5, AddUpEmpty
  <2>2. s <= Owed(k)
    BY DEF BalanceInv
  <2> HIDE DEF s, w
  <2>3. s + w <= Owed(k)
    BY <1>4, <2>1, <2>2
  <2> QED BY <2>3 DEF s, w
<1>6. CASE X # {}
  <2>1. m # 0
    BY <1>3, <1>6, FS_EmptySet
  <2>2. s + currentWeight[c] <= B * ((k + 1) * (n - (k + 1)))
    <3>1. Cardinality(Z) = k + 1
      BY <1>3, FS_AddElement
    <3>2. AddUp(currentWeight, Z) = s + currentWeight[c]
      <4>1. Z = S \cup {c}
        OBVIOUS
      <4> HIDE DEF Z
      <4> QED BY <1>1, <4>1, AddUpMore
    <3>3. AddUp(currentWeight, Z) <= Owed(Cardinality(Z))
      BY <1>1 DEF BalanceInv
    <3> QED BY <3>1, <3>2, <3>3 DEF Owed
  <2>3. s - x <= B * ((k - m) * (n - (k - m)))
    <3>1. Cardinality(Y) = k - m
      <4>1. S \cap X = X
        OBVIOUS
      <4>2. Cardinality(S \ X) = Cardinality(S) - Cardinality(S \cap X)
        <5> HIDE DEF X
        <5> QED BY <1>3, FS_Difference
      <4> QED BY <4>1, <4>2
    <3>2. s = AddUp(currentWeight, X) + AddUp(currentWeight, Y)
      <4>1. X \cap Y = {} /\ S = X \cup Y
        OBVIOUS
      <4> HIDE DEF X, Y
      <4> QED BY <1>1, <4>1, AddUpUnion
    <3>3. AddUp(currentWeight, Y) <= Owed(Cardinality(Y))
      BY DEF BalanceInv
    <3>4. AddUp(currentWeight, Y) \in Int
      BY <1>1, AddUpType
    <3> DEFINE y == AddUp(currentWeight, Y)
    <3>5. s - x = y
      <4>1. s = x + y
        BY <3>2
      <4>2. y \in Int
        BY <3>4
      <4> HIDE DEF s, x, y
      <4> QED BY <1>4, <4>1, <4>2
    <3> QED BY <3>1, <3>3, <3>5 DEF Owed
  <2>4. x + w <= (currentWeight[c] + Weight[c]) * m
    <3> DEFINE R == Raised(list)
               top == currentWeight[c] + Weight[c]
    <3>1. /\ R \in [Adapters -> Int]
          /\ \A a \in list : R[a] = currentWeight[a] + Weight[a]
      BY <1>1 DEF Raised
    <3>2. top \in Int /\ \A a \in X : R[a] <= top
      <4>1. \A b \in list \ {c} : R[b] < R[c] \/ R[b] = R[c]
        BY DEF SelectWeighted, Highest
      <4>2. R[c] = top
        BY <3>1
      <4>3. \A a \in X : a \in list \ {c} /\ R[a] \in Int
        BY <3>1
      <4>4. top \in Int
        BY <1>1
      <4> HIDE DEF R, top, X
      <4> QED BY <4>1, <4>2, <4>3, <4>4
    <3>3. AddUp(R, X) <= top * m
      <4>1. X \in SUBSET Adapters
        OBVIOUS
      <4> HIDE DEF R, top, X
      <4> QED BY <3>1, <3>2, <4>1, AddUpMost
    <3>4. AddUp(R, X) = x + w
      <4>1. \A a \in Adapters :
               Part(R, X, a) = Part(currentWeight, X, a) + Part(Weight, X, a)
        <5> HIDE DEF R
        <5> QED BY <1>1, <3>1 DEF Part
      <4> HIDE DEF R, X
      <4> QED BY ONLY <1>1, <3>1, <4>1, AddUpPlus DEF x, w
    <3> QED BY <3>3, <3>4
  <2>5. w <= B * m
    <3>1. X \in SUBSET Adapters /\ B \in Int /\ \A a \in X : Weight[a] <= B
      BY <1>2
    <3> HIDE DEF X, B
    <3> QED BY <1>1, <3>1, AddUpMost
  <2>6. Weight[c] <= B /\ Weight[c] \in Int /\ currentWeight[c] \in Int
    BY <1>1, <1>2
  <2> HIDE DEF B, n, k, m, s, x, w
  <2>7. s + w <= B * (k * (n - k))
    BY <1>2, <1>3, <1>4, <2>1, <2>2, <2>3, <2>4, <2>5, <2>6, Weighed
  <2> QED BY <2>7 DEF B, n, k, m, s, x, w, Owed
<1> QED BY <1>5, <1>6

\* A choice keeps the balance.
LEMMA ChoiceKeepsBalance ==
    ASSUME BalanceInv, NEW list \in SUBSET Adapters, NEW c \in list,
           SelectWeighted(list, c)
    PROVE  BalanceInv'
<1>1. /\ Weight \in [Adapters -> Int]
      /\ currentWeight \in [Adapters -> Int]
  BY OrderAssumption DEF BalanceInv
<1>2. /\ currentWeight' \in [Adapters -> Int]
      /\ \A S \in SUBSET Adapters :
            AddUp(currentWeight', S) =
                (AddUp(currentWeight, S) + AddUp(Weight, S \cap list))
                + (IF c \in S THEN -Total(list) ELSE 0)
  BY <1>1, ChoiceAddsUp
<1>3. Total(list) = AddUp(Weight, list) /\ AddUp(Weight, list) \in Int
  BY <1>1, AddUpType DEF Total
<1>4. AddUp(currentWeight', Adapters) = 0
  <2>1. Adapters \cap list = list /\ c \in Adapters
    OBVIOUS
  <2>2. AddUp(currentWeight', Adapters) = (0 + Total(list)) + (-Total(list))
    BY <1>2, <1>3, <2>1 DEF BalanceInv
  <2> QED BY <1>3, <2>2
<1>5. ASSUME NEW S \in SUBSET Adapters
      PROVE  AddUp(currentWeight', S) <= Owed(Cardinality(S))
  <2> DEFINE s == AddUp(currentWeight, S)
             w == AddUp(Weight, S \cap list)
             rest == AddUp(Weight, list \ S)
  <2>1. s \in Int /\ w \in Int /\ rest \in Nat
    BY <1>1, AddUpType, WeightsAddUp
  <2>2. CASE c \in S
    <3>1. AddUp(currentWeight', S) = (s + w) + (-Total(list))
      BY <1>2, <2>2
    <3>2. Total(list) = w + rest
      <4> DEFINE P == S \cap list
                 Q == list \ S
      <4>1. P \cap Q = {} /\ list = P \cup Q
        OBVIOUS
      <4>2. AddUp(Weight, list) = AddUp(Weight, P) + AddUp(Weight, Q)
        <5> HIDE DEF P, Q
        <5> QED BY <1>1, <4>1, AddUpUnion
      <4> QED BY <1>3, <4>2
    <3>3. s <= Owed(Cardinality(S))
      BY DEF BalanceInv
    <3>4. Owed(Cardinality(S)) \in Int
      <4>1. Cardinality(S) \in Nat /\ Len(Order) \in Nat /\ Heaviest \in Nat
        BY AdaptersFinite, OrderKnown, HeaviestKnown
      <4> QED BY <4>1 DEF Owed
    <3> HIDE DEF s, w, rest
    <3> QED BY <2>1, <3>1, <3>2, <3>3, <3>4
  <2>3. CASE c \notin S
    <3>1. AddUp(currentWeight', S) = (s + w) + 0
      BY <1>2, <2>3
    <3>2. s + w <= Owed(Cardinality(S))
      BY <2>3, OwedIsKept
    <3> HIDE DEF s, w
    <3> QED BY <2>1, <3>1, <3>2
  <2> QED BY <2>2, <2>3
<1> QED BY <1>2, <1>4, <1>5 DEF BalanceInv, Owed, Heaviest

-----------------------------------------------------------------------------
(* The weights are balanced                                                *)

LEMMA OwedKnown ==
    ASSUME NEW S \in SUBSET Adapters
    PROVE  Owed(Cardinality(S)) \in Nat
<1> DEFINE k == Cardinality(S)
           n == Len(Order)
<1>1. k \in Nat /\ n - k \in Nat /\ Heaviest \in Nat
  BY AdaptersFinite, OrderKnown, HeaviestKnown
<1> DEFINE rest == n - k
<1>2. Heaviest * (k * rest) \in Nat
  <2>1. rest \in Nat
    BY <1>1
  <2> HIDE DEF k, rest
  <2>2. k * rest \in Nat
    BY <1>1, <2>1
  <2> QED BY <1>1, <2>2
<1> QED BY <1>2 DEF Owed

LEMMA BalanceInit == HealthInit => BalanceInv
<1> SUFFICES ASSUME HealthInit PROVE BalanceInv
  OBVIOUS
<1>1. currentWeight = [a \in Adapters |-> 0]
  BY DEF HealthInit
<1>2. currentWeight \in [Adapters -> Int]
  BY <1>1
<1>3. ASSUME NEW S \in SUBSET Adapters PROVE AddUp(currentWeight, S) = 0
  <2>1. \A a \in Adapters : Part(currentWeight, S, a) = Part(currentWeight, {}, a)
    BY <1>1 DEF Part
  <2>2. AddUp(currentWeight, S) = AddUp(currentWeight, {})
    BY ONLY <1>2, <2>1, AddUpSame
  <2> QED BY <1>2, <2>2, AddUpEmpty
<1> QED BY <1>2, <1>3, OwedKnown DEF BalanceInv

LEMMA BalanceStep == BalanceInv /\ [HealthNext]_healthVars => BalanceInv'
<1> SUFFICES ASSUME BalanceInv, [HealthNext]_healthVars PROVE BalanceInv'
  OBVIOUS
<1>1. CASE UNCHANGED currentWeight
  BY <1>1 DEF BalanceInv, AddUp, Loop, Owed, Heaviest
<1>2. ASSUME NEW d \in Dials, Select(d) PROVE BalanceInv'
  <2>1. PICK a \in List(d) : SelectForDomain(List(d), a)
    BY <1>2 DEF Select
  <2>2. List(d) \in SUBSET Adapters
    BY CandidatesKnown DEF List
  <2>3. SelectWeighted(List(d), a) \/ UNCHANGED currentWeight
    BY <2>1 DEF SelectForDomain, RoundRobin
  <2> QED BY <1>1, <2>1, <2>2, <2>3, ChoiceKeepsBalance
<1>3. ASSUME NEW d \in Dials,
             DialBegin(d) \/ RemoteFailure(d) \/ NoSourceAddress(d)
                          \/ LocalFailure(d) \/ DialSucceeds(d) \/ Blame(d)
      PROVE  UNCHANGED currentWeight
  BY <1>3 DEF DialBegin, RemoteFailure, NoSourceAddress, LocalFailure,
              DialSucceeds, Blame, schedulerVars
<1>4. Tick \/ UNCHANGED healthVars => UNCHANGED currentWeight
  BY DEF Tick, healthVars, schedulerVars
<1> QED BY <1>1, <1>2, <1>3, <1>4 DEF HealthNext, DialStep

\* Whatever lists the dials choose from, what any adapters are owed together
\* stays within the turns of the others.
THEOREM BalanceInvariance == HealthSpec => []BalanceInv
  BY BalanceInit, BalanceStep, PTL DEF HealthSpec

\* One adapter is owed what the others can have had, and has had what the
\* others can be owed.
LEMMA BalanceBounds == BalanceInv => WeightsBalanced
<1> SUFFICES ASSUME BalanceInv, NEW a \in Adapters
             PROVE  currentWeight[a] \in -(Heaviest * (Len(Order) - 1))
                                          ..(Heaviest * (Len(Order) - 1))
  BY DEF BalanceInv, WeightsBalanced
<1> DEFINE n == Len(Order)
           T == Adapters \ {a}
           bound == Heaviest * (n - 1)
           rest == AddUp(currentWeight, T)
<1>1. currentWeight \in [Adapters -> Int] /\ currentWeight[a] \in Int
  BY DEF BalanceInv
<1>2. n \in Nat /\ n = Cardinality(Adapters) /\ Heaviest \in Nat
  BY OrderKnown, OrderAssumption, HeaviestKnown
<1>3. bound \in Int
  BY <1>2
<1>4. currentWeight[a] <= bound
  <2>1. AddUp(currentWeight, {a}) = currentWeight[a]
    BY <1>1, AddUpOne
  <2>2. Cardinality({a}) = 1
    BY FS_Singleton
  <2>3. AddUp(currentWeight, {a}) <= Owed(Cardinality({a}))
    BY DEF BalanceInv
  <2>4. Owed(1) = bound
    BY <1>2 DEF Owed
  <2> QED BY <2>1, <2>2, <2>3, <2>4
<1>5. rest <= bound
  <2>1. Cardinality(T) = n - 1
    BY <1>2, AdaptersFinite, FS_RemoveElement
  <2>2. Owed(n - 1) = bound
    <3>1. n - (n - 1) = 1 /\ (n - 1) * 1 = n - 1
      BY <1>2
    <3> QED BY <3>1 DEF Owed
  <2>3. AddUp(currentWeight, T) <= Owed(Cardinality(T))
    BY DEF BalanceInv
  <2> QED BY <2>1, <2>2, <2>3
<1>6. rest + currentWeight[a] = 0
  <2>1. a \notin T /\ Adapters = T \cup {a}
    OBVIOUS
  <2>2. AddUp(currentWeight, Adapters) = AddUp(currentWeight, T) + currentWeight[a]
    <3> HIDE DEF T
    <3> QED BY <1>1, <2>1, AddUpMore
  <2> QED BY <2>2 DEF BalanceInv
<1>7. rest \in Int
  BY <1>1, AddUpType
<1>8. -bound <= currentWeight[a]
  <2> HIDE DEF rest, bound
  <2> QED BY <1>1, <1>3, <1>5, <1>6, <1>7
<1> HIDE DEF bound
<1>9. currentWeight[a] \in -bound..bound
  BY <1>1, <1>3, <1>4, <1>8
<1> QED BY <1>9 DEF bound

\* The weights of the scheduler add up to nothing, and what one adapter is
\* owed or has had in advance is bounded by a turn of the heaviest for each of
\* the others.
THEOREM WeightsBalancedAlways == HealthSpec => []WeightsBalanced
  BY BalanceBounds, BalanceInvariance, PTL

\* Every variable keeps its type.
THEOREM HealthTypeCorrect == HealthSpec => []HealthTypeOK
<1>1. AInv /\ BalanceInv => HealthTypeOK
  BY DEF AInv, ConfigType, TableType, PlaceType, NamedType, CursorInv,
         BalanceInv, HealthTypeOK
<1> QED BY <1>1, HealthInvariance, BalanceInvariance, PTL

-----------------------------------------------------------------------------
(* A dial that selects finds exactly one adapter                           *)

\* A dial has no more attempts than adapters it has not excluded.
RoomInv == \A d \in Dials : Cardinality(excluded[d]) + attempts[d] <= Len(Order)

\* The order of the configuration.
Configured == {p \in Adapters \X Adapters : Before(p[1], p[2])}

LEMMA ConfiguredOrder ==
    /\ \A a, b \in Adapters : <<a, b>> \in Configured <=> Before(a, b)
    /\ StrictOrder(Adapters, Configured)
<1>1. \A a, b \in Adapters : <<a, b>> \in Configured <=> Before(a, b)
  BY DEF Configured
<1>2. /\ DOMAIN Order = 1..Len(Order) /\ Len(Order) \in Nat
      /\ \A a \in Adapters : \E i \in 1..Len(Order) : Order[i] = a
      /\ \A i, j \in 1..Len(Order) : Order[i] = Order[j] => i = j
  BY OrderKnown, OrderInjective
<1>3. \A a \in Adapters : ~Before(a, a)
  BY <1>2 DEF Before
<1>4. \A a, b, c \in Adapters : Before(a, b) /\ Before(b, c) => Before(a, c)
  BY <1>2 DEF Before
<1>5. \A a, b \in Adapters : a # b => Before(a, b) \/ Before(b, a)
  BY <1>2 DEF Before
<1> QED BY <1>1, <1>3, <1>4, <1>5 DEF StrictOrder

\* The choice is by a key, the greater first, and among equals by the order.
Ahead(f, a, b) == f[b] < f[a] \/ (f[b] = f[a] /\ Before(a, b))

LEMMA OneIsAhead ==
    ASSUME NEW f \in [Adapters -> Int], NEW list \in SUBSET Adapters, list # {}
    PROVE  \E a \in list :
               /\ \A b \in list \ {a} : Ahead(f, a, b)
               /\ \A c \in list :
                     (\A b \in list \ {c} : Ahead(f, c, b)) => c = a
<1> DEFINE R == {p \in Adapters \X Adapters : Ahead(f, p[1], p[2])}
           n == Cardinality(list)
<1>1. \A a, b \in Adapters : <<a, b>> \in R <=> Ahead(f, a, b)
  OBVIOUS
<1>2. /\ \A a \in Adapters : f[a] \in Int /\ ~Before(a, a)
      /\ \A a, b, c \in Adapters : Before(a, b) /\ Before(b, c) => Before(a, c)
      /\ \A a, b \in Adapters : a # b => Before(a, b) \/ Before(b, a)
  BY ConfiguredOrder DEF StrictOrder
<1>3. StrictOrder(list, R)
  <2> HIDE DEF R
  <2>1. \A x \in list : ~Ahead(f, x, x)
    BY <1>2 DEF Ahead
  <2>2. \A x, y, z \in list : Ahead(f, x, y) /\ Ahead(f, y, z) => Ahead(f, x, z)
    BY <1>2 DEF Ahead
  <2>3. \A x, y \in list : x # y => Ahead(f, x, y) \/ Ahead(f, y, x)
    BY <1>2 DEF Ahead
  <2> QED BY <1>1, <2>1, <2>2, <2>3 DEF StrictOrder
<1>4. IsFiniteSet(list) /\ n \in Nat /\ n # 0
  BY AdaptersFinite, FS_EmptySet
<1>5. 0 \in 0..(n - 1)
  BY <1>4
<1>6. PICK a \in list : Cardinality(Below(list, R, a)) = 0
  <2> HIDE DEF R
  <2> QED BY <1>3, <1>4, <1>5, RanksOnto
<1>7. Below(list, R, a) = {}
  <2>1. IsFiniteSet(Below(list, R, a))
    BY <1>4, FS_Subset DEF Below
  <2> QED BY <1>6, <2>1, FS_EmptySet
<1> HIDE DEF R
<1>8. \A b \in list \ {a} : Ahead(f, a, b)
  BY <1>1, <1>3, <1>7 DEF Below, StrictOrder
<1>9. \A c \in list : (\A b \in list \ {c} : Ahead(f, c, b)) => c = a
  <2> SUFFICES ASSUME NEW c \in list, c # a, Ahead(f, c, a) PROVE FALSE
    OBVIOUS
  <2> QED BY <1>1, <1>7 DEF Below
<1> QED BY <1>8, <1>9

\* A list that is not empty has an adapter whose cool-down ends first.
LEMMA EarliestExists ==
    ASSUME TableType, NEW list \in SUBSET Adapters, list # {}
    PROVE  EarliestCooldown(list) # {}
<1> DEFINE f == [a \in Adapters |-> -cooldown[a]]
<1>1. f \in [Adapters -> Int] /\ \A a \in Adapters : cooldown[a] \in Nat
  BY DEF TableType
<1>2. \A a, b \in Adapters :
         Ahead(f, a, b) <=> \/ cooldown[a] < cooldown[b]
                            \/ cooldown[a] = cooldown[b] /\ Before(a, b)
  BY <1>1 DEF Ahead
<1>3. PICK a \in list : \A b \in list \ {a} : Ahead(f, a, b)
  <2> HIDE DEF f
  <2> QED BY <1>1, OneIsAhead
<1> QED BY <1>2, <1>3 DEF EarliestCooldown

\* While an adapter is left there is a candidate.
LEMMA CandidatesExist ==
    ASSUME TableType, NEW skip \in SUBSET Adapters, skip # Adapters, NEW byName
    PROVE  Candidates(skip, byName) # {}
<1> DEFINE all == Adapters \ skip
           recovery == {a \in all : ~Quarantined(a, byName)}
<1>1. all # {} /\ all \in SUBSET Adapters /\ recovery \in SUBSET Adapters
  OBVIOUS
<1>2. EarliestCooldown(all) # {}
  BY <1>1, EarliestExists
<1>3. recovery # {} => EarliestCooldown(recovery) # {}
  BY <1>1, EarliestExists
<1> QED BY <1>2, <1>3 DEF Candidates

\* The adapter that a scheduler takes from a list.
Takes(list, a) == IF weighted THEN Highest(list, a) ELSE AtCursor(list, a)

LEMMA OneIsTaken ==
    ASSUME CursorInv, currentWeight \in [Adapters -> Int],
           NEW list \in SUBSET Adapters, list # {}
    PROVE  \E a \in list : Takes(list, a) /\ \A b \in list : Takes(list, b) => b = a
<1>1. CASE weighted
  <2> DEFINE f == Raised(list)
  <2>1. f \in [Adapters -> Int]
    BY OrderAssumption DEF Raised
  <2>2. \A a \in list :
           Takes(list, a) <=> \A b \in list \ {a} : Ahead(f, a, b)
    BY <1>1 DEF Takes, Highest, Ahead
  <2> HIDE DEF f
  <2> QED BY <2>1, <2>2, OneIsAhead
<1>2. CASE ~weighted
  <2> DEFINE n == Cardinality(list)
             k == next % n
             R == Configured
  <2>1. IsFiniteSet(list) /\ n \in Nat \ {0} /\ next \in Nat
    BY AdaptersFinite, FS_EmptySet, OrderKnown DEF CursorInv
  <2>2. k \in 0..(n - 1)
    <3> HIDE DEF n
    <3> QED BY <2>1
  <2>3. StrictOrder(list, R)
    BY ConfiguredOrder DEF StrictOrder
  <2>4. \A a \in list : Takes(list, a) <=> Cardinality(Below(list, R, a)) = k
    <3>1. \A a \in list : Below(list, R, a) = {b \in list : Before(b, a)}
      BY ConfiguredOrder DEF Below
    <3> QED BY <1>2, <3>1 DEF Takes, AtCursor
  <2> HIDE DEF k, R
  <2> QED BY <2>1, <2>2, <2>3, <2>4, RanksOnto
<1> QED BY <1>1, <1>2

LEMMA RoomInit == HealthInit => RoomInv
<1> SUFFICES ASSUME HealthInit, NEW d \in Dials
             PROVE  Cardinality(excluded[d]) + attempts[d] <= Len(Order)
  BY DEF RoomInv
<1>1. excluded[d] = {} /\ attempts[d] = 0
  BY DEF HealthInit
<1> QED BY <1>1, FS_EmptySet, OrderKnown

\* The room of the dial that moves; the others keep theirs.
LEMMA RoomMoves ==
    ASSUME DialInv, RoomInv, NEW d \in Dials, NEW x \in SUBSET Adapters, NEW k,
           excluded' = [excluded EXCEPT ![d] = x],
           attempts' = [attempts EXCEPT ![d] = k],
           Cardinality(x) + k <= Len(Order)
    PROVE  RoomInv'
<1>1. /\ excluded'[d] = x /\ attempts'[d] = k
      /\ \A e \in Dials \ {d} : excluded'[e] = excluded[e] /\ attempts'[e] = attempts[e]
  BY DEF DialInv, PlaceType
<1> QED BY <1>1 DEF RoomInv

LEMMA RoomStep == AInv /\ RoomInv /\ [HealthNext]_healthVars => RoomInv'
<1> SUFFICES ASSUME AInv, RoomInv, [HealthNext]_healthVars PROVE RoomInv'
  OBVIOUS
<1>0. DialInv /\ Len(Order) \in Nat
  BY Parts, OrderKnown
<1>1. CASE UNCHANGED <<excluded, attempts>>
  BY <1>1 DEF RoomInv
<1>2. ASSUME NEW d \in Dials, Ended(d) PROVE RoomInv'
  <2>1. Cardinality({}) + 0 <= Len(Order) /\ {} \in SUBSET Adapters
    BY <1>0, FS_EmptySet
  <2> QED BY <1>0, <1>2, <2>1, RoomMoves DEF Ended
<1>3. ASSUME NEW d \in Dials, NEW blame, Again(d, blame) PROVE RoomInv'
  BY <1>1, <1>2, <1>3 DEF Again
<1>4. ASSUME NEW d \in Dials, DialBegin(d) PROVE RoomInv'
  <2>1. PICK skip \in {{}, SingleStack} :
           /\ excluded' = [excluded EXCEPT ![d] = skip]
           /\ LET n == Len(Order) - Cardinality(skip)
              IN attempts' = [attempts EXCEPT ![d] = IF n > 2 THEN 2 ELSE n]
    BY <1>4 DEF DialBegin
  <2> DEFINE c == Cardinality(skip)
             k == IF Len(Order) - c > 2 THEN 2 ELSE Len(Order) - c
  <2>2. skip \in SUBSET Adapters /\ c \in Nat
    BY OrderKnown, AdaptersFinite
  <2>3. c + k <= Len(Order)
    <3> HIDE DEF c
    <3> QED BY <1>0, <2>2
  <2>4. attempts' = [attempts EXCEPT ![d] = k]
    BY <2>1
  <2> HIDE DEF k
  <2> QED BY <1>0, <2>1, <2>2, <2>3, <2>4, RoomMoves
<1>5. ASSUME NEW d \in Dials, Select(d) PROVE RoomInv'
  <2>1. PICK a \in List(d) : excluded' = [excluded EXCEPT ![d] = excluded[d] \cup {a}]
    BY <1>5 DEF Select
  <2>2. attempts' = [attempts EXCEPT ![d] = attempts[d] - 1]
    BY <1>5 DEF Select
  <2>3. /\ excluded[d] \in SUBSET Adapters /\ attempts[d] \in Int
        /\ a \in Adapters \ excluded[d]
    BY <1>0, CandidatesKnown DEF List, DialInv, PlaceType
  <2> DEFINE x == excluded[d] \cup {a}
             k == attempts[d] - 1
  <2>4. /\ Cardinality(x) = Cardinality(excluded[d]) + 1
        /\ Cardinality(excluded[d]) \in Nat
    BY <2>3, AdaptersFinite, FS_AddElement
  <2>5. Cardinality(excluded[d]) + attempts[d] <= Len(Order)
    BY DEF RoomInv
  <2>6. Cardinality(x) + k <= Len(Order) /\ x \in SUBSET Adapters
    BY <1>0, <2>3, <2>4, <2>5
  <2> HIDE DEF x, k
  <2>7. /\ excluded' = [excluded EXCEPT ![d] = x]
        /\ attempts' = [attempts EXCEPT ![d] = k]
    BY <2>1, <2>2 DEF x, k
  <2> QED BY <1>0, <2>6, <2>7, RoomMoves
<1>6. ASSUME NEW d \in Dials,
             RemoteFailure(d) \/ NoSourceAddress(d) \/ LocalFailure(d)
      PROVE  RoomInv'
  BY <1>3, <1>6 DEF RemoteFailure, NoSourceAddress, LocalFailure
<1>7. ASSUME NEW d \in Dials, DialSucceeds(d) \/ Blame(d) PROVE RoomInv'
  BY <1>1, <1>2, <1>7 DEF DialSucceeds, Blame
<1>8. Tick \/ UNCHANGED healthVars => UNCHANGED <<excluded, attempts>>
  BY DEF Tick, healthVars, dialVars
<1> QED BY <1>1, <1>4, <1>5, <1>6, <1>7, <1>8 DEF HealthNext, DialStep

\* One adapter is taken, and no other one can be.
FindsOne ==
    \A d \in Dials : pc[d] = "select" =>
        \E a \in List(d) :
            Takes(List(d), a) /\ \A b \in List(d) : Takes(List(d), b) => b = a

LEMMA RoomFindsOne == AInv /\ BalanceInv /\ RoomInv => FindsOne
<1> SUFFICES ASSUME AInv, BalanceInv, RoomInv, NEW d \in Dials, pc[d] = "select"
             PROVE  \E a \in List(d) :
                        /\ Takes(List(d), a)
                        /\ \A b \in List(d) : Takes(List(d), b) => b = a
  BY DEF FindsOne
<1>1. /\ excluded[d] \in SUBSET Adapters /\ attempts[d] \in 0..2
      /\ attempts[d] > 0
  BY DEF AInv, PlaceType, AttemptsInv
<1>2. excluded[d] # Adapters
  <2>1. Cardinality(excluded[d]) + attempts[d] <= Len(Order)
    BY DEF RoomInv
  <2>2. Cardinality(excluded[d]) \in Nat /\ Len(Order) \in Nat
    BY <1>1, AdaptersFinite, OrderKnown
  <2>3. Cardinality(excluded[d]) # Len(Order)
    BY <1>1, <2>1, <2>2
  <2> QED BY <2>3, OrderAssumption
<1>3. List(d) # {} /\ List(d) \in SUBSET Adapters
  BY <1>1, <1>2, CandidatesExist, CandidatesKnown DEF List, AInv
<1> QED BY <1>3, OneIsTaken DEF AInv, BalanceInv

\* Whatever is cooling down, quarantined or excluded, a dial that may try
\* finds an adapter, and the scheduler leaves no choice which.
THEOREM FindsOneAlways == HealthSpec => []FindsOne
<1>1. HealthSpec => []RoomInv
  BY HealthInvariance, RoomInit, RoomStep, PTL DEF HealthSpec
<1> QED BY <1>1, RoomFindsOne, HealthInvariance, BalanceInvariance, PTL

=============================================================================
