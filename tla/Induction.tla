----------------------------- MODULE Induction -----------------------------
(***************************************************************************)
(* Induction for properties that are sets.                                 *)
(*                                                                         *)
(* What holds of every number, or of every finite set, is the membership   *)
(* in a set that is closed under one more.  Stated in this way, induction  *)
(* follows from the fact that the strict inclusion of finite sets is well  *)
(* founded, and loops over lists, sums and least elements can be reasoned  *)
(* about.                                                                  *)
(***************************************************************************)
EXTENDS Integers, FiniteSets, FiniteSetTheorems, TLAPS

\* A set that has 0 and every successor has every natural number.
LEMMA CountingUp ==
    ASSUME NEW S, 0 \in S, \A n \in Nat : n \in S => n + 1 \in S
    PROVE  \A n \in Nat : n \in S
<1> DEFINE T == {0..n : n \in Nat \ S}
<1> SUFFICES ASSUME T # {} PROVE FALSE
  OBVIOUS
<1>1. IsWellFoundedOn(StrictSubsetOrdering(Nat), FiniteSubsetsOf(Nat))
  BY FS_StrictSubsetOrderingWellFounded
<1>2. T \subseteq FiniteSubsetsOf(Nat)
  <2>1. \A n \in Nat : 0..n \in SUBSET Nat /\ IsFiniteSet(0..n)
    BY FS_Interval
  <2> QED BY <2>1 DEF FiniteSubsetsOf
<1>3. PICK x \in T : \A y \in T : <<y, x>> \notin StrictSubsetOrdering(Nat)
  <2> HIDE DEF T
  <2> QED BY <1>1, <1>2, WFMin
<1>4. PICK n \in Nat \ S : x = 0..n
  BY <1>3
<1>5. n - 1 \in Nat \ S
  <2>1. n # 0
    BY <1>4
  <2>2. n - 1 \in Nat /\ (n - 1) + 1 = n
    BY <1>4, <2>1
  <2> QED BY <1>4, <2>2
<1>6. <<0..(n - 1), x>> \in StrictSubsetOrdering(Nat)
  <2>1. 0..(n - 1) \subseteq 0..n /\ n \in 0..n /\ n \notin 0..(n - 1)
    BY <1>4, <1>5
  <2>2. 0..(n - 1) \in SUBSET Nat /\ 0..n \in SUBSET Nat
    BY <1>4, <1>5
  <2> QED BY <1>4, <2>1, <2>2 DEF StrictSubsetOrdering
<1> QED BY <1>3, <1>5, <1>6

\* A set that has {} and, with a set, the set and one more member, has every
\* finite set.
LEMMA AddingMembers ==
    ASSUME NEW S, IsFiniteSet(S), NEW G, {} \in G,
           \A T \in SUBSET S : \A x \in S \ T : T \in G => T \cup {x} \in G
    PROVE  S \in G
<1> DEFINE B == {T \in SUBSET S : T \notin G}
<1> SUFFICES ASSUME S \notin G PROVE FALSE
  OBVIOUS
<1>1. IsWellFoundedOn(StrictSubsetOrdering(S), SUBSET S)
  BY FS_StrictSubsetOrderingWellFounded, FS_FiniteSubsetsOfFinite
<1>2. B \subseteq SUBSET S /\ B # {}
  OBVIOUS
<1>3. PICK T \in B : \A U \in B : <<U, T>> \notin StrictSubsetOrdering(S)
  <2> HIDE DEF B
  <2> QED BY <1>1, <1>2, WFMin
<1>4. PICK x : x \in T
  BY <1>3
<1>5. T \ {x} \in SUBSET S /\ x \in S \ (T \ {x}) /\ T = (T \ {x}) \cup {x}
  BY <1>3, <1>4
<1>6. T \ {x} \in B
  BY <1>3, <1>5
<1>7. <<T \ {x}, T>> \in StrictSubsetOrdering(S)
  <2>1. T \ {x} \subseteq T /\ T \ {x} # T
    BY <1>4
  <2> QED BY <2>1, <1>3, <1>5 DEF StrictSubsetOrdering
<1> QED BY <1>3, <1>6, <1>7

\* What a loop has added up after each of its steps.
LEMMA LoopExists ==
    ASSUME NEW N \in Nat, NEW h \in [1..N -> Int]
    PROVE  \E g \in [0..N -> Int] :
               /\ g[0] = 0
               /\ \A i \in 1..N : g[i] = g[i - 1] + h[i]
<1> DEFINE Upto(n) == \E g \in [0..n -> Int] :
                          /\ g[0] = 0
                          /\ \A i \in 1..n : g[i] = g[i - 1] + h[i]
           S == {n \in Nat : n <= N => Upto(n)}
<1>1. 0 \in S
  <2> DEFINE z == [i \in 0..0 |-> 0]
  <2>1. /\ z \in [0..0 -> Int] /\ z[0] = 0
        /\ \A i \in 1..0 : z[i] = z[i - 1] + h[i]
    OBVIOUS
  <2> QED BY <2>1
<1>2. ASSUME NEW n \in Nat, n \in S, n + 1 <= N PROVE Upto(n + 1)
  <2>0. n <= N
    BY <1>2
  <2>1. PICK g \in [0..n -> Int] : /\ g[0] = 0
                                   /\ \A i \in 1..n : g[i] = g[i - 1] + h[i]
    BY <1>2, <2>0
  <2> DEFINE v == g[n] + h[n + 1]
             k == [i \in 0..(n + 1) |-> IF i = n + 1 THEN v ELSE g[i]]
  <2>2. v \in Int
    BY <1>2, <2>1
  <2>3. /\ k \in [0..(n + 1) -> Int] /\ k[0] = 0
        /\ k[n + 1] = v /\ \A i \in 0..n : k[i] = g[i]
    <3> HIDE DEF v
    <3> QED BY <2>1, <2>2
  <2>4. \A i \in 1..(n + 1) : k[i] = k[i - 1] + h[i]
    <3> HIDE DEF k
    <3> TAKE i \in 1..(n + 1)
    <3>1. CASE i = n + 1
      BY <3>1, <2>3
    <3>2. CASE i # n + 1
      <4>1. i \in 1..n /\ i \in 0..n /\ i - 1 \in 0..n
        BY <3>2
      <4> QED BY <4>1, <2>1, <2>3
    <3> QED BY <3>1, <3>2
  <2> HIDE DEF k, v
  <2> QED BY <2>3, <2>4
<1>3. ASSUME NEW n \in Nat, n \in S PROVE n + 1 \in S
  <2> HIDE DEF Upto
  <2> QED BY <1>2, <1>3
<1>4. \A n \in Nat : n \in S
  <2> HIDE DEF S
  <2> QED BY <1>1, <1>3, CountingUp
<1>5. Upto(N)
  <2> HIDE DEF Upto
  <2> QED BY <1>4
<1> QED BY <1>5

\* A finite set of numbers that is not empty has a largest and a least one.
LEMMA HasLargest ==
    ASSUME NEW S \in SUBSET Int, IsFiniteSet(S), S # {}
    PROVE  \E x \in S : \A y \in S : y <= x
<1> DEFINE G == {T \in SUBSET S : T # {} => \E x \in T : \A y \in T : y <= x}
<1>1. ASSUME NEW T \in SUBSET S, NEW z \in S \ T, T \in G
      PROVE  T \cup {z} \in G
  <2>1. CASE T = {}
    BY <2>1
  <2>2. CASE T # {}
    <3>1. PICK x \in T : \A y \in T : y <= x
      BY <1>1, <2>2
    <3>2. CASE z <= x
      <4>1. \A y \in T \cup {z} : y <= x
        BY <3>1, <3>2
      <4> QED BY <4>1
    <3>3. CASE ~(z <= x)
      <4>1. \A y \in T \cup {z} : y <= z
        BY <3>1, <3>3
      <4> QED BY <4>1
    <3> QED BY <3>2, <3>3
  <2> QED BY <2>1, <2>2
<1>2. S \in G
  <2>1. {} \in G
    OBVIOUS
  <2> HIDE DEF G
  <2> QED BY <1>1, <2>1, AddingMembers
<1> QED BY <1>2

LEMMA HasLeast ==
    ASSUME NEW S \in SUBSET Int, IsFiniteSet(S), S # {}
    PROVE  \E x \in S : \A y \in S : x <= y
<1> DEFINE G == {T \in SUBSET S : T # {} => \E x \in T : \A y \in T : x <= y}
<1>1. ASSUME NEW T \in SUBSET S, NEW z \in S \ T, T \in G
      PROVE  T \cup {z} \in G
  <2>1. CASE T = {}
    BY <2>1
  <2>2. CASE T # {}
    <3>1. PICK x \in T : \A y \in T : x <= y
      BY <1>1, <2>2
    <3>2. CASE x <= z
      <4>1. \A y \in T \cup {z} : x <= y
        BY <3>1, <3>2
      <4> QED BY <4>1
    <3>3. CASE ~(x <= z)
      <4>1. \A y \in T \cup {z} : z <= y
        BY <3>1, <3>3
      <4> QED BY <4>1
    <3> QED BY <3>2, <3>3
  <2> QED BY <2>1, <2>2
<1>2. S \in G
  <2>1. {} \in G
    OBVIOUS
  <2> HIDE DEF G
  <2> QED BY <1>1, <2>1, AddingMembers
<1> QED BY <1>2

-----------------------------------------------------------------------------
(* Ranks in a strict total order                                           *)

\* The members of T that come before x.
Below(T, R, x) == {y \in T : <<y, x>> \in R}

StrictOrder(T, R) ==
    /\ \A x \in T : <<x, x>> \notin R
    /\ \A x, y, z \in T : <<x, y>> \in R /\ <<y, z>> \in R => <<x, z>> \in R
    /\ \A x, y \in T : x # y => <<x, y>> \in R \/ <<y, x>> \in R

\* What comes before has fewer members before it.
LEMMA RanksRise ==
    ASSUME NEW T, IsFiniteSet(T), NEW R, StrictOrder(T, R)
    PROVE  /\ \A x \in T : Cardinality(Below(T, R, x)) \in 0..(Cardinality(T) - 1)
           /\ \A x, y \in T :
                 <<x, y>> \in R => Cardinality(Below(T, R, x))
                                   < Cardinality(Below(T, R, y))
<1>1. \A S \in SUBSET T : IsFiniteSet(S) /\ Cardinality(S) \in Nat
  BY FS_Subset, FS_CardinalityType
<1>2. ASSUME NEW S \in SUBSET T, NEW U \in SUBSET S, NEW x \in S \ U
      PROVE  Cardinality(U) < Cardinality(S)
  <2>1. /\ Cardinality(U) <= Cardinality(S)
        /\ Cardinality(S) = Cardinality(U) => S = U
    BY <1>1, FS_Subset
  <2>2. Cardinality(S) \in Nat /\ Cardinality(U) \in Nat
    BY <1>1
  <2> QED BY <2>1, <2>2
<1>3. ASSUME NEW x \in T
      PROVE  Cardinality(Below(T, R, x)) \in 0..(Cardinality(T) - 1)
  <2>1. Below(T, R, x) \in SUBSET T /\ x \notin Below(T, R, x)
    BY DEF Below, StrictOrder
  <2>2. Cardinality(Below(T, R, x)) < Cardinality(T)
    BY <1>2, <2>1
  <2> QED BY <1>1, <2>1, <2>2
<1>4. ASSUME NEW x \in T, NEW y \in T, <<x, y>> \in R
      PROVE  Cardinality(Below(T, R, x)) < Cardinality(Below(T, R, y))
  <2>1. /\ Below(T, R, y) \in SUBSET T
        /\ Below(T, R, x) \in SUBSET Below(T, R, y)
        /\ x \in Below(T, R, y) \ Below(T, R, x)
    BY <1>4 DEF Below, StrictOrder
  <2> QED BY <1>2, <2>1
<1> QED BY <1>3, <1>4

\* Every rank is the rank of one member.
LEMMA RanksOnto ==
    ASSUME NEW T, IsFiniteSet(T), NEW R, StrictOrder(T, R),
           NEW k \in 0..(Cardinality(T) - 1)
    PROVE  \E x \in T :
               /\ Cardinality(Below(T, R, x)) = k
               /\ \A y \in T : Cardinality(Below(T, R, y)) = k => y = x
<1> DEFINE f == [x \in T |-> Cardinality(Below(T, R, x))]
           K == 0..(Cardinality(T) - 1)
<1>1. f \in [T -> K]
  BY RanksRise
<1>2. \A x, y \in T : f[x] = f[y] => x = y
  <2> SUFFICES ASSUME NEW x \in T, NEW y \in T, f[x] = f[y], x # y PROVE FALSE
    OBVIOUS
  <2>1. <<x, y>> \in R => f[x] < f[y]
    BY RanksRise
  <2>2. <<y, x>> \in R => f[y] < f[x]
    BY RanksRise
  <2>3. f[x] \in Int /\ f[y] \in Int
    BY <1>1
  <2>4. <<x, y>> \in R \/ <<y, x>> \in R
    BY DEF StrictOrder
  <2> HIDE DEF f
  <2> QED BY <2>1, <2>2, <2>3, <2>4
<1>3. f \in Injection(T, K)
  BY <1>1, <1>2 DEF Injection, IsInjective
<1>4. IsFiniteSet(K) /\ Cardinality(T) = Cardinality(K)
  <2> DEFINE n == Cardinality(T)
  <2>1. n \in Nat
    BY FS_CardinalityType
  <2> HIDE DEF n
  <2>2. 0 \in Int /\ n - 1 \in Int
    BY <2>1
  <2>3. /\ IsFiniteSet(0..(n - 1))
        /\ Cardinality(0..(n - 1)) = IF 0 > n - 1 THEN 0 ELSE (n - 1) - 0 + 1
    BY <2>2, FS_Interval
  <2>4. IsFiniteSet(0..(n - 1)) /\ Cardinality(0..(n - 1)) = n
    BY <2>1, <2>3
  <2> QED BY <2>4 DEF n
<1>5. f \in Surjection(T, K)
  <2> HIDE DEF f, K
  <2> QED BY <1>3, <1>4, FS_Injection
<1>6. PICK x \in T : f[x] = k
  BY <1>5 DEF Surjection
<1> QED BY <1>2, <1>6

=============================================================================
