-------------------------- MODULE AgentPlanningProofs --------------------------
(***************************************************************************)
(* What plans and reviews promise for any agents, capabilities, requested  *)
(* dependencies and proposals.                                             *)
(*                                                                         *)
(* The order of a team is computed by a recursive function on its subsets. *)
(* That there is such a function, and that what it computes is an order    *)
(* (Sound: also of a team it cannot finish), are shown by induction on the *)
(* size of the subset; the induction is over a set of numbers that has 0   *)
(* and with every number the next (NextOfAll), which rests on every set of *)
(* numbers having a least one (LeastExists).  An order as long as its team *)
(* has everybody in it.  One that is shorter leaves agents that all wait   *)
(* for each other: the chain that stands for no requested dependencies has *)
(* no such agents, so the client asked for the ring that it is refused for.*)
(*                                                                         *)
(* A review is about one answer only: without conflicts a target is        *)
(* deleted once and nothing else, or created and modified at most once     *)
(* each, so that whichever change comes last, the file is there or not.    *)
(***************************************************************************)
EXTENDS AgentPlanning, FiniteSetTheorems, FunctionTheorems, SequenceTheorems, TLAPS

USE PlanningAssumption

-----------------------------------------------------------------------------
(* Least elements and induction over sets of numbers *)

\* A set of numbers has a least one: the intervals that end in its members are finite
\* sets, of which one includes no other.
LEMMA LeastExists ==
  ASSUME NEW S, S \subseteq Nat, S # {}
  PROVE  \E x \in S : \A y \in S : x <= y
<1> DEFINE T == {0..n : n \in S}
<1>1. \A n \in Nat : IsFiniteSet(0..n)
  BY FS_Interval
<1>2. T \subseteq FiniteSubsetsOf(Nat) /\ T # {}
  <2>1. \A n \in Nat : 0..n \in SUBSET Nat
    OBVIOUS
  <2>2. \A n \in S : 0..n \in FiniteSubsetsOf(Nat)
    BY <1>1, <2>1, Zenon DEF FiniteSubsetsOf
  <2> QED  BY <2>2
<1>3. \E x \in T : \A y \in T : <<y, x>> \notin StrictSubsetOrdering(Nat)
  <2> HIDE DEF T
  <2> QED  BY <1>2, FS_StrictSubsetOrderingWellFounded, WFMin
<1>4. PICK x \in S : \A y \in S : <<0..y, 0..x>> \notin StrictSubsetOrdering(Nat)
  BY <1>3
<1>5. ASSUME NEW y \in S, ~(x <= y) PROVE FALSE
  <2>1. x \in Nat /\ y \in Nat /\ y < x
    BY <1>5
  <2>2. 0..y \subseteq 0..x /\ 0..y \in SUBSET Nat /\ 0..x \in SUBSET Nat
    BY <2>1
  <2>3. x \in 0..x /\ x \notin 0..y
    BY <2>1
  <2>4. <<0..y, 0..x>> \in StrictSubsetOrdering(Nat)
    BY <2>2, <2>3 DEF StrictSubsetOrdering
  <2> QED  BY <1>4, <2>4
<1> QED  BY <1>5

LEMMA LeastIs ==
  ASSUME NEW S, S \subseteq Nat, S # {}
  PROVE  Least(S) \in S /\ \A y \in S : Least(S) <= y
BY LeastExists DEF Least

\* What holds of 0 and of every next number holds of all.
LEMMA NextOfAll ==
  ASSUME NEW S \in SUBSET Nat, 0 \in S, \A n \in S : n + 1 \in S
  PROVE  S = Nat
<1> SUFFICES ASSUME S # Nat PROVE FALSE
  OBVIOUS
<1>1. Nat \ S \subseteq Nat /\ Nat \ S # {}
  OBVIOUS
<1>2. PICK x \in Nat \ S : \A y \in Nat \ S : x <= y
  BY <1>1, LeastExists
<1>3. x - 1 \in Nat /\ x - 1 \notin S
  BY <1>2
<1> QED  BY <1>2, <1>3

-----------------------------------------------------------------------------
(* Kahn's algorithm *)

Ready(rest, deps) == {a \in rest : deps[a] \cap rest = {}}
Step(order, rest, deps) ==
  IF Ready(rest, deps) = {} THEN <<>>
  ELSE <<Least(Ready(rest, deps))>> \o order[rest \ {Least(Ready(rest, deps))}]

\* The function computes on every subset from its values on the smaller ones.
Computes(f, dom, deps) == f = [rest \in dom |-> Step(f, rest, deps)]
UpTo(team, n) == {S \in SUBSET team : Cardinality(S) <= n}

LEMMA SmallerRest ==
  ASSUME NEW team, IsFiniteSet(team), team \subseteq Nat, NEW n \in Nat,
         NEW rest \in UpTo(team, n + 1), NEW deps, Ready(rest, deps) # {}
  PROVE  /\ Least(Ready(rest, deps)) \in Ready(rest, deps)
         /\ Least(Ready(rest, deps)) \in rest
         /\ rest \ {Least(Ready(rest, deps))} \in UpTo(team, n)
<1>1. rest \subseteq team /\ Ready(rest, deps) \subseteq rest
  BY DEF UpTo, Ready
<1>2. Least(Ready(rest, deps)) \in Ready(rest, deps)
  <2> HIDE DEF Ready
  <2> QED  BY <1>1, LeastIs
<1>3. IsFiniteSet(rest) /\ Cardinality(rest) \in Nat
  BY <1>1, FS_Subset, FS_CardinalityType
<1> DEFINE a == Least(Ready(rest, deps))
<1>4. a \in rest
  BY <1>1, <1>2
<1> HIDE DEF a
<1>5. Cardinality(rest \ {a}) = Cardinality(rest) - 1
  BY <1>3, <1>4, FS_RemoveElement
<1>6. rest \ {a} \in UpTo(team, n)
  <2>1. Cardinality(rest) <= n + 1
    BY DEF UpTo
  <2>2. rest \ {a} \in SUBSET team
    BY <1>1
  <2> DEFINE c == Cardinality(rest)
             d == Cardinality(rest \ {a})
  <2>3. c \in Nat /\ d = c - 1 /\ c <= n + 1
    BY <1>3, <1>5, <2>1
  <2> HIDE DEF c, d
  <2>4. d <= n
    BY <2>3
  <2> QED  BY <2>2, <2>4 DEF UpTo, d
<1> QED  BY <1>2, <1>4, <1>6 DEF a

\* There is such a function: one for the sets of n + 1 elements is computed from one for
\* those of n.
LEMMA ComputedByAll ==
  ASSUME NEW team, IsFiniteSet(team), team \subseteq Nat, NEW deps
  PROVE  \E f : Computes(f, SUBSET team, deps)
<1> DEFINE Good == {n \in Nat : \E f : Computes(f, UpTo(team, n), deps)}
<1>1. \A S \in SUBSET team : IsFiniteSet(S) /\ Cardinality(S) \in Nat
  BY FS_Subset, FS_CardinalityType
<1>2. 0 \in Good
  <2> DEFINE f == [rest \in UpTo(team, 0) |-> <<>>]
  <2>1. ASSUME NEW rest \in UpTo(team, 0) PROVE Step(f, rest, deps) = <<>>
    <3>1. rest = {}
      BY <1>1, FS_EmptySet DEF UpTo
    <3> QED  BY <3>1 DEF Step, Ready
  <2>2. Computes(f, UpTo(team, 0), deps)
    BY <2>1 DEF Computes
  <2> QED  BY <2>2
<1>3. ASSUME NEW n \in Good PROVE n + 1 \in Good
  <2>1. PICK f : Computes(f, UpTo(team, n), deps)
    OBVIOUS
  <2> DEFINE g == [rest \in UpTo(team, n + 1) |-> Step(f, rest, deps)]
  <2>2. UpTo(team, n) \subseteq UpTo(team, n + 1)
    BY <1>1 DEF UpTo
  <2>3. \A rest \in UpTo(team, n) : g[rest] = f[rest]
    BY <2>1, <2>2 DEF Computes
  <2>4. ASSUME NEW rest \in UpTo(team, n + 1) PROVE Step(f, rest, deps) = Step(g, rest, deps)
    <3>1. CASE Ready(rest, deps) = {}
      BY <3>1 DEF Step
    <3>2. CASE Ready(rest, deps) # {}
      <4>1. rest \ {Least(Ready(rest, deps))} \in UpTo(team, n)
        BY <3>2, SmallerRest
      <4>2. g[rest \ {Least(Ready(rest, deps))}] = f[rest \ {Least(Ready(rest, deps))}]
        BY <2>3, <4>1
      <4> QED  BY <3>2, <4>2 DEF Step
    <3> QED  BY <3>1, <3>2
  <2>5. Computes(g, UpTo(team, n + 1), deps)
    BY <2>4 DEF Computes
  <2> QED  BY <2>5
<1>4. Good = Nat
  <2>1. Good \in SUBSET Nat
    OBVIOUS
  <2> HIDE DEF Good
  <2> QED  BY <1>2, <1>3, <2>1, NextOfAll
<1>5. Cardinality(team) \in Good
  BY <1>1, <1>4
<1>6. UpTo(team, Cardinality(team)) = SUBSET team
  BY FS_Subset DEF UpTo
<1> QED  BY <1>5, <1>6

\* So the order that a plan gets is computed by one.
LEMMA OrderIsComputed ==
  ASSUME NEW team, IsFiniteSet(team), team \subseteq Nat, NEW deps
  PROVE  \E f : /\ Computes(f, SUBSET team, deps)
                /\ ResolveDependencyOrder(team, deps) = f[team]
<1> DEFINE order[rest \in SUBSET team] ==
        LET ready == {a \in rest : deps[a] \cap rest = {}}
        IN IF ready = {} THEN <<>>
           ELSE <<Least(ready)>> \o order[rest \ {Least(ready)}]
<1>1. ResolveDependencyOrder(team, deps) = order[team]
  BY DEF ResolveDependencyOrder
<1>2. order = CHOOSE g : g = [rest \in SUBSET team |-> Step(g, rest, deps)]
  BY DEF Step, Ready
<1> HIDE DEF order
<1>3. \E g : g = [rest \in SUBSET team |-> Step(g, rest, deps)]
  <2>1. PICK f : Computes(f, SUBSET team, deps)
    BY ComputedByAll
  <2> QED  BY <2>1, Zenon DEF Computes
<1>4. Computes(order, SUBSET team, deps)
  BY <1>2, <1>3 DEF Computes
<1> QED  BY <1>1, <1>4

\* What an order of the agents S is, also one that could not go on: nobody comes twice,
\* everybody comes after those of S it waits for, a greater id comes first only while
\* somebody is waited for, and who is left waits for somebody who is left.
Sound(s, S, deps) ==
  /\ s \in Seq(S)
  /\ \A i, j \in 1..Len(s) : s[i] = s[j] => i = j
  /\ \A k \in 1..Len(s) : \A b \in deps[s[k]] \cap S : \E j \in 1..Len(s) : j < k /\ s[j] = b
  /\ \A i, j \in 1..Len(s) :
       i < j /\ s[j] < s[i] => \E k \in 1..Len(s) : i <= k /\ k < j /\ s[k] \in deps[s[j]]
  /\ \A a \in S \ ToSet(s) : deps[a] \cap (S \ ToSet(s)) # {}

\* Who waits for nobody may go first.
LEMMA GoesFirst ==
  ASSUME NEW S, S \subseteq Nat, NEW deps, NEW a \in Ready(S, deps),
         \A b \in Ready(S, deps) : a <= b, NEW s, Sound(s, S \ {a}, deps)
  PROVE  Sound(<<a>> \o s, S, deps)
<1> DEFINE t == <<a>> \o s
<1>1. a \in S /\ deps[a] \cap S = {} /\ s \in Seq(S \ {a}) /\ S \ {a} \subseteq S
  BY DEF Ready, Sound
<1>2. Len(s) \in Nat /\ s \in Seq(S) /\ \A k \in 1..Len(s) : s[k] \in S \ {a}
  BY <1>1, SeqMonotonic, ElementOfSeq, LenProperties
<1>3. /\ t \in Seq(S) /\ Len(t) = Len(s) + 1 /\ t[1] = a
      /\ \A k \in 1..Len(t) : k # 1 => k - 1 \in 1..Len(s) /\ t[k] = s[k - 1]
      /\ \A k \in 1..Len(s) : k + 1 \in 1..Len(t) /\ t[k + 1] = s[k]
  <2>1. <<a>> \in Seq(S) /\ Len(<<a>>) = 1 /\ <<a>>[1] = a
    BY <1>1
  <2> QED  BY <1>2, <2>1, ConcatProperties
<1> HIDE DEF t
<1>4. ToSet(t) = ToSet(s) \cup {a}
  <2>1. DOMAIN t = 1..Len(t) /\ DOMAIN s = 1..Len(s)
    BY <1>2, <1>3, LenProperties
  <2>2. \A k \in 1..Len(t) : t[k] \in ToSet(s) \cup {a}
    BY <1>3, <2>1 DEF ToSet
  <2>3. a \in ToSet(t)
    BY <1>2, <1>3, <2>1 DEF ToSet
  <2>4. \A k \in 1..Len(s) : s[k] \in ToSet(t)
    BY <1>3, <2>1 DEF ToSet
  <2> QED  BY <2>1, <2>2, <2>3, <2>4 DEF ToSet
<1>5. ASSUME NEW i \in 1..Len(t), NEW j \in 1..Len(t), t[i] = t[j] PROVE i = j
  <2>1. CASE i = 1 \/ j = 1
    BY <1>2, <1>3, <1>5, <2>1
  <2>2. CASE i # 1 /\ j # 1
    <3>1. i - 1 = j - 1
      BY <1>3, <1>5, <2>2 DEF Sound
    <3> QED  BY <1>2, <1>3, <3>1
  <2> QED  BY <2>1, <2>2
<1>6. ASSUME NEW k \in 1..Len(t), NEW b \in deps[t[k]] \cap S
      PROVE  \E j \in 1..Len(t) : j < k /\ t[j] = b
  <2>1. k # 1 /\ 1 < k /\ 1 \in 1..Len(t)
    BY <1>1, <1>2, <1>3
  <2>2. CASE b = a
    BY <1>3, <2>1, <2>2
  <2>3. CASE b # a
    <3>1. b \in deps[s[k - 1]] \cap (S \ {a}) /\ k - 1 \in 1..Len(s)
      BY <1>3, <2>1, <2>3
    <3>2. PICK j \in 1..Len(s) : j < k - 1 /\ s[j] = b
      BY <3>1 DEF Sound
    <3>3. j + 1 \in 1..Len(t) /\ j + 1 < k /\ t[j + 1] = b
      BY <1>2, <1>3, <3>2
    <3> QED  BY <3>3
  <2> QED  BY <2>2, <2>3
<1>7. ASSUME NEW i \in 1..Len(t), NEW j \in 1..Len(t), i < j, t[j] < t[i]
      PROVE  \E k \in 1..Len(t) : i <= k /\ k < j /\ t[k] \in deps[t[j]]
  <2>1. j # 1 /\ j - 1 \in 1..Len(s) /\ t[j] = s[j - 1] /\ t[j] \in S
    BY <1>2, <1>3, <1>7
  <2>2. CASE i = 1
    <3>1. t[j] \notin Ready(S, deps)
      <4>1. t[i] = a /\ t[j] \in Nat /\ a \in Nat
        BY <1>1, <1>3, <2>1, <2>2
      <4> QED  BY <1>7, <4>1
    <3>2. PICK b \in deps[t[j]] \cap S : TRUE
      BY <2>1, <3>1 DEF Ready
    <3>3. PICK k \in 1..Len(t) : k < j /\ t[k] = b
      BY <1>6
    <3> QED  BY <2>2, <3>2, <3>3
  <2>3. CASE i # 1
    <3>1. i - 1 \in 1..Len(s) /\ t[i] = s[i - 1] /\ i - 1 < j - 1
      BY <1>2, <1>3, <1>7, <2>3
    <3>2. s[j - 1] < s[i - 1]
      BY <1>7, <2>1, <3>1
    <3>3. PICK k \in 1..Len(s) : i - 1 <= k /\ k < j - 1 /\ s[k] \in deps[s[j - 1]]
      BY <2>1, <3>1, <3>2 DEF Sound
    <3>4. k + 1 \in 1..Len(t) /\ i <= k + 1 /\ k + 1 < j /\ t[k + 1] \in deps[t[j]]
      BY <1>2, <1>3, <2>1, <3>1, <3>3
    <3> QED  BY <3>4
  <2> QED  BY <2>2, <2>3
<1>8. ASSUME NEW b \in S \ ToSet(t) PROVE deps[b] \cap (S \ ToSet(t)) # {}
  <2>1. S \ ToSet(t) = (S \ {a}) \ ToSet(s)
    BY <1>4
  <2> QED  BY <1>8, <2>1 DEF Sound
<1>9. Sound(t, S, deps)
  BY <1>3, <1>5, <1>6, <1>7, <1>8 DEF Sound
<1> QED  BY <1>9 DEF t

\* The order that is computed is one.
LEMMA OrderSound ==
  ASSUME NEW team, IsFiniteSet(team), team \subseteq Nat, NEW deps
  PROVE  Sound(ResolveDependencyOrder(team, deps), team, deps)
<1>1. PICK f : Computes(f, SUBSET team, deps) /\ ResolveDependencyOrder(team, deps) = f[team]
  BY OrderIsComputed
<1> DEFINE Good == {n \in Nat : \A S \in UpTo(team, n) : Sound(f[S], S, deps)}
<1>2. \A S \in SUBSET team : IsFiniteSet(S) /\ Cardinality(S) \in Nat /\ f[S] = Step(f, S, deps)
  BY <1>1, FS_Subset, FS_CardinalityType DEF Computes
<1>3. ASSUME NEW S \in SUBSET team, Ready(S, deps) = {} PROVE Sound(f[S], S, deps)
  <2>1. f[S] = <<>>
    BY <1>2, <1>3 DEF Step
  <2>2. ToSet(<<>>) = {} /\ <<>> \in Seq(S) /\ Len(<<>>) = 0
    BY DEF ToSet
  <2>3. \A a \in S : deps[a] \cap S # {}
    BY <1>3 DEF Ready
  <2> QED  BY <2>1, <2>2, <2>3 DEF Sound
<1>4. 0 \in Good
  <2>1. ASSUME NEW S \in UpTo(team, 0) PROVE S \in SUBSET team /\ Ready(S, deps) = {}
    <3>1. S = {} /\ S \in SUBSET team
      BY <1>2, FS_EmptySet DEF UpTo
    <3> QED  BY <3>1 DEF Ready
  <2> QED  BY <1>3, <2>1
<1>5. ASSUME NEW n \in Good PROVE n + 1 \in Good
  <2>1. ASSUME NEW S \in UpTo(team, n + 1), Ready(S, deps) # {} PROVE Sound(f[S], S, deps)
    <3> DEFINE a == Least(Ready(S, deps))
    <3>1. S \in SUBSET team /\ S \subseteq Nat /\ Ready(S, deps) \subseteq Nat
      BY DEF UpTo, Ready
    <3>2. a \in Ready(S, deps) /\ S \ {a} \in UpTo(team, n) /\ \A b \in Ready(S, deps) : a <= b
      BY <2>1, <3>1, SmallerRest, LeastIs
    <3>3. f[S] = <<a>> \o f[S \ {a}]
      BY <1>2, <2>1, <3>1 DEF Step
    <3>4. Sound(f[S \ {a}], S \ {a}, deps)
      BY <3>2
    <3> HIDE DEF a
    <3>5. Sound(<<a>> \o f[S \ {a}], S, deps)
      BY <3>1, <3>2, <3>4, GoesFirst
    <3> QED  BY <3>3, <3>5
  <2>2. \A S \in UpTo(team, n + 1) : S \in SUBSET team
    BY DEF UpTo
  <2> QED  BY <1>3, <2>1, <2>2
<1>6. Good = Nat
  <2>1. Good \in SUBSET Nat
    OBVIOUS
  <2> HIDE DEF Good
  <2> QED  BY <1>4, <1>5, <2>1, NextOfAll
<1>7. Cardinality(team) \in Good /\ team \in UpTo(team, Cardinality(team))
  BY <1>2, <1>6 DEF UpTo
<1> QED  BY <1>1, <1>7

\* An order as long as its team has everybody in it.
LEMMA FullOrder ==
  ASSUME NEW S, IsFiniteSet(S), NEW deps, NEW s, Sound(s, S, deps)
  PROVE  /\ ToSet(s) \subseteq S
         /\ Len(s) = Cardinality(S) <=> ToSet(s) = S
<1>1. s \in [1..Len(s) -> S] /\ Len(s) \in Nat /\ DOMAIN s = 1..Len(s)
  BY LenProperties DEF Sound
<1>2. ToSet(s) \subseteq S /\ s \in Bijection(1..Len(s), ToSet(s))
  <2>1. ToSet(s) \subseteq S
    BY <1>1 DEF ToSet
  <2>2. s \in [1..Len(s) -> ToSet(s)]
    BY <1>1 DEF ToSet
  <2>3. \A x \in ToSet(s) : \E i \in 1..Len(s) : s[i] = x
    BY <1>1 DEF ToSet
  <2>4. \A i, j \in 1..Len(s) : s[i] = s[j] => i = j
    BY DEF Sound
  <2>5. s \in Bijection(1..Len(s), ToSet(s))
    BY <2>2, <2>3, <2>4, Fun_IsBij
  <2> QED  BY <2>1, <2>5
<1>3. IsFiniteSet(1..Len(s)) /\ Cardinality(1..Len(s)) = Len(s)
  BY <1>1, FS_Interval
<1>4. Cardinality(ToSet(s)) = Len(s)
  BY <1>2, <1>3, FS_Bijection DEF ExistsBijection
<1> QED  BY <1>2, <1>4, FS_Subset

-----------------------------------------------------------------------------
(* Teams *)

\* Of the agents that can do something the least is chosen.
LEMMA BestIs ==
  ASSUME NEW active \in SUBSET Agents, NEW c, \E a \in active : c \in CapsOf[a]
  PROVE  Best(c, active) \in active /\ c \in CapsOf[Best(c, active)]
<1> DEFINE able == {a \in active : c \in CapsOf[a]}
<1>1. able \subseteq Nat /\ able # {}
  OBVIOUS
<1>2. Least(able) \in able
  <2> HIDE DEF able
  <2> QED  BY <1>1, LeastIs
<1> QED  BY <1>2 DEF Best

Doable(required, active) == {d \in ToSet(required) : \E a \in active : d \in CapsOf[a]}

\* A team is a finite set of active agents that can do what any of them can.
LEMMA TeamIs ==
  ASSUME NEW required \in Seq(Nat), NEW active \in SUBSET Agents
  PROVE  /\ Selected(required, active) \subseteq active
         /\ Selected(required, active) \subseteq Nat
         /\ IsFiniteSet(Selected(required, active))
         /\ \A c \in ToSet(required) : (\E a \in active : c \in CapsOf[a]) =>
              \E a \in Selected(required, active) : c \in CapsOf[a]
<1> DEFINE D == Doable(required, active)
           f == [c \in D |-> Best(c, active)]
<1>1. Selected(required, active) = {Best(c, active) : c \in D}
  BY DEF Selected, Doable
<1>2. \A c \in D : Best(c, active) \in active /\ c \in CapsOf[Best(c, active)]
  BY BestIs DEF Doable
<1>3. IsFiniteSet(ToSet(required))
  <2>1. required \in [1..Len(required) -> Nat] /\ Len(required) \in Nat
    BY LenProperties
  <2>2. required \in [1..Len(required) -> ToSet(required)]
    BY <2>1 DEF ToSet
  <2>3. \A x \in ToSet(required) : \E i \in 1..Len(required) : required[i] = x
    BY <2>1 DEF ToSet
  <2>4. required \in Surjection(1..Len(required), ToSet(required))
    BY <2>2, <2>3, Fun_IsSurj
  <2>5. IsFiniteSet(1..Len(required))
    BY <2>1, FS_Interval
  <2> QED  BY <2>4, <2>5, FS_Surjection
<1>4. IsFiniteSet(D)
  BY <1>3, FS_Subset DEF Doable
<1>5. IsFiniteSet({Best(c, active) : c \in D})
  <2> DEFINE T == {Best(c, active) : c \in D}
  <2>1. f \in [D -> T] /\ \A t \in T : \E c \in D : f[c] = t
    OBVIOUS
  <2> HIDE DEF D, f, T
  <2>2. f \in Surjection(D, T)
    BY <2>1, Fun_IsSurj
  <2>3. IsFiniteSet(T)
    BY <1>4, <2>2, FS_Surjection
  <2> QED  BY <2>3 DEF T
<1>6. \A c \in ToSet(required) : (\E a \in active : c \in CapsOf[a]) => c \in D
  BY DEF Doable
<1> HIDE DEF D
<1>7. Selected(required, active) \subseteq active
  BY <1>1, <1>2
<1> QED  BY <1>1, <1>2, <1>5, <1>6, <1>7

\* Everybody of a team was chosen for something.
LEMMA CategoryIs ==
  ASSUME NEW required \in Seq(Nat), NEW active \in SUBSET Agents,
         NEW a \in Selected(required, active)
  PROVE  Category(a, required, active) \in Nat
<1> DEFINE K == {k \in DOMAIN required : /\ \E b \in active : required[k] \in CapsOf[b]
                                         /\ Best(required[k], active) = a}
<1>1. required \in [1..Len(required) -> Nat] /\ Len(required) \in Nat
  BY LenProperties
<1>2. K \subseteq Nat
  BY <1>1
<1>3. PICK k \in DOMAIN required : (\E b \in active : required[k] \in CapsOf[b])
                                   /\ Best(required[k], active) = a
  BY DEF Selected, ToSet
<1>4. K # {}
  BY <1>3
<1>5. Least(K) \in K
  <2> HIDE DEF K
  <2> QED  BY <1>2, <1>4, LeastIs
<1>6. Least(K) \in 1..Len(required)
  BY <1>1, <1>5
<1> QED  BY <1>1, <1>6 DEF Category

Acyclic(deps, team) ==
  /\ deps \in [team -> SUBSET team]
  /\ \A R \in SUBSET team : R # {} => \E a \in R : deps[a] \cap R = {}

\* Where everybody waits for the one before, nobody waits in a ring: the first of those
\* chosen for the first thing waits for nobody of them.
LEMMA ChainIsAcyclic ==
  ASSUME NEW required \in Seq(Nat), NEW active \in SUBSET Agents,
         NEW team, team = Selected(required, active)
  PROVE  Acyclic(ChainDeps(team, required, active), team)
<1> DEFINE deps == ChainDeps(team, required, active)
           cat(a) == Category(a, required, active)
<1>1. deps \in [team -> SUBSET team]
  BY DEF ChainDeps
<1>2. \A a \in team : \A b \in deps[a] : cat(b) < cat(a) \/ (cat(b) = cat(a) /\ b < a)
  BY DEF ChainDeps
<1>3. \A a \in team : cat(a) \in Nat /\ a \in Nat
  BY CategoryIs, TeamIs
<1> HIDE DEF deps, cat
<1>4. ASSUME NEW R \in SUBSET team, R # {} PROVE \E a \in R : deps[a] \cap R = {}
  <2> DEFINE C == {cat(a) : a \in R}
             A == {a \in R : cat(a) = Least(C)}
  <2>1. C \subseteq Nat /\ C # {}
    BY <1>3, <1>4
  <2>2. Least(C) \in C /\ \A c \in C : Least(C) <= c
    <3> HIDE DEF C
    <3> QED  BY <2>1, LeastIs
  <2>3. A \subseteq Nat /\ A # {}
    BY <1>3, <2>2
  <2>4. Least(A) \in A /\ \A b \in A : Least(A) <= b
    <3> HIDE DEF A
    <3> QED  BY <2>3, LeastIs
  <2> DEFINE a == Least(A)
  <2>5. a \in R /\ cat(a) = Least(C)
    BY <2>4
  <2>6. ASSUME NEW b \in deps[a], b \in R PROVE FALSE
    <3>1. cat(a) <= cat(b) /\ cat(a) \in Nat /\ cat(b) \in Nat /\ a \in Nat /\ b \in Nat
      BY <1>3, <2>2, <2>5, <2>6
    <3>2. cat(b) = cat(a) /\ b < a
      <4>1. cat(b) < cat(a) \/ (cat(b) = cat(a) /\ b < a)
        BY <1>2, <2>5, <2>6
      <4> HIDE DEF a
      <4> QED  BY <3>1, <4>1
    <3>3. b \in A
      BY <2>5, <2>6, <3>2
    <3>4. a <= b
      BY <2>4, <3>3
    <3> HIDE DEF a
    <3> QED  BY <3>1, <3>2, <3>4
  <2> QED  BY <2>5, <2>6
<1> QED  BY <1>1, <1>4 DEF deps, Acyclic

-----------------------------------------------------------------------------
(* Plans *)

Place(s, a) == CHOOSE k \in DOMAIN s : s[k] = a

\* What OrderIsTopological says of a plan.
Topological(p) ==
  /\ ToSet(p.order) = p.team /\ Len(p.order) = Cardinality(p.team)
  /\ \A a \in p.team : \A b \in p.deps[a] : Place(p.order, b) < Place(p.order, a)
  /\ \A a, b \in p.team :
       Place(p.order, a) < Place(p.order, b) /\ b < a =>
         \E c \in p.deps[b] : Place(p.order, a) <= Place(p.order, c)

LEMMA FullIsTopological ==
  ASSUME NEW p, IsFiniteSet(p.team), p.deps \in [p.team -> SUBSET p.team],
         Sound(p.order, p.team, p.deps), Len(p.order) = Cardinality(p.team)
  PROVE  Topological(p)
<1> DEFINE s == p.order
           team == p.team
           deps == p.deps
<1>1. ToSet(s) = team
  BY FullOrder
<1>2. DOMAIN s = 1..Len(s) /\ \A k \in 1..Len(s) : s[k] \in team /\ k \in Nat
  BY LenProperties, ElementOfSeq DEF Sound
<1>3. \A a \in team : Place(s, a) \in 1..Len(s) /\ s[Place(s, a)] = a
  BY <1>1, <1>2 DEF Place, ToSet
<1>4. \A k \in 1..Len(s) : Place(s, s[k]) = k
  BY <1>2, <1>3 DEF Sound
<1>5. ASSUME NEW a \in team, NEW b \in deps[a] PROVE Place(s, b) < Place(s, a)
  <2>1. b \in deps[s[Place(s, a)]] \cap team
    BY <1>3, <1>5
  <2>2. PICK j \in 1..Len(s) : j < Place(s, a) /\ s[j] = b
    BY <1>3, <2>1 DEF Sound
  <2> QED  BY <1>4, <2>2
<1>6. ASSUME NEW a \in team, NEW b \in team, Place(s, a) < Place(s, b), b < a
      PROVE  \E c \in deps[b] : Place(s, a) <= Place(s, c)
  <2> DEFINE i == Place(s, a)
             j == Place(s, b)
  <2>0. i \in 1..Len(s) /\ j \in 1..Len(s) /\ i < j /\ s[i] = a /\ s[j] = b
    BY <1>3, <1>6
  <2>1. PICK k \in 1..Len(s) : i <= k /\ k < j /\ s[k] \in deps[b]
    <3> HIDE DEF i, j
    <3> QED  BY <1>6, <2>0 DEF Sound
  <2> QED  BY <1>4, <2>1
<1> QED  BY <1>1, <1>5, <1>6 DEF Topological

\* What a plan may be refused for.
Cause(required, requested, active) ==
  LET team == Selected(required, active)
  IN \/ team = {} \/ Cardinality(team) > MaxTeam
     \/ \E a \in DOMAIN requested : ~({a} \cup requested[a] \subseteq team)
     \/ \E S \in (SUBSET DOMAIN requested) \ {{}} : \A a \in S : requested[a] \cap S # {}

PlanIs(p, active) ==
  /\ p.kind = "plan" /\ p.required \in Seq(Nat)
  /\ p.team = Selected(p.required, active)
  /\ p.deps \in [p.team -> SUBSET p.team] /\ Topological(p)

\* A composition answers with a plan in order, or refuses for a cause: of an order that
\* is too short those that are left wait for each other, and they wait as requested.
LEMMA ComposedIs ==
  ASSUME NEW required \in Seq(Nat), NEW requested, Active \in SUBSET Agents,
         ComposeOrchestrationPlan(required, requested)
  PROVE  \/ PlanIs(answer', Active) /\ answer'.required = required
         \/ /\ answer' = [kind |-> "refused", required |-> required, requested |-> requested]
            /\ Cause(required, requested, Active)
<1> DEFINE team == Selected(required, Active)
           deps == IF requested = <<>> THEN ChainDeps(team, required, Active)
                   ELSE [a \in team |-> IF a \in DOMAIN requested THEN requested[a] ELSE {}]
           known == requested = <<>> \/
                      (DOMAIN requested \subseteq team /\ \A a \in DOMAIN requested :
                         requested[a] \subseteq team \ {a})
           order == ResolveDependencyOrder(team, deps)
           valid == /\ team # {} /\ Cardinality(team) <= MaxTeam /\ known
                    /\ Len(order) = Cardinality(team)
           plan == [kind |-> "plan", required |-> required, team |-> team, deps |-> deps,
                    order |-> order]
           refusal == [kind |-> "refused", required |-> required, requested |-> requested]
<1>1. answer' = IF valid THEN plan ELSE refusal
  BY DEF ComposeOrchestrationPlan
<1>2. team \subseteq Nat /\ IsFiniteSet(team) /\ Cardinality(team) \in Nat
  BY TeamIs, FS_CardinalityType
<1>3. Sound(order, team, deps)
  <2> HIDE DEF team, deps
  <2> QED  BY <1>2, OrderSound
<1>4. known => deps \in [team -> SUBSET team]
  <2>1. CASE requested = <<>>
    <3>1. Acyclic(ChainDeps(team, required, Active), team)
      BY ChainIsAcyclic
    <3> HIDE DEF team
    <3> QED  BY <2>1, <3>1 DEF Acyclic
  <2>2. CASE requested # <<>>
    <3> HIDE DEF team
    <3> QED  BY <2>2
  <2> QED  BY <2>1, <2>2
<1>5. CASE valid
  <2>1. /\ plan.kind = "plan" /\ plan.required = required /\ plan.team = team
        /\ plan.deps = deps /\ plan.order = order
    OBVIOUS
  <2>2. deps \in [team -> SUBSET team] /\ Len(order) = Cardinality(team)
    BY <1>4, <1>5
  <2>3. Topological(plan)
    <3> HIDE DEF team, deps, order, plan
    <3> QED  BY <1>2, <1>3, <2>1, <2>2, FullIsTopological
  <2>4. answer' = plan
    BY <1>1, <1>5
  <2>5. PlanIs(plan, Active) /\ plan.required = required
    <3>1. team = Selected(required, Active)
      OBVIOUS
    <3> HIDE DEF team, deps, order, plan
    <3> QED  BY <2>1, <2>2, <2>3, <3>1 DEF PlanIs
  <2> HIDE DEF plan
  <2> QED  BY <2>4, <2>5
<1>6. CASE ~valid
  <2> DEFINE left == team \ ToSet(order)
  <2>1. answer' = refusal
    BY <1>1, <1>6
  <2>2. ASSUME team # {}, Cardinality(team) <= MaxTeam, ~known
        PROVE  \/ \E a \in DOMAIN requested : ~({a} \cup requested[a] \subseteq team)
               \/ \E S \in (SUBSET DOMAIN requested) \ {{}} : \A a \in S : requested[a] \cap S # {}
    <3> HIDE DEF team
    <3>1. CASE \E a \in DOMAIN requested : a \in requested[a]
      <4>1. PICK a \in DOMAIN requested : a \in requested[a]
        BY <3>1
      <4>2. {a} \in (SUBSET DOMAIN requested) \ {{}} /\ \A b \in {a} : requested[b] \cap {a} # {}
        BY <4>1
      <4> QED  BY <4>2
    <3>2. CASE ~\E a \in DOMAIN requested : a \in requested[a]
      BY <2>2, <3>2
    <3> QED  BY <3>1, <3>2
  <2>3. ASSUME known, Len(order) # Cardinality(team)
        PROVE  \E S \in (SUBSET DOMAIN requested) \ {{}} : \A a \in S : requested[a] \cap S # {}
    <3>1. left # {} /\ left \subseteq team /\ \A a \in left : deps[a] \cap left # {}
      <4>1. ToSet(order) \subseteq team /\ ToSet(order) # team
        <5> HIDE DEF team, deps, order
        <5> QED  BY <1>2, <1>3, <2>3, FullOrder
      <4> HIDE DEF team, deps, order
      <4> QED  BY <1>3, <4>1 DEF Sound
    <3>2. requested # <<>>
      <4> SUFFICES ASSUME requested = <<>> PROVE FALSE
        OBVIOUS
      <4>1. \E a \in left : deps[a] \cap left = {}
        <5>1. deps = ChainDeps(team, required, Active)
          OBVIOUS
        <5>2. left \in SUBSET team /\ left # {}
          <6> HIDE DEF left, team
          <6> QED  BY <3>1
        <5>3. Acyclic(ChainDeps(team, required, Active), team)
          BY ChainIsAcyclic
        <5> HIDE DEF team, deps, left
        <5>4. \E a \in left : ChainDeps(team, required, Active)[a] \cap left = {}
          BY <5>2, <5>3 DEF Acyclic
        <5> QED  BY <5>1, <5>4
      <4> HIDE DEF deps, left
      <4> QED  BY <3>1, <4>1
    <3>3. \A a \in left : a \in DOMAIN requested /\ deps[a] = requested[a]
      <4>1. \A a \in team : deps[a] = IF a \in DOMAIN requested THEN requested[a] ELSE {}
        <5> HIDE DEF team
        <5> QED  BY <3>2
      <4> HIDE DEF deps, left, team
      <4> QED  BY <3>1, <4>1
    <3>4. left \in (SUBSET DOMAIN requested) \ {{}} /\ \A a \in left : requested[a] \cap left # {}
      <4> HIDE DEF deps, left, team
      <4> QED  BY <3>1, <3>3
    <3> HIDE DEF left
    <3> QED  BY <3>4
  <2>4. Cause(required, requested, Active)
    <3>1. MaxTeam \in Nat
      OBVIOUS
    <3>2. \/ team = {} \/ Cardinality(team) > MaxTeam
          \/ team # {} /\ Cardinality(team) <= MaxTeam /\ ~known
          \/ known /\ Len(order) # Cardinality(team)
      <4> HIDE DEF team, known, order
      <4> QED  BY <1>2, <1>6, <3>1
    <3>3. team = Selected(required, Active)
      OBVIOUS
    <3> HIDE DEF team, known, order
    <3> QED  BY <2>2, <2>3, <3>2, <3>3 DEF Cause
  <2> QED  BY <2>1, <2>4
<1> QED  BY <1>5, <1>6

-----------------------------------------------------------------------------
(* Reviews *)

\* Of one element at most there are no two.
LEMMA Alike ==
  ASSUME NEW S, IsFiniteSet(S), ~(Cardinality(S) > 1), NEW x \in S, NEW y \in S
  PROVE  x = y
<1> DEFINE n == Cardinality(S)
           m == Cardinality(S \ {x})
<1>1. n \in Nat /\ IsFiniteSet(S \ {x}) /\ m \in Nat /\ m = n - 1 /\ ~(n > 1)
  BY FS_RemoveElement, FS_CardinalityType
<1>2. m = 0
  <2> HIDE DEF n, m
  <2> QED  BY <1>1
<1>3. S \ {x} = {}
  BY <1>1, <1>2, FS_EmptySet
<1> QED  BY <1>3

\* The last of an order is one of its changes, and decides what is left.
LEMMA LastDecides ==
  ASSUME NEW changes, IsFiniteSet(changes), changes # {}, NEW o \in Orders(changes)
  PROVE  \E x \in changes : Leaves(o) = {y \in {x} : y.type # "DELETE"}
<1> DEFINE n == Cardinality(changes)
<1>1. n \in Nat /\ n # 0
  BY FS_CardinalityType, FS_EmptySet
<1>2. o \in [1..n -> changes]
  BY DEF Orders
<1> HIDE DEF n
<1>3. DOMAIN o = 1..n /\ n \in 1..n
  BY <1>1, <1>2
<1>4. Cardinality(DOMAIN o) = n
  BY <1>1, <1>3, FS_Interval
<1>5. o[n] \in changes
  BY <1>2, <1>3
<1>6. Leaves(o) = {y \in {o[n]} : y.type # "DELETE"}
  BY <1>4 DEF Leaves
<1> QED  BY <1>5, <1>6

\* Without conflicts the changes of one target are a deletion, or at most one creation
\* and one modification: the last of them may be either, but not a deletion.
LEMMA LastIsSettled ==
  ASSUME NEW props, IsFiniteSet(props), props \subseteq Op, TargetConflicts(props) = {},
         NEW f, NEW changes, changes = Changes(props, f),
         \A o, p \in changes : o.target = p.target, changes # {},
         NEW d \in Orders(changes), NEW e \in Orders(changes)
  PROVE  /\ (Leaves(d) = {}) <=> (Leaves(e) = {})
         /\ Leaves(d) = Leaves(e) \/ {o.type : o \in changes} = {"CREATE", "MODIFY"}
<1>1. IsFiniteSet(changes) /\ changes \subseteq props
  <2>1. changes \subseteq props
    BY DEF Changes
  <2> QED  BY <2>1, FS_Subset
<1>2. PICK x \in changes : Leaves(d) = {y \in {x} : y.type # "DELETE"}
  BY <1>1, LastDecides
<1>3. PICK z \in changes : Leaves(e) = {y \in {z} : y.type # "DELETE"}
  BY <1>1, LastDecides
<1>4. x.target \in Targets /\ \A o \in changes : o.target = x.target
  BY <1>1 DEF Op
<1>5. \A o \in changes : o.type \in {"CREATE", "MODIFY", "DELETE"}
  BY DEF Changes
<1>6. \A types : \A o \in changes : o.type \in types => o \in On(props, x.target, types)
  BY <1>1, <1>4 DEF On
<1>7. ASSUME NEW t \in {"CREATE", "MODIFY", "DELETE"}, NEW o \in changes, NEW p \in changes,
             o.type = t, p.type = t
      PROVE  o = p
  <2> DEFINE S == On(props, x.target, {t})
  <2>0. S \subseteq props
    BY DEF On
  <2>1. S \subseteq props /\ o \in S /\ p \in S
    <3>1. o.type \in {t} /\ p.type \in {t}
      BY <1>7
    <3> QED  BY <1>6, <2>0, <3>1
  <2>2. ~(Cardinality(S) > 1)
    BY <1>4 DEF TargetConflicts
  <2>3. IsFiniteSet(S)
    BY <2>1, FS_Subset
  <2> HIDE DEF S
  <2> QED  BY <2>1, <2>2, <2>3, Alike
<1>8. ASSUME NEW o \in changes, NEW p \in changes, o.type = "DELETE"
      PROVE  p.type = "DELETE"
  <2>1. o \in On(props, x.target, {"DELETE"})
    BY <1>6, <1>8
  <2>2. On(props, x.target, {"CREATE", "MODIFY"}) = {}
    BY <1>4, <2>1 DEF TargetConflicts
  <2>3. p.type \notin {"CREATE", "MODIFY"}
    BY <1>6, <2>2
  <2> QED  BY <1>5, <2>3
<1>9. x.type = "DELETE" <=> z.type = "DELETE"
  BY <1>8
<1>10. CASE x.type = z.type
  <2>1. x = z
    BY <1>5, <1>7, <1>10
  <2> QED  BY <1>2, <1>3, <2>1
<1>11. CASE x.type # z.type
  <2>1. {x.type, z.type} = {"CREATE", "MODIFY"}
    BY <1>5, <1>9, <1>11
  <2>2. \A o \in changes : o.type \in {"CREATE", "MODIFY"}
    BY <1>5, <1>8, <2>1
  <2>3. {o.type : o \in changes} = {"CREATE", "MODIFY"}
    BY <2>1, <2>2
  <2>4. x.type # "DELETE" /\ z.type # "DELETE"
    BY <2>2
  <2>5. Leaves(d) # {} /\ Leaves(e) # {}
    BY <1>2, <1>3, <2>4
  <2> QED  BY <2>3, <2>5
<1> QED  BY <1>10, <1>11

-----------------------------------------------------------------------------
(* The invariant *)

PInv ==
  /\ TypeOK
  /\ answer.kind = "plan" => Topological(answer)
  /\ ReviewedSettlesFiles

LEMMA PlaceIsPlace ==
  (answer.kind = "plan" => Topological(answer)) <=> OrderIsTopological
BY Zenon DEF Topological, OrderIsTopological, Place

LEMMA InitP == Init => PInv
BY DEF Init, PInv, TypeOK, ReviewedSettlesFiles

LEMMA ActiveIs == TypeOK => Active \in SUBSET Agents
BY DEF TypeOK, Active

\* Steps that leave the answer alone.
LEMMA AnswerStays ==
  ASSUME PInv, answer' = answer, registry' \in [Agents -> {"none", "enabled", "disabled"}]
  PROVE  PInv'
<1>1. TypeOK'
  BY DEF PInv, TypeOK
<1>2. (answer.kind = "plan" => Topological(answer))'
  BY DEF PInv
<1>3. ReviewedSettlesFiles'
  BY DEF PInv, ReviewedSettlesFiles
<1> QED  BY <1>1, <1>2, <1>3 DEF PInv

LEMMA RouteP ==
  ASSUME PInv, NEW r \in Required, RouteTask(ToSet(r))
  PROVE  PInv'
<1>1. Active \in SUBSET Agents
  BY ActiveIs DEF PInv
<1>2. Routed(ToSet(r), Active) \in Agents \cup {NoAgent}
  <2> DEFINE matched(a) == Cardinality(ToSet(r) \cap CapsOf[a])
             able == {a \in Active : matched(a) > 0}
             best == {a \in able : \A b \in able : matched(b) <= matched(a)}
  <2>1. Routed(ToSet(r), Active) = IF best = {} THEN NoAgent ELSE Least(best)
    BY DEF Routed
  <2>2. best \subseteq Agents /\ best \subseteq Nat
    BY <1>1
  <2> HIDE DEF best
  <2>3. best # {} => Least(best) \in Agents
    BY <2>2, LeastIs
  <2> QED  BY <2>1, <2>3
<1>3. /\ answer'.kind = "routed" /\ answer'.agent \in Agents \cup {NoAgent}
      /\ registry' = registry
  BY <1>2 DEF RouteTask
<1> QED  BY <1>3 DEF PInv, TypeOK, ReviewedSettlesFiles

LEMMA ComposeP ==
  ASSUME PInv, NEW r \in Required, NEW requested, ComposeOrchestrationPlan(r, requested)
  PROVE  PInv'
<1>1. Active \in SUBSET Agents /\ r \in Seq(Nat)
  BY ActiveIs DEF PInv
<1>2. registry' = registry
  BY DEF ComposeOrchestrationPlan
<1>3. CASE PlanIs(answer', Active)
  BY <1>2, <1>3 DEF PlanIs, PInv, TypeOK, ReviewedSettlesFiles
<1>4. CASE answer' = [kind |-> "refused", required |-> r, requested |-> requested]
  <2>1. answer'.kind = "refused"
    BY <1>4
  <2> QED  BY <1>2, <2>1 DEF PInv, TypeOK, ReviewedSettlesFiles
<1> QED  BY <1>1, <1>3, <1>4, ComposedIs

LEMMA ReviewP ==
  ASSUME PInv, NEW props \in ProposalSets, ReviewProposals(props)
  PROVE  PInv'
<1> DEFINE status == Reviewed(answer.team, Active, props)
<1>1. /\ answer'.kind = "review" /\ answer'.props = props /\ answer'.status = status
      /\ registry' = registry
  BY DEF ReviewProposals
<1>2. /\ status \in {"REVIEW_REJECTED", "INVALID_PROPOSAL", "CONFLICT_DETECTED", "REVIEWED"}
      /\ status = "REVIEWED" => TargetConflicts(props) = {}
  <2> DEFINE m == Authors(props) \subseteq answer.team
             a == Authors(props) \subseteq Active
             c == TargetConflicts(props) # {} \/ Circular(props) # {}
  <2>1. status = CASE ~m -> "REVIEW_REJECTED"
                   [] m /\ ~a -> "INVALID_PROPOSAL"
                   [] Authors(props) \subseteq answer.team \cap Active ->
                        IF c THEN "CONFLICT_DETECTED" ELSE "REVIEWED"
    BY DEF Reviewed
  <2>2. (Authors(props) \subseteq answer.team \cap Active) <=> m /\ a
    OBVIOUS
  <2>3. ~c => TargetConflicts(props) = {}
    OBVIOUS
  <2> HIDE DEF m, a, c, status
  <2> QED  BY <2>1, <2>2, <2>3
<1> HIDE DEF status
<1>3. TypeOK'
  BY <1>1, <1>2 DEF PInv, TypeOK
<1>4. ReviewedSettlesFiles'
  <2>1. IsFiniteSet(props) /\ props \subseteq Op
    BY ReviewAssumption DEF ProposalSets
  <2> SUFFICES ASSUME answer'.status = "REVIEWED", NEW f,
                      \A o, p \in Changes(props, f) : o.target = p.target,
                      NEW d \in Orders(Changes(props, f)), NEW e \in Orders(Changes(props, f)),
                      Changes(props, f) # {}
               PROVE  /\ (Leaves(d) = {}) <=> (Leaves(e) = {})
                      /\ \/ Leaves(d) = Leaves(e)
                         \/ {o.type : o \in Changes(props, f)} = {"CREATE", "MODIFY"}
    BY <1>1 DEF ReviewedSettlesFiles
  <2>2. TargetConflicts(props) = {}
    BY <1>1, <1>2
  <2> QED  BY <2>1, <2>2, LastIsSettled
<1> QED  BY <1>1, <1>3, <1>4 DEF PInv

LEMMA NextP ==
  ASSUME PInv, [Next]_vars
  PROVE  PInv'
<1>1. registry \in [Agents -> {"none", "enabled", "disabled"}]
  BY DEF PInv, TypeOK
<1>2. ASSUME NEW a \in Agents, NEW s \in {"enabled", "disabled"}, Register(a, s) PROVE PInv'
  <2>1. answer' = answer /\ registry' \in [Agents -> {"none", "enabled", "disabled"}]
    BY <1>1, <1>2 DEF Register
  <2> QED  BY <2>1, AnswerStays
<1>3. CASE Restart
  BY <1>3, AnswerStays DEF Restart
<1>4. ASSUME NEW r \in Required, RouteTask(ToSet(r)) PROVE PInv'
  BY <1>4, RouteP
<1>5. ASSUME NEW r \in Required, NEW d \in Requested, ComposeOrchestrationPlan(r, d) PROVE PInv'
  BY <1>5, ComposeP
<1>6. ASSUME NEW props \in ProposalSets, ReviewProposals(props) PROVE PInv'
  BY <1>6, ReviewP
<1>7. CASE UNCHANGED vars
  BY <1>1, <1>7, AnswerStays DEF vars
<1> QED  BY <1>2, <1>3, <1>4, <1>5, <1>6, <1>7 DEF Next

\* The invariant holds throughout.
THEOREM PlanningInvariant == Spec => []PInv
<1>1. Init => PInv
  BY InitP
<1>2. PInv /\ [Next]_vars => PInv'
  BY NextP
<1> QED  BY <1>1, <1>2, PTL DEF Spec

\* The registry and every answer of the planning routes have their shape: a routed task
\* goes to an agent or nobody, who waits in a plan waits for members, a review has one
\* of the four statuses.
THEOREM Typed == Spec => []TypeOK
BY PlanningInvariant, PTL DEF PInv

\* The order of a composed plan has every member once and after all it waits for, and a
\* greater id goes first only where the least one had to wait, whatever the team.
THEOREM PlansAreTopological == Spec => []OrderIsTopological
<1>1. PInv => OrderIsTopological
  BY PlaceIsPlace DEF PInv
<1> QED  BY <1>1, PlanningInvariant, PTL

\* After a review, of any size, a file with one name is there or not in whatever order
\* its changes are applied, and has one content unless it is both created and modified.
THEOREM ReviewsSettleFiles == Spec => []ReviewedSettlesFiles
BY PlanningInvariant, PTL DEF PInv

\* The composition answers with a team of active agents that covers what can be covered,
\* or refuses for a cause: a team too small or too large, strangers, or a ring.
THEOREM RefusedForACause == Spec => TeamOrCause
<1> DEFINE A == /\ answer' # answer /\ answer'.kind = "plan" =>
                     /\ answer'.team \subseteq Active
                     /\ \A c \in ToSet(answer'.required) : (\E a \in Active : c \in CapsOf[a]) =>
                          \E a \in answer'.team : c \in CapsOf[a]
                /\ answer' # answer /\ answer'.kind = "refused" =>
                     Cause(answer'.required, answer'.requested, Active)
<1>1. ASSUME TypeOK, [Next]_vars PROVE [A]_vars
  <2>1. Active \in SUBSET Agents
    BY <1>1, ActiveIs
  <2>2. ASSUME NEW a \in Agents, NEW s \in {"enabled", "disabled"}, Register(a, s) PROVE A
    BY <2>2 DEF Register
  <2>3. CASE Restart
    BY <2>3 DEF Restart
  <2>4. ASSUME NEW r \in Required, RouteTask(ToSet(r)) PROVE A
    BY <2>4 DEF RouteTask
  <2>5. ASSUME NEW r \in Required, NEW d \in Requested, ComposeOrchestrationPlan(r, d) PROVE A
    <3>1. r \in Seq(Nat)
      OBVIOUS
    <3>2. CASE PlanIs(answer', Active)
      BY <2>1, <3>2, TeamIs DEF PlanIs
    <3>3. CASE /\ answer' = [kind |-> "refused", required |-> r, requested |-> d]
               /\ Cause(r, d, Active)
      BY <3>3
    <3> QED  BY <2>1, <2>5, <3>1, <3>2, <3>3, ComposedIs
  <2>6. ASSUME NEW props \in ProposalSets, ReviewProposals(props) PROVE A
    BY <2>6 DEF ReviewProposals
  <2>7. CASE UNCHANGED vars
    BY <2>7
  <2> HIDE DEF A
  <2> QED  BY <1>1, <2>2, <2>3, <2>4, <2>5, <2>6, <2>7 DEF Next
<1>2. Spec => [][A]_vars
  <2> HIDE DEF A
  <2> QED  BY <1>1, Typed, PTL DEF Spec
<1>3. TeamOrCause <=> [][A]_vars
  BY PTL DEF TeamOrCause, Cause
<1> QED  BY <1>2, <1>3, PTL
=============================================================================
