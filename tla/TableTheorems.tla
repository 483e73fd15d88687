---------------------------- MODULE TableTheorems ----------------------------
(***************************************************************************)
(* Facts about finite tables: the order in which a query returns its rows, *)
(* and sums over them.  The induction theorems of the library take an      *)
(* operator as a parameter, which the provers cannot instantiate; here     *)
(* each induction looks at a smallest set that contradicts the claim.      *)
(***************************************************************************)
EXTENDS Integers, Sequences, FiniteSets, Functions, SequencesExt, Orders,
        FiniteSetTheorems, WellFoundedInduction, TLAPS

-------------------------------------------------------------------------------
(* Rows in their order *)

\* b[x] has what comes before x, in a strict total order of S.
Precedes(b, S) ==
    /\ b \in [S -> SUBSET S]
    /\ \A x \in S : x \notin b[x]
    /\ \A x, y \in S : x \in b[y] => b[x] \subseteq b[y]
    /\ \A x, y \in S : x = y \/ x \in b[y] \/ y \in b[x]

\* A member that comes before another has fewer before it, and every number of
\* predecessors up to the size of the set occurs once.
LEMMA Ranks ==
  ASSUME NEW S, IsFiniteSet(S), NEW b, Precedes(b, S)
  PROVE  /\ Cardinality(S) \in Nat
         /\ \A x \in S : Cardinality(b[x]) \in 0 .. Cardinality(S) - 1
         /\ \A x, y \in S : x \in b[y] => Cardinality(b[x]) < Cardinality(b[y])
         /\ \A i \in 1 .. Cardinality(S) : \E x \in S : Cardinality(b[x]) = i - 1
<1> DEFINE n == Cardinality(S)
           rank == [x \in S |-> Cardinality(b[x])]
<1>1. n \in Nat
  BY FS_CardinalityType
<1>2. \A x \in S : IsFiniteSet(b[x]) /\ Cardinality(b[x]) \in Nat
  BY FS_Subset, FS_CardinalityType DEF Precedes
<1>3. ASSUME NEW x \in S
      PROVE  Cardinality(b[x]) \in 0 .. n - 1
  <2>1. b[x] \in SUBSET (S \ {x})
    BY DEF Precedes
  <2>2. IsFiniteSet(S \ {x}) /\ Cardinality(S \ {x}) = n - 1
    BY FS_RemoveElement
  <2>3. Cardinality(b[x]) <= n - 1
    BY <2>1, <2>2, FS_Subset
  <2> QED  BY <1>1, <1>2, <2>3
<1>4. ASSUME NEW x \in S, NEW y \in S, x \in b[y]
      PROVE  Cardinality(b[x]) < Cardinality(b[y])
  <2>1. b[x] \in SUBSET b[y] /\ b[x] # b[y]
    BY <1>4 DEF Precedes
  <2>2. Cardinality(b[x]) <= Cardinality(b[y]) /\ Cardinality(b[x]) # Cardinality(b[y])
    BY <1>2, <2>1, FS_Subset
  <2> QED  BY <1>2, <2>2
<1>5. rank \in Injection(S, 0 .. n - 1)
  <2>1. rank \in [S -> 0 .. n - 1]
    BY <1>3
  <2>2. ASSUME NEW x \in S, NEW y \in S, rank[x] = rank[y]
        PROVE  x = y
    BY <1>2, <1>4, <2>2 DEF Precedes
  <2> QED  BY <2>1, <2>2 DEF Injection, IsInjective
<1>6. rank \in Surjection(S, 0 .. n - 1)
  <2>1. 0 \in Int /\ n - 1 \in Int
    BY <1>1
  <2>2. IsFiniteSet(0 .. n - 1) /\ Cardinality(0 .. n - 1) = n
    BY <1>1, <2>1, FS_Interval
  <2> QED  BY <1>5, <2>2, FS_Injection
<1>7. ASSUME NEW i \in 1 .. n
      PROVE  \E x \in S : Cardinality(b[x]) = i - 1
  <2>1. i - 1 \in 0 .. n - 1
    BY <1>1
  <2> QED  BY <1>6, <2>1 DEF Surjection
<1> QED  BY <1>1, <1>3, <1>4, <1>7

\* q has the members of S, each once, in the order of b.
Lists(q, S, b) ==
    /\ q \in Seq(S) /\ Len(q) = Cardinality(S) /\ Cardinality(S) \in Nat
    /\ \A i, j \in 1 .. Len(q) : i < j => q[i] \in b[q[j]] /\ q[i] # q[j]
    /\ \A x \in S : \E i \in 1 .. Len(q) : q[i] = x

\* A listing by the number of predecessors has every row once, in the order.
LEMMA Listings ==
  ASSUME NEW S, IsFiniteSet(S), NEW b, Precedes(b, S),
         NEW q \in [1 .. Cardinality(S) -> S],
         \A i \in 1 .. Cardinality(S) : Cardinality(b[q[i]]) = i - 1
  PROVE  Lists(q, S, b)
<1>1. Cardinality(S) \in Nat
  BY Ranks
<1>2. q \in Seq(S) /\ Len(q) = Cardinality(S)
  BY <1>1
<1>3. ASSUME NEW i \in 1 .. Cardinality(S), NEW j \in 1 .. Cardinality(S), i < j
      PROVE  q[i] \in b[q[j]] /\ q[i] # q[j]
  <2>1. q[i] # q[j]
    BY <1>1, <1>3
  <2>2. q[j] \notin b[q[i]]
    <3>1. SUFFICES ASSUME q[j] \in b[q[i]] PROVE FALSE
      OBVIOUS
    <3>2. Cardinality(b[q[j]]) < Cardinality(b[q[i]])
      BY <3>1, Ranks
    <3> QED  BY <1>1, <1>3, <3>2
  <2> QED  BY <2>1, <2>2 DEF Precedes
<1>4. ASSUME NEW x \in S
      PROVE  \E i \in 1 .. Cardinality(S) : q[i] = x
  <2> DEFINE i == Cardinality(b[x]) + 1
  <2>1. i \in 1 .. Cardinality(S) /\ Cardinality(b[x]) \in Nat
    BY <1>1, Ranks
  <2>2. q[i] \in S /\ Cardinality(b[q[i]]) = Cardinality(b[x])
    BY <2>1
  <2>3. q[i] \notin b[x] /\ x \notin b[q[i]]
    <3>1. ~ (Cardinality(b[q[i]]) < Cardinality(b[x])) /\ ~ (Cardinality(b[x]) < Cardinality(b[q[i]]))
      BY <2>1, <2>2
    <3> HIDE DEF i
    <3> QED  BY <2>2, <3>1, Ranks
  <2>4. q[i] = x
    BY <2>2, <2>3 DEF Precedes
  <2> QED  BY <2>1, <2>4
<1> QED  BY <1>1, <1>2, <1>3, <1>4 DEF Lists

\* Numbers in order.
LEMMA NumbersInOrder ==
  ASSUME NEW S \in SUBSET Nat, IsFiniteSet(S)
  PROVE  /\ Ascending(S) \in Seq(S) /\ Len(Ascending(S)) = Cardinality(S)
         /\ ToSet(Ascending(S)) = S
<1> DEFINE b == [x \in S |-> {y \in S : y < x}]
           q == Ascending(S)
<1>1. Precedes(b, S)
  <2>1. b \in [S -> SUBSET S]
    OBVIOUS
  <2>2. \A x, y \in S : x \in b[y] <=> x < y
    OBVIOUS
  <2> HIDE DEF b
  <2>3. \A x, y \in S : x \in Nat /\ y \in Nat
    OBVIOUS
  <2>4. \A x, y \in S : x \in b[y] => b[x] \subseteq b[y]
    <3>1. ASSUME NEW x \in S, NEW y \in S, x \in b[y], NEW z \in b[x] PROVE z \in b[y]
      <4>1. z \in S
        BY <2>1
      <4> QED  BY <2>2, <2>3, <3>1, <4>1
    <3> QED  BY <3>1
  <2> QED  BY <2>1, <2>2, <2>3, <2>4 DEF Precedes
<1>2. \A i \in 1 .. Cardinality(S) : \E x \in S : Cardinality(b[x]) = i - 1
  BY <1>1, Ranks
<1>3. q = [i \in 1 .. Cardinality(S) |-> CHOOSE x \in S : Cardinality({y \in S : y < x}) = i - 1]
  BY DEF Ascending, InOrder
<1>4. ASSUME NEW i \in 1 .. Cardinality(S)
      PROVE  q[i] \in S /\ Cardinality(b[q[i]]) = i - 1
  <2>1. q[i] = CHOOSE x \in S : Cardinality({y \in S : y < x}) = i - 1
    BY <1>3
  <2>2. \E x \in S : Cardinality({y \in S : y < x}) = i - 1
    BY <1>2
  <2>3. q[i] \in S /\ Cardinality({y \in S : y < q[i]}) = i - 1
    BY <2>1, <2>2
  <2> QED  BY <2>3
<1>5. q = [i \in 1 .. Cardinality(S) |-> q[i]]
  BY <1>3
<1> HIDE DEF q, b
<1>6. /\ q \in Seq(S) /\ Len(q) = Cardinality(S)
      /\ \A x \in S : \E i \in 1 .. Len(q) : q[i] = x
  <2>1. q \in [1 .. Cardinality(S) -> S]
    BY <1>4, <1>5
  <2>2. Lists(q, S, b)
    BY <1>1, <1>4, <2>1, Listings
  <2> QED  BY <2>2 DEF Lists
<1>7. ToSet(q) = S
  BY <1>6 DEF ToSet
<1> QED  BY <1>6, <1>7 DEF q

\* An arrangement of a set has all of it.
LEMMA Arrangements ==
  ASSUME NEW S, IsFiniteSet(S), NEW q \in SetToSeqs(S)
  PROVE  /\ Cardinality(S) \in Nat
         /\ q \in [1 .. Cardinality(S) -> S] /\ DOMAIN q = 1 .. Cardinality(S)
         /\ Len(q) = Cardinality(S)
         /\ \A i, j \in 1 .. Cardinality(S) : i # j => q[i] # q[j]
         /\ \A x \in S : \E i \in 1 .. Cardinality(S) : q[i] = x
<1>1. Cardinality(S) \in Nat
  BY FS_CardinalityType
<1>2. q \in [1 .. Cardinality(S) -> S] /\ \A i, j \in 1 .. Cardinality(S) : i # j => q[i] # q[j]
  BY DEF SetToSeqs
<1>3. q \in Injection(1 .. Cardinality(S), S)
  BY <1>2 DEF Injection, IsInjective
<1>4. Cardinality(1 .. Cardinality(S)) = Cardinality(S)
  BY <1>1, FS_Interval
<1>5. q \in Surjection(1 .. Cardinality(S), S)
  BY <1>3, <1>4, FS_Injection
<1> QED  BY <1>1, <1>2, <1>5 DEF Surjection

\* The values of a function with finitely many arguments are finitely many.
LEMMA Images ==
  ASSUME NEW S, IsFiniteSet(S), NEW f, DOMAIN f = S, f = [x \in S |-> f[x]],
         NEW T, T = {f[x] : x \in S}
  PROVE  IsFiniteSet(T)
<1>1. f \in Surjection(S, T)
  BY DEF Surjection
<1> QED  BY <1>1, FS_Surjection

-------------------------------------------------------------------------------
(* The largest member *)

\* A set of numbers that is not empty and has a bound has a maximum.
LEMMA Maximum ==
  ASSUME NEW S \in SUBSET Nat, S # {}, NEW n \in Nat, \A y \in S : y <= n
  PROVE  Max(S) \in S /\ \A y \in S : y <= Max(S)
<1> DEFINE bounds == {k \in Nat : \A y \in S : y <= k}
<1>1. bounds \subseteq Nat /\ bounds # {}
  OBVIOUS
<1>2. PICK x \in bounds : \A y \in bounds : ~ (<<y, x>> \in OpToRel(<, Nat))
  BY <1>1, NatLessThanWellFounded, WFMin
<1>3. \A y \in bounds : ~ (y < x)
  BY <1>2 DEF OpToRel
<1>4. x \in S
  <2>1. SUFFICES ASSUME x \notin S PROVE FALSE
    OBVIOUS
  <2>2. x \in Nat /\ \A y \in S : y \in Nat /\ y < x
    BY <2>1
  <2>3. x - 1 \in Nat
    <3>1. PICK y \in S : TRUE
      OBVIOUS
    <3>2. x \in Nat /\ y \in Nat /\ y < x
      BY <2>2
    <3> QED  BY <3>2
  <2>4. x - 1 \in bounds
    BY <2>2, <2>3
  <2> QED  BY <1>3, <2>2, <2>4
<1>5. \A y \in S : x >= y
  OBVIOUS
<1> QED  BY <1>4, <1>5 DEF Max

-------------------------------------------------------------------------------
(* Sums *)

\* A family of subsets of a finite set has a member that contains no other.
LEMMA SmallestSet ==
  ASSUME NEW S, IsFiniteSet(S), NEW family \in SUBSET (SUBSET S), family # {}
  PROVE  \E T \in family : \A U \in family : U \subseteq T => U = T
<1>1. FiniteSubsetsOf(S) = SUBSET S
  BY FS_FiniteSubsetsOfFinite
<1>2. IsWellFoundedOn(StrictSubsetOrdering(S), SUBSET S)
  BY <1>1, FS_StrictSubsetOrderingWellFounded
<1>3. PICK T \in family : \A U \in family : ~ (<<U, T>> \in StrictSubsetOrdering(S))
  BY <1>2, WFMin
<1>4. ASSUME NEW U \in family, U \subseteq T
      PROVE  U = T
  BY <1>3, <1>4 DEF StrictSubsetOrdering
<1> QED  BY <1>4

\* The member of a set that a sum takes first.
FirstOf(s) == CHOOSE x \in s : TRUE

\* What the sum of f over the subset s is, h having the sums over the smaller ones.
SumStep(f, h, s) == IF s = {} THEN 0 ELSE f[FirstOf(s)] + h[s \ {FirstOf(s)}]

\* h has the sums of f over the subsets of S.
Adds(h, f, S) == h = [s \in SUBSET S |-> SumStep(f, h, s)]

LEMMA FirstIsMember ==
  ASSUME NEW s, s # {}
  PROVE  FirstOf(s) \in s
BY DEF FirstOf

\* The sums over a set and over one that contains it agree.
LEMMA AddsAgree ==
  ASSUME NEW f, NEW S, IsFiniteSet(S), NEW T \in SUBSET S,
         NEW g, Adds(g, f, S), NEW h, Adds(h, f, T), NEW any \in SUBSET T
  PROVE  g[any] = h[any]
<1> DEFINE bad == {s \in SUBSET T : g[s] # h[s]}
<1>1. SUFFICES ASSUME bad # {} PROVE FALSE
  OBVIOUS
<1>2. IsFiniteSet(T)
  BY FS_Subset
<1>3. PICK s \in bad : \A r \in bad : r \subseteq s => r = s
  <2>1. bad \in SUBSET (SUBSET T)
    OBVIOUS
  <2> HIDE DEF bad
  <2> QED  BY <1>1, <1>2, <2>1, SmallestSet
<1>4. g[s] = SumStep(f, g, s) /\ h[s] = SumStep(f, h, s)
  BY DEF Adds
<1>5. s # {}
  BY <1>4 DEF SumStep
<1>6. s \ {FirstOf(s)} \notin bad
  BY <1>3, <1>5, FirstIsMember
<1>7. g[s \ {FirstOf(s)}] = h[s \ {FirstOf(s)}]
  BY <1>6
<1> QED  BY <1>4, <1>7 DEF SumStep

\* There are sums over the subsets of every finite set.
LEMMA AddsExist ==
  ASSUME NEW f, NEW S, IsFiniteSet(S)
  PROVE  \E h : Adds(h, f, S)
<1> DEFINE bad == {T \in SUBSET S : ~ \E h : Adds(h, f, T)}
<1>1. SUFFICES ASSUME bad # {} PROVE FALSE
  OBVIOUS
<1>2. PICK T \in bad : \A U \in bad : U \subseteq T => U = T
  <2>1. bad \in SUBSET (SUBSET S)
    OBVIOUS
  <2> HIDE DEF bad
  <2> QED  BY <1>1, <2>1, SmallestSet
<1> DEFINE sums == [U \in SUBSET T |-> CHOOSE h : Adds(h, f, U)]
           less(s) == s \ {FirstOf(s)}
           g == [s \in SUBSET T |-> IF s = {} THEN 0 ELSE f[FirstOf(s)] + sums[less(s)][less(s)]]
<1>3. ASSUME NEW U \in SUBSET T, U # T
      PROVE  Adds(sums[U], f, U)
  <2>1. \E h : Adds(h, f, U)
    BY <1>2, <1>3
  <2>2. sums[U] = CHOOSE h : Adds(h, f, U)
    OBVIOUS
  <2> QED  BY <2>1, <2>2
<1>4. ASSUME NEW s \in SUBSET T, s # {}
      PROVE  less(s) \in SUBSET T /\ less(s) # T /\ less(s) \subseteq s
  BY <1>4, FirstIsMember
<1> HIDE DEF sums
<1>5. ASSUME NEW U \in SUBSET T, U # T
      PROVE  sums[U][U] = g[U]
  <2>1. sums[U][U] = SumStep(f, sums[U], U)
    BY <1>3, <1>5 DEF Adds
  <2>2. CASE U = {}
    BY <2>1, <2>2 DEF SumStep
  <2>3. CASE U # {}
    <3>1. Adds(sums[U], f, U)
      BY <1>3, <1>5
    <3>2. less(U) \in SUBSET U /\ less(U) \in SUBSET T /\ less(U) # T
      BY <1>4, <1>5, <2>3
    <3>3. Adds(sums[less(U)], f, less(U))
      BY <1>3, <3>2
    <3>4. IsFiniteSet(U)
      BY FS_Subset
    <3>5. \A V \in SUBSET U : \A a, b : Adds(a, f, U) /\ Adds(b, f, V) => a[V] = b[V]
      BY <3>4, AddsAgree
    <3>6. sums[U][less(U)] = sums[less(U)][less(U)]
      BY <3>1, <3>2, <3>3, <3>5
    <3> QED  BY <2>1, <2>3, <3>6 DEF SumStep
  <2> QED  BY <2>2, <2>3
<1>6. ASSUME NEW s \in SUBSET T
      PROVE  g[s] = SumStep(f, g, s)
  <2>1. CASE s = {}
    BY <2>1 DEF SumStep
  <2>2. CASE s # {}
    <3>1. sums[less(s)][less(s)] = g[less(s)]
      BY <1>4, <1>5, <2>2
    <3>2. g[s] = f[FirstOf(s)] + sums[less(s)][less(s)]
      BY <2>2
    <3> HIDE DEF g
    <3> QED  BY <2>2, <3>1, <3>2 DEF SumStep
  <2> QED  BY <2>1, <2>2
<1>7. Adds(g, f, T)
  <2>1. g = [s \in SUBSET T |-> g[s]]
    OBVIOUS
  <2> HIDE DEF g
  <2> QED  BY <1>6, <2>1 DEF Adds
<1> QED  BY <1>2, <1>7

\* A sum takes one member after the other.
LEMMA SumOneByOne ==
  ASSUME NEW f, NEW S, IsFiniteSet(S)
  PROVE  SumFunctionOnSet(f, S) =
            IF S = {} THEN 0 ELSE f[FirstOf(S)] + SumFunctionOnSet(f, S \ {FirstOf(S)})
<1> DEFINE sums(T) == CHOOSE h : Adds(h, f, T)
<1>1. ASSUME NEW T
      PROVE  SumFunctionOnSet(f, T) = sums(T)[T]
  BY DEF SumFunctionOnSet, FoldFunctionOnSet, MapThenFoldSet, Adds, SumStep, FirstOf
<1>2. ASSUME NEW T, IsFiniteSet(T)
      PROVE  Adds(sums(T), f, T)
  BY <1>2, AddsExist
<1> HIDE DEF sums
<1>3. sums(S)[S] = SumStep(f, sums(S), S)
  BY <1>2 DEF Adds
<1>4. CASE S = {}
  BY <1>1, <1>3, <1>4 DEF SumStep
<1>5. CASE S # {}
  <2> DEFINE less == S \ {FirstOf(S)}
  <2>1. IsFiniteSet(less) /\ less \in SUBSET S
    BY FS_Subset
  <2>2. Adds(sums(S), f, S) /\ Adds(sums(less), f, less)
    BY <1>2, <2>1
  <2>3. sums(S)[less] = sums(less)[less]
    <3> HIDE DEF less
    <3> QED  BY <2>1, <2>2, AddsAgree
  <2>4. sums(S)[less] = SumFunctionOnSet(f, less)
    BY <1>1, <2>3
  <2> QED  BY <1>1, <1>3, <1>5, <2>4 DEF SumStep
<1> QED  BY <1>4, <1>5

\* f has a number for each member of S, of which there are finitely many.
Summable(f, S) == IsFiniteSet(S) /\ \A x \in S : f[x] \in Nat

LEMMA SummableSubset ==
  ASSUME NEW f, NEW S, Summable(f, S), NEW T \in SUBSET S
  PROVE  Summable(f, T) /\ IsFiniteSet(T)
BY FS_Subset DEF Summable

\* A sum of natural numbers is one; that over no member is zero.
LEMMA SumType ==
  ASSUME NEW f, NEW S, Summable(f, S)
  PROVE  SumFunctionOnSet(f, S) \in Nat
<1> DEFINE bad == {T \in SUBSET S : SumFunctionOnSet(f, T) \notin Nat}
<1>1. SUFFICES ASSUME bad # {} PROVE FALSE
  OBVIOUS
<1>2. PICK T \in bad : \A U \in bad : U \subseteq T => U = T
  <2>1. bad \in SUBSET (SUBSET S) /\ IsFiniteSet(S)
    BY DEF Summable
  <2> HIDE DEF bad
  <2> QED  BY <1>1, <2>1, SmallestSet
<1>3. IsFiniteSet(T)
  BY SummableSubset
<1>4. CASE T = {}
  <2>1. SumFunctionOnSet(f, T) = 0
    BY <1>3, <1>4, SumOneByOne
  <2> QED  BY <2>1
<1>5. CASE T # {}
  <2>1. FirstOf(T) \in T /\ f[FirstOf(T)] \in Nat
    BY <1>5, FirstIsMember DEF Summable
  <2>2. SumFunctionOnSet(f, T) = f[FirstOf(T)] + SumFunctionOnSet(f, T \ {FirstOf(T)})
    BY <1>3, <1>5, SumOneByOne
  <2>3. T \ {FirstOf(T)} \notin bad
    BY <1>2, <2>1
  <2>4. SumFunctionOnSet(f, T \ {FirstOf(T)}) \in Nat
    BY <2>3
  <2> QED  BY <2>1, <2>2, <2>4
<1> QED  BY <1>4, <1>5

LEMMA SumOfNone ==
  ASSUME NEW f
  PROVE  SumFunctionOnSet(f, {}) = 0
BY FS_EmptySet, SumOneByOne

\* Any member may be taken first.
LEMMA SumWithout ==
  ASSUME NEW f, NEW S, Summable(f, S), NEW any \in S
  PROVE  SumFunctionOnSet(f, S) = f[any] + SumFunctionOnSet(f, S \ {any})
<1> DEFINE sum(T) == SumFunctionOnSet(f, T)
           bad == {T \in SUBSET S : \E x \in T : sum(T) # f[x] + sum(T \ {x})}
<1>1. SUFFICES ASSUME bad # {} PROVE FALSE
  OBVIOUS
<1>2. PICK T \in bad : \A U \in bad : U \subseteq T => U = T
  <2>1. bad \in SUBSET (SUBSET S) /\ IsFiniteSet(S)
    BY DEF Summable
  <2> HIDE DEF bad
  <2> QED  BY <1>1, <2>1, SmallestSet
<1>3. PICK x \in T : sum(T) # f[x] + sum(T \ {x})
  BY <1>2
<1> DEFINE y == FirstOf(T)
           rest == T \ {x}
<1>4. y \in T /\ sum(T) = f[y] + sum(T \ {y})
  BY FirstIsMember, SummableSubset, SumOneByOne
<1>5. y # x
  BY <1>3, <1>4
<1>6. T \ {y} \notin bad /\ rest \notin bad
  BY <1>2, <1>4
<1> HIDE DEF y
<1>7. sum(T \ {y}) = f[x] + sum((T \ {y}) \ {x}) /\ sum(rest) = f[y] + sum(rest \ {y})
  BY <1>4, <1>5, <1>6
<1>8. sum((T \ {y}) \ {x}) = sum(rest \ {y})
  <2>1. (T \ {y}) \ {x} = rest \ {y}
    OBVIOUS
  <2> QED  BY <2>1, Zenon
<1>9. f[x] \in Nat /\ f[y] \in Nat /\ sum(rest \ {y}) \in Nat
  BY <1>4, SummableSubset, SumType DEF Summable
<1> QED  BY <1>3, <1>4, <1>7, <1>8, <1>9

\* Functions that agree on a set have the same sum over it.
LEMMA SumAgrees ==
  ASSUME NEW f, NEW g, NEW S, IsFiniteSet(S), \A x \in S : f[x] = g[x]
  PROVE  SumFunctionOnSet(f, S) = SumFunctionOnSet(g, S)
<1> DEFINE bad == {T \in SUBSET S : SumFunctionOnSet(f, T) # SumFunctionOnSet(g, T)}
<1>1. SUFFICES ASSUME bad # {} PROVE FALSE
  OBVIOUS
<1>2. PICK T \in bad : \A U \in bad : U \subseteq T => U = T
  <2>1. bad \in SUBSET (SUBSET S)
    OBVIOUS
  <2> HIDE DEF bad
  <2> QED  BY <1>1, <2>1, SmallestSet
<1>3. IsFiniteSet(T)
  BY FS_Subset
<1>4. T # {}
  BY SumOfNone
<1>5. SumFunctionOnSet(f, T) = f[FirstOf(T)] + SumFunctionOnSet(f, T \ {FirstOf(T)})
      /\ SumFunctionOnSet(g, T) = g[FirstOf(T)] + SumFunctionOnSet(g, T \ {FirstOf(T)})
  BY <1>3, <1>4, SumOneByOne
<1>6. FirstOf(T) \in T /\ T \ {FirstOf(T)} \notin bad
  BY <1>2, <1>4, FirstIsMember
<1> QED  BY <1>5, <1>6

\* The sum over two sets without a common member, and over a part of a set.
LEMMA SumOfUnion ==
  ASSUME NEW f, NEW S, Summable(f, S), NEW A \in SUBSET S, NEW B \in SUBSET S, A \cap B = {}
  PROVE  SumFunctionOnSet(f, A \cup B) = SumFunctionOnSet(f, A) + SumFunctionOnSet(f, B)
<1> DEFINE sum(T) == SumFunctionOnSet(f, T)
           bad == {T \in SUBSET A : sum(T \cup B) # sum(T) + sum(B)}
<1>1. SUFFICES ASSUME bad # {} PROVE FALSE
  OBVIOUS
<1>2. PICK T \in bad : \A U \in bad : U \subseteq T => U = T
  <2>1. bad \in SUBSET (SUBSET A) /\ IsFiniteSet(A)
    BY SummableSubset
  <2> HIDE DEF bad
  <2> QED  BY <1>1, <2>1, SmallestSet
<1>3. Summable(f, T) /\ Summable(f, B) /\ Summable(f, T \cup B)
  BY SummableSubset
<1>4. sum(T) \in Nat /\ sum(B) \in Nat
  BY <1>3, SumType
<1>5. CASE T = {}
  BY <1>4, <1>5, SumOfNone
<1>6. CASE T # {}
  <2>1. PICK x \in T : TRUE
    BY <1>6
  <2>2. sum(T) = f[x] + sum(T \ {x})
    BY <1>3, SumWithout
  <2>3. sum(T \cup B) = f[x] + sum((T \cup B) \ {x})
    BY <1>3, SumWithout
  <2>4. sum((T \cup B) \ {x}) = sum((T \ {x}) \cup B)
    <3>1. (T \cup B) \ {x} = (T \ {x}) \cup B
      OBVIOUS
    <3> QED  BY <3>1, Zenon
  <2>5. T \ {x} \notin bad
    BY <1>2
  <2>6. sum((T \ {x}) \cup B) = sum(T \ {x}) + sum(B)
    BY <2>5
  <2>7. f[x] \in Nat /\ sum(T \ {x}) \in Nat
    BY <1>3, SummableSubset, SumType DEF Summable
  <2> QED  BY <1>4, <2>2, <2>3, <2>4, <2>6, <2>7
<1> QED  BY <1>5, <1>6

LEMMA SumOfPart ==
  ASSUME NEW f, NEW S, Summable(f, S), NEW A \in SUBSET S
  PROVE  SumFunctionOnSet(f, S) = SumFunctionOnSet(f, A) + SumFunctionOnSet(f, S \ A)
         /\ SumFunctionOnSet(f, A) \in Nat /\ SumFunctionOnSet(f, S) \in Nat
         /\ SumFunctionOnSet(f, S \ A) \in Nat
         /\ SumFunctionOnSet(f, A) <= SumFunctionOnSet(f, S)
<1>1. SumFunctionOnSet(f, A \cup (S \ A)) = SumFunctionOnSet(f, A) + SumFunctionOnSet(f, S \ A)
  BY SumOfUnion
<1>2. A \cup (S \ A) = S
  OBVIOUS
<1>3. SumFunctionOnSet(f, A) \in Nat /\ SumFunctionOnSet(f, S \ A) \in Nat
  BY SummableSubset, SumType
<1> QED  BY <1>1, <1>2, <1>3

\* The members of S that k takes to v.
Group(k, S, v) == {x \in S : k[x] = v}

\* Where k groups the members of S, g has the sum of each group: the sums of the
\* groups add up to the sum.
LEMMA SumOfGroups ==
  ASSUME NEW f, NEW S, Summable(f, S), NEW V, IsFiniteSet(V), NEW k \in [S -> V], NEW g,
         \A v \in V : g[v] = SumFunctionOnSet(f, Group(k, S, v))
  PROVE  SumFunctionOnSet(g, V) = SumFunctionOnSet(f, S)
<1> DEFINE of(W) == {x \in S : k[x] \in W}
           bad == {W \in SUBSET V : SumFunctionOnSet(g, W) # SumFunctionOnSet(f, of(W))}
<1>1. SUFFICES ASSUME bad # {} PROVE FALSE
  <2>1. V \notin bad
    BY <1>1
  <2>2. of(V) = S
    OBVIOUS
  <2> QED  BY <2>1, <2>2
<1>2. PICK W \in bad : \A U \in bad : U \subseteq W => U = W
  <2>1. bad \in SUBSET (SUBSET V)
    OBVIOUS
  <2> HIDE DEF bad
  <2> QED  BY <1>1, <2>1, SmallestSet
<1>3. \A v \in V : g[v] \in Nat
  <2>1. ASSUME NEW v \in V
        PROVE  g[v] \in Nat
    <3>1. \A T \in SUBSET S : SumFunctionOnSet(f, T) \in Nat
      BY SummableSubset, SumType
    <3>2. Group(k, S, v) \in SUBSET S
      BY DEF Group
    <3> QED  BY <3>1, <3>2
  <2> QED  BY <2>1
<1>4. Summable(g, W)
  BY <1>3, FS_Subset DEF Summable
<1>5. CASE W = {}
  <2>1. of(W) = {}
    BY <1>5
  <2> QED  BY <1>5, <2>1, SumOfNone
<1>6. CASE W # {}
  <2>1. PICK v \in W : TRUE
    BY <1>6
  <2> DEFINE own == Group(k, S, v)
             less == W \ {v}
  <2>2. SumFunctionOnSet(g, W) = g[v] + SumFunctionOnSet(g, less)
    BY <1>4, SumWithout
  <2>3. less \notin bad
    BY <1>2
  <2>4. SumFunctionOnSet(g, less) = SumFunctionOnSet(f, of(less))
    BY <2>3
  <2>5. of(W) = own \cup of(less) /\ own \cap of(less) = {}
    BY DEF Group
  <2>6. SumFunctionOnSet(f, own \cup of(less)) = SumFunctionOnSet(f, own) + SumFunctionOnSet(f, of(less))
    <3>1. own \in SUBSET S /\ of(less) \in SUBSET S
      BY DEF Group
    <3>2. \A A, B \in SUBSET S : A \cap B = {} =>
             SumFunctionOnSet(f, A \cup B) = SumFunctionOnSet(f, A) + SumFunctionOnSet(f, B)
      BY SumOfUnion
    <3> HIDE DEF own, of
    <3> QED  BY <2>5, <3>1, <3>2
  <2>7. g[v] = SumFunctionOnSet(f, own)
    OBVIOUS
  <2> QED  BY <2>2, <2>4, <2>5, <2>6, <2>7
<1> QED  BY <1>5, <1>6
=============================================================================
