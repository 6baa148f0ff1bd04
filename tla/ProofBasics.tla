---------------------------- MODULE ProofBasics ----------------------------
(***************************************************************************)
(* What the proofs of several components need: induction over the natural   *)
(* numbers, sums over finite sets, loops and flattened sequences.  Induction *)
(* is stated for sets, since a theorem about every predicate can not be     *)
(* applied to one.                                                          *)
(***************************************************************************)
EXTENDS Functions, SequencesExt, FiniteSetTheorems, SequenceTheorems, TLAPS

\* A set of natural numbers that is not empty has a smallest element.
LEMMA SmallestOfNat ==
  ASSUME NEW T, T \subseteq Nat, T # {}
  PROVE  \E i \in T : \A j \in T : i <= j
<1> DEFINE R == OpToRel(<, Nat)
<1>1. IsWellFoundedOn(R, Nat)
  BY NatLessThanWellFounded
<1>2. \A x, y \in Nat : x < y => <<x, y>> \in R
  BY DEF OpToRel
<1> HIDE DEF R
<1>3. PICK i \in T : \A j \in T : <<j, i>> \notin R
  BY <1>1, WFMin
<1>4. ASSUME NEW j \in T PROVE i <= j
  <2>1. i \in Nat /\ j \in Nat /\ ~(j < i)
    BY <1>2, <1>3
  <2> QED
    BY <2>1
<1> QED
  BY <1>4

\* A set that holds 0, and with every number the next one, holds them all.
LEMMA SetInduction ==
  ASSUME NEW P, 0 \in P, \A n \in Nat : n \in P => n + 1 \in P
  PROVE  Nat \subseteq P
<1> SUFFICES ASSUME Nat \ P # {} PROVE FALSE
  OBVIOUS
<1>1. PICK i \in Nat \ P : \A j \in Nat \ P : i <= j
  <2> DEFINE T == Nat \ P
  <2>1. T \subseteq Nat /\ T # {}
    OBVIOUS
  <2> HIDE DEF T
  <2>2. \E i \in T : \A j \in T : i <= j
    BY <2>1, SmallestOfNat
  <2> QED
    BY <2>2 DEF T
<1>2. i # 0 /\ i - 1 \in Nat /\ (i - 1) + 1 = i
  BY <1>1
<1>3. i - 1 \in P
  BY <1>1, <1>2
<1> QED
  BY <1>1, <1>2, <1>3

---------------------------------------------------------------------------
(* Sums.                                                                    *)

\* The element that a sum over s takes first.
Taken(s) == CHOOSE x \in s : TRUE

\* One step of the recursion that computes the sum of f over s.
SumStep(g, f, s) == IF s = {} THEN 0 ELSE f[Taken(s)] + g[s \ {Taken(s)}]

\* g gives the sum of f over every subset of S.
IsSum(g, f, S) == g = [s \in SUBSET S |-> SumStep(g, f, s)]

\* The sum is the one of the function that the recursion defines.
LEMMA SumIs ==
  ASSUME NEW f, NEW S
  PROVE  SumFunctionOnSet(f, S) = (CHOOSE g : IsSum(g, f, S))[S]
BY DEF SumFunctionOnSet, FoldFunctionOnSet, MapThenFoldSet, IsSum, SumStep, Taken

\* Subsets of a finite set, without one of their elements.
LEMMA SubsetFacts ==
  ASSUME NEW S, IsFiniteSet(S), NEW s \in SUBSET S
  PROVE  /\ IsFiniteSet(s) /\ Cardinality(s) \in Nat /\ Cardinality(s) <= Cardinality(S)
         /\ Cardinality(S) \in Nat
         /\ s = {} <=> Cardinality(s) = 0
         /\ s # {} => Taken(s) \in s
         /\ \A x \in s : s \ {x} \in SUBSET S /\ Cardinality(s \ {x}) = Cardinality(s) - 1
<1>1. IsFiniteSet(s) /\ Cardinality(s) <= Cardinality(S)
  BY FS_Subset
<1>2. Cardinality(s) \in Nat /\ Cardinality(S) \in Nat
  BY <1>1, FS_CardinalityType
<1>3. s = {} <=> Cardinality(s) = 0
  BY <1>1, FS_EmptySet
<1>4. \A x \in s : s \ {x} \in SUBSET S /\ Cardinality(s \ {x}) = Cardinality(s) - 1
  BY <1>1, FS_RemoveElement
<1> QED
  BY <1>1, <1>2, <1>3, <1>4 DEF Taken

\* The recursion has a solution: extend one for the sets of at most n elements.
LEMMA SumExists ==
  ASSUME NEW S, IsFiniteSet(S), NEW f, \A x \in S : f[x] \in Nat
  PROVE  \E g : IsSum(g, f, S)
<1> DEFINE Upto(g, n) == \A s \in SUBSET S : Cardinality(s) <= n => g[s] = SumStep(g, f, s)
           P == {n \in Nat : \E g \in [SUBSET S -> Nat] : Upto(g, n)}
<1>1. 0 \in P
  <2> DEFINE g == [s \in SUBSET S |-> 0]
  <2>1. Upto(g, 0)
    BY SubsetFacts DEF SumStep
  <2>2. g \in [SUBSET S -> Nat]
    OBVIOUS
  <2> HIDE DEF g
  <2> QED
    BY <2>1, <2>2
<1>2. ASSUME NEW n \in Nat, n \in P PROVE n + 1 \in P
  <2>1. PICK g \in [SUBSET S -> Nat] : Upto(g, n)
    BY <1>2
  <2> DEFINE h == [s \in SUBSET S |-> IF Cardinality(s) = n + 1 THEN SumStep(g, f, s) ELSE g[s]]
  <2>2. ASSUME NEW s \in SUBSET S PROVE SumStep(g, f, s) \in Nat
    <3>1. s # {} => Taken(s) \in S /\ s \ {Taken(s)} \in SUBSET S
      BY SubsetFacts
    <3> QED
      BY <3>1 DEF SumStep
  <2>3. h \in [SUBSET S -> Nat]
    BY <2>2
  <2>4. ASSUME NEW s \in SUBSET S, Cardinality(s) <= n + 1 PROVE h[s] = SumStep(h, f, s)
    <3>1. CASE s = {}
      BY <2>1, <3>1, SubsetFacts DEF SumStep
    <3>2. CASE s # {}
      <4> DEFINE t == s \ {Taken(s)}
      <4>1. t \in SUBSET S /\ Cardinality(t) = Cardinality(s) - 1 /\ Cardinality(s) \in Nat
        BY <3>2, SubsetFacts
      <4>2. h[t] = g[t]
        BY <2>4, <4>1
      <4>3. SumStep(h, f, s) = SumStep(g, f, s)
        BY <3>2, <4>2 DEF SumStep
      <4>4. h[s] = SumStep(g, f, s)
        <5>1. CASE Cardinality(s) = n + 1
          BY <5>1
        <5>2. CASE Cardinality(s) # n + 1
          BY <2>1, <2>4, <4>1, <5>2
        <5> QED
          BY <5>1, <5>2
      <4> QED
        BY <4>3, <4>4
    <3> QED
      BY <3>1, <3>2
  <2>5. Upto(h, n + 1)
    BY <2>4
  <2> HIDE DEF h
  <2> QED
    BY <2>3, <2>5
<1>3. Nat \subseteq P
  <2> HIDE DEF P
  <2> QED
    BY <1>1, <1>2, SetInduction
<1>4. Cardinality(S) \in Nat
  BY SubsetFacts
<1>5. PICK g \in [SUBSET S -> Nat] : Upto(g, Cardinality(S))
  BY <1>3, <1>4
<1>6. \A s \in SUBSET S : g[s] = SumStep(g, f, s)
  BY <1>5, SubsetFacts
<1> QED
  BY <1>6 DEF IsSum

\* Solutions for sets that overlap agree where the functions do.
LEMMA SumUnique ==
  ASSUME NEW S, NEW T, NEW U, IsFiniteSet(U), U \subseteq S, U \subseteq T,
         NEW f, NEW e, \A x \in U : f[x] = e[x],
         NEW g, IsSum(g, f, S), NEW h, IsSum(h, e, T)
  PROVE  g[U] = h[U]
<1> DEFINE P == {n \in Nat : \A s \in SUBSET U : Cardinality(s) = n => g[s] = h[s]}
<1>1. \A s \in SUBSET U : g[s] = SumStep(g, f, s) /\ h[s] = SumStep(h, e, s)
  BY DEF IsSum
<1>2. 0 \in P
  BY <1>1, SubsetFacts DEF SumStep
<1>3. ASSUME NEW n \in Nat, n \in P PROVE n + 1 \in P
  <2>1. ASSUME NEW s \in SUBSET U, Cardinality(s) = n + 1 PROVE g[s] = h[s]
    <3>1. s # {}
      BY <2>1, SubsetFacts
    <3>2. Taken(s) \in U /\ s \ {Taken(s)} \in SUBSET U /\ Cardinality(s \ {Taken(s)}) = n
      BY <2>1, <3>1, SubsetFacts
    <3>3. g[s \ {Taken(s)}] = h[s \ {Taken(s)}]
      BY <1>3, <3>2
    <3> QED
      BY <1>1, <3>1, <3>2, <3>3 DEF SumStep
  <2> QED
    BY <2>1
<1>4. Nat \subseteq P
  <2> HIDE DEF P
  <2> QED
    BY <1>2, <1>3, SetInduction
<1>5. Cardinality(U) \in Nat
  BY SubsetFacts
<1> QED
  BY <1>4, <1>5

\* A solution gives natural numbers.
LEMMA SumTyped ==
  ASSUME NEW S, IsFiniteSet(S), NEW f, \A x \in S : f[x] \in Nat, NEW g, IsSum(g, f, S)
  PROVE  \A s \in SUBSET S : g[s] \in Nat
<1> DEFINE P == {n \in Nat : \A s \in SUBSET S : Cardinality(s) = n => g[s] \in Nat}
<1>1. \A s \in SUBSET S : g[s] = SumStep(g, f, s)
  BY DEF IsSum
<1>2. 0 \in P
  BY <1>1, SubsetFacts DEF SumStep
<1>3. ASSUME NEW n \in Nat, n \in P PROVE n + 1 \in P
  <2>1. ASSUME NEW s \in SUBSET S, Cardinality(s) = n + 1 PROVE g[s] \in Nat
    <3>1. s # {}
      BY <2>1, SubsetFacts
    <3>2. Taken(s) \in S /\ s \ {Taken(s)} \in SUBSET S /\ Cardinality(s \ {Taken(s)}) = n
      BY <2>1, <3>1, SubsetFacts
    <3>3. g[s \ {Taken(s)}] \in Nat /\ f[Taken(s)] \in Nat
      BY <1>3, <3>2
    <3>4. g[s] = f[Taken(s)] + g[s \ {Taken(s)}]
      BY <1>1, <3>1 DEF SumStep
    <3> QED
      BY <3>3, <3>4
  <2> QED
    BY <2>1
<1>4. Nat \subseteq P
  <2> HIDE DEF P
  <2> QED
    BY <1>2, <1>3, SetInduction
<1> QED
  BY <1>4, SubsetFacts

\* Any element may be taken first: by the induction hypothesis two elements may
\* change places.
LEMMA SumOrder ==
  ASSUME NEW S, IsFiniteSet(S), NEW f, \A x \in S : f[x] \in Nat, NEW g, IsSum(g, f, S)
  PROVE  \A s \in SUBSET S : \A x \in s : g[s] = f[x] + g[s \ {x}]
<1> DEFINE Swap(s) == \A x \in s : g[s] = f[x] + g[s \ {x}]
           P == {n \in Nat : \A s \in SUBSET S : Cardinality(s) = n => Swap(s)}
<1>1. \A s \in SUBSET S : g[s] = SumStep(g, f, s)
  BY DEF IsSum
<1>2. 0 \in P
  BY SubsetFacts
<1>3. ASSUME NEW n \in Nat, n \in P PROVE n + 1 \in P
  <2>1. ASSUME NEW s \in SUBSET S, Cardinality(s) = n + 1, NEW x \in s
        PROVE  g[s] = f[x] + g[s \ {x}]
    <3> DEFINE c == Taken(s)
               t == (s \ {c}) \ {x}
    <3>1. s # {} /\ c \in s
      BY SubsetFacts
    <3>2. g[s] = f[c] + g[s \ {c}]
      BY <1>1, <3>1 DEF SumStep
    <3>3. CASE x = c
      BY <3>2, <3>3
    <3>4. CASE x # c
      <4>1. /\ s \ {c} \in SUBSET S /\ Cardinality(s \ {c}) = n /\ x \in s \ {c}
            /\ s \ {x} \in SUBSET S /\ Cardinality(s \ {x}) = n /\ c \in s \ {x}
        BY <2>1, <3>1, <3>4, SubsetFacts
      <4>2. Swap(s \ {c}) /\ Swap(s \ {x})
        BY <1>3, <4>1
      <4>3. (s \ {x}) \ {c} = t /\ t \in SUBSET S
        OBVIOUS
      <4>4. g[s \ {c}] = f[x] + g[t]
        BY <4>1, <4>2
      <4>5. g[s \ {x}] = f[c] + g[t]
        BY <4>1, <4>2, <4>3
      <4>6. f[x] \in Nat /\ f[c] \in Nat /\ g[t] \in Nat
        BY <3>1, <4>3, SumTyped
      <4> QED
        BY <3>2, <4>4, <4>5, <4>6
    <3> QED
      BY <3>3, <3>4
  <2> QED
    BY <2>1
<1>4. Nat \subseteq P
  <2> HIDE DEF P
  <2> QED
    BY <1>2, <1>3, SetInduction
<1>5. ASSUME NEW s \in SUBSET S PROVE Swap(s)
  BY <1>4, SubsetFacts
<1> QED
  BY <1>5

---------------------------------------------------------------------------
(* What is used of sums.                                                    *)

\* The function that the sum over S is taken from.
LEMMA SumSolution ==
  ASSUME NEW S, IsFiniteSet(S), NEW f, \A x \in S : f[x] \in Nat
  PROVE  \E g : IsSum(g, f, S) /\ SumFunctionOnSet(f, S) = g[S]
<1>1. \E g : IsSum(g, f, S)
  BY SumExists
<1>2. IsSum(CHOOSE g : IsSum(g, f, S), f, S)
  BY <1>1
<1> QED
  BY <1>2, SumIs

\* A sum of natural numbers is one.
LEMMA SumType ==
  ASSUME NEW S, IsFiniteSet(S), NEW f, \A x \in S : f[x] \in Nat
  PROVE  SumFunctionOnSet(f, S) \in Nat
BY SumSolution, SumTyped

\* A sum only depends on its summands.
LEMMA SumSame ==
  ASSUME NEW S, IsFiniteSet(S), NEW f, NEW e, \A x \in S : f[x] \in Nat /\ f[x] = e[x]
  PROVE  SumFunctionOnSet(f, S) = SumFunctionOnSet(e, S)
<1>1. PICK g : IsSum(g, f, S) /\ SumFunctionOnSet(f, S) = g[S]
  BY SumSolution
<1>2. PICK h : IsSum(h, e, S) /\ SumFunctionOnSet(e, S) = h[S]
  BY SumSolution
<1>3. g[S] = h[S]
  BY <1>1, <1>2, SumUnique
<1> QED
  BY <1>1, <1>2, <1>3

\* The empty sum.
LEMMA SumEmpty ==
  ASSUME NEW f PROVE SumFunctionOnSet(f, {}) = 0
<1>1. PICK g : IsSum(g, f, {}) /\ SumFunctionOnSet(f, {}) = g[{}]
  BY FS_EmptySet, SumSolution
<1> QED
  BY <1>1 DEF IsSum, SumStep

\* One summand taken out.
LEMMA SumSplit ==
  ASSUME NEW S, IsFiniteSet(S), NEW f, \A x \in S : f[x] \in Nat, NEW x \in S
  PROVE  SumFunctionOnSet(f, S) = f[x] + SumFunctionOnSet(f, S \ {x})
<1>1. PICK g : IsSum(g, f, S) /\ SumFunctionOnSet(f, S) = g[S]
  BY SumSolution
<1>2. IsFiniteSet(S \ {x})
  BY FS_Subset
<1>3. PICK h : IsSum(h, f, S \ {x}) /\ SumFunctionOnSet(f, S \ {x}) = h[S \ {x}]
  <2> DEFINE T == S \ {x}
  <2>1. IsFiniteSet(T) /\ \A y \in T : f[y] \in Nat
    BY <1>2
  <2> HIDE DEF T
  <2>2. \E h : IsSum(h, f, T) /\ SumFunctionOnSet(f, T) = h[T]
    BY <2>1, SumSolution
  <2> QED
    BY <2>2 DEF T
<1>4. g[S] = f[x] + g[S \ {x}]
  BY <1>1, SumOrder
<1>5. g[S \ {x}] = h[S \ {x}]
  BY <1>1, <1>2, <1>3, SumUnique
<1> QED
  BY <1>1, <1>3, <1>4, <1>5

\* One summand changed.
LEMMA SumUpdate ==
  ASSUME NEW S, IsFiniteSet(S), NEW f, NEW e, NEW x \in S,
         \A y \in S : f[y] \in Nat /\ e[y] \in Nat /\ (y # x => e[y] = f[y])
  PROVE  SumFunctionOnSet(e, S) = SumFunctionOnSet(f, S) + e[x] - f[x]
<1> DEFINE T == S \ {x}
<1>1. IsFiniteSet(T) /\ \A y \in T : f[y] \in Nat /\ f[y] = e[y]
  BY FS_Subset
<1> HIDE DEF T
<1>2. SumFunctionOnSet(f, T) = SumFunctionOnSet(e, T) /\ SumFunctionOnSet(f, T) \in Nat
  BY <1>1, SumSame, SumType
<1>3. SumFunctionOnSet(f, S) = f[x] + SumFunctionOnSet(f, T)
  BY SumSplit DEF T
<1>4. SumFunctionOnSet(e, S) = e[x] + SumFunctionOnSet(e, T)
  BY SumSplit DEF T
<1> QED
  BY <1>2, <1>3, <1>4

\* Summands of at most k.
LEMMA SumBound ==
  ASSUME NEW S, IsFiniteSet(S), NEW k \in Nat, NEW f, \A x \in S : f[x] \in Nat /\ f[x] <= k
  PROVE  SumFunctionOnSet(f, S) <= Cardinality(S) * k
<1> DEFINE P == {n \in Nat : \A s \in SUBSET S : Cardinality(s) = n => SumFunctionOnSet(f, s) <= n * k}
<1>1. 0 \in P
  <2>1. ASSUME NEW s \in SUBSET S, Cardinality(s) = 0 PROVE SumFunctionOnSet(f, s) <= 0 * k
    <3>1. s = {}
      BY <2>1, SubsetFacts
    <3>2. SumFunctionOnSet(f, s) = 0
      BY <3>1, SumEmpty
    <3> QED
      BY <3>2
  <2> QED
    BY <2>1
<1>2. ASSUME NEW n \in Nat, n \in P PROVE n + 1 \in P
  <2>1. ASSUME NEW s \in SUBSET S, Cardinality(s) = n + 1
        PROVE  SumFunctionOnSet(f, s) <= (n + 1) * k
    <3> DEFINE x == Taken(s)
    <3>1. x \in s /\ s \ {x} \in SUBSET S /\ Cardinality(s \ {x}) = n
      BY <2>1, SubsetFacts
    <3>2. IsFiniteSet(s) /\ IsFiniteSet(s \ {x})
      BY <3>1, SubsetFacts
    <3> HIDE DEF x
    <3>3. SumFunctionOnSet(f, s) = f[x] + SumFunctionOnSet(f, s \ {x})
      BY <3>1, <3>2, SumSplit
    <3>4. SumFunctionOnSet(f, s \ {x}) <= n * k
      BY <1>2, <3>1
    <3>5. SumFunctionOnSet(f, s \ {x}) \in Nat
      <4> DEFINE t == s \ {x}
      <4>1. IsFiniteSet(t) /\ \A y \in t : f[y] \in Nat
        BY <3>2
      <4> HIDE DEF t
      <4>2. SumFunctionOnSet(f, t) \in Nat
        BY <4>1, SumType
      <4> QED
        BY <4>2 DEF t
    <3>6. f[x] \in Nat /\ f[x] <= k
      BY <3>1
    <3>7. n * k \in Nat /\ (n + 1) * k = n * k + k
      OBVIOUS
    <3> QED
      BY <3>3, <3>4, <3>5, <3>6, <3>7
  <2> QED
    BY <2>1
<1>3. Nat \subseteq P
  <2> HIDE DEF P
  <2> QED
    BY <1>1, <1>2, SetInduction
<1>4. Cardinality(S) \in Nat /\ S \in SUBSET S
  BY FS_CardinalityType
<1> QED
  BY <1>3, <1>4

\* The whole is at least each of its summands.
LEMMA SumAtLeast ==
  ASSUME NEW S, IsFiniteSet(S), NEW f, \A x \in S : f[x] \in Nat, NEW x \in S
  PROVE  SumFunctionOnSet(f, S) >= f[x]
<1> DEFINE T == S \ {x}
<1>1. IsFiniteSet(T) /\ \A y \in T : f[y] \in Nat
  BY FS_Subset
<1> HIDE DEF T
<1>2. SumFunctionOnSet(f, T) \in Nat
  BY <1>1, SumType
<1>3. SumFunctionOnSet(f, S) = f[x] + SumFunctionOnSet(f, T)
  BY SumSplit DEF T
<1> QED
  BY <1>2, <1>3
\* A sum over fewer elements is not larger.
LEMMA SumSubset ==
  ASSUME NEW S, IsFiniteSet(S), NEW f, \A x \in S : f[x] \in Nat, NEW R
  PROVE  SumFunctionOnSet(f, S \ R) <= SumFunctionOnSet(f, S)
<1> DEFINE Less(t) == SumFunctionOnSet(f, S \ t) <= SumFunctionOnSet(f, S)
           P == {n \in Nat : \A t \in SUBSET S : Cardinality(t) = n => Less(t)}
<1>1. ASSUME NEW t \in SUBSET S
      PROVE  /\ IsFiniteSet(S \ t) /\ (\A x \in S \ t : f[x] \in Nat)
             /\ SumFunctionOnSet(f, S \ t) \in Nat
  <2>1. IsFiniteSet(S \ t)
    BY FS_Subset
  <2> DEFINE U == S \ t
  <2>2. IsFiniteSet(U) /\ \A x \in U : f[x] \in Nat
    BY <2>1
  <2> HIDE DEF U
  <2>3. SumFunctionOnSet(f, U) \in Nat
    BY <2>2, SumType
  <2> QED
    BY <2>1, <2>3 DEF U
<1>2. SumFunctionOnSet(f, S) \in Nat
  BY SumType
<1>3. 0 \in P
  <2>1. ASSUME NEW t \in SUBSET S, Cardinality(t) = 0 PROVE Less(t)
    <3>1. t = {}
      BY <2>1, SubsetFacts
    <3>2. S \ t = S
      BY <3>1
    <3> QED
      BY <1>2, <3>2
  <2> HIDE DEF Less
  <2> QED
    BY <2>1
<1>4. ASSUME NEW n \in Nat, n \in P PROVE n + 1 \in P
  <2>1. ASSUME NEW t \in SUBSET S, Cardinality(t) = n + 1 PROVE Less(t)
    <3>1. t # {}
      BY <2>1, SubsetFacts
    <3>2. PICK x : x \in t
      BY <3>1
    <3> DEFINE u == t \ {x}
               U == S \ u
    <3>3. u \in SUBSET S /\ Cardinality(u) = Cardinality(t) - 1 /\ Cardinality(u) = n
      BY <2>1, <3>2, SubsetFacts
    <3>4. Less(u)
      <4> HIDE DEF Less
      <4> QED
        BY <1>4, <3>3
    <3>5. x \in U /\ U \ {x} = S \ t
      BY <3>2
    <3>6. IsFiniteSet(U) /\ (\A y \in U : f[y] \in Nat) /\ SumFunctionOnSet(f, U) \in Nat
      BY <1>1, <3>3
    <3>7. SumFunctionOnSet(f, U) <= SumFunctionOnSet(f, S)
      BY <3>4
    <3> HIDE DEF U
    <3>8. SumFunctionOnSet(f, U) = f[x] + SumFunctionOnSet(f, U \ {x})
      BY <3>5, <3>6, SumSplit
    <3>9. f[x] \in Nat /\ SumFunctionOnSet(f, S \ t) \in Nat
      BY <1>1, <3>5, <3>6
    <3> QED
      BY <1>2, <3>5, <3>6, <3>7, <3>8, <3>9
  <2> HIDE DEF Less
  <2> QED
    BY <2>1
<1> HIDE DEF P
<1>5. Nat \subseteq P
  BY <1>3, <1>4, SetInduction
<1> DEFINE t == R \cap S
<1>6. t \in SUBSET S /\ S \ t = S \ R /\ Cardinality(t) \in Nat
  BY SubsetFacts
<1> HIDE DEF t
<1> QED
  BY <1>5, <1>6 DEF P
---------------------------------------------------------------------------
(* Loops.                                                                    *)

\* f holds the states of a loop before the first and after each of n rounds.
IsLoop(f, n, S, base, step) ==
  f \in [0 .. n -> S] /\ f[0] = base /\ \A k \in 1 .. n : f[k] = step[k][f[k - 1]]

\* A loop of n rounds over the states S has a run.
LEMMA LoopExists ==
  ASSUME NEW n \in Nat, NEW S, NEW base \in S, NEW step \in [1 .. n -> [S -> S]]
  PROVE  \E f : IsLoop(f, n, S, base, step)
<1> DEFINE IsRun(f, m) == /\ f \in [0 .. m -> S] /\ f[0] = base
                          /\ \A k \in 1 .. m : f[k] = step[k][f[k - 1]]
           P == {m \in Nat : m <= n => \E f : IsRun(f, m)}
<1>1. 0 \in P
  <2> DEFINE f == [k \in 0 .. 0 |-> base]
  <2>1. IsRun(f, 0)
    OBVIOUS
  <2> QED
    BY <2>1
<1>2. ASSUME NEW m \in Nat, m \in P PROVE m + 1 \in P
  <2> SUFFICES ASSUME m + 1 <= n PROVE \E f : IsRun(f, m + 1)
    OBVIOUS
  <2>1. PICK f : IsRun(f, m)
    BY <1>2
  <2> DEFINE g == [k \in 0 .. (m + 1) |-> IF k = m + 1 THEN step[m + 1][f[m]] ELSE f[k]]
  <2>2. m + 1 \in 1 .. n /\ f[m] \in S
    BY <2>1
  <2>3. step[m + 1][f[m]] \in S
    BY <2>2
  <2>4. g \in [0 .. (m + 1) -> S]
    BY <2>1, <2>3
  <2>5. ASSUME NEW k \in 1 .. (m + 1) PROVE g[k] = step[k][g[k - 1]]
    <3>1. CASE k = m + 1
      BY <3>1
    <3>2. CASE k # m + 1
      <4>1. k \in 1 .. m /\ k - 1 \in 0 .. m /\ k - 1 # m + 1 /\ k - 1 \in 0 .. (m + 1)
        BY <3>2
      <4> QED
        BY <2>1, <3>2, <4>1
    <3> QED
      BY <3>1, <3>2
  <2>6. g[0] = base
    BY <2>1
  <2> HIDE DEF g
  <2>7. IsRun(g, m + 1)
    BY <2>4, <2>5, <2>6
  <2> QED
    BY <2>7
<1> HIDE DEF P
<1>3. n \in P
  BY <1>1, <1>2, SetInduction
<1> QED
  BY <1>3 DEF P, IsLoop

\* Induction over the rounds of a loop.
LEMMA LoopInduction ==
  ASSUME NEW n \in Nat, NEW P, 0 \in P, \A k \in 1 .. n : k - 1 \in P => k \in P
  PROVE  \A k \in 0 .. n : k \in P
<1> DEFINE Q == {k \in Nat : k <= n => k \in P}
<1>1. 0 \in Q
  OBVIOUS
<1>2. ASSUME NEW k \in Nat, k \in Q PROVE k + 1 \in Q
  <2> SUFFICES ASSUME k + 1 <= n PROVE k + 1 \in P
    OBVIOUS
  <2>1. k + 1 \in 1 .. n /\ (k + 1) - 1 = k /\ k <= n
    OBVIOUS
  <2>2. k \in P
    BY <1>2, <2>1
  <2> QED
    BY <2>1, <2>2
<1> HIDE DEF Q
<1>3. Nat \subseteq Q
  BY <1>1, <1>2, SetInduction
<1> QED
  BY <1>3 DEF Q
---------------------------------------------------------------------------
(* Sequences of sequences.                                                   *)

\* Concatenation, as an operator the proofs need not look into.
Cat(s, t) == s \o t

LEMMA CatFacts ==
  ASSUME NEW S
  PROVE  /\ \A s, t \in Seq(S) : Cat(s, t) \in Seq(S)
         /\ \A s \in Seq(S) : Cat(<<>>, s) = s /\ Cat(s, <<>>) = s
         /\ \A s, t, u \in Seq(S) : Cat(Cat(s, t), u) = Cat(s, Cat(t, u))
<1>1. \A s, t \in Seq(S) : Cat(s, t) \in Seq(S)
  BY DEF Cat
<1>2. \A s \in Seq(S) : Cat(<<>>, s) = s /\ Cat(s, <<>>) = s
  BY ConcatEmptySeq DEF Cat
<1>3. \A s, t, u \in Seq(S) : Cat(Cat(s, t), u) = Cat(s, Cat(t, u))
  BY ConcatAssociative DEF Cat
<1> QED
  BY <1>1, <1>2, <1>3

\* h holds what the first k of the sequences are together, for every k.
IsFlat(h, seqs, S) ==
  /\ h \in [0 .. Len(seqs) -> Seq(S)] /\ h[0] = <<>>
  /\ \A k \in 1 .. Len(seqs) : h[k] = Cat(h[k - 1], seqs[k])

\* There are such parts, and FlattenSeq is the last of them.
LEMMA FlatExists ==
  ASSUME NEW S, NEW seqs, seqs \in Seq(Seq(S))
  PROVE  \E h : IsFlat(h, seqs, S)
<1> DEFINE n == Len(seqs)
           T == Seq(S)
           step == [k \in 1 .. n |-> [t \in T |-> Cat(t, seqs[k])]]
<1>1. n \in Nat /\ <<>> \in T /\ \A k \in 1 .. n : seqs[k] \in T
  OBVIOUS
<1>2. \A k \in 1 .. n : \A t \in T : Cat(t, seqs[k]) \in T
  BY <1>1, CatFacts
<1> HIDE DEF T, n
<1>3. step \in [1 .. n -> [T -> T]]
  BY <1>2
<1>4. \A k \in 1 .. n : \A t \in T : step[k][t] = Cat(t, seqs[k])
  OBVIOUS
<1> HIDE DEF step
<1>5. PICK h : IsLoop(h, n, T, <<>>, step)
  BY <1>1, <1>3, LoopExists
<1>6. h \in [0 .. n -> T] /\ h[0] = <<>> /\ \A k \in 1 .. n : h[k] = step[k][h[k - 1]]
  BY <1>5 DEF IsLoop
<1>7. ASSUME NEW k \in 1 .. n PROVE h[k] = Cat(h[k - 1], seqs[k])
  <2>1. k - 1 \in 0 .. n
    BY <1>1
  <2> QED
    BY <1>4, <1>6, <2>1
<1> QED
  BY <1>6, <1>7 DEF IsFlat, T, n

LEMMA FlattenIs ==
  ASSUME NEW S, NEW seqs, seqs \in Seq(Seq(S)), NEW h, IsFlat(h, seqs, S)
  PROVE  FlattenSeq(seqs) = h[Len(seqs)] /\ FlattenSeq(seqs) \in Seq(S)
<1> DEFINE n == Len(seqs)
           F(f) == [i \in 1 .. n |-> IF i = 1 THEN seqs[i] ELSE Cat(f[i - 1], seqs[i])]
           g == CHOOSE f : f = F(f)
<1>1. /\ n \in Nat /\ (\A k \in 1 .. n : seqs[k] \in Seq(S))
      /\ h \in [0 .. n -> Seq(S)] /\ h[0] = <<>> /\ \A k \in 1 .. n : h[k] = Cat(h[k - 1], seqs[k])
  BY DEF IsFlat
<1>2. CASE n = 0
  <2>1. FlattenSeq(seqs) = seqs
    BY <1>2 DEF FlattenSeq
  <2>2. seqs = <<>>
    BY <1>2
  <2> QED
    BY <1>1, <1>2, <2>1, <2>2
<1>3. CASE n # 0
  <2>1. FlattenSeq(seqs) = g[n]
    BY <1>3 DEF FlattenSeq, Cat
  <2> HIDE DEF n
  <2>2. \E f : f = F(f)
    <3> DEFINE f == [i \in 1 .. n |-> h[i]]
    <3>1. ASSUME NEW i \in 1 .. n PROVE f[i] = IF i = 1 THEN seqs[i] ELSE Cat(f[i - 1], seqs[i])
      <4>1. CASE i = 1
        <5>1. h[1] = Cat(<<>>, seqs[1]) /\ seqs[1] \in Seq(S)
          BY <1>1, <4>1
        <5> QED
          BY <4>1, <5>1, CatFacts
      <4>2. CASE i # 1
        <5>1. i - 1 \in 1 .. n
          BY <1>1, <4>2
        <5> QED
          BY <1>1, <4>2, <5>1
      <4> QED
        BY <4>1, <4>2
    <3>2. f = F(f)
      BY <3>1
    <3> QED
      BY <3>2
  <2>3. g = F(g)
    BY <2>2
  <2> HIDE DEF g
  <2>4. ASSUME NEW i \in 1 .. n PROVE g[i] = IF i = 1 THEN seqs[i] ELSE Cat(g[i - 1], seqs[i])
    BY <2>3
  <2> HIDE DEF F
  <2> DEFINE P == {k \in 0 .. n : k # 0 => g[k] = h[k]}
  <2>5. 0 \in P
    BY <1>1
  <2>6. ASSUME NEW k \in 1 .. n, k - 1 \in P PROVE k \in P
    <3>1. CASE k = 1
      <4>1. g[1] = seqs[1] /\ h[1] = Cat(<<>>, seqs[1]) /\ seqs[1] \in Seq(S)
        BY <1>1, <2>4, <3>1
      <4> QED
        BY <3>1, <4>1, CatFacts
    <3>2. CASE k # 1
      <4>1. g[k] = Cat(g[k - 1], seqs[k]) /\ h[k] = Cat(h[k - 1], seqs[k]) /\ k - 1 # 0
        BY <1>1, <2>4, <3>2
      <4>2. g[k - 1] = h[k - 1]
        BY <2>6, <4>1
      <4> QED
        BY <4>1, <4>2
    <3> QED
      BY <3>1, <3>2
  <2> HIDE DEF P
  <2>7. \A k \in 0 .. n : k \in P
    BY <1>1, <2>5, <2>6, LoopInduction
  <2>8. g[n] = h[n]
    BY <1>1, <1>3, <2>7 DEF P
  <2> QED
    BY <1>1, <2>1, <2>8 DEF n
<1> QED
  BY <1>2, <1>3

\* One sequence more.
LEMMA FlattenAppend ==
  ASSUME NEW S, NEW seqs, seqs \in Seq(Seq(S)), NEW more, more \in Seq(S)
  PROVE  FlattenSeq(Append(seqs, more)) = FlattenSeq(seqs) \o more
<1> DEFINE n == Len(seqs)
           all == Append(seqs, more)
<1>1. PICK h : IsFlat(h, seqs, S)
  BY FlatExists
<1>2. /\ n \in Nat /\ h \in [0 .. n -> Seq(S)] /\ h[0] = <<>> /\ \A k \in 1 .. n : h[k] = Cat(h[k - 1], seqs[k])
  BY <1>1 DEF IsFlat
<1>3. all \in Seq(Seq(S)) /\ Len(all) = n + 1 /\ all[n + 1] = more /\ \A k \in 1 .. n : all[k] = seqs[k]
  OBVIOUS
<1>4. FlattenSeq(seqs) = h[n]
  BY <1>1, FlattenIs
<1> HIDE DEF n, all
<1> DEFINE g == [k \in 0 .. (n + 1) |-> IF k = n + 1 THEN Cat(h[n], more) ELSE h[k]]
<1>5. Cat(h[n], more) \in Seq(S)
  BY <1>2, CatFacts
<1>6. g \in [0 .. (n + 1) -> Seq(S)] /\ g[0] = <<>>
  BY <1>2, <1>5
<1>7. ASSUME NEW k \in 1 .. (n + 1) PROVE g[k] = Cat(g[k - 1], all[k])
  <2>1. CASE k = n + 1
    BY <1>2, <1>3, <2>1
  <2>2. CASE k # n + 1
    <3>1. k \in 1 .. n /\ k - 1 \in 0 .. n /\ k - 1 # n + 1
      BY <1>2, <2>2
    <3> QED
      BY <1>2, <1>3, <2>2, <3>1
  <2> QED
    BY <2>1, <2>2
<1>8. g[n + 1] = Cat(h[n], more)
  BY <1>2
<1> HIDE DEF g
<1>9. IsFlat(g, all, S)
  BY <1>3, <1>6, <1>7 DEF IsFlat
<1>10. FlattenSeq(all) = g[n + 1]
  BY <1>3, <1>9, FlattenIs
<1> QED
  BY <1>4, <1>8, <1>10 DEF all, Cat

\* What comes behind the first u sequences.
LEMMA FlattenRest ==
  ASSUME NEW S, NEW seqs, seqs \in Seq(Seq(S)), NEW h, IsFlat(h, seqs, S), NEW u \in 0 .. Len(seqs)
  PROVE  h[u] \o FlattenSeq(SubSeq(seqs, u + 1, Len(seqs))) = h[Len(seqs)]
<1> DEFINE n == Len(seqs)
           rest == SubSeq(seqs, u + 1, n)
           m == n - u
<1>1. /\ n \in Nat /\ h \in [0 .. n -> Seq(S)] /\ h[0] = <<>> /\ \A k \in 1 .. n : h[k] = Cat(h[k - 1], seqs[k])
  BY DEF IsFlat
<1>2. \A k \in 1 .. n : seqs[k] \in Seq(S)
  OBVIOUS
<1> HIDE DEF n
<1>3. m \in Nat /\ u + m = n /\ u \in 0 .. n
  BY <1>1 DEF n
<1>4. rest \in Seq(Seq(S)) /\ Len(rest) = m /\ \A k \in 1 .. m : rest[k] = seqs[u + k]
  <2>1. \A i \in (u + 1) .. n : seqs[i] \in Seq(S)
    BY <1>1, <1>2, <1>3
  <2> DEFINE T == Seq(S)
  <2> HIDE DEF T
  <2>2. /\ rest \in Seq(T) /\ Len(rest) = IF u + 1 <= n THEN n - (u + 1) + 1 ELSE 0
        /\ \A i \in 1 .. (n - (u + 1) + 1) : rest[i] = seqs[(u + 1) + i - 1]
    <3>1. u + 1 \in Int /\ n \in Int /\ \A i \in (u + 1) .. n : seqs[i] \in T
      BY <1>1, <1>3, <2>1 DEF T
    <3> QED
      BY <3>1, SubSeqProperties
  <2> HIDE DEF rest
  <2>3. /\ (IF u + 1 <= n THEN n - (u + 1) + 1 ELSE 0) = m /\ n - (u + 1) + 1 = m
        /\ \A i \in 1 .. m : (u + 1) + i - 1 = u + i
    BY <1>1, <1>3
  <2> QED
    BY <2>2, <2>3 DEF T
<1> HIDE DEF m, rest
<1>5. PICK g : IsFlat(g, rest, S)
  BY <1>4, FlatExists
<1>6. /\ g \in [0 .. m -> Seq(S)] /\ g[0] = <<>> /\ \A k \in 1 .. m : g[k] = Cat(g[k - 1], rest[k])
  BY <1>4, <1>5 DEF IsFlat
<1>7. FlattenSeq(rest) = g[m]
  BY <1>4, <1>5, FlattenIs
<1> DEFINE P == {k \in 0 .. m : Cat(h[u], g[k]) = h[u + k]}
<1>8. 0 \in P
  <2>1. h[u] \in Seq(S) /\ u + 0 = u
    BY <1>1, <1>3
  <2> QED
    <3>1. \A s \in Seq(S) : Cat(s, <<>>) = s
      BY CatFacts
    <3> QED
      BY <1>3, <1>6, <2>1, <3>1
<1>9. ASSUME NEW k \in 1 .. m, k - 1 \in P PROVE k \in P
  <2>1. u + k \in 1 .. n /\ (u + k) - 1 = u + (k - 1) /\ k - 1 \in 0 .. m
    BY <1>1, <1>3
  <2>2. h[u + k] = Cat(h[u + (k - 1)], seqs[u + k])
    BY <1>1, <2>1
  <2>3. Cat(h[u], g[k - 1]) = h[u + (k - 1)]
    BY <1>9
  <2>4. g[k] = Cat(g[k - 1], seqs[u + k])
    BY <1>4, <1>6
  <2>5. h[u] \in Seq(S) /\ g[k - 1] \in Seq(S) /\ seqs[u + k] \in Seq(S)
    BY <1>1, <1>2, <1>3, <1>6, <2>1 DEF n
  <2>6. Cat(Cat(h[u], g[k - 1]), seqs[u + k]) = Cat(h[u], Cat(g[k - 1], seqs[u + k]))
    <3> DEFINE a == h[u]
               b == g[k - 1]
               c == seqs[u + k]
    <3> HIDE DEF a, b, c
    <3>1. a \in Seq(S) /\ b \in Seq(S) /\ c \in Seq(S)
      BY <2>5 DEF a, b, c
    <3>2. Cat(Cat(a, b), c) = Cat(a, Cat(b, c))
      BY <3>1, CatFacts
    <3> QED
      BY <3>2 DEF a, b, c
  <2> QED
    BY <2>2, <2>3, <2>4, <2>6
<1> HIDE DEF P
<1>10. \A k \in 0 .. m : k \in P
  BY <1>3, <1>8, <1>9, LoopInduction
<1>11. Cat(h[u], g[m]) = h[u + m]
  BY <1>3, <1>10 DEF P
<1> QED
  BY <1>3, <1>7, <1>11 DEF rest, n, Cat
=============================================================================
