------------------------- MODULE Orchestrate_proofs -------------------------
(***************************************************************************)
(* Proofs about Orchestrate and its engine, for every finite set of nodes, *)
(* every roles and weights, every confluence mode and every number of      *)
(* attempts.  First what sums and products over a set of nodes do: they    *)
(* are folds, recursions on the subsets of a finite set, and a claim about *)
(* them is proved by taking a smallest subset for which it fails.  Then the*)
(* engine: it takes sides symmetrically, stricter modes trade less, a      *)
(* supporter more cannot hurt.  Last the handler: no order without a       *)
(* reason, retries explain every duplicate, the status never hides an      *)
(* order.                                                                  *)
(***************************************************************************)
EXTENDS Orchestrate, FiniteSetTheorems, WellFoundedInduction, TLAPS

(***************************************************************************)
(* Folds over finite sets.                                                 *)
(***************************************************************************)

\* The element a fold of Folds.tla takes first.
Pick(s) == CHOOSE x \in s : TRUE

\* What is picked is in the set.
LEMMA PickIn == \A s : s # {} => Pick(s) \in s
  BY DEF Pick

\* Every nonempty set of naturals has a least one.
LEMMA LeastNumber ==
  ASSUME NEW P, P \subseteq Nat, P # {}
  PROVE  \E n \in P : \A m \in P : n <= m
<1> DEFINE R == OpToRel(<, Nat)
<1>1. IsWellFoundedOn(R, Nat)
  BY NatLessThanWellFounded
<1>2. \A m, n \in Nat : <<m, n>> \in R <=> m < n
  BY DEF OpToRel
<1> HIDE DEF R
<1>3. PICK n \in P : \A m \in P : <<m, n>> \notin R
  BY <1>1, WFMin
<1>4. ASSUME NEW m \in P PROVE n <= m
  <2>1. m \in Nat /\ n \in Nat /\ ~(m < n)
    BY <1>2, <1>3
  <2> QED  BY <2>1
<1> QED  BY <1>4

\* Among some subsets of a finite set there is one with none of them inside:
\* a claim that fails for some subset has a smallest one for which it fails.
LEMMA SmallestSubset ==
  ASSUME NEW S, IsFiniteSet(S), NEW P, P \subseteq SUBSET S, P # {}
  PROVE  \E s \in P : \A t \in P : t \subseteq s => t = s
<1>1. \A s \in P : IsFiniteSet(s) /\ Cardinality(s) \in Nat
  BY FS_Subset, FS_CardinalityType
<1> DEFINE N == {Cardinality(s) : s \in P}
<1>2. PICK n \in N : \A m \in N : n <= m
  <2>1. N \subseteq Nat /\ N # {}
    BY <1>1
  <2> HIDE DEF N
  <2> QED  BY <2>1, LeastNumber
<1>3. PICK s \in P : Cardinality(s) = n
  OBVIOUS
<1>4. ASSUME NEW t \in P, t \subseteq s PROVE t = s
  <2>1. n <= Cardinality(t)
    BY <1>2
  <2> QED  BY <1>1, <1>3, <1>4, <2>1, FS_Subset
<1> QED  BY <1>4

\* g is defined by recursion on the subsets of S, one element picked at a time.
Recurs(g, S, base, step) ==
  \A s \in SUBSET S : g[s] = IF s = {} THEN base ELSE step[<<s, g[s \ {Pick(s)}]>>]

\* Such a recursion has a solution, of the type its step has.
LEMMA RecursionExists ==
  ASSUME NEW S, IsFiniteSet(S), NEW V, NEW base \in V,
         NEW step \in [(SUBSET S) \X V -> V]
  PROVE  \E g \in [SUBSET S -> V] : Recurs(g, S, base, step)
<1> DEFINE Upto(n) == {s \in SUBSET S : Cardinality(s) <= n}
           Solves(g, n) ==
             \A s \in Upto(n) :
               g[s] = IF s = {} THEN base ELSE step[<<s, g[s \ {Pick(s)}]>>]
           Bad == {n \in Nat : ~ \E g \in [Upto(n) -> V] : Solves(g, n)}
<1>1. \A s \in SUBSET S : /\ IsFiniteSet(s) /\ Cardinality(s) \in Nat
                          /\ Cardinality(s) = 0 <=> s = {}
  BY FS_Subset, FS_CardinalityType, FS_EmptySet
<1>2. \A s \in SUBSET S : s # {} =>
        s \ {Pick(s)} \in SUBSET S /\ Cardinality(s \ {Pick(s)}) = Cardinality(s) - 1
  BY <1>1, PickIn, FS_RemoveElement
<1>3. Bad = {}
  <2> SUFFICES ASSUME Bad # {} PROVE FALSE
    OBVIOUS
  <2>1. PICK n \in Bad : \A m \in Bad : n <= m
    <3>1. Bad \subseteq Nat
      OBVIOUS
    <3> HIDE DEF Bad
    <3> QED  BY <3>1, LeastNumber
  <2>2. CASE n = 0
    <3> DEFINE g == [s \in Upto(0) |-> base]
    <3>1. g \in [Upto(0) -> V] /\ Solves(g, 0)
      BY <1>1
    <3> QED  BY <2>1, <2>2, <3>1
  <2>3. CASE n # 0
    <3>1. n - 1 \in Nat /\ n - 1 \notin Bad
      <4>1. n \in Nat
        OBVIOUS
      <4> HIDE DEF Bad
      <4> QED  BY <2>1, <2>3, <4>1
    <3>2. PICK h \in [Upto(n - 1) -> V] : Solves(h, n - 1)
      BY <3>1
    <3> DEFINE g == [s \in Upto(n) |->
                       IF s \in Upto(n - 1) THEN h[s] ELSE step[<<s, h[s \ {Pick(s)}]>>]]
    <3>3. \A s \in Upto(n) : s # {} => s \ {Pick(s)} \in Upto(n - 1)
      BY <1>1, <1>2, <2>1
    <3>4. \A s \in Upto(n) : s \notin Upto(n - 1) => s # {}
      BY <1>1, <3>1
    <3>5. \A s \in Upto(n - 1) : s \in Upto(n)
      BY <1>1, <2>1
    <3> HIDE DEF Upto
    <3>6. g \in [Upto(n) -> V]
      <4> SUFFICES ASSUME NEW s \in Upto(n), s \notin Upto(n - 1)
                   PROVE  step[<<s, h[s \ {Pick(s)}]>>] \in V
        OBVIOUS
      <4>1. s \in SUBSET S /\ h[s \ {Pick(s)}] \in V
        BY <3>3, <3>4 DEF Upto
      <4> QED  BY <4>1
    <3>7. Solves(g, n)
      <4> SUFFICES ASSUME NEW s \in Upto(n)
                   PROVE  g[s] = IF s = {} THEN base ELSE step[<<s, g[s \ {Pick(s)}]>>]
        OBVIOUS
      <4>1. s # {} => g[s \ {Pick(s)}] = h[s \ {Pick(s)}]
        BY <3>3, <3>5
      <4>2. CASE s \in Upto(n - 1)
        <5>1. g[s] = h[s]
          BY <4>2
        <5>2. h[s] = IF s = {} THEN base ELSE step[<<s, h[s \ {Pick(s)}]>>]
          BY <4>2, <3>2
        <5> HIDE DEF g
        <5> QED  BY <4>1, <5>1, <5>2
      <4>3. CASE s \notin Upto(n - 1)
        <5>1. g[s] = step[<<s, h[s \ {Pick(s)}]>>] /\ s # {}
          BY <4>3, <3>4
        <5> HIDE DEF g
        <5> QED  BY <4>1, <5>1
      <4> QED  BY <4>2, <4>3
    <3> QED  BY <2>1, <3>6, <3>7
  <2> QED  BY <2>2, <2>3
<1>4. Cardinality(S) \in Nat /\ Upto(Cardinality(S)) = SUBSET S
  BY <1>1, FS_Subset
<1>5. PICK g \in [Upto(Cardinality(S)) -> V] : Solves(g, Cardinality(S))
  BY <1>3, <1>4
<1> QED  BY <1>4, <1>5 DEF Recurs

\* What holds of {} and is passed on from s without its pick to s holds of
\* every subset of a finite set.
LEMMA SubsetInduction ==
  ASSUME NEW S, IsFiniteSet(S), NEW P, {} \in P,
         \A s \in SUBSET S : s # {} /\ s \ {Pick(s)} \in P => s \in P
  PROVE  SUBSET S \subseteq P
<1> DEFINE Bad == (SUBSET S) \ P
<1> SUFFICES ASSUME Bad # {} PROVE FALSE
  OBVIOUS
<1>1. PICK s \in Bad : \A t \in Bad : t \subseteq s => t = s
  <2>1. Bad \subseteq SUBSET S
    OBVIOUS
  <2> HIDE DEF Bad
  <2> QED  BY <2>1, SmallestSubset
<1>2. s # {} /\ Pick(s) \in s
  BY PickIn
<1>3. s \ {Pick(s)} \notin Bad
  BY <1>1, <1>2
<1> QED  BY <1>2, <1>3

\* The equation behind the sums of f over the subsets of S.
Sums(g, f, S) ==
  g = [s \in SUBSET S |-> IF s = {} THEN 0 ELSE f[Pick(s)] + g[s \ {Pick(s)}]]

\* SumFunctionOnSet is the value at S of some solution of its equation.
LEMMA SumUnfolds ==
  ASSUME NEW f, NEW S
  PROVE  SumFunctionOnSet(f, S) = (CHOOSE g : Sums(g, f, S))[S]
  BY DEF SumFunctionOnSet, FoldFunctionOnSet, MapThenFoldSet, Pick, Sums

\* There is a solution in the integers.
LEMMA SumsExist ==
  ASSUME NEW S, IsFiniteSet(S), NEW f, \A x \in S : f[x] \in Int
  PROVE  \E g \in [SUBSET S -> Int] : Sums(g, f, S)
<1> DEFINE step == [a \in (SUBSET S) \X Int |->
                      IF a[1] = {} THEN 0 ELSE f[Pick(a[1])] + a[2]]
<1>1. step \in [(SUBSET S) \X Int -> Int]
  <2> SUFFICES ASSUME NEW s \in SUBSET S, NEW i \in Int, s # {}
               PROVE  f[Pick(s)] + i \in Int
    OBVIOUS
  <2>1. Pick(s) \in S
    BY PickIn
  <2> QED  BY <2>1
<1>2. \A s \in SUBSET S, i \in Int : s # {} => step[<<s, i>>] = f[Pick(s)] + i
  OBVIOUS
<1> HIDE DEF step
<1>3. PICK g \in [SUBSET S -> Int] : Recurs(g, S, 0, step)
  <2>1. 0 \in Int
    OBVIOUS
  <2> QED  BY <1>1, <2>1, RecursionExists
<1>4. \A s \in SUBSET S : g[s] = IF s = {} THEN 0 ELSE f[Pick(s)] + g[s \ {Pick(s)}]
  BY <1>2, <1>3 DEF Recurs
<1> QED  BY <1>4 DEF Sums

\* It is the only one, and restricted to a part of S it is the one of that part.
LEMMA SumsAgree ==
  ASSUME NEW S, IsFiniteSet(S), NEW f, \A x \in S : f[x] \in Int,
         NEW g \in [SUBSET S -> Int], Sums(g, f, S), NEW T \in SUBSET S
  PROVE  SumFunctionOnSet(f, T) = g[T]
<1>1. IsFiniteSet(T) /\ \A x \in T : f[x] \in Int
  BY FS_Subset
<1>2. \E h : Sums(h, f, T)
  BY <1>1, SumsExist
<1> DEFINE h == CHOOSE k : Sums(k, f, T)
<1>3. Sums(h, f, T)
  BY <1>2
<1> HIDE DEF h
<1> DEFINE P == {s \in SUBSET T : h[s] = g[s]}
<1>4. {} \in P
  BY <1>3 DEF Sums
<1>5. ASSUME NEW s \in SUBSET T, s # {}, s \ {Pick(s)} \in P PROVE s \in P
  BY <1>3, <1>5 DEF Sums
<1>6. SUBSET T \subseteq P
  <2> HIDE DEF P
  <2> QED  BY <1>1, <1>4, <1>5, SubsetInduction
<1>7. SumFunctionOnSet(f, T) = h[T]
  BY SumUnfolds DEF h
<1> QED  BY <1>6, <1>7

\* A sum of integers is one, it is 0 over the empty set, and it unfolds along
\* the element picked.
LEMMA SumByPick ==
  ASSUME NEW S, IsFiniteSet(S), NEW f, \A x \in S : f[x] \in Int
  PROVE  /\ SumFunctionOnSet(f, S) \in Int
         /\ SumFunctionOnSet(f, {}) = 0
         /\ S # {} => SumFunctionOnSet(f, S)
                        = f[Pick(S)] + SumFunctionOnSet(f, S \ {Pick(S)})
<1>1. PICK g \in [SUBSET S -> Int] : Sums(g, f, S)
  BY SumsExist
<1>2. \A T \in SUBSET S : SumFunctionOnSet(f, T) = g[T]
  BY <1>1, SumsAgree
<1>3. g[{}] = 0 /\ (S # {} => g[S] = f[Pick(S)] + g[S \ {Pick(S)}])
  BY <1>1 DEF Sums
<1> QED  BY <1>2, <1>3

\* A sum unfolds along any element: the order does not matter.
LEMMA SumRemove ==
  ASSUME NEW S, IsFiniteSet(S), NEW f, \A x \in S : f[x] \in Int, NEW y \in S
  PROVE  SumFunctionOnSet(f, S) = f[y] + SumFunctionOnSet(f, S \ {y})
<1> DEFINE P == {s \in SUBSET S :
                  \A x \in s : SumFunctionOnSet(f, s) = f[x] + SumFunctionOnSet(f, s \ {x})}
           Bad == (SUBSET S) \ P
<1>0. \A s \in SUBSET S : /\ IsFiniteSet(s)
                          /\ \A x \in s : f[x] \in Int
                          /\ SumFunctionOnSet(f, s) \in Int
  BY FS_Subset, SumByPick
<1> SUFFICES ASSUME Bad # {} PROVE FALSE
  OBVIOUS
<1>1. PICK s \in Bad : \A t \in Bad : t \subseteq s => t = s
  <2>1. Bad \subseteq SUBSET S
    OBVIOUS
  <2> HIDE DEF Bad
  <2> QED  BY <2>1, SmallestSubset
<1>2. PICK x \in s : SumFunctionOnSet(f, s) # f[x] + SumFunctionOnSet(f, s \ {x})
  OBVIOUS
<1> DEFINE c == Pick(s)
<1>3. c \in s /\ SumFunctionOnSet(f, s) = f[c] + SumFunctionOnSet(f, s \ {c})
  BY <1>0, PickIn, SumByPick
<1> HIDE DEF c
<1>4. x # c
  BY <1>2, <1>3
<1>5. s \ {c} \in P /\ s \ {x} \in P
  BY <1>1, <1>3
<1>6. SumFunctionOnSet(f, s \ {c}) = f[x] + SumFunctionOnSet(f, (s \ {c}) \ {x})
  BY <1>4, <1>5
<1>7. SumFunctionOnSet(f, s \ {x}) = f[c] + SumFunctionOnSet(f, (s \ {x}) \ {c})
  BY <1>3, <1>4, <1>5
<1>8. (s \ {x}) \ {c} = (s \ {c}) \ {x}
  OBVIOUS
<1>9. /\ f[x] \in Int /\ f[c] \in Int
      /\ SumFunctionOnSet(f, (s \ {c}) \ {x}) \in Int
  BY <1>0, <1>3
<1> DEFINE Rest == SumFunctionOnSet(f, (s \ {c}) \ {x})
<1>10. /\ SumFunctionOnSet(f, s) = f[c] + (f[x] + Rest)
       /\ SumFunctionOnSet(f, s \ {x}) = f[c] + Rest
       /\ f[x] \in Int /\ f[c] \in Int /\ Rest \in Int
  BY <1>3, <1>6, <1>7, <1>8, <1>9
<1> HIDE DEF Rest, Bad
<1> QED  BY <1>2, <1>10

\* One more summand.
LEMMA SumAdd ==
  ASSUME NEW S, IsFiniteSet(S), NEW f, \A x \in S : f[x] \in Int,
         NEW y, y \notin S, f[y] \in Int
  PROVE  SumFunctionOnSet(f, S \cup {y}) = f[y] + SumFunctionOnSet(f, S)
<1>1. IsFiniteSet(S \cup {y}) /\ (S \cup {y}) \ {y} = S
  BY FS_AddElement
<1> QED  BY <1>1, SumRemove

\* A sum of naturals is one.
LEMMA SumNatural ==
  ASSUME NEW S, IsFiniteSet(S), NEW f, \A x \in S : f[x] \in Nat
  PROVE  SumFunctionOnSet(f, S) \in Nat
<1> DEFINE P == {s \in SUBSET S : SumFunctionOnSet(f, s) \in Nat}
<1>1. \A s \in SUBSET S : IsFiniteSet(s) /\ \A x \in s : f[x] \in Nat /\ f[x] \in Int
  BY FS_Subset
<1>2. {} \in P
  BY <1>1, SumByPick
<1>3. ASSUME NEW s \in SUBSET S, s # {}, s \ {Pick(s)} \in P PROVE s \in P
  <2>1. SumFunctionOnSet(f, s) = f[Pick(s)] + SumFunctionOnSet(f, s \ {Pick(s)})
    BY <1>1, <1>3, SumByPick
  <2>2. f[Pick(s)] \in Nat /\ SumFunctionOnSet(f, s \ {Pick(s)}) \in Nat
    BY <1>3, PickIn
  <2> QED  BY <2>1, <2>2
<1>4. SUBSET S \subseteq P
  <2> HIDE DEF P
  <2> QED  BY <1>2, <1>3, SubsetInduction
<1> QED  BY <1>4

\* A sum depends on the summands only.
LEMMA SumSame ==
  ASSUME NEW S, IsFiniteSet(S), NEW f, NEW g, \A x \in S : f[x] \in Int /\ g[x] = f[x]
  PROVE  SumFunctionOnSet(g, S) = SumFunctionOnSet(f, S)
<1> DEFINE P == {s \in SUBSET S : SumFunctionOnSet(g, s) = SumFunctionOnSet(f, s)}
<1>1. \A s \in SUBSET S : /\ IsFiniteSet(s)
                          /\ \A x \in s : f[x] \in Int /\ g[x] \in Int /\ g[x] = f[x]
  BY FS_Subset
<1>2. {} \in P
  <2>1. SumFunctionOnSet(f, {}) = 0
    BY SumByPick
  <2>2. SumFunctionOnSet(g, {}) = 0
    BY SumByPick
  <2> QED  BY <2>1, <2>2
<1>3. ASSUME NEW s \in SUBSET S, s # {}, s \ {Pick(s)} \in P PROVE s \in P
  <2>1. /\ SumFunctionOnSet(f, s) = f[Pick(s)] + SumFunctionOnSet(f, s \ {Pick(s)})
        /\ SumFunctionOnSet(g, s) = g[Pick(s)] + SumFunctionOnSet(g, s \ {Pick(s)})
    BY <1>1, <1>3, SumByPick
  <2>2. g[Pick(s)] = f[Pick(s)]
    BY <1>3, PickIn
  <2> QED  BY <1>3, <2>1, <2>2
<1>4. SUBSET S \subseteq P
  <2> HIDE DEF P
  <2> QED  BY <1>2, <1>3, SubsetInduction
<1> QED  BY <1>4

\* A bound of every summand by a multiple bounds the sum.
LEMMA SumWithin ==
  ASSUME NEW S, IsFiniteSet(S), NEW f, NEW g, NEW k \in Int,
         \A x \in S : f[x] \in Int /\ g[x] \in Int /\ f[x] <= k * g[x]
  PROVE  SumFunctionOnSet(f, S) <= k * SumFunctionOnSet(g, S)
<1> DEFINE P == {s \in SUBSET S : SumFunctionOnSet(f, s) <= k * SumFunctionOnSet(g, s)}
<1>1. \A s \in SUBSET S : /\ IsFiniteSet(s)
                          /\ \A x \in s : f[x] \in Int /\ g[x] \in Int /\ f[x] <= k * g[x]
  BY FS_Subset
<1>2. {} \in P
  <2>1. SumFunctionOnSet(f, {}) = 0
    BY SumByPick
  <2>2. SumFunctionOnSet(g, {}) = 0
    BY SumByPick
  <2> QED  BY <2>1, <2>2
<1>3. ASSUME NEW s \in SUBSET S, s # {}, s \ {Pick(s)} \in P PROVE s \in P
  <2> DEFINE fp == f[Pick(s)] gp == g[Pick(s)]
             fr == SumFunctionOnSet(f, s \ {Pick(s)})
             gr == SumFunctionOnSet(g, s \ {Pick(s)})
  <2>1. SumFunctionOnSet(f, s) = fp + fr /\ SumFunctionOnSet(g, s) = gp + gr
    BY <1>1, <1>3, SumByPick
  <2>2. Pick(s) \in S /\ s \ {Pick(s)} \in SUBSET S
    BY <1>3, PickIn
  <2>3. fr \in Int /\ gr \in Int
    BY <1>1, <2>2, SumByPick
  <2>4. fr <= k * gr
    BY <1>3
  <2>5. fp \in Int /\ gp \in Int /\ fp <= k * gp
    BY <2>2
  <2>6. fp + fr <= k * (gp + gr)
    <3> HIDE DEF fp, fr, gp, gr
    <3>1. k * (gp + gr) = k * gp + k * gr
      BY <2>3, <2>5
    <3>2. k * gp \in Int /\ k * gr \in Int
      BY <2>3, <2>5
    <3> QED  BY <2>3, <2>4, <2>5, <3>1, <3>2
  <2> QED  BY <2>1, <2>6
<1>4. SUBSET S \subseteq P
  <2> HIDE DEF P
  <2> QED  BY <1>2, <1>3, SubsetInduction
<1> QED  BY <1>4

-----------------------------------------------------------------------------
(***************************************************************************)
(* The engine: its numbers and sets.                                       *)
(***************************************************************************)

\* The equation behind Multiplied, the rounded product of the multipliers.
MultipliesTo(g, f, S) ==
  g = [s \in SUBSET S |->
         IF s = {} THEN Scale ELSE (g[s \ {Pick(s)}] * f[Pick(s)]) \div Scale]

\* Multiplied is the value at S of some solution of its equation.
LEMMA MultipliedUnfolds ==
  ASSUME NEW f, NEW S
  PROVE  Multiplied(f, S) = (CHOOSE g : MultipliesTo(g, f, S))[S]
  BY DEF Multiplied, FoldFunctionOnSet, MapThenFoldSet, Pick, MultipliesTo

\* A part of a part of Scale is one.
LEMMA PartOfPart ==
  ASSUME NEW a \in 0 .. Scale, NEW b \in 0 .. Scale
  PROVE  (a * b) \div Scale \in 0 .. Scale
<1>1. 0 <= a * b /\ a * b <= a * Scale
  BY ScaleAssumption
<1>2. a * b \in Int /\ Scale \in Int /\ Scale > 0
  BY ScaleAssumption
<1>3. \A x, y, d \in Int : d > 0 /\ 0 <= x /\ x <= y * d => 0 <= x \div d /\ x \div d <= y
  OBVIOUS
<1>4. 0 <= (a * b) \div Scale /\ (a * b) \div Scale <= a
  BY <1>1, <1>2, <1>3
<1>5. (a * b) \div Scale \in Int
  BY <1>2
<1> QED  BY <1>2, <1>4, <1>5

\* The product of multipliers in 0..Scale is in 0..Scale.
LEMMA MultipliedType ==
  ASSUME NEW S, IsFiniteSet(S), NEW f, \A x \in S : f[x] \in 0 .. Scale
  PROVE  Multiplied(f, S) \in 0 .. Scale
<1> DEFINE V == 0 .. Scale
           step == [a \in (SUBSET S) \X V |->
                      IF a[1] = {} THEN Scale ELSE (a[2] * f[Pick(a[1])]) \div Scale]
<1>1. step \in [(SUBSET S) \X V -> V]
  <2> SUFFICES ASSUME NEW s \in SUBSET S, NEW i \in V, s # {}
               PROVE  (i * f[Pick(s)]) \div Scale \in V
    BY ScaleAssumption
  <2>1. f[Pick(s)] \in V
    BY PickIn
  <2> QED  BY <2>1, PartOfPart
<1>2. \A s \in SUBSET S, i \in V : s # {} => step[<<s, i>>] = (i * f[Pick(s)]) \div Scale
  OBVIOUS
<1>3. Scale \in V
  BY ScaleAssumption
<1> HIDE DEF step, V
<1>4. PICK g \in [SUBSET S -> V] : Recurs(g, S, Scale, step)
  BY <1>1, <1>3, RecursionExists
<1>5. \A s \in SUBSET S :
        g[s] = IF s = {} THEN Scale ELSE (g[s \ {Pick(s)}] * f[Pick(s)]) \div Scale
  BY <1>2, <1>4 DEF Recurs
<1>6. MultipliesTo(g, f, S)
  BY <1>5 DEF MultipliesTo
<1> DEFINE h == CHOOSE k : MultipliesTo(k, f, S)
<1>7. MultipliesTo(h, f, S)
  BY <1>6
<1> HIDE DEF h
<1> DEFINE P == {s \in SUBSET S : h[s] \in V}
<1>8. {} \in P
  BY <1>3, <1>7 DEF MultipliesTo
<1>9. ASSUME NEW s \in SUBSET S, s # {}, s \ {Pick(s)} \in P PROVE s \in P
  <2>1. h[s] = (h[s \ {Pick(s)}] * f[Pick(s)]) \div Scale
    BY <1>7, <1>9 DEF MultipliesTo
  <2>2. f[Pick(s)] \in V
    BY <1>9, PickIn DEF V
  <2> QED  BY <1>9, <2>1, <2>2, PartOfPart DEF V
<1>10. SUBSET S \subseteq P
  <2> HIDE DEF P
  <2> QED  BY <1>8, <1>9, SubsetInduction
<1> QED  BY <1>10, MultipliedUnfolds DEF h, V

\* Signals of the right shape, and those with the confidences clamped.
Sensible(s) == s \in [Nodes -> Signal]
Clamped(s) == Sensible(s) /\ \A n \in Nodes : s[n].conf \in 0 .. Scale

\* The nodes behind a side can be counted.
LEMMA BackingFinite ==
  ASSUME NEW s, NEW side
  PROVE  /\ Backing(s, side) \subseteq Nodes
         /\ IsFiniteSet(Backing(s, side))
         /\ Cardinality(Backing(s, side)) \in Nat
         /\ Cardinality(Backing(s, side)) = 0 <=> Backing(s, side) = {}
<1>1. Backing(s, side) \subseteq Nodes
  BY RolesAssumption DEF Backing, Executing, WithRole
<1> QED  BY <1>1, RolesAssumption, FS_Subset, FS_CardinalityType, FS_EmptySet

\* A stake is an integer.
LEMMA StakeType ==
  ASSUME NEW s, Sensible(s)
  PROVE  \A n \in Nodes : Stake(s)[n] \in Int /\ Stake(s)[n] = Weight[n] * s[n].conf
  BY WeightAssumption DEF Sensible, Stake, Signal

\* Votes and weights are integers.
LEMMA VotesType ==
  ASSUME NEW s, Sensible(s), NEW side
  PROVE  Votes(s, side) \in Int /\ BackingWeight(s, side) \in Int
<1>1. \A n \in Backing(s, side) : Stake(s)[n] \in Int /\ Weight[n] \in Int
  BY StakeType, BackingFinite, WeightAssumption
<1>2. IsFiniteSet(Backing(s, side))
  BY BackingFinite
<1> QED  BY <1>1, <1>2, SumByPick DEF Votes, BackingWeight

\* The weighted average of clamped confidences is in 0..Scale.
LEMMA VotesWithin ==
  ASSUME NEW s, Clamped(s), NEW side
  PROVE  0 <= Votes(s, side) /\ Votes(s, side) <= Scale * BackingWeight(s, side)
         /\ BackingWeight(s, side) >= 0
<1> DEFINE B == Backing(s, side)
<1>0. Scale \in Int
  BY ScaleAssumption
<1>1. IsFiniteSet(B) /\ B \subseteq Nodes
  BY BackingFinite
<1>2. \A n \in B : /\ Stake(s)[n] \in Int /\ Stake(s)[n] <= Scale * Weight[n] /\ Weight[n] \in Int
                   /\ Stake(s)[n] >= 0 /\ Weight[n] >= 0
  <2> SUFFICES ASSUME NEW n \in B
               PROVE  /\ Stake(s)[n] \in Int /\ Stake(s)[n] <= Scale * Weight[n] /\ Weight[n] \in Int
                      /\ Stake(s)[n] >= 0 /\ Weight[n] >= 0
    OBVIOUS
  <2>1. Weight[n] \in Nat /\ s[n].conf \in 0 .. Scale /\ Stake(s)[n] = Weight[n] * s[n].conf
    BY <1>1, StakeType, WeightAssumption DEF Clamped
  <2>2. \A a, b, c \in Nat : b <= c => a * b <= c * a /\ a * b \in Nat
    OBVIOUS
  <2> QED  BY <2>1, <2>2, ScaleAssumption
<1>3. SumFunctionOnSet(Stake(s), B) <= Scale * SumFunctionOnSet(Weight, B)
  BY <1>0, <1>1, <1>2, SumWithin
<1>4. SumFunctionOnSet(Stake(s), B) \in Nat
  BY <1>1, <1>2, SumNatural
<1>5. SumFunctionOnSet(Weight, B) \in Nat
  BY <1>1, <1>2, SumNatural
<1> QED  BY <1>3, <1>4, <1>5 DEF Votes, BackingWeight

\* What the adapters make of an answer is a signal with a clamped confidence.
LEMMA SignalTypes ==
  /\ Down \in Signal /\ Down.conf \in 0 .. Scale
  /\ \A r \in Signal : AsSignal(r) \in Signal /\ AsSignal(r).conf \in 0 .. Scale
<1>1. Down \in Signal /\ Down.conf \in 0 .. Scale
  BY ScaleAssumption DEF Down, Signal, Actions
<1>2. ASSUME NEW r \in Signal PROVE AsSignal(r) \in Signal /\ AsSignal(r).conf \in 0 .. Scale
  <2>1. r.conf \in Int
    BY DEF Signal
  <2>2. Clamp(r.conf, 0, Scale) \in 0 .. Scale
    BY <2>1, ScaleAssumption DEF Clamp
  <2>3. AsSignal(r) = [r EXCEPT !.conf = Clamp(r.conf, 0, Scale)]
    BY DEF AsSignal
  <2>4. Clamp(r.conf, 0, Scale) \in Int
    BY <2>2, ScaleAssumption
  <2> HIDE DEF Clamp
  <2> QED  BY <2>2, <2>3, <2>4 DEF Signal
<1> QED  BY <1>1, <1>2

\* The average confidence, of clamped signals one in 0..Scale.
LEMMA AverageConfType ==
  ASSUME NEW s, Sensible(s), NEW side
  PROVE  AverageConf(s, side) \in Int /\ (Clamped(s) => AverageConf(s, side) \in 0 .. Scale)
<1> DEFINE v == Votes(s, side) w == BackingWeight(s, side)
<1>1. v \in Int /\ w \in Int
  BY VotesType
<1>2. Clamped(s) => 0 <= v /\ v <= Scale * w
  BY VotesWithin
<1>3. Scale \in Nat
  BY ScaleAssumption
<1>4. AverageConf(s, side) = IF w > 0 THEN v \div w ELSE 0
  BY DEF AverageConf
<1> HIDE DEF v, w
<1>5. \A x, y, d \in Int : d > 0 =>
        /\ x \div d \in Int
        /\ 0 <= x /\ x <= y * d => 0 <= x \div d /\ x \div d <= y
  OBVIOUS
<1> QED  BY <1>1, <1>2, <1>3, <1>4, <1>5

\* The risk multiplier is in 0..Scale whatever the nodes sent.
LEMMA RiskMultiplierType ==
  ASSUME NEW s, Sensible(s)
  PROVE  RiskMultiplier(s) \in 0 .. Scale
<1> DEFINE R == WithRole(s, RiskNodes)
           f == [n \in Nodes |-> Clamp(s[n].risk, 0, Scale)]
<1>1. R \subseteq Nodes /\ IsFiniteSet(R)
  <2>1. R \subseteq Nodes
    BY RolesAssumption DEF WithRole
  <2> QED  BY <2>1, RolesAssumption, FS_Subset
<1>2. \A n \in R : f[n] \in 0 .. Scale
  <2> SUFFICES ASSUME NEW n \in R PROVE f[n] \in 0 .. Scale
    OBVIOUS
  <2>1. n \in Nodes /\ s[n].risk \in Int
    BY <1>1 DEF Sensible, Signal
  <2> QED  BY <2>1, ScaleAssumption DEF Clamp
<1> HIDE DEF R, f
<1>3. Multiplied(f, R) \in 0 .. Scale
  BY <1>1, <1>2, MultipliedType
<1> QED  BY <1>3 DEF RiskMultiplier, R, f

\* The direction gate answers a side or "NONE".
LEMMA TargetSideType ==
  ASSUME NEW mode, NEW s
  PROVE  TargetSide(mode, s) \in Sides \cup {"NONE"}
  BY DEF TargetSide, Sides

\* The decision of the engine, and its numbers.
LEMMA EvaluateType ==
  ASSUME NEW s, Sensible(s), NEW mode, NEW minConf
  PROVE  /\ Evaluate(mode, minConf, s) \in Decision
         /\ Clamped(s) => /\ Evaluate(mode, minConf, s).conf \in 0 .. Scale
                          /\ Evaluate(mode, minConf, s).risk \in 0 .. Scale
<1> DEFINE side == TargetSide(mode, s)
           a == AverageConf(s, side) r == RiskMultiplier(s)
           e == Evaluate(mode, minConf, s)
           Fits(d) == /\ d \in Decision
                      /\ Clamped(s) => d.conf \in 0 .. Scale /\ d.risk \in 0 .. Scale
<1>1. side \in Sides \cup {"NONE"}
  BY TargetSideType
<1>2. a \in Int /\ (Clamped(s) => a \in 0 .. Scale)
  BY AverageConfType
<1>3. r \in 0 .. Scale /\ r \in Int /\ 0 \in 0 .. Scale
  BY RiskMultiplierType, ScaleAssumption
<1> HIDE DEF side, a, r
<1>4. ASSUME NEW act \in Actions, NEW sd \in Sides \cup {"NONE"} PROVE Fits(NoTrade(act, sd))
  BY <1>3 DEF NoTrade, Decision
<1>5. Fits([NoTrade("WAIT", side) EXCEPT !.conf = a])
  BY <1>1, <1>2, <1>3 DEF NoTrade, Decision, Actions
<1>6. Fits([action |-> "EXECUTE", side |-> side, conf |-> a, risk |-> r])
  BY <1>1, <1>2, <1>3 DEF Decision, Actions
<1>7. \/ \E act \in Actions : e = NoTrade(act, "NONE")
      \/ e = [NoTrade("WAIT", side) EXCEPT !.conf = a]
      \/ e = [action |-> "EXECUTE", side |-> side, conf |-> a, risk |-> r]
  BY FallbackAssumption DEF Evaluate, Actions, side, a, r
<1> HIDE DEF Fits, e
<1>8. Fits(e)
  BY <1>4, <1>5, <1>6, <1>7
<1> QED  BY <1>8 DEF Fits, e

-----------------------------------------------------------------------------
(***************************************************************************)
(* The engine: what its decisions promise.                                 *)
(***************************************************************************)

\* A confident side has a node that backs it.
LEMMA ConfidentHasBacker ==
  ASSUME NEW minConf, NEW s, NEW side, Confident(minConf, s, side)
  PROVE  \E n \in DirectionNodes :
           s[n].available /\ s[n].action = "EXECUTE" /\ s[n].side = side
  BY DEF Confident, Backing, Executing, WithRole

\* The engine's verdict is always an action.
LEMMA EvaluateAction ==
  ASSUME NEW mode, NEW minConf, NEW s
  PROVE  Evaluate(mode, minConf, s).action \in Actions
  BY FallbackAssumption DEF Evaluate, NoTrade, Actions

\* Unless the fallback is to execute, evaluate decides to trade only with
\* every reason there must be (confluence.py, evaluate).
THEOREM EvaluateJustified ==
  ASSUME Fallback # "EXECUTE", NEW mode, NEW minConf, NEW s,
         Evaluate(mode, minConf, s).action = "EXECUTE"
  PROVE  Justified(minConf, s, Evaluate(mode, minConf, s).side)
<1> DEFINE side == TargetSide(mode, s)
<1>1. Missing(s) = {}
  BY DEF Evaluate, NoTrade
<1>2. Killers(s) = {}
  BY <1>1 DEF Evaluate, NoTrade
<1>3. side # "NONE"
  BY <1>1, <1>2 DEF Evaluate, NoTrade
<1>4. Confident(minConf, s, side)
  BY <1>1, <1>2, <1>3 DEF Evaluate, NoTrade
<1>5. Evaluate(mode, minConf, s).side = side
  BY <1>1, <1>2, <1>3, <1>4 DEF Evaluate, NoTrade
<1>6. \A n \in RequiredNodes : s[n].available
  BY <1>1 DEF Missing
<1>7. \A n \in SurvivalNodes : ~(s[n].available /\ s[n].action = "KILL")
  BY <1>2 DEF Killers, WithRole
<1> QED
  BY <1>4, <1>5, <1>6, <1>7, ConfidentHasBacker DEF Justified

\* A node that executes backs one side or the other.
LEMMA ExecutingBacks ==
  ASSUME NEW s
  PROVE  Executing(s) = Backing(s, "LONG") \cup Backing(s, "SHORT")
  BY DEF Executing, Backing, Sides

\* No mode chooses both sides, so the order in which the code looks at them
\* matters for nothing.
LEMMA OneSide ==
  ASSUME NEW s, Sensible(s), NEW mode
  PROVE  ~(Chooses(mode, s, "LONG") /\ Chooses(mode, s, "SHORT"))
<1> DEFINE L == Backing(s, "LONG") S == Backing(s, "SHORT")
           l == Cardinality(L) c == Cardinality(S)
           v == Votes(s, "LONG") w == Votes(s, "SHORT")
<1> SUFFICES ASSUME Chooses(mode, s, "LONG"), Chooses(mode, s, "SHORT") PROVE FALSE
  OBVIOUS
<1>1. Opposite("LONG") = "SHORT" /\ Opposite("SHORT") = "LONG"
  BY DEF Opposite
<1>2. L # {} \/ S # {}
  BY ExecutingBacks DEF Chooses
<1>3. l \in Nat /\ c \in Nat /\ v \in Int /\ w \in Int
  BY BackingFinite, VotesType
<1>4. l # 0 \/ c # 0
  BY <1>2, BackingFinite
<1>5. \/ mode = "AND" /\ c = 0 /\ l = 0
      \/ mode = "OR" /\ (l > c \/ l = c) /\ c > l
      \/ mode = "MAJORITY" /\ 2 * l > l + c /\ 2 * c > c + l
      \/ mode = "WEIGHTED" /\ v + w > 0 /\ 10 * (v - w) >= v + w /\ 10 * (w - v) >= w + v
  BY <1>1 DEF Chooses
<1> HIDE DEF L, S, l, c, v, w
<1> QED  BY <1>3, <1>4, <1>5

\* The mirror changes the sides and nothing else.
LEMMA MirrorNode ==
  ASSUME NEW s, Sensible(s), NEW n \in Nodes
  PROVE  /\ Mirror(s)[n].available = s[n].available
         /\ Mirror(s)[n].action = s[n].action
         /\ Mirror(s)[n].conf = s[n].conf
         /\ Mirror(s)[n].risk = s[n].risk
         /\ Mirror(s)[n].side = IF s[n].side \in Sides THEN Opposite(s[n].side) ELSE s[n].side
  BY DEF Mirror, Sensible, Signal

\* The mirror of signals is signals.
LEMMA MirrorSensible == ASSUME NEW s, Sensible(s) PROVE Sensible(Mirror(s))
  BY DEF Sensible, Mirror, Signal, Opposite, Sides

\* The gates see the same nodes in the mirror, backing the other side.
LEMMA MirrorSets ==
  ASSUME NEW s, Sensible(s)
  PROVE  /\ Missing(Mirror(s)) = Missing(s)
         /\ Killers(Mirror(s)) = Killers(s)
         /\ Executing(Mirror(s)) = Executing(s)
         /\ WithRole(Mirror(s), RiskNodes) = WithRole(s, RiskNodes)
         /\ \A side \in Sides : Backing(Mirror(s), side) = Backing(s, Opposite(side))
<1>1. Missing(Mirror(s)) = Missing(s)
  BY MirrorNode, RolesAssumption DEF Missing
<1>2. Killers(Mirror(s)) = Killers(s)
  BY MirrorNode, RolesAssumption DEF Killers, WithRole
<1>3. WithRole(Mirror(s), RiskNodes) = WithRole(s, RiskNodes)
  BY MirrorNode, RolesAssumption DEF WithRole
<1>4. \A n \in Nodes : Mirror(s)[n].side \in Sides <=> s[n].side \in Sides
  BY MirrorNode DEF Opposite, Sides
<1>5. Executing(Mirror(s)) = Executing(s)
  BY <1>4, MirrorNode, RolesAssumption DEF Executing, WithRole
<1>6. \A n \in Nodes : \A side \in Sides : s[n].side \in Sides =>
        (Mirror(s)[n].side = side <=> s[n].side = Opposite(side))
  BY MirrorNode DEF Opposite, Sides
<1>7. \A n \in Executing(s) : n \in Nodes /\ s[n].side \in Sides
  BY RolesAssumption DEF Executing, WithRole
<1>8. \A side \in Sides : Backing(Mirror(s), side) = Backing(s, Opposite(side))
  BY <1>5, <1>6, <1>7 DEF Backing
<1> QED  BY <1>1, <1>2, <1>3, <1>5, <1>8

\* The mirror keeps the risk and exchanges votes and weights.
LEMMA MirrorNumbers ==
  ASSUME NEW s, Sensible(s)
  PROVE  /\ RiskMultiplier(Mirror(s)) = RiskMultiplier(s)
         /\ \A side \in Sides :
              /\ Votes(Mirror(s), side) = Votes(s, Opposite(side))
              /\ BackingWeight(Mirror(s), side) = BackingWeight(s, Opposite(side))
<1>1. Stake(Mirror(s)) = Stake(s)
  BY MirrorNode DEF Stake
<1>2. [n \in Nodes |-> Clamp(Mirror(s)[n].risk, 0, Scale)]
        = [n \in Nodes |-> Clamp(s[n].risk, 0, Scale)]
  BY MirrorNode
<1>3. RiskMultiplier(Mirror(s)) = RiskMultiplier(s)
  BY <1>2, MirrorSets DEF RiskMultiplier
<1> QED  BY <1>1, <1>3, MirrorSets DEF Votes, BackingWeight

\* A mode without tie-break chooses the other side in the mirror.
LEMMA MirrorChooses ==
  ASSUME NEW s, Sensible(s), NEW mode, mode # "OR", NEW side \in Sides
  PROVE  Chooses(mode, Mirror(s), side) <=> Chooses(mode, s, Opposite(side))
<1>1. Opposite(side) \in Sides /\ Opposite(Opposite(side)) = side
  BY DEF Opposite, Sides
<1> QED  BY <1>1, MirrorSets, MirrorNumbers DEF Chooses

\* So does the direction gate.
LEMMA MirrorTarget ==
  ASSUME NEW s, Sensible(s), NEW mode, mode # "OR"
  PROVE  TargetSide(mode, Mirror(s)) =
           IF TargetSide(mode, s) \in Sides THEN Opposite(TargetSide(mode, s)) ELSE "NONE"
<1>1. Opposite("LONG") = "SHORT" /\ Opposite("SHORT") = "LONG"
  BY DEF Opposite
<1>2. /\ Chooses(mode, Mirror(s), "LONG") <=> Chooses(mode, s, "SHORT")
      /\ Chooses(mode, Mirror(s), "SHORT") <=> Chooses(mode, s, "LONG")
  BY <1>1, MirrorChooses DEF Sides
<1> QED  BY <1>1, <1>2, OneSide DEF TargetSide, Sides

\* evaluate has no directional bias: with LONG and SHORT exchanged it takes the
\* mirrored decision with the same numbers, in every mode but OR
\* (confluence.py, _eval_direction).
THEOREM MirrorDecision ==
  ASSUME NEW s, Sensible(s), NEW mode, mode # "OR", NEW minConf
  PROVE  LET d == Evaluate(mode, minConf, s)
             m == Evaluate(mode, minConf, Mirror(s)) IN
         /\ m.action = d.action
         /\ m.side = (IF d.side \in Sides THEN Opposite(d.side) ELSE d.side)
         /\ m.conf = d.conf /\ m.risk = d.risk
<1> DEFINE t == TargetSide(mode, s) u == TargetSide(mode, Mirror(s))
<1>1. Missing(Mirror(s)) = Missing(s) /\ Killers(Mirror(s)) = Killers(s)
  BY MirrorSets
<1>2. "NONE" \notin Sides
  BY DEF Sides
<1>3. CASE t = "NONE"
  <2>1. u = "NONE"
    BY <1>2, <1>3, MirrorTarget
  <2> QED  BY <1>1, <1>2, <1>3, <2>1 DEF Evaluate, NoTrade
<1>4. CASE t # "NONE"
  <2>1. t \in Sides /\ u = Opposite(t) /\ u \in Sides
    BY <1>4, MirrorTarget, TargetSideType DEF Opposite, Sides
  <2>2. Opposite(u) = t
    BY <2>1 DEF Opposite, Sides
  <2>3. /\ Confident(minConf, Mirror(s), u) <=> Confident(minConf, s, t)
        /\ AverageConf(Mirror(s), u) = AverageConf(s, t)
    BY <2>1, <2>2, MirrorSets, MirrorNumbers DEF Confident, AverageConf
  <2>4. RiskMultiplier(Mirror(s)) = RiskMultiplier(s)
    BY MirrorNumbers
  <2> HIDE DEF t, u
  <2>5. Evaluate(mode, minConf, s) =
          CASE Missing(s) # {} -> NoTrade(Fallback, "NONE")
            [] Missing(s) = {} /\ Killers(s) # {} -> NoTrade("KILL", "NONE")
            [] Missing(s) = {} /\ Killers(s) = {} /\ t = "NONE" -> NoTrade("WAIT", "NONE")
            [] Missing(s) = {} /\ Killers(s) = {} /\ t # "NONE" /\ ~Confident(minConf, s, t) ->
                 [NoTrade("WAIT", t) EXCEPT !.conf = AverageConf(s, t)]
            [] OTHER -> [action |-> "EXECUTE", side |-> t,
                         conf |-> AverageConf(s, t), risk |-> RiskMultiplier(s)]
    BY DEF Evaluate, t
  <2>6. Evaluate(mode, minConf, Mirror(s)) =
          CASE Missing(s) # {} -> NoTrade(Fallback, "NONE")
            [] Missing(s) = {} /\ Killers(s) # {} -> NoTrade("KILL", "NONE")
            [] Missing(s) = {} /\ Killers(s) = {} /\ u = "NONE" -> NoTrade("WAIT", "NONE")
            [] Missing(s) = {} /\ Killers(s) = {} /\ u # "NONE" /\ ~Confident(minConf, s, t) ->
                 [NoTrade("WAIT", u) EXCEPT !.conf = AverageConf(s, t)]
            [] OTHER -> [action |-> "EXECUTE", side |-> u,
                         conf |-> AverageConf(s, t), risk |-> RiskMultiplier(s)]
    BY <1>1, <2>3, <2>4 DEF Evaluate, u
  <2> QED  BY <1>2, <2>1, <2>5, <2>6 DEF NoTrade
<1> QED  BY <1>3, <1>4

\* evaluate depends on the mode through the target side only.
LEMMA SameTarget ==
  ASSUME NEW a, NEW b, NEW minConf, NEW s, TargetSide(a, s) = TargetSide(b, s)
  PROVE  Evaluate(a, minConf, s) = Evaluate(b, minConf, s)
  BY DEF Evaluate

\* A decision to trade has a side.
LEMMA ExecuteHasTarget ==
  ASSUME NEW mode, NEW minConf, NEW s, Fallback # "EXECUTE",
         Evaluate(mode, minConf, s).action = "EXECUTE"
  PROVE  TargetSide(mode, s) \in Sides
  BY TargetSideType DEF Evaluate, NoTrade

\* The modes are ordered by strictness.
LEMMA StricterTarget ==
  ASSUME NEW s, Sensible(s)
  PROVE  /\ TargetSide("AND", s) # "NONE" => TargetSide("MAJORITY", s) = TargetSide("AND", s)
         /\ TargetSide("MAJORITY", s) # "NONE" => TargetSide("OR", s) = TargetSide("MAJORITY", s)
<1> DEFINE L == Backing(s, "LONG") S == Backing(s, "SHORT")
           l == Cardinality(L) c == Cardinality(S)
<1>1. Opposite("LONG") = "SHORT" /\ Opposite("SHORT") = "LONG"
  BY DEF Opposite
<1>2. l \in Nat /\ c \in Nat
  BY BackingFinite
<1>3. (Executing(s) # {}) <=> (l # 0 \/ c # 0)
  BY ExecutingBacks, BackingFinite
<1>4. /\ Chooses("AND", s, "LONG") <=> Executing(s) # {} /\ c = 0
      /\ Chooses("AND", s, "SHORT") <=> Executing(s) # {} /\ l = 0
      /\ Chooses("MAJORITY", s, "LONG") <=> Executing(s) # {} /\ 2 * l > l + c
      /\ Chooses("MAJORITY", s, "SHORT") <=> Executing(s) # {} /\ 2 * c > c + l
      /\ Chooses("OR", s, "LONG") <=> Executing(s) # {} /\ (l > c \/ l = c)
      /\ Chooses("OR", s, "SHORT") <=> Executing(s) # {} /\ c > l
  BY <1>1 DEF Chooses
<1> HIDE DEF L, S, l, c
<1>5. /\ Chooses("AND", s, "LONG") => Chooses("MAJORITY", s, "LONG")
      /\ Chooses("AND", s, "SHORT") => Chooses("MAJORITY", s, "SHORT")
      /\ Chooses("MAJORITY", s, "LONG") => Chooses("OR", s, "LONG")
      /\ Chooses("MAJORITY", s, "SHORT") => Chooses("OR", s, "SHORT")
  BY <1>2, <1>3, <1>4
<1> QED  BY <1>5, OneSide DEF TargetSide

\* A supporter more, and the signals are still of the right shape.
LEMMA SupportedSensible ==
  ASSUME NEW s, Clamped(s), NEW n \in DirectionNodes, NEW side \in Sides, NEW conf \in 0 .. Scale
  PROVE  Clamped(Supported(s, n, side, conf))
<1>1. Reply("EXECUTE", side, conf, Scale) \in Signal
  BY ScaleAssumption DEF Reply, Signal, Actions
<1>2. n \in Nodes
  BY RolesAssumption
<1> QED  BY <1>1, <1>2 DEF Clamped, Sensible, Supported, Reply

\* Only the supporter changes.
LEMMA SupportedNodes ==
  ASSUME NEW s, Sensible(s), NEW n \in DirectionNodes, NEW side, NEW conf
  PROVE  /\ Supported(s, n, side, conf)[n] = Reply("EXECUTE", side, conf, Scale)
         /\ \A m \in Nodes \ {n} : Supported(s, n, side, conf)[m] = s[m]
  BY RolesAssumption DEF Supported, Sensible

\* A supporter clears no gate that was passed, joins the side and leaves the
\* other.
LEMMA SupportedSets ==
  ASSUME NEW s, Sensible(s), NEW side \in Sides, NEW n \in DirectionNodes, NEW conf
  PROVE  LET t == Supported(s, n, side, conf) IN
         /\ Missing(t) \subseteq Missing(s)
         /\ Killers(t) \subseteq Killers(s)
         /\ Backing(t, side) = Backing(s, side) \cup {n}
         /\ Backing(t, Opposite(side)) = Backing(s, Opposite(side)) \ {n}
<1> DEFINE t == Supported(s, n, side, conf)
<1>1. t[n].available /\ t[n].action = "EXECUTE" /\ t[n].side = side
  <2>1. t[n] = Reply("EXECUTE", side, conf, Scale)
    BY SupportedNodes
  <2> QED  BY <2>1 DEF Reply
<1>2. \A m \in Nodes \ {n} : t[m] = s[m]
  BY SupportedNodes
<1> HIDE DEF t
<1>3. Missing(t) \subseteq Missing(s)
  BY <1>1, <1>2, RolesAssumption DEF Missing
<1>4. Killers(t) \subseteq Killers(s)
  BY <1>1, <1>2, RolesAssumption DEF Killers, WithRole
<1>5. Backing(t, side) = Backing(s, side) \cup {n}
  BY <1>1, <1>2, RolesAssumption DEF Backing, Executing, WithRole
<1>6. Opposite(side) # side
  BY DEF Opposite, Sides
<1>7. Backing(t, Opposite(side)) = Backing(s, Opposite(side)) \ {n}
  BY <1>1, <1>2, <1>6, RolesAssumption DEF Backing, Executing, WithRole
<1> QED  BY <1>3, <1>4, <1>5, <1>7 DEF t

\* What the supporter adds to the sums, and what it takes from the other side.
LEMMA SupportedVotes ==
  ASSUME NEW s, Clamped(s), NEW side \in Sides, NEW n \in DirectionNodes \ Backing(s, side),
         NEW conf \in 0 .. Scale
  PROVE  LET t == Supported(s, n, side, conf) IN
         /\ Votes(t, side) = Weight[n] * conf + Votes(s, side)
         /\ BackingWeight(t, side) = Weight[n] + BackingWeight(s, side)
         /\ Votes(t, Opposite(side)) <= Votes(s, Opposite(side))
<1> DEFINE t == Supported(s, n, side, conf)
           B == Backing(s, side) O == Backing(s, Opposite(side))
<1>1. Sensible(s) /\ Sensible(t) /\ Clamped(t)
  BY SupportedSensible DEF Clamped
<1>2. n \in Nodes /\ n \notin B
  BY RolesAssumption
<1>3. /\ B \subseteq Nodes /\ IsFiniteSet(B)
      /\ O \subseteq Nodes /\ IsFiniteSet(O)
  BY BackingFinite
<1>4. Backing(t, side) = B \cup {n} /\ Backing(t, Opposite(side)) = O \ {n}
  BY <1>1, SupportedSets
<1>5. /\ \A m \in Nodes : Stake(t)[m] \in Int /\ Stake(s)[m] \in Int
      /\ \A m \in Nodes : m # n => Stake(t)[m] = Stake(s)[m]
      /\ Stake(t)[n] = Weight[n] * conf
  <2>1. \A m \in Nodes : m # n => t[m] = s[m]
    BY <1>1, SupportedNodes
  <2>2. t[n].conf = conf
    <3>1. t[n] = Reply("EXECUTE", side, conf, Scale)
      BY <1>1, SupportedNodes
    <3> QED  BY <3>1 DEF Reply
  <2> HIDE DEF t
  <2> QED  BY <1>1, <1>2, <2>1, <2>2, StakeType
<1> HIDE DEF t, B, O
<1>6. SumFunctionOnSet(Stake(t), B) = SumFunctionOnSet(Stake(s), B)
  <2>1. \A m \in B : Stake(s)[m] \in Int /\ Stake(t)[m] = Stake(s)[m]
    BY <1>2, <1>3, <1>5
  <2> QED  BY <1>3, <2>1, SumSame
<1>7. Votes(t, side) = Weight[n] * conf + Votes(s, side)
  <2>1. \A m \in B : Stake(t)[m] \in Int
    BY <1>3, <1>5
  <2>2. SumFunctionOnSet(Stake(t), B \cup {n}) = Stake(t)[n] + SumFunctionOnSet(Stake(t), B)
    BY <1>2, <1>3, <1>5, <2>1, SumAdd
  <2> QED  BY <1>4, <1>5, <1>6, <2>2 DEF Votes, B
<1>8. BackingWeight(t, side) = Weight[n] + BackingWeight(s, side)
  <2>1. (\A m \in B : Weight[m] \in Int) /\ Weight[n] \in Int
    BY <1>2, <1>3, WeightAssumption
  <2>2. SumFunctionOnSet(Weight, B \cup {n}) = Weight[n] + SumFunctionOnSet(Weight, B)
    BY <1>2, <1>3, <2>1, SumAdd
  <2> QED  BY <1>4, <2>2 DEF BackingWeight, B
<1>9. SumFunctionOnSet(Stake(t), O \ {n}) = SumFunctionOnSet(Stake(s), O \ {n})
  <2>1. IsFiniteSet(O \ {n})
    BY <1>3, FS_Subset
  <2>2. \A m \in O \ {n} : Stake(s)[m] \in Int /\ Stake(t)[m] = Stake(s)[m]
    BY <1>3, <1>5
  <2> QED  BY <2>1, <2>2, SumSame
<1>10. SumFunctionOnSet(Stake(s), O \ {n}) <= SumFunctionOnSet(Stake(s), O)
  <2>1. CASE n \in O
    <3>1. \A m \in O : Stake(s)[m] \in Int
      BY <1>3, <1>5
    <3>2. SumFunctionOnSet(Stake(s), O) = Stake(s)[n] + SumFunctionOnSet(Stake(s), O \ {n})
      BY <1>3, <2>1, <3>1, SumRemove
    <3>3. IsFiniteSet(O \ {n}) /\ \A m \in O \ {n} : Stake(s)[m] \in Int
      BY <1>3, <3>1, FS_Subset
    <3>4. SumFunctionOnSet(Stake(s), O \ {n}) \in Int
      BY <3>3, SumByPick
    <3>5. Stake(s)[n] \in Int /\ 0 <= Stake(s)[n]
      <4>1. Weight[n] \in Nat /\ s[n].conf \in Nat
        BY <1>2, WeightAssumption, ScaleAssumption DEF Clamped
      <4>2. \A a, b \in Nat : 0 <= a * b
        OBVIOUS
      <4> QED  BY <1>1, <1>2, <4>1, <4>2, StakeType
    <3> QED  BY <3>2, <3>4, <3>5
  <2>2. CASE n \notin O
    <3>1. O \ {n} = O
      BY <2>2
    <3>2. Votes(s, Opposite(side)) \in Int
      BY <1>1, VotesType
    <3> QED  BY <3>1, <3>2 DEF Votes, O
  <2> QED  BY <2>1, <2>2
<1>11. Votes(t, Opposite(side)) <= Votes(s, Opposite(side))
  BY <1>4, <1>9, <1>10 DEF Votes, O
<1> QED  BY <1>7, <1>8, <1>11 DEF t

\* A side that was chosen still is with a supporter more, in every mode.
LEMMA SupportedChooses ==
  ASSUME NEW s, Clamped(s), NEW side \in Sides, NEW n \in DirectionNodes \ Backing(s, side),
         NEW conf \in 0 .. Scale, NEW mode, Chooses(mode, s, side)
  PROVE  Chooses(mode, Supported(s, n, side, conf), side)
<1> DEFINE t == Supported(s, n, side, conf)
           B == Backing(s, side) O == Backing(s, Opposite(side))
           C == Backing(t, side) Q == Backing(t, Opposite(side))
           f == Cardinality(B) g == Cardinality(O)
           h == Cardinality(C) k == Cardinality(Q)
           x == Votes(s, side) y == Votes(s, Opposite(side))
           z == Votes(t, side) w == Votes(t, Opposite(side))
<1>1. Sensible(s) /\ Clamped(t) /\ Sensible(t)
  BY SupportedSensible DEF Clamped
<1>2. C = B \cup {n} /\ Q = O \ {n}
  BY <1>1, SupportedSets
<1>3. f \in Nat /\ g \in Nat /\ h \in Nat /\ k \in Nat
  BY BackingFinite
<1>4. h = f + 1
  BY <1>2, BackingFinite, FS_AddElement
<1>5. k <= g
  <2>1. IsFiniteSet(O) /\ Q \subseteq O
    BY <1>2, BackingFinite
  <2> QED  BY <2>1, FS_Subset
<1>6. Executing(t) # {}
  BY <1>2 DEF Backing
<1>7. x \in Int /\ y \in Int /\ z \in Int /\ w \in Int /\ y >= 0 /\ w >= 0
  <2>1. 0 <= y /\ 0 <= w
    BY <1>1, VotesWithin
  <2> QED  BY <1>1, <2>1, VotesType
<1>8. z >= x /\ w <= y
  <2>1. z = Weight[n] * conf + x /\ w <= y
    BY SupportedVotes
  <2>2. Weight[n] \in Nat /\ conf \in Nat
    BY WeightAssumption, RolesAssumption, ScaleAssumption
  <2>3. \A a, b \in Nat : 0 <= a * b /\ a * b \in Int
    OBVIOUS
  <2> HIDE DEF t, x, y, z, w
  <2>4. 0 <= Weight[n] * conf /\ Weight[n] * conf \in Int
    BY <2>2, <2>3
  <2> QED  BY <1>7, <2>1, <2>4
<1>9. \/ mode = "AND" /\ g = 0
      \/ mode = "OR" /\ (f > g \/ (f = g /\ side = "LONG"))
      \/ mode = "MAJORITY" /\ 2 * f > f + g
      \/ mode = "WEIGHTED" /\ x + y > 0 /\ 10 * (x - y) >= x + y
  BY DEF Chooses
<1>10. \/ mode = "AND" /\ k = 0
       \/ mode = "OR" /\ (h > k \/ (h = k /\ side = "LONG"))
       \/ mode = "MAJORITY" /\ 2 * h > h + k
       \/ mode = "WEIGHTED" /\ z + w > 0 /\ 10 * (z - w) >= z + w
  <2> HIDE DEF f, g, h, k, x, y, z, w
  <2> QED  BY <1>3, <1>4, <1>5, <1>7, <1>8, <1>9
<1> QED  BY <1>6, <1>10 DEF Chooses

\* The confidence gate still passes when the supporter is confident enough.
LEMMA SupportedConfident ==
  ASSUME NEW s, Clamped(s), NEW side \in Sides, NEW n \in DirectionNodes \ Backing(s, side),
         NEW minConf \in 0 .. Scale, NEW conf \in minConf .. Scale, Confident(minConf, s, side)
  PROVE  Confident(minConf, Supported(s, n, side, conf), side)
<1> DEFINE t == Supported(s, n, side, conf)
           x == Votes(s, side) b == BackingWeight(s, side)
           z == Votes(t, side) d == BackingWeight(t, side)
           a == Weight[n]
<1>1. conf \in 0 .. Scale /\ conf \in Nat /\ minConf \in Nat /\ a \in Nat /\ minConf <= conf
  BY ScaleAssumption, WeightAssumption, RolesAssumption
<1>2. Sensible(s)
  BY DEF Clamped
<1>3. x \in Int /\ b \in Int /\ 0 <= x /\ 0 <= b
  BY <1>2, VotesType, VotesWithin
<1>4. z = a * conf + x /\ d = a + b
  BY <1>1, SupportedVotes
<1>5. IF b > 0 THEN x >= minConf * b ELSE minConf = 0
  BY DEF Confident
<1>6. Backing(t, side) # {}
  BY <1>1, <1>2, SupportedSets
<1> HIDE DEF t, x, b, z, d, a
<1>7. minConf * a <= a * conf /\ minConf * a \in Nat /\ a * conf \in Nat
  BY <1>1
<1>8. minConf * d = minConf * a + minConf * b
  BY <1>1, <1>3, <1>4
<1>9. minConf * b \in Nat
  BY <1>1, <1>3
<1>10. b > 0 => z >= minConf * d
  BY <1>3, <1>4, <1>5, <1>7, <1>8, <1>9
<1>11. ~(b > 0) => minConf = 0 /\ 0 * d = 0 /\ z >= 0
  BY <1>1, <1>3, <1>4, <1>5, <1>7
<1>12. IF d > 0 THEN z >= minConf * d ELSE minConf = 0
  BY <1>1, <1>3, <1>4, <1>10, <1>11
<1> QED  BY <1>6, <1>12 DEF Confident, t, z, d

\* Agreement cannot hurt: when evaluate trades, and a node that did not back the
\* side now does with at least the required confidence, it trades on the same
\* side, whatever the weights and whichever way the node leaned (confluence.py,
\* evaluate).
THEOREM SupportHelps ==
  ASSUME Fallback # "EXECUTE", NEW s, Clamped(s), NEW mode,
         NEW minConf \in 0 .. Scale, NEW conf \in minConf .. Scale,
         Evaluate(mode, minConf, s).action = "EXECUTE",
         NEW n \in DirectionNodes \ Backing(s, Evaluate(mode, minConf, s).side)
  PROVE  LET side == Evaluate(mode, minConf, s).side
             e    == Evaluate(mode, minConf, Supported(s, n, side, conf)) IN
         e.action = "EXECUTE" /\ e.side = side
<1> DEFINE side == TargetSide(mode, s)
           t == Supported(s, n, side, conf)
<1>1. side \in Sides
  BY ExecuteHasTarget
<1>2. Missing(s) = {} /\ Killers(s) = {} /\ Confident(minConf, s, side)
  BY <1>1 DEF Evaluate, NoTrade, Sides
<1>3. Evaluate(mode, minConf, s).side = side
  BY <1>1, <1>2 DEF Evaluate, Sides
<1>4. n \in DirectionNodes \ Backing(s, side) /\ conf \in 0 .. Scale
  BY <1>3, ScaleAssumption
<1>5. Sensible(s) /\ Clamped(t) /\ Sensible(t)
  BY <1>1, <1>4, SupportedSensible DEF Clamped
<1>6. Missing(t) = {} /\ Killers(t) = {}
  BY <1>1, <1>2, <1>4, <1>5, SupportedSets
<1>7. Chooses(mode, s, side)
  BY <1>1 DEF TargetSide, Sides
<1>8. Chooses(mode, t, side)
  BY <1>1, <1>4, <1>7, SupportedChooses
<1>9. Confident(minConf, t, side)
  BY <1>1, <1>2, <1>4, SupportedConfident
<1> HIDE DEF t, side
<1>10. TargetSide(mode, t) = side
  BY <1>1, <1>5, <1>8, OneSide DEF TargetSide, Sides
<1>11. Evaluate(mode, minConf, t).action = "EXECUTE" /\ Evaluate(mode, minConf, t).side = side
  BY <1>1, <1>6, <1>9, <1>10 DEF Evaluate, Sides
<1> QED  BY <1>3, <1>11 DEF t

-----------------------------------------------------------------------------
(***************************************************************************)
(* The handler: orders, retries and status.                                *)
(***************************************************************************)

\* What the handler decided is what the pipeline says of the signals.
Decided ==
  /\ decision = IF req.pipeline = "v3" THEN V3Decision(req) ELSE V2Decision(req)
  /\ GoesToExecutioner(req, decision)

\* The inductive invariant: an order, and every phase that may place or
\* register one, rests on Decided; orders are counted against the attempts
\* of unknown outcome.
IInv ==
  /\ phase \in Phases /\ req \in Requests
  /\ unclear \in Nat /\ orders \in Nat
  /\ phase \in {"gather", "brain", "decide"} => orders = 0 /\ unclear = 0
  /\ phase \in {"execute", "register"} \/ orders > 0 => Decided
  /\ phase = "execute" => orders <= unclear
  /\ phase = "register" => orders >= 1
  /\ phase \notin {"done", "crashed"} => reply = "none" /\ ~tracked
  /\ DuplicatesExplained
  /\ StatusTellsOrders
  /\ TrackedWasOrdered

\* The invariant holds at the start.
LEMMA InitIInv == Init => IInv
  BY DEF Init, IInv, Phases, DuplicatesExplained, StatusTellsOrders, TrackedWasOrdered

\* Every step preserves the invariant: one step per action.
LEMMA StepIInv == IInv /\ [Next]_vars => IInv'
<1> SUFFICES ASSUME IInv, [Next]_vars PROVE IInv'
  OBVIOUS
<1> USE DEF IInv, Phases, DuplicatesExplained, StatusTellsOrders, TrackedWasOrdered
<1>1. ASSUME NEW n \in Nodes, Answer(n) PROVE IInv'
  BY <1>1 DEF Answer
<1>2. CASE GatherDone
  BY <1>2 DEF GatherDone
<1>3. CASE V2ShadowFails
  BY <1>3 DEF V2ShadowFails, Raise, Finish
<1>4. CASE AskBrain
  BY <1>4 DEF AskBrain
<1>5. CASE BrainRaises
  BY <1>5 DEF BrainRaises, Raise, Finish
<1>6. CASE Decide
  <2>1. CASE GoesToExecutioner(req, decision')
    BY <1>6, <2>1 DEF Decide, Decided, V3Decision, V2Decision
  <2>2. CASE ~GoesToExecutioner(req, decision')
    <3>1. decision'.action \in Actions
      BY <1>6, EvaluateAction DEF Decide, V3Decision, V2Decision, NoTrade, Actions
    <3>2. StatusOf(req, decision') \in Actions \cup {"SKIPPED", "400", "DRY_RUN"}
      BY <3>1 DEF StatusOf
    <3>3. phase' = "done" /\ reply' = StatusOf(req, decision')
      BY <1>6, <2>2 DEF Decide, Finish
    <3> QED BY <1>6, <3>2, <3>3 DEF Decide, Actions
  <2> QED BY <2>1, <2>2
<1>7. CASE StrikeAccepted
  BY <1>7 DEF StrikeAccepted, Finish, Decided, V3Decision, V2Decision
<1>8. CASE StrikeRefused
  BY <1>8 DEF StrikeRefused, Finish, Decided, V3Decision, V2Decision
<1>9. CASE StrikeUnclear
  BY <1>9 DEF StrikeUnclear, Raise, Finish, Decided, V3Decision, V2Decision
<1>10. CASE StrikeRaises
  BY <1>10 DEF StrikeRaises, Finish, Decided, V3Decision, V2Decision
<1>11. CASE Register
  BY <1>11 DEF Register, Finish, Decided, V3Decision, V2Decision, GoesToExecutioner
<1>12. CASE Crash
  BY <1>12 DEF Crash, Decided, V3Decision, V2Decision
<1>13. CASE UNCHANGED vars
  BY <1>13 DEF vars, Decided, V3Decision, V2Decision
<1> QED
  BY <1>1, <1>2, <1>3, <1>4, <1>5, <1>6, <1>7, <1>8, <1>9, <1>10, <1>11, <1>12,
     <1>13 DEF Next, Progress

\* The invariant holds throughout.
LEMMA Inductive == Spec => []IInv
  BY InitIInv, StepIInv, PTL DEF Spec

\* No order without a reason: whatever the order of answers, the deadline,
\* the retries and the crashes, an order exists only for a request that was
\* no dry run and whose gates passed (maestro_v3.py, orchestrate).
THEOREM OrdersAreJustified ==
  ASSUME Fallback # "EXECUTE"
  PROVE  Spec => []OrderJustified
<1>1. IInv => OrderJustified
  <2> SUFFICES ASSUME IInv, orders > 0
               PROVE  /\ ~req.dry
                      /\ \/ /\ req.pipeline = "v3"
                            /\ Justified(EngineMinConf(req), sig, decision.side)
                         \/ /\ req.pipeline = "v2"
                            /\ sig[Brain].action = "EXECUTE"
                            /\ sig[Brain].side = decision.side
                            /\ decision.side \in Sides
                            /\ sig[Brain].conf >= V2MinConf(req)
    BY DEF OrderJustified
  <2>1. Decided
    BY DEF IInv
  <2>2. CASE req.pipeline = "v3"
    <3>1. decision = Evaluate(EngineMode(req), EngineMinConf(req), sig)
      BY <2>1, <2>2 DEF Decided, V3Decision
    <3> QED BY <2>1, <2>2, <3>1, EvaluateJustified DEF Decided, GoesToExecutioner
  <2>3. CASE req.pipeline # "v3"
    <3>1. req.pipeline = "v2"
      BY <2>3, RequestAssumption DEF IInv, Request
    <3>2. decision = V2Decision(req)
      BY <2>1, <2>3 DEF Decided
    <3> QED BY <2>1, <3>1, <3>2 DEF Decided, GoesToExecutioner, V2Decision, NoTrade
  <2> QED BY <2>2, <2>3
<1> QED
  BY <1>1, Inductive, PTL

\* Retries add an order only through an attempt whose outcome was unknown
\* (retry.py around execute_strike).
THEOREM RetriesExplainDuplicates == Spec => []DuplicatesExplained
<1>1. IInv => DuplicatesExplained
  BY DEF IInv
<1> QED
  BY <1>1, Inductive, PTL

\* No status but an error, and a refusal after an attempt of unknown outcome,
\* leaves the client in doubt about an order (maestro_v3.py, orchestrate).
THEOREM StatusIsHonest == Spec => []StatusTellsOrders
<1>1. IInv => StatusTellsOrders
  BY DEF IInv
<1> QED
  BY <1>1, Inductive, PTL

\* Only positions that were ordered reach the APM (maestro_v3.py, the
\* registration in orchestrate).
THEOREM TrackedPositionsExist == Spec => []TrackedWasOrdered
<1>1. IInv => TrackedWasOrdered
  BY DEF IInv
<1> QED
  BY <1>1, Inductive, PTL

-----------------------------------------------------------------------------
(***************************************************************************)
(* The handler: types, and the engine on the signals of a request.         *)
(***************************************************************************)

\* The types, with the attempts that bound the counters.
Typed ==
  /\ TypeOK
  /\ orders <= attempts /\ unclear <= attempts
  /\ phase \in {"gather", "brain", "decide"} => attempts = 0
  /\ phase = "execute" => attempts < Attempts

\* One signal replaced keeps the signals typed.
LEMMA SigStep ==
  ASSUME TypeOK, NEW n \in Nodes, NEW r \in Signal,
         sig' = [sig EXCEPT ![n] = r], req' = req,
         req.pipeline = "v3" => r.conf \in 0 .. Scale
  PROVE  /\ sig' \in [Nodes -> Signal]
         /\ req'.pipeline = "v3" => \A m \in Nodes : sig'[m].conf \in 0 .. Scale
  BY DEF TypeOK

\* The types hold at the start.
LEMMA InitTyped == Init => Typed
<1> SUFFICES ASSUME Init PROVE Typed
  OBVIOUS
<1>1. decision \in Decision /\ decision.conf = 0 /\ decision.risk = 0
  BY DEF Init, NoTrade, Decision, Actions
<1>2. sig \in [Nodes -> Signal] /\ \A n \in Nodes : sig[n].conf \in 0 .. Scale
  BY SignalTypes DEF Init
<1>3. pending \subseteq Nodes
  BY NodesAssumption DEF Init, AskedFirst, Gathered
<1>4. decision.conf \in 0 .. Scale /\ decision.risk \in 0 .. Scale
  BY <1>1, ScaleAssumption
<1>5. /\ phase = "gather" /\ req \in Requests /\ reply = "none" /\ tracked = FALSE
      /\ attempts = 0 /\ unclear = 0 /\ orders = 0 /\ 0 \in 0 .. Attempts
  BY SizeAssumption DEF Init
<1>6. /\ orders <= attempts /\ unclear <= attempts
      /\ phase \in {"gather", "brain", "decide"} => attempts = 0
      /\ phase = "execute" => attempts < Attempts
  BY <1>5
<1>7. phase \in Phases /\ reply \in ReplyStatus /\ tracked \in BOOLEAN
  BY <1>5 DEF Phases, ReplyStatus
<1>8. attempts \in 0 .. Attempts /\ unclear \in 0 .. Attempts /\ orders \in 0 .. Attempts
  BY <1>5
<1> QED
  BY <1>1, <1>2, <1>3, <1>4, <1>5, <1>6, <1>7, <1>8 DEF Typed, TypeOK

\* Every step preserves the types: one step per action.
LEMMA StepTyped == Typed /\ [Next]_vars => Typed'
<1> SUFFICES ASSUME Typed, [Next]_vars PROVE Typed'
  OBVIOUS
<1> USE DEF Typed, Phases, ReplyStatus
<1> USE SizeAssumption
<1>1. ASSUME NEW n \in Nodes, Answer(n) PROVE Typed'
  <2>1. PICK r \in Replies[n] : sig' = [sig EXCEPT ![n] = AsSignal(r)]
    BY <1>1 DEF Answer
  <2>2. AsSignal(r) \in Signal /\ AsSignal(r).conf \in 0 .. Scale
    BY RepliesAssumption, SignalTypes
  <2>3. /\ sig' \in [Nodes -> Signal]
        /\ req'.pipeline = "v3" => \A m \in Nodes : sig'[m].conf \in 0 .. Scale
    BY <1>1, <2>1, <2>2, SigStep DEF Answer
  <2> QED  BY <1>1, <2>3 DEF Answer, TypeOK
<1>2. CASE GatherDone
  BY <1>2 DEF GatherDone, TypeOK
<1>3. CASE V2ShadowFails
  BY <1>3 DEF V2ShadowFails, Raise, Finish, TypeOK
<1>4. CASE AskBrain
  <2>1. PICK r \in Signal : /\ sig' = [sig EXCEPT ![Brain] = r]
                            /\ req.pipeline = "v3" => r.conf \in 0 .. Scale
    <3>1. \A r \in Replies[Brain] \cup {Down} : r \in Signal
      BY RepliesAssumption, NodesAssumption, SignalTypes
    <3> QED  BY <1>4, <3>1, SignalTypes DEF AskBrain
  <2>2. /\ sig' \in [Nodes -> Signal]
        /\ req'.pipeline = "v3" => \A m \in Nodes : sig'[m].conf \in 0 .. Scale
    BY <1>4, <2>1, SigStep, NodesAssumption DEF AskBrain
  <2> QED  BY <1>4, <2>2 DEF AskBrain, TypeOK
<1>5. CASE BrainRaises
  BY <1>5 DEF BrainRaises, Raise, Finish, TypeOK
<1>6. CASE Decide
  <2>1. /\ decision' \in Decision
        /\ req.pipeline = "v3" => decision'.conf \in 0 .. Scale /\ decision'.risk \in 0 .. Scale
    <3>1. CASE req.pipeline = "v3"
      <4>1. Sensible(sig) /\ Clamped(sig)
        BY <3>1 DEF TypeOK, Sensible, Clamped
      <4> QED  BY <1>6, <3>1, <4>1, EvaluateType DEF Decide, V3Decision
    <3>2. CASE req.pipeline # "v3"
      <4>1. sig[Brain] \in Signal
        BY NodesAssumption DEF TypeOK
      <4>2. V2Decision(req) \in Decision
        BY <4>1 DEF V2Decision, NoTrade, Decision, Signal, Actions
      <4> QED  BY <1>6, <3>2, <4>2 DEF Decide
    <3> QED  BY <3>1, <3>2
  <2>2. phase' \in {"execute", "done"} /\ reply' \in ReplyStatus
    <3>1. StatusOf(req, decision') \in ReplyStatus
      BY <2>1 DEF StatusOf, Decision, Actions
    <3> QED  BY <1>6, <3>1 DEF Decide, Finish, TypeOK
  <2> QED  BY <1>6, <2>1, <2>2 DEF Decide, TypeOK
<1>7. CASE StrikeAccepted
  BY <1>7 DEF StrikeAccepted, Finish, TypeOK
<1>8. CASE StrikeRefused
  BY <1>8 DEF StrikeRefused, Finish, TypeOK
<1>9. CASE StrikeUnclear
  BY <1>9 DEF StrikeUnclear, Raise, Finish, TypeOK
<1>10. CASE StrikeRaises
  BY <1>10 DEF StrikeRaises, Finish, TypeOK
<1>11. CASE Register
  BY <1>11 DEF Register, Finish, TypeOK
<1>12. CASE Crash
  BY <1>12 DEF Crash, TypeOK
<1>13. CASE UNCHANGED vars
  BY <1>13 DEF vars, TypeOK
<1> QED
  BY <1>1, <1>2, <1>3, <1>4, <1>5, <1>6, <1>7, <1>8, <1>9, <1>10, <1>11, <1>12,
     <1>13 DEF Next, Progress

\* The types hold throughout.
LEMMA AlwaysTyped == Spec => []Typed
  BY InitTyped, StepTyped, PTL DEF Spec

\* Every variable keeps its type, the counters are bounded by the attempts, and
\* the numbers of a v3 decision are in 0..Scale (confluence.py,
\* NodeSignal.__post_init__ and _compute_risk_multiplier).
THEOREM TypeCorrect == Spec => []TypeOK
<1>1. Typed => TypeOK
  BY DEF Typed
<1> QED
  BY <1>1, AlwaysTyped, PTL

\* A v3 order never risks more than the request asked for, but for the floor
\* (maestro_v3.py, _execute_trade).
THEOREM RiskBounded == Spec => []RiskWithinRequest
<1>1. Typed => RiskWithinRequest
  <2> SUFFICES ASSUME Typed, req.pipeline = "v3"
               PROVE  OrderRisk(req, decision) <= IF BaseRisk > Floor THEN BaseRisk ELSE Floor
    BY DEF RiskWithinRequest
  <2> DEFINE c == ConfidenceScale(req, decision) r == decision.risk
             q == (BaseRisk * r * c) \div (Scale * Scale)
  <2>1. c \in 0 .. Scale /\ r \in 0 .. Scale
    BY ScaleAssumption DEF Typed, TypeOK, ConfidenceScale
  <2>2. OrderRisk(req, decision) = Clamp(q, Floor, Cap)
    BY DEF OrderRisk
  <2>3. q \in Int /\ q <= BaseRisk
    <3>1. /\ BaseRisk \in Nat /\ r \in Nat /\ c \in Nat /\ Scale \in Nat
          /\ r <= Scale /\ c <= Scale /\ Scale > 0
      BY <2>1, ScaleAssumption, SizeAssumption
    <3> HIDE DEF c, r
    <3>2. BaseRisk * r \in Nat /\ BaseRisk * r <= BaseRisk * Scale
      BY <3>1
    <3>3. BaseRisk * r * c \in Nat /\ BaseRisk * r * c <= (BaseRisk * Scale) * Scale
      <4>1. \A a, b, d, e \in Nat : a <= b /\ d <= e => a * d \in Nat /\ a * d <= b * e
        <5> SUFFICES ASSUME NEW a \in Nat, NEW b \in Nat, NEW d \in Nat, NEW e \in Nat,
                            a <= b, d <= e
                     PROVE  a * d \in Nat /\ a * d <= b * e
          OBVIOUS
        <5>1. /\ a * d <= b * d /\ b * d <= b * e
              /\ a * d \in Nat /\ b * d \in Nat /\ b * e \in Nat
          OBVIOUS
        <5> QED  BY <5>1
      <4>2. BaseRisk * Scale \in Nat
        BY <3>1
      <4> QED  BY <3>1, <3>2, <4>1, <4>2
    <3>4. /\ Scale * Scale \in Nat /\ Scale * Scale > 0
          /\ (BaseRisk * Scale) * Scale = BaseRisk * (Scale * Scale)
      BY <3>1
    <3>5. \A x, y, d \in Int : d > 0 /\ x <= y * d => x \div d \in Int /\ x \div d <= y
      OBVIOUS
    <3>6. \A x, y, d : x \in Nat /\ y \in Nat /\ d \in Nat /\ d > 0 /\ x <= y * d =>
            x \div d \in Int /\ x \div d <= y
      BY <3>5
    <3> QED  BY <3>1, <3>3, <3>4, <3>6
  <2> HIDE DEF q
  <2>4. Floor \in Nat /\ Cap \in Nat /\ BaseRisk \in Nat
    BY SizeAssumption
  <2> QED  BY <2>2, <2>3, <2>4 DEF Clamp
<1> QED
  BY <1>1, AlwaysTyped, PTL

\* What the engine is asked about.
LEMMA SigSensible == Typed => Sensible(sig) /\ (req.pipeline = "v3" => Clamped(sig))
  BY DEF Typed, TypeOK, Sensible, Clamped

\* The engine has no directional bias on the signals of any request
\* (confluence.py, _eval_direction).
THEOREM NoDirectionalBias == Spec => []SideSymmetric
<1>1. Typed => SideSymmetric
  BY SigSensible, MirrorDecision DEF SideSymmetric
<1> QED
  BY <1>1, AlwaysTyped, PTL

\* What AND trades MAJORITY trades, and what MAJORITY trades OR trades, on the
\* signals of any request (confluence.py, _eval_direction).
THEOREM StricterModesTradeLess == Spec => []ModesNested
<1>1. Typed => ModesNested
  <2> SUFFICES ASSUME Typed, Fallback # "EXECUTE", NEW minConf \in {0, ConfigMinConf}
               PROVE  /\ Evaluate("AND", minConf, sig).action = "EXECUTE" =>
                           Evaluate("MAJORITY", minConf, sig) = Evaluate("AND", minConf, sig)
                      /\ Evaluate("MAJORITY", minConf, sig).action = "EXECUTE" =>
                           Evaluate("OR", minConf, sig) = Evaluate("MAJORITY", minConf, sig)
    BY DEF ModesNested
  <2>1. \A mode : Evaluate(mode, minConf, sig).action = "EXECUTE" =>
          TargetSide(mode, sig) # "NONE"
    BY ExecuteHasTarget DEF Sides
  <2> QED  BY <2>1, SigSensible, StricterTarget, SameTarget
<1> QED
  BY <1>1, AlwaysTyped, PTL

\* One more supporter never turns a trade into none, on the signals of any v3
\* request (confluence.py, evaluate).
THEOREM AgreementCannotHurt == Spec => []SupportNeverHurts
<1>1. Typed => SupportNeverHurts
  <2> SUFFICES ASSUME Typed, req.pipeline = "v3", Fallback # "EXECUTE",
                      NEW mode \in Modes, NEW conf \in {ConfigMinConf, Scale},
                      Evaluate(mode, ConfigMinConf, sig).action = "EXECUTE",
                      NEW n \in DirectionNodes
                                 \ Backing(sig, Evaluate(mode, ConfigMinConf, sig).side)
               PROVE  LET side == Evaluate(mode, ConfigMinConf, sig).side
                          e    == Evaluate(mode, ConfigMinConf, Supported(sig, n, side, conf)) IN
                      e.action = "EXECUTE" /\ e.side = side
    BY DEF SupportNeverHurts
  <2>1. ConfigMinConf \in 0 .. Scale /\ conf \in ConfigMinConf .. Scale
    BY ConfigAssumption, ScaleAssumption
  <2> QED  BY <2>1, SigSensible, SupportHelps
<1> QED
  BY <1>1, AlwaysTyped, PTL
=============================================================================
