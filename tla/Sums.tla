-------------------------------- MODULE Sums --------------------------------
(***************************************************************************)
(* What the sum of a function over a finite set is: SumFunctionOnSet of    *)
(* the community modules, which folds the values in an order of its own.   *)
(* No part of the bot; the proofs about money and allowances rest on it.   *)
(***************************************************************************)
EXTENDS Functions, FiniteSetTheorems, WellFoundedInduction, TLAPS

Pick(s) == CHOOSE x \in s : TRUE

\* One step of the fold, and the functions that follow it on sets of at most n.
FoldStep(f, g, s) == IF s = {} THEN 0 ELSE f[Pick(s)] + g[s \ {Pick(s)}]

FoldsTo(f, S, n) ==
    {g \in [SUBSET S -> Int] : \A s \in SUBSET S : Cardinality(s) <= n => g[s] = FoldStep(f, g, s)}

Fold(f, S) == CHOOSE g : g = [s \in SUBSET S |-> FoldStep(f, g, s)]

LEMMA SumIsFold ==
    ASSUME NEW f, NEW S
    PROVE  SumFunctionOnSet(f, S) = Fold(f, S)[S]
  BY DEF SumFunctionOnSet, FoldFunctionOnSet, MapThenFoldSet, Fold, FoldStep, Pick

LEMMA LeastNatural ==
    ASSUME NEW T, T \subseteq Nat, T # {}
    PROVE  \E n \in T : \A m \in T : ~(m < n)
<1>1. \E n \in T : \A m \in T : ~(<<m, n>> \in OpToRel(<, Nat))
  BY NatLessThanWellFounded, WFMin
<1>2. QED BY <1>1 DEF OpToRel

LEMMA MinimalSubset ==
    ASSUME NEW S, IsFiniteSet(S), NEW T, T \subseteq SUBSET S, T # {}
    PROVE  \E x \in T : \A y \in T : ~(y \subseteq x /\ y # x)
<1>1. IsWellFoundedOn(StrictSubsetOrdering(S), SUBSET S)
  BY FS_StrictSubsetOrderingWellFounded, FS_FiniteSubsetsOfFinite
<1>2. \E x \in T : \A y \in T : ~(<<y, x>> \in StrictSubsetOrdering(S))
  BY <1>1, WFMin
<1>3. QED BY <1>2 DEF StrictSubsetOrdering

LEMMA PickIn == ASSUME NEW s, s # {} PROVE Pick(s) \in s
  BY DEF Pick

LEMMA Smaller ==
    ASSUME NEW S, IsFiniteSet(S), NEW s \in SUBSET S, NEW x \in s
    PROVE  /\ Cardinality(s) \in Nat /\ Cardinality(s \ {x}) = Cardinality(s) - 1
           /\ s \ {x} \in SUBSET S /\ Cardinality(s) <= Cardinality(S)
<1>1. IsFiniteSet(s) /\ Cardinality(s) <= Cardinality(S)
  BY FS_Subset
<1>2. QED BY <1>1, FS_RemoveElement, FS_CardinalityType

\* A fold exists for sets of any size, ...
LEMMA FoldExists ==
    ASSUME NEW S, IsFiniteSet(S), NEW f, \A x \in S : f[x] \in Int, NEW n \in Nat
    PROVE  FoldsTo(f, S, n) # {}
<1> DEFINE Bad == {m \in Nat : FoldsTo(f, S, m) = {}}
<1>1. SUFFICES ASSUME Bad # {}
               PROVE  FALSE
  OBVIOUS
<1>2. PICK m \in Bad : \A k \in Bad : ~(k < m)
  <2>1. Bad \subseteq Nat
    OBVIOUS
  <2> HIDE DEF Bad
  <2>2. QED BY <1>1, <2>1, LeastNatural
<1>3. CASE m = 0
  <2> DEFINE g == [s \in SUBSET S |-> 0]
  <2>1. ASSUME NEW s \in SUBSET S, Cardinality(s) <= 0
        PROVE  g[s] = FoldStep(f, g, s)
    <3>1. s = {}
      BY <2>1, FS_Subset, FS_CardinalityType, FS_EmptySet
    <3>2. QED BY <3>1 DEF FoldStep
  <2>2. g \in FoldsTo(f, S, 0)
    BY <2>1 DEF FoldsTo
  <2>3. QED BY <1>2, <1>3, <2>2
<1>4. CASE m # 0
  <2>1. m - 1 \in Nat /\ m - 1 \notin Bad
    BY <1>2, <1>4
  <2>2. PICK g : g \in FoldsTo(f, S, m - 1)
    BY <2>1
  <2> DEFINE h == [s \in SUBSET S |-> IF Cardinality(s) <= m - 1 THEN g[s]
                                                                 ELSE FoldStep(f, g, s)]
  <2>3. ASSUME NEW s \in SUBSET S, s # {}
        PROVE  /\ Pick(s) \in S /\ s \ {Pick(s)} \in SUBSET S
               /\ Cardinality(s) \in Nat
               /\ Cardinality(s \ {Pick(s)}) = Cardinality(s) - 1
    BY <2>3, PickIn, Smaller
  <2>4. ASSUME NEW s \in SUBSET S
        PROVE  FoldStep(f, g, s) \in Int
    BY <2>2, <2>3 DEF FoldStep, FoldsTo
  <2>5. h \in [SUBSET S -> Int]
    BY <2>2, <2>4 DEF FoldsTo
  <2>6. ASSUME NEW s \in SUBSET S, Cardinality(s) <= m
        PROVE  h[s] = FoldStep(f, h, s)
    <3>1. CASE s = {}
      <4>1. FoldStep(f, g, s) = 0 /\ FoldStep(f, h, s) = 0
        BY <3>1 DEF FoldStep
      <4>2. Cardinality(s) <= m - 1 => g[s] = FoldStep(f, g, s)
        BY <2>2 DEF FoldsTo
      <4>3. QED BY <4>1, <4>2
    <3>2. CASE s # {}
      <4>1. h[s \ {Pick(s)}] = g[s \ {Pick(s)}]
        BY <2>3, <2>6, <3>2, <1>2
      <4>2. FoldStep(f, h, s) = FoldStep(f, g, s)
        BY <4>1 DEF FoldStep
      <4>3. Cardinality(s) <= m - 1 => g[s] = FoldStep(f, g, s)
        BY <2>2 DEF FoldsTo
      <4> HIDE DEF h
      <4>4. h[s] = IF Cardinality(s) <= m - 1 THEN g[s] ELSE FoldStep(f, g, s)
        BY DEF h
      <4>5. QED BY <4>2, <4>3, <4>4
    <3>3. QED BY <3>1, <3>2
  <2>7. h \in FoldsTo(f, S, m)
    BY <2>5, <2>6 DEF FoldsTo
  <2>8. QED BY <1>2, <2>7
<1>5. QED BY <1>3, <1>4

\* ... so that the fold of the community modules is one.
LEMMA FoldIsFold ==
    ASSUME NEW S, IsFiniteSet(S), NEW f, \A x \in S : f[x] \in Int
    PROVE  /\ Fold(f, S) \in [SUBSET S -> Int]
           /\ \A s \in SUBSET S : Fold(f, S)[s] = FoldStep(f, Fold(f, S), s)
<1>1. Cardinality(S) \in Nat
  BY FS_CardinalityType
<1>2. PICK g : g \in FoldsTo(f, S, Cardinality(S))
  BY <1>1, FoldExists
<1>3. \A s \in SUBSET S : Cardinality(s) <= Cardinality(S)
  BY FS_Subset
<1>4. /\ g \in [SUBSET S -> Int]
      /\ \A s \in SUBSET S : g[s] = FoldStep(f, g, s)
  BY <1>2, <1>3 DEF FoldsTo
<1>5. g = [s \in SUBSET S |-> FoldStep(f, g, s)]
  BY <1>4
<1>6. Fold(f, S) = [s \in SUBSET S |-> FoldStep(f, Fold(f, S), s)]
  BY <1>5 DEF Fold
<1>7. \A s \in SUBSET S : Fold(f, S)[s] = FoldStep(f, Fold(f, S), s)
  <2>1. \A h : h = [s \in SUBSET S |-> FoldStep(f, h, s)] =>
                   \A s \in SUBSET S : h[s] = FoldStep(f, h, s)
    OBVIOUS
  <2>2. QED BY <1>6, <2>1
<1>8. \A s \in SUBSET S : Fold(f, S)[s] \in Int
  <2> DEFINE Bad == {s \in SUBSET S : Fold(f, S)[s] \notin Int}
  <2>1. SUFFICES ASSUME Bad # {}
                 PROVE  FALSE
    OBVIOUS
  <2>2. PICK s \in Bad : \A t \in Bad : ~(t \subseteq s /\ t # s)
    <3>1. Bad \subseteq SUBSET S
      OBVIOUS
    <3> HIDE DEF Bad
    <3>2. QED BY <2>1, <3>1, MinimalSubset
  <2> DEFINE h == Fold(f, S)
  <2>3. s \in SUBSET S /\ h[s] \notin Int /\ h[s] = FoldStep(f, h, s)
    BY <1>7, <2>2
  <2> HIDE DEF h
  <2>4. s # {}
    BY <2>3 DEF FoldStep
  <2>5. Pick(s) \in s /\ s \ {Pick(s)} \in SUBSET S
    BY <2>3, <2>4, PickIn
  <2>6. h[s \ {Pick(s)}] \in Int
    BY <2>2, <2>5 DEF h
  <2>7. h[s] \in Int
    BY <2>3, <2>4, <2>5, <2>6 DEF FoldStep
  <2>8. QED BY <2>3, <2>7
<1>9. Fold(f, S) = [s \in SUBSET S |-> Fold(f, S)[s]]
  <2>1. \A h : h = [s \in SUBSET S |-> FoldStep(f, h, s)] => h = [s \in SUBSET S |-> h[s]]
    OBVIOUS
  <2>2. QED BY <1>6, <2>1
<1>10. QED BY <1>7, <1>8, <1>9

\* The order in which the elements are taken does not matter.
LEMMA FoldTakes ==
    ASSUME NEW S, IsFiniteSet(S), NEW f, \A y \in S : f[y] \in Int
    PROVE  \A s \in SUBSET S : \A x \in s : Fold(f, S)[s] = f[x] + Fold(f, S)[s \ {x}]
<1> DEFINE g == Fold(f, S)
           Bad == {s \in SUBSET S : \E x \in s : g[s] # f[x] + g[s \ {x}]}
<1>1. /\ g \in [SUBSET S -> Int]
      /\ \A s \in SUBSET S : g[s] = FoldStep(f, g, s)
  BY FoldIsFold
<1> HIDE DEF g
<1>2. SUFFICES ASSUME Bad # {}
               PROVE  FALSE
  BY DEF g
<1>3. PICK s \in Bad : \A t \in Bad : ~(t \subseteq s /\ t # s)
  <2>1. Bad \subseteq SUBSET S
    OBVIOUS
  <2> HIDE DEF Bad
  <2>2. QED BY <1>2, <2>1, MinimalSubset
<1>4. s \in SUBSET S
  BY <1>3
<1>5. PICK x \in s : g[s] # f[x] + g[s \ {x}]
  BY <1>3
<1>6. PICK y \in s : y = Pick(s)
  BY <1>5, PickIn
<1>7. g[s] = f[y] + g[s \ {y}]
  BY <1>1, <1>4, <1>6 DEF FoldStep
<1>8. x # y
  BY <1>5, <1>7
<1>9. s \ {x} \notin Bad /\ s \ {y} \notin Bad
  BY <1>3, <1>5, <1>6
<1>10. g[s \ {y}] = f[x] + g[(s \ {y}) \ {x}]
  BY <1>4, <1>8, <1>9
<1>11. g[s \ {x}] = f[y] + g[(s \ {x}) \ {y}]
  BY <1>4, <1>8, <1>9
<1>12. (s \ {x}) \ {y} = (s \ {y}) \ {x}
  OBVIOUS
<1>13. f[x] \in Int /\ f[y] \in Int /\ g[(s \ {y}) \ {x}] \in Int
  BY <1>1, <1>4
<1>14. PICK a \in Int, b \in Int, r \in Int :
           a = f[x] /\ b = f[y] /\ r = g[(s \ {y}) \ {x}]
  BY <1>13
<1>15. g[s] = b + (a + r) /\ f[x] + g[s \ {x}] = a + (b + r)
  BY <1>7, <1>10, <1>11, <1>12, <1>14
<1>16. QED BY <1>5, <1>14, <1>15

\* Nor does the set that the fold was defined for.
LEMMA FoldAgrees ==
    ASSUME NEW T, IsFiniteSet(T), NEW S \in SUBSET T, NEW f, \A y \in T : f[y] \in Int
    PROVE  \A s \in SUBSET S : Fold(f, S)[s] = Fold(f, T)[s]
<1> DEFINE g == Fold(f, S)
           h == Fold(f, T)
           Bad == {s \in SUBSET S : g[s] # h[s]}
<1>1. IsFiniteSet(S)
  BY FS_Subset
<1>2. /\ \A s \in SUBSET S : g[s] = FoldStep(f, g, s)
      /\ \A s \in SUBSET T : h[s] = FoldStep(f, h, s)
  BY <1>1, FoldIsFold
<1> HIDE DEF g, h
<1>3. SUFFICES ASSUME Bad # {}
               PROVE  FALSE
  BY DEF g, h
<1>4. PICK s \in Bad : \A t \in Bad : ~(t \subseteq s /\ t # s)
  <2>1. Bad \subseteq SUBSET S
    OBVIOUS
  <2> HIDE DEF Bad
  <2>2. QED BY <1>1, <1>3, <2>1, MinimalSubset
<1>5. s \in SUBSET S /\ s \in SUBSET T /\ g[s] # h[s]
  BY <1>4
<1>6. g[s] = FoldStep(f, g, s) /\ h[s] = FoldStep(f, h, s)
  BY <1>2, <1>5
<1>7. s # {}
  BY <1>5, <1>6 DEF FoldStep
<1>8. Pick(s) \in s
  BY <1>7, PickIn
<1>9. g[s \ {Pick(s)}] = h[s \ {Pick(s)}]
  BY <1>4, <1>5, <1>8
<1>10. QED BY <1>5, <1>6, <1>7, <1>9 DEF FoldStep

-----------------------------------------------------------------------------
LEMMA SumOfNone ==
    ASSUME NEW f
    PROVE  SumFunctionOnSet(f, {}) = 0
<1>1. IsFiniteSet({}) /\ \A x \in {} : f[x] \in Int
  BY FS_EmptySet
<1>2. Fold(f, {})[{}] = FoldStep(f, Fold(f, {}), {})
  BY <1>1, FoldIsFold
<1>3. QED BY <1>2, SumIsFold DEF FoldStep

LEMMA SumIsInt ==
    ASSUME NEW S, IsFiniteSet(S), NEW f, \A y \in S : f[y] \in Int
    PROVE  SumFunctionOnSet(f, S) \in Int
<1>1. Fold(f, S) \in [SUBSET S -> Int]
  BY FoldIsFold
<1>2. QED BY <1>1, SumIsFold

\* One more element adds its value.
LEMMA SumWithOneMore ==
    ASSUME NEW S, IsFiniteSet(S), NEW x, x \notin S,
           NEW f, \A y \in S \cup {x} : f[y] \in Int
    PROVE  SumFunctionOnSet(f, S \cup {x}) = SumFunctionOnSet(f, S) + f[x]
<1> DEFINE T == S \cup {x}
<1>1. IsFiniteSet(T)
  BY FS_AddElement
<1>2. /\ S \in SUBSET T /\ T \in SUBSET T /\ S \in SUBSET S
      /\ x \in T /\ T \ {x} = S /\ \A y \in T : f[y] \in Int
  OBVIOUS
<1> HIDE DEF T
<1>3. Fold(f, T)[T] = f[x] + Fold(f, T)[S]
  BY <1>1, <1>2, FoldTakes
<1>4. Fold(f, S)[S] = Fold(f, T)[S]
  BY <1>1, <1>2, FoldAgrees
<1>5. Fold(f, T)[S] \in Int /\ f[x] \in Int
  <2>1. Fold(f, T) \in [SUBSET T -> Int]
    BY <1>1, <1>2, FoldIsFold
  <2>2. QED BY <1>2, <2>1
<1>6. QED BY <1>3, <1>4, <1>5, SumIsFold DEF T

\* Only the values on the set count.
LEMMA SumOfSame ==
    ASSUME NEW S, IsFiniteSet(S), NEW f, NEW e,
           \A y \in S : f[y] \in Int /\ e[y] = f[y]
    PROVE  SumFunctionOnSet(e, S) = SumFunctionOnSet(f, S)
<1> DEFINE g == Fold(f, S)
           h == Fold(e, S)
           Bad == {s \in SUBSET S : g[s] # h[s]}
<1>1. /\ \A s \in SUBSET S : g[s] = FoldStep(f, g, s)
      /\ \A s \in SUBSET S : h[s] = FoldStep(e, h, s)
  BY FoldIsFold
<1> HIDE DEF g, h
<1>2. \A s \in SUBSET S : g[s] = h[s]
  <2>1. SUFFICES ASSUME Bad # {}
                 PROVE  FALSE
    OBVIOUS
  <2>2. PICK s \in Bad : \A t \in Bad : ~(t \subseteq s /\ t # s)
    <3>1. Bad \subseteq SUBSET S
      OBVIOUS
    <3> HIDE DEF Bad
    <3>2. QED BY <2>1, <3>1, MinimalSubset
  <2>3. s \in SUBSET S /\ g[s] # h[s]
    BY <2>2
  <2>4. g[s] = FoldStep(f, g, s) /\ h[s] = FoldStep(e, h, s)
    BY <1>1, <2>3
  <2>5. s # {}
    BY <2>3, <2>4 DEF FoldStep
  <2>6. Pick(s) \in s
    BY <2>5, PickIn
  <2>7. g[s \ {Pick(s)}] = h[s \ {Pick(s)}] /\ e[Pick(s)] = f[Pick(s)]
    BY <2>2, <2>3, <2>6
  <2>8. QED BY <2>3, <2>4, <2>5, <2>7 DEF FoldStep
<1>3. g[S] = h[S]
  BY <1>2
<1>4. QED BY <1>3, SumIsFold DEF g, h

\* Nothing added up is nothing.
LEMMA SumOfZeros ==
    ASSUME NEW S, IsFiniteSet(S), NEW f, \A y \in S : f[y] = 0
    PROVE  SumFunctionOnSet(f, S) = 0
<1> DEFINE g == Fold(f, S)
           Bad == {s \in SUBSET S : g[s] # 0}
<1>0. \A y \in S : f[y] \in Int
  OBVIOUS
<1>1. \A s \in SUBSET S : g[s] = FoldStep(f, g, s)
  BY <1>0, FoldIsFold
<1> HIDE DEF g
<1>2. \A s \in SUBSET S : g[s] = 0
  <2>1. SUFFICES ASSUME Bad # {}
                 PROVE  FALSE
    OBVIOUS
  <2>2. PICK s \in Bad : \A t \in Bad : ~(t \subseteq s /\ t # s)
    <3>1. Bad \subseteq SUBSET S
      OBVIOUS
    <3> HIDE DEF Bad
    <3>2. QED BY <2>1, <3>1, MinimalSubset
  <2>3. s \in SUBSET S /\ g[s] # 0
    BY <2>2
  <2>4. g[s] = FoldStep(f, g, s)
    BY <1>1, <2>3
  <2>5. s # {}
    BY <2>3, <2>4 DEF FoldStep
  <2>6. Pick(s) \in s
    BY <2>5, PickIn
  <2>7. g[s \ {Pick(s)}] = 0 /\ f[Pick(s)] = 0
    BY <2>2, <2>3, <2>6
  <2>8. QED BY <2>3, <2>4, <2>5, <2>7 DEF FoldStep
<1>3. g[S] = 0
  BY <1>2
<1>4. QED BY <1>3, SumIsFold DEF g
=============================================================================
