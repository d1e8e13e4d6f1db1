---------------------------- MODULE SumTheorems ----------------------------
(***************************************************************************)
(* What SumFunction, with which OrdersService.create adds up the prices of *)
(* an order, returns for every finite function of natural numbers.         *)
(* It is a fold, defined by recursion over the subsets of its domain.  The *)
(* inductions are over a SET of numbers or of subsets: a set that contains *)
(* the base and is closed under the step has everything, because otherwise *)
(* well-foundedness gives a least element outside it.                      *)
(***************************************************************************)
EXTENDS FiniteSetsExt, FiniteSetTheorems, WellFoundedInduction, TLAPS

\* The element of s that a fold takes first.
First(s) == CHOOSE x \in s : TRUE

\* g gives the sum of f over every subset of its domain.
IsPartialSums(g, f) ==
    g = [s \in SUBSET DOMAIN f |-> IF s = {} THEN 0 ELSE f[First(s)] + g[s \ {First(s)}]]

\* The definition of the sum, its operators expanded.
LEMMA SumIsFold ==
    ASSUME NEW f
    PROVE  SumFunction(f) = (CHOOSE g : IsPartialSums(g, f))[DOMAIN f]
BY DEF SumFunction, SumFunctionOnSet, FoldFunctionOnSet, MapThenFoldSet, IsPartialSums, First

\* Induction over the natural numbers, for a set.
LEMMA NatSetInduction ==
    ASSUME NEW T \in SUBSET Nat, 0 \in T, \A n \in T : n + 1 \in T
    PROVE  T = Nat
<1> SUFFICES ASSUME Nat \ T # {} PROVE FALSE
  OBVIOUS
<1> DEFINE R == {p \in Nat \X Nat : p[1] < p[2]}
<1>0. IsWellFoundedOn(R, Nat)
  BY NatLessThanWellFounded DEF OpToRel
<1> HIDE DEF R
<1>1. PICK x \in Nat \ T : \A y \in Nat \ T : ~(<<y, x>> \in R)
  BY <1>0, WFMin
<1>2. \A y \in Nat \ T : ~(y < x)
  BY <1>1 DEF R
<1>3. x # 0 /\ x - 1 \in Nat /\ x - 1 < x
  OBVIOUS
<1> QED
  BY <1>2, <1>3

\* The first element of a set is one of its elements.
LEMMA FirstIn ==
    ASSUME NEW s, s # {}
    PROVE  First(s) \in s
BY DEF First

\* Induction over the subsets of a finite set, one element less at a time.
LEMMA SubsetInduction ==
    ASSUME NEW S, IsFiniteSet(S), NEW T \in SUBSET SUBSET S,
           {} \in T,
           \A s \in SUBSET S : s # {} /\ s \ {First(s)} \in T => s \in T
    PROVE  T = SUBSET S
<1> SUFFICES ASSUME (SUBSET S) \ T # {} PROVE FALSE
  OBVIOUS
<1> DEFINE Open == (SUBSET S) \ T
<1>1. FiniteSubsetsOf(S) = SUBSET S
  BY FS_FiniteSubsetsOfFinite
<1>2. IsWellFoundedOn(StrictSubsetOrdering(S), FiniteSubsetsOf(S))
  BY FS_StrictSubsetOrderingWellFounded
<1>3. PICK s \in Open : \A u \in Open : ~(<<u, s>> \in StrictSubsetOrdering(S))
  <2>1. Open \subseteq FiniteSubsetsOf(S) /\ Open # {}
    BY <1>1
  <2> HIDE DEF Open
  <2> QED
    BY <1>2, <2>1, WFMin
<1>4. s # {} /\ First(s) \in s
  BY FirstIn
<1>5. <<s \ {First(s)}, s>> \in StrictSubsetOrdering(S)
  BY <1>4 DEF StrictSubsetOrdering
<1> QED
  BY <1>3, <1>4, <1>5

\* The recursion of a fold over a finite set has a solution.
LEMMA PartialSumsExist ==
    ASSUME NEW f, IsFiniteSet(DOMAIN f)
    PROVE  \E g : IsPartialSums(g, f)
<1> DEFINE S == DOMAIN f
           Small(n) == {s \in SUBSET S : Cardinality(s) <= n}
           Solves(g, n) == g = [s \in Small(n) |->
                                 IF s = {} THEN 0 ELSE f[First(s)] + g[s \ {First(s)}]]
           T == {n \in Nat : \E g : Solves(g, n)}
<1>1. \A s \in SUBSET S : /\ IsFiniteSet(s)
                          /\ Cardinality(s) \in Nat
                          /\ Cardinality(s) <= Cardinality(S)
  BY FS_Subset, FS_CardinalityType
<1>2. \A s \in SUBSET S : s # {} => /\ s \ {First(s)} \in SUBSET S
                                    /\ Cardinality(s \ {First(s)}) = Cardinality(s) - 1
  BY <1>1, FirstIn, FS_RemoveElement
<1>3. 0 \in T
  <2>1. \A s \in Small(0) : s = {}
    BY <1>1, FS_EmptySet
  <2>2. Solves([s \in Small(0) |-> 0], 0)
    BY <2>1
  <2> QED
    BY <2>2
<1>4. ASSUME NEW n \in T PROVE n + 1 \in T
  <2>1. PICK g : Solves(g, n)
    OBVIOUS
  <2> DEFINE h == [s \in Small(n + 1) |->
                    IF s = {} THEN 0 ELSE f[First(s)] + g[s \ {First(s)}]]
  <2>2. \A s \in Small(n) : s \in Small(n + 1)
    BY <1>1
  <2>3. \A s \in Small(n) : h[s] = g[s]
    BY <2>1, <2>2
  <2>4. \A s \in Small(n + 1) : s # {} => s \ {First(s)} \in Small(n)
    BY <1>1, <1>2
  <2>5. Solves(h, n + 1)
    BY <2>3, <2>4
  <2> QED
    BY <2>5, n + 1 \in Nat
<1>5. T = Nat
  <2> HIDE DEF T
  <2>1. T \in SUBSET Nat
    BY DEF T
  <2> QED
    BY <1>3, <1>4, <2>1, NatSetInduction
<1>6. Small(Cardinality(S)) = SUBSET S /\ Cardinality(S) \in Nat
  BY <1>1
<1>7. PICK g : Solves(g, Cardinality(S))
  BY <1>5, <1>6
<1> QED
  BY <1>6, <1>7 DEF IsPartialSums

\* Hence the sum obeys the recursion.
LEMMA SumIsPartialSum ==
    ASSUME NEW f, IsFiniteSet(DOMAIN f)
    PROVE  \E g : IsPartialSums(g, f) /\ SumFunction(f) = g[DOMAIN f]
BY SumIsFold, PartialSumsExist

-----------------------------------------------------------------------------

\* A sum of finitely many natural numbers is one.
LEMMA SumNat ==
    ASSUME NEW S, IsFiniteSet(S), NEW f \in [S -> Nat]
    PROVE  SumFunction(f) \in Nat
<1>1. PICK g : IsPartialSums(g, f) /\ SumFunction(f) = g[S]
  BY SumIsPartialSum
<1> DEFINE T == {s \in SUBSET S : g[s] \in Nat}
<1>2. {} \in T
  BY <1>1 DEF IsPartialSums
<1>3. ASSUME NEW s \in SUBSET S, s # {}, s \ {First(s)} \in T PROVE s \in T
  <2>1. f[First(s)] \in Nat
    BY <1>3, FirstIn
  <2>2. g[s] = f[First(s)] + g[s \ {First(s)}]
    BY <1>1, <1>3 DEF IsPartialSums
  <2> QED
    BY <1>3, <2>1, <2>2
<1>4. T = SUBSET S
  <2> HIDE DEF T
  <2>1. T \in SUBSET SUBSET S
    BY DEF T
  <2> QED
    BY <1>2, <1>3, <2>1, SubsetInduction
<1> QED
  BY <1>1, <1>4

\* Larger summands have a larger sum.
LEMMA SumMonotone ==
    ASSUME NEW S, IsFiniteSet(S), NEW f \in [S -> Nat], NEW h \in [S -> Nat],
           \A x \in S : f[x] <= h[x]
    PROVE  SumFunction(f) <= SumFunction(h)
<1>1. PICK a : IsPartialSums(a, f) /\ SumFunction(f) = a[S]
  BY SumIsPartialSum
<1>2. PICK b : IsPartialSums(b, h) /\ SumFunction(h) = b[S]
  BY SumIsPartialSum
<1> DEFINE T == {s \in SUBSET S : a[s] \in Nat /\ b[s] \in Nat /\ a[s] <= b[s]}
<1>3. {} \in T
  BY <1>1, <1>2 DEF IsPartialSums
<1>4. ASSUME NEW s \in SUBSET S, s # {}, s \ {First(s)} \in T PROVE s \in T
  <2>1. First(s) \in S
    BY <1>4, FirstIn
  <2>2. /\ a[s] = f[First(s)] + a[s \ {First(s)}]
        /\ b[s] = h[First(s)] + b[s \ {First(s)}]
    BY <1>1, <1>2, <1>4 DEF IsPartialSums
  <2>3. /\ f[First(s)] \in Nat /\ h[First(s)] \in Nat
        /\ f[First(s)] <= h[First(s)]
    BY <2>1
  <2> QED
    BY <1>4, <2>2, <2>3
<1>5. T = SUBSET S
  <2> HIDE DEF T
  <2>1. T \in SUBSET SUBSET S
    BY DEF T
  <2> QED
    BY <1>3, <1>4, <2>1, SubsetInduction
<1> QED
  BY <1>1, <1>2, <1>5
=============================================================================
