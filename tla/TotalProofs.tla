----------------------------- MODULE TotalProofs -----------------------------
(***************************************************************************)
(* Facts about Total, the sum of a function over a finite set, by which    *)
(* module Custody compares tokens with coins.  They rest on one idea: a    *)
(* sum of natural numbers is the cardinality of a set that has f[x] units  *)
(* for each x, so that sums are added and compared as finite sets are.     *)
(***************************************************************************)
EXTENDS Custody, FiniteSetTheorems, TLAPS

Units(f, S) == {u \in S \X Nat : u[2] \in 1..f[u[1]]}

UnitsOf(f, x) == {x} \X (1..f[x])

LEMMA UnitsOfFinite ==
    ASSUME NEW D, NEW f \in [D -> Nat], NEW x \in D
    PROVE  IsFiniteSet(UnitsOf(f, x)) /\ Cardinality(UnitsOf(f, x)) = f[x]
<1>1. f[x] \in Nat
  OBVIOUS
<1>2. IsFiniteSet({x}) /\ Cardinality({x}) = 1
  BY FS_Singleton
<1>3. IsFiniteSet(1..f[x]) /\ Cardinality(1..f[x]) = f[x]
  BY <1>1, FS_Interval
<1>4. /\ IsFiniteSet({x} \X (1..f[x]))
      /\ Cardinality({x} \X (1..f[x])) = Cardinality({x}) * Cardinality(1..f[x])
  BY <1>2, <1>3, FS_Product
<1> QED
  BY <1>1, <1>2, <1>3, <1>4 DEF UnitsOf

\* The units of a finite set are those of its elements, and finitely many.
LEMMA UnitsFinite ==
    ASSUME NEW D, NEW f \in [D -> Nat], NEW S \in SUBSET D, IsFiniteSet(S)
    PROVE  IsFiniteSet(Units(f, S))
<1> DEFINE U == [x \in S |-> UnitsOf(f, x)]
           R == {U[x] : x \in S}
<1>1. U \in Surjection(S, R)
  BY DEF Surjection
<1>2. IsFiniteSet(R)
  BY <1>1, FS_Surjection
<1>3. \A T \in R : IsFiniteSet(T)
  BY UnitsOfFinite
<1>4. Units(f, S) \in SUBSET (UNION R)
  <2>1. ASSUME NEW u \in Units(f, S) PROVE u \in U[u[1]] /\ u[1] \in S
    BY <2>1 DEF Units, UnitsOf
  <2> QED
    BY <2>1
<1> QED
  BY <1>2, <1>3, <1>4, FS_UNION, FS_Subset

\* An element taken out takes its units along.
LEMMA UnitsTake ==
    ASSUME NEW D, NEW f \in [D -> Nat], NEW S \in SUBSET D, IsFiniteSet(S), NEW x \in S
    PROVE  Cardinality(Units(f, S)) = f[x] + Cardinality(Units(f, S \ {x}))
<1> DEFINE A == UnitsOf(f, x)
           B == Units(f, S \ {x})
<1>1. IsFiniteSet(A) /\ Cardinality(A) = f[x]
  BY UnitsOfFinite
<1>2. IsFiniteSet(S \ {x}) /\ S \ {x} \in SUBSET D
  BY FS_RemoveElement
<1>3. IsFiniteSet(B)
  BY <1>2, UnitsFinite
<1>4. A \cap B = {} /\ A \cup B = Units(f, S)
  <2>1. ASSUME NEW u \in A PROVE u \notin B /\ u \in Units(f, S)
    BY <2>1 DEF Units, UnitsOf
  <2>2. ASSUME NEW u \in B PROVE u \in Units(f, S)
    BY <2>2 DEF Units
  <2>3. ASSUME NEW u \in Units(f, S), u \notin B PROVE u \in A
    <3>1. u[1] = x /\ u[2] \in 1..f[x] /\ u = <<u[1], u[2]>>
      BY <2>3 DEF Units
    <3> QED
      BY <3>1 DEF UnitsOf
  <2> QED
    BY <2>1, <2>2, <2>3
<1>5. Cardinality(A \cup B) = Cardinality(A) + Cardinality(B) - Cardinality({})
  BY <1>1, <1>3, <1>4, FS_Union
<1>6. Cardinality({}) = 0 /\ Cardinality(B) \in Nat /\ f[x] \in Nat
  BY <1>3, FS_EmptySet, FS_CardinalityType
<1>7. Cardinality(Units(f, S)) = f[x] + Cardinality(B) - 0
  BY <1>1, <1>4, <1>5, <1>6
<1> HIDE DEF B
<1> QED
  BY <1>6, <1>7 DEF B

\* Total, which takes the elements out one by one in the order of CHOOSE,
\* counts the units: a least set on which the two differ is not empty, and
\* taking an element out of it gives a smaller one.
LEMMA TotalUnits ==
    ASSUME NEW D, NEW f \in [D -> Nat], NEW S \in SUBSET D, IsFiniteSet(S)
    PROVE  Total(f, S) = Cardinality(Units(f, S))
<1> DEFINE first(T) == CHOOSE x \in T : TRUE
           step(g) == [T \in SUBSET S |-> IF T = {} THEN 0
                                          ELSE f[first(T)] + g[T \ {first(T)}]]
           h == [T \in SUBSET S |-> Cardinality(Units(f, T))]
           sum == CHOOSE g : g = step(g)
           differ == {T \in SUBSET S : sum[T] # h[T]}
<1>1. Total(f, S) = sum[S]
  BY DEF Total, MapThenSumSet, MapThenFoldSet
<1>2. \A T \in SUBSET S : T # {} => first(T) \in T /\ T \ {first(T)} \in SUBSET S
  OBVIOUS
<1>3. h[{}] = 0
  <2>1. Units(f, {}) = {}
    BY DEF Units
  <2> QED
    BY <2>1, FS_EmptySet
<1>4. ASSUME NEW T \in SUBSET S, T # {}
      PROVE  h[T] = f[first(T)] + h[T \ {first(T)}]
  <2>1. IsFiniteSet(T) /\ T \in SUBSET D
    BY FS_Subset
  <2>2. \A x \in T : Cardinality(Units(f, T)) = f[x] + Cardinality(Units(f, T \ {x}))
    BY <2>1, UnitsTake
  <2>3. first(T) \in T
    BY <1>2, <1>4
  <2> QED
    BY <1>2, <1>4, <2>2, <2>3
<1>5. h = step(h)
  BY <1>3, <1>4
<1>6. sum = step(sum)
  <2> HIDE DEF h, step
  <2> QED
    BY <1>5
<1>7. sum[{}] = 0
  BY <1>6
<1>8. \A T \in SUBSET S : T # {} => sum[T] = f[first(T)] + sum[T \ {first(T)}]
  BY <1>6
<1>9. differ = {}
  <2> SUFFICES ASSUME differ # {} PROVE FALSE
    OBVIOUS
  <2>1. FiniteSubsetsOf(S) = SUBSET S
    BY FS_FiniteSubsetsOfFinite
  <2>2. IsWellFoundedOn(StrictSubsetOrdering(S), SUBSET S)
    BY <2>1, FS_StrictSubsetOrderingWellFounded
  <2>3. PICK T \in differ : \A U \in differ : <<U, T>> \notin StrictSubsetOrdering(S)
    BY <2>2, WFMin
  <2> HIDE DEF sum, h
  <2>4. T # {}
    BY <1>3, <1>7
  <2>5. <<T \ {first(T)}, T>> \in StrictSubsetOrdering(S)
    BY <1>2, <2>4 DEF StrictSubsetOrdering
  <2>6. T \ {first(T)} \notin differ
    BY <2>3, <2>5
  <2>7. sum[T \ {first(T)}] = h[T \ {first(T)}]
    BY <1>2, <2>4, <2>6
  <2> QED
    BY <1>4, <1>8, <2>4, <2>7
<1> QED
  BY <1>1, <1>9

\* A sum of natural numbers is one, and it is zero where all of them are.
LEMMA TotalType ==
    ASSUME NEW D, NEW f \in [D -> Nat], NEW S \in SUBSET D, IsFiniteSet(S)
    PROVE  Total(f, S) \in Nat
BY TotalUnits, UnitsFinite, FS_CardinalityType

LEMMA TotalZero ==
    ASSUME NEW D, NEW f \in [D -> Nat], NEW S \in SUBSET D, IsFiniteSet(S),
           \A x \in S : f[x] = 0
    PROVE  Total(f, S) = 0
<1>1. Units(f, S) = {}
  BY DEF Units
<1> QED
  BY <1>1, TotalUnits, FS_EmptySet

\* Any element may be taken out of a sum.
LEMMA TotalTake ==
    ASSUME NEW D, NEW f \in [D -> Nat], NEW S \in SUBSET D, IsFiniteSet(S), NEW x \in S
    PROVE  Total(f, S) = f[x] + Total(f, S \ {x})
<1>1. S \ {x} \in SUBSET D /\ IsFiniteSet(S \ {x})
  BY FS_RemoveElement
<1> QED
  BY <1>1, TotalUnits, UnitsTake

\* A sum depends only on the values it adds up.
LEMMA TotalAgree ==
    ASSUME NEW D, NEW f \in [D -> Nat], NEW E, NEW g \in [E -> Nat],
           NEW S, S \subseteq D, S \subseteq E, IsFiniteSet(S),
           \A x \in S : f[x] = g[x]
    PROVE  Total(f, S) = Total(g, S)
<1>1. Units(f, S) = Units(g, S)
  BY DEF Units
<1> QED
  BY <1>1, TotalUnits

\* Fewer elements have no greater sum.
LEMMA TotalSubset ==
    ASSUME NEW D, NEW f \in [D -> Nat], NEW S \in SUBSET D, IsFiniteSet(S),
           NEW T \in SUBSET S
    PROVE  Total(f, T) <= Total(f, S)
<1>1. IsFiniteSet(T) /\ T \in SUBSET D
  BY FS_Subset
<1>2. Units(f, T) \in SUBSET Units(f, S)
  BY DEF Units
<1> QED
  BY <1>1, <1>2, TotalUnits, UnitsFinite, FS_Subset

\* One value changed changes the sum by as much, if it is added up at all.
LEMMA TotalChange ==
    ASSUME NEW D, NEW f \in [D -> Nat], NEW g \in [D -> Nat], NEW x \in D,
           \A y \in D \ {x} : g[y] = f[y],
           NEW S \in SUBSET D, IsFiniteSet(S)
    PROVE  Total(g, S) = IF x \in S THEN Total(f, S) - f[x] + g[x] ELSE Total(f, S)
<1>1. CASE x \notin S
  <2>1. \A y \in S : g[y] = f[y]
    BY <1>1
  <2> QED
    BY <1>1, <2>1, TotalAgree
<1>2. CASE x \in S
  <2>1. IsFiniteSet(S \ {x}) /\ S \ {x} \subseteq D
    BY FS_RemoveElement
  <2>2. Total(g, S) = g[x] + Total(g, S \ {x}) /\ Total(f, S) = f[x] + Total(f, S \ {x})
    BY <1>2, TotalTake
  <2>3. \A y \in S \ {x} : g[y] = f[y]
    OBVIOUS
  <2>4. Total(g, S \ {x}) = Total(f, S \ {x})
    BY <2>1, <2>3, TotalAgree
  <2>5. Total(f, S \ {x}) \in Nat /\ f[x] \in Nat /\ g[x] \in Nat
    BY <2>1, TotalType
  <2> QED
    BY <1>2, <2>2, <2>4, <2>5
<1> QED
  BY <1>1, <1>2

\* What is bounded for each element is bounded in sum: a least set on which it
\* is not has an element, and taking that out gives a smaller one.
LEMMA TotalBound ==
    ASSUME NEW D, NEW f \in [D -> Nat], NEW g \in [D -> Nat], NEW h \in [D -> Nat],
           \A x \in D : f[x] <= g[x] + h[x],
           NEW S \in SUBSET D, IsFiniteSet(S)
    PROVE  Total(f, S) <= Total(g, S) + Total(h, S)
<1> DEFINE above == {T \in SUBSET S : ~(Total(f, T) <= Total(g, T) + Total(h, T))}
<1>1. \A T \in SUBSET S : T \in SUBSET D /\ IsFiniteSet(T)
  BY FS_Subset
<1>2. {} \notin above
  <2>1. Total(f, {}) = 0 /\ Total(g, {}) = 0 /\ Total(h, {}) = 0
    BY FS_EmptySet, TotalZero
  <2> QED
    BY <2>1
<1>3. ASSUME NEW T \in SUBSET S, NEW x \in T, T \ {x} \notin above
      PROVE  T \notin above
  <2>1. T \in SUBSET D /\ IsFiniteSet(T) /\ x \in D
    BY <1>1
  <2>2. T \ {x} \in SUBSET D /\ IsFiniteSet(T \ {x})
    BY <1>1
  <2>3. /\ Total(f, T) = f[x] + Total(f, T \ {x})
        /\ Total(g, T) = g[x] + Total(g, T \ {x})
        /\ Total(h, T) = h[x] + Total(h, T \ {x})
    BY <2>1, TotalTake
  <2>4. /\ Total(f, T \ {x}) \in Nat /\ Total(g, T \ {x}) \in Nat
        /\ Total(h, T \ {x}) \in Nat
    BY <2>2, TotalType
  <2>5. Total(f, T \ {x}) <= Total(g, T \ {x}) + Total(h, T \ {x})
    BY <1>3
  <2>6. f[x] <= g[x] + h[x] /\ f[x] \in Nat /\ g[x] \in Nat /\ h[x] \in Nat
    BY <2>1
  <2>7. Total(f, T) <= Total(g, T) + Total(h, T)
    BY <2>3, <2>4, <2>5, <2>6
  <2> QED
    BY <2>7
<1>4. above = {}
  <2> SUFFICES ASSUME above # {} PROVE FALSE
    OBVIOUS
  <2>1. FiniteSubsetsOf(S) = SUBSET S
    BY FS_FiniteSubsetsOfFinite
  <2>2. IsWellFoundedOn(StrictSubsetOrdering(S), SUBSET S)
    BY <2>1, FS_StrictSubsetOrderingWellFounded
  <2>3. PICK T \in above : \A U \in above : <<U, T>> \notin StrictSubsetOrdering(S)
    BY <2>2, WFMin
  <2>4. PICK x \in T : TRUE
    BY <1>2
  <2>5. T \in SUBSET S /\ <<T \ {x}, T>> \in StrictSubsetOrdering(S)
    BY DEF StrictSubsetOrdering
  <2>6. T \ {x} \notin above
    BY <2>3, <2>5
  <2> HIDE DEF above
  <2> QED
    BY <1>3, <2>5, <2>6
<1> QED
  BY <1>4
==============================================================================
