------------------------------ MODULE SumTheorems ------------------------------
(***************************************************************************)
(* Facts about finite sets of natural numbers, about SumFunctionOnSet of   *)
(* Functions for functions into the natural numbers, and about images and  *)
(* cardinalities.  The sum folds in an order that CHOOSE picks; the lemmas *)
(* say that the order does not matter.                                     *)
(***************************************************************************)
EXTENDS Functions, Integers, Sequences, FiniteSetTheorems, WellFoundedInduction, TLAPS

LEMMA LeastOf ==
  ASSUME NEW T \in SUBSET Nat, T # {}
  PROVE  \E n \in T : \A m \in T : n <= m
<1>1. PICK n \in T : \A m \in T : <<m, n>> \notin OpToRel(<, Nat)
  BY NatLessThanWellFounded, WFMin
<1>2. \A m \in T : ~(m < n)
  BY <1>1 DEF OpToRel
<1> QED  BY <1>2

(* What holds of a set when it holds of the set with one element less holds *)
(* of all finite sets: there is no smallest counterexample.                 *)
LEMMA SmallestSet ==
  ASSUME NEW S, IsFiniteSet(S), NEW B \in SUBSET (SUBSET S), B # {}
  PROVE  \E T \in B : \A x \in T : T \ {x} \notin B
<1> DEFINE Sizes == {n \in Nat : \E T \in B : Cardinality(T) = n}
<1>1. \A T \in B : IsFiniteSet(T) /\ Cardinality(T) \in Nat
  BY FS_Subset, FS_CardinalityType
<1>2. Sizes # {}
  BY <1>1
<1>3. PICK n \in Sizes : \A m \in Sizes : n <= m
  <2> HIDE DEF Sizes
  <2> Sizes \in SUBSET Nat  BY DEF Sizes
  <2> QED  BY <1>2, LeastOf
<1>4. PICK T \in B : Cardinality(T) = n
  BY <1>3
<1>5. ASSUME NEW x \in T, T \ {x} \in B PROVE FALSE
  <2>1. Cardinality(T \ {x}) = n - 1
    BY <1>1, <1>4, FS_RemoveElement
  <2>2. Cardinality(T \ {x}) \in Sizes
    BY <1>1, <1>5
  <2>3. n \in Nat /\ ~(n <= n - 1)
    OBVIOUS
  <2> HIDE DEF Sizes
  <2> QED  BY <1>3, <2>1, <2>2, <2>3
<1> QED  BY <1>5

-----------------------------------------------------------------------------
(* The recursion of the fold *)

Picked(T) == CHOOSE x \in T : TRUE

\* h[T] is the sum of g over T, as the fold computes it.
FoldStep(h, g, T) == IF T = {} THEN 0 ELSE g[Picked(T)] + h[T \ {Picked(T)}]

\* h is the fold's table of sums over the subsets of S.
IsFoldOf(h, g, S) == h = [T \in SUBSET S |-> FoldStep(h, g, T)]

LEMMA PickedIs == \A T : T # {} => Picked(T) \in T
BY DEF Picked

LEMMA SumExists ==
  ASSUME NEW g, NEW S, IsFiniteSet(S)
  PROVE  \E h : IsFoldOf(h, g, S)
<1> DEFINE Small(n) == {T \in SUBSET S : Cardinality(T) <= n}
           Solves(h, n) == h = [T \in Small(n) |-> FoldStep(h, g, T)]
           Bad == {n \in Nat : ~\E h : Solves(h, n)}
<1>1. \A T \in SUBSET S : IsFiniteSet(T) /\ Cardinality(T) \in Nat
  BY FS_Subset, FS_CardinalityType
<1>2. Bad = {}
  <2> SUFFICES ASSUME Bad # {} PROVE FALSE
    OBVIOUS
  <2>1. PICK n \in Bad : \A m \in Bad : n <= m
    <3> HIDE DEF Bad
    <3> Bad \in SUBSET Nat  BY DEF Bad
    <3> QED  BY LeastOf
  <2>2. CASE n = 0
    <3>1. \A T \in Small(0) : T = {}
      BY <1>1, FS_EmptySet
    <3> DEFINE h == [T \in Small(0) |-> 0]
    <3>2. Solves(h, 0)
      BY <3>1 DEF FoldStep
    <3> QED  BY <2>1, <2>2, <3>2
  <2>3. CASE n # 0
    <3>1. n - 1 \in Nat /\ n - 1 \notin Bad
      <4>1. n \in Nat
        OBVIOUS
      <4>2. n - 1 \in Nat /\ ~(n <= n - 1)
        BY <2>3, <4>1
      <4> HIDE DEF Bad
      <4> QED  BY <2>1, <4>2
    <3>2. PICK h : Solves(h, n - 1)
      BY <3>1
    <3> DEFINE k == [T \in Small(n) |-> FoldStep(h, g, T)]
    <3>3. ASSUME NEW T \in Small(n), T # {} PROVE T \ {Picked(T)} \in Small(n - 1)
      <4>1. Cardinality(T \ {Picked(T)}) = Cardinality(T) - 1
        BY <1>1, <3>3, PickedIs, FS_RemoveElement
      <4>2. T \ {Picked(T)} \in SUBSET S
        OBVIOUS
      <4> QED  BY <1>1, <2>1, <4>1, <4>2
    <3>4. ASSUME NEW T \in Small(n - 1) PROVE T \in Small(n) /\ k[T] = h[T]
      <4>1. T \in Small(n)
        BY <1>1, <2>1
      <4>2. h[T] = FoldStep(h, g, T)
        BY <3>2
      <4> QED  BY <4>1, <4>2
    <3>5. ASSUME NEW T \in Small(n) PROVE FoldStep(k, g, T) = FoldStep(h, g, T)
      <4> HIDE DEF k, Small
      <4>1. CASE T = {}
        BY <4>1 DEF FoldStep
      <4>2. CASE T # {}
        BY <3>3, <3>4, <4>2 DEF FoldStep
      <4> QED  BY <4>1, <4>2
    <3>6. Solves(k, n)
      BY <3>5
    <3> QED  BY <2>1, <3>6
  <2> QED  BY <2>2, <2>3
<1>3. Cardinality(S) \in Nat /\ Small(Cardinality(S)) = SUBSET S
  BY <1>1, FS_Subset
<1>4. PICK h : Solves(h, Cardinality(S))
  BY <1>2, <1>3
<1> QED  BY <1>3, <1>4 DEF IsFoldOf

(* The sums over a set and over a subset of it are folded alike.            *)
LEMMA FoldsAgree ==
  ASSUME NEW g, NEW S, IsFiniteSet(S), NEW R \in SUBSET S,
         NEW h, IsFoldOf(h, g, S), NEW k, IsFoldOf(k, g, R)
  PROVE  h[R] = k[R]
<1> DEFINE B == {T \in SUBSET R : h[T] # k[T]}
<1>1. ASSUME B # {} PROVE FALSE
  <2>1. IsFiniteSet(R)
    BY FS_Subset
  <2>2. PICK T \in B : \A x \in T : T \ {x} \notin B
    <3> HIDE DEF B
    <3> B \in SUBSET (SUBSET R)  BY DEF B
    <3> QED  BY <1>1, <2>1, SmallestSet
  <2>3. h[T] = FoldStep(h, g, T) /\ k[T] = FoldStep(k, g, T)
    BY DEF IsFoldOf
  <2>4. T # {} => h[T \ {Picked(T)}] = k[T \ {Picked(T)}]
    BY <2>2, PickedIs
  <2> QED  BY <2>2, <2>3, <2>4 DEF FoldStep
<1> QED  BY <1>1

LEMMA SumIsFold ==
  ASSUME NEW g, NEW S, IsFiniteSet(S)
  PROVE  \E h : IsFoldOf(h, g, S) /\ SumFunctionOnSet(g, S) = h[S]
<1> DEFINE h == CHOOSE i : IsFoldOf(i, g, S)
<1>1. IsFoldOf(h, g, S)
  BY SumExists
<1>2. SumFunctionOnSet(g, S) = h[S]
  BY DEF IsFoldOf, SumFunctionOnSet, FoldFunctionOnSet, MapThenFoldSet, FoldStep, Picked
<1> QED  BY <1>1, <1>2

LEMMA SumUnfolds ==
  ASSUME NEW g, NEW S, IsFiniteSet(S)
  PROVE  /\ S = {} => SumFunctionOnSet(g, S) = 0
         /\ S # {} => SumFunctionOnSet(g, S)
                        = g[Picked(S)] + SumFunctionOnSet(g, S \ {Picked(S)})
<1>1. PICK h : IsFoldOf(h, g, S) /\ SumFunctionOnSet(g, S) = h[S]
  BY SumIsFold
<1>2. h[S] = FoldStep(h, g, S)
  BY <1>1 DEF IsFoldOf
<1>3. ASSUME S # {} PROVE h[S \ {Picked(S)}] = SumFunctionOnSet(g, S \ {Picked(S)})
  <2> DEFINE R == S \ {Picked(S)}
  <2>1. IsFiniteSet(R) /\ R \in SUBSET S
    BY FS_Subset
  <2>r. R = S \ {Picked(S)}
    OBVIOUS
  <2> HIDE DEF R
  <2>2. PICK k : IsFoldOf(k, g, R) /\ SumFunctionOnSet(g, R) = k[R]
    BY <2>1, SumIsFold
  <2>3. h[R] = k[R]
    BY <1>1, <2>1, <2>2, FoldsAgree
  <2> QED  BY <2>2, <2>3, <2>r
<1> QED  BY <1>1, <1>2, <1>3 DEF FoldStep

-----------------------------------------------------------------------------
(* Sums of natural numbers *)

LEMMA SumIsNat ==
  ASSUME NEW g, NEW S, IsFiniteSet(S), \A x \in S : g[x] \in Nat
  PROVE  SumFunctionOnSet(g, S) \in Nat
<1> DEFINE B == {T \in SUBSET S : SumFunctionOnSet(g, T) \notin Nat}
<1>1. ASSUME B # {} PROVE FALSE
  <2>1. PICK T \in B : \A x \in T : T \ {x} \notin B
    <3> HIDE DEF B
    <3> B \in SUBSET (SUBSET S)  BY DEF B
    <3> QED  BY <1>1, SmallestSet
  <2>2. IsFiniteSet(T)
    BY FS_Subset
  <2>3. CASE T = {}
    <3>1. SumFunctionOnSet(g, T) = 0 /\ T \in SUBSET S
      BY <2>2, <2>3, SumUnfolds
    <3> QED  BY <2>1, <3>1
  <2>4. CASE T # {}
    <3>1. Picked(T) \in T
      BY <2>4, PickedIs
    <3>2. T \ {Picked(T)} \notin B
      BY <2>1, <3>1
    <3>3. g[Picked(T)] \in Nat /\ SumFunctionOnSet(g, T \ {Picked(T)}) \in Nat
      BY <3>1, <3>2
    <3>4. SumFunctionOnSet(g, T) = g[Picked(T)] + SumFunctionOnSet(g, T \ {Picked(T)})
      BY <2>2, <2>4, SumUnfolds
    <3>5. SumFunctionOnSet(g, T) \in Nat
      BY <3>3, <3>4
    <3> QED  BY <2>1, <3>5
  <2> QED  BY <2>3, <2>4
<1> QED  BY <1>1

(* Any element can be the first one that is added.                          *)
LEMMA SumTakes ==
  ASSUME NEW g, NEW S, IsFiniteSet(S), \A x \in S : g[x] \in Nat, NEW x \in S
  PROVE  SumFunctionOnSet(g, S) = g[x] + SumFunctionOnSet(g, S \ {x})
<1> DEFINE Takes(T, y) ==
             SumFunctionOnSet(g, T) = g[y] + SumFunctionOnSet(g, T \ {y})
           B == {T \in SUBSET S : \E y \in T : ~Takes(T, y)}
<1>1. ASSUME B # {} PROVE FALSE
  <2>1. PICK T \in B : \A y \in T : T \ {y} \notin B
    <3> HIDE DEF B
    <3> B \in SUBSET (SUBSET S)  BY DEF B
    <3> QED  BY <1>1, SmallestSet
  <2>2. IsFiniteSet(T)
    BY FS_Subset
  <2>3. PICK y \in T : ~Takes(T, y)
    BY <2>1
  <2>o. PICK o : o = Picked(T)
    OBVIOUS
  <2>4. o \in T /\ Takes(T, o)
    BY <2>o, <2>2, <2>3, PickedIs, SumUnfolds
  <2>5. o # y
    BY <2>3, <2>4
  <2>r. PICK R : R = (T \ {o}) \ {y}
    OBVIOUS
  <2>6. R = (T \ {y}) \ {o}
    BY <2>r
  <2>7. T \ {o} \notin B /\ T \ {y} \notin B
    BY <2>1, <2>3, <2>4
  <2>8. Takes(T \ {o}, y) /\ Takes(T \ {y}, o)
    <3>1. y \in T \ {o} /\ T \ {o} \in SUBSET S /\ o \in T \ {y} /\ T \ {y} \in SUBSET S
      BY <2>3, <2>4, <2>5
    <3> HIDE DEF Takes
    <3> QED  BY <2>7, <3>1
  <2>9. IsFiniteSet(R) /\ R \subseteq S
    BY <2>2, <2>r, FS_Subset
  <2>10. SumFunctionOnSet(g, R) \in Nat /\ g[o] \in Nat /\ g[y] \in Nat
    BY <2>4, <2>9, SumIsNat
  <2>11. /\ SumFunctionOnSet(g, T) = g[o] + SumFunctionOnSet(g, T \ {o})
         /\ SumFunctionOnSet(g, T \ {o}) = g[y] + SumFunctionOnSet(g, R)
         /\ SumFunctionOnSet(g, T \ {y}) = g[o] + SumFunctionOnSet(g, R)
    BY <2>4, <2>6, <2>8, <2>r
  <2>12. SumFunctionOnSet(g, T) = g[y] + SumFunctionOnSet(g, T \ {y})
    BY <2>10, <2>11
  <2> QED  BY <2>3, <2>12
<1>2. S \notin B
  BY <1>1
<1> QED  BY <1>2

LEMMA SumOfSame ==
  ASSUME NEW g, NEW k, NEW S, IsFiniteSet(S), \A x \in S : k[x] = g[x]
  PROVE  SumFunctionOnSet(k, S) = SumFunctionOnSet(g, S)
<1> DEFINE B == {T \in SUBSET S : SumFunctionOnSet(k, T) # SumFunctionOnSet(g, T)}
<1>1. ASSUME B # {} PROVE FALSE
  <2>1. PICK T \in B : \A x \in T : T \ {x} \notin B
    <3> HIDE DEF B
    <3> B \in SUBSET (SUBSET S)  BY DEF B
    <3> QED  BY <1>1, SmallestSet
  <2>2. IsFiniteSet(T)
    BY FS_Subset
  <2>3. CASE T = {}
    BY <2>1, <2>2, <2>3, SumUnfolds
  <2>4. CASE T # {}
    <3>o. PICK o : o = Picked(T)
      OBVIOUS
    <3>1. o \in T /\ T \ {o} \notin B
      BY <2>1, <2>4, <3>o, PickedIs
    <3>2. k[o] = g[o] /\ SumFunctionOnSet(k, T \ {o}) = SumFunctionOnSet(g, T \ {o})
      BY <3>1
    <3>3. /\ SumFunctionOnSet(g, T) = g[o] + SumFunctionOnSet(g, T \ {o})
          /\ SumFunctionOnSet(k, T) = k[o] + SumFunctionOnSet(k, T \ {o})
      BY <2>2, <2>4, <3>o, SumUnfolds
    <3> QED  BY <2>1, <3>2, <3>3
  <2> QED  BY <2>3, <2>4
<1> QED  BY <1>1

-----------------------------------------------------------------------------
(* Images and their cardinality *)

LEMMA ImageIsFinite ==
  ASSUME NEW S, IsFiniteSet(S), NEW T, NEW f \in [S -> T]
  PROVE  /\ IsFiniteSet(Range(f)) /\ Cardinality(Range(f)) <= Cardinality(S)
         /\ Cardinality(Range(f)) = Cardinality(S) <=> IsInjective(f)
<1>1. PICK R : R = Range(f)
  OBVIOUS
<1>2. f \in Surjection(S, R)
  BY <1>1 DEF Range, Surjection
<1>3. f \in Injection(S, R) <=> IsInjective(f)
  BY <1>2 DEF Injection, Surjection
<1> QED  BY <1>1, <1>2, <1>3, FS_Surjection

(* The elements of a sequence differ if there are as many as it is long.    *)
LEMMA Elements ==
  ASSUME NEW T, NEW q \in Seq(T)
  PROVE  /\ Len(q) \in Nat /\ DOMAIN q = 1 .. Len(q)
         /\ \A i \in DOMAIN q : q[i] \in T
         /\ IsFiniteSet(DOMAIN q) /\ Cardinality(DOMAIN q) = Len(q)
<1>1. /\ Len(q) \in Nat /\ DOMAIN q = 1 .. Len(q)
      /\ \A i \in DOMAIN q : q[i] \in T
  OBVIOUS
<1>2. PICK n : n = Len(q)
  OBVIOUS
<1>3. IsFiniteSet(1 .. n) /\ Cardinality(1 .. n) = n
  <2>1. n \in Int /\ 1 \in Int /\ n \in Nat
    BY <1>1, <1>2
  <2>2. IsFiniteSet(1 .. n) /\ Cardinality(1 .. n) = IF 1 > n THEN 0 ELSE n - 1 + 1
    BY ONLY <2>1, FS_Interval
  <2> QED  BY ONLY <2>1, <2>2
<1> QED  BY <1>1, <1>2, <1>3

LEMMA Distinct ==
  ASSUME NEW T, NEW q \in Seq(T)
  PROVE  /\ Range(q) \subseteq T /\ IsFiniteSet(Range(q))
         /\ Cardinality(Range(q)) = Len(q) <=> IsInjective(q)
<1>1. PICK S : S = DOMAIN q
  OBVIOUS
<1>2. IsFiniteSet(S) /\ Cardinality(S) = Len(q) /\ \A i \in S : q[i] \in T
  BY <1>1, Elements
<1>3. q \in [S -> T]
  BY <1>1
<1>4. Range(q) \subseteq T
  BY <1>1, <1>2 DEF Range
<1> QED  BY <1>2, <1>3, <1>4, ImageIsFinite

(* The cardinality of a union of disjoint sets is the sum of theirs.        *)
LEMMA DisjointUnion ==
  ASSUME NEW S, IsFiniteSet(S), NEW F, NEW g,
         \A x \in S : IsFiniteSet(F[x]) /\ g[x] = Cardinality(F[x]),
         \A x, y \in S : x # y => F[x] \cap F[y] = {}
  PROVE  Cardinality(UNION {F[x] : x \in S}) = SumFunctionOnSet(g, S)
<1> DEFINE U(T) == UNION {F[x] : x \in T}
           B == {T \in SUBSET S : ~(/\ IsFiniteSet(U(T))
                                    /\ Cardinality(U(T)) = SumFunctionOnSet(g, T))}
<1>1. ASSUME B # {} PROVE FALSE
  <2>1. PICK T \in B : \A x \in T : T \ {x} \notin B
    <3> HIDE DEF B
    <3> B \in SUBSET (SUBSET S)  BY DEF B
    <3> QED  BY <1>1, SmallestSet
  <2>2. IsFiniteSet(T)
    BY FS_Subset
  <2>3. CASE T = {}
    <3>1. U({}) = {}
      OBVIOUS
    <3>2. SumFunctionOnSet(g, {}) = 0
      BY <2>2, <2>3, SumUnfolds
    <3> QED  BY <2>1, <2>3, <3>1, <3>2, FS_EmptySet
  <2>4. CASE T # {}
    <3>1. PICK o : o \in T
      BY <2>4
    <3>r. PICK R : R = T \ {o}
      OBVIOUS
    <3>2. R \notin B /\ R \in SUBSET S
      BY <2>1, <3>1, <3>r
    <3>3. IsFiniteSet(U(R)) /\ Cardinality(U(R)) = SumFunctionOnSet(g, R)
      BY <3>2
    <3>4. U(T) = U(R) \cup F[o] /\ U(R) \cap F[o] = {}
      BY <3>1, <3>r
    <3>5. IsFiniteSet(F[o]) /\ g[o] = Cardinality(F[o])
      BY <3>1
    <3>6. \A x \in T : g[x] \in Nat
      BY FS_CardinalityType
    <3>7. SumFunctionOnSet(g, T) = g[o] + SumFunctionOnSet(g, R)
      BY <2>2, <3>1, <3>6, <3>r, SumTakes
    <3>8. Cardinality(U(R)) \in Nat /\ g[o] \in Nat
      BY <3>1, <3>3, <3>6, FS_CardinalityType
    <3>9. /\ IsFiniteSet(U(R) \cup F[o])
          /\ Cardinality(U(R) \cup F[o])
               = Cardinality(U(R)) + Cardinality(F[o]) - Cardinality({})
      <4> HIDE DEF U
      <4> QED  BY <3>3, <3>4, <3>5, FS_Union
    <3>10. Cardinality(U(R) \cup F[o]) = SumFunctionOnSet(g, T)
      <4> HIDE DEF U
      <4> QED  BY <3>3, <3>5, <3>7, <3>8, <3>9, FS_EmptySet
    <3> QED  BY <2>1, <3>4, <3>9, <3>10
  <2> QED  BY <2>3, <2>4
<1>2. S \notin B
  BY <1>1
<1> QED  BY <1>2
=============================================================================
