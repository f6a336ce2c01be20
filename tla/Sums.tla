-------------------------------- MODULE Sums --------------------------------
(***************************************************************************)
(* Sums over finite sets: induction over subsets and numbers, what a sum   *)
(* is when it is split, changed or bounded, and the arithmetic the proofs  *)
(* share.                                                                  *)
(***************************************************************************)
EXTENDS Integers, Functions, FiniteSetTheorems, WellFoundedInduction, TLAPS

\* What a sum over a set is: MapThenSumSet, with the summands as a function.
Total(f, S) == FoldFunctionOnSet(+, 0, f, S)

Pick(s) == CHOOSE x \in s : TRUE
\* The function behind the sum, on all subsets.
Folds1(f, S, g) == g = [s \in SUBSET S |-> IF s = {} THEN 0 ELSE f[Pick(s)] + g[s \ {Pick(s)}]]

(* Induction over the subsets of a finite set. *)
LEMMA SubsetInduction ==
  ASSUME NEW S, IsFiniteSet(S), NEW T,
         \A s \in SUBSET S : (\A x \in s : s \ {x} \in T) => s \in T
  PROVE  \A s \in SUBSET S : s \in T
<1> DEFINE R == StrictSubsetOrdering(S)
           B == {s \in SUBSET S : s \notin T}
<1>1. IsWellFoundedOn(R, SUBSET S)
  BY FS_StrictSubsetOrderingWellFounded, FS_FiniteSubsetsOfFinite, Zenon
<1>2. SUFFICES ASSUME B # {} PROVE FALSE
  OBVIOUS
<1>3. PICK b \in B : \A c \in B : ~(<<c, b>> \in R)
  <2> HIDE DEF R
  <2>1. B \subseteq SUBSET S
    OBVIOUS
  <2> HIDE DEF B
  <2>2. QED
    BY <1>1, <1>2, <2>1, WFMin
<1>4. ASSUME NEW x \in b PROVE b \ {x} \in T
  <2>1. <<b \ {x}, b>> \in R
    BY DEF StrictSubsetOrdering
  <2>2. QED
    BY <1>3, <2>1, Zenon
<1>5. QED
  BY <1>4

(* A set that is not empty has the element that a fold takes first. *)
LEMMA PickIn == ASSUME NEW s, s # {} PROVE Pick(s) \in s
  BY DEF Pick

(* A sum is the value, at the set itself, of a function on its subsets. *)
LEMMA TotalUnfold ==
  ASSUME NEW f, NEW S
  PROVE  Total(f, S) = (CHOOSE g : Folds1(f, S, g))[S]
  BY DEF Total, FoldFunctionOnSet, MapThenFoldSet, Folds1, Pick

(* Induction over the natural numbers, for a set of them. *)
LEMMA NatSetInduction ==
  ASSUME NEW T, 0 \in T, \A n \in Nat : n \in T => n + 1 \in T
  PROVE  \A n \in Nat : n \in T
<1> DEFINE R == {p \in Nat \X Nat : p[1] < p[2]}
           B == {n \in Nat : n \notin T}
<1>1. IsWellFoundedOn(R, Nat)
  BY NatLessThanWellFounded DEF OpToRel
<1>2. SUFFICES ASSUME B # {} PROVE FALSE
  OBVIOUS
<1>3. PICK b \in B : \A c \in B : ~(<<c, b>> \in R)
  <2> HIDE DEF R
  <2>1. B \subseteq Nat
    OBVIOUS
  <2> HIDE DEF B
  <2>2. QED
    BY <1>1, <1>2, <2>1, WFMin, Zenon
<1>4. b \in Nat /\ b # 0 /\ b \notin T
  OBVIOUS
<1>5. b - 1 \in Nat /\ <<b - 1, b>> \in R
  BY <1>4
<1>6. b - 1 \notin B
  BY <1>3, <1>5
<1>7. (b - 1) + 1 \in T
  BY <1>5, <1>6
<1>8. QED
  BY <1>4, <1>7

(* The function of a fold exists: the recursion goes down to smaller sets. *)
LEMMA FoldExists ==
  ASSUME NEW f, NEW S, IsFiniteSet(S)
  PROVE  \E g : Folds1(f, S, g)
<1> DEFINE Sub(n) == {s \in SUBSET S : Cardinality(s) <= n}
           Body(g, s) == IF s = {} THEN 0 ELSE f[Pick(s)] + g[s \ {Pick(s)}]
           Q(n) == \E g : g = [s \in Sub(n) |-> Body(g, s)]
           T == {n \in Nat : Q(n)}
<1>1. \A s \in SUBSET S : IsFiniteSet(s) /\ Cardinality(s) \in Nat /\ Cardinality(s) <= Cardinality(S)
  BY FS_Subset, FS_CardinalityType
<1>2. 0 \in T
  <2>1. \A s \in Sub(0) : s = {}
    BY <1>1, FS_EmptySet
  <2> DEFINE g == [s \in Sub(0) |-> 0]
  <2>2. g = [s \in Sub(0) |-> Body(g, s)]
    BY <2>1
  <2>3. QED
    BY <2>2, Zenon
<1>3. ASSUME NEW n \in Nat, n \in T PROVE n + 1 \in T
  <2>1. PICK g : g = [s \in Sub(n) |-> Body(g, s)]
    BY <1>3, Zenon
  <2> DEFINE h == [s \in Sub(n + 1) |-> Body(g, s)]
  <2>2. ASSUME NEW s \in Sub(n + 1) PROVE h[s] = Body(h, s)
    <3>1. CASE s = {}
      BY <3>1
    <3>2. CASE s # {}
      <4> DEFINE u == s \ {Pick(s)}
      <4>1. u \in Sub(n) /\ u \in Sub(n + 1)
        <5>1. Pick(s) \in s
          BY <3>2, PickIn
        <5>2. Cardinality(u) = Cardinality(s) - 1
          BY <1>1, <5>1, FS_RemoveElement
        <5>3. QED
          BY <1>1, <5>2
      <4>2. g[u] = Body(g, u) /\ h[u] = Body(g, u)
        BY <2>1, <4>1, Zenon
      <4>3. QED
        BY <3>2, <4>2
    <3>3. QED
      BY <3>1, <3>2
  <2>3. h = [s \in Sub(n + 1) |-> Body(h, s)]
    BY <2>2, Zenon
  <2> HIDE DEF h
  <2>4. Q(n + 1)
    BY <2>3, Zenon
  <2> HIDE DEF Q
  <2>5. QED
    BY <2>4
<1>4. Cardinality(S) \in T
  <2> HIDE DEF T
  <2>1. \A n \in Nat : n \in T
    BY <1>2, <1>3, NatSetInduction
  <2>2. QED
    BY <1>1, <2>1
<1>5. Sub(Cardinality(S)) = SUBSET S
  BY <1>1
<1>6. QED
  BY <1>4, <1>5, Zenon DEF Folds1

\* A function that adds the summands of a set up, element by element.
IsFold(f, S, g) ==
    /\ g[{}] = 0
    /\ \A s \in SUBSET S : s # {} => g[s] = f[Pick(s)] + g[s \ {Pick(s)}]

(* The function behind a sum does what a fold does. *)
LEMMA FoldEquation ==
  ASSUME NEW f, NEW S, IsFiniteSet(S)
  PROVE  \E g : Total(f, S) = g[S] /\ IsFold(f, S, g)
<1> DEFINE g == CHOOSE h : Folds1(f, S, h)
<1>1. Folds1(f, S, g)
  BY FoldExists, Zenon
<1>2. Total(f, S) = g[S]
  BY TotalUnfold, Zenon
<1> HIDE DEF g
<1>3. IsFold(f, S, g)
  BY <1>1, Zenon DEF Folds1, IsFold
<1>4. QED
  BY <1>2, <1>3, Zenon

(* The empty sum. *)
LEMMA TotalEmpty == ASSUME NEW f PROVE Total(f, {}) = 0
  BY FoldEquation, FS_EmptySet DEF IsFold

(* Two folds of the same summands agree. *)
LEMMA FoldsAgree ==
  ASSUME NEW f, NEW S, IsFiniteSet(S), NEW g, NEW h, IsFold(f, S, g), IsFold(f, S, h)
  PROVE  g[S] = h[S]
<1> DEFINE T == {s \in SUBSET S : g[s] = h[s]}
<1>1. ASSUME NEW s \in SUBSET S, \A x \in s : s \ {x} \in T PROVE s \in T
  <2>1. CASE s = {}
    BY <2>1 DEF IsFold
  <2>2. CASE s # {}
    <3>1. s \ {Pick(s)} \in T
      BY <1>1, <2>2, PickIn
    <3>2. g[s \ {Pick(s)}] = h[s \ {Pick(s)}]
      BY <3>1
    <3>3. QED
      BY <2>2, <3>2 DEF IsFold
  <2>3. QED
    BY <2>1, <2>2
<1>2. S \in T
  <2> HIDE DEF T
  <2>1. S \in SUBSET S
    OBVIOUS
  <2>2. QED
    BY <1>1, <2>1, SubsetInduction, Zenon
<1>3. QED
  BY <1>2

(* A sum is its first summand and the sum of the others. *)
LEMMA TotalFirst ==
  ASSUME NEW f, NEW S, IsFiniteSet(S), S # {}
  PROVE  Total(f, S) = f[Pick(S)] + Total(f, S \ {Pick(S)})
<1> DEFINE R == S \ {Pick(S)}
<1>1. IsFiniteSet(R)
  BY FS_RemoveElement
<1>2. PICK g : Total(f, S) = g[S] /\ IsFold(f, S, g)
  BY FoldEquation, Zenon
<1>3. PICK h : Total(f, R) = h[R] /\ IsFold(f, R, h)
  BY <1>1, FoldEquation, Zenon
<1>4. IsFold(f, R, g)
  BY <1>2, Zenon DEF IsFold
<1>5. g[S] = f[Pick(S)] + g[R]
  BY <1>2, Zenon DEF IsFold
<1> HIDE DEF R
<1>6. g[R] = h[R]
  BY <1>1, <1>3, <1>4, FoldsAgree, Zenon
<1>7. QED
  BY <1>2, <1>3, <1>5, <1>6 DEF R

(* Sums of integers are integers. *)
LEMMA TotalInt ==
  ASSUME NEW f, NEW S, IsFiniteSet(S), \A x \in S : f[x] \in Int
  PROVE  Total(f, S) \in Int
<1> DEFINE T == {s \in SUBSET S : Total(f, s) \in Int}
<1>1. ASSUME NEW s \in SUBSET S, \A x \in s : s \ {x} \in T PROVE s \in T
  <2>1. CASE s = {}
    BY <2>1, TotalEmpty
  <2>2. CASE s # {}
    <3>1. Pick(s) \in s /\ f[Pick(s)] \in Int
      BY <2>2, PickIn
    <3>2. Total(f, s) = f[Pick(s)] + Total(f, s \ {Pick(s)})
      BY <2>2, FS_Subset, TotalFirst
    <3>3. Total(f, s \ {Pick(s)}) \in Int
      BY <1>1, <3>1
    <3>4. QED
      BY <3>1, <3>2, <3>3
  <2>3. QED
    BY <2>1, <2>2
<1>2. S \in T
  <2> HIDE DEF T
  <2>1. S \in SUBSET S
    OBVIOUS
  <2>2. QED
    BY <1>1, <2>1, SubsetInduction, Zenon
<1>3. QED
  BY <1>2

(* Any summand may come first. *)
LEMMA TotalRemove ==
  ASSUME NEW f, NEW S, IsFiniteSet(S), \A x \in S : f[x] \in Int
  PROVE  \A x \in S : Total(f, S) = f[x] + Total(f, S \ {x})
<1> DEFINE Q(s) == \A x \in s : Total(f, s) = f[x] + Total(f, s \ {x})
           T == {s \in SUBSET S : Q(s)}
<1>1. ASSUME NEW s \in SUBSET S, \A x \in s : s \ {x} \in T PROVE s \in T
  <2>0. \A u \in SUBSET S : IsFiniteSet(u) /\ Total(f, u) \in Int
    BY FS_Subset, TotalInt
  <2>1. CASE s = {}
    BY <2>1
  <2>2. CASE s # {}
    <3> DEFINE y == Pick(s)
    <3>1. y \in s /\ f[y] \in Int
      BY <2>2, PickIn
    <3>2. Total(f, s) = f[y] + Total(f, s \ {y})
      BY <2>0, <2>2, TotalFirst
    <3> HIDE DEF y
    <3>3. ASSUME NEW x \in s, x # y PROVE Total(f, s) = f[x] + Total(f, s \ {x})
      <4>1. /\ f[x] \in Int /\ Total(f, s \ {x}) \in Int /\ Total(f, s \ {y}) \in Int
            /\ Total(f, (s \ {x}) \ {y}) \in Int
        BY <2>0
      <4>2. Total(f, s \ {y}) = f[x] + Total(f, (s \ {y}) \ {x})
        BY <1>1, <3>1, <3>3
      <4>3. Total(f, s \ {x}) = f[y] + Total(f, (s \ {x}) \ {y})
        BY <1>1, <3>1, <3>3
      <4>4. (s \ {y}) \ {x} = (s \ {x}) \ {y}
        OBVIOUS
      <4>5. QED
        BY <3>1, <3>2, <4>1, <4>2, <4>3, <4>4
    <3>4. Q(s)
      BY <3>1, <3>2, <3>3
    <3>5. QED
      BY <3>4
  <2>3. QED
    BY <2>1, <2>2
<1>2. S \in T
  <2> HIDE DEF T
  <2>1. S \in SUBSET S
    OBVIOUS
  <2>2. QED
    BY <1>1, <2>1, SubsetInduction, Zenon
<1>3. QED
  BY <1>2

(* The sum over one element. *)
LEMMA TotalOne ==
  ASSUME NEW f, NEW x, f[x] \in Int
  PROVE  Total(f, {x}) = f[x]
<1>1. IsFiniteSet({x}) /\ {x} \ {x} = {} /\ \A y \in {x} : f[y] \in Int
  BY FS_Singleton
<1>2. Total(f, {x}) = f[x] + Total(f, {x} \ {x})
  BY <1>1, TotalRemove
<1>3. Total(f, {x} \ {x}) = 0
  BY <1>1, TotalEmpty
<1>4. QED
  BY <1>2, <1>3

(* A sum grows with its summands. *)
LEMMA TotalLeq ==
  ASSUME NEW f, NEW g, NEW S, IsFiniteSet(S),
         \A x \in S : f[x] \in Int /\ g[x] \in Int /\ f[x] <= g[x]
  PROVE  Total(f, S) <= Total(g, S)
<1> DEFINE T == {s \in SUBSET S : Total(f, s) <= Total(g, s)}
<1>1. ASSUME NEW s \in SUBSET S, \A x \in s : s \ {x} \in T PROVE s \in T
  <2>0. \A u \in SUBSET S : IsFiniteSet(u) /\ Total(f, u) \in Int /\ Total(g, u) \in Int
    BY FS_Subset, TotalInt
  <2>1. CASE s = {}
    BY <2>1, TotalEmpty
  <2>2. ASSUME NEW x \in s PROVE s \in T
    <3>1. f[x] \in Int /\ g[x] \in Int /\ f[x] <= g[x]
      OBVIOUS
    <3>2. Total(f, s) = f[x] + Total(f, s \ {x}) /\ Total(g, s) = g[x] + Total(g, s \ {x})
      BY <2>0, TotalRemove
    <3>3. Total(f, s \ {x}) <= Total(g, s \ {x})
      BY <1>1
    <3>4. Total(f, s \ {x}) \in Int /\ Total(g, s \ {x}) \in Int
      BY <2>0
    <3>5. Total(f, s) <= Total(g, s)
      BY <3>1, <3>2, <3>3, <3>4
    <3>6. QED
      BY <3>5
  <2>3. QED
    BY <2>1, <2>2
<1>2. S \in T
  <2> HIDE DEF T
  <2>1. S \in SUBSET S
    OBVIOUS
  <2>2. QED
    BY <1>1, <2>1, SubsetInduction, Zenon
<1>3. QED
  BY <1>2

(* The sum depends on its summands only. *)
LEMMA TotalSame ==
  ASSUME NEW f, NEW g, NEW S, IsFiniteSet(S), \A x \in S : f[x] \in Int /\ g[x] = f[x]
  PROVE  Total(g, S) = Total(f, S)
<1>1. Total(f, S) <= Total(g, S) /\ Total(g, S) <= Total(f, S)
  BY TotalLeq
<1>2. Total(f, S) \in Int /\ Total(g, S) \in Int
  BY TotalInt
<1>3. QED
  BY <1>1, <1>2

(* One summand changes. *)
LEMMA TotalUpdate ==
  ASSUME NEW f, NEW g, NEW S, IsFiniteSet(S), NEW x \in S, g[x] \in Int,
         \A y \in S : f[y] \in Int, \A y \in S \ {x} : g[y] = f[y]
  PROVE  Total(g, S) = Total(f, S) + (g[x] - f[x])
<1>1. \A y \in S : g[y] \in Int
  OBVIOUS
<1>2. Total(f, S) = f[x] + Total(f, S \ {x}) /\ Total(g, S) = g[x] + Total(g, S \ {x})
  BY <1>1, TotalRemove
<1>3. IsFiniteSet(S \ {x})
  BY FS_RemoveElement
<1>4. Total(g, S \ {x}) = Total(f, S \ {x})
  BY <1>3, TotalSame
<1>5. Total(f, S \ {x}) \in Int /\ f[x] \in Int
  BY <1>3, TotalInt
<1>6. QED
  BY <1>2, <1>4, <1>5

(* Sums add up. *)
LEMMA TotalPlus ==
  ASSUME NEW f, NEW g, NEW h, NEW S, IsFiniteSet(S),
         \A x \in S : f[x] \in Int /\ g[x] \in Int /\ h[x] = f[x] + g[x]
  PROVE  Total(h, S) = Total(f, S) + Total(g, S)
<1> DEFINE T == {s \in SUBSET S : Total(h, s) = Total(f, s) + Total(g, s)}
<1>1. ASSUME NEW s \in SUBSET S, \A x \in s : s \ {x} \in T PROVE s \in T
  <2>0. \A u \in SUBSET S : IsFiniteSet(u) /\ Total(f, u) \in Int /\ Total(g, u) \in Int
    BY FS_Subset, TotalInt
  <2>1. CASE s = {}
    BY <2>1, TotalEmpty
  <2>2. ASSUME NEW x \in s PROVE s \in T
    <3>1. f[x] \in Int /\ g[x] \in Int /\ h[x] = f[x] + g[x]
      OBVIOUS
    <3>a. IsFiniteSet(s) /\ \A y \in s : f[y] \in Int /\ g[y] \in Int /\ h[y] \in Int
      BY <2>0
    <3>b. Total(f, s) = f[x] + Total(f, s \ {x})
      BY <3>a, TotalRemove
    <3>c. Total(g, s) = g[x] + Total(g, s \ {x})
      BY <3>a, TotalRemove
    <3>2. Total(h, s) = h[x] + Total(h, s \ {x})
      BY <3>a, TotalRemove
    <3>3. Total(h, s \ {x}) = Total(f, s \ {x}) + Total(g, s \ {x})
      BY <1>1
    <3>4. Total(f, s \ {x}) \in Int /\ Total(g, s \ {x}) \in Int
      BY <2>0
    <3>5. Total(h, s) = Total(f, s) + Total(g, s)
      BY <3>1, <3>b, <3>c, <3>2, <3>3, <3>4
    <3>6. QED
      BY <3>5
  <2>3. QED
    BY <2>1, <2>2
<1>2. S \in T
  <2> HIDE DEF T
  <2>1. S \in SUBSET S
    OBVIOUS
  <2>2. QED
    BY <1>1, <2>1, SubsetInduction, Zenon
<1>3. QED
  BY <1>2

(* Sums over disjoint sets add up. *)
LEMMA TotalUnion ==
  ASSUME NEW f, NEW R, NEW S, IsFiniteSet(R), IsFiniteSet(S), R \cap S = {},
         \A x \in R \cup S : f[x] \in Int
  PROVE  Total(f, R \cup S) = Total(f, R) + Total(f, S)
<1> DEFINE T == {s \in SUBSET S : Total(f, R \cup s) = Total(f, R) + Total(f, s)}
<1>0. \A u \in SUBSET S : /\ IsFiniteSet(u) /\ IsFiniteSet(R \cup u)
                          /\ Total(f, u) \in Int /\ Total(f, R \cup u) \in Int
  BY FS_Subset, FS_Union, TotalInt, Zenon
<1>1. ASSUME NEW s \in SUBSET S, \A x \in s : s \ {x} \in T PROVE s \in T
  <2>1. CASE s = {}
    <3>1. R \cup s = R /\ Total(f, R) \in Int
      BY <2>1, TotalInt
    <3>2. QED
      BY <2>1, <3>1, TotalEmpty
  <2>2. ASSUME NEW x \in s PROVE s \in T
    <3>1. f[x] \in Int /\ x \in R \cup s /\ (R \cup s) \ {x} = R \cup (s \ {x})
      OBVIOUS
    <3>a. /\ IsFiniteSet(s) /\ \A y \in s : f[y] \in Int
          /\ IsFiniteSet(R \cup s) /\ \A y \in R \cup s : f[y] \in Int
      BY <1>0
    <3>2. Total(f, s) = f[x] + Total(f, s \ {x})
      BY <3>a, TotalRemove
    <3>b. Total(f, R \cup s) = f[x] + Total(f, (R \cup s) \ {x})
      BY <3>1, <3>a, TotalRemove
    <3>3. Total(f, R \cup s) = f[x] + Total(f, R \cup (s \ {x}))
      BY <3>1, <3>b, Zenon
    <3>4. Total(f, R \cup (s \ {x})) = Total(f, R) + Total(f, s \ {x})
      BY <1>1
    <3>5. Total(f, s \ {x}) \in Int /\ Total(f, R) \in Int
      BY <1>0, TotalInt, Zenon
    <3>6. Total(f, R \cup s) = Total(f, R) + Total(f, s)
      BY <3>1, <3>2, <3>3, <3>4, <3>5
    <3>7. QED
      BY <3>6
  <2>3. QED
    BY <2>1, <2>2
<1>2. S \in T
  <2> HIDE DEF T
  <2>1. S \in SUBSET S
    OBVIOUS
  <2>2. QED
    BY ONLY IsFiniteSet(S), <1>1, <2>1, SubsetInduction, Zenon
<1>3. QED
  BY <1>2

(* Sums with summands of one value. *)
LEMMA TotalConstant ==
  ASSUME NEW f, NEW S, IsFiniteSet(S), NEW c \in Int, \A x \in S : f[x] = c
  PROVE  Total(f, S) = Cardinality(S) * c
<1> DEFINE T == {s \in SUBSET S : Total(f, s) = Cardinality(s) * c}
<1>1. ASSUME NEW s \in SUBSET S, \A x \in s : s \ {x} \in T PROVE s \in T
  <2>0. IsFiniteSet(s) /\ Cardinality(s) \in Nat
    BY FS_Subset, FS_CardinalityType
  <2>1. CASE s = {}
    BY <2>1, TotalEmpty, FS_EmptySet
  <2>2. ASSUME NEW x \in s PROVE s \in T
    <3>1. Cardinality(s \ {x}) = Cardinality(s) - 1
      BY <2>0, FS_RemoveElement, Zenon
    <3>2. Total(f, s) = c + Total(f, s \ {x})
      BY <2>0, TotalRemove
    <3>3. Total(f, s \ {x}) = Cardinality(s \ {x}) * c
      BY <1>1
    <3>4. \A n \in Nat : c + (n - 1) * c = n * c
      OBVIOUS
    <3>5. Total(f, s) = Cardinality(s) * c
      BY <2>0, <3>1, <3>2, <3>3, <3>4
    <3>6. QED
      BY <3>5
  <2>3. QED
    BY <2>1, <2>2
<1>2. S \in T
  <2> HIDE DEF T
  <2>1. S \in SUBSET S
    OBVIOUS
  <2>2. QED
    BY <1>1, <2>1, SubsetInduction, Zenon
<1>3. QED
  BY <1>2

(* Sums of natural numbers are natural, and no smaller over a larger set. *)
LEMMA TotalNat ==
  ASSUME NEW f, NEW S, IsFiniteSet(S), \A x \in S : f[x] \in Nat
  PROVE  /\ Total(f, S) \in Nat
         /\ \A R \in SUBSET S : Total(f, R) \in Nat /\ Total(f, R) <= Total(f, S)
<1>1. ASSUME NEW R \in SUBSET S PROVE Total(f, R) \in Nat
  <2> DEFINE z == [x \in R |-> 0]
  <2>1. IsFiniteSet(R) /\ Cardinality(R) \in Nat
    BY FS_Subset, FS_CardinalityType
  <2>2. Total(z, R) = Cardinality(R) * 0
    BY <2>1, TotalConstant
  <2>3. \A x \in R : z[x] \in Int /\ f[x] \in Int /\ z[x] <= f[x]
    OBVIOUS
  <2> HIDE DEF z
  <2>4. Total(z, R) <= Total(f, R) /\ Total(f, R) \in Int
    BY <2>1, <2>3, TotalLeq, TotalInt
  <2>5. QED
    BY <2>1, <2>2, <2>4
<1>2. ASSUME NEW R \in SUBSET S PROVE Total(f, R) <= Total(f, S)
  <2>1. IsFiniteSet(R) /\ IsFiniteSet(S \ R) /\ R \cap (S \ R) = {} /\ R \cup (S \ R) = S
    BY FS_Subset
  <2>2. Total(f, S) = Total(f, R) + Total(f, S \ R)
    BY <2>1, TotalUnion
  <2>3. Total(f, S \ R) \in Nat /\ Total(f, R) \in Nat
    BY <1>1
  <2>4. QED
    BY <2>2, <2>3
<1>3. QED
  BY <1>1, <1>2

-----------------------------------------------------------------------------
(* Arithmetic *)

(* Multiplying by a number that is not negative keeps an order. *)
LEMMA TimesMonotonic ==
  ASSUME NEW a \in Nat, NEW x \in Int, NEW y \in Int, x <= y
  PROVE  a * x <= a * y
OBVIOUS

(* Dividing by a positive number keeps an order. *)
LEMMA TimesCancel ==
  ASSUME NEW a \in Nat, a >= 1, NEW x \in Int, NEW y \in Int, a * x <= a * y
  PROVE  x <= y
<1>1. ASSUME x >= y + 1 PROVE FALSE
  <2>1. a * (y + 1) <= a * x
    BY <1>1, TimesMonotonic
  <2>2. a * (y + 1) = a * y + a
    OBVIOUS
  <2>3. QED
    BY <2>1, <2>2
<1>2. QED
  BY <1>1

(* The identity behind the bound on the credits of k tunnels out of k + r, m of which earn. *)
LEMMA ParabolaStep ==
  ASSUME NEW k \in Int, NEW m \in Int, NEW r \in Int
  PROVE  (1 + m) * (k * r) = (k + m) * (r - m) + m * ((k - 1) * (r + 1)) + (m * m + m)
<1>1. (k + m) * (r - m) = k * r - k * m + m * r - m * m
  OBVIOUS
<1>2. (k - 1) * (r + 1) = k * r + k - r - 1
  OBVIOUS
<1>3. m * ((k - 1) * (r + 1)) = m * (k * r) + m * k - m * r - m
  BY <1>2
<1>4. (1 + m) * (k * r) = k * r + m * (k * r)
  OBVIOUS
<1>5. QED
  BY <1>1, <1>3, <1>4

(* The bound for the tunnels that earn and do not pay, from the bounds for
   those tunnels with one that is richer, and without one that is poorest. *)
LEMMA CreditArithmetic ==
  ASSUME NEW k \in Int, NEW m \in Nat, m >= 1, NEW r \in Int, NEW W \in Nat,
         NEW SA \in Int, NEW SM \in Int, NEW SB \in Int, NEW SX \in Int,
         NEW cb \in Int, NEW wb \in Int, NEW WX \in Int,
         -(((k - 1) * (r + 1)) * W) <= 2 * SM,
         -(((k + m) * (r - m)) * W) <= 2 * SB,
         SA = cb + SM, SB = SA + SX, SX + WX <= m * (cb + wb), wb + WX <= W
  PROVE  -((k * r) * W) <= 2 * (SA - WX)
<1> DEFINE P == (k * r) * W
           P1 == ((k - 1) * (r + 1)) * W
           P2 == ((k + m) * (r - m)) * W
<1>0. P \in Int /\ P1 \in Int /\ P2 \in Int
  OBVIOUS
<1>1. (1 + m) * P = P2 + m * P1 + (m * m + m) * W
  <2>1. (1 + m) * P = ((1 + m) * (k * r)) * W
    OBVIOUS
  <2> DEFINE a == (k + m) * (r - m)
             b == (k - 1) * (r + 1)
  <2>2. a \in Int /\ b \in Int
    OBVIOUS
  <2>3. (1 + m) * (k * r) = a + m * b + (m * m + m)
    BY ParabolaStep
  <2>4. P1 = b * W /\ P2 = a * W
    OBVIOUS
  <2> HIDE DEF a, b, P, P1, P2
  <2>5. (a + m * b + (m * m + m)) * W = a * W + m * (b * W) + (m * m + m) * W
    BY <2>2
  <2>6. QED
    BY <2>1, <2>3, <2>4, <2>5
<1>2. -P1 <= 2 * SM /\ -P2 <= 2 * SB
  OBVIOUS
<1> HIDE DEF P, P1, P2
<1>3. m * (-P1) <= m * (2 * SM)
  BY <1>0, <1>2, TimesMonotonic
<1>4. m * (wb + WX) <= m * W
  BY TimesMonotonic
<1>5. m * W <= (m * m) * W
  <2>1. 1 * m <= m * m
    BY TimesMonotonic
  <2>2. W * m <= W * (m * m)
    BY <2>1, TimesMonotonic
  <2>3. QED
    BY <2>2
<1>6. m * (cb + wb) = m * SA - m * SM + m * wb
  <2>1. cb = SA - SM
    OBVIOUS
  <2>2. QED
    BY <2>1
<1>7. (1 + m) * (-P) <= (1 + m) * (2 * (SA - WX))
  <2>1. (1 + m) * (2 * (SA - WX)) = 2 * SA + 2 * (m * SA) - 2 * WX - 2 * (m * WX)
    OBVIOUS
  <2>2. m * (wb + WX) = m * wb + m * WX /\ m * (2 * SM) = 2 * (m * SM)
    OBVIOUS
  <2>3. m * (-P1) = -(m * P1) /\ (1 + m) * (-P) = -((1 + m) * P) /\ (m * m + m) * W = (m * m) * W + m * W
    BY <1>0
  <2>4. {m * SA, m * SM, m * wb, m * WX, m * P1, (1 + m) * P, (m * m) * W, m * W} \subseteq Int
    BY <1>0
  <2>5. QED
    BY <1>0, <1>1, <1>2, <1>3, <1>4, <1>5, <1>6, <2>1, <2>2, <2>3, <2>4
<1>8. QED
  <2>1. 2 * (SA - WX) \in Int /\ -P \in Int /\ 1 + m \in Nat /\ 1 + m >= 1
    BY <1>0
  <2>2. -P <= 2 * (SA - WX)
    BY <1>7, <2>1, TimesCancel
  <2>3. QED
    BY <2>2 DEF P
=============================================================================
