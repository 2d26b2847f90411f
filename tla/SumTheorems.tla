---------------------------- MODULE SumTheorems ----------------------------
(***************************************************************************)
(* Sums over finite sets, as the community modules define them: a fold, a  *)
(* function defined by recursion over the subsets.  What has to be shown   *)
(* of it is that it exists and that it does not matter which element is    *)
(* taken first.  Induction is over sets: a set of naturals, or a family of *)
(* subsets, that is closed in the right way has all of them.               *)
(***************************************************************************)
EXTENDS Integers, FiniteSets, Functions, FiniteSetTheorems, WellFoundedInduction, TLAPS

-----------------------------------------------------------------------------
(* Induction.                                                              *)

\* A set that holds 0 and is closed under the successor holds every natural.
LEMMA NaturalInduction ==
  ASSUME NEW T, 0 \in T, \A n \in Nat : n \in T => n + 1 \in T
  PROVE  \A n \in Nat : n \in T
<1> DEFINE U == {n \in Nat : n \notin T}
<1>1. SUFFICES ASSUME U # {} PROVE FALSE
  OBVIOUS
<1>2. U \subseteq Nat /\ U # {}
  BY <1>1
<1>3. PICK y \in U : \A z \in U : ~(<<z, y>> \in OpToRel(<, Nat))
  <2> HIDE DEF U
  <2>1. QED
    BY <1>2, WFMin, NatLessThanWellFounded
<1>4. y \in Nat /\ y # 0 /\ y \notin T
  OBVIOUS
<1>5. y - 1 \in Nat /\ y - 1 < y /\ (y - 1) + 1 = y
  BY <1>4
<1>6. y - 1 \in T
  BY <1>3, <1>5 DEF OpToRel
<1>7. QED
  BY <1>4, <1>5, <1>6

\* A family that holds the empty set, and every set that it holds without any
\* one of its elements, holds all subsets of a finite set.
LEMMA SetInduction ==
  ASSUME NEW S, IsFiniteSet(S), NEW C, {} \in C,
         \A s \in SUBSET S : s # {} /\ (\A x \in s : s \ {x} \in C) => s \in C
  PROVE  \A s \in SUBSET S : s \in C
<1> DEFINE T == {n \in Nat : \A s \in SUBSET S : Cardinality(s) = n => s \in C}
<1>1. 0 \in T
  <2>1. ASSUME NEW s \in SUBSET S, Cardinality(s) = 0  PROVE s \in C
    BY <2>1, FS_Subset, FS_EmptySet
  <2>2. QED
    BY <2>1
<1>2. ASSUME NEW n \in Nat, n \in T  PROVE n + 1 \in T
  <2>1. \A s \in SUBSET S : Cardinality(s) = n => s \in C
    BY <1>2
  <2>2. SUFFICES ASSUME NEW s \in SUBSET S, Cardinality(s) = n + 1  PROVE s \in C
    OBVIOUS
  <2> HIDE DEF T
  <2>3. s # {}
    <3>1. Cardinality(s) # 0
      BY <2>2
    <3>2. QED
      BY <3>1, FS_EmptySet
  <2>4. ASSUME NEW x \in s  PROVE s \ {x} \in C
    <3>1. Cardinality(s \ {x}) = Cardinality(s) - 1
      BY FS_Subset, FS_RemoveElement
    <3>2. Cardinality(s \ {x}) = n
      BY <2>2, <3>1
    <3>3. QED
      BY <2>1, <3>2
  <2>5. QED
    BY <2>3, <2>4
<1>3. \A n \in Nat : n \in T
  <2> HIDE DEF T
  <2>1. QED
    BY <1>1, <1>2, NaturalInduction
<1>4. \A s \in SUBSET S : Cardinality(s) \in Nat
  BY FS_Subset, FS_CardinalityType
<1>5. QED
  BY <1>3, <1>4

-----------------------------------------------------------------------------
(* Sums.                                                                   *)

Sum(f, S) == SumFunctionOnSet(f, S)

\* The element that the fold takes first.
First(s) == CHOOSE x \in s : TRUE

\* g is a function that the recursion of the fold over S describes.
IsFold(f, S, g) ==
  g = [s \in SUBSET S |-> IF s = {} THEN 0 ELSE f[First(s)] + g[s \ {First(s)}]]

LEMMA SumIsFold ==
  ASSUME NEW f, NEW S
  PROVE  Sum(f, S) = (CHOOSE g : IsFold(f, S, g))[S]
BY DEF Sum, SumFunctionOnSet, FoldFunctionOnSet, MapThenFoldSet, IsFold, First

\* The fold exists: function by function, for the subsets of up to n elements.
LEMMA FoldExists ==
  ASSUME NEW f, NEW S, IsFiniteSet(S)
  PROVE  \E g : IsFold(f, S, g)
<1> DEFINE Layer(n) == {s \in SUBSET S : Cardinality(s) <= n}
           Up(n, g) == [s \in Layer(n) |->
                          IF s = {} THEN 0 ELSE f[First(s)] + g[s \ {First(s)}]]
           T == {n \in Nat : \E g : g = Up(n, g)}
<1>1. ASSUME NEW s \in SUBSET S, s # {}, NEW n \in Nat, Cardinality(s) <= n + 1
      PROVE  s \ {First(s)} \in Layer(n)
  <2>1. IsFiniteSet(s) /\ First(s) \in s
    BY <1>1, FS_Subset DEF First
  <2>2. Cardinality(s \ {First(s)}) = Cardinality(s) - 1 /\ Cardinality(s) \in Nat
    BY <2>1, FS_RemoveElement, FS_CardinalityType
  <2>3. QED
    BY <1>1, <2>2
<1>2. 0 \in T
  <2> DEFINE g == [s \in Layer(0) |-> 0]
  <2>1. \A s \in Layer(0) : s = {}
    <3>1. ASSUME NEW s \in SUBSET S, Cardinality(s) <= 0  PROVE s = {}
      BY <3>1, FS_Subset, FS_CardinalityType, FS_EmptySet
    <3>2. QED
      BY <3>1
  <2>2. g = Up(0, g)
    BY <2>1
  <2>3. QED
    BY <2>2
<1>3. ASSUME NEW n \in Nat, n \in T  PROVE n + 1 \in T
  <2>1. PICK g : g = Up(n, g)
    BY <1>3
  <2> DEFINE h == Up(n + 1, g)
  <2>2. \A s \in Layer(n) : s \in Layer(n + 1)
    <3>1. ASSUME NEW s \in SUBSET S  PROVE Cardinality(s) \in Nat
      BY FS_Subset, FS_CardinalityType
    <3>2. QED
      BY <3>1
  <2>3. \A s \in Layer(n) : h[s] = g[s]
    <3>1. TAKE s \in Layer(n)
    <3>2. h[s] = IF s = {} THEN 0 ELSE f[First(s)] + g[s \ {First(s)}]
      BY <2>2
    <3>3. g[s] = Up(n, g)[s]
      BY <2>1
    <3>4. Up(n, g)[s] = IF s = {} THEN 0 ELSE f[First(s)] + g[s \ {First(s)}]
      OBVIOUS
    <3>5. QED
      BY <3>2, <3>3, <3>4
  <2>4. \A s \in Layer(n + 1) : s # {} => h[s \ {First(s)}] = g[s \ {First(s)}]
    <3> HIDE DEF h
    <3>1. QED
      BY <1>1, <2>3
  <2>5. h = Up(n + 1, h)
    <3>1. \A s \in Layer(n + 1) :
            h[s] = IF s = {} THEN 0 ELSE f[First(s)] + h[s \ {First(s)}]
      BY <2>4
    <3>2. h = [s \in Layer(n + 1) |-> h[s]]
      OBVIOUS
    <3> HIDE DEF h
    <3>3. QED
      BY <3>1, <3>2
  <2>6. \E k : k = Up(n + 1, k)
    <3> HIDE DEF h, Up
    <3>1. QED
      BY <2>5
  <2>7. n + 1 \in Nat
    OBVIOUS
  <2> HIDE DEF Up
  <2>8. QED
    BY <2>6, <2>7
<1>4. Cardinality(S) \in T
  <2>1. \A n \in Nat : n \in T
    <3> HIDE DEF T
    <3>1. QED
      BY <1>2, <1>3, NaturalInduction
  <2>2. QED
    BY <2>1, FS_CardinalityType
<1>5. Layer(Cardinality(S)) = SUBSET S
  <2>1. ASSUME NEW s \in SUBSET S  PROVE Cardinality(s) <= Cardinality(S)
    BY FS_Subset
  <2>2. QED
    BY <2>1
<1>6. PICK g : g = Up(Cardinality(S), g)
  BY <1>4
<1>7. IsFold(f, S, g)
  BY <1>5, <1>6 DEF IsFold
<1>8. QED
  BY <1>7

\* A fold over a set is the fold over each of its subsets as well.
LEMMA FoldsAgree ==
  ASSUME NEW f, NEW S, NEW U, IsFiniteSet(U), U \subseteq S,
         NEW g, IsFold(f, S, g), NEW h, IsFold(f, U, h)
  PROVE  g[U] = h[U]
<1> DEFINE T == {n \in Nat : \A s \in SUBSET U : Cardinality(s) = n => g[s] = h[s]}
<1>1. /\ \A s \in SUBSET S : g[s] = IF s = {} THEN 0 ELSE f[First(s)] + g[s \ {First(s)}]
      /\ \A s \in SUBSET U : h[s] = IF s = {} THEN 0 ELSE f[First(s)] + h[s \ {First(s)}]
  <2>1. ASSUME NEW V, NEW k, IsFold(f, V, k), NEW s \in SUBSET V
        PROVE  k[s] = IF s = {} THEN 0 ELSE f[First(s)] + k[s \ {First(s)}]
    <3> DEFINE F(t) == IF t = {} THEN 0 ELSE f[First(t)] + k[t \ {First(t)}]
    <3>1. k = [t \in SUBSET V |-> F(t)]
      BY <2>1 DEF IsFold
    <3> HIDE DEF F
    <3>2. k[s] = F(s)
      BY <3>1
    <3>3. QED
      BY <3>2 DEF F
  <2>2. \A s \in SUBSET S : g[s] = IF s = {} THEN 0 ELSE f[First(s)] + g[s \ {First(s)}]
    BY <2>1
  <2>3. \A s \in SUBSET U : h[s] = IF s = {} THEN 0 ELSE f[First(s)] + h[s \ {First(s)}]
    BY <2>1
  <2>4. QED
    BY <2>2, <2>3
<1>2. 0 \in T
  <2>1. ASSUME NEW s \in SUBSET U, Cardinality(s) = 0  PROVE g[s] = h[s]
    <3>1. s = {}
      BY <2>1, FS_Subset, FS_EmptySet
    <3>2. QED
      BY <1>1, <3>1
  <2>2. QED
    BY <2>1
<1>3. ASSUME NEW n \in Nat, n \in T  PROVE n + 1 \in T
  <2>1. \A s \in SUBSET U : Cardinality(s) = n => g[s] = h[s]
    BY <1>3
  <2>2. SUFFICES ASSUME NEW s \in SUBSET U, Cardinality(s) = n + 1  PROVE g[s] = h[s]
    OBVIOUS
  <2> HIDE DEF T
  <2>3. s # {}
    <3>1. Cardinality(s) # 0
      BY <2>2
    <3>2. QED
      BY <3>1, FS_EmptySet
  <2>4. First(s) \in s
    BY <2>3 DEF First
  <2>5. Cardinality(s \ {First(s)}) = n
    <3>1. Cardinality(s \ {First(s)}) = Cardinality(s) - 1
      BY <2>4, FS_RemoveElement, FS_Subset
    <3>2. QED
      BY <2>2, <3>1
  <2>6. g[s \ {First(s)}] = h[s \ {First(s)}]
    BY <2>1, <2>5
  <2>7. QED
    BY <1>1, <2>3, <2>6
<1>4. \A n \in Nat : n \in T
  <2> HIDE DEF T
  <2>1. QED
    BY <1>2, <1>3, NaturalInduction
<1>5. QED
  BY <1>4, FS_CardinalityType

\* The equation of the sum: it is that of the fold.
LEMMA SumUnfold ==
  ASSUME NEW f, NEW S, IsFiniteSet(S)
  PROVE  Sum(f, S) = IF S = {} THEN 0 ELSE f[First(S)] + Sum(f, S \ {First(S)})
<1> DEFINE g == CHOOSE k : IsFold(f, S, k)
           U == S \ {First(S)}
           h == CHOOSE k : IsFold(f, U, k)
<1>1. IsFiniteSet(U)
  BY FS_RemoveElement
<1>2. IsFold(f, S, g) /\ IsFold(f, U, h)
  BY <1>1, FoldExists
<1>3. Sum(f, S) = g[S] /\ Sum(f, U) = h[U]
  BY SumIsFold
<1>4. g[S] = IF S = {} THEN 0 ELSE f[First(S)] + g[U]
  <2> DEFINE F(t) == IF t = {} THEN 0 ELSE f[First(t)] + g[t \ {First(t)}]
  <2>1. g = [t \in SUBSET S |-> F(t)]
    <3> HIDE DEF g
    <3>1. QED
      BY <1>2 DEF IsFold
  <2> HIDE DEF F, g
  <2>2. g[S] = F(S)
    BY <2>1
  <2>3. QED
    BY <2>2 DEF F
<1> HIDE DEF g, h
<1>5. g[U] = h[U]
  BY <1>1, <1>2, FoldsAgree
<1>6. QED
  BY <1>3, <1>4, <1>5

LEMMA SumEmpty == \A f : Sum(f, {}) = 0
BY SumUnfold, FS_EmptySet

LEMMA SumType ==
  ASSUME NEW S, IsFiniteSet(S), NEW f, \A x \in S : f[x] \in Nat
  PROVE  Sum(f, S) \in Nat
<1> DEFINE C == {s \in SUBSET S : Sum(f, s) \in Nat}
<1>1. {} \in C
  BY SumEmpty
<1>2. ASSUME NEW s \in SUBSET S, s # {}, \A x \in s : s \ {x} \in C  PROVE s \in C
  <2>1. First(s) \in s /\ IsFiniteSet(s)
    BY <1>2, FS_Subset DEF First
  <2>2. Sum(f, s) = f[First(s)] + Sum(f, s \ {First(s)})
    BY <1>2, <2>1, SumUnfold
  <2>3. f[First(s)] \in Nat /\ Sum(f, s \ {First(s)}) \in Nat
    BY <1>2, <2>1
  <2>4. QED
    BY <2>2, <2>3
<1>3. \A s \in SUBSET S : s \in C
  <2> HIDE DEF C
  <2>1. QED
    BY <1>1, <1>2, SetInduction
<1>4. QED
  BY <1>3

\* Sums of equal summands are equal.
LEMMA SumSame ==
  ASSUME NEW S, IsFiniteSet(S), NEW f, NEW g, \A x \in S : f[x] = g[x]
  PROVE  Sum(f, S) = Sum(g, S)
<1> DEFINE C == {s \in SUBSET S : Sum(f, s) = Sum(g, s)}
<1>1. {} \in C
  BY SumEmpty
<1>2. ASSUME NEW s \in SUBSET S, s # {}, \A x \in s : s \ {x} \in C  PROVE s \in C
  <2>1. First(s) \in s /\ IsFiniteSet(s)
    BY <1>2, FS_Subset DEF First
  <2>2. /\ Sum(f, s) = f[First(s)] + Sum(f, s \ {First(s)})
        /\ Sum(g, s) = g[First(s)] + Sum(g, s \ {First(s)})
    BY <1>2, <2>1, SumUnfold
  <2>3. f[First(s)] = g[First(s)] /\ Sum(f, s \ {First(s)}) = Sum(g, s \ {First(s)})
    BY <1>2, <2>1
  <2>4. QED
    BY <2>2, <2>3
<1>3. \A s \in SUBSET S : s \in C
  <2> HIDE DEF C
  <2>1. QED
    BY <1>1, <1>2, SetInduction
<1>4. QED
  BY <1>3

\* Any element may be taken first.
LEMMA SumSplit ==
  ASSUME NEW S, IsFiniteSet(S), NEW f, \A x \in S : f[x] \in Nat, NEW x \in S
  PROVE  Sum(f, S) = f[x] + Sum(f, S \ {x})
<1> DEFINE C == {s \in SUBSET S : \A y \in s : Sum(f, s) = f[y] + Sum(f, s \ {y})}
<1>1. {} \in C
  OBVIOUS
<1>2. ASSUME NEW s \in SUBSET S, s # {}, \A y \in s : s \ {y} \in C  PROVE s \in C
  <2> DEFINE p == First(s)
  <2>1. p \in s /\ IsFiniteSet(s)
    BY <1>2, FS_Subset DEF First
  <2>2. Sum(f, s) = f[p] + Sum(f, s \ {p})
    BY <1>2, <2>1, SumUnfold
  <2>3. SUFFICES ASSUME NEW y \in s, y # p  PROVE Sum(f, s) = f[y] + Sum(f, s \ {y})
    BY <2>2
  <2> HIDE DEF p
  <2>4. Sum(f, s \ {p}) = f[y] + Sum(f, (s \ {p}) \ {y})
    BY <1>2, <2>1, <2>3
  <2>5. Sum(f, s \ {y}) = f[p] + Sum(f, (s \ {y}) \ {p})
    BY <1>2, <2>1, <2>3
  <2>6. (s \ {p}) \ {y} = (s \ {y}) \ {p}
    OBVIOUS
  <2> DEFINE rest == Sum(f, (s \ {p}) \ {y})
  <2>7. rest \in Nat /\ f[p] \in Nat /\ f[y] \in Nat
    BY <2>1, SumType, FS_Subset
  <2>8. Sum(f, s) = f[p] + (f[y] + rest) /\ Sum(f, s \ {y}) = f[p] + rest
    BY <2>2, <2>4, <2>5, <2>6
  <2> HIDE DEF rest
  <2>9. QED
    BY <2>7, <2>8
<1>3. \A s \in SUBSET S : s \in C
  <2> HIDE DEF C
  <2>1. QED
    BY <1>1, <1>2, SetInduction
<1>4. QED
  BY <1>3

LEMMA SumAdd ==
  ASSUME NEW S, IsFiniteSet(S), NEW x, x \notin S,
         NEW f, f[x] \in Nat, \A y \in S : f[y] \in Nat
  PROVE  Sum(f, S \cup {x}) = f[x] + Sum(f, S)
<1>1. IsFiniteSet(S \cup {x}) /\ \A y \in S \cup {x} : f[y] \in Nat
  BY FS_AddElement
<1>2. (S \cup {x}) \ {x} = S
  OBVIOUS
<1>3. QED
  BY <1>1, <1>2, SumSplit

\* One summand changes.
LEMMA SumChange ==
  ASSUME NEW S, IsFiniteSet(S), NEW x \in S,
         NEW f, \A y \in S : f[y] \in Nat,
         NEW g, g[x] \in Nat, \A y \in S \ {x} : g[y] = f[y]
  PROVE  Sum(g, S) + f[x] = Sum(f, S) + g[x]
<1>1. IsFiniteSet(S \ {x})
  BY FS_RemoveElement
<1>2. Sum(f, S \ {x}) = Sum(g, S \ {x}) /\ Sum(f, S \ {x}) \in Nat
  BY <1>1, SumSame, SumType
<1>3. Sum(f, S) = f[x] + Sum(f, S \ {x})
  BY SumSplit
<1>4. Sum(g, S) = g[x] + Sum(g, S \ {x})
  <2>1. \A y \in S : g[y] \in Nat
    OBVIOUS
  <2>2. QED
    BY <2>1, SumSplit
<1>5. QED
  BY <1>2, <1>3, <1>4

\* Larger summands, larger sum.
LEMMA SumAtMost ==
  ASSUME NEW S, IsFiniteSet(S), NEW f, NEW g,
         \A x \in S : f[x] \in Nat /\ g[x] \in Nat /\ f[x] <= g[x]
  PROVE  Sum(f, S) <= Sum(g, S)
<1> DEFINE C == {s \in SUBSET S : Sum(f, s) <= Sum(g, s)}
<1>1. {} \in C
  BY SumEmpty
<1>2. ASSUME NEW s \in SUBSET S, s # {}, \A x \in s : s \ {x} \in C  PROVE s \in C
  <2>1. PICK x \in s : TRUE
    BY <1>2
  <2>2. IsFiniteSet(s) /\ IsFiniteSet(s \ {x})
    BY FS_Subset, FS_RemoveElement
  <2>3. Sum(f, s \ {x}) <= Sum(g, s \ {x})
    BY <1>2
  <2>4. Sum(f, s) = f[x] + Sum(f, s \ {x})
    BY <2>2, SumSplit
  <2>5. Sum(g, s) = g[x] + Sum(g, s \ {x})
    BY <2>2, SumSplit
  <2>6. Sum(f, s \ {x}) \in Nat /\ Sum(g, s \ {x}) \in Nat
    BY <2>2, SumType
  <2>7. Sum(f, s) <= Sum(g, s)
    BY <2>3, <2>4, <2>5, <2>6
  <2>8. QED
    BY <2>7
<1>3. \A s \in SUBSET S : s \in C
  <2> HIDE DEF C
  <2>1. QED
    BY <1>1, <1>2, SetInduction
<1>4. QED
  BY <1>3

\* A sum of bounded summands.
LEMMA SumBound ==
  ASSUME NEW S, IsFiniteSet(S), NEW bound \in Nat, NEW f,
         \A x \in S : f[x] \in Nat /\ f[x] <= bound
  PROVE  Sum(f, S) <= Cardinality(S) * bound
<1> DEFINE C == {s \in SUBSET S : Sum(f, s) <= Cardinality(s) * bound}
<1>1. {} \in C
  BY SumEmpty, FS_EmptySet
<1>2. ASSUME NEW s \in SUBSET S, s # {}, \A x \in s : s \ {x} \in C  PROVE s \in C
  <2>1. PICK x \in s : TRUE
    BY <1>2
  <2>2. /\ IsFiniteSet(s) /\ IsFiniteSet(s \ {x}) /\ Cardinality(s) \in Nat
        /\ Cardinality(s \ {x}) = Cardinality(s) - 1 /\ Cardinality(s \ {x}) \in Nat
    BY FS_Subset, FS_RemoveElement, FS_CardinalityType
  <2>3. Sum(f, s \ {x}) <= Cardinality(s \ {x}) * bound
    BY <1>2
  <2>4. Sum(f, s) = f[x] + Sum(f, s \ {x})
    BY <2>2, SumSplit
  <2>5. Sum(f, s \ {x}) \in Nat
    BY <2>2, SumType
  <2> DEFINE n == Cardinality(s \ {x})
  <2>6. Cardinality(s) * bound = n * bound + bound /\ n * bound \in Nat
    <3>1. \A k \in Nat : (k + 1) * bound = k * bound + bound /\ k * bound \in Nat
      OBVIOUS
    <3>2. Cardinality(s) = n + 1 /\ n \in Nat
      BY <2>2
    <3> HIDE DEF n
    <3>3. QED
      BY <3>1, <3>2
  <2>7. Sum(f, s) <= Cardinality(s) * bound
    BY <2>3, <2>4, <2>5, <2>6
  <2>8. QED
    BY <2>7
<1>3. \A s \in SUBSET S : s \in C
  <2> HIDE DEF C
  <2>1. QED
    BY <1>1, <1>2, SetInduction
<1>4. QED
  BY <1>3
=============================================================================
