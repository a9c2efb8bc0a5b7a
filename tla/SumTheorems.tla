---------------------------- MODULE SumTheorems ----------------------------
(***************************************************************************)
(* Facts about SumFunctionOnSet, for the proofs about the books: sums of    *)
(* amounts over finite sets of rows.                                       *)
(*                                                                         *)
(* The induction is over sets, not over formulas: a set of subsets of S    *)
(* that is not empty has a minimal member, because the strict subset order *)
(* of a finite set is well founded (FiniteSetTheorems, WFMin).             *)
(***************************************************************************)
EXTENDS Integers, FiniteSetsExt, Functions, FiniteSetTheorems, WellFoundedInduction, TLAPS

(* A nonempty set of subsets of a finite set has a minimal member.          *)
LEMMA MinimalSubset ==
  ASSUME NEW S, IsFiniteSet(S), NEW Bad \in SUBSET (SUBSET S), Bad # {}
  PROVE  \E U \in Bad : \A V \in Bad : V \subseteq U => V = U
<1> DEFINE R == StrictSubsetOrdering(S)
<1>1. IsWellFoundedOn(R, FiniteSubsetsOf(S))
  BY FS_StrictSubsetOrderingWellFounded, Zenon
<1>2. FiniteSubsetsOf(S) = SUBSET S
  BY FS_FiniteSubsetsOfFinite, Zenon
<1>3. IsWellFoundedOn(R, SUBSET S)
  BY <1>1, <1>2
<1> HIDE DEF R
<1>4. \E U \in Bad : \A V \in Bad : ~(<<V, U>> \in R)
  BY <1>3, WFMin
<1>5. PICK U \in Bad : \A V \in Bad : ~(<<V, U>> \in R)
  BY <1>4, Zenon
<1>6. ASSUME NEW V \in Bad, V \subseteq U, V # U
      PROVE  FALSE
  <2>1. <<V, U>> \in (SUBSET S) \X (SUBSET S) /\ <<V, U>>[1] = V /\ <<V, U>>[2] = U
    BY <1>5, <1>6
  <2>2. <<V, U>> \in R
    BY <2>1, <1>6 DEF R, StrictSubsetOrdering
  <2> QED
    BY <1>5, <1>6, <2>2
<1> QED
  BY <1>5, <1>6, Zenon

(* What holds of the empty set, and of a set with one element more, holds   *)
(* of a finite set: Good is the set of subsets it holds of.                 *)
LEMMA SubsetInduction ==
  ASSUME NEW S, IsFiniteSet(S), NEW Good \in SUBSET (SUBSET S), {} \in Good,
         \A U \in Good : \A x \in S \ U : U \cup {x} \in Good
  PROVE  S \in Good
<1> SUFFICES ASSUME S \notin Good
             PROVE  FALSE
  OBVIOUS
<1> DEFINE Bad == (SUBSET S) \ Good
<1>1. Bad \in SUBSET (SUBSET S) /\ Bad # {}
  OBVIOUS
<1> HIDE DEF Bad
<1>2. \E U \in Bad : \A V \in Bad : V \subseteq U => V = U
  BY <1>1, MinimalSubset
<1> USE DEF Bad
<1>3. PICK U \in Bad : \A V \in Bad : V \subseteq U => V = U
  BY <1>2, Zenon
<1>4. PICK x \in U : TRUE
  BY <1>3
<1>5. U \ {x} \in Good /\ x \in S \ (U \ {x})
  BY <1>3, <1>4
<1>6. (U \ {x}) \cup {x} = U
  BY <1>4
<1> QED
  BY <1>3, <1>5, <1>6

----------------------------------------------------------------------------
(* The recursion behind a sum.  Unfolds(g, f, D): g is a solution of it on  *)
(* the sets of D.                                                          *)

Picked(s) == CHOOSE x \in s : TRUE
OneStep(g, f, s) == IF s = {} THEN 0 ELSE f[Picked(s)] + g[s \ {Picked(s)}]
Unfolds(g, f, D) == g = [s \in D |-> OneStep(g, f, s)]
AtMost(S, n) == {s \in SUBSET S : Cardinality(s) <= n}

LEMMA PickedIsIn == ASSUME NEW s, s # {} PROVE Picked(s) \in s
BY Zenon DEF Picked

LEMMA SumIsFold ==
  ASSUME NEW f, NEW S
  PROVE  SumFunctionOnSet(f, S) = (CHOOSE g : Unfolds(g, f, SUBSET S))[S]
BY Zenon DEF SumFunctionOnSet, FoldFunctionOnSet, MapThenFoldSet, Unfolds, OneStep, Picked

(* The recursion has a solution: one on the sets of at most n elements gives *)
(* one on those of at most n + 1.                                           *)
LEMMA FoldExists ==
  ASSUME NEW f, NEW S, IsFiniteSet(S)
  PROVE  \E g : Unfolds(g, f, SUBSET S)
<1> DEFINE Good == {U \in SUBSET S : \E g : Unfolds(g, f, AtMost(S, Cardinality(U)))}
<1>1. \A s \in SUBSET S : IsFiniteSet(s) /\ Cardinality(s) \in Nat
  BY FS_Subset, FS_CardinalityType
<1>2. {} \in Good
  <2>1. AtMost(S, Cardinality({})) = {{}}
    BY <1>1, FS_EmptySet DEF AtMost
  <2>2. Unfolds([s \in {{}} |-> 0], f, {{}})
    BY Zenon DEF Unfolds, OneStep
  <2> QED
    BY <2>1, <2>2
<1>3. ASSUME NEW U \in Good, NEW x \in S \ U
      PROVE  U \cup {x} \in Good
  <2> DEFINE n == Cardinality(U)
             h == [s \in AtMost(S, n + 1) |-> OneStep(CHOOSE g : Unfolds(g, f, AtMost(S, n)), f, s)]
  <2>1. Cardinality(U \cup {x}) = n + 1 /\ n \in Nat
    BY <1>1, <1>3, FS_AddElement
  <2>2. PICK g : g = (CHOOSE k : Unfolds(k, f, AtMost(S, n))) /\ Unfolds(g, f, AtMost(S, n))
    BY <1>3, Zenon
  <2>3. ASSUME NEW s \in AtMost(S, n + 1), s # {}
        PROVE  s \ {Picked(s)} \in AtMost(S, n)
    <3>1. Cardinality(s \ {Picked(s)}) = Cardinality(s) - 1
      BY <1>1, <2>3, PickedIsIn, FS_RemoveElement DEF AtMost
    <3> QED
      BY <1>1, <2>1, <3>1 DEF AtMost
  <2> HIDE DEF n
  <2>4. \A s \in AtMost(S, n) : g[s] = OneStep(g, f, s)
    BY <2>2, Zenon DEF Unfolds
  <2>5. \A s \in AtMost(S, n) : s \in AtMost(S, n + 1)
    BY <1>1, <2>1 DEF AtMost
  <2>6. \A s \in AtMost(S, n) : h[s] = g[s]
    BY <2>2, <2>4, <2>5
  <2>7. h = [s \in AtMost(S, n + 1) |-> OneStep(g, f, s)]
    BY <2>2, Zenon
  <2>8. ASSUME NEW s \in AtMost(S, n + 1)
        PROVE  OneStep(g, f, s) = OneStep(h, f, s)
    BY <2>3, <2>6, Zenon DEF OneStep
  <2>9. Unfolds(h, f, AtMost(S, n + 1))
    BY <2>7, <2>8, Zenon DEF Unfolds
  <2> QED
    BY <2>1, <2>9
<1>4. Good \in SUBSET (SUBSET S)
  OBVIOUS
<1> HIDE DEF Good
<1>5. S \in Good
  BY <1>2, <1>3, <1>4, SubsetInduction
<1>6. AtMost(S, Cardinality(S)) = SUBSET S
  BY <1>1, FS_Subset DEF AtMost
<1> QED
  BY <1>5, <1>6 DEF Good

(* Two solutions agree on a set if their functions do.                      *)
LEMMA FoldsAgree ==
  ASSUME NEW f, NEW h, NEW S, IsFiniteSet(S), NEW T \in SUBSET S, NEW g, NEW k,
         Unfolds(g, f, SUBSET S), Unfolds(k, h, SUBSET T), \A x \in T : f[x] = h[x]
  PROVE  g[T] = k[T]
<1> SUFFICES ASSUME g[T] # k[T]
             PROVE  FALSE
  OBVIOUS
<1> DEFINE Bad == {U \in SUBSET T : g[U] # k[U]}
<1>1. Bad \in SUBSET (SUBSET T) /\ Bad # {} /\ IsFiniteSet(T)
  BY FS_Subset
<1> HIDE DEF Bad
<1>2. \E U \in Bad : \A V \in Bad : V \subseteq U => V = U
  BY <1>1, MinimalSubset
<1> USE DEF Bad
<1>3. PICK U \in Bad : \A V \in Bad : V \subseteq U => V = U
  BY <1>2, Zenon
<1>4. g[U] = OneStep(g, f, U) /\ k[U] = OneStep(k, h, U)
  BY Zenon DEF Unfolds
<1>5. CASE U = {}
  BY <1>4, <1>5 DEF OneStep
<1>6. CASE U # {}
  <2>1. Picked(U) \in U
    BY <1>6, PickedIsIn
  <2>2. g[U \ {Picked(U)}] = k[U \ {Picked(U)}]
    BY <1>3, <2>1
  <2> QED
    BY <1>4, <1>6, <2>1, <2>2 DEF OneStep
<1> QED
  BY <1>5, <1>6

(* A sum is its recursion.                                                  *)
LEMMA SumUnfolds ==
  ASSUME NEW f, NEW S, IsFiniteSet(S)
  PROVE  SumFunctionOnSet(f, S) =
           IF S = {} THEN 0 ELSE f[Picked(S)] + SumFunctionOnSet(f, S \ {Picked(S)})
<1> DEFINE g(T) == CHOOSE h : Unfolds(h, f, SUBSET T)
<1>1. ASSUME NEW T \in SUBSET S
      PROVE  Unfolds(g(T), f, SUBSET T) /\ SumFunctionOnSet(f, T) = g(T)[T]
  <2>1. \E h : Unfolds(h, f, SUBSET T)
    BY FS_Subset, FoldExists
  <2> QED
    BY <2>1, SumIsFold, Zenon
<1> HIDE DEF g
<1>2. ASSUME NEW T \in SUBSET S
      PROVE  g(S)[T] = g(T)[T]
  <2>1. Unfolds(g(S), f, SUBSET S) /\ Unfolds(g(T), f, SUBSET T)
    BY <1>1
  <2> QED
    BY <2>1, FoldsAgree, Z3
<1>3. g(S)[S] = OneStep(g(S), f, S)
  BY <1>1, Zenon DEF Unfolds
<1> QED
  BY <1>1, <1>2, <1>3 DEF OneStep

----------------------------------------------------------------------------
(* What the proofs about the books cite.                                    *)

(* Only the values on the set count.                                        *)
LEMMA SumCongruence ==
  ASSUME NEW f, NEW h, NEW S, IsFiniteSet(S), \A x \in S : f[x] = h[x]
  PROVE  SumFunctionOnSet(f, S) = SumFunctionOnSet(h, S)
<1>1. \E g : Unfolds(g, f, SUBSET S)
  BY FoldExists
<1>2. \E g : Unfolds(g, h, SUBSET S)
  BY FoldExists
<1> DEFINE g == CHOOSE k : Unfolds(k, f, SUBSET S)
           k == CHOOSE j : Unfolds(j, h, SUBSET S)
<1>3. Unfolds(g, f, SUBSET S) /\ Unfolds(k, h, SUBSET S)
  BY <1>1, <1>2, Zenon
<1>4. SumFunctionOnSet(f, S) = g[S] /\ SumFunctionOnSet(h, S) = k[S]
  BY SumIsFold, Zenon
<1> HIDE DEF g, k
<1>5. g[S] = k[S]
  BY <1>3, FoldsAgree
<1> QED
  BY <1>4, <1>5

LEMMA SumEmpty == ASSUME NEW f PROVE SumFunctionOnSet(f, {}) = 0
BY SumUnfolds, FS_EmptySet

(* Integers add up to an integer, and naturals to a natural.                *)
LEMMA SumType ==
  ASSUME NEW f, NEW S, IsFiniteSet(S), NEW Values \in {Nat, Int}, \A x \in S : f[x] \in Values
  PROVE  SumFunctionOnSet(f, S) \in Values
<1> DEFINE Bad == {U \in SUBSET S : SumFunctionOnSet(f, U) \notin Values}
<1> SUFFICES ASSUME Bad # {}
             PROVE  FALSE
  OBVIOUS
<1>1. Bad \in SUBSET (SUBSET S)
  OBVIOUS
<1> HIDE DEF Bad
<1>2. \E U \in Bad : \A V \in Bad : V \subseteq U => V = U
  BY <1>1, MinimalSubset
<1> USE DEF Bad
<1>3. PICK U \in Bad : \A V \in Bad : V \subseteq U => V = U
  BY <1>2, Zenon
<1>4. SumFunctionOnSet(f, U) =
        IF U = {} THEN 0 ELSE f[Picked(U)] + SumFunctionOnSet(f, U \ {Picked(U)})
  BY FS_Subset, SumUnfolds
<1>5. U # {}
  BY <1>3, <1>4
<1>6. Picked(U) \in U
  BY <1>5, PickedIsIn
<1>7. f[Picked(U)] \in Values /\ SumFunctionOnSet(f, U \ {Picked(U)}) \in Values
  BY <1>3, <1>6
<1>8. f[Picked(U)] + SumFunctionOnSet(f, U \ {Picked(U)}) \in Values
  BY <1>7
<1> QED
  BY <1>3, <1>4, <1>5, <1>8

(* Any element may be taken out first.                                      *)
LEMMA SumTakeOut ==
  ASSUME NEW f, NEW S, IsFiniteSet(S), \A x \in S : f[x] \in Int, NEW x \in S
  PROVE  SumFunctionOnSet(f, S) = f[x] + SumFunctionOnSet(f, S \ {x})
<1> DEFINE TakesOut(U) ==
             \A y \in U : SumFunctionOnSet(f, U) = f[y] + SumFunctionOnSet(f, U \ {y})
           Bad == {U \in SUBSET S : ~TakesOut(U)}
<1>1. Bad \in SUBSET (SUBSET S)
  OBVIOUS
<1>2. SUFFICES ASSUME Bad # {}
               PROVE  FALSE
  OBVIOUS
<1> HIDE DEF Bad
<1>3. \E U \in Bad : \A V \in Bad : V \subseteq U => V = U
  BY <1>1, <1>2, MinimalSubset
<1> USE DEF Bad
<1>4. PICK U \in Bad : \A V \in Bad : V \subseteq U => V = U
  BY <1>3, Zenon
<1>5. PICK y \in U : SumFunctionOnSet(f, U) # f[y] + SumFunctionOnSet(f, U \ {y})
  BY <1>4
<1> DEFINE z == Picked(U)
<1>6. z \in U
  BY <1>5, PickedIsIn
<1>7. IsFiniteSet(U)
  BY FS_Subset
<1>8. SumFunctionOnSet(f, U) = f[z] + SumFunctionOnSet(f, U \ {z})
  BY <1>5, <1>7, SumUnfolds
<1> HIDE DEF z
<1>9. TakesOut(U \ {z}) /\ TakesOut(U \ {y})
  BY <1>4, <1>5, <1>6
<1>10. z # y
  BY <1>5, <1>8
<1>11. SumFunctionOnSet(f, U \ {z}) = f[y] + SumFunctionOnSet(f, (U \ {z}) \ {y})
  BY <1>5, <1>9, <1>10
<1>12. SumFunctionOnSet(f, U \ {y}) = f[z] + SumFunctionOnSet(f, (U \ {y}) \ {z})
  BY <1>6, <1>9, <1>10
<1>13. (U \ {y}) \ {z} = (U \ {z}) \ {y}
  OBVIOUS
<1>14. f[y] \in Int /\ f[z] \in Int
  BY <1>5, <1>6
<1>15. SumFunctionOnSet(f, (U \ {z}) \ {y}) \in Int
  <2>1. IsFiniteSet((U \ {z}) \ {y})
    BY <1>7, FS_Subset
  <2> QED
    BY <2>1, SumType
<1>16. f[z] + (f[y] + SumFunctionOnSet(f, (U \ {z}) \ {y}))
        = f[y] + (f[z] + SumFunctionOnSet(f, (U \ {z}) \ {y}))
  BY <1>14, <1>15
<1> QED
  BY <1>5, <1>8, <1>11, <1>12, <1>13, <1>16, Zenon

(* One element more.                                                        *)
LEMMA SumAdd ==
  ASSUME NEW f, NEW S, IsFiniteSet(S), NEW x, x \notin S, \A y \in S \cup {x} : f[y] \in Int
  PROVE  SumFunctionOnSet(f, S \cup {x}) = f[x] + SumFunctionOnSet(f, S)
<1>1. IsFiniteSet(S \cup {x}) /\ (S \cup {x}) \ {x} = S
  BY FS_AddElement
<1> QED
  BY <1>1, SumTakeOut

(* One value changes.                                                       *)
LEMMA SumChange ==
  ASSUME NEW f, NEW h, NEW S, IsFiniteSet(S), NEW x \in S,
         \A y \in S : f[y] \in Int /\ h[y] \in Int,
         \A y \in S \ {x} : h[y] = f[y]
  PROVE  SumFunctionOnSet(h, S) = SumFunctionOnSet(f, S) + h[x] - f[x]
<1>1. SumFunctionOnSet(f, S) = f[x] + SumFunctionOnSet(f, S \ {x})
  BY SumTakeOut
<1>2. SumFunctionOnSet(h, S) = h[x] + SumFunctionOnSet(h, S \ {x})
  BY SumTakeOut
<1>3. IsFiniteSet(S \ {x})
  BY FS_Subset
<1>4. SumFunctionOnSet(h, S \ {x}) = SumFunctionOnSet(f, S \ {x})
  BY <1>3, SumCongruence
<1>5. SumFunctionOnSet(f, S \ {x}) \in Int /\ f[x] \in Int /\ h[x] \in Int
  BY <1>3, SumType
<1> QED
  BY <1>1, <1>2, <1>4, <1>5

(* The sum of a function that adds up two others.                           *)
LEMMA SumOfSums ==
  ASSUME NEW f, NEW h, NEW k, NEW S, IsFiniteSet(S),
         \A x \in S : f[x] \in Int /\ h[x] \in Int /\ k[x] = f[x] + h[x]
  PROVE  SumFunctionOnSet(k, S) = SumFunctionOnSet(f, S) + SumFunctionOnSet(h, S)
<1> DEFINE Good == {U \in SUBSET S : SumFunctionOnSet(k, U)
                                       = SumFunctionOnSet(f, U) + SumFunctionOnSet(h, U)}
<1>1. {} \in Good /\ Good \in SUBSET (SUBSET S)
  BY SumEmpty
<1>2. ASSUME NEW U \in Good, NEW x \in S \ U
      PROVE  U \cup {x} \in Good
  <2>1. IsFiniteSet(U)
    BY FS_Subset
  <2>2. \A y \in U \cup {x} : f[y] \in Int /\ h[y] \in Int /\ k[y] \in Int
    OBVIOUS
  <2>3. /\ SumFunctionOnSet(f, U \cup {x}) = f[x] + SumFunctionOnSet(f, U)
        /\ SumFunctionOnSet(h, U \cup {x}) = h[x] + SumFunctionOnSet(h, U)
        /\ SumFunctionOnSet(k, U \cup {x}) = k[x] + SumFunctionOnSet(k, U)
    BY <2>1, <2>2, SumAdd
  <2>4. SumFunctionOnSet(f, U) \in Int /\ SumFunctionOnSet(h, U) \in Int
    BY <2>1, <2>2, SumType
  <2>5. SumFunctionOnSet(k, U) = SumFunctionOnSet(f, U) + SumFunctionOnSet(h, U)
    OBVIOUS
  <2>6. f[x] \in Int /\ h[x] \in Int /\ k[x] = f[x] + h[x]
    OBVIOUS
  <2>7. SumFunctionOnSet(k, U \cup {x})
          = SumFunctionOnSet(f, U \cup {x}) + SumFunctionOnSet(h, U \cup {x})
    <3> HIDE DEF Good
    <3> QED
      BY <2>3, <2>4, <2>5, <2>6
  <2> QED
    BY <2>7
<1> HIDE DEF Good
<1>3. S \in Good
  BY <1>1, <1>2, SubsetInduction
<1> QED
  BY <1>3 DEF Good

(* Two disjoint sets.                                                       *)
LEMMA SumUnion ==
  ASSUME NEW f, NEW S, IsFiniteSet(S), NEW T, IsFiniteSet(T), S \cap T = {},
         \A x \in S \cup T : f[x] \in Int
  PROVE  SumFunctionOnSet(f, S \cup T) = SumFunctionOnSet(f, S) + SumFunctionOnSet(f, T)
<1> DEFINE Good == {U \in SUBSET T : SumFunctionOnSet(f, S \cup U)
                                       = SumFunctionOnSet(f, S) + SumFunctionOnSet(f, U)}
<1>1. SumFunctionOnSet(f, S) \in Int
  BY SumType
<1>2. {} \in Good /\ Good \in SUBSET (SUBSET T)
  <2>1. S \cup {} = S
    OBVIOUS
  <2> QED
    BY <1>1, <2>1, SumEmpty
<1>3. ASSUME NEW U \in Good, NEW x \in T \ U
      PROVE  U \cup {x} \in Good
  <2>1. IsFiniteSet(U) /\ IsFiniteSet(S \cup U) /\ x \notin S \cup U
    BY FS_Subset, FS_Union
  <2>2. \A y \in (S \cup U) \cup {x} : f[y] \in Int
    OBVIOUS
  <2>3. /\ SumFunctionOnSet(f, U \cup {x}) = f[x] + SumFunctionOnSet(f, U)
        /\ SumFunctionOnSet(f, (S \cup U) \cup {x}) = f[x] + SumFunctionOnSet(f, S \cup U)
    BY <2>1, <2>2, SumAdd
  <2>4. SumFunctionOnSet(f, U) \in Int /\ f[x] \in Int
    BY <2>1, <2>2, SumType
  <2>5. SumFunctionOnSet(f, S \cup U) = SumFunctionOnSet(f, S) + SumFunctionOnSet(f, U)
    OBVIOUS
  <2>6. S \cup (U \cup {x}) = (S \cup U) \cup {x}
    OBVIOUS
  <2>7. SumFunctionOnSet(f, S \cup (U \cup {x}))
          = SumFunctionOnSet(f, S) + SumFunctionOnSet(f, U \cup {x})
    <3>1. SumFunctionOnSet(f, S \cup (U \cup {x})) = f[x] + SumFunctionOnSet(f, S \cup U)
      BY <2>3, <2>6, Zenon
    <3>2. f[x] + (SumFunctionOnSet(f, S) + SumFunctionOnSet(f, U))
            = SumFunctionOnSet(f, S) + (f[x] + SumFunctionOnSet(f, U))
      BY <1>1, <2>4
    <3> QED
      BY <2>3, <2>5, <3>1, <3>2, Zenon
  <2> QED
    BY <2>7
<1> HIDE DEF Good
<1>4. T \in Good
  BY <1>2, <1>3, SubsetInduction
<1> QED
  BY <1>4 DEF Good

(* Nothing adds up to nothing.                                              *)
LEMMA SumOfZeros ==
  ASSUME NEW f, NEW S, IsFiniteSet(S), \A x \in S : f[x] = 0
  PROVE  SumFunctionOnSet(f, S) = 0
<1> DEFINE total == SumFunctionOnSet(f, S)
<1>1. total \in Int
  BY SumType
<1>2. total = total + total
  BY SumOfSums
<1> HIDE DEF total
<1>3. total = 0
  BY <1>1, <1>2
<1> QED
  BY <1>3 DEF total

(* Larger values have a larger sum.                                         *)
LEMMA SumMonotone ==
  ASSUME NEW f, NEW h, NEW S, IsFiniteSet(S),
         \A x \in S : f[x] \in Int /\ h[x] \in Int /\ f[x] <= h[x]
  PROVE  SumFunctionOnSet(f, S) <= SumFunctionOnSet(h, S)
<1> DEFINE more == [x \in S |-> h[x] - f[x]]
<1>1. \A x \in S : more[x] \in Nat /\ h[x] = f[x] + more[x]
  OBVIOUS
<1> HIDE DEF more
<1>2. SumFunctionOnSet(more, S) \in Nat /\ SumFunctionOnSet(f, S) \in Int
  BY <1>1, SumType
<1>3. SumFunctionOnSet(h, S) = SumFunctionOnSet(f, S) + SumFunctionOnSet(more, S)
  BY <1>1, SumOfSums
<1> QED
  BY <1>2, <1>3

(* A sum over a part is one over the whole, of a function that is 0 elsewhere. *)
LEMMA SumRestricted ==
  ASSUME NEW f, NEW h, NEW S, IsFiniteSet(S), NEW T \in SUBSET S,
         \A x \in T : f[x] \in Int /\ h[x] = f[x],
         \A x \in S \ T : h[x] = 0
  PROVE  SumFunctionOnSet(f, T) = SumFunctionOnSet(h, S)
<1>1. IsFiniteSet(T) /\ IsFiniteSet(S \ T) /\ T \cap (S \ T) = {} /\ T \cup (S \ T) = S
  BY FS_Subset
<1>2. SumFunctionOnSet(h, T \cup (S \ T)) = SumFunctionOnSet(h, T) + SumFunctionOnSet(h, S \ T)
  <2>1. \A x \in T \cup (S \ T) : h[x] \in Int
    OBVIOUS
  <2> QED
    BY <1>1, <2>1, SumUnion
<1>3. SumFunctionOnSet(h, S \ T) = 0
  BY <1>1, SumOfZeros
<1>4. SumFunctionOnSet(f, T) = SumFunctionOnSet(h, T)
  BY <1>1, SumCongruence
<1>5. SumFunctionOnSet(h, T) \in Int
  BY <1>1, SumType
<1>6. SumFunctionOnSet(h, S) = SumFunctionOnSet(h, T) + 0
  BY <1>1, <1>2, <1>3, Zenon
<1> QED
  BY <1>4, <1>5, <1>6

(* A sum of multiples.                                                      *)
LEMMA SumScaled ==
  ASSUME NEW f, NEW h, NEW c \in Int, NEW S, IsFiniteSet(S),
         \A x \in S : f[x] \in Int /\ h[x] = c * f[x]
  PROVE  SumFunctionOnSet(h, S) = c * SumFunctionOnSet(f, S)
<1> DEFINE Good == {U \in SUBSET S : SumFunctionOnSet(h, U) = c * SumFunctionOnSet(f, U)}
<1>1. {} \in Good /\ Good \in SUBSET (SUBSET S)
  BY SumEmpty
<1>2. ASSUME NEW U \in Good, NEW x \in S \ U
      PROVE  U \cup {x} \in Good
  <2>1. IsFiniteSet(U)
    BY FS_Subset
  <2>2. \A y \in U \cup {x} : f[y] \in Int /\ h[y] \in Int
    OBVIOUS
  <2>3. /\ SumFunctionOnSet(f, U \cup {x}) = f[x] + SumFunctionOnSet(f, U)
        /\ SumFunctionOnSet(h, U \cup {x}) = h[x] + SumFunctionOnSet(h, U)
    BY <2>1, <2>2, SumAdd
  <2>4. SumFunctionOnSet(f, U) \in Int
    BY <2>1, <2>2, SumType
  <2>5. SumFunctionOnSet(h, U) = c * SumFunctionOnSet(f, U) /\ f[x] \in Int /\ h[x] = c * f[x]
    OBVIOUS
  <2>6. ASSUME NEW a \in Int, NEW b \in Int
        PROVE  c * a + c * b = c * (a + b)
    OBVIOUS
  <2>7. SumFunctionOnSet(h, U \cup {x}) = c * SumFunctionOnSet(f, U \cup {x})
    <3> HIDE DEF Good
    <3> QED
      BY <2>3, <2>4, <2>5, <2>6
  <2> QED
    BY <2>7
<1> HIDE DEF Good
<1>3. S \in Good
  BY <1>1, <1>2, SubsetInduction
<1> QED
  BY <1>3 DEF Good

=============================================================================
