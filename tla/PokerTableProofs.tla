-------------------------- MODULE PokerTableProofs --------------------------
(***************************************************************************)
(* Proofs about PokerTable, for any number of players, blinds, stacks and  *)
(* hands.  First sums over finite sets, which the chips are counted with:  *)
(* what is proved about them by induction over the set is proved with a    *)
(* least counterexample.  Then what the operators of the table do, from a  *)
(* payment to the settlement of side pots; then what every deal and every  *)
(* move leaves of the table, and from that the inductive invariant.        *)
(***************************************************************************)
EXTENDS PokerTable, FiniteSetTheorems, WellFoundedInduction, TLAPS

-----------------------------------------------------------------------------
(* Least elements *)

\* Every set of naturals has a least member.
LEMMA LeastNatural ==
  ASSUME NEW T, T \subseteq Nat, T # {}
  PROVE  \E n \in T : \A m \in T : n <= m
<1> DEFINE R == OpToRel(<, Nat)
<1>1. \E n \in T : \A m \in T : ~(<<m, n>> \in R)
  BY WFMin, NatLessThanWellFounded, Zenon
<1>2. ASSUME NEW m \in Nat, NEW n \in Nat, m < n PROVE <<m, n>> \in R
  BY <1>2 DEF OpToRel
<1>3. \E n \in T : \A m \in T : ~(m < n)
  BY <1>1, <1>2, Zenon
<1> QED
  BY <1>3

\* Every collection of subsets of a finite set has a smallest one.
LEMMA SmallestSubset ==
  ASSUME NEW S, IsFiniteSet(S), NEW T, T \subseteq SUBSET S, T # {}
  PROVE  \E s \in T : \A r \in T : r \subseteq s => r = s
<1>1. IsWellFoundedOn(StrictSubsetOrdering(S), SUBSET S)
  BY FS_StrictSubsetOrderingWellFounded, FS_FiniteSubsetsOfFinite
<1>2. \E s \in T : \A r \in T : ~(<<r, s>> \in StrictSubsetOrdering(S))
  BY <1>1, WFMin, Zenon
<1> QED
  BY <1>2 DEF StrictSubsetOrdering

-----------------------------------------------------------------------------
(* Sums *)

\* The member a sum takes first, one step of its recursion, and the recursion.
Picked(s) == CHOOSE x \in s : TRUE

Step(g, f, s) == IF s = {} THEN 0 ELSE f[Picked(s)] + g[s \ {Picked(s)}]
Sums(g, f, S) == g = [s \in SUBSET S |-> Step(g, f, s)]

\* What is picked is a member.
LEMMA PickedIsIn == ASSUME NEW s, s # {} PROVE Picked(s) \in s
BY DEF Picked

\* The recursion has a solution: otherwise one of the least size would be missing.
LEMMA SumsExist ==
  ASSUME NEW S, IsFiniteSet(S), NEW f
  PROVE  \E g : Sums(g, f, S)
<1> DEFINE Upto(n, g) == \A s \in SUBSET S : Cardinality(s) <= n => g[s] = Step(g, f, s)
           Bad == {n \in Nat : ~\E g : Upto(n, g)}
<1>1. ASSUME NEW s \in SUBSET S PROVE IsFiniteSet(s) /\ Cardinality(s) \in Nat
                                      /\ Cardinality(s) <= Cardinality(S)
  BY FS_Subset, FS_CardinalityType
<1>2. 0 \notin Bad
  <2> DEFINE g == [s \in SUBSET S |-> 0]
  <2>1. ASSUME NEW s \in SUBSET S, Cardinality(s) <= 0 PROVE g[s] = Step(g, f, s)
    BY <2>1, <1>1, FS_EmptySet DEF Step
  <2> QED
    BY <2>1
<1>3. ASSUME NEW n \in Nat, n \notin Bad PROVE n + 1 \notin Bad
  <2>1. PICK g : Upto(n, g)
    BY <1>3
  <2> DEFINE h == [s \in SUBSET S |-> IF Cardinality(s) = n + 1 THEN Step(g, f, s) ELSE g[s]]
  <2>2. ASSUME NEW s \in SUBSET S, Cardinality(s) <= n + 1 PROVE h[s] = Step(h, f, s)
    <3>1. s # {} => /\ s \ {Picked(s)} \in SUBSET S
                    /\ Cardinality(s \ {Picked(s)}) = Cardinality(s) - 1
      BY PickedIsIn, FS_RemoveElement, <1>1
    <3>2. s # {} => h[s \ {Picked(s)}] = g[s \ {Picked(s)}]
      BY <3>1, <2>2, <1>1
    <3>3. Step(h, f, s) = Step(g, f, s)
      BY <3>2 DEF Step
    <3>4. CASE Cardinality(s) = n + 1
      BY <3>3, <3>4
    <3>5. CASE Cardinality(s) <= n
      BY <3>3, <3>5, <2>1, <1>1
    <3> QED
      BY <3>4, <3>5, <2>2, <1>1
  <2> QED
    BY <2>2
<1>4. Bad = {}
  <2> SUFFICES ASSUME Bad # {} PROVE FALSE
    OBVIOUS
  <2>1. PICK n \in Bad : \A m \in Bad : n <= m
    BY LeastNatural
  <2>2. n # 0
    BY <1>2, <2>1
  <2>3. n - 1 \in Nat /\ n - 1 \notin Bad
    BY <2>1, <2>2
  <2> QED
    BY <2>1, <2>3, <1>3
<1>5. PICK g : Upto(Cardinality(S), g)
  BY <1>4, FS_CardinalityType
<1> DEFINE h == [s \in SUBSET S |-> g[s]]
<1>6. ASSUME NEW s \in SUBSET S PROVE h[s] = Step(h, f, s)
  <2>1. s # {} => s \ {Picked(s)} \in SUBSET S
    OBVIOUS
  <2>2. Step(h, f, s) = Step(g, f, s)
    BY <2>1 DEF Step
  <2> QED
    BY <2>2, <1>5, <1>1
<1>7. h = [s \in SUBSET S |-> Step(h, f, s)]
  BY <1>6
<1> QED
  BY <1>7 DEF Sums

\* What a sum is: that of any function that satisfies its recursion.
LEMMA SumIsRecursive ==
  ASSUME NEW S, IsFiniteSet(S), NEW f
  PROVE  \E g : Sums(g, f, S) /\ SumFunctionOnSet(f, S) = g[S]
<1>1. SumFunctionOnSet(f, S) = (CHOOSE g : Sums(g, f, S))[S]
  BY DEF SumFunctionOnSet, FoldFunctionOnSet, MapThenFoldSet, Sums, Step, Picked
<1> QED
  BY <1>1, SumsExist

\* It has one solution, whichever set it is solved for.
LEMMA SumsAreUnique ==
  ASSUME NEW S, IsFiniteSet(S), NEW T \in SUBSET S, NEW f, NEW g, NEW h,
         Sums(g, f, S), Sums(h, f, T)
  PROVE  \A s \in SUBSET T : h[s] = g[s]
<1> DEFINE Bad == {s \in SUBSET T : h[s] # g[s]}
<1> SUFFICES ASSUME Bad # {} PROVE FALSE
  OBVIOUS
<1>0. IsFiniteSet(T) /\ Bad \subseteq SUBSET T
  BY FS_Subset
<1>1. PICK s \in Bad : \A r \in Bad : r \subseteq s => r = s
  <2> HIDE DEF Bad
  <2> QED
    BY <1>0, SmallestSubset
<1>2. g[s] = Step(g, f, s) /\ h[s] = Step(h, f, s)
  BY DEF Sums
<1>3. s # {}
  BY <1>2 DEF Step
<1>4. s \ {Picked(s)} \in SUBSET T /\ s \ {Picked(s)} # s
  BY <1>3, PickedIsIn
<1>5. g[s \ {Picked(s)}] = h[s \ {Picked(s)}]
  BY <1>1, <1>4
<1> QED
  BY <1>2, <1>3, <1>5 DEF Step

\* The sum over no members.
LEMMA SumOfNothing ==
  ASSUME NEW f
  PROVE  SumFunctionOnSet(f, {}) = 0
<1>1. PICK g : Sums(g, f, {}) /\ SumFunctionOnSet(f, {}) = g[{}]
  BY SumIsRecursive, FS_EmptySet
<1> QED
  BY <1>1 DEF Sums, Step

\* A sum is its picked member and the sum of the rest.
LEMMA SumTakesPicked ==
  ASSUME NEW S, IsFiniteSet(S), S # {}, NEW f
  PROVE  SumFunctionOnSet(f, S) = f[Picked(S)] + SumFunctionOnSet(f, S \ {Picked(S)})
<1> DEFINE T == S \ {Picked(S)}
<1>1. T \in SUBSET S /\ IsFiniteSet(T)
  BY FS_RemoveElement
<1>2. PICK g : Sums(g, f, S) /\ SumFunctionOnSet(f, S) = g[S]
  BY SumIsRecursive
<1>3. PICK h : Sums(h, f, T) /\ SumFunctionOnSet(f, T) = h[T]
  BY SumIsRecursive, <1>1
<1>4. h[T] = g[T]
  <2>1. \A s \in SUBSET T : h[s] = g[s]
    <3> HIDE DEF T
    <3> QED
      BY SumsAreUnique, <1>1, <1>2, <1>3
  <2> QED
    BY <2>1
<1>5. g[S] = f[Picked(S)] + g[T]
  BY <1>2 DEF Sums, Step
<1> QED
  BY <1>2, <1>3, <1>4, <1>5

\* Induction over the subsets of a finite set, one element at a time.
LEMMA SubsetInduction ==
  ASSUME NEW S, IsFiniteSet(S), NEW Good, {} \in Good,
         \A s \in SUBSET S : s # {} /\ s \ {Picked(s)} \in Good => s \in Good
  PROVE  \A s \in SUBSET S : s \in Good
<1> DEFINE Bad == (SUBSET S) \ Good
<1> SUFFICES ASSUME Bad # {} PROVE FALSE
  OBVIOUS
<1>1. PICK s \in Bad : \A r \in Bad : r \subseteq s => r = s
  <2>1. Bad \subseteq SUBSET S
    OBVIOUS
  <2> HIDE DEF Bad
  <2> QED
    BY <2>1, SmallestSubset
<1>2. s # {} /\ s \ {Picked(s)} \in SUBSET S /\ s \ {Picked(s)} # s
  BY PickedIsIn
<1> QED
  BY <1>1, <1>2

\* What a step of the induction needs to know about the picked member.
LEMMA PickedLeavesLess ==
  ASSUME NEW S, IsFiniteSet(S), NEW s \in SUBSET S, s # {}
  PROVE  /\ Picked(s) \in S /\ Picked(s) \in s
         /\ s \ {Picked(s)} \in SUBSET S
         /\ IsFiniteSet(s) /\ IsFiniteSet(s \ {Picked(s)})
         /\ \A f : SumFunctionOnSet(f, s) = f[Picked(s)] + SumFunctionOnSet(f, s \ {Picked(s)})
<1>1. Picked(s) \in s
  BY PickedIsIn
<1>2. IsFiniteSet(s)
  BY FS_Subset
<1>3. IsFiniteSet(s \ {Picked(s)})
  BY <1>2, FS_RemoveElement
<1>4. \A f : SumFunctionOnSet(f, s) = f[Picked(s)] + SumFunctionOnSet(f, s \ {Picked(s)})
  BY <1>2, SumTakesPicked
<1> QED
  BY <1>1, <1>2, <1>3, <1>4

\* The sum of integers is an integer.
LEMMA SumType ==
  ASSUME NEW S, IsFiniteSet(S), NEW f, \A i \in S : f[i] \in Int
  PROVE  SumFunctionOnSet(f, S) \in Int
<1> DEFINE Good == {s \in SUBSET S : SumFunctionOnSet(f, s) \in Int}
<1>1. {} \in Good
  BY SumOfNothing
<1>2. ASSUME NEW s \in SUBSET S, s # {}, s \ {Picked(s)} \in Good PROVE s \in Good
  <2>1. /\ SumFunctionOnSet(f, s) = f[Picked(s)] + SumFunctionOnSet(f, s \ {Picked(s)})
        /\ Picked(s) \in S
    BY <1>2, PickedLeavesLess
  <2> QED
    BY <1>2, <2>1
<1>3. \A s \in SUBSET S : s \in Good
  <2> HIDE DEF Good
  <2> QED
    BY <1>1, <1>2, SubsetInduction
<1> QED
  BY <1>3

\* Sums grow with their members.
LEMMA SumAtMost ==
  ASSUME NEW S, IsFiniteSet(S), NEW f, NEW g,
         \A i \in S : f[i] \in Int /\ g[i] \in Int /\ f[i] <= g[i]
  PROVE  SumFunctionOnSet(f, S) <= SumFunctionOnSet(g, S)
<1> DEFINE Good == {s \in SUBSET S : /\ SumFunctionOnSet(f, s) \in Int
                                     /\ SumFunctionOnSet(g, s) \in Int
                                     /\ SumFunctionOnSet(f, s) <= SumFunctionOnSet(g, s)}
<1>1. {} \in Good
  BY SumOfNothing
<1>2. ASSUME NEW s \in SUBSET S, s # {}, s \ {Picked(s)} \in Good PROVE s \in Good
  <2>1. /\ SumFunctionOnSet(f, s) = f[Picked(s)] + SumFunctionOnSet(f, s \ {Picked(s)})
        /\ SumFunctionOnSet(g, s) = g[Picked(s)] + SumFunctionOnSet(g, s \ {Picked(s)})
        /\ Picked(s) \in S
    BY <1>2, PickedLeavesLess
  <2> QED
    BY <1>2, <2>1
<1>3. \A s \in SUBSET S : s \in Good
  <2> HIDE DEF Good
  <2> QED
    BY <1>1, <1>2, SubsetInduction
<1> QED
  BY <1>3

\* The sum of zeroes.
LEMMA SumOfZeroes ==
  ASSUME NEW S, IsFiniteSet(S), NEW f, \A i \in S : f[i] = 0
  PROVE  SumFunctionOnSet(f, S) = 0
<1> DEFINE Good == {s \in SUBSET S : SumFunctionOnSet(f, s) = 0}
<1>1. {} \in Good
  BY SumOfNothing
<1>2. ASSUME NEW s \in SUBSET S, s # {}, s \ {Picked(s)} \in Good PROVE s \in Good
  <2>1. /\ SumFunctionOnSet(f, s) = f[Picked(s)] + SumFunctionOnSet(f, s \ {Picked(s)})
        /\ Picked(s) \in S
    BY <1>2, PickedLeavesLess
  <2> QED
    BY <1>2, <2>1
<1>3. \A s \in SUBSET S : s \in Good
  <2> HIDE DEF Good
  <2> QED
    BY <1>1, <1>2, SubsetInduction
<1> QED
  BY <1>3

\* The sum of naturals is a natural.
LEMMA SumIsNatural ==
  ASSUME NEW S, IsFiniteSet(S), NEW f, \A i \in S : f[i] \in Nat
  PROVE  SumFunctionOnSet(f, S) \in Nat
<1> DEFINE z == [i \in S |-> 0]
<1>1. SumFunctionOnSet(z, S) = 0
  BY SumOfZeroes
<1>2. SumFunctionOnSet(z, S) <= SumFunctionOnSet(f, S)
  BY SumAtMost
<1>3. SumFunctionOnSet(f, S) \in Int
  BY SumType
<1> HIDE DEF z
<1> QED
  BY <1>1, <1>2, <1>3

\* Sums add up.
LEMMA SumOfSums ==
  ASSUME NEW S, IsFiniteSet(S), NEW f, NEW g, NEW h,
         \A i \in S : f[i] \in Int /\ g[i] \in Int /\ h[i] = f[i] + g[i]
  PROVE  SumFunctionOnSet(h, S) = SumFunctionOnSet(f, S) + SumFunctionOnSet(g, S)
<1> DEFINE Good == {s \in SUBSET S : /\ SumFunctionOnSet(f, s) \in Int
                                     /\ SumFunctionOnSet(g, s) \in Int
                                     /\ SumFunctionOnSet(h, s) =
                                          SumFunctionOnSet(f, s) + SumFunctionOnSet(g, s)}
<1>1. {} \in Good
  BY SumOfNothing
<1>2. ASSUME NEW s \in SUBSET S, s # {}, s \ {Picked(s)} \in Good PROVE s \in Good
  <2>1. /\ SumFunctionOnSet(f, s) = f[Picked(s)] + SumFunctionOnSet(f, s \ {Picked(s)})
        /\ SumFunctionOnSet(g, s) = g[Picked(s)] + SumFunctionOnSet(g, s \ {Picked(s)})
        /\ SumFunctionOnSet(h, s) = h[Picked(s)] + SumFunctionOnSet(h, s \ {Picked(s)})
        /\ Picked(s) \in S
    BY <1>2, PickedLeavesLess
  <2> QED
    BY <1>2, <2>1
<1>3. \A s \in SUBSET S : s \in Good
  <2> HIDE DEF Good
  <2> QED
    BY <1>1, <1>2, SubsetInduction
<1> QED
  BY <1>3

\* Functions with the same members have the same sum.
LEMMA SumOfSame ==
  ASSUME NEW S, IsFiniteSet(S), NEW f, NEW g,
         \A i \in S : f[i] \in Int /\ g[i] = f[i]
  PROVE  SumFunctionOnSet(g, S) = SumFunctionOnSet(f, S)
<1>1. /\ SumFunctionOnSet(f, S) <= SumFunctionOnSet(g, S)
      /\ SumFunctionOnSet(g, S) <= SumFunctionOnSet(f, S)
  BY SumAtMost
<1>2. SumFunctionOnSet(f, S) \in Int /\ SumFunctionOnSet(g, S) \in Int
  BY SumType
<1> QED
  BY <1>1, <1>2

\* The same amount c for every member of T.
LEMMA SumOfConstant ==
  ASSUME NEW S, IsFiniteSet(S), NEW T, NEW c \in Int, NEW f,
         \A i \in S : f[i] = IF i \in T THEN c ELSE 0
  PROVE  SumFunctionOnSet(f, S) = c * Cardinality(S \cap T)
<1> DEFINE Good == {s \in SUBSET S : SumFunctionOnSet(f, s) = c * Cardinality(s \cap T)}
<1>1. {} \in Good
  <2>1. {} \cap T = {}
    OBVIOUS
  <2> QED
    BY SumOfNothing, FS_EmptySet, <2>1
<1>2. ASSUME NEW s \in SUBSET S, s # {}, s \ {Picked(s)} \in Good PROVE s \in Good
  <2> DEFINE r == s \ {Picked(s)}
  <2>1. SumFunctionOnSet(f, s) = f[Picked(s)] + SumFunctionOnSet(f, r) /\ Picked(s) \in S /\ Picked(s) \in s
    BY <1>2, PickedLeavesLess
  <2>2. SumFunctionOnSet(f, r) = c * Cardinality(r \cap T)
    BY <1>2
  <2>3. IsFiniteSet(s \cap T) /\ Cardinality(s \cap T) \in Nat
    BY FS_Subset, FS_Intersection, FS_CardinalityType
  <2>4. CASE Picked(s) \in T
    <3>1. r \cap T = (s \cap T) \ {Picked(s)}
      OBVIOUS
    <3>2. Cardinality(r \cap T) = Cardinality(s \cap T) - 1
      <4>1. Picked(s) \in s \cap T
        BY <2>1, <2>4
      <4>2. Cardinality((s \cap T) \ {Picked(s)}) = Cardinality(s \cap T) - 1
        BY <4>1, <2>3, FS_RemoveElement
      <4> QED
        BY <3>1, <4>2
    <3>3. SumFunctionOnSet(f, s) = c + c * (Cardinality(s \cap T) - 1)
      BY <2>1, <2>2, <2>4, <3>2
    <3>4. c + c * (Cardinality(s \cap T) - 1) = c * Cardinality(s \cap T)
      <4> HIDE DEF Good
      <4> QED BY <2>3
    <3> QED
      BY <3>3, <3>4
  <2>5. CASE Picked(s) \notin T
    <3>1. r \cap T = s \cap T
      BY <2>5
    <3>2. c * Cardinality(s \cap T) \in Int
      BY <2>3
    <3>3. f[Picked(s)] = 0
      BY <2>1, <2>5
    <3>4. SumFunctionOnSet(f, s) = 0 + c * Cardinality(s \cap T)
      BY <3>1, <3>3, <2>1, <2>2
    <3> QED
      BY <3>2, <3>4
  <2> QED
    BY <2>4, <2>5
<1>3. \A s \in SUBSET S : s \in Good
  <2> HIDE DEF Good
  <2> QED
    BY <1>1, <1>2, SubsetInduction
<1> QED
  BY <1>3

\* Any element may be taken out of a sum first.
LEMMA SumSplits ==
  ASSUME NEW S, IsFiniteSet(S), NEW x \in S, NEW f, \A i \in S : f[i] \in Int
  PROVE  SumFunctionOnSet(f, S) = f[x] + SumFunctionOnSet(f, S \ {x})
<1> DEFINE Bad == {s \in SUBSET S : \E y \in s :
                     SumFunctionOnSet(f, s) # f[y] + SumFunctionOnSet(f, s \ {y})}
<1> SUFFICES ASSUME Bad # {} PROVE FALSE
  OBVIOUS
<1>1. PICK s \in Bad : \A r \in Bad : r \subseteq s => r = s
  <2>1. Bad \subseteq SUBSET S
    OBVIOUS
  <2> HIDE DEF Bad
  <2> QED
    BY <2>1, SmallestSubset
<1>2. PICK y \in s : SumFunctionOnSet(f, s) # f[y] + SumFunctionOnSet(f, s \ {y})
  OBVIOUS
<1> DEFINE p == Picked(s)
<1>3. /\ p \in S /\ p \in s
      /\ SumFunctionOnSet(f, s) = f[p] + SumFunctionOnSet(f, s \ {p})
  BY PickedLeavesLess
<1> HIDE DEF p
<1>4. y # p
  BY <1>2, <1>3
<1> DEFINE u == (s \ {p}) \ {y}
<1>5. SumFunctionOnSet(f, s \ {p}) = f[y] + SumFunctionOnSet(f, u)
  BY <1>1, <1>2, <1>3, <1>4
<1>6. SumFunctionOnSet(f, s \ {y}) = f[p] + SumFunctionOnSet(f, u)
  <2>1. s \ {y} \notin Bad
    BY <1>1, <1>2
  <2>2. u = (s \ {y}) \ {p}
    OBVIOUS
  <2> QED
    BY <2>1, <2>2, <1>2, <1>3, <1>4
<1>7. SumFunctionOnSet(f, u) \in Int
  <2>1. IsFiniteSet(u)
    BY FS_Subset
  <2> QED
    BY <2>1, SumType
<1> QED
  BY <1>2, <1>3, <1>5, <1>6, <1>7

\* A sum of which one member changes.
LEMMA SumChanges ==
  ASSUME NEW S, IsFiniteSet(S), NEW x \in S, NEW f, NEW g,
         \A i \in S : f[i] \in Int /\ g[i] \in Int,
         \A i \in S \ {x} : g[i] = f[i]
  PROVE  SumFunctionOnSet(g, S) = SumFunctionOnSet(f, S) - f[x] + g[x]
<1>1. IsFiniteSet(S \ {x})
  BY FS_RemoveElement
<1>2. SumFunctionOnSet(g, S \ {x}) = SumFunctionOnSet(f, S \ {x})
  BY <1>1, SumOfSame
<1>3. SumFunctionOnSet(f, S \ {x}) \in Int
  BY <1>1, SumType
<1>4. /\ SumFunctionOnSet(f, S) = f[x] + SumFunctionOnSet(f, S \ {x})
      /\ SumFunctionOnSet(g, S) = g[x] + SumFunctionOnSet(g, S \ {x})
  BY SumSplits
<1> QED
  BY <1>2, <1>3, <1>4

\* Rows F and columns G of the same numbers, with the sums of each.
IsGrid(S, T, F, G, p, q) ==
  /\ IsFiniteSet(S) /\ IsFiniteSet(T)
  /\ F \in [S -> [T -> Int]] /\ G \in [T -> [S -> Int]]
  /\ \A i \in S : \A j \in T : G[j][i] = F[i][j]
  /\ \A i \in S : p[i] = SumFunctionOnSet(F[i], T)
  /\ \A j \in T : q[j] = SumFunctionOnSet(G[j], S)

\* A sum of sums may be taken in either order.
LEMMA SumsSwap ==
  ASSUME NEW S, NEW T, NEW F, NEW G, NEW p, NEW q, IsGrid(S, T, F, G, p, q)
  PROVE  SumFunctionOnSet(p, S) = SumFunctionOnSet(q, T)
<1> USE DEF IsGrid
<1> DEFINE col(j) == G[j]
           part(s) == [j \in T |-> SumFunctionOnSet(col(j), s)]
           Good == {s \in SUBSET S : SumFunctionOnSet(p, s) = SumFunctionOnSet(part(s), T)}
<1>0. ASSUME NEW s \in SUBSET S, NEW j \in T PROVE SumFunctionOnSet(col(j), s) \in Int
  <2>1. IsFiniteSet(s) /\ \A i \in s : col(j)[i] \in Int
    BY FS_Subset
  <2> HIDE DEF col
  <2> QED
    BY <2>1, SumType
<1>1. {} \in Good
  <2>1. \A j \in T : part({})[j] = 0
    BY SumOfNothing
  <2>2. SumFunctionOnSet(part({}), T) = 0
    <3> HIDE DEF part
    <3> QED
      BY <2>1, SumOfZeroes
  <2> QED
    BY <2>2, SumOfNothing
<1>2. ASSUME NEW s \in SUBSET S, s # {}, s \ {Picked(s)} \in Good PROVE s \in Good
  <2> DEFINE x == Picked(s)
             r == s \ {x}
  <2>1. x \in S /\ r \in SUBSET S /\ \A f : SumFunctionOnSet(f, s) = f[x] + SumFunctionOnSet(f, r)
    BY <1>2, PickedLeavesLess
  <2>2. SumFunctionOnSet(p, r) = SumFunctionOnSet(part(r), T)
    BY <1>2
  <2> HIDE DEF x, r
  <2>3. ASSUME NEW j \in T
        PROVE  part(s)[j] = F[x][j] + part(r)[j] /\ part(r)[j] \in Int /\ F[x][j] \in Int
    <3>1. part(s)[j] = SumFunctionOnSet(col(j), s) /\ part(r)[j] = SumFunctionOnSet(col(j), r)
      OBVIOUS
    <3>2. SumFunctionOnSet(col(j), s) = col(j)[x] + SumFunctionOnSet(col(j), r)
      BY <2>1
    <3>3. col(j)[x] = F[x][j] /\ F[x][j] \in Int
      BY <2>1
    <3> QED
      BY <3>1, <3>2, <3>3, <2>1, <1>0
  <2>4. SumFunctionOnSet(part(s), T) = SumFunctionOnSet(F[x], T) + SumFunctionOnSet(part(r), T)
    <3> HIDE DEF part
    <3> QED
      BY <2>3, SumOfSums
  <2>5. SumFunctionOnSet(p, s) = SumFunctionOnSet(F[x], T) + SumFunctionOnSet(p, r)
    BY <2>1
  <2> HIDE DEF part
  <2> QED
    BY <2>2, <2>4, <2>5
<1>3. \A s \in SUBSET S : s \in Good
  <2> HIDE DEF Good
  <2> QED
    BY <1>1, <1>2, SubsetInduction
<1>4. SumFunctionOnSet(p, S) = SumFunctionOnSet(part(S), T)
  BY <1>3
<1>5. \A j \in T : part(S)[j] \in Int /\ q[j] = part(S)[j]
  BY <1>0
<1>6. SumFunctionOnSet(q, T) = SumFunctionOnSet(part(S), T)
  <2> HIDE DEF part
  <2> QED
    BY <1>5, SumOfSame
<1> QED
  BY <1>4, <1>6

-----------------------------------------------------------------------------
(* The seats *)

\* There are finitely many seats, and at least one.
LEMMA SeatsAreFinite == IsFiniteSet(Seats) /\ Seats \subseteq Nat /\ Seats # {}
<1>1. N \in Nat /\ 0 < N
  BY SeatsAtTable
<1>2. IsFiniteSet(0 .. N - 1)
  BY <1>1, FS_Interval
<1> QED
  BY <1>1, <1>2 DEF Seats

\* Distance without the remainder.
LEMMA DistanceIs ==
  ASSUME NEW from \in Seats \cup {Nobody}, NEW i \in Seats
  PROVE  Distance(from, i) = IF from < i THEN i - from - 1 ELSE i - from - 1 + N
<1>0. N \in Nat /\ 0 < N /\ i \in 0 .. N - 1 /\ from \in -1 .. N - 1
  BY SeatsAtTable DEF Seats, Nobody
<1>1. CASE from < i
  <2>1. i - from - 1 \in 0 .. N - 1
    BY <1>0, <1>1
  <2>2. \A a \in 0 .. N - 1 : a % N = a
    BY <1>0
  <2> QED
    BY <2>1, <2>2, <1>1 DEF Distance
<1>2. CASE i <= from
  <2>1. i - from - 1 \in -N .. -1
    BY <1>0, <1>2
  <2>2. \A a \in -N .. -1 : a % N = a + N
    BY <1>0
  <2> QED
    BY <2>1, <2>2, <1>2, <1>0 DEF Distance
<1> QED
  BY <1>0, <1>1, <1>2

\* NextOf is the member of S with the least distance.
LEMMA NextIsIn ==
  ASSUME NEW from \in Seats \cup {Nobody}, NEW S \in SUBSET Seats, S # {}
  PROVE  /\ NextOf(from, S) \in S
         /\ \A j \in S : Distance(from, NextOf(from, S)) <= Distance(from, j)
<1> DEFINE T == {Distance(from, i) : i \in S}
<1>1. T \subseteq Nat /\ T # {}
  <2>1. \A i \in S : Distance(from, i) \in Nat
    BY DistanceIs, SeatsAtTable DEF Seats, Nobody
  <2> QED
    BY <2>1
<1>2. PICK n \in T : \A m \in T : n <= m
  <2> HIDE DEF T
  <2> QED
    BY <1>1, LeastNatural
<1>3. \E i \in S : \A j \in S : Distance(from, i) <= Distance(from, j)
  BY <1>2
<1> QED
  BY <1>3 DEF NextOf

\* Whoever comes after a seat is another one, if there is another one.
LEMMA NextIsAnother ==
  ASSUME NEW from \in Seats, NEW S \in SUBSET Seats, NEW j \in S, j # from
  PROVE  NextOf(from, S) # from
<1>1. Distance(from, from) = N - 1 /\ Distance(from, j) < N - 1
  BY DistanceIs, SeatsAtTable DEF Seats
<1>2. Distance(from, NextOf(from, S)) <= Distance(from, j)
  BY NextIsIn
<1> QED
  BY <1>1, <1>2, DistanceIs, SeatsAtTable DEF Seats

-----------------------------------------------------------------------------
(* Payments *)

\* The sum over the seats.
LEMMA SumIs == \A f : Sum(f) = SumFunctionOnSet(f, Seats)
BY DEF Sum

\* A sum of chips is a number of chips.
LEMMA SeatSumType ==
  ASSUME NEW f \in [Seats -> Nat]
  PROVE  Sum(f) \in Nat
BY SumIsNatural, SumIs, SeatsAreFinite

\* The sum changes by as much as the one seat that changes.
LEMMA SeatSumMoves ==
  ASSUME NEW i \in Seats, NEW f, NEW g, \A j \in Seats \ {i} : g[j] = f[j],
         \A j \in Seats : f[j] \in Int /\ g[j] \in Int
  PROVE  Sum(g) = Sum(f) - f[i] + g[i]
<1>1. IsFiniteSet(Seats)
  BY SeatsAreFinite
<1>2. SumFunctionOnSet(g, Seats) = SumFunctionOnSet(f, Seats) - f[i] + g[i]
  BY <1>1, SumChanges, Zenon
<1> QED
  BY <1>2, SumIs, Zenon

\* The same for a function changed at one seat.
LEMMA SeatSumChanges ==
  ASSUME NEW f \in [Seats -> Nat], NEW i \in Seats, NEW c \in Nat
  PROVE  Sum([f EXCEPT ![i] = c]) = Sum(f) - f[i] + c
<1> DEFINE g == [f EXCEPT ![i] = c]
<1>1. \A j \in Seats \ {i} : g[j] = f[j]
  OBVIOUS
<1>2. \A j \in Seats : f[j] \in Int /\ g[j] \in Int
  OBVIOUS
<1>3. g[i] = c
  OBVIOUS
<1> HIDE DEF g
<1>4. Sum(g) = Sum(f) - f[i] + g[i]
  BY <1>1, <1>2, SeatSumMoves, Zenon
<1> QED
  BY <1>3, <1>4 DEF g

\* pay, with the amount it pays.
LEMMA PayIs ==
  ASSUME NEW t \in Table, NEW i \in Seats, NEW amount \in Nat
  PROVE  LET paid == Smaller(t.chips[i], amount)
             u == Pay(t, i, amount)
         IN  /\ paid \in Nat /\ paid <= t.chips[i] /\ paid <= amount
             /\ u = [t EXCEPT !.chips = [t.chips EXCEPT ![i] = t.chips[i] - paid],
                              !.bet   = [t.bet EXCEPT ![i] = t.bet[i] + paid],
                              !.total = [t.total EXCEPT ![i] = t.total[i] + paid],
                              !.pot   = t.pot + paid]
<1>1. t.chips[i] \in Nat
  BY DEF Table
<1>2. Smaller(t.chips[i], amount) \in Nat /\ Smaller(t.chips[i], amount) <= t.chips[i]
      /\ Smaller(t.chips[i], amount) <= amount
  BY <1>1 DEF Smaller
<1>3. Pay(t, i, amount) = [t EXCEPT !.chips = [t.chips EXCEPT ![i] = t.chips[i] - Smaller(t.chips[i], amount)],
                              !.bet   = [t.bet EXCEPT ![i] = t.bet[i] + Smaller(t.chips[i], amount)],
                              !.total = [t.total EXCEPT ![i] = t.total[i] + Smaller(t.chips[i], amount)],
                              !.pot   = t.pot + Smaller(t.chips[i], amount)]
  BY DEF Pay
<1> QED
  BY <1>2, <1>3

\* What a payment by seat i does to table t.
IsPayment(t, u, i, paid) ==
  /\ u \in Table
  /\ paid \in Nat /\ paid <= t.chips[i]
  /\ u.phase = t.phase /\ u.hand = t.hand /\ u.dealer = t.dealer /\ u.actor = t.actor
  /\ u.lastPot = t.lastPot /\ u.currentBet = t.currentBet /\ u.lastRaise = t.lastRaise
  /\ u.pending = t.pending /\ u.folded = t.folded /\ u.lastBet = t.lastBet
  /\ u.payouts = t.payouts /\ u.strength = t.strength
  /\ u.chips = [t.chips EXCEPT ![i] = t.chips[i] - paid]
  /\ u.bet   = [t.bet EXCEPT ![i] = t.bet[i] + paid]
  /\ u.total = [t.total EXCEPT ![i] = t.total[i] + paid]
  /\ u.pot   = t.pot + paid

\* pay is a payment of at most what is due and at most what the player has.
LEMMA PayPays ==
  ASSUME NEW t \in Table, NEW i \in Seats, NEW amount \in Nat
  PROVE  /\ IsPayment(t, Pay(t, i, amount), i, Smaller(t.chips[i], amount))
         /\ Smaller(t.chips[i], amount) <= amount
<1> DEFINE paid == Smaller(t.chips[i], amount)
           u == Pay(t, i, amount)
           chips == [t.chips EXCEPT ![i] = t.chips[i] - paid]
           bet   == [t.bet EXCEPT ![i] = t.bet[i] + paid]
           total == [t.total EXCEPT ![i] = t.total[i] + paid]
<1>1. paid \in Nat /\ paid <= t.chips[i] /\ paid <= amount
  BY PayIs
<1>2. u = [t EXCEPT !.chips = chips, !.bet = bet, !.total = total, !.pot = t.pot + paid]
  BY PayIs
<1>3. chips \in [Seats -> Nat] /\ bet \in [Seats -> Nat] /\ total \in [Seats -> Nat]
      /\ t.pot + paid \in Nat
  BY <1>1 DEF Table
<1>4. IsPayment(t, u, i, paid) <=>
        /\ u \in Table
        /\ paid \in Nat /\ paid <= t.chips[i]
        /\ u.phase = t.phase /\ u.hand = t.hand /\ u.dealer = t.dealer /\ u.actor = t.actor
        /\ u.lastPot = t.lastPot /\ u.currentBet = t.currentBet /\ u.lastRaise = t.lastRaise
        /\ u.pending = t.pending /\ u.folded = t.folded /\ u.lastBet = t.lastBet
        /\ u.payouts = t.payouts /\ u.strength = t.strength
        /\ u.chips = chips /\ u.bet = bet /\ u.total = total /\ u.pot = t.pot + paid
  BY DEF IsPayment
<1> HIDE DEF chips, bet, total, paid, u
<1>5. u \in Table
  BY <1>2, <1>3 DEF Table
<1>6. IsPayment(t, u, i, paid)
  BY <1>1, <1>2, <1>4, <1>5 DEF Table
<1> QED
  BY <1>1, <1>6 DEF paid, u

\* A payment moves chips from the player to what he has put in.
LEMMA PayBooks ==
  ASSUME NEW t \in Table, NEW i \in Seats, NEW u, NEW paid, IsPayment(t, u, i, paid)
  PROVE  Sum(u.total) = Sum(t.total) + paid /\ Sum(u.chips) = Sum(t.chips) - paid
<1>1. /\ paid \in Nat /\ paid <= t.chips[i]
      /\ u.chips = [t.chips EXCEPT ![i] = t.chips[i] - paid]
      /\ u.total = [t.total EXCEPT ![i] = t.total[i] + paid]
  BY DEF IsPayment
<1>2. t.chips \in [Seats -> Nat] /\ t.total \in [Seats -> Nat]
  BY DEF Table
<1>3. t.chips[i] \in Nat /\ t.total[i] \in Nat
  BY <1>2
<1>4. t.chips[i] - paid \in Nat /\ t.total[i] + paid \in Nat
  BY <1>1, <1>3
<1>5. Sum(t.chips) \in Nat /\ Sum(t.total) \in Nat
  BY <1>2, SeatSumType
<1>6. Sum(u.total) = Sum(t.total) - t.total[i] + (t.total[i] + paid)
  BY <1>1, <1>2, <1>4, SeatSumChanges
<1>7. Sum(u.chips) = Sum(t.chips) - t.chips[i] + (t.chips[i] - paid)
  BY <1>1, <1>2, <1>4, SeatSumChanges
<1> QED
  BY <1>1, <1>3, <1>5, <1>6, <1>7 

-----------------------------------------------------------------------------
(* The layers of the pot *)

\* Max of a bounded set of naturals is its greatest member.
LEMMA GreatestNatural ==
  ASSUME NEW A, A \subseteq Nat, A # {}, NEW b \in Nat, \A a \in A : a <= b
  PROVE  Max(A) \in A /\ \A a \in A : a <= Max(A)
<1> DEFINE Bounds == {n \in Nat : \A a \in A : a <= n}
<1>1. Bounds \subseteq Nat /\ Bounds # {}
  OBVIOUS
<1>2. PICK n \in Bounds : \A m \in Bounds : n <= m
  <2> HIDE DEF Bounds
  <2> QED
    BY <1>1, LeastNatural
<1>3. n \in A
  <2> SUFFICES ASSUME n \notin A PROVE FALSE
    OBVIOUS
  <2>1. PICK a \in A : TRUE
    OBVIOUS
  <2>2. n - 1 \in Nat /\ n - 1 < n
    BY <2>1
  <2>3. n - 1 \in Bounds
    BY <2>2
  <2> QED
    BY <1>2, <2>2, <2>3
<1>4. \E x \in A : \A y \in A : x >= y
  BY <1>3
<1>5. Max(A) \in A /\ \A y \in A : Max(A) >= y
  BY <1>4, Zenon DEF Max
<1> QED
  BY <1>5

\* The level below l among the levels L.
Below(L, l) == Max({0} \cup {k \in L : k < l})

\* The level below is the greatest smaller one, or 0.
LEMMA BelowIs ==
  ASSUME NEW L, \A k \in L : k \in Nat /\ 0 < k, NEW l \in L
  PROVE  /\ Below(L, l) \in L \cup {0} /\ Below(L, l) \in Nat /\ Below(L, l) < l
         /\ \A k \in L : k < l => k <= Below(L, l)
<1> DEFINE A == {0} \cup {k \in L : k < l}
<1>1. A \subseteq Nat
  OBVIOUS
<1>0. A # {} /\ l \in Nat /\ \A a \in A : a <= l
  OBVIOUS
<1>2. Max(A) \in A /\ \A a \in A : a <= Max(A)
  <2> HIDE DEF A
  <2> QED
    BY <1>0, <1>1, GreatestNatural
<1> QED
  BY <1>2 DEF Below

\* The heights of the layers up to a level add up to that level.
LEMMA LayersAddUp ==
  ASSUME NEW L, IsFiniteSet(L), \A k \in L : k \in Nat /\ 0 < k, NEW x \in L \cup {0}
  PROVE  SumFunctionOnSet([l \in L |-> IF l <= x THEN l - Below(L, l) ELSE 0], L) = x
<1> DEFINE F(y) == [l \in L |-> IF l <= y THEN l - Below(L, l) ELSE 0]
           Bad == {y \in L \cup {0} : SumFunctionOnSet(F(y), L) # y}
<1>1. Bad \subseteq Nat
  OBVIOUS
<1> SUFFICES ASSUME Bad # {} PROVE FALSE
  OBVIOUS
<1>2. PICK y \in Bad : \A z \in Bad : y <= z
  <2> HIDE DEF Bad
  <2> QED
    BY <1>1, LeastNatural
<1>3. y # 0
  <2>1. \A l \in L : F(0)[l] = 0
    OBVIOUS
  <2>2. SumFunctionOnSet(F(0), L) = 0
    <3> HIDE DEF F
    <3> QED
      BY <2>1, SumOfZeroes
  <2> QED
    BY <2>2
<1>4. y \in L
  BY <1>3
<1> DEFINE z == Below(L, y)
<1>5. /\ z \in L \cup {0} /\ z \in Nat /\ z < y
      /\ \A k \in L : k < y => k <= z
  BY <1>4, BelowIs
<1>6. SumFunctionOnSet(F(z), L) = z
  <2>1. z \notin Bad
    BY <1>1, <1>2, <1>5
  <2> QED
    BY <2>1, <1>5
<1>7. \A l \in L : F(z)[l] \in Int /\ F(y)[l] \in Int
  <2>1. \A l \in L : Below(L, l) \in Nat
    BY BelowIs
  <2> QED
    BY <2>1
<1>8. \A l \in L \ {y} : F(y)[l] = F(z)[l]
  BY <1>4, <1>5
<1>9. F(z)[y] = 0 /\ F(y)[y] = y - z
  BY <1>4, <1>5
<1> HIDE DEF z
<1>10. SumFunctionOnSet(F(y), L) = SumFunctionOnSet(F(z), L) - F(z)[y] + F(y)[y]
  <2> DEFINE G == F(z)
             H == F(y)
  <2>1. \A l \in L : G[l] \in Int /\ H[l] \in Int
    BY <1>7
  <2>2. \A l \in L \ {y} : H[l] = G[l]
    BY <1>8
  <2> HIDE DEF F, G, H
  <2>3. SumFunctionOnSet(H, L) = SumFunctionOnSet(G, L) - G[y] + H[y]
    BY <1>4, <2>1, <2>2, SumChanges
  <2> QED
    BY <2>3 DEF G, H
<1>11. SumFunctionOnSet(F(y), L) = y
  BY <1>1, <1>5, <1>6, <1>9, <1>10
<1> QED
  BY <1>11

-----------------------------------------------------------------------------
(* The order of the winners *)

\* Clockwise from seat d, the players of W before i.
Before(W, d, i) == {j \in W : Distance(d, j) < Distance(d, i)}

\* No two seats are equally far away.
LEMMA DistancesDiffer ==
  ASSUME NEW d \in Seats \cup {Nobody}, NEW i \in Seats, NEW j \in Seats
  PROVE  /\ Distance(d, i) \in Nat
         /\ i # j => Distance(d, i) < Distance(d, j) \/ Distance(d, j) < Distance(d, i)
<1>1. d \in Int /\ -1 <= d /\ d < N /\ i \in Nat /\ i < N /\ j \in Nat /\ j < N /\ N \in Nat
  BY SeatsAtTable DEF Seats, Nobody
<1>2. Distance(d, i) = IF d < i THEN i - d - 1 ELSE i - d - 1 + N
  BY DistanceIs
<1>3. Distance(d, j) = IF d < j THEN j - d - 1 ELSE j - d - 1 + N
  BY DistanceIs
<1> QED
  BY <1>1, <1>2, <1>3

\* A winner's place in the row of winners is below their number.
LEMMA RanksAre ==
  ASSUME NEW W \in SUBSET Seats, NEW d \in Seats \cup {Nobody}, NEW i \in W
  PROVE  /\ IsFiniteSet(W) /\ IsFiniteSet(Before(W, d, i))
         /\ Cardinality(Before(W, d, i)) \in Nat
         /\ Cardinality(Before(W, d, i)) < Cardinality(W)
         /\ Cardinality(W) \in Nat
<1>1. IsFiniteSet(W)
  BY SeatsAreFinite, FS_Subset
<1>2. IsFiniteSet(W \ {i}) /\ Cardinality(W \ {i}) = Cardinality(W) - 1
  BY <1>1, FS_RemoveElement
<1>3. Before(W, d, i) \in SUBSET (W \ {i})
  <2>1. Distance(d, i) \in Nat
    BY DistancesDiffer
  <2> QED
    BY <2>1 DEF Before
<1>4. IsFiniteSet(Before(W, d, i)) /\ Cardinality(Before(W, d, i)) <= Cardinality(W \ {i})
  BY <1>2, <1>3, FS_Subset
<1> QED
  BY <1>1, <1>2, <1>4, FS_CardinalityType

\* Who comes later has a higher place.
LEMMA RanksGrow ==
  ASSUME NEW W \in SUBSET Seats, NEW d \in Seats \cup {Nobody}, NEW i \in W, NEW j \in W,
         Distance(d, i) < Distance(d, j)
  PROVE  Cardinality(Before(W, d, i)) < Cardinality(Before(W, d, j))
<1>1. Distance(d, i) \in Nat /\ Distance(d, j) \in Nat /\ \A k \in W : Distance(d, k) \in Nat
  BY DistancesDiffer
<1>2. i \in Before(W, d, j)
  BY DEF Before
<1>3. Before(W, d, i) \in SUBSET (Before(W, d, j) \ {i})
  BY <1>1 DEF Before
<1>4. IsFiniteSet(Before(W, d, j))
  BY RanksAre
<1>5. /\ IsFiniteSet(Before(W, d, j) \ {i})
      /\ Cardinality(Before(W, d, j) \ {i}) = Cardinality(Before(W, d, j)) - 1
  BY <1>2, <1>4, FS_RemoveElement
<1>6. Cardinality(Before(W, d, i)) <= Cardinality(Before(W, d, j) \ {i})
  BY <1>3, <1>5, FS_Subset
<1>7. Cardinality(Before(W, d, i)) \in Nat /\ Cardinality(Before(W, d, j)) \in Nat
  BY RanksAre
<1> QED
  BY <1>5, <1>6, <1>7

\* Exactly r of the players of W are among the first r, clockwise.
LEMMA RanksCount ==
  ASSUME NEW W \in SUBSET Seats, NEW d \in Seats \cup {Nobody},
         NEW r \in Nat, r <= Cardinality(W)
  PROVE  Cardinality({i \in W : Cardinality(Before(W, d, i)) < r}) = r
<1> DEFINE n == Cardinality(W)
           rank == [i \in W |-> Cardinality(Before(W, d, i))]
           V == {i \in W : Cardinality(Before(W, d, i)) < r}
<1>1. IsFiniteSet(W) /\ n \in Nat
  BY SeatsAreFinite, FS_Subset, FS_CardinalityType
<1>2. rank \in [W -> 0 .. n - 1]
  BY <1>1, RanksAre
<1>3. ASSUME NEW i \in W, NEW j \in W, rank[i] = rank[j] PROVE i = j
  <2> SUFFICES ASSUME i # j PROVE FALSE
    OBVIOUS
  <2>1. Distance(d, i) < Distance(d, j) \/ Distance(d, j) < Distance(d, i)
    BY DistancesDiffer
  <2>2. rank[i] < rank[j] \/ rank[j] < rank[i]
    BY <2>1, RanksGrow
  <2>3. rank[i] \in Nat /\ rank[j] \in Nat
    BY RanksAre
  <2> QED
    BY <2>2, <2>3, <1>3
<1>4. rank \in Injection(W, 0 .. n - 1)
  <2> HIDE DEF rank
  <2> QED
    BY <1>2, <1>3 DEF Injection, IsInjective
<1>5. IsFiniteSet(0 .. n - 1) /\ Cardinality(0 .. n - 1) = n
  <2>1. n - 1 \in Int /\ 0 \in Int
    BY <1>1
  <2>2. IsFiniteSet(0 .. n - 1) /\ Cardinality(0 .. n - 1) = IF 0 > n - 1 THEN 0 ELSE n - 1 - 0 + 1
    BY <2>1, FS_Interval
  <2> QED
    BY <2>2, <1>1
<1>6. rank \in Surjection(W, 0 .. n - 1)
  <2> HIDE DEF rank
  <2> QED
    BY <1>4, <1>5, FS_Injection
<1>7. \A k \in 0 .. n - 1 : \E i \in W : rank[i] = k
  BY <1>6 DEF Surjection
<1> DEFINE g == [i \in V |-> rank[i]]
<1>8. g \in Bijection(V, 0 .. r - 1)
  <2>1. g \in [V -> 0 .. r - 1]
    BY RanksAre
  <2>2. \A i, j \in V : g[i] = g[j] => i = j
    BY <1>3
  <2>3. \A k \in 0 .. r - 1 : \E i \in V : g[i] = k
    <3> TAKE k \in 0 .. r - 1
    <3>1. k \in 0 .. n - 1
      BY <1>1
    <3>2. PICK i \in W : rank[i] = k
      BY <3>1, <1>7
    <3>3. i \in V
      BY <3>2
    <3> QED
      BY <3>2, <3>3
  <2> HIDE DEF g, V
  <2> QED
    BY <2>1, <2>2, <2>3 DEF Bijection, Injection, Surjection, IsInjective
<1>9. IsFiniteSet(V)
  BY <1>1, FS_Subset
<1>10. Cardinality(0 .. r - 1) = Cardinality(V)
  <2>1. ExistsBijection(V, 0 .. r - 1)
    BY <1>8 DEF ExistsBijection
  <2> HIDE DEF V
  <2> QED
    BY <2>1, <1>9, FS_Bijection
<1>11. Cardinality(0 .. r - 1) = r
  BY FS_Interval
<1> QED
  BY <1>10, <1>11

-----------------------------------------------------------------------------
(* The shares of a layer *)

\* The levels are finitely many numbers of chips.
LEMMA LevelsAre ==
  ASSUME NEW t \in Table
  PROVE  /\ IsFiniteSet(Levels(t))
         /\ \A k \in Levels(t) : k \in Nat /\ 0 < k
<1> DEFINE f == [i \in Seats |-> t.total[i]]
           T == {t.total[i] : i \in Seats}
<1>1. f \in Surjection(Seats, T)
  BY DEF Surjection
<1>2. IsFiniteSet(T)
  <2> HIDE DEF f, T
  <2> QED
    BY <1>1, SeatsAreFinite, FS_Surjection
<1>3. IsFiniteSet(Levels(t))
  <2>1. Levels(t) \in SUBSET T
    BY DEF Levels
  <2> HIDE DEF T
  <2> QED
    BY <1>2, <2>1, FS_Subset
<1>4. \A k \in Levels(t) : k \in Nat /\ 0 < k
  BY DEF Levels, Table
<1> QED
  BY <1>3, <1>4

\* One layer of the pot: what is in it, who wins it, what seat i gets of it.
Height(t, l) == l - Below(Levels(t), l)
Amount(t, l) == Height(t, l) * Cardinality(Contributors(t, l))
Winners(t, showdown, l) ==
  {j \in Eligible(t, l) : showdown => \A k \in Eligible(t, l) : t.strength[k] <= t.strength[j]}
Share(t, showdown, l, i) == LayerShare(t, showdown, Below(Levels(t), l), l, i)

\* LayerShare in these words.
LEMMA ShareIs ==
  ASSUME NEW t, NEW showdown, NEW l, NEW i
  PROVE  Share(t, showdown, l, i) =
           LET W == Winners(t, showdown, l)
           IN  IF i \in W
                 THEN Amount(t, l) \div Cardinality(W)
                        + OddChip(Cardinality(Before(W, t.dealer, i)), Amount(t, l), Cardinality(W))
               ELSE IF Eligible(t, l) = {} /\ i \in Contributors(t, l)
                 THEN Amount(t, l) \div Cardinality(Contributors(t, l))
               ELSE 0
BY DEF Share, LayerShare, Winners, Amount, Height, Before

\* A layer has a height, players who contributed to it, and an amount.
LEMMA LayerIs ==
  ASSUME NEW t \in Table, NEW l \in Levels(t)
  PROVE  /\ l \in Nat /\ 0 < l
         /\ Below(Levels(t), l) \in Nat
         /\ Height(t, l) \in Nat /\ 0 < Height(t, l)
         /\ Contributors(t, l) \in SUBSET Seats /\ IsFiniteSet(Contributors(t, l))
         /\ Cardinality(Contributors(t, l)) \in Nat /\ 0 < Cardinality(Contributors(t, l))
         /\ Amount(t, l) \in Nat
<1>1. l \in Nat /\ 0 < l /\ Below(Levels(t), l) \in Nat /\ Below(Levels(t), l) < l
  BY LevelsAre, BelowIs
<1>2. Height(t, l) \in Nat /\ 0 < Height(t, l)
  BY <1>1 DEF Height
<1>3. Contributors(t, l) \in SUBSET Seats /\ IsFiniteSet(Contributors(t, l))
  <2>1. Contributors(t, l) \in SUBSET Seats
    BY DEF Contributors
  <2> QED
    BY <2>1, SeatsAreFinite, FS_Subset
<1>4. Cardinality(Contributors(t, l)) \in Nat /\ 0 < Cardinality(Contributors(t, l))
  <2>1. Contributors(t, l) # {}
    <3>1. PICK i \in Seats : l = t.total[i]
      BY DEF Levels
    <3>2. i \in Contributors(t, l)
      BY <3>1, <1>1 DEF Contributors
    <3> QED
      BY <3>2
  <2>2. Cardinality(Contributors(t, l)) \in Nat
    BY <1>3, FS_CardinalityType
  <2>3. Cardinality(Contributors(t, l)) # 0
    BY <1>3, <2>1, FS_EmptySet
  <2> QED
    BY <2>2, <2>3
<1>5. Amount(t, l) \in Nat
  BY <1>2, <1>4 DEF Amount
<1> QED
  BY <1>1, <1>2, <1>3, <1>4, <1>5

\* The winners of a layer contributed to it, and there are some if anybody is left.
LEMMA WinnersAre ==
  ASSUME NEW t \in Table, NEW showdown \in BOOLEAN, NEW l
  PROVE  /\ Winners(t, showdown, l) \in SUBSET Eligible(t, l)
         /\ Winners(t, showdown, l) \in SUBSET Seats
         /\ IsFiniteSet(Winners(t, showdown, l))
         /\ Cardinality(Winners(t, showdown, l)) \in Nat
         /\ Eligible(t, l) # {} => Winners(t, showdown, l) # {} /\ 0 < Cardinality(Winners(t, showdown, l))
<1> DEFINE E == Eligible(t, l)
           W == Winners(t, showdown, l)
<1>1. W \in SUBSET E /\ E \in SUBSET Seats
  BY DEF Winners, Eligible, Contributors
<1>2. IsFiniteSet(W) /\ Cardinality(W) \in Nat
  BY <1>1, SeatsAreFinite, FS_Subset, FS_CardinalityType
<1>3. ASSUME E # {} PROVE W # {}
  <2> DEFINE A == {t.strength[j] : j \in E}
  <2>1. A \subseteq Nat /\ A # {} /\ \A a \in A : a <= N
    <3>1. \A j \in E : t.strength[j] \in Seats
      BY <1>1 DEF Table
    <3>2. \A a \in Seats : a \in Nat /\ a <= N
      BY SeatsAtTable DEF Seats
    <3> QED
      BY <3>1, <3>2, <1>3
  <2>2. \E m \in A : \A a \in A : a <= m
    <3> HIDE DEF A
    <3> QED
      BY <2>1, SeatsAtTable, GreatestNatural
  <2>3. \E j \in E : \A k \in E : t.strength[k] <= t.strength[j]
    BY <2>2
  <2> QED
    BY <2>3 DEF Winners
<1>4. W # {} => 0 < Cardinality(W)
  BY <1>2, FS_EmptySet
<1> QED
  BY <1>1, <1>2, <1>3, <1>4

\* Division with rest, as far as it is needed.
LEMMA DivisionIs ==
  ASSUME NEW a \in Nat, NEW b \in Nat, 0 < b
  PROVE  /\ a \div b \in Nat /\ a % b \in 0 .. b - 1
         /\ (a \div b) * b + (a % b) = a
OBVIOUS

\* A multiple divides without a rest.
LEMMA ExactDivision ==
  ASSUME NEW a \in Nat, NEW b \in Nat, 0 < b
  PROVE  (a * b) \div b = a
OBVIOUS

-----------------------------------------------------------------------------
(* A layer is paid out *)

\* Sums over the seats add up.
LEMMA SeatSumOfSums ==
  ASSUME NEW f, NEW g, NEW h,
         \A i \in Seats : f[i] \in Int /\ g[i] \in Int /\ h[i] = f[i] + g[i]
  PROVE  Sum(h) = Sum(f) + Sum(g)
<1>1. SumFunctionOnSet(h, Seats) = SumFunctionOnSet(f, Seats) + SumFunctionOnSet(g, Seats)
  BY SeatsAreFinite, SumOfSums, Zenon
<1> QED
  BY <1>1, SumIs

\* The sum of the same amount for the seats of T.
LEMMA SeatSumOfConstant ==
  ASSUME NEW T \in SUBSET Seats, NEW c \in Int, NEW f,
         \A i \in Seats : f[i] = IF i \in T THEN c ELSE 0
  PROVE  Sum(f) = c * Cardinality(T)
<1>1. SumFunctionOnSet(f, Seats) = c * Cardinality(Seats \cap T)
  BY SeatsAreFinite, SumOfConstant, Zenon
<1>2. Seats \cap T = T
  OBVIOUS
<1> QED
  BY <1>1, <1>2, SumIs

\* The same members, the same sum.
LEMMA SeatSumOfSame ==
  ASSUME NEW f, NEW g, \A i \in Seats : f[i] \in Int /\ g[i] = f[i]
  PROVE  Sum(g) = Sum(f)
<1>1. SumFunctionOnSet(g, Seats) = SumFunctionOnSet(f, Seats)
  BY SeatsAreFinite, SumOfSame, Zenon
<1> QED
  BY <1>1, SumIs

\* A layer somebody still in the hand has contributed to goes to its winners,
\* to the last chip.
LEMMA WonLayerIsPaidOut ==
  ASSUME NEW t \in Table, t.dealer \in Seats, NEW showdown \in BOOLEAN, NEW l \in Levels(t),
         Eligible(t, l) # {}
  PROVE  Sum([i \in Seats |-> Share(t, showdown, l, i)]) = Amount(t, l)
<1> DEFINE W == Winners(t, showdown, l)
           size == Cardinality(W)
           each == Amount(t, l) \div size
           rest == Amount(t, l) % size
           lucky == {i \in W : Cardinality(Before(W, t.dealer, i)) < rest}
           share == [i \in Seats |-> Share(t, showdown, l, i)]
           even == [i \in Seats |-> IF i \in W THEN each ELSE 0]
           odd == [i \in Seats |-> IF i \in lucky THEN 1 ELSE 0]
<1>1. W \in SUBSET Seats /\ size \in Nat /\ 0 < size
  BY WinnersAre
<1>2. Amount(t, l) \in Nat
  BY LayerIs
<1>3. each \in Nat /\ rest \in 0 .. size - 1 /\ each * size + rest = Amount(t, l)
  BY <1>1, <1>2, DivisionIs
<1>4. \A i \in Seats : share[i] = IF i \in W
                                    THEN each + OddChip(Cardinality(Before(W, t.dealer, i)), Amount(t, l), size)
                                    ELSE 0
  BY ShareIs
<1>5. lucky \in SUBSET Seats
  BY <1>1
<1>6. Cardinality(lucky) = rest
  <2> HIDE DEF W, rest, size
  <2>1. rest \in Nat /\ rest <= size
    BY <1>1, <1>3
  <2> QED
    BY <1>1, <2>1, RanksCount DEF size
<1> HIDE DEF W, size, each
<1>7. \A i \in Seats : even[i] \in Int /\ odd[i] \in Int /\ share[i] = even[i] + odd[i]
  <2> HIDE DEF share
  <2> QED
    BY <1>3, <1>4 DEF OddChip
<1>8. \A i \in Seats : even[i] = IF i \in W THEN each ELSE 0
  OBVIOUS
<1>9. \A i \in Seats : odd[i] = IF i \in lucky THEN 1 ELSE 0
  OBVIOUS
<1> HIDE DEF share, even, odd, lucky, rest
<1>10. Sum(share) = Sum(even) + Sum(odd)
  BY <1>7, SeatSumOfSums, Zenon
<1>11. Sum(even) = each * size
  <2>1. each \in Int
    BY <1>3
  <2> QED
    BY <2>1, <1>1, <1>8, SeatSumOfConstant, Zenon DEF size
<1>12. Sum(odd) = 1 * Cardinality(lucky)
  <2>1. 1 \in Int
    OBVIOUS
  <2> QED
    BY <2>1, <1>5, <1>9, SeatSumOfConstant, Zenon
<1>13. Sum(share) = Amount(t, l)
  BY <1>3, <1>6, <1>10, <1>11, <1>12
<1> QED
  BY <1>13 DEF share

\* A layer only players who have folded contributed to goes back to them.
LEMMA LeftLayerIsPaidBack ==
  ASSUME NEW t \in Table, NEW showdown \in BOOLEAN, NEW l \in Levels(t), Eligible(t, l) = {}
  PROVE  /\ \A i \in Seats : Share(t, showdown, l, i) =
                               IF i \in Contributors(t, l) THEN Height(t, l) ELSE 0
         /\ Sum([i \in Seats |-> Share(t, showdown, l, i)]) = Amount(t, l)
<1> DEFINE C == Contributors(t, l)
           share == [i \in Seats |-> Share(t, showdown, l, i)]
<1>1. /\ C \in SUBSET Seats /\ Cardinality(C) \in Nat /\ 0 < Cardinality(C)
      /\ Height(t, l) \in Nat
  BY LayerIs
<1>2. Winners(t, showdown, l) = {}
  BY WinnersAre
<1>3. Amount(t, l) \div Cardinality(C) = Height(t, l)
  BY <1>1, ExactDivision DEF Amount
<1>4. \A i \in Seats : Share(t, showdown, l, i) = IF i \in C THEN Height(t, l) ELSE 0
  BY <1>2, <1>3, ShareIs
<1>5. \A i \in Seats : share[i] = IF i \in C THEN Height(t, l) ELSE 0
  BY <1>4
<1> HIDE DEF share, C
<1>6. Sum(share) = Height(t, l) * Cardinality(C)
  <2>1. Height(t, l) \in Int
    BY <1>1
  <2> QED
    BY <2>1, <1>1, <1>5, SeatSumOfConstant, Zenon
<1> QED
  BY <1>4, <1>6 DEF Amount, C, share

\* Every layer is paid out to the last chip.
LEMMA LayerIsPaidOut ==
  ASSUME NEW t \in Table, t.dealer \in Seats, NEW showdown \in BOOLEAN, NEW l \in Levels(t)
  PROVE  Sum([i \in Seats |-> Share(t, showdown, l, i)]) = Amount(t, l)
BY WonLayerIsPaidOut, LeftLayerIsPaidBack

\* A share is a number of chips, none for who did not contribute.
LEMMA ShareType ==
  ASSUME NEW t \in Table, NEW showdown \in BOOLEAN, NEW l \in Levels(t), NEW i \in Seats
  PROVE  /\ Share(t, showdown, l, i) \in Nat
         /\ i \notin Contributors(t, l) => Share(t, showdown, l, i) = 0
<1> DEFINE W == Winners(t, showdown, l)
<1>1. Amount(t, l) \in Nat /\ Height(t, l) \in Nat
  BY LayerIs
<1>2. CASE i \in W
  <2>1. Eligible(t, l) # {} /\ Cardinality(W) \in Nat /\ 0 < Cardinality(W)
        /\ i \in Contributors(t, l)
    BY <1>2, WinnersAre DEF Eligible
  <2>2. Amount(t, l) \div Cardinality(W) \in Nat
    BY <2>1, <1>1, DivisionIs
  <2>3. Share(t, showdown, l, i) = Amount(t, l) \div Cardinality(W)
                        + OddChip(Cardinality(Before(W, t.dealer, i)), Amount(t, l), Cardinality(W))
    BY <1>2, ShareIs
  <2> HIDE DEF W
  <2> QED
    BY <2>1, <2>2, <2>3 DEF OddChip
<1>3. CASE i \notin W /\ Eligible(t, l) = {}
  <2>1. \A j \in Seats : Share(t, showdown, l, j) =
                           IF j \in Contributors(t, l) THEN Height(t, l) ELSE 0
    BY <1>3, LeftLayerIsPaidBack, Zenon
  <2> QED
    BY <1>1, <2>1
<1>4. CASE i \notin W /\ Eligible(t, l) # {}
  BY <1>4, ShareIs
<1> QED
  BY <1>2, <1>3, <1>4

-----------------------------------------------------------------------------
(* The pot is paid out *)

\* No seat has more than all have.
LEMMA MemberAtMostSum ==
  ASSUME NEW f, \A i \in Seats : f[i] \in Nat, NEW i \in Seats
  PROVE  f[i] <= Sum(f)
<1>1. IsFiniteSet(Seats) /\ \A j \in Seats : f[j] \in Int
  BY SeatsAreFinite
<1>2. SumFunctionOnSet(f, Seats) = f[i] + SumFunctionOnSet(f, Seats \ {i})
  BY <1>1, SumSplits, Zenon
<1>3. IsFiniteSet(Seats \ {i})
  BY <1>1, FS_RemoveElement
<1>4. SumFunctionOnSet(f, Seats \ {i}) \in Nat
  BY <1>3, SumIsNatural
<1> QED
  BY <1>2, <1>4, SumIs

\* A payout is the sum of the shares in the layers.
LEMMA PayoutIs ==
  ASSUME NEW t, NEW showdown, NEW i \in Seats
  PROVE  Payouts(t, showdown)[i] =
           SumFunctionOnSet([l \in Levels(t) |-> Share(t, showdown, l, i)], Levels(t))
BY DEF Payouts, Share, SumFunction, Below

\* The layers up to x hold what every player has put in, up to x.
LEMMA PoolIs ==
  ASSUME NEW t \in Table, NEW x \in Nat,
         \A j \in Seats : Smaller(x, t.total[j]) \in Levels(t) \cup {0}
  PROVE  SumFunctionOnSet([l \in Levels(t) |-> IF l <= x THEN Amount(t, l) ELSE 0], Levels(t))
           = Sum([j \in Seats |-> Smaller(x, t.total[j])])
<1> DEFINE L == Levels(t)
           F == [j \in Seats |-> [l \in L |-> IF l <= Smaller(x, t.total[j]) THEN Height(t, l) ELSE 0]]
           G == [l \in L |-> [j \in Seats |-> IF l <= Smaller(x, t.total[j]) THEN Height(t, l) ELSE 0]]
           p == [j \in Seats |-> Smaller(x, t.total[j])]
           q == [l \in L |-> IF l <= x THEN Amount(t, l) ELSE 0]
<1>1. IsFiniteSet(L) /\ \A k \in L : k \in Nat /\ 0 < k
  BY LevelsAre
<1>2. \A l \in L : Height(t, l) \in Nat
  BY LayerIs
<1>3. F \in [Seats -> [L -> Int]] /\ G \in [L -> [Seats -> Int]]
      /\ \A j \in Seats : \A l \in L : G[l][j] = F[j][l]
  BY <1>2
<1>4. ASSUME NEW j \in Seats PROVE p[j] = SumFunctionOnSet(F[j], L)
  <2> DEFINE y == Smaller(x, t.total[j])
  <2>1. y \in L \cup {0}
    OBVIOUS
  <2>2. F[j] = [l \in L |-> IF l <= y THEN l - Below(L, l) ELSE 0]
    BY DEF Height
  <2> HIDE DEF y, L
  <2>3. SumFunctionOnSet([l \in L |-> IF l <= y THEN l - Below(L, l) ELSE 0], L) = y
    BY <1>1, <2>1, LayersAddUp
  <2> QED
    BY <2>2, <2>3 DEF y
<1>5. ASSUME NEW l \in L PROVE q[l] = SumFunctionOnSet(G[l], Seats)
  <2> DEFINE g == G[l]
             T == IF l <= x THEN Contributors(t, l) ELSE {}
  <2>1. \A j \in Seats : g[j] = IF j \in T THEN Height(t, l) ELSE 0
    <3> SUFFICES ASSUME NEW j \in Seats PROVE g[j] = IF j \in T THEN Height(t, l) ELSE 0
      OBVIOUS
    <3>1. g[j] = IF l <= Smaller(x, t.total[j]) THEN Height(t, l) ELSE 0
      OBVIOUS
    <3>2. l <= Smaller(x, t.total[j]) <=> l <= x /\ l <= t.total[j]
      BY <1>1 DEF Smaller, Table
    <3>3. j \in T <=> l <= x /\ t.total[j] >= l
      BY DEF Contributors
    <3>4. t.total[j] \in Nat /\ l \in Nat
      BY <1>1 DEF Table
    <3> HIDE DEF g, T
    <3> QED
      BY <3>1, <3>2, <3>3, <3>4
  <2>2. T \in SUBSET Seats /\ Height(t, l) \in Int
    BY <1>2, LayerIs
  <2> HIDE DEF g, T
  <2>3. Sum(g) = Height(t, l) * Cardinality(T)
    BY <2>1, <2>2, SeatSumOfConstant, Zenon
  <2>4. q[l] = Height(t, l) * Cardinality(T)
    BY FS_EmptySet, <1>2 DEF T, Amount
  <2> QED
    BY <2>3, <2>4, SumIs DEF g
<1>6. SumFunctionOnSet(p, Seats) = SumFunctionOnSet(q, L)
  <2> HIDE DEF p, q, F, G, L
  <2> QED
    <3>1. \A j \in Seats : p[j] = SumFunctionOnSet(F[j], L)
      BY <1>4
    <3>2. \A l \in L : q[l] = SumFunctionOnSet(G[l], Seats)
      BY <1>5
    <3>3. IsFiniteSet(Seats) /\ IsFiniteSet(L)
      BY <1>1, SeatsAreFinite
    <3> QED
      BY <1>3, <3>1, <3>2, <3>3, SumsSwap DEF IsGrid
<1> QED
  BY <1>6, SumIs

\* What the layers up to a player's own total hold.
LEMMA PoolOfSeat ==
  ASSUME NEW t \in Table, NEW i \in Seats
  PROVE  SumFunctionOnSet([l \in Levels(t) |-> IF l <= t.total[i] THEN Amount(t, l) ELSE 0], Levels(t))
           = Sum([j \in Seats |-> Smaller(t.total[i], t.total[j])])
<1>1. t.total[i] \in Nat
  BY DEF Table
<1>2. \A j \in Seats : Smaller(t.total[i], t.total[j]) \in Levels(t) \cup {0}
  BY DEF Levels, Smaller
<1> QED
  BY <1>1, <1>2, PoolIs

\* All the layers hold all that was put in.
LEMMA PoolOfAll ==
  ASSUME NEW t \in Table
  PROVE  SumFunctionOnSet([l \in Levels(t) |-> Amount(t, l)], Levels(t)) = Sum(t.total)
<1> DEFINE x == Sum(t.total)
<1>1. t.total \in [Seats -> Nat]
  BY DEF Table
<1>2. x \in Nat /\ \A i \in Seats : t.total[i] <= x
  BY <1>1, SeatSumType, MemberAtMostSum
<1> HIDE DEF x
<1>3. \A j \in Seats : Smaller(x, t.total[j]) = t.total[j]
  BY <1>1, <1>2 DEF Smaller
<1>4. \A j \in Seats : Smaller(x, t.total[j]) \in Levels(t) \cup {0}
  BY <1>3 DEF Levels
<1>5. SumFunctionOnSet([l \in Levels(t) |-> IF l <= x THEN Amount(t, l) ELSE 0], Levels(t))
           = Sum([j \in Seats |-> Smaller(x, t.total[j])])
  BY <1>2, <1>4, PoolIs
<1>6. [j \in Seats |-> Smaller(x, t.total[j])] = t.total
  BY <1>1, <1>3
<1>7. \A l \in Levels(t) : l <= x
  BY <1>2 DEF Levels
<1>8. [l \in Levels(t) |-> IF l <= x THEN Amount(t, l) ELSE 0] = [l \in Levels(t) |-> Amount(t, l)]
  BY <1>7
<1> QED
  BY <1>5, <1>6, <1>8

\* The payouts are the pot, to the last chip.
LEMMA PayoutsArePot ==
  ASSUME NEW t \in Table, t.dealer \in Seats, NEW showdown \in BOOLEAN
  PROVE  Sum(Payouts(t, showdown)) = Sum(t.total)
<1> DEFINE L == Levels(t)
           F == [i \in Seats |-> [l \in L |-> Share(t, showdown, l, i)]]
           G == [l \in L |-> [i \in Seats |-> Share(t, showdown, l, i)]]
           p == Payouts(t, showdown)
           q == [l \in L |-> Amount(t, l)]
<1>1. F \in [Seats -> [L -> Int]] /\ G \in [L -> [Seats -> Int]]
      /\ \A i \in Seats : \A l \in L : G[l][i] = F[i][l]
  BY ShareType
<1>2. \A i \in Seats : p[i] = SumFunctionOnSet(F[i], L)
  BY PayoutIs
<1>3. ASSUME NEW l \in L PROVE q[l] = SumFunctionOnSet(G[l], Seats)
  <2>1. G[l] = [i \in Seats |-> Share(t, showdown, l, i)]
    OBVIOUS
  <2>2. q[l] = Amount(t, l)
    OBVIOUS
  <2>3. Sum([i \in Seats |-> Share(t, showdown, l, i)]) = Amount(t, l)
    BY LayerIsPaidOut
  <2> HIDE DEF G, q
  <2> QED
    BY <2>1, <2>2, <2>3, SumIs
<1>4. SumFunctionOnSet(p, Seats) = SumFunctionOnSet(q, L)
  <2>1. IsFiniteSet(L)
    BY LevelsAre
  <2> HIDE DEF p, q, F, G, L
  <2> QED
    <3>1. \A l \in L : q[l] = SumFunctionOnSet(G[l], Seats)
      BY <1>3
    <3>2. IsFiniteSet(Seats)
      BY SeatsAreFinite
    <3> QED
      BY <2>1, <1>1, <1>2, <3>1, <3>2, SumsSwap DEF IsGrid
<1> QED
  BY <1>4, SumIs, PoolOfAll

\* Payouts are numbers of chips, none for who has put in nothing.
LEMMA PayoutType ==
  ASSUME NEW t \in Table, NEW showdown \in BOOLEAN
  PROVE  /\ Payouts(t, showdown) \in [Seats -> Nat]
         /\ \A i \in Seats : t.total[i] = 0 => Payouts(t, showdown)[i] = 0
<1>1. ASSUME NEW i \in Seats PROVE Payouts(t, showdown)[i] \in Nat
  <2> DEFINE f == [l \in Levels(t) |-> Share(t, showdown, l, i)]
  <2>1. \A l \in Levels(t) : f[l] \in Nat
    BY ShareType
  <2> HIDE DEF f
  <2>2. SumFunctionOnSet(f, Levels(t)) \in Nat
    BY <2>1, LevelsAre, SumIsNatural
  <2> QED
    BY <2>2, PayoutIs DEF f
<1>2. ASSUME NEW i \in Seats, t.total[i] = 0 PROVE Payouts(t, showdown)[i] = 0
  <2> DEFINE f == [l \in Levels(t) |-> Share(t, showdown, l, i)]
  <2>1. \A l \in Levels(t) : i \notin Contributors(t, l)
    BY <1>2, LevelsAre DEF Contributors
  <2>2. \A l \in Levels(t) : f[l] = 0
    BY <2>1, ShareType
  <2> HIDE DEF f
  <2>3. SumFunctionOnSet(f, Levels(t)) = 0
    BY <2>2, LevelsAre, SumOfZeroes
  <2> QED
    BY <2>3, PayoutIs DEF f
<1>3. Payouts(t, showdown) = [i \in Seats |-> Payouts(t, showdown)[i]]
  BY DEF Payouts
<1> QED
  BY <1>1, <1>2, <1>3

-----------------------------------------------------------------------------
(* Nobody gets what he did not match *)

\* What seat i of table t can win at most: from everybody as much as he has put in.
CoveredIn(t, i) == Sum([j \in Seats |-> Smaller(t.total[i], t.total[j])])

\* No share exceeds its layer.
LEMMA ShareAtMostAmount ==
  ASSUME NEW t \in Table, t.dealer \in Seats, NEW showdown \in BOOLEAN, NEW l \in Levels(t),
         NEW i \in Seats
  PROVE  Share(t, showdown, l, i) <= Amount(t, l)
<1> DEFINE f == [j \in Seats |-> Share(t, showdown, l, j)]
<1>1. \A j \in Seats : f[j] \in Nat
  BY ShareType
<1>2. Sum(f) = Amount(t, l)
  BY LayerIsPaidOut
<1>3. f[i] = Share(t, showdown, l, i)
  OBVIOUS
<1> HIDE DEF f
<1>4. f[i] <= Sum(f)
  BY <1>1, MemberAtMostSum
<1> QED
  BY <1>2, <1>3, <1>4

\* Nobody gets from another player more than he himself has put in.
LEMMA PayoutsAreCovered ==
  ASSUME NEW t \in Table, t.dealer \in Seats, NEW showdown \in BOOLEAN, NEW i \in Seats
  PROVE  Payouts(t, showdown)[i] <= CoveredIn(t, i)
<1> DEFINE L == Levels(t)
           f == [l \in L |-> Share(t, showdown, l, i)]
           g == [l \in L |-> IF l <= t.total[i] THEN Amount(t, l) ELSE 0]
<1>1. ASSUME NEW l \in L PROVE f[l] \in Int /\ g[l] \in Int /\ f[l] <= g[l]
  <2>1. Share(t, showdown, l, i) \in Nat /\ Amount(t, l) \in Nat
        /\ Share(t, showdown, l, i) <= Amount(t, l)
    BY ShareType, LayerIs, ShareAtMostAmount
  <2>2. ~(l <= t.total[i]) => Share(t, showdown, l, i) = 0
    <3>1. l \in Nat /\ t.total[i] \in Nat
      BY LayerIs DEF Table
    <3>2. ~(l <= t.total[i]) => i \notin Contributors(t, l)
      BY <3>1 DEF Contributors
    <3> QED
      BY <3>2, ShareType
  <2> QED
    BY <2>1, <2>2
<1>2. IsFiniteSet(L)
  BY LevelsAre
<1>3. SumFunctionOnSet(f, L) <= SumFunctionOnSet(g, L)
  <2>1. \A l \in L : f[l] \in Int /\ g[l] \in Int /\ f[l] <= g[l]
    BY <1>1
  <2> HIDE DEF f, g, L
  <2> QED
    BY <1>2, <2>1, SumAtMost
<1> QED
  BY <1>3, PayoutIs, PoolOfSeat DEF CoveredIn

\* The best hand, when it is alone, gets all it can.
LEMMA BestIsCovered ==
  ASSUME NEW t \in Table, NEW showdown \in BOOLEAN, NEW i \in Live(t),
         \/ Live(t) = {i}
         \/ showdown /\ \A j \in Live(t) \ {i} : t.strength[j] < t.strength[i]
  PROVE  Payouts(t, showdown)[i] = CoveredIn(t, i)
<1> DEFINE L == Levels(t)
           f == [l \in L |-> Share(t, showdown, l, i)]
           g == [l \in L |-> IF l <= t.total[i] THEN Amount(t, l) ELSE 0]
<1>0. i \in Seats /\ Live(t) \in SUBSET Seats
  BY DEF Live
<1>1. ASSUME NEW l \in L PROVE g[l] \in Int /\ f[l] = g[l]
  <2>1. l \in Nat /\ t.total[i] \in Nat /\ Amount(t, l) \in Nat
    BY <1>0, LayerIs DEF Table
  <2>2. CASE ~(l <= t.total[i])
    <3>1. i \notin Contributors(t, l)
      BY <2>1, <2>2 DEF Contributors
    <3> QED
      BY <3>1, <2>2, <1>0, ShareType
  <2>3. CASE l <= t.total[i]
    <3> DEFINE W == Winners(t, showdown, l)
    <3>1. i \in Eligible(t, l) /\ Eligible(t, l) \in SUBSET Live(t)
      BY <2>3, <2>1, <1>0 DEF Eligible, Contributors
    <3>2. \A j \in Live(t) : t.strength[j] \in Nat
      BY <1>0, SeatsAreFinite DEF Table
    <3>3. W = {i}
      BY <3>1, <3>2 DEF Winners
    <3>4. Cardinality(W) = 1
      BY <3>3, FS_Singleton
    <3>5. Share(t, showdown, l, i) = Amount(t, l) \div 1
                        + OddChip(Cardinality(Before(W, t.dealer, i)), Amount(t, l), 1)
      BY <3>3, <3>4, ShareIs
    <3>6. Amount(t, l) \div 1 = Amount(t, l) /\ Amount(t, l) % 1 = 0
      BY <2>1
    <3>7. Cardinality(Before(W, t.dealer, i)) \in Nat
      <4>1. IsFiniteSet(W) /\ Before(W, t.dealer, i) \in SUBSET W
        BY <3>3, FS_Singleton DEF Before
      <4> QED
        BY <4>1, FS_Subset, FS_CardinalityType
    <3>8. OddChip(Cardinality(Before(W, t.dealer, i)), Amount(t, l), 1) = 0
      BY <3>6, <3>7 DEF OddChip
    <3> QED
      BY <3>5, <3>6, <3>8, <2>1, <2>3
  <2> QED
    BY <2>2, <2>3
<1>2. SumFunctionOnSet(f, L) = SumFunctionOnSet(g, L)
  <2>1. \A l \in L : g[l] \in Int /\ f[l] = g[l]
    BY <1>1
  <2>2. IsFiniteSet(L)
    BY LevelsAre
  <2> HIDE DEF f, g, L
  <2> QED
    BY <2>1, <2>2, SumOfSame, Zenon
<1> QED
  BY <1>0, <1>2, PayoutIs, PoolOfSeat DEF CoveredIn

\* The heights of the layers up to a total add up to it.
LEMMA HeightsAddUp ==
  ASSUME NEW t \in Table, NEW x \in Levels(t) \cup {0}
  PROVE  SumFunctionOnSet([l \in Levels(t) |-> IF l <= x THEN Height(t, l) ELSE 0], Levels(t)) = x
<1>1. [l \in Levels(t) |-> IF l <= x THEN Height(t, l) ELSE 0]
        = [l \in Levels(t) |-> IF l <= x THEN l - Below(Levels(t), l) ELSE 0]
  BY DEF Height
<1> QED
  BY <1>1, LevelsAre, LayersAddUp

\* Who has folded gets back only what no player left could match.
LEMMA FoldedGetUnmatched ==
  ASSUME NEW t \in Table, NEW showdown \in BOOLEAN, NEW i \in t.folded, Live(t) # {}
  PROVE  Payouts(t, showdown)[i] = Larger(0, t.total[i] - Max({t.total[j] : j \in Live(t)}))
<1> DEFINE L == Levels(t)
           A == {t.total[j] : j \in Live(t)}
           M == Max(A)
           y == Smaller(t.total[i], M)
           f == [l \in L |-> Share(t, showdown, l, i)]
           g == [l \in L |-> IF l <= y THEN Height(t, l) ELSE 0]
           h == [l \in L |-> IF l <= t.total[i] THEN Height(t, l) ELSE 0]
<1>0. i \in Seats /\ i \notin Live(t) /\ Live(t) \in SUBSET Seats
      /\ \A j \in Seats : t.total[j] \in Nat
  BY DEF Live, Table
<1>1. M \in A /\ \A a \in A : a <= M
  <2>1. A \subseteq Nat
    BY <1>0
  <2>2. A # {}
    OBVIOUS
  <2>3. \A a \in A : a <= Sum(t.total)
    BY <1>0, MemberAtMostSum
  <2>4. Sum(t.total) \in Nat
    BY SeatSumType DEF Table
  <2> HIDE DEF A
  <2> QED
    BY <2>1, <2>2, <2>3, <2>4, GreatestNatural
<1>2. M \in Nat /\ M \in L \cup {0} /\ \A j \in Live(t) : t.total[j] <= M
  BY <1>0, <1>1 DEF Levels
<1>3. \E j \in Live(t) : t.total[j] = M
  BY <1>1
<1> HIDE DEF M, A
<1>4. y \in L \cup {0} /\ t.total[i] \in L \cup {0} /\ y \in Nat
  BY <1>0, <1>2 DEF Levels, Smaller
<1>5. ASSUME NEW l \in L PROVE f[l] \in Int /\ g[l] \in Int /\ h[l] = f[l] + g[l]
  <2>1. l \in Nat /\ Height(t, l) \in Nat
    BY LayerIs
  <2>2. Eligible(t, l) = {} <=> M < l
    BY <1>0, <1>2, <1>3, <2>1 DEF Eligible, Contributors
  <2>3. i \in Contributors(t, l) <=> l <= t.total[i]
    BY <1>0, <2>1 DEF Contributors
  <2>4. i \notin Winners(t, showdown, l)
    BY <1>0 DEF Winners, Eligible
  <2>5. Share(t, showdown, l, i) = IF M < l /\ l <= t.total[i] THEN Height(t, l) ELSE 0
    <3>1. CASE Eligible(t, l) = {}
      <4>1. Share(t, showdown, l, i) = IF i \in Contributors(t, l) THEN Height(t, l) ELSE 0
        BY <3>1, <1>0, LeftLayerIsPaidBack, Zenon
      <4> QED
        BY <4>1, <3>1, <2>2, <2>3
    <3>2. CASE Eligible(t, l) # {}
      BY <3>2, <2>2, <2>4, ShareIs
    <3> QED
      BY <3>1, <3>2
  <2>6. l <= y <=> l <= t.total[i] /\ l <= M
    BY <1>0, <1>2, <2>1 DEF Smaller
  <2> HIDE DEF y
  <2> QED
    BY <2>1, <2>5, <2>6, <1>0, <1>2
<1>6. SumFunctionOnSet(h, L) = SumFunctionOnSet(f, L) + SumFunctionOnSet(g, L)
  <2>1. \A l \in L : f[l] \in Int /\ g[l] \in Int /\ h[l] = f[l] + g[l]
    BY <1>5
  <2>2. IsFiniteSet(L)
    BY LevelsAre
  <2> HIDE DEF f, g, h, L
  <2> QED
    BY <2>1, <2>2, SumOfSums, Zenon
<1>7. SumFunctionOnSet(h, L) = t.total[i]
  BY <1>4, HeightsAddUp
<1>8. SumFunctionOnSet(g, L) = y
  <2> HIDE DEF y
  <2> QED
    BY <1>4, HeightsAddUp
<1>9. SumFunctionOnSet(f, L) = Payouts(t, showdown)[i]
  BY <1>0, PayoutIs
<1>10. Payouts(t, showdown)[i] \in Nat
  BY <1>0, PayoutType
<1>11. Payouts(t, showdown)[i] = t.total[i] - y
  <2> HIDE DEF f, g, h, y
  <2> QED
    BY <1>0, <1>4, <1>6, <1>7, <1>8, <1>9, <1>10
<1> QED
  BY <1>11, <1>0, <1>2 DEF Smaller, Larger, M, A

-----------------------------------------------------------------------------
(* The parts of the invariant, and the end of a hand *)

\* The phases of a hand that is being played.
Streets == {"preflop", "flop", "turn", "river"}

\* The parts of the invariant, of any table t.
InHand(t) == t.phase \in Streets /\ t.dealer \in Seats /\ 0 < t.lastRaise
Waits(t) == t.actor \in t.pending /\ t.pending \subseteq CanAct(t) /\ Cardinality(Live(t)) >= 2
Matched(t) == /\ \A i \in CanAct(t) \ t.pending : t.bet[i] = t.currentBet
              /\ \A i \in Seats : t.bet[i] <= t.currentBet
Booked(t) == t.pot = Sum(t.total) /\ \A i \in Seats : t.bet[i] <= t.total[i]

\* SidePotsAreFair, of any table.
PaidFairly(t) ==
  /\ \A i \in Live(t) : t.payouts[i] <= CoveredIn(t, i)
  /\ \A i \in t.folded \cap {i \in Seats : t.total[i] > 0} :
       t.payouts[i] = Larger(0, t.total[i] - Max({t.total[j] : j \in Live(t)}))
  /\ \A i \in Live(t) :
       (\A j \in Live(t) \ {i} : t.strength[j] < t.strength[i]) => t.payouts[i] = CoveredIn(t, i)

\* What is true of a hand that has been settled.
Settled(t) == Sum(t.payouts) = t.lastPot /\ PaidFairly(t)

\* A hand between the move that has been made and the one that comes next.
Underway(t) == t \in Table /\ InHand(t) /\ Matched(t) /\ Booked(t) /\ Live(t) # {}

\* What is at stake: the chips of the players and the pot.
Worth(t) == Sum(t.chips) + t.pot

\* How a table is left when the hand has ended, from t to u.
Ends(t, u) ==
  /\ u \in Table /\ u.phase = "done" /\ u.actor = Nobody /\ u.pot = 0
  /\ Settled(u)
  /\ Worth(u) = Worth(t)
  /\ \A i \in Seats : t.chips[i] = 0 /\ t.total[i] = 0 => u.chips[i] = 0

\* How it is left when it is somebody's turn.
GoesOn(t, u) ==
  /\ u \in Table /\ InHand(u) /\ Waits(u) /\ Matched(u) /\ Booked(u)
  /\ u.chips = t.chips /\ u.total = t.total /\ u.pot = t.pot
  /\ \/ u.phase = t.phase /\ u.pending \subseteq t.pending
     \/ StreetsLeft(u) < StreetsLeft(t)

\* finish, with what it pays.
LEMMA FinishIs ==
  ASSUME NEW t \in Table, NEW showdown \in BOOLEAN
  PROVE  LET u == Finish(t, showdown)
         IN  /\ u \in Table
             /\ u.payouts = Payouts(t, showdown)
             /\ u.chips = [i \in Seats |-> t.chips[i] + Payouts(t, showdown)[i]]
             /\ u.lastPot = t.pot /\ u.pot = 0 /\ u.actor = Nobody /\ u.phase = "done"
             /\ u.folded = t.folded /\ u.total = t.total /\ u.strength = t.strength
<1> DEFINE p == Payouts(t, showdown)
           c == [i \in Seats |-> t.chips[i] + p[i]]
           u == Finish(t, showdown)
<1>1. p \in [Seats -> Nat]
  BY PayoutType
<1>2. c \in [Seats -> Nat]
  BY <1>1 DEF Table
<1>3. u = [t EXCEPT !.payouts = p, !.lastPot = t.pot, !.chips = c,
                    !.pot = 0, !.actor = Nobody, !.phase = "done"]
  BY DEF Finish
<1> HIDE DEF p, c, u
<1>4. t.pot \in Nat
  BY DEF Table
<1>5. u \in Table
  BY <1>1, <1>2, <1>3, <1>4 DEF Table, Phases
<1>6. /\ u.payouts = p /\ u.chips = c
      /\ u.lastPot = t.pot /\ u.pot = 0 /\ u.actor = Nobody /\ u.phase = "done"
      /\ u.folded = t.folded /\ u.total = t.total /\ u.strength = t.strength
  BY <1>3 DEF Table
<1> QED
  BY <1>5, <1>6 DEF p, c, u

\* finish pays the pot, to those it belongs to.
LEMMA FinishEnds ==
  ASSUME NEW t \in Table, t.dealer \in Seats, t.pot = Sum(t.total), Live(t) # {},
         NEW showdown \in BOOLEAN, showdown \/ \E i \in Seats : Live(t) = {i}
  PROVE  Ends(t, Finish(t, showdown))
<1> DEFINE u == Finish(t, showdown)
           p == Payouts(t, showdown)
<1>1. /\ u \in Table /\ u.payouts = p
      /\ u.chips = [i \in Seats |-> t.chips[i] + p[i]]
      /\ u.lastPot = t.pot /\ u.pot = 0 /\ u.actor = Nobody /\ u.phase = "done"
      /\ u.folded = t.folded /\ u.total = t.total /\ u.strength = t.strength
  BY FinishIs
<1>2. /\ p \in [Seats -> Nat]
      /\ \A i \in Seats : t.total[i] = 0 => p[i] = 0
  BY PayoutType
<1>3. Sum(p) = t.pot
  BY PayoutsArePot
<1> HIDE DEF u
<1>4. Worth(u) = Worth(t)
  <2>1. \A i \in Seats : t.chips[i] \in Int /\ p[i] \in Int /\ u.chips[i] = t.chips[i] + p[i]
    BY <1>1, <1>2 DEF Table
  <2>2. Sum(u.chips) = Sum(t.chips) + Sum(p)
    <3> HIDE DEF p
    <3> QED
      BY <2>1, SeatSumOfSums
  <2>3. Sum(t.chips) \in Nat /\ t.pot \in Nat
    BY SeatSumType DEF Table
  <2> QED
    BY <2>2, <2>3, <1>1, <1>3 DEF Worth
<1>5. \A i \in Seats : t.chips[i] = 0 /\ t.total[i] = 0 => u.chips[i] = 0
  BY <1>1, <1>2
<1>6. Live(u) = Live(t) /\ \A i \in Seats : CoveredIn(u, i) = CoveredIn(t, i)
  BY <1>1 DEF Live, CoveredIn
<1>7. Live(t) \in SUBSET Seats
  BY DEF Live
<1>8. \A i \in Live(u) : u.payouts[i] <= CoveredIn(u, i)
  BY <1>1, <1>6, <1>7, PayoutsAreCovered
<1>9. \A i \in u.folded : u.payouts[i] = Larger(0, u.total[i] - Max({u.total[j] : j \in Live(u)}))
  BY <1>1, <1>6, FoldedGetUnmatched
<1>10. ASSUME NEW i \in Live(u), \A j \in Live(u) \ {i} : u.strength[j] < u.strength[i]
       PROVE  u.payouts[i] = CoveredIn(u, i)
  <2>1. i \in Live(t)
    BY <1>6
  <2>2. \A j \in Live(t) \ {i} : t.strength[j] < t.strength[i]
    BY <1>1, <1>6, <1>10
  <2>3. Live(t) = {i} \/ showdown
    BY <2>1
  <2>4. p[i] = CoveredIn(t, i)
    BY <2>1, <2>2, <2>3, BestIsCovered
  <2> QED
    BY <2>4, <2>1, <1>1, <1>6, <1>7
<1>11. PaidFairly(u)
  BY <1>8, <1>9, <1>10 DEF PaidFairly
<1>12. Settled(u)
  BY <1>1, <1>3, <1>11 DEF Settled
<1> QED
  BY <1>1, <1>4, <1>5, <1>12 DEF Ends, u

-----------------------------------------------------------------------------
(* advance *)

\* The players in the hand, and those who can act, are finitely many.
LEMMA LiveIs ==
  ASSUME NEW t
  PROVE  /\ Live(t) \in SUBSET Seats /\ IsFiniteSet(Live(t)) /\ Cardinality(Live(t)) \in Nat
         /\ CanAct(t) \in SUBSET Live(t) /\ IsFiniteSet(CanAct(t)) /\ Cardinality(CanAct(t)) \in Nat
<1>1. Live(t) \in SUBSET Seats /\ CanAct(t) \in SUBSET Live(t)
  BY DEF Live, CanAct
<1>2. IsFiniteSet(Live(t)) /\ IsFiniteSet(CanAct(t))
  BY <1>1, SeatsAreFinite, FS_Subset
<1> QED
  BY <1>1, <1>2, FS_CardinalityType

\* The next street, before anybody acts.
LEMMA NewStreetIs ==
  ASSUME NEW t \in Table
  PROVE  LET u == NewStreet(t)
         IN  /\ u \in Table
             /\ u.currentBet = 0 /\ u.lastRaise = BigBlind /\ u.pending = CanAct(t)
             /\ u.bet = [i \in Seats |-> 0]
             /\ u.phase = t.phase /\ u.dealer = t.dealer /\ u.pot = t.pot
             /\ u.folded = t.folded /\ u.chips = t.chips /\ u.total = t.total
<1> DEFINE u == NewStreet(t)
           b == [i \in Seats |-> 0]
           lb == [i \in Seats |-> -1]
<1>1. u = [t EXCEPT !.currentBet = 0, !.lastRaise = BigBlind, !.bet = b, !.lastBet = lb,
                    !.pending = CanAct(t)]
  BY DEF NewStreet
<1>2. b \in [Seats -> Nat] /\ lb \in [Seats -> Nat \cup {-1}]
  OBVIOUS
<1>3. CanAct(t) \in SUBSET Seats /\ BigBlind \in Nat
  BY LiveIs, BlindsAreOrdered
<1> HIDE DEF b, lb, u
<1>4. u \in Table
  BY <1>1, <1>2, <1>3 DEF Table
<1>5. /\ u.currentBet = 0 /\ u.lastRaise = BigBlind /\ u.pending = CanAct(t) /\ u.bet = b
      /\ u.phase = t.phase /\ u.dealer = t.dealer /\ u.pot = t.pot
      /\ u.folded = t.folded /\ u.chips = t.chips /\ u.total = t.total
  BY <1>1 DEF Table
<1> QED
  BY <1>4, <1>5 DEF u, b

\* A showdown ends the hand.
LEMMA ShownEnds ==
  ASSUME NEW t \in Table, t.dealer \in Seats, t.pot = Sum(t.total), Live(t) # {},
         NEW u \in Shown(t)
  PROVE  Ends(t, u)
<1>1. PICK ranks \in Rankings(Live(t)) :
        u = Finish([t EXCEPT !.pending = {}, !.strength = ranks], TRUE)
  BY DEF Shown
<1> DEFINE s == [t EXCEPT !.pending = {}, !.strength = ranks]
<1>2. ranks \in [Seats -> Seats]
  BY <1>1 DEF Rankings
<1>3. s \in Table
  BY <1>2 DEF Table
<1>4. /\ s.dealer = t.dealer /\ s.pot = t.pot /\ s.total = t.total /\ s.folded = t.folded
      /\ s.chips = t.chips
  BY DEF Table
<1>5. u = Finish(s, TRUE)
  BY <1>1
<1> HIDE DEF s
<1>6. Live(s) = Live(t) /\ Worth(s) = Worth(t)
  BY <1>4 DEF Live, Worth
<1>7. Ends(s, u)
  BY <1>3, <1>4, <1>5, <1>6, FinishEnds
<1> QED
  BY <1>4, <1>6, <1>7 DEF Ends

\* advance waits for the next player that has not acted.
LEMMA WaitsForNext ==
  ASSUME NEW t, Underway(t), NEW from \in Seats, Cardinality(Live(t)) # 1,
         NEW waiting, waiting = t.pending \cap CanAct(t), waiting # {}
  PROVE  GoesOn(t, [t EXCEPT !.pending = waiting, !.actor = NextOf(from, waiting)])
<1> DEFINE u == [t EXCEPT !.pending = waiting, !.actor = NextOf(from, waiting)]
<1>1. t \in Table /\ InHand(t) /\ Matched(t) /\ Booked(t) /\ Live(t) # {}
  BY DEF Underway
<1>2. waiting \in SUBSET Seats
  BY <1>1 DEF Table
<1>3. NextOf(from, waiting) \in waiting
  BY <1>2, NextIsIn
<1>4. u \in Table
  BY <1>1, <1>2, <1>3 DEF Table
<1>5. /\ u.pending = waiting /\ u.actor = NextOf(from, waiting)
      /\ u.phase = t.phase /\ u.dealer = t.dealer /\ u.lastRaise = t.lastRaise
      /\ u.pot = t.pot /\ u.folded = t.folded /\ u.chips = t.chips /\ u.total = t.total
      /\ u.bet = t.bet /\ u.currentBet = t.currentBet
  BY <1>1 DEF Table
<1> HIDE DEF u
<1>6. Live(u) = Live(t) /\ CanAct(u) = CanAct(t)
  BY <1>5 DEF Live, CanAct
<1>7. Cardinality(Live(u)) >= 2
  BY <1>1, <1>6, LiveIs, FS_EmptySet
<1>8. InHand(u) /\ Waits(u) /\ Booked(u)
  BY <1>1, <1>3, <1>5, <1>6, <1>7 DEF InHand, Waits, Booked
<1>9. Matched(u)
  BY <1>1, <1>5, <1>6 DEF Matched
<1>10. u.pending \subseteq t.pending
  BY <1>5
<1> QED
  BY <1>4, <1>5, <1>8, <1>9, <1>10 DEF GoesOn, u

\* advance opens the next street.
LEMMA NextStreetGoesOn ==
  ASSUME NEW t, Underway(t), Cardinality(Live(t)) # 1, t.phase # "river",
         Cardinality(CanAct(t)) >= 2
  PROVE  GoesOn(t, [NewStreet(t) EXCEPT !.phase = NextPhase[t.phase],
                                        !.actor = NextOf(t.dealer, CanAct(t))])
<1> DEFINE n == NewStreet(t)
           a == NextOf(t.dealer, CanAct(t))
           ph == NextPhase[t.phase]
           u == [n EXCEPT !.phase = ph, !.actor = a]
<1>1. t \in Table /\ InHand(t) /\ Booked(t) /\ Live(t) # {}
  BY DEF Underway
<1>2. /\ n \in Table
      /\ n.currentBet = 0 /\ n.lastRaise = BigBlind /\ n.pending = CanAct(t)
      /\ n.bet = [i \in Seats |-> 0]
      /\ n.phase = t.phase /\ n.dealer = t.dealer /\ n.pot = t.pot
      /\ n.folded = t.folded /\ n.chips = t.chips /\ n.total = t.total
  BY <1>1, NewStreetIs
<1>3. a \in CanAct(t) /\ CanAct(t) \in SUBSET Seats
  <2>1. CanAct(t) # {} /\ CanAct(t) \in SUBSET Seats
    BY LiveIs, FS_EmptySet
  <2> QED
    BY <2>1, <1>1, NextIsIn DEF InHand
<1>4. ph \in Streets /\ (t.phase = "preflop" => ph = "flop") /\ (t.phase = "flop" => ph = "turn")
      /\ (t.phase = "turn" => ph = "river")
  BY <1>1 DEF NextPhase, InHand, Streets
<1>5. t.phase \in {"preflop", "flop", "turn"}
  BY <1>1 DEF InHand, Streets
<1> HIDE DEF n, a, ph
<1>6. u \in Table
  BY <1>2, <1>3, <1>4 DEF Table, Phases, Streets
<1>7. /\ u.phase = ph /\ u.actor = a
      /\ u.currentBet = 0 /\ u.lastRaise = BigBlind /\ u.pending = CanAct(t)
      /\ u.bet = [i \in Seats |-> 0]
      /\ u.dealer = t.dealer /\ u.pot = t.pot
      /\ u.folded = t.folded /\ u.chips = t.chips /\ u.total = t.total
  BY <1>2 DEF Table
<1> HIDE DEF u
<1>8. Live(u) = Live(t) /\ CanAct(u) = CanAct(t)
  BY <1>7 DEF Live, CanAct
<1>9. Cardinality(Live(u)) >= 2
  BY <1>1, <1>8, LiveIs, FS_EmptySet
<1>10. InHand(u)
  BY <1>1, <1>4, <1>7, BlindsAreOrdered DEF InHand
<1>11. Waits(u) /\ Matched(u)
  BY <1>3, <1>7, <1>8, <1>9 DEF Waits, Matched
<1>12. Booked(u)
  BY <1>1, <1>6, <1>7 DEF Booked, Table
<1>13. StreetsLeft(u) < StreetsLeft(t)
  BY <1>4, <1>5, <1>7 DEF StreetsLeft
<1> QED
  BY <1>6, <1>7, <1>10, <1>11, <1>12, <1>13 DEF GoesOn, u, n, a, ph

\* advance ends the hand or makes it somebody's turn.
LEMMA AdvanceLeads ==
  ASSUME NEW t, Underway(t), NEW from \in Seats, NEW u \in Advance(t, from)
  PROVE  Ends(t, u) \/ GoesOn(t, u)
<1> DEFINE able    == CanAct(t)
           settled == able = {} \/ \E i \in able : able = {i} /\ t.bet[i] >= t.currentBet
           waiting == IF settled THEN {} ELSE t.pending \cap able
<1>1. t \in Table /\ t.dealer \in Seats /\ t.pot = Sum(t.total) /\ Live(t) # {}
  BY DEF Underway, InHand, Booked
<1>2. CASE Cardinality(Live(t)) = 1
  <2>1. u = Finish(t, FALSE)
    BY <1>2 DEF Advance
  <2>2. \E i \in Seats : Live(t) = {i}
    BY <1>2, LiveIs, FS_Singleton
  <2> QED
    BY <2>1, <2>2, <1>1, FinishEnds
<1>3. CASE Cardinality(Live(t)) # 1 /\ waiting # {}
  <2>1. u = [t EXCEPT !.pending = waiting, !.actor = NextOf(from, waiting)]
    BY <1>3, Zenon DEF Advance
  <2>2. waiting = t.pending \cap CanAct(t)
    BY <1>3
  <2> HIDE DEF waiting
  <2> QED
    BY <2>1, <2>2, <1>3, WaitsForNext
<1>4. CASE Cardinality(Live(t)) # 1 /\ waiting = {} /\ t.phase = "river"
  <2>1. u \in Shown(t)
    BY <1>4, Zenon DEF Advance
  <2> QED
    BY <2>1, <1>1, ShownEnds
<1>5. CASE Cardinality(Live(t)) # 1 /\ waiting = {} /\ t.phase # "river" /\ Cardinality(able) < 2
  <2> DEFINE n == NewStreet(t)
  <2>1. u \in Shown(n)
    BY <1>5, Zenon DEF Advance
  <2>2. /\ n \in Table /\ n.dealer = t.dealer /\ n.pot = t.pot
        /\ n.folded = t.folded /\ n.chips = t.chips /\ n.total = t.total
    BY <1>1, NewStreetIs
  <2> HIDE DEF n
  <2>3. Live(n) = Live(t) /\ Worth(n) = Worth(t)
    BY <2>2 DEF Live, Worth
  <2>4. Ends(n, u)
    BY <2>1, <2>2, <2>3, <1>1, ShownEnds
  <2>5. Ends(t, u)
    BY <2>2, <2>3, <2>4 DEF Ends
  <2> QED
    BY <2>5
<1>6. CASE Cardinality(Live(t)) # 1 /\ waiting = {} /\ t.phase # "river" /\ ~(Cardinality(able) < 2)
  <2>1. u = [NewStreet(t) EXCEPT !.phase = NextPhase[t.phase], !.actor = NextOf(t.dealer, able)]
    BY <1>6, Zenon DEF Advance
  <2>2. Cardinality(able) >= 2
    BY <1>6, LiveIs
  <2> QED
    BY <2>1, <2>2, <1>6, NextStreetGoesOn
<1> QED
  BY <1>2, <1>3, <1>4, <1>5, <1>6

-----------------------------------------------------------------------------
(* The deal *)

\* What is a seat's own: the chips it holds and those it has put in.
Own(t, i) == t.chips[i] + t.total[i]

\* A payment keeps the books and everybody's own.
LEMMA PaymentMoves ==
  ASSUME NEW t \in Table, NEW i \in Seats, NEW u, NEW paid, IsPayment(t, u, i, paid)
  PROVE  /\ Worth(u) = Worth(t)
         /\ t.pot = Sum(t.total) => u.pot = Sum(u.total)
         /\ \A j \in Seats : Own(u, j) = Own(t, j)
         /\ (\A j \in Seats : t.bet[j] <= t.total[j]) => \A j \in Seats : u.bet[j] <= u.total[j]
         /\ \A j \in Seats : j # i => u.chips[j] = t.chips[j] /\ u.bet[j] = t.bet[j]
         /\ u.chips[i] = t.chips[i] - paid /\ u.bet[i] = t.bet[i] + paid
<1>1. /\ u \in Table /\ paid \in Nat
      /\ u.chips = [t.chips EXCEPT ![i] = t.chips[i] - paid]
      /\ u.bet   = [t.bet EXCEPT ![i] = t.bet[i] + paid]
      /\ u.total = [t.total EXCEPT ![i] = t.total[i] + paid]
      /\ u.pot   = t.pot + paid
  BY DEF IsPayment
<1>2. /\ t.chips \in [Seats -> Nat] /\ t.total \in [Seats -> Nat] /\ t.bet \in [Seats -> Nat]
      /\ t.pot \in Nat
  BY DEF Table
<1>3. Sum(u.total) = Sum(t.total) + paid /\ Sum(u.chips) = Sum(t.chips) - paid
  BY PayBooks
<1>4. Sum(t.chips) \in Nat /\ Sum(t.total) \in Nat
  BY <1>2, SeatSumType
<1>5. Worth(u) = Worth(t)
  BY <1>1, <1>2, <1>3, <1>4 DEF Worth
<1>6. t.pot = Sum(t.total) => u.pot = Sum(u.total)
  BY <1>1, <1>3
<1>7. ASSUME NEW j \in Seats
      PROVE  /\ Own(u, j) = Own(t, j)
             /\ t.bet[j] <= t.total[j] => u.bet[j] <= u.total[j]
             /\ j # i => u.chips[j] = t.chips[j] /\ u.bet[j] = t.bet[j]
  BY <1>1, <1>2 DEF Own
<1>8. u.chips[i] = t.chips[i] - paid /\ u.bet[i] = t.bet[i] + paid
  BY <1>1, <1>2
<1> QED
  BY <1>5, <1>6, <1>7, <1>8

\* The deal before the blinds.
Fresh(t) ==
  LET alive == Solvent(t)
  IN  [t EXCEPT !.hand = @ + 1, !.phase = "preflop", !.dealer = NextOf(t.dealer, alive),
                !.pot = 0, !.payouts = [i \in Seats |-> 0],
                !.bet = [i \in Seats |-> 0], !.total = [i \in Seats |-> 0],
                !.lastBet = [i \in Seats |-> -1], !.folded = Seats \ alive,
                !.currentBet = BigBlind, !.lastRaise = BigBlind,
                !.strength = NoShowdown]

\* Who pays the blinds, and the table when they are paid.
SmallSeat(t) ==
  LET alive  == Solvent(t)
      dealer == NextOf(t.dealer, alive)
  IN  IF Cardinality(alive) > 2 THEN NextOf(dealer, alive) ELSE dealer
BigSeat(t) == NextOf(SmallSeat(t), Solvent(t))
Blinded(t) == Pay(Pay(Fresh(t), SmallSeat(t), SmallBlind), BigSeat(t), BigBlind)

\* The deal is these parts.
LEMMA DealtIs ==
  ASSUME NEW t
  PROVE  /\ Dealt(t).table = [Blinded(t) EXCEPT !.pending = CanAct(Blinded(t))]
         /\ Dealt(t).big = BigSeat(t)
BY DEF Dealt, Blinded, BigSeat, SmallSeat, Fresh, Solvent

\* The two blinds are paid by two players with chips.
LEMMA BlindsAreOthers ==
  ASSUME NEW t \in Table, Cardinality(Solvent(t)) >= 2
  PROVE  /\ Solvent(t) \in SUBSET Seats /\ Solvent(t) # {}
         /\ NextOf(t.dealer, Solvent(t)) \in Solvent(t)
         /\ SmallSeat(t) \in Solvent(t) /\ BigSeat(t) \in Solvent(t)
         /\ BigSeat(t) # SmallSeat(t)
<1> DEFINE alive == Solvent(t)
<1>1. alive \in SUBSET Seats
  BY DEF Solvent
<1>2. IsFiniteSet(alive) /\ alive # {}
  BY <1>1, SeatsAreFinite, FS_Subset, FS_EmptySet
<1>3. NextOf(t.dealer, alive) \in alive
  BY <1>1, <1>2, NextIsIn DEF Table
<1>4. SmallSeat(t) \in alive
  BY <1>1, <1>2, <1>3, NextIsIn DEF SmallSeat
<1>5. BigSeat(t) \in alive
  BY <1>1, <1>2, <1>4, NextIsIn DEF BigSeat
<1>6. \E j \in alive : j # SmallSeat(t)
  <2> SUFFICES ASSUME alive = {SmallSeat(t)} PROVE FALSE
    BY <1>4
  <2> QED
    BY FS_Singleton
<1>7. BigSeat(t) # SmallSeat(t)
  BY <1>1, <1>4, <1>6, NextIsAnother DEF BigSeat
<1> QED
  BY <1>1, <1>2, <1>3, <1>4, <1>5, <1>7

\* The table after the deal, before the blinds.
LEMMA FreshIs ==
  ASSUME NEW t \in Table, Cardinality(Solvent(t)) >= 2
  PROVE  LET u == Fresh(t)
         IN  /\ u \in Table
             /\ u.phase = "preflop" /\ u.dealer \in Seats /\ u.pot = 0
             /\ u.bet = [i \in Seats |-> 0] /\ u.total = [i \in Seats |-> 0]
             /\ u.folded = Seats \ Solvent(t)
             /\ u.currentBet = BigBlind /\ u.lastRaise = BigBlind
             /\ u.chips = t.chips
<1> DEFINE u == Fresh(t)
           d == NextOf(t.dealer, Solvent(t))
           z == [i \in Seats |-> 0]
           lb == [i \in Seats |-> -1]
           fo == Seats \ Solvent(t)
<1>1. d \in Seats
  BY BlindsAreOthers
<1>2. z \in [Seats -> Nat] /\ lb \in [Seats -> Nat \cup {-1}] /\ fo \in SUBSET Seats
  OBVIOUS
<1>3. z \in [Seats -> Seats]
  BY SeatsAtTable DEF Seats
<1>4. BigBlind \in Nat /\ t.hand + 1 \in Nat
  BY BlindsAreOrdered DEF Table
<1>5. u = [t EXCEPT !.hand = t.hand + 1, !.phase = "preflop", !.dealer = d,
                    !.pot = 0, !.payouts = z, !.bet = z, !.total = z,
                    !.lastBet = lb, !.folded = fo,
                    !.currentBet = BigBlind, !.lastRaise = BigBlind, !.strength = z]
  BY DEF Fresh, NoShowdown
<1> HIDE DEF u, d, z, lb, fo
<1>6. u \in Table
  BY <1>1, <1>2, <1>3, <1>4, <1>5 DEF Table, Phases
<1>7. /\ u.phase = "preflop" /\ u.dealer = d /\ u.pot = 0
      /\ u.bet = z /\ u.total = z /\ u.folded = fo
      /\ u.currentBet = BigBlind /\ u.lastRaise = BigBlind /\ u.chips = t.chips
  BY <1>5 DEF Table
<1> QED
  BY <1>1, <1>6, <1>7 DEF u, z, fo

\* The blinds leave a hand underway, and every player with what he came with.
LEMMA DealtIsUnderway ==
  ASSUME NEW t \in Table, Cardinality(Solvent(t)) >= 2
  PROVE  /\ Underway(Dealt(t).table) /\ Dealt(t).big \in Seats
         /\ Worth(Dealt(t).table) = Sum(t.chips)
         /\ \A i \in Seats : Own(Dealt(t).table, i) = t.chips[i]
<1> DEFINE f == Fresh(t)
           s == SmallSeat(t)
           b == BigSeat(t)
           p == Pay(f, s, SmallBlind)
           q == Pay(p, b, BigBlind)
           u == Dealt(t).table
           paid == Smaller(f.chips[s], SmallBlind)
           paid2 == Smaller(p.chips[b], BigBlind)
<1>1. s \in Seats /\ b \in Seats /\ b # s /\ Solvent(t) \in SUBSET Seats /\ Solvent(t) # {}
  BY BlindsAreOthers
<1>2. /\ f \in Table
      /\ f.phase = "preflop" /\ f.dealer \in Seats /\ f.pot = 0
      /\ f.bet = [i \in Seats |-> 0] /\ f.total = [i \in Seats |-> 0]
      /\ f.folded = Seats \ Solvent(t)
      /\ f.currentBet = BigBlind /\ f.lastRaise = BigBlind
      /\ f.chips = t.chips
  BY FreshIs
<1>3. SmallBlind \in Nat /\ BigBlind \in Nat /\ SmallBlind <= BigBlind /\ 0 < BigBlind
  BY BlindsAreOrdered
<1> HIDE DEF f, s, b
<1>4. IsPayment(f, p, s, paid) /\ paid <= SmallBlind
  BY <1>1, <1>2, <1>3, PayPays
<1> HIDE DEF p, paid
<1>5. p \in Table
  BY <1>4 DEF IsPayment
<1>6. IsPayment(p, q, b, paid2) /\ paid2 <= BigBlind
  BY <1>1, <1>3, <1>5, PayPays
<1> HIDE DEF q, paid2
<1>7. q \in Table
  BY <1>6 DEF IsPayment
<1>8. u = [q EXCEPT !.pending = CanAct(q)]
  BY DealtIs DEF Blinded, q, p, f, s, b
<1> HIDE DEF u
<1>9. u \in Table
  BY <1>7, <1>8, LiveIs DEF Table
<1>10. /\ u.pending = CanAct(q)
       /\ u.phase = q.phase /\ u.dealer = q.dealer /\ u.pot = q.pot /\ u.bet = q.bet
       /\ u.total = q.total /\ u.folded = q.folded /\ u.currentBet = q.currentBet
       /\ u.lastRaise = q.lastRaise /\ u.chips = q.chips
  BY <1>7, <1>8 DEF Table
<1>11. /\ q.phase = "preflop" /\ q.dealer \in Seats
       /\ q.folded = Seats \ Solvent(t) /\ q.currentBet = BigBlind /\ q.lastRaise = BigBlind
  BY <1>2, <1>4, <1>6 DEF IsPayment
<1>12. CanAct(u) = u.pending /\ Live(u) = Solvent(t)
  BY <1>1, <1>10, <1>11 DEF CanAct, Live
<1>13. InHand(u)
  BY <1>3, <1>10, <1>11 DEF InHand, Streets
<1>14. /\ Worth(p) = Worth(f) /\ (f.pot = Sum(f.total) => p.pot = Sum(p.total))
       /\ \A j \in Seats : Own(p, j) = Own(f, j)
       /\ (\A j \in Seats : f.bet[j] <= f.total[j]) => \A j \in Seats : p.bet[j] <= p.total[j]
       /\ \A j \in Seats : j # s => p.bet[j] = f.bet[j]
       /\ p.bet[s] = f.bet[s] + paid
  BY <1>1, <1>2, <1>4, PaymentMoves
<1>15. /\ Worth(q) = Worth(p) /\ (p.pot = Sum(p.total) => q.pot = Sum(q.total))
       /\ \A j \in Seats : Own(q, j) = Own(p, j)
       /\ (\A j \in Seats : p.bet[j] <= p.total[j]) => \A j \in Seats : q.bet[j] <= q.total[j]
       /\ \A j \in Seats : j # b => q.bet[j] = p.bet[j]
       /\ q.bet[b] = p.bet[b] + paid2
  BY <1>1, <1>5, <1>6, PaymentMoves
<1>16. Sum(f.total) = 0
  <2>1. SumFunctionOnSet(f.total, Seats) = 0
    BY <1>2, SeatsAreFinite, SumOfZeroes
  <2> QED
    BY <2>1, SumIs
<1>17. Booked(u)
  BY <1>2, <1>10, <1>14, <1>15, <1>16 DEF Booked
<1>18. Matched(u)
  <2>1. paid \in Nat /\ paid2 \in Nat
    BY <1>4, <1>6 DEF IsPayment
  <2>2. ASSUME NEW i \in Seats PROVE u.bet[i] <= BigBlind
    <3>1. f.bet[i] = 0 /\ f.bet[s] = 0 /\ f.bet[b] = 0
      BY <1>1, <1>2
    <3> QED
      BY <3>1, <2>1, <1>1, <1>3, <1>4, <1>6, <1>10, <1>14, <1>15
  <2> QED
    BY <2>2, <1>10, <1>11, <1>12 DEF Matched
<1>19. Worth(u) = Sum(t.chips)
  <2>1. Worth(u) = Worth(f)
    BY <1>10, <1>14, <1>15 DEF Worth
  <2>2. Sum(t.chips) \in Nat
    BY SeatSumType DEF Table
  <2> QED
    BY <2>1, <2>2, <1>2 DEF Worth
<1>20. ASSUME NEW i \in Seats PROVE Own(u, i) = t.chips[i]
  <2>1. Own(u, i) = Own(f, i)
    BY <1>10, <1>14, <1>15 DEF Own
  <2>2. t.chips[i] \in Nat
    BY DEF Table
  <2> QED
    BY <2>1, <2>2, <1>2 DEF Own
<1>21. Underway(u)
  BY <1>1, <1>9, <1>12, <1>13, <1>17, <1>18 DEF Underway
<1> QED
  BY <1>1, <1>19, <1>20, <1>21, DealtIs DEF u, b

-----------------------------------------------------------------------------
(* The moves *)

\* How a move leaves the table before the hand goes on: from t to s.
Moved(t, s) ==
  /\ s \in Table /\ s.actor = t.actor /\ s.phase = t.phase
  /\ InHand(s) /\ Booked(s) /\ Live(s) # {}
  /\ \A i \in CanAct(s) : i \notin s.pending \/ i = s.actor => s.bet[i] = s.currentBet
  /\ \A i \in Seats : s.bet[i] <= s.currentBet
  /\ Worth(s) = Worth(t) /\ \A i \in Seats : Own(s, i) = Own(t, i)
  /\ \/ Sum(s.chips) < Sum(t.chips)
     \/ Sum(s.chips) = Sum(t.chips) /\ s.pending \subseteq t.pending

\* A table at which it is somebody's turn.
Turn(t) == t \in Table /\ InHand(t) /\ Waits(t) /\ Matched(t) /\ Booked(t)

\* Who is to act has chips and has not more in than the bet.
LEMMA TurnIs ==
  ASSUME NEW t, Turn(t)
  PROVE  /\ t \in Table /\ t.actor \in Seats /\ t.actor \in Live(t) /\ t.actor \in CanAct(t)
         /\ t.actor \in t.pending
         /\ t.chips[t.actor] \in Nat /\ 0 < t.chips[t.actor]
         /\ t.bet[t.actor] \in Nat /\ t.currentBet \in Nat /\ t.bet[t.actor] <= t.currentBet
         /\ t.lastRaise \in Nat /\ 0 < t.lastRaise
<1>1. t \in Table
  BY DEF Turn
<1>2. t.actor \in t.pending /\ t.actor \in CanAct(t)
  BY DEF Turn, Waits
<1>3. t.actor \in Seats /\ t.actor \in Live(t) /\ 0 < t.chips[t.actor]
  BY <1>2 DEF CanAct, Live
<1>4. t.bet[t.actor] <= t.currentBet /\ 0 < t.lastRaise
  BY <1>3 DEF Turn, Matched, InHand
<1> QED
  BY <1>1, <1>2, <1>3, <1>4 DEF Table

\* call, or check.
LEMMA CallMoves ==
  ASSUME NEW t, Turn(t)
  PROVE  Moved(t, Pay(t, t.actor, CallAmount(t)))
<1> DEFINE a == t.actor
           amount == CallAmount(t)
           paid == Smaller(t.chips[a], amount)
           s == Pay(t, a, amount)
<1>1. /\ t \in Table /\ a \in Seats /\ a \in Live(t)
      /\ t.chips[a] \in Nat /\ t.bet[a] \in Nat /\ t.currentBet \in Nat
      /\ t.bet[a] <= t.currentBet
  BY TurnIs
<1>2. InHand(t) /\ Waits(t) /\ Matched(t) /\ Booked(t)
  BY DEF Turn
<1>3. amount = Smaller(t.currentBet - t.bet[a], t.chips[a]) /\ amount \in Nat
  BY <1>1 DEF CallAmount, Smaller, Larger
<1>4. /\ paid \in Nat
      /\ t.bet[a] + paid = t.currentBet \/ paid = t.chips[a]
      /\ t.bet[a] + paid <= t.currentBet
  BY <1>1, <1>3 DEF Smaller
<1> HIDE DEF amount
<1>5. IsPayment(t, s, a, paid)
  BY <1>1, <1>3, PayPays
<1> HIDE DEF s, paid
<1>6. /\ Worth(s) = Worth(t) /\ s.pot = Sum(s.total)
      /\ \A j \in Seats : Own(s, j) = Own(t, j)
      /\ \A j \in Seats : s.bet[j] <= s.total[j]
      /\ \A j \in Seats : j # a => s.chips[j] = t.chips[j] /\ s.bet[j] = t.bet[j]
      /\ s.chips[a] = t.chips[a] - paid /\ s.bet[a] = t.bet[a] + paid
  <2>1. t.pot = Sum(t.total) /\ \A j \in Seats : t.bet[j] <= t.total[j]
    BY <1>2 DEF Booked
  <2> QED
    BY <2>1, <1>1, <1>5, PaymentMoves
<1>7. /\ s \in Table /\ s.actor = a /\ s.phase = t.phase /\ s.dealer = t.dealer
      /\ s.lastRaise = t.lastRaise /\ s.folded = t.folded /\ s.pending = t.pending
      /\ s.currentBet = t.currentBet
  BY <1>5 DEF IsPayment
<1>8. Live(s) = Live(t)
  BY <1>7 DEF Live
<1>9. InHand(s) /\ Booked(s) /\ Live(s) # {}
  BY <1>1, <1>2, <1>6, <1>7, <1>8 DEF InHand, Booked
<1>10. \A i \in Seats : s.bet[i] <= s.currentBet
  <2>1. \A i \in Seats : t.bet[i] <= t.currentBet
    BY <1>2 DEF Matched
  <2> QED
    BY <2>1, <1>4, <1>6, <1>7
<1>11. ASSUME NEW i \in CanAct(s), i \notin s.pending \/ i = a PROVE s.bet[i] = s.currentBet
  <2>1. i \in Seats /\ s.chips[i] > 0 /\ i \in Live(t)
    BY <1>8 DEF CanAct, Live
  <2>2. CASE i = a
    BY <2>1, <2>2, <1>1, <1>4, <1>6, <1>7
  <2>3. CASE i # a
    <3>1. i \in CanAct(t) \ t.pending
      BY <2>1, <2>3, <1>6, <1>7, <1>11 DEF CanAct
    <3> QED
      BY <3>1, <2>1, <2>3, <1>2, <1>6, <1>7 DEF Matched
  <2> QED
    BY <2>2, <2>3
<1>12. Sum(s.chips) = Sum(t.chips) - paid /\ Sum(t.chips) \in Nat /\ Sum(s.chips) \in Nat
  <2>1. Sum(s.chips) = Sum(t.chips) - paid
    BY <1>1, <1>5, PayBooks
  <2> QED
    BY <2>1, <1>1, <1>7, SeatSumType DEF Table
<1>13. Sum(s.chips) < Sum(t.chips) \/ (Sum(s.chips) = Sum(t.chips) /\ s.pending \subseteq t.pending)
  BY <1>4, <1>7, <1>12
<1> QED
  BY <1>6, <1>7, <1>9, <1>10, <1>11, <1>13 DEF Moved, s, amount

\* fold.
LEMMA FoldMoves ==
  ASSUME NEW t, Turn(t)
  PROVE  Moved(t, [t EXCEPT !.folded = t.folded \cup {t.actor}])
<1> DEFINE a == t.actor
           s == [t EXCEPT !.folded = t.folded \cup {a}]
<1>1. t \in Table /\ a \in Seats /\ a \in Live(t)
  BY TurnIs
<1>2. InHand(t) /\ Waits(t) /\ Matched(t) /\ Booked(t)
  BY DEF Turn
<1>3. s \in Table
  BY <1>1 DEF Table
<1>4. /\ s.actor = a /\ s.phase = t.phase /\ s.dealer = t.dealer
      /\ s.lastRaise = t.lastRaise /\ s.pending = t.pending /\ s.currentBet = t.currentBet
      /\ s.chips = t.chips /\ s.bet = t.bet /\ s.total = t.total /\ s.pot = t.pot
      /\ s.folded = t.folded \cup {a}
  BY <1>1 DEF Table
<1> HIDE DEF s
<1>5. Live(s) = Live(t) \ {a} /\ CanAct(s) \subseteq CanAct(t) \ {a}
  BY <1>4 DEF Live, CanAct
<1>6. Live(s) # {}
  <2>1. Cardinality(Live(t) \ {a}) = Cardinality(Live(t)) - 1
    BY <1>1, LiveIs, FS_RemoveElement
  <2>2. Cardinality(Live(t)) >= 2 /\ Cardinality(Live(t)) \in Nat
    BY <1>2, LiveIs DEF Waits
  <2>3. Cardinality(Live(s)) >= 1
    BY <2>1, <2>2, <1>5
  <2> SUFFICES ASSUME Live(s) = {} PROVE FALSE
    OBVIOUS
  <2>4. Cardinality(Live(s)) = 0
    BY FS_EmptySet
  <2> QED
    BY <2>3, <2>4
<1>7. InHand(s) /\ Booked(s)
  BY <1>2, <1>4 DEF InHand, Booked
<1>8. /\ Worth(s) = Worth(t) /\ \A i \in Seats : Own(s, i) = Own(t, i)
      /\ Sum(s.chips) = Sum(t.chips)
  BY <1>4 DEF Worth, Own
<1>9. /\ \A i \in Seats : s.bet[i] <= s.currentBet
      /\ \A i \in CanAct(s) : i \notin s.pending \/ i = s.actor => s.bet[i] = s.currentBet
  BY <1>2, <1>4, <1>5 DEF Matched
<1> QED
  BY <1>3, <1>4, <1>6, <1>7, <1>8, <1>9 DEF Moved, s

\* raise, or bet, within the rules.
LEMMA RaiseMoves ==
  ASSUME NEW t, Turn(t), NEW amount \in Nat, LegalRaise(t, amount)
  PROVE  Moved(t, Raised(t, amount))
<1> DEFINE a == t.actor
           due == amount - t.bet[a]
           paid == Smaller(t.chips[a], due)
           p == Pay(t, a, due)
           more == {j \in CanAct(p) \ {a} : p.bet[j] < amount}
           s == Raised(t, amount)
<1>1. /\ t \in Table /\ a \in Seats /\ a \in Live(t)
      /\ t.chips[a] \in Nat /\ t.bet[a] \in Nat /\ t.currentBet \in Nat
      /\ t.bet[a] <= t.currentBet /\ t.lastRaise \in Nat /\ 0 < t.lastRaise
  BY TurnIs
<1>2. InHand(t) /\ Waits(t) /\ Matched(t) /\ Booked(t)
  BY DEF Turn
<1>3. t.currentBet < amount /\ amount <= t.bet[a] + t.chips[a]
  BY DEF LegalRaise, MaxBet
<1>4. due \in Nat /\ 0 < due /\ paid = due
  BY <1>1, <1>3 DEF Smaller
<1>5. IsPayment(t, p, a, paid)
  <2> HIDE DEF due
  <2> QED
    BY <1>1, <1>4, PayPays
<1> HIDE DEF p, paid
<1>6. /\ Worth(p) = Worth(t) /\ p.pot = Sum(p.total)
      /\ \A j \in Seats : Own(p, j) = Own(t, j)
      /\ \A j \in Seats : p.bet[j] <= p.total[j]
      /\ \A j \in Seats : j # a => p.chips[j] = t.chips[j] /\ p.bet[j] = t.bet[j]
      /\ p.bet[a] = t.bet[a] + paid
  <2>1. t.pot = Sum(t.total) /\ \A j \in Seats : t.bet[j] <= t.total[j]
    BY <1>2 DEF Booked
  <2> QED
    BY <2>1, <1>1, <1>5, PaymentMoves
<1>7. /\ p \in Table /\ p.actor = a /\ p.phase = t.phase /\ p.dealer = t.dealer
      /\ p.lastRaise = t.lastRaise /\ p.folded = t.folded /\ p.pending = t.pending
  BY <1>5 DEF IsPayment
<1>8. s = [p EXCEPT !.lastRaise = Larger(p.lastRaise, amount - t.currentBet), !.currentBet = amount,
                    !.pending = p.pending \cup more]
  BY DEF Raised, p
<1>9. more \in SUBSET Seats
  BY LiveIs
<1>10. Larger(p.lastRaise, amount - t.currentBet) \in Nat
       /\ 0 < Larger(p.lastRaise, amount - t.currentBet)
  BY <1>1, <1>3, <1>7 DEF Larger
<1> HIDE DEF s, more
<1>11. s \in Table
  BY <1>7, <1>8, <1>9, <1>10 DEF Table
<1>12. /\ s.lastRaise = Larger(p.lastRaise, amount - t.currentBet) /\ s.currentBet = amount
       /\ s.pending = p.pending \cup more
       /\ s.actor = a /\ s.phase = t.phase /\ s.dealer = t.dealer /\ s.folded = p.folded
       /\ s.chips = p.chips /\ s.bet = p.bet /\ s.total = p.total /\ s.pot = p.pot
  BY <1>7, <1>8 DEF Table
<1>13. Live(s) = Live(t) /\ Live(p) = Live(t) /\ CanAct(s) = CanAct(p)
  BY <1>7, <1>12 DEF Live, CanAct
<1>14. InHand(s) /\ Booked(s) /\ Live(s) # {}
  BY <1>1, <1>2, <1>6, <1>10, <1>12, <1>13 DEF InHand, Booked
<1>15. p.bet[a] = amount
  BY <1>1, <1>4, <1>6
<1>16. \A i \in Seats : p.bet[i] <= amount /\ p.bet[i] \in Nat
  <2>1. \A i \in Seats : t.bet[i] <= t.currentBet /\ t.bet[i] \in Nat /\ p.bet[i] \in Nat
    BY <1>1, <1>2, <1>7 DEF Matched, Table
  <2> QED
    BY <2>1, <1>1, <1>3, <1>6, <1>15
<1>17. ASSUME NEW i \in CanAct(s), i \notin s.pending \/ i = a PROVE s.bet[i] = s.currentBet
  <2>1. i \in Seats
    BY LiveIs
  <2>2. CASE i = a
    BY <2>2, <1>12, <1>15
  <2>3. CASE i # a
    <3>1. i \notin more
      BY <1>12, <1>17, <2>3
    <3>2. ~(p.bet[i] < amount)
      BY <3>1, <2>3, <1>13 DEF more
    <3> QED
      BY <3>2, <2>1, <1>12, <1>16
  <2> QED
    BY <2>2, <2>3
<1>18. Sum(s.chips) < Sum(t.chips)
  <2>1. Sum(p.chips) = Sum(t.chips) - paid
    BY <1>1, <1>5, PayBooks
  <2>2. Sum(t.chips) \in Nat
    BY <1>1, SeatSumType DEF Table
  <2> QED
    BY <2>1, <2>2, <1>4, <1>12
<1>19. Worth(s) = Worth(t) /\ \A i \in Seats : Own(s, i) = Own(t, i)
  BY <1>6, <1>12 DEF Worth, Own
<1> QED
  BY <1>11, <1>12, <1>14, <1>16, <1>17, <1>18, <1>19 DEF Moved, s

-----------------------------------------------------------------------------
(* What a move leaves *)

\* What a move, or a deal, makes of the table, from t to u: the hand has ended,
\* or it is somebody's turn.
Shorter(t, u) ==
  \/ StreetsLeft(u) < StreetsLeft(t)
  \/ /\ StreetsLeft(u) = StreetsLeft(t)
     /\ \/ Sum(u.chips) < Sum(t.chips)
        \/ Sum(u.chips) = Sum(t.chips) /\ u.pending \subseteq t.pending \ {t.actor}

\* A hand that is over.
Over(u) == u \in Table /\ u.phase = "done" /\ u.actor = Nobody /\ u.pot = 0 /\ Settled(u)

\* The hand's next table u, from one at which seat i owned own[i].
LeftBy(own, worth, u) ==
  /\ Worth(u) = worth
  /\ \/ Over(u) /\ \A i \in Seats : own[i] = 0 => u.chips[i] = 0
     \/ Turn(u) /\ \A i \in Seats : Own(u, i) = own[i]

\* Where somebody is to act, a hand is played, on a street.
LEMMA TurnIsPlaying ==
  ASSUME NEW t, Turn(t)
  PROVE  Playing(t) /\ StreetsLeft(t) \in Nat /\ 0 < StreetsLeft(t)
BY DEF Turn, InHand, Playing, StreetsLeft, Streets

\* Where it is over, none is.
LEMMA OverIsNotPlaying ==
  ASSUME NEW u, Over(u)
  PROVE  ~Playing(u) /\ StreetsLeft(u) = 0
BY DEF Over, Playing, StreetsLeft

\* The end of act before advance: the player has acted.
LEMMA HasActed ==
  ASSUME NEW t, Turn(t), NEW s, Moved(t, s), NEW m,
         m = [s EXCEPT !.lastBet[s.actor] = s.currentBet, !.pending = @ \ {s.actor}]
  PROVE  /\ Underway(m)
         /\ m.chips = s.chips /\ m.total = s.total /\ m.pot = s.pot /\ m.phase = s.phase
         /\ m.pending = s.pending \ {s.actor}
<1> DEFINE lb == [s.lastBet EXCEPT ![s.actor] = s.currentBet]
           pe == s.pending \ {s.actor}
<1>1. s \in Table /\ s.actor = t.actor /\ s.actor \in Seats
  BY TurnIs DEF Moved
<1>2. m = [s EXCEPT !.lastBet = lb, !.pending = pe]
  OBVIOUS
<1>3. lb \in [Seats -> Nat \cup {-1}] /\ pe \in SUBSET Seats
  BY <1>1 DEF Table
<1> HIDE DEF lb
<1>4. m \in Table
  BY <1>1, <1>2, <1>3 DEF Table
<1>5. /\ m.pending = pe
      /\ m.chips = s.chips /\ m.total = s.total /\ m.pot = s.pot /\ m.phase = s.phase
      /\ m.bet = s.bet /\ m.currentBet = s.currentBet /\ m.dealer = s.dealer
      /\ m.lastRaise = s.lastRaise /\ m.folded = s.folded
  BY <1>1, <1>2 DEF Table
<1>6. Live(m) = Live(s) /\ CanAct(m) = CanAct(s)
  BY <1>5 DEF Live, CanAct
<1>7. InHand(m) /\ Booked(m) /\ Live(m) # {}
  BY <1>5, <1>6 DEF Moved, InHand, Booked
<1>8. Matched(m)
  BY <1>5, <1>6 DEF Moved, Matched
<1> QED
  BY <1>4, <1>5, <1>7, <1>8 DEF Underway

\* Where the hand goes on, somebody is to act.
LEMMA GoneOnIsTurn ==
  ASSUME NEW t, NEW u, GoesOn(t, u)
  PROVE  Turn(u) /\ Worth(u) = Worth(t) /\ \A i \in Seats : Own(u, i) = Own(t, i)
BY DEF GoesOn, Turn, Worth, Own

\* act moves the hand on, or ends it, and brings its end nearer.
LEMMA ActedLeads ==
  ASSUME NEW t, Turn(t), NEW s, Moved(t, s), NEW u \in Acted(s),
         NEW own, \A i \in Seats : own[i] = Own(t, i)
  PROVE  LeftBy(own, Worth(t), u) /\ Shorter(t, u)
<1> DEFINE m == [s EXCEPT !.lastBet[s.actor] = s.currentBet, !.pending = @ \ {s.actor}]
<1>1. /\ Underway(m)
      /\ m.chips = s.chips /\ m.total = s.total /\ m.pot = s.pot /\ m.phase = s.phase
      /\ m.pending = s.pending \ {s.actor}
  <2>1. \A mm : mm = m => /\ Underway(mm)
      /\ mm.chips = s.chips /\ mm.total = s.total /\ mm.pot = s.pot /\ mm.phase = s.phase
      /\ mm.pending = s.pending \ {s.actor}
    BY HasActed, Zenon
  <2> HIDE DEF m
  <2> QED
    BY <2>1
<1>2. u \in Advance(m, s.actor)
  BY DEF Acted
<1> HIDE DEF m
<1>3. s \in Table /\ s.actor = t.actor /\ s.actor \in Seats /\ s.phase = t.phase
  BY TurnIs DEF Moved
<1>4. Worth(m) = Worth(t) /\ \A i \in Seats : Own(m, i) = own[i]
  BY <1>1 DEF Moved, Worth, Own
<1>5. \A i \in Seats : m.chips[i] \in Nat /\ m.total[i] \in Nat
  BY <1>1, <1>3 DEF Table
<1>6. Ends(m, u) \/ GoesOn(m, u)
  BY <1>1, <1>2, <1>3, AdvanceLeads
<1>7. CASE Ends(m, u)
  <2>1. Over(u) /\ Worth(u) = Worth(t)
    BY <1>4, <1>7 DEF Ends, Over
  <2>2. ASSUME NEW i \in Seats, own[i] = 0 PROVE u.chips[i] = 0
    <3>1. m.chips[i] + m.total[i] = 0
      BY <1>4, <2>2 DEF Own
    <3>2. m.chips[i] = 0 /\ m.total[i] = 0
      BY <3>1, <1>5
    <3> QED
      BY <3>2, <1>7 DEF Ends
  <2>3. StreetsLeft(u) < StreetsLeft(t)
    BY <2>1, TurnIsPlaying, OverIsNotPlaying
  <2> QED
    BY <2>1, <2>2, <2>3 DEF LeftBy, Shorter
<1>8. CASE GoesOn(m, u)
  <2>1. Turn(u) /\ Worth(u) = Worth(t) /\ \A i \in Seats : Own(u, i) = own[i]
    BY <1>4, <1>8, GoneOnIsTurn
  <2>2. StreetsLeft(m) = StreetsLeft(t)
    BY <1>1, <1>3 DEF StreetsLeft
  <2>3. CASE StreetsLeft(u) < StreetsLeft(m)
    BY <2>1, <2>2, <2>3 DEF LeftBy, Shorter
  <2>4. CASE u.phase = m.phase /\ u.pending \subseteq m.pending
    <3>1. StreetsLeft(u) = StreetsLeft(t)
      BY <2>4, <2>2 DEF StreetsLeft
    <3>2. Sum(u.chips) = Sum(s.chips)
      BY <1>1, <1>8 DEF GoesOn
    <3>3. \/ Sum(s.chips) < Sum(t.chips)
          \/ Sum(s.chips) = Sum(t.chips) /\ s.pending \subseteq t.pending
      BY DEF Moved
    <3>4. u.pending \subseteq s.pending \ {t.actor}
      BY <2>4, <1>1, <1>3
    <3> QED
      BY <2>1, <3>1, <3>2, <3>3, <3>4 DEF LeftBy, Shorter
  <2> QED
    BY <2>3, <2>4, <1>8 DEF GoesOn
<1> QED
  BY <1>6, <1>7, <1>8

\* startHand deals a hand that is somebody's turn, or that has ended with the
\* blinds.
LEMMA StartLeads ==
  ASSUME NEW t \in Table, Cardinality(Solvent(t)) >= 2,
         NEW u \in Advance(Dealt(t).table, Dealt(t).big)
  PROVE  LeftBy(t.chips, Sum(t.chips), u)
<1> DEFINE d == Dealt(t).table
           b == Dealt(t).big
<1>1. /\ Underway(d) /\ b \in Seats /\ Worth(d) = Sum(t.chips)
      /\ \A i \in Seats : Own(d, i) = t.chips[i]
  BY DealtIsUnderway
<1> HIDE DEF d, b
<1>2. Ends(d, u) \/ GoesOn(d, u)
  <2>1. u \in Advance(d, b)
    BY DEF d, b
  <2> QED
    BY <2>1, <1>1, AdvanceLeads
<1>3. \A i \in Seats : d.chips[i] \in Nat /\ d.total[i] \in Nat
  BY <1>1 DEF Underway, Table
<1>4. CASE Ends(d, u)
  <2>1. Over(u) /\ Worth(u) = Sum(t.chips)
    BY <1>1, <1>4 DEF Ends, Over
  <2>2. ASSUME NEW i \in Seats, t.chips[i] = 0 PROVE u.chips[i] = 0
    <3>1. d.chips[i] + d.total[i] = 0
      BY <1>1, <2>2 DEF Own
    <3>2. d.chips[i] = 0 /\ d.total[i] = 0
      BY <3>1, <1>3
    <3> QED
      BY <3>2, <1>4 DEF Ends
  <2> QED
    BY <2>1, <2>2 DEF LeftBy
<1>5. CASE GoesOn(d, u)
  BY <1>1, <1>5, GoneOnIsTurn DEF LeftBy
<1> QED
  BY <1>2, <1>4, <1>5

-----------------------------------------------------------------------------
(* The invariant and the theorems *)

\* A table between hands.
Rests(t) == /\ t \in Table /\ ~Playing(t) /\ t.actor = Nobody /\ t.pot = 0
            /\ t.phase = "done" => Settled(t)

\* The inductive invariant.
TableInv == Turn(table) \/ Rests(table)

\* What a deal or a move leaves is a table with somebody to act, or between hands.
LEMMA LeftByKeeps ==
  ASSUME NEW own, NEW worth, NEW u, LeftBy(own, worth, u)
  PROVE  Turn(u) \/ Rests(u)
BY OverIsNotPlaying DEF LeftBy, Over, Rests

\* A new table is between hands.
LEMMA InitIsTableInv ==
  ASSUME Init
  PROVE  TableInv
<1>1. PICK stacks \in Stacks :
        table = [phase |-> "idle", hand |-> 0, dealer |-> Nobody, actor |-> Nobody,
                 pot |-> 0, lastPot |-> 0, currentBet |-> 0, lastRaise |-> 0,
                 pending |-> {}, folded |-> {}, chips |-> stacks,
                 bet |-> [i \in Seats |-> 0], total |-> [i \in Seats |-> 0],
                 lastBet |-> [i \in Seats |-> 0], payouts |-> [i \in Seats |-> 0],
                 strength |-> NoShowdown]
  BY DEF Init
<1> DEFINE z == [i \in Seats |-> 0]
<1>2. z \in [Seats -> Nat] /\ z \in [Seats -> Nat \cup {-1}] /\ z \in [Seats -> Seats]
  BY SeatsAtTable DEF Seats
<1>3. stacks \in [Seats -> Nat]
  BY StacksAreChips
<1>4. table = [phase |-> "idle", hand |-> 0, dealer |-> Nobody, actor |-> Nobody,
               pot |-> 0, lastPot |-> 0, currentBet |-> 0, lastRaise |-> 0,
               pending |-> {}, folded |-> {}, chips |-> stacks,
               bet |-> z, total |-> z, lastBet |-> z, payouts |-> z, strength |-> z]
  BY <1>1 DEF NoShowdown
<1> HIDE DEF z
<1>5. table \in Table
  BY <1>2, <1>3, <1>4 DEF Table, Phases
<1>6. table.phase = "idle" /\ table.actor = Nobody /\ table.pot = 0
  BY <1>4
<1> QED
  BY <1>5, <1>6 DEF TableInv, Rests, Playing

\* What a table that rests owns.
LEMMA TurnOrRest ==
  ASSUME TableInv
  PROVE  /\ table \in Table
         /\ Playing(table) => Turn(table)
         /\ ~Playing(table) => Rests(table) /\ Worth(table) = Sum(table.chips)
<1>1. table \in Table
  BY DEF TableInv, Turn, Rests
<1>2. Playing(table) => Turn(table)
  BY DEF TableInv, Rests
<1>3. ~Playing(table) => Rests(table)
  BY TurnIsPlaying DEF TableInv
<1>4. Rests(table) => Worth(table) = Sum(table.chips)
  <2>1. Sum(table.chips) \in Nat
    BY <1>1, SeatSumType DEF Table
  <2> QED
    BY <2>1 DEF Rests, Worth
<1> QED
  BY <1>1, <1>2, <1>3, <1>4

\* A deal leaves every player with what he came with, or the hand settled.
LEMMA StartSteps ==
  ASSUME TableInv, Start
  PROVE  LeftBy(table.chips, Worth(table), table')
<1>1. table \in Table /\ Worth(table) = Sum(table.chips)
  BY TurnOrRest DEF Start
<1>2. Cardinality(Solvent(table)) >= 2 /\ table' \in Advance(Dealt(table).table, Dealt(table).big)
  BY DEF Start
<1> QED
  BY <1>1, <1>2, StartLeads

\* So does a move, and it brings the end nearer.
LEMMA ActSteps ==
  ASSUME TableInv, Act
  PROVE  /\ Turn(table) /\ Shorter(table, table')
         /\ LeftBy([i \in Seats |-> Own(table, i)], Worth(table), table')
<1> DEFINE own == [i \in Seats |-> Own(table, i)]
<1>1. Turn(table)
  BY TurnOrRest DEF Act, Raise, Call, Fold
<1>2. \A i \in Seats : own[i] = Own(table, i)
  OBVIOUS
<1>3. \E s : Moved(table, s) /\ table' \in Acted(s)
  <2>1. ASSUME NEW amount \in 1 .. Sum(table.chips) + table.pot, Raise(amount)
        PROVE  \E s : Moved(table, s) /\ table' \in Acted(s)
    <3>1. amount \in Nat
      <4>1. Sum(table.chips) \in Nat /\ table.pot \in Nat
        BY <1>1, TurnIs, SeatSumType DEF Table
      <4> QED
        BY <4>1
    <3>2. LegalRaise(table, amount) /\ table' \in Acted(Raised(table, amount))
      BY <2>1 DEF Raise
    <3> QED
      BY <1>1, <3>1, <3>2, RaiseMoves
  <2>2. ASSUME Call PROVE \E s : Moved(table, s) /\ table' \in Acted(s)
    BY <1>1, <2>2, CallMoves DEF Call
  <2>3. ASSUME Fold PROVE \E s : Moved(table, s) /\ table' \in Acted(s)
    BY <1>1, <2>3, FoldMoves DEF Fold
  <2> QED
    BY <2>1, <2>2, <2>3 DEF Act
<1> HIDE DEF own
<1>4. LeftBy(own, Worth(table), table') /\ Shorter(table, table')
  BY <1>1, <1>2, <1>3, ActedLeads
<1> QED
  BY <1>1, <1>4 DEF own

\* The inductive invariant: after any deals and moves, by any players, it is
\* somebody's turn, with the bets matched and booked, or the table rests and the
\* last hand was settled.
THEOREM TableInvariance == Spec => []TableInv
<1>1. Init => TableInv
  BY InitIsTableInv
<1>2. TableInv /\ [Next]_table => TableInv'
  <2> SUFFICES ASSUME TableInv, [Next]_table PROVE TableInv'
    OBVIOUS
  <2>1. CASE Start
    BY <2>1, StartSteps, LeftByKeeps DEF TableInv
  <2>2. CASE Act
    BY <2>2, ActSteps, LeftByKeeps DEF TableInv
  <2>3. CASE UNCHANGED table
    BY <2>3 DEF TableInv
  <2> QED
    BY <2>1, <2>2, <2>3 DEF Next
<1> QED
  BY <1>1, <1>2, PTL DEF Spec

\* The fields of the table stay in their types (Table).
THEOREM TypeCorrect == Spec => []TypeOK
<1>1. TableInv => TypeOK
  BY TurnOrRest DEF TypeOK
<1> QED
  BY <1>1, TableInvariance, PTL

\* Only players who can still act are waited for, and the others have matched the
\* bet (BettingIsCoherent): act and advance keep it, for any blinds and stacks.
THEOREM BettingStaysCoherent == Spec => []BettingIsCoherent
<1>1. TableInv => BettingIsCoherent
  BY TurnOrRest DEF BettingIsCoherent, Turn, Waits, Matched, Rests
<1> QED
  BY <1>1, TableInvariance, PTL

\* The pot is what was put in, and is settled to the last chip, layer by layer, to
\* those who matched it (PotIsSettledFairly): pay and finish, for any stacks.
THEOREM PotStaysSettledFairly == Spec => []PotIsSettledFairly
<1>1. TableInv => PotIsSettledFairly
  <2> SUFFICES ASSUME TableInv PROVE PotIsSettledFairly
    OBVIOUS
  <2>1. Playing(table) => Booked(table)
    BY TurnOrRest DEF Turn
  <2>2. table.phase = "done" => Settled(table)
    BY TurnOrRest DEF Rests, Playing
  <2>3. PotIsAccountedFor
    BY <2>1, <2>2 DEF PotIsAccountedFor, Booked, Settled
  <2>4. SidePotsAreFair
    BY <2>2 DEF SidePotsAreFair, Settled, PaidFairly, Covered, CoveredIn
  <2> QED
    BY <2>3, <2>4 DEF PotIsSettledFairly
<1> QED
  BY <1>1, TableInvariance, PTL

\* A raise a bot aims at is always legal once its target is brought between the
\* least raise and all in (BotsAreNeverRefused; botAction).
THEOREM BotsStayUnrefused == Spec => []BotsAreNeverRefused
<1>1. TableInv => BotsAreNeverRefused
  <2> SUFFICES ASSUME TableInv, Playing(table), CanRaise(table),
                      NEW target \in 0 .. MaxBet(table) + BigBlind
               PROVE  LegalRaise(table, Smaller(MaxBet(table), Larger(MinRaise(table), target)))
    BY DEF BotsAreNeverRefused
  <2>1. /\ table.currentBet \in Nat /\ table.lastRaise \in Nat /\ 0 < table.lastRaise
        /\ table.bet[table.actor] \in Nat /\ table.chips[table.actor] \in Nat
    BY TurnOrRest, TurnIs
  <2>2. MaxBet(table) \in Nat /\ MinRaise(table) \in Nat /\ table.currentBet < MinRaise(table)
    BY <2>1 DEF MaxBet, MinRaise
  <2>3. table.currentBet < MaxBet(table)
    BY <2>1, <2>2 DEF CanRaise
  <2>4. target \in Int
    BY <2>2, BlindsAreOrdered
  <2> DEFINE amount == Smaller(MaxBet(table), Larger(MinRaise(table), target))
  <2>5. /\ table.currentBet < amount /\ amount <= MaxBet(table)
        /\ amount >= MinRaise(table) \/ amount = MaxBet(table)
    BY <2>1, <2>2, <2>3, <2>4 DEF Smaller, Larger
  <2> QED
    BY <2>5 DEF LegalRaise
<1> QED
  BY <1>1, TableInvariance, PTL

\* No deal, move or settlement makes or loses a chip (ChipsAreConserved).
THEOREM ChipsStayConserved == Spec => ChipsAreConserved
<1>1. TableInv /\ [Next]_table => [Sum(table'.chips) + table'.pot = Sum(table.chips) + table.pot]_table
  <2> SUFFICES ASSUME TableInv, Next
               PROVE  Sum(table'.chips) + table'.pot = Sum(table.chips) + table.pot
    OBVIOUS
  <2>1. Worth(table') = Worth(table)
    BY StartSteps, ActSteps DEF Next, LeftBy
  <2> QED
    BY <2>1 DEF Worth
<1> QED
  BY <1>1, TableInvariance, PTL DEF Spec, ChipsAreConserved

\* Every move brings the end of the hand nearer (HandsShorten; act, advance).
THEOREM HandsAlwaysShorten == Spec => HandsShorten
<1> DEFINE streets == StreetsLeft(table') - StreetsLeft(table)
           behind  == Sum(table'.chips) - Sum(table.chips)
           Nearer  == Playing(table) =>
             \/ streets < 0
             \/ streets = 0 /\ behind < 0
             \/ streets = 0 /\ behind = 0 /\ Cardinality(table'.pending) < Cardinality(table.pending)
<1>1. TableInv /\ [Next]_table => [Nearer]_table
  <2> SUFFICES ASSUME TableInv, Next, Playing(table) PROVE Nearer
    BY DEF Nearer
  <2>1. Turn(table) /\ Shorter(table, table') /\ (Turn(table') \/ Over(table'))
    <3>1. Act
      BY DEF Next, Start
    <3> QED
      BY <3>1, ActSteps DEF LeftBy
  <2>2. table \in Table /\ table' \in Table
    BY <2>1 DEF Turn, Over
  <2>3. StreetsLeft(table) \in Nat /\ StreetsLeft(table') \in Nat
    BY <2>1, TurnIsPlaying, OverIsNotPlaying
  <2>4. Sum(table.chips) \in Nat /\ Sum(table'.chips) \in Nat
    BY <2>2, SeatSumType DEF Table
  <2>5. ASSUME table'.pending \subseteq table.pending \ {table.actor}
        PROVE  Cardinality(table'.pending) < Cardinality(table.pending)
    <3>1. table.actor \in table.pending /\ table.pending \in SUBSET Seats
      BY <2>1, TurnIs, <2>2 DEF Table
    <3>2. IsFiniteSet(table.pending)
      BY <3>1, SeatsAreFinite, FS_Subset
    <3>3. IsFiniteSet(table.pending \ {table.actor})
          /\ Cardinality(table.pending \ {table.actor}) = Cardinality(table.pending) - 1
      BY <3>1, <3>2, FS_RemoveElement
    <3>4. Cardinality(table'.pending) <= Cardinality(table.pending \ {table.actor})
      BY <2>5, <3>3, FS_Subset
    <3>5. Cardinality(table.pending) \in Nat /\ Cardinality(table'.pending) \in Nat
      BY <2>5, <3>2, <3>3, FS_Subset, FS_CardinalityType
    <3> QED
      BY <3>3, <3>4, <3>5
  <2> QED
    BY <2>1, <2>3, <2>4, <2>5 DEF Shorter
<1> QED
  BY <1>1, TableInvariance, PTL DEF Spec, HandsShorten

-----------------------------------------------------------------------------
(* The table is a hand *)

\* The hand a table is to the service.
StakeOf(t, i) == t.chips[i] + (IF Playing(t) THEN t.total[i] ELSE 0)
\* The seats with chips or a stake, and the record PokerHand speaks of.
StakedIn(t) == {i \in Seats : StakeOf(t, i) > 0}
HandOf(t) == [status  |-> IF Playing(t) THEN "playing" ELSE t.phase,
              actor   |-> t.actor,
              solvent |-> StakedIn(t)]

\* PokerHand's specification in these words.
LEMMA HandIs == Hand!Spec <=> (HandOf(table) \in [status : {"idle"}, actor : {Nobody}, solvent : SUBSET Seats]
    /\ [][Hand!Next]_(HandOf(table)))
BY DEF Hand!Spec, Hand!Init, HandOf, StakedIn, StakeOf, Staked

\* PokerHand counts as the table does.
LEMMA HandCountsAlike ==
  ASSUME NEW S
  PROVE  Hand!Cardinality(S) = Cardinality(S)
BY DEF Hand!Cardinality, Hand!IsFiniteSet, Cardinality, IsFiniteSet

\* A table left by a deal or a move is an outcome of a hand.
LEMMA LeftByIsOutcome ==
  ASSUME NEW own \in [Seats -> Nat], NEW worth, 0 < worth, NEW u, LeftBy(own, worth, u)
  PROVE  HandOf(u) \in Hand!Outcomes({i \in Seats : own[i] > 0})
<1> DEFINE solvent == {i \in Seats : own[i] > 0}
<1>1. CASE Turn(u) /\ \A i \in Seats : Own(u, i) = own[i]
  <2>1. Playing(u) /\ u.actor \in Seats /\ 0 < u.chips[u.actor] /\ u \in Table
    BY <1>1, TurnIs, TurnIsPlaying
  <2>2. \A i \in Seats : StakeOf(u, i) = own[i]
    BY <1>1, <2>1 DEF StakeOf, Own
  <2>3. StakedIn(u) = solvent
    BY <2>2 DEF StakedIn
  <2>4. u.actor \in solvent
    <3>1. Own(u, u.actor) > 0
      BY <2>1 DEF Own, Table
    <3> QED
      BY <3>1, <2>1, <1>1
  <2>5. HandOf(u) = [status |-> "playing", actor |-> u.actor, solvent |-> solvent]
    BY <2>1, <2>3 DEF HandOf
  <2> HIDE DEF solvent
  <2>6. HandOf(u) \in [status : {"playing"}, actor : solvent, solvent : {solvent}]
    BY <2>4, <2>5
  <2> QED
    BY <2>6 DEF Hand!Outcomes, solvent
<1>2. CASE Over(u) /\ \A i \in Seats : own[i] = 0 => u.chips[i] = 0
  <2>1. ~Playing(u) /\ u.phase = "done" /\ u.actor = Nobody /\ u \in Table
    BY <1>2, OverIsNotPlaying DEF Over
  <2>2. \A i \in Seats : StakeOf(u, i) = u.chips[i] /\ u.chips[i] \in Nat
    BY <2>1 DEF StakeOf, Table
  <2>3. StakedIn(u) \subseteq solvent
    BY <2>2, <1>2 DEF StakedIn
  <2>4. StakedIn(u) # {}
    <3> SUFFICES ASSUME StakedIn(u) = {} PROVE FALSE
      OBVIOUS
    <3>1. \A i \in Seats : u.chips[i] = 0
      BY <2>2 DEF StakedIn
    <3>2. SumFunctionOnSet(u.chips, Seats) = 0
      BY <3>1, SeatsAreFinite, SumOfZeroes
    <3>3. Sum(u.chips) = 0
      BY <3>2, SumIs
    <3>4. Sum(u.chips) + 0 = worth
      BY <1>2 DEF LeftBy, Worth, Over
    <3> QED
      BY <3>3, <3>4
  <2>5. HandOf(u) = [status |-> "done", actor |-> Nobody, solvent |-> StakedIn(u)]
    BY <2>1 DEF HandOf
  <2>6. HandOf(u) \in [status : {"done"}, actor : {Nobody}, solvent : (SUBSET solvent) \ {{}}]
    BY <2>3, <2>4, <2>5
  <2> QED
    BY <2>6 DEF Hand!Outcomes
<1> QED
  BY <1>1, <1>2 DEF LeftBy

\* A player with something of his own makes the table worth something.
LEMMA SomebodyIsWorth ==
  ASSUME NEW t \in Table, NEW i \in Seats, Own(t, i) > 0, t.pot = Sum(t.total) \/ t.chips[i] > 0
  PROVE  0 < Worth(t)
<1>1. /\ t.chips \in [Seats -> Nat] /\ t.total \in [Seats -> Nat] /\ t.pot \in Nat
  BY DEF Table
<1>2. t.chips[i] <= Sum(t.chips) /\ t.total[i] <= Sum(t.total)
  BY <1>1, MemberAtMostSum
<1>3. Sum(t.chips) \in Nat /\ Sum(t.total) \in Nat
  BY <1>1, SeatSumType
<1> QED
  BY <1>1, <1>2, <1>3 DEF Own, Worth

\* The table is the hand the service relies on (PokerHand): its first state is a
\* first state of a hand, and every deal, move or stutter one of a hand.
THEOREM TableIsAHand == Spec => IsAHand
<1>1. Init => HandOf(table) \in [status : {"idle"}, actor : {Nobody}, solvent : SUBSET Seats]
  BY DEF Init, HandOf, StakedIn, Playing
<1>2. TableInv /\ [Next]_table => [Hand!Next]_(HandOf(table))
  <2> SUFFICES ASSUME TableInv, Next PROVE Hand!Next
    BY DEF HandOf, StakedIn, StakeOf
  <2>1. CASE Start
    <3>1. table \in Table /\ ~Playing(table) /\ Cardinality(Solvent(table)) >= 2
      BY <2>1, TurnOrRest DEF Start
    <3>2. table.chips \in [Seats -> Nat]
      BY <3>1 DEF Table
    <3>3. StakedIn(table) = {i \in Seats : table.chips[i] > 0}
      BY <3>1, <3>2 DEF StakedIn, StakeOf
    <3>4. 0 < Worth(table)
      <4>1. PICK i \in Seats : table.chips[i] > 0
        BY <3>1, BlindsAreOthers DEF Solvent
      <4>2. Own(table, i) > 0
        BY <3>1, <4>1 DEF Own, Table
      <4> QED
        BY <3>1, <4>1, <4>2, SomebodyIsWorth
    <3>5. HandOf(table') \in Hand!Outcomes(StakedIn(table))
      BY <2>1, <3>2, <3>3, <3>4, StartSteps, LeftByIsOutcome
    <3>6. HandOf(table).status # "playing" /\ HandOf(table).solvent = StakedIn(table)
          /\ Cardinality(HandOf(table).solvent) >= 2
      BY <3>1, <3>3 DEF HandOf, Solvent, Playing
    <3>7. Hand!Deal
      BY <3>5, <3>6, HandCountsAlike DEF Hand!Deal, HandOf, StakedIn, StakeOf, Staked
    <3> QED
      BY <3>7 DEF Hand!Next
  <2>2. CASE Act
    <3> DEFINE own == [i \in Seats |-> Own(table, i)]
    <3>1. Turn(table) /\ LeftBy(own, Worth(table), table')
      BY <2>2, ActSteps
    <3>2. table \in Table /\ Playing(table) /\ table.actor \in Seats
          /\ 0 < table.chips[table.actor]
      BY <3>1, TurnIs, TurnIsPlaying
    <3>3. own \in [Seats -> Nat]
      BY <3>2 DEF Own, Table
    <3>4. StakedIn(table) = {i \in Seats : own[i] > 0}
      BY <3>2 DEF StakedIn, StakeOf, Own
    <3>5. 0 < Worth(table)
      <4>1. Own(table, table.actor) > 0
        BY <3>2 DEF Own, Table
      <4> QED
        BY <3>2, <4>1, SomebodyIsWorth
    <3> HIDE DEF own
    <3>6. HandOf(table') \in Hand!Outcomes(StakedIn(table))
      BY <3>1, <3>3, <3>4, <3>5, LeftByIsOutcome
    <3>7. HandOf(table).status = "playing" /\ HandOf(table).solvent = StakedIn(table)
      BY <3>2 DEF HandOf
    <3>8. Hand!Move
      BY <3>6, <3>7 DEF Hand!Move, HandOf, StakedIn, StakeOf, Staked
    <3> QED
      BY <3>8 DEF Hand!Next
  <2> QED
    BY <2>1, <2>2 DEF Next
<1> QED
  BY <1>1, <1>2, TableInvariance, HandIs, PTL DEF Spec, IsAHand
=============================================================================
