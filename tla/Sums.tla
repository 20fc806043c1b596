---------------------------------- MODULE Sums ---------------------------------
(***************************************************************************)
(* Sums over finite sets, for the proofs about money and sizes.            *)
(*                                                                         *)
(* SumFunctionOnSet(f, S) is a fold, defined by a recursive function on    *)
(* the subsets of S that takes one element away after another.  What it    *)
(* is for every finite S is proved by minimal counterexample: among the    *)
(* subsets that break a claim one is smallest, and the claim holds of what *)
(* is left of it when an element goes.                                     *)
(***************************************************************************)
EXTENDS Integers, FiniteSets, Functions, FiniteSetsExt, FiniteSetTheorems, WellFoundedInduction, TLAPS

-----------------------------------------------------------------------------
(* Smallest counterexamples.                                               *)

\* Sets of subsets of a finite set have members that no other member is contained in.
LEMMA SmallestBadSet ==
    ASSUME NEW U, IsFiniteSet(U), NEW B, B \subseteq SUBSET U, B # {}
    PROVE  \E s \in B : \A t \in B : t \subseteq s => t = s
<1>1. IsWellFoundedOn(StrictSubsetOrdering(U), FiniteSubsetsOf(U))
  BY FS_StrictSubsetOrderingWellFounded
<1>2. FiniteSubsetsOf(U) = SUBSET U
  BY FS_FiniteSubsetsOfFinite
<1>3. \E s \in B : \A t \in B : ~ (<<t, s>> \in StrictSubsetOrdering(U))
  BY <1>1, <1>2, WFMin
<1>. QED
  BY <1>3 DEF StrictSubsetOrdering

\* Sets of numbers have a least one.
LEMMA SmallestBadNumber ==
    ASSUME NEW B, B \subseteq Nat, B # {}
    PROVE  \E n \in B : \A m \in B : n <= m
<1>1. \E n \in B : \A m \in B : ~ (<<m, n>> \in OpToRel(<, Nat))
  BY WFMin, NatLessThanWellFounded
<1>2. \A n, m \in Nat : <<m, n>> \in OpToRel(<, Nat) <=> m < n
  BY Zenon DEF OpToRel
<1>3. PICK n \in B : \A m \in B : ~ (<<m, n>> \in OpToRel(<, Nat))
  BY <1>1
<1>4. \A m \in B : ~ (m < n)
  BY <1>2, <1>3, Zenon
<1>. QED
  BY <1>4

-----------------------------------------------------------------------------
(* SumFunctionOnSet, unfolded.  The definition chooses a function that     *)
(* satisfies its equation: that there is one, and that all agree, is what  *)
(* makes the equation usable.                                              *)

\* The element the fold takes first.
Some(s) == CHOOSE x \in s : TRUE

\* It is an element, unless there is none.
LEMMA SomeIn == ASSUME NEW s, s # {} PROVE Some(s) \in s
BY DEF Some

\* The equation of the recursive function.
Unfolds(g, f, U) ==
    g = [s \in SUBSET U |-> IF s = {} THEN 0 ELSE f[Some(s)] + g[s \ {Some(s)}]]

\* SumFunctionOnSet, by its definition in the community modules.
LEMMA SumIsChosen ==
    ASSUME NEW f, NEW S
    PROVE  SumFunctionOnSet(f, S) = (CHOOSE g : Unfolds(g, f, S))[S]
BY DEF SumFunctionOnSet, FoldFunctionOnSet, MapThenFoldSet, Unfolds, Some

\* The equation, for the sets of at most n elements.
UnfoldsUpTo(g, f, U, n) ==
    /\ g = [s \in SUBSET U |-> g[s]]
    /\ \A s \in SUBSET U : Cardinality(s) <= n =>
          g[s] = IF s = {} THEN 0 ELSE f[Some(s)] + g[s \ {Some(s)}]

\* Some function satisfies the equation.
LEMMA SumExists ==
    ASSUME NEW U, IsFiniteSet(U), NEW f
    PROVE  \E g : Unfolds(g, f, U)
<1>. DEFINE Bad == {n \in Nat : ~ \E g : UnfoldsUpTo(g, f, U, n)}
<1>1. Bad = {}
  <2>. SUFFICES ASSUME Bad # {} PROVE FALSE
    OBVIOUS
  <2>1. PICK n \in Bad : \A m \in Bad : n <= m
    BY SmallestBadNumber
  <2>2. n # 0
    <3>. DEFINE z == [s \in SUBSET U |-> 0]
    <3>1. \A s \in SUBSET U : Cardinality(s) <= 0 => s = {}
      BY FS_Subset, FS_CardinalityType, FS_EmptySet
    <3>2. UnfoldsUpTo(z, f, U, 0)
      BY <3>1 DEF UnfoldsUpTo
    <3>. QED
      BY <3>2
  <2>3. PICK g : UnfoldsUpTo(g, f, U, n - 1)
    BY <2>1, <2>2
  <2>. DEFINE h == [s \in SUBSET U |-> IF s = {} THEN 0 ELSE f[Some(s)] + g[s \ {Some(s)}]]
  <2>4. ASSUME NEW s \in SUBSET U, Cardinality(s) <= n
        PROVE  h[s] = IF s = {} THEN 0 ELSE f[Some(s)] + h[s \ {Some(s)}]
    <3>. SUFFICES ASSUME s # {} PROVE h[s] = f[Some(s)] + h[s \ {Some(s)}]
      OBVIOUS
    <3>. DEFINE t == s \ {Some(s)}
    <3>1. t \in SUBSET U /\ Cardinality(t) <= n - 1
      BY <2>4, FS_Subset, FS_RemoveElement, FS_CardinalityType, SomeIn
    <3>2. g[t] = h[t]
      BY <3>1, <2>3 DEF UnfoldsUpTo
    <3>. QED
      BY <3>2
  <2>5. UnfoldsUpTo(h, f, U, n)
    BY <2>4 DEF UnfoldsUpTo
  <2>. QED
    BY <2>5
<1>2. PICK g : UnfoldsUpTo(g, f, U, Cardinality(U))
  BY <1>1, FS_CardinalityType
<1>3. \A s \in SUBSET U : Cardinality(s) <= Cardinality(U)
  BY FS_Subset
<1>4. Unfolds(g, f, U)
  BY <1>2, <1>3 DEF Unfolds, UnfoldsUpTo
<1>. QED
  BY <1>4

\* Two functions that satisfy it agree, whichever set they were defined for.
LEMMA SumsAgree ==
    ASSUME NEW U, IsFiniteSet(U), NEW V \in SUBSET U, NEW f,
           NEW g, Unfolds(g, f, U), NEW h, Unfolds(h, f, V)
    PROVE  \A s \in SUBSET V : g[s] = h[s]
<1>. DEFINE Bad == {s \in SUBSET V : g[s] # h[s]}
<1>. SUFFICES ASSUME Bad # {} PROVE FALSE
  OBVIOUS
<1>0. Bad \subseteq SUBSET V
  OBVIOUS
<1>1. PICK s \in Bad : \A t \in Bad : t \subseteq s => t = s
  <2>. HIDE DEF Bad
  <2>. QED BY <1>0, SmallestBadSet, FS_Subset
<1>2. s # {}
  BY DEF Unfolds
<1>3. Some(s) \in s
  BY <1>2, SomeIn
<1>4. s \ {Some(s)} \notin Bad
  BY <1>1, <1>3
<1>. QED
  BY <1>2, <1>4 DEF Unfolds

\* So the sum is what any of them says.
LEMMA SumIsAny ==
    ASSUME NEW U, IsFiniteSet(U), NEW S \in SUBSET U, NEW f, NEW g, Unfolds(g, f, U)
    PROVE  SumFunctionOnSet(f, S) = g[S]
<1>1. IsFiniteSet(S)
  BY FS_Subset
<1>2. Unfolds(CHOOSE h : Unfolds(h, f, S), f, S)
  BY <1>1, SumExists
<1>. QED
  BY <1>2, SumsAgree, SumIsChosen

\* The sum is that of its first element and the rest.
LEMMA SumUnfolds ==
    ASSUME NEW S, IsFiniteSet(S), NEW f
    PROVE  SumFunctionOnSet(f, S) =
             IF S = {} THEN 0 ELSE f[Some(S)] + SumFunctionOnSet(f, S \ {Some(S)})
<1>1. PICK g : Unfolds(g, f, S)
  BY SumExists
<1>2. SumFunctionOnSet(f, S) = g[S] /\ SumFunctionOnSet(f, S \ {Some(S)}) = g[S \ {Some(S)}]
  BY <1>1, SumIsAny
<1>. QED
  BY <1>1, <1>2 DEF Unfolds

-----------------------------------------------------------------------------
(* What the proofs about the components use.                               *)

\* The sum over nothing is zero.
LEMMA SumOfNone == ASSUME NEW f PROVE SumFunctionOnSet(f, {}) = 0
<1>1. IsFiniteSet({})
  BY FS_EmptySet
<1>. QED
  BY <1>1, SumUnfolds

\* Sums of integers are integers.
LEMMA SumType ==
    ASSUME NEW S, IsFiniteSet(S), NEW f, \A x \in S : f[x] \in Int
    PROVE  SumFunctionOnSet(f, S) \in Int
<1>. DEFINE Bad == {s \in SUBSET S : SumFunctionOnSet(f, s) \notin Int}
<1>. SUFFICES ASSUME Bad # {} PROVE FALSE
  OBVIOUS
<1>0. Bad \subseteq SUBSET S
  OBVIOUS
<1>1. PICK s \in Bad : \A t \in Bad : t \subseteq s => t = s
  <2>. HIDE DEF Bad
  <2>. QED BY <1>0, SmallestBadSet
<1>2. IsFiniteSet(s)
  BY FS_Subset
<1>3. s # {}
  BY SumOfNone
<1>4. Some(s) \in s
  BY <1>3, SomeIn
<1>5. s \ {Some(s)} \notin Bad
  BY <1>1, <1>4
<1>6. SumFunctionOnSet(f, s \ {Some(s)}) \in Int /\ f[Some(s)] \in Int
  BY <1>4, <1>5
<1>7. SumFunctionOnSet(f, s) = f[Some(s)] + SumFunctionOnSet(f, s \ {Some(s)})
  BY <1>2, <1>3, SumUnfolds
<1>8. SumFunctionOnSet(f, s) \in Int
  BY <1>6, <1>7
<1>. QED
  BY <1>8

\* Any element may be taken out: the sum does not depend on the order.
LEMMA SumWithout ==
    ASSUME NEW S, IsFiniteSet(S), NEW f, \A y \in S : f[y] \in Int, NEW x \in S
    PROVE  SumFunctionOnSet(f, S) = f[x] + SumFunctionOnSet(f, S \ {x})
<1>. DEFINE Without(s, y) == SumFunctionOnSet(f, s) = f[y] + SumFunctionOnSet(f, s \ {y})
            Bad == {s \in SUBSET S : \E y \in s : ~ Without(s, y)}
<1>. SUFFICES ASSUME Bad # {} PROVE FALSE
  OBVIOUS
<1>0. Bad \subseteq SUBSET S
  OBVIOUS
<1>1. PICK s \in Bad : \A t \in Bad : t \subseteq s => t = s
  <2>. HIDE DEF Bad
  <2>. QED BY <1>0, SmallestBadSet
<1>2. PICK y \in s : ~ Without(s, y)
  OBVIOUS
<1>3. IsFiniteSet(s) /\ \A t \in SUBSET s : IsFiniteSet(t)
  BY FS_Subset
<1>. DEFINE z == Some(s)
<1>4. z \in s
  BY <1>2, SomeIn
<1>. HIDE DEF z
<1>5. Without(s, z)
  BY <1>2, <1>3, SumUnfolds DEF z
<1>6. y # z
  BY <1>2, <1>5
<1>7. Without(s \ {z}, y)
  <2>1. s \ {z} \notin Bad
    BY <1>1, <1>4
  <2>. QED
    BY <2>1, <1>2, <1>6
<1>8. Without(s \ {y}, z)
  <2>1. s \ {y} \notin Bad
    BY <1>1, <1>2
  <2>. QED
    BY <2>1, <1>4, <1>6
<1>9. (s \ {z}) \ {y} = (s \ {y}) \ {z}
  OBVIOUS
<1>10. SumFunctionOnSet(f, (s \ {y}) \ {z}) \in Int /\ f[y] \in Int /\ f[z] \in Int
  BY <1>2, <1>3, <1>4, SumType
<1>11. SumFunctionOnSet(f, s) = f[y] + SumFunctionOnSet(f, s \ {y})
  <2>. DEFINE both == SumFunctionOnSet(f, (s \ {y}) \ {z})
  <2>1. SumFunctionOnSet(f, s) = f[z] + SumFunctionOnSet(f, s \ {z})
    BY <1>5
  <2>2. SumFunctionOnSet(f, s \ {z}) = f[y] + both
    BY <1>7, <1>9
  <2>3. SumFunctionOnSet(f, s \ {y}) = f[z] + both
    BY <1>8
  <2>4. both \in Int
    BY <1>10
  <2>. HIDE DEF both
  <2>. QED
    BY <2>1, <2>2, <2>3, <2>4, <1>10
<1>. QED
  BY <1>2, <1>11

\* Only the summands that count matter.
LEMMA SumSame ==
    ASSUME NEW S, IsFiniteSet(S), NEW f, NEW g, \A x \in S : f[x] = g[x]
    PROVE  SumFunctionOnSet(f, S) = SumFunctionOnSet(g, S)
<1>. DEFINE Bad == {s \in SUBSET S : SumFunctionOnSet(f, s) # SumFunctionOnSet(g, s)}
<1>. SUFFICES ASSUME Bad # {} PROVE FALSE
  OBVIOUS
<1>0. Bad \subseteq SUBSET S
  OBVIOUS
<1>1. PICK s \in Bad : \A t \in Bad : t \subseteq s => t = s
  <2>. HIDE DEF Bad
  <2>. QED BY <1>0, SmallestBadSet
<1>2. IsFiniteSet(s)
  BY FS_Subset
<1>3. s # {}
  BY <1>2, SumUnfolds
<1>4. Some(s) \in s
  BY <1>3, SomeIn
<1>5. s \ {Some(s)} \notin Bad
  BY <1>1, <1>4
<1>. QED
  BY <1>2, <1>3, <1>4, <1>5, SumUnfolds

\* One more summand.
LEMMA SumWith ==
    ASSUME NEW S, IsFiniteSet(S), NEW f, \A y \in S : f[y] \in Int, NEW x, x \notin S, f[x] \in Int
    PROVE  SumFunctionOnSet(f, S \cup {x}) = f[x] + SumFunctionOnSet(f, S)
<1>1. IsFiniteSet(S \cup {x}) /\ (S \cup {x}) \ {x} = S
  BY FS_AddElement
<1>. QED
  BY <1>1, SumWithout

\* With natural summands, less is summed over fewer.
LEMMA SumMonotone ==
    ASSUME NEW S, IsFiniteSet(S), NEW f, \A y \in S : f[y] \in Nat, NEW T \in SUBSET S
    PROVE  SumFunctionOnSet(f, T) <= SumFunctionOnSet(f, S)
<1>. DEFINE Less(t, s) == SumFunctionOnSet(f, t) <= SumFunctionOnSet(f, s)
            Bad == {s \in SUBSET S : \E t \in SUBSET s : ~ Less(t, s)}
<1>. SUFFICES ASSUME Bad # {} PROVE FALSE
  OBVIOUS
<1>0. Bad \subseteq SUBSET S
  OBVIOUS
<1>1. PICK s \in Bad : \A t \in Bad : t \subseteq s => t = s
  <2>. HIDE DEF Bad
  <2>. QED BY <1>0, SmallestBadSet
<1>2. PICK t \in SUBSET s : ~ Less(t, s)
  OBVIOUS
<1>3. IsFiniteSet(s) /\ \A u \in SUBSET s : IsFiniteSet(u)
  BY FS_Subset
<1>4. \A u \in SUBSET s : SumFunctionOnSet(f, u) \in Int
  BY <1>3, SumType
<1>5. t # s
  BY <1>2, <1>4
<1>6. PICK x \in s : x \notin t
  BY <1>5
<1>7. Less(t, s \ {x})
  <2>1. s \ {x} \notin Bad
    BY <1>1, <1>6
  <2>. QED
    BY <2>1, <1>6
<1>8. SumFunctionOnSet(f, s) = f[x] + SumFunctionOnSet(f, s \ {x})
  BY <1>3, <1>6, SumWithout
<1>9. f[x] \in Nat /\ s \ {x} \in SUBSET s
  BY <1>6
<1>10. Less(t, s)
  BY <1>4, <1>7, <1>8, <1>9
<1>. QED
  BY <1>2, <1>10
===============================================================================
