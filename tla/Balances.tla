------------------------------ MODULE Balances ------------------------------
(***************************************************************************)
(* Balances: the transfers of the token contract, and sums of a function   *)
(* over a finite set with the facts about them that the proofs need: the   *)
(* empty sum, the type of a sum, how a sum changes with its set and with   *)
(* its function.                                                           *)
(*                                                                         *)
(* The token is the SEP-41 contract the escrows call: external code,       *)
(* modelled from how token::Client::transfer is used.  A transfer the      *)
(* balance does not cover traps, and the calling transaction is rolled     *)
(* back with it, so an action that transfers has CanMove among its guards. *)
(*                                                                         *)
(* The sum is the fold of the community modules, a recursive function on   *)
(* the subsets of the set.  That the recursion has a solution is shown on  *)
(* partial sums, by the least size for which it has none; that its value   *)
(* does not depend on the order in which elements are chosen, by a least   *)
(* subset for which it does.  Both appeal to theorem WFMin, whose          *)
(* arguments are sets.                                                     *)
(***************************************************************************)
EXTENDS Integers, FiniteSets, FiniteSetsExt, FiniteSetTheorems,
        WellFoundedInduction, TLAPS

\* The source's balance covers the amount.
CanMove(bal, from, amount) == bal[from] >= amount

\* The balances after the transfer; from and to may be the same account.
Move(bal, from, to, amount) ==
  [bal EXCEPT ![from] = @ - amount, ![to] = @ + amount]

SumOf(f, S) == MapThenSumSet(LAMBDA x : f[x], S)

-----------------------------------------------------------------------------

AnyOf(T) == CHOOSE x \in T : TRUE

\* One step of the recursion: the sum over T from the sums h of smaller sets.
SumStep(f, h, T) == IF T = {} THEN 0 ELSE f[AnyOf(T)] + h[T \ {AnyOf(T)}]

\* h solves the recursion on the subsets of S with at most n elements.
SumsUpTo(f, h, S, n) ==
  \A T \in SUBSET S : Cardinality(T) <= n => h[T] = SumStep(f, h, T)

\* The function behind the sum over S.
PartialSum(f, S) == CHOOSE h : h = [T \in SUBSET S |-> SumStep(f, h, T)]

\* The sum is the value of its recursive function.
LEMMA SumUnfold ==
  ASSUME NEW f, NEW S
  PROVE  SumOf(f, S) = PartialSum(f, S)[S]
BY DEF SumOf, MapThenSumSet, MapThenFoldSet, PartialSum, SumStep, AnyOf

\* Every non-empty set of naturals has a least element.
LEMMA LeastNat ==
  ASSUME NEW B \in SUBSET Nat, B # {}
  PROVE  \E n \in B : \A m \in Nat : m < n => m \notin B
<1>1. \E x \in B : \A y \in B : ~ (<<y, x>> \in OpToRel(<, Nat))
  BY NatLessThanWellFounded, WFMin
<1> QED  BY <1>1 DEF OpToRel

\* Every non-empty set of subsets of a finite set has a minimal element.
LEMMA LeastSubset ==
  ASSUME NEW S, IsFiniteSet(S), NEW B \in SUBSET (SUBSET S), B # {}
  PROVE  \E T \in B : \A U \in SUBSET T : U # T => U \notin B
<1> DEFINE N == {Cardinality(T) : T \in B}
<1>1. \A T \in B : IsFiniteSet(T) /\ Cardinality(T) \in Nat
  BY FS_Subset, FS_CardinalityType
<1>2. N \in SUBSET Nat /\ N # {}
  BY <1>1
<1>3. PICK n \in N : \A m \in Nat : m < n => m \notin N
  BY <1>2, LeastNat
<1>4. PICK T \in B : n = Cardinality(T)
  OBVIOUS
<1>5. ASSUME NEW U \in SUBSET T, U # T, U \in B  PROVE FALSE
  <2>1. Cardinality(U) <= Cardinality(T) /\ Cardinality(U) # Cardinality(T)
    BY <1>1, <1>5, FS_Subset
  <2>2. Cardinality(U) \in N /\ Cardinality(U) \in Nat /\ Cardinality(T) \in Nat
    BY <1>1, <1>5
  <2> QED  BY <1>3, <1>4, <2>1, <2>2
<1> QED  BY <1>5

\* The recursion has a solution on the subsets of every size.
LEMMA PartialSumExists ==
  ASSUME NEW f, NEW S, IsFiniteSet(S), NEW n \in Nat
  PROVE  \E h : SumsUpTo(f, h, S, n)
<1> DEFINE B == {k \in Nat : ~ \E h : SumsUpTo(f, h, S, k)}
<1>1. SUFFICES ASSUME B # {}  PROVE FALSE
  OBVIOUS
<1>2. PICK k \in B : \A m \in Nat : m < k => m \notin B
  BY <1>1, LeastNat
<1>3. \A T \in SUBSET S : IsFiniteSet(T) /\ Cardinality(T) \in Nat
  BY FS_Subset, FS_CardinalityType
<1>4. CASE k = 0
  <2> DEFINE h == [T \in SUBSET S |-> 0]
  <2>1. \A T \in SUBSET S : Cardinality(T) <= 0 => T = {}
    BY <1>3, FS_EmptySet
  <2>2. SumsUpTo(f, h, S, 0)
    BY <2>1 DEF SumsUpTo, SumStep
  <2> QED  BY <1>4, <2>2
<1>5. CASE k # 0
  <2>1. PICK h : SumsUpTo(f, h, S, k - 1)
    BY <1>2, <1>5
  <2> DEFINE g == [T \in SUBSET S |-> SumStep(f, h, T)]
  <2>2. ASSUME NEW T \in SUBSET S, Cardinality(T) <= k
        PROVE  g[T] = SumStep(f, g, T)
    <3>1. CASE T = {}
      BY <3>1 DEF SumStep
    <3>2. CASE T # {}
      <4> DEFINE U == T \ {AnyOf(T)}
      <4>1. AnyOf(T) \in T
        BY <3>2 DEF AnyOf
      <4>2. U \in SUBSET S /\ Cardinality(U) <= k - 1
        BY <1>3, <2>2, <4>1, FS_RemoveElement
      <4>3. h[U] = SumStep(f, h, U)
        BY <2>1, <4>2 DEF SumsUpTo
      <4>4. g[U] = h[U]
        BY <4>2, <4>3
      <4> QED  BY <3>2, <4>4 DEF SumStep
    <3> QED  BY <3>1, <3>2
  <2>3. SumsUpTo(f, g, S, k)
    BY <2>2 DEF SumsUpTo
  <2> QED  BY <2>3
<1> QED  BY <1>4, <1>5

\* The recursive function behind a sum satisfies its equation.
LEMMA PartialSumEquation ==
  ASSUME NEW f, NEW S, IsFiniteSet(S)
  PROVE  \A T \in SUBSET S : PartialSum(f, S)[T] = SumStep(f, PartialSum(f, S), T)
<1>1. Cardinality(S) \in Nat
  BY FS_CardinalityType
<1>2. PICK h : SumsUpTo(f, h, S, Cardinality(S))
  BY <1>1, PartialSumExists
<1> DEFINE g == [T \in SUBSET S |-> h[T]]
<1>3. \A T \in SUBSET S : h[T] = SumStep(f, h, T)
  BY <1>2, FS_Subset DEF SumsUpTo
<1>4. \A T \in SUBSET S : SumStep(f, h, T) = SumStep(f, g, T)
  BY DEF SumStep
<1>5. g = [T \in SUBSET S |-> SumStep(f, g, T)]
  BY <1>3, <1>4
<1>6. PartialSum(f, S) = [T \in SUBSET S |-> SumStep(f, PartialSum(f, S), T)]
  BY <1>5 DEF PartialSum
<1> HIDE DEF g
<1> QED  BY <1>6

\* PartialSum sums of two functions that agree on a set, computed within two
\* larger sets, are the same.
LEMMA PartialSumAgree ==
  ASSUME NEW f, NEW g, NEW R, NEW S, IsFiniteSet(R), IsFiniteSet(S),
         NEW T \in SUBSET R, T \in SUBSET S, \A x \in T : f[x] = g[x]
  PROVE  PartialSum(f, R)[T] = PartialSum(g, S)[T]
<1> DEFINE B == {U \in SUBSET T : PartialSum(f, R)[U] # PartialSum(g, S)[U]}
<1>1. SUFFICES ASSUME B # {}  PROVE FALSE
  OBVIOUS
<1>2. IsFiniteSet(T)
  BY FS_Subset
<1>3. PICK U \in B : \A V \in SUBSET U : V # U => V \notin B
  <2>1. B \in SUBSET (SUBSET T)
    OBVIOUS
  <2> HIDE DEF B
  <2> QED  BY <1>1, <1>2, <2>1, LeastSubset
<1>4. /\ PartialSum(f, R)[U] = SumStep(f, PartialSum(f, R), U)
      /\ PartialSum(g, S)[U] = SumStep(g, PartialSum(g, S), U)
  BY PartialSumEquation
<1>5. U # {}
  BY <1>4 DEF SumStep
<1>6. AnyOf(U) \in U
  BY <1>5 DEF AnyOf
<1>7. PartialSum(f, R)[U \ {AnyOf(U)}] = PartialSum(g, S)[U \ {AnyOf(U)}]
  BY <1>3, <1>6
<1> QED  BY <1>4, <1>5, <1>6, <1>7 DEF SumStep

\* The sum over a set is a partial sum within any larger finite set.
LEMMA SumIsPartialSum ==
  ASSUME NEW f, NEW S, IsFiniteSet(S), NEW T \in SUBSET S
  PROVE  SumOf(f, T) = PartialSum(f, S)[T]
<1>1. IsFiniteSet(T)
  BY FS_Subset
<1> QED  BY <1>1, SumUnfold, PartialSumAgree

-----------------------------------------------------------------------------

\* Nothing sums to zero.
LEMMA SumEmpty ==
  ASSUME NEW f
  PROVE  SumOf(f, {}) = 0
BY SumUnfold, PartialSumEquation, FS_EmptySet DEF SumStep

\* Functions that agree on a set have the same sum over it.
LEMMA SumAgree ==
  ASSUME NEW f, NEW g, NEW S, IsFiniteSet(S), \A x \in S : f[x] = g[x]
  PROVE  SumOf(f, S) = SumOf(g, S)
BY SumUnfold, PartialSumAgree

\* A sum of integers is an integer.
LEMMA SumInt ==
  ASSUME NEW f, NEW S, IsFiniteSet(S), \A x \in S : f[x] \in Int
  PROVE  SumOf(f, S) \in Int
<1> DEFINE B == {T \in SUBSET S : PartialSum(f, S)[T] \notin Int}
<1>1. SUFFICES ASSUME B # {}  PROVE FALSE
  BY SumUnfold
<1>2. PICK T \in B : \A U \in SUBSET T : U # T => U \notin B
  <2>1. B \in SUBSET (SUBSET S)
    OBVIOUS
  <2> HIDE DEF B
  <2> QED  BY <1>1, <2>1, LeastSubset
<1>3. PartialSum(f, S)[T] = SumStep(f, PartialSum(f, S), T)
  BY PartialSumEquation
<1>4. T # {}
  BY <1>3 DEF SumStep
<1>5. AnyOf(T) \in T
  BY <1>4 DEF AnyOf
<1>6. PartialSum(f, S)[T \ {AnyOf(T)}] \in Int
  BY <1>2, <1>5
<1> QED  BY <1>3, <1>4, <1>5, <1>6 DEF SumStep

\* Any element may be taken out of a sum first.
LEMMA SumRemove ==
  ASSUME NEW f, NEW S, IsFiniteSet(S), \A x \in S : f[x] \in Int, NEW x \in S
  PROVE  SumOf(f, S) = f[x] + SumOf(f, S \ {x})
<1> DEFINE P(T) == PartialSum(f, S)[T]
           B == {T \in SUBSET S : \E y \in T : P(T) # f[y] + P(T \ {y})}
<1>1. SUFFICES ASSUME B # {}  PROVE FALSE
  <2>1. SumOf(f, S) = P(S) /\ SumOf(f, S \ {x}) = P(S \ {x})
    BY SumIsPartialSum
  <2>2. S \notin B => P(S) = f[x] + P(S \ {x})
    OBVIOUS
  <2> HIDE DEF P, B
  <2> QED  BY <2>1, <2>2
<1>2. PICK T \in B : \A U \in SUBSET T : U # T => U \notin B
  <2>1. B \in SUBSET (SUBSET S)
    OBVIOUS
  <2> HIDE DEF B
  <2> QED  BY <1>1, <2>1, LeastSubset
<1>3. PICK y \in T : P(T) # f[y] + P(T \ {y})
  OBVIOUS
<1> DEFINE z == AnyOf(T)
<1>4. z \in T
  BY DEF AnyOf
<1>5. P(T) = f[z] + P(T \ {z})
  BY <1>4, PartialSumEquation DEF SumStep
<1>6. y # z
  BY <1>3, <1>5
<1>7. P(T \ {z}) = f[y] + P((T \ {z}) \ {y})
  BY <1>2, <1>4, <1>6
<1>8. P(T \ {y}) = f[z] + P((T \ {y}) \ {z})
  BY <1>2, <1>4, <1>6
<1>9. f[y] \in Int /\ f[z] \in Int
  BY <1>4
<1>10. P((T \ {y}) \ {z}) = P((T \ {z}) \ {y})
  <2>1. (T \ {y}) \ {z} = (T \ {z}) \ {y}
    OBVIOUS
  <2> QED  BY <2>1
<1>11. P((T \ {z}) \ {y}) \in Int
  <2>1. IsFiniteSet((T \ {z}) \ {y}) /\ (T \ {z}) \ {y} \in SUBSET S
    BY FS_Subset
  <2> QED  BY <2>1, SumIsPartialSum, SumInt
<1> HIDE DEF P, B, z
<1> QED  BY <1>3, <1>5, <1>7, <1>8, <1>9, <1>10, <1>11

\* A new element adds its value.
LEMMA SumAdd ==
  ASSUME NEW f, NEW S, IsFiniteSet(S), NEW x, x \notin S,
         \A y \in S \union {x} : f[y] \in Int
  PROVE  SumOf(f, S \union {x}) = f[x] + SumOf(f, S)
<1>1. IsFiniteSet(S \union {x})
  BY FS_AddElement
<1>2. (S \union {x}) \ {x} = S
  OBVIOUS
<1> QED  BY <1>1, <1>2, SumRemove

\* A function changed at one element changes the sum by the difference.
LEMMA SumUpdate ==
  ASSUME NEW f, NEW g, NEW S, IsFiniteSet(S), NEW x \in S,
         \A y \in S : f[y] \in Int, g[x] \in Int,
         \A y \in S \ {x} : g[y] = f[y]
  PROVE  SumOf(g, S) = SumOf(f, S) + g[x] - f[x]
<1>1. IsFiniteSet(S \ {x})
  BY FS_RemoveElement
<1>2. SumOf(f, S) = f[x] + SumOf(f, S \ {x})
  BY SumRemove
<1>3. SumOf(g, S) = g[x] + SumOf(g, S \ {x})
  BY SumRemove
<1>4. SumOf(g, S \ {x}) = SumOf(f, S \ {x})
  BY <1>1, SumAgree
<1>5. SumOf(f, S \ {x}) \in Int
  BY <1>1, SumInt
<1> QED  BY <1>2, <1>3, <1>4, <1>5

\* A sum of natural numbers is a natural number.
LEMMA SumNat ==
  ASSUME NEW f, NEW S, IsFiniteSet(S), \A x \in S : f[x] \in Nat
  PROVE  SumOf(f, S) \in Nat
<1> DEFINE B == {T \in SUBSET S : SumOf(f, T) \notin Nat}
<1>1. SUFFICES ASSUME B # {}  PROVE FALSE
  OBVIOUS
<1>2. PICK T \in B : \A U \in SUBSET T : U # T => U \notin B
  <2>1. B \in SUBSET (SUBSET S)
    OBVIOUS
  <2> HIDE DEF B
  <2> QED  BY <1>1, <2>1, LeastSubset
<1>3. IsFiniteSet(T)
  BY FS_Subset
<1>4. PICK x \in T : TRUE
  BY SumEmpty
<1>5. SumOf(f, T) = f[x] + SumOf(f, T \ {x})
  BY <1>3, SumRemove
<1>6. SumOf(f, T \ {x}) \in Nat
  BY <1>2
<1> QED  BY <1>5, <1>6

\* No natural number exceeds a sum it is part of.
LEMMA SumBound ==
  ASSUME NEW f, NEW S, IsFiniteSet(S), \A x \in S : f[x] \in Nat, NEW x \in S
  PROVE  f[x] <= SumOf(f, S)
<1>1. SumOf(f, S) = f[x] + SumOf(f, S \ {x})
  BY SumRemove
<1>2. IsFiniteSet(S \ {x})
  BY FS_RemoveElement
<1>3. SumOf(f, S \ {x}) \in Nat
  BY <1>2, SumNat
<1> QED  BY <1>1, <1>3

\* What contributes nothing can be left out of a sum.
LEMMA SumZeroOutside ==
  ASSUME NEW f, NEW S, IsFiniteSet(S), NEW T \in SUBSET S,
         \A x \in S : f[x] \in Int, \A x \in S \ T : f[x] = 0
  PROVE  SumOf(f, S) = SumOf(f, T)
<1> DEFINE B == {U \in SUBSET S : T \subseteq U /\ SumOf(f, U) # SumOf(f, T)}
<1>1. SUFFICES ASSUME B # {}  PROVE FALSE
  OBVIOUS
<1>2. PICK U \in B : \A V \in SUBSET U : V # U => V \notin B
  <2>1. B \in SUBSET (SUBSET S)
    OBVIOUS
  <2> HIDE DEF B
  <2> QED  BY <1>1, <2>1, LeastSubset
<1>3. PICK x \in U \ T : TRUE
  OBVIOUS
<1>4. SumOf(f, U \ {x}) = SumOf(f, T)
  BY <1>2, <1>3
<1>5. IsFiniteSet(U) /\ \A y \in U : f[y] \in Int
  BY FS_Subset
<1>6. SumOf(f, U) = f[x] + SumOf(f, U \ {x})
  BY <1>3, <1>5, SumRemove
<1>7. f[x] = 0 /\ SumOf(f, T) \in Int
  BY <1>3, SumInt, FS_Subset
<1> QED  BY <1>4, <1>6, <1>7

\* A set whose elements all contribute zero sums to zero.
LEMMA SumZero ==
  ASSUME NEW f, NEW S, IsFiniteSet(S), \A x \in S : f[x] = 0
  PROVE  SumOf(f, S) = 0
<1>1. {} \in SUBSET S /\ \A x \in S : f[x] \in Int
  OBVIOUS
<1>2. SumOf(f, S) = SumOf(f, {})
  BY <1>1, SumZeroOutside
<1> QED  BY <1>2, SumEmpty

\* A sum of positive numbers is at least their number.
LEMMA SumAtLeast ==
  ASSUME NEW f, NEW S, IsFiniteSet(S), \A x \in S : f[x] \in Nat /\ f[x] >= 1
  PROVE  SumOf(f, S) >= Cardinality(S)
<1> DEFINE B == {T \in SUBSET S : ~ (SumOf(f, T) >= Cardinality(T))}
<1>1. SUFFICES ASSUME B # {}  PROVE FALSE
  OBVIOUS
<1>2. PICK T \in B : \A U \in SUBSET T : U # T => U \notin B
  <2>1. B \in SUBSET (SUBSET S)
    OBVIOUS
  <2> HIDE DEF B
  <2> QED  BY <1>1, <2>1, LeastSubset
<1>3. IsFiniteSet(T) /\ \A x \in T : f[x] \in Nat /\ f[x] \in Int /\ f[x] >= 1
  BY FS_Subset
<1>4. CASE T = {}
  <2>1. SumOf(f, {}) = 0 /\ Cardinality({}) = 0
    BY SumEmpty, FS_EmptySet
  <2> QED  BY <1>4, <2>1
<1>5. CASE T # {}
  <2>1. PICK x \in T : TRUE
    BY <1>5
  <2> DEFINE U == T \ {x}
  <2>2. IsFiniteSet(U) /\ Cardinality(T) = Cardinality(U) + 1 /\ Cardinality(U) \in Nat
    <3>1. IsFiniteSet(U) /\ Cardinality(U) = Cardinality(T) - 1
      BY <1>3, <2>1, FS_RemoveElement
    <3>2. Cardinality(T) \in Nat /\ Cardinality(U) \in Nat
      BY <1>3, <3>1, FS_CardinalityType
    <3> QED  BY <3>1, <3>2
  <2>3. SumOf(f, T) = f[x] + SumOf(f, U)
    BY <1>3, <2>1, SumRemove
  <2>4. U \in SUBSET T /\ U # T /\ U \in SUBSET S
    BY <2>1
  <2>5. SumOf(f, U) >= Cardinality(U)
    BY <1>2, <2>4
  <2>6. SumOf(f, U) \in Nat
    BY <1>3, <2>2, <2>4, SumNat
  <2>7. f[x] \in Nat /\ f[x] >= 1
    BY <1>3, <2>1
  <2> HIDE DEF U
  <2> QED  BY <2>2, <2>3, <2>5, <2>6, <2>7
<1> QED  BY <1>4, <1>5

\* The sum of several balances changes by as much as the one that changes.
LEMMA SumShift ==
  ASSUME NEW S, IsFiniteSet(S), NEW f \in [S -> Nat], NEW g \in [S -> Nat],
         NEW x \in S, \A z \in S : z # x => g[z] = f[z]
  PROVE  /\ SumOf(f, S) \in Nat /\ SumOf(g, S) \in Nat
         /\ SumOf(g, S) = SumOf(f, S) + g[x] - f[x]
<1>1. /\ \A z \in S : f[z] \in Nat /\ g[z] \in Nat
      /\ \A z \in S : f[z] \in Int
      /\ g[x] \in Int /\ f[x] \in Int
  OBVIOUS
<1>2. SumOf(f, S) \in Nat /\ SumOf(g, S) \in Nat
  BY <1>1, SumNat
<1>3. \A z \in S \ {x} : g[z] = f[z]
  OBVIOUS
<1>4. SumOf(g, S) = SumOf(f, S) + g[x] - f[x]
  BY <1>1, <1>3, SumUpdate
<1> QED
  BY <1>2, <1>4
=============================================================================
