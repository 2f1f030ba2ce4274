----------------------------- MODULE SumProofs ------------------------------
(***************************************************************************)
(* Induction for the other modules of proofs, and what they need of sums   *)
(* over finite sets and of sequences built by recursion.  An induction is  *)
(* a smallest counterexample: the least number, or a least set, that a set *)
(* of counterexamples has.                                                 *)
(***************************************************************************)
EXTENDS Integers, FiniteSets, Functions, FiniteSetTheorems, WellFoundedInduction, TLAPS

-----------------------------------------------------------------------------
(* Induction                                                               *)

\* A set of natural numbers has a least one.
LEMMA LeastNumber ==
    ASSUME NEW T, T \subseteq Nat, T # {}
    PROVE  \E n \in T : \A m \in T : n <= m
<1> DEFINE R == OpToRel(<, Nat)
<1>1. IsWellFoundedOn(R, Nat)
  BY NatLessThanWellFounded
<1> HIDE DEF R
<1>2. PICK n \in T : \A m \in T : <<m, n>> \notin R
  BY <1>1, WFMin
<1>3. \A m \in T : ~(m < n)
  BY <1>2 DEF R, OpToRel
<1> QED
  BY <1>3

\* What 0 has, and n + 1 has if n has it, every number has.
LEMMA EveryNumber ==
    ASSUME NEW S, 0 \in S, \A n \in Nat : n \in S => n + 1 \in S
    PROVE  Nat \subseteq S
<1> SUFFICES ASSUME Nat \ S # {} PROVE FALSE
  OBVIOUS
<1>1. PICK n \in Nat \ S : \A m \in Nat \ S : n <= m
  BY LeastNumber
<1> QED
  BY <1>1

\* What every subset of a finite set has if all smaller ones have it, all have.
LEMMA EverySubset ==
    ASSUME NEW S, IsFiniteSet(S), NEW P,
           \A T \in SUBSET S : (\A U \in SUBSET T : U # T => U \in P) => T \in P
    PROVE  \A T \in SUBSET S : T \in P
<1> DEFINE Bad == {n \in Nat : \E T \in SUBSET S : Cardinality(T) = n /\ T \notin P}
<1>1. \A T \in SUBSET S : IsFiniteSet(T) /\ Cardinality(T) \in Nat
  BY FS_Subset, FS_CardinalityType
<1> SUFFICES ASSUME NEW T \in SUBSET S, T \notin P PROVE FALSE
  OBVIOUS
<1>2. Bad # {} /\ Bad \subseteq Nat
  BY <1>1
<1>3. PICK n \in Bad : \A m \in Bad : n <= m
  BY <1>2, LeastNumber
<1>4. PICK V \in SUBSET S : Cardinality(V) = n /\ V \notin P
  OBVIOUS
<1>5. ASSUME NEW U \in SUBSET V, U # V PROVE U \in P
  <2>1. Cardinality(U) < n /\ Cardinality(U) \in Nat
    BY <1>1, <1>4, <1>5, FS_Subset
  <2> QED
    BY <1>3, <2>1
<1> QED
  BY <1>4, <1>5

-----------------------------------------------------------------------------
(* Sums                                                                    *)

\* The element that a fold takes out first.
FirstOf(T) == CHOOSE x \in T : TRUE

\* f[x] summed up over T, given the sums over the smaller sets.
SumStep(f, g, T) == IF T = {} THEN 0 ELSE f[FirstOf(T)] + g[T \ {FirstOf(T)}]

\* The recursion behind a sum is well defined.
LEMMA SumsExist ==
    ASSUME NEW f, NEW S, IsFiniteSet(S)
    PROVE  \E g : g = [T \in SUBSET S |-> SumStep(f, g, T)]
<1> DEFINE UpTo(n, g) == \A T \in SUBSET S : Cardinality(T) <= n => g[T] = SumStep(f, g, T)
           N == {n \in Nat : \E g : UpTo(n, g)}
<1>1. \A T \in SUBSET S : IsFiniteSet(T) /\ Cardinality(T) \in 0..Cardinality(S)
  BY FS_Subset, FS_CardinalityType
<1>2. 0 \in N
  <2> DEFINE z == [T \in SUBSET S |-> 0]
  <2>1. ASSUME NEW T \in SUBSET S, Cardinality(T) <= 0 PROVE z[T] = SumStep(f, z, T)
    BY <1>1, <2>1, FS_EmptySet DEF SumStep
  <2> QED
    BY <2>1
<1>3. ASSUME NEW n \in N PROVE n + 1 \in N
  <2>1. PICK g : UpTo(n, g)
    OBVIOUS
  <2> DEFINE h == [T \in SUBSET S |-> SumStep(f, g, T)]
  <2>2. ASSUME NEW T \in SUBSET S, Cardinality(T) <= n + 1 PROVE h[T] = SumStep(f, h, T)
    <3>1. CASE T = {}
      BY <3>1 DEF SumStep
    <3>2. CASE T # {}
      <4>1. FirstOf(T) \in T
        BY <3>2 DEF FirstOf
      <4>2. T \ {FirstOf(T)} \in SUBSET S /\ Cardinality(T \ {FirstOf(T)}) <= n
        BY <1>1, <2>2, <4>1, FS_RemoveElement
      <4>3. g[T \ {FirstOf(T)}] = h[T \ {FirstOf(T)}]
        BY <2>1, <4>2
      <4> QED
        BY <3>2, <4>3 DEF SumStep
    <3> QED
      BY <3>1, <3>2
  <2>3. UpTo(n + 1, h)
    BY <2>2
  <2> HIDE DEF h
  <2> QED
    BY <2>3
<1>4. Cardinality(S) \in N
  BY <1>1, <1>2, <1>3, EveryNumber, FS_CardinalityType
<1>5. PICK g : UpTo(Cardinality(S), g)
  BY <1>4
<1> DEFINE h == [T \in SUBSET S |-> g[T]]
<1>6. ASSUME NEW T \in SUBSET S PROVE h[T] = SumStep(f, h, T)
  <2>1. g[T] = SumStep(f, g, T)
    BY <1>1, <1>5
  <2> QED
    BY <2>1 DEF SumStep
<1>7. h = [T \in SUBSET S |-> SumStep(f, h, T)]
  BY <1>6
<1> HIDE DEF h
<1> QED
  BY <1>7

\* A sum is computed by this recursion.
LEMMA SumIsRecursion ==
    ASSUME NEW f, NEW S, IsFiniteSet(S)
    PROVE  \E g : /\ g = [T \in SUBSET S |-> SumStep(f, g, T)]
                  /\ SumFunctionOnSet(f, S) = g[S]
<1> DEFINE g == CHOOSE g : g = [T \in SUBSET S |-> SumStep(f, g, T)]
<1>1. g = [T \in SUBSET S |-> SumStep(f, g, T)]
  BY SumsExist
<1>2. SumFunctionOnSet(f, S) = g[S]
  BY DEF SumFunctionOnSet, FoldFunctionOnSet, MapThenFoldSet, SumStep, FirstOf
<1> QED
  BY <1>1, <1>2

\* A function that satisfies the recursion holds the sums over all subsets.
LEMMA SumOfSubset ==
    ASSUME NEW f, NEW S, IsFiniteSet(S), NEW T \in SUBSET S, NEW g,
           g = [U \in SUBSET S |-> SumStep(f, g, U)]
    PROVE  g[T] = SumFunctionOnSet(f, T)
<1>1. IsFiniteSet(T)
  BY FS_Subset
<1>2. PICK h : h = [U \in SUBSET T |-> SumStep(f, h, U)] /\ SumFunctionOnSet(f, T) = h[T]
  BY <1>1, SumIsRecursion
<1> DEFINE P == {U \in SUBSET T : g[U] = h[U]}
<1>3. ASSUME NEW U \in SUBSET T, \A V \in SUBSET U : V # U => V \in P PROVE U \in P
  <2>1. g[U] = SumStep(f, g, U) /\ h[U] = SumStep(f, h, U)
    BY <1>2
  <2>2. CASE U = {}
    BY <2>1, <2>2 DEF SumStep
  <2>3. CASE U # {}
    <3>1. FirstOf(U) \in U
      BY <2>3 DEF FirstOf
    <3>2. U \ {FirstOf(U)} \in P
      BY <1>3, <3>1
    <3> QED
      BY <2>1, <2>3, <3>2 DEF SumStep
  <2> QED
    BY <2>2, <2>3
<1> HIDE DEF P
<1>4. \A U \in SUBSET T : U \in P
  BY <1>1, <1>3, EverySubset
<1> QED
  BY <1>2, <1>4 DEF P

\* The sum over nothing is 0.
LEMMA SumOfNothing == ASSUME NEW f PROVE SumFunctionOnSet(f, {}) = 0
<1>1. PICK g : g = [T \in SUBSET {} |-> SumStep(f, g, T)] /\ SumFunctionOnSet(f, {}) = g[{}]
  BY FS_EmptySet, SumIsRecursion
<1> QED
  BY <1>1 DEF SumStep

\* Any other sum is its first summand and the sum over the rest.
LEMMA SumFromFirst ==
    ASSUME NEW f, NEW S, IsFiniteSet(S), S # {}
    PROVE  /\ FirstOf(S) \in S
           /\ SumFunctionOnSet(f, S) = f[FirstOf(S)] + SumFunctionOnSet(f, S \ {FirstOf(S)})
<1>1. FirstOf(S) \in S
  BY DEF FirstOf
<1>2. PICK g : g = [T \in SUBSET S |-> SumStep(f, g, T)] /\ SumFunctionOnSet(f, S) = g[S]
  BY SumIsRecursion
<1>3. g[S \ {FirstOf(S)}] = SumFunctionOnSet(f, S \ {FirstOf(S)})
  <2>1. S \ {FirstOf(S)} \in SUBSET S
    OBVIOUS
  <2> QED
    BY <1>2, <2>1, SumOfSubset
<1>4. g[S] = SumStep(f, g, S)
  BY <1>2
<1> QED
  BY <1>1, <1>2, <1>3, <1>4 DEF SumStep

\* A sum of integers is an integer.
LEMMA SumIsInt ==
    ASSUME NEW f, NEW S, IsFiniteSet(S), \A x \in S : f[x] \in Int
    PROVE  SumFunctionOnSet(f, S) \in Int
<1> DEFINE P == {T \in SUBSET S : SumFunctionOnSet(f, T) \in Int}
<1>1. ASSUME NEW T \in SUBSET S, \A U \in SUBSET T : U # T => U \in P PROVE T \in P
  <2>1. CASE T = {}
    BY <2>1, SumOfNothing
  <2>2. CASE T # {}
    <3>1. /\ FirstOf(T) \in T
          /\ SumFunctionOnSet(f, T) = f[FirstOf(T)] + SumFunctionOnSet(f, T \ {FirstOf(T)})
      BY <2>2, FS_Subset, SumFromFirst
    <3>2. SumFunctionOnSet(f, T \ {FirstOf(T)}) \in Int
      BY <1>1, <3>1
    <3> QED
      BY <3>1, <3>2
  <2> QED
    BY <2>1, <2>2
<1> HIDE DEF P
<1>2. \A T \in SUBSET S : T \in P
  BY <1>1, EverySubset
<1> QED
  BY <1>2 DEF P

\* It does not matter which summand is taken out first.
LEMMA SumFromAny ==
    ASSUME NEW f, NEW S, IsFiniteSet(S), \A x \in S : f[x] \in Int, NEW a \in S
    PROVE  SumFunctionOnSet(f, S) = f[a] + SumFunctionOnSet(f, S \ {a})
<1> DEFINE Sum(T) == SumFunctionOnSet(f, T)
           P == {T \in SUBSET S : \A x \in T : Sum(T) = f[x] + Sum(T \ {x})}
<1>0. \A T \in SUBSET S : IsFiniteSet(T) /\ Sum(T) \in Int
  <2> TAKE T \in SUBSET S
  <2>1. IsFiniteSet(T)
    BY FS_Subset
  <2> QED
    BY <2>1, SumIsInt
<1>1. ASSUME NEW T \in SUBSET S, \A U \in SUBSET T : U # T => U \in P PROVE T \in P
  <2> SUFFICES ASSUME NEW x \in T PROVE Sum(T) = f[x] + Sum(T \ {x})
    OBVIOUS
  <2> DEFINE y == FirstOf(T)
  <2>1. y \in T /\ Sum(T) = f[y] + Sum(T \ {y})
    BY <1>0, SumFromFirst
  <2>2. CASE x = y
    BY <2>1, <2>2
  <2>3. CASE x # y
    <3>1. x \in T \ {y} /\ y \in T \ {x} /\ T \ {x} # T /\ T \ {y} # T
      BY <2>1, <2>3
    <3>2. Sum(T \ {y}) = f[x] + Sum((T \ {y}) \ {x})
      BY <1>1, <3>1
    <3>3. Sum(T \ {x}) = f[y] + Sum((T \ {x}) \ {y})
      BY <1>1, <3>1
    <3>4. (T \ {y}) \ {x} = (T \ {x}) \ {y} /\ (T \ {y}) \ {x} \in SUBSET S
      OBVIOUS
    <3>5. Sum((T \ {y}) \ {x}) \in Int /\ f[x] \in Int /\ f[y] \in Int
      BY <1>0, <2>1, <3>4
    <3>6. Sum(T) = f[y] + (f[x] + Sum((T \ {y}) \ {x}))
      BY <2>1, <3>2
    <3>7. Sum(T \ {x}) = f[y] + Sum((T \ {y}) \ {x})
      BY <3>3, <3>4
    <3>8. \A k, m, n \in Int : m + (k + n) = k + (m + n)
      OBVIOUS
    <3> HIDE DEF Sum, y
    <3> QED
      BY <3>5, <3>6, <3>7, <3>8
  <2> QED
    BY <2>2, <2>3
<1> HIDE DEF P
<1>2. \A T \in SUBSET S : T \in P
  BY <1>1, EverySubset
<1> QED
  BY <1>2 DEF P

\* Sums of the same summands are equal.
LEMMA SumOfSame ==
    ASSUME NEW f, NEW g, NEW S, IsFiniteSet(S), \A x \in S : f[x] \in Int /\ g[x] = f[x]
    PROVE  SumFunctionOnSet(g, S) = SumFunctionOnSet(f, S)
<1> DEFINE P == {T \in SUBSET S : SumFunctionOnSet(g, T) = SumFunctionOnSet(f, T)}
<1>1. ASSUME NEW T \in SUBSET S, \A U \in SUBSET T : U # T => U \in P PROVE T \in P
  <2>1. CASE T = {}
    BY <2>1, SumOfNothing
  <2>2. CASE T # {}
    <3>1. IsFiniteSet(T) /\ FirstOf(T) \in T
      BY <2>2, FS_Subset, SumFromFirst
    <3>2. T \ {FirstOf(T)} \in P
      BY <1>1, <3>1
    <3> QED
      BY <2>2, <3>1, <3>2, SumFromFirst
  <2> QED
    BY <2>1, <2>2
<1> HIDE DEF P
<1>2. \A T \in SUBSET S : T \in P
  BY <1>1, EverySubset
<1> QED
  BY <1>2 DEF P

\* Larger summands have a larger sum.
LEMMA SumOfLarger ==
    ASSUME NEW f, NEW g, NEW S, IsFiniteSet(S),
           \A x \in S : f[x] \in Int /\ g[x] \in Int /\ f[x] <= g[x]
    PROVE  SumFunctionOnSet(f, S) <= SumFunctionOnSet(g, S)
<1> DEFINE P == {T \in SUBSET S : SumFunctionOnSet(f, T) <= SumFunctionOnSet(g, T)}
<1>1. ASSUME NEW T \in SUBSET S, \A U \in SUBSET T : U # T => U \in P PROVE T \in P
  <2>1. CASE T = {}
    BY <2>1, SumOfNothing
  <2>2. CASE T # {}
    <3>1. IsFiniteSet(T) /\ FirstOf(T) \in T /\ IsFiniteSet(T \ {FirstOf(T)})
      BY <2>2, FS_Subset, FS_RemoveElement, SumFromFirst
    <3>2. T \ {FirstOf(T)} \in P
      BY <1>1, <3>1
    <3>3. /\ SumFunctionOnSet(f, T \ {FirstOf(T)}) \in Int
          /\ SumFunctionOnSet(g, T \ {FirstOf(T)}) \in Int
      BY <3>1, SumIsInt
    <3>4. /\ SumFunctionOnSet(f, T) = f[FirstOf(T)] + SumFunctionOnSet(f, T \ {FirstOf(T)})
          /\ SumFunctionOnSet(g, T) = g[FirstOf(T)] + SumFunctionOnSet(g, T \ {FirstOf(T)})
      BY <2>2, <3>1, SumFromFirst
    <3> QED
      BY <3>1, <3>2, <3>3, <3>4
  <2> QED
    BY <2>1, <2>2
<1> HIDE DEF P
<1>2. \A T \in SUBSET S : T \in P
  BY <1>1, EverySubset
<1> QED
  BY <1>2 DEF P

\* A common factor can be taken out of a sum.
LEMMA SumOfMultiples ==
    ASSUME NEW f, NEW g, NEW c \in Int, NEW S, IsFiniteSet(S),
           \A x \in S : f[x] \in Int /\ g[x] = c * f[x]
    PROVE  SumFunctionOnSet(g, S) = c * SumFunctionOnSet(f, S)
<1> DEFINE P == {T \in SUBSET S : SumFunctionOnSet(g, T) = c * SumFunctionOnSet(f, T)}
<1>0. \A m, n \in Int : c * (m + n) = c * m + c * n
  OBVIOUS
<1>1. ASSUME NEW T \in SUBSET S, \A U \in SUBSET T : U # T => U \in P PROVE T \in P
  <2>1. CASE T = {}
    BY <2>1, SumOfNothing
  <2>2. CASE T # {}
    <3>1. IsFiniteSet(T) /\ FirstOf(T) \in T /\ IsFiniteSet(T \ {FirstOf(T)})
      BY <2>2, FS_Subset, FS_RemoveElement, SumFromFirst
    <3>2. SumFunctionOnSet(g, T \ {FirstOf(T)}) = c * SumFunctionOnSet(f, T \ {FirstOf(T)})
      BY <1>1, <3>1
    <3>3. SumFunctionOnSet(f, T \ {FirstOf(T)}) \in Int
      BY <3>1, SumIsInt
    <3>4. /\ SumFunctionOnSet(f, T) = f[FirstOf(T)] + SumFunctionOnSet(f, T \ {FirstOf(T)})
          /\ SumFunctionOnSet(g, T) = g[FirstOf(T)] + SumFunctionOnSet(g, T \ {FirstOf(T)})
      BY <2>2, <3>1, SumFromFirst
    <3> QED
      BY <1>0, <3>1, <3>2, <3>3, <3>4
  <2> QED
    BY <2>1, <2>2
<1> HIDE DEF P
<1>2. \A T \in SUBSET S : T \in P
  BY <1>1, EverySubset
<1> QED
  BY <1>2 DEF P

\* Disjoint parts add up.
LEMMA SumOfParts ==
    ASSUME NEW f, NEW A, NEW B, IsFiniteSet(A), IsFiniteSet(B), A \intersect B = {},
           \A x \in A \union B : f[x] \in Int
    PROVE  SumFunctionOnSet(f, A \union B) = SumFunctionOnSet(f, A) + SumFunctionOnSet(f, B)
<1> DEFINE Sum(T) == SumFunctionOnSet(f, T)
           P == {T \in SUBSET A : Sum(T \union B) = Sum(T) + Sum(B)}
<1>0. \A T \in SUBSET (A \union B) : IsFiniteSet(T) /\ Sum(T) \in Int
  <2> TAKE T \in SUBSET (A \union B)
  <2>1. IsFiniteSet(T)
    BY FS_Union, FS_Subset
  <2> QED
    BY <2>1, SumIsInt
<1>1. ASSUME NEW T \in SUBSET A, \A U \in SUBSET T : U # T => U \in P PROVE T \in P
  <2>1. CASE T = {}
    <3>1. T \union B = B
      BY <2>1
    <3> QED
      BY <1>0, <2>1, <3>1, SumOfNothing
  <2>2. CASE T # {}
    <3> DEFINE x == FirstOf(T)
    <3>1. x \in T /\ Sum(T) = f[x] + Sum(T \ {x})
      BY <1>0, <2>2, SumFromFirst
    <3>2. (T \union B) \ {x} = (T \ {x}) \union B
      BY <3>1
    <3>3. Sum(T \union B) = f[x] + Sum((T \ {x}) \union B)
      BY <1>0, <3>1, <3>2, SumFromAny
    <3>4. Sum((T \ {x}) \union B) = Sum(T \ {x}) + Sum(B)
      BY <1>1, <3>1
    <3>5. f[x] \in Int /\ Sum(T \ {x}) \in Int /\ Sum(B) \in Int
      BY <1>0, <3>1
    <3> HIDE DEF Sum, x
    <3>6. Sum(T \union B) = Sum(T) + Sum(B)
      BY <3>1, <3>3, <3>4, <3>5
    <3> QED
      BY <3>6
  <2> QED
    BY <2>1, <2>2
<1> HIDE DEF P
<1>2. \A T \in SUBSET A : T \in P
  BY <1>1, EverySubset
<1> QED
  BY <1>2 DEF P

\* A sum may be taken along any enumeration of its summands.
LEMMA SumReindexed ==
    ASSUME NEW f, NEW g, NEW A, NEW B, IsFiniteSet(A), NEW b \in [A -> B],
           \A y \in B : \E x \in A : b[x] = y,
           \A x, y \in A : b[x] = b[y] => x = y,
           \A x \in A : f[b[x]] \in Int /\ g[x] = f[b[x]]
    PROVE  SumFunctionOnSet(f, B) = SumFunctionOnSet(g, A)
<1> DEFINE Im(T) == {b[x] : x \in T}
           P == {T \in SUBSET A : SumFunctionOnSet(f, Im(T)) = SumFunctionOnSet(g, T)}
<1>0. \A T \in SUBSET A : IsFiniteSet(T) /\ IsFiniteSet(Im(T))
  <2> TAKE T \in SUBSET A
  <2>1. IsFiniteSet(T)
    BY FS_Subset
  <2>2. [x \in T |-> b[x]] \in Surjection(T, Im(T))
    BY DEF Surjection
  <2> QED
    BY <2>1, <2>2, FS_Surjection
<1>1. ASSUME NEW T \in SUBSET A, \A U \in SUBSET T : U # T => U \in P PROVE T \in P
  <2>1. CASE T = {}
    <3>1. Im(T) = {}
      BY <2>1
    <3> QED
      BY <2>1, <3>1, SumOfNothing
  <2>2. CASE T # {}
    <3> DEFINE x == FirstOf(T)
    <3>1. x \in T /\ SumFunctionOnSet(g, T) = g[x] + SumFunctionOnSet(g, T \ {x})
      BY <1>0, <2>2, SumFromFirst
    <3>2. Im(T) \ {b[x]} = Im(T \ {x}) /\ b[x] \in Im(T)
      BY <3>1
    <3>3. SumFunctionOnSet(f, Im(T)) = f[b[x]] + SumFunctionOnSet(f, Im(T \ {x}))
      <4>1. IsFiniteSet(Im(T)) /\ \A y \in Im(T) : f[y] \in Int
        BY <1>0
      <4> DEFINE I == Im(T)
                 y == b[x]
      <4>2. y \in I /\ IsFiniteSet(I) /\ \A z \in I : f[z] \in Int
        BY <3>2, <4>1
      <4> HIDE DEF I, y
      <4>3. SumFunctionOnSet(f, I) = f[y] + SumFunctionOnSet(f, I \ {y})
        BY <4>2, SumFromAny
      <4> QED
        BY <3>2, <4>3 DEF I, y
    <3>4. SumFunctionOnSet(f, Im(T \ {x})) = SumFunctionOnSet(g, T \ {x})
      BY <1>1, <3>1
    <3> QED
      BY <3>1, <3>3, <3>4
  <2> QED
    BY <2>1, <2>2
<1> HIDE DEF P
<1>2. \A T \in SUBSET A : T \in P
  BY <1>1, EverySubset
<1>3. Im(A) = B
  OBVIOUS
<1> QED
  BY <1>2, <1>3 DEF P

\* A sum of natural numbers is one, and not 0 unless all its summands are.
LEMMA SumIsNat ==
    ASSUME NEW f, NEW S, IsFiniteSet(S), \A x \in S : f[x] \in Nat
    PROVE  /\ SumFunctionOnSet(f, S) \in Nat
           /\ \A x \in S : f[x] <= SumFunctionOnSet(f, S)
<1> DEFINE z == [x \in S |-> 0]
<1>1. ASSUME NEW T \in SUBSET S PROVE SumFunctionOnSet(f, T) \in Nat
  <2>1. IsFiniteSet(T)
    BY FS_Subset
  <2>2. SumFunctionOnSet(z, T) = 0 * SumFunctionOnSet(f, T)
    BY <2>1, SumOfMultiples
  <2>3. SumFunctionOnSet(z, T) <= SumFunctionOnSet(f, T)
    BY <2>1, SumOfLarger
  <2>4. SumFunctionOnSet(f, T) \in Int
    BY <2>1, SumIsInt
  <2> QED
    BY <2>2, <2>3, <2>4
<1>2. ASSUME NEW x \in S PROVE f[x] <= SumFunctionOnSet(f, S)
  <2>1. SumFunctionOnSet(f, S) = f[x] + SumFunctionOnSet(f, S \ {x})
    BY SumFromAny
  <2>2. SumFunctionOnSet(f, S \ {x}) \in Nat
    BY <1>1
  <2> QED
    BY <2>1, <2>2
<1> QED
  BY <1>1, <1>2

-----------------------------------------------------------------------------
(* Quotients                                                               *)

\* What a quotient is.
LEMMA Quotient ==
    ASSUME NEW a \in Int, NEW b \in Nat \ {0}
    PROVE  a \div b \in Int /\ b * (a \div b) <= a /\ a < b * (a \div b) + b
OBVIOUS

\* A quotient and its rest.
LEMMA Division ==
    ASSUME NEW a \in Int, NEW b \in Nat \ {0}, NEW q, q = a \div b, NEW r, r = a % b
    PROVE  q \in Int /\ r \in Int /\ 0 <= r /\ r < b /\ b * q = a - r
<1>1. q \in Int /\ r \in Int /\ 0 <= r /\ r < b
  OBVIOUS
<1>2. a = b * q + r
  OBVIOUS
<1> QED
  BY ONLY <1>1, <1>2, a \in Int, b \in Nat \ {0}

\* A product is not smaller than a factor, and grows with it.
LEMMA Product ==
    ASSUME NEW a \in Int, NEW b \in Int, a <= b, NEW c \in Nat \ {0}
    PROVE  /\ a * c \in Int /\ b * c \in Int /\ a * c <= b * c
           /\ a \in Nat => a <= a * c
OBVIOUS

\* A quotient lies where its dividend allows.
LEMMA QuotientBetween ==
    ASSUME NEW a \in Int, NEW b \in Nat \ {0}, NEW lo \in Int, NEW hi \in Int,
           lo * b <= a, a < (hi + 1) * b
    PROVE  a \div b \in Int /\ lo <= a \div b /\ a \div b <= hi
<1> DEFINE q == a \div b
<1>1. q \in Int /\ b * q <= a /\ a < b * q + b
  BY Quotient
<1> HIDE DEF q
<1>2. \A m, n \in Int : b * m < b * n => m < n
  OBVIOUS
<1>3. b * q < b * (hi + 1) /\ b * lo < b * (q + 1)
  BY <1>1
<1>4. q < hi + 1 /\ lo < q + 1
  BY <1>1, <1>2, <1>3
<1> QED
  BY <1>1, <1>4 DEF q

\* A weighted mean lies between the bounds of what it is taken of, and so does
\* the number it is rounded to.
LEMMA MeanIsBetween ==
    ASSUME NEW S, IsFiniteSet(S), NEW w, NEW v, NEW lo \in Int, NEW hi \in Int,
           \A x \in S : w[x] \in Nat /\ v[x] \in lo..hi,
           \E x \in S : w[x] > 0,
           NEW W, W = SumFunctionOnSet(w, S),
           NEW V, V = SumFunctionOnSet([x \in S |-> w[x] * v[x]], S)
    PROVE  W > 0 /\ lo <= (2 * V + W) \div (2 * W) /\ (2 * V + W) \div (2 * W) <= hi
<1>1. W \in Nat /\ W > 0
  <2>1. PICK x \in S : w[x] > 0
    OBVIOUS
  <2> QED
    BY <2>1, SumIsNat
<1>2. ASSUME NEW x \in S
      PROVE  /\ lo * w[x] \in Int /\ w[x] * v[x] \in Int /\ hi * w[x] \in Int
             /\ lo * w[x] <= w[x] * v[x] /\ w[x] * v[x] <= hi * w[x]
  <2>1. \A k \in Nat, m, n \in Int : m <= n => k * m <= k * n /\ k * m = m * k
    OBVIOUS
  <2> QED
    BY <2>1
<1> DEFINE vs == [x \in S |-> w[x] * v[x]]
           ls == [x \in S |-> lo * w[x]]
           hs == [x \in S |-> hi * w[x]]
<1>3. V \in Int /\ SumFunctionOnSet(ls, S) <= V /\ V <= SumFunctionOnSet(hs, S)
  <2>1. \A x \in S : ls[x] <= vs[x] /\ vs[x] <= hs[x] /\ {ls[x], vs[x], hs[x]} \subseteq Int
    BY <1>2
  <2>2. V = SumFunctionOnSet(vs, S)
    OBVIOUS
  <2> HIDE DEF ls, vs, hs
  <2> QED
    BY <2>1, <2>2, SumIsInt, SumOfLarger
<1>4. SumFunctionOnSet(ls, S) = lo * W /\ SumFunctionOnSet(hs, S) = hi * W
  <2>1. \A x \in S : ls[x] = lo * w[x] /\ hs[x] = hi * w[x] /\ w[x] \in Int
    OBVIOUS
  <2> HIDE DEF ls, hs
  <2> QED
    BY <2>1, SumOfMultiples
<1>5. lo * W <= V /\ V <= hi * W
  BY <1>3, <1>4
<1>6. lo * (2 * W) <= 2 * V + W /\ 2 * V + W < (hi + 1) * (2 * W)
  BY <1>1, <1>3, <1>5
<1>7. 2 * V + W \in Int /\ 2 * W \in Nat \ {0}
  BY <1>1, <1>3
<1> QED
  BY ONLY <1>1, <1>6, <1>7, lo \in Int, hi \in Int, QuotientBetween
=============================================================================
