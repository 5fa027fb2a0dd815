----------------------------- MODULE SumLemmas -----------------------------
(***************************************************************************)
(* What the sum over a finite set of indices (SumFunction of the library's *)
(* Functions module) does when one value of the function changes.  The     *)
(* inductions are over sets: a set of numbers that has 0 and is closed     *)
(* under successor is all of Nat, since otherwise the numbers outside it   *)
(* would have a least one. The last lemmas are about integer arithmetic.   *)
(***************************************************************************)
EXTENDS Integers, FiniteSets, Functions, TLAPS, FiniteSetTheorems, NaturalsInduction

\* A set of naturals that is not empty has a least element.
LEMMA SmallestExists ==
    ASSUME NEW T, T \subseteq Nat, T # {}
    PROVE  \E n \in T : \A m \in T : n <= m
<1>1. PICK n \in T : \A m \in T : ~ (<<m, n>> \in OpToRel(<, Nat))
  BY WFMin, NatLessThanWellFounded
<1>2. \A m \in T : <<m, n>> \in OpToRel(<, Nat) <=> m < n
  BY DEF OpToRel
<1>3. \A m \in T : ~ (m < n)
  BY <1>1, <1>2, Zenon
<1>4. \A m \in T : n <= m
  BY <1>3
<1> QED
  BY <1>4, Zenon

\* Induction over the natural numbers, for a set.
LEMMA SetInduction ==
    ASSUME NEW G, 0 \in G, \A n \in Nat : n \in G => n + 1 \in G
    PROVE  \A n \in Nat : n \in G
<1> SUFFICES ASSUME Nat \ G # {} PROVE FALSE
  OBVIOUS
<1>1. PICK n \in Nat \ G : \A m \in Nat \ G : n <= m
  BY SmallestExists
<1>2. n # 0 /\ n - 1 \in Nat /\ n - 1 \notin Nat \ G
  BY <1>1
<1> QED
  BY <1>1, <1>2

\* The element that the library's fold takes out of a set first.
Pick(s) == CHOOSE x \in s : TRUE

\* The set without that element.
Rest(s) == s \ {Pick(s)}

\* A set that is not empty loses one element.
LEMMA PickOne ==
    ASSUME NEW S, IsFiniteSet(S), S # {}
    PROVE  /\ Pick(S) \in S /\ Rest(S) \subseteq S
           /\ IsFiniteSet(Rest(S)) /\ Cardinality(Rest(S)) = Cardinality(S) - 1
           /\ Cardinality(S) \in Nat \ {0}
<1>1. Pick(S) \in S
  BY DEF Pick
<1>2. IsFiniteSet(Rest(S)) /\ Cardinality(Rest(S)) = Cardinality(S) - 1
  BY <1>1, FS_RemoveElement DEF Rest
<1>3. Cardinality(S) \in Nat /\ Cardinality(S) # 0
  BY FS_CardinalityType, FS_EmptySet
<1> QED
  BY <1>1, <1>2, <1>3 DEF Rest

\* Induction over the subsets of a finite set.
LEMMA SubsetInduction ==
    ASSUME NEW S, IsFiniteSet(S), NEW G, {} \in G,
           \A T \in SUBSET S : T # {} /\ Rest(T) \in G => T \in G
    PROVE  S \in G
<1> DEFINE N == {n \in Nat : \A T \in SUBSET S : Cardinality(T) = n => T \in G}
<1>1. \A T \in SUBSET S : IsFiniteSet(T)
  BY FS_Subset
<1>2. 0 \in N
  <2>1. \A T \in SUBSET S : Cardinality(T) = 0 => T = {}
    BY <1>1, FS_EmptySet
  <2> QED
    BY <2>1
<1>3. ASSUME NEW n \in Nat, n \in N PROVE n + 1 \in N
  <2> SUFFICES ASSUME NEW T \in SUBSET S, Cardinality(T) = n + 1 PROVE T \in G
    OBVIOUS
  <2>1. T # {}
    BY FS_EmptySet
  <2>2. Rest(T) \in SUBSET S /\ Cardinality(Rest(T)) = n
    BY <1>1, <2>1, PickOne
  <2>3. Rest(T) \in G
    BY <1>3, <2>2
  <2> QED
    BY <2>1, <2>3
<1> HIDE DEF N
<1>4. \A n \in Nat : n \in N
  BY <1>2, <1>3, SetInduction
<1>5. Cardinality(S) \in Nat
  BY FS_CardinalityType
<1> QED
  BY <1>4, <1>5 DEF N

\* The recursion equation of the sum of f over the sets of a collection D.
SumsOver(f, D, sum) ==
    sum = [s \in D |-> IF s = {} THEN 0 ELSE f[Pick(s)] + sum[Rest(s)]]

\* The sum of the library, by its recursion equation.
LEMMA SumIsFold ==
    ASSUME NEW f, NEW S
    PROVE  SumFunctionOnSet(f, S) = (CHOOSE sum : SumsOver(f, SUBSET S, sum))[S]
BY DEF SumFunctionOnSet, FoldFunctionOnSet, MapThenFoldSet, SumsOver, Pick, Rest

\* The recursion equation has a solution: build it for larger and larger subsets.
LEMMA SumsExist ==
    ASSUME NEW f, NEW S, IsFiniteSet(S)
    PROVE  \E sum : SumsOver(f, SUBSET S, sum)
<1> DEFINE UpTo(n) == {T \in SUBSET S : Cardinality(T) <= n}
           N == {n \in Nat : \E sum : SumsOver(f, UpTo(n), sum)}
<1>1. \A T \in SUBSET S : IsFiniteSet(T) /\ Cardinality(T) \in Nat
  BY FS_Subset, FS_CardinalityType
<1>2. 0 \in N
  <2>1. \A T \in UpTo(0) : T = {}
    BY <1>1, FS_EmptySet
  <2>2. SumsOver(f, UpTo(0), [T \in UpTo(0) |-> 0])
    BY <2>1 DEF SumsOver
  <2> QED
    BY <2>2
<1>3. ASSUME NEW n \in Nat, n \in N PROVE n + 1 \in N
  <2>1. PICK old : SumsOver(f, UpTo(n), old)
    BY <1>3
  <2> DEFINE new == [s \in UpTo(n + 1) |-> IF s = {} THEN 0 ELSE f[Pick(s)] + old[Rest(s)]]
  <2>2. \A T \in UpTo(n) : T \in UpTo(n + 1) /\ new[T] = old[T]
    <3>1. \A T \in UpTo(n) : T \in UpTo(n + 1)
      BY <1>1
    <3>2. \A T \in UpTo(n) : old[T] = IF T = {} THEN 0 ELSE f[Pick(T)] + old[Rest(T)]
      BY <2>1 DEF SumsOver
    <3> HIDE DEF UpTo
    <3> QED
      BY <3>1, <3>2
  <2>3. \A T \in UpTo(n + 1) : T # {} => Rest(T) \in UpTo(n)
    BY <1>1, PickOne
  <2>4. \A T \in UpTo(n + 1) : new[T] = IF T = {} THEN 0 ELSE f[Pick(T)] + new[Rest(T)]
    <3> HIDE DEF UpTo
    <3> QED
      BY <2>2, <2>3
  <2>5. SumsOver(f, UpTo(n + 1), new)
    <3> DEFINE again == [s \in UpTo(n + 1) |-> IF s = {} THEN 0 ELSE f[Pick(s)] + new[Rest(s)]]
    <3>1. \A T \in UpTo(n + 1) : new[T] = again[T]
      BY <2>4
    <3>2. new = again
      <4> HIDE DEF UpTo
      <4> QED
        BY <3>1
    <3> HIDE DEF UpTo, new
    <3> QED
      BY <3>2 DEF SumsOver
  <2>6. PICK sum : SumsOver(f, UpTo(n + 1), sum)
    <3> HIDE DEF UpTo, new
    <3> QED
      BY <2>5, Zenon
  <2> QED
    BY <2>6
<1>4. Cardinality(S) \in N
  <2> HIDE DEF N
  <2> QED
    BY <1>1, <1>2, <1>3, SetInduction
<1>5. UpTo(Cardinality(S)) = SUBSET S
  BY <1>1, FS_Subset
<1> HIDE DEF UpTo
<1> QED
  BY <1>4, <1>5

\* What the sums over the subsets of a finite set are.
LEMMA SumEquation ==
    ASSUME NEW f, NEW S, IsFiniteSet(S)
    PROVE  \E sum : /\ SumFunctionOnSet(f, S) = sum[S]
                    /\ sum[{}] = 0
                    /\ \A T \in SUBSET S : T # {} => sum[T] = f[Pick(T)] + sum[Rest(T)]
<1> DEFINE it == CHOOSE sum : SumsOver(f, SUBSET S, sum)
<1>1. SumsOver(f, SUBSET S, it)
  BY SumsExist, Zenon
<1>2. SumFunctionOnSet(f, S) = it[S]
  BY SumIsFold
<1> HIDE DEF it
<1>3. it[{}] = 0 /\ \A T \in SUBSET S : T # {} => it[T] = f[Pick(T)] + it[Rest(T)]
  BY <1>1 DEF SumsOver
<1> QED
  BY <1>2, <1>3, Zenon

\* A sum of integers is an integer, of natural numbers a natural number, of zeros zero.
LEMMA SumType ==
    ASSUME NEW f, NEW S, IsFiniteSet(S), \A x \in S : f[x] \in Int
    PROVE  /\ SumFunctionOnSet(f, S) \in Int
           /\ (\A x \in S : f[x] \in Nat) => SumFunctionOnSet(f, S) \in Nat
           /\ (\A x \in S : f[x] = 0) => SumFunctionOnSet(f, S) = 0
<1>1. PICK sum : /\ SumFunctionOnSet(f, S) = sum[S]
                 /\ sum[{}] = 0
                 /\ \A T \in SUBSET S : T # {} => sum[T] = f[Pick(T)] + sum[Rest(T)]
  BY SumEquation
<1> DEFINE G == {T \in SUBSET S : /\ sum[T] \in Int
                                  /\ (\A x \in S : f[x] \in Nat) => sum[T] \in Nat
                                  /\ (\A x \in S : f[x] = 0) => sum[T] = 0}
<1>2. {} \in G
  BY <1>1
<1>3. ASSUME NEW T \in SUBSET S, T # {}, Rest(T) \in G PROVE T \in G
  <2>1. Pick(T) \in S
    BY <1>3, FS_Subset, PickOne
  <2>2. sum[T] = f[Pick(T)] + sum[Rest(T)]
    BY <1>1, <1>3
  <2> QED
    BY <1>3, <2>1, <2>2
<1>4. S \in G
  <2> HIDE DEF G
  <2> QED
    BY <1>2, <1>3, SubsetInduction
<1> QED
  BY <1>1, <1>4

\* The sum follows the change of one value.
LEMMA SumChanges ==
    ASSUME NEW f, NEW g, NEW S, IsFiniteSet(S), NEW x \in S,
           \A y \in S : f[y] \in Int /\ g[y] \in Int,
           \A y \in S \ {x} : g[y] = f[y]
    PROVE  SumFunctionOnSet(g, S) = SumFunctionOnSet(f, S) + g[x] - f[x]
<1>1. PICK old : /\ SumFunctionOnSet(f, S) = old[S]
                 /\ old[{}] = 0
                 /\ \A T \in SUBSET S : T # {} => old[T] = f[Pick(T)] + old[Rest(T)]
  BY SumEquation
<1>2. PICK new : /\ SumFunctionOnSet(g, S) = new[S]
                 /\ new[{}] = 0
                 /\ \A T \in SUBSET S : T # {} => new[T] = g[Pick(T)] + new[Rest(T)]
  BY SumEquation
<1> DEFINE G == {T \in SUBSET S : /\ old[T] \in Int /\ new[T] \in Int
                                  /\ x \in T => new[T] = old[T] + g[x] - f[x]
                                  /\ x \notin T => new[T] = old[T]}
<1>3. {} \in G
  BY <1>1, <1>2
<1>4. ASSUME NEW T \in SUBSET S, T # {}, Rest(T) \in G PROVE T \in G
  <2>1. Pick(T) \in T /\ f[Pick(T)] \in Int /\ g[Pick(T)] \in Int
    BY <1>4, FS_Subset, PickOne
  <2>2. old[T] = f[Pick(T)] + old[Rest(T)] /\ new[T] = g[Pick(T)] + new[Rest(T)]
    BY <1>1, <1>2, <1>4
  <2>3. CASE Pick(T) = x
    <3>1. x \in T /\ x \notin Rest(T)
      BY <2>1, <2>3 DEF Rest
    <3> QED
      BY <1>4, <2>1, <2>2, <2>3, <3>1
  <2>4. CASE Pick(T) # x
    <3>1. g[Pick(T)] = f[Pick(T)] /\ (x \in T <=> x \in Rest(T))
      BY <2>1, <2>4 DEF Rest
    <3> QED
      BY <1>4, <2>1, <2>2, <3>1
  <2> QED
    BY <2>3, <2>4
<1>5. S \in G
  <2> HIDE DEF G
  <2> QED
    BY <1>3, <1>4, SubsetInduction
<1> QED
  BY <1>1, <1>2, <1>5

\* The same for the sum of a whole function.
LEMMA SumOfFunction ==
    ASSUME NEW S, IsFiniteSet(S), NEW f \in [S -> Int]
    PROVE  /\ SumFunction(f) \in Int
           /\ (\A x \in S : f[x] = 0) => SumFunction(f) = 0
           /\ \A g \in [S -> Int], x \in S :
                 (\A y \in S \ {x} : g[y] = f[y]) => SumFunction(g) = SumFunction(f) + g[x] - f[x]
<1>1. \A g \in [S -> Int] : SumFunction(g) = SumFunctionOnSet(g, S)
  BY DEF SumFunction
<1>2. \A x \in S : f[x] \in Int
  OBVIOUS
<1>3. ASSUME NEW g \in [S -> Int], NEW x \in S, \A y \in S \ {x} : g[y] = f[y]
      PROVE  SumFunctionOnSet(g, S) = SumFunctionOnSet(f, S) + g[x] - f[x]
  <2>1. \A y \in S : f[y] \in Int /\ g[y] \in Int
    OBVIOUS
  <2> QED
    BY <1>3, <2>1, SumChanges
<1>4. /\ SumFunctionOnSet(f, S) \in Int
      /\ (\A x \in S : f[x] = 0) => SumFunctionOnSet(f, S) = 0
  BY <1>2, SumType
<1> QED
  BY <1>1, <1>3, <1>4

----------------------------------------------------------------------------
(* Products and integer division.                                          *)

\* A product of natural numbers is a natural number.
LEMMA ProductIsNat ==
    ASSUME NEW a \in Nat, NEW b \in Nat
    PROVE  a * b \in Nat
OBVIOUS

\* A product of positive numbers is positive.
LEMMA ProductIsPositive ==
    ASSUME NEW a \in Nat \ {0}, NEW b \in Nat \ {0}
    PROVE  a * b \in Nat \ {0}
OBVIOUS

\* Integer division rounds down and loses less than one divisor.
LEMMA Division ==
    ASSUME NEW a \in Nat, NEW b \in Nat \ {0}
    PROVE  /\ a \div b \in Nat
           /\ (a \div b) * b <= a
           /\ a < (a \div b) * b + b
OBVIOUS

=============================================================================
