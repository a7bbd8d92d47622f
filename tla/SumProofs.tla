------------------------------ MODULE SumProofs ------------------------------
(***************************************************************************)
(* What the sum of a function over a finite set is: SumFunctionOnSet of the *)
(* community modules, which positions, shares and odds are added up with.   *)
(* The library's induction theorems take the statement as an operator; the  *)
(* proofs here use sets of numbers and sets of subsets instead, and so does *)
(* the recursion over the indices of a sequence.                            *)
(***************************************************************************)
EXTENDS Functions, FiniteSets, FiniteSetTheorems, TLAPS

-----------------------------------------------------------------------------
(* Induction *)

\* Every nonempty set of natural numbers has a least element.
LEMMA LeastNumber ==
    ASSUME NEW T, T \subseteq Nat, T # {}
    PROVE  \E n \in T : \A m \in T : n <= m
  <1> DEFINE less == OpToRel(<, Nat)
  <1>1. IsWellFoundedOn(less, Nat)  BY NatLessThanWellFounded
  <1>2. \A m, n \in Nat : <<m, n>> \in less <=> m < n  BY DEF OpToRel
  <1> HIDE DEF less
  <1>3. PICK n \in T : \A m \in T : ~(<<m, n>> \in less)  BY <1>1, WFMin
  <1>4. ASSUME NEW m \in T
        PROVE  n <= m
    <2>1. ~(<<m, n>> \in less)  BY <1>3
    <2>2. m \in Nat /\ n \in Nat  OBVIOUS
    <2>3. ~(m < n)  BY <1>2, <2>1, <2>2
    <2> QED BY <2>2, <2>3
  <1> QED BY <1>4

\* A set of numbers with 0 that has a successor with each number has them all.
LEMMA Induction ==
    ASSUME NEW T, 0 \in T, \A n \in Nat : n \in T => n + 1 \in T
    PROVE  Nat \subseteq T
  <1> SUFFICES ASSUME Nat \ T # {}  PROVE  FALSE
    OBVIOUS
  <1>1. PICK n \in Nat \ T : \A m \in Nat \ T : n <= m  BY LeastNumber
  <1>2. n - 1 \in Nat /\ n - 1 \in T  BY <1>1
  <1> QED BY <1>1, <1>2

\* Of integers indexed by a nonempty set of numbers up to n one is the greatest.
LEMMA GreatestValue ==
    ASSUME NEW n \in Nat, NEW S, S \subseteq 1 .. n, S # {}, NEW f, \A x \in S : f[x] \in Int
    PROVE  \E x \in S : \A y \in S : f[y] <= f[x]
  <1> DEFINE Upto(k) == \A s \in SUBSET S : s \subseteq 1 .. k /\ s # {} =>
                           \E x \in s : \A y \in s : f[y] <= f[x]
             T == {k \in Nat : Upto(k)}
  <1>1. 0 \in T
    <2>1. \A s : s \subseteq 1 .. 0 => s = {}  OBVIOUS
    <2> QED BY <2>1
  <1>2. ASSUME NEW k \in Nat, k \in T  PROVE  k + 1 \in T
    <2>1. ASSUME NEW s \in SUBSET S, s \subseteq 1 .. k + 1, s # {}
          PROVE  \E x \in s : \A y \in s : f[y] <= f[x]
      <3> DEFINE r == s \ {k + 1}
      <3>1. r \in SUBSET S /\ r \subseteq 1 .. k  BY <2>1
      <3>2. CASE r = {}
        <4>1. k + 1 \in s /\ \A y \in s : y = k + 1  BY <2>1, <3>2
        <4>2. f[k + 1] \in Int  BY <4>1
        <4>3. \A y \in s : f[y] <= f[k + 1]  BY <4>1, <4>2
        <4> QED BY <4>1, <4>3
      <3>3. CASE r # {}
        <4>1. PICK x \in r : \A y \in r : f[y] <= f[x]  BY <1>2, <3>1, <3>3
        <4>2. CASE k + 1 \in s /\ f[k + 1] > f[x]
          <5>1. \A y \in s : f[y] <= f[k + 1]  BY <4>1, <4>2
          <5> QED BY <4>2, <5>1
        <4>3. CASE ~(k + 1 \in s /\ f[k + 1] > f[x])
          <5>1. \A y \in s : f[y] <= f[x]  BY <4>1, <4>3
          <5> QED BY <5>1
        <4> QED BY <4>2, <4>3
      <3> QED BY <3>2, <3>3
    <2> QED BY <2>1
  <1>3. Nat \subseteq T
    <2>1. \A k \in Nat : k \in T => k + 1 \in T  BY <1>2
    <2> HIDE DEF T
    <2> QED BY <1>1, <2>1, Induction
  <1> QED BY <1>3

-----------------------------------------------------------------------------
(* Recursion over the indices of a sequence *)

\* The steps F, taken one after the other from v, lead from value to value of V.
Unfolds(n, V, v, F) ==
    \E g \in [0 .. n -> V] : g[0] = v /\ \A i \in 1 .. n : g[i] = F[i][g[i - 1]]

\* A recursion with one step for each number up to n has a solution.
LEMMA StepsExist ==
    ASSUME NEW n \in Nat, NEW V, NEW v \in V, NEW F \in [1 .. n -> [V -> V]]
    PROVE  Unfolds(n, V, v, F)
  <1> DEFINE Upto(k) == k <= n => \E g \in [0 .. k -> V] :
                                     g[0] = v /\ \A i \in 1 .. k : g[i] = F[i][g[i - 1]]
             T       == {k \in Nat : Upto(k)}
  <1>1. 0 \in T
    <2> DEFINE g == [i \in 0 .. 0 |-> v]
    <2>1. g \in [0 .. 0 -> V] /\ g[0] = v /\ \A i \in 1 .. 0 : g[i] = F[i][g[i - 1]]
      OBVIOUS
    <2> HIDE DEF g
    <2> QED BY <2>1
  <1>2. ASSUME NEW k \in Nat, k \in T
        PROVE  k + 1 \in T
    <2> SUFFICES ASSUME k + 1 <= n
                 PROVE  \E g \in [0 .. k + 1 -> V] :
                           g[0] = v /\ \A i \in 1 .. k + 1 : g[i] = F[i][g[i - 1]]
      OBVIOUS
    <2>1. PICK g \in [0 .. k -> V] : g[0] = v /\ \A i \in 1 .. k : g[i] = F[i][g[i - 1]]
      BY <1>2
    <2> DEFINE h == [i \in 0 .. k + 1 |-> IF i = k + 1 THEN F[k + 1][g[k]] ELSE g[i]]
    <2>2. F[k + 1][g[k]] \in V
      <3>1. k + 1 \in 1 .. n /\ k \in 0 .. k  OBVIOUS
      <3> QED BY <3>1
    <2>3. h \in [0 .. k + 1 -> V]
      <3>1. ASSUME NEW i \in 0 .. k + 1, i # k + 1  PROVE  g[i] \in V
        <4>1. i \in 0 .. k  BY <3>1
        <4> QED BY <4>1
      <3> QED BY <2>2, <3>1
    <2>4. h[0] = v
      <3>1. 0 \in 0 .. k + 1 /\ 0 # k + 1  OBVIOUS
      <3> QED BY <2>1, <3>1
    <2>5. ASSUME NEW i \in 1 .. k + 1  PROVE  h[i] = F[i][h[i - 1]]
      <3>1. i \in 0 .. k + 1 /\ i - 1 \in 0 .. k + 1 /\ i - 1 # k + 1  OBVIOUS
      <3>2. h[i - 1] = g[i - 1]  BY <3>1
      <3>3. CASE i = k + 1
        <4>1. i - 1 = k  BY <3>3
        <4> QED BY <3>1, <3>2, <3>3, <4>1
      <3>4. CASE i # k + 1
        <4>1. i \in 1 .. k  BY <3>4
        <4>2. h[i] = g[i]  BY <3>1, <3>4
        <4> QED BY <2>1, <3>2, <4>1, <4>2
      <3> QED BY <3>3, <3>4
    <2> HIDE DEF h
    <2> QED BY <2>3, <2>4, <2>5
  <1> HIDE DEF Upto
  <1>3. Nat \subseteq T
    <2>1. \A k \in Nat : k \in T => k + 1 \in T  BY <1>2
    <2> HIDE DEF T
    <2> QED BY <1>1, <2>1, Induction
  <1>4. Upto(n)  BY <1>3
  <1> QED BY <1>4 DEF Upto, Unfolds

-----------------------------------------------------------------------------
(* The recursion that defines the sum *)

Some(s) == CHOOSE x \in s : TRUE

\* one step of the recursion, for a function g on the subsets of a set
Body(f, g, s) == IF s = {} THEN 0 ELSE f[Some(s)] + g[s \ {Some(s)}]

\* g adds f up over every subset of S
AddsUp(f, S, g) == g = [s \in SUBSET S |-> Body(f, g, s)]

Iter(f, S) == CHOOSE g : AddsUp(f, S, g)

\* A finite set that is not empty has some element, and one less without it.
LEMMA OneLess ==
    ASSUME NEW s, IsFiniteSet(s), s # {}
    PROVE  /\ Some(s) \in s
           /\ IsFiniteSet(s \ {Some(s)})
           /\ Cardinality(s) \in Nat
           /\ Cardinality(s \ {Some(s)}) = Cardinality(s) - 1
           /\ Cardinality(s) > 0
  <1>1. Some(s) \in s  BY DEF Some
  <1> QED BY <1>1, FS_RemoveElement, FS_CardinalityType, FS_EmptySet

\* The recursion has a solution on a finite set.
LEMMA AddsUpExists ==
    ASSUME NEW f, NEW S, IsFiniteSet(S)
    PROVE  \E g : AddsUp(f, S, g)
  <1> DEFINE Upto(n) == \E g : /\ g = [s \in SUBSET S |-> g[s]]
                               /\ \A s \in SUBSET S : Cardinality(s) <= n => g[s] = Body(f, g, s)
             T       == {n \in Nat : Upto(n)}
  <1>1. \A s \in SUBSET S : IsFiniteSet(s) /\ Cardinality(s) \in Nat
    BY FS_Subset, FS_CardinalityType
  <1>2. 0 \in T
    <2> DEFINE g == [s \in SUBSET S |-> 0]
    <2>1. ASSUME NEW s \in SUBSET S, Cardinality(s) <= 0
          PROVE  g[s] = Body(f, g, s)
      <3>1. s = {}  BY <1>1, <2>1, FS_EmptySet
      <3> QED BY <3>1 DEF Body
    <2> QED BY <2>1
  <1>3. ASSUME NEW n \in Nat, n \in T
        PROVE  n + 1 \in T
    <2>1. PICK g : /\ g = [s \in SUBSET S |-> g[s]]
                   /\ \A s \in SUBSET S : Cardinality(s) <= n => g[s] = Body(f, g, s)
      BY <1>3
    <2> DEFINE h == [s \in SUBSET S |-> Body(f, g, s)]
    <2>2. ASSUME NEW s \in SUBSET S, Cardinality(s) <= n + 1
          PROVE  h[s] = Body(f, h, s)
      <3>1. CASE s = {}  BY <3>1 DEF Body
      <3>2. CASE s # {}
        <4> DEFINE r == s \ {Some(s)}
        <4>1. r \in SUBSET S /\ Cardinality(r) <= n
          BY <1>1, <2>2, <3>2, OneLess
        <4>2. h[r] = g[r]  BY <2>1, <4>1
        <4> QED BY <3>2, <4>2 DEF Body
      <3> QED BY <3>1, <3>2
    <2>3. h = [s \in SUBSET S |-> h[s]]  OBVIOUS
    <2> HIDE DEF h
    <2>4. Upto(n + 1)  BY <2>2, <2>3
    <2>5. n + 1 \in Nat  OBVIOUS
    <2> HIDE DEF Upto
    <2> QED BY <2>4, <2>5
  <1>4. Nat \subseteq T  BY <1>2, <1>3, Induction
  <1>5. PICK g : /\ g = [s \in SUBSET S |-> g[s]]
                 /\ \A s \in SUBSET S : Cardinality(s) <= Cardinality(S) => g[s] = Body(f, g, s)
    BY <1>1, <1>4
  <1>6. \A s \in SUBSET S : Cardinality(s) <= Cardinality(S)  BY FS_Subset
  <1>7. [s \in SUBSET S |-> g[s]] = [s \in SUBSET S |-> Body(f, g, s)]  BY <1>5, <1>6
  <1> QED BY <1>5, <1>7 DEF AddsUp

\* The sum is the solution's value.
LEMMA SumIsIter ==
    ASSUME NEW f, NEW S
    PROVE  SumFunctionOnSet(f, S) = Iter(f, S)[S]
  BY DEF SumFunctionOnSet, FoldFunctionOnSet, MapThenFoldSet, Iter, AddsUp, Body, Some

LEMMA IterEquation ==
    ASSUME NEW f, NEW S, IsFiniteSet(S)
    PROVE  /\ Iter(f, S)[{}] = 0
           /\ \A s \in SUBSET S : s # {} => Iter(f, S)[s] = f[Some(s)] + Iter(f, S)[s \ {Some(s)}]
  <1>1. AddsUp(f, S, Iter(f, S))  BY AddsUpExists DEF Iter
  <1>2. \A s \in SUBSET S : Iter(f, S)[s] = Body(f, Iter(f, S), s)
    BY <1>1 DEF AddsUp
  <1> QED BY <1>2 DEF Body

\* The value on a set depends on the function's values there and on no more.
LEMMA IterAgree ==
    ASSUME NEW f, NEW g, NEW S, NEW T, IsFiniteSet(S), IsFiniteSet(T),
           NEW A, A \subseteq S, A \subseteq T, \A x \in A : f[x] = g[x]
    PROVE  \A s \in SUBSET A : Iter(f, S)[s] = Iter(g, T)[s]
  <1> DEFINE Same(s) == Iter(f, S)[s] = Iter(g, T)[s]
             Upto(n) == \A s \in SUBSET A : Cardinality(s) <= n => Same(s)
             N       == {n \in Nat : Upto(n)}
  <1>1. \A s \in SUBSET A : IsFiniteSet(s) /\ Cardinality(s) \in Nat
    BY FS_Subset, FS_CardinalityType
  <1>2. Same({})  BY IterEquation
  <1>3. \A s \in SUBSET A : s # {} /\ Same(s \ {Some(s)}) => Same(s)
    <2> SUFFICES ASSUME NEW s \in SUBSET A, s # {}, Same(s \ {Some(s)})  PROVE  Same(s)
      OBVIOUS
    <2>1. Some(s) \in A  BY DEF Some
    <2>2. s \in SUBSET S /\ s \in SUBSET T  OBVIOUS
    <2>3. Iter(f, S)[s] = f[Some(s)] + Iter(f, S)[s \ {Some(s)}]  BY <2>2, IterEquation
    <2>4. Iter(g, T)[s] = g[Some(s)] + Iter(g, T)[s \ {Some(s)}]  BY <2>2, IterEquation
    <2> QED BY <2>1, <2>3, <2>4
  <1> HIDE DEF Same
  <1>4. 0 \in N
    <2>1. ASSUME NEW s \in SUBSET A, Cardinality(s) <= 0  PROVE  Same(s)
      <3>1. s = {}  BY <1>1, <2>1, FS_EmptySet
      <3> QED BY <1>2, <3>1
    <2>2. Upto(0)  BY <2>1
    <2> HIDE DEF Upto
    <2> QED BY <2>2
  <1>5. ASSUME NEW n \in Nat, n \in N  PROVE  n + 1 \in N
    <2>1. ASSUME NEW s \in SUBSET A, Cardinality(s) <= n + 1  PROVE  Same(s)
      <3>1. CASE s = {}  BY <1>2, <3>1
      <3>2. CASE s # {}
        <4>1. s \ {Some(s)} \in SUBSET A /\ Cardinality(s \ {Some(s)}) <= n
          BY <1>1, <2>1, <3>2, OneLess
        <4>2. Same(s \ {Some(s)})  BY <1>5, <4>1
        <4> QED BY <1>3, <3>2, <4>2
      <3> QED BY <3>1, <3>2
    <2>2. Upto(n + 1)  BY <2>1
    <2>3. n + 1 \in Nat  OBVIOUS
    <2> HIDE DEF Upto
    <2> QED BY <2>2, <2>3
  <1>6. Nat \subseteq N  BY <1>4, <1>5, Induction
  <1>7. ASSUME NEW s \in SUBSET A  PROVE  Same(s)
    <2>1. Cardinality(s) \in Nat  BY <1>1
    <2>2. Upto(Cardinality(s))  BY <1>6, <2>1
    <2> QED BY <2>1, <2>2
  <1> QED BY <1>7 DEF Same

-----------------------------------------------------------------------------
(* The sum of a function over a finite set *)

\* The sum over nothing is 0.
LEMMA SumEmpty ==
    ASSUME NEW f
    PROVE  SumFunctionOnSet(f, {}) = 0
  BY SumIsIter, IterEquation, FS_EmptySet

\* Functions that agree on a set have the same sum over it.
LEMMA SumAgree ==
    ASSUME NEW f, NEW g, NEW S, IsFiniteSet(S), \A x \in S : f[x] = g[x]
    PROVE  SumFunctionOnSet(f, S) = SumFunctionOnSet(g, S)
  <1>1. Iter(f, S)[S] = Iter(g, S)[S]  BY IterAgree
  <1> QED BY <1>1, SumIsIter

\* The element the recursion takes can be taken out of the sum.
LEMMA SumStep ==
    ASSUME NEW f, NEW S, IsFiniteSet(S), S # {}
    PROVE  SumFunctionOnSet(f, S) = f[Some(S)] + SumFunctionOnSet(f, S \ {Some(S)})
  <1> DEFINE R == S \ {Some(S)}
  <1>1. IsFiniteSet(R)  BY OneLess
  <1>2. Iter(f, S)[S] = f[Some(S)] + Iter(f, S)[R]  BY IterEquation
  <1>3. Iter(f, S)[R] = Iter(f, R)[R]  BY <1>1, IterAgree
  <1> QED BY <1>2, <1>3, SumIsIter

\* A sum of integers is an integer, and any element can be taken out of it.
LEMMA SumTake ==
    ASSUME NEW f, NEW S, IsFiniteSet(S), \A x \in S : f[x] \in Int
    PROVE  /\ SumFunctionOnSet(f, S) \in Int
           /\ \A x \in S : SumFunctionOnSet(f, S) = f[x] + SumFunctionOnSet(f, S \ {x})
  <1> DEFINE Sum(s)  == SumFunctionOnSet(f, s)
             Takes(s) == Sum(s) \in Int /\ \A x \in s : Sum(s) = f[x] + Sum(s \ {x})
             Upto(n) == \A s \in SUBSET S : Cardinality(s) <= n => Takes(s)
             N       == {n \in Nat : Upto(n)}
  <1>1. \A s \in SUBSET S : IsFiniteSet(s) /\ Cardinality(s) \in Nat
    BY FS_Subset, FS_CardinalityType
  <1>2. \A s \in SUBSET S : s # {} => Sum(s) = f[Some(s)] + Sum(s \ {Some(s)})
    BY <1>1, SumStep
  <1>3. Sum({}) = 0  BY SumEmpty
  <1> HIDE DEF Sum
  <1>4. 0 \in N
    <2>1. ASSUME NEW s \in SUBSET S, Cardinality(s) <= 0  PROVE  Takes(s)
      <3>1. s = {}  BY <1>1, <2>1, FS_EmptySet
      <3> QED BY <1>3, <3>1
    <2>2. Upto(0)  BY <2>1
    <2> HIDE DEF Upto
    <2> QED BY <2>2
  <1>5. ASSUME NEW n \in Nat, n \in N  PROVE  n + 1 \in N
    <2>1. ASSUME NEW s \in SUBSET S, Cardinality(s) <= n + 1  PROVE  Takes(s)
      <3>1. CASE s = {}  BY <1>3, <3>1
      <3>2. CASE s # {}
        <4> DEFINE c == Some(s)
        <4>0. c \in s  BY <3>2 DEF Some
        <4>1. \A x \in s : s \ {x} \in SUBSET S /\ Cardinality(s \ {x}) <= n
          BY <1>1, <2>1, FS_RemoveElement
        <4>2. \A x \in s : Takes(s \ {x})  BY <1>5, <4>1
        <4>3. \A x \in s : Sum(s \ {x}) \in Int  BY <4>2
        <4>4. Sum(s) = f[c] + Sum(s \ {c})  BY <1>2, <3>2
        <4> HIDE DEF c
        <4>5. Sum(s) \in Int  BY <4>0, <4>3, <4>4
        <4>6. ASSUME NEW x \in s, x # c
              PROVE  Sum(s) = f[x] + Sum(s \ {x})
          <5>1. Sum(s \ {c}) = f[x] + Sum((s \ {c}) \ {x})  BY <4>0, <4>2, <4>6
          <5>2. Sum(s \ {x}) = f[c] + Sum((s \ {x}) \ {c})  BY <4>0, <4>2, <4>6
          <5>3. (s \ {c}) \ {x} = (s \ {x}) \ {c}  OBVIOUS
          <5> DEFINE r == (s \ {x}) \ {c}
          <5>4. r \in SUBSET S /\ Cardinality(r) <= n
            <6>1. Cardinality(r) <= Cardinality(s \ {x})  BY <1>1, <4>1, FS_Subset
            <6>2. Cardinality(r) \in Nat /\ Cardinality(s \ {x}) \in Nat  BY <1>1
            <6> QED BY <4>1, <6>1, <6>2
          <5>5. Sum(r) \in Int  BY <1>5, <5>4
          <5>6. f[c] \in Int /\ f[x] \in Int  BY <4>0
          <5>7. Sum(s \ {c}) = f[x] + Sum(r)  BY <5>1, <5>3
          <5>8. Sum(s \ {x}) = f[c] + Sum(r)  BY <5>2
          <5> HIDE DEF r
          <5> QED BY <4>4, <5>5, <5>6, <5>7, <5>8
        <4> QED BY <4>4, <4>5, <4>6
      <3> QED BY <3>1, <3>2
    <2>2. Upto(n + 1)  BY <2>1
    <2>3. n + 1 \in Nat  OBVIOUS
    <2> HIDE DEF Upto
    <2> QED BY <2>2, <2>3
  <1>6. Nat \subseteq N  BY <1>4, <1>5, Induction
  <1>7. Takes(S)
    <2>1. Cardinality(S) \in Nat  BY <1>1
    <2>2. Upto(Cardinality(S))  BY <1>6, <2>1
    <2> QED BY <2>1, <2>2
  <1> QED BY <1>7 DEF Sum

\* One more element adds its value.
LEMMA SumAdd ==
    ASSUME NEW f, NEW S, IsFiniteSet(S), NEW x, x \notin S,
           \A y \in S \cup {x} : f[y] \in Int
    PROVE  SumFunctionOnSet(f, S \cup {x}) = f[x] + SumFunctionOnSet(f, S)
  <1>1. IsFiniteSet(S \cup {x})  BY FS_AddElement
  <1>2. (S \cup {x}) \ {x} = S  OBVIOUS
  <1> QED BY <1>1, <1>2, SumTake

\* A function that changes at one element changes the sum by as much.
LEMMA SumChange ==
    ASSUME NEW f, NEW g, NEW S, IsFiniteSet(S), NEW x \in S,
           \A y \in S : f[y] \in Int /\ g[y] \in Int,
           \A y \in S \ {x} : g[y] = f[y]
    PROVE  SumFunctionOnSet(g, S) = SumFunctionOnSet(f, S) + (g[x] - f[x])
  <1> DEFINE R == S \ {x}
  <1>1. IsFiniteSet(R)  BY FS_RemoveElement
  <1>2. SumFunctionOnSet(f, R) = SumFunctionOnSet(g, R)  BY <1>1, SumAgree
  <1>3. SumFunctionOnSet(f, R) \in Int  BY <1>1, SumTake
  <1>4. SumFunctionOnSet(f, S) = f[x] + SumFunctionOnSet(f, R)  BY SumTake
  <1>5. SumFunctionOnSet(g, S) = g[x] + SumFunctionOnSet(g, R)  BY SumTake
  <1>6. f[x] \in Int /\ g[x] \in Int  OBVIOUS
  <1> QED BY <1>2, <1>3, <1>4, <1>5, <1>6

\* A sum of natural numbers is one.
LEMMA SumNat ==
    ASSUME NEW f, NEW S, IsFiniteSet(S), \A x \in S : f[x] \in Nat
    PROVE  SumFunctionOnSet(f, S) \in Nat
  <1> DEFINE Sum(s)  == SumFunctionOnSet(f, s)
             Upto(n) == \A s \in SUBSET S : Cardinality(s) <= n => Sum(s) \in Nat
             N       == {n \in Nat : Upto(n)}
  <1>1. \A s \in SUBSET S : IsFiniteSet(s) /\ Cardinality(s) \in Nat
    BY FS_Subset, FS_CardinalityType
  <1>2. Sum({}) = 0  BY SumEmpty
  <1>3. \A s \in SUBSET S : s # {} /\ Sum(s \ {Some(s)}) \in Nat => Sum(s) \in Nat
    <2> SUFFICES ASSUME NEW s \in SUBSET S, s # {}, Sum(s \ {Some(s)}) \in Nat
                 PROVE  Sum(s) \in Nat
      OBVIOUS
    <2>1. f[Some(s)] \in Nat  BY DEF Some
    <2>2. Sum(s) = f[Some(s)] + Sum(s \ {Some(s)})  BY <1>1, SumStep
    <2> HIDE DEF Sum
    <2> QED BY <2>1, <2>2
  <1> HIDE DEF Sum
  <1>4. 0 \in N
    <2>1. ASSUME NEW s \in SUBSET S, Cardinality(s) <= 0  PROVE  Sum(s) \in Nat
      <3>1. s = {}  BY <1>1, <2>1, FS_EmptySet
      <3> QED BY <1>2, <3>1
    <2> QED BY <2>1
  <1>5. ASSUME NEW n \in Nat, n \in N  PROVE  n + 1 \in N
    <2>1. ASSUME NEW s \in SUBSET S, Cardinality(s) <= n + 1  PROVE  Sum(s) \in Nat
      <3>1. CASE s = {}  BY <1>2, <3>1
      <3>2. CASE s # {}
        <4> DEFINE r == s \ {Some(s)}
        <4>1. r \in SUBSET S /\ Cardinality(r) <= n  BY <1>1, <2>1, <3>2, OneLess
        <4>2. Sum(r) \in Nat  BY <1>5, <4>1
        <4> QED BY <1>3, <3>2, <4>2
      <3> QED BY <3>1, <3>2
    <2> QED BY <2>1
  <1>6. Nat \subseteq N
    <2>1. \A n \in Nat : n \in N => n + 1 \in N  BY <1>5
    <2> HIDE DEF N
    <2> QED BY <1>4, <2>1, Induction
  <1>7. S \in SUBSET S /\ Cardinality(S) \in N  BY <1>1, <1>6
  <1> QED BY <1>1, <1>7 DEF Sum

\* What holds of nothing, and of a subset if it does without the element the
\* recursion takes, holds of the whole of a finite set.
LEMMA SubsetInduction ==
    ASSUME NEW S, IsFiniteSet(S), NEW P, {} \in P,
           \A s \in SUBSET S : s # {} /\ s \ {Some(s)} \in P => s \in P
    PROVE  S \in P
  <1> DEFINE Upto(n) == \A s \in SUBSET S : Cardinality(s) <= n => s \in P
             N       == {n \in Nat : Upto(n)}
  <1>1. \A s \in SUBSET S : IsFiniteSet(s) /\ Cardinality(s) \in Nat
    BY FS_Subset, FS_CardinalityType
  <1>2. 0 \in N
    <2>1. ASSUME NEW s \in SUBSET S, Cardinality(s) <= 0  PROVE  s \in P
      <3>1. s = {}  BY <1>1, <2>1, FS_EmptySet
      <3> QED BY <3>1
    <2> QED BY <2>1
  <1>3. ASSUME NEW n \in Nat, n \in N  PROVE  n + 1 \in N
    <2>1. ASSUME NEW s \in SUBSET S, Cardinality(s) <= n + 1  PROVE  s \in P
      <3>1. CASE s = {}  BY <3>1
      <3>2. CASE s # {}
        <4>1. s \ {Some(s)} \in SUBSET S /\ Cardinality(s \ {Some(s)}) <= n
          BY <1>1, <2>1, <3>2, OneLess
        <4> QED BY <1>3, <3>2, <4>1
      <3> QED BY <3>1, <3>2
    <2> QED BY <2>1
  <1>4. Nat \subseteq N
    <2>1. \A n \in Nat : n \in N => n + 1 \in N  BY <1>3
    <2> HIDE DEF N
    <2> QED BY <1>2, <2>1, Induction
  <1> QED BY <1>1, <1>4

\* Of two functions a weighted sum that is nowhere above a multiple of a third is
\* not above it when they are added up.
LEMMA SumBound ==
    ASSUME NEW f, NEW h, NEW g, NEW S, IsFiniteSet(S), NEW a \in Nat, NEW b \in Nat, NEW k \in Nat,
           \A x \in S : /\ f[x] \in Nat /\ h[x] \in Nat /\ g[x] \in Nat
                        /\ a * f[x] + b * h[x] <= k * g[x]
    PROVE  a * SumFunctionOnSet(f, S) + b * SumFunctionOnSet(h, S) <= k * SumFunctionOnSet(g, S)
  <1> DEFINE F(s) == SumFunctionOnSet(f, s)
             H(s) == SumFunctionOnSet(h, s)
             G(s) == SumFunctionOnSet(g, s)
             P == {s \in SUBSET S : a * F(s) + b * H(s) <= k * G(s)}
  <1>1. \A s \in SUBSET S : F(s) \in Nat /\ H(s) \in Nat /\ G(s) \in Nat
    <2> SUFFICES ASSUME NEW s \in SUBSET S  PROVE  F(s) \in Nat /\ H(s) \in Nat /\ G(s) \in Nat
      OBVIOUS
    <2>1. IsFiniteSet(s)  BY FS_Subset
    <2> QED BY <2>1, SumNat
  <1>2. F({}) = 0 /\ H({}) = 0 /\ G({}) = 0  BY SumEmpty
  <1>3. \A s \in SUBSET S : s # {} => LET c == Some(s)  r == s \ {Some(s)} IN
            F(s) = f[c] + F(r) /\ H(s) = h[c] + H(r) /\ G(s) = g[c] + G(r)
    <2> SUFFICES ASSUME NEW s \in SUBSET S, s # {}
                 PROVE  LET c == Some(s)  r == s \ {Some(s)} IN
                        F(s) = f[c] + F(r) /\ H(s) = h[c] + H(r) /\ G(s) = g[c] + G(r)
      OBVIOUS
    <2>1. IsFiniteSet(s)  BY FS_Subset
    <2> QED BY <2>1, SumStep
  <1> HIDE DEF F, H, G
  <1>4. {} \in P  BY <1>2
  <1>5. ASSUME NEW s \in SUBSET S, s # {}, s \ {Some(s)} \in P  PROVE  s \in P
    <2> DEFINE c == Some(s)
               r == s \ {Some(s)}
    <2>1. c \in S /\ r \in SUBSET S  BY <1>5 DEF Some
    <2>2. F(s) = f[c] + F(r) /\ H(s) = h[c] + H(r) /\ G(s) = g[c] + G(r)  BY <1>3, <1>5
    <2>3. /\ F(r) \in Nat /\ H(r) \in Nat /\ G(r) \in Nat
          /\ f[c] \in Nat /\ h[c] \in Nat /\ g[c] \in Nat
          /\ a * f[c] + b * h[c] <= k * g[c] /\ a * F(r) + b * H(r) <= k * G(r)
      BY <1>1, <1>5, <2>1
    <2> HIDE DEF c, r
    <2>4. \A n, x, y \in Nat : n * (x + y) = n * x + n * y /\ n * x \in Nat  OBVIOUS
    <2>5. a * F(s) = a * f[c] + a * F(r)  BY <2>2, <2>3, <2>4
    <2>6. b * H(s) = b * h[c] + b * H(r)  BY <2>2, <2>3, <2>4
    <2>7. k * G(s) = k * g[c] + k * G(r)  BY <2>2, <2>3, <2>4
    <2>8. /\ a * f[c] \in Nat /\ a * F(r) \in Nat /\ b * h[c] \in Nat /\ b * H(r) \in Nat
          /\ k * g[c] \in Nat /\ k * G(r) \in Nat
      BY <2>3, <2>4
    <2>9. a * F(s) + b * H(s) <= k * G(s)  BY <2>3, <2>5, <2>6, <2>7, <2>8
    <2> QED BY <2>9
  <1> HIDE DEF P
  <1>6. S \in P  BY <1>4, <1>5, SubsetInduction
  <1> QED BY <1>6 DEF P, F, H, G

\* Sums over sets whose elements are paired, with equal values, are equal.
LEMMA SumPaired ==
    ASSUME NEW S, IsFiniteSet(S), NEW T, NEW f, NEW g, NEW h \in [S -> T],
           \A x, y \in S : h[x] = h[y] => x = y,
           \A y \in T : \E x \in S : h[x] = y,
           \A x \in S : f[x] = g[h[x]], \A y \in T : g[y] \in Int
    PROVE  IsFiniteSet(T) /\ SumFunctionOnSet(f, S) = SumFunctionOnSet(g, T)
  <1> DEFINE Image(s) == {h[x] : x \in s}
             Same(s)  == /\ IsFiniteSet(Image(s))
                         /\ SumFunctionOnSet(f, s) = SumFunctionOnSet(g, Image(s))
             P        == {s \in SUBSET S : Same(s)}
  <1>1. {} \in P
    <2>1. Image({}) = {} /\ IsFiniteSet({})  BY FS_EmptySet
    <2> QED BY <2>1, SumEmpty
  <1>2. ASSUME NEW s \in SUBSET S, s # {}, s \ {Some(s)} \in P  PROVE  s \in P
    <2> DEFINE c == Some(s)
               r == s \ {Some(s)}
    <2>1. c \in s /\ c \in S /\ IsFiniteSet(s)  BY <1>2, FS_Subset DEF Some
    <2>2. Image(s) = Image(r) \cup {h[c]}
      <3>1. s = r \cup {c}  BY <2>1
      <3> HIDE DEF r, c
      <3> QED BY <3>1
    <2>3. h[c] \notin Image(r)  BY <2>1
    <2>4. IsFiniteSet(Image(r)) /\ SumFunctionOnSet(f, r) = SumFunctionOnSet(g, Image(r))
      BY <1>2
    <2>5. \A y \in Image(r) \cup {h[c]} : g[y] \in Int  BY <2>1
    <2>6. SumFunctionOnSet(f, s) = f[c] + SumFunctionOnSet(f, r)  BY <1>2, <2>1, SumStep
    <2>7. f[c] = g[h[c]]  BY <2>1
    <2> DEFINE y == h[c]
               R == Image(r)
    <2>8. IsFiniteSet(R \cup {y}) /\ SumFunctionOnSet(g, R \cup {y}) = g[y] + SumFunctionOnSet(g, R)
      <3>1. IsFiniteSet(R) /\ y \notin R /\ \A z \in R \cup {y} : g[z] \in Int  BY <2>3, <2>4, <2>5
      <3> HIDE DEF R, y
      <3> QED BY <3>1, SumAdd, FS_AddElement
    <2>9. Same(s)
      <3> HIDE DEF Image, c, r
      <3> QED BY <2>2, <2>4, <2>6, <2>7, <2>8
    <2> QED BY <2>9
  <1>3. S \in P
    <2> HIDE DEF P
    <2> QED BY <1>1, <1>2, SubsetInduction
  <1>4. Image(S) = T  OBVIOUS
  <1> QED BY <1>3, <1>4

\* The sum over a part is not above the sum over the whole.
LEMMA SumSubset ==
    ASSUME NEW f, NEW S, IsFiniteSet(S), NEW R \in SUBSET S, \A x \in S : f[x] \in Nat
    PROVE  SumFunctionOnSet(f, R) <= SumFunctionOnSet(f, S)
  <1> DEFINE F(s) == SumFunctionOnSet(f, s)
             P == {s \in SUBSET S : F(R \cap s) <= F(s)}
  <1>1. \A s \in SUBSET S : IsFiniteSet(s) /\ F(s) \in Nat
    <2> SUFFICES ASSUME NEW s \in SUBSET S  PROVE  IsFiniteSet(s) /\ F(s) \in Nat
      OBVIOUS
    <2>1. IsFiniteSet(s)  BY FS_Subset
    <2> QED BY <2>1, SumNat
  <1>2. {} \in P
    <2>1. R \cap {} = {} /\ F({}) = 0  BY SumEmpty
    <2> HIDE DEF F
    <2> QED BY <2>1
  <1>3. ASSUME NEW s \in SUBSET S, s # {}, s \ {Some(s)} \in P  PROVE  s \in P
    <2> DEFINE c == Some(s)
               r == s \ {c}
    <2>1. c \in s /\ c \in S  BY <1>3 DEF Some
    <2>2. F(s) = f[c] + F(r)  BY <1>1, <1>3, SumStep
    <2>3. F(R \cap r) <= F(r) /\ F(R \cap r) \in Nat /\ F(r) \in Nat /\ f[c] \in Nat
      BY <1>1, <1>3, <2>1
    <2> HIDE DEF c
    <2>4. CASE c \in R
      <3> DEFINE u == R \cap r
      <3>1. R \cap s = u \cup {c} /\ c \notin u  BY <2>1, <2>4
      <3>2. u \in SUBSET S  OBVIOUS
      <3>3. IsFiniteSet(u) /\ \A y \in u \cup {c} : f[y] \in Int  BY <1>1, <2>1, <3>2
      <3> HIDE DEF u
      <3>4. F(u \cup {c}) = f[c] + F(u)  BY <3>1, <3>3, SumAdd
      <3>5. F(R \cap s) = f[c] + F(R \cap r)  BY <3>1, <3>4 DEF u
      <3> HIDE DEF F, r
      <3> QED BY <2>2, <2>3, <3>5
    <2>5. CASE c \notin R
      <3>1. R \cap s = R \cap r  BY <2>5
      <3> HIDE DEF F, r
      <3> QED BY <2>2, <2>3, <3>1
    <2> QED BY <2>4, <2>5
  <1>4. S \in P
    <2> HIDE DEF P
    <2> QED BY <1>2, <1>3, SubsetInduction
  <1>5. R \cap S = R  OBVIOUS
  <1> QED BY <1>4, <1>5

\* What whole division leaves over is less than the divisor.
LEMMA Division ==
    ASSUME NEW m \in Nat, NEW n \in Nat \ {0}
    PROVE  m \div n \in Nat /\ n * (m \div n) <= m /\ m < n * ((m \div n) + 1)
  <1>1. m \div n \in Nat  OBVIOUS
  <1>2. m = n * (m \div n) + (m % n) /\ 0 <= m % n /\ m % n < n  OBVIOUS
  <1> QED BY <1>1, <1>2

\* A smaller divisor does not make the quotient smaller.
LEMMA SmallerDivisor ==
    ASSUME NEW m \in Nat, NEW n \in Nat \ {0}, NEW k \in Nat \ {0}, n <= k
    PROVE  m \div k <= m \div n
  <1> DEFINE q == m \div k
             p == m \div n
  <1>1. q \in Nat /\ k * q <= m  BY Division
  <1>2. p \in Nat /\ m < n * (p + 1)  BY Division
  <1> HIDE DEF p, q
  <1>3. SUFFICES ASSUME p + 1 <= q  PROVE  FALSE
    BY <1>1, <1>2 DEF p, q
  <1>4. \A i, j, l \in Nat : i <= j => l * i <= l * j /\ i * l <= j * l  OBVIOUS
  <1>5. p + 1 \in Nat /\ n \in Nat /\ k \in Nat  BY <1>2
  <1>6. n * (p + 1) <= n * q  BY <1>1, <1>3, <1>4, <1>5
  <1>7. n * q <= k * q  BY <1>1, <1>4, <1>5
  <1>8. n * (p + 1) \in Nat /\ n * q \in Nat /\ k * q \in Nat  BY <1>1, <1>5
  <1> QED BY <1>1, <1>2, <1>6, <1>7, <1>8
==============================================================================
