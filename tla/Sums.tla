--------------------------------- MODULE Sums ---------------------------------
(***************************************************************************)
(* Least elements of sets, and what a sum over a finite set is: facts that *)
(* the proofs about budgets and journals need of the library's folds.      *)
(*                                                                         *)
(* A fold is defined by recursion on a set whose elements it takes in an   *)
(* order of its own.  That the recursion has a solution, and that the      *)
(* order does not matter, is shown on a smallest set for which it fails.   *)
(***************************************************************************)
EXTENDS Integers, FiniteSets, FiniteSetsExt, Functions, FiniteSetTheorems,
        WellFoundedInduction, TLAPS

LEMMA LeastExists ==
    ASSUME NEW T \in SUBSET Nat, T # {}
    PROVE  \E m \in T : \A k \in T : m <= k
<1> DEFINE R == OpToRel(<, Nat)
<1>1. PICK m \in T : \A y \in T : ~ (<<y, m>> \in R)
  <2>1. IsWellFoundedOn(R, Nat)
      BY NatLessThanWellFounded
  <2> HIDE DEF R
  <2> QED BY <2>1, WFMin
<1>2. \A y \in T : ~(y < m)
    BY <1>1 DEF OpToRel
<1> QED BY <1>2

LEMMA MinIsLeast ==
    ASSUME NEW T \in SUBSET Nat, T # {}
    PROVE  Min(T) \in T /\ \A k \in T : Min(T) <= k
BY LeastExists DEF Min

LEMMA GreatestExists ==
    ASSUME NEW n \in Nat, NEW T \in SUBSET (0..n), T # {}
    PROVE  \E m \in T : \A k \in T : k <= m
<1> DEFINE U == {n - k : k \in T}
<1>1. U \in SUBSET Nat /\ U # {}
  <2>1. \A k \in T : n - k \in Nat
      OBVIOUS
  <2> QED BY <2>1
<1>2. PICK m \in U : \A k \in U : m <= k
    BY <1>1, LeastExists
<1>3. PICK x \in T : m = n - x
    OBVIOUS
<1>4. ASSUME NEW y \in T PROVE y <= x
  <2>1. n - y \in U /\ x \in Nat /\ y \in Nat
      OBVIOUS
  <2>2. n - x <= n - y
      BY <1>2, <1>3, <2>1
  <2> QED BY <2>1, <2>2
<1> QED BY <1>4

LEMMA MaxIsGreatest ==
    ASSUME NEW n \in Nat, NEW T \in SUBSET (0..n), T # {}
    PROVE  Max(T) \in T
<1>1. PICK m \in T : \A k \in T : k <= m
    BY GreatestExists
<1>2. \A k \in T : m >= k
    BY <1>1
<1> QED BY <1>2 DEF Max
-----------------------------------------------------------------------------
\* A smallest set among some subsets of a finite set.
LEMMA SmallestExists ==
    ASSUME NEW S, IsFiniteSet(S), NEW B \in SUBSET (SUBSET S), B # {}
    PROVE  \E T \in B : \A U \in B : ~(U \subseteq T /\ U # T)
<1> DEFINE R == StrictSubsetOrdering(S)
<1>1. IsWellFoundedOn(R, FiniteSubsetsOf(S))
    BY FS_StrictSubsetOrderingWellFounded
<1>2. B \subseteq FiniteSubsetsOf(S)
    BY FS_Subset DEF FiniteSubsetsOf
<1>3. PICK T \in B : \A U \in B : ~(<<U, T>> \in R)
  <2> HIDE DEF R
  <2> QED BY <1>1, <1>2, WFMin
<1> QED BY <1>3 DEF StrictSubsetOrdering

Chosen(s) == CHOOSE x \in s : TRUE
IsSum(g, f, S) ==
    g = [s \in SUBSET S |-> IF s = {} THEN 0 ELSE f[Chosen(s)] + g[s \ {Chosen(s)}]]

LEMMA SumIs ==
    ASSUME NEW f, NEW S
    PROVE  SumFunctionOnSet(f, S) = (CHOOSE g : IsSum(g, f, S))[S]
BY DEF SumFunctionOnSet, FoldFunctionOnSet, MapThenFoldSet, Chosen, IsSum

\* g sums the subsets of up to n elements.
SumsUpTo(g, f, S, n) ==
    \A s \in SUBSET S : Cardinality(s) <= n =>
        g[s] = IF s = {} THEN 0 ELSE f[Chosen(s)] + g[s \ {Chosen(s)}]

LEMMA SumExists ==
    ASSUME NEW f, NEW S, IsFiniteSet(S)
    PROVE  \E g : IsSum(g, f, S)
<1> DEFINE B == {n \in Nat : ~ \E g : SumsUpTo(g, f, S, n)}
<1>0. \A s \in SUBSET S : IsFiniteSet(s) /\ Cardinality(s) \in Nat
    BY FS_Subset, FS_CardinalityType
<1>1. B = {}
  <2> SUFFICES ASSUME B # {} PROVE FALSE
      OBVIOUS
  <2>1. PICK n \in B : \A k \in B : n <= k
    <3>1. B \in SUBSET Nat
        OBVIOUS
    <3> HIDE DEF B
    <3> QED BY <3>1, LeastExists
  <2>2. CASE n = 0
    <3> DEFINE g == [s \in SUBSET S |-> 0]
    <3>1. ASSUME NEW s \in SUBSET S, Cardinality(s) <= 0 PROVE s = {} /\ g[s] = 0
      <4>1. Cardinality(s) = 0
          BY <1>0, <3>1
      <4> QED BY <4>1, <1>0, FS_EmptySet
    <3>2. SumsUpTo(g, f, S, 0)
      <4> HIDE DEF g
      <4> QED BY <3>1 DEF SumsUpTo
    <3> QED BY <2>1, <2>2, <3>2
  <2>3. CASE n # 0
    <3>1. n - 1 \in Nat /\ n - 1 \notin B
        BY <2>1, <2>3
    <3>2. PICK h : SumsUpTo(h, f, S, n - 1)
        BY <3>1
    <3> DEFINE g == [s \in SUBSET S |->
                       IF Cardinality(s) <= n - 1 THEN h[s]
                       ELSE f[Chosen(s)] + h[s \ {Chosen(s)}]]
    <3>3. ASSUME NEW s \in SUBSET S, Cardinality(s) <= n
          PROVE  g[s] = IF s = {} THEN 0 ELSE f[Chosen(s)] + g[s \ {Chosen(s)}]
      <4>1. CASE s = {}
        <5>1. Cardinality(s) = 0 /\ 0 <= n - 1
            BY <3>1, <4>1, FS_EmptySet
        <5>2. h[s] = 0
            BY <3>2, <4>1, <5>1 DEF SumsUpTo
        <5> QED BY <4>1, <5>1, <5>2
      <4>2. CASE s # {}
        <5> DEFINE r == s \ {Chosen(s)}
        <5>1. Chosen(s) \in s
            BY <4>2 DEF Chosen
        <5>2. r \in SUBSET S /\ Cardinality(r) = Cardinality(s) - 1
            BY <1>0, <5>1, FS_RemoveElement
        <5>3. Cardinality(r) <= n - 1
            BY <1>0, <2>1, <3>3, <5>2
        <5>4. g[r] = h[r]
            BY <5>2, <5>3
        <5>5. g[s] = f[Chosen(s)] + h[r]
          <6>1. Cardinality(s) <= n - 1 => h[s] = f[Chosen(s)] + h[r]
              BY <3>2, <4>2 DEF SumsUpTo
          <6> QED BY <6>1
        <5> QED BY <4>2, <5>4, <5>5
      <4> QED BY <4>1, <4>2
    <3>4. SumsUpTo(g, f, S, n)
      <4> HIDE DEF g
      <4> QED BY <3>3 DEF SumsUpTo
    <3> QED BY <2>1, <3>4
  <2> QED BY <2>2, <2>3
<1>2. Cardinality(S) \in Nat \ B
    BY <1>0, <1>1
<1>3. PICK h : SumsUpTo(h, f, S, Cardinality(S))
    BY <1>2
<1> DEFINE g == [s \in SUBSET S |-> h[s]]
<1>4. \A s \in SUBSET S : Cardinality(s) <= Cardinality(S) /\ s \ {Chosen(s)} \in SUBSET S
    BY FS_Subset
<1>5. \A s \in SUBSET S : g[s] = IF s = {} THEN 0 ELSE f[Chosen(s)] + g[s \ {Chosen(s)}]
    BY <1>3, <1>4 DEF SumsUpTo
<1>6. IsSum(g, f, S)
  <2>1. g = [s \in SUBSET S |-> g[s]]
      OBVIOUS
  <2> HIDE DEF g
  <2> QED BY <1>5, <2>1 DEF IsSum
<1> QED BY <1>6

\* A sum does not depend on the order.
LEMMA AnyOrder ==
    ASSUME NEW f, NEW S, IsFiniteSet(S), NEW g, IsSum(g, f, S), \A x \in S : f[x] \in Int
    PROVE  \A T \in SUBSET S : g[T] \in Int /\ \A x \in T : g[T] = f[x] + g[T \ {x}]
<1> DEFINE Good(T) == g[T] \in Int /\ \A x \in T : g[T] = f[x] + g[T \ {x}]
           B == {T \in SUBSET S : ~Good(T)}
<1>1. \A T \in SUBSET S : g[T] = IF T = {} THEN 0 ELSE f[Chosen(T)] + g[T \ {Chosen(T)}]
    BY DEF IsSum
<1>2. SUFFICES ASSUME B # {} PROVE FALSE
    OBVIOUS
<1>3. PICK T \in B : \A U \in B : ~(U \subseteq T /\ U # T)
  <2>1. B \in SUBSET (SUBSET S)
      OBVIOUS
  <2> HIDE DEF B
  <2> QED BY <1>2, <2>1, SmallestExists
<1>4. \A U \in SUBSET T : U # T => Good(U)
    BY <1>3
<1>5. T # {}
  <2>1. g[{}] = 0
      BY <1>1
  <2>2. Good({})
      BY <2>1
  <2>3. ~Good(T)
      BY <1>3
  <2> HIDE DEF Good
  <2> QED BY <2>2, <2>3
<1>6. Chosen(T) \in T
    BY <1>5 DEF Chosen
<1> DEFINE c == Chosen(T)
<1>7. g[T] = f[c] + g[T \ {c}] /\ f[c] \in Int
    BY <1>1, <1>3, <1>5, <1>6
<1> HIDE DEF c, B
<1>8. c \in T
    BY <1>6 DEF c
<1>9. Good(T \ {c})
    BY <1>4, <1>8
<1>10. g[T] \in Int
    BY <1>7, <1>9
<1>11. ASSUME NEW x \in T, x # c PROVE g[T] = f[x] + g[T \ {x}]
  <2>1. Good(T \ {x})
      BY <1>4
  <2>2. (T \ {x}) \ {c} = (T \ {c}) \ {x}
      OBVIOUS
  <2>3. g[T \ {x}] = f[c] + g[(T \ {c}) \ {x}]
      BY <1>8, <1>11, <2>1, <2>2
  <2>4. g[T \ {c}] = f[x] + g[(T \ {c}) \ {x}]
      BY <1>9, <1>11
  <2>5. Good((T \ {c}) \ {x})
      BY <1>4, <1>8
  <2>6. f[x] \in Int
      BY <1>3 DEF B
  <2> QED BY <1>7, <2>3, <2>4, <2>5, <2>6
<1>12. Good(T)
    BY <1>7, <1>10, <1>11
<1> QED BY <1>3, <1>12 DEF B

\* Nor on what else might have been summed.
LEMMA SumWithin ==
    ASSUME NEW f, NEW S, IsFiniteSet(S), NEW T \in SUBSET S,
           NEW g, IsSum(g, f, S), NEW h, IsSum(h, f, T)
    PROVE  g[T] = h[T]
<1> DEFINE B == {U \in SUBSET T : g[U] # h[U]}
<1>1. SUFFICES ASSUME B # {} PROVE FALSE
    OBVIOUS
<1>2. /\ \A U \in SUBSET S : g[U] = IF U = {} THEN 0 ELSE f[Chosen(U)] + g[U \ {Chosen(U)}]
      /\ \A U \in SUBSET T : h[U] = IF U = {} THEN 0 ELSE f[Chosen(U)] + h[U \ {Chosen(U)}]
    BY DEF IsSum
<1>3. PICK U \in B : \A V \in B : ~(V \subseteq U /\ V # U)
  <2>1. B \in SUBSET (SUBSET S)
      OBVIOUS
  <2> HIDE DEF B
  <2> QED BY <1>1, <2>1, SmallestExists
<1>4. U # {}
    BY <1>2, <1>3
<1>5. Chosen(U) \in U
    BY <1>4 DEF Chosen
<1>6. g[U \ {Chosen(U)}] = h[U \ {Chosen(U)}]
    BY <1>3, <1>5
<1> QED BY <1>2, <1>3, <1>4, <1>6

\* What a sum over a finite set is.
LEMMA SumSplits ==
    ASSUME NEW f, NEW S, IsFiniteSet(S), \A x \in S : f[x] \in Int
    PROVE  /\ SumFunctionOnSet(f, S) \in Int
           /\ S = {} => SumFunctionOnSet(f, S) = 0
           /\ \A x \in S : SumFunctionOnSet(f, S) = f[x] + SumFunctionOnSet(f, S \ {x})
<1>1. PICK g : IsSum(g, f, S) /\ SumFunctionOnSet(f, S) = g[S]
    BY SumExists, SumIs
<1>2. SumFunctionOnSet(f, S) = g[S]
    BY <1>1
<1>3. g[S] \in Int /\ \A x \in S : g[S] = f[x] + g[S \ {x}]
  <2>1. \A T \in SUBSET S : g[T] \in Int /\ \A x \in T : g[T] = f[x] + g[T \ {x}]
      BY <1>1, AnyOrder
  <2> QED BY <2>1
<1>4. S = {} => g[S] = 0
    BY <1>1 DEF IsSum
<1>5. ASSUME NEW x \in S PROVE g[S \ {x}] = SumFunctionOnSet(f, S \ {x})
  <2> DEFINE T == S \ {x}
  <2>1. IsFiniteSet(T) /\ T \in SUBSET S
      BY FS_Subset
  <2> HIDE DEF T
  <2>2. PICK h : IsSum(h, f, T) /\ SumFunctionOnSet(f, T) = h[T]
      BY <2>1, SumExists, SumIs
  <2>3. g[T] = h[T]
      BY <1>1, <2>1, <2>2, SumWithin
  <2> QED BY <2>2, <2>3 DEF T
<1> QED BY <1>2, <1>3, <1>4, <1>5

\* Two sums whose terms correspond one to one are equal.
LEMMA SumsAgree ==
    ASSUME NEW S, IsFiniteSet(S), NEW T, NEW b \in Bijection(S, T), NEW f, NEW h,
           \A x \in S : f[x] \in Int /\ h[b[x]] = f[x]
    PROVE  SumFunctionOnSet(f, S) = SumFunctionOnSet(h, T)
<1> DEFINE Image(U) == {b[x] : x \in U}
           B == {U \in SUBSET S : SumFunctionOnSet(f, U) # SumFunctionOnSet(h, Image(U))}
<1>1. /\ b \in [S -> T] /\ \A x, y \in S : b[x] = b[y] => x = y
      /\ \A y \in T : \E x \in S : b[x] = y
    BY DEF Bijection, Injection, Surjection, IsInjective
<1>2. T = Image(S)
    BY <1>1
<1>3. SUFFICES ASSUME B # {} PROVE FALSE
    BY <1>2
<1>4. PICK U \in B : \A V \in B : ~(V \subseteq U /\ V # U)
  <2>1. B \in SUBSET (SUBSET S)
      OBVIOUS
  <2> HIDE DEF B
  <2> QED BY <1>3, <2>1, SmallestExists
<1>5. U \in SUBSET S /\ SumFunctionOnSet(f, U) # SumFunctionOnSet(h, Image(U))
    BY <1>4
<1>6. /\ IsFiniteSet(U) /\ IsFiniteSet(Image(U))
      /\ \A x \in U : f[x] \in Int
      /\ \A y \in Image(U) : h[y] \in Int
  <2>1. IsFiniteSet(U)
      BY <1>5, FS_Subset
  <2>2. [x \in U |-> b[x]] \in Surjection(U, Image(U))
      BY DEF Surjection
  <2>3. IsFiniteSet(Image(U))
      BY <2>1, <2>2, FS_Surjection
  <2> QED BY <1>5, <2>1, <2>3
<1>7. CASE U = {}
  <2>1. Image(U) = {}
      BY <1>7
  <2> QED BY <1>5, <1>6, <1>7, <2>1, SumSplits
<1>8. CASE U # {}
  <2>1. PICK x \in U : TRUE
      BY <1>8
  <2>2. b[x] \in Image(U) /\ Image(U) \ {b[x]} = Image(U \ {x})
      BY <1>1, <1>5
  <2>3. SumFunctionOnSet(f, U \ {x}) = SumFunctionOnSet(h, Image(U \ {x}))
      BY <1>4, <1>5, <2>1
  <2>4. SumFunctionOnSet(f, U) = f[x] + SumFunctionOnSet(f, U \ {x})
      BY <1>6, SumSplits
  <2>5. SumFunctionOnSet(h, Image(U)) = h[b[x]] + SumFunctionOnSet(h, Image(U) \ {b[x]})
    <3> HIDE DEF Image
    <3> QED BY <1>6, <2>2, SumSplits
  <2>6. h[b[x]] = f[x]
      BY <1>5
  <2> QED BY <1>5, <2>2, <2>3, <2>4, <2>5, <2>6
<1> QED BY <1>7, <1>8

\* Equal terms, equal sums.
LEMMA SameTerms ==
    ASSUME NEW S, IsFiniteSet(S), NEW f, NEW h, \A x \in S : f[x] \in Int /\ h[x] = f[x]
    PROVE  SumFunctionOnSet(f, S) = SumFunctionOnSet(h, S)
<1> DEFINE b == [x \in S |-> x]
<1>1. b \in Bijection(S, S)
    BY DEF Bijection, Injection, Surjection, IsInjective
<1>2. \A x \in S : f[x] \in Int /\ h[b[x]] = f[x]
    OBVIOUS
<1> HIDE DEF b
<1> QED BY <1>1, <1>2, SumsAgree

\* A part of a sum of naturals is no more than the whole.
LEMMA PartOfSum ==
    ASSUME NEW T, IsFiniteSet(T), NEW S \in SUBSET T, NEW f, \A x \in T : f[x] \in Nat
    PROVE  /\ SumFunctionOnSet(f, S) \in Nat /\ SumFunctionOnSet(f, T) \in Nat
           /\ SumFunctionOnSet(f, S) <= SumFunctionOnSet(f, T)
<1> DEFINE Less(U) == /\ SumFunctionOnSet(f, U) \in Nat
                      /\ \A V \in SUBSET U :
                           /\ SumFunctionOnSet(f, V) \in Nat
                           /\ SumFunctionOnSet(f, V) <= SumFunctionOnSet(f, U)
           B == {U \in SUBSET T : ~Less(U)}
<1>1. SUFFICES ASSUME B # {} PROVE FALSE
    OBVIOUS
<1>2. PICK U \in B : \A V \in B : ~(V \subseteq U /\ V # U)
  <2>1. B \in SUBSET (SUBSET T)
      OBVIOUS
  <2> HIDE DEF B
  <2> QED BY <1>1, <2>1, SmallestExists
<1>3. \A V \in SUBSET U : V # U => Less(V)
    BY <1>2
<1>4. U \in SUBSET T /\ ~Less(U)
    BY <1>2
<1> HIDE DEF B
<1>5. IsFiniteSet(U) /\ \A x \in U : f[x] \in Int
    BY <1>4, FS_Subset
<1>6. /\ SumFunctionOnSet(f, U) \in Int
      /\ U = {} => SumFunctionOnSet(f, U) = 0
      /\ \A x \in U : SumFunctionOnSet(f, U) = f[x] + SumFunctionOnSet(f, U \ {x})
    BY <1>5, SumSplits
<1>7. ASSUME NEW x \in U
      PROVE  /\ f[x] \in Nat /\ Less(U \ {x})
             /\ SumFunctionOnSet(f, U) = f[x] + SumFunctionOnSet(f, U \ {x})
    BY <1>3, <1>4, <1>6
<1>8. SumFunctionOnSet(f, U) \in Nat
  <2>1. CASE U = {}
      BY <1>6, <2>1
  <2>2. CASE U # {}
    <3>1. PICK x \in U : TRUE
        BY <2>2
    <3>2. /\ f[x] \in Nat /\ SumFunctionOnSet(f, U \ {x}) \in Nat
          /\ SumFunctionOnSet(f, U) = f[x] + SumFunctionOnSet(f, U \ {x})
        BY <1>7, <3>1
    <3> QED BY <3>2
  <2> QED BY <2>1, <2>2
<1>9. ASSUME NEW V \in SUBSET U
      PROVE  SumFunctionOnSet(f, V) \in Nat /\ SumFunctionOnSet(f, V) <= SumFunctionOnSet(f, U)
  <2>1. CASE V = U
      BY <1>8, <2>1
  <2>2. CASE V # U
    <3>1. PICK x \in U : x \notin V
        BY <2>2
    <3>2. V \in SUBSET (U \ {x})
        BY <3>1
    <3>3. SumFunctionOnSet(f, V) \in Nat /\ SumFunctionOnSet(f, V) <= SumFunctionOnSet(f, U \ {x})
          /\ SumFunctionOnSet(f, U \ {x}) \in Nat
        BY <1>7, <3>1, <3>2
    <3>4. f[x] \in Nat /\ SumFunctionOnSet(f, U) = f[x] + SumFunctionOnSet(f, U \ {x})
        BY <1>7, <3>1
    <3> QED BY <3>3, <3>4
  <2> QED BY <2>1, <2>2
<1> QED BY <1>4, <1>8, <1>9

\* A sum over two disjoint sets.
LEMMA SumUnion ==
    ASSUME NEW S, IsFiniteSet(S), NEW T, IsFiniteSet(T), S \cap T = {},
           NEW f, \A x \in S \cup T : f[x] \in Int
    PROVE  SumFunctionOnSet(f, S \cup T) = SumFunctionOnSet(f, S) + SumFunctionOnSet(f, T)
<1> DEFINE Good(U) == SumFunctionOnSet(f, U \cup T) = SumFunctionOnSet(f, U) + SumFunctionOnSet(f, T)
           B == {U \in SUBSET S : ~Good(U)}
<1>1. SUFFICES ASSUME B # {} PROVE FALSE
    OBVIOUS
<1>2. PICK U \in B : \A V \in B : ~(V \subseteq U /\ V # U)
  <2>1. B \in SUBSET (SUBSET S)
      OBVIOUS
  <2> HIDE DEF B
  <2> QED BY <1>1, <2>1, SmallestExists
<1>3. U \in SUBSET S /\ ~Good(U) /\ \A V \in SUBSET U : V # U => Good(V)
    BY <1>2
<1> HIDE DEF B
<1>4. IsFiniteSet(U) /\ IsFiniteSet(U \cup T) /\ SumFunctionOnSet(f, T) \in Int
    BY <1>3, FS_Subset, FS_Union, SumSplits
<1>5. U # {}
  <2>1. SumFunctionOnSet(f, {}) = 0 /\ {} \cup T = T
      BY FS_EmptySet, SumSplits
  <2>2. Good({})
      BY <1>4, <2>1
  <2> HIDE DEF Good
  <2> QED BY <1>3, <2>2
<1>6. PICK x \in U : TRUE
    BY <1>5
<1>7. SumFunctionOnSet(f, U) = f[x] + SumFunctionOnSet(f, U \ {x}) /\ f[x] \in Int
    BY <1>3, <1>4, SumSplits
<1>8. SumFunctionOnSet(f, U \cup T) = f[x] + SumFunctionOnSet(f, (U \ {x}) \cup T)
  <2>1. x \in U \cup T /\ (U \cup T) \ {x} = (U \ {x}) \cup T
      BY <1>3
  <2>2. \A y \in U \cup T : f[y] \in Int
      BY <1>3
  <2> QED BY <1>4, <2>1, <2>2, SumSplits
<1>9. Good(U \ {x})
    BY <1>3
<1>10. SumFunctionOnSet(f, U \ {x}) \in Int
  <2>1. IsFiniteSet(U \ {x}) /\ \A y \in U \ {x} : f[y] \in Int
      BY <1>3, <1>4, FS_Subset
  <2> QED BY <2>1, SumSplits
<1>11. Good(U)
    BY <1>4, <1>7, <1>8, <1>9, <1>10
<1> QED BY <1>3, <1>11

LEMMA SumOfOne ==
    ASSUME NEW x, NEW f, f[x] \in Int
    PROVE  SumFunctionOnSet(f, {x}) = f[x]
<1> DEFINE T == {x} \ {x}
<1>1. IsFiniteSet({x}) /\ IsFiniteSet(T) /\ T = {}
    BY FS_Singleton, FS_EmptySet
<1>2. SumFunctionOnSet(f, {x}) = f[x] + SumFunctionOnSet(f, T)
    BY <1>1, SumSplits
<1> HIDE DEF T
<1>3. SumFunctionOnSet(f, T) = 0
    BY <1>1, SumSplits
<1> QED BY <1>2, <1>3
=============================================================================
