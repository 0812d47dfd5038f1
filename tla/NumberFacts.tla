----------------------------- MODULE NumberFacts -----------------------------
(***************************************************************************)
(* Minimum and maximum, as FiniteSetsExt defines them: they exist, and     *)
(* what they are for two numbers.  Sums over finite sets, as Functions     *)
(* defines them: the recursion of the fold has a solution, and inductions  *)
(* over the set go through.                                                *)
(***************************************************************************)
EXTENDS Integers, FiniteSetsExt, FiniteSetTheorems, TLAPS

\* A set of numbers that is not empty has a least element.
LEMMA LeastNumber ==
  ASSUME NEW S \in SUBSET Nat, S # {}
  PROVE  \E x \in S : \A y \in S : x <= y
<1> DEFINE Less == {p \in Nat \X Nat : p[1] < p[2]}
<1>1. IsWellFoundedOn(Less, Nat)
  BY NatLessThanWellFounded DEF OpToRel
<1>2. PICK x \in S : \A y \in S : <<y, x>> \notin Less
  <2> HIDE DEF Less
  <2> QED BY <1>1, WFMin
<1>3. ASSUME NEW y \in S, y < x PROVE FALSE
  <2>1. <<y, x>> \in Less
    BY <1>3
  <2> QED BY <2>1, <1>2
<1> QED BY <1>3

LEMMA MinFacts ==
  ASSUME NEW S \in SUBSET Nat, S # {}
  PROVE  Min(S) \in S /\ \A y \in S : Min(S) <= y
BY LeastNumber DEF Min

LEMMA MinOfTwo ==
  ASSUME NEW a \in Int, NEW b \in Int
  PROVE  Min({a, b}) = IF a < b THEN a ELSE b
<1>1. CASE a < b
  <2>1. \A x \in {a, b} : (\A y \in {a, b} : x <= y) <=> x = a
    BY <1>1
  <2> QED BY <1>1, <2>1 DEF Min
<1>2. CASE ~(a < b)
  <2>1. \A x \in {a, b} : (\A y \in {a, b} : x <= y) <=> x = b
    BY <1>2
  <2> QED BY <1>2, <2>1 DEF Min
<1> QED BY <1>1, <1>2

LEMMA MaxOfTwo ==
  ASSUME NEW a \in Int, NEW b \in Int
  PROVE  Max({a, b}) = IF a < b THEN b ELSE a
<1>1. CASE a < b
  <2>1. \A x \in {a, b} : (\A y \in {a, b} : x >= y) <=> x = b
    BY <1>1
  <2> QED BY <1>1, <2>1 DEF Max
<1>2. CASE ~(a < b)
  <2>1. \A x \in {a, b} : (\A y \in {a, b} : x >= y) <=> x = a
    BY <1>2
  <2> QED BY <1>2, <2>1 DEF Max
<1> QED BY <1>1, <1>2

\* A set of numbers that is bounded, and not empty, has a largest element.
LEMMA MaxFacts ==
  ASSUME NEW S \in SUBSET Nat, S # {}, NEW n \in Nat, \A x \in S : x <= n
  PROVE  Max(S) \in S /\ \A y \in S : y <= Max(S)
<1> DEFINE B == {k \in Nat : \A x \in S : x <= k}
<1>1. PICK m \in B : \A k \in B : m <= k
  <2>1. B \subseteq Nat /\ B # {}
    OBVIOUS
  <2> HIDE DEF B
  <2> QED BY <2>1, LeastNumber
<1>2. m \in Nat /\ \A x \in S : x <= m
  BY <1>1
<1>3. m \in S
  <2> SUFFICES ASSUME m \notin S PROVE FALSE
    OBVIOUS
  <2>1. \A x \in S : x < m
    BY <1>2
  <2>2. m - 1 \in Nat /\ \A x \in S : x <= m - 1
    <3> PICK x \in S : TRUE
      OBVIOUS
    <3> QED BY <1>2, <2>1
  <2>3. m - 1 \in B
    BY <2>2
  <2> QED BY <2>3, <1>1, <1>2
<1>4. \A x \in S : (\A y \in S : x >= y) <=> x = m
  BY <1>2, <1>3
<1> QED BY <1>2, <1>3, <1>4 DEF Max

-----------------------------------------------------------------------------
(* Sums over finite sets *)

\* A set of subsets of S that holds a set whenever it holds what is left of
\* it without any one of its elements holds them all.
LEMMA SetInduction ==
  ASSUME NEW S, IsFiniteSet(S), NEW P \in SUBSET (SUBSET S),
         \A s \in SUBSET S : (\A x \in s : s \ {x} \in P) => s \in P
  PROVE  \A s \in SUBSET S : s \in P
<1> SUFFICES ASSUME \E s \in SUBSET S : s \notin P PROVE FALSE
  OBVIOUS
<1> DEFINE Sizes == {Cardinality(s) : s \in {t \in SUBSET S : t \notin P}}
<1>1. Sizes \subseteq Nat /\ Sizes # {}
  BY FS_Subset, FS_CardinalityType
<1>2. PICK k \in Sizes : \A n \in Sizes : k <= n
  <2> HIDE DEF Sizes
  <2> QED BY <1>1, LeastNumber
<1>3. PICK s \in SUBSET S : s \notin P /\ Cardinality(s) = k
  BY <1>2
<1>4. PICK x \in s : s \ {x} \notin P
  BY <1>3
<1>5. Cardinality(s \ {x}) = k - 1 /\ k \in Nat
  BY <1>1, <1>3, FS_RemoveElement, FS_Subset
<1>6. Cardinality(s \ {x}) \in Sizes
  BY <1>4
<1> HIDE DEF Sizes
<1> QED
  BY <1>2, <1>5, <1>6

\* A function from a finite set to the naturals has a bound, and where the
\* set is not empty a largest value.
LEMMA ValuesBounded ==
  ASSUME NEW S, IsFiniteSet(S), NEW f \in [S -> Nat]
  PROVE  \E n \in Nat : \A x \in S : f[x] <= n
<1> DEFINE P == {s \in SUBSET S : \E n \in Nat : \A x \in s : f[x] <= n}
<1>1. ASSUME NEW s \in SUBSET S, \A x \in s : s \ {x} \in P
      PROVE  s \in P
  <2>1. CASE s = {}
    <3>1. 0 \in Nat /\ \A x \in s : f[x] <= 0
      BY <2>1
    <3> QED
      BY <3>1
  <2>2. CASE s # {}
    <3>1. PICK x \in s : TRUE
      BY <2>2
    <3>2. PICK n \in Nat : \A y \in s \ {x} : f[y] <= n
      BY <1>1, <3>1
    <3>3. f[x] \in Nat /\ n + f[x] \in Nat /\ \A y \in s : f[y] \in Nat /\ f[y] <= n + f[x]
      BY <3>1, <3>2
    <3> QED
      BY <3>3
  <2> QED
    BY <2>1, <2>2
<1>2. S \in P
  <2> HIDE DEF P
  <2>1. P \in SUBSET (SUBSET S)
    BY DEF P
  <2> QED
    BY <1>1, <2>1, SetInduction
<1> QED
  BY <1>2

LEMMA LargestValue ==
  ASSUME NEW S, IsFiniteSet(S), S # {}, NEW f \in [S -> Nat]
  PROVE  \E x \in S : \A y \in S : f[y] <= f[x]
<1> DEFINE V == {f[x] : x \in S}
<1>1. PICK n \in Nat : \A x \in S : f[x] <= n
  BY ValuesBounded
<1>2. V \in SUBSET Nat /\ V # {} /\ \A v \in V : v <= n
  BY <1>1
<1>3. \E m \in V : \A v \in V : v <= m
  <2> HIDE DEF V
  <2> QED
    BY <1>2, MaxFacts
<1> QED
  BY <1>3

\* The element a fold takes first.
Choice(s) == CHOOSE x \in s : TRUE

\* g is the sum of w on every set of D.
SumsUp(g, D, w) ==
  g = [s \in D |-> IF s = {} THEN 0 ELSE w[Choice(s)] + g[s \ {Choice(s)}]]

LEMMA SumAsChoice ==
  ASSUME NEW S, NEW w
  PROVE  SumFunctionOnSet(w, S) = (CHOOSE g : SumsUp(g, SUBSET S, w))[S]
BY DEF SumFunctionOnSet, FoldFunctionOnSet, MapThenFoldSet, SumsUp, Choice

\* The recursive definition of the fold has a solution.
LEMMA SumExists ==
  ASSUME NEW S, IsFiniteSet(S), NEW w
  PROVE  \E g : SumsUp(g, SUBSET S, w)
<1> DEFINE D(n) == {s \in SUBSET S : Cardinality(s) <= n}
           Bad == {n \in Nat : ~ \E g : SumsUp(g, D(n), w)}
<1>1. ASSUME NEW s \in SUBSET S
      PROVE  /\ Cardinality(s) \in Nat /\ (Cardinality(s) = 0 <=> s = {})
             /\ s # {} => /\ Choice(s) \in s
                          /\ Cardinality(s \ {Choice(s)}) = Cardinality(s) - 1
  <2>1. IsFiniteSet(s) /\ Cardinality(s) \in Nat
    BY FS_Subset, FS_CardinalityType
  <2>2. s # {} => Choice(s) \in s
    BY DEF Choice
  <2> QED
    BY <2>1, <2>2, FS_EmptySet, FS_RemoveElement
<1>2. 0 \notin Bad
  <2> DEFINE g == [s \in D(0) |-> 0]
  <2>1. ASSUME NEW s \in D(0) PROVE s = {}
    <3>1. s \in SUBSET S /\ Cardinality(s) <= 0
      OBVIOUS
    <3>2. Cardinality(s) \in Nat /\ (Cardinality(s) = 0 <=> s = {})
      BY <1>1, <3>1
    <3> HIDE DEF D, g
    <3> QED
      BY <3>1, <3>2
  <2>2. g = [s \in D(0) |-> IF s = {} THEN 0 ELSE w[Choice(s)] + g[s \ {Choice(s)}]]
    BY <2>1
  <2> QED
    BY <2>2 DEF SumsUp
<1>3. ASSUME NEW n \in Nat, n \notin Bad PROVE n + 1 \notin Bad
  <2>1. PICK g : SumsUp(g, D(n), w)
    BY <1>3
  <2> DEFINE h == [s \in D(n + 1) |->
                     IF s = {} THEN 0 ELSE w[Choice(s)] + g[s \ {Choice(s)}]]
  <2>2. \A s \in D(n) : s \in D(n + 1) /\ h[s] = g[s]
    <3>1. ASSUME NEW s \in D(n) PROVE s \in D(n + 1)
      <4>1. s \in SUBSET S /\ Cardinality(s) <= n
        OBVIOUS
      <4>2. Cardinality(s) \in Nat
        BY <1>1, <4>1
      <4>3. Cardinality(s) <= n + 1
        <5> HIDE DEF D, h
        <5> QED BY <4>1, <4>2
      <4> QED
        BY <4>1, <4>3
    <3>2. \A s \in D(n) : g[s] = IF s = {} THEN 0 ELSE w[Choice(s)] + g[s \ {Choice(s)}]
      BY <2>1 DEF SumsUp
    <3> QED
      BY <3>1, <3>2
  <2>3. \A s \in D(n + 1) : s # {} => s \ {Choice(s)} \in D(n)
    BY <1>1
  <2>4. \A s \in D(n + 1) :
          h[s] = IF s = {} THEN 0 ELSE w[Choice(s)] + h[s \ {Choice(s)}]
    BY <2>2, <2>3
  <2>5. h = [s \in D(n + 1) |-> IF s = {} THEN 0 ELSE w[Choice(s)] + h[s \ {Choice(s)}]]
    BY <2>4
  <2>6. SumsUp(h, D(n + 1), w)
    <3> HIDE DEF h, D
    <3> QED BY <2>5 DEF SumsUp
  <2> QED
    BY <2>6
<1>4. Bad = {}
  <2> SUFFICES ASSUME Bad # {} PROVE FALSE
    OBVIOUS
  <2>1. PICK k \in Bad : \A n \in Bad : k <= n
    <3>1. Bad \subseteq Nat
      OBVIOUS
    <3> HIDE DEF Bad
    <3> QED BY <3>1, LeastNumber
  <2>2. k \in Nat /\ k # 0
    BY <1>2
  <2>3. k - 1 \in Nat /\ k - 1 \notin Bad /\ (k - 1) + 1 = k
    <3> HIDE DEF Bad
    <3> QED BY <2>1, <2>2
  <2> HIDE DEF Bad
  <2> QED
    BY <1>3, <2>1, <2>3
<1>5. Cardinality(S) \in Nat /\ D(Cardinality(S)) = SUBSET S
  BY FS_Subset, FS_CardinalityType
<1> QED
  BY <1>4, <1>5

\* The defining equation of a sum.
LEMMA SumEquation ==
  ASSUME NEW S, IsFiniteSet(S), NEW w
  PROVE  SumFunctionOnSet(w, S) =
           IF S = {} THEN 0
           ELSE w[Choice(S)] + SumFunctionOnSet(w, S \ {Choice(S)})
<1> DEFINE g(T) == CHOOSE f : SumsUp(f, SUBSET T, w)
<1>1. ASSUME NEW T \in SUBSET S PROVE SumsUp(g(T), SUBSET T, w)
  <2>1. \E f : SumsUp(f, SUBSET T, w)
    BY FS_Subset, SumExists
  <2> QED
    BY <2>1
<1>2. ASSUME NEW T \in SUBSET S, NEW s \in SUBSET T
      PROVE  g(T)[s] = IF s = {} THEN 0 ELSE w[Choice(s)] + g(T)[s \ {Choice(s)}]
  <2>1. SumsUp(g(T), SUBSET T, w)
    BY <1>1
  <2> HIDE DEF g
  <2> QED
    BY <2>1 DEF SumsUp
<1>3. ASSUME NEW T \in SUBSET S PROVE SumFunctionOnSet(w, T) = g(T)[T]
  BY SumAsChoice
<1> HIDE DEF g
<1>4. CASE S = {}
  BY <1>2, <1>3, <1>4
<1>5. CASE S # {}
  <2> DEFINE T == S \ {Choice(S)}
             P == {s \in SUBSET T : g(S)[s] = g(T)[s]}
  <2>1. T \in SUBSET S /\ IsFiniteSet(T)
    BY FS_Subset
  <2>2. ASSUME NEW s \in SUBSET T, \A x \in s : s \ {x} \in P PROVE s \in P
    <3>1. /\ g(S)[s] = IF s = {} THEN 0 ELSE w[Choice(s)] + g(S)[s \ {Choice(s)}]
          /\ g(T)[s] = IF s = {} THEN 0 ELSE w[Choice(s)] + g(T)[s \ {Choice(s)}]
      BY <1>2, <2>1
    <3>2. s # {} => Choice(s) \in s
      BY DEF Choice
    <3> QED
      BY <2>2, <3>1, <3>2
  <2>3. \A s \in SUBSET T : s \in P
    <3>1. P \in SUBSET (SUBSET T)
      OBVIOUS
    <3> HIDE DEF P, T
    <3> QED BY <2>1, <2>2, <3>1, SetInduction
  <2>4. g(S)[T] = g(T)[T]
    BY <2>3
  <2>5. S \in SUBSET S
    OBVIOUS
  <2>6. g(S)[S] = w[Choice(S)] + g(S)[T]
    BY <1>2, <1>5, <2>5
  <2>7. SumFunctionOnSet(w, S) = g(S)[S] /\ SumFunctionOnSet(w, T) = g(T)[T]
    BY <1>3, <2>1, <2>5
  <2>8. SumFunctionOnSet(w, S) = w[Choice(S)] + SumFunctionOnSet(w, T)
    BY <2>4, <2>6, <2>7
  <2> QED
    BY <1>5, <2>8
<1> QED
  BY <1>4, <1>5

\* A sum of natural numbers is one.
LEMMA SumIsNatural ==
  ASSUME NEW S, IsFiniteSet(S), NEW w, \A x \in S : w[x] \in Nat
  PROVE  SumFunctionOnSet(w, S) \in Nat
<1> DEFINE P == {s \in SUBSET S : SumFunctionOnSet(w, s) \in Nat}
<1>1. ASSUME NEW s \in SUBSET S, \A x \in s : s \ {x} \in P PROVE s \in P
  <2>1. SumFunctionOnSet(w, s) =
           IF s = {} THEN 0 ELSE w[Choice(s)] + SumFunctionOnSet(w, s \ {Choice(s)})
    BY FS_Subset, SumEquation
  <2>2. s # {} => Choice(s) \in s
    BY DEF Choice
  <2> QED
    BY <1>1, <2>1, <2>2
<1>2. \A s \in SUBSET S : s \in P
  <2>1. P \in SUBSET (SUBSET S)
    OBVIOUS
  <2> HIDE DEF P
  <2> QED BY <1>1, <2>1, SetInduction
<1> QED
  BY <1>2

\* Of natural numbers, none is larger than their sum.
LEMMA SumHasParts ==
  ASSUME NEW S, IsFiniteSet(S), NEW w, \A x \in S : w[x] \in Nat, NEW y \in S
  PROVE  w[y] <= SumFunctionOnSet(w, S)
<1> DEFINE P == {s \in SUBSET S : y \in s => w[y] <= SumFunctionOnSet(w, s)}
<1>1. ASSUME NEW s \in SUBSET S, \A x \in s : s \ {x} \in P PROVE s \in P
  <2>1. SumFunctionOnSet(w, s) =
           IF s = {} THEN 0 ELSE w[Choice(s)] + SumFunctionOnSet(w, s \ {Choice(s)})
    BY FS_Subset, SumEquation
  <2>2. s # {} => Choice(s) \in s
    BY DEF Choice
  <2>3. SumFunctionOnSet(w, s \ {Choice(s)}) \in Nat
    BY FS_Subset, SumIsNatural
  <2> QED
    BY <1>1, <2>1, <2>2, <2>3
<1>2. \A s \in SUBSET S : s \in P
  <2>1. P \in SUBSET (SUBSET S)
    OBVIOUS
  <2> HIDE DEF P
  <2> QED BY <1>1, <2>1, SetInduction
<1> QED
  BY <1>2
=============================================================================
