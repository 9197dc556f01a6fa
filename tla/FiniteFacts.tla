----------------------------- MODULE FiniteFacts -----------------------------
(***************************************************************************)
(* What the proofs of this project use of numbers, finite sets, sums,      *)
(* orders, flattened lists and functions defined by repetition.  Induction *)
(* is stated for sets of numbers and of sets, because a property cannot be *)
(* passed to a lemma.                                                      *)
(***************************************************************************)
EXTENDS Ranking, SequencesExt, FiniteSetTheorems, WellFoundedInduction, TLAPS

LEMMA TimesNat == \A a, b \in Nat : a * b \in Nat
OBVIOUS

LEMMA TimesLe == \A a, b, c \in Nat : a <= b => a * c <= b * c
<1> SUFFICES ASSUME NEW a \in Nat, NEW b \in Nat, NEW c \in Nat, a <= b
             PROVE  a * c <= b * c
  OBVIOUS
<1>1. b - a \in Nat OBVIOUS
<1>2. (b - a) * c \in Nat BY <1>1, TimesNat
<1>3. (b - a) * c = b * c - a * c OBVIOUS
<1>4. a * c \in Int /\ b * c \in Int OBVIOUS
<1> QED BY <1>2, <1>3, <1>4

-----------------------------------------------------------------------------
(* Induction over numbers and over finite sets.                            *)

LEMMA LeastNat ==
    ASSUME NEW S, S \subseteq Nat, S # {}
    PROVE  \E m \in S : \A k \in S : m <= k
<1>. DEFINE R == {ss \in Nat \X Nat : ss[1] < ss[2]}
<1>1. IsWellFoundedOn(R, Nat)
  <2>1. OpToRel(<, Nat) = R
    BY DEF OpToRel
  <2>. QED BY <2>1, NatLessThanWellFounded
<1>2. PICK m \in S : \A k \in S : <<k, m>> \notin R
  <2>. HIDE DEF R
  <2>. QED BY <1>1, WFMin
<1>3. ASSUME NEW k \in S PROVE m <= k
  <2>1. m \in Nat /\ k \in Nat
    OBVIOUS
  <2>2. k < m => <<k, m>> \in R
    BY <2>1
  <2>. QED BY <1>2, <2>1, <2>2
<1>. QED BY <1>3

LEMMA NatInd ==
    ASSUME NEW S, 0 \in S, \A n \in Nat : n \in S => n + 1 \in S
    PROVE  Nat \subseteq S
<1>. SUFFICES ASSUME Nat \ S # {} PROVE FALSE
  OBVIOUS
<1>1. PICK m \in Nat \ S : \A k \in Nat \ S : m <= k
  BY LeastNat
<1>2. m # 0 /\ m - 1 \in Nat /\ m - 1 \in S
  BY <1>1
<1>. QED BY <1>1, <1>2

LEMMA OneLess ==
    ASSUME NEW T, IsFiniteSet(T), NEW x \in T
    PROVE  Cardinality(T) \in Nat /\ Cardinality(T \ {x}) = Cardinality(T) - 1
<1>1. Cardinality(T \ {x}) = IF x \in T THEN Cardinality(T) - 1 ELSE Cardinality(T)
  BY FS_RemoveElement, Zenon
<1>2. Cardinality(T) \in Nat
  BY FS_CardinalityType
<1>. QED BY <1>1, <1>2

(* Induction over the subsets of a finite set.                             *)
LEMMA SetInd ==
    ASSUME NEW S, IsFiniteSet(S), NEW U, {} \in U,
           \A T \in SUBSET S, x \in S : T \in U /\ x \notin T => T \union {x} \in U
    PROVE  S \in U
<1>. DEFINE N == {n \in Nat : \A T \in SUBSET S : Cardinality(T) = n => T \in U}
<1>1. \A T \in SUBSET S : IsFiniteSet(T) /\ Cardinality(T) \in Nat
  BY FS_Subset, FS_CardinalityType
<1>2. 0 \in N
  BY <1>1, FS_EmptySet
<1>3. ASSUME NEW n \in Nat, n \in N PROVE n + 1 \in N
  <2>. SUFFICES ASSUME NEW T \in SUBSET S, Cardinality(T) = n + 1 PROVE T \in U
    OBVIOUS
  <2>1. T # {}
    <3>1. Cardinality({}) = 0 /\ n + 1 # 0
      BY FS_EmptySet
    <3>. QED BY <3>1
  <2>2. PICK x \in T : TRUE
    BY <2>1
  <2>3. Cardinality(T \ {x}) = n
    <3>1. IsFiniteSet(T)
      BY <1>1
    <3>2. Cardinality(T \ {x}) = Cardinality(T) - 1
      BY <2>2, <3>1, OneLess
    <3>. QED BY <3>2
  <2>4. T \ {x} \in U
    BY <1>3, <2>3
  <2>5. (T \ {x}) \union {x} = T /\ T \ {x} \in SUBSET S /\ x \in S /\ x \notin T \ {x}
    OBVIOUS
  <2>. QED BY <2>4, <2>5
<1>4. Cardinality(S) \in N
  <2>. HIDE DEF N
  <2>. QED BY <1>1, <1>2, <1>3, NatInd
<1>. QED BY <1>4

-----------------------------------------------------------------------------
(* A sum, as the folds take it apart: an element at a time.                *)
Some(s) == CHOOSE x \in s : TRUE

Sums(f, S, sum) ==
    sum = [s \in SUBSET S |-> IF s = {} THEN 0 ELSE f[Some(s)] + sum[s \ {Some(s)}]]

LEMMA SomeIs == \A s : s # {} => Some(s) \in s
BY DEF Some

LEMMA SumFunctionIs ==
    ASSUME NEW f
    PROVE  SumFunction(f) = (CHOOSE sum : Sums(f, DOMAIN f, sum))[DOMAIN f]
BY DEF SumFunction, SumFunctionOnSet, FoldFunctionOnSet, MapThenFoldSet, Sums, Some

LEMMA SumsUnfold ==
    ASSUME NEW S, NEW f, NEW sum, Sums(f, S, sum)
    PROVE  /\ sum[{}] = 0
           /\ \A s \in SUBSET S : s # {} => sum[s] = f[Some(s)] + sum[s \ {Some(s)}]
<1>1. \A s \in SUBSET S : sum[s] = IF s = {} THEN 0 ELSE f[Some(s)] + sum[s \ {Some(s)}]
  BY Zenon DEF Sums
<1>2. {} \in SUBSET S
  OBVIOUS
<1>. QED BY <1>1, <1>2

LEMMA SumsExist ==
    ASSUME NEW S, IsFiniteSet(S), NEW f
    PROVE  \E sum : Sums(f, S, sum)
<1>. DEFINE Body(sum, s) == IF s = {} THEN 0 ELSE f[Some(s)] + sum[s \ {Some(s)}]
            Up(sum, n) == \A s \in SUBSET S : Cardinality(s) <= n => sum[s] = Body(sum, s)
            N == {n \in Nat : \E sum : sum = [s \in SUBSET S |-> sum[s]] /\ Up(sum, n)}
<1>1. \A s \in SUBSET S : IsFiniteSet(s) /\ Cardinality(s) \in Nat
  BY FS_Subset, FS_CardinalityType
<1>2. 0 \in N
  <2>. DEFINE z == [s \in SUBSET S |-> 0]
  <2>1. Up(z, 0)
    <3>1. \A s \in SUBSET S : Cardinality(s) <= 0 => s = {}
      BY <1>1, FS_EmptySet
    <3>. QED BY <3>1
  <2>2. z = [s \in SUBSET S |-> z[s]]
    OBVIOUS
  <2>. HIDE DEF Up, z
  <2>. QED BY <2>1, <2>2
<1>3. ASSUME NEW n \in Nat, n \in N PROVE n + 1 \in N
  <2>1. PICK sum : Up(sum, n)
    <3>. HIDE DEF Up
    <3>. QED BY <1>3
  <2>. DEFINE g == [s \in SUBSET S |-> Body(sum, s)]
  <2>2. ASSUME NEW s \in SUBSET S, Cardinality(s) <= n + 1 PROVE g[s] = Body(g, s)
    <3>1. CASE s = {}
      BY <3>1
    <3>2. CASE s # {}
      <4>1. Some(s) \in s
        BY <3>2, SomeIs
      <4>2. PICK r : r = s \ {Some(s)}
        OBVIOUS
      <4>3. r \in SUBSET S /\ Cardinality(r) <= n
        <5>1. IsFiniteSet(s) /\ Cardinality(s) \in Nat
          BY <1>1
        <5>2. Cardinality(s \ {Some(s)}) = Cardinality(s) - 1
          BY <4>1, <5>1, OneLess
        <5>3. r \in SUBSET S
          BY <4>2
        <5>. QED BY <4>2, <5>1, <5>2, <5>3, <2>2
      <4>4. sum[r] = Body(sum, r)
        BY <4>3, <2>1
      <4>5. g[r] = sum[r]
        BY <4>3, <4>4
      <4>6. g[s] = f[Some(s)] + sum[r]
        BY <3>2, <4>2
      <4>. HIDE DEF g
      <4>. QED BY <3>2, <4>2, <4>5, <4>6
    <3>. QED BY <3>1, <3>2
  <2>3. Up(g, n + 1)
    BY <2>2
  <2>4. g = [s \in SUBSET S |-> g[s]]
    OBVIOUS
  <2>. HIDE DEF Up, g
  <2>. QED BY <2>3, <2>4
<1>4. Cardinality(S) \in N
  <2>1. Cardinality(S) \in Nat
    BY <1>1
  <2>. HIDE DEF N
  <2>. QED BY <1>2, <1>3, NatInd, <2>1
<1>5. PICK sum : sum = [s \in SUBSET S |-> sum[s]] /\ Up(sum, Cardinality(S))
  <2>. HIDE DEF Up
  <2>. QED BY <1>4
<1>6. \A s \in SUBSET S : sum[s] = Body(sum, s)
  <2>1. \A s \in SUBSET S : Cardinality(s) <= Cardinality(S)
    BY FS_Subset
  <2>. QED BY <2>1, <1>5
<1>7. sum = [s \in SUBSET S |-> Body(sum, s)]
  <2>. HIDE DEF Body
  <2>1. [s \in SUBSET S |-> sum[s]] = [s \in SUBSET S |-> Body(sum, s)]
    BY <1>6, Zenon
  <2>. QED BY <1>5, <2>1, Zenon
<1>. QED BY <1>7 DEF Sums

(* Any element may be taken first.                                         *)
AnyFirst(f, S, sum) ==
    \A s \in SUBSET S : sum[s] \in Int /\ \A x \in s : sum[s] = f[x] + sum[s \ {x}]

LEMMA SumsAny ==
    ASSUME NEW S, IsFiniteSet(S), NEW f, \A x \in S : f[x] \in Int, NEW sum, Sums(f, S, sum)
    PROVE  AnyFirst(f, S, sum)
<1>. DEFINE Every(s) == sum[s] \in Int /\ \A x \in s : sum[s] = f[x] + sum[s \ {x}]
            N == {n \in Nat : \A s \in SUBSET S : Cardinality(s) <= n => Every(s)}
<1>1. \A s \in SUBSET S : IsFiniteSet(s) /\ Cardinality(s) \in Nat
  BY FS_Subset, FS_CardinalityType
<1>2. 0 \in N
  <2>1. Every({})
    BY SumsUnfold
  <2>2. \A s \in SUBSET S : Cardinality(s) <= 0 => s = {}
    BY <1>1, FS_EmptySet
  <2>. HIDE DEF Every
  <2>. QED BY <2>1, <2>2
<1>3. ASSUME NEW n \in Nat, n \in N PROVE n + 1 \in N
  <2>. SUFFICES ASSUME NEW s \in SUBSET S, Cardinality(s) = n + 1 PROVE Every(s)
    <3>. HIDE DEF Every
    <3>. QED BY <1>1, <1>3
  <2>1. s # {}
    <3>1. Cardinality({}) = 0 /\ n + 1 # 0
      BY FS_EmptySet
    <3>. QED BY <3>1
  <2>2. PICK p \in s : p = Some(s)
    BY <2>1, SomeIs
  <2>3. sum[s] = f[p] + sum[s \ {p}]
    BY <2>1, <2>2, SumsUnfold
  <2>4. \A x \in s : Every(s \ {x})
    <3>. SUFFICES ASSUME NEW x \in s PROVE Every(s \ {x})
      <4>. HIDE DEF Every
      <4>. QED OBVIOUS
    <3>1. IsFiniteSet(s)
      BY <1>1
    <3>2. Cardinality(s \ {x}) = Cardinality(s) - 1
      BY <3>1, OneLess
    <3>3. s \ {x} \in SUBSET S
      OBVIOUS
    <3>. HIDE DEF Every
    <3>. QED BY <3>2, <3>3, <1>3
  <2>5. ASSUME NEW x \in s PROVE sum[s] = f[x] + sum[s \ {x}]
    <3>1. CASE x = p
      BY <3>1, <2>3
    <3>2. CASE x # p
      <4>1. PICK r : r = (s \ {p}) \ {x}
        OBVIOUS
      <4>2. r = (s \ {x}) \ {p} /\ x \in s \ {p} /\ p \in s \ {x}
        BY <3>2, <4>1
      <4>3. sum[s \ {p}] = f[x] + sum[r]
        BY <2>4, <4>1, <4>2
      <4>4. sum[s \ {x}] = f[p] + sum[r] /\ sum[s \ {x}] \in Int
        BY <2>4, <4>2
      <4>5. sum[r] \in Int
        <5>1. r \in SUBSET S
          BY <4>1
        <5>2. Cardinality(r) <= n
          <6>1. IsFiniteSet(s) /\ IsFiniteSet(s \ {p})
            BY <1>1
          <6>2. Cardinality(s \ {p}) = n
            BY <6>1, OneLess
          <6>3. Cardinality(r) = n - 1
            BY <6>1, <6>2, <4>1, <4>2, OneLess
          <6>4. Cardinality(r) \in Nat
            BY <5>1, <1>1
          <6>. QED BY <6>3, <6>4
        <5>. QED BY <5>1, <5>2, <1>3
      <4>. QED BY <2>3, <4>3, <4>4, <4>5
    <3>. QED BY <3>1, <3>2
  <2>6. sum[s] \in Int
    <3>1. f[p] \in Int /\ sum[s \ {p}] \in Int
      BY <2>4
    <3>. QED BY <2>3, <3>1
  <2>. QED BY <2>5, <2>6
<1>. QED
  <2>. HIDE DEF N, Every
  <2>1. \A n \in Nat : n \in N
    BY <1>2, <1>3, NatInd
  <2>2. \A s \in SUBSET S : Every(s)
    BY <2>1, <1>1 DEF N
  <2>. QED BY <2>2 DEF Every, AnyFirst

(* The sum of f over S; f may be defined on more.                          *)
Sum(f, S) == (CHOOSE sum : Sums(f, S, sum))[S]

LEMMA SumIs ==
    ASSUME NEW S, IsFiniteSet(S), NEW f, \A x \in S : f[x] \in Int
    PROVE  /\ Sum(f, S) \in Int
           /\ Sum(f, {}) = 0
           /\ \A x \in S : Sum(f, S) = f[x] + Sum(f, S \ {x})
<1>1. ASSUME NEW T, IsFiniteSet(T) PROVE \E sum : Sums(f, T, sum) /\ Sum(f, T) = sum[T]
  BY <1>1, SumsExist, Zenon DEF Sum
<1>2. PICK sum : Sums(f, S, sum) /\ Sum(f, S) = sum[S]
  BY <1>1
<1>3. \A s \in SUBSET S : sum[s] \in Int /\ \A x \in s : sum[s] = f[x] + sum[s \ {x}]
  <2>1. AnyFirst(f, S, sum)
    BY <1>2, SumsAny, Zenon
  <2>. QED BY <2>1 DEF AnyFirst
<1>4. Sum(f, {}) = 0
  <2>1. PICK none : Sums(f, {}, none) /\ Sum(f, {}) = none[{}]
    BY <1>1, FS_EmptySet
  <2>. QED BY <2>1, SumsUnfold
<1>5. ASSUME NEW x \in S PROVE Sum(f, S \ {x}) = sum[S \ {x}]
  <2>. DEFINE R == S \ {x}
  <2>1. IsFiniteSet(R)
    BY FS_Subset
  <2>2. PICK less : Sums(f, R, less) /\ Sum(f, R) = less[R]
    BY <1>1, <2>1
  <2>3. \A s \in SUBSET R : less[s] \in Int /\ \A y \in s : less[s] = f[y] + less[s \ {y}]
    <3>1. \A y \in R : f[y] \in Int
      OBVIOUS
    <3>. HIDE DEF R
    <3>. QED BY <2>1, <2>2, <3>1, SumsAny DEF AnyFirst
  <2>. DEFINE U == {s \in SUBSET R : less[s] = sum[s]}
  <2>4. {} \in U
    BY <1>2, <2>2, SumsUnfold
  <2>5. ASSUME NEW T \in SUBSET R, NEW y \in R, T \in U, y \notin T PROVE T \union {y} \in U
    <3>1. PICK V : V = T \union {y}
      OBVIOUS
    <3>2. V \in SUBSET R /\ V \in SUBSET S /\ V \ {y} = T /\ y \in V
      BY <2>5, <3>1
    <3>3. less[V] = f[y] + less[V \ {y}] /\ sum[V] = f[y] + sum[V \ {y}]
      BY <3>2, <2>3, <1>3, Zenon
    <3>4. less[T] = sum[T]
      BY <2>5
    <3>5. less[V] = sum[V]
      BY <3>2, <3>3, <3>4, Zenon
    <3>6. V \in U
      BY <3>2, <3>5
    <3>. QED BY <3>1, <3>6
  <2>6. R \in U
    <3>. HIDE DEF R, U
    <3>. QED BY <2>1, <2>4, <2>5, SetInd
  <2>. QED BY <2>2, <2>6
<1>. QED BY <1>2, <1>3, <1>4, <1>5

LEMMA SumAdd ==
    ASSUME NEW S, IsFiniteSet(S), NEW f, NEW x, x \notin S, \A y \in S \union {x} : f[y] \in Int
    PROVE  Sum(f, S \union {x}) = f[x] + Sum(f, S)
<1>1. IsFiniteSet(S \union {x}) /\ (S \union {x}) \ {x} = S
  BY FS_AddElement
<1>. QED BY <1>1, SumIs

(* Equal terms have an equal sum.                                          *)
LEMMA SumSame ==
    ASSUME NEW S, IsFiniteSet(S), NEW f, NEW g, \A x \in S : f[x] \in Int /\ g[x] = f[x]
    PROVE  Sum(f, S) = Sum(g, S)
<1>. DEFINE U == {T \in SUBSET S : Sum(f, T) = Sum(g, T)}
<1>1. {} \in U
  BY SumIs, FS_EmptySet
<1>2. ASSUME NEW T \in SUBSET S, NEW x \in S, T \in U, x \notin T PROVE T \union {x} \in U
  <2>1. IsFiniteSet(T)
    BY FS_Subset
  <2>2. Sum(f, T \union {x}) = f[x] + Sum(f, T) /\ Sum(g, T \union {x}) = g[x] + Sum(g, T)
    BY <1>2, <2>1, SumAdd
  <2>. QED BY <1>2, <2>2
<1>. HIDE DEF U
<1>3. S \in U
  BY <1>1, <1>2, SetInd
<1>. QED BY <1>3 DEF U

LEMMA SumOfFunction ==
    ASSUME NEW f
    PROVE  SumFunction(f) = Sum(f, DOMAIN f)
BY SumFunctionIs DEF Sum

(* A sum over two sets, and one in which some terms are zero.              *)
LEMMA SumUnion ==
    ASSUME NEW S, IsFiniteSet(S), NEW T, IsFiniteSet(T), S \cap T = {},
           NEW f, \A x \in S \union T : f[x] \in Int
    PROVE  Sum(f, S \union T) = Sum(f, S) + Sum(f, T)
<1>. DEFINE U == {R \in SUBSET T : Sum(f, S \union R) = Sum(f, S) + Sum(f, R)}
<1>0. Sum(f, S) \in Int
  BY SumIs
<1>1. {} \in U
  <2>1. Sum(f, {}) = 0 /\ S \union {} = S
    BY SumIs
  <2>. QED BY <2>1, <1>0
<1>2. ASSUME NEW R \in SUBSET T, NEW x \in T, R \in U, x \notin R PROVE R \union {x} \in U
  <2>1. IsFiniteSet(R) /\ IsFiniteSet(S \union R)
    BY FS_Subset, FS_Union
  <2>2. Sum(f, R \union {x}) = f[x] + Sum(f, R)
    BY <1>2, <2>1, SumAdd
  <2>3. x \notin S \union R
    BY <1>2
  <2>4. Sum(f, (S \union R) \union {x}) = f[x] + Sum(f, S \union R)
    <3>1. \A y \in (S \union R) \union {x} : f[y] \in Int
      OBVIOUS
    <3>. QED BY <2>1, <2>3, <3>1, SumAdd
  <2>5. Sum(f, S \union (R \union {x})) = f[x] + Sum(f, S \union R)
    <3>1. (S \union R) \union {x} = S \union (R \union {x})
      OBVIOUS
    <3>. QED BY <2>4, <3>1, Zenon
  <2>8. Sum(f, S \union R) = Sum(f, S) + Sum(f, R)
    BY <1>2
  <2>6. Sum(f, R) \in Int /\ f[x] \in Int
    BY <2>1, SumIs
  <2>7. Sum(f, S \union (R \union {x})) = Sum(f, S) + Sum(f, R \union {x})
    BY <1>0, <2>2, <2>5, <2>6, <2>8
  <2>. QED BY <2>7
<1>. HIDE DEF U
<1>3. T \in U
  BY <1>1, <1>2, SetInd
<1>. QED BY <1>3 DEF U

LEMMA SumZero ==
    ASSUME NEW S, IsFiniteSet(S), NEW f, \A x \in S : f[x] = 0
    PROVE  Sum(f, S) = 0
<1>. DEFINE U == {T \in SUBSET S : Sum(f, T) = 0}
<1>1. {} \in U
  BY SumIs, FS_EmptySet
<1>2. ASSUME NEW T \in SUBSET S, NEW x \in S, T \in U, x \notin T PROVE T \union {x} \in U
  <2>1. IsFiniteSet(T)
    BY FS_Subset
  <2>2. Sum(f, T \union {x}) = f[x] + Sum(f, T)
    <3>1. \A y \in T \union {x} : f[y] \in Int
      OBVIOUS
    <3>. QED BY <1>2, <2>1, <3>1, SumAdd
  <2>. QED BY <1>2, <2>2
<1>. HIDE DEF U
<1>3. S \in U
  BY <1>1, <1>2, SetInd
<1>. QED BY <1>3 DEF U

LEMMA SumOfPart ==
    ASSUME NEW S, IsFiniteSet(S), NEW T \in SUBSET S, NEW f,
           \A x \in S : f[x] \in Int, \A x \in S \ T : f[x] = 0
    PROVE  Sum(f, S) = Sum(f, T)
<1>1. IsFiniteSet(T) /\ IsFiniteSet(S \ T) /\ S = T \union (S \ T) /\ T \cap (S \ T) = {}
  BY FS_Subset
<1>2. Sum(f, S \ T) = 0
  BY <1>1, SumZero
<1>3. Sum(f, T \union (S \ T)) = Sum(f, T) + Sum(f, S \ T)
  <2>1. \A x \in T \union (S \ T) : f[x] \in Int
    OBVIOUS
  <2>. QED BY <1>1, <2>1, SumUnion
<1>4. Sum(f, T) \in Int
  BY <1>1, SumIs
<1>5. Sum(f, T \union (S \ T)) = Sum(f, T)
  BY <1>2, <1>3, <1>4
<1>. QED BY <1>1, <1>5, Zenon

LEMMA SumDifference ==
    ASSUME NEW S, IsFiniteSet(S), NEW f, NEW g, NEW h,
           \A x \in S : f[x] \in Int /\ g[x] \in Int /\ h[x] = f[x] - g[x]
    PROVE  Sum(h, S) = Sum(f, S) - Sum(g, S)
<1>. DEFINE U == {T \in SUBSET S : Sum(h, T) = Sum(f, T) - Sum(g, T)}
<1>1. {} \in U
  BY SumIs, FS_EmptySet
<1>2. ASSUME NEW T \in SUBSET S, NEW x \in S, T \in U, x \notin T PROVE T \union {x} \in U
  <2>1. IsFiniteSet(T)
    BY FS_Subset
  <2>2. f[x] \in Int /\ g[x] \in Int /\ h[x] = f[x] - g[x] /\ Sum(f, T) \in Int /\ Sum(g, T) \in Int
    BY <2>1, SumIs
  <2>3. \A y \in T \union {x} : f[y] \in Int /\ g[y] \in Int /\ h[y] \in Int
    OBVIOUS
  <2>4. /\ Sum(f, T \union {x}) = f[x] + Sum(f, T) /\ Sum(g, T \union {x}) = g[x] + Sum(g, T)
        /\ Sum(h, T \union {x}) = h[x] + Sum(h, T)
    BY <1>2, <2>1, <2>3, SumAdd
  <2>5. Sum(h, T) = Sum(f, T) - Sum(g, T)
    BY <1>2
  <2>6. Sum(h, T \union {x}) = Sum(f, T \union {x}) - Sum(g, T \union {x})
    BY <2>2, <2>4, <2>5
  <2>. QED BY <2>6
<1>. HIDE DEF U
<1>3. S \in U
  BY <1>1, <1>2, SetInd
<1>. QED BY <1>3 DEF U

(* A sum over the sets of a family, of which no two meet.                  *)
LEMMA SumFamily ==
    ASSUME NEW K, IsFiniteSet(K), NEW D, \A k \in K : IsFiniteSet(D[k]),
           \A j, k \in K : j # k => D[j] \cap D[k] = {},
           NEW f, \A k \in K : \A x \in D[k] : f[x] \in Int
    PROVE  /\ IsFiniteSet(UNION {D[k] : k \in K})
           /\ Sum(f, UNION {D[k] : k \in K}) = Sum([k \in K |-> Sum(f, D[k])], K)
<1>. DEFINE g == [k \in K |-> Sum(f, D[k])]
            All(J) == UNION {D[k] : k \in J}
            U == {J \in SUBSET K : IsFiniteSet(All(J)) /\ Sum(f, All(J)) = Sum(g, J)}
<1>1. {} \in U
  <2>1. All({}) = {}
    OBVIOUS
  <2>2. IsFiniteSet({}) /\ Sum(f, {}) = 0 /\ Sum(g, {}) = 0
    BY FS_EmptySet, SumIs
  <2>. QED BY <2>1, <2>2
<1>2. ASSUME NEW J \in SUBSET K, NEW k \in K, J \in U, k \notin J PROVE J \union {k} \in U
  <2>1. All(J \union {k}) = All(J) \union D[k]
    OBVIOUS
  <2>2. All(J) \cap D[k] = {}
    <3>1. \A j \in J : D[j] \cap D[k] = {}
      BY <1>2
    <3>. QED BY <3>1
  <2>3. IsFiniteSet(All(J)) /\ Sum(f, All(J)) = Sum(g, J) /\ IsFiniteSet(D[k])
    BY <1>2
  <2>4. \A x \in All(J) \union D[k] : f[x] \in Int
    OBVIOUS
  <2>. HIDE DEF All
  <2>5. IsFiniteSet(All(J) \union D[k])
    BY <2>3, FS_Union
  <2>6. Sum(f, All(J) \union D[k]) = Sum(f, All(J)) + Sum(f, D[k])
    BY <2>2, <2>3, <2>4, SumUnion
  <2>7. Sum(g, J \union {k}) = g[k] + Sum(g, J)
    <3>1. IsFiniteSet(J)
      BY FS_Subset
    <3>2. \A j \in K : g[j] \in Int
      BY SumIs
    <3>3. \A j \in J \union {k} : g[j] \in Int
      BY <3>2
    <3>. HIDE DEF g
    <3>. QED BY <1>2, <3>1, <3>3, SumAdd
  <2>8. g[k] = Sum(f, D[k]) /\ Sum(f, D[k]) \in Int /\ Sum(f, All(J)) \in Int
    <3>1. g[k] = Sum(f, D[k])
      OBVIOUS
    <3>. QED BY <3>1, <2>3, <2>4, SumIs
  <2>9. Sum(f, All(J) \union D[k]) = Sum(g, J \union {k})
    <3>. HIDE DEF g
    <3>. QED BY <2>3, <2>6, <2>7, <2>8
  <2>. HIDE DEF g
  <2>. QED BY <2>1, <2>5, <2>9
<1>3. K \in U
  <2>. HIDE DEF U
  <2>. QED BY <1>1, <1>2, SetInd
<1>. QED BY <1>3

(* A sum of natural numbers, and of the same terms under other names.      *)
LEMMA SumNat ==
    ASSUME NEW S, IsFiniteSet(S), NEW f, \A x \in S : f[x] \in Nat
    PROVE  Sum(f, S) \in Nat
<1>. DEFINE U == {T \in SUBSET S : Sum(f, T) \in Nat}
<1>1. {} \in U
  BY SumIs, FS_EmptySet
<1>2. ASSUME NEW T \in SUBSET S, NEW x \in S, T \in U, x \notin T PROVE T \union {x} \in U
  <2>1. IsFiniteSet(T)
    BY FS_Subset
  <2>2. Sum(f, T \union {x}) = f[x] + Sum(f, T)
    <3>1. \A y \in T \union {x} : f[y] \in Int
      OBVIOUS
    <3>. QED BY <1>2, <2>1, <3>1, SumAdd
  <2>3. f[x] \in Nat /\ Sum(f, T) \in Nat
    BY <1>2
  <2>. QED BY <2>2, <2>3
<1>3. S \in U
  <2>. HIDE DEF U
  <2>. QED BY <1>1, <1>2, SetInd
<1>. QED BY <1>3

Renames(p, T, S) ==
    /\ p \in [T -> S]
    /\ \A x, y \in T : p[x] = p[y] => x = y
    /\ \A z \in S : \E x \in T : p[x] = z

LEMMA SumRenamed ==
    ASSUME NEW T, IsFiniteSet(T), NEW S, NEW p, Renames(p, T, S),
           NEW f, \A z \in S : f[z] \in Int, NEW g, \A x \in T : g[x] = f[p[x]]
    PROVE  IsFiniteSet(S) /\ Cardinality(S) = Cardinality(T) /\ Sum(f, S) = Sum(g, T)
<1>0. p \in [T -> S] /\ (\A x, y \in T : p[x] = p[y] => x = y) /\ \A z \in S : \E x \in T : p[x] = z
  BY DEF Renames
<1>. DEFINE At(R) == {p[x] : x \in R}
            U == {R \in SUBSET T : /\ IsFiniteSet(At(R)) /\ Sum(f, At(R)) = Sum(g, R)
                                  /\ Cardinality(At(R)) = Cardinality(R)}
<1>1. {} \in U
  <2>1. At({}) = {}
    OBVIOUS
  <2>2. IsFiniteSet({}) /\ Sum(f, {}) = 0 /\ Sum(g, {}) = 0
    BY SumIs, FS_EmptySet
  <2>. QED BY <2>1, <2>2
<1>2. ASSUME NEW R \in SUBSET T, NEW x \in T, R \in U, x \notin R PROVE R \union {x} \in U
  <2>1. At(R \union {x}) = At(R) \union {p[x]} /\ p[x] \notin At(R) /\ At(R) \subseteq S /\ p[x] \in S
    BY <1>0, <1>2
  <2>2. /\ IsFiniteSet(At(R)) /\ IsFiniteSet(R) /\ Sum(f, At(R)) = Sum(g, R)
        /\ Cardinality(At(R)) = Cardinality(R)
    BY <1>2, FS_Subset
  <2>. HIDE DEF At
  <2>3. IsFiniteSet(At(R) \union {p[x]})
    BY <2>2, FS_AddElement
  <2>7. Cardinality(At(R) \union {p[x]}) = Cardinality(R \union {x})
    <3>1. Cardinality(At(R) \union {p[x]}) = Cardinality(At(R)) + 1
      BY <2>1, <2>2, FS_AddElement
    <3>2. Cardinality(R \union {x}) = Cardinality(R) + 1
      BY <1>2, <2>2, FS_AddElement
    <3>. QED BY <2>2, <3>1, <3>2
  <2>4. Sum(f, At(R) \union {p[x]}) = f[p[x]] + Sum(f, At(R))
    BY <2>1, <2>2, SumAdd
  <2>5. Sum(g, R \union {x}) = g[x] + Sum(g, R)
    <3>1. \A y \in R \union {x} : g[y] \in Int
      BY <1>0, <2>1
    <3>. QED BY <1>2, <2>2, <3>1, SumAdd
  <2>6. g[x] = f[p[x]]
    OBVIOUS
  <2>. QED BY <2>1, <2>2, <2>3, <2>4, <2>5, <2>6, <2>7
<1>3. T \in U
  <2>. HIDE DEF U
  <2>. QED BY <1>1, <1>2, SetInd
<1>4. At(T) = S
  BY <1>0
<1>. QED BY <1>3, <1>4

-----------------------------------------------------------------------------
StrictOrder(S, R) ==
    /\ \A i \in S : <<i, i>> \notin R
    /\ \A i, j \in S : i # j => <<i, j>> \in R \/ <<j, i>> \in R
    /\ \A i, j, k \in S : <<i, j>> \in R /\ <<j, k>> \in R => <<i, k>> \in R

(* In a strict total order as many come before each one as have a place    *)
(* before it: each place has its one.                                      *)
LEMMA InOrderIs ==
    ASSUME NEW S, IsFiniteSet(S), NEW R, StrictOrder(S, R)
    PROVE  /\ Cardinality(S) \in Nat
           /\ InOrder(S, R) \in [1 .. Cardinality(S) -> S]
           /\ \A i \in S : \E a \in 1 .. Cardinality(S) : InOrder(S, R)[a] = i
           /\ \A a, b \in 1 .. Cardinality(S) :
                a < b => <<InOrder(S, R)[a], InOrder(S, R)[b]>> \in R
<1> DEFINE n == Cardinality(S)
           f == InOrder(S, R)
           Below(i) == {j \in S : <<j, i>> \in R}
           rank == [i \in S |-> Cardinality(Below(i)) + 1]
<1>1. n \in Nat BY FS_CardinalityType
<1>2. ASSUME NEW i \in S
      PROVE  /\ IsFiniteSet(Below(i))
             /\ Cardinality(Below(i)) \in 0 .. n - 1 /\ Cardinality(Below(i)) \in Nat
  <2>1. Below(i) \subseteq S /\ i \notin Below(i) BY DEF StrictOrder
  <2>2. PICK B : B = Below(i) OBVIOUS
  <2>3. IsFiniteSet(B) /\ Cardinality(B) <= n /\ (Cardinality(B) = n => B = S)
    BY <2>1, <2>2, FS_Subset
  <2>4. Cardinality(B) \in Nat BY <2>3, FS_CardinalityType
  <2>5. Cardinality(B) # n BY <2>1, <2>2, <2>3
  <2> QED BY <1>1, <2>2, <2>3, <2>4, <2>5
<1>3. ASSUME NEW i \in S, NEW j \in S, <<i, j>> \in R
      PROVE  Cardinality(Below(i)) < Cardinality(Below(j))
  <2>1. Below(i) \subseteq Below(j) /\ i \in Below(j) /\ i \notin Below(i)
    BY <1>3 DEF StrictOrder
  <2>2. PICK A, B : A = Below(i) /\ B = Below(j) OBVIOUS
  <2>3. IsFiniteSet(B) BY <1>2, <2>2
  <2>4. Cardinality(A) <= Cardinality(B) /\ (Cardinality(A) = Cardinality(B) => A = B)
    BY <2>1, <2>2, <2>3, FS_Subset
  <2>5. Cardinality(A) \in Nat /\ Cardinality(B) \in Nat BY <1>2, <2>2
  <2>6. A # B BY <2>1, <2>2
  <2> QED BY <2>2, <2>4, <2>5, <2>6
<1>4. \A i \in S : rank[i] \in 1 .. n /\ rank[i] = Cardinality(Below(i)) + 1
  <2> TAKE i \in S
  <2>1. PICK c : c = Cardinality(Below(i)) OBVIOUS
  <2>2. c \in 0 .. n - 1 BY <1>2, <2>1
  <2>3. rank[i] = c + 1 BY <2>1
  <2> QED BY <1>1, <2>1, <2>2, <2>3
<1>5. \A i, j \in S : i # j => rank[i] # rank[j]
  <2> SUFFICES ASSUME NEW i \in S, NEW j \in S, <<i, j>> \in R PROVE rank[i] < rank[j] /\ rank[i] # rank[j]
    BY DEF StrictOrder
  <2>1. PICK c, d : c = Cardinality(Below(i)) /\ d = Cardinality(Below(j)) OBVIOUS
  <2>2. c \in Nat /\ d \in Nat BY <1>2, <2>1
  <2>3. c < d
    <3>1. Cardinality(Below(i)) < Cardinality(Below(j)) BY <1>3
    <3> QED BY <2>1, <3>1
  <2>4. rank[i] = c + 1 /\ rank[j] = d + 1 BY <1>4, <2>1
  <2> QED BY <2>2, <2>3, <2>4
<1>6. \A a \in 1 .. n : \E i \in S : rank[i] = a
  <2> HIDE DEF rank
  <2>1. IsFiniteSet(1 .. n) /\ Cardinality(1 .. n) = n
    <3>1. 1 \in Int /\ n \in Int BY <1>1
    <3>2. Cardinality(1 .. n) = IF 1 > n THEN 0 ELSE n - 1 + 1 BY <3>1, FS_Interval
    <3> QED BY <1>1, <3>1, <3>2, FS_Interval
  <2>2. DOMAIN rank = S BY DEF rank
  <2>3. rank \in Injection(S, 1 .. n)
    <3>1. rank \in [S -> 1 .. n]
      <4>1. rank = [i \in S |-> rank[i]] BY DEF rank
      <4> QED BY <1>4, <4>1
    <3> QED BY <1>5, <3>1 DEF Injection, IsInjective
  <2>4. rank \in Surjection(S, 1 .. n)
    <3> HIDE DEF n
    <3>1. PICK T : T = 1 .. n OBVIOUS
    <3>2. Cardinality(S) = Cardinality(T) /\ IsFiniteSet(T) /\ rank \in Injection(S, T)
      BY <2>1, <2>3, <3>1 DEF n
    <3>3. rank \in Surjection(S, T) BY <3>2, FS_Injection
    <3> QED BY <3>1, <3>3
  <2> QED BY <2>4 DEF Surjection
<1>7. ASSUME NEW a \in 1 .. n
      PROVE  f[a] \in S /\ Cardinality(Below(f[a])) = a - 1
  <2>1. PICK i \in S : rank[i] = a BY <1>6
  <2>2. Cardinality(Below(i)) = a - 1
    <3>1. PICK c : c = Cardinality(Below(i)) OBVIOUS
    <3>2. c \in Nat BY <1>1, <1>2, <3>1
    <3>3. c + 1 = a BY <1>4, <2>1, <3>1
    <3> QED BY <3>1, <3>2, <3>3
  <2>3. f[a] = CHOOSE x \in S : Cardinality({j \in S : <<j, x>> \in R}) = a - 1
    BY <1>7 DEF InOrder
  <2> QED BY <2>2, <2>3
<1>8. f \in [1 .. n -> S]
  <2> DEFINE g(k) == CHOOSE i \in S : Cardinality({j \in S : <<j, i>> \in R}) = k - 1
  <2>1. f = [k \in 1 .. n |-> g(k)] BY DEF InOrder
  <2> HIDE DEF f, g
  <2>2. \A k \in 1 .. n : f[k] = g(k) BY <2>1
  <2>3. \A k \in 1 .. n : g(k) \in S BY <1>7, <2>2
  <2> QED BY <2>1, <2>3
<1>9. ASSUME NEW i \in S PROVE \E a \in 1 .. n : f[a] = i
  <2>1. rank[i] \in 1 .. n BY <1>4
  <2>2. PICK a \in 1 .. n : a = rank[i] BY <2>1
  <2>3. f[a] \in S /\ Cardinality(Below(f[a])) = a - 1 BY <1>7
  <2> HIDE DEF f
  <2>4. PICK x \in S : x = f[a] BY <2>3
  <2>5. PICK c, d : c = Cardinality(Below(x)) /\ d = Cardinality(Below(i)) OBVIOUS
  <2>6. c = a - 1 /\ d + 1 = a /\ d \in Nat
    <3>1. c = a - 1 BY <2>3, <2>4, <2>5
    <3>2. d \in Nat BY <1>2, <2>5
    <3>3. d + 1 = a BY <1>4, <2>2, <2>5
    <3> QED BY <3>1, <3>2, <3>3
  <2>7. rank[x] = c + 1 BY <1>4, <2>5
  <2>8. rank[x] = rank[i] BY <1>1, <2>2, <2>6, <2>7
  <2> HIDE DEF rank
  <2> QED BY <1>5, <2>4, <2>8
<1>10. ASSUME NEW a \in 1 .. n, NEW b \in 1 .. n, a < b PROVE <<f[a], f[b]>> \in R
  <2>1. PICK x \in S, y \in S : x = f[a] /\ y = f[b] BY <1>7
  <2>2. PICK c, d : c = Cardinality(Below(x)) /\ d = Cardinality(Below(y)) OBVIOUS
  <2>3. c = a - 1 /\ d = b - 1 BY <1>7, <2>1, <2>2
  <2>4. c < d BY <1>1, <1>10, <2>3
  <2>5. x # y
    <3>1. x = y => c = d BY <2>2, Zenon
    <3> QED BY <1>1, <2>3, <2>4, <3>1
  <2>6. ~(<<y, x>> \in R)
    <3> SUFFICES ASSUME <<y, x>> \in R PROVE FALSE OBVIOUS
    <3>1. d < c BY <1>3, <2>2
    <3> QED BY <1>1, <2>3, <2>4, <3>1
  <2> HIDE DEF f
  <2> QED BY <2>1, <2>5, <2>6 DEF StrictOrder
<1> QED BY <1>1, <1>8, <1>9, <1>10
-----------------------------------------------------------------------------
(* A sequence of sequences, one behind the other.                          *)
LEMMA FlattenUnfold ==
    ASSUME NEW ss, Len(ss) # 0
    PROVE  FlattenSeq(ss) =
             (CHOOSE f : f = [i \in 1 .. Len(ss) |->
                                IF i = 1 THEN ss[i] ELSE f[i - 1] \o ss[i]])[Len(ss)]
BY DEF FlattenSeq

Unfolds(f, ss, n) == f = [i \in 1 .. n |-> IF i = 1 THEN ss[i] ELSE f[i - 1] \o ss[i]]

(* It is defined for every list.                                           *)
LEMMA UnfoldExists ==
    ASSUME NEW T, NEW ss \in Seq(Seq(T))
    PROVE  \E f : Unfolds(f, ss, Len(ss))
<1>. DEFINE S == {n \in Nat : n <= Len(ss) => \E f : Unfolds(f, ss, n)}
<1>1. Len(ss) \in Nat
  OBVIOUS
<1>2. 0 \in S
  <2>1. Unfolds([i \in 1 .. 0 |-> <<>>], ss, 0)
    BY DEF Unfolds
  <2>. QED BY <2>1
<1>3. ASSUME NEW n \in Nat, n \in S PROVE n + 1 \in S
  <2>. SUFFICES ASSUME n + 1 <= Len(ss) PROVE \E f : Unfolds(f, ss, n + 1)
    OBVIOUS
  <2>1. PICK f : Unfolds(f, ss, n)
    BY <1>1, <1>3
  <2>. DEFINE g == [i \in 1 .. n + 1 |-> IF i <= n THEN f[i]
                      ELSE IF i = 1 THEN ss[i] ELSE f[i - 1] \o ss[i]]
              h == [i \in 1 .. n + 1 |-> IF i = 1 THEN ss[i] ELSE g[i - 1] \o ss[i]]
  <2>2. ASSUME NEW i \in 1 .. n + 1 PROVE g[i] = h[i]
    <3>1. i # 1 => i - 1 \in 1 .. n
      OBVIOUS
    <3>2. g[i] = IF i <= n THEN f[i] ELSE IF i = 1 THEN ss[i] ELSE f[i - 1] \o ss[i]
      OBVIOUS
    <3>3. h[i] = IF i = 1 THEN ss[i] ELSE g[i - 1] \o ss[i]
      BY Zenon
    <3>4. i # 1 => g[i - 1] = f[i - 1]
      BY <3>1
    <3>5. i <= n => f[i] = IF i = 1 THEN ss[i] ELSE f[i - 1] \o ss[i]
      <4>. SUFFICES ASSUME i <= n PROVE f[i] = IF i = 1 THEN ss[i] ELSE f[i - 1] \o ss[i]
        OBVIOUS
      <4>1. i \in 1 .. n
        OBVIOUS
      <4>. QED BY <2>1, <4>1, Zenon DEF Unfolds
    <3>. HIDE DEF g, h
    <3>. QED BY <3>2, <3>3, <3>4, <3>5
  <2>3. g = h
    <3>1. g = [i \in 1 .. n + 1 |-> g[i]] /\ h = [i \in 1 .. n + 1 |-> h[i]]
      OBVIOUS
    <3>. HIDE DEF g, h
    <3>. QED BY <2>2, <3>1
  <2>4. Unfolds(g, ss, n + 1)
    BY <2>3, Zenon DEF Unfolds
  <2>. QED BY <2>4
<1>4. Len(ss) \in S
  <2>. HIDE DEF S
  <2>. QED BY <1>1, <1>2, <1>3, NatInd
<1>. QED BY <1>4

(* The sequences joined so far, one more with every step.                  *)
Joins(d, ss) ==
    /\ d[1] = ss[1]
    /\ \A n \in 1 .. Len(ss) : n + 1 <= Len(ss) => d[n + 1] = d[n] \o ss[n + 1]

(* It joins the lists one after the other,                                 *)
LEMMA FlattenJoins ==
    ASSUME NEW T, NEW ss \in Seq(Seq(T)), Len(ss) # 0
    PROVE  \E d : FlattenSeq(ss) = d[Len(ss)] /\ Joins(d, ss)
<1>. DEFINE Good(f) == f = [i \in 1 .. Len(ss) |-> IF i = 1 THEN ss[i] ELSE f[i - 1] \o ss[i]]
            c == CHOOSE f : Good(f)
<1>1. \E f : Good(f)
  BY UnfoldExists, Zenon DEF Unfolds
<1>2. Good(c)
  <2>. HIDE DEF Good
  <2>. QED BY <1>1, Zenon
<1>3. PICK d : d = c
  OBVIOUS
<1>4. FlattenSeq(ss) = d[Len(ss)]
  BY <1>3, FlattenUnfold, Zenon
<1>5. d = [i \in 1 .. Len(ss) |-> IF i = 1 THEN ss[i] ELSE d[i - 1] \o ss[i]]
  <2>. HIDE DEF c
  <2>. QED BY <1>2, <1>3, Zenon
<1>. HIDE DEF c, Good
<1>6. \A i \in 1 .. Len(ss) : d[i] = IF i = 1 THEN ss[i] ELSE d[i - 1] \o ss[i]
  BY <1>5, Zenon
<1>7. Len(ss) \in Nat /\ 1 \in 1 .. Len(ss)
  OBVIOUS
<1>8. ASSUME NEW n \in 1 .. Len(ss), n + 1 <= Len(ss) PROVE d[n + 1] = d[n] \o ss[n + 1]
  <2>1. PICK m : m = n + 1
    OBVIOUS
  <2>2. m \in 1 .. Len(ss) /\ m # 1 /\ m - 1 = n
    BY <1>7, <1>8, <2>1
  <2>3. d[m] = d[m - 1] \o ss[m]
    BY <1>6, <2>2, Zenon
  <2>. QED BY <2>1, <2>2, <2>3, Zenon
<1>9. Joins(d, ss)
  BY <1>6, <1>7, <1>8, Zenon DEF Joins
<1>. QED BY <1>4, <1>9, Zenon

(* each time to a list of the same kind.                                   *)
LEMMA JoinsIs ==
    ASSUME NEW T, NEW ss \in Seq(Seq(T)), NEW d, Joins(d, ss)
    PROVE  \A n \in 1 .. Len(ss) : d[n] \in Seq(T)
<1>. DEFINE D == {n \in Nat : n + 1 <= Len(ss) => d[n + 1] \in Seq(T)}
<1>1. Len(ss) \in Nat /\ \A i \in 1 .. Len(ss) : ss[i] \in Seq(T)
  OBVIOUS
<1>2. 0 \in D
  BY <1>1 DEF Joins
<1>3. ASSUME NEW n \in Nat, n \in D PROVE n + 1 \in D
  <2>. SUFFICES ASSUME n + 1 + 1 <= Len(ss) PROVE d[n + 1 + 1] \in Seq(T)
    OBVIOUS
  <2>1. PICK m : m = n + 1
    OBVIOUS
  <2>2. m \in 1 .. Len(ss) /\ m + 1 \in 1 .. Len(ss) /\ m + 1 <= Len(ss)
    BY <1>1, <2>1
  <2>3. d[m + 1] = d[m] \o ss[m + 1]
    BY <2>2 DEF Joins
  <2>4. d[m] \in Seq(T) /\ ss[m + 1] \in Seq(T)
    BY <1>1, <1>3, <2>1, <2>2
  <2>5. \A x, y \in Seq(T) : x \o y \in Seq(T)
    OBVIOUS
  <2>. QED BY <2>1, <2>3, <2>4, <2>5, Zenon
<1>4. \A n \in Nat : n \in D
  <2>. HIDE DEF D
  <2>. QED BY <1>2, <1>3, NatInd
<1>5. ASSUME NEW n \in 1 .. Len(ss) PROVE d[n] \in Seq(T)
  <2>1. n - 1 \in Nat /\ n - 1 + 1 = n /\ n <= Len(ss)
    BY <1>1
  <2>2. n - 1 \in D
    BY <1>4, <2>1
  <2>. QED BY <2>1, <2>2
<1>. QED BY <1>5

(* Nothing is made of nothing.                                             *)
LEMMA FlattenNone ==
    ASSUME NEW T, NEW ss \in Seq(Seq(T)), Len(ss) = 0
    PROVE  FlattenSeq(ss) = <<>>
BY DEF FlattenSeq

(* It is a sequence of the same elements.                                  *)
LEMMA FlattenIs ==
    ASSUME NEW T, NEW ss \in Seq(Seq(T))
    PROVE  FlattenSeq(ss) \in Seq(T)
<1>1. CASE Len(ss) = 0
  <2>1. FlattenSeq(ss) = <<>>
    BY <1>1, FlattenNone
  <2>. QED BY <2>1
<1>2. CASE Len(ss) # 0
  <2>1. PICK d : FlattenSeq(ss) = d[Len(ss)] /\ Joins(d, ss)
    BY <1>2, FlattenJoins
  <2>2. Len(ss) \in 1 .. Len(ss)
    BY <1>2
  <2>. QED BY <2>1, <2>2, JoinsIs, Zenon
<1>. QED BY <1>1, <1>2

(* Sequences of the same length, whose elements are related.               *)
Pairwise(R, s, t) == Len(s) = Len(t) /\ \A j \in 1 .. Len(s) : <<s[j], t[j]>> \in R

(* What agrees pairwise agrees when it is joined,                          *)
LEMMA PairwiseJoined ==
    ASSUME NEW T, NEW U, NEW R, NEW s \in Seq(T), NEW t \in Seq(U), Pairwise(R, s, t),
           NEW v \in Seq(T), NEW w \in Seq(U), Pairwise(R, v, w)
    PROVE  Pairwise(R, s \o v, t \o w)
<1>1. /\ Len(s) \in Nat /\ Len(v) \in Nat /\ Len(t) = Len(s) /\ Len(w) = Len(v)
      /\ Len(s \o v) = Len(s) + Len(v) /\ Len(t \o w) = Len(s) + Len(v)
  <2>1. Len(t) = Len(s) /\ Len(w) = Len(v)
    BY DEF Pairwise
  <2>2. Len(s \o v) = Len(s) + Len(v) /\ Len(t \o w) = Len(t) + Len(w)
    OBVIOUS
  <2>. QED BY <2>1, <2>2
<1>2. ASSUME NEW j \in 1 .. Len(s) + Len(v) PROVE <<(s \o v)[j], (t \o w)[j]>> \in R
  <2>1. CASE j <= Len(s)
    <3>1. (s \o v)[j] = s[j] /\ (t \o w)[j] = t[j]
      BY <1>1, <2>1
    <3>2. j \in 1 .. Len(s)
      BY <1>1, <2>1
    <3>. QED BY <3>1, <3>2 DEF Pairwise
  <2>2. CASE j > Len(s)
    <3>1. (s \o v)[j] = v[j - Len(s)] /\ (t \o w)[j] = w[j - Len(s)]
      BY <1>1, <2>2
    <3>2. j - Len(s) \in 1 .. Len(v)
      BY <1>1, <2>2
    <3>3. <<v[j - Len(s)], w[j - Len(s)]>> \in R
      BY <3>2 DEF Pairwise
    <3>. QED BY <3>1, <3>3
  <2>3. j <= Len(s) \/ j > Len(s)
    BY <1>1
  <2>. QED BY <2>1, <2>2, <2>3
<1>. QED BY <1>1, <1>2 DEF Pairwise

(* and when it is flattened.                                               *)
LEMMA FlattenPairwise ==
    ASSUME NEW T, NEW U, NEW R, NEW ss \in Seq(Seq(T)), NEW ts \in Seq(Seq(U)), Len(ss) = Len(ts),
           \A i \in 1 .. Len(ss) : Pairwise(R, ss[i], ts[i])
    PROVE  Pairwise(R, FlattenSeq(ss), FlattenSeq(ts))
<1>1. CASE Len(ss) = 0
  <2>1. FlattenSeq(ss) = <<>> /\ FlattenSeq(ts) = <<>>
    BY <1>1, FlattenNone
  <2>. QED BY <2>1 DEF Pairwise
<1>2. CASE Len(ss) # 0
  <2>1. PICK d : FlattenSeq(ss) = d[Len(ss)] /\ Joins(d, ss)
    BY <1>2, FlattenJoins
  <2>2. PICK e : FlattenSeq(ts) = e[Len(ts)] /\ Joins(e, ts)
    BY <1>2, FlattenJoins
  <2>3. /\ \A n \in 1 .. Len(ss) : d[n] \in Seq(T) /\ ss[n] \in Seq(T)
        /\ \A n \in 1 .. Len(ss) : e[n] \in Seq(U) /\ ts[n] \in Seq(U)
    <3>1. \A n \in 1 .. Len(ss) : d[n] \in Seq(T)
      BY <2>1, JoinsIs
    <3>2. \A n \in 1 .. Len(ts) : e[n] \in Seq(U)
      BY <2>2, JoinsIs
    <3>. QED BY <3>1, <3>2
  <2>4. Len(ss) \in Nat
    OBVIOUS
  <2>. DEFINE D == {n \in Nat : n + 1 <= Len(ss) => Pairwise(R, d[n + 1], e[n + 1])}
  <2>5. 0 \in D
    <3>1. 0 + 1 = 1 /\ (1 <= Len(ss) => 1 \in 1 .. Len(ss))
      BY <2>4
    <3>2. d[1] = ss[1] /\ e[1] = ts[1]
      BY <2>1, <2>2 DEF Joins
    <3>. QED BY <3>1, <3>2
  <2>6. ASSUME NEW n \in Nat, n \in D PROVE n + 1 \in D
    <3>. SUFFICES ASSUME n + 1 + 1 <= Len(ss) PROVE Pairwise(R, d[n + 1 + 1], e[n + 1 + 1])
      OBVIOUS
    <3>1. PICK m : m = n + 1
      OBVIOUS
    <3>2. m \in 1 .. Len(ss) /\ m + 1 \in 1 .. Len(ss) /\ m + 1 <= Len(ss)
      BY <2>4, <3>1
    <3>3. d[m + 1] = d[m] \o ss[m + 1]
      BY <2>1, <3>2, Zenon DEF Joins
    <3>4. e[m + 1] = e[m] \o ts[m + 1]
      BY <2>2, <3>2, Zenon DEF Joins
    <3>5. Pairwise(R, d[m], e[m])
      BY <2>6, <3>1, <3>2
    <3>6. Pairwise(R, ss[m + 1], ts[m + 1])
      BY <3>2
    <3>7. Pairwise(R, d[m] \o ss[m + 1], e[m] \o ts[m + 1])
      BY <2>3, <3>2, <3>5, <3>6, PairwiseJoined
    <3>. QED BY <3>1, <3>3, <3>4, <3>7, Zenon
  <2>7. Len(ss) - 1 \in D
    <3>1. Len(ss) - 1 \in Nat
      BY <1>2, <2>4
    <3>. HIDE DEF D
    <3>. QED BY <2>5, <2>6, <3>1, NatInd
  <2>8. Len(ss) - 1 + 1 = Len(ss) /\ Len(ss) <= Len(ss)
    BY <2>4
  <2>9. Pairwise(R, d[Len(ss)], e[Len(ss)])
    BY <2>7, <2>8
  <2>. QED BY <2>1, <2>2, <2>9, Zenon
<1>. QED BY <1>1, <1>2

(* Nothing is lost.                                                        *)
LEMMA FlattenHas ==
    ASSUME NEW T, NEW ss \in Seq(Seq(T)), NEW i \in 1 .. Len(ss), NEW j \in 1 .. Len(ss[i])
    PROVE  \E k \in 1 .. Len(FlattenSeq(ss)) : FlattenSeq(ss)[k] = ss[i][j]
<1>. DEFINE Has(s) == \E k \in 1 .. Len(s) : s[k] = ss[i][j]
<1>0. Len(ss) \in Nat /\ Len(ss) # 0 /\ i \in Nat /\ 1 <= i /\ i <= Len(ss)
  OBVIOUS
<1>1. PICK d : FlattenSeq(ss) = d[Len(ss)] /\ Joins(d, ss)
  BY <1>0, FlattenJoins
<1>2. \A n \in 1 .. Len(ss) : d[n] \in Seq(T) /\ ss[n] \in Seq(T)
  <2>1. \A n \in 1 .. Len(ss) : d[n] \in Seq(T)
    BY <1>1, JoinsIs
  <2>. QED BY <2>1
<1>3. ASSUME NEW s \in Seq(T), NEW t \in Seq(T), Has(s) \/ Has(t) PROVE Has(s \o t)
  <2>1. Len(s) \in Nat /\ Len(t) \in Nat /\ Len(s \o t) = Len(s) + Len(t)
    OBVIOUS
  <2>2. CASE Has(s)
    <3>1. PICK k \in 1 .. Len(s) : s[k] = ss[i][j]
      BY <2>2
    <3>2. (s \o t)[k] = s[k] /\ k \in 1 .. Len(s) + Len(t)
      BY <2>1
    <3>. QED BY <2>1, <3>1, <3>2
  <2>3. CASE Has(t)
    <3>1. PICK k \in 1 .. Len(t) : t[k] = ss[i][j]
      BY <2>3
    <3>2. (s \o t)[k + Len(s)] = t[k] /\ k + Len(s) \in 1 .. Len(s) + Len(t)
      BY <2>1
    <3>. QED BY <2>1, <3>1, <3>2
  <2>. QED BY <1>3, <2>2, <2>3
<1>4. Has(ss[i])
  OBVIOUS
<1>. HIDE DEF Has
<1>. DEFINE D == {n \in Nat : i <= n + 1 /\ n + 1 <= Len(ss) => Has(d[n + 1])}
<1>5. 0 \in D
  <2>1. i <= 0 + 1 => d[0 + 1] = ss[i]
    BY <1>0, <1>1 DEF Joins
  <2>. QED BY <2>1, <1>4
<1>6. ASSUME NEW n \in Nat, n \in D PROVE n + 1 \in D
  <2>. SUFFICES ASSUME i <= n + 1 + 1, n + 1 + 1 <= Len(ss) PROVE Has(d[n + 1 + 1])
    OBVIOUS
  <2>1. PICK m : m = n + 1
    OBVIOUS
  <2>2. m \in 1 .. Len(ss) /\ m + 1 \in 1 .. Len(ss) /\ m + 1 <= Len(ss) /\ (i <= m \/ i = m + 1)
    BY <1>0, <2>1
  <2>3. d[m + 1] = d[m] \o ss[m + 1]
    BY <1>1, <2>2, Zenon DEF Joins
  <2>4. Has(d[m]) \/ Has(ss[m + 1])
    <3>1. CASE i <= m
      <4>1. i <= n + 1 /\ n + 1 <= Len(ss)
        BY <3>1, <2>1, <2>2
      <4>2. Has(d[n + 1])
        BY <1>6, <4>1
      <4>. QED BY <4>2, <2>1
    <3>2. CASE i = m + 1
      BY <3>2, <1>4
    <3>. QED BY <2>2, <3>1, <3>2
  <2>5. Has(d[m] \o ss[m + 1])
    BY <1>2, <1>3, <2>2, <2>4, Zenon
  <2>. QED BY <2>1, <2>3, <2>5, Zenon
<1>7. Len(ss) - 1 \in D
  <2>1. Len(ss) - 1 \in Nat
    BY <1>0
  <2>. HIDE DEF D
  <2>. QED BY <1>5, <1>6, <2>1, NatInd
<1>8. Has(d[Len(ss)])
  <2>1. Len(ss) - 1 + 1 = Len(ss) /\ i <= Len(ss) /\ Len(ss) <= Len(ss)
    BY <1>0
  <2>. QED BY <1>7, <2>1
<1>. QED BY <1>1, <1>8 DEF Has

(* When all but one are empty it is that one.                              *)
LEMMA FlattenOne ==
    ASSUME NEW T, NEW ss \in Seq(Seq(T)), NEW i \in 1 .. Len(ss),
           \A j \in 1 .. Len(ss) : j # i => ss[j] = <<>>
    PROVE  FlattenSeq(ss) = ss[i]
<1>. DEFINE Is(n) == IF n < i THEN <<>> ELSE ss[i]
<1>0. Len(ss) \in Nat /\ Len(ss) # 0 /\ i \in Nat /\ 1 <= i /\ i <= Len(ss) /\ ss[i] \in Seq(T)
  OBVIOUS
<1>1. PICK d : FlattenSeq(ss) = d[Len(ss)] /\ Joins(d, ss)
  BY <1>0, FlattenJoins
<1>2. \A s \in Seq(T) : s \o <<>> = s /\ <<>> \o s = s
  OBVIOUS
<1>3. <<>> \in Seq(T)
  OBVIOUS
<1>. DEFINE D == {n \in Nat : n + 1 <= Len(ss) => d[n + 1] = Is(n + 1)}
<1>4. 0 \in D
  <2>1. d[0 + 1] = ss[1]
    BY <1>1 DEF Joins
  <2>2. ss[1] = IF 1 < i THEN <<>> ELSE ss[i]
    BY <1>0
  <2>. QED BY <2>1, <2>2
<1>5. ASSUME NEW n \in Nat, n \in D PROVE n + 1 \in D
  <2>. SUFFICES ASSUME n + 1 + 1 <= Len(ss) PROVE d[n + 1 + 1] = Is(n + 1 + 1)
    OBVIOUS
  <2>1. PICK m : m = n + 1
    OBVIOUS
  <2>2. m \in 1 .. Len(ss) /\ m + 1 \in 1 .. Len(ss) /\ m + 1 <= Len(ss)
    BY <1>0, <2>1
  <2>3. d[m + 1] = d[m] \o ss[m + 1]
    BY <1>1, <2>2, Zenon DEF Joins
  <2>4. d[m] = Is(m)
    BY <1>5, <2>1, <2>2
  <2>5. CASE m + 1 < i
    <3>1. d[m] = <<>> /\ ss[m + 1] = <<>> /\ Is(m + 1) = <<>>
      BY <1>0, <2>2, <2>4, <2>5
    <3>. QED BY <1>2, <1>3, <2>1, <2>3, <3>1
  <2>6. CASE m + 1 = i
    <3>1. d[m] = <<>> /\ ss[m + 1] = ss[i] /\ Is(m + 1) = ss[i]
      BY <1>0, <2>2, <2>4, <2>6
    <3>. QED BY <1>0, <1>2, <2>1, <2>3, <3>1
  <2>7. CASE m + 1 > i
    <3>1. d[m] = ss[i] /\ ss[m + 1] = <<>> /\ Is(m + 1) = ss[i]
      BY <1>0, <2>2, <2>4, <2>7
    <3>. QED BY <1>0, <1>2, <2>1, <2>3, <3>1
  <2>. QED BY <1>0, <2>2, <2>5, <2>6, <2>7
<1>6. Len(ss) - 1 \in D
  <2>1. Len(ss) - 1 \in Nat
    BY <1>0
  <2>. HIDE DEF D
  <2>. QED BY <1>4, <1>5, <2>1, NatInd
<1>7. d[Len(ss)] = Is(Len(ss))
  <2>1. Len(ss) - 1 + 1 = Len(ss) /\ Len(ss) <= Len(ss)
    BY <1>0
  <2>. QED BY <1>6, <2>1
<1>. QED BY <1>0, <1>1, <1>7

-----------------------------------------------------------------------------
(* A function that is applied again and again.                             *)
Iterates(f, n, v, s) == f[0] = v /\ \A m \in Nat : m < n => f[m + 1] = s[f[m]]

(* A step can be repeated so often,                                        *)
LEMMA IteratesUpTo ==
    ASSUME NEW V, NEW v \in V, NEW s \in [V -> V], NEW n \in Nat
    PROVE  \E f \in [Nat -> V] : Iterates(f, n, v, s)
<1>. DEFINE D == {k \in Nat : \E f \in [Nat -> V] : Iterates(f, k, v, s)}
<1>1. 0 \in D
  <2>1. [m \in Nat |-> v] \in [Nat -> V] /\ Iterates([m \in Nat |-> v], 0, v, s)
    BY DEF Iterates
  <2>. QED BY <2>1
<1>2. ASSUME NEW k \in Nat, k \in D PROVE k + 1 \in D
  <2>1. PICK f \in [Nat -> V] : Iterates(f, k, v, s)
    BY <1>2
  <2>. DEFINE g == [m \in Nat |-> IF m = k + 1 THEN s[f[k]] ELSE f[m]]
  <2>2. g \in [Nat -> V]
    OBVIOUS
  <2>3. g[0] = v
    BY <2>1 DEF Iterates
  <2>4. ASSUME NEW m \in Nat, m < k + 1 PROVE g[m + 1] = s[g[m]]
    <3>1. g[m] = f[m]
      BY <2>4
    <3>2. CASE m = k
      BY <3>1, <3>2
    <3>3. CASE m # k
      <4>1. m < k /\ m + 1 # k + 1 /\ m + 1 \in Nat
        BY <2>4, <3>3
      <4>2. f[m + 1] = s[f[m]]
        BY <2>1, <4>1 DEF Iterates
      <4>. QED BY <3>1, <4>1, <4>2
    <3>. QED BY <3>2, <3>3
  <2>. HIDE DEF g
  <2>5. Iterates(g, k + 1, v, s)
    BY <2>3, <2>4 DEF Iterates
  <2>. QED BY <2>2, <2>5
<1>3. n \in D
  <2>. HIDE DEF D
  <2>. QED BY <1>1, <1>2, NatInd
<1>. QED BY <1>3

(* in one way,                                                             *)
LEMMA IteratesAgree ==
    ASSUME NEW f, NEW g, NEW v, NEW s, NEW n \in Nat, Iterates(f, n, v, s), Iterates(g, n, v, s)
    PROVE  \A m \in Nat : m <= n => f[m] = g[m]
<1>. DEFINE D == {m \in Nat : m <= n => f[m] = g[m]}
<1>1. 0 \in D
  BY DEF Iterates
<1>2. ASSUME NEW m \in Nat, m \in D PROVE m + 1 \in D
  BY <1>2 DEF Iterates
<1>3. \A m \in Nat : m \in D
  <2>. HIDE DEF D
  <2>. QED BY <1>1, <1>2, NatInd
<1>. QED BY <1>3

Repeats(f, v, s) == f[0] = v /\ \A n \in Nat : f[n + 1] = s[f[n]]

(* and for ever.                                                           *)
LEMMA IteratesForEver ==
    ASSUME NEW V, NEW v \in V, NEW s \in [V -> V]
    PROVE  \E f \in [Nat -> V] : Repeats(f, v, s)
<1>. DEFINE Up(n) == CHOOSE f \in [Nat -> V] : Iterates(f, n, v, s)
            f == [n \in Nat |-> Up(n)[n]]
<1>1. ASSUME NEW n \in Nat PROVE Up(n) \in [Nat -> V] /\ Iterates(Up(n), n, v, s)
  BY IteratesUpTo
<1>. HIDE DEF Up
<1>2. f \in [Nat -> V]
  BY <1>1
<1>3. f[0] = v
  BY <1>1 DEF Iterates
<1>4. ASSUME NEW n \in Nat PROVE f[n + 1] = s[f[n]]
  <2>1. n + 1 \in Nat /\ n < n + 1 /\ n <= n
    OBVIOUS
  <2>2. Iterates(Up(n + 1), n, v, s)
    <3>1. \A m \in Nat : m < n => m < n + 1
      OBVIOUS
    <3>. QED BY <1>1, <2>1, <3>1, Zenon DEF Iterates
  <2>3. Up(n + 1)[n] = Up(n)[n]
    BY <1>1, <2>1, <2>2, IteratesAgree
  <2>4. Up(n + 1)[n + 1] = s[Up(n + 1)[n]]
    BY <1>1, <2>1, Zenon DEF Iterates
  <2>. QED BY <2>1, <2>3, <2>4
<1>. HIDE DEF f
<1>. QED BY <1>2, <1>3, <1>4 DEF Repeats
=============================================================================
