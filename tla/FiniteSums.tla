----------------------------- MODULE FiniteSums -----------------------------
(***************************************************************************)
(* Induction over finite sets, and what SumFunction of the community       *)
(* modules computes by it: a sum does not depend on the order in which     *)
(* the elements are chosen.                                                *)
(*                                                                         *)
(* The induction is stated for a set of sets where the theorems of the     *)
(* library have an operator: what is to be proved of s is that s is in A.  *)
(***************************************************************************)
EXTENDS Integers, FiniteSets, Functions, FiniteSetTheorems, WellFoundedInduction, TLAPS

-----------------------------------------------------------------------------
(* Induction.                                                              *)

(* A set of natural numbers has a least one.                               *)
LEMMA LeastNumber ==
  ASSUME NEW T \in SUBSET Nat, T # {}
  PROVE  \E n \in T : \A m \in T : n <= m
<1> DEFINE R == {ss \in Nat \X Nat : ss[1] < ss[2]}
<1>1. IsWellFoundedOn(R, Nat)
  BY NatLessThanWellFounded DEF OpToRel
<1> HIDE DEF R
<1>2. \E x \in T : \A y \in T : ~(<<y, x>> \in R)
  BY <1>1, WFMin
<1>3. \E n \in T : \A m \in T : ~(m < n)
  BY <1>2 DEF R
<1>4. \A m, n \in T : ~(m < n) => n <= m
  OBVIOUS
<1> QED  BY <1>3, <1>4

(* A set of sets that has whatever is a step from its members has all.     *)
LEMMA SetInduction ==
  ASSUME NEW S, IsFiniteSet(S), NEW A,
         \A s \in SUBSET S : (\A x \in s : s \ {x} \in A) => s \in A
  PROVE  \A s \in SUBSET S : s \in A
<1> DEFINE B == {s \in SUBSET S : s \notin A}
           N == {Cardinality(s) : s \in B}
<1>1. SUFFICES ASSUME B # {} PROVE FALSE
  OBVIOUS
<1>2. \A s \in SUBSET S : IsFiniteSet(s) /\ Cardinality(s) \in Nat
  BY FS_Subset, FS_CardinalityType
<1>3. N \in SUBSET Nat /\ N # {}
  BY <1>1, <1>2
<1>4. PICK n \in N : \A m \in N : n <= m
  <2> HIDE DEF N
  <2> QED  BY <1>3, LeastNumber
<1>5. PICK s \in B : n = Cardinality(s)
  BY <1>4
<1>6. ASSUME NEW x \in s PROVE s \ {x} \in A
  <2>1. Cardinality(s \ {x}) = Cardinality(s) - 1 /\ Cardinality(s) \in Nat
    BY <1>2, FS_RemoveElement
  <2>2. n <= Cardinality(s \ {x}) => FALSE
    BY <2>1, <1>5
  <2>3. Cardinality(s \ {x}) \notin N
    <3> HIDE DEF N
    <3> QED  BY <2>2, <1>4
  <2> QED  BY <2>3
<1> QED  BY <1>5, <1>6

-----------------------------------------------------------------------------
(* Sums.                                                                   *)

(* What the definition of a sum looks for: the sums over all subsets, each *)
(* by way of the element that it chooses.                                  *)
Chosen(s) == CHOOSE x \in s : TRUE
SumStep(f, g, s) == IF s = {} THEN 0 ELSE f[Chosen(s)] + g[s \ {Chosen(s)}]
SumsOf(f, g, S) == g = [s \in SUBSET S |-> SumStep(f, g, s)]

(* A set that is not empty has an element to choose. *)
LEMMA ChosenFact ==
  ASSUME NEW s, s # {}
  PROVE  Chosen(s) \in s
BY DEF Chosen

(* There are such sums, since there are for sets of each size.             *)
LEMMA SumsExist ==
  ASSUME NEW S, IsFiniteSet(S), NEW f
  PROVE  \E g : SumsOf(f, g, S)
<1> DEFINE D(n)  == {s \in SUBSET S : Cardinality(s) <= n}
           Good(n, g) == g = [s \in D(n) |-> SumStep(f, g, s)]
           Bad == {n \in Nat : \A g : ~Good(n, g)}
<1>1. \A s \in SUBSET S : IsFiniteSet(s) /\ Cardinality(s) \in Nat
  BY FS_Subset, FS_CardinalityType
<1>2. Good(0, [s \in D(0) |-> 0])
  <2>1. \A s \in D(0) : s = {}
    BY <1>1, FS_EmptySet
  <2>2. [s \in D(0) |-> 0] = [s \in D(0) |-> SumStep(f, [r \in D(0) |-> 0], s)]
    BY <2>1 DEF SumStep
  <2> QED  BY <2>2
<1>3. ASSUME NEW n \in Nat, NEW g, Good(n, g) PROVE \E h : Good(n + 1, h)
  <2> DEFINE h == [s \in D(n + 1) |-> SumStep(f, g, s)]
  <2>1. \A s \in D(n) : s \in D(n + 1) /\ g[s] = h[s]
    BY <1>1, <1>3
  <2>2. ASSUME NEW s \in D(n + 1) PROVE SumStep(f, g, s) = SumStep(f, h, s)
    <3>1. CASE s = {}
      BY <3>1 DEF SumStep
    <3>2. CASE s # {}
      <4>1. Chosen(s) \in s
        BY <3>2, ChosenFact
      <4>2. Cardinality(s \ {Chosen(s)}) = Cardinality(s) - 1 /\ s \ {Chosen(s)} \in SUBSET S
        BY <4>1, <1>1, FS_RemoveElement
      <4>3. s \ {Chosen(s)} \in D(n)
        BY <4>2, <1>1
      <4> QED  BY <4>3, <2>1 DEF SumStep
    <3> QED  BY <3>1, <3>2
  <2>3. h = [s \in D(n + 1) |-> SumStep(f, h, s)]
    <3> HIDE DEF D
    <3> QED  BY <2>2
  <2> QED  BY <2>3
<1>4. Bad = {}
  <2>1. SUFFICES ASSUME Bad # {} PROVE FALSE
    OBVIOUS
  <2>2. PICK n \in Bad : \A m \in Bad : n <= m
    <3>1. Bad \in SUBSET Nat
      OBVIOUS
    <3> HIDE DEF Bad
    <3> QED  BY <2>1, <3>1, LeastNumber
  <2>3. n # 0
    BY <1>2
  <2>4. n - 1 \in Nat /\ n - 1 \notin Bad /\ n = (n - 1) + 1
    BY <2>2, <2>3
  <2>5. PICK g : Good(n - 1, g)
    BY <2>4
  <2>6. \E h : Good((n - 1) + 1, h)
    <3> HIDE DEF Good
    <3> QED BY <2>4, <2>5, <1>3
  <2> QED  BY <2>4, <2>6
<1>5. Cardinality(S) \in Nat /\ D(Cardinality(S)) = SUBSET S
  BY FS_Subset, FS_CardinalityType
<1>6. PICK g : Good(Cardinality(S), g)
  BY <1>4, <1>5
<1> QED  BY <1>5, <1>6 DEF SumsOf

(* A sum is what they give for the whole set.                              *)
LEMMA SumFact ==
  ASSUME NEW f, IsFiniteSet(DOMAIN f)
  PROVE  \E g : SumsOf(f, g, DOMAIN f) /\ SumFunction(f) = g[DOMAIN f]
<1> DEFINE g == CHOOSE h : SumsOf(f, h, DOMAIN f)
<1>1. SumFunction(f) = g[DOMAIN f]
  BY DEF SumFunction, SumFunctionOnSet, FoldFunctionOnSet, MapThenFoldSet, SumsOf, SumStep, Chosen
<1>2. SumsOf(f, g, DOMAIN f)
  BY SumsExist
<1> QED  BY <1>1, <1>2

(* Whatever element is taken first, the sum is the same.                   *)
Sums(f, g, S) ==
  /\ g \in [SUBSET S -> Nat]
  /\ g[{}] = 0
  /\ \A s \in SUBSET S : \A x \in s : g[s] = f[x] + g[s \ {x}]

(* What SumsOf finds are such sums. *)
LEMMA SumsFact ==
  ASSUME NEW S, IsFiniteSet(S), NEW f \in [S -> Nat], NEW g, SumsOf(f, g, S)
  PROVE  Sums(f, g, S)
<1> DEFINE T == {s \in SUBSET S : g[s] \in Nat}
           A == {s \in SUBSET S : \A x \in s : g[s] = f[x] + g[s \ {x}]}
<1>1. \A s \in SUBSET S : g[s] = IF s = {} THEN 0 ELSE f[Chosen(s)] + g[s \ {Chosen(s)}]
  BY DEF SumsOf, SumStep
<1>2. ASSUME NEW s \in SUBSET S, \A x \in s : s \ {x} \in T
      PROVE  s \in T
  <2>1. CASE s = {}
    BY <1>1, <2>1
  <2>2. CASE s # {}
    <3>1. PICK c \in s : c = Chosen(s)
      BY <2>2, ChosenFact
    <3>2. g[s] = f[c] + g[s \ {c}] /\ f[c] \in Nat /\ g[s \ {c}] \in Nat
      BY <1>1, <1>2, <2>2, <3>1
    <3> QED  BY <3>2
  <2> QED  BY <2>1, <2>2
<1>3. \A s \in SUBSET S : s \in T
  <2> HIDE DEF T
  <2> QED  BY <1>2, SetInduction
<1>4. ASSUME NEW s \in SUBSET S, \A x \in s : s \ {x} \in A
      PROVE  s \in A
  <2>1. ASSUME NEW x \in s PROVE g[s] = f[x] + g[s \ {x}]
    <3>1. PICK c \in s : c = Chosen(s)
      BY ChosenFact
    <3>2. g[s] = f[c] + g[s \ {c}]
      BY <1>1, <3>1
    <3>3. CASE x = c
      BY <3>2, <3>3
    <3>4. CASE x # c
      <4>1. PICK r \in SUBSET S : r = (s \ {c}) \ {x} /\ r = (s \ {x}) \ {c}
        OBVIOUS
      <4>2. g[s \ {c}] = f[x] + g[r] /\ g[s \ {x}] = f[c] + g[r]
        BY <1>4, <3>4, <4>1
      <4>3. f[x] \in Nat /\ f[c] \in Nat /\ g[r] \in Nat
        BY <1>3
      <4> QED  BY <3>2, <4>2, <4>3
    <3> QED  BY <3>3, <3>4
  <2> QED  BY <2>1
<1>5. \A s \in SUBSET S : s \in A
  <2> HIDE DEF A
  <2> QED  BY <1>4, SetInduction
<1>6. g \in [SUBSET S -> Nat]
  BY <1>3 DEF SumsOf
<1> QED  BY <1>1, <1>5, <1>6 DEF Sums

(* The sums of natural numbers.                                            *)
LEMMA SumNat ==
  ASSUME NEW S, IsFiniteSet(S), NEW f \in [S -> Nat]
  PROVE  \E g : Sums(f, g, S) /\ SumFunction(f) = g[S]
BY SumFact, SumsFact

(* Zeros add up to zero.                                                   *)
LEMMA SumZero ==
  ASSUME NEW S, IsFiniteSet(S)
  PROVE  SumFunction([x \in S |-> 0]) = 0
<1> DEFINE f == [x \in S |-> 0]
<1>1. PICK g : Sums(f, g, S) /\ SumFunction(f) = g[S]
  BY SumNat
<1> DEFINE A == {s \in SUBSET S : g[s] = 0}
<1>2. ASSUME NEW s \in SUBSET S, \A x \in s : s \ {x} \in A
      PROVE  s \in A
  <2>1. CASE s = {}
    BY <1>1, <2>1 DEF Sums
  <2>2. CASE s # {}
    <3>1. PICK x \in s : TRUE
      BY <2>2
    <3>2. g[s] = f[x] + g[s \ {x}] /\ f[x] = 0 /\ g[s \ {x}] = 0
      BY <1>1, <1>2 DEF Sums
    <3> QED  BY <3>2
  <2> QED  BY <2>1, <2>2
<1>3. \A s \in SUBSET S : s \in A
  <2> HIDE DEF A
  <2> QED  BY <1>2, SetInduction
<1> QED  BY <1>1, <1>3

(* A sum is the sum over a part and what the part being zero leaves.       *)
LEMMA SumSplits ==
  ASSUME NEW S, IsFiniteSet(S), NEW f \in [S -> Nat], NEW T \in SUBSET S
  PROVE  /\ SumFunction([x \in S |-> IF x \in T THEN 0 ELSE f[x]]) \in Nat
         /\ SumFunction([x \in T |-> f[x]]) \in Nat
         /\ SumFunction(f) = SumFunction([x \in S |-> IF x \in T THEN 0 ELSE f[x]])
                               + SumFunction([x \in T |-> f[x]])
<1> DEFINE fr == [x \in S |-> IF x \in T THEN 0 ELSE f[x]]
           fp == [x \in T |-> f[x]]
<1>1. PICK g : Sums(f, g, S) /\ SumFunction(f) = g[S]
  BY SumNat
<1>2. PICK r : Sums(fr, r, S) /\ SumFunction(fr) = r[S]
  BY SumNat
<1>3. PICK p : Sums(fp, p, T) /\ SumFunction(fp) = p[T]
  BY SumNat, FS_Subset
<1> DEFINE A == {s \in SUBSET S : g[s] = r[s] + p[s \cap T]}
<1>4. ASSUME NEW s \in SUBSET S, \A x \in s : s \ {x} \in A
      PROVE  s \in A
  <2>1. CASE s = {}
    BY <1>1, <1>2, <1>3, <2>1 DEF Sums
  <2>2. CASE s # {}
    <3>1. PICK x \in s : TRUE
      BY <2>2
    <3>2. g[s] = f[x] + g[s \ {x}] /\ r[s] = fr[x] + r[s \ {x}]
      BY <1>1, <1>2 DEF Sums
    <3>3. g[s \ {x}] = r[s \ {x}] + p[(s \ {x}) \cap T]
      BY <1>4
    <3>4. /\ g[s \ {x}] \in Nat /\ r[s \ {x}] \in Nat
          /\ p[(s \ {x}) \cap T] \in Nat /\ f[x] \in Nat
      BY <1>1, <1>2, <1>3 DEF Sums
    <3>5. CASE x \in T
      <4>1. (s \ {x}) \cap T = (s \cap T) \ {x} /\ x \in s \cap T /\ s \cap T \in SUBSET T
        BY <3>5
      <4>2. p[s \cap T] = fp[x] + p[(s \cap T) \ {x}]
        BY <1>3, <4>1 DEF Sums
      <4>3. fr[x] = 0 /\ fp[x] = f[x]
        BY <3>5
      <4> QED  BY <3>2, <3>3, <3>4, <4>1, <4>2, <4>3
    <3>6. CASE x \notin T
      <4>1. (s \ {x}) \cap T = s \cap T
        BY <3>6
      <4>2. fr[x] = f[x]
        BY <3>6
      <4> QED  BY <3>2, <3>3, <3>4, <4>1, <4>2
    <3> QED  BY <3>5, <3>6
  <2> QED  BY <2>1, <2>2
<1>5. \A s \in SUBSET S : s \in A
  <2> HIDE DEF A
  <2> QED  BY <1>4, SetInduction
<1>6. S \cap T = T /\ g[S] = r[S] + p[S \cap T]
  BY <1>5
<1>7. r[S] \in Nat /\ p[T] \in Nat
  BY <1>2, <1>3 DEF Sums
<1>8. SumFunction(fr) \in Nat /\ SumFunction(fp) \in Nat
      /\ SumFunction(f) = SumFunction(fr) + SumFunction(fp)
  BY <1>1, <1>2, <1>3, <1>6, <1>7
<1> QED  BY <1>8
=============================================================================
