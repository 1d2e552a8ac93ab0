---------------------------- MODULE NumberLemmas ----------------------------
(* Least and greatest elements of sets of numbers, as the proofs of several *)
(* components use them.                                                     *)
EXTENDS Naturals, FiniteSetsExt, TLAPS, WellFoundedInduction, FiniteSetTheorems

\* A set of numbers that is not empty has a least element.
LEMMA LeastNumber ==
    ASSUME NEW T \in SUBSET Nat, T # {}
    PROVE  \E x \in T : \A y \in T : x <= y
<1>1. PICK x \in T : \A y \in T : ~(<<y, x>> \in OpToRel(<, Nat))
  BY WFMin, NatLessThanWellFounded
<1>2. \A y \in T : ~(y < x)
  BY <1>1 DEF OpToRel
<1> QED
  BY <1>2

\* Min is the least element.
LEMMA MinProperties ==
    ASSUME NEW T \in SUBSET Nat, T # {}
    PROVE  Min(T) \in T /\ \A y \in T : Min(T) <= y
<1>1. \E x \in T : \A y \in T : x <= y
  BY LeastNumber
<1> QED
  BY <1>1 DEF Min

\* A function on a finite set has a greatest value.
LEMMA GreatestValue ==
    ASSUME NEW S, S # {}, IsFiniteSet(S), NEW f \in [S -> Nat]
    PROVE  \E x \in S : \A y \in S : f[y] <= f[x]
<1>1. PICK n \in Nat : ExistsBijection(1 .. n, S)
  BY FS_NatBijection
<1>2. PICK g \in [1 .. n -> S] : \A y \in S : \E i \in 1 .. n : g[i] = y
  BY <1>1 DEF ExistsBijection, Bijection, Surjection
<1> DEFINE Tops(k) == {x \in S : \A i \in 1 .. k : f[g[i]] <= f[x]}
           Bad == {k \in 1 .. n : Tops(k) = {}}
<1>3. n >= 1
  BY <1>2
<1>4. Bad = {}
  <2> SUFFICES ASSUME Bad # {} PROVE FALSE
    OBVIOUS
  <2>0. Bad \in SUBSET Nat
    OBVIOUS
  <2>1. PICK k \in Bad : \A j \in Bad : k <= j
    <3> HIDE DEF Bad
    <3> QED
      BY <2>0, LeastNumber
  <2>2. k \in 1 .. n /\ Tops(k) = {}
    BY <2>1
  <2>3. g[k] \in S
    BY <2>2, <1>2
  <2>4. k # 1
    BY <2>2, <2>3
  <2>5. k - 1 \in 1 .. n /\ k - 1 \notin Bad
    <3>1. k \in Nat /\ k - 1 \in 1 .. n /\ ~(k <= k - 1)
      BY <2>2, <2>4
    <3> HIDE DEF Bad
    <3> QED
      BY <2>1, <3>1
  <2>6. PICK x \in S : \A i \in 1 .. k - 1 : f[g[i]] <= f[x]
    BY <2>5
  <2>7. \A i \in 1 .. k : g[i] \in S /\ (i \in 1 .. k - 1 \/ i = k)
    BY <2>2, <1>2
  <2>8. CASE f[g[k]] <= f[x]
    <3>1. x \in Tops(k)
      BY <2>6, <2>7, <2>8
    <3> QED
      BY <3>1, <2>2
  <2>9. CASE ~(f[g[k]] <= f[x])
    <3>0. f[x] \in Nat /\ f[g[k]] \in Nat /\ \A i \in 1 .. k : f[g[i]] \in Nat
      BY <2>3, <2>6, <2>7
    <3>1. ASSUME NEW i \in 1 .. k PROVE f[g[i]] <= f[g[k]]
      <4>1. CASE i = k
        BY <3>0, <4>1
      <4>2. CASE i \in 1 .. k - 1
        <5>1. f[g[i]] <= f[x]
          BY <2>6, <4>2
        <5> QED
          BY <5>1, <3>0, <2>9
      <4> QED
        BY <2>7, <4>1, <4>2
    <3> QED
      BY <3>1, <2>2, <2>3
  <2> QED
    BY <2>8, <2>9
<1>5. PICK x \in S : \A i \in 1 .. n : f[g[i]] <= f[x]
  <2>1. n \in 1 .. n /\ n \notin Bad
    <3> HIDE DEF Bad
    <3> QED
      BY <1>3, <1>4
  <2>2. Tops(n) # {}
    BY <2>1
  <2> QED
    BY <2>2
<1> QED
  BY <1>2, <1>5

\* Max is the greatest element of a finite set.
LEMMA MaxProperties ==
    ASSUME NEW T \in SUBSET Nat, T # {}, IsFiniteSet(T)
    PROVE  Max(T) \in T /\ \A y \in T : y <= Max(T)
<1> DEFINE f == [x \in T |-> x]
<1>1. f \in [T -> Nat]
  OBVIOUS
<1>2. PICK x \in T : \A y \in T : f[y] <= f[x]
  BY <1>1, GreatestValue
<1>3. \E z \in T : \A y \in T : z >= y
  BY <1>2
<1>4. Max(T) \in T /\ \A y \in T : Max(T) >= y
  BY <1>3 DEF Max
<1> QED
  BY <1>4
=============================================================================
