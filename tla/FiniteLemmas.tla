---------------------------- MODULE FiniteLemmas ----------------------------
(***************************************************************************)
(* Facts about finite sets, and about the sum of a function with a finite  *)
(* domain (SumFunction of the community module Functions).                 *)
(*                                                                         *)
(* The library's induction theorems have a predicate as a parameter, which *)
(* the provers cannot instantiate; WFMin has a set: a set of finite sets   *)
(* has a minimal element.  Every induction here is the argument that the   *)
(* set of counterexamples would have one.                                  *)
(***************************************************************************)
EXTENDS Integers, FiniteSets, Functions, FiniteSetTheorems, WellFoundedInduction, TLAPS

(* Among subsets of a finite set some are minimal.                          *)
LEMMA MinimalSubset ==
    ASSUME NEW S, IsFiniteSet(S), NEW T, T \subseteq SUBSET S, T # {}
    PROVE  \E x \in T : \A y \in T : y \subseteq x => y = x
<1>1. FiniteSubsetsOf(S) = SUBSET S
  BY FS_FiniteSubsetsOfFinite
<1>2. IsWellFoundedOn(StrictSubsetOrdering(S), SUBSET S)
  BY <1>1, FS_StrictSubsetOrderingWellFounded
<1>3. \E x \in T : \A y \in T : ~ (<<y, x>> \in StrictSubsetOrdering(S))
  BY <1>2, WFMin
<1> QED
  BY <1>3 DEF StrictSubsetOrdering

(* Among natural numbers one is the smallest: by their initial segments.    *)
LEMMA LeastNatural ==
    ASSUME NEW N, N \subseteq Nat, N # {}
    PROVE  \E n \in N : \A m \in N : n <= m
<1>1. PICK k \in N : k \in Nat
  OBVIOUS
<1> DEFINE S == 1..k
           T == {1..m : m \in {i \in N : i <= k}}
<1>2. T \subseteq SUBSET S /\ T # {}
  BY <1>1
<1>3. IsFiniteSet(S)
  BY <1>1, FS_Interval
<1>4. PICK x \in T : \A y \in T : y \subseteq x => y = x
  <2> HIDE DEF S, T
  <2> QED
    BY <1>2, <1>3, MinimalSubset
<1>5. PICK n \in N : n <= k /\ x = 1..n
  BY <1>4
<1>6. ASSUME NEW m \in N PROVE n <= m
  <2>1. SUFFICES ASSUME m < n PROVE FALSE
    OBVIOUS
  <2>2. 1..m \in T /\ 1..m \subseteq x
    BY <1>1, <1>5, <2>1
  <2>3. n \in x /\ n \notin 1..m
    BY <1>5, <2>1
  <2> QED
    BY <1>4, <2>2, <2>3
<1> QED
  BY <1>5, <1>6

----------------------------------------------------------------------------
Pick(s) == CHOOSE x \in s : TRUE

(* The sums of f over the parts of its domain.                              *)
SumsOf(f, g) ==
    g = [s \in SUBSET DOMAIN f |-> IF s = {} THEN 0 ELSE f[Pick(s)] + g[s \ {Pick(s)}]]

(* What is picked from a set is in it.                                      *)
LEMMA PickMember == \A s : s # {} => Pick(s) \in s
BY DEF Pick

(* SumFunction is the last of the sums that the fold chooses.               *)
LEMMA SumUnfolded ==
    ASSUME NEW f
    PROVE  SumFunction(f) = (CHOOSE g : SumsOf(f, g))[DOMAIN f]
BY DEF SumFunction, SumFunctionOnSet, FoldFunctionOnSet, MapThenFoldSet, SumsOf, Pick

(* There are such sums: for the parts with at most n elements, for every n. *)
LEMMA SumsExist ==
    ASSUME NEW f, IsFiniteSet(DOMAIN f)
    PROVE  \E g : SumsOf(f, g)
<1> DEFINE D == DOMAIN f
           Step(g, s) == IF s = {} THEN 0 ELSE f[Pick(s)] + g[s \ {Pick(s)}]
           UpTo(n) == \E g : g = [s \in SUBSET D |->
                                    IF Cardinality(s) <= n THEN Step(g, s) ELSE 0]
<1>1. /\ \A s \in SUBSET D : Cardinality(s) \in Nat /\ Cardinality(s) <= Cardinality(D)
      /\ Cardinality(D) \in Nat
  BY FS_Subset, FS_CardinalityType
<1>2. \A s \in SUBSET D : s # {} => /\ Cardinality(s \ {Pick(s)}) = Cardinality(s) - 1
                                    /\ s \ {Pick(s)} \in SUBSET D
  BY FS_Subset, FS_RemoveElement, PickMember
<1>3. \A s \in SUBSET D : Cardinality(s) = 0 <=> s = {}
  BY FS_Subset, FS_EmptySet
<1> HIDE DEF D
<1>4. UpTo(0)
  <2> DEFINE h == [s \in SUBSET D |-> 0]
  <2>1. \A s \in SUBSET D : Cardinality(s) <= 0 => s = {}
    BY <1>1, <1>3
  <2>2. h = [s \in SUBSET D |-> IF Cardinality(s) <= 0 THEN Step(h, s) ELSE 0]
    BY <2>1
  <2> QED
    BY <2>2
<1>5. ASSUME NEW n \in Nat, UpTo(n) PROVE UpTo(n + 1)
  <2>1. PICK g : g = [s \in SUBSET D |-> IF Cardinality(s) <= n THEN Step(g, s) ELSE 0]
    BY <1>5
  <2> DEFINE h == [s \in SUBSET D |-> IF Cardinality(s) <= n + 1 THEN Step(g, s) ELSE 0]
  <2>2. ASSUME NEW s \in SUBSET D, Cardinality(s) <= n PROVE h[s] = g[s]
    <3>1. g[s] = Step(g, s)
      BY <2>1, <2>2
    <3>2. h[s] = Step(g, s)
      BY <1>1, <2>2
    <3> QED
      BY <3>1, <3>2
  <2>3. ASSUME NEW s \in SUBSET D, Cardinality(s) <= n + 1 PROVE Step(h, s) = Step(g, s)
    <3>1. CASE s = {}
      BY <3>1
    <3>2. CASE s # {}
      <4>1. s \ {Pick(s)} \in SUBSET D /\ Cardinality(s \ {Pick(s)}) <= n
        BY <1>1, <1>2, <2>3, <3>2
      <4>2. h[s \ {Pick(s)}] = g[s \ {Pick(s)}]
        BY <2>2, <4>1
      <4> HIDE DEF h
      <4> QED
        BY <4>2
    <3> QED
      BY <3>1, <3>2
  <2>4. h = [s \in SUBSET D |-> IF Cardinality(s) <= n + 1 THEN Step(h, s) ELSE 0]
    <3> DEFINE r == [s \in SUBSET D |-> IF Cardinality(s) <= n + 1 THEN Step(h, s) ELSE 0]
    <3>1. \A s \in SUBSET D : r[s] = h[s]
      <4> HIDE DEF Step
      <4> QED
        BY <2>3
    <3> QED
      BY <3>1
  <2> QED
    BY <2>4
<1>6. \A n \in Nat : UpTo(n)
  <2> HIDE DEF UpTo
  <2> DEFINE N == {n \in Nat : ~ UpTo(n)}
  <2>1. SUFFICES ASSUME N # {} PROVE FALSE
    OBVIOUS
  <2>2. PICK n \in N : \A m \in N : n <= m
    <3>1. N \in SUBSET Nat
      OBVIOUS
    <3> HIDE DEF N
    <3> QED
      BY <2>1, <3>1, LeastNatural
  <2>3. n # 0 /\ n \in Nat
    BY <1>4
  <2>4. n - 1 \in Nat /\ n - 1 \notin N
    BY <2>2, <2>3
  <2>5. UpTo((n - 1) + 1) /\ (n - 1) + 1 = n
    BY <1>5, <2>4
  <2> QED
    BY <2>5
<1>7. PICK g : g = [s \in SUBSET D |-> IF Cardinality(s) <= Cardinality(D) THEN Step(g, s) ELSE 0]
  BY <1>1, <1>6
<1>8. g = [s \in SUBSET D |-> Step(g, s)]
  BY <1>1, <1>7
<1> QED
  BY <1>8 DEF SumsOf, D

(* The same, part by part; SumFunction(f) is the last of the sums.          *)
AreSums(D, f, g) ==
    /\ SumFunction(f) = g[D] /\ g[{}] = 0
    /\ \A s \in SUBSET D : s # {} => g[s] = f[Pick(s)] + g[s \ {Pick(s)}]

(* The sums of the parts of f are such sums.                                *)
LEMMA Sums ==
    ASSUME NEW D, IsFiniteSet(D), NEW f, DOMAIN f = D
    PROVE  \E g : AreSums(D, f, g)
<1> DEFINE g == CHOOSE h : SumsOf(f, h)
<1>1. SumsOf(f, g)
  BY SumsExist
<1>2. SumFunction(f) = g[DOMAIN f]
  BY SumUnfolded
<1> HIDE DEF g
<1>3. \A s \in SUBSET DOMAIN f :
        g[s] = IF s = {} THEN 0 ELSE f[Pick(s)] + g[s \ {Pick(s)}]
  BY <1>1 DEF SumsOf
<1> QED
  BY <1>2, <1>3 DEF AreSums

(* What holds of the empty part, and of a part when it holds of the one     *)
(* without its first member, holds of the whole.                            *)
LEMMA PartsInduction ==
    ASSUME NEW D, IsFiniteSet(D), NEW Good,
           \A s \in SUBSET D : s = {} \/ s \ {Pick(s)} \in Good => s \in Good
    PROVE  D \in Good
<1> DEFINE Bad == {s \in SUBSET D : s \notin Good}
<1>1. SUFFICES ASSUME Bad # {} PROVE FALSE
  OBVIOUS
<1>2. Bad \subseteq SUBSET D
  OBVIOUS
<1>3. PICK s \in Bad : \A t \in Bad : t \subseteq s => t = s
  <2> HIDE DEF Bad
  <2> QED
    BY <1>1, <1>2, MinimalSubset
<1>4. s # {}
  OBVIOUS
<1>5. s \ {Pick(s)} \in SUBSET D /\ s \ {Pick(s)} \notin Bad
  BY <1>3, <1>4, PickMember
<1> QED
  BY <1>5

----------------------------------------------------------------------------
(* Two functions that differ only at j differ in their sums by as much.     *)
THEOREM SumUpdate ==
    ASSUME NEW D, IsFiniteSet(D), NEW f \in [D -> Int], NEW h \in [D -> Int], NEW j \in D,
           \A i \in D \ {j} : h[i] = f[i]
    PROVE  SumFunction(h) = SumFunction(f) + h[j] - f[j] /\ SumFunction(f) \in Int
<1>0. DOMAIN f = D /\ DOMAIN h = D
  OBVIOUS
<1>1. PICK F : AreSums(D, f, F)
  BY <1>0, Sums
<1>2. PICK H : AreSums(D, h, H)
  BY <1>0, Sums
<1> DEFINE Follows(s) == F[s] \in Int /\ H[s] = F[s] + (IF j \in s THEN h[j] - f[j] ELSE 0)
           Good == {s \in SUBSET D : Follows(s)}
<1>3. ASSUME NEW s \in SUBSET D, s = {} \/ Follows(s \ {Pick(s)}) PROVE Follows(s)
  <2>1. CASE s = {}
    BY <1>1, <1>2, <2>1 DEF AreSums
  <2>2. CASE s # {}
    <3>1. /\ Pick(s) \in s /\ Pick(s) \in D
          /\ F[s] = f[Pick(s)] + F[s \ {Pick(s)}]
          /\ H[s] = h[Pick(s)] + H[s \ {Pick(s)}]
          /\ Follows(s \ {Pick(s)})
      BY <1>1, <1>2, <1>3, <2>2, PickMember DEF AreSums
    <3>2. CASE Pick(s) = j
      BY <3>1, <3>2
    <3>3. CASE Pick(s) # j
      BY <3>1, <3>3
    <3> QED
      BY <3>2, <3>3
  <2> QED
    BY <2>1, <2>2
<1>4. \A s \in SUBSET D : s = {} \/ s \ {Pick(s)} \in Good => s \in Good
  <2> HIDE DEF Follows
  <2> QED
    BY <1>3
<1>5. D \in Good
  <2> HIDE DEF Good
  <2> QED
    BY <1>4, PartsInduction
<1> QED
  BY <1>1, <1>2, <1>5 DEF AreSums

(* A sum of natural numbers is one.                                         *)
THEOREM SumNat ==
    ASSUME NEW D, IsFiniteSet(D), NEW f \in [D -> Nat]
    PROVE  SumFunction(f) \in Nat
<1>0. DOMAIN f = D
  OBVIOUS
<1>1. PICK F : AreSums(D, f, F)
  BY <1>0, Sums
<1> DEFINE Good == {s \in SUBSET D : F[s] \in Nat}
<1>2. ASSUME NEW s \in SUBSET D, s = {} \/ s \ {Pick(s)} \in Good PROVE s \in Good
  <2>1. CASE s = {}
    BY <1>1, <2>1 DEF AreSums
  <2>2. CASE s # {}
    <3>1. F[s] = f[Pick(s)] + F[s \ {Pick(s)}]
      BY <1>1, <2>2 DEF AreSums
    <3>2. f[Pick(s)] \in Nat /\ F[s \ {Pick(s)}] \in Nat
      BY <1>2, <2>2, PickMember
    <3>3. F[s] \in Nat
      BY <3>1, <3>2
    <3> QED
      BY <3>3
  <2> QED
    BY <2>1, <2>2
<1>3. D \in Good
  <2> HIDE DEF Good
  <2> QED
    BY <1>2, PartsInduction
<1> QED
  BY <1>1, <1>3 DEF AreSums

(* A sum of zeroes is zero.                                                 *)
THEOREM SumZero ==
    ASSUME NEW D, IsFiniteSet(D), NEW f, DOMAIN f = D, \A i \in D : f[i] = 0
    PROVE  SumFunction(f) = 0
<1>1. PICK F : AreSums(D, f, F)
  BY Sums
<1> DEFINE Good == {s \in SUBSET D : F[s] = 0}
<1>2. ASSUME NEW s \in SUBSET D, s = {} \/ s \ {Pick(s)} \in Good PROVE s \in Good
  <2>1. CASE s = {}
    BY <1>1, <2>1 DEF AreSums
  <2>2. CASE s # {}
    <3>1. F[s] = f[Pick(s)] + F[s \ {Pick(s)}]
      BY <1>1, <2>2 DEF AreSums
    <3>2. f[Pick(s)] = 0 /\ F[s \ {Pick(s)}] = 0
      BY <1>2, <2>2, PickMember
    <3>3. F[s] = 0
      BY <3>1, <3>2
    <3> QED
      BY <3>3
  <2> QED
    BY <2>1, <2>2
<1>3. D \in Good
  <2> HIDE DEF Good
  <2> QED
    BY <1>2, PartsInduction
<1> QED
  BY <1>1, <1>3 DEF AreSums

(* The sum of f + h is the sum of f and that of h.                          *)
THEOREM SumPlus ==
    ASSUME NEW D, IsFiniteSet(D), NEW f \in [D -> Int], NEW h \in [D -> Int]
    PROVE  SumFunction([i \in D |-> f[i] + h[i]]) = SumFunction(f) + SumFunction(h)
<1> DEFINE k == [i \in D |-> f[i] + h[i]]
<1>0. DOMAIN f = D /\ DOMAIN h = D /\ DOMAIN k = D /\ \A i \in D : k[i] = f[i] + h[i]
  OBVIOUS
<1> HIDE DEF k
<1>1. PICK F : AreSums(D, f, F)
  BY <1>0, Sums
<1>2. PICK H : AreSums(D, h, H)
  BY <1>0, Sums
<1>3. PICK K : AreSums(D, k, K)
  BY <1>0, Sums
<1> DEFINE Follows(s) == F[s] \in Int /\ H[s] \in Int /\ K[s] = F[s] + H[s]
           Good == {s \in SUBSET D : Follows(s)}
<1>4. ASSUME NEW s \in SUBSET D, s = {} \/ Follows(s \ {Pick(s)}) PROVE Follows(s)
  <2>1. CASE s = {}
    BY <1>1, <1>2, <1>3, <2>1 DEF AreSums
  <2>2. CASE s # {}
    <3>1. /\ Pick(s) \in D
          /\ F[s] = f[Pick(s)] + F[s \ {Pick(s)}]
          /\ H[s] = h[Pick(s)] + H[s \ {Pick(s)}]
          /\ K[s] = k[Pick(s)] + K[s \ {Pick(s)}]
      BY <1>1, <1>2, <1>3, <2>2, PickMember DEF AreSums
    <3>2. f[Pick(s)] \in Int /\ h[Pick(s)] \in Int /\ k[Pick(s)] = f[Pick(s)] + h[Pick(s)]
      BY <1>0, <3>1
    <3>3. Follows(s \ {Pick(s)})
      BY <1>4, <2>2
    <3> QED
      BY <3>1, <3>2, <3>3
  <2> QED
    BY <2>1, <2>2
<1>5. \A s \in SUBSET D : s = {} \/ s \ {Pick(s)} \in Good => s \in Good
  <2> HIDE DEF Follows
  <2> QED
    BY <1>4
<1>6. D \in Good
  <2> HIDE DEF Good
  <2> QED
    BY <1>5, PartsInduction
<1> QED
  BY <1>1, <1>2, <1>3, <1>6 DEF AreSums, k

============================================================================
