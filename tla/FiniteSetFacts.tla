--------------------------- MODULE FiniteSetFacts --------------------------
(***************************************************************************)
(* Facts about finite sets the proofs of several components need: least    *)
(* elements, the best of a ranking, and sums.  The induction theorems of   *)
(* the library take a predicate as their parameter; here induction runs    *)
(* over the set of the cases that are good.                                *)
(***************************************************************************)
EXTENDS Integers, FiniteSets, Functions, WellFoundedInduction,
        FiniteSetTheorems, TLAPS

---------------------------------------------------------------------------
(* Induction.                                                              *)

(* A nonempty set of natural numbers has a least element.                  *)
LEMMA NatMinimum ==
  ASSUME NEW S \in SUBSET Nat, S # {}
  PROVE  \E t \in S : \A u \in S : t <= u
<1> DEFINE R == OpToRel(<, Nat)
<1>1. IsWellFoundedOn(R, Nat)
  BY NatLessThanWellFounded
<1>2. \A u, t \in Nat : u < t => <<u, t>> \in R
  BY DEF OpToRel
<1> HIDE DEF R
<1>3. PICK t \in S : \A u \in S : ~ (<<u, t>> \in R)
  BY <1>1, WFMin
<1>4. \A u \in S : ~ (u < t)
  BY <1>2, <1>3
<1> QED BY <1>4

(* Induction, over the sets of the cases that are good.                    *)
LEMMA NatInduct ==
  ASSUME NEW Good \in SUBSET Nat, 0 \in Good, \A n \in Good : n + 1 \in Good
  PROVE  Good = Nat
<1>1. SUFFICES ASSUME Nat \ Good # {} PROVE FALSE
  OBVIOUS
<1>2. PICK n \in Nat \ Good : \A m \in Nat \ Good : n <= m
  BY <1>1, NatMinimum
<1>3. n # 0
  OBVIOUS
<1>4. n - 1 \in Good
  BY <1>2, <1>3
<1>5. (n - 1) + 1 \in Good
  BY <1>4
<1> QED BY <1>5

Pick(s) == CHOOSE x \in s : TRUE

LEMMA Picked ==
  ASSUME NEW S, IsFiniteSet(S), NEW s \in SUBSET S, s # {}
  PROVE  /\ Pick(s) \in s /\ Pick(s) \in S /\ s \ {Pick(s)} \in SUBSET S
         /\ Cardinality(s) \in Nat \ {0}
         /\ Cardinality(s \ {Pick(s)}) = Cardinality(s) - 1
<1>1. Pick(s) \in s
  BY DEF Pick
<1>2. IsFiniteSet(s) /\ Cardinality(s) \in Nat
  BY FS_Subset, FS_CardinalityType
<1>3. Cardinality(s \ {Pick(s)}) = Cardinality(s) - 1
  BY <1>1, <1>2, FS_RemoveElement
<1>4. Cardinality(s) # 0
  BY <1>2, FS_EmptySet
<1> QED BY <1>1, <1>2, <1>3, <1>4

(* What holds of {}, and of a set when it holds of it without its pick,    *)
(* holds of S.                                                             *)
LEMMA PickInduct ==
  ASSUME NEW S, IsFiniteSet(S), NEW Good \in SUBSET SUBSET S, {} \in Good,
         \A s \in SUBSET S : s # {} /\ s \ {Pick(s)} \in Good => s \in Good
  PROVE  S \in Good
<1> DEFINE Fine == {n \in Nat : \A s \in SUBSET S : Cardinality(s) = n => s \in Good}
<1>1. \A s \in SUBSET S : Cardinality(s) \in Nat /\ (Cardinality(s) = 0 => s = {})
  BY FS_Subset, FS_CardinalityType, FS_EmptySet
<1>2. 0 \in Fine
  BY <1>1
<1>3. ASSUME NEW n \in Fine PROVE n + 1 \in Fine
  <2> SUFFICES ASSUME NEW s \in SUBSET S, Cardinality(s) = n + 1 PROVE s \in Good
    OBVIOUS
  <2>1. s # {}
    BY FS_EmptySet
  <2>2. s \ {Pick(s)} \in SUBSET S /\ Cardinality(s \ {Pick(s)}) = n
    BY <2>1, Picked
  <2> QED BY <2>1, <2>2
<1> HIDE DEF Fine
<1>4. Fine = Nat
  <2>1. Fine \in SUBSET Nat
    BY DEF Fine
  <2> QED BY <1>2, <1>3, <2>1, NatInduct
<1> QED BY <1>1, <1>4 DEF Fine

(* Among finitely many there is one that is at least as good as the others.*)
LEMMA BestExists ==
  ASSUME NEW S, IsFiniteSet(S), S # {}, NEW W,
         \A x, y \in S : <<x, y>> \in W \/ <<y, x>> \in W,
         \A x, y, z \in S : <<x, y>> \in W /\ <<y, z>> \in W => <<x, z>> \in W
  PROVE  \E best \in S : \A x \in S : <<best, x>> \in W
<1> DEFINE Good == {s \in SUBSET S :
                      s # {} => \E best \in s : \A x \in s : <<best, x>> \in W}
<1>1. {} \in Good
  OBVIOUS
<1>2. ASSUME NEW s \in SUBSET S, s # {}, s \ {Pick(s)} \in Good PROVE s \in Good
  <2>1. Pick(s) \in s
    BY <1>2 DEF Pick
  <2>2. CASE s \ {Pick(s)} = {}
    <3>1. \A x \in s : x = Pick(s)
      BY <2>2
    <3>2. \A x \in s : <<Pick(s), x>> \in W
      BY <2>1, <3>1
    <3> QED BY <2>1, <3>2
  <2>3. CASE s \ {Pick(s)} # {}
    <3>1. PICK m \in s \ {Pick(s)} : \A x \in s \ {Pick(s)} : <<m, x>> \in W
      BY <1>2, <2>3
    <3>2. CASE <<m, Pick(s)>> \in W
      <4>1. \A x \in s : <<m, x>> \in W
        BY <3>1, <3>2
      <4> QED BY <4>1
    <3>3. CASE <<Pick(s), m>> \in W
      <4>1. \A x \in s : <<Pick(s), x>> \in W
        BY <2>1, <3>1, <3>3
      <4> QED BY <2>1, <4>1
    <3> QED BY <2>1, <3>1, <3>2, <3>3
  <2> QED BY <2>2, <2>3
<1> HIDE DEF Good
<1>3. S \in Good
  <2>1. Good \in SUBSET SUBSET S
    BY DEF Good
  <2> QED BY <1>1, <1>2, <2>1, PickInduct
<1> QED BY <1>3 DEF Good

---------------------------------------------------------------------------
(* Sums over finite sets.  The fold adds the values of a function in the   *)
(* order CHOOSE picks them, so sums over one set are compared pick by pick.*)

(* f is summed up by sum, on every set of at most n elements.              *)
SumsUp(sum, f, S, n) ==
  \A s \in SUBSET S : Cardinality(s) <= n =>
    sum[s] = IF s = {} THEN 0 ELSE f[Pick(s)] + sum[s \ {Pick(s)}]

LEMMA SumsExist ==
  ASSUME NEW S, IsFiniteSet(S), NEW f \in [S -> Int]
  PROVE  \A n \in Nat : \E sum \in [SUBSET S -> Int] : SumsUp(sum, f, S, n)
<1> DEFINE Good == {n \in Nat : \E sum \in [SUBSET S -> Int] : SumsUp(sum, f, S, n)}
<1>1. \A s \in SUBSET S : Cardinality(s) \in Nat /\ (Cardinality(s) = 0 <=> s = {})
  BY FS_Subset, FS_CardinalityType, FS_EmptySet
<1>2. 0 \in Good
  <2> DEFINE zero == [s \in SUBSET S |-> 0]
  <2>1. zero \in [SUBSET S -> Int] /\ SumsUp(zero, f, S, 0)
    BY <1>1 DEF SumsUp
  <2> QED BY <2>1
<1>3. ASSUME NEW n \in Good PROVE n + 1 \in Good
  <2>1. PICK sum \in [SUBSET S -> Int] : SumsUp(sum, f, S, n)
    OBVIOUS
  <2> DEFINE one(s) == f[Pick(s)] + sum[s \ {Pick(s)}]
             more == [s \in SUBSET S |-> IF Cardinality(s) <= n THEN sum[s] ELSE one(s)]
  <2>2. \A s \in SUBSET S : s # {} => one(s) \in Int
    <3> SUFFICES ASSUME NEW s \in SUBSET S, s # {} PROVE one(s) \in Int
      OBVIOUS
    <3>1. Pick(s) \in S /\ s \ {Pick(s)} \in SUBSET S
      BY Picked
    <3> QED BY <3>1
  <2>3. n \in Nat
    OBVIOUS
  <2>4. \A s \in SUBSET S : /\ Cardinality(s) <= n => more[s] = sum[s]
                            /\ ~ (Cardinality(s) <= n) => s # {} /\ more[s] = one(s)
    BY <1>1, <2>3
  <2>5. more \in [SUBSET S -> Int]
    <3>1. \A s \in SUBSET S : (IF Cardinality(s) <= n THEN sum[s] ELSE one(s)) \in Int
      BY <2>2, <2>4
    <3> HIDE DEF one
    <3> QED BY <3>1
  <2> HIDE DEF more
  <2>6. SumsUp(more, f, S, n + 1)
    <3> SUFFICES ASSUME NEW s \in SUBSET S, Cardinality(s) <= n + 1
                 PROVE  more[s] = IF s = {} THEN 0 ELSE f[Pick(s)] + more[s \ {Pick(s)}]
      BY DEF SumsUp
    <3>1. CASE s = {}
      <4>1. more[s] = sum[s] /\ Cardinality(s) <= n
        BY <1>1, <2>3, <2>4, <3>1
      <4> QED BY <2>1, <3>1, <4>1 DEF SumsUp
    <3>2. CASE s # {}
      <4>1. /\ s \ {Pick(s)} \in SUBSET S /\ Cardinality(s) \in Nat \ {0}
            /\ Cardinality(s \ {Pick(s)}) = Cardinality(s) - 1
        BY <3>2, Picked
      <4>2. more[s \ {Pick(s)}] = sum[s \ {Pick(s)}]
        <5>1. Cardinality(s \ {Pick(s)}) <= n
          BY <2>3, <4>1
        <5> QED BY <2>4, <4>1, <5>1
      <4>3. CASE Cardinality(s) <= n
        <5>1. more[s] = sum[s]
          BY <2>4, <4>3
        <5>2. sum[s] = f[Pick(s)] + sum[s \ {Pick(s)}]
          BY <2>1, <3>2, <4>3 DEF SumsUp
        <5> QED BY <3>2, <4>2, <5>1, <5>2
      <4>4. CASE ~ (Cardinality(s) <= n)
        BY <2>4, <3>2, <4>2, <4>4
      <4> QED BY <4>3, <4>4
    <3> QED BY <3>1, <3>2
  <2> QED BY <2>3, <2>5, <2>6
<1> HIDE DEF Good
<1>4. Good = Nat
  <2>1. Good \in SUBSET Nat
    BY DEF Good
  <2> QED BY <1>2, <1>3, <2>1, NatInduct
<1> QED BY <1>4 DEF Good

(* ... and on all of S.                                                    *)
IsSumOf(sum, f, S) ==
  /\ SumFunction(f) = sum[S]
  /\ sum[{}] = 0
  /\ \A s \in SUBSET S : s # {} => sum[s] = f[Pick(s)] + sum[s \ {Pick(s)}]

LEMMA SumUnfolds ==
  ASSUME NEW S, IsFiniteSet(S), NEW f \in [S -> Int]
  PROVE  \E sum \in [SUBSET S -> Int] : IsSumOf(sum, f, S)
<1> DEFINE Sum(g) == [s \in SUBSET S |->
                        IF s = {} THEN 0 ELSE f[Pick(s)] + g[s \ {Pick(s)}]]
           sum == CHOOSE g : g = Sum(g)
           Unfolds(s) == sum[s] = IF s = {} THEN 0 ELSE f[Pick(s)] + sum[s \ {Pick(s)}]
<1>1. SumFunction(f) = sum[S]
  BY Zenon DEF SumFunction, SumFunctionOnSet, FoldFunctionOnSet, MapThenFoldSet, Pick
<1>2. Cardinality(S) \in Nat
  BY FS_CardinalityType
<1>3. PICK g \in [SUBSET S -> Int] : SumsUp(g, f, S, Cardinality(S))
  BY <1>2, SumsExist
<1>4. \A s \in SUBSET S : Cardinality(s) <= Cardinality(S)
  BY FS_Subset
<1>5. \A s \in SUBSET S : g[s] = IF s = {} THEN 0 ELSE f[Pick(s)] + g[s \ {Pick(s)}]
  BY <1>3, <1>4 DEF SumsUp
<1>6. g = Sum(g)
  BY <1>5
<1> HIDE DEF Sum
<1>7. sum = Sum(sum)
  BY <1>6
<1> HIDE DEF sum
<1>8. \A s \in SUBSET S : Unfolds(s)
  BY <1>7 DEF Sum
<1>9. sum = [s \in SUBSET S |-> sum[s]]
  BY <1>7 DEF Sum
<1>10. ASSUME NEW x \in SUBSET S PROVE sum[x] \in Int
  <2> DEFINE Good == {s \in SUBSET x : sum[s] \in Int}
  <2>1. IsFiniteSet(x)
    BY FS_Subset
  <2>2. {} \in Good
    <3>1. Unfolds({})
      BY <1>8
    <3> QED BY <3>1
  <2>3. ASSUME NEW s \in SUBSET x, s # {}, s \ {Pick(s)} \in Good PROVE s \in Good
    <3>1. Unfolds(s)
      BY <1>8
    <3>2. Pick(s) \in x
      BY <2>1, <2>3, Picked
    <3>3. f[Pick(s)] \in Int /\ sum[s \ {Pick(s)}] \in Int
      BY <2>3, <3>2
    <3> QED BY <2>3, <3>1, <3>3
  <2> HIDE DEF Good
  <2>4. x \in Good
    <3>1. Good \in SUBSET SUBSET x
      BY DEF Good
    <3> QED BY <2>1, <2>2, <2>3, <3>1, PickInduct
  <2> QED BY <2>4 DEF Good
<1>11. sum \in [SUBSET S -> Int]
  BY <1>9, <1>10
<1>12. sum[{}] = 0
  <2>1. Unfolds({})
    BY <1>8
  <2> QED BY <2>1
<1>13. \A s \in SUBSET S : s # {} => sum[s] = f[Pick(s)] + sum[s \ {Pick(s)}]
  BY <1>8
<1> QED BY <1>1, <1>11, <1>12, <1>13 DEF IsSumOf

LEMMA SumType ==
  ASSUME NEW S, IsFiniteSet(S), NEW f \in [S -> Int]
  PROVE  SumFunction(f) \in Int
<1>1. PICK sum \in [SUBSET S -> Int] : IsSumOf(sum, f, S)
  BY SumUnfolds
<1> QED BY <1>1 DEF IsSumOf

LEMMA SumBelow ==
  ASSUME NEW S, IsFiniteSet(S), NEW f \in [S -> Int], NEW g \in [S -> Int],
         \A x \in S : f[x] <= g[x]
  PROVE  SumFunction(f) <= SumFunction(g)
<1>1. PICK a \in [SUBSET S -> Int] : IsSumOf(a, f, S)
  BY SumUnfolds
<1>2. PICK b \in [SUBSET S -> Int] : IsSumOf(b, g, S)
  BY SumUnfolds
<1> DEFINE Good == {s \in SUBSET S : a[s] <= b[s]}
<1>3. {} \in Good
  BY <1>1, <1>2 DEF IsSumOf
<1>4. ASSUME NEW s \in SUBSET S, s # {}, s \ {Pick(s)} \in Good PROVE s \in Good
  <2>1. /\ Pick(s) \in S /\ a[s] = f[Pick(s)] + a[s \ {Pick(s)}]
        /\ b[s] = g[Pick(s)] + b[s \ {Pick(s)}]
    BY <1>1, <1>2, <1>4, Picked DEF IsSumOf
  <2>2. /\ f[Pick(s)] \in Int /\ g[Pick(s)] \in Int /\ f[Pick(s)] <= g[Pick(s)]
        /\ a[s \ {Pick(s)}] \in Int /\ b[s \ {Pick(s)}] \in Int
        /\ a[s \ {Pick(s)}] <= b[s \ {Pick(s)}]
    BY <1>4, <2>1
  <2> QED BY <2>1, <2>2
<1> HIDE DEF Good
<1>5. S \in Good
  <2>1. Good \in SUBSET SUBSET S
    BY DEF Good
  <2> QED BY <1>3, <1>4, <2>1, PickInduct
<1> QED BY <1>1, <1>2, <1>5 DEF Good, IsSumOf

LEMMA SumAdds ==
  ASSUME NEW S, IsFiniteSet(S), NEW f \in [S -> Int], NEW g \in [S -> Int],
         NEW h \in [S -> Int], \A x \in S : h[x] = f[x] + g[x]
  PROVE  SumFunction(h) = SumFunction(f) + SumFunction(g)
<1>1. PICK a \in [SUBSET S -> Int] : IsSumOf(a, f, S)
  BY SumUnfolds
<1>2. PICK b \in [SUBSET S -> Int] : IsSumOf(b, g, S)
  BY SumUnfolds
<1>3. PICK c \in [SUBSET S -> Int] : IsSumOf(c, h, S)
  BY SumUnfolds
<1> DEFINE Good == {s \in SUBSET S : c[s] = a[s] + b[s]}
<1>4. {} \in Good
  BY <1>1, <1>2, <1>3 DEF IsSumOf
<1>5. ASSUME NEW s \in SUBSET S, s # {}, s \ {Pick(s)} \in Good PROVE s \in Good
  <2>1. /\ Pick(s) \in S /\ a[s] = f[Pick(s)] + a[s \ {Pick(s)}]
        /\ b[s] = g[Pick(s)] + b[s \ {Pick(s)}]
        /\ c[s] = h[Pick(s)] + c[s \ {Pick(s)}]
    BY <1>1, <1>2, <1>3, <1>5, Picked DEF IsSumOf
  <2>2. /\ f[Pick(s)] \in Int /\ g[Pick(s)] \in Int /\ h[Pick(s)] = f[Pick(s)] + g[Pick(s)]
        /\ a[s \ {Pick(s)}] \in Int /\ b[s \ {Pick(s)}] \in Int
        /\ c[s \ {Pick(s)}] = a[s \ {Pick(s)}] + b[s \ {Pick(s)}]
    BY <1>5, <2>1
  <2> QED BY <2>1, <2>2
<1> HIDE DEF Good
<1>6. S \in Good
  <2>1. Good \in SUBSET SUBSET S
    BY DEF Good
  <2> QED BY <1>4, <1>5, <2>1, PickInduct
<1> QED BY <1>1, <1>2, <1>3, <1>6 DEF Good, IsSumOf

LEMMA SumChanges ==
  ASSUME NEW S, IsFiniteSet(S), NEW f \in [S -> Int], NEW g \in [S -> Int],
         NEW x \in S, \A y \in S : y # x => g[y] = f[y]
  PROVE  SumFunction(g) = SumFunction(f) + (g[x] - f[x])
<1>1. PICK a \in [SUBSET S -> Int] : IsSumOf(a, f, S)
  BY SumUnfolds
<1>2. PICK b \in [SUBSET S -> Int] : IsSumOf(b, g, S)
  BY SumUnfolds
<1> DEFINE Good == {s \in SUBSET S : /\ x \in s => b[s] = a[s] + (g[x] - f[x])
                                     /\ x \notin s => b[s] = a[s]}
<1>3. {} \in Good
  BY <1>1, <1>2 DEF IsSumOf
<1>4. ASSUME NEW s \in SUBSET S, s # {}, s \ {Pick(s)} \in Good PROVE s \in Good
  <2> DEFINE y == Pick(s)
             t == s \ {y}
  <2>1. /\ y \in s /\ y \in S /\ a[s] = f[y] + a[t] /\ b[s] = g[y] + b[t]
    BY <1>1, <1>2, <1>4, Picked DEF IsSumOf
  <2>2. /\ f[y] \in Int /\ g[y] \in Int /\ f[x] \in Int /\ g[x] \in Int
        /\ a[t] \in Int /\ b[t] \in Int
        /\ x \in t => b[t] = a[t] + (g[x] - f[x])
        /\ x \notin t => b[t] = a[t]
    BY <1>4, <2>1
  <2> HIDE DEF y
  <2>3. CASE y = x
    <3>1. x \in s /\ x \notin t
      BY <2>1, <2>3
    <3> HIDE DEF t
    <3>2. b[s] = a[s] + (g[x] - f[x])
      BY <2>1, <2>2, <2>3, <3>1
    <3> QED BY <3>1, <3>2
  <2>4. CASE y # x
    <3>1. (x \in s <=> x \in t) /\ g[y] = f[y]
      BY <2>1, <2>4
    <3> HIDE DEF t
    <3>2. /\ x \in s => b[s] = a[s] + (g[x] - f[x])
          /\ x \notin s => b[s] = a[s]
      BY <2>1, <2>2, <3>1
    <3> QED BY <3>2
  <2> QED BY <2>3, <2>4
<1> HIDE DEF Good
<1>5. S \in Good
  <2>1. Good \in SUBSET SUBSET S
    BY DEF Good
  <2> QED BY <1>3, <1>4, <2>1, PickInduct
<1> QED BY <1>1, <1>2, <1>5 DEF Good, IsSumOf

LEMMA SumOfNothing ==
  ASSUME NEW S, IsFiniteSet(S), NEW f \in [S -> Int], \A x \in S : f[x] = 0
  PROVE  SumFunction(f) = 0
<1>1. SumFunction(f) = SumFunction(f) + SumFunction(f)
  BY SumAdds
<1> QED BY <1>1, SumType

LEMMA SumOfNats ==
  ASSUME NEW S, IsFiniteSet(S), NEW f \in [S -> Nat]
  PROVE  SumFunction(f) \in Nat /\ \A x \in S : f[x] <= SumFunction(f)
<1> DEFINE zero == [x \in S |-> 0]
<1>1. f \in [S -> Int] /\ zero \in [S -> Int] /\ \A x \in S : zero[x] <= f[x]
  OBVIOUS
<1>2. SumFunction(zero) = 0
  BY <1>1, SumOfNothing
<1>3. SumFunction(f) \in Nat
  BY <1>1, <1>2, SumBelow, SumType
<1>4. ASSUME NEW x \in S PROVE f[x] <= SumFunction(f)
  <2> DEFINE rest == [f EXCEPT ![x] = 0]
  <2>1. rest \in [S -> Int] /\ rest[x] = 0 /\ f[x] \in Int
        /\ \A y \in S : y # x => rest[y] = f[y]
    BY <1>1
  <2>2. \A y \in S : zero[y] <= rest[y]
    BY <2>1
  <2> HIDE DEF rest, zero
  <2>3. SumFunction(rest) = SumFunction(f) + (rest[x] - f[x])
    BY <1>1, <2>1, SumChanges
  <2>4. SumFunction(zero) <= SumFunction(rest)
    BY <1>1, <2>1, <2>2, SumBelow
  <2> QED BY <1>2, <1>3, <2>1, <2>3, <2>4
<1> QED BY <1>3, <1>4

PartOf(f, S, kind, k) == [x \in S |-> IF kind[x] = k THEN f[x] ELSE 0]
PartSums(f, S, kind, K) == [k \in K |-> SumFunction(PartOf(f, S, kind, k))]

(* What is summed up class by class is part of the whole.                  *)
LEMMA SumOfParts ==
  ASSUME NEW S, IsFiniteSet(S), NEW K, IsFiniteSet(K),
         NEW f \in [S -> Nat], NEW kind
  PROVE  SumFunction(PartSums(f, S, kind, K)) <= SumFunction(f)
<1> DEFINE part(k) == PartOf(f, S, kind, k)
           of(k) == CHOOSE sum \in [SUBSET S -> Int] : IsSumOf(sum, part(k), S)
           parts(s) == [k \in K |-> of(k)[s]]
<1>1. PICK a \in [SUBSET S -> Int] : IsSumOf(a, f, S)
  <2>1. f \in [S -> Int]
    OBVIOUS
  <2> QED BY <2>1, SumUnfolds
<1>2. ASSUME NEW k PROVE of(k) \in [SUBSET S -> Int] /\ IsSumOf(of(k), part(k), S)
  <2>1. part(k) \in [S -> Int]
    BY DEF PartOf
  <2> HIDE DEF part
  <2>2. \E sum \in [SUBSET S -> Int] : IsSumOf(sum, part(k), S)
    BY <2>1, SumUnfolds
  <2> QED BY <2>2
<1> DEFINE Good == {s \in SUBSET S : SumFunction(parts(s)) <= a[s]}
<1>3. \A x \in S : \A k : part(k)[x] = IF kind[x] = k THEN f[x] ELSE 0
  BY DEF PartOf
<1> HIDE DEF of, part
<1>4. \A s \in SUBSET S : parts(s) \in [K -> Int]
  BY <1>2
<1>5. \A s \in SUBSET S, k \in K : parts(s)[k] = of(k)[s]
  OBVIOUS
<1> HIDE DEF parts
<1>6. {} \in Good
  <2>1. \A k \in K : parts({})[k] = 0
    BY <1>2, <1>5 DEF IsSumOf
  <2>2. SumFunction(parts({})) = 0
    BY <1>4, <2>1, SumOfNothing
  <2> QED BY <1>1, <2>2 DEF IsSumOf
<1>7. ASSUME NEW s \in SUBSET S, s # {}, s \ {Pick(s)} \in Good PROVE s \in Good
  <2> DEFINE x == Pick(s)
             t == s \ {x}
  <2>1. x \in S /\ t \in SUBSET S /\ a[s] = f[x] + a[t]
    BY <1>1, <1>7, Picked DEF IsSumOf
  <2>2. \A k \in K : parts(s)[k] = part(k)[x] + parts(t)[k]
    BY <1>2, <1>5, <1>7, <2>1 DEF IsSumOf
  <2>3. SumFunction(parts(t)) <= a[t]
    BY <1>7
  <2> HIDE DEF x, t
  <2>4. /\ parts(s) \in [K -> Int] /\ parts(t) \in [K -> Int]
        /\ f[x] \in Nat /\ a[t] \in Int
    BY <1>4, <2>1
  <2>5. SumFunction(parts(t)) \in Int /\ SumFunction(parts(s)) \in Int
    BY <2>4, SumType
  <2>6. CASE kind[x] \in K
    <3>1. \A k \in K : k # kind[x] => parts(s)[k] = parts(t)[k]
      BY <1>3, <2>1, <2>2, <2>4
    <3>2. parts(s)[kind[x]] = f[x] + parts(t)[kind[x]]
      BY <1>3, <2>1, <2>2, <2>6
    <3>3. SumFunction(parts(s))
            = SumFunction(parts(t)) + (parts(s)[kind[x]] - parts(t)[kind[x]])
      BY <2>4, <2>6, <3>1, SumChanges
    <3>4. parts(s)[kind[x]] \in Int /\ parts(t)[kind[x]] \in Int
      BY <2>4, <2>6
    <3>5. SumFunction(parts(s)) = SumFunction(parts(t)) + f[x]
      BY <2>4, <2>5, <3>2, <3>3, <3>4
    <3> QED BY <2>1, <2>3, <2>4, <2>5, <3>5
  <2>7. CASE kind[x] \notin K
    <3>1. \A k \in K : parts(s)[k] = parts(t)[k]
      BY <1>3, <2>1, <2>2, <2>4, <2>7
    <3>2. parts(s) = parts(t)
      BY <2>4, <3>1
    <3> QED BY <2>1, <2>3, <2>4, <2>5, <3>2
  <2> QED BY <2>6, <2>7
<1> HIDE DEF Good
<1>8. S \in Good
  <2>1. Good \in SUBSET SUBSET S
    BY DEF Good
  <2> QED BY <1>6, <1>7, <2>1, PickInduct
<1>9. parts(S) = [k \in K |-> SumFunction(part(k))]
  <2>1. \A k \in K : parts(S)[k] = SumFunction(part(k))
    BY <1>2, <1>5 DEF IsSumOf
  <2> QED BY <1>4, <2>1
<1>10. SumFunction(f) = a[S]
  BY <1>1 DEF IsSumOf
<1> QED BY <1>8, <1>9, <1>10 DEF Good, part, PartSums
=============================================================================
