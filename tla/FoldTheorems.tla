---------------------------- MODULE FoldTheorems ----------------------------
(***************************************************************************)
(* What the proofs need of numbers, finite sets and the folds of the       *)
(* community modules.  SumFunction and FoldFunction combine the values of  *)
(* a function in an order that CHOOSE picks; a round takes one value away, *)
(* and induction goes along the rounds.                                    *)
(***************************************************************************)
EXTENDS Integers, Functions, FiniteSetTheorems, WellFoundedInduction, TLAPS

-----------------------------------------------------------------------------
(* Induction, by way of the smallest number or the largest set for which   *)
(* something holds.                                                        *)

LEMMA SmallestNumber ==
  ASSUME NEW B \in SUBSET Nat, B # {}
  PROVE  \E m \in B : \A k \in B : m <= k
<1>1. PICK m \in B : \A k \in B : ~ (<<k, m>> \in OpToRel(<, Nat))
  BY WFMin, NatLessThanWellFounded
<1>2. \A k \in B : ~ (k < m)
  BY <1>1 DEF OpToRel
<1>3. QED
  BY <1>2

(* A set of subsets of a finite set that is not empty has a largest one in *)
(* it, one that no other contains.                                         *)
LEMMA LargestSet ==
  ASSUME NEW S, IsFiniteSet(S), NEW T \in SUBSET (SUBSET S), T # {}
  PROVE  \E R \in T : \A Q \in T : R \subseteq Q => Q = R
<1> DEFINE C == {S \ R : R \in T}
<1>1. C \subseteq SUBSET S /\ C # {}
  <2>1. PICK R \in T : TRUE
    OBVIOUS
  <2>2. S \ R \in C
    BY <2>1
  <2>3. ASSUME NEW c \in C
        PROVE  c \in SUBSET S
    <3>1. PICK Q \in T : c = S \ Q
      OBVIOUS
    <3>2. \A e \in c : e \in S
      BY <3>1
    <3>3. QED
      BY <3>2
  <2>4. QED
    BY <2>2, <2>3
<1>2. IsWellFoundedOn(StrictSubsetOrdering(S), SUBSET S)
  BY FS_StrictSubsetOrderingWellFounded, FS_FiniteSubsetsOfFinite
<1>3. PICK x \in C : \A y \in C : ~ (<<y, x>> \in StrictSubsetOrdering(S))
  BY <1>1, <1>2, WFMin
<1>4. PICK R \in T : x = S \ R
  OBVIOUS
<1>5. ASSUME NEW Q \in T, R \subseteq Q
      PROVE  Q = R
  <2>1. S \ Q \in C /\ S \ Q \subseteq x
    BY <1>4, <1>5
  <2>2. S \ Q = x
    BY <1>1, <1>3, <2>1 DEF StrictSubsetOrdering
  <2>3. QED
    BY <1>4, <2>2
<1>6. QED
  BY <1>5

LEMMA DisjointSizes ==
  ASSUME NEW S, NEW T, IsFiniteSet(S), IsFiniteSet(T), S \cap T = {}
  PROVE  IsFiniteSet(S \cup T) /\ Cardinality(S \cup T) = Cardinality(S) + Cardinality(T)
<1>1. Cardinality(S) \in Nat /\ Cardinality(T) \in Nat
  BY FS_CardinalityType
<1>2. IsFiniteSet(S \cup T) /\ Cardinality(S \cup T) = Cardinality(S) + Cardinality(T) - Cardinality({})
  BY FS_Union
<1>3. QED
  BY <1>1, <1>2, FS_EmptySet

LEMMA PowerType == \A n \in Nat : 2 ^ n \in Nat \ {0}
<1>1. SUFFICES ASSUME NEW n \in Nat PROVE 2 ^ n \in Nat \ {0}
  OBVIOUS
<1>2. PICK S : S = 1 .. n
  OBVIOUS
<1>3. IsFiniteSet(S) /\ Cardinality(S) = n
  BY <1>2, FS_Interval
<1>4. IsFiniteSet(SUBSET S) /\ Cardinality(SUBSET S) = 2 ^ n
  BY <1>3, FS_SUBSET
<1>5. Cardinality(SUBSET S) \in Nat
  BY <1>4, FS_CardinalityType
<1>6. Cardinality(SUBSET S) # 0
  <2>1. S \in SUBSET S
    OBVIOUS
  <2>2. SUBSET S # {}
    BY <2>1
  <2>3. QED
    BY <1>4, <2>2, FS_EmptySet
<1>7. QED
  BY <1>4, <1>5, <1>6

-----------------------------------------------------------------------------
(* Rounds.                                                                 *)

Pick(s) == CHOOSE x \in s : TRUE

(* Induction along the order of the rounds: a family of subsets holds all  *)
(* of them if it holds the empty one, and with what is left of a set when  *)
(* its pick is taken away also that set.                                   *)
LEMMA RoundInduction ==
  ASSUME NEW D, IsFiniteSet(D), NEW Good \in SUBSET (SUBSET D), {} \in Good,
         \A s \in SUBSET D : s # {} /\ s \ {Pick(s)} \in Good => s \in Good
  PROVE  \A s \in SUBSET D : s \in Good
<1> DEFINE Bad == (SUBSET D) \ Good
<1>1. IsWellFoundedOn(StrictSubsetOrdering(D), SUBSET D)
  BY FS_StrictSubsetOrderingWellFounded, FS_FiniteSubsetsOfFinite
<1>2. SUFFICES ASSUME Bad # {}
               PROVE  FALSE
  OBVIOUS
<1>3. Bad \subseteq SUBSET D
  OBVIOUS
<1> HIDE DEF Bad
<1>4. PICK s \in Bad : \A r \in Bad : ~ (<<r, s>> \in StrictSubsetOrdering(D))
  BY <1>1, <1>2, <1>3, WFMin
<1> USE DEF Bad
<1>5. s # {} /\ Pick(s) \in s
  BY DEF Pick
<1>6. s \ {Pick(s)} \in SUBSET D /\ s \ {Pick(s)} \subseteq s /\ s \ {Pick(s)} # s
  BY <1>5
<1>7. <<s \ {Pick(s)}, s>> \in StrictSubsetOrdering(D)
  BY <1>6 DEF StrictSubsetOrdering
<1>8. QED
  BY <1>4, <1>5, <1>6, <1>7

(* A round that combines a value with what the rounds before have made: g  *)
(* does the combining.                                                     *)
FoldRound(g, base, fold, s) == IF s = {} THEN base ELSE g[<<Pick(s), fold[s \ {Pick(s)}]>>]

Folds(g, base, D, V) ==
  \E fold \in [SUBSET D -> V] : \A s \in SUBSET D : fold[s] = FoldRound(g, base, fold, s)

(* There is a function that folds round by round.  It is found for the     *)
(* subsets of up to m members, with m counted up to the size of the set.   *)
LEMMA FoldExists ==
  ASSUME NEW D, IsFiniteSet(D), NEW V, NEW base \in V, NEW g \in [D \X V -> V]
  PROVE  Folds(g, base, D, V)
<1> DEFINE Upto(fold, m) == \A s \in SUBSET D : Cardinality(s) <= m => fold[s] = FoldRound(g, base, fold, s)
           Bad == {m \in Nat : \A fold \in [SUBSET D -> V] : ~Upto(fold, m)}
<1>1. \A s \in SUBSET D : IsFiniteSet(s) /\ Cardinality(s) \in Nat /\ Cardinality(s) <= Cardinality(D)
  BY FS_Subset, FS_CardinalityType
<1>2. \A s \in SUBSET D : s # {} =>
        /\ Pick(s) \in s /\ s \ {Pick(s)} \in SUBSET D
        /\ Cardinality(s \ {Pick(s)}) = Cardinality(s) - 1
  <2>1. ASSUME NEW s \in SUBSET D, s # {}
        PROVE  Pick(s) \in s
    BY <2>1 DEF Pick
  <2>2. QED
    BY <1>1, <2>1, FS_RemoveElement
<1>3. \A s \in SUBSET D : Cardinality(s) = 0 <=> s = {}
  BY <1>1, FS_EmptySet
<1>4. Bad = {}
  <2> SUFFICES ASSUME Bad # {}
               PROVE  FALSE
    OBVIOUS
  <2>1. PICK m \in Bad : \A k \in Bad : m <= k
    <3>1. Bad \in SUBSET Nat
      OBVIOUS
    <3> HIDE DEF Bad
    <3>2. QED
      BY <3>1, SmallestNumber
  <2>2. m \in Nat
    OBVIOUS
  <2>3. CASE m = 0
    <3> DEFINE fold == [s \in SUBSET D |-> base]
    <3>1. fold \in [SUBSET D -> V]
      OBVIOUS
    <3>2. ASSUME NEW s \in SUBSET D, Cardinality(s) <= 0
          PROVE  fold[s] = FoldRound(g, base, fold, s)
      BY <1>1, <1>3, <3>2 DEF FoldRound
    <3>3. Upto(fold, m)
      BY <2>3, <3>2
    <3>4. QED
      BY <2>1, <3>1, <3>3
  <2>4. CASE m > 0
    <3>1. m - 1 \in Nat /\ m - 1 \notin Bad
      <4> HIDE DEF Bad
      <4>1. QED
        BY <2>1, <2>2, <2>4
    <3>2. PICK old \in [SUBSET D -> V] : Upto(old, m - 1)
      BY <3>1
    <3> DEFINE fold == [s \in SUBSET D |-> IF Cardinality(s) = m THEN FoldRound(g, base, old, s) ELSE old[s]]
    <3>3. \A s \in SUBSET D : FoldRound(g, base, old, s) \in V
      <4>1. ASSUME NEW s \in SUBSET D, s # {}
            PROVE  FoldRound(g, base, old, s) \in V
        <5>1. Pick(s) \in D /\ old[s \ {Pick(s)}] \in V
          BY <1>2, <4>1
        <5>2. QED
          BY <4>1, <5>1 DEF FoldRound
      <4>2. QED
        BY <4>1 DEF FoldRound
    <3>4. fold \in [SUBSET D -> V]
      BY <3>3
    <3>5. ASSUME NEW s \in SUBSET D, Cardinality(s) <= m
          PROVE  fold[s] = FoldRound(g, base, fold, s)
      <4>1. s # {} => fold[s \ {Pick(s)}] = old[s \ {Pick(s)}]
        BY <1>1, <1>2, <2>2, <3>5
      <4>2. FoldRound(g, base, fold, s) = FoldRound(g, base, old, s)
        BY <4>1 DEF FoldRound
      <4>3. Cardinality(s) # m => old[s] = FoldRound(g, base, old, s)
        BY <1>1, <2>2, <3>2, <3>5
      <4>4. QED
        BY <4>2, <4>3
    <3>6. Upto(fold, m)
      BY <3>5
    <3>7. QED
      BY <2>1, <3>4, <3>6
  <2>5. QED
    BY <2>2, <2>3, <2>4
<1>5. PICK fold \in [SUBSET D -> V] : Upto(fold, Cardinality(D))
  BY <1>1, <1>4
<1>6. \A s \in SUBSET D : fold[s] = FoldRound(g, base, fold, s)
  BY <1>1, <1>5
<1>7. QED
  BY <1>6 DEF Folds

-----------------------------------------------------------------------------
(* Sums.                                                                   *)

SumRound(f, sum, s) == IF s = {} THEN 0 ELSE f[Pick(s)] + sum[s \ {Pick(s)}]

Total(f, D) == CHOOSE sum : sum = [s \in SUBSET D |-> SumRound(f, sum, s)]

LEMMA SumIsTotal ==
  ASSUME NEW f, NEW D
  PROVE  SumFunctionOnSet(f, D) = Total(f, D)[D]
BY DEF SumFunctionOnSet, FoldFunctionOnSet, MapThenFoldSet, Total, SumRound, Pick

LEMMA TotalExists ==
  ASSUME NEW D, IsFiniteSet(D), NEW f, \A d \in D : f[d] \in Nat
  PROVE  /\ Total(f, D) \in [SUBSET D -> Nat]
         /\ \A s \in SUBSET D : Total(f, D)[s] = SumRound(f, Total(f, D), s)
<1>1. PICK g : g = [p \in D \X Nat |-> f[p[1]] + p[2]]
  OBVIOUS
<1>2. \A d \in D, n \in Nat : g[<<d, n>>] = f[d] + n
  BY <1>1
<1>3. PICK sum \in [SUBSET D -> Nat] : \A s \in SUBSET D : sum[s] = FoldRound(g, 0, sum, s)
  <2>1. PICK V, base : V = Nat /\ base = 0
    OBVIOUS
  <2>2. g \in [D \X V -> V] /\ base \in V
    BY <1>1, <2>1
  <2>3. Folds(g, base, D, V)
    BY <2>2, FoldExists
  <2>4. QED
    BY <2>1, <2>3 DEF Folds
<1>4. ASSUME NEW s \in SUBSET D
      PROVE  sum[s] = SumRound(f, sum, s)
  <2>1. s # {} => Pick(s) \in D /\ s \ {Pick(s)} \in SUBSET D
    BY DEF Pick
  <2>2. s # {} => g[<<Pick(s), sum[s \ {Pick(s)}]>>] = f[Pick(s)] + sum[s \ {Pick(s)}]
    BY <1>2, <2>1
  <2>3. QED
    BY <1>3, <2>2 DEF FoldRound, SumRound
<1>5. sum = [s \in SUBSET D |-> SumRound(f, sum, s)]
  BY <1>4
<1>6. Total(f, D) = [s \in SUBSET D |-> SumRound(f, Total(f, D), s)]
  BY <1>5 DEF Total
<1>7. \A s \in SUBSET D : Total(f, D)[s] = SumRound(f, Total(f, D), s)
  BY <1>6
<1>8. \A s \in SUBSET D : Total(f, D)[s] \in Nat
  <2> DEFINE Good == {s \in SUBSET D : Total(f, D)[s] \in Nat}
  <2>1. {} \in Good
    BY <1>7 DEF SumRound
  <2>2. ASSUME NEW s \in SUBSET D, s # {}, s \ {Pick(s)} \in Good
        PROVE  s \in Good
    <3>1. Pick(s) \in D /\ Total(f, D)[s \ {Pick(s)}] \in Nat
      BY <2>2 DEF Pick
    <3>2. Total(f, D)[s] = f[Pick(s)] + Total(f, D)[s \ {Pick(s)}]
      BY <1>7, <2>2 DEF SumRound
    <3>3. QED
      BY <3>1, <3>2
  <2>3. Good \in SUBSET (SUBSET D)
    OBVIOUS
  <2> HIDE DEF Good
  <2>4. \A s \in SUBSET D : s \in Good
    BY <2>1, <2>2, <2>3, RoundInduction
  <2> USE DEF Good
  <2>5. QED
    BY <2>4
<1>9. QED
  BY <1>6, <1>7, <1>8

LEMMA SumType ==
  ASSUME NEW D, IsFiniteSet(D), NEW f, \A d \in D : f[d] \in Nat
  PROVE  SumFunctionOnSet(f, D) \in Nat
BY TotalExists, SumIsTotal

(* When one value changes, the sum changes by the difference. *)
LEMMA SumChange ==
  ASSUME NEW D, IsFiniteSet(D), NEW f \in [D -> Nat], NEW d \in D, NEW v \in Nat
  PROVE  /\ SumFunction(f) \in Nat
         /\ SumFunction([f EXCEPT ![d] = v]) = SumFunction(f) - f[d] + v
<1> DEFINE g == [f EXCEPT ![d] = v]
           old == Total(f, D)
           new == Total(g, D)
           Shift(s) == IF d \in s THEN v - f[d] ELSE 0
           Good == {s \in SUBSET D : new[s] = old[s] + Shift(s)}
<1>1. g \in [D -> Nat] /\ g[d] = v /\ \A e \in D \ {d} : g[e] = f[e]
  OBVIOUS
<1> HIDE DEF g
<1>2. /\ old \in [SUBSET D -> Nat] /\ new \in [SUBSET D -> Nat]
      /\ \A s \in SUBSET D : old[s] = SumRound(f, old, s) /\ new[s] = SumRound(g, new, s)
  BY <1>1, TotalExists, ZenonT(60)
<1> HIDE DEF old, new
<1>3. {} \in Good
  <2>1. {} \in SUBSET D /\ old[{}] = 0 /\ new[{}] = 0
    BY <1>2 DEF SumRound
  <2>2. QED
    BY <2>1
<1>4. ASSUME NEW s \in SUBSET D, s # {}, s \ {Pick(s)} \in Good
      PROVE  s \in Good
  <2> DEFINE x == Pick(s)
             r == s \ {x}
  <2>1. x \in s
    BY <1>4 DEF Pick
  <2>2. old[s] = f[x] + old[r] /\ new[s] = g[x] + new[r] /\ new[r] = old[r] + Shift(r)
    BY <1>2, <1>4 DEF SumRound
  <2> HIDE DEF x
  <2>3. r \in SUBSET D /\ x \in D
    BY <2>1
  <2>4. old[r] \in Nat /\ new[r] \in Nat /\ f[x] \in Nat /\ g[x] \in Nat /\ f[d] \in Nat
    BY <1>1, <1>2, <2>3
  <2>5. new[s] = old[s] + Shift(s)
    <3>1. CASE x = d
      <4>1. d \in s /\ d \notin r /\ g[x] = v /\ f[x] = f[d]
        BY <1>1, <2>1, <3>1
      <4>2. QED
        BY <2>2, <2>4, <4>1
    <3>2. CASE x # d
      <4>1. (d \in s <=> d \in r) /\ g[x] = f[x]
        BY <1>1, <2>3, <3>2
      <4>2. QED
        BY <2>2, <2>4, <4>1
    <3>3. QED
      BY <3>1, <3>2
  <2>6. QED
    BY <2>5
<1>5. Good \in SUBSET (SUBSET D)
  OBVIOUS
<1> HIDE DEF Good
<1>6. D \in Good
  BY <1>3, <1>4, <1>5, RoundInduction
<1> USE DEF Good
<1>7. new[D] = old[D] + (v - f[d]) /\ old[D] \in Nat /\ f[d] \in Nat
  BY <1>2, <1>6
<1>8. SumFunction(f) = old[D] /\ SumFunction(g) = new[D]
  BY <1>1, SumIsTotal DEF old, new, SumFunction
<1>9. QED
  BY <1>7, <1>8 DEF g

(* Nothing adds up to nothing. *)
LEMMA SumZero ==
  ASSUME NEW D, IsFiniteSet(D)
  PROVE  SumFunction([d \in D |-> 0]) = 0
<1> DEFINE f == [d \in D |-> 0]
           Good == {s \in SUBSET D : Total(f, D)[s] = 0}
<1>1. f \in [D -> Nat] /\ \A d \in D : f[d] = 0
  OBVIOUS
<1> HIDE DEF f
<1>2. /\ Total(f, D) \in [SUBSET D -> Nat]
      /\ \A s \in SUBSET D : Total(f, D)[s] = SumRound(f, Total(f, D), s)
  BY <1>1, TotalExists
<1>3. {} \in Good
  BY <1>2 DEF SumRound
<1>4. ASSUME NEW s \in SUBSET D, s # {}, s \ {Pick(s)} \in Good
      PROVE  s \in Good
  <2>1. Pick(s) \in D
    BY <1>4 DEF Pick
  <2>2. Total(f, D)[s] = f[Pick(s)] + Total(f, D)[s \ {Pick(s)}]
    BY <1>2, <1>4 DEF SumRound
  <2>3. QED
    BY <1>1, <1>4, <2>1, <2>2
<1>5. Good \in SUBSET (SUBSET D)
  OBVIOUS
<1> HIDE DEF Good
<1>6. D \in Good
  BY <1>3, <1>4, <1>5, RoundInduction
<1> USE DEF Good
<1>7. SumFunction(f) = 0
  BY <1>1, <1>6, SumIsTotal DEF SumFunction
<1>8. QED
  BY <1>7 DEF f

(* The sizes of sets that are apart add up to the size of all together.    *)
LEMMA SumOfSizes ==
  ASSUME NEW T, IsFiniteSet(T), NEW A, NEW f,
         \A i \in T : IsFiniteSet(A[i]) /\ f[i] = Cardinality(A[i]),
         \A i, j \in T : i # j => A[i] \cap A[j] = {}
  PROVE  SumFunctionOnSet(f, T) = Cardinality(UNION {A[i] : i \in T})
<1> DEFINE All(s) == UNION {A[i] : i \in s}
           Good == {s \in SUBSET T : IsFiniteSet(All(s)) /\ Total(f, T)[s] = Cardinality(All(s))}
<1>1. \A s \in SUBSET T : Total(f, T)[s] = SumRound(f, Total(f, T), s)
  <2>1. \A i \in T : f[i] \in Nat
    BY FS_CardinalityType
  <2>2. QED
    BY <2>1, TotalExists
<1>2. {} \in Good
  <2>1. All({}) = {}
    OBVIOUS
  <2>2. Total(f, T)[{}] = 0
    BY <1>1 DEF SumRound
  <2>3. QED
    BY <2>1, <2>2, FS_EmptySet
<1>3. ASSUME NEW s \in SUBSET T, s # {}, s \ {Pick(s)} \in Good
      PROVE  s \in Good
  <2> DEFINE r == s \ {Pick(s)}
  <2>1. PICK i \in s : i = Pick(s)
    BY <1>3 DEF Pick
  <2>2. Total(f, T)[s] = f[i] + Total(f, T)[r]
    BY <1>1, <1>3, <2>1 DEF SumRound
  <2>3. All(s) = All(r) \cup A[i]
    BY <2>1
  <2>4. All(r) \cap A[i] = {}
    BY <2>1
  <2>5. IsFiniteSet(All(r)) /\ IsFiniteSet(A[i]) /\ f[i] = Cardinality(A[i])
    BY <1>3
  <2>6. Total(f, T)[r] = Cardinality(All(r))
    BY <1>3
  <2> HIDE DEF r, All
  <2>7. IsFiniteSet(All(s)) /\ Cardinality(All(s)) = Cardinality(All(r)) + Cardinality(A[i])
    <3>1. PICK a, b : a = All(r) /\ b = A[i]
      OBVIOUS
    <3>2. IsFiniteSet(a) /\ IsFiniteSet(b) /\ a \cap b = {} /\ All(s) = a \cup b
      BY <2>3, <2>4, <2>5, <3>1
    <3>3. IsFiniteSet(a \cup b) /\ Cardinality(a \cup b) = Cardinality(a) + Cardinality(b)
      BY <3>2, DisjointSizes
    <3>4. QED
      BY <3>1, <3>2, <3>3
  <2>8. Cardinality(All(r)) \in Nat /\ Cardinality(A[i]) \in Nat
    BY <2>5, FS_CardinalityType
  <2>9. QED
    BY <2>2, <2>5, <2>6, <2>7, <2>8
<1>4. Good \in SUBSET (SUBSET T)
  OBVIOUS
<1> HIDE DEF Good
<1>5. T \in Good
  BY <1>2, <1>3, <1>4, RoundInduction
<1> USE DEF Good
<1>6. SumFunctionOnSet(f, T) = Total(f, T)[T]
  BY SumIsTotal
<1>7. QED
  BY <1>5, <1>6

-----------------------------------------------------------------------------
(* Products.                                                               *)

ProductRound(f, product, s) == IF s = {} THEN 1 ELSE f[Pick(s)] * product[s \ {Pick(s)}]

Product(f, D) == CHOOSE product : product = [s \in SUBSET D |-> ProductRound(f, product, s)]

Multiplied(f) == FoldFunction(LAMBDA a, b : a * b, 1, f)

LEMMA FoldIsProduct ==
  ASSUME NEW f, NEW D, D = DOMAIN f
  PROVE  Multiplied(f) = Product(f, D)[D]
BY DEF Multiplied, FoldFunction, FoldFunctionOnSet, MapThenFoldSet, Product, ProductRound, Pick

LEMMA ProductExists ==
  ASSUME NEW D, IsFiniteSet(D), NEW f, \A d \in D : f[d] \in Nat
  PROVE  /\ Product(f, D) \in [SUBSET D -> Nat]
         /\ \A s \in SUBSET D : Product(f, D)[s] = ProductRound(f, Product(f, D), s)
<1>1. PICK g : g = [p \in D \X Nat |-> f[p[1]] * p[2]]
  OBVIOUS
<1>2. \A d \in D, n \in Nat : g[<<d, n>>] = f[d] * n
  BY <1>1
<1>3. PICK product \in [SUBSET D -> Nat] : \A s \in SUBSET D : product[s] = FoldRound(g, 1, product, s)
  <2>1. PICK V, base : V = Nat /\ base = 1
    OBVIOUS
  <2>2. g \in [D \X V -> V] /\ base \in V
    BY <1>1, <2>1
  <2>3. Folds(g, base, D, V)
    BY <2>2, FoldExists
  <2>4. QED
    BY <2>1, <2>3 DEF Folds
<1>4. ASSUME NEW s \in SUBSET D
      PROVE  product[s] = ProductRound(f, product, s)
  <2>1. s # {} => Pick(s) \in D /\ s \ {Pick(s)} \in SUBSET D
    BY DEF Pick
  <2>2. s # {} => g[<<Pick(s), product[s \ {Pick(s)}]>>] = f[Pick(s)] * product[s \ {Pick(s)}]
    BY <1>2, <2>1
  <2>3. QED
    BY <1>3, <2>2 DEF FoldRound, ProductRound
<1>5. product = [s \in SUBSET D |-> ProductRound(f, product, s)]
  BY <1>4
<1>6. Product(f, D) = [s \in SUBSET D |-> ProductRound(f, Product(f, D), s)]
  BY <1>5 DEF Product
<1>7. \A s \in SUBSET D : Product(f, D)[s] = ProductRound(f, Product(f, D), s)
  BY <1>6
<1>8. \A s \in SUBSET D : Product(f, D)[s] \in Nat
  <2> DEFINE Good == {s \in SUBSET D : Product(f, D)[s] \in Nat}
  <2>1. {} \in Good
    BY <1>7 DEF ProductRound
  <2>2. ASSUME NEW s \in SUBSET D, s # {}, s \ {Pick(s)} \in Good
        PROVE  s \in Good
    <3>1. Pick(s) \in D /\ Product(f, D)[s \ {Pick(s)}] \in Nat
      BY <2>2 DEF Pick
    <3>2. Product(f, D)[s] = f[Pick(s)] * Product(f, D)[s \ {Pick(s)}]
      BY <1>7, <2>2 DEF ProductRound
    <3>3. QED
      BY <3>1, <3>2
  <2>3. Good \in SUBSET (SUBSET D)
    OBVIOUS
  <2> HIDE DEF Good
  <2>4. \A s \in SUBSET D : s \in Good
    BY <2>1, <2>2, <2>3, RoundInduction
  <2> USE DEF Good
  <2>5. QED
    BY <2>4
<1>9. QED
  BY <1>6, <1>7, <1>8

(* The order does not matter: any value can be taken away first. *)
AnyOrder(f, D) == \A s \in SUBSET D : \A x \in s : Product(f, D)[s] = f[x] * Product(f, D)[s \ {x}]

LEMMA ProductAnyOrder ==
  ASSUME NEW D, IsFiniteSet(D), NEW f, \A d \in D : f[d] \in Nat
  PROVE  AnyOrder(f, D)
<1> DEFINE P == Product(f, D)
           Bad == {s \in SUBSET D : \E x \in s : P[s] # f[x] * P[s \ {x}]}
<1>1. P \in [SUBSET D -> Nat] /\ \A s \in SUBSET D : P[s] = ProductRound(f, P, s)
  BY ProductExists
<1> HIDE DEF P
<1>2. IsWellFoundedOn(StrictSubsetOrdering(D), SUBSET D)
  BY FS_StrictSubsetOrderingWellFounded, FS_FiniteSubsetsOfFinite
<1>3. SUFFICES ASSUME Bad # {}
               PROVE  FALSE
  BY DEF P, AnyOrder
<1>4. PICK s \in Bad : \A r \in Bad : ~ (<<r, s>> \in StrictSubsetOrdering(D))
  <2>1. Bad \subseteq SUBSET D
    OBVIOUS
  <2> HIDE DEF Bad
  <2>2. QED
    BY <1>2, <1>3, <2>1, WFMin
<1>5. \A r \in SUBSET D : r \subseteq s /\ r # s => \A x \in r : P[r] = f[x] * P[r \ {x}]
  BY <1>4 DEF StrictSubsetOrdering
<1>6. PICK x \in s : P[s] # f[x] * P[s \ {x}]
  OBVIOUS
<1>7. PICK y \in s : y = Pick(s)
  BY <1>6 DEF Pick
<1>8. P[s] = f[y] * P[s \ {y}]
  BY <1>1, <1>7 DEF ProductRound
<1>9. x # y
  BY <1>6, <1>8
<1>10. P[s \ {y}] = f[x] * P[s \ {x, y}]
  <2>1. s \ {y} \in SUBSET D /\ s \ {y} \subseteq s /\ s \ {y} # s /\ x \in s \ {y}
    BY <1>7, <1>9
  <2>2. P[s \ {y}] = f[x] * P[(s \ {y}) \ {x}]
    BY <1>5, <2>1
  <2>3. (s \ {y}) \ {x} = s \ {x, y}
    OBVIOUS
  <2>4. QED
    BY <2>2, <2>3
<1>11. P[s \ {x}] = f[y] * P[s \ {x, y}]
  <2>1. s \ {x} \in SUBSET D /\ s \ {x} \subseteq s /\ s \ {x} # s /\ y \in s \ {x}
    BY <1>7, <1>9
  <2>2. P[s \ {x}] = f[y] * P[(s \ {x}) \ {y}]
    BY <1>5, <2>1
  <2>3. (s \ {x}) \ {y} = s \ {x, y}
    OBVIOUS
  <2>4. QED
    BY <2>2, <2>3
<1>12. f[x] \in Nat /\ f[y] \in Nat /\ P[s \ {x, y}] \in Nat
  <2>1. s \ {x, y} \in SUBSET D
    OBVIOUS
  <2>2. QED
    BY <1>1, <2>1
<1>13. \A a, b, c \in Nat : a * (b * c) = b * (a * c)
  OBVIOUS
<1>14. QED
  BY <1>6, <1>8, <1>10, <1>11, <1>12, <1>13

(* A part of a product depends on its own values only. *)
LEMMA ProductOfPart ==
  ASSUME NEW D, IsFiniteSet(D), NEW E, IsFiniteSet(E), D \subseteq E, NEW f, NEW g,
         \A e \in E : g[e] \in Nat, \A d \in D : f[d] = g[d]
  PROVE  Product(f, D)[D] = Product(g, E)[D]
<1> DEFINE P == Product(f, D)
           Q == Product(g, E)
           Good == {s \in SUBSET D : P[s] = Q[s]}
<1>1. \A s \in SUBSET D : P[s] = ProductRound(f, P, s)
  BY ProductExists
<1>2. \A s \in SUBSET E : Q[s] = ProductRound(g, Q, s)
  BY ProductExists
<1> HIDE DEF P, Q
<1>3. {} \in Good
  BY <1>1, <1>2 DEF ProductRound
<1>4. ASSUME NEW s \in SUBSET D, s # {}, s \ {Pick(s)} \in Good
      PROVE  s \in Good
  <2>1. Pick(s) \in D /\ s \in SUBSET E
    BY <1>4 DEF Pick
  <2>2. QED
    BY <1>1, <1>2, <1>4, <2>1 DEF ProductRound
<1>5. Good \in SUBSET (SUBSET D)
  OBVIOUS
<1> HIDE DEF Good
<1>6. D \in Good
  BY <1>3, <1>4, <1>5, RoundInduction
<1> USE DEF Good, P, Q
<1>7. QED
  BY <1>6

(* One more factor. *)
LEMMA ProductNext ==
  ASSUME NEW n \in Nat, NEW f, NEW g, DOMAIN f = 0 .. (n - 1), DOMAIN g = 0 .. n,
         \A i \in 0 .. n : g[i] \in Nat, \A i \in 0 .. (n - 1) : f[i] = g[i]
  PROVE  Multiplied(g) = Multiplied(f) * g[n]
<1> DEFINE P == Product(g, 0 .. n)
<1>1. IsFiniteSet(0 .. n) /\ IsFiniteSet(0 .. (n - 1)) /\ 0 .. (n - 1) \subseteq 0 .. n
  BY FS_Interval
<1>2. n \in 0 .. n /\ (0 .. n) \ {n} = 0 .. (n - 1)
  OBVIOUS
<1>3. P \in [SUBSET (0 .. n) -> Nat] /\ P[0 .. n] = g[n] * P[0 .. (n - 1)]
  <2>1. PICK D : D = 0 .. n
    OBVIOUS
  <2>2. IsFiniteSet(D) /\ \A d \in D : g[d] \in Nat
    BY <1>1, <2>1
  <2>3. Product(g, D) \in [SUBSET D -> Nat]
    BY <2>2, ProductExists
  <2>4. AnyOrder(g, D)
    BY <2>2, ProductAnyOrder
  <2>5. Product(g, D)[D] = g[n] * Product(g, D)[D \ {n}]
    BY <1>2, <2>1, <2>4 DEF AnyOrder
  <2>6. QED
    BY <1>2, <2>1, <2>3, <2>5
<1>4. Product(f, 0 .. (n - 1))[0 .. (n - 1)] = P[0 .. (n - 1)]
  BY <1>1, ProductOfPart
<1>5. P[0 .. (n - 1)] \in Nat /\ g[n] \in Nat
  BY <1>1, <1>3
<1>6. /\ Multiplied(g) = P[0 .. n]
      /\ Multiplied(f) = P[0 .. (n - 1)]
  BY <1>4, FoldIsProduct
<1>7. QED
  BY <1>3, <1>5, <1>6

LEMMA ProductOfNone ==
  ASSUME NEW f, DOMAIN f = {}
  PROVE  Multiplied(f) = 1
<1>1. IsFiniteSet({})
  BY FS_EmptySet
<1>2. Product(f, {})[{}] = 1
  BY <1>1, ProductExists DEF ProductRound
<1>3. QED
  BY <1>2, FoldIsProduct

=============================================================================
