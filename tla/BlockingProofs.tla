---------------------------- MODULE BlockingProofs ----------------------------
(***************************************************************************)
(* Proofs about Blocking for inputs, batches and ORDER BY lists of any     *)
(* length: the groups of both engines with their aggregates, the order of  *)
(* the vectorized groups, the rows DISTINCT keeps and the stable sort.     *)
(*                                                                         *)
(* The folds of the model, std::stable_sort and the reference sum, are     *)
(* recursive functions over subsets of a finite set: the first section     *)
(* shows that such a function exists, by induction on cardinality, and the *)
(* next ones what each of the two computes.                                *)
(***************************************************************************)
EXTENDS Blocking, FiniteSetTheorems, SequenceTheorems, WellFoundedInduction, TLAPS

-----------------------------------------------------------------------------
(* Numbers and sets.                                                       *)

(* Every nonempty set of naturals has a least element.                     *)
LEMMA LeastNat ==
    ASSUME NEW S \in SUBSET Nat, S # {}
    PROVE  \E x \in S : \A y \in S : x <= y
<1>1. PICK x \in S : \A y \in S : ~ (<<y, x>> \in OpToRel(<, Nat))
  BY WFMin, NatLessThanWellFounded
<1>2. \A y \in S : ~ (y < x)
  BY <1>1, Zenon DEF OpToRel
<1> QED
  BY <1>2

(* Min of naturals.                                                        *)
LEMMA MinFact ==
    ASSUME NEW S \in SUBSET Nat, S # {}
    PROVE  Min(S) \in S /\ \A y \in S : Min(S) <= y
BY LeastNat DEF Min

(* A least or greatest element is the minimum or maximum.                  *)
LEMMA MinIs ==
    ASSUME NEW S \in SUBSET Int, NEW x \in S, \A y \in S : x <= y
    PROVE  Min(S) = x
<1>1. Min(S) \in S /\ \A y \in S : Min(S) <= y
  BY Zenon DEF Min
<1>2. Min(S) <= x /\ x <= Min(S) /\ Min(S) \in Int /\ x \in Int
  BY <1>1, Zenon
<1> QED
  BY <1>2

LEMMA MaxIs ==
    ASSUME NEW S \in SUBSET Int, NEW x \in S, \A y \in S : y <= x
    PROVE  Max(S) = x
<1>1. \A y \in S : x >= y
  OBVIOUS
<1>2. Max(S) \in S /\ \A y \in S : Max(S) >= y
  BY <1>1, Zenon DEF Max
<1>3. Max(S) >= x /\ Max(S) <= x /\ Max(S) \in Int /\ x \in Int
  BY <1>2, Zenon
<1> QED
  BY <1>3

(* A nonempty set of naturals with a bound has a greatest element.         *)
LEMMA MaxFact ==
    ASSUME NEW S \in SUBSET Nat, S # {}, NEW n \in Nat, \A y \in S : y <= n
    PROVE  Max(S) \in S /\ \A y \in S : Max(S) >= y
<1> DEFINE U == {u \in Nat : \A y \in S : y <= u}
<1>1. PICK u \in U : \A v \in U : u <= v
  <2>1. U \in SUBSET Nat /\ n \in U
    OBVIOUS
  <2> QED
    BY <2>1, LeastNat
<1>2. u \in S
  <2>1. SUFFICES ASSUME u \notin S PROVE FALSE
    OBVIOUS
  <2>2. \A y \in S : y < u
    BY <1>1, <2>1
  <2>3. PICK z \in S : TRUE
    OBVIOUS
  <2>4. u - 1 \in Nat /\ \A y \in S : y <= u - 1
    BY <1>1, <2>2, <2>3
  <2>5. u - 1 \in U
    BY <2>4
  <2> QED
    BY <1>1, <2>5
<1>3. \A y \in S : u >= y
  BY <1>1
<1> QED
  BY <1>2, <1>3, Zenon DEF Max

-----------------------------------------------------------------------------
(* Folds.  A fold over S is a function on the subsets of S that takes one  *)
(* element, picked[s], from a set s and combines it with the fold of the   *)
(* rest.                                                                   *)

IsFold(F, S, base, step, picked) ==
    F = [s \in SUBSET S |-> IF s = {} THEN base ELSE step[<<s, F[s \ {picked[s]}]>>]]

(* The same for sets of at most k elements.                                *)
Small(S, k) == {s \in SUBSET S : Cardinality(s) <= k}

IsFoldSmall(F, S, base, step, picked, k) ==
    F = [s \in Small(S, k) |-> IF s = {} THEN base ELSE step[<<s, F[s \ {picked[s]}]>>]]

(* The facts about cardinality that the inductions use.                    *)
LEMMA TakeOne ==
    ASSUME NEW S, IsFiniteSet(S), NEW s \in SUBSET S, NEW x \in s
    PROVE  /\ IsFiniteSet(s) /\ s \ {x} \in SUBSET S
           /\ Cardinality(s) \in Nat /\ Cardinality(s \ {x}) \in Nat
           /\ Cardinality(s) = Cardinality(s \ {x}) + 1
BY FS_Subset, FS_RemoveElement, FS_CardinalityType

(* Every such recursion has a solution, with values in V.                  *)
LEMMA FoldExists ==
    ASSUME NEW S, IsFiniteSet(S), NEW V, NEW base \in V,
           NEW step \in [(SUBSET S) \X V -> V],
           NEW picked \in [SUBSET S -> S \cup {{}}], \A s \in SUBSET S : s # {} => picked[s] \in s
    PROVE  \E F \in [SUBSET S -> V] : IsFold(F, S, base, step, picked)
<1> DEFINE Solved(k) == \E F \in [Small(S, k) -> V] : IsFoldSmall(F, S, base, step, picked, k)
           Bad == {k \in Nat : ~ Solved(k)}
<1>1. ASSUME Bad # {} PROVE FALSE
  <2>1. PICK k \in Bad : \A j \in Bad : k <= j
    BY <1>1, LeastNat
  <2>2. CASE k = 0
    <3> DEFINE F == [s \in Small(S, 0) |-> base]
    <3>1. F \in [Small(S, 0) -> V]
      OBVIOUS
    <3>2. \A s \in Small(S, 0) : s = {}
      <4>1. ASSUME NEW s \in Small(S, 0) PROVE s = {}
        BY FS_Subset, FS_CardinalityType, FS_EmptySet DEF Small
      <4> QED
        BY <4>1
    <3>3. F = [s \in Small(S, 0) |-> IF s = {} THEN base ELSE step[<<s, F[s \ {picked[s]}]>>]]
      BY <3>2
    <3>4. Solved(0)
      BY <3>1, <3>3 DEF IsFoldSmall
    <3> QED
      BY <2>1, <2>2, <3>4
  <2>3. CASE k # 0
    <3>1. k - 1 \in Nat /\ ~ (k <= k - 1)
      BY <2>1, <2>3
    <3>2. Solved(k - 1)
      BY <2>1, <3>1
    <3>3. PICK F \in [Small(S, k - 1) -> V] : IsFoldSmall(F, S, base, step, picked, k - 1)
      BY <3>2
    <3> DEFINE G == [s \in Small(S, k) |-> IF s = {} THEN base ELSE step[<<s, F[s \ {picked[s]}]>>]]
    <3>4. ASSUME NEW s \in Small(S, k), s # {}
          PROVE  /\ s \ {picked[s]} \in Small(S, k - 1) /\ s \ {picked[s]} \in Small(S, k)
                 /\ s \in SUBSET S
      <4>1. s \in SUBSET S /\ Cardinality(s) <= k /\ picked[s] \in s
        BY <3>4 DEF Small
      <4>2. /\ s \ {picked[s]} \in SUBSET S
            /\ Cardinality(s) \in Nat /\ Cardinality(s \ {picked[s]}) \in Nat
            /\ Cardinality(s) = Cardinality(s \ {picked[s]}) + 1
        BY ONLY <4>1, TakeOne, IsFiniteSet(S)
      <4>3. Cardinality(s \ {picked[s]}) <= k - 1 /\ Cardinality(s \ {picked[s]}) <= k
        BY <2>1, <4>1, <4>2
      <4> QED
        BY <4>1, <4>2, <4>3 DEF Small
    <3>5. G \in [Small(S, k) -> V]
      <4>1. ASSUME NEW s \in Small(S, k)
            PROVE  (IF s = {} THEN base ELSE step[<<s, F[s \ {picked[s]}]>>]) \in V
        BY <3>4
      <4> QED
        BY <4>1
    <3>6. ASSUME NEW s \in Small(S, k - 1), s \in Small(S, k) PROVE G[s] = F[s]
      BY <3>3, <3>6 DEF IsFoldSmall
    <3>7. G = [s \in Small(S, k) |-> IF s = {} THEN base ELSE step[<<s, G[s \ {picked[s]}]>>]]
      <4>1. ASSUME NEW s \in Small(S, k)
            PROVE  (IF s = {} THEN base ELSE step[<<s, F[s \ {picked[s]}]>>])
                   = (IF s = {} THEN base ELSE step[<<s, G[s \ {picked[s]}]>>])
        <5>1. CASE s = {}
          BY <5>1
        <5>2. CASE s # {}
          <6>1. G[s \ {picked[s]}] = F[s \ {picked[s]}]
            BY <3>4, <3>6, <5>2
          <6> QED
            BY <6>1
        <5> QED
          BY <5>1, <5>2
      <4> HIDE DEF G
      <4>2. [s \in Small(S, k) |-> IF s = {} THEN base ELSE step[<<s, F[s \ {picked[s]}]>>]]
            = [s \in Small(S, k) |-> IF s = {} THEN base ELSE step[<<s, G[s \ {picked[s]}]>>]]
        BY <4>1
      <4> QED
        BY <4>2 DEF G
    <3>8. Solved(k)
      <4> HIDE DEF G
      <4> QED
        BY <3>5, <3>7 DEF IsFoldSmall
    <3> QED
      BY <2>1, <3>8
  <2> QED
    BY <2>2, <2>3
<1>2. Cardinality(S) \in Nat
  BY FS_CardinalityType
<1>3. Solved(Cardinality(S))
  BY <1>1, <1>2
<1>4. Small(S, Cardinality(S)) = SUBSET S
  BY FS_Subset DEF Small
<1>5. PICK F \in [SUBSET S -> V] : IsFoldSmall(F, S, base, step, picked, Cardinality(S))
  BY <1>3, <1>4
<1>6. IsFold(F, S, base, step, picked)
  BY <1>4, <1>5 DEF IsFold, IsFoldSmall
<1> QED
  BY <1>6

(* What the step of a fold over S is, and of one over a part of S.         *)
LEMMA FoldStep ==
    ASSUME NEW S, NEW F, NEW base, NEW step, NEW picked, IsFold(F, S, base, step, picked)
    PROVE  /\ F[{}] = base
           /\ \A s \in SUBSET S : s # {} => F[s] = step[<<s, F[s \ {picked[s]}]>>]
<1>1. \A s \in SUBSET S : F[s] = IF s = {} THEN base ELSE step[<<s, F[s \ {picked[s]}]>>]
  BY DEF IsFold
<1>2. {} \in SUBSET S
  OBVIOUS
<1> QED
  BY <1>1, <1>2

-----------------------------------------------------------------------------
(* The reference sum, MapThenSumSet, over rows R of an input f.            *)

Total(f, R) == MapThenSumSet(LAMBDA r : f[r].arg, R)

Chosen(s) == CHOOSE x \in s : TRUE

(* The recursion of MapThenSumSet.                                         *)
Sums(F, f, R) ==
    F = [s \in SUBSET R |-> IF s = {} THEN 0 ELSE f[Chosen(s)].arg + F[s \ {Chosen(s)}]]

Numbers(f, R) == \A r \in R : f[r].arg \in Int

LEMMA ChosenIn ==
    ASSUME NEW s, s # {}
    PROVE  Chosen(s) \in s
BY Zenon DEF Chosen

(* It has a solution ...                                                   *)
LEMMA SumExists ==
    ASSUME NEW f, NEW R, IsFiniteSet(R), Numbers(f, R)
    PROVE  \E F : Sums(F, f, R)
<1> DEFINE step   == [q \in (SUBSET R) \X Int |-> IF q[1] = {} THEN 0 ELSE f[Chosen(q[1])].arg + q[2]]
           picked == [s \in SUBSET R |-> IF s = {} THEN {} ELSE Chosen(s)]
<1>1. step \in [(SUBSET R) \X Int -> Int]
  <2>1. ASSUME NEW q \in (SUBSET R) \X Int
        PROVE  (IF q[1] = {} THEN 0 ELSE f[Chosen(q[1])].arg + q[2]) \in Int
    <3>1. q[1] \in SUBSET R /\ q[2] \in Int
      OBVIOUS
    <3>2. CASE q[1] = {}
      BY <3>2
    <3>3. CASE q[1] # {}
      BY <3>1, <3>3, ChosenIn DEF Numbers
    <3> QED
      BY <3>2, <3>3
  <2> QED
    BY <2>1
<1>2. /\ picked \in [SUBSET R -> R \cup {{}}]
      /\ \A s \in SUBSET R : s # {} => picked[s] \in s
  BY ChosenIn
<1>3. PICK F \in [SUBSET R -> Int] : IsFold(F, R, 0, step, picked)
  <2> HIDE DEF step, picked
  <2>1. 0 \in Int
    OBVIOUS
  <2> QED
    BY <1>1, <1>2, <2>1, FoldExists
<1>4. ASSUME NEW s \in SUBSET R
      PROVE  F[s] = IF s = {} THEN 0 ELSE f[Chosen(s)].arg + F[s \ {Chosen(s)}]
  <2>1. CASE s = {}
    BY <1>3, <2>1, FoldStep
  <2>2. CASE s # {}
    <3>1. F[s] = step[<<s, F[s \ {picked[s]}]>>]
      <4> HIDE DEF step, picked
      <4> QED
        BY <1>3, <2>2, FoldStep
    <3>2. picked[s] = Chosen(s)
      BY <2>2
    <3>3. <<s, F[s \ {Chosen(s)}]>> \in (SUBSET R) \X Int
      BY <1>3
    <3> QED
      BY <2>2, <3>1, <3>2, <3>3
  <2> QED
    BY <2>1, <2>2
<1>5. F = [s \in SUBSET R |-> F[s]]
  BY <1>3
<1>6. Sums(F, f, R)
  BY <1>4, <1>5 DEF Sums
<1> QED
  BY <1>6

(* ... so MapThenSumSet is one.                                            *)
LEMMA TotalSums ==
    ASSUME NEW f, NEW R, IsFiniteSet(R), Numbers(f, R)
    PROVE  \E F : Sums(F, f, R) /\ Total(f, R) = F[R]
<1>0. \E F : Sums(F, f, R)
  BY SumExists
<1>1. \E F : F = [s \in SUBSET R |-> IF s = {} THEN 0 ELSE f[CHOOSE x \in s : TRUE].arg
                                                          + F[s \ {CHOOSE x \in s : TRUE}]]
  BY <1>0 DEF Sums, Chosen
<1>2. \E F : /\ F = [s \in SUBSET R |-> IF s = {} THEN 0 ELSE f[CHOOSE x \in s : TRUE].arg
                                                          + F[s \ {CHOOSE x \in s : TRUE}]]
             /\ Total(f, R) = F[R]
  BY <1>1 DEF Total, MapThenSumSet, MapThenFoldSet
<1> QED
  BY <1>2 DEF Sums, Chosen

(* Its step.                                                               *)
LEMMA SumStep ==
    ASSUME NEW f, NEW R, NEW F, Sums(F, f, R)
    PROVE  /\ F[{}] = 0
           /\ \A s \in SUBSET R : s # {} => F[s] = f[Chosen(s)].arg + F[s \ {Chosen(s)}]
<1>1. \A s \in SUBSET R : F[s] = IF s = {} THEN 0 ELSE f[Chosen(s)].arg + F[s \ {Chosen(s)}]
  BY DEF Sums
<1>2. {} \in SUBSET R
  OBVIOUS
<1> QED
  BY <1>1, <1>2

(* The order does not matter: any element may be taken first.              *)
LEMMA SumAnyFirst ==
    ASSUME NEW f, NEW R, IsFiniteSet(R), Numbers(f, R), NEW F, Sums(F, f, R)
    PROVE  \A s \in SUBSET R : F[s] \in Int /\ \A x \in s : F[s] = f[x].arg + F[s \ {x}]
<1> DEFINE Right(s) == F[s] \in Int /\ \A x \in s : F[s] = f[x].arg + F[s \ {x}]
           Bad == {k \in Nat : \E s \in SUBSET R : Cardinality(s) = k /\ ~ Right(s)}
<1>1. ASSUME Bad # {} PROVE FALSE
  <2>1. PICK k \in Bad : \A j \in Bad : k <= j
    BY <1>1, LeastNat
  <2>2. PICK s \in SUBSET R : Cardinality(s) = k /\ ~ Right(s)
    BY <2>1
  <2>3. ASSUME NEW t \in SUBSET R, Cardinality(t) \in Nat, Cardinality(t) < k PROVE Right(t)
    <3>1. Cardinality(t) \notin Bad
      BY <2>1, <2>3
    <3> QED
      BY <2>3, <3>1
  <2>4. s # {}
    <3>1. ASSUME s = {} PROVE FALSE
      BY <2>2, <3>1, SumStep
    <3> QED
      BY <3>1
  <2> DEFINE c == Chosen(s)
  <2>5. c \in s /\ F[s] = f[c].arg + F[s \ {c}]
    BY <2>4, ChosenIn, SumStep
  <2> HIDE DEF c
  <2>6. ASSUME NEW x \in s
        PROVE  s \ {x} \in SUBSET R /\ Right(s \ {x}) /\ f[x].arg \in Int
    <3>1. /\ s \ {x} \in SUBSET R /\ Cardinality(s \ {x}) \in Nat
          /\ Cardinality(s) = Cardinality(s \ {x}) + 1
      <4>1. x \in s /\ s \in SUBSET R /\ IsFiniteSet(R)
        BY <2>6
      <4> HIDE DEF Right, Bad
      <4> QED
        BY <4>1, TakeOne, Zenon
    <3>2. Cardinality(s \ {x}) < k
      BY <2>2, <3>1
    <3>3. Right(s \ {x})
      BY <2>3, <3>1, <3>2
    <3> QED
      BY <3>1, <3>3 DEF Numbers
  <2>7. F[s] \in Int
    BY <2>5, <2>6
  <2>8. ASSUME NEW x \in s PROVE F[s] = f[x].arg + F[s \ {x}]
    <3>1. CASE x = c
      BY <2>5, <3>1
    <3>2. CASE x # c
      <4> DEFINE rest == (s \ {c}) \ {x}
      <4>1. x \in s \ {c} /\ c \in s \ {x} /\ rest = (s \ {x}) \ {c}
        BY <2>5, <3>2
      <4>2. F[s \ {c}] = f[x].arg + F[rest]
        BY <2>5, <2>6, <4>1
      <4>3. F[s \ {x}] = f[c].arg + F[rest]
        BY <2>6, <4>1
      <4>4. F[rest] \in Int
        <5>1. rest \in SUBSET R /\ Cardinality(rest) \in Nat /\ Cardinality(rest) < k
          <6>1. /\ s \ {c} \in SUBSET R /\ Cardinality(s \ {c}) \in Nat
                /\ Cardinality(s) = Cardinality(s \ {c}) + 1
            BY <2>5, TakeOne
          <6>2. /\ rest \in SUBSET R /\ Cardinality(rest) \in Nat
                /\ Cardinality(s \ {c}) = Cardinality(rest) + 1
            <7> DEFINE some == s \ {c}
            <7>1. some \in SUBSET R /\ x \in some
              BY <4>1, <6>1
            <7> HIDE DEF some
            <7>2. /\ some \ {x} \in SUBSET R /\ Cardinality(some \ {x}) \in Nat
                  /\ Cardinality(some) = Cardinality(some \ {x}) + 1
              BY <7>1, TakeOne
            <7> QED
              BY <7>2 DEF some
          <6> QED
            BY <2>2, <6>1, <6>2
        <5> HIDE DEF rest
        <5> QED
          BY <2>3, <5>1
      <4> HIDE DEF rest
      <4>5. f[x].arg \in Int /\ f[c].arg \in Int
        BY <2>5 DEF Numbers
      <4> QED
        BY <2>5, <4>2, <4>3, <4>4, <4>5
    <3> QED
      BY <3>1, <3>2
  <2> QED
    BY <2>2, <2>7, <2>8
<1>2. ASSUME NEW s \in SUBSET R PROVE Right(s)
  <2>1. Cardinality(s) \in Nat
    BY FS_Subset, FS_CardinalityType
  <2> QED
    BY <1>1, <2>1
<1> QED
  BY <1>2

(* The sum of a part does not depend on the whole.                         *)
LEMMA SumOfPart ==
    ASSUME NEW f, NEW R, IsFiniteSet(R), NEW A \in SUBSET R,
           NEW F, Sums(F, f, R), NEW G, Sums(G, f, A)
    PROVE  F[A] = G[A]
<1> DEFINE Bad == {k \in Nat : \E s \in SUBSET A : Cardinality(s) = k /\ F[s] # G[s]}
<1>0. IsFiniteSet(A)
  BY FS_Subset
<1>1. ASSUME Bad # {} PROVE FALSE
  <2>1. PICK k \in Bad : \A j \in Bad : k <= j
    BY <1>1, LeastNat
  <2>2. PICK s \in SUBSET A : Cardinality(s) = k /\ F[s] # G[s]
    BY <2>1
  <2>3. s # {}
    BY <2>2, SumStep
  <2> DEFINE c == Chosen(s)
  <2>4. /\ c \in s /\ s \in SUBSET R
        /\ F[s] = f[c].arg + F[s \ {c}] /\ G[s] = f[c].arg + G[s \ {c}]
    BY <2>3, ChosenIn, SumStep
  <2> HIDE DEF c
  <2>5. /\ s \ {c} \in SUBSET A /\ Cardinality(s \ {c}) \in Nat
        /\ Cardinality(s) = Cardinality(s \ {c}) + 1
    BY <1>0, <2>4, TakeOne
  <2>6. Cardinality(s \ {c}) \notin Bad
    <3>1. k = Cardinality(s \ {c}) + 1 /\ k \in Nat
      BY <2>1, <2>2, <2>5
    <3>2. ~ (k <= Cardinality(s \ {c}))
      BY <2>5, <3>1
    <3> HIDE DEF Bad
    <3> QED
      BY <2>1, <3>2
  <2>7. F[s \ {c}] = G[s \ {c}]
    BY <2>5, <2>6
  <2> QED
    BY <2>2, <2>4, <2>7
<1>2. Cardinality(A) \in Nat
  BY <1>0, FS_CardinalityType
<1> QED
  BY <1>1, <1>2

(* What the aggregates need of the sum: nothing adds to nothing, and one   *)
(* more row adds its argument.                                             *)
LEMMA TotalEmpty ==
    ASSUME NEW f
    PROVE  Total(f, {}) = 0
<1>1. IsFiniteSet({}) /\ Numbers(f, {})
  BY FS_EmptySet DEF Numbers
<1>2. PICK F : Sums(F, f, {}) /\ Total(f, {}) = F[{}]
  BY <1>1, TotalSums
<1> QED
  BY <1>2, SumStep

LEMMA TotalAdds ==
    ASSUME NEW f, NEW R, IsFiniteSet(R), NEW n, n \notin R, Numbers(f, R \cup {n})
    PROVE  /\ Total(f, R) \in Int
           /\ Total(f, R \cup {n}) = Total(f, R) + f[n].arg
<1>1. IsFiniteSet(R \cup {n}) /\ R \in SUBSET (R \cup {n}) /\ Numbers(f, R)
  BY FS_AddElement DEF Numbers
<1>2. PICK F : Sums(F, f, R \cup {n}) /\ Total(f, R \cup {n}) = F[R \cup {n}]
  BY <1>1, TotalSums
<1>3. PICK G : Sums(G, f, R) /\ Total(f, R) = G[R]
  BY <1>1, TotalSums
<1>4. G[R] = F[R]
  BY <1>1, <1>2, <1>3, SumOfPart
<1>5. F[R \cup {n}] = f[n].arg + F[(R \cup {n}) \ {n}] /\ F[R] \in Int
  BY <1>1, <1>2, SumAnyFirst
<1>6. (R \cup {n}) \ {n} = R
  OBVIOUS
<1>7. f[n].arg \in Int
  BY DEF Numbers
<1>8. F[R \cup {n}] = f[n].arg + F[R] /\ F[R] \in Int
  BY <1>5, <1>6
<1> QED
  BY <1>2, <1>3, <1>4, <1>7, <1>8

-----------------------------------------------------------------------------
(* What an accumulator says of the rows R of an input f.                   *)

Accumulator == [count : Nat, non_null_count : Nat, sum : Int,
                min_val : Arg \cup {NULL}, max_val : Arg \cup {NULL}]

ArgsOf(f, R) == \A r \in R : f[r].arg \in Arg \cup {NULL}

(* The rows that have an argument.                                         *)
Present(f, R) == {r \in R : f[r].arg # NULL}

IsLeast(v, f, R)    == (\E r \in R : f[r].arg = v) /\ \A r \in R : v <= f[r].arg
IsGreatest(v, f, R) == (\E r \in R : f[r].arg = v) /\ \A r \in R : f[r].arg <= v

Summary(acc, f, R) ==
    /\ acc \in Accumulator
    /\ acc.count = Cardinality(R)
    /\ acc.non_null_count = Cardinality(Present(f, R))
    /\ acc.sum = Total(f, Present(f, R))
    /\ IF Present(f, R) = {} THEN acc.min_val = NULL /\ acc.max_val = NULL
       ELSE IsLeast(acc.min_val, f, Present(f, R)) /\ IsGreatest(acc.max_val, f, Present(f, R))

(* A fresh accumulator sums up no rows.                                    *)
LEMMA FreshSummary ==
    ASSUME NEW f
    PROVE  Summary(Fresh, f, {})
<1>1. Fresh \in Accumulator
  BY DEF Fresh, Accumulator
<1>2. Present(f, {}) = {}
  BY DEF Present
<1> QED
  BY <1>1, <1>2, TotalEmpty, FS_EmptySet DEF Summary, Fresh

(* An accumulator updated with the argument of one more row sums up the    *)
(* rows and that one.                                                      *)
LEMMA UpdatedSummary ==
    ASSUME NEW f, NEW R, IsFiniteSet(R), NEW n, n \notin R, ArgsOf(f, R \cup {n}),
           NEW acc, Summary(acc, f, R)
    PROVE  Summary(Updated(acc, f[n].arg), f, R \cup {n})
<1> DEFINE v == f[n].arg
           A == Present(f, R)
           new == Updated(acc, v)
<1>1. /\ acc \in Accumulator /\ acc.count \in Nat /\ acc.non_null_count \in Nat /\ acc.sum \in Int
      /\ acc.min_val \in Arg \cup {NULL} /\ acc.max_val \in Arg \cup {NULL}
      /\ Arg \subseteq Int /\ NULL \notin Arg
  BY ValueAssumption DEF Summary, Accumulator
<1>2. v \in Arg \cup {NULL}
  BY DEF ArgsOf
<1>3. /\ IsFiniteSet(A) /\ n \notin A /\ A \in SUBSET R
      /\ Cardinality(R \cup {n}) = Cardinality(R) + 1
  BY FS_Subset, FS_AddElement DEF Present
<1>4. CASE v = NULL
  <2>1. Present(f, R \cup {n}) = A
    BY <1>4 DEF Present
  <2>2. new = [acc EXCEPT !.count = @ + 1]
    BY <1>4 DEF Updated
  <2>3. /\ new \in Accumulator /\ new.count = acc.count + 1 /\ new.sum = acc.sum
        /\ new.non_null_count = acc.non_null_count
        /\ new.min_val = acc.min_val /\ new.max_val = acc.max_val
    BY <1>1, <2>2 DEF Accumulator
  <2>4. /\ acc.count = Cardinality(R) /\ acc.non_null_count = Cardinality(A)
        /\ acc.sum = Total(f, A)
        /\ IF A = {} THEN acc.min_val = NULL /\ acc.max_val = NULL
           ELSE IsLeast(acc.min_val, f, A) /\ IsGreatest(acc.max_val, f, A)
    BY DEF Summary
  <2> HIDE DEF new, A, v
  <2>5. Summary(new, f, R \cup {n})
    BY <1>3, <2>1, <2>3, <2>4 DEF Summary
  <2> QED
    BY <2>5 DEF new, v
<1>5. CASE v # NULL
  <2> DEFINE least    == IF acc.min_val = NULL \/ v < acc.min_val THEN v ELSE acc.min_val
             greatest == IF acc.max_val = NULL \/ v > acc.max_val THEN v ELSE acc.max_val
  <2>0. v \in Arg /\ v \in Int
    BY <1>1, <1>2, <1>5
  <2>1. Present(f, R \cup {n}) = A \cup {n}
    BY <1>5 DEF Present
  <2>2. new = [count |-> acc.count + 1, non_null_count |-> acc.non_null_count + 1,
               sum |-> acc.sum + v, min_val |-> least, max_val |-> greatest]
    BY <1>5 DEF Updated
  <2>3. least \in Arg /\ greatest \in Arg
    BY <1>1, <2>0
  <2>4. \A r \in A : f[r].arg \in Arg /\ f[r].arg \in Int
    BY <1>1 DEF Present, ArgsOf
  <2>5. Numbers(f, A \cup {n})
    BY <2>0, <2>4 DEF Numbers
  <2>6. /\ Total(f, A \cup {n}) = Total(f, A) + v
        /\ Cardinality(A \cup {n}) = Cardinality(A) + 1
    BY <1>3, <2>5, TotalAdds, FS_AddElement
  <2>7. IsLeast(least, f, A \cup {n}) /\ IsGreatest(greatest, f, A \cup {n})
    <3>1. CASE A = {}
      <4>1. acc.min_val = NULL /\ acc.max_val = NULL
        BY <3>1 DEF Summary
      <4>2. least = v /\ greatest = v
        BY <4>1
      <4> QED
        BY <2>0, <3>1, <4>2 DEF IsLeast, IsGreatest
    <3>2. CASE A # {}
      <4>1. IsLeast(acc.min_val, f, A) /\ IsGreatest(acc.max_val, f, A)
        BY <3>2 DEF Summary
      <4>2. acc.min_val \in Arg /\ acc.max_val \in Arg
        BY <2>4, <4>1 DEF IsLeast, IsGreatest
      <4>3. acc.min_val \in Int /\ acc.max_val \in Int /\ acc.min_val # NULL /\ acc.max_val # NULL
        BY <1>1, <4>2
      <4>4. least = (IF v < acc.min_val THEN v ELSE acc.min_val)
            /\ greatest = (IF v > acc.max_val THEN v ELSE acc.max_val)
        BY <4>3
      <4> HIDE DEF least, greatest
      <4>5. /\ least <= v /\ least <= acc.min_val /\ greatest >= v /\ greatest >= acc.max_val
            /\ least \in {v, acc.min_val} /\ greatest \in {v, acc.max_val}
            /\ least \in Int /\ greatest \in Int
        BY <2>0, <4>3, <4>4
      <4>6. \A r \in A : least <= f[r].arg /\ f[r].arg <= greatest
        BY <2>4, <4>1, <4>3, <4>5 DEF IsLeast, IsGreatest
      <4>7. /\ \E r \in A \cup {n} : f[r].arg = least
            /\ \E r \in A \cup {n} : f[r].arg = greatest
        BY <4>1, <4>5 DEF IsLeast, IsGreatest
      <4>8. \A r \in A \cup {n} : least <= f[r].arg /\ f[r].arg <= greatest
        BY <4>5, <4>6
      <4> QED
        BY <4>7, <4>8 DEF IsLeast, IsGreatest
    <3> QED
      BY <3>1, <3>2
  <2> HIDE DEF least, greatest, new, A, v
  <2>8. /\ new \in Accumulator /\ new.count = acc.count + 1 /\ new.sum = acc.sum + v
        /\ new.non_null_count = acc.non_null_count + 1
        /\ new.min_val = least /\ new.max_val = greatest
    BY <1>1, <2>0, <2>2, <2>3 DEF Accumulator
  <2>9. acc.count = Cardinality(R) /\ acc.non_null_count = Cardinality(A) /\ acc.sum = Total(f, A)
    BY DEF Summary, A
  <2>10. A \cup {n} # {}
    OBVIOUS
  <2>11. Summary(new, f, R \cup {n})
    BY <1>3, <2>1, <2>6, <2>7, <2>8, <2>9, <2>10 DEF Summary
  <2> QED
    BY <2>11 DEF new, v
<1> QED
  BY <1>4, <1>5

-----------------------------------------------------------------------------
(* std::stable_sort, StableSort, over rows that RowBefore orders.          *)

(* Nothing stands before something that must precede it, and what neither  *)
(* precedes keeps its order.                                               *)
InOrder(s) ==
    \A n, m \in 1 .. Len(s) : n < m =>
        \/ RowBefore(s[n], s[m])
        \/ ~ RowBefore(s[m], s[n]) /\ s[n] < s[m]

(* A strict weak order on the rows R: the rows compare as their ranks.     *)
Ordering(R) ==
    /\ \A r, s \in R : RowBefore(r, s) => ~ RowBefore(s, r)
    /\ \A r, s, t \in R : RowBefore(r, s) => RowBefore(r, t) \/ RowBefore(t, s)

(* The recursion of StableSort.                                            *)
Sorts(F, rows) ==
    F = [s \in SUBSET (DOMAIN rows) |->
            IF s = {} THEN << >> ELSE Insert(F[s \ {Max(s)}], rows[Max(s)])]

(* Insertion at position i: what stands where afterwards.                  *)
LEMMA InsertAtFacts ==
    ASSUME NEW T, NEW s \in Seq(T), NEW e \in T, NEW i \in 1 .. Len(s) + 1
    PROVE  /\ InsertAt(s, i, e) \in Seq(T) /\ Len(InsertAt(s, i, e)) = Len(s) + 1
           /\ \A j \in 1 .. Len(s) + 1 :
                InsertAt(s, i, e)[j] = IF j < i THEN s[j] ELSE IF j = i THEN e ELSE s[j - 1]
<1> DEFINE front == SubSeq(s, 1, i - 1)
           back  == SubSeq(s, i, Len(s))
<1>1. Len(s) \in Nat /\ i \in Nat /\ \A j \in 1 .. Len(s) : s[j] \in T
  OBVIOUS
<1>2. /\ front \in Seq(T) /\ Len(front) = i - 1
      /\ \A j \in 1 .. i - 1 : front[j] = s[j]
  <2>1. \A j \in 1 .. i - 1 : s[j] \in T
    BY <1>1
  <2>2. /\ front \in Seq(T) /\ Len(front) = IF 1 <= i - 1 THEN (i - 1) - 1 + 1 ELSE 0
        /\ \A j \in 1 .. (i - 1) - 1 + 1 : front[j] = s[1 + j - 1]
    BY <1>1, <2>1, SubSeqProperties
  <2> QED
    BY <1>1, <2>2
<1>3. /\ back \in Seq(T) /\ Len(back) = Len(s) - i + 1
      /\ \A j \in 1 .. Len(s) - i + 1 : back[j] = s[i + j - 1]
  <2>1. \A j \in i .. Len(s) : s[j] \in T
    BY <1>1
  <2>2. /\ back \in Seq(T) /\ Len(back) = IF i <= Len(s) THEN Len(s) - i + 1 ELSE 0
        /\ \A j \in 1 .. Len(s) - i + 1 : back[j] = s[i + j - 1]
    BY <1>1, <2>1, SubSeqProperties
  <2> QED
    BY <1>1, <2>2
<1> HIDE DEF front, back
<1>4. /\ <<e>> \in Seq(T) /\ Len(<<e>>) = 1 /\ <<e>>[1] = e
  OBVIOUS
<1>5. /\ front \o <<e>> \in Seq(T) /\ Len(front \o <<e>>) = i
      /\ \A j \in 1 .. i : (front \o <<e>>)[j] = IF j <= i - 1 THEN front[j] ELSE e
  <2>1. /\ front \o <<e>> \in Seq(T) /\ Len(front \o <<e>>) = Len(front) + 1
        /\ \A j \in 1 .. Len(front) + 1 :
             (front \o <<e>>)[j] = IF j <= Len(front) THEN front[j] ELSE <<e>>[j - Len(front)]
    BY <1>2, <1>4, ConcatProperties
  <2>2. ASSUME NEW j \in 1 .. i PROVE (front \o <<e>>)[j] = IF j <= i - 1 THEN front[j] ELSE e
    <3>1. j \in 1 .. Len(front) + 1 /\ Len(front) = i - 1
      BY <1>1, <1>2
    <3>2. (front \o <<e>>)[j] = IF j <= Len(front) THEN front[j] ELSE <<e>>[j - Len(front)]
      BY <2>1, <3>1
    <3>3. ~ (j <= i - 1) => j - Len(front) = 1
      BY <1>1, <3>1
    <3> QED
      BY <1>4, <3>1, <3>2, <3>3
  <2> QED
    BY <1>1, <1>2, <2>1, <2>2
<1> DEFINE head == front \o <<e>>
           all  == head \o back
<1>6. /\ all \in Seq(T) /\ Len(all) = Len(s) + 1
      /\ \A j \in 1 .. Len(s) + 1 : all[j] = IF j <= i THEN head[j] ELSE back[j - i]
  <2> HIDE DEF head
  <2>1. head \in Seq(T) /\ Len(head) = i
    BY <1>5 DEF head
  <2>2. /\ all \in Seq(T) /\ Len(all) = Len(head) + Len(back)
        /\ \A j \in 1 .. Len(head) + Len(back) :
             all[j] = IF j <= Len(head) THEN head[j] ELSE back[j - Len(head)]
    BY <1>3, <2>1, ConcatProperties
  <2>3. Len(head) + Len(back) = Len(s) + 1
    BY <1>1, <1>3, <2>1
  <2> QED
    BY <2>1, <2>2, <2>3
<1>7. all = InsertAt(s, i, e)
  BY DEF InsertAt, front, back
<1>8. \A j \in 1 .. i : head[j] = IF j <= i - 1 THEN front[j] ELSE e
  BY <1>5
<1> HIDE DEF head, all
<1>9. ASSUME NEW j \in 1 .. Len(s) + 1
      PROVE  all[j] = IF j < i THEN s[j] ELSE IF j = i THEN e ELSE s[j - 1]
  <2>1. CASE j < i
    <3>1. j \in 1 .. i /\ j <= i - 1 /\ j \in 1 .. i - 1
      BY <1>1, <2>1
    <3> QED
      BY <1>2, <1>6, <1>8, <2>1, <3>1
  <2>2. CASE j = i
    <3>1. j \in 1 .. i /\ ~ (j <= i - 1) /\ ~ (j < i)
      BY <1>1, <2>2
    <3> QED
      BY <1>6, <1>8, <2>2, <3>1
  <2>3. CASE j > i
    <3>1. j - i \in 1 .. Len(s) - i + 1 /\ i + (j - i) - 1 = j - 1 /\ ~ (j <= i) /\ ~ (j < i) /\ j # i
      BY <1>1, <2>3
    <3>2. back[j - i] = s[j - 1]
      BY <1>3, <3>1
    <3> QED
      BY <1>6, <3>1, <3>2
  <2> QED
    BY <1>1, <2>1, <2>2, <2>3
<1> QED
  BY <1>6, <1>7, <1>9

Members(s) == {s[n] : n \in 1 .. Len(s)}

(* Inserting a later row r into rows in order leaves them in order.        *)
LEMMA InsertFacts ==
    ASSUME NEW R \in SUBSET Nat, Ordering(R), NEW s \in Seq(R), InOrder(s),
           NEW r \in R, \A n \in 1 .. Len(s) : s[n] < r
    PROVE  /\ Insert(s, r) \in Seq(R) /\ Len(Insert(s, r)) = Len(s) + 1
           /\ InOrder(Insert(s, r)) /\ Members(Insert(s, r)) = Members(s) \cup {r}
<1> DEFINE K == {0} \cup {i \in DOMAIN s : ~ RowBefore(r, s[i])}
           k == Max(K)
           new == InsertAt(s, 1 + k, r)
<1>1. Len(s) \in Nat /\ DOMAIN s = 1 .. Len(s) /\ \A n \in 1 .. Len(s) : s[n] \in R /\ s[n] \in Nat
  <2>1. Len(s) \in Nat /\ DOMAIN s = 1 .. Len(s) /\ \A n \in 1 .. Len(s) : s[n] \in R
    OBVIOUS
  <2> QED
    BY <2>1
<1>2. k \in K /\ \A i \in K : k >= i
  <2>1. K \in SUBSET Nat /\ K # {} /\ \A i \in K : i <= Len(s)
    BY <1>1
  <2> HIDE DEF K
  <2> QED
    BY <1>1, <2>1, MaxFact
<1>3. k \in 0 .. Len(s) /\ (k # 0 => ~ RowBefore(r, s[k]))
  BY <1>1, <1>2
<1>4. \A n \in 1 .. Len(s) : n > k => RowBefore(r, s[n])
  <2>1. ASSUME NEW n \in 1 .. Len(s), n > k, ~ RowBefore(r, s[n]) PROVE FALSE
    <3>1. n \in K
      BY <1>1, <2>1
    <3> HIDE DEF K, k
    <3> QED
      BY <1>2, <1>3, <2>1, <3>1
  <2> QED
    BY <2>1
<1> HIDE DEF k
<1>5. ASSUME NEW n \in 1 .. Len(s), n <= k PROVE ~ RowBefore(r, s[n])
  <2>1. k \in 1 .. Len(s) /\ ~ RowBefore(r, s[k])
    BY <1>3, <1>5
  <2>2. CASE n = k
    BY <2>1, <2>2
  <2>3. CASE n < k
    <3>1. ~ RowBefore(s[k], s[n])
      <4>1. RowBefore(s[n], s[k]) \/ ~ RowBefore(s[k], s[n])
        BY <2>1, <2>3 DEF InOrder
      <4>2. s[n] \in R /\ s[k] \in R
        BY <1>1, <2>1
      <4> QED
        BY <4>1, <4>2 DEF Ordering
    <3>2. s[n] \in R /\ s[k] \in R
      BY <1>1, <2>1
    <3> QED
      BY <2>1, <3>1, <3>2, Zenon DEF Ordering
  <2> QED
    BY <1>3, <1>5, <2>2, <2>3
<1>6. /\ new \in Seq(R) /\ Len(new) = Len(s) + 1
      /\ \A j \in 1 .. Len(s) + 1 :
           new[j] = IF j < 1 + k THEN s[j] ELSE IF j = 1 + k THEN r ELSE s[j - 1]
  <2> DEFINE i == 1 + k
  <2>1. i \in 1 .. Len(s) + 1
    BY <1>1, <1>3
  <2>2. new = InsertAt(s, i, r)
    OBVIOUS
  <2> HIDE DEF K, new, i
  <2>3. /\ new \in Seq(R) /\ Len(new) = Len(s) + 1
        /\ \A j \in 1 .. Len(s) + 1 :
             new[j] = IF j < i THEN s[j] ELSE IF j = i THEN r ELSE s[j - 1]
    <3>1. s \in Seq(R) /\ r \in R
      OBVIOUS
    <3>2. /\ InsertAt(s, i, r) \in Seq(R) /\ Len(InsertAt(s, i, r)) = Len(s) + 1
          /\ \A j \in 1 .. Len(s) + 1 :
               InsertAt(s, i, r)[j] = IF j < i THEN s[j] ELSE IF j = i THEN r ELSE s[j - 1]
      BY ONLY <3>1, <2>1, InsertAtFacts
    <3> QED
      BY <2>2, <3>2
  <2> QED
    BY <2>3 DEF i
<1>7. new = Insert(s, r)
  BY DEF Insert, k
<1> HIDE DEF new
(* Where an entry of the new sequence comes from. *)
<1>8. ASSUME NEW j \in 1 .. Len(s) + 1
      PROVE  \/ j <= k /\ j \in 1 .. Len(s) /\ new[j] = s[j]
             \/ j = k + 1 /\ new[j] = r
             \/ j > k + 1 /\ j - 1 > k /\ j - 1 \in 1 .. Len(s) /\ new[j] = s[j - 1]
  <2>1. CASE j <= k
    <3>1. j < 1 + k /\ j \in 1 .. Len(s)
      BY <1>1, <1>3, <2>1
    <3> QED
      BY <1>6, <2>1, <3>1
  <2>2. CASE j = k + 1
    <3>1. ~ (j < 1 + k) /\ j = 1 + k
      BY <1>1, <1>3, <2>2
    <3> QED
      BY <1>6, <2>2, <3>1
  <2>3. CASE j > k + 1
    <3>1. ~ (j < 1 + k) /\ j # 1 + k /\ j - 1 > k /\ j - 1 \in 1 .. Len(s)
      BY <1>1, <1>3, <2>3
    <3> QED
      BY <1>6, <2>3, <3>1
  <2> QED
    BY <1>1, <1>3, <2>1, <2>2, <2>3
<1>9. InOrder(new)
  <2>1. SUFFICES ASSUME NEW n \in 1 .. Len(s) + 1, NEW m \in 1 .. Len(s) + 1, n < m
                 PROVE  \/ RowBefore(new[n], new[m])
                        \/ ~ RowBefore(new[m], new[n]) /\ new[n] < new[m]
    BY <1>6 DEF InOrder
  <2>2. CASE n = k + 1
    <3>1. m - 1 > k /\ m - 1 \in 1 .. Len(s) /\ new[m] = s[m - 1] /\ new[n] = r
      BY <1>3, <1>8, <2>1, <2>2
    <3> QED
      BY <1>4, <3>1
  <2>3. CASE m = k + 1
    <3>1. n <= k /\ n \in 1 .. Len(s) /\ new[n] = s[n] /\ new[m] = r
      BY <1>3, <1>8, <2>1, <2>3
    <3> QED
      BY <1>5, <3>1
  <2>4. CASE n # k + 1 /\ m # k + 1
    <3> DEFINE old(j) == IF j <= k THEN j ELSE j - 1
    <3>1. /\ old(n) \in 1 .. Len(s) /\ old(m) \in 1 .. Len(s) /\ old(n) < old(m)
          /\ new[n] = s[old(n)] /\ new[m] = s[old(m)]
      BY <1>1, <1>3, <1>8, <2>1, <2>4
    <3> HIDE DEF old
    <3> QED
      BY <3>1 DEF InOrder
  <2> QED
    BY <2>2, <2>3, <2>4
<1>10. Members(new) = Members(s) \cup {r}
  <2>1. ASSUME NEW j \in 1 .. Len(s) + 1 PROVE new[j] \in Members(s) \cup {r}
    <3>1. new[j] = r \/ \E i \in 1 .. Len(s) : new[j] = s[i]
      BY <1>8
    <3> QED
      BY <3>1 DEF Members
  <2>2. ASSUME NEW i \in 1 .. Len(s) PROVE \E j \in 1 .. Len(s) + 1 : new[j] = s[i]
    <3>1. CASE i <= k
      <4>1. i \in 1 .. Len(s) + 1 /\ ~ (i = k + 1) /\ ~ (i > k + 1)
        BY <1>1, <1>3, <3>1
      <4> QED
        BY <1>8, <4>1
    <3>2. CASE i > k
      <4>1. i + 1 \in 1 .. Len(s) + 1 /\ ~ (i + 1 = k + 1) /\ ~ (i + 1 <= k) /\ (i + 1) - 1 = i
        BY <1>1, <1>3, <3>2
      <4> QED
        BY <1>8, <4>1
    <3> QED
      BY <1>1, <1>3, <3>1, <3>2
  <2>3. k + 1 \in 1 .. Len(s) + 1 /\ new[k + 1] = r
    <3>1. k + 1 \in 1 .. Len(s) + 1 /\ ~ (k + 1 <= k) /\ ~ (k + 1 > k + 1)
      BY <1>1, <1>3
    <3> QED
      BY <1>8, <3>1
  <2>4. Members(new) = {new[j] : j \in 1 .. Len(s) + 1}
    BY <1>6 DEF Members
  <2>5. \A x \in Members(s) : \E j \in 1 .. Len(s) + 1 : new[j] = x
    BY <2>2 DEF Members
  <2> QED
    BY <2>1, <2>3, <2>4, <2>5, Zenon
<1> QED
  BY <1>6, <1>7, <1>9, <1>10

(* The first n rows of the input, as both sorts copy them.                 *)
Copied(n) == [r \in 1 .. n |-> r]

(* The prefix of a set of positions that ends before its last one.         *)
LEMMA PrefixStep ==
    ASSUME NEW j \in Nat \ {0}
    PROVE  Max(1 .. j) = j /\ (1 .. j) \ {j} = 1 .. j - 1 /\ 1 .. j # {}
<1>1. j \in 1 .. j /\ (1 .. j) \in SUBSET Int /\ \A y \in 1 .. j : y <= j
  OBVIOUS
<1>2. Max(1 .. j) = j
  BY <1>1, MaxIs
<1> QED
  BY <1>1, <1>2

(* The recursion of StableSort has a solution.                             *)
LEMMA SortExists ==
    ASSUME NEW n \in Nat
    PROVE  \E F : Sorts(F, Copied(n))
<1> DEFINE rows == Copied(n)
           R == 1 .. n
           step == [q \in (SUBSET R) \X Seq(R) |-> IF q[1] = {} THEN << >> ELSE Insert(q[2], rows[Max(q[1])])]
           picked == [s \in SUBSET R |-> IF s = {} THEN {} ELSE Max(s)]
<1>1. DOMAIN rows = R /\ \A r \in R : rows[r] = r
  BY DEF Copied
<1>2. ASSUME NEW s \in SUBSET R, s # {} PROVE Max(s) \in s /\ Max(s) \in R
  <2>1. s \in SUBSET Nat /\ \A y \in s : y <= n
    OBVIOUS
  <2>2. Max(s) \in s
    BY <1>2, <2>1, MaxFact
  <2> QED
    BY <2>2
<1>3. ASSUME NEW s \in Seq(R), NEW r \in R PROVE Insert(s, r) \in Seq(R)
  <2> DEFINE K == {0} \cup {i \in DOMAIN s : ~ RowBefore(r, s[i])}
  <2>1. Len(s) \in Nat /\ DOMAIN s = 1 .. Len(s)
    OBVIOUS
  <2>2. K \in SUBSET Nat /\ K # {} /\ \A i \in K : i \in 0 .. Len(s)
    BY <2>1
  <2>3. Insert(s, r) = InsertAt(s, 1 + Max(K), r)
    BY DEF Insert
  <2> HIDE DEF K
  <2>4. \A y \in K : y <= Len(s)
    BY <2>1, <2>2
  <2>5. Max(K) \in K
    BY <2>1, <2>2, <2>4, MaxFact
  <2>6. Max(K) \in 0 .. Len(s)
    BY <2>2, <2>5
  <2> DEFINE i == 1 + Max(K)
  <2>7. i \in 1 .. Len(s) + 1 /\ Insert(s, r) = InsertAt(s, i, r)
    BY <2>1, <2>3, <2>6
  <2> HIDE DEF i, R
  <2> QED
    BY <2>7, InsertAtFacts
<1>4. step \in [(SUBSET R) \X Seq(R) -> Seq(R)]
  <2>1. ASSUME NEW q \in (SUBSET R) \X Seq(R)
        PROVE  (IF q[1] = {} THEN << >> ELSE Insert(q[2], rows[Max(q[1])])) \in Seq(R)
    <3>1. q[1] \in SUBSET R /\ q[2] \in Seq(R)
      OBVIOUS
    <3>2. CASE q[1] = {}
      BY <3>2
    <3>3. CASE q[1] # {}
      <4>1. rows[Max(q[1])] \in R
        BY <1>1, <1>2, <3>1, <3>3
      <4> QED
        BY <1>3, <3>1, <3>3, <4>1
    <3> QED
      BY <3>2, <3>3
  <2> QED
    BY <2>1
<1>5. /\ picked \in [SUBSET R -> R \cup {{}}]
      /\ \A s \in SUBSET R : s # {} => picked[s] \in s
  BY <1>2
<1>6. PICK F \in [SUBSET R -> Seq(R)] : IsFold(F, R, << >>, step, picked)
  <2> HIDE DEF step, picked, R
  <2>1. IsFiniteSet(R) /\ << >> \in Seq(R)
    BY FS_Interval DEF R
  <2> QED
    BY <1>4, <1>5, <2>1, FoldExists
<1>7. ASSUME NEW s \in SUBSET R
      PROVE  F[s] = IF s = {} THEN << >> ELSE Insert(F[s \ {Max(s)}], rows[Max(s)])
  <2>1. CASE s = {}
    BY <1>6, <2>1, FoldStep
  <2>2. CASE s # {}
    <3>1. F[s] = step[<<s, F[s \ {picked[s]}]>>]
      <4> HIDE DEF step, picked
      <4> QED
        BY <1>6, <2>2 DEF IsFold
    <3>2. picked[s] = Max(s)
      BY <2>2
    <3>3. <<s, F[s \ {Max(s)}]>> \in (SUBSET R) \X Seq(R)
      BY <1>6
    <3> QED
      BY <2>2, <3>1, <3>2, <3>3
  <2> QED
    BY <2>1, <2>2
<1>8. F = [s \in SUBSET R |-> F[s]]
  BY <1>6
<1>9. Sorts(F, rows)
  BY <1>1, <1>7, <1>8 DEF Sorts
<1> QED
  BY <1>9

(* StableSort puts the rows it is given in order.                          *)
LEMMA SortFacts ==
    ASSUME NEW n \in Nat, Ordering(1 .. n)
    PROVE  /\ StableSort(Copied(n)) \in Seq(1 .. n) /\ Len(StableSort(Copied(n))) = n
           /\ InOrder(StableSort(Copied(n))) /\ Members(StableSort(Copied(n))) = 1 .. n
<1> DEFINE rows == Copied(n)
           R == 1 .. n
<1>1. DOMAIN rows = R /\ \A r \in R : rows[r] = r
  BY DEF Copied
<1>2. PICK F : Sorts(F, rows) /\ StableSort(rows) = F[DOMAIN rows]
  <2>1. \E F : Sorts(F, rows)
    BY SortExists
  <2> HIDE DEF rows
  <2>2. \E F : F = [s \in SUBSET (DOMAIN rows) |->
                       IF s = {} THEN << >> ELSE Insert(F[s \ {Max(s)}], rows[Max(s)])]
    BY <2>1 DEF Sorts
  <2>3. \E F : /\ F = [s \in SUBSET (DOMAIN rows) |->
                       IF s = {} THEN << >> ELSE Insert(F[s \ {Max(s)}], rows[Max(s)])]
               /\ StableSort(rows) = F[DOMAIN rows]
    BY <2>2 DEF StableSort, FoldLeft, MapThenFoldSet
  <2> QED
    BY <2>3 DEF Sorts
<1>3. \A s \in SUBSET R : F[s] = IF s = {} THEN << >> ELSE Insert(F[s \ {Max(s)}], rows[Max(s)])
  BY <1>1, <1>2 DEF Sorts
<1> DEFINE Sorted(j) == /\ F[1 .. j] \in Seq(R) /\ Len(F[1 .. j]) = j
                        /\ InOrder(F[1 .. j]) /\ Members(F[1 .. j]) = 1 .. j
           Bad == {j \in 0 .. n : ~ Sorted(j)}
<1>4. ASSUME Bad # {} PROVE FALSE
  <2>0. Bad \in SUBSET Nat
    OBVIOUS
  <2>1. PICK j \in Bad : \A i \in Bad : j <= i
    <3> HIDE DEF Bad
    <3> QED
      BY <1>4, <2>0, LeastNat
  <2>2. j \in 0 .. n /\ j \in Nat /\ ~ Sorted(j)
    BY <2>1
  <2>3. CASE j = 0
    <3>1. 1 .. j = {} /\ {} \in SUBSET R
      BY <2>3
    <3>2. F[1 .. j] = << >>
      BY <1>3, <3>1
    <3>3. Sorted(j)
      BY <2>3, <3>1, <3>2 DEF InOrder, Members
    <3> QED
      BY <2>2, <3>3
  <2>4. CASE j # 0
    <3>1. j - 1 \in 0 .. n /\ ~ (j <= j - 1) /\ j \in Nat \ {0} /\ j \in R
      BY <2>2, <2>4
    <3>2. Sorted(j - 1)
      BY <2>1, <3>1
    <3> DEFINE s == F[1 .. j - 1]
    <3>3. F[1 .. j] = Insert(s, j)
      <4>1. 1 .. j \in SUBSET R
        BY <2>2
      <4>2. F[1 .. j] = Insert(F[(1 .. j) \ {Max(1 .. j)}], rows[Max(1 .. j)])
        BY <1>3, <3>1, <4>1, PrefixStep
      <4> QED
        BY <1>1, <3>1, <4>2, PrefixStep
    <3>4. /\ s \in Seq(R) /\ Len(s) = j - 1 /\ InOrder(s) /\ Members(s) = 1 .. j - 1
      BY <3>2
    <3> HIDE DEF s
    <3>5. \A i \in 1 .. Len(s) : s[i] < j
      <4>1. ASSUME NEW i \in 1 .. Len(s) PROVE s[i] < j
        <5>1. s[i] \in Members(s)
          BY DEF Members
        <5> QED
          BY <2>2, <3>4, <5>1
      <4> QED
        BY <4>1
    <3>6. R \in SUBSET Nat
      OBVIOUS
    <3> HIDE DEF R
    <3>7. /\ Insert(s, j) \in Seq(R) /\ Len(Insert(s, j)) = Len(s) + 1
          /\ InOrder(Insert(s, j)) /\ Members(Insert(s, j)) = Members(s) \cup {j}
      <4>1. Ordering(R)
        BY DEF R
      <4> QED
        BY <3>1, <3>4, <3>5, <3>6, <4>1, InsertFacts
    <3>8. Len(s) + 1 = j /\ Members(s) \cup {j} = 1 .. j
      BY <3>1, <3>4
    <3>9. Sorted(j)
      BY <3>3, <3>7, <3>8
    <3> QED
      BY <2>2, <3>9
  <2> QED
    BY <2>3, <2>4
<1>5. Sorted(n)
  BY <1>4
<1> QED
  BY <1>1, <1>2, <1>5

-----------------------------------------------------------------------------
(* The comparator of ORDER BY.                                             *)

(* Column n of the list puts row r before row s, and tells them apart.     *)
Less(n, r, s) ==
    LET c == order_by[n].column
    IN  IF order_by[n].desc THEN Before(input[s][c], input[r][c])
                            ELSE Before(input[r][c], input[s][c])

Tie(n, r, s) == ~ Less(n, r, s) /\ ~ Less(n, s, r)

Cells == [key : Key \cup {NULL}, arg : Arg \cup {NULL}]

(* What Init chose for the sort and no step changes.                       *)
Sortable ==
    /\ input \in Seq(Cells)
    /\ order_by \in Seq([column : {"key", "arg"}, desc : BOOLEAN])

LEMMA RowBeforeIs ==
    ASSUME NEW r, NEW s
    PROVE  RowBefore(r, s) <=> \E n \in DOMAIN order_by :
                                  Less(n, r, s) /\ \A m \in 1 .. n - 1 : Tie(m, r, s)
BY DEF RowBefore, Less, Tie

(* Values in the order of ranks, NULL first.                               *)
LEMMA BeforeIsRank ==
    ASSUME NEW V \in {Key, Arg}, NEW a \in V \cup {NULL}, NEW b \in V \cup {NULL}
    PROVE  /\ Rank(a) \in Int /\ Rank(b) \in Int
           /\ Before(a, b) <=> Rank(a) < Rank(b)
           /\ Rank(a) = Rank(b) => a = b
<1> DEFINE least == Min(Key \cup Arg)
<1>1. Key \cup Arg \subseteq Int /\ NULL \notin Key \cup Arg /\ V \subseteq Key \cup Arg
  BY ValueAssumption
<1>2. least \in Key \cup Arg /\ \A v \in Key \cup Arg : least <= v
  BY ValueAssumption, Zenon DEF Min
<1> HIDE DEF least
<1>3. /\ Rank(a) = IF a = NULL THEN least - 1 ELSE a
      /\ Rank(b) = IF b = NULL THEN least - 1 ELSE b
  BY DEF Rank, least
<1>4. least \in Int /\ (a # NULL => a \in Int /\ least <= a) /\ (b # NULL => b \in Int /\ least <= b)
  BY <1>1, <1>2
<1>5. Rank(a) \in Int /\ Rank(b) \in Int
  BY <1>3, <1>4
<1>6. Before(a, b) <=> Rank(a) < Rank(b)
  <2>1. CASE a = NULL /\ b = NULL
    BY <1>3, <1>4, <2>1 DEF Before
  <2>2. CASE a = NULL /\ b # NULL
    BY <1>3, <1>4, <2>2 DEF Before
  <2>3. CASE a # NULL /\ b = NULL
    BY <1>3, <1>4, <2>3 DEF Before
  <2>4. CASE a # NULL /\ b # NULL
    BY <1>3, <1>4, <2>4 DEF Before
  <2> QED
    BY <2>1, <2>2, <2>3, <2>4
<1>7. Rank(a) = Rank(b) => a = b
  BY <1>3, <1>4
<1> QED
  BY <1>5, <1>6, <1>7

(* Each column orders the rows by a number.                                *)
RankAt(n, r) ==
    IF order_by[n].desc THEN 0 - Rank(input[r][order_by[n].column])
                        ELSE Rank(input[r][order_by[n].column])

LEMMA LessIsRank ==
    ASSUME Sortable, NEW n \in DOMAIN order_by, NEW r \in Rows, NEW s \in Rows
    PROVE  /\ RankAt(n, r) \in Int /\ RankAt(n, s) \in Int
           /\ Less(n, r, s) <=> RankAt(n, r) < RankAt(n, s)
           /\ Less(n, r, s) <=> IF order_by[n].desc
                                THEN Rank(input[r][order_by[n].column]) > Rank(input[s][order_by[n].column])
                                ELSE Rank(input[r][order_by[n].column]) < Rank(input[s][order_by[n].column])
           /\ Tie(n, r, s) <=> RankAt(n, r) = RankAt(n, s)
           /\ Tie(n, r, s) <=> input[r][order_by[n].column] = input[s][order_by[n].column]
<1> DEFINE c == order_by[n].column
           x == input[r][c]
           y == input[s][c]
<1>1. c \in {"key", "arg"} /\ order_by[n].desc \in BOOLEAN
  <2>1. order_by[n] \in [column : {"key", "arg"}, desc : BOOLEAN]
    <3>1. order_by \in Seq([column : {"key", "arg"}, desc : BOOLEAN]) /\ n \in 1 .. Len(order_by)
      BY DEF Sortable
    <3> QED
      BY ONLY <3>1, ElementOfSeq
  <2> QED
    BY <2>1
<1>2. input[r] \in Cells /\ input[s] \in Cells
  BY DEF Sortable, Rows
<1>3. \E V \in {Key, Arg} : x \in V \cup {NULL} /\ y \in V \cup {NULL}
  <2>1. CASE c = "key"
    BY <1>2, <2>1 DEF Cells
  <2>2. CASE c = "arg"
    BY <1>2, <2>2 DEF Cells
  <2> QED
    BY <1>1, <2>1, <2>2
<1>4. /\ Less(n, r, s) <=> IF order_by[n].desc THEN Before(y, x) ELSE Before(x, y)
      /\ Less(n, s, r) <=> IF order_by[n].desc THEN Before(x, y) ELSE Before(y, x)
      /\ RankAt(n, r) = IF order_by[n].desc THEN 0 - Rank(x) ELSE Rank(x)
      /\ RankAt(n, s) = IF order_by[n].desc THEN 0 - Rank(y) ELSE Rank(y)
  BY DEF Less, RankAt
<1> HIDE DEF x, y
<1>5. /\ Rank(x) \in Int /\ Rank(y) \in Int
      /\ Before(x, y) <=> Rank(x) < Rank(y)
      /\ Before(y, x) <=> Rank(y) < Rank(x)
      /\ Rank(x) = Rank(y) => x = y
  BY <1>3, BeforeIsRank
<1>6. /\ RankAt(n, r) \in Int /\ RankAt(n, s) \in Int
      /\ Less(n, r, s) <=> RankAt(n, r) < RankAt(n, s)
      /\ Less(n, s, r) <=> RankAt(n, s) < RankAt(n, r)
      /\ Less(n, r, s) <=> IF order_by[n].desc THEN Rank(x) > Rank(y) ELSE Rank(x) < Rank(y)
      /\ RankAt(n, r) = RankAt(n, s) <=> Rank(x) = Rank(y)
  <2>1. CASE order_by[n].desc
    BY <1>4, <1>5, <2>1
  <2>2. CASE ~ order_by[n].desc
    BY <1>4, <1>5, <2>2
  <2> QED
    BY <2>1, <2>2
<1>7. Tie(n, r, s) <=> RankAt(n, r) = RankAt(n, s)
  BY <1>6 DEF Tie
<1>8. Tie(n, r, s) <=> x = y
  BY <1>5, <1>6, <1>7
<1> QED
  BY <1>6, <1>7, <1>8 DEF x, y

(* The comparator is Precedes, what ORDER BY promises.                     *)
LEMMA RowBeforeIsPrecedes ==
    ASSUME Sortable, NEW r \in Rows, NEW s \in Rows
    PROVE  RowBefore(r, s) <=> Precedes(r, s)
<1>1. DOMAIN order_by = 1 .. Len(order_by) /\ Len(order_by) \in Nat
  BY DEF Sortable
<1>2. ASSUME NEW n \in DOMAIN order_by
      PROVE  /\ \A m \in 1 .. n - 1 : m \in DOMAIN order_by
             /\ (\A m \in 1 .. n - 1 : Tie(m, r, s))
                <=> \A m \in 1 .. n - 1 : input[r][order_by[m].column] = input[s][order_by[m].column]
  <2>1. \A m \in 1 .. n - 1 : m \in DOMAIN order_by
    BY <1>1
  <2>2. \A m \in 1 .. n - 1 :
           Tie(m, r, s) <=> input[r][order_by[m].column] = input[s][order_by[m].column]
    BY <2>1, LessIsRank
  <2> QED
    BY <2>1, <2>2
<1>3. \A n \in DOMAIN order_by :
         Less(n, r, s) <=> IF order_by[n].desc
                           THEN Rank(input[r][order_by[n].column]) > Rank(input[s][order_by[n].column])
                           ELSE Rank(input[r][order_by[n].column]) < Rank(input[s][order_by[n].column])
  BY LessIsRank
<1>4. Precedes(r, s) <=> \E n \in DOMAIN order_by :
                            /\ IF order_by[n].desc
                               THEN Rank(input[r][order_by[n].column]) > Rank(input[s][order_by[n].column])
                               ELSE Rank(input[r][order_by[n].column]) < Rank(input[s][order_by[n].column])
                            /\ \A m \in 1 .. n - 1 : input[r][order_by[m].column] = input[s][order_by[m].column]
  BY DEF Precedes
<1> QED
  BY <1>2, <1>3, <1>4, RowBeforeIs, Zenon

(* The comparator is a strict weak order, as std::stable_sort requires.    *)
LEMMA RowsOrdered ==
    ASSUME Sortable
    PROVE  Ordering(Rows)
<1>1. DOMAIN order_by = 1 .. Len(order_by) /\ Len(order_by) \in Nat
  BY DEF Sortable
<1>2. ASSUME NEW r \in Rows, NEW s \in Rows, RowBefore(r, s) PROVE ~ RowBefore(s, r)
  <2>1. SUFFICES ASSUME RowBefore(s, r) PROVE FALSE
    OBVIOUS
  <2>2. PICK n \in DOMAIN order_by : Less(n, r, s) /\ \A m \in 1 .. n - 1 : Tie(m, r, s)
    BY <1>2, RowBeforeIs
  <2>3. PICK k \in DOMAIN order_by : Less(k, s, r) /\ \A m \in 1 .. k - 1 : Tie(m, s, r)
    BY <2>1, RowBeforeIs
  <2>4. n \in Nat \ {0} /\ k \in Nat \ {0}
    BY <1>1
  <2>5. CASE n < k
    <3>1. n \in 1 .. k - 1
      BY <2>4, <2>5
    <3> QED
      BY <2>2, <2>3, <3>1 DEF Tie
  <2>6. CASE k < n
    <3>1. k \in 1 .. n - 1
      BY <2>4, <2>6
    <3> QED
      BY <2>2, <2>3, <3>1 DEF Tie
  <2>7. CASE n = k
    <3>1. /\ RankAt(n, r) \in Int /\ RankAt(n, s) \in Int
          /\ RankAt(n, r) < RankAt(n, s) /\ RankAt(n, s) < RankAt(n, r)
      BY <2>2, <2>3, <2>7, LessIsRank
    <3> QED
      BY <3>1
  <2> QED
    BY <2>4, <2>5, <2>6, <2>7
<1>3. ASSUME NEW r \in Rows, NEW s \in Rows, NEW t \in Rows, RowBefore(r, s)
      PROVE  RowBefore(r, t) \/ RowBefore(t, s)
  <2>1. PICK n \in DOMAIN order_by : Less(n, r, s) /\ \A m \in 1 .. n - 1 : Tie(m, r, s)
    BY <1>3, RowBeforeIs
  <2> DEFINE D == {m \in 1 .. n : ~ Tie(m, r, t) \/ ~ Tie(m, t, s)}
  <2>2. n \in Nat \ {0} /\ \A m \in 1 .. n : m \in DOMAIN order_by
    BY <1>1
  <2>3. n \in D
    <3>1. ~ (Tie(n, r, t) /\ Tie(n, t, s))
      <4>1. /\ RankAt(n, r) \in Int /\ RankAt(n, s) \in Int
            /\ RankAt(n, r) < RankAt(n, s)
        BY <2>1, LessIsRank
      <4>2. /\ Tie(n, r, t) => RankAt(n, r) = RankAt(n, t)
            /\ Tie(n, t, s) => RankAt(n, t) = RankAt(n, s)
        BY LessIsRank
      <4> QED
        BY <4>1, <4>2
    <3> QED
      BY <2>2, <3>1
  <2>4. PICK m \in D : \A k \in D : m <= k
    <3>1. D \in SUBSET Nat /\ D # {}
      BY <2>2, <2>3
    <3> HIDE DEF D
    <3> QED
      BY <3>1, LeastNat
  <2>5. m \in 1 .. n /\ m \in DOMAIN order_by /\ m \in Nat
    BY <2>2, <2>4
  <2>6. ASSUME NEW k \in 1 .. m - 1 PROVE Tie(k, r, t) /\ Tie(k, t, s)
    <3>1. k \in 1 .. n /\ ~ (m <= k)
      BY <2>2, <2>5
    <3>2. k \notin D
      BY <2>4, <3>1
    <3> QED
      BY <3>1, <3>2
  <2>7. /\ RankAt(m, r) \in Int /\ RankAt(m, s) \in Int /\ RankAt(m, t) \in Int
        /\ Less(m, r, t) <=> RankAt(m, r) < RankAt(m, t)
        /\ Less(m, t, s) <=> RankAt(m, t) < RankAt(m, s)
        /\ Tie(m, r, t) <=> RankAt(m, r) = RankAt(m, t)
        /\ Tie(m, t, s) <=> RankAt(m, t) = RankAt(m, s)
    BY <2>5, LessIsRank
  <2>8. RankAt(m, r) <= RankAt(m, s)
    <3>1. CASE m = n
      <4>1. RankAt(m, r) < RankAt(m, s)
        BY <2>1, <3>1, LessIsRank
      <4> QED
        BY <2>7, <4>1
    <3>2. CASE m # n
      <4>1. m \in 1 .. n - 1
        BY <2>2, <2>5, <3>2
      <4>2. RankAt(m, r) = RankAt(m, s)
        BY <2>1, <2>5, <4>1, LessIsRank
      <4> QED
        BY <2>7, <4>2
    <3> QED
      BY <3>1, <3>2
  <2>9. Less(m, r, t) \/ Less(m, t, s)
    <3>1. ~ Tie(m, r, t) \/ ~ Tie(m, t, s)
      BY <2>4
    <3>2. CASE RankAt(m, r) < RankAt(m, t)
      BY <2>7, <3>2
    <3>3. CASE RankAt(m, t) < RankAt(m, s)
      BY <2>7, <3>3
    <3>4. CASE ~ (RankAt(m, r) < RankAt(m, t)) /\ ~ (RankAt(m, t) < RankAt(m, s))
      <4>1. RankAt(m, r) = RankAt(m, t) /\ RankAt(m, t) = RankAt(m, s)
        BY <2>7, <2>8, <3>4
      <4> QED
        BY <2>7, <3>1, <4>1
    <3> QED
      BY <3>2, <3>3, <3>4
  <2> QED
    BY <2>5, <2>6, <2>9, RowBeforeIs
<1> QED
  BY <1>2, <1>3 DEF Ordering

-----------------------------------------------------------------------------
(* The inductive invariant.                                                *)

(* The first row of the input with text t.                                 *)
FirstOf(t) == Min({r \in Rows : RowText(r) = t})

(* The rows consumed whose text is t.                                      *)
RowsOf(t) == {r \in 1 .. next - 1 : RowText(r) = t}

GroupType == [key : Seq(Key \cup Arg \cup {NULL}), acc : Accumulator]

(* What Init chose and no step changes.                                    *)
Inputs ==
    /\ operator \in {"aggregate", "distinct", "sort"}
    /\ engine \in {"volcano", "vectorized"} /\ group_by \in Seq({"key", "arg"})
    /\ Sortable
    /\ Streams => \A r \in Rows : input[r].key \in StreamedKeys

TypeInv ==
    /\ pc \in {"consume", "emit", "done"}
    /\ next \in 1 .. Len(input) + 1
    /\ seen \in Seq(IF operator = "sort" THEN {} ELSE {RowText(r) : r \in 1 .. next - 1})
    /\ groups \in Seq(GroupType)
    /\ buffer \in Seq(IF operator = "aggregate" THEN AggregateRows ELSE Rows)
    /\ result \in Seq(IF operator = "aggregate" THEN AggregateRows ELSE Rows)
    /\ cursor \in 0 .. Len(buffer)

(* The hash table has every text consumed once, in the order in which      *)
(* their first rows came.                                                  *)
Table ==
    /\ operator # "sort" => \A r \in 1 .. next - 1 : RowText(r) \in Members(seen)
    /\ \A i, j \in 1 .. Len(seen) : i < j => FirstOf(seen[i]) < FirstOf(seen[j])

(* Every group has the key of its first row and sums up its rows.          *)
Grouped ==
    operator = "aggregate" =>
        /\ Len(groups) = Len(seen)
        /\ \A g \in 1 .. Len(groups) :
              /\ groups[g].key = KeyOf(FirstOf(seen[g]))
              /\ Summary(groups[g].acc, input, RowsOf(seen[g]))

(* DISTINCT has kept the first row of every text.                          *)
FirstRows(s) == Len(s) = Len(seen) /\ \A n \in 1 .. Len(s) : s[n] = FirstOf(seen[n])

Kept == operator = "distinct" => FirstRows(IF Streams THEN result ELSE buffer)

(* The sort has copied the rows, and then sorted them.                     *)
Sorted ==
    operator = "sort" =>
        IF pc = "consume" THEN buffer = Copied(next - 1)
        ELSE Len(buffer) = Len(input) /\ Members(buffer) = Rows /\ InOrder(buffer)

(* The rows of the groups.                                                 *)
GroupRow(g) == AggregateRow(AllGroups[g].key, AllGroups[g].acc)

(* The aggregate has put out each group once, the vectorized one in order. *)
Placed ==
    operator = "aggregate" /\ pc # "consume" =>
        \E order \in SetToSeqs(DOMAIN AllGroups) :
            /\ engine = "vectorized" => \A n \in DOMAIN order : order[n] = n
            /\ buffer = [n \in DOMAIN order |-> GroupRow(order[n])]

(* What is handed up is the front of the buffer, all of it in the end;     *)
(* nothing is handed up before the input is consumed, unless it streams.   *)
Handed ==
    /\ pc # "consume" => next = Len(input) + 1
    /\ pc = "consume" => cursor = 0
    /\ ~ Streams => result = SubSeq(buffer, 1, cursor)
    /\ pc = "done" /\ ~ Streams => cursor = Len(buffer)
    /\ pc = "emit" => ~ Streams

IInv == Inputs /\ TypeInv /\ Table /\ Grouped /\ Kept /\ Sorted /\ Placed /\ Handed

-----------------------------------------------------------------------------
(* What the steps have in common.                                          *)

LEMMA AppendFacts ==
    ASSUME NEW T, NEW s \in Seq(T), NEW x \in T
    PROVE  /\ Append(s, x) \in Seq(T) /\ Len(Append(s, x)) = Len(s) + 1 /\ Len(s) \in Nat
           /\ \A i \in 1 .. Len(s) : Append(s, x)[i] = s[i]
           /\ Append(s, x)[Len(s) + 1] = x
           /\ \A i \in 1 .. Len(s) + 1 : i \in 1 .. Len(s) \/ i = Len(s) + 1
           /\ Members(Append(s, x)) = Members(s) \cup {x}
<1>1. /\ Append(s, x) \in Seq(T) /\ Len(Append(s, x)) = Len(s) + 1 /\ Len(s) \in Nat
      /\ \A i \in 1 .. Len(s) : Append(s, x)[i] = s[i]
      /\ Append(s, x)[Len(s) + 1] = x
      /\ \A i \in 1 .. Len(s) + 1 : i \in 1 .. Len(s) \/ i = Len(s) + 1
  OBVIOUS
<1>2. 1 .. Len(s) + 1 = (1 .. Len(s)) \cup {Len(s) + 1}
  BY <1>1
<1> DEFINE t == Append(s, x)
<1>3. Members(t) = Members(s) \cup {x}
  <2>1. Members(t) = {t[i] : i \in (1 .. Len(s)) \cup {Len(s) + 1}}
    BY <1>1, <1>2 DEF Members
  <2>2. /\ \A i \in 1 .. Len(s) : t[i] = s[i]
        /\ t[Len(s) + 1] = x
    BY <1>1
  <2> HIDE DEF t
  <2> QED
    BY <2>1, <2>2 DEF Members
<1> QED
  BY <1>1, <1>3

(* The query does not change.                                              *)
LEMMA Fixed ==
    ASSUME UNCHANGED query
    PROVE  /\ input' = input /\ operator' = operator /\ engine' = engine
           /\ group_by' = group_by /\ order_by' = order_by
           /\ Rows' = Rows /\ Streams' = Streams
           /\ Columns' = Columns /\ \A r : KeyOf(r)' = KeyOf(r)
           /\ \A r : RowText(r)' = RowText(r)
           /\ \A t : FirstOf(t)' = FirstOf(t)
           /\ Inputs => Inputs'
<1>1. /\ input' = input /\ operator' = operator /\ engine' = engine
      /\ group_by' = group_by /\ order_by' = order_by
  BY DEF query
<1>2. Rows' = Rows /\ Streams' = Streams
  BY <1>1 DEF Rows, Streams
<1>6. Columns' = Columns
  BY <1>1 DEF Columns
<1>7. \A r : KeyOf(r)' = KeyOf(r)
  BY <1>1, <1>6 DEF KeyOf
<1>3. \A r : RowText(r)' = RowText(r)
  BY <1>1, <1>2, <1>6, <1>7 DEF RowText
<1>4. \A t : FirstOf(t)' = FirstOf(t)
  BY <1>2, <1>3 DEF FirstOf
<1>5. Inputs => Inputs'
  BY <1>1, <1>2 DEF Inputs, Sortable
<1> QED
  BY <1>1, <1>2, <1>3, <1>4, <1>5, <1>6, <1>7

(* The first row with the text of r.                                       *)
LEMMA FirstFacts ==
    ASSUME Inputs, NEW r \in Rows
    PROVE  /\ FirstOf(RowText(r)) \in Rows /\ FirstOf(RowText(r)) <= r
           /\ RowText(FirstOf(RowText(r))) = RowText(r)
           /\ \A s \in Rows : RowText(s) = RowText(r) => FirstOf(RowText(r)) <= s
<1> DEFINE S == {s \in Rows : RowText(s) = RowText(r)}
<1>1. S \in SUBSET Nat /\ r \in S
  BY DEF Rows, Inputs, Sortable
<1>2. Min(S) \in S /\ \A y \in S : Min(S) <= y
  <2> HIDE DEF S
  <2> QED
    BY <1>1, MinFact
<1>3. FirstOf(RowText(r)) = Min(S)
  BY DEF FirstOf
<1> HIDE DEF S
<1>4. FirstOf(RowText(r)) \in S /\ \A y \in S : FirstOf(RowText(r)) <= y
  BY <1>2, <1>3
<1> QED
  BY <1>1, <1>4 DEF S

RowFacts ==
    /\ Rows = 1 .. Len(input) /\ Len(input) \in Nat /\ next \in Nat \ {0}
    /\ 1 .. next - 1 \subseteq Rows

LEMMA RowsAre ==
    ASSUME Inputs, TypeInv
    PROVE  RowFacts
BY DEF Inputs, Sortable, TypeInv, Rows, RowFacts

(* What stands in the hash table.                                          *)
LEMMA SeenFacts ==
    ASSUME IInv, operator # "sort", NEW i \in 1 .. Len(seen)
    PROVE  /\ FirstOf(seen[i]) \in 1 .. next - 1 /\ FirstOf(seen[i]) \in Nat
           /\ RowText(FirstOf(seen[i])) = seen[i]
           /\ \A r \in Rows : RowText(r) = seen[i] => FirstOf(seen[i]) <= r
           /\ \A j \in 1 .. Len(seen) : seen[i] = seen[j] => i = j
<1>1. /\ seen \in Seq({RowText(r) : r \in 1 .. next - 1})
      /\ Rows = 1 .. Len(input) /\ Len(input) \in Nat /\ next \in 1 .. Len(input) + 1
      /\ 1 .. next - 1 \subseteq Rows /\ Inputs
  <2>1. RowFacts
    BY RowsAre DEF IInv
  <2> QED
    BY <2>1 DEF IInv, TypeInv, RowFacts
<1>2. seen[i] \in {RowText(r) : r \in 1 .. next - 1}
  BY <1>1, ElementOfSeq
<1>3. PICK r \in 1 .. next - 1 : seen[i] = RowText(r)
  BY <1>2
<1>4. /\ FirstOf(RowText(r)) \in Rows /\ FirstOf(RowText(r)) <= r
      /\ RowText(FirstOf(RowText(r))) = RowText(r)
      /\ \A s \in Rows : RowText(s) = RowText(r) => FirstOf(RowText(r)) <= s
  BY <1>1, FirstFacts
<1>5. FirstOf(seen[i]) \in 1 .. next - 1 /\ FirstOf(seen[i]) \in Nat
  BY <1>1, <1>3, <1>4
<1>6. ASSUME NEW j \in 1 .. Len(seen), seen[i] = seen[j] PROVE i = j
  <2>1. i < j => FirstOf(seen[i]) < FirstOf(seen[j])
    BY DEF IInv, Table
  <2>2. j < i => FirstOf(seen[j]) < FirstOf(seen[i])
    BY DEF IInv, Table
  <2>3. i \in Nat /\ j \in Nat
    OBVIOUS
  <2>4. ~ (i < j) /\ ~ (j < i)
    BY <1>5, <1>6, <2>1, <2>2
  <2> QED
    BY <2>3, <2>4
<1> QED
  BY <1>3, <1>4, <1>5, <1>6

(* The rows of a text when one more row is consumed.                       *)
LEMMA RowsGrow ==
    ASSUME Inputs, TypeInv, UNCHANGED query, next' = next + 1, NEW t
    PROVE  /\ RowsOf(t)' = IF RowText(next) = t THEN RowsOf(t) \cup {next} ELSE RowsOf(t)
           /\ next \notin RowsOf(t)
<1>1. next \in Nat \ {0} /\ 1 .. next' - 1 = (1 .. next - 1) \cup {next}
      /\ next \notin 1 .. next - 1
  BY RowsAre DEF RowFacts
<1>2. RowsOf(t)' = {r \in 1 .. next' - 1 : RowText(r) = t}
  BY Fixed DEF RowsOf
<1> QED
  BY <1>1, <1>2 DEF RowsOf

(* A new text enters the hash table.                                       *)
LEMMA TextNew ==
    ASSUME IInv, UNCHANGED query, operator # "sort", next \in Rows, next' = next + 1,
           ~ Contains(seen, RowText(next)), seen' = Append(seen, RowText(next))
    PROVE  /\ Table' /\ seen' \in Seq({RowText(r) : r \in 1 .. next' - 1})
           /\ RowText(next) \notin Members(seen)
           /\ FirstOf(RowText(next)) = next
           /\ RowsOf(RowText(next)) = {}
<1> DEFINE t == RowText(next)
<1>1. /\ Inputs /\ TypeInv /\ Rows = 1 .. Len(input) /\ Len(input) \in Nat /\ next \in Nat \ {0}
      /\ 1 .. next - 1 \subseteq Rows
  BY RowsAre DEF IInv, RowFacts
<1>2. t \notin Members(seen)
  BY DEF Contains, Members
<1>3. \A r \in 1 .. next - 1 : RowText(r) # t
  BY <1>2 DEF IInv, Table
<1>4. FirstOf(t) = next
  <2>1. FirstOf(t) \in Rows /\ FirstOf(t) <= next /\ RowText(FirstOf(t)) = t
    BY <1>1, FirstFacts
  <2>2. ~ (FirstOf(t) \in 1 .. next - 1)
    BY <1>3, <2>1
  <2> HIDE DEF t
  <2> QED
    BY <1>1, <2>1, <2>2
<1>5. RowsOf(t) = {}
  BY <1>3 DEF RowsOf
<1> DEFINE T  == {RowText(r) : r \in 1 .. next - 1}
           T2 == {RowText(r) : r \in 1 .. next' - 1}
<1>6. seen \in Seq(T2) /\ t \in T2
  <2>1. 1 .. next - 1 \subseteq 1 .. next' - 1 /\ next \in 1 .. next' - 1
    BY <1>1
  <2>2. T \subseteq T2
    BY <2>1
  <2>3. seen \in Seq(T)
    BY <1>1 DEF TypeInv
  <2>4. t \in T2
    BY <2>1
  <2> HIDE DEF T, T2, t
  <2> QED
    BY <2>2, <2>3, <2>4, SeqMonotonic
<1> HIDE DEF T, T2
<1>7. /\ seen' \in Seq(T2) /\ Len(seen') = Len(seen) + 1 /\ Len(seen) \in Nat
      /\ \A i \in 1 .. Len(seen) : seen'[i] = seen[i]
      /\ seen'[Len(seen) + 1] = t
      /\ \A i \in 1 .. Len(seen) + 1 : i \in 1 .. Len(seen) \/ i = Len(seen) + 1
      /\ Members(seen') = Members(seen) \cup {t}
  <2>1. seen' = Append(seen, t)
    OBVIOUS
  <2> HIDE DEF t
  <2> QED
    BY <1>6, <2>1, AppendFacts
<1> HIDE DEF t
<1>8. operator' # "sort" => \A r \in 1 .. next' - 1 : RowText(r)' \in Members(seen)'
  <2>1. SUFFICES ASSUME NEW r \in 1 .. next' - 1 PROVE RowText(r)' \in Members(seen')
    BY DEF Members
  <2>2. r \in 1 .. next - 1 \/ r = next
    BY <1>1
  <2>3. r \in 1 .. next - 1 => RowText(r) \in Members(seen)
    BY DEF IInv, Table
  <2> QED
    BY <1>7, <2>2, <2>3, Fixed DEF t
<1>9. \A i, j \in 1 .. Len(seen') : i < j => FirstOf(seen'[i]) < FirstOf(seen'[j])
  <2>1. SUFFICES ASSUME NEW i \in 1 .. Len(seen'), NEW j \in 1 .. Len(seen'), i < j
                 PROVE  FirstOf(seen'[i]) < FirstOf(seen'[j])
    OBVIOUS
  <2>2. i \in 1 .. Len(seen) /\ (j \in 1 .. Len(seen) \/ j = Len(seen) + 1)
    BY <1>7, <2>1
  <2>3. CASE j \in 1 .. Len(seen)
    <3>1. FirstOf(seen[i]) < FirstOf(seen[j])
      BY <2>1, <2>2, <2>3 DEF IInv, Table
    <3> QED
      BY <1>7, <2>2, <2>3, <3>1
  <2>4. CASE j = Len(seen) + 1
    <3>1. FirstOf(seen[i]) \in 1 .. next - 1
      BY <2>2, SeenFacts
    <3>2. FirstOf(seen[i]) < next
      BY <1>1, <3>1
    <3> QED
      BY <1>4, <1>7, <2>2, <2>4, <3>2
  <2> QED
    BY <2>2, <2>3, <2>4
<1>10. \A i, j \in 1 .. Len(seen') : i < j => FirstOf(seen[i])' < FirstOf(seen[j])'
  BY <1>9, Fixed DEF FirstOf
<1>11. Table'
  BY <1>8, <1>10 DEF Table
<1> QED
  BY <1>2, <1>4, <1>5, <1>7, <1>11 DEF T2, t

(* A known text leaves the hash table alone.                               *)
LEMMA TextKnown ==
    ASSUME IInv, UNCHANGED <<query, seen>>, operator # "sort", next \in Rows, next' = next + 1,
           RowText(next) \in Members(seen)
    PROVE  Table' /\ seen' \in Seq({RowText(r) : r \in 1 .. next' - 1})
<1>1. /\ Inputs /\ TypeInv /\ next \in Nat \ {0}
  BY RowsAre DEF IInv, RowFacts
<1> DEFINE T  == {RowText(r) : r \in 1 .. next - 1}
           T2 == {RowText(r) : r \in 1 .. next' - 1}
<1>2. seen' \in Seq(T2)
  <2>1. T \subseteq T2
    BY <1>1
  <2>2. seen \in Seq(T) /\ seen' = seen
    BY <1>1 DEF TypeInv
  <2> HIDE DEF T, T2
  <2> QED
    BY <2>1, <2>2, SeqMonotonic
<1>3. operator' # "sort" => \A r \in 1 .. next' - 1 : RowText(r)' \in Members(seen)'
  <2>1. SUFFICES ASSUME NEW r \in 1 .. next' - 1 PROVE RowText(r)' \in Members(seen)'
    OBVIOUS
  <2>2. r \in 1 .. next - 1 \/ r = next
    BY <1>1
  <2>3. r \in 1 .. next - 1 => RowText(r) \in Members(seen)
    BY DEF IInv, Table
  <2>4. Members(seen)' = Members(seen)
    BY DEF Members
  <2> QED
    BY <2>2, <2>3, <2>4, Fixed
<1>4. \A i, j \in 1 .. Len(seen') : i < j => FirstOf(seen[i])' < FirstOf(seen[j])'
  <2>1. \A i, j \in 1 .. Len(seen) : i < j => FirstOf(seen[i]) < FirstOf(seen[j])
    BY DEF IInv, Table
  <2>2. \A i : FirstOf(seen[i])' = FirstOf(seen[i])
    BY Fixed DEF FirstOf
  <2> QED
    BY <2>1, <2>2
<1>5. Table'
  BY <1>3, <1>4 DEF Table
<1> QED
  BY <1>2, <1>5

-----------------------------------------------------------------------------
(* Init and the steps that consume.                                        *)

LEMMA InitInv == Init => IInv
<1> SUFFICES ASSUME Init PROVE IInv
  OBVIOUS
<1>1. /\ pc = "consume" /\ next = 1 /\ seen = << >> /\ groups = << >>
      /\ buffer = << >> /\ cursor = 0 /\ result = << >>
  BY DEF Init
<1>2. PICK n \in 0 .. MaxRows :
         input \in [1 .. n -> [key : IF Streams THEN StreamedKeys ELSE Key \cup {NULL}, arg : Arg \cup {NULL}]]
  BY DEF Init
<1>3. n \in Nat /\ DOMAIN input = 1 .. n
  BY <1>2, BoundAssumption
<1>4. ASSUME NEW r \in 1 .. n
      PROVE  /\ input[r] \in Cells
             /\ Streams => input[r].key \in StreamedKeys
  <2>1. input[r] \in [key : IF Streams THEN StreamedKeys ELSE Key \cup {NULL}, arg : Arg \cup {NULL}]
    BY <1>2
  <2>2. CASE Streams
    BY <2>1, <2>2, ValueAssumption DEF Cells
  <2>3. CASE ~ Streams
    BY <2>1, <2>3 DEF Cells
  <2> QED
    BY <2>2, <2>3
<1>5. input \in Seq(Cells) /\ Len(input) = n
  <2>1. input \in [1 .. n -> Cells]
    BY <1>2, <1>4
  <2> QED
    BY <1>3, <2>1
<1>6. order_by \in Seq([column : {"key", "arg"}, desc : BOOLEAN])
  <2>1. CASE operator = "sort"
    BY <2>1, OrderByAssumption DEF Init
  <2>2. CASE operator # "sort"
    BY <2>2 DEF Init
  <2> QED
    BY <2>1, <2>2
<1>7. Inputs
  <2>1. operator \in {"aggregate", "distinct", "sort"} /\ engine \in {"volcano", "vectorized"}
    BY DEF Init
  <2>2. group_by \in Seq({"key", "arg"})
    <3>1. CASE operator = "aggregate"
      BY <3>1, GroupByAssumption DEF Init
    <3>2. CASE operator # "aggregate"
      BY <3>2 DEF Init
    <3> QED
      BY <3>1, <3>2
  <2>3. Streams => \A r \in Rows : input[r].key \in StreamedKeys
    BY <1>3, <1>4 DEF Rows
  <2> QED
    BY <1>5, <1>6, <2>1, <2>2, <2>3 DEF Inputs, Sortable
<1>8. TypeInv
  BY <1>1, <1>3, <1>5 DEF TypeInv
<1>9. Table /\ Grouped /\ Kept /\ Sorted /\ Placed /\ Handed
  <2>1. Table
    BY <1>1 DEF Table
  <2>2. Grouped
    BY <1>1 DEF Grouped
  <2>3. Kept
    BY <1>1 DEF Kept, FirstRows
  <2>4. Sorted
    <3>1. [r \in 1 .. 0 |-> r] = << >>
      OBVIOUS
    <3> QED
      BY <1>1, <3>1 DEF Sorted, Copied
  <2>5. Placed
    BY <1>1 DEF Placed
  <2>6. Handed
    <3>1. SubSeq(buffer, 1, 0) = << >>
      BY <1>1, SubSeqEmpty
    <3> QED
      BY <1>1, <3>1 DEF Handed
  <2> QED
    BY <2>1, <2>2, <2>3, <2>4, <2>5, <2>6
<1> QED
  BY <1>7, <1>8, <1>9 DEF IInv

(* What a step that consumes row next starts from.                         *)
LEMMA RowReady ==
    ASSUME IInv, HasRow
    PROVE  /\ Inputs /\ TypeInv /\ next \in Rows /\ next \in Nat \ {0} /\ pc = "consume" /\ cursor = 0
           /\ next + 1 \in 1 .. Len(input) + 1 /\ input[next] \in Cells
<1>1. RowFacts /\ Inputs /\ TypeInv
  BY RowsAre DEF IInv
<1>2. next \in Rows /\ next \in Nat \ {0} /\ next + 1 \in 1 .. Len(input) + 1
  BY <1>1 DEF HasRow, RowFacts
<1>3. input[next] \in Cells
  BY <1>1, <1>2 DEF Inputs, Sortable, Rows
<1> QED
  BY <1>1, <1>2, <1>3 DEF HasRow, IInv, Handed

(* The columns that identify a row, and their values.                      *)
LEMMA KeyType ==
    ASSUME Inputs, NEW r \in Rows
    PROVE  /\ Columns \in Seq({"key", "arg"}) /\ KeyOf(r) \in Seq(Key \cup Arg \cup {NULL})
           /\ Len(KeyOf(r)) = Len(Columns) /\ DOMAIN KeyOf(r) = 1 .. Len(Columns)
           /\ \A n \in 1 .. Len(Columns) :
                 IF Columns[n] = "key" THEN KeyOf(r)[n] = input[r].key /\ KeyOf(r)[n] \in Key \cup {NULL}
                                       ELSE KeyOf(r)[n] = input[r].arg /\ KeyOf(r)[n] \in Arg \cup {NULL}
<1>1. input[r] \in Cells
  BY DEF Inputs, Sortable, Rows
<1>2. Columns \in Seq({"key", "arg"})
  <2>1. <<"key", "arg">> \in Seq({"key", "arg"})
    OBVIOUS
  <2> QED
    BY <2>1 DEF Inputs, Columns
<1>3. Len(Columns) \in Nat /\ DOMAIN Columns = 1 .. Len(Columns)
  BY <1>2
<1>4. ASSUME NEW n \in 1 .. Len(Columns)
      PROVE  /\ KeyOf(r)[n] \in Key \cup Arg \cup {NULL}
             /\ IF Columns[n] = "key" THEN KeyOf(r)[n] = input[r].key /\ KeyOf(r)[n] \in Key \cup {NULL}
                                      ELSE KeyOf(r)[n] = input[r].arg /\ KeyOf(r)[n] \in Arg \cup {NULL}
  <2>1. Columns[n] \in {"key", "arg"} /\ KeyOf(r)[n] = input[r][Columns[n]]
    BY <1>2, <1>3, ElementOfSeq DEF KeyOf
  <2> QED
    BY <1>1, <2>1 DEF Cells
<1>5. KeyOf(r) \in [1 .. Len(Columns) -> Key \cup Arg \cup {NULL}]
  BY <1>3, <1>4 DEF KeyOf
<1>6. KeyOf(r) \in Seq(Key \cup Arg \cup {NULL}) /\ Len(KeyOf(r)) = Len(Columns)
  BY <1>3, <1>5
<1> QED
  BY <1>2, <1>4, <1>5, <1>6

(* RowsOf is a finite set.                                                 *)
LEMMA RowsOfFinite ==
    ASSUME TypeInv, Inputs, NEW t
    PROVE  IsFiniteSet(RowsOf(t)) /\ RowsOf(t) \in SUBSET Rows
<1>1. RowFacts
  BY RowsAre
<1>2. IsFiniteSet(1 .. next - 1)
  BY <1>1, FS_Interval DEF RowFacts
<1>3. RowsOf(t) \in SUBSET (1 .. next - 1)
  BY DEF RowsOf
<1> QED
  BY <1>1, <1>2, <1>3, FS_Subset DEF RowFacts

(* The accumulator of the text of the next row, updated.                   *)
LEMMA GroupGrows ==
    ASSUME IInv, HasRow, UNCHANGED query, next' = next + 1,
           NEW t, t = RowText(next), NEW acc, Summary(acc, input, RowsOf(t))
    PROVE  /\ Summary(Updated(acc, input[next].arg), input, RowsOf(t)')
           /\ Updated(acc, input[next].arg) \in Accumulator
<1> DEFINE R == RowsOf(t)
<1>1. /\ Inputs /\ TypeInv /\ next \in Rows
  BY RowReady
<1>2. IsFiniteSet(R) /\ R \in SUBSET Rows
  BY <1>1, RowsOfFinite
<1>3. next \notin R /\ RowsOf(t)' = R \cup {next}
  BY <1>1, RowsGrow
<1>4. ArgsOf(input, R \cup {next})
  <2>1. \A r \in Rows : input[r].arg \in Arg \cup {NULL}
    <3>1. ASSUME NEW r \in Rows PROVE input[r].arg \in Arg \cup {NULL}
      <4>1. input[r] \in Cells
        BY <1>1 DEF Inputs, Sortable, Rows
      <4> QED
        BY <4>1 DEF Cells
    <3> QED
      BY <3>1
  <2> QED
    BY <1>1, <1>2, <2>1 DEF ArgsOf
<1>5. Summary(Updated(acc, input[next].arg), input, R \cup {next})
  <2>1. Summary(acc, input, R)
    OBVIOUS
  <2> HIDE DEF R
  <2> QED
    BY <1>2, <1>3, <1>4, <2>1, UpdatedSummary
<1> QED
  BY <1>3, <1>5 DEF Summary

LEMMA AggregateNewStep == IInv /\ AggregateNew => IInv'
<1> SUFFICES ASSUME IInv, AggregateNew PROVE IInv'
  OBVIOUS
<1>0. PICK t : t = RowText(next)
  OBVIOUS
<1> DEFINE group == [key |-> KeyOf(next), acc |-> Updated(Fresh, input[next].arg)]
<1>1. /\ HasRow /\ operator = "aggregate" /\ ~ Contains(seen, RowText(next))
      /\ seen' = Append(seen, t) /\ groups' = Append(groups, group) /\ next' = next + 1
      /\ UNCHANGED query /\ UNCHANGED <<pc, buffer, cursor, result>>
  BY <1>0 DEF AggregateNew
<1>2. /\ Inputs /\ TypeInv /\ next \in Rows /\ next \in Nat \ {0} /\ pc = "consume" /\ cursor = 0
      /\ next + 1 \in 1 .. Len(input) + 1 /\ input[next] \in Cells
  BY <1>1, RowReady
<1>3. /\ Table' /\ seen' \in Seq({RowText(r) : r \in 1 .. next' - 1})
      /\ t \notin Members(seen) /\ FirstOf(t) = next /\ RowsOf(t) = {}
  BY <1>0, <1>1, <1>2, TextNew
<1>4. /\ input' = input /\ operator' = operator /\ engine' = engine
      /\ group_by' = group_by /\ order_by' = order_by /\ Rows' = Rows /\ Streams' = Streams
      /\ \A r : RowText(r)' = RowText(r) /\ KeyOf(r)' = KeyOf(r)
      /\ \A u : FirstOf(u)' = FirstOf(u)
      /\ Inputs'
  BY <1>1, <1>2, Fixed
<1>5. Summary(group.acc, input, RowsOf(t)') /\ group.acc \in Accumulator
  <2>1. Summary(Fresh, input, RowsOf(t))
    BY <1>3, FreshSummary
  <2> QED
    BY <1>0, <1>1, <2>1, GroupGrows
<1>6. group \in GroupType
  <2>1. group.key \in Seq(Key \cup Arg \cup {NULL})
    BY <1>2, KeyType
  <2> QED
    BY <1>5, <2>1 DEF GroupType
<1>7. /\ groups' \in Seq(GroupType) /\ Len(groups') = Len(groups) + 1 /\ Len(groups) \in Nat
      /\ \A g \in 1 .. Len(groups) : groups'[g] = groups[g]
      /\ groups'[Len(groups) + 1] = group
      /\ \A g \in 1 .. Len(groups) + 1 : g \in 1 .. Len(groups) \/ g = Len(groups) + 1
  <2>1. groups \in Seq(GroupType)
    BY <1>2 DEF TypeInv
  <2> HIDE DEF group
  <2> QED
    BY <1>1, <1>6, <2>1, AppendFacts
<1>8. /\ Len(seen') = Len(seen) + 1 /\ seen'[Len(seen) + 1] = t
      /\ \A g \in 1 .. Len(seen) : seen'[g] = seen[g] /\ seen[g] \in Members(seen)
      /\ Len(groups) = Len(seen)
  <2>1. seen \in Seq({RowText(r) : r \in 1 .. next - 1} \cup {t})
    <3>1. seen \in Seq({RowText(r) : r \in 1 .. next - 1})
      BY <1>1, <1>2 DEF TypeInv
    <3> QED
      BY <3>1, SeqMonotonic
  <2>2. t \in {RowText(r) : r \in 1 .. next - 1} \cup {t}
    OBVIOUS
  <2>3. /\ Len(seen') = Len(seen) + 1 /\ seen'[Len(seen) + 1] = t
        /\ \A g \in 1 .. Len(seen) : seen'[g] = seen[g]
    BY <1>1, <2>1, <2>2, AppendFacts
  <2>4. \A g \in 1 .. Len(seen) : seen[g] \in Members(seen)
    BY DEF Members
  <2> QED
    BY <1>1, <2>3, <2>4 DEF IInv, Grouped
<1> HIDE DEF group
<1>9. TypeInv'
  <2>1. groups' \in Seq(GroupType)
    BY <1>7
  <2>2. seen' \in Seq(IF operator' = "sort" THEN {} ELSE {RowText(r)' : r \in 1 .. next' - 1})
    BY <1>1, <1>3, <1>4
  <2>3. /\ buffer' \in Seq(IF operator' = "aggregate" THEN AggregateRows ELSE Rows')
        /\ result' \in Seq(IF operator' = "aggregate" THEN AggregateRows ELSE Rows')
        /\ cursor' \in 0 .. Len(buffer')
    BY <1>1, <1>2, <1>4 DEF TypeInv
  <2> QED
    BY <1>1, <1>2, <1>4, <2>1, <2>2, <2>3 DEF TypeInv
<1>10. Grouped'
  <2>1. Len(groups') = Len(seen')
    BY <1>7, <1>8
  <2>2. ASSUME NEW g \in 1 .. Len(groups')
        PROVE  /\ groups'[g].key = KeyOf(FirstOf(seen[g]))'
               /\ Summary(groups'[g].acc, input', RowsOf(seen[g])')
    <3>1. CASE g = Len(groups) + 1
      <4>1. groups'[g] = group /\ seen'[g] = t
        BY <1>7, <1>8, <3>1
      <4>2. RowsOf(seen[g])' = RowsOf(t)' /\ FirstOf(seen[g])' = FirstOf(t)
        <5>1. RowsOf(seen[g])' = RowsOf(t)'
          BY <4>1 DEF RowsOf
        <5>2. FirstOf(seen[g])' = FirstOf(t)'
          BY <4>1 DEF FirstOf
        <5> QED
          BY <1>4, <5>1, <5>2
      <4>3. group.key = KeyOf(next)
        BY DEF group
      <4> QED
        BY <1>3, <1>4, <1>5, <4>1, <4>2, <4>3
    <3>2. CASE g \in 1 .. Len(groups)
      <4>1. groups'[g] = groups[g] /\ seen'[g] = seen[g] /\ seen[g] # t
        BY <1>3, <1>7, <1>8, <3>2
      <4>2. RowsOf(seen[g])' = RowsOf(seen[g]) /\ FirstOf(seen[g])' = FirstOf(seen[g])
        <5>1. \A u : RowsOf(u)' = IF RowText(next) = u THEN RowsOf(u) \cup {next} ELSE RowsOf(u)
          BY <1>1, <1>2, RowsGrow
        <5>2. \A u : u = seen'[g] => RowsOf(seen[g])' = RowsOf(u)' /\ FirstOf(seen[g])' = FirstOf(u)'
          BY DEF RowsOf, FirstOf
        <5> QED
          BY <1>0, <1>4, <4>1, <5>1, <5>2
      <4>3. /\ groups[g].key = KeyOf(FirstOf(seen[g]))
            /\ Summary(groups[g].acc, input, RowsOf(seen[g]))
        BY <1>1, <3>2 DEF IInv, Grouped
      <4> QED
        BY <1>4, <4>1, <4>2, <4>3
    <3> QED
      BY <1>7, <3>1, <3>2
  <2> QED
    BY <2>1, <2>2 DEF Grouped
<1>11. Kept' /\ Sorted' /\ Placed' /\ Handed'
  <2>1. Kept' /\ Sorted' /\ Placed'
    BY <1>1, <1>2, <1>4 DEF Kept, Sorted, Placed
  <2>2. Handed'
    BY <1>1, <1>2, <1>4 DEF IInv, Handed
  <2> QED
    BY <2>1, <2>2
<1> QED
  BY <1>3, <1>4, <1>9, <1>10, <1>11 DEF IInv

LEMMA AggregateSeenStep == IInv /\ AggregateSeen => IInv'
<1> SUFFICES ASSUME IInv, AggregateSeen PROVE IInv'
  OBVIOUS
<1>0. PICK h \in DOMAIN seen :
         /\ seen[h] = RowText(next)
         /\ groups' = [groups EXCEPT ![h].acc = Updated(@, input[next].arg)]
  BY DEF AggregateSeen
<1>1. /\ HasRow /\ operator = "aggregate" /\ next' = next + 1
      /\ UNCHANGED query /\ UNCHANGED <<pc, seen, buffer, cursor, result>>
  BY DEF AggregateSeen
<1>2. /\ Inputs /\ TypeInv /\ next \in Rows /\ next \in Nat \ {0} /\ pc = "consume" /\ cursor = 0
      /\ next + 1 \in 1 .. Len(input) + 1 /\ input[next] \in Cells
  BY <1>1, RowReady
<1>3. PICK t : t = RowText(next)
  OBVIOUS
<1>4. /\ Len(groups) = Len(seen) /\ h \in 1 .. Len(seen) /\ seen[h] = t
      /\ groups \in Seq(GroupType) /\ RowText(next) \in Members(seen)
  <2>1. DOMAIN seen = 1 .. Len(seen)
    BY <1>2 DEF TypeInv
  <2> QED
    BY <1>0, <1>1, <1>2, <1>3, <2>1 DEF IInv, Grouped, TypeInv, Members
<1>5. Table' /\ seen' \in Seq({RowText(r) : r \in 1 .. next' - 1})
  BY <1>1, <1>2, <1>4, TextKnown
<1>6. /\ input' = input /\ operator' = operator /\ engine' = engine
      /\ group_by' = group_by /\ order_by' = order_by /\ Rows' = Rows /\ Streams' = Streams
      /\ \A r : RowText(r)' = RowText(r) /\ KeyOf(r)' = KeyOf(r)
      /\ \A u : FirstOf(u)' = FirstOf(u)
      /\ Inputs'
  BY <1>1, <1>2, Fixed
<1>7. groups[h] \in GroupType
  <2>1. h \in 1 .. Len(groups)
    BY <1>4
  <2> QED
    BY <1>4, <2>1, ElementOfSeq
<1> DEFINE new   == Updated(groups[h].acc, input[next].arg)
           group == [groups[h] EXCEPT !.acc = new]
<1>8. Summary(new, input, RowsOf(t)') /\ new \in Accumulator
  <2>1. Summary(groups[h].acc, input, RowsOf(t))
    <3>1. Summary(groups[h].acc, input, RowsOf(seen[h]))
      BY <1>1, <1>4 DEF IInv, Grouped
    <3> QED
      BY <1>4, <3>1
  <2> QED
    BY <1>1, <1>3, <2>1, GroupGrows
<1>9. groups' = [groups EXCEPT ![h] = group]
  BY <1>0
<1> HIDE DEF new
<1>10. group \in GroupType /\ group.key = groups[h].key /\ group.acc = new
  BY <1>7, <1>8 DEF GroupType
<1> HIDE DEF group
<1>11. /\ groups' \in Seq(GroupType) /\ Len(groups') = Len(groups)
       /\ \A g \in 1 .. Len(groups) : groups'[g] = IF g = h THEN group ELSE groups[g]
  BY <1>4, <1>9, <1>10, ExceptSeq
<1>12. TypeInv'
  <2>1. groups' \in Seq(GroupType)
    BY <1>11
  <2>2. seen' \in Seq(IF operator' = "sort" THEN {} ELSE {RowText(r)' : r \in 1 .. next' - 1})
    BY <1>1, <1>5, <1>6
  <2>3. /\ buffer' \in Seq(IF operator' = "aggregate" THEN AggregateRows ELSE Rows')
        /\ result' \in Seq(IF operator' = "aggregate" THEN AggregateRows ELSE Rows')
        /\ cursor' \in 0 .. Len(buffer')
    BY <1>1, <1>2, <1>6 DEF TypeInv
  <2> QED
    BY <1>1, <1>2, <1>6, <2>1, <2>2, <2>3 DEF TypeInv
<1>13. Grouped'
  <2>1. Len(groups') = Len(seen')
    BY <1>1, <1>4, <1>11
  <2>2. ASSUME NEW g \in 1 .. Len(groups')
        PROVE  /\ groups'[g].key = KeyOf(FirstOf(seen[g]))'
               /\ Summary(groups'[g].acc, input', RowsOf(seen[g])')
    <3>0. PICK u : u = seen[g]
      OBVIOUS
    <3>1. /\ RowsOf(u)' = IF RowText(next) = u THEN RowsOf(u) \cup {next} ELSE RowsOf(u)
          /\ FirstOf(u)' = FirstOf(u)
      BY <1>1, <1>2, <1>6, RowsGrow
    <3>2. RowsOf(seen[g])' = RowsOf(u)' /\ FirstOf(seen[g])' = FirstOf(u)'
      <4>1. seen'[g] = u
        BY <1>1, <3>0
      <4> QED
        BY <4>1 DEF RowsOf, FirstOf
    <3>3. /\ groups[g].key = KeyOf(FirstOf(u))
          /\ Summary(groups[g].acc, input, RowsOf(u))
      BY <1>1, <1>11, <3>0 DEF IInv, Grouped
    <3>4. CASE g = h
      <4>1. u = t
        BY <1>4, <3>0, <3>4
      <4> QED
        BY <1>6, <1>8, <1>10, <1>11, <3>1, <3>2, <3>3, <3>4, <4>1
    <3>5. CASE g # h
      <4>1. u # t
        <5>1. g \in 1 .. Len(seen) /\ operator # "sort"
          BY <1>1, <1>4, <1>11
        <5>2. seen[h] # seen[g]
          BY <1>4, <3>5, <5>1, SeenFacts
        <5> QED
          BY <1>4, <3>0, <5>2
      <4>2. groups'[g] = groups[g]
        BY <1>11, <3>5
      <4> QED
        BY <1>3, <1>6, <3>1, <3>2, <3>3, <4>1, <4>2
    <3> QED
      BY <3>4, <3>5
  <2> QED
    BY <2>1, <2>2 DEF Grouped
<1>14. Kept' /\ Sorted' /\ Placed' /\ Handed'
  <2>1. Kept' /\ Sorted' /\ Placed'
    BY <1>1, <1>2, <1>6 DEF Kept, Sorted, Placed
  <2>2. Handed'
    BY <1>1, <1>2, <1>6 DEF IInv, Handed
  <2> QED
    BY <2>1, <2>2
<1> QED
  BY <1>5, <1>6, <1>12, <1>13, <1>14 DEF IInv

(* A row of a new text joins the rows kept.                                *)
LEMMA KeptGrows ==
    ASSUME IInv, HasRow, UNCHANGED query, operator # "sort", next' = next + 1,
           ~ Contains(seen, RowText(next)), seen' = Append(seen, RowText(next)),
           NEW s \in Seq(Rows), FirstRows(s)
    PROVE  /\ Append(s, next) \in Seq(Rows)
           /\ Len(Append(s, next)) = Len(seen')
           /\ \A n \in 1 .. Len(seen') : Append(s, next)[n] = FirstOf(seen[n])'
<1>0. PICK t : t = RowText(next)
  OBVIOUS
<1>1. next \in Rows /\ TypeInv /\ Inputs
  BY RowReady
<1>2. FirstOf(t) = next
  BY <1>0, <1>1, TextNew
<1>3. /\ Append(s, next) \in Seq(Rows) /\ Len(Append(s, next)) = Len(s) + 1 /\ Len(s) \in Nat
      /\ \A i \in 1 .. Len(s) : Append(s, next)[i] = s[i]
      /\ Append(s, next)[Len(s) + 1] = next
      /\ \A i \in 1 .. Len(s) + 1 : i \in 1 .. Len(s) \/ i = Len(s) + 1
  BY <1>1, AppendFacts
<1>4. /\ Len(seen') = Len(seen) + 1 /\ seen'[Len(seen) + 1] = t
      /\ \A g \in 1 .. Len(seen) : seen'[g] = seen[g]
  <2> DEFINE T == {RowText(r) : r \in 1 .. next - 1}
  <2>1. seen \in Seq(T)
    BY <1>1 DEF TypeInv
  <2> HIDE DEF T
  <2>2. seen \in Seq(T \cup {t}) /\ t \in T \cup {t}
    BY <2>1, SeqMonotonic
  <2> QED
    BY <1>0, <2>2, AppendFacts
<1>5. Len(s) = Len(seen) /\ \A n \in 1 .. Len(s) : s[n] = FirstOf(seen[n])
  BY DEF FirstRows
<1>6. ASSUME NEW n \in 1 .. Len(seen') PROVE Append(s, next)[n] = FirstOf(seen[n])'
  <2>0. PICK u : u = seen'[n]
    OBVIOUS
  <2>1. FirstOf(seen[n])' = FirstOf(u)
    <3>1. FirstOf(seen[n])' = FirstOf(u)'
      BY <2>0 DEF FirstOf
    <3> QED
      BY <3>1, Fixed
  <2>2. CASE n \in 1 .. Len(s)
    BY <1>3, <1>4, <1>5, <2>0, <2>1, <2>2
  <2>3. CASE n = Len(s) + 1
    BY <1>2, <1>3, <1>4, <1>5, <2>0, <2>1, <2>3
  <2> QED
    BY <1>3, <1>4, <1>5, <2>2, <2>3
<1> QED
  BY <1>3, <1>4, <1>5, <1>6

LEMMA DistinctRowStep == IInv /\ DistinctRow => IInv'
<1> SUFFICES ASSUME IInv, DistinctRow PROVE IInv'
  OBVIOUS
<1>1. /\ HasRow /\ operator = "distinct" /\ engine = "vectorized" /\ next' = next + 1 /\ ~ Streams
      /\ UNCHANGED query /\ UNCHANGED <<pc, groups, cursor, result>>
  BY DEF DistinctRow, Streams
<1>2. /\ Inputs /\ TypeInv /\ next \in Rows /\ next \in Nat \ {0} /\ pc = "consume" /\ cursor = 0
      /\ next + 1 \in 1 .. Len(input) + 1 /\ input[next] \in Cells
  BY <1>1, RowReady
<1>3. /\ input' = input /\ operator' = operator /\ engine' = engine
      /\ group_by' = group_by /\ order_by' = order_by /\ Rows' = Rows /\ Streams' = Streams
      /\ \A r : RowText(r)' = RowText(r) /\ KeyOf(r)' = KeyOf(r)
      /\ \A u : FirstOf(u)' = FirstOf(u)
      /\ Inputs'
  BY <1>1, <1>2, Fixed
<1>4. buffer \in Seq(Rows) /\ FirstRows(buffer) /\ result = << >>
  <2>1. buffer \in Seq(Rows) /\ FirstRows(buffer)
    BY <1>1, <1>2 DEF IInv, Kept, TypeInv
  <2>2. result = SubSeq(buffer, 1, 0)
    BY <1>1, <1>2 DEF IInv, Handed
  <2> QED
    BY <2>1, <2>2, SubSeqEmpty
<1>5. /\ Table' /\ seen' \in Seq({RowText(r) : r \in 1 .. next' - 1})
      /\ buffer' \in Seq(Rows) /\ Len(buffer') = Len(seen')
      /\ \A n \in 1 .. Len(buffer') : buffer'[n] = FirstOf(seen[n])'
  <2>1. CASE Contains(seen, RowText(next))
    <3>1. UNCHANGED <<seen, buffer>>
      BY <2>1 DEF DistinctRow
    <3>2. RowText(next) \in Members(seen)
      BY <2>1 DEF Contains, Members
    <3>3. Table' /\ seen' \in Seq({RowText(r) : r \in 1 .. next' - 1})
      BY <1>1, <1>2, <3>1, <3>2, TextKnown
    <3>4. \A n : FirstOf(seen[n])' = FirstOf(seen[n])
      BY <1>3, <3>1 DEF FirstOf
    <3> QED
      BY <1>4, <3>1, <3>3, <3>4 DEF FirstRows
  <2>2. CASE ~ Contains(seen, RowText(next))
    <3>1. seen' = Append(seen, RowText(next)) /\ buffer' = Append(buffer, next)
      BY <2>2 DEF DistinctRow
    <3>2. Table' /\ seen' \in Seq({RowText(r) : r \in 1 .. next' - 1})
      BY <1>1, <1>2, <2>2, <3>1, TextNew
    <3>3. /\ Append(buffer, next) \in Seq(Rows)
          /\ Len(Append(buffer, next)) = Len(seen')
          /\ \A n \in 1 .. Len(seen') : Append(buffer, next)[n] = FirstOf(seen[n])'
      BY <1>1, <1>4, <2>2, <3>1, KeptGrows
    <3> QED
      BY <3>1, <3>2, <3>3
  <2> QED
    BY <2>1, <2>2
<1>6. TypeInv'
  <2>1. seen' \in Seq(IF operator' = "sort" THEN {} ELSE {RowText(r)' : r \in 1 .. next' - 1})
    BY <1>1, <1>3, <1>5
  <2>2. /\ buffer' \in Seq(IF operator' = "aggregate" THEN AggregateRows ELSE Rows')
        /\ result' \in Seq(IF operator' = "aggregate" THEN AggregateRows ELSE Rows')
    BY <1>1, <1>3, <1>4, <1>5
  <2>3. cursor' \in 0 .. Len(buffer')
    BY <1>1, <1>2, <1>5
  <2> QED
    BY <1>1, <1>2, <1>3, <2>1, <2>2, <2>3 DEF TypeInv
<1>7. Kept'
  BY <1>1, <1>3, <1>5 DEF Kept, FirstRows
<1>8. Grouped' /\ Sorted' /\ Placed'
  BY <1>1, <1>3 DEF Grouped, Sorted, Placed
<1>9. Handed'
  <2>1. SubSeq(buffer', 1, 0) = << >>
    BY SubSeqEmpty
  <2> QED
    BY <1>1, <1>2, <1>3, <1>4, <2>1 DEF IInv, Handed
<1> QED
  BY <1>3, <1>5, <1>6, <1>7, <1>8, <1>9 DEF IInv

LEMMA DistinctStreamStep == IInv /\ DistinctStream => IInv'
<1> SUFFICES ASSUME IInv, DistinctStream PROVE IInv'
  OBVIOUS
<1>1. /\ HasRow /\ operator = "distinct" /\ Streams /\ next' = next + 1
      /\ UNCHANGED query /\ UNCHANGED <<pc, groups, buffer, cursor>>
  BY DEF DistinctStream, Streams
<1>2. /\ Inputs /\ TypeInv /\ next \in Rows /\ next \in Nat \ {0} /\ pc = "consume" /\ cursor = 0
      /\ next + 1 \in 1 .. Len(input) + 1 /\ input[next] \in Cells
  BY <1>1, RowReady
<1>3. /\ input' = input /\ operator' = operator /\ engine' = engine
      /\ group_by' = group_by /\ order_by' = order_by /\ Rows' = Rows /\ Streams' = Streams
      /\ \A r : RowText(r)' = RowText(r) /\ KeyOf(r)' = KeyOf(r)
      /\ \A u : FirstOf(u)' = FirstOf(u)
      /\ Inputs'
  BY <1>1, <1>2, Fixed
<1>4. result \in Seq(Rows) /\ FirstRows(result)
  BY <1>1, <1>2 DEF IInv, Kept, TypeInv
<1>5. /\ Table' /\ seen' \in Seq({RowText(r) : r \in 1 .. next' - 1})
      /\ result' \in Seq(Rows) /\ Len(result') = Len(seen')
      /\ \A n \in 1 .. Len(result') : result'[n] = FirstOf(seen[n])'
  <2>1. CASE Contains(seen, RowText(next))
    <3>1. UNCHANGED <<seen, result>>
      BY <2>1 DEF DistinctStream
    <3>2. RowText(next) \in Members(seen)
      BY <2>1 DEF Contains, Members
    <3>3. Table' /\ seen' \in Seq({RowText(r) : r \in 1 .. next' - 1})
      BY <1>1, <1>2, <3>1, <3>2, TextKnown
    <3>4. \A n : FirstOf(seen[n])' = FirstOf(seen[n])
      BY <1>3, <3>1 DEF FirstOf
    <3> QED
      BY <1>4, <3>1, <3>3, <3>4 DEF FirstRows
  <2>2. CASE ~ Contains(seen, RowText(next))
    <3>1. seen' = Append(seen, RowText(next)) /\ result' = Append(result, next)
      BY <2>2 DEF DistinctStream
    <3>2. Table' /\ seen' \in Seq({RowText(r) : r \in 1 .. next' - 1})
      BY <1>1, <1>2, <2>2, <3>1, TextNew
    <3>3. /\ Append(result, next) \in Seq(Rows)
          /\ Len(Append(result, next)) = Len(seen')
          /\ \A n \in 1 .. Len(seen') : Append(result, next)[n] = FirstOf(seen[n])'
      BY <1>1, <1>4, <2>2, <3>1, KeptGrows
    <3> QED
      BY <3>1, <3>2, <3>3
  <2> QED
    BY <2>1, <2>2
<1>6. TypeInv'
  <2>1. seen' \in Seq(IF operator' = "sort" THEN {} ELSE {RowText(r)' : r \in 1 .. next' - 1})
    BY <1>1, <1>3, <1>5
  <2>2. /\ buffer' \in Seq(IF operator' = "aggregate" THEN AggregateRows ELSE Rows')
        /\ result' \in Seq(IF operator' = "aggregate" THEN AggregateRows ELSE Rows')
        /\ cursor' \in 0 .. Len(buffer')
    BY <1>1, <1>2, <1>3, <1>5 DEF TypeInv
  <2> QED
    BY <1>1, <1>2, <1>3, <2>1, <2>2 DEF TypeInv
<1>7. Kept'
  BY <1>1, <1>3, <1>5 DEF Kept, FirstRows
<1>8. Grouped' /\ Sorted' /\ Placed'
  BY <1>1, <1>3 DEF Grouped, Sorted, Placed
<1>9. Handed'
  BY <1>1, <1>2, <1>3 DEF IInv, Handed
<1> QED
  BY <1>3, <1>5, <1>6, <1>7, <1>8, <1>9 DEF IInv

LEMMA SortRowStep == IInv /\ SortRow => IInv'
<1> SUFFICES ASSUME IInv, SortRow PROVE IInv'
  OBVIOUS
<1>1. /\ HasRow /\ operator = "sort" /\ ~ Streams /\ next' = next + 1
      /\ buffer' = Append(buffer, next)
      /\ UNCHANGED query /\ UNCHANGED <<pc, seen, groups, cursor, result>>
  BY DEF SortRow, Streams
<1>2. /\ Inputs /\ TypeInv /\ next \in Rows /\ next \in Nat \ {0} /\ pc = "consume" /\ cursor = 0
      /\ next + 1 \in 1 .. Len(input) + 1 /\ input[next] \in Cells
  BY <1>1, RowReady
<1>3. /\ input' = input /\ operator' = operator /\ engine' = engine
      /\ group_by' = group_by /\ order_by' = order_by /\ Rows' = Rows /\ Streams' = Streams
      /\ \A r : RowText(r)' = RowText(r) /\ KeyOf(r)' = KeyOf(r)
      /\ \A u : FirstOf(u)' = FirstOf(u)
      /\ Inputs'
  BY <1>1, <1>2, Fixed
<1>4. buffer = Copied(next - 1) /\ buffer \in Seq(Rows)
  BY <1>1, <1>2 DEF IInv, Sorted, TypeInv
<1>5. /\ buffer' \in Seq(Rows) /\ Len(buffer') = Len(buffer) + 1 /\ Len(buffer) \in Nat
      /\ \A i \in 1 .. Len(buffer) : buffer'[i] = buffer[i]
      /\ buffer'[Len(buffer) + 1] = next
  BY <1>1, <1>2, <1>4, AppendFacts
<1>6. buffer' = Copied(next' - 1)
  <2>1. /\ Len(buffer) = next - 1 /\ \A i \in 1 .. Len(buffer) : buffer[i] = i
    BY <1>2, <1>4 DEF Copied
  <2>2. DOMAIN buffer' = 1 .. next' - 1 /\ \A i \in 1 .. next' - 1 : buffer'[i] = i
    <3>1. Len(buffer') = next' - 1 /\ DOMAIN buffer' = 1 .. Len(buffer')
      BY <1>1, <1>2, <1>5, <2>1
    <3>2. \A i \in 1 .. next' - 1 : i \in 1 .. Len(buffer) \/ i = Len(buffer) + 1
      BY <1>1, <1>2, <2>1
    <3>3. Len(buffer) + 1 = next
      BY <1>2, <2>1
    <3> QED
      BY <1>5, <2>1, <3>1, <3>2, <3>3
  <2>3. buffer' = [i \in DOMAIN buffer' |-> buffer'[i]]
    BY <1>5
  <2> QED
    BY <2>2, <2>3 DEF Copied
<1>7. seen = << >> /\ \A r, s : r \in 1 .. Len(seen) /\ s \in 1 .. Len(seen) => FALSE
  <2>1. seen \in Seq({})
    BY <1>1, <1>2 DEF TypeInv
  <2> QED
    BY <2>1
<1>8. TypeInv'
  <2>1. seen' \in Seq(IF operator' = "sort" THEN {} ELSE {RowText(r)' : r \in 1 .. next' - 1})
    BY <1>1, <1>3, <1>7
  <2>2. /\ buffer' \in Seq(IF operator' = "aggregate" THEN AggregateRows ELSE Rows')
        /\ result' \in Seq(IF operator' = "aggregate" THEN AggregateRows ELSE Rows')
    BY <1>1, <1>2, <1>3, <1>5 DEF TypeInv
  <2>3. cursor' \in 0 .. Len(buffer')
    BY <1>1, <1>2, <1>5
  <2> QED
    BY <1>1, <1>2, <1>3, <2>1, <2>2, <2>3 DEF TypeInv
<1>9. Table'
  BY <1>1, <1>3, <1>7 DEF Table
<1>10. Sorted'
  BY <1>1, <1>2, <1>3, <1>6 DEF Sorted
<1>11. Kept' /\ Grouped' /\ Placed'
  BY <1>1, <1>3 DEF Kept, Grouped, Placed
<1>12. Handed'
  <2>1. SubSeq(buffer', 1, 0) = << >> /\ SubSeq(buffer, 1, 0) = << >>
    BY SubSeqEmpty
  <2> QED
    BY <1>1, <1>2, <1>3, <2>1 DEF IInv, Handed
<1> QED
  BY <1>3, <1>8, <1>9, <1>10, <1>11, <1>12 DEF IInv

-----------------------------------------------------------------------------
(* The steps that turn what was consumed into the buffer.                  *)

LEMMA AllGroupsFacts ==
    ASSUME TypeInv
    PROVE  /\ AllGroups \in Seq(GroupType) /\ Len(AllGroups) \in Nat
           /\ DOMAIN AllGroups = 1 .. Len(AllGroups)
           /\ IsFiniteSet(DOMAIN AllGroups) /\ Cardinality(DOMAIN AllGroups) = Len(AllGroups)
<1>1. [key |-> << >>, acc |-> Fresh] \in GroupType
  BY FreshSummary DEF Summary, GroupType
<1>2. groups \in Seq(GroupType)
  BY DEF TypeInv
<1>3. AllGroups \in Seq(GroupType)
  <2> DEFINE one == [key |-> << >>, acc |-> Fresh]
  <2> HIDE DEF one
  <2>1. one \in GroupType
    BY <1>1 DEF one
  <2>2. <<one>> \in Seq(GroupType)
    BY <2>1
  <2>3. AllGroups = IF group_by = << >> /\ groups = << >> THEN <<one>> ELSE groups
    BY DEF AllGroups, one
  <2> QED
    BY <1>2, <2>2, <2>3
<1>4. Len(AllGroups) \in Nat /\ DOMAIN AllGroups = 1 .. Len(AllGroups)
  BY <1>3
<1>5. /\ IsFiniteSet(1 .. Len(AllGroups))
      /\ Cardinality(1 .. Len(AllGroups)) = IF 1 > Len(AllGroups) THEN 0 ELSE Len(AllGroups) - 1 + 1
  BY <1>4, FS_Interval
<1> QED
  BY <1>3, <1>4, <1>5

LEMMA AggregateRowType ==
    ASSUME NEW key \in Seq(Key \cup Arg \cup {NULL}), NEW acc \in Accumulator
    PROVE  AggregateRow(key, acc) \in AggregateRows
<1>1. /\ acc.count \in Nat /\ acc.non_null_count \in Nat /\ acc.sum \in Int
      /\ acc.min_val \in Arg \cup {NULL} /\ acc.max_val \in Arg \cup {NULL}
  BY DEF Accumulator
<1>2. <<acc.sum, acc.non_null_count>> \in Int \X Nat
  BY <1>1
<1> QED
  BY <1>1, <1>2 DEF AggregateRow, AggregateRows

(* A step that ends the consuming has read the whole input.                *)
LEMMA InputConsumed ==
    ASSUME IInv, Consumed
    PROVE  /\ Inputs /\ TypeInv /\ next = Len(input) + 1 /\ next - 1 = Len(input)
           /\ pc = "consume" /\ cursor = 0 /\ Rows = 1 .. next - 1
<1>1. RowFacts /\ Inputs /\ TypeInv
  BY RowsAre DEF IInv
<1> QED
  BY <1>1 DEF IInv, Consumed, TypeInv, Handed, RowFacts

(* A step that leaves the hash table alone.                                *)
LEMMA TableKept ==
    ASSUME IInv, UNCHANGED query, UNCHANGED <<next, seen, groups>>
    PROVE  /\ Table' /\ Grouped' /\ AllGroups' = AllGroups
           /\ seen' \in Seq(IF operator' = "sort" THEN {} ELSE {RowText(r)' : r \in 1 .. next' - 1})
           /\ \A n : FirstOf(seen[n])' = FirstOf(seen[n])
           /\ \A g : GroupRow(g)' = GroupRow(g)
<1>1. /\ input' = input /\ operator' = operator /\ engine' = engine
      /\ group_by' = group_by /\ order_by' = order_by /\ Rows' = Rows /\ Streams' = Streams
      /\ \A r : RowText(r)' = RowText(r) /\ KeyOf(r)' = KeyOf(r)
      /\ \A u : FirstOf(u)' = FirstOf(u)
  BY Fixed
<1>2. \A n : FirstOf(seen[n])' = FirstOf(seen[n])
  BY <1>1 DEF FirstOf
<1>3. \A n : RowsOf(seen[n])' = RowsOf(seen[n])
  BY <1>1 DEF RowsOf
<1>4. Members(seen)' = Members(seen)
  BY DEF Members
<1>5. Table'
  BY <1>1, <1>2, <1>4 DEF IInv, Table
<1>6. Grouped'
  <2>1. operator = "aggregate" =>
           /\ Len(groups) = Len(seen)
           /\ \A g \in 1 .. Len(groups) :
                 /\ groups[g].key = KeyOf(FirstOf(seen[g]))
                 /\ Summary(groups[g].acc, input, RowsOf(seen[g]))
    BY DEF IInv, Grouped
  <2>2. operator' = "aggregate" =>
           /\ Len(groups') = Len(seen')
           /\ \A g \in 1 .. Len(groups') :
                 /\ groups'[g].key = KeyOf(FirstOf(seen[g]))'
                 /\ Summary(groups'[g].acc, input', RowsOf(seen[g])')
    BY <1>1, <1>2, <1>3, <2>1
  <2> QED
    BY <2>2 DEF Grouped
<1>7. AllGroups' = AllGroups
  BY <1>1 DEF AllGroups
<1>8. seen' \in Seq(IF operator' = "sort" THEN {} ELSE {RowText(r)' : r \in 1 .. next' - 1})
  BY <1>1 DEF IInv, TypeInv
<1>9. \A g : GroupRow(g)' = GroupRow(g)
  BY <1>7 DEF GroupRow
<1> QED
  BY <1>2, <1>5, <1>6, <1>7, <1>8, <1>9

LEMMA MaterializeStep == IInv /\ Materialize => IInv'
<1> SUFFICES ASSUME IInv, Materialize PROVE IInv'
  OBVIOUS
<1>1. /\ Consumed /\ operator = "aggregate" /\ ~ Streams /\ pc' = "emit"
      /\ UNCHANGED query /\ UNCHANGED <<next, seen, groups, cursor, result>>
  BY DEF Materialize, Streams
<1>2. /\ Inputs /\ TypeInv /\ next = Len(input) + 1 /\ next - 1 = Len(input)
      /\ pc = "consume" /\ cursor = 0
  BY <1>1, InputConsumed
<1>3. /\ input' = input /\ operator' = operator /\ engine' = engine
      /\ group_by' = group_by /\ order_by' = order_by /\ Rows' = Rows /\ Streams' = Streams
      /\ Inputs'
  BY <1>1, <1>2, Fixed
<1>4. /\ Table' /\ Grouped' /\ AllGroups' = AllGroups
      /\ seen' \in Seq(IF operator' = "sort" THEN {} ELSE {RowText(r)' : r \in 1 .. next' - 1})
      /\ \A g : GroupRow(g)' = GroupRow(g)
  BY <1>1, TableKept
<1>5. PICK order \in SetToSeqs(DOMAIN AllGroups) :
         /\ engine = "vectorized" => \A n \in DOMAIN order : order[n] = n
         /\ buffer' = [n \in DOMAIN order |-> GroupRow(order[n])]
  <2> DEFINE rows == [g \in DOMAIN AllGroups |-> AggregateRow(AllGroups[g].key, AllGroups[g].acc)]
  <2>1. PICK order \in SetToSeqs(DOMAIN rows) :
           /\ engine = "vectorized" => \A n \in DOMAIN order : order[n] = n
           /\ buffer' = [n \in DOMAIN order |-> rows[order[n]]]
    BY DEF Materialize
  <2>2. DOMAIN rows = DOMAIN AllGroups /\ \A g \in DOMAIN AllGroups : rows[g] = GroupRow(g)
    BY DEF GroupRow
  <2> HIDE DEF rows
  <2>3. \A n \in DOMAIN order : order[n] \in DOMAIN AllGroups
    BY <2>1, <2>2 DEF SetToSeqs
  <2>4. [n \in DOMAIN order |-> rows[order[n]]] = [n \in DOMAIN order |-> GroupRow(order[n])]
    BY <2>2, <2>3
  <2>5. buffer' = [n \in DOMAIN order |-> GroupRow(order[n])]
    BY <2>1, <2>4
  <2>6. order \in SetToSeqs(DOMAIN AllGroups)
    BY <2>1, <2>2
  <2> QED
    BY <2>1, <2>5, <2>6
<1>6. /\ AllGroups \in Seq(GroupType) /\ Len(AllGroups) \in Nat
      /\ DOMAIN AllGroups = 1 .. Len(AllGroups) /\ Cardinality(DOMAIN AllGroups) = Len(AllGroups)
  BY <1>2, AllGroupsFacts
<1>7. order \in [1 .. Len(AllGroups) -> DOMAIN AllGroups]
  BY <1>5, <1>6 DEF SetToSeqs
<1>8. ASSUME NEW n \in DOMAIN order PROVE GroupRow(order[n]) \in AggregateRows
  <2>1. order[n] \in 1 .. Len(AllGroups)
    BY <1>6, <1>7
  <2>2. AllGroups[order[n]] \in GroupType
    BY <1>6, <2>1, ElementOfSeq
  <2>3. AllGroups[order[n]].key \in Seq(Key \cup Arg \cup {NULL}) /\ AllGroups[order[n]].acc \in Accumulator
    BY <2>2 DEF GroupType
  <2> QED
    BY <2>3, AggregateRowType DEF GroupRow
<1>9. buffer' \in Seq(AggregateRows)
  <2>1. buffer' \in [1 .. Len(AllGroups) -> AggregateRows]
    BY <1>5, <1>7, <1>8
  <2> QED
    BY <1>6, <2>1
<1>10. result = << >>
  <2>1. result = SubSeq(buffer, 1, 0)
    BY <1>1, <1>2 DEF IInv, Handed
  <2> QED
    BY <2>1, SubSeqEmpty
<1>11. TypeInv'
  <2>1. /\ buffer' \in Seq(IF operator' = "aggregate" THEN AggregateRows ELSE Rows')
        /\ result' \in Seq(IF operator' = "aggregate" THEN AggregateRows ELSE Rows')
    BY <1>1, <1>3, <1>9, <1>10
  <2>2. cursor' \in 0 .. Len(buffer')
    BY <1>1, <1>2, <1>9
  <2> QED
    BY <1>1, <1>2, <1>3, <1>4, <2>1, <2>2 DEF TypeInv
<1>12. Placed'
  <2>1. SetToSeqs(DOMAIN AllGroups)' = SetToSeqs(DOMAIN AllGroups)
    BY <1>4
  <2>2. buffer' = [n \in DOMAIN order |-> GroupRow(order[n])']
    BY <1>4, <1>5
  <2> QED
    BY <1>3, <1>5, <2>1, <2>2 DEF Placed
<1>13. Kept' /\ Sorted'
  BY <1>1, <1>3 DEF Kept, Sorted
<1>14. Handed'
  <2>1. SubSeq(buffer', 1, 0) = << >>
    BY SubSeqEmpty
  <2> QED
    BY <1>1, <1>2, <1>3, <1>10, <2>1 DEF Handed
<1> QED
  BY <1>3, <1>4, <1>11, <1>12, <1>13, <1>14 DEF IInv

LEMMA DistinctDoneStep == IInv /\ DistinctDone => IInv'
<1> SUFFICES ASSUME IInv, DistinctDone PROVE IInv'
  OBVIOUS
<1>1. /\ Consumed /\ operator = "distinct" /\ ~ Streams /\ pc' = "emit"
      /\ UNCHANGED query /\ UNCHANGED <<next, seen, groups, buffer, cursor, result>>
  BY DEF DistinctDone, Streams
<1>2. /\ Inputs /\ TypeInv /\ next = Len(input) + 1 /\ pc = "consume" /\ cursor = 0
  BY <1>1, InputConsumed
<1>3. /\ input' = input /\ operator' = operator /\ engine' = engine
      /\ group_by' = group_by /\ order_by' = order_by /\ Rows' = Rows /\ Streams' = Streams
      /\ Inputs'
  BY <1>1, <1>2, Fixed
<1>4. /\ Table' /\ Grouped'
      /\ seen' \in Seq(IF operator' = "sort" THEN {} ELSE {RowText(r)' : r \in 1 .. next' - 1})
      /\ \A n : FirstOf(seen[n])' = FirstOf(seen[n])
  BY <1>1, TableKept
<1>5. TypeInv'
  BY <1>1, <1>2, <1>3, <1>4 DEF TypeInv
<1>6. Kept'
  <2>1. FirstRows(buffer)
    BY <1>1 DEF IInv, Kept
  <2>2. Len(buffer') = Len(seen') /\ \A n \in 1 .. Len(buffer') : buffer'[n] = FirstOf(seen[n])'
    BY <1>1, <1>4, <2>1 DEF FirstRows
  <2> QED
    BY <1>1, <1>3, <2>2 DEF Kept, FirstRows
<1>7. Sorted' /\ Placed'
  BY <1>1, <1>3 DEF Sorted, Placed
<1>8. Handed'
  BY <1>1, <1>2, <1>3 DEF IInv, Handed
<1> QED
  BY <1>3, <1>4, <1>5, <1>6, <1>7, <1>8 DEF IInv

LEMMA StreamDoneStep == IInv /\ StreamDone => IInv'
<1> SUFFICES ASSUME IInv, StreamDone PROVE IInv'
  OBVIOUS
<1>1. /\ Consumed /\ operator = "distinct" /\ Streams /\ pc' = "done"
      /\ UNCHANGED query /\ UNCHANGED <<next, seen, groups, buffer, cursor, result>>
  BY DEF StreamDone, Streams
<1>2. /\ Inputs /\ TypeInv /\ next = Len(input) + 1 /\ pc = "consume" /\ cursor = 0
  BY <1>1, InputConsumed
<1>3. /\ input' = input /\ operator' = operator /\ engine' = engine
      /\ group_by' = group_by /\ order_by' = order_by /\ Rows' = Rows /\ Streams' = Streams
      /\ Inputs'
  BY <1>1, <1>2, Fixed
<1>4. /\ Table' /\ Grouped'
      /\ seen' \in Seq(IF operator' = "sort" THEN {} ELSE {RowText(r)' : r \in 1 .. next' - 1})
      /\ \A n : FirstOf(seen[n])' = FirstOf(seen[n])
  BY <1>1, TableKept
<1>5. TypeInv'
  BY <1>1, <1>2, <1>3, <1>4 DEF TypeInv
<1>6. Kept'
  <2>1. FirstRows(result)
    BY <1>1 DEF IInv, Kept
  <2>2. Len(result') = Len(seen') /\ \A n \in 1 .. Len(result') : result'[n] = FirstOf(seen[n])'
    BY <1>1, <1>4, <2>1 DEF FirstRows
  <2> QED
    BY <1>1, <1>3, <2>2 DEF Kept, FirstRows
<1>7. Sorted' /\ Placed'
  BY <1>1, <1>3 DEF Sorted, Placed
<1>8. Handed'
  BY <1>1, <1>2, <1>3 DEF IInv, Handed
<1> QED
  BY <1>3, <1>4, <1>5, <1>6, <1>7, <1>8 DEF IInv

LEMMA SortStep == IInv /\ Sort => IInv'
<1> SUFFICES ASSUME IInv, Sort PROVE IInv'
  OBVIOUS
<1>1. /\ Consumed /\ operator = "sort" /\ ~ Streams /\ pc' = "emit"
      /\ buffer' = StableSort(buffer)
      /\ UNCHANGED query /\ UNCHANGED <<next, seen, groups, cursor, result>>
  BY DEF Sort, Streams
<1>2. /\ Inputs /\ TypeInv /\ next = Len(input) + 1 /\ next - 1 = Len(input)
      /\ pc = "consume" /\ cursor = 0 /\ Rows = 1 .. next - 1
  BY <1>1, InputConsumed
<1>3. /\ input' = input /\ operator' = operator /\ engine' = engine
      /\ group_by' = group_by /\ order_by' = order_by /\ Rows' = Rows /\ Streams' = Streams
      /\ Inputs'
  BY <1>1, <1>2, Fixed
<1>4. /\ Table' /\ Grouped'
      /\ seen' \in Seq(IF operator' = "sort" THEN {} ELSE {RowText(r)' : r \in 1 .. next' - 1})
  BY <1>1, TableKept
<1>5. /\ buffer' \in Seq(Rows) /\ Len(buffer') = Len(input)
      /\ InOrder(buffer') /\ Members(buffer') = Rows
  <2>1. buffer = Copied(Len(input))
    BY <1>1, <1>2 DEF IInv, Sorted
  <2>2. Ordering(1 .. Len(input)) /\ Len(input) \in Nat
    <3>1. Ordering(Rows) /\ Len(input) \in Nat
      BY <1>2, RowsOrdered DEF Inputs, Sortable
    <3> QED
      BY <1>2, <3>1
  <2>3. /\ StableSort(Copied(Len(input))) \in Seq(1 .. Len(input))
        /\ Len(StableSort(Copied(Len(input)))) = Len(input)
        /\ InOrder(StableSort(Copied(Len(input))))
        /\ Members(StableSort(Copied(Len(input)))) = 1 .. Len(input)
    BY <2>2, SortFacts
  <2>4. Rows = 1 .. Len(input)
    BY <1>2
  <2> QED
    BY <1>1, <2>1, <2>3, <2>4
<1>6. result = << >>
  <2>1. result = SubSeq(buffer, 1, 0)
    BY <1>1, <1>2 DEF IInv, Handed
  <2> QED
    BY <2>1, SubSeqEmpty
<1>7. TypeInv'
  <2>1. /\ buffer' \in Seq(IF operator' = "aggregate" THEN AggregateRows ELSE Rows')
        /\ result' \in Seq(IF operator' = "aggregate" THEN AggregateRows ELSE Rows')
    BY <1>1, <1>3, <1>5, <1>6
  <2>2. cursor' \in 0 .. Len(buffer')
    BY <1>1, <1>2, <1>5
  <2> QED
    BY <1>1, <1>2, <1>3, <1>4, <2>1, <2>2 DEF TypeInv
<1>8. Sorted'
  <2>1. InOrder(buffer)'
    <3>1. \A r, s : RowBefore(r, s)' <=> RowBefore(r, s)
      BY <1>3 DEF RowBefore
    <3>2. \A n, m \in 1 .. Len(buffer') : n < m =>
             \/ RowBefore(buffer'[n], buffer'[m])
             \/ ~ RowBefore(buffer'[m], buffer'[n]) /\ buffer'[n] < buffer'[m]
      BY <1>5 DEF InOrder
    <3>3. \A n, m : RowBefore(buffer[n], buffer[m])' <=> RowBefore(buffer'[n], buffer'[m])
      BY <1>3 DEF RowBefore
    <3> QED
      BY <3>2, <3>3 DEF InOrder
  <2>2. Members(buffer)' = Rows'
    BY <1>3, <1>5 DEF Members
  <2> QED
    BY <1>1, <1>3, <1>5, <2>1, <2>2 DEF Sorted
<1>9. Kept' /\ Placed'
  BY <1>1, <1>3 DEF Kept, Placed
<1>10. Handed'
  <2>1. SubSeq(buffer', 1, 0) = << >>
    BY SubSeqEmpty
  <2> QED
    BY <1>1, <1>2, <1>3, <1>6, <2>1 DEF Handed
<1> QED
  BY <1>3, <1>4, <1>7, <1>8, <1>9, <1>10 DEF IInv

-----------------------------------------------------------------------------
(* The steps that hand the buffer up.                                      *)

(* A step that leaves the buffer alone keeps what it says.                 *)
LEMMA BufferKept ==
    ASSUME IInv, UNCHANGED query, UNCHANGED <<next, seen, groups, buffer>>,
           pc # "consume", pc' # "consume", ~ Streams
    PROVE  Kept' /\ Sorted' /\ Placed'
<1>1. /\ input' = input /\ operator' = operator /\ engine' = engine
      /\ group_by' = group_by /\ order_by' = order_by /\ Rows' = Rows /\ Streams' = Streams
  BY Fixed
<1>2. /\ AllGroups' = AllGroups /\ \A n : FirstOf(seen[n])' = FirstOf(seen[n])
      /\ \A g : GroupRow(g)' = GroupRow(g)
  BY TableKept
<1>3. Kept'
  <2>1. operator = "distinct" => FirstRows(buffer)
    BY DEF IInv, Kept
  <2>2. FirstRows(buffer) =>
           Len(buffer') = Len(seen') /\ \A n \in 1 .. Len(buffer') : buffer'[n] = FirstOf(seen[n])'
    BY <1>2 DEF FirstRows
  <2> QED
    BY <1>1, <2>1, <2>2 DEF Kept, FirstRows
<1>4. Sorted'
  <2>1. InOrder(buffer) => InOrder(buffer)'
    BY <1>1 DEF InOrder, RowBefore
  <2>2. Members(buffer)' = Members(buffer)
    BY DEF Members
  <2> QED
    BY <1>1, <2>1, <2>2 DEF IInv, Sorted
<1>5. Placed'
  <2>1. SUFFICES ASSUME operator = "aggregate" PROVE Placed'
    BY <1>1 DEF Placed
  <2>2. PICK order \in SetToSeqs(DOMAIN AllGroups) :
           /\ engine = "vectorized" => \A n \in DOMAIN order : order[n] = n
           /\ buffer = [n \in DOMAIN order |-> GroupRow(order[n])]
    BY <2>1 DEF IInv, Placed
  <2>3. SetToSeqs(DOMAIN AllGroups)' = SetToSeqs(DOMAIN AllGroups)
    BY <1>2
  <2>4. buffer' = [n \in DOMAIN order |-> GroupRow(order[n])']
    BY <1>2, <2>2
  <2> QED
    BY <1>1, <2>2, <2>3, <2>4 DEF Placed
<1> QED
  BY <1>3, <1>4, <1>5

LEMMA EmitStep == IInv /\ Emit => IInv'
<1> SUFFICES ASSUME IInv, Emit PROVE IInv'
  OBVIOUS
<1> DEFINE batch == IF engine = "volcano" THEN 1 ELSE Min({BatchSize, Len(buffer) - cursor})
           Item == IF operator = "aggregate" THEN AggregateRows ELSE Rows
<1>1. /\ pc = "emit" /\ cursor < Len(buffer)
      /\ result' = result \o SubSeq(buffer, cursor + 1, cursor + batch) /\ cursor' = cursor + batch
      /\ UNCHANGED query /\ UNCHANGED <<pc, next, seen, groups, buffer>>
  BY DEF Emit
<1>2. /\ Inputs /\ TypeInv /\ ~ Streams /\ result = SubSeq(buffer, 1, cursor)
      /\ next = Len(input) + 1
  BY <1>1 DEF IInv, Handed
<1>3. buffer \in Seq(Item) /\ Len(buffer) \in Nat /\ cursor \in Nat
  BY <1>2 DEF TypeInv
<1>4. batch \in 1 .. Len(buffer) - cursor
  <2>1. CASE engine = "volcano"
    BY <1>1, <1>3, <2>1
  <2>2. CASE engine # "volcano"
    <3> DEFINE S == {BatchSize, Len(buffer) - cursor}
    <3>1. S \in SUBSET Nat /\ S # {} /\ \A n \in S : n # 0
      BY <1>1, <1>3, BoundAssumption
    <3> HIDE DEF S
    <3>2. Min(S) \in S /\ \A n \in S : Min(S) <= n
      BY <3>1, MinFact
    <3>3. batch = Min(S) /\ Len(buffer) - cursor \in S
      BY <2>2 DEF S
    <3> HIDE DEF batch
    <3>4. batch \in Nat /\ batch # 0 /\ batch <= Len(buffer) - cursor
      BY <3>1, <3>2, <3>3
    <3> QED
      BY <1>3, <3>4
  <2> QED
    BY <2>1, <2>2
<1> HIDE DEF batch, Item
<1>5. result' = SubSeq(buffer, 1, cursor')
  <2>1. /\ 1 \in 1 .. Len(buffer) + 1 /\ cursor \in 1 - 1 .. Len(buffer)
        /\ cursor + batch \in cursor .. Len(buffer)
    BY <1>1, <1>3, <1>4
  <2>2. SubSeq(buffer, 1, cursor) \o SubSeq(buffer, cursor + 1, cursor + batch)
        = SubSeq(buffer, 1, cursor + batch)
    BY <1>3, <2>1, ConcatAdjacentSubSeq
  <2> QED
    BY <1>1, <1>2, <2>2
<1>6. cursor' \in 0 .. Len(buffer)
  BY <1>1, <1>3, <1>4
<1>7. result' \in Seq(Item)
  <2>1. \A n \in 1 .. cursor' : buffer[n] \in Item
    BY <1>3, <1>6
  <2>2. 1 \in Int /\ cursor' \in Int
    BY <1>6
  <2> QED
    BY <1>5, <2>1, <2>2, SubSeqProperties
<1>8. /\ input' = input /\ operator' = operator /\ engine' = engine
      /\ group_by' = group_by /\ order_by' = order_by /\ Rows' = Rows /\ Streams' = Streams
      /\ Inputs'
  BY <1>1, <1>2, Fixed
<1>9. /\ Table' /\ Grouped'
      /\ seen' \in Seq(IF operator' = "sort" THEN {} ELSE {RowText(r)' : r \in 1 .. next' - 1})
  BY <1>1, TableKept
<1>10. TypeInv'
  <2>1. /\ buffer' \in Seq(IF operator' = "aggregate" THEN AggregateRows ELSE Rows')
        /\ result' \in Seq(IF operator' = "aggregate" THEN AggregateRows ELSE Rows')
    BY <1>1, <1>3, <1>7, <1>8 DEF Item
  <2>2. cursor' \in 0 .. Len(buffer')
    BY <1>1, <1>6
  <2> QED
    BY <1>1, <1>2, <1>8, <1>9, <2>1, <2>2 DEF TypeInv
<1>11. Kept' /\ Sorted' /\ Placed'
  BY <1>1, <1>2, BufferKept
<1>12. Handed'
  BY <1>1, <1>2, <1>5, <1>8 DEF Handed
<1> QED
  BY <1>8, <1>9, <1>10, <1>11, <1>12 DEF IInv

LEMMA EmitDoneStep == IInv /\ EmitDone => IInv'
<1> SUFFICES ASSUME IInv, EmitDone PROVE IInv'
  OBVIOUS
<1>1. /\ pc = "emit" /\ cursor >= Len(buffer) /\ pc' = "done"
      /\ UNCHANGED query /\ UNCHANGED <<next, seen, groups, buffer, cursor, result>>
  BY DEF EmitDone
<1>2. /\ Inputs /\ TypeInv /\ ~ Streams /\ result = SubSeq(buffer, 1, cursor)
      /\ next = Len(input) + 1 /\ cursor = Len(buffer)
  BY <1>1 DEF IInv, Handed, TypeInv
<1>3. /\ input' = input /\ operator' = operator /\ engine' = engine
      /\ group_by' = group_by /\ order_by' = order_by /\ Rows' = Rows /\ Streams' = Streams
      /\ Inputs'
  BY <1>1, <1>2, Fixed
<1>4. /\ Table' /\ Grouped'
      /\ seen' \in Seq(IF operator' = "sort" THEN {} ELSE {RowText(r)' : r \in 1 .. next' - 1})
  BY <1>1, TableKept
<1>5. TypeInv'
  BY <1>1, <1>2, <1>3, <1>4 DEF TypeInv
<1>6. Kept' /\ Sorted' /\ Placed'
  BY <1>1, <1>2, BufferKept
<1>7. Handed'
  BY <1>1, <1>2, <1>3 DEF Handed
<1> QED
  BY <1>3, <1>4, <1>5, <1>6, <1>7 DEF IInv

(* Nothing moves.                                                          *)
LEMMA StutterStep == IInv /\ UNCHANGED vars => IInv'
<1> SUFFICES ASSUME IInv, UNCHANGED vars PROVE IInv'
  OBVIOUS
<1>1. /\ UNCHANGED query /\ UNCHANGED <<pc, next, seen, groups, buffer, cursor, result>>
  BY DEF vars
<1>2. /\ input' = input /\ operator' = operator /\ engine' = engine
      /\ group_by' = group_by /\ order_by' = order_by /\ Rows' = Rows /\ Streams' = Streams
      /\ Inputs'
  BY <1>1, Fixed DEF IInv
<1>3. /\ Table' /\ Grouped' /\ AllGroups' = AllGroups
      /\ seen' \in Seq(IF operator' = "sort" THEN {} ELSE {RowText(r)' : r \in 1 .. next' - 1})
      /\ \A n : FirstOf(seen[n])' = FirstOf(seen[n])
  BY <1>1, TableKept
<1>4. TypeInv'
  BY <1>1, <1>2, <1>3 DEF IInv, TypeInv
<1>5. Kept' /\ Sorted' /\ Placed'
  <2>1. CASE pc # "consume" /\ ~ Streams
    BY <1>1, <2>1, BufferKept
  <2>2. CASE pc = "consume" \/ Streams
    <3>1. Kept'
      <4>1. /\ FirstRows(buffer) => FirstRows(buffer)'
            /\ FirstRows(result) => FirstRows(result)'
        BY <1>1, <1>3 DEF FirstRows
      <4> QED
        BY <1>1, <1>2, <4>1 DEF IInv, Kept
    <3>2. Sorted'
      <4>1. Streams => operator = "distinct"
        BY DEF Streams
      <4> QED
        BY <1>1, <1>2, <2>2, <4>1 DEF IInv, Sorted, Copied
    <3>3. Placed'
      BY <1>1, <1>2, <2>2 DEF Placed, Streams
    <3> QED
      BY <3>1, <3>2, <3>3
  <2> QED
    BY <2>1, <2>2
<1>6. Handed'
  BY <1>1, <1>2 DEF IInv, Handed
<1> QED
  BY <1>2, <1>3, <1>4, <1>5, <1>6 DEF IInv

-----------------------------------------------------------------------------
(* Every step keeps the invariant.                                         *)
LEMMA StepInv == IInv /\ [Next]_vars => IInv'
<1> SUFFICES ASSUME IInv, [Next]_vars PROVE IInv'
  OBVIOUS
<1>1. CASE AggregateNew
  BY <1>1, AggregateNewStep
<1>2. CASE AggregateSeen
  BY <1>2, AggregateSeenStep
<1>3. CASE DistinctRow
  BY <1>3, DistinctRowStep
<1>4. CASE DistinctStream
  BY <1>4, DistinctStreamStep
<1>5. CASE SortRow
  BY <1>5, SortRowStep
<1>6. CASE Materialize
  BY <1>6, MaterializeStep
<1>7. CASE DistinctDone
  BY <1>7, DistinctDoneStep
<1>8. CASE StreamDone
  BY <1>8, StreamDoneStep
<1>9. CASE Sort
  BY <1>9, SortStep
<1>10. CASE Emit
  BY <1>10, EmitStep
<1>11. CASE EmitDone
  BY <1>11, EmitDoneStep
<1>12. CASE Exhausted
  BY <1>12, StutterStep DEF Exhausted
<1>13. CASE UNCHANGED vars
  BY <1>13, StutterStep
<1> QED
  BY <1>1, <1>2, <1>3, <1>4, <1>5, <1>6, <1>7, <1>8, <1>9, <1>10, <1>11, <1>12, <1>13 DEF Next

(* The inductive invariant holds for inputs, batches and ORDER BY lists of *)
(* any length: the hash table has every text once, in the order of first   *)
(* rows, every group sums up its rows, DISTINCT keeps first rows, the sort *)
(* has its rows in order, and what is handed up is the buffer's front.     *)
THEOREM Invariance == Spec => []IInv
<1>1. Init => IInv
  BY InitInv
<1>2. IInv /\ [Next]_vars => IInv'
  BY StepInv
<1> QED
  BY <1>1, <1>2, PTL DEF Spec

-----------------------------------------------------------------------------
(* What the invariant says of the rows handed up.                          *)

LEMMA ResultFacts ==
    ASSUME IInv, ~ Streams
    PROVE  /\ Len(result) = cursor /\ cursor \in 0 .. Len(buffer) /\ Len(buffer) \in Nat
           /\ \A n \in 1 .. Len(result) : n \in 1 .. Len(buffer) /\ result[n] = buffer[n]
           /\ pc = "done" => result = buffer
<1> DEFINE Item == IF operator = "aggregate" THEN AggregateRows ELSE Rows
<1>1. /\ buffer \in Seq(Item) /\ cursor \in 0 .. Len(buffer)
      /\ result = SubSeq(buffer, 1, cursor) /\ (pc = "done" => cursor = Len(buffer))
  BY DEF IInv, TypeInv, Handed
<1> HIDE DEF Item
<1>2. Len(buffer) \in Nat /\ cursor \in Nat /\ \A n \in 1 .. cursor : buffer[n] \in Item
  BY <1>1
<1>3. /\ Len(result) = IF 1 <= cursor THEN cursor - 1 + 1 ELSE 0
      /\ \A n \in 1 .. cursor - 1 + 1 : result[n] = buffer[1 + n - 1]
  <2>1. 1 \in Int /\ cursor \in Int
    BY <1>2
  <2> QED
    BY <1>1, <1>2, <2>1, SubSeqProperties
<1>4. Len(result) = cursor
  BY <1>2, <1>3
<1>5. \A n \in 1 .. Len(result) : n \in 1 .. Len(buffer) /\ result[n] = buffer[n]
  BY <1>1, <1>2, <1>3, <1>4
<1>6. pc = "done" => result = buffer
  BY <1>1, SubSeqFull
<1> QED
  BY <1>1, <1>2, <1>4, <1>5, <1>6

(* The text of a row is that of its values.                                *)
LEMMA SameKey ==
    ASSUME NEW r, NEW s, KeyOf(r) = KeyOf(s)
    PROVE  RowText(r) = RowText(s)
BY DEF RowText

(* A group and the first row of its key.                                   *)
LEMMA GroupKey ==
    ASSUME IInv, operator = "aggregate", NEW g \in 1 .. Len(groups)
    PROVE  /\ g \in 1 .. Len(seen) /\ FirstOf(seen[g]) \in Rows
           /\ groups[g].key = KeyOf(FirstOf(seen[g]))
           /\ RowText(FirstOf(seen[g])) = seen[g]
           /\ FirstRow(groups[g].key) = FirstOf(seen[g])
<1>1. /\ Inputs /\ TypeInv /\ Rows = 1 .. Len(input) /\ 1 .. next - 1 \subseteq Rows
  BY RowsAre DEF IInv, RowFacts
<1>2. g \in 1 .. Len(seen) /\ groups[g].key = KeyOf(FirstOf(seen[g]))
  BY DEF IInv, Grouped
<1> DEFINE f == FirstOf(seen[g])
           S == {r \in Rows : KeyOf(r) = groups[g].key}
<1>3. /\ f \in 1 .. next - 1 /\ RowText(f) = seen[g]
      /\ \A r \in Rows : RowText(r) = seen[g] => f <= r
  BY <1>2, SeenFacts
<1>4. S \in SUBSET Int /\ f \in S
  BY <1>1, <1>2, <1>3
<1>5. \A r \in S : f <= r
  <2>1. SUFFICES ASSUME NEW r \in S PROVE f <= r
    OBVIOUS
  <2>2. RowText(r) = RowText(f)
    BY <1>2, SameKey
  <2> QED
    BY <1>3, <2>2
<1>6. Min(S) = f
  <2> HIDE DEF S, f
  <2> QED
    BY <1>4, <1>5, MinIs
<1>7. FirstRow(groups[g].key) = f
  BY <1>6 DEF FirstRow
<1> QED
  BY <1>1, <1>2, <1>3, <1>7

(* The vectorized aggregate hands its groups up in the order of their      *)
(* first rows, through every slice of the buffer (VecHashAggregateNode).   *)
THEOREM FirstSeenOrderTheorem == Spec => []FirstSeenOrder
<1>1. IInv => FirstSeenOrder
  <2>1. SUFFICES ASSUME IInv, operator = "aggregate", engine = "vectorized", group_by # << >>,
                        NEW n \in 1 .. Len(result) - 1
                 PROVE  FirstRow(result[n].key) < FirstRow(result[n + 1].key)
    BY DEF FirstSeenOrder
  <2>2. /\ ~ Streams /\ AllGroups = groups
    BY <2>1 DEF Streams, AllGroups
  <2>3. /\ Len(result) = cursor /\ cursor \in 0 .. Len(buffer) /\ Len(buffer) \in Nat
        /\ \A i \in 1 .. Len(result) : i \in 1 .. Len(buffer) /\ result[i] = buffer[i]
    BY <2>1, <2>2, ResultFacts
  <2>4. pc # "consume" /\ n \in 1 .. Len(result) /\ n + 1 \in 1 .. Len(result)
    BY <2>1, <2>3 DEF IInv, Handed
  <2>5. PICK order \in SetToSeqs(DOMAIN groups) :
           /\ \A i \in DOMAIN order : order[i] = i
           /\ buffer = [i \in DOMAIN order |-> GroupRow(order[i])]
    BY <2>1, <2>2, <2>4 DEF IInv, Placed
  <2>6. DOMAIN order = 1 .. Len(groups) /\ Len(groups) \in Nat
    <3>1. /\ DOMAIN groups = 1 .. Len(groups) /\ Cardinality(DOMAIN groups) = Len(groups)
          /\ Len(groups) \in Nat
      BY <2>1, <2>2, AllGroupsFacts DEF IInv
    <3> QED
      BY <2>5, <3>1 DEF SetToSeqs
  <2>7. ASSUME NEW i \in 1 .. Len(result)
        PROVE  i \in 1 .. Len(groups) /\ result[i].key = groups[i].key
    <3>1. i \in DOMAIN buffer /\ result[i] = buffer[i]
      BY <2>1, <2>3 DEF IInv, TypeInv
    <3>2. i \in DOMAIN order /\ result[i] = GroupRow(i)
      BY <2>5, <3>1
    <3> QED
      BY <2>2, <2>6, <3>2 DEF GroupRow, AggregateRow
  <2>8. /\ FirstRow(result[n].key) = FirstOf(seen[n])
        /\ FirstRow(result[n + 1].key) = FirstOf(seen[n + 1])
        /\ n \in 1 .. Len(seen) /\ n + 1 \in 1 .. Len(seen)
    BY <2>1, <2>4, <2>7, GroupKey
  <2>9. n < n + 1
    BY <2>1
  <2> QED
    BY <2>1, <2>8, <2>9 DEF IInv, Table
<1> QED
  BY <1>1, Invariance, PTL

(* ORDER BY hands up every row once, no row before one that must precede   *)
(* it and equal rows as they came (SortNode, VecSortNode): the comparator  *)
(* is a strict weak order whatever the columns, directions and NULLs, and  *)
(* insertion from the back is stable.                                      *)
THEOREM SortedStableTheorem == Spec => []SortedStable
<1>1. IInv => SortedStable
  <2>1. SUFFICES ASSUME IInv, pc = "done", operator = "sort"
                 PROVE  /\ ToSet(result) = Rows /\ Len(result) = Len(input)
                        /\ \A n, m \in Rows : n < m =>
                            \/ Precedes(result[n], result[m])
                            \/ ~ Precedes(result[m], result[n]) /\ result[n] < result[m]
    BY DEF SortedStable
  <2>2. result = buffer
    BY <2>1, ResultFacts DEF Streams
  <2>3. Len(buffer) = Len(input) /\ Members(buffer) = Rows /\ InOrder(buffer)
    BY <2>1 DEF IInv, Sorted
  <2>4. /\ Rows = 1 .. Len(input) /\ DOMAIN buffer = 1 .. Len(buffer) /\ Sortable
    BY <2>1, RowsAre DEF IInv, RowFacts, TypeInv, Inputs
  <2>5. ToSet(result) = Rows
    BY <2>2, <2>3, <2>4 DEF ToSet, Members
  <2>6. ASSUME NEW n \in Rows, NEW m \in Rows, n < m
        PROVE  \/ Precedes(result[n], result[m])
               \/ ~ Precedes(result[m], result[n]) /\ result[n] < result[m]
    <3>1. /\ n \in 1 .. Len(buffer) /\ m \in 1 .. Len(buffer)
          /\ buffer[n] \in Rows /\ buffer[m] \in Rows
      BY <2>3, <2>4 DEF Members
    <3>2. \/ RowBefore(buffer[n], buffer[m])
          \/ ~ RowBefore(buffer[m], buffer[n]) /\ buffer[n] < buffer[m]
      BY <2>3, <2>6, <3>1 DEF InOrder
    <3>3. /\ RowBefore(buffer[n], buffer[m]) <=> Precedes(buffer[n], buffer[m])
          /\ RowBefore(buffer[m], buffer[n]) <=> Precedes(buffer[m], buffer[n])
      BY <2>4, <3>1, RowBeforeIsPrecedes
    <3> QED
      BY <2>2, <3>2, <3>3
  <2> QED
    BY <2>2, <2>3, <2>5, <2>6
<1> QED
  BY <1>1, Invariance, PTL

-----------------------------------------------------------------------------
(* The texts in a row, one after the other.                                *)

(* A set of numbers with 0 and every successor has them all.               *)
LEMMA CountUp ==
    ASSUME NEW N \in Nat, NEW T, 0 \in T, \A n \in 1 .. N : n - 1 \in T => n \in T
    PROVE  \A n \in 0 .. N : n \in T
<1> DEFINE D == {n \in 0 .. N : n \notin T}
<1> SUFFICES ASSUME D # {} PROVE FALSE
  OBVIOUS
<1>1. D \in SUBSET Nat
  OBVIOUS
<1>2. PICK n \in D : \A m \in D : n <= m
  <2> HIDE DEF D
  <2> QED
    BY <1>1, LeastNat
<1>3. n \in 1 .. N /\ n - 1 \in 0 .. N /\ ~ (n <= n - 1)
  OBVIOUS
<1>4. n - 1 \in T
  BY <1>2, <1>3
<1> QED
  BY <1>3, <1>4

(* FlattenSeq adds the texts one by one.                                   *)
LEMMA FlattenRounds ==
    ASSUME NEW T, NEW es \in Seq(Seq(T))
    PROVE  \E g : /\ g[0] = << >>
                  /\ \A n \in 1 .. Len(es) : g[n] = g[n - 1] \o es[n]
                  /\ \A n \in 0 .. Len(es) : g[n] \in Seq(T)
                  /\ FlattenSeq(es) = g[Len(es)]
<1> DEFINE N == Len(es)
           Def(f, i) == IF i = 1 THEN es[i] ELSE f[i - 1] \o es[i]
           Solved(m) == \E f : f = [i \in 1 .. m |-> Def(f, i)]
           M == {m \in 0 .. N : Solved(m)}
<1>0. N \in Nat /\ \A n \in 1 .. N : es[n] \in Seq(T)
  OBVIOUS
<1>1. 0 \in M
  <2> DEFINE f == [i \in 1 .. 0 |-> es[i]]
  <2>1. f = [i \in 1 .. 0 |-> Def(f, i)]
    OBVIOUS
  <2> HIDE DEF f, Def
  <2>2. Solved(0)
    BY <2>1
  <2> HIDE DEF N, Solved
  <2> QED
    BY <1>0, <2>2
<1>2. ASSUME NEW m \in 1 .. N, m - 1 \in M
      PROVE  m \in M
  <2>1. PICK f : f = [i \in 1 .. m - 1 |-> Def(f, i)]
    BY <1>2
  <2> DEFINE h == [i \in 1 .. m |-> IF i < m THEN f[i] ELSE Def(f, m)]
  <2>2. ASSUME NEW i \in 1 .. m
        PROVE  h[i] = Def(h, i)
    <3>1. i # 1 => i - 1 \in 1 .. m /\ h[i - 1] = f[i - 1]
      BY <1>0
    <3>2. CASE i < m
      <4>1. h[i] = f[i] /\ i \in 1 .. m - 1
        BY <1>0, <3>2
      <4>2. f[i] = Def(f, i)
        BY <2>1, <4>1
      <4> QED
        BY <3>1, <4>1, <4>2
    <3>3. CASE i = m
      <4>1. h[i] = Def(f, i)
        BY <3>3
      <4> QED
        BY <3>1, <4>1
    <3> QED
      BY <1>0, <3>2, <3>3
  <2>3. h = [i \in 1 .. m |-> Def(h, i)]
    BY <2>2
  <2> HIDE DEF h, Def
  <2>4. Solved(m)
    BY <2>3
  <2> HIDE DEF N, Solved
  <2> QED
    BY <1>0, <2>4
<1>3. PICK f : f = [i \in 1 .. N |-> Def(f, i)]
  <2> HIDE DEF M
  <2>1. \A n \in 0 .. N : n \in M
    BY <1>0, <1>1, <1>2, CountUp
  <2>2. N \in M
    BY <1>0, <2>1
  <2> HIDE DEF N, Solved
  <2>3. Solved(N)
    BY <2>2 DEF M
  <2> QED
    BY <2>3 DEF Solved
<1> DEFINE u == CHOOSE q : q = [i \in 1 .. Len(es) |-> IF i = 1 THEN es[i] ELSE q[i - 1] \o es[i]]
<1>4. u = [i \in 1 .. N |-> Def(u, i)]
  BY <1>3
<1>5. FlattenSeq(es) = IF N = 0 THEN es ELSE u[N]
  BY DEF FlattenSeq
<1> HIDE DEF u
<1> DEFINE g == [n \in 0 .. N |-> IF n = 0 THEN << >> ELSE u[n]]
           Typed == {n \in 0 .. N : g[n] \in Seq(T)}
<1>6. g[0] = << >> /\ g[0] \in Seq(T)
  BY <1>0
<1>7. ASSUME NEW n \in 1 .. N
      PROVE  /\ g[n] = IF n = 1 THEN es[n] ELSE g[n - 1] \o es[n]
             /\ g[n] = u[n]
  <2>0. n - 1 \in 0 .. N /\ n \in 0 .. N /\ n # 0
    BY <1>0
  <2>1. g[n] = u[n] /\ u[n] = Def(u, n)
    <3>1. g[n] = u[n]
      BY <2>0
    <3>2. u[n] = Def(u, n)
      <4> HIDE DEF Def, N
      <4> QED
        BY <1>4
    <3> QED
      BY <3>1, <3>2
  <2>2. n # 1 => g[n - 1] = u[n - 1]
    BY <1>0, <2>0
  <2> QED
    BY <2>1, <2>2
<1>8. \A n \in 0 .. N : g[n] \in Seq(T)
  <2>1. 0 \in Typed
    BY <1>0, <1>6
  <2>2. ASSUME NEW n \in 1 .. N, n - 1 \in Typed PROVE n \in Typed
    <3> HIDE DEF g
    <3>1. g[n] \in Seq(T)
      <4>1. g[n - 1] \in Seq(T) /\ es[n] \in Seq(T)
        BY <1>0, <2>2
      <4>2. g[n - 1] \o es[n] \in Seq(T)
        BY <4>1, ConcatProperties
      <4> QED
        BY <1>7, <4>1, <4>2
    <3> QED
      BY <1>0, <3>1
  <2> HIDE DEF Typed
  <2>3. \A n \in 0 .. N : n \in Typed
    BY <1>0, <2>1, <2>2, CountUp
  <2> QED
    BY <2>3 DEF Typed
<1>9. ASSUME NEW n \in 1 .. N PROVE g[n] = g[n - 1] \o es[n]
  <2> HIDE DEF g
  <2>1. CASE n = 1
    <3>1. << >> \o es[n] = es[n]
      BY <1>0, ConcatEmptySeq
    <3>2. g[1] = es[1] /\ g[1 - 1] = << >>
      BY <1>6, <1>7, <2>1
    <3> QED
      BY <2>1, <3>1, <3>2
  <2>2. CASE n # 1
    BY <1>7, <2>2
  <2> QED
    BY <2>1, <2>2
<1>10. FlattenSeq(es) = g[N]
  <2>1. N = 0 => es = << >>
    OBVIOUS
  <2>2. N # 0 => N \in 1 .. N
    BY <1>0
  <2> HIDE DEF g
  <2> QED
    BY <1>5, <1>6, <1>7, <2>1, <2>2
<1> HIDE DEF g
<1> QED
  BY <1>6, <1>8, <1>9, <1>10

(* Of two texts that agree, fronts of one length agree and so do the rests. *)
LEMMA Cancel ==
    ASSUME NEW T, NEW a \in Seq(T), NEW b \in Seq(T), NEW x \in Seq(T), NEW y \in Seq(T),
           a \o x = b \o y, Len(a) = Len(b)
    PROVE  a = b /\ x = y
<1>1. /\ Len(a \o x) = Len(a) + Len(x) /\ Len(b \o y) = Len(b) + Len(y)
      /\ Len(a) \in Nat /\ Len(x) \in Nat /\ Len(y) \in Nat
  <2>1. Len(a \o x) = Len(a) + Len(x)
    BY ConcatProperties
  <2>2. Len(b \o y) = Len(b) + Len(y)
    BY ConcatProperties
  <2> QED
    BY <2>1, <2>2
<1>2. Len(x) = Len(y)
  BY <1>1
<1>3. ASSUME NEW i \in 1 .. Len(a) PROVE a[i] = b[i]
  <2>1. (a \o x)[i] = a[i]
    BY <1>1, ConcatProperties
  <2>2. (b \o y)[i] = b[i]
    BY <1>1, <1>2, ConcatProperties
  <2> QED
    BY <2>1, <2>2
<1>4. a = b
  BY <1>3, SeqEqual
<1>5. x = y
  BY <1>4, ConcatSimplifications
<1> QED
  BY <1>4, <1>5

(* A code of which no text is the front of another's: what follows a text  *)
(* does not matter to where it ends.                                       *)
Apart(T, d, e) == \A x, y \in Seq(T) : d \o x = e \o y => d = e /\ x = y

(* Two texts that are apart, and two more behind them.                     *)
LEMMA ApartConcat ==
    ASSUME NEW T, NEW a \in Seq(T), NEW b \in Seq(T), NEW d \in Seq(T), NEW e \in Seq(T),
           Apart(T, a, b), Apart(T, d, e)
    PROVE  Apart(T, a \o d, b \o e)
<1>1. ASSUME NEW x \in Seq(T)
      PROVE  d \o x \in Seq(T) /\ (a \o d) \o x = a \o (d \o x)
  OBVIOUS
<1>2. ASSUME NEW y \in Seq(T)
      PROVE  e \o y \in Seq(T) /\ (b \o e) \o y = b \o (e \o y)
  OBVIOUS
<1>3. ASSUME NEW x \in Seq(T), NEW y \in Seq(T), (a \o d) \o x = (b \o e) \o y
      PROVE  a \o d = b \o e /\ x = y
  <2>1. a = b /\ d \o x = e \o y
    <3>1. d \o x \in Seq(T) /\ e \o y \in Seq(T)
      BY <1>1, <1>2
    <3>2. a \o (d \o x) = b \o (e \o y)
      BY <1>1, <1>2, <1>3
    <3> QED
      BY <3>1, <3>2, Zenon DEF Apart
  <2>2. d = e /\ x = y
    BY <2>1, Zenon DEF Apart
  <2> QED
    BY <2>1, <2>2, Zenon
<1> QED
  BY <1>3, Zenon DEF Apart

(* Texts apart from their counterparts agree when their concatenations do. *)
LEMMA FlattenTells ==
    ASSUME NEW T, NEW ds \in Seq(Seq(T)), NEW es \in Seq(Seq(T)), Len(ds) = Len(es),
           \A n \in 1 .. Len(ds) : Apart(T, ds[n], es[n]),
           FlattenSeq(ds) = FlattenSeq(es)
    PROVE  \A n \in 1 .. Len(ds) : ds[n] = es[n]
<1> DEFINE N == Len(ds)
<1>0. /\ N \in Nat /\ << >> \in Seq(T)
      /\ \A n \in 1 .. N : ds[n] \in Seq(T) /\ es[n] \in Seq(T)
  OBVIOUS
<1>2. PICK g : /\ g[0] = << >>
               /\ \A n \in 1 .. N : g[n] = g[n - 1] \o ds[n]
               /\ \A n \in 0 .. N : g[n] \in Seq(T)
               /\ FlattenSeq(ds) = g[N]
  BY FlattenRounds
<1>3. PICK h : /\ h[0] = << >>
               /\ \A n \in 1 .. N : h[n] = h[n - 1] \o es[n]
               /\ \A n \in 0 .. N : h[n] \in Seq(T)
               /\ FlattenSeq(es) = h[N]
  <2>1. \E h : /\ h[0] = << >>
               /\ \A n \in 1 .. Len(es) : h[n] = h[n - 1] \o es[n]
               /\ \A n \in 0 .. Len(es) : h[n] \in Seq(T)
               /\ FlattenSeq(es) = h[Len(es)]
    BY FlattenRounds
  <2>2. Len(es) = N
    OBVIOUS
  <2> HIDE DEF N
  <2> QED
    BY <2>1, <2>2
<1> HIDE DEF N
<1> DEFINE Told(m) == /\ Apart(T, g[m], h[m])
                      /\ g[m] = h[m] => \A n \in 1 .. m : ds[n] = es[n]
           M == {m \in 0 .. N : Told(m)}
<1>4. 0 \in M
  <2>1. ASSUME NEW x \in Seq(T), NEW y \in Seq(T), << >> \o x = << >> \o y
        PROVE  x = y
    BY <2>1, ConcatEmptySeq
  <2>2. Apart(T, g[0], h[0])
    BY <1>2, <1>3, <2>1 DEF Apart
  <2> QED
    BY <1>0, <2>2
<1>5. ASSUME NEW m \in 1 .. N, m - 1 \in M PROVE m \in M
  <2>1. /\ Apart(T, g[m - 1], h[m - 1]) /\ Apart(T, ds[m], es[m])
        /\ g[m - 1] = h[m - 1] => \A n \in 1 .. m - 1 : ds[n] = es[n]
        /\ g[m - 1] \in Seq(T) /\ h[m - 1] \in Seq(T) /\ ds[m] \in Seq(T) /\ es[m] \in Seq(T)
        /\ g[m] = g[m - 1] \o ds[m] /\ h[m] = h[m - 1] \o es[m]
    BY <1>0, <1>2, <1>3, <1>5 DEF N
  <2>2. /\ Apart(T, g[m - 1] \o ds[m], h[m - 1] \o es[m])
        /\ g[m - 1] \o ds[m] = h[m - 1] \o es[m] => g[m - 1] = h[m - 1] /\ ds[m] = es[m]
    <3>1. PICK a, b, d, e : a = g[m - 1] /\ b = h[m - 1] /\ d = ds[m] /\ e = es[m]
      OBVIOUS
    <3>2. /\ a \in Seq(T) /\ b \in Seq(T) /\ d \in Seq(T) /\ e \in Seq(T)
          /\ Apart(T, a, b) /\ Apart(T, d, e)
      BY <2>1, <3>1, Zenon
    <3>3. Apart(T, a \o d, b \o e)
      BY <3>2, ApartConcat
    <3>4. a \o d = b \o e => a = b /\ d = e
      BY <3>2, Zenon DEF Apart
    <3> QED
      BY <3>1, <3>3, <3>4, Zenon
  <2>3. Apart(T, g[m], h[m])
    BY <2>1, <2>2, Zenon
  <2>4. ASSUME g[m] = h[m] PROVE \A n \in 1 .. m : ds[n] = es[n]
    <3>1. g[m - 1] = h[m - 1] /\ ds[m] = es[m]
      BY <2>1, <2>2, <2>4, Zenon
    <3>2. \A n \in 1 .. m : n \in 1 .. m - 1 \/ n = m
      BY <1>0
    <3> QED
      BY <2>1, <3>1, <3>2
  <2> QED
    BY <2>3, <2>4
<1>6. N \in M
  <2> HIDE DEF M
  <2>1. \A n \in 0 .. N : n \in M
    BY <1>0, <1>4, <1>5, CountUp
  <2> QED
    BY <1>0, <2>1
<1> QED
  BY <1>2, <1>3, <1>6 DEF N

-----------------------------------------------------------------------------
(* What the texts in the hash table tell apart.                            *)

TextsDiffer(V) == \A v, w \in V : Text[v] = Text[w] => v = w

(* No two values that meet print alike.  NULL is set apart by its marker,  *)
(* except in Volcano's DISTINCT, where it prints like any other value.     *)
TextExact == /\ TextsDiffer(Key) /\ TextsDiffer(Arg \cup {NULL})
             /\ TextsDiffer(StreamedKeys)

(* The text of one value, and the texts of a row's values.                 *)
Encode(v) == IF Streams THEN SerializePlain(v) ELSE Serialize(v)
Texts(r)  == [n \in 1 .. Len(Columns) |-> Encode(KeyOf(r)[n])]

Printed(v) == Text[v] \in Seq(Nat)

LEMMA ConcatFirst ==
    ASSUME NEW T, NEW s \in Seq(T), NEW t \in Seq(T), 1 <= Len(s)
    PROVE  (s \o t)[1] = s[1]
OBVIOUS

(* A text between its length and a terminator.                             *)
LEMMA Framed ==
    ASSUME NEW v, Printed(v)
    PROVE  /\ SerializePlain(v) \in Seq(Int) /\ Len(SerializePlain(v)) = Len(Text[v]) + 2
           /\ SerializePlain(v)[1] = Len(Text[v])
           /\ \A i \in 1 .. Len(Text[v]) : SerializePlain(v)[i + 1] = Text[v][i]
<1>0. PICK t, l, end : t = Text[v] /\ l = <<Len(t)>> /\ end = <<1>>
  OBVIOUS
<1> DEFINE c == l \o t
<1>1. SerializePlain(v) = c \o end
  BY <1>0 DEF SerializePlain, Terminator
<1>2. /\ t \in Seq(Int) /\ Len(t) \in Nat /\ end \in Seq(Int) /\ Len(end) = 1
      /\ l \in Seq(Int) /\ Len(l) = 1 /\ l[1] = Len(t)
  <2>1. t \in Seq(Nat)
    BY <1>0 DEF Printed
  <2> QED
    BY <1>0, <2>1
<1>3. /\ c \in Seq(Int) /\ Len(c) = Len(t) + 1
      /\ \A i \in 1 .. Len(t) + 1 : c[i] = IF i <= 1 THEN l[i] ELSE t[i - 1]
  <2>1. /\ l \o t \in Seq(Int) /\ Len(l \o t) = Len(l) + Len(t)
        /\ \A i \in 1 .. Len(l) + Len(t) : (l \o t)[i] = IF i <= Len(l) THEN l[i] ELSE t[i - Len(l)]
    BY <1>2, ConcatProperties
  <2> QED
    BY <1>2, <2>1
<1> HIDE DEF c
<1>4. /\ c \o end \in Seq(Int) /\ Len(c \o end) = Len(t) + 2
      /\ \A i \in 1 .. Len(t) + 1 : (c \o end)[i] = c[i]
  <2>1. /\ c \o end \in Seq(Int) /\ Len(c \o end) = Len(c) + Len(end)
        /\ \A i \in 1 .. Len(c) + Len(end) : (c \o end)[i] = IF i <= Len(c) THEN c[i] ELSE end[i - Len(c)]
    <3>1. c \in Seq(Int) /\ end \in Seq(Int)
      BY <1>2, <1>3
    <3> QED
      BY <3>1, ConcatProperties
  <2> QED
    BY <1>2, <1>3, <2>1
<1>5. ASSUME NEW i \in 1 .. Len(t) PROVE (c \o end)[i + 1] = t[i]
  <2>1. i + 1 \in 1 .. Len(t) + 1 /\ ~ (i + 1 <= 1) /\ i + 1 - 1 = i
    BY <1>2
  <2> QED
    BY <1>3, <1>4, <2>1
<1>6. (c \o end)[1] = Len(t)
  BY <1>2, <1>3, <1>4
<1>7. /\ c \o end \in Seq(Int) /\ Len(c \o end) = Len(t) + 2 /\ (c \o end)[1] = Len(t)
      /\ \A i \in 1 .. Len(t) : (c \o end)[i + 1] = t[i]
  BY <1>4, <1>5, <1>6
<1> QED
  BY <1>0, <1>1, <1>7, Zenon

(* The length in front of a text says where it ends.                       *)
LEMMA PlainApart ==
    ASSUME NEW v, NEW w, Printed(v), Printed(w), Text[v] = Text[w] => v = w
    PROVE  /\ SerializePlain(v) \in Seq(Int) /\ SerializePlain(v)[1] \in Nat
           /\ \A x, y \in Seq(Int) : SerializePlain(v) \o x = SerializePlain(w) \o y => v = w /\ x = y
<1> DEFINE a == SerializePlain(v)
           b == SerializePlain(w)
<1>1. /\ a \in Seq(Int) /\ Len(a) = Len(Text[v]) + 2 /\ a[1] = Len(Text[v])
      /\ \A i \in 1 .. Len(Text[v]) : a[i + 1] = Text[v][i]
  BY Framed
<1>2. /\ b \in Seq(Int) /\ Len(b) = Len(Text[w]) + 2 /\ b[1] = Len(Text[w])
      /\ \A i \in 1 .. Len(Text[w]) : b[i + 1] = Text[w][i]
  BY Framed
<1>3. /\ Len(Text[v]) \in Nat /\ Len(Text[w]) \in Nat
      /\ Text[v] \in Seq(Nat) /\ Text[w] \in Seq(Nat)
  BY DEF Printed
<1> HIDE DEF a, b
<1>4. ASSUME NEW x \in Seq(Int), NEW y \in Seq(Int), a \o x = b \o y
      PROVE  v = w /\ x = y
  <2>1. (a \o x)[1] = a[1] /\ (b \o y)[1] = b[1]
    <3>1. a \in Seq(Int) /\ Len(a) \in Nat /\ 1 <= Len(a)
      BY <1>1, <1>3
    <3>2. b \in Seq(Int) /\ Len(b) \in Nat /\ 1 <= Len(b)
      BY <1>2, <1>3
    <3>3. (a \o x)[1] = a[1]
      BY <3>1, ConcatFirst
    <3>4. (b \o y)[1] = b[1]
      BY <3>2, ConcatFirst
    <3> QED
      BY <3>3, <3>4
  <2>2. Len(a) = Len(b) /\ Len(Text[v]) = Len(Text[w])
    BY <1>1, <1>2, <1>4, <2>1
  <2>3. a = b /\ x = y
    <3>1. a \in Seq(Int) /\ b \in Seq(Int)
      BY <1>1, <1>2
    <3> QED
      BY <1>4, <2>2, <3>1, Cancel
  <2>4. \A i \in 1 .. Len(Text[v]) : Text[v][i] = Text[w][i]
    BY <1>1, <1>2, <2>2, <2>3
  <2>5. Text[v] = Text[w]
    BY <1>3, <2>2, <2>4, SeqEqual
  <2> QED
    BY <2>3, <2>5
<1> QED
  BY <1>1, <1>3, <1>4 DEF a, b

(* The marker tells a NULL from every text.                                *)
LEMMA MarkedApart ==
    ASSUME NEW v, NEW w, Printed(v), Printed(w), v # NULL /\ w # NULL /\ Text[v] = Text[w] => v = w
    PROVE  /\ Serialize(v) \in Seq(Int)
           /\ \A x, y \in Seq(Int) : Serialize(v) \o x = Serialize(w) \o y => v = w /\ x = y
<1>1. /\ Serialize(NULL) = <<Marker, Terminator>> /\ Serialize(NULL) \in Seq(Int)
      /\ Serialize(NULL)[1] = -1 /\ Len(Serialize(NULL)) = 2
  BY DEF Serialize, Marker, Terminator
<1>2. ASSUME NEW t, Printed(t)
      PROVE  SerializePlain(t) \in Seq(Int) /\ SerializePlain(t)[1] \in Nat /\ Len(SerializePlain(t)) > 0
  <2>1. SerializePlain(t) \in Seq(Int) /\ SerializePlain(t)[1] \in Nat
    BY <1>2, PlainApart
  <2>2. Len(SerializePlain(t)) > 0
    BY <1>2 DEF SerializePlain, Printed
  <2> QED
    BY <2>1, <2>2
<1>3. Serialize(v) \in Seq(Int)
  BY <1>1, <1>2 DEF Serialize
<1>4. ASSUME NEW x \in Seq(Int), NEW y \in Seq(Int), Serialize(v) \o x = Serialize(w) \o y
      PROVE  v = w /\ x = y
  <2>1. CASE v # NULL /\ w # NULL
    BY <1>4, <2>1, PlainApart DEF Serialize
  <2>2. CASE v = NULL /\ w = NULL
    BY <1>1, <1>4, <2>2, Cancel
  <2>3. ASSUME NEW t, t # NULL, Printed(t), NEW k \in Seq(Int), NEW l \in Seq(Int),
               Serialize(NULL) \o k = SerializePlain(t) \o l
        PROVE  FALSE
    <3>1. (Serialize(NULL) \o k)[1] = Serialize(NULL)[1]
      BY <1>1, ConcatFirst
    <3>2. (SerializePlain(t) \o l)[1] = SerializePlain(t)[1]
      <4>1. SerializePlain(t) \in Seq(Int) /\ 1 <= Len(SerializePlain(t))
        BY <1>2, <2>3
      <4> QED
        BY <4>1, ConcatFirst
    <3> QED
      BY <1>1, <1>2, <2>3, <3>1, <3>2
  <2>4. CASE v = NULL /\ w # NULL
    BY <1>4, <2>3, <2>4 DEF Serialize
  <2>5. CASE v # NULL /\ w = NULL
    <3>1. Serialize(NULL) \o y = SerializePlain(v) \o x
      BY <1>4, <2>5 DEF Serialize
    <3> QED
      BY <2>3, <2>5, <3>1
  <2> QED
    BY <2>1, <2>2, <2>4, <2>5
<1> QED
  BY <1>3, <1>4

(* The values that two rows may have in one column, encoded.               *)
LEMMA EncodeApart ==
    ASSUME NEW V \in {Key, Arg}, NEW v \in V \cup {NULL}, NEW w \in V \cup {NULL},
           TextsDiffer(V), Streams => (Text[v] = Text[w] => v = w)
    PROVE  /\ Encode(v) \in Seq(Int) /\ Encode(w) \in Seq(Int)
           /\ Apart(Int, Encode(v), Encode(w)) /\ (Encode(v) = Encode(w) => v = w)
<1>1. Printed(v) /\ Printed(w) /\ << >> \in Seq(Int)
  BY ValueAssumption DEF Printed
<1>2. v # NULL /\ w # NULL /\ Text[v] = Text[w] => v = w
  BY DEF TextsDiffer
<1>3. /\ Encode(v) \in Seq(Int) /\ Encode(w) \in Seq(Int)
      /\ \A x, y \in Seq(Int) : Encode(v) \o x = Encode(w) \o y => v = w /\ x = y
  <2>1. CASE Streams
    <3>1. Text[v] = Text[w] => v = w
      BY <2>1
    <3>2. /\ SerializePlain(v) \in Seq(Int) /\ SerializePlain(w) \in Seq(Int)
          /\ \A x, y \in Seq(Int) : SerializePlain(v) \o x = SerializePlain(w) \o y => v = w /\ x = y
      BY <1>1, <3>1, PlainApart
    <3>3. Encode(v) = SerializePlain(v) /\ Encode(w) = SerializePlain(w)
      BY <2>1 DEF Encode
    <3> QED
      BY <3>2, <3>3
  <2>2. CASE ~ Streams
    <3>1. /\ Serialize(v) \in Seq(Int) /\ Serialize(w) \in Seq(Int)
          /\ \A x, y \in Seq(Int) : Serialize(v) \o x = Serialize(w) \o y => v = w /\ x = y
      BY <1>1, <1>2, MarkedApart
    <3>2. Encode(v) = Serialize(v) /\ Encode(w) = Serialize(w)
      BY <2>2 DEF Encode
    <3> QED
      BY <3>1, <3>2
  <2> QED
    BY <2>1, <2>2
<1>4. Apart(Int, Encode(v), Encode(w))
  BY <1>3 DEF Apart
<1>5. Encode(v) = Encode(w) => v = w
  BY <1>1, <1>3
<1> QED
  BY <1>3, <1>4, <1>5

(* Two rows have the same text when they agree in every column: the text   *)
(* of no value runs into the next one's.                                   *)
LEMMA TextsTell ==
    ASSUME Inputs, TextsDiffer(Key), TextsDiffer(Arg), NEW r \in Rows, NEW s \in Rows,
           Streams => /\ Text[input[r].key] = Text[input[s].key] => input[r].key = input[s].key
                      /\ Text[input[r].arg] = Text[input[s].arg] => input[r].arg = input[s].arg
    PROVE  RowText(r) = RowText(s) <=> KeyOf(r) = KeyOf(s)
<1> DEFINE N == Len(Columns)
<1>1. /\ Columns \in Seq({"key", "arg"}) /\ N \in Nat /\ DOMAIN Columns = 1 .. N
      /\ KeyOf(r) \in Seq(Key \cup Arg \cup {NULL}) /\ Len(KeyOf(r)) = N
      /\ KeyOf(s) \in Seq(Key \cup Arg \cup {NULL}) /\ Len(KeyOf(s)) = N
  BY KeyType
<1>2. ASSUME NEW n \in 1 .. N
      PROVE  /\ Encode(KeyOf(r)[n]) \in Seq(Int) /\ Encode(KeyOf(s)[n]) \in Seq(Int)
             /\ Apart(Int, Encode(KeyOf(r)[n]), Encode(KeyOf(s)[n]))
             /\ Encode(KeyOf(r)[n]) = Encode(KeyOf(s)[n]) => KeyOf(r)[n] = KeyOf(s)[n]
  <2>1. CASE Columns[n] = "key"
    <3>1. /\ KeyOf(r)[n] = input[r].key /\ KeyOf(r)[n] \in Key \cup {NULL}
          /\ KeyOf(s)[n] = input[s].key /\ KeyOf(s)[n] \in Key \cup {NULL}
      BY <2>1, KeyType
    <3> QED
      BY <3>1, EncodeApart
  <2>2. CASE Columns[n] # "key"
    <3>1. /\ KeyOf(r)[n] = input[r].arg /\ KeyOf(r)[n] \in Arg \cup {NULL}
          /\ KeyOf(s)[n] = input[s].arg /\ KeyOf(s)[n] \in Arg \cup {NULL}
      BY <2>2, KeyType
    <3> QED
      BY <3>1, EncodeApart
  <2> QED
    BY <2>1, <2>2
<1>3. /\ Texts(r) \in Seq(Seq(Int)) /\ Len(Texts(r)) = N
      /\ Texts(s) \in Seq(Seq(Int)) /\ Len(Texts(s)) = N
      /\ \A n \in 1 .. N : Texts(r)[n] = Encode(KeyOf(r)[n]) /\ Texts(s)[n] = Encode(KeyOf(s)[n])
  <2> HIDE DEF N
  <2>1. Texts(r) \in [1 .. N -> Seq(Int)] /\ Texts(s) \in [1 .. N -> Seq(Int)]
    BY <1>2 DEF Texts, N
  <2>2. \A n \in 1 .. N : Texts(r)[n] = Encode(KeyOf(r)[n]) /\ Texts(s)[n] = Encode(KeyOf(s)[n])
    BY DEF Texts, N
  <2> QED
    BY <1>1, <2>1, <2>2
<1>4. RowText(r) = FlattenSeq(Texts(r)) /\ RowText(s) = FlattenSeq(Texts(s))
  BY <1>1 DEF RowText, Texts, Encode
<1>5. ASSUME RowText(r) = RowText(s) PROVE KeyOf(r) = KeyOf(s)
  <2>1. \A n \in 1 .. N : Apart(Int, Texts(r)[n], Texts(s)[n])
    BY <1>2, <1>3
  <2>2. FlattenSeq(Texts(r)) = FlattenSeq(Texts(s))
    BY <1>4, <1>5
  <2> HIDE DEF N
  <2>3. \A n \in 1 .. N : Texts(r)[n] = Texts(s)[n]
    <3>1. PICK ds, es : ds = Texts(r) /\ es = Texts(s)
      OBVIOUS
    <3>2. /\ ds \in Seq(Seq(Int)) /\ es \in Seq(Seq(Int)) /\ Len(ds) = N /\ Len(ds) = Len(es)
          /\ \A n \in 1 .. Len(ds) : Apart(Int, ds[n], es[n])
          /\ FlattenSeq(ds) = FlattenSeq(es)
      BY <1>3, <2>1, <2>2, <3>1
    <3>3. \A n \in 1 .. Len(ds) : ds[n] = es[n]
      BY <3>2, FlattenTells
    <3> QED
      BY <3>1, <3>2, <3>3
  <2>4. \A n \in 1 .. N : KeyOf(r)[n] = KeyOf(s)[n]
    BY <1>2, <1>3, <2>3
  <2> QED
    BY <1>1, <2>4, SeqEqual
<1> QED
  BY <1>5, SameKey

(* Two rows of a DISTINCT have the same text when they agree.              *)
LEMMA DistinctTexts ==
    ASSUME TextExact, Inputs, operator = "distinct", NEW r \in Rows, NEW s \in Rows
    PROVE  RowText(r) = RowText(s) <=> input[r] = input[s]
<1>1. input[r] \in Cells /\ input[s] \in Cells
  BY DEF Inputs, Sortable, Rows
<1>2. input[r] = input[s] <=> input[r].key = input[s].key /\ input[r].arg = input[s].arg
  BY <1>1 DEF Cells
<1>3. TextsDiffer(Key) /\ TextsDiffer(Arg)
  BY DEF TextExact, TextsDiffer
<1>4. Streams => /\ Text[input[r].key] = Text[input[s].key] => input[r].key = input[s].key
                 /\ Text[input[r].arg] = Text[input[s].arg] => input[r].arg = input[s].arg
  <2>1. input[r].arg \in Arg \cup {NULL} /\ input[s].arg \in Arg \cup {NULL}
    BY <1>1 DEF Cells
  <2> QED
    BY <2>1 DEF Inputs, TextExact, TextsDiffer
<1>5. RowText(r) = RowText(s) <=> KeyOf(r) = KeyOf(s)
  BY <1>3, <1>4, TextsTell
<1>6. KeyOf(r) = KeyOf(s) <=> input[r].key = input[s].key /\ input[r].arg = input[s].arg
  <2>1. Columns = <<"key", "arg">>
    BY DEF Columns
  <2>2. DOMAIN Columns = {1, 2} /\ Columns[1] = "key" /\ Columns[2] = "arg"
    BY <2>1
  <2>3. /\ KeyOf(r) = [n \in {1, 2} |-> input[r][Columns[n]]]
        /\ KeyOf(s) = [n \in {1, 2} |-> input[s][Columns[n]]]
    BY <2>2 DEF KeyOf
  <2> QED
    BY <2>2, <2>3
<1> QED
  BY <1>2, <1>5, <1>6

(* DISTINCT keeps exactly the first of the rows that agree in every        *)
(* column, in input order, in both engines (DistinctNode,                  *)
(* VecDistinctNode), as long as no two values that meet print alike.       *)
THEOREM DistinctExactTheorem ==
    ASSUME TextExact
    PROVE  Spec => []DistinctExact
<1>1. IInv => DistinctExact
  <2>1. SUFFICES ASSUME IInv, pc = "done", operator = "distinct"
                 PROVE  /\ ToSet(result) = {r \in Rows : \A s \in 1 .. r - 1 : input[s] # input[r]}
                        /\ \A n \in 1 .. Len(result) - 1 : result[n] < result[n + 1]
    BY DEF DistinctExact
  <2>2. FirstRows(result)
    <3>1. ~ Streams => result = buffer
      BY <2>1, ResultFacts
    <3> QED
      BY <2>1, <3>1 DEF IInv, Kept
  <2>3. /\ Inputs /\ TypeInv /\ Rows = 1 .. Len(input) /\ Len(input) \in Nat
        /\ 1 .. next - 1 = Rows /\ operator # "sort"
    <3>1. RowFacts /\ Inputs /\ TypeInv /\ next = Len(input) + 1
      BY <2>1, RowsAre DEF IInv, Handed
    <3> QED
      BY <2>1, <3>1 DEF RowFacts
  <2>4. /\ Len(result) = Len(seen) /\ DOMAIN result = 1 .. Len(result)
        /\ \A n \in 1 .. Len(result) : result[n] = FirstOf(seen[n])
    BY <2>2, <2>3 DEF FirstRows, TypeInv
  <2>5. ASSUME NEW n \in 1 .. Len(result)
        PROVE  result[n] \in {r \in Rows : \A s \in 1 .. r - 1 : input[s] # input[r]}
    <3> DEFINE f == FirstOf(seen[n])
    <3>1. /\ f \in Rows /\ f \in Nat /\ RowText(f) = seen[n]
          /\ \A r \in Rows : RowText(r) = seen[n] => f <= r
      BY <2>1, <2>3, <2>4, SeenFacts
    <3>2. ASSUME NEW s \in 1 .. f - 1 PROVE input[s] # input[f]
      <4>1. s \in Rows /\ ~ (f <= s)
        BY <2>3, <3>1
      <4>2. RowText(s) # RowText(f)
        BY <3>1, <4>1
      <4> QED
        BY <2>1, <2>3, <3>1, <4>1, <4>2, DistinctTexts
    <3> QED
      BY <2>4, <3>1, <3>2
  <2>6. ASSUME NEW r \in Rows, \A s \in 1 .. r - 1 : input[s] # input[r]
        PROVE  \E n \in 1 .. Len(result) : result[n] = r
    <3>1. RowText(r) \in Members(seen)
      BY <2>1, <2>3 DEF IInv, Table
    <3>2. PICK n \in 1 .. Len(seen) : seen[n] = RowText(r)
      BY <3>1 DEF Members
    <3> DEFINE f == FirstOf(seen[n])
    <3>3. f \in Rows /\ f <= r /\ RowText(f) = RowText(r)
      BY <2>3, <3>2, FirstFacts
    <3>4. input[f] = input[r]
      BY <2>1, <2>3, <3>3, DistinctTexts
    <3>5. ~ (f \in 1 .. r - 1)
      BY <2>6, <3>4
    <3>6. f = r
      <4> HIDE DEF f
      <4> QED
        BY <2>3, <3>3, <3>5
    <3> QED
      BY <2>4, <3>2, <3>6
  <2>7. ToSet(result) = {r \in Rows : \A s \in 1 .. r - 1 : input[s] # input[r]}
    <3> DEFINE Firsts == {r \in Rows : \A s \in 1 .. r - 1 : input[s] # input[r]}
    <3>1. ToSet(result) = {result[n] : n \in 1 .. Len(result)}
      BY <2>4 DEF ToSet
    <3>2. \A n \in 1 .. Len(result) : result[n] \in Firsts
      BY <2>5
    <3>3. \A r \in Firsts : \E n \in 1 .. Len(result) : result[n] = r
      BY <2>6
    <3> HIDE DEF Firsts
    <3>4. ToSet(result) = Firsts
      BY <3>1, <3>2, <3>3
    <3> QED
      BY <3>4 DEF Firsts
  <2>8. ASSUME NEW n \in 1 .. Len(result) - 1 PROVE result[n] < result[n + 1]
    <3>1. Len(result) \in Nat
      BY <2>3 DEF TypeInv
    <3>2. n \in 1 .. Len(seen) /\ n + 1 \in 1 .. Len(seen) /\ n < n + 1
      BY <2>4, <3>1
    <3>3. FirstOf(seen[n]) < FirstOf(seen[n + 1])
      BY <2>1, <3>2 DEF IInv, Table
    <3> QED
      BY <2>4, <3>2, <3>3
  <2> QED
    BY <2>7, <2>8
<1> QED
  BY <1>1, Invariance, PTL

-----------------------------------------------------------------------------
(* The aggregates.                                                         *)

(* An accumulator that sums up the rows R puts out what SQL says of R.     *)
LEMMA SummaryExpected ==
    ASSUME Inputs, NEW R \in SUBSET Rows, IsFiniteSet(R), NEW key, NEW acc, Summary(acc, input, R)
    PROVE  AggregateRow(key, acc) = Expected(key, R)
<1> DEFINE args   == {r \in R : input[r].arg # NULL}
           values == {input[r].arg : r \in args}
           total  == MapThenSumSet(LAMBDA r : input[r].arg, args)
<1>1. args = Present(input, R)
  BY DEF Present
<1>2. total = Total(input, Present(input, R))
  BY <1>1 DEF Total
<1>3. /\ acc.count = Cardinality(R) /\ acc.non_null_count = Cardinality(args) /\ acc.sum = total
      /\ IF args = {} THEN acc.min_val = NULL /\ acc.max_val = NULL
         ELSE IsLeast(acc.min_val, input, args) /\ IsGreatest(acc.max_val, input, args)
  BY <1>1, <1>2 DEF Summary
<1>4. Expected(key, R) =
        [key |-> key, star |-> Cardinality(R), count |-> Cardinality(args),
         sum |-> IF args = {} THEN NULL ELSE total,
         avg |-> IF args = {} THEN NULL ELSE <<total, Cardinality(args)>>,
         min |-> IF args = {} THEN NULL ELSE Min(values),
         max |-> IF args = {} THEN NULL ELSE Max(values)]
  BY DEF Expected
<1>5. Cardinality(args) > 0 <=> args # {}
  <2>1. IsFiniteSet(args)
    BY FS_Subset
  <2> HIDE DEF args
  <2> QED
    BY <2>1, FS_EmptySet, FS_CardinalityType
<1>6. ASSUME args # {} PROVE acc.min_val = Min(values) /\ acc.max_val = Max(values)
  <2>1. IsLeast(acc.min_val, input, args) /\ IsGreatest(acc.max_val, input, args)
    BY <1>3, <1>6
  <2>2. values \in SUBSET Int
    <3>1. ASSUME NEW r \in args PROVE input[r].arg \in Int
      <4>1. input[r] \in Cells /\ input[r].arg # NULL
        BY DEF Inputs, Sortable, Rows
      <4> QED
        BY <4>1, ValueAssumption DEF Cells
    <3> QED
      BY <3>1
  <2>3. acc.min_val \in values /\ \A v \in values : acc.min_val <= v
    BY <2>1 DEF IsLeast
  <2>4. acc.max_val \in values /\ \A v \in values : v <= acc.max_val
    BY <2>1 DEF IsGreatest
  <2> HIDE DEF values
  <2> QED
    BY <2>2, <2>3, <2>4, MinIs, MaxIs
<1> HIDE DEF args, values, total
<1>7. AggregateRow(key, acc) =
        [key |-> key, star |-> acc.count, count |-> acc.non_null_count,
         sum |-> IF acc.non_null_count > 0 THEN acc.sum ELSE NULL,
         avg |-> IF acc.non_null_count > 0 THEN <<acc.sum, acc.non_null_count>> ELSE NULL,
         min |-> acc.min_val, max |-> acc.max_val]
  BY DEF AggregateRow
<1>8. CASE args = {}
  BY <1>3, <1>4, <1>5, <1>7, <1>8
<1>9. CASE args # {}
  BY <1>3, <1>4, <1>5, <1>6, <1>7, <1>9
<1> QED
  BY <1>8, <1>9

(* A sequence without repetitions is as long as its set.                   *)
LEMMA DistinctLength ==
    ASSUME NEW T, NEW s \in Seq(T), \A n, m \in 1 .. Len(s) : s[n] = s[m] => n = m
    PROVE  Cardinality(ToSet(s)) = Len(s)
<1>1. Len(s) \in Nat /\ DOMAIN s = 1 .. Len(s) /\ s \in [1 .. Len(s) -> T]
  OBVIOUS
<1>2. ToSet(s) = {s[n] : n \in 1 .. Len(s)}
  BY <1>1 DEF ToSet
<1>3. s \in [1 .. Len(s) -> ToSet(s)]
  BY <1>1, <1>2
<1>4. s \in Bijection(1 .. Len(s), ToSet(s))
  BY <1>2, <1>3 DEF Bijection, Injection, Surjection, IsInjective
<1>5. ExistsBijection(1 .. Len(s), ToSet(s))
  BY <1>4 DEF ExistsBijection
<1>6. IsFiniteSet(1 .. Len(s)) /\ Cardinality(1 .. Len(s)) = Len(s)
  <2>1. /\ IsFiniteSet(1 .. Len(s))
        /\ Cardinality(1 .. Len(s)) = IF 1 > Len(s) THEN 0 ELSE Len(s) - 1 + 1
    BY <1>1, FS_Interval
  <2> QED
    BY <1>1, <2>1
<1> QED
  BY <1>5, <1>6, FS_Bijection

(* When the input is consumed, the groups are those SQL asks for, each     *)
(* once.                                                                   *)
LEMMA GroupsAreExpected ==
    ASSUME TextsDiffer(Key), TextsDiffer(Arg), IInv, operator = "aggregate", next = Len(input) + 1
    PROVE  /\ {GroupRow(g) : g \in DOMAIN AllGroups} = ExpectedGroups
           /\ \A g, h \in DOMAIN AllGroups : GroupRow(g) = GroupRow(h) => g = h
<1>1. /\ Inputs /\ TypeInv /\ Rows = 1 .. Len(input) /\ Len(input) \in Nat /\ 1 .. next - 1 = Rows
      /\ operator # "sort" /\ ~ Streams
  <2>1. RowFacts /\ Inputs /\ TypeInv
    BY RowsAre DEF IInv
  <2> QED
    BY <2>1 DEF RowFacts, Streams
<1>2. /\ Len(groups) = Len(seen) /\ Len(groups) \in Nat /\ DOMAIN groups = 1 .. Len(groups)
      /\ \A g \in 1 .. Len(groups) :
            /\ groups[g].key = KeyOf(FirstOf(seen[g]))
            /\ Summary(groups[g].acc, input, RowsOf(seen[g]))
  BY <1>1 DEF IInv, Grouped, TypeInv
<1>3. \A r, s : GroupRow(r) = GroupRow(s) => AllGroups[r].key = AllGroups[s].key
  BY DEF GroupRow, AggregateRow
<1>4. CASE group_by # << >>
  <2> DEFINE Of(k) == {r \in Rows : KeyOf(r) = k}
             K == {KeyOf(r) : r \in Rows}
  <2>1. AllGroups = groups /\ ExpectedGroups = {Expected(k, Of(k)) : k \in K}
    BY <1>4 DEF AllGroups, ExpectedGroups
  <2>3. ASSUME NEW r \in Rows, NEW s \in Rows
        PROVE  RowText(r) = RowText(s) <=> KeyOf(r) = KeyOf(s)
    BY <1>1, TextsTell
  <2>4. ASSUME NEW g \in DOMAIN groups
        PROVE  groups[g].key \in K /\ GroupRow(g) = Expected(groups[g].key, Of(groups[g].key))
    <3> DEFINE f == FirstOf(seen[g])
    <3>1. f \in Rows /\ RowText(f) = seen[g] /\ groups[g].key = KeyOf(f)
      BY <1>1, <1>2, SeenFacts
    <3>2. RowsOf(seen[g]) = Of(groups[g].key)
      <4>1. RowsOf(seen[g]) = {r \in Rows : RowText(r) = RowText(f)}
        BY <1>1, <3>1 DEF RowsOf
      <4> HIDE DEF f
      <4> QED
        BY <2>3, <3>1, <4>1
    <3>3. Summary(groups[g].acc, input, Of(groups[g].key))
      BY <1>2, <3>2
    <3>4. IsFiniteSet(Of(groups[g].key)) /\ Of(groups[g].key) \in SUBSET Rows
      <4> DEFINE own == Of(groups[g].key)
      <4>1. own \in SUBSET Rows
        OBVIOUS
      <4>2. IsFiniteSet(Rows)
        BY <1>1, FS_Interval
      <4> HIDE DEF own
      <4>3. IsFiniteSet(own)
        BY <4>1, <4>2, FS_Subset
      <4> QED
        BY <4>1, <4>3 DEF own
    <3>5. groups[g].key \in K
      BY <3>1
    <3> HIDE DEF Of, K, f
    <3>6. AggregateRow(groups[g].key, groups[g].acc) = Expected(groups[g].key, Of(groups[g].key))
      BY <1>1, <3>3, <3>4, SummaryExpected
    <3> QED
      BY <2>1, <3>5, <3>6 DEF GroupRow
  <2>5. ASSUME NEW k \in K PROVE \E g \in DOMAIN groups : groups[g].key = k
    <3>1. PICK r \in Rows : KeyOf(r) = k
      OBVIOUS
    <3>2. RowText(r) \in Members(seen)
      BY <1>1, <3>1 DEF IInv, Table
    <3>3. PICK g \in 1 .. Len(seen) : seen[g] = RowText(r)
      BY <3>2 DEF Members
    <3>4. FirstOf(seen[g]) \in Rows /\ RowText(FirstOf(seen[g])) = seen[g]
      BY <1>1, <3>3, SeenFacts
    <3>5. KeyOf(FirstOf(seen[g])) = k
      BY <2>3, <3>1, <3>3, <3>4
    <3> QED
      BY <1>2, <3>3, <3>5
  <2>6. ASSUME NEW g \in DOMAIN groups, NEW h \in DOMAIN groups, groups[g].key = groups[h].key
        PROVE  g = h
    <3>1. /\ g \in 1 .. Len(seen) /\ FirstRow(groups[g].key) = FirstOf(seen[g])
          /\ h \in 1 .. Len(seen) /\ FirstRow(groups[h].key) = FirstOf(seen[h])
          /\ RowText(FirstOf(seen[g])) = seen[g] /\ RowText(FirstOf(seen[h])) = seen[h]
      BY <1>2, GroupKey
    <3>2. seen[g] = seen[h] /\ g \in 1 .. Len(seen) /\ h \in 1 .. Len(seen)
      BY <2>6, <3>1
    <3> QED
      BY <1>1, <3>2, SeenFacts
  <2>7. {GroupRow(g) : g \in DOMAIN groups} = {Expected(k, Of(k)) : k \in K}
    <3> HIDE DEF Of, K
    <3>1. \A g \in DOMAIN groups : \E k \in K : GroupRow(g) = Expected(k, Of(k))
      BY <2>4
    <3>2. \A k \in K : \E g \in DOMAIN groups : GroupRow(g) = Expected(k, Of(k))
      BY <2>4, <2>5
    <3> QED
      BY <3>1, <3>2, Zenon
  <2>8. \A g, h \in DOMAIN groups : GroupRow(g) = GroupRow(h) => g = h
    BY <1>3, <2>1, <2>6
  <2> HIDE DEF Of, K
  <2> QED
    BY <2>1, <2>7, <2>8
<1>5. CASE group_by = << >>
  <2>1. /\ ExpectedGroups = {Expected(<< >>, Rows)}
        /\ \A r \in Rows : RowText(r) = << >> /\ KeyOf(r) = << >>
    <3>1. ExpectedGroups = {Expected(<< >>, Rows)}
      BY <1>5 DEF ExpectedGroups
    <3>2. Columns = << >>
      BY <1>5 DEF Columns
    <3>3. ASSUME NEW r \in Rows PROVE RowText(r) = << >> /\ KeyOf(r) = << >>
      <4>1. KeyOf(r) = << >>
        <5>1. KeyOf(r) \in Seq(Key \cup Arg \cup {NULL}) /\ Len(KeyOf(r)) = 0
          BY <1>1, <3>2, KeyType
        <5> QED
          BY <5>1
      <4>2. RowText(r) = FlattenSeq(<< >>)
        <5>1. \A e : [n \in {} |-> IF Streams THEN SerializePlain(e[n]) ELSE Serialize(e[n])] = << >>
          OBVIOUS
        <5>2. DOMAIN << >> = {}
          OBVIOUS
        <5> QED
          BY <3>2, <5>1, <5>2 DEF RowText
      <4> QED
        BY <4>1, <4>2 DEF FlattenSeq
    <3> QED
      BY <3>1, <3>3
  <2>2. IsFiniteSet(Rows)
    BY <1>1, FS_Interval
  <2>3. CASE groups = << >>
    <3>1. AllGroups = <<[key |-> << >>, acc |-> Fresh]>>
      BY <1>5, <2>3 DEF AllGroups
    <3>2. DOMAIN AllGroups = {1} /\ GroupRow(1) = AggregateRow(<< >>, Fresh)
      <4> DEFINE one == [key |-> << >>, acc |-> Fresh]
      <4>1. one.key = << >> /\ one.acc = Fresh /\ AllGroups = <<one>>
        BY <3>1
      <4> HIDE DEF one
      <4>2. DOMAIN <<one>> = {1} /\ <<one>>[1] = one
        OBVIOUS
      <4> QED
        BY <4>1, <4>2 DEF GroupRow
    <3>3. Rows = {}
      <4>1. SUFFICES ASSUME NEW r \in Rows PROVE FALSE
        OBVIOUS
      <4>2. RowText(r) \in Members(seen)
        BY <1>1 DEF IInv, Table
      <4>3. Len(seen) = 0
        BY <1>2, <2>3
      <4> QED
        BY <4>2, <4>3 DEF Members
    <3>4. AggregateRow(<< >>, Fresh) = Expected(<< >>, Rows)
      BY <1>1, <2>2, <3>3, FreshSummary, SummaryExpected
    <3> QED
      BY <2>1, <3>2, <3>4
  <2>4. CASE groups # << >>
    <3>1. AllGroups = groups /\ 1 \in DOMAIN groups
      BY <1>2, <2>4 DEF AllGroups, IInv, TypeInv
    <3>2. ASSUME NEW g \in DOMAIN groups PROVE seen[g] = << >> /\ g = 1
      <4>1. /\ g \in 1 .. Len(seen) /\ 1 \in 1 .. Len(seen)
            /\ RowText(FirstOf(seen[g])) = seen[g] /\ RowText(FirstOf(seen[1])) = seen[1]
        BY <1>1, <1>2, <3>1, SeenFacts
      <4>2. seen[g] = << >> /\ seen[1] = seen[g]
        <5>1. FirstOf(seen[g]) \in Rows /\ FirstOf(seen[1]) \in Rows
          BY <1>1, <4>1, SeenFacts
        <5> QED
          BY <2>1, <4>1, <5>1
      <4> QED
        BY <1>1, <4>1, <4>2, SeenFacts
    <3>3. DOMAIN groups = {1} /\ seen[1] = << >>
      BY <3>1, <3>2
    <3>4. RowsOf(seen[1]) = Rows
      BY <1>1, <2>1, <3>3 DEF RowsOf
    <3>5. Summary(groups[1].acc, input, Rows) /\ groups[1].key = << >>
      <4>1. FirstOf(seen[1]) \in Rows
        BY <1>1, <1>2, <3>1, SeenFacts
      <4> QED
        BY <1>2, <2>1, <3>1, <3>4, <4>1
    <3>6. AggregateRow(<< >>, groups[1].acc) = Expected(<< >>, Rows)
      BY <1>1, <2>2, <3>5, SummaryExpected
    <3>7. GroupRow(1) = Expected(<< >>, Rows)
      BY <3>1, <3>5, <3>6 DEF GroupRow
    <3> QED
      BY <2>1, <3>1, <3>3, <3>7
  <2> QED
    BY <2>3, <2>4
<1> QED
  BY <1>4, <1>5

(* Every group comes out exactly once with the right aggregates in either  *)
(* engine (HashAggregateNode, VecHashAggregateNode): NULL is a key like    *)
(* any other and no argument, and an empty input has its one scalar row,   *)
(* as long as no two values of a column print alike.  What one column's    *)
(* text ends with and the next one's begins with does not matter.          *)
THEOREM GroupsExactTheorem ==
    ASSUME TextsDiffer(Key), TextsDiffer(Arg)
    PROVE  Spec => []GroupsExact
<1>1. IInv => GroupsExact
  <2>1. SUFFICES ASSUME IInv, pc = "done", operator = "aggregate"
                 PROVE  ToSet(result) = ExpectedGroups /\ Len(result) = Cardinality(ExpectedGroups)
    BY DEF GroupsExact
  <2>2. result = buffer /\ next = Len(input) + 1
    BY <2>1, ResultFacts DEF Streams, IInv, Handed
  <2>3. PICK order \in SetToSeqs(DOMAIN AllGroups) : buffer = [n \in DOMAIN order |-> GroupRow(order[n])]
    BY <2>1 DEF IInv, Placed
  <2>4. /\ {GroupRow(g) : g \in DOMAIN AllGroups} = ExpectedGroups
        /\ \A g, h \in DOMAIN AllGroups : GroupRow(g) = GroupRow(h) => g = h
    BY <2>1, <2>2, GroupsAreExpected
  <2> DEFINE N == Len(AllGroups)
  <2>5. /\ DOMAIN AllGroups = 1 .. N /\ N \in Nat /\ Cardinality(DOMAIN AllGroups) = N
        /\ IsFiniteSet(1 .. N)
    BY <2>1, AllGroupsFacts DEF IInv
  <2> HIDE DEF N
  <2>6. /\ order \in [1 .. N -> 1 .. N]
        /\ \A n, m \in 1 .. N : n # m => order[n] # order[m]
    BY <2>3, <2>5 DEF SetToSeqs
  <2>7. \A g \in 1 .. N : \E n \in 1 .. N : order[n] = g
    <3>1. order \in Injection(1 .. N, 1 .. N)
      BY <2>6 DEF Injection, IsInjective
    <3>2. order \in Surjection(1 .. N, 1 .. N)
      BY <2>5, <3>1, FS_Injection
    <3> QED
      BY <3>2 DEF Surjection
  <2>8. /\ DOMAIN result = 1 .. N /\ \A n \in 1 .. N : result[n] = GroupRow(order[n])
    BY <2>2, <2>3, <2>6
  <2>9. ToSet(result) = ExpectedGroups
    <3>1. ToSet(result) = {GroupRow(order[n]) : n \in 1 .. N}
      BY <2>8 DEF ToSet
    <3>2. \A n \in 1 .. N : order[n] \in 1 .. N
      BY <2>6
    <3>3. {GroupRow(order[n]) : n \in 1 .. N} = {GroupRow(g) : g \in 1 .. N}
      BY <2>7, <3>2
    <3> QED
      BY <2>4, <2>5, <3>1, <3>3
  <2>10. Len(result) = Cardinality(ExpectedGroups)
    <3>1. result \in Seq(AggregateRows)
      BY <2>1 DEF IInv, TypeInv
    <3>2. Len(result) = N
      BY <2>5, <2>8, <3>1
    <3>3. \A n, m \in 1 .. Len(result) : result[n] = result[m] => n = m
      BY <2>4, <2>5, <2>6, <2>8, <3>2
    <3> QED
      BY <2>9, <3>1, <3>3, DistinctLength
  <2> QED
    BY <2>9, <2>10
<1> QED
  BY <1>1, Invariance, PTL

=============================================================================
