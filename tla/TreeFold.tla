------------------------------ MODULE TreeFold ------------------------------
(***************************************************************************)
(* Recursion over trees, the form of every walk over a syntax tree: what a *)
(* walk makes of a node, given what it made of the children.  A module     *)
(* that walks instantiates this one with its own Step.                     *)
(*                                                                         *)
(* A node has its children in args and in height a number larger than      *)
(* those of its children.                                                  *)
(***************************************************************************)
EXTENDS Integers, Sequences

CONSTANT Step(_, _, _)   \* of the context, a node and the results of its children

Children(nodes) == UNION {{x.args[k] : k \in DOMAIN x.args} : x \in nodes}

(* The nodes of a tree, each as the tree it is the root of.                *)
Subtrees(e) ==
    LET upTo[n \in 0 .. e.height] ==
          IF n = 0 THEN {e} ELSE upTo[n - 1] \cup Children(upTo[n - 1])
    IN  upTo[e.height]

Fold(ctx, e) ==
    LET result[x \in Subtrees(e)] == Step(ctx, x, [k \in DOMAIN x.args |-> result[x.args[k]]])
    IN  result[e]

(* The same along a sequence, from the left: Step of the context, what came *)
(* of the elements before, and the next one.                               *)
Sweep(ctx, base, s) ==
    LET upTo[n \in 0 .. Len(s)] == IF n = 0 THEN base ELSE Step(ctx, upTo[n - 1], s[n])
    IN  upTo[Len(s)]

-----------------------------------------------------------------------------
(* Induction.                                                              *)

(* What the proofs rest on: every nonempty set of naturals has a least     *)
(* element.  It is a hypothesis here, and a lemma of the module that cites *)
(* these lemmas (LeastNat of ParserProofs), so that the theory of          *)
(* well-founded relations is not repeated in every instance of this one.   *)
WellOrdered == \A S \in SUBSET Nat : S # {} => \E x \in S : \A y \in S : x <= y

(* A set of numbers with 0 and every successor has them all.               *)
LEMMA CountUp ==
    ASSUME WellOrdered, NEW N \in Nat, NEW T, 0 \in T, \A n \in 1 .. N : n - 1 \in T => n \in T
    PROVE  \A n \in 0 .. N : n \in T
<1> DEFINE D == {n \in 0 .. N : n \notin T}
<1> SUFFICES ASSUME D # {} PROVE FALSE
  OBVIOUS
<1>1. D \in SUBSET Nat
  OBVIOUS
<1>2. PICK n \in D : \A m \in D : n <= m
  BY <1>1 DEF WellOrdered
<1>3. n \in 1 .. N /\ n - 1 \in 0 .. N /\ ~ (n <= n - 1)
  OBVIOUS
<1>4. n - 1 \in T
  BY <1>2, <1>3
<1> QED
  BY <1>3, <1>4

(* A set of trees that holds the children of its members.                  *)
Closed(S) ==
    \A x \in S : /\ x.height \in Nat
                 /\ \A k \in DOMAIN x.args : x.args[k] \in S /\ x.args[k].height < x.height

(* What holds of a node when it holds of its children holds of every node. *)
LEMMA TreeInduction ==
    ASSUME WellOrdered, NEW S, Closed(S), NEW T,
           \A x \in S : (\A k \in DOMAIN x.args : x.args[k] \in T) => x \in T
    PROVE  S \subseteq T
<1> DEFINE D == {x.height : x \in S \ T}
<1> SUFFICES ASSUME D # {} PROVE FALSE
  OBVIOUS
<1>1. D \in SUBSET Nat
  BY DEF Closed
<1>2. PICK h \in D : \A i \in D : h <= i
  BY <1>1 DEF WellOrdered
<1>3. PICK x \in S \ T : h = x.height
  OBVIOUS
<1>4. ASSUME NEW k \in DOMAIN x.args
      PROVE  x.args[k] \in T
  <2>1. x.args[k] \in S /\ x.args[k].height \in Nat /\ x.args[k].height < h /\ h \in Nat
    BY <1>3 DEF Closed
  <2>2. x.args[k] \notin T => x.args[k].height \in D
    BY <2>1
  <2> HIDE DEF D
  <2> QED
    BY <1>2, <2>1, <2>2
<1> QED
  BY <1>3, <1>4

-----------------------------------------------------------------------------
(* The nodes of a tree.                                                    *)

(* The union of a chain of sets grown by Children is what upTo computes.   *)
Grows(g, e) ==
    /\ DOMAIN g = 0 .. e.height
    /\ g[0] = {e}
    /\ \A n \in 1 .. e.height : g[n] = g[n - 1] \cup Children(g[n - 1])

LEMMA SubtreesGrow ==
    ASSUME WellOrdered, NEW e, e.height \in Nat
    PROVE  \E g : Grows(g, e) /\ Subtrees(e) = g[e.height]
<1> DEFINE N == e.height
           Def(g, n) == IF n = 0 THEN {e} ELSE g[n - 1] \cup Children(g[n - 1])
           Solved(m) == \E g : g = [n \in 0 .. m |-> Def(g, n)]
           T == {m \in 0 .. N : Solved(m)}
<1>1. 0 \in T
  <2> DEFINE g == [n \in 0 .. 0 |-> {e}]
  <2>1. g = [n \in 0 .. 0 |-> Def(g, n)]
    OBVIOUS
  <2> HIDE DEF g, Def
  <2>2. Solved(0)
    BY <2>1
  <2> QED
    BY <2>2
<1>2. ASSUME NEW m \in 1 .. N, m - 1 \in T
      PROVE  m \in T
  <2>1. PICK g : g = [n \in 0 .. m - 1 |-> Def(g, n)]
    BY <1>2
  <2> DEFINE h == [n \in 0 .. m |-> IF n < m THEN g[n] ELSE g[m - 1] \cup Children(g[m - 1])]
  <2>2. ASSUME NEW n \in 0 .. m
        PROVE  h[n] = Def(h, n)
    <3>1. CASE n = 0
      BY <2>1, <3>1
    <3>2. CASE n # 0
      <4>1. n - 1 \in 0 .. m - 1 /\ h[n - 1] = g[n - 1]
        BY <3>2
      <4>2. CASE n < m
        <5>1. h[n] = g[n] /\ n \in 0 .. m - 1
          BY <4>2
        <5>2. g[n] = Def(g, n)
          BY <2>1, <5>1
        <5> QED
          BY <3>2, <4>1, <5>1, <5>2
      <4>3. CASE n = m
        BY <3>2, <4>1, <4>3
      <4> QED
        BY <4>2, <4>3
    <3> QED
      BY <3>1, <3>2
  <2>3. h = [n \in 0 .. m |-> Def(h, n)]
    BY <2>2
  <2> HIDE DEF h
  <2> QED
    BY <2>3
<1>3. N \in T
  <2> HIDE DEF T
  <2>1. \A n \in 0 .. N : n \in T
    BY <1>1, <1>2, CountUp
  <2> QED
    BY <2>1
<1>4. PICK g : g = [n \in 0 .. N |-> Def(g, n)]
  BY <1>3
<1> DEFINE u == CHOOSE f : f = [n \in 0 .. e.height |-> Def(f, n)]
<1>5. u = [n \in 0 .. N |-> Def(u, n)]
  BY <1>4
<1>6. Subtrees(e) = u[e.height]
  BY DEF Subtrees
<1> HIDE DEF u
<1>7. \A n \in 0 .. N : u[n] = Def(u, n)
  BY <1>5
<1>8. DOMAIN u = 0 .. N
  BY <1>5
<1>9. Grows(u, e)
  <2>1. u[0] = {e}
    <3>1. 0 \in 0 .. N
      OBVIOUS
    <3> QED
      BY <1>7, <3>1
  <2>2. \A n \in 1 .. N : n \in 0 .. N /\ n # 0
    OBVIOUS
  <2>3. \A n \in 1 .. N : u[n] = u[n - 1] \cup Children(u[n - 1])
    BY <1>7, <2>2
  <2> QED
    BY <1>8, <2>1, <2>3 DEF Grows
<1> QED
  BY <1>6, <1>9

(* The nodes of a tree are closed, if each is higher than its children.    *)
LEMMA SubtreesClosed ==
    ASSUME WellOrdered, NEW e, e.height \in Nat,
           \A x \in Subtrees(e) :
              /\ x.height \in Nat
              /\ \A k \in DOMAIN x.args : x.args[k].height \in Nat /\ x.args[k].height < x.height
    PROVE  e \in Subtrees(e) /\ Closed(Subtrees(e))
<1> DEFINE N == e.height
<1>1. PICK g : Grows(g, e) /\ Subtrees(e) = g[N]
  BY SubtreesGrow
<1>2. \A n \in 1 .. N : g[n] = g[n - 1] \cup Children(g[n - 1])
  BY <1>1 DEF Grows
(* The rounds lie in the last.                                             *)
<1>3. \A n \in 0 .. N : \A m \in 0 .. N : m <= n => g[m] \subseteq g[n]
  <2> DEFINE T == {n \in 0 .. N : \A m \in 0 .. N : m <= n => g[m] \subseteq g[n]}
  <2>1. 0 \in T
    OBVIOUS
  <2>2. ASSUME NEW n \in 1 .. N, n - 1 \in T
        PROVE  n \in T
    BY <1>2, <2>2
  <2> HIDE DEF T
  <2>3. \A n \in 0 .. N : n \in T
    BY <2>1, <2>2, CountUp
  <2> QED
    BY <2>3 DEF T
<1>4. \A n \in 0 .. N : g[n] \subseteq Subtrees(e)
  BY <1>1, <1>3
(* What is new in a round is lower by as many rounds.                      *)
<1>5. \A n \in 0 .. N : \A x \in g[n] :
          \/ x.height <= N - n
          \/ \A k \in DOMAIN x.args : x.args[k] \in g[n]
  <2> DEFINE T == {n \in 0 .. N : \A x \in g[n] :
                     \/ x.height <= N - n
                     \/ \A k \in DOMAIN x.args : x.args[k] \in g[n]}
  <2>1. 0 \in T
    BY <1>1 DEF Grows
  <2>2. ASSUME NEW n \in 1 .. N, n - 1 \in T
        PROVE  n \in T
    <3>1. g[n] = g[n - 1] \cup Children(g[n - 1]) /\ n - 1 \in 0 .. N
      BY <1>2
    <3>2. ASSUME NEW x \in g[n - 1]
          PROVE  \A k \in DOMAIN x.args : x.args[k] \in g[n]
      BY <3>1 DEF Children
    <3>3. ASSUME NEW x \in Children(g[n - 1]), x \notin g[n - 1]
          PROVE  x.height <= N - n
      <4>1. PICK y \in g[n - 1] : \E k \in DOMAIN y.args : x = y.args[k]
        BY DEF Children
      <4>2. y.height <= N - (n - 1)
        BY <2>2, <3>3, <4>1
      <4>3. y \in Subtrees(e) /\ x.height \in Nat /\ y.height \in Nat /\ x.height < y.height
        BY <1>4, <3>1, <4>1
      <4> QED
        BY <4>2, <4>3
    <3> QED
      BY <3>1, <3>2, <3>3
  <2> HIDE DEF T
  <2>3. \A n \in 0 .. N : n \in T
    BY <2>1, <2>2, CountUp
  <2> QED
    BY <2>3 DEF T
<1>6. e \in Subtrees(e)
  <2>1. 0 \in 0 .. N /\ N \in 0 .. N
    OBVIOUS
  <2> QED
    BY <1>1, <1>3, <2>1 DEF Grows
<1>7. ASSUME NEW x \in Subtrees(e)
      PROVE  \A k \in DOMAIN x.args : x.args[k] \in Subtrees(e)
  <2>1. x.height <= N - N => DOMAIN x.args = {}
    OBVIOUS
  <2>2. N \in 0 .. N
    OBVIOUS
  <2> QED
    BY <1>1, <1>5, <2>1, <2>2
<1> QED
  BY <1>6, <1>7 DEF Closed

(* The subtrees of a tree are closed, and lie in every closed set.         *)
LEMMA SubtreesFacts ==
    ASSUME WellOrdered, NEW S, Closed(S), NEW e \in S
    PROVE  /\ e \in Subtrees(e) /\ Subtrees(e) \subseteq S
           /\ Closed(Subtrees(e))
           /\ \A x \in Subtrees(e) : x.height <= e.height
<1> DEFINE N == e.height
           U == {x \in S : x.height <= N}
<1>1. e.height \in Nat
  BY DEF Closed
<1>2. PICK g : Grows(g, e) /\ Subtrees(e) = g[N]
  BY <1>1, SubtreesGrow
<1>3. \A x \in U : \A k \in DOMAIN x.args : x.args[k] \in U
  BY <1>1 DEF Closed
<1>4. \A n \in 0 .. N : g[n] \subseteq U /\ e \in g[n]
  <2> DEFINE T == {n \in 0 .. N : g[n] \subseteq U /\ e \in g[n]}
  <2>1. 0 \in T
    BY <1>1, <1>2 DEF Grows
  <2>2. ASSUME NEW n \in 1 .. N, n - 1 \in T
        PROVE  n \in T
    <3>1. g[n] = g[n - 1] \cup Children(g[n - 1])
      BY <1>2 DEF Grows
    <3>2. Children(g[n - 1]) \subseteq U
      BY <1>3, <2>2 DEF Children
    <3> QED
      BY <2>2, <3>1, <3>2
  <2> HIDE DEF T
  <2>3. \A n \in 0 .. N : n \in T
    BY <1>1, <2>1, <2>2, CountUp
  <2> QED
    BY <2>3 DEF T
<1>5. N \in 0 .. N
  BY <1>1
<1>6. Subtrees(e) \subseteq U
  BY <1>2, <1>4, <1>5
<1>7. e \in Subtrees(e) /\ Closed(Subtrees(e))
  BY <1>1, <1>6, SubtreesClosed DEF Closed
<1> QED
  BY <1>6, <1>7

-----------------------------------------------------------------------------
(* The recursion.                                                          *)

Solves(ctx, f, S) == f = [x \in S |-> Step(ctx, x, [k \in DOMAIN x.args |-> f[x.args[k]]])]

LEMMA SolutionExists ==
    ASSUME WellOrdered, NEW ctx, NEW S, Closed(S), NEW N \in Nat, \A x \in S : x.height <= N
    PROVE  \E f : Solves(ctx, f, S)
<1> DEFINE Below(n) == {x \in S : x.height < n}
           T == {n \in 0 .. N + 1 : \E f : Solves(ctx, f, Below(n))}
<1>1. 0 \in T
  <2>1. Below(0) = {}
    BY DEF Closed
  <2> DEFINE f == [x \in {} |-> {}]
  <2>2. f = [x \in {} |-> Step(ctx, x, [k \in DOMAIN x.args |-> f[x.args[k]]])]
    OBVIOUS
  <2> HIDE DEF f, Below
  <2>3. Solves(ctx, f, Below(0)) /\ 0 \in 0 .. N + 1
    BY <2>1, <2>2 DEF Solves
  <2> QED
    BY <2>3
<1>2. ASSUME NEW n \in 1 .. N + 1, n - 1 \in T
      PROVE  n \in T
  <2>1. PICK f : Solves(ctx, f, Below(n - 1))
    BY <1>2
  <2> DEFINE g == [x \in Below(n) |-> Step(ctx, x, [k \in DOMAIN x.args |-> f[x.args[k]]])]
  <2>2. ASSUME NEW x \in Below(n), NEW k \in DOMAIN x.args
        PROVE  g[x.args[k]] = f[x.args[k]]
    <3>1. x.args[k] \in S /\ x.args[k].height < x.height /\ x.height < n
          /\ x.args[k].height \in Nat /\ x.height \in Nat
      BY DEF Closed
    <3>2. x.args[k] \in Below(n - 1) /\ x.args[k] \in Below(n)
      BY <3>1
    <3> HIDE DEF Below
    <3>3. f[x.args[k]] = Step(ctx, x.args[k], [l \in DOMAIN x.args[k].args |-> f[x.args[k].args[l]]])
      BY <2>1, <3>2 DEF Solves
    <3> QED
      BY <3>2, <3>3
  <2>3. \A x \in Below(n) :
           [k \in DOMAIN x.args |-> g[x.args[k]]] = [k \in DOMAIN x.args |-> f[x.args[k]]]
    <3> HIDE DEF g, Below
    <3> QED
      BY <2>2
  <2>4. \A x \in Below(n) : g[x] = Step(ctx, x, [k \in DOMAIN x.args |-> g[x.args[k]]])
    <3>1. \A x \in Below(n) : g[x] = Step(ctx, x, [k \in DOMAIN x.args |-> f[x.args[k]]])
      OBVIOUS
    <3> HIDE DEF g, Below
    <3> QED
      BY <2>3, <3>1
  <2>5. g = [x \in Below(n) |-> g[x]]
    OBVIOUS
  <2> HIDE DEF g, Below
  <2>6. Solves(ctx, g, Below(n))
    BY <2>4, <2>5 DEF Solves
  <2> QED
    BY <2>6
<1>3. N + 1 \in T
  <2>1. N + 1 \in Nat /\ N + 1 \in 0 .. N + 1
    OBVIOUS
  <2> HIDE DEF T
  <2>2. \A n \in 0 .. N + 1 : n \in T
    BY <1>1, <1>2, <2>1, CountUp
  <2> QED
    BY <2>1, <2>2
<1>4. Below(N + 1) = S
  BY DEF Closed
<1> QED
  BY <1>3, <1>4

(* A walk of a tree is a step from the walks of its children.              *)
LEMMA FoldStep ==
    ASSUME WellOrdered, NEW ctx, NEW S, NEW e \in S,
           \A x \in S : /\ x.height \in Nat
                       /\ \A k \in DOMAIN x.args : x.args[k] \in S /\ x.args[k].height < x.height
    PROVE  Fold(ctx, e) = Step(ctx, e, [k \in DOMAIN e.args |-> Fold(ctx, e.args[k])])
<1>0. Closed(S)
  BY DEF Closed
<1> DEFINE f(x) == CHOOSE f : Solves(ctx, f, Subtrees(x))
<1>1. ASSUME NEW x \in S
      PROVE  Solves(ctx, f(x), Subtrees(x))
  <2>1. Closed(Subtrees(x)) /\ x.height \in Nat /\ \A y \in Subtrees(x) : y.height <= x.height
    BY <1>0, SubtreesFacts DEF Closed
  <2> QED
    BY <2>1, SolutionExists
<1>2. \A x \in S : Fold(ctx, x) = f(x)[x]
  BY DEF Fold, Solves
<1> HIDE DEF f
<1>3. ASSUME NEW x \in S, NEW z \in Subtrees(x)
      PROVE  f(x)[z] = f(z)[z]
  <2>1. Closed(Subtrees(x)) /\ Subtrees(x) \subseteq S
    BY <1>0, SubtreesFacts
  <2>2. z \in Subtrees(z) /\ Closed(Subtrees(z)) /\ Subtrees(z) \subseteq Subtrees(x) /\ z \in S
    BY <2>1, SubtreesFacts
  <2> DEFINE T == {y \in Subtrees(z) : f(x)[y] = f(z)[y]}
  <2>3. ASSUME NEW y \in Subtrees(z), \A k \in DOMAIN y.args : y.args[k] \in T
        PROVE  y \in T
    <3>1. f(x)[y] = Step(ctx, y, [k \in DOMAIN y.args |-> f(x)[y.args[k]]])
      BY <1>1, <2>2 DEF Solves
    <3>2. f(z)[y] = Step(ctx, y, [k \in DOMAIN y.args |-> f(z)[y.args[k]]])
      BY <1>1, <2>2 DEF Solves
    <3>3. [k \in DOMAIN y.args |-> f(x)[y.args[k]]] = [k \in DOMAIN y.args |-> f(z)[y.args[k]]]
      BY <2>3
    <3> QED
      BY <3>1, <3>2, <3>3
  <2> HIDE DEF T
  <2>4. Subtrees(z) \subseteq T
    BY <2>2, <2>3, TreeInduction
  <2> QED
    BY <2>2, <2>4 DEF T
<1>4. ASSUME NEW k \in DOMAIN e.args
      PROVE  f(e)[e.args[k]] = Fold(ctx, e.args[k])
  <2>1. e.args[k] \in Subtrees(e) /\ e.args[k] \in S
    BY <1>0, SubtreesFacts DEF Closed
  <2> QED
    BY <1>2, <1>3, <2>1
<1>5. f(e)[e] = Step(ctx, e, [k \in DOMAIN e.args |-> f(e)[e.args[k]]])
  BY <1>0, <1>1, SubtreesFacts DEF Solves
<1>6. [k \in DOMAIN e.args |-> f(e)[e.args[k]]] = [k \in DOMAIN e.args |-> Fold(ctx, e.args[k])]
  BY <1>4
<1> QED
  BY <1>2, <1>5, <1>6

(* A sweep is the last of its rounds.                                      *)
LEMMA SweepRounds ==
    ASSUME WellOrdered, NEW ctx, NEW base, NEW s, Len(s) \in Nat
    PROVE  \E g : /\ g[0] = base
                  /\ \A n \in 1 .. Len(s) : g[n] = Step(ctx, g[n - 1], s[n])
                  /\ Sweep(ctx, base, s) = g[Len(s)]
<1> DEFINE N == Len(s)
           Def(g, n) == IF n = 0 THEN base ELSE Step(ctx, g[n - 1], s[n])
           Solved(m) == \E g : g = [n \in 0 .. m |-> Def(g, n)]
           T == {m \in 0 .. N : Solved(m)}
<1>1. 0 \in T
  <2> DEFINE g == [n \in 0 .. 0 |-> base]
  <2>1. g = [n \in 0 .. 0 |-> Def(g, n)]
    OBVIOUS
  <2> HIDE DEF g, Def
  <2>2. Solved(0)
    BY <2>1
  <2> QED
    BY <2>2
<1>2. ASSUME NEW m \in 1 .. N, m - 1 \in T
      PROVE  m \in T
  <2>1. PICK g : g = [n \in 0 .. m - 1 |-> Def(g, n)]
    BY <1>2
  <2> DEFINE h == [n \in 0 .. m |-> IF n < m THEN g[n] ELSE Step(ctx, g[m - 1], s[m])]
  <2>2. ASSUME NEW n \in 0 .. m
        PROVE  h[n] = Def(h, n)
    <3>1. CASE n = 0
      BY <2>1, <3>1
    <3>2. CASE n # 0
      <4>1. n - 1 \in 0 .. m - 1 /\ h[n - 1] = g[n - 1]
        BY <3>2
      <4>2. CASE n < m
        <5>1. h[n] = g[n] /\ n \in 0 .. m - 1
          BY <4>2
        <5>2. g[n] = Def(g, n)
          BY <2>1, <5>1
        <5> QED
          BY <3>2, <4>1, <5>1, <5>2
      <4>3. CASE n = m
        BY <3>2, <4>1, <4>3
      <4> QED
        BY <4>2, <4>3
    <3> QED
      BY <3>1, <3>2
  <2>3. h = [n \in 0 .. m |-> Def(h, n)]
    BY <2>2
  <2> HIDE DEF h
  <2> QED
    BY <2>3
<1>3. N \in T
  <2> HIDE DEF T
  <2>1. \A n \in 0 .. N : n \in T
    BY <1>1, <1>2, CountUp
  <2> QED
    BY <2>1
<1>4. PICK g : g = [n \in 0 .. N |-> Def(g, n)]
  BY <1>3
<1> DEFINE u == CHOOSE f : f = [n \in 0 .. Len(s) |-> Def(f, n)]
<1>5. u = [n \in 0 .. N |-> Def(u, n)]
  BY <1>4
<1>6. Sweep(ctx, base, s) = u[N]
  BY DEF Sweep
<1> HIDE DEF u
<1>7. \A n \in 0 .. N : u[n] = Def(u, n)
  BY <1>5
<1>8. u[0] = base
  <2>1. 0 \in 0 .. N
    OBVIOUS
  <2> QED
    BY <1>7, <2>1
<1>9. \A n \in 1 .. N : u[n] = Step(ctx, u[n - 1], s[n])
  <2>1. \A n \in 1 .. N : n \in 0 .. N /\ n # 0
    OBVIOUS
  <2> QED
    BY <1>7, <2>1
<1> QED
  BY <1>6, <1>8, <1>9
=============================================================================
