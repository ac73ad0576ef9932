---------------------------- MODULE ParserProofs ----------------------------
(***************************************************************************)
(* Proofs about the parser, for every sequence of tokens.  It ends: what a *)
(* rule reads is given by what other rules read further on, or by lower    *)
(* rules at the same place, and such a recursion defines a function.  A    *)
(* rule that reads something reads at least one token and returns a tree,  *)
(* or a list of trees, of the shapes the parser makes; a text that is      *)
(* parsed to its end is a statement in the sense of Syntax.                *)
(*                                                                         *)
(* And every statement, written down, is a sequence of tokens.             *)
(***************************************************************************)
EXTENDS Grammar, WellFoundedInduction, TLAPS

-----------------------------------------------------------------------------
(* Numbers.                                                                *)

(* Every nonempty set of naturals has a least element: what the lemmas     *)
(* about walks over trees ask for as WellOrdered.                          *)
LEMMA LeastNat == \A S \in SUBSET Nat : S # {} => \E x \in S : \A y \in S : x <= y
<1> SUFFICES ASSUME NEW S \in SUBSET Nat, S # {} PROVE \E x \in S : \A y \in S : x <= y
  OBVIOUS
<1>1. PICK x \in S : \A y \in S : ~ (<<y, x>> \in OpToRel(<, Nat))
  BY WFMin, NatLessThanWellFounded
<1>2. \A y \in S : ~ (y < x)
  BY <1>1, Zenon DEF OpToRel
<1> QED
  BY <1>2

(* A set of numbers with 0 and every successor has them all.               *)
LEMMA CountUp ==
    ASSUME NEW N \in Nat, NEW T, 0 \in T, \A n \in 1 .. N : n - 1 \in T => n \in T
    PROVE  \A n \in 0 .. N : n \in T
BY LeastNat, JoinFold!CountUp DEF JoinFold!WellOrdered

-----------------------------------------------------------------------------
(* Sequences.                                                              *)

LEMMA SeqFacts ==
    ASSUME NEW s, IsSeq(s)
    PROVE  Len(s) \in Nat /\ DOMAIN s = 1 .. Len(s) /\ s = [n \in 1 .. Len(s) |-> s[n]]
BY DEF IsSeq

LEMMA SeqIntro ==
    ASSUME NEW N \in Nat, NEW s, s = [n \in 1 .. N |-> s[n]]
    PROVE  IsSeq(s) /\ Len(s) = N /\ DOMAIN s = 1 .. N
<1>1. s \in [1 .. N -> {s[n] : n \in DOMAIN s}]
  OBVIOUS
<1>2. s \in Seq({s[n] : n \in DOMAIN s})
  BY <1>1
<1> QED
  BY <1>2 DEF IsSeq

(* What stands in a sequence.                                              *)
Elements(s) == {s[n] : n \in DOMAIN s}

LEMMA SeqFrom ==
    ASSUME NEW S, NEW s \in Seq(S)
    PROVE  IsSeq(s) /\ Elements(s) \subseteq S
<1>1. s \in [1 .. Len(s) -> S] /\ Len(s) \in Nat
  OBVIOUS
<1>2. s = [n \in 1 .. Len(s) |-> s[n]]
  BY <1>1
<1> QED
  BY <1>1, <1>2, SeqIntro DEF Elements

LEMMA SeqIn ==
    ASSUME NEW S, NEW s, IsSeq(s), Elements(s) \subseteq S
    PROVE  s \in Seq(S)
BY DEF IsSeq, Elements

LEMMA ConcatFacts ==
    ASSUME NEW s, NEW t, IsSeq(s), IsSeq(t)
    PROVE  /\ IsSeq(s \o t)
           /\ Elements(s \o t) = Elements(s) \cup Elements(t)
           /\ Len(s \o t) = Len(s) + Len(t)
           /\ \A n \in 1 .. Len(s) : (s \o t)[n] = s[n]
           /\ \A n \in 1 .. Len(t) : (s \o t)[Len(s) + n] = t[n]
<1> DEFINE S == Elements(s) \cup Elements(t)
<1>1. s \in Seq(S) /\ t \in Seq(S)
  BY SeqIn
<1> HIDE DEF S
<1>2. s \o t \in Seq(S) /\ Len(s \o t) = Len(s) + Len(t)
  BY <1>1
<1>3. /\ \A n \in 1 .. Len(s) : (s \o t)[n] = s[n]
      /\ \A n \in 1 .. Len(t) : (s \o t)[Len(s) + n] = t[n]
  BY <1>1
<1>4. IsSeq(s \o t)
  BY <1>2, SeqFrom
<1>5. Elements(s \o t) \subseteq Elements(s) \cup Elements(t)
  BY <1>2, SeqFrom DEF S
<1>6. Elements(s) \cup Elements(t) \subseteq Elements(s \o t)
  <2>1. Len(s) \in Nat /\ Len(t) \in Nat /\ DOMAIN s = 1 .. Len(s) /\ DOMAIN t = 1 .. Len(t)
    BY SeqFacts
  <2>2. DOMAIN (s \o t) = 1 .. Len(s) + Len(t)
    BY <1>2, <1>4, SeqFacts
  <2>3. \A n \in DOMAIN s : s[n] \in Elements(s \o t)
    BY <1>3, <2>1, <2>2 DEF Elements
  <2>4. \A n \in DOMAIN t : t[n] \in Elements(s \o t)
    <3> TAKE n \in DOMAIN t
    <3>1. Len(s) + n \in DOMAIN (s \o t) /\ (s \o t)[Len(s) + n] = t[n]
      BY <1>3, <2>1, <2>2
    <3> QED
      BY <3>1 DEF Elements
  <2> QED
    BY <2>3, <2>4 DEF Elements
<1> QED
  BY <1>2, <1>3, <1>4, <1>5, <1>6

LEMMA EmptySeq == IsSeq(<< >>) /\ Elements(<< >>) = {} /\ Len(<< >>) = 0
BY DEF IsSeq, Elements

LEMMA NoLength ==
    ASSUME NEW s, IsSeq(s), Len(s) = 0 \/ DOMAIN s = {} \/ Elements(s) = {}
    PROVE  s = << >>
<1>1. Len(s) \in Nat /\ DOMAIN s = 1 .. Len(s)
  BY SeqFacts
<1>2. Len(s) # 0 => 1 \in DOMAIN s
  BY <1>1
<1>3. Len(s) = 0
  BY <1>2 DEF Elements
<1>4. s \in Seq({s[n] : n \in DOMAIN s})
  BY DEF IsSeq
<1> QED
  BY <1>3, <1>4

LEMMA SingleSeq ==
    ASSUME NEW x
    PROVE  IsSeq(<<x>>) /\ Elements(<<x>>) = {x} /\ Len(<<x>>) = 1
BY DEF IsSeq, Elements

LEMMA PairSeq ==
    ASSUME NEW x, NEW y
    PROVE  IsSeq(<<x, y>>) /\ Elements(<<x, y>>) = {x, y} /\ Len(<<x, y>>) = 2
BY DEF IsSeq, Elements

LEMMA TripleSeq ==
    ASSUME NEW x, NEW y, NEW z
    PROVE  IsSeq(<<x, y, z>>) /\ Elements(<<x, y, z>>) = {x, y, z} /\ Len(<<x, y, z>>) = 3
BY DEF IsSeq, Elements

(* A sequence made element by element from another.                        *)
LEMMA MappedSeq ==
    ASSUME NEW s, IsSeq(s), NEW t, t = [n \in DOMAIN s |-> t[n]]
    PROVE  IsSeq(t) /\ Len(t) = Len(s) /\ DOMAIN t = DOMAIN s
<1>1. Len(s) \in Nat /\ DOMAIN s = 1 .. Len(s)
  BY SeqFacts
<1>2. t = [n \in 1 .. Len(s) |-> t[n]]
  BY <1>1
<1> QED
  BY <1>1, <1>2, SeqIntro

(* What stands in a concatenation.                                         *)
LEMMA JoinFacts ==
    ASSUME NEW ss, IsSeq(ss), \A n \in DOMAIN ss : IsSeq(ss[n])
    PROVE  IsSeq(Join(ss)) /\ Elements(Join(ss)) = UNION {Elements(ss[n]) : n \in DOMAIN ss}
<1>1. Len(ss) \in Nat /\ DOMAIN ss = 1 .. Len(ss)
  BY SeqFacts
<1>2. PICK g : /\ g[0] = << >>
               /\ \A n \in 1 .. Len(ss) : g[n] = Joined(Nothing, g[n - 1], ss[n])
               /\ Join(ss) = g[Len(ss)]
  BY <1>1, LeastNat, JoinFold!SweepRounds DEF Join, JoinFold!WellOrdered
<1> DEFINE T == {n \in 0 .. Len(ss) : IsSeq(g[n]) /\ Elements(g[n]) = UNION {Elements(ss[k]) : k \in 1 .. n}}
<1>3. 0 \in T
  <2>1. 1 .. 0 = {}
    OBVIOUS
  <2> QED
    BY <1>1, <1>2, <2>1, EmptySeq
<1>4. ASSUME NEW n \in 1 .. Len(ss), n - 1 \in T
      PROVE  n \in T
  <2>1. g[n] = g[n - 1] \o ss[n] /\ IsSeq(ss[n]) /\ IsSeq(g[n - 1])
    BY <1>1, <1>2, <1>4 DEF Joined
  <2>2. IsSeq(g[n]) /\ Elements(g[n]) = Elements(g[n - 1]) \cup Elements(ss[n])
    BY <2>1, ConcatFacts
  <2>3. 1 .. n = (1 .. n - 1) \cup {n}
    BY <1>1
  <2> QED
    BY <1>1, <1>4, <2>2, <2>3
<1>5. Len(ss) \in T
  <2> HIDE DEF T
  <2>1. \A n \in 0 .. Len(ss) : n \in T
    BY <1>1, <1>3, <1>4, CountUp
  <2> QED
    BY <1>1, <2>1
<1> QED
  BY <1>1, <1>2, <1>5

(* Chosen leaves what passes.                                              *)
LEMMA NoneJoined ==
    ASSUME NEW ss, IsSeq(ss), \A n \in DOMAIN ss : IsSeq(ss[n]), Join(ss) = << >>
    PROVE  \A n \in DOMAIN ss : ss[n] = << >>
<1>1. Elements(Join(ss)) = {}
  BY EmptySeq
<1> TAKE n \in DOMAIN ss
<1>2. Elements(ss[n]) = {} /\ IsSeq(ss[n])
  BY <1>1, JoinFacts
<1>3. ss[n] \in Seq({})
  BY <1>2, SeqIn
<1> QED
  BY <1>3

-----------------------------------------------------------------------------
(* Nodes.                                                                  *)

LEMMA HeightFacts ==
    ASSUME NEW args, IsSeq(args), \A n \in DOMAIN args : args[n].height \in Nat
    PROVE  HeightAbove(args) \in Nat /\ \A n \in DOMAIN args : args[n].height < HeightAbove(args)
<1> DEFINE H == {0} \cup {args[n].height + 1 : n \in DOMAIN args}
           T == {n \in 0 .. Len(args) : \E h \in H : \A k \in 1 .. n : args[k].height < h}
<1>1. Len(args) \in Nat /\ DOMAIN args = 1 .. Len(args)
  BY SeqFacts
<1>2. 0 \in T
  BY <1>1
<1>3. ASSUME NEW n \in 1 .. Len(args), n - 1 \in T
      PROVE  n \in T
  <2>1. PICK h \in H : \A k \in 1 .. n - 1 : args[k].height < h
    BY <1>3
  <2>2. args[n].height + 1 \in H /\ args[n].height \in Nat /\ h \in Nat /\ n \in 0 .. Len(args)
    BY <1>1
  <2>3. CASE args[n].height < h
    <3>1. \A k \in 1 .. n : args[k].height < h
      BY <1>1, <2>1, <2>3
    <3> HIDE DEF H
    <3> QED
      BY <2>2, <3>1
  <2>4. CASE ~ (args[n].height < h)
    <3>1. \A k \in 1 .. n : args[k].height < args[n].height + 1
      BY <1>1, <2>1, <2>2, <2>4
    <3> HIDE DEF H
    <3> QED
      BY <3>1, <2>2
  <2> QED
    BY <2>3, <2>4
<1>4. Len(args) \in T
  <2> HIDE DEF T
  <2>1. \A n \in 0 .. Len(args) : n \in T
    BY <1>1, <1>2, <1>3, CountUp
  <2> QED
    BY <1>1, <2>1
<1>5. \E h \in H : \A n \in DOMAIN args : args[n].height < h
  BY <1>1, <1>4
<1>6. HeightAbove(args) \in H /\ \A n \in DOMAIN args : args[n].height < HeightAbove(args)
  BY <1>5 DEF HeightAbove
<1> QED
  BY <1>6

LEMMA WellFormedHeight ==
    ASSUME NEW e, NEW kinds, WellFormed(e, kinds)
    PROVE  /\ e.height \in Nat
           /\ \A n \in DOMAIN e.args : e.args[n].height \in Nat /\ e.args[n].height < e.height
<1>1. e.height = HeightAbove(e.args)
  BY DEF WellFormed, Node
<1> QED
  BY <1>1, HeightFacts DEF WellFormed

(* The nodes of an expression.                                             *)
Nodes(e) == TextWalk!Subtrees(e)

LEMMA ExprNodes ==
    ASSUME NEW e, NEW kinds, IsExpr(e, kinds)
    PROVE  /\ e \in Nodes(e) /\ TextWalk!Closed(Nodes(e))
           /\ \A x \in Nodes(e) : WellFormed(x, kinds) /\ Nodes(x) \subseteq Nodes(e)
<1>1. e.height \in Nat /\ \A x \in Nodes(e) : WellFormed(x, kinds)
  BY DEF IsExpr, Nodes
<1>2. e \in Nodes(e) /\ TextWalk!Closed(Nodes(e))
  BY <1>1, WellFormedHeight, LeastNat, TextWalk!SubtreesClosed DEF Nodes, TextWalk!WellOrdered
<1> QED
  BY <1>1, <1>2, LeastNat, TextWalk!SubtreesFacts DEF Nodes, TextWalk!WellOrdered

(* A node that is well-formed, with children that are expressions.         *)
LEMMA ExprIntro ==
    ASSUME NEW e, NEW kinds, WellFormed(e, kinds), \A k \in DOMAIN e.args : IsExpr(e.args[k], kinds)
    PROVE  IsExpr(e, kinds)
<1> DEFINE S == {e} \cup UNION {Nodes(e.args[k]) : k \in DOMAIN e.args}
<1>1. \A k \in DOMAIN e.args : e.args[k] \in Nodes(e.args[k])
  BY ExprNodes
<1>2. \A x \in S : WellFormed(x, kinds)
  BY ExprNodes
<1>3. \A x \in S : \A k \in DOMAIN x.args : x.args[k] \in S
  BY <1>1, ExprNodes DEF TextWalk!Closed
<1>4. TextWalk!Closed(S)
  <2> HIDE DEF S
  <2> QED
    BY <1>2, <1>3, WellFormedHeight DEF TextWalk!Closed
<1>5. Nodes(e) \subseteq S
  <2>1. e \in S
    OBVIOUS
  <2> HIDE DEF S
  <2> QED
    BY <1>4, <2>1, LeastNat, TextWalk!SubtreesFacts DEF Nodes, TextWalk!WellOrdered
<1> QED
  BY <1>2, <1>5, WellFormedHeight DEF IsExpr, Nodes

LEMMA ExprElim ==
    ASSUME NEW e, NEW kinds, IsExpr(e, kinds)
    PROVE  /\ WellFormed(e, kinds)
           /\ \A x \in Nodes(e) : IsExpr(x, kinds)
           /\ \A k \in DOMAIN e.args : e.args[k] \in Nodes(e) /\ IsExpr(e.args[k], kinds)
<1>1. WellFormed(e, kinds)
  BY ExprNodes
<1>2. \A x \in Nodes(e) : IsExpr(x, kinds)
  <2> TAKE x \in Nodes(e)
  <2>1. WellFormed(x, kinds) /\ Nodes(x) \subseteq Nodes(e)
    BY ExprNodes
  <2> QED
    BY <2>1, ExprNodes, WellFormedHeight DEF IsExpr, Nodes
<1>3. \A k \in DOMAIN e.args : e.args[k] \in Nodes(e)
  BY ExprNodes DEF TextWalk!Closed
<1> QED
  BY <1>1, <1>2, <1>3

(* What holds of a node when it holds of its children holds of all.        *)
LEMMA ExprInduction ==
    ASSUME NEW e, NEW kinds, IsExpr(e, kinds), NEW T,
           \A x \in Nodes(e) : IsExpr(x, kinds) /\ (\A k \in DOMAIN x.args : x.args[k] \in T) => x \in T
    PROVE  e \in T
<1>1. TextWalk!Closed(Nodes(e)) /\ e \in Nodes(e)
  BY ExprNodes
<1>2. \A x \in Nodes(e) : IsExpr(x, kinds)
  BY ExprElim
<1>3. Nodes(e) \subseteq T
  BY <1>1, <1>2, LeastNat, TextWalk!TreeInduction DEF TextWalk!WellOrdered
<1> QED
  BY <1>1, <1>3

LEMMA ArityOf ==
    /\ Arity["BinaryExpr"] = {2} /\ Arity["UnaryExpr"] = {1} /\ Arity["IsNullExpr"] = {1}
    /\ Arity["InExpr"] = {1} /\ Arity["LikeExpr"] = {1} /\ Arity["CaseExpr"] = Nat \ {0, 1}
    /\ Arity["SubstringExpr"] = {2, 3} /\ Arity["ColumnRef"] = {0} /\ Arity["Literal"] = {0}
    /\ Arity["IntervalLiteral"] = {0} /\ Arity["Invalid"] = {0} /\ Arity["AggregateExpr"] = {0, 1}
    /\ Arity["BetweenExpr"] = {3}
BY DEF Arity

LEMMA ArgsCount ==
    ASSUME NEW e, NEW kinds, WellFormed(e, kinds)
    PROVE  /\ IsSeq(e.args) /\ Len(e.args) \in Nat /\ DOMAIN e.args = 1 .. Len(e.args)
           /\ e.kind \in {"BinaryExpr", "UnaryExpr", "IsNullExpr", "InExpr", "LikeExpr", "CaseExpr",
                          "SubstringExpr"} => 1 \in DOMAIN e.args
           /\ e.kind \in {"BinaryExpr", "SubstringExpr"} => 2 \in DOMAIN e.args
           /\ e.kind = "SubstringExpr" => Len(e.args) \in {2, 3} /\ (Len(e.args) = 3 => 3 \in DOMAIN e.args)
           /\ e.kind \in {"ColumnRef", "Literal", "IntervalLiteral", "Invalid"} => e.args = << >>
           /\ e.kind = "AggregateExpr" => e.args = << >> \/ 1 \in DOMAIN e.args
<1>1. IsSeq(e.args) /\ Len(e.args) \in Arity[e.kind]
  BY DEF WellFormed
<1>2. Len(e.args) \in Nat /\ DOMAIN e.args = 1 .. Len(e.args)
  BY <1>1, SeqFacts
<1>3. Len(e.args) = 0 => e.args = << >>
  BY <1>1, NoLength
<1> DEFINE L == Len(e.args)
<1>4. /\ e.kind = "BinaryExpr" => L = 2
      /\ e.kind \in {"UnaryExpr", "IsNullExpr", "InExpr", "LikeExpr"} => L = 1
      /\ e.kind = "CaseExpr" => L \in Nat /\ L # 0 /\ L # 1
      /\ e.kind = "SubstringExpr" => L \in {2, 3}
      /\ e.kind \in {"ColumnRef", "Literal", "IntervalLiteral", "Invalid"} => L = 0
      /\ e.kind = "AggregateExpr" => L \in {0, 1}
  <2>0. L \in Arity[e.kind] /\ L \in Nat
    BY <1>1, <1>2
  <2> HIDE DEF L
  <2>1. e.kind = "BinaryExpr" => L = 2
    BY <2>0, ArityOf
  <2>2. e.kind \in {"UnaryExpr", "IsNullExpr", "InExpr", "LikeExpr"} => L = 1
    BY <2>0, ArityOf
  <2>3. e.kind = "CaseExpr" => L # 0 /\ L # 1
    BY <2>0, ArityOf
  <2>4. e.kind = "SubstringExpr" => L \in {2, 3}
    BY <2>0, ArityOf
  <2>5. e.kind \in {"ColumnRef", "Literal", "IntervalLiteral", "Invalid"} => L = 0
    BY <2>0, ArityOf
  <2>6. e.kind = "AggregateExpr" => L \in {0, 1}
    BY <2>0, ArityOf
  <2> QED
    BY <2>0, <2>1, <2>2, <2>3, <2>4, <2>5, <2>6
<1> HIDE DEF L
<1>5. L \in Nat /\ DOMAIN e.args = 1 .. L /\ (L = 0 => e.args = << >>)
  BY <1>2, <1>3 DEF L
<1>6. (L # 0 => 1 \in DOMAIN e.args) /\ (L \in {2, 3} => 2 \in DOMAIN e.args) /\ (L = 3 => 3 \in DOMAIN e.args)
  BY <1>5
<1> QED
  BY <1>1, <1>2, <1>4, <1>5, <1>6 DEF L

LEMMA NodeExpr ==
    ASSUME NEW kind, NEW op, NEW args, NEW payload, NEW kinds,
           kind \in kinds, op \in Ops[kind], IsPayload(kind, payload),
           IsSeq(args), Len(args) \in Arity[kind], \A n \in DOMAIN args : IsExpr(args[n], kinds)
    PROVE  IsExpr(Node(kind, op, args, payload), kinds)
<1> DEFINE e == Node(kind, op, args, payload)
<1>1. e.kind = kind /\ e.op = op /\ e.args = args /\ e.payload = payload
  BY DEF Node
<1>2. e = Node(e.kind, e.op, e.args, e.payload)
  BY <1>1
<1>3. \A n \in DOMAIN args : args[n].height \in Nat
  BY DEF IsExpr
<1> HIDE DEF e
<1>4. WellFormed(e, kinds)
  BY <1>1, <1>2, <1>3 DEF WellFormed
<1>5. IsExpr(e, kinds)
  BY <1>1, <1>4, ExprIntro
<1> QED
  BY <1>5 DEF e

(* A tree is its root and the trees of its children.                       *)
LEMMA NodesSplit ==
    ASSUME NEW e, NEW kinds, IsExpr(e, kinds)
    PROVE  Nodes(e) = {e} \cup UNION {Nodes(e.args[k]) : k \in DOMAIN e.args}
<1> DEFINE S == {e} \cup UNION {Nodes(e.args[k]) : k \in DOMAIN e.args}
<1>1. \A k \in DOMAIN e.args : IsExpr(e.args[k], kinds) /\ e.args[k] \in Nodes(e)
  BY ExprElim
<1>2. \A k \in DOMAIN e.args : e.args[k] \in Nodes(e.args[k]) /\ Nodes(e.args[k]) \subseteq Nodes(e)
  BY <1>1, ExprNodes
<1>3. \A x \in S : \A k \in DOMAIN x.args : x.args[k] \in S
  BY <1>1, <1>2, ExprNodes DEF TextWalk!Closed
<1>4. S \subseteq Nodes(e) /\ e \in S
  BY <1>2, ExprNodes
<1> HIDE DEF S
<1>5. TextWalk!Closed(S)
  BY <1>3, <1>4, ExprNodes DEF TextWalk!Closed
<1>6. Nodes(e) \subseteq S
  BY <1>4, <1>5, LeastNat, TextWalk!SubtreesFacts DEF Nodes, TextWalk!WellOrdered
<1> QED
  BY <1>4, <1>6 DEF S

(* Leaves have no children.                                                *)
LEMMA LeafOps == Ops["ColumnRef"] = Ops["Invalid"] /\ Ops["Literal"] = Ops["Invalid"] /\ NoName \in Ops["Invalid"]
BY DEF Ops

LEMMA LeafExpr ==
    ASSUME NEW kind, NEW payload, NEW kinds, kind \in kinds, NEW op \in Ops["Invalid"],
           kind \in {"ColumnRef", "Literal", "Invalid"}, IsPayload(kind, payload)
    PROVE  /\ IsExpr(Node(kind, op, << >>, payload), kinds)
           /\ Nodes(Node(kind, op, << >>, payload)) = {Node(kind, op, << >>, payload)}
<1>1. op \in Ops[kind]
  BY LeafOps
<1>2. Len(<< >>) \in Arity[kind]
  BY EmptySeq, ArityOf
<1>3. IsExpr(Node(kind, op, << >>, payload), kinds)
  BY <1>1, <1>2, EmptySeq, NodeExpr
<1>4. Node(kind, op, << >>, payload).args = << >>
  BY DEF Node
<1>5. {Nodes(<< >>[k]) : k \in DOMAIN << >>} = {}
  OBVIOUS
<1> HIDE DEF Node
<1> QED
  BY <1>3, <1>4, <1>5, NodesSplit

LEMMA ChildrenNodes ==
    ASSUME NEW kinds, NEW e, IsExpr(e, kinds)
    PROVE  /\ e \in Nodes(e)
           /\ \A x \in Nodes(e) : /\ x.height \in Nat
                                  /\ \A k \in DOMAIN x.args : x.args[k] \in Nodes(e) /\ x.args[k].height < x.height
BY ExprNodes DEF TextWalk!Closed

-----------------------------------------------------------------------------
(* The parser: it ends on every text, and what it returns is a tree.       *)

RestRules == {"OrRest", "AndRest", "AdditiveRest", "MultiplicativeRest"}

LEMMA RulesAre ==
    /\ Rules = {"OrExpr", "AndExpr", "Compare", "Additive", "Multiplicative", "Unary",
                "OrRest", "AndRest", "AdditiveRest", "MultiplicativeRest",
                "Whens", "Constants", "SELECT", "GROUP", "ORDER"}
    /\ DOMAIN Operators = {"OrExpr", "AndExpr", "Additive", "Multiplicative"}
    /\ DOMAIN Rests = DOMAIN Operators /\ DOMAIN Tighter = DOMAIN Operators
    /\ \A level \in DOMAIN Operators : Rests[level] \in RestRules /\ Tighter[level] \in Levels
    /\ Levels \subseteq Rules /\ RestRules \subseteq Rules
<1>1. DOMAIN Operators = {"OrExpr", "AndExpr", "Additive", "Multiplicative"}
      /\ DOMAIN Rests = DOMAIN Operators /\ DOMAIN Tighter = DOMAIN Operators
  BY DEF Operators, Rests, Tighter
<1>2. {Rests[level] : level \in DOMAIN Rests} = RestRules
  BY <1>1 DEF Rests, RestRules
<1>3. Rules = {"OrExpr", "AndExpr", "Compare", "Additive", "Multiplicative", "Unary",
                "OrRest", "AndRest", "AdditiveRest", "MultiplicativeRest",
                "Whens", "Constants", "SELECT", "GROUP", "ORDER"}
  BY <1>2 DEF Rules, Levels, Lists, RestRules
<1>4. \A level \in DOMAIN Operators : Rests[level] \in RestRules /\ Tighter[level] \in Levels
  BY <1>1 DEF Rests, RestRules, Tighter, Levels
<1> QED
  BY <1>1, <1>3, <1>4 DEF Levels, RestRules

(* How far a rule is above those it calls at the same position.            *)
CallRank(rule) ==
    IF rule \in RestRules THEN 0
    ELSE IF rule = "Unary" THEN 1 ELSE IF rule = "Multiplicative" THEN 2 ELSE IF rule = "Additive" THEN 3
    ELSE IF rule = "Compare" THEN 4 ELSE IF rule = "AndExpr" THEN 5 ELSE IF rule = "OrExpr" THEN 6 ELSE 7

(* The tree a rule returns.                                                *)
IsNext(next) == next.op \in Ops["BinaryExpr"] /\ IsExpr(next.right, ParsedKinds)

(* At least one pair.                                                      *)
Paired(s) == Len(s) >= 2 /\ Len(s) % 2 = 0

Shaped(rule, t) ==
    IF rule \in Levels THEN IsExpr(t, ParsedKinds)
    ELSE /\ IsSeq(t)
         /\ \A n \in DOMAIN t :
               IF rule \in RestRules THEN IsNext(t[n])
               ELSE IF rule \in {"Whens", "GROUP"} THEN IsExpr(t[n], ParsedKinds)
               ELSE IF rule = "Constants" THEN IsValue(t[n])
               ELSE IF rule = "SELECT" THEN IsItem(t[n], ParsedKinds) ELSE IsKey(t[n], ParsedKinds)
         /\ rule = "Whens" => Paired(t)

(* A result is an error, or a tree and a position further on.              *)
Reaches(tokens, rule, at, r) ==
    /\ r = Read(r.tree, r.at)
    /\ r.at = 0 \/ (r.at \in at .. Len(tokens) + 1 /\ (rule \notin RestRules => r.at # at) /\ Shaped(rule, r.tree))

(* Two readings that are the same and right at every later position, and   *)
(* at this one for the rules that this one calls.                          *)
Agreed(f, g, tokens, rule, at) ==
    Reading(f, rule, at) = Reading(g, rule, at) /\ Reaches(tokens, rule, at, Reading(f, rule, at))

Ahead(f, g, tokens, at) == \A q \in Rules, k \in at + 1 .. Len(tokens) + 1 : Agreed(f, g, tokens, q, k)

Called(f, g, tokens, rule, at) ==
    Ahead(f, g, tokens, at) /\ \A q \in Rules : CallRank(q) < CallRank(rule) => Agreed(f, g, tokens, q, at)

LEMMA ShapedFacts ==
    ASSUME NEW rule, NEW t
    PROVE  /\ rule \in Levels => (Shaped(rule, t) <=> IsExpr(t, ParsedKinds))
           /\ rule \in RestRules => (Shaped(rule, t) <=> IsSeq(t) /\ \A n \in DOMAIN t : IsNext(t[n]))
           /\ rule = "Whens" => (Shaped(rule, t) <=> /\ IsSeq(t) /\ \A n \in DOMAIN t : IsExpr(t[n], ParsedKinds)
                                                   /\ Paired(t))
           /\ rule = "Constants" => (Shaped(rule, t) <=> IsSeq(t) /\ \A n \in DOMAIN t : IsValue(t[n]))
           /\ rule = "GROUP" => (Shaped(rule, t) <=> IsSeq(t) /\ \A n \in DOMAIN t : IsExpr(t[n], ParsedKinds))
           /\ rule = "SELECT" => (Shaped(rule, t) <=> IsSeq(t) /\ \A n \in DOMAIN t : IsItem(t[n], ParsedKinds))
           /\ rule = "ORDER" => (Shaped(rule, t) <=> IsSeq(t) /\ \A n \in DOMAIN t : IsKey(t[n], ParsedKinds))
<1>1. Levels \cap RestRules = {} /\ {"Whens", "Constants", "GROUP", "SELECT", "ORDER"} \cap (Levels \cup RestRules) = {}
  BY DEF Levels, RestRules
<1> QED
  BY <1>1, Zenon DEF Shaped

LEMMA ErrorReaches ==
    ASSUME NEW tokens, NEW rule, NEW at
    PROVE  /\ Reaches(tokens, rule, at, ParseError) /\ ParseError.at = 0
           /\ \A f, g, q : Agreed(f, g, tokens, q, 0) /\ Reading(f, q, 0) = ParseError
BY DEF Reaches, ParseError, Read, Agreed, Reading

LEMMA ReadReaches ==
    ASSUME NEW tokens, NEW rule, NEW at, NEW t, NEW to,
           to \in at .. Len(tokens) + 1, rule \notin RestRules => to # at, Shaped(rule, t)
    PROVE  Reaches(tokens, rule, at, Read(t, to))
BY DEF Reaches, Read

LEMMA AheadFacts ==
    ASSUME NEW tokens, Len(tokens) \in Nat, NEW at \in 1 .. Len(tokens) + 1, NEW f, NEW g, Ahead(f, g, tokens, at),
           NEW q \in Rules, NEW k \in {0} \cup (at + 1 .. Len(tokens) + 1)
    PROVE  /\ Reading(f, q, k) = Reading(g, q, k)
           /\ \/ Reading(f, q, k).at = 0
              \/ /\ Reading(f, q, k).at \in at + 1 .. Len(tokens) + 1
                 /\ Shaped(q, Reading(f, q, k).tree)
           /\ k = 0 => Reading(f, q, k).at = 0
           /\ q \notin RestRules /\ Reading(f, q, k).at # 0 => Reading(f, q, k).at > k
<1>1. Agreed(f, g, tokens, q, k) /\ (k = 0 => Reading(f, q, k).at = 0)
  BY ErrorReaches DEF Ahead
<1> QED
  BY <1>1 DEF Agreed, Reaches

LEMMA TypeFacts ==
    ASSUME NEW tokens, Len(tokens) \in Nat, NEW at \in Nat,
           TypeAt(tokens, at) \notin {"PARSE_ERROR", "END_OF_FILE"}
    PROVE  at \in 1 .. Len(tokens) /\ at + 1 \in 1 .. Len(tokens) + 1 /\ TypeAt(tokens, at) = tokens[at].type
BY DEF TypeAt

LEMMA ExpectFacts ==
    ASSUME NEW tokens, Len(tokens) \in Nat, NEW at \in Nat, NEW type, type \notin {"PARSE_ERROR", "END_OF_FILE"}
    PROVE  IF TypeAt(tokens, at) = type
           THEN Expect(tokens, at, type) = at + 1 /\ at \in 1 .. Len(tokens) /\ tokens[at].type = type
           ELSE Expect(tokens, at, type) = 0
BY TypeFacts DEF Expect

LEMMA ClosedFacts ==
    ASSUME NEW tokens, Len(tokens) \in Nat, NEW t, NEW to \in 0 .. Len(tokens) + 1,
           NEW type, type \notin {"PARSE_ERROR", "END_OF_FILE"}
    PROVE  \/ Closed(tokens, Read(t, to), type) = ParseError
           \/ /\ to \in 1 .. Len(tokens)
              /\ Closed(tokens, Read(t, to), type) = Read(t, to + 1)
BY ExpectFacts DEF Closed, Read

-----------------------------------------------------------------------------
(* Chains of operators.                                                    *)

LEMMA BinaryIs ==
    ASSUME NEW op \in Ops["BinaryExpr"], NEW l, NEW r, IsExpr(l, ParsedKinds), IsExpr(r, ParsedKinds)
    PROVE  IsExpr(BinaryExpr(op, l, r), ParsedKinds)
<1>1. "BinaryExpr" \in ParsedKinds /\ Len(<<l, r>>) \in Arity["BinaryExpr"] /\ IsPayload("BinaryExpr", Nothing)
  BY DEF ParsedKinds, Ops, Arity, IsPayload
<1>2. IsSeq(<<l, r>>) /\ \A n \in DOMAIN <<l, r>> : IsExpr(<<l, r>>[n], ParsedKinds)
  BY PairSeq
<1> QED
  BY <1>1, <1>2, NodeExpr DEF BinaryExpr

LEMMA ChainedIs ==
    ASSUME NEW first, IsExpr(first, ParsedKinds), NEW rest, IsSeq(rest), \A n \in DOMAIN rest : IsNext(rest[n])
    PROVE  IsExpr(Chained(first, rest), ParsedKinds)
<1>1. Len(rest) \in Nat /\ DOMAIN rest = 1 .. Len(rest)
  BY SeqFacts
<1>2. PICK g : /\ g[0] = first
               /\ \A n \in 1 .. Len(rest) : g[n] = Operated(Nothing, g[n - 1], rest[n])
               /\ Chained(first, rest) = g[Len(rest)]
  BY <1>1, LeastNat, ChainFold!SweepRounds DEF Chained, ChainFold!WellOrdered
<1> DEFINE T == {n \in 0 .. Len(rest) : IsExpr(g[n], ParsedKinds)}
<1>3. 0 \in T
  BY <1>1, <1>2
<1>4. ASSUME NEW n \in 1 .. Len(rest), n - 1 \in T
      PROVE  n \in T
  BY <1>1, <1>2, <1>4, BinaryIs DEF Operated, IsNext
<1> HIDE DEF T
<1>5. \A n \in 0 .. Len(rest) : n \in T
  BY <1>1, <1>3, <1>4, CountUp
<1> QED
  BY <1>1, <1>2, <1>5 DEF T

LEMMA ChainReads ==
    ASSUME NEW tokens, Len(tokens) \in Nat, NEW at \in 1 .. Len(tokens) + 1, NEW f, NEW g,
           NEW level \in DOMAIN Operators, Called(f, g, tokens, level, at)
    PROVE  /\ ParseChain(f, level, at) = ParseChain(g, level, at)
           /\ Reaches(tokens, level, at, ParseChain(f, level, at))
<1> DEFINE inner == Tighter[level]
           more  == Rests[level]
           first == Reading(f, inner, at)
           rest  == Reading(f, more, first.at)
<1>1. inner \in Levels /\ more \in RestRules /\ inner \in Rules /\ more \in Rules
      /\ level \in Levels /\ level \notin RestRules /\ inner \notin RestRules /\ more \notin Levels
  BY RulesAre DEF Levels, RestRules
<1>2. CallRank(inner) < CallRank(level)
  BY RulesAre DEF Tighter, CallRank, RestRules
<1>3. Agreed(f, g, tokens, inner, at)
  BY <1>1, <1>2 DEF Called
<1> HIDE DEF inner, more
<1>4. first = Reading(g, inner, at)
      /\ (first.at = 0 \/ (first.at \in at + 1 .. Len(tokens) + 1 /\ IsExpr(first.tree, ParsedKinds)))
  BY <1>1, <1>3, ShapedFacts DEF Agreed, Reaches
<1> HIDE DEF first
<1>5. rest = Reading(g, more, first.at)
      /\ (rest.at = 0 \/ (rest.at \in at + 1 .. Len(tokens) + 1 /\ Shaped(more, rest.tree)))
  BY <1>1, <1>4, AheadFacts DEF Called
<1>6. ParseChain(f, level, at) = ParseChain(g, level, at)
      /\ ParseChain(f, level, at) = IF first.at = 0 \/ rest.at = 0 THEN ParseError
                                    ELSE Read(Chained(first.tree, rest.tree), rest.at)
  BY <1>4, <1>5 DEF ParseChain, first, rest, inner, more
<1> HIDE DEF rest
<1>7. CASE first.at = 0 \/ rest.at = 0
  BY <1>6, <1>7, ErrorReaches
<1>8. CASE first.at # 0 /\ rest.at # 0
  <2>1. IsSeq(rest.tree) /\ \A n \in DOMAIN rest.tree : IsNext(rest.tree[n])
    BY <1>1, <1>5, <1>8 DEF Shaped
  <2>2. IsExpr(Chained(first.tree, rest.tree), ParsedKinds)
    BY <1>4, <1>8, <2>1, ChainedIs
  <2>3. Shaped(level, Chained(first.tree, rest.tree))
    BY <1>1, <2>2 DEF Shaped
  <2> QED
    BY <1>5, <1>6, <1>8, <2>3, ReadReaches
<1> QED
  BY <1>6, <1>7, <1>8

LEMMA RestReads ==
    ASSUME NEW tokens, Len(tokens) \in Nat, NEW at \in 1 .. Len(tokens) + 1, NEW f, NEW g,
           NEW level \in DOMAIN Operators, Ahead(f, g, tokens, at)
    PROVE  /\ ParseRest(f, tokens, level, at) = ParseRest(g, tokens, level, at)
           /\ Reaches(tokens, Rests[level], at, ParseRest(f, tokens, level, at))
<1> DEFINE inner == Tighter[level]
           rule  == Rests[level]
           right == Reading(f, inner, at + 1)
           rest  == Reading(f, rule, right.at)
           next  == [op |-> Symbol[TypeAt(tokens, at)], right |-> right.tree]
<1>1. inner \in Levels /\ rule \in RestRules /\ inner \in Rules /\ rule \in Rules
      /\ inner \notin RestRules /\ rule \notin Levels
  BY RulesAre DEF Levels, RestRules
<1>2. TypeAt(tokens, at) \in Operators[level] =>
         /\ TypeAt(tokens, at) \notin {"PARSE_ERROR", "END_OF_FILE"}
         /\ Symbol[TypeAt(tokens, at)] \in Ops["BinaryExpr"]
  BY RulesAre DEF Operators, Symbol, Ops, ArithOps, CompareOps
<1>3. CASE TypeAt(tokens, at) \notin Operators[level]
  <2>1. ParseRest(f, tokens, level, at) = Read(<< >>, at) /\ ParseRest(g, tokens, level, at) = Read(<< >>, at)
    BY <1>3 DEF ParseRest
  <2>2. Shaped(rule, << >>)
    BY <1>1, EmptySeq DEF Shaped, RestRules
  <2> HIDE DEF rule
  <2>3. Reaches(tokens, rule, at, Read(<< >>, at))
    BY <1>1, <2>2, ReadReaches DEF rule
  <2> QED
    BY <2>1, <2>3 DEF rule
<1>4. CASE TypeAt(tokens, at) \in Operators[level]
  <2>1. at + 1 \in at + 1 .. Len(tokens) + 1
    BY <1>2, <1>4, TypeFacts
  <2> HIDE DEF inner, rule
  <2>2. right = Reading(g, inner, at + 1)
        /\ (right.at = 0 \/ (right.at \in at + 1 .. Len(tokens) + 1 /\ IsExpr(right.tree, ParsedKinds)))
    BY <1>1, <2>1, AheadFacts, ShapedFacts
  <2> HIDE DEF right
  <2>3. rest = Reading(g, rule, right.at)
        /\ (rest.at = 0 \/ (rest.at \in at + 1 .. Len(tokens) + 1 /\ Shaped(rule, rest.tree)))
    BY <1>1, <2>2, AheadFacts
  <2>4. ParseRest(f, tokens, level, at) = ParseRest(g, tokens, level, at)
        /\ ParseRest(f, tokens, level, at) = IF right.at = 0 \/ rest.at = 0 THEN ParseError
                                             ELSE Read(<<next>> \o rest.tree, rest.at)
    BY <1>4, <2>2, <2>3 DEF ParseRest, right, rest, inner, rule
  <2> HIDE DEF rest
  <2>5. CASE right.at = 0 \/ rest.at = 0
    BY <2>4, <2>5, ErrorReaches
  <2>6. CASE right.at # 0 /\ rest.at # 0
    <3>1. IsNext(next)
      BY <1>2, <1>4, <2>2, <2>6 DEF IsNext
    <3>2. IsSeq(rest.tree) /\ \A n \in DOMAIN rest.tree : IsNext(rest.tree[n])
      BY <1>1, <2>3, <2>6 DEF Shaped
    <3> HIDE DEF next, rule
    <3>3. IsSeq(<<next>> \o rest.tree) /\ Elements(<<next>> \o rest.tree) = {next} \cup Elements(rest.tree)
      BY <3>2, SingleSeq, ConcatFacts
    <3>4. Shaped(rule, <<next>> \o rest.tree)
      BY <1>1, <3>1, <3>2, <3>3 DEF Shaped, Elements, RestRules, rule
    <3>5. Reaches(tokens, rule, at, Read(<<next>> \o rest.tree, rest.at))
      BY <1>1, <2>3, <2>6, <3>4, ReadReaches DEF rule
    <3> QED
      BY <2>4, <2>6, <3>5 DEF rule
  <2> QED
    BY <2>5, <2>6
<1> QED
  BY <1>3, <1>4

-----------------------------------------------------------------------------
(* The nodes the parser makes.                                             *)

LEMMA OpsOf ==
    /\ Ops["UnaryExpr"] = {"-"} /\ Ops["AggregateExpr"] = Functions /\ Ops["CaseExpr"] = {"CASE"}
    /\ Ops["SubstringExpr"] = {"SUBSTRING"} /\ Ops["IntervalLiteral"] = {"INTERVAL"}
    /\ Ops["BinaryExpr"] = ArithOps \cup CompareOps \cup {"AND", "OR"}
BY DEF Ops, Functions

LEMMA NullOps == "IS NULL" \in Ops["IsNullExpr"] /\ "IS NOT NULL" \in Ops["IsNullExpr"]
BY Zenon DEF Ops

LEMMA LikeOps == "LIKE" \in Ops["LikeExpr"] /\ "NOT LIKE" \in Ops["LikeExpr"]
BY Zenon DEF Ops

LEMMA InOps == "IN" \in Ops["InExpr"] /\ "NOT IN" \in Ops["InExpr"]
BY Zenon DEF Ops

LEMMA ParsedAre ==
    {"ColumnRef", "Literal", "IntervalLiteral", "BinaryExpr", "UnaryExpr", "IsNullExpr", "LikeExpr", "InExpr",
     "AggregateExpr", "CaseExpr", "SubstringExpr"} \subseteq ParsedKinds
BY DEF ParsedKinds, Ops

LEMMA PlainIs ==
    ASSUME NEW kind \in {"BinaryExpr", "UnaryExpr", "IsNullExpr", "AggregateExpr", "CaseExpr", "SubstringExpr"},
           NEW op \in Ops[kind], NEW args, IsSeq(args), Len(args) \in Arity[kind],
           \A n \in DOMAIN args : IsExpr(args[n], ParsedKinds)
    PROVE  IsExpr(Node(kind, op, args, Nothing), ParsedKinds)
<1>1. kind \in ParsedKinds
  BY ParsedAre
<1>2. IsPayload(kind, Nothing)
  BY DEF IsPayload
<1> QED
  BY <1>1, <1>2, NodeExpr

LEMMA SingleIs ==
    ASSUME NEW e, IsExpr(e, ParsedKinds)
    PROVE  IsSeq(<<e>>) /\ Len(<<e>>) = 1 /\ \A n \in DOMAIN <<e>> : IsExpr(<<e>>[n], ParsedKinds)
BY SingleSeq

LEMMA UnaryIs ==
    ASSUME NEW e, IsExpr(e, ParsedKinds)
    PROVE  IsExpr(UnaryExpr(e), ParsedKinds)
BY SingleIs, PlainIs, ArityOf, OpsOf DEF UnaryExpr

LEMMA NullIs ==
    ASSUME NEW e, IsExpr(e, ParsedKinds), NEW op \in Ops["IsNullExpr"]
    PROVE  IsExpr(IsNullExpr(e, op), ParsedKinds)
BY SingleIs, PlainIs, ArityOf DEF IsNullExpr

LEMMA AggregateIs ==
    ASSUME NEW op \in Functions
    PROVE  /\ IsExpr(AggregateExpr(op, << >>), ParsedKinds)
           /\ \A e : IsExpr(e, ParsedKinds) => IsExpr(AggregateExpr(op, <<e>>), ParsedKinds)
<1>1. op \in Ops["AggregateExpr"] /\ 0 \in Arity["AggregateExpr"] /\ 1 \in Arity["AggregateExpr"]
  BY OpsOf, ArityOf
<1>2. IsExpr(AggregateExpr(op, << >>), ParsedKinds)
  BY <1>1, EmptySeq, PlainIs DEF AggregateExpr
<1>3. ASSUME NEW e, IsExpr(e, ParsedKinds) PROVE IsExpr(AggregateExpr(op, <<e>>), ParsedKinds)
  BY <1>1, <1>3, SingleIs, PlainIs DEF AggregateExpr
<1> QED
  BY <1>2, <1>3

LEMMA CaseIs ==
    ASSUME NEW args, IsSeq(args), Len(args) >= 2, \A n \in DOMAIN args : IsExpr(args[n], ParsedKinds)
    PROVE  IsExpr(CaseExpr(args), ParsedKinds)
<1>1. Len(args) \in Arity["CaseExpr"] /\ "CASE" \in Ops["CaseExpr"]
  BY SeqFacts, ArityOf, OpsOf
<1> QED
  BY <1>1, PlainIs DEF CaseExpr

LEMMA SubstringIs ==
    ASSUME NEW e, NEW start, IsExpr(e, ParsedKinds), IsExpr(start, ParsedKinds)
    PROVE  /\ IsExpr(SubstringExpr(<<e, start>>), ParsedKinds)
           /\ \A length : IsExpr(length, ParsedKinds) => IsExpr(SubstringExpr(<<e, start, length>>), ParsedKinds)
<1>1. "SUBSTRING" \in Ops["SubstringExpr"] /\ 2 \in Arity["SubstringExpr"] /\ 3 \in Arity["SubstringExpr"]
  BY OpsOf, ArityOf
<1>2. IsExpr(SubstringExpr(<<e, start>>), ParsedKinds)
  <2>1. \A n \in DOMAIN <<e, start>> : IsExpr(<<e, start>>[n], ParsedKinds)
    OBVIOUS
  <2> QED
    BY <1>1, <2>1, PairSeq, PlainIs DEF SubstringExpr
<1>3. ASSUME NEW length, IsExpr(length, ParsedKinds)
      PROVE  IsExpr(SubstringExpr(<<e, start, length>>), ParsedKinds)
  <2>1. \A n \in DOMAIN <<e, start, length>> : IsExpr(<<e, start, length>>[n], ParsedKinds)
    BY <1>3
  <2> QED
    BY <1>1, <2>1, TripleSeq, PlainIs DEF SubstringExpr
<1> QED
  BY <1>2, <1>3

LEMMA LiteralIs ==
    ASSUME NEW v, IsValue(v)
    PROVE  IsExpr(Literal(v), ParsedKinds)
<1>1. IsPayload("Literal", v)
  BY DEF IsPayload
<1> QED
  BY <1>1, ParsedAre, LeafOps, LeafExpr DEF Literal

LEMMA ColumnIs ==
    ASSUME NEW table, NEW column
    PROVE  IsExpr(ColumnRef(table, column), ParsedKinds)
<1> DEFINE c == [table_name |-> table, column_name |-> column, relation_slot |-> NoSlot]
<1>1. c = [table_name |-> c.table_name, column_name |-> c.column_name, relation_slot |-> c.relation_slot]
      /\ c.relation_slot = NoSlot
  OBVIOUS
<1> HIDE DEF c
<1>2. IsPayload("ColumnRef", c)
  BY <1>1 DEF IsPayload
<1>3. IsExpr(Node("ColumnRef", NoName, << >>, c), ParsedKinds)
  BY <1>2, ParsedAre, LeafOps, LeafExpr
<1> QED
  BY <1>3 DEF ColumnRef, c

LEMMA LikeIs ==
    ASSUME NEW e, IsExpr(e, ParsedKinds), NEW pattern, IsText(pattern), NEW op \in Ops["LikeExpr"]
    PROVE  IsExpr(LikeExpr(e, pattern, op), ParsedKinds)
<1>1. IsPayload("LikeExpr", pattern)
  BY DEF IsPayload
<1> QED
  BY <1>1, ParsedAre, ArityOf, SingleIs, NodeExpr DEF LikeExpr

LEMMA InIs ==
    ASSUME NEW e, IsExpr(e, ParsedKinds), NEW values, IsSeq(values), \A n \in DOMAIN values : IsValue(values[n]),
           NEW op \in Ops["InExpr"]
    PROVE  IsExpr(InExpr(e, values, op), ParsedKinds)
<1> DEFINE payload == [values |-> values]
<1>1. payload = [values |-> payload.values] /\ payload.values = values
  OBVIOUS
<1> HIDE DEF payload
<1>2. IsPayload("InExpr", payload)
  BY <1>1 DEF IsPayload
<1>3. IsExpr(Node("InExpr", op, <<e>>, payload), ParsedKinds)
  BY <1>2, ParsedAre, ArityOf, SingleIs, NodeExpr
<1> QED
  BY <1>3 DEF InExpr, payload

LEMMA IntervalIs ==
    ASSUME NEW n \in Int, NEW unit \in {"day", "month", "year"}
    PROVE  IsExpr(IntervalLiteral(n, unit), ParsedKinds)
<1> DEFINE payload == [count |-> n, unit |-> unit]
<1>1. payload \in [count : Int, unit : {"day", "month", "year"}]
  OBVIOUS
<1> HIDE DEF payload
<1>2. IsPayload("IntervalLiteral", payload)
  BY <1>1 DEF IsPayload
<1>3. IsExpr(Node("IntervalLiteral", "INTERVAL", << >>, payload), ParsedKinds)
  BY <1>2, ParsedAre, ArityOf, OpsOf, EmptySeq, NodeExpr
<1> QED
  BY <1>3 DEF IntervalLiteral, payload

-----------------------------------------------------------------------------
(* Primary expressions.                                                    *)

IsTokens(tokens) == IsSeq(tokens) /\ \A n \in DOMAIN tokens : IsToken(tokens[n])

LEMMA TokenFacts ==
    ASSUME NEW tokens, IsTokens(tokens)
    PROVE  /\ Len(tokens) \in Nat
           /\ \A n \in 1 .. Len(tokens) :
                 /\ tokens[n].type \in {"INT_LITERAL", "FLOAT_LITERAL", "STRING_LITERAL"} => IsValue(tokens[n].value)
                 /\ tokens[n].type = "STRING_LITERAL" => IsText(tokens[n].value)
BY SeqFacts DEF IsTokens, IsToken, IsValue

(* An expression further on, or an error.                                  *)
ExprFrom(tokens, at, r) ==
    /\ r = Read(r.tree, r.at)
    /\ r.at = 0 \/ (r.at \in at + 1 .. Len(tokens) + 1 /\ IsExpr(r.tree, ParsedKinds))

LEMMA LevelReaches ==
    ASSUME NEW tokens, Len(tokens) \in Nat, NEW at \in 1 .. Len(tokens) + 1, NEW level \in Levels, NEW r
    PROVE  Reaches(tokens, level, at, r) <=> ExprFrom(tokens, at, r)
<1>1. level \notin RestRules /\ (Shaped(level, r.tree) <=> IsExpr(r.tree, ParsedKinds))
  BY ShapedFacts DEF Levels, RestRules
<1>2. r.at \in at + 1 .. Len(tokens) + 1 <=> r.at \in at .. Len(tokens) + 1 /\ r.at # at
  OBVIOUS
<1> QED
  BY <1>1, <1>2 DEF Reaches, ExprFrom

LEMMA AheadExpr ==
    ASSUME NEW tokens, Len(tokens) \in Nat, NEW at \in 1 .. Len(tokens) + 1, NEW f, NEW g, Ahead(f, g, tokens, at),
           NEW level \in Levels, NEW k \in {0} \cup (at + 1 .. Len(tokens) + 1)
    PROVE  /\ Reading(f, level, k) = Reading(g, level, k)
           /\ ExprFrom(tokens, at, Reading(f, level, k))
           /\ k = 0 => Reading(f, level, k).at = 0
<1>1. level \in Rules /\ level \notin RestRules
  BY RulesAre DEF Levels, RestRules
<1>2. Agreed(f, g, tokens, level, k) /\ (k = 0 => Reading(f, level, k) = ParseError)
  BY <1>1, ErrorReaches DEF Ahead
<1>3. CASE k = 0
  BY <1>2, <1>3, ErrorReaches DEF ExprFrom, ParseError, Read, Agreed
<1>4. CASE k \in at + 1 .. Len(tokens) + 1
  <2>1. ExprFrom(tokens, k, Reading(f, level, k))
    BY <1>2, <1>4, LevelReaches DEF Agreed
  <2> QED
    BY <1>2, <1>4, <2>1 DEF ExprFrom, Agreed
<1> QED
  BY <1>3, <1>4

LEMMA ReadExpr ==
    ASSUME NEW tokens, NEW at, NEW t, NEW to \in at + 1 .. Len(tokens) + 1, IsExpr(t, ParsedKinds)
    PROVE  ExprFrom(tokens, at, Read(t, to))
BY DEF ExprFrom, Read

LEMMA ErrorExpr ==
    ASSUME NEW tokens, NEW at
    PROVE  ExprFrom(tokens, at, ParseError) /\ ParseError.at = 0
BY DEF ExprFrom, ParseError, Read

LEMMA ClosedExpr ==
    ASSUME NEW tokens, Len(tokens) \in Nat, NEW at \in 1 .. Len(tokens) + 1, NEW r, ExprFrom(tokens, at, r),
           NEW type, type \notin {"PARSE_ERROR", "END_OF_FILE"}
    PROVE  ExprFrom(tokens, at, Closed(tokens, r, type))
<1>1. r = Read(r.tree, r.at) /\ r.at \in 0 .. Len(tokens) + 1
      /\ (r.at = 0 \/ (r.at \in at + 1 .. Len(tokens) + 1 /\ IsExpr(r.tree, ParsedKinds)))
  BY DEF ExprFrom
<1>2. \/ Closed(tokens, r, type) = ParseError
      \/ r.at \in 1 .. Len(tokens) /\ Closed(tokens, r, type) = Read(r.tree, r.at + 1)
  BY <1>1, ClosedFacts
<1> QED
  BY <1>1, <1>2, ErrorExpr, ReadExpr

LEMMA LiteralReads ==
    ASSUME NEW tokens, IsTokens(tokens), NEW at \in 1 .. Len(tokens),
           tokens[at].type \in {"INT_LITERAL", "FLOAT_LITERAL", "STRING_LITERAL"}
    PROVE  ExprFrom(tokens, at, ParseLiteral(tokens, at))
<1>1. IsExpr(Literal(tokens[at].value), ParsedKinds) /\ at + 1 \in at + 1 .. Len(tokens) + 1
  BY TokenFacts, LiteralIs
<1> QED
  BY <1>1, ErrorExpr, ReadExpr DEF ParseLiteral

LEMMA DateReads ==
    ASSUME NEW tokens, IsTokens(tokens), NEW at \in 1 .. Len(tokens)
    PROVE  ExprFrom(tokens, at, ParseDate(tokens, at))
<1>1. Len(tokens) \in Nat /\ at + 1 \in Nat
  BY TokenFacts
<1>2. CASE ParseDate(tokens, at) = ParseError
  BY <1>2, ErrorExpr
<1>3. CASE ParseDate(tokens, at) # ParseError
  <2>1. Expect(tokens, at + 1, "STRING_LITERAL") # 0 /\ ParseDate(tokens, at) = Read(Literal(tokens[at + 1].value), at + 2)
    BY <1>3 DEF ParseDate
  <2>2. at + 1 \in 1 .. Len(tokens) /\ tokens[at + 1].type = "STRING_LITERAL"
    BY <1>1, <2>1, ExpectFacts
  <2>3. IsExpr(Literal(tokens[at + 1].value), ParsedKinds) /\ at + 2 \in at + 1 .. Len(tokens) + 1
    BY <1>1, <2>2, TokenFacts, LiteralIs
  <2> QED
    BY <2>1, <2>3, ReadExpr
<1> QED
  BY <1>2, <1>3

LEMMA IntervalReads ==
    ASSUME NEW tokens, IsTokens(tokens), NEW at \in 1 .. Len(tokens)
    PROVE  ExprFrom(tokens, at, ParseInterval(tokens, at))
<1>1. Len(tokens) \in Nat /\ at + 1 \in Nat
  BY TokenFacts
<1>2. CASE ParseInterval(tokens, at) = ParseError
  BY <1>2, ErrorExpr
<1>3. CASE ParseInterval(tokens, at) # ParseError
  <2> DEFINE n == tokens[at + 1].value.count
             unit == tokens[at + 2].value.name
             first == Expect(tokens, at + 1, "STRING_LITERAL")
  <2>1. /\ Expect(tokens, first, "IDENTIFIER") # 0
        /\ unit \in {"day", "month", "year"} /\ n \in MinInt .. MaxInt
        /\ ParseInterval(tokens, at) = Read(IntervalLiteral(n, unit), at + 3)
    BY <1>3 DEF ParseInterval
  <2>2. first = 0 \/ (first = at + 2 /\ at + 1 \in 1 .. Len(tokens))
    BY <1>1, ExpectFacts
  <2>3. first \in Nat
    BY <1>1, <2>2
  <2>4. first # 0 /\ first \in 1 .. Len(tokens)
    BY <1>1, <2>1, <2>3, ExpectFacts
  <2>5. at + 3 \in at + 1 .. Len(tokens) + 1
    BY <1>1, <2>2, <2>4
  <2>6. n \in Int
    BY <2>1
  <2> HIDE DEF n, unit, first
  <2>7. IsExpr(IntervalLiteral(n, unit), ParsedKinds)
    BY <2>1, <2>6, IntervalIs
  <2> QED
    BY <2>1, <2>5, <2>7, ReadExpr
<1> QED
  BY <1>2, <1>3

LEMMA ColumnReads ==
    ASSUME NEW tokens, IsTokens(tokens), NEW at \in 1 .. Len(tokens)
    PROVE  ExprFrom(tokens, at, ParseColumn(tokens, at))
<1>1. Len(tokens) \in Nat /\ at + 1 \in Nat /\ at + 2 \in Nat
  BY TokenFacts
<1>2. at + 1 \in at + 1 .. Len(tokens) + 1
  BY <1>1
<1>3. TypeAt(tokens, at + 2) = "IDENTIFIER" => at + 3 \in at + 1 .. Len(tokens) + 1
  BY <1>1, TypeFacts
<1> QED
  BY <1>2, <1>3, ColumnIs, ErrorExpr, ReadExpr DEF ParseColumn

LEMMA AggregateReads ==
    ASSUME NEW tokens, IsTokens(tokens), NEW at \in 1 .. Len(tokens), tokens[at].type \in Functions,
           NEW f, NEW g, Ahead(f, g, tokens, at)
    PROVE  /\ ParseAggregate(f, tokens, at) = ParseAggregate(g, tokens, at)
           /\ ExprFrom(tokens, at, ParseAggregate(f, tokens, at))
<1> DEFINE open == Expect(tokens, at + 1, "LPAREN")
           argument == ParseExpr(f, open)
           function(args, end) == Closed(tokens, Read(AggregateExpr(tokens[at].type, args), end), "RPAREN")
<1>1. Len(tokens) \in Nat /\ at + 1 \in Nat /\ at \in 1 .. Len(tokens) + 1
  BY TokenFacts
<1>2. open = 0 \/ (open = at + 2 /\ at + 1 \in 1 .. Len(tokens))
  BY <1>1, ExpectFacts
<1>3. open \in {0} \cup (at + 1 .. Len(tokens) + 1) /\ open \in Nat
  BY <1>1, <1>2
<1> HIDE DEF open
<1>4. argument = ParseExpr(g, open) /\ ExprFrom(tokens, at, argument)
  BY <1>1, <1>3, AheadExpr DEF ParseExpr, Levels
<1> HIDE DEF argument, function
<1>5. ParseAggregate(f, tokens, at) = ParseAggregate(g, tokens, at)
      /\ ParseAggregate(f, tokens, at) = IF TypeAt(tokens, open) = "STAR" THEN function(<< >>, open + 1)
                                         ELSE IF argument.at = 0 THEN ParseError
                                         ELSE function(<<argument.tree>>, argument.at)
  BY <1>4 DEF ParseAggregate, open, argument, function
<1>6. CASE TypeAt(tokens, open) = "STAR"
  <2>1. open + 1 \in at + 1 .. Len(tokens) + 1
    BY <1>1, <1>3, <1>6, TypeFacts
  <2>2. ExprFrom(tokens, at, Read(AggregateExpr(tokens[at].type, << >>), open + 1))
    BY <2>1, AggregateIs, ReadExpr
  <2>3. ExprFrom(tokens, at, function(<< >>, open + 1))
    BY <1>1, <2>2, ClosedExpr DEF function
  <2> QED
    BY <1>5, <1>6, <2>3
<1>7. CASE TypeAt(tokens, open) # "STAR" /\ argument.at = 0
  BY <1>5, <1>7, ErrorExpr
<1>8. CASE TypeAt(tokens, open) # "STAR" /\ argument.at # 0
  <2>1. argument.at \in at + 1 .. Len(tokens) + 1 /\ IsExpr(argument.tree, ParsedKinds)
    BY <1>4, <1>8 DEF ExprFrom
  <2>2. ExprFrom(tokens, at, Read(AggregateExpr(tokens[at].type, <<argument.tree>>), argument.at))
    BY <2>1, AggregateIs, ReadExpr
  <2>3. ExprFrom(tokens, at, function(<<argument.tree>>, argument.at))
    BY <1>1, <2>2, ClosedExpr DEF function
  <2> QED
    BY <1>5, <1>8, <2>3
<1> QED
  BY <1>6, <1>7, <1>8

(* A position after a token that stands where a result ends.               *)
LEMMA NextPosition ==
    ASSUME NEW tokens, Len(tokens) \in Nat, NEW at \in 1 .. Len(tokens) + 1, NEW r, ExprFrom(tokens, at, r)
    PROVE  /\ r.at \in Nat /\ r.at \in {0} \cup (at + 1 .. Len(tokens) + 1)
           /\ \A type : type \notin {"PARSE_ERROR", "END_OF_FILE"} =>
                 /\ Expect(tokens, r.at, type) \in {0} \cup (at + 1 .. Len(tokens) + 1)
                 /\ Expect(tokens, r.at, type) # 0 => TypeAt(tokens, r.at) = type
                 /\ TypeAt(tokens, r.at) = type =>
                      r.at # 0 /\ r.at + 1 \in at + 1 .. Len(tokens) + 1 /\ Expect(tokens, r.at, type) = r.at + 1
<1>1. r.at \in Nat /\ r.at \in {0} \cup (at + 1 .. Len(tokens) + 1)
  BY DEF ExprFrom
<1>2. ASSUME NEW type, type \notin {"PARSE_ERROR", "END_OF_FILE"}
      PROVE  IF TypeAt(tokens, r.at) = type
             THEN Expect(tokens, r.at, type) = r.at + 1 /\ r.at \in 1 .. Len(tokens)
             ELSE Expect(tokens, r.at, type) = 0
  BY <1>1, <1>2, ExpectFacts
<1>3. ASSUME NEW type, type \notin {"PARSE_ERROR", "END_OF_FILE"}, TypeAt(tokens, r.at) = type
      PROVE  /\ r.at # 0 /\ r.at + 1 \in at + 1 .. Len(tokens) + 1
             /\ Expect(tokens, r.at, type) = r.at + 1
  <2>1. Expect(tokens, r.at, type) = r.at + 1 /\ r.at \in 1 .. Len(tokens)
    BY <1>2, <1>3
  <2> QED
    BY <1>1, <2>1
<1>4. ASSUME NEW type, type \notin {"PARSE_ERROR", "END_OF_FILE"}, TypeAt(tokens, r.at) # type
      PROVE  Expect(tokens, r.at, type) = 0
  BY <1>2, <1>4
<1>5. ASSUME NEW type, type \notin {"PARSE_ERROR", "END_OF_FILE"}
      PROVE  /\ Expect(tokens, r.at, type) \in {0} \cup (at + 1 .. Len(tokens) + 1)
             /\ Expect(tokens, r.at, type) # 0 => TypeAt(tokens, r.at) = type
             /\ TypeAt(tokens, r.at) = type =>
                  r.at # 0 /\ r.at + 1 \in at + 1 .. Len(tokens) + 1 /\ Expect(tokens, r.at, type) = r.at + 1
  <2>1. CASE TypeAt(tokens, r.at) = type
    BY <1>3, <1>5, <2>1
  <2>2. CASE TypeAt(tokens, r.at) # type
    BY <1>4, <1>5, <2>2
  <2> QED
    BY <2>1, <2>2
<1> QED
  BY <1>1, <1>5

LEMMA SubstringReads ==
    ASSUME NEW tokens, IsTokens(tokens), NEW at \in 1 .. Len(tokens), NEW f, NEW g, Ahead(f, g, tokens, at)
    PROVE  /\ ParseSubstring(f, tokens, at) = ParseSubstring(g, tokens, at)
           /\ ExprFrom(tokens, at, ParseSubstring(f, tokens, at))
<1> DEFINE open    == Expect(tokens, at + 1, "LPAREN")
           operand == ParseExpr(f, open)
           form    == IF TypeAt(tokens, operand.at) = "FROM" THEN "FOR" ELSE "COMMA"
           after   == IF form = "FOR" THEN operand.at + 1 ELSE Expect(tokens, operand.at, "COMMA")
           start   == ParseExpr(f, after)
           length  == ParseExpr(f, start.at + 1)
           two     == Closed(tokens, Read(SubstringExpr(<<operand.tree, start.tree>>), start.at), "RPAREN")
           three   == Closed(tokens, Read(SubstringExpr(<<operand.tree, start.tree, length.tree>>), length.at), "RPAREN")
<1>1. Len(tokens) \in Nat /\ at + 1 \in Nat /\ at \in 1 .. Len(tokens) + 1 /\ "OrExpr" \in Levels
  BY TokenFacts DEF Levels
<1>2. open = 0 \/ (open = at + 2 /\ at + 1 \in 1 .. Len(tokens))
  BY <1>1, ExpectFacts
<1>3. open \in {0} \cup (at + 1 .. Len(tokens) + 1)
  BY <1>1, <1>2
<1> HIDE DEF open
<1>4. operand = ParseExpr(g, open) /\ ExprFrom(tokens, at, operand)
  BY <1>1, <1>3, AheadExpr DEF ParseExpr
<1> HIDE DEF operand
<1>5. /\ after \in {0} \cup (at + 1 .. Len(tokens) + 1) /\ form \notin {"PARSE_ERROR", "END_OF_FILE"}
      /\ after # 0 => operand.at # 0
  BY <1>1, <1>4, NextPosition
<1>6. start = ParseExpr(g, after) /\ ExprFrom(tokens, at, start) /\ (after = 0 => start.at = 0)
  <2> HIDE DEF after
  <2> QED
    BY <1>1, <1>5, AheadExpr DEF ParseExpr
<1> HIDE DEF start
<1>7. TypeAt(tokens, start.at) = form => length = ParseExpr(g, start.at + 1) /\ ExprFrom(tokens, at, length)
  <2> HAVE TypeAt(tokens, start.at) = form
  <2>1. start.at + 1 \in at + 1 .. Len(tokens) + 1
    BY <1>1, <1>5, <1>6, NextPosition
  <2> QED
    BY <1>1, <2>1, AheadExpr DEF ParseExpr
<1> HIDE DEF length, two, three
<1>8. /\ ParseSubstring(f, tokens, at) = IF start.at = 0 THEN ParseError
                                         ELSE IF TypeAt(tokens, start.at) # form THEN two
                                         ELSE IF length.at = 0 THEN ParseError ELSE three
      /\ ParseSubstring(g, tokens, at) = ParseSubstring(f, tokens, at)
  <2>1. ParseSubstring(f, tokens, at) = IF start.at = 0 THEN ParseError
                                         ELSE IF TypeAt(tokens, start.at) # form THEN two
                                         ELSE IF length.at = 0 THEN ParseError ELSE three
    BY DEF ParseSubstring, open, operand, start, length, two, three
  <2> DEFINE other == ParseExpr(g, start.at + 1)
  <2>2. ParseSubstring(g, tokens, at) =
          IF start.at = 0 THEN ParseError
          ELSE IF TypeAt(tokens, start.at) # form THEN two
          ELSE IF other.at = 0 THEN ParseError
          ELSE Closed(tokens, Read(SubstringExpr(<<operand.tree, start.tree, other.tree>>), other.at), "RPAREN")
    BY <1>4, <1>6 DEF ParseSubstring, open, two
  <2>3. TypeAt(tokens, start.at) = form => other = length
    BY <1>7
  <2> HIDE DEF other
  <2> QED
    BY <2>1, <2>2, <2>3 DEF three
<1>9. CASE start.at = 0
  BY <1>8, <1>9, ErrorExpr
<1>10. CASE start.at # 0
  <2>1. IsExpr(operand.tree, ParsedKinds) /\ IsExpr(start.tree, ParsedKinds) /\ start.at \in at + 1 .. Len(tokens) + 1
    BY <1>4, <1>5, <1>6, <1>10 DEF ExprFrom
  <2>2. ExprFrom(tokens, at, two)
    BY <1>1, <2>1, SubstringIs, ReadExpr, ClosedExpr DEF two
  <2>3. CASE TypeAt(tokens, start.at) # form \/ length.at = 0
    BY <1>8, <1>10, <2>2, <2>3, ErrorExpr
  <2>4. CASE TypeAt(tokens, start.at) = form /\ length.at # 0
    <3>1. IsExpr(length.tree, ParsedKinds) /\ length.at \in at + 1 .. Len(tokens) + 1
      BY <1>7, <2>4 DEF ExprFrom
    <3>2. ExprFrom(tokens, at, three)
      BY <1>1, <2>1, <3>1, SubstringIs, ReadExpr, ClosedExpr DEF three
    <3> QED
      BY <1>8, <1>10, <2>4, <3>2
  <2> QED
    BY <2>3, <2>4
<1> QED
  BY <1>8, <1>9, <1>10

LEMMA ListAhead ==
    ASSUME NEW tokens, Len(tokens) \in Nat, NEW at \in 1 .. Len(tokens) + 1, NEW f, NEW g, Ahead(f, g, tokens, at),
           NEW list \in Lists, NEW k \in {0} \cup (at + 1 .. Len(tokens) + 1)
    PROVE  /\ Reading(f, list, k) = Reading(g, list, k)
           /\ \/ Reading(f, list, k).at = 0
              \/ /\ Reading(f, list, k).at \in at + 1 .. Len(tokens) + 1
                 /\ Shaped(list, Reading(f, list, k).tree)
           /\ k = 0 => Reading(f, list, k).at = 0
<1>1. list \in Rules
  BY RulesAre DEF Lists
<1> QED
  BY <1>1, AheadFacts

LEMMA PairedFacts ==
    ASSUME NEW s, IsSeq(s), Len(s) = 2
    PROVE  /\ Paired(s)
           /\ \A t : IsSeq(t) /\ Paired(t) => Paired(s \o t)
<1>1. Paired(s)
  BY DEF Paired
<1>2. ASSUME NEW t, IsSeq(t), Paired(t) PROVE Paired(s \o t)
  <2>1. Len(s \o t) = Len(s) + Len(t)
    <3>1. IsSeq(s) /\ IsSeq(t)
      BY <1>2
    <3> QED
      BY <3>1, ConcatFacts
  <2>2. Len(t) \in Nat
    BY <1>2, SeqFacts
  <2> QED
    BY <1>2, <2>1, <2>2 DEF Paired
<1> QED
  BY <1>1, <1>2

LEMMA WhensReads ==
    ASSUME NEW tokens, Len(tokens) \in Nat, NEW at \in 1 .. Len(tokens) + 1, NEW f, NEW g, Ahead(f, g, tokens, at)
    PROVE  /\ ParseWhens(f, tokens, at) = ParseWhens(g, tokens, at)
           /\ Reaches(tokens, "Whens", at, ParseWhens(f, tokens, at))
<1> DEFINE first     == Expect(tokens, at, "WHEN")
           condition == ParseExpr(f, first)
           then      == Expect(tokens, condition.at, "THEN")
           result    == ParseExpr(f, then)
           when      == <<condition.tree, result.tree>>
           more      == Reading(f, "Whens", result.at)
<1>1. at \in Nat /\ "OrExpr" \in Levels /\ "Whens" \in Lists /\ "Whens" \notin RestRules
  BY DEF Levels, Lists, RestRules
<1>2. first \in {0} \cup (at + 1 .. Len(tokens) + 1)
  BY <1>1, ExpectFacts
<1> HIDE DEF first
<1>3. condition = ParseExpr(g, first) /\ ExprFrom(tokens, at, condition)
  BY <1>1, <1>2, AheadExpr DEF ParseExpr
<1> HIDE DEF condition
<1>4. then \in {0} \cup (at + 1 .. Len(tokens) + 1) /\ (then # 0 => condition.at # 0)
  <2>1. then \in {0} \cup (at + 1 .. Len(tokens) + 1) /\ (then # 0 => TypeAt(tokens, condition.at) = "THEN")
    BY <1>3, NextPosition
  <2> QED
    BY <2>1 DEF TypeAt
<1> HIDE DEF then
<1>5. result = ParseExpr(g, then) /\ ExprFrom(tokens, at, result) /\ (then = 0 => result.at = 0)
  BY <1>1, <1>4, AheadExpr DEF ParseExpr
<1> HIDE DEF result
<1>6. more = Reading(g, "Whens", result.at)
      /\ (more.at = 0 \/ (more.at \in at + 1 .. Len(tokens) + 1 /\ Shaped("Whens", more.tree)))
  <2>1. result.at \in {0} \cup (at + 1 .. Len(tokens) + 1)
    BY <1>5, NextPosition
  <2> QED
    BY <1>1, <2>1, ListAhead
<1> HIDE DEF more
<1>7. /\ ParseWhens(f, tokens, at) = ParseWhens(g, tokens, at)
      /\ ParseWhens(f, tokens, at) = IF result.at = 0 THEN ParseError
                                     ELSE IF TypeAt(tokens, result.at) # "WHEN" THEN Read(when, result.at)
                                     ELSE IF more.at = 0 THEN ParseError
                                     ELSE Read(when \o more.tree, more.at)
  <2>1. ParseWhens(f, tokens, at) = IF result.at = 0 THEN ParseError
                                     ELSE IF TypeAt(tokens, result.at) # "WHEN" THEN Read(when, result.at)
                                     ELSE IF more.at = 0 THEN ParseError
                                     ELSE Read(when \o more.tree, more.at)
    BY DEF ParseWhens, first, condition, then, result, more
  <2>2. ParseWhens(g, tokens, at) = IF result.at = 0 THEN ParseError
                                     ELSE IF TypeAt(tokens, result.at) # "WHEN" THEN Read(when, result.at)
                                     ELSE IF more.at = 0 THEN ParseError
                                     ELSE Read(when \o more.tree, more.at)
    BY <1>3, <1>5, <1>6 DEF ParseWhens, first, then
  <2> QED
    BY <2>1, <2>2
<1>8. CASE result.at = 0
  BY <1>7, <1>8, ErrorReaches
<1>9. CASE result.at # 0
  <2>1. IsExpr(condition.tree, ParsedKinds) /\ IsExpr(result.tree, ParsedKinds) /\ result.at \in at + 1 .. Len(tokens) + 1
    BY <1>3, <1>4, <1>5, <1>9 DEF ExprFrom
  <2>2. /\ IsSeq(when) /\ Len(when) = 2 /\ Elements(when) = {condition.tree, result.tree}
        /\ \A n \in DOMAIN when : IsExpr(when[n], ParsedKinds)
    BY <2>1, PairSeq
  <2> HIDE DEF when
  <2>3. CASE TypeAt(tokens, result.at) # "WHEN"
    <3>1. Shaped("Whens", when)
      BY <2>2, PairedFacts, ShapedFacts
    <3>2. Reaches(tokens, "Whens", at, Read(when, result.at))
      BY <1>1, <2>1, <3>1, ReadReaches
    <3> QED
      BY <1>7, <1>9, <2>3, <3>2
  <2>4. CASE TypeAt(tokens, result.at) = "WHEN" /\ more.at = 0
    BY <1>7, <1>9, <2>4, ErrorReaches
  <2>5. CASE TypeAt(tokens, result.at) = "WHEN" /\ more.at # 0
    <3> DEFINE rest == more.tree
               both == when \o rest
    <3>1. IsSeq(rest) /\ Paired(rest) /\ \A n \in DOMAIN rest : IsExpr(rest[n], ParsedKinds)
      BY <1>6, <2>5, ShapedFacts
    <3> HIDE DEF rest
    <3>2. IsSeq(both) /\ Elements(both) = Elements(when) \cup Elements(rest)
      BY <2>2, <3>1, ConcatFacts
    <3>3. Paired(both)
      BY <2>2, <3>1, PairedFacts
    <3> HIDE DEF both
    <3>4. \A n \in DOMAIN both : IsExpr(both[n], ParsedKinds)
      BY <2>2, <3>1, <3>2 DEF Elements
    <3>5. Shaped("Whens", when \o more.tree)
      BY <3>2, <3>3, <3>4, ShapedFacts DEF both, rest
    <3>6. Reaches(tokens, "Whens", at, Read(when \o more.tree, more.at))
      BY <1>1, <1>6, <2>5, <3>5, ReadReaches
    <3> QED
      BY <1>7, <1>9, <2>5, <3>6
  <2> QED
    BY <2>3, <2>4, <2>5
<1> QED
  BY <1>7, <1>8, <1>9

LEMMA CaseReads ==
    ASSUME NEW tokens, IsTokens(tokens), NEW at \in 1 .. Len(tokens), NEW f, NEW g, Ahead(f, g, tokens, at)
    PROVE  /\ ParseCase(f, tokens, at) = ParseCase(g, tokens, at)
           /\ ExprFrom(tokens, at, ParseCase(f, tokens, at))
<1> DEFINE whens     == Reading(f, "Whens", at + 1)
           otherwise == ParseExpr(f, whens.at + 1)
           plain     == Closed(tokens, Read(CaseExpr(whens.tree), whens.at), "END")
           whole     == Closed(tokens, Read(CaseExpr(Append(whens.tree, otherwise.tree)), otherwise.at), "END")
<1>1. Len(tokens) \in Nat /\ at \in 1 .. Len(tokens) + 1 /\ at + 1 \in {0} \cup (at + 1 .. Len(tokens) + 1)
      /\ "OrExpr" \in Levels /\ "Whens" \in Lists
  BY TokenFacts DEF Levels, Lists
<1>2. whens = Reading(g, "Whens", at + 1)
      /\ (whens.at = 0 \/ (whens.at \in at + 1 .. Len(tokens) + 1 /\ Shaped("Whens", whens.tree)))
  BY <1>1, ListAhead
<1> HIDE DEF whens
<1>3. TypeAt(tokens, whens.at) = "ELSE" => otherwise = ParseExpr(g, whens.at + 1) /\ ExprFrom(tokens, at, otherwise)
  <2> HAVE TypeAt(tokens, whens.at) = "ELSE"
  <2>1. whens.at \in Nat
    BY <1>2
  <2>2. whens.at \in 1 .. Len(tokens)
    BY <1>1, <2>1, TypeFacts
  <2>3. whens.at + 1 \in {0} \cup (at + 1 .. Len(tokens) + 1)
    BY <1>1, <1>2, <2>2
  <2> QED
    BY <1>1, <2>3, AheadExpr DEF ParseExpr
<1> HIDE DEF otherwise, plain, whole
<1>4. /\ ParseCase(f, tokens, at) = IF whens.at = 0 THEN ParseError
                                    ELSE IF TypeAt(tokens, whens.at) # "ELSE" THEN plain
                                    ELSE IF otherwise.at = 0 THEN ParseError ELSE whole
      /\ ParseCase(g, tokens, at) = ParseCase(f, tokens, at)
  <2>1. ParseCase(f, tokens, at) = IF whens.at = 0 THEN ParseError
                                    ELSE IF TypeAt(tokens, whens.at) # "ELSE" THEN plain
                                    ELSE IF otherwise.at = 0 THEN ParseError ELSE whole
    BY DEF ParseCase, whens, otherwise, plain, whole
  <2> DEFINE other == ParseExpr(g, whens.at + 1)
  <2>2. ParseCase(g, tokens, at) =
          IF whens.at = 0 THEN ParseError
          ELSE IF TypeAt(tokens, whens.at) # "ELSE" THEN plain
          ELSE IF other.at = 0 THEN ParseError
          ELSE Closed(tokens, Read(CaseExpr(Append(whens.tree, other.tree)), other.at), "END")
    BY <1>2 DEF ParseCase, plain
  <2>3. TypeAt(tokens, whens.at) = "ELSE" => other = otherwise
    BY <1>3
  <2> HIDE DEF other
  <2> QED
    BY <2>1, <2>2, <2>3 DEF whole
<1>5. CASE whens.at = 0
  BY <1>4, <1>5, ErrorExpr
<1>6. CASE whens.at # 0
  <2> DEFINE args == whens.tree
  <2>1. IsSeq(args) /\ Len(args) >= 2 /\ \A n \in DOMAIN args : IsExpr(args[n], ParsedKinds)
    BY <1>2, <1>6, ShapedFacts DEF Paired
  <2>2. whens.at \in at + 1 .. Len(tokens) + 1
    BY <1>2, <1>6
  <2>3. CASE TypeAt(tokens, whens.at) # "ELSE"
    <3>1. ExprFrom(tokens, at, plain)
      BY <1>1, <2>1, <2>2, CaseIs, ReadExpr, ClosedExpr DEF plain
    <3> QED
      BY <1>4, <1>6, <2>3, <3>1
  <2>4. CASE TypeAt(tokens, whens.at) = "ELSE" /\ otherwise.at = 0
    BY <1>4, <1>6, <2>4, ErrorExpr
  <2>5. CASE TypeAt(tokens, whens.at) = "ELSE" /\ otherwise.at # 0
    <3> DEFINE last == otherwise.tree
               all  == Append(args, last)
    <3>1. IsExpr(last, ParsedKinds) /\ otherwise.at \in at + 1 .. Len(tokens) + 1
      BY <1>3, <2>5 DEF ExprFrom
    <3> HIDE DEF args, last
    <3>2. all = args \o <<last>>
      BY <2>1, SeqIn DEF IsSeq
    <3> HIDE DEF all
    <3>3. IsSeq(all) /\ Len(all) = Len(args) + 1 /\ Elements(all) = Elements(args) \cup {last}
      BY <2>1, <3>2, SingleSeq, ConcatFacts
    <3>4. Len(all) >= 2
      BY <2>1, <3>3, SeqFacts
    <3>5. \A n \in DOMAIN all : IsExpr(all[n], ParsedKinds)
      BY <2>1, <3>1, <3>3 DEF Elements
    <3>6. IsExpr(CaseExpr(all), ParsedKinds)
      BY <3>3, <3>4, <3>5, CaseIs
    <3>7. ExprFrom(tokens, at, whole)
      BY <1>1, <3>1, <3>6, ReadExpr, ClosedExpr DEF whole, all, args, last
    <3> QED
      BY <1>4, <1>6, <2>5, <3>7
  <2> QED
    BY <2>3, <2>4, <2>5
<1> QED
  BY <1>4, <1>5, <1>6

LEMMA PrimaryReads ==
    ASSUME NEW tokens, IsTokens(tokens), NEW at \in 1 .. Len(tokens) + 1, NEW f, NEW g, Ahead(f, g, tokens, at)
    PROVE  /\ ParsePrimary(f, tokens, at) = ParsePrimary(g, tokens, at)
           /\ ExprFrom(tokens, at, ParsePrimary(f, tokens, at))
<1> DEFINE type == TypeAt(tokens, at)
           literals == {"INT_LITERAL", "FLOAT_LITERAL", "STRING_LITERAL"}
<1>1. Len(tokens) \in Nat /\ at \in Nat
  BY TokenFacts
<1>2. type \in literals \cup Functions \cup {"LPAREN", "CASE", "SUBSTRING", "DATE", "INTERVAL", "IDENTIFIER"}
         => at \in 1 .. Len(tokens) /\ type = tokens[at].type
  BY <1>1, TypeFacts DEF Functions
<1>3. Functions \cap (literals \cup {"LPAREN", "CASE", "SUBSTRING", "DATE", "INTERVAL", "IDENTIFIER"}) = {}
  BY DEF Functions
<1>14. type \in literals \cup {"LPAREN", "CASE", "SUBSTRING", "DATE", "INTERVAL", "IDENTIFIER"} => type \notin Functions
  BY <1>3
<1> HIDE DEF type
<1>4. CASE type = "LPAREN"
  <2>1. /\ ParsePrimary(f, tokens, at) = Closed(tokens, ParseExpr(f, at + 1), "RPAREN")
        /\ ParsePrimary(g, tokens, at) = Closed(tokens, ParseExpr(g, at + 1), "RPAREN")
    BY <1>4, <1>14 DEF ParsePrimary, type
  <2>2. at + 1 \in {0} \cup (at + 1 .. Len(tokens) + 1) /\ "OrExpr" \in Levels
    BY <1>1, <1>2, <1>4 DEF Levels
  <2>3. ParseExpr(f, at + 1) = ParseExpr(g, at + 1) /\ ExprFrom(tokens, at, ParseExpr(f, at + 1))
    BY <1>1, <2>2, AheadExpr DEF ParseExpr
  <2>4. ExprFrom(tokens, at, Closed(tokens, ParseExpr(f, at + 1), "RPAREN"))
    BY <1>1, <2>3, ClosedExpr
  <2> QED
    BY <2>1, <2>3, <2>4
<1>5. CASE type \in literals
  <2>1. ParsePrimary(f, tokens, at) = ParseLiteral(tokens, at) /\ ParsePrimary(g, tokens, at) = ParseLiteral(tokens, at)
    BY <1>5, <1>14 DEF ParsePrimary, type
  <2> QED
    BY <1>2, <1>5, <2>1, LiteralReads
<1>6. CASE type = "CASE"
  <2>1. ParsePrimary(f, tokens, at) = ParseCase(f, tokens, at) /\ ParsePrimary(g, tokens, at) = ParseCase(g, tokens, at)
    BY <1>6, <1>14 DEF ParsePrimary, type
  <2> QED
    BY <1>2, <1>6, <2>1, CaseReads
<1>7. CASE type = "SUBSTRING"
  <2>1. /\ ParsePrimary(f, tokens, at) = ParseSubstring(f, tokens, at)
        /\ ParsePrimary(g, tokens, at) = ParseSubstring(g, tokens, at)
    BY <1>7, <1>14 DEF ParsePrimary, type
  <2> QED
    BY <1>2, <1>7, <2>1, SubstringReads
<1>8. CASE type = "DATE"
  <2>1. ParsePrimary(f, tokens, at) = ParseDate(tokens, at) /\ ParsePrimary(g, tokens, at) = ParseDate(tokens, at)
    BY <1>8, <1>14 DEF ParsePrimary, type
  <2> QED
    BY <1>2, <1>8, <2>1, DateReads
<1>9. CASE type = "INTERVAL"
  <2>1. ParsePrimary(f, tokens, at) = ParseInterval(tokens, at) /\ ParsePrimary(g, tokens, at) = ParseInterval(tokens, at)
    BY <1>9, <1>14 DEF ParsePrimary, type
  <2> QED
    BY <1>2, <1>9, <2>1, IntervalReads
<1>10. CASE type \in Functions
  <2>1. /\ ParsePrimary(f, tokens, at) = ParseAggregate(f, tokens, at)
        /\ ParsePrimary(g, tokens, at) = ParseAggregate(g, tokens, at)
    BY <1>3, <1>10 DEF ParsePrimary, type
  <2> QED
    BY <1>2, <1>10, <2>1, AggregateReads
<1>11. CASE type = "IDENTIFIER"
  <2>1. type \notin Functions
    BY <1>3, <1>11
  <2>2. ParsePrimary(f, tokens, at) = ParseColumn(tokens, at) /\ ParsePrimary(g, tokens, at) = ParseColumn(tokens, at)
    BY <1>11, <2>1 DEF ParsePrimary, type
  <2> QED
    BY <1>2, <1>11, <2>2, ColumnReads
<1>12. CASE type \notin literals \cup Functions \cup {"LPAREN", "CASE", "SUBSTRING", "DATE", "INTERVAL", "IDENTIFIER"}
  <2>1. ParsePrimary(f, tokens, at) = ParseError /\ ParsePrimary(g, tokens, at) = ParseError
    BY <1>12 DEF ParsePrimary, type
  <2> QED
    BY <2>1, ErrorExpr
<1> QED
  BY <1>4, <1>5, <1>6, <1>7, <1>8, <1>9, <1>10, <1>11, <1>12

LEMMA UnaryReads ==
    ASSUME NEW tokens, IsTokens(tokens), NEW at \in 1 .. Len(tokens) + 1, NEW f, NEW g, Ahead(f, g, tokens, at)
    PROVE  /\ ParseUnary(f, tokens, at) = ParseUnary(g, tokens, at)
           /\ ExprFrom(tokens, at, ParseUnary(f, tokens, at))
<1> DEFINE operand == Reading(f, "Unary", at + 1)
<1>1. Len(tokens) \in Nat /\ at \in Nat /\ "Unary" \in Levels
  BY TokenFacts DEF Levels
<1>2. CASE TypeAt(tokens, at) # "MINUS"
  BY <1>2, PrimaryReads DEF ParseUnary
<1>3. CASE TypeAt(tokens, at) = "MINUS"
  <2>1. at + 1 \in {0} \cup (at + 1 .. Len(tokens) + 1)
    BY <1>1, <1>3, TypeFacts
  <2>2. operand = Reading(g, "Unary", at + 1) /\ ExprFrom(tokens, at, operand)
    BY <1>1, <2>1, AheadExpr
  <2> HIDE DEF operand
  <2>3. /\ ParseUnary(f, tokens, at) = IF operand.at = 0 THEN ParseError ELSE Read(UnaryExpr(operand.tree), operand.at)
        /\ ParseUnary(g, tokens, at) = ParseUnary(f, tokens, at)
    BY <1>3, <2>2 DEF ParseUnary, operand
  <2>4. operand.at # 0 => ExprFrom(tokens, at, Read(UnaryExpr(operand.tree), operand.at))
    BY <2>2, UnaryIs, ReadExpr DEF ExprFrom
  <2> QED
    BY <2>3, <2>4, ErrorExpr
<1> QED
  BY <1>2, <1>3

-----------------------------------------------------------------------------
(* Comparisons and lists.                                                  *)

LEMMA ConstantIs ==
    ASSUME NEW e, IsExpr(e, ParsedKinds), IsConstant(e)
    PROVE  IsValue(ConstantValue(e))
<1>1. CASE e.kind = "Literal"
  <2>1. IsPayload(e.kind, e.payload)
    BY ExprElim DEF WellFormed
  <2> QED
    BY <1>1, <2>1 DEF IsPayload, ConstantValue
<1>2. CASE e.kind # "Literal"
  <2> DEFINE v == e.args[1].payload
             negated == [v EXCEPT !.num = - @]
  <2>1. e.kind = "UnaryExpr" /\ e.args[1].kind = "Literal" /\ v.type # "STRING"
    BY <1>2 DEF IsConstant
  <2>2. IsExpr(e.args[1], ParsedKinds)
    BY <2>1, ExprElim, ArgsCount
  <2>3. IsPayload(e.args[1].kind, v)
    BY <2>2, ExprElim DEF WellFormed
  <2>4. IsValue(v)
    BY <2>1, <2>3 DEF IsPayload
  <2>5. ConstantValue(e) = negated
    BY <1>2 DEF ConstantValue
  <2> HIDE DEF v
  <2>6. \/ v.num \in Int /\ v = IntValue(v.num)
        \/ v = DoubleValue(v.num, v.den)
    BY <2>1, <2>4 DEF IsValue, IsText
  <2>7. \/ v.num \in Int /\ negated = IntValue(- v.num)
        \/ negated = DoubleValue(- v.num, v.den)
    BY <2>6 DEF IntValue, DoubleValue
  <2> HIDE DEF negated
  <2>8. IsValue(negated)
    BY <2>7 DEF IsValue, IntValue, DoubleValue
  <2> QED
    BY <2>5, <2>8
<1> QED
  BY <1>1, <1>2

(* An element and those after it.                                          *)
LEMMA Prepended ==
    ASSUME NEW list \in {"Constants", "SELECT", "GROUP", "ORDER"}, NEW x, Shaped(list, <<x>>)
    PROVE  \A s : Shaped(list, s) => Shaped(list, <<x>> \o s)
<1> TAKE s
<1> HAVE Shaped(list, s)
<1> DEFINE Of(y) == IF list = "GROUP" THEN IsExpr(y, ParsedKinds)
                    ELSE IF list = "Constants" THEN IsValue(y)
                    ELSE IF list = "SELECT" THEN IsItem(y, ParsedKinds) ELSE IsKey(y, ParsedKinds)
<1>1. \A q : Shaped(list, q) <=> IsSeq(q) /\ \A n \in DOMAIN q : Of(q[n])
  BY ShapedFacts
<1> HIDE DEF Of
<1>2. IsSeq(<<x>>) /\ IsSeq(s) /\ (\A n \in DOMAIN <<x>> : Of(<<x>>[n])) /\ \A n \in DOMAIN s : Of(s[n])
  BY <1>1
<1> DEFINE q == <<x>> \o s
<1>3. IsSeq(q) /\ Elements(q) = Elements(<<x>>) \cup Elements(s)
  BY <1>2, ConcatFacts
<1> HIDE DEF q
<1>4. \A n \in DOMAIN q : Of(q[n])
  BY <1>2, <1>3 DEF Elements
<1> QED
  BY <1>1, <1>3, <1>4 DEF q

LEMMA SingleShaped ==
    ASSUME NEW x
    PROVE  /\ IsValue(x) => Shaped("Constants", <<x>>)
           /\ IsExpr(x, ParsedKinds) => Shaped("GROUP", <<x>>)
           /\ IsItem(x, ParsedKinds) => Shaped("SELECT", <<x>>)
           /\ IsKey(x, ParsedKinds) => Shaped("ORDER", <<x>>)
<1>1. IsSeq(<<x>>) /\ \A n \in DOMAIN <<x>> : <<x>>[n] = x
  BY SingleSeq
<1> QED
  BY <1>1, ShapedFacts

LEMMA ConstantsReads ==
    ASSUME NEW tokens, Len(tokens) \in Nat, NEW at \in 1 .. Len(tokens) + 1, NEW f, NEW g,
           Called(f, g, tokens, "Constants", at)
    PROVE  /\ ParseConstants(f, tokens, at) = ParseConstants(g, tokens, at)
           /\ Reaches(tokens, "Constants", at, ParseConstants(f, tokens, at))
<1> DEFINE element == Reading(f, "Unary", at)
           more    == Reading(f, "Constants", element.at + 1)
           value   == ConstantValue(element.tree)
<1>1. /\ "Unary" \in Levels /\ "Unary" \in Rules /\ "Constants" \in Lists /\ "Constants" \notin RestRules
      /\ CallRank("Unary") < CallRank("Constants")
  BY RulesAre DEF Levels, Lists, RestRules, CallRank
<1>2. element = Reading(g, "Unary", at) /\ ExprFrom(tokens, at, element)
  BY <1>1, LevelReaches DEF Called, Agreed
<1> HIDE DEF element
<1>3. TypeAt(tokens, element.at) = "COMMA" =>
          /\ more = Reading(g, "Constants", element.at + 1)
          /\ more.at = 0 \/ (more.at \in at + 1 .. Len(tokens) + 1 /\ Shaped("Constants", more.tree))
  <2> HAVE TypeAt(tokens, element.at) = "COMMA"
  <2>1. element.at + 1 \in {0} \cup (at + 1 .. Len(tokens) + 1)
    BY <1>2, NextPosition
  <2> QED
    BY <1>1, <2>1, ListAhead DEF Called
<1> HIDE DEF more, value
<1>4. /\ ParseConstants(f, tokens, at) = IF element.at = 0 THEN ParseError
                                         ELSE IF ~ IsConstant(element.tree) THEN ParseError
                                         ELSE IF TypeAt(tokens, element.at) # "COMMA" THEN Read(<<value>>, element.at)
                                         ELSE IF more.at = 0 THEN ParseError
                                         ELSE Read(<<value>> \o more.tree, more.at)
      /\ ParseConstants(g, tokens, at) = ParseConstants(f, tokens, at)
  <2>1. ParseConstants(f, tokens, at) = IF element.at = 0 THEN ParseError
                                         ELSE IF ~ IsConstant(element.tree) THEN ParseError
                                         ELSE IF TypeAt(tokens, element.at) # "COMMA" THEN Read(<<value>>, element.at)
                                         ELSE IF more.at = 0 THEN ParseError
                                         ELSE Read(<<value>> \o more.tree, more.at)
    BY DEF ParseConstants, element, more, value
  <2> DEFINE other == Reading(g, "Constants", element.at + 1)
  <2>2. ParseConstants(g, tokens, at) = IF element.at = 0 THEN ParseError
                                         ELSE IF ~ IsConstant(element.tree) THEN ParseError
                                         ELSE IF TypeAt(tokens, element.at) # "COMMA" THEN Read(<<value>>, element.at)
                                         ELSE IF other.at = 0 THEN ParseError
                                         ELSE Read(<<value>> \o other.tree, other.at)
    BY <1>2 DEF ParseConstants, value
  <2>3. TypeAt(tokens, element.at) = "COMMA" => other = more
    BY <1>3
  <2> HIDE DEF other
  <2> QED
    BY <2>1, <2>2, <2>3
<1>5. CASE element.at = 0 \/ ~ IsConstant(element.tree)
  BY <1>4, <1>5, ErrorReaches
<1>6. CASE element.at # 0 /\ IsConstant(element.tree)
  <2>1. element.at \in at + 1 .. Len(tokens) + 1 /\ Shaped("Constants", <<value>>)
    BY <1>2, <1>6, ConstantIs, SingleShaped DEF ExprFrom, value
  <2>2. CASE TypeAt(tokens, element.at) # "COMMA"
    <3>1. Reaches(tokens, "Constants", at, Read(<<value>>, element.at))
      BY <1>1, <2>1, ReadReaches
    <3> QED
      BY <1>4, <1>6, <2>2, <3>1
  <2>3. CASE TypeAt(tokens, element.at) = "COMMA" /\ more.at = 0
    BY <1>4, <1>6, <2>3, ErrorReaches
  <2>4. CASE TypeAt(tokens, element.at) = "COMMA" /\ more.at # 0
    <3>1. Shaped("Constants", <<value>> \o more.tree)
      BY <1>3, <2>1, <2>4, Prepended
    <3>2. Reaches(tokens, "Constants", at, Read(<<value>> \o more.tree, more.at))
      BY <1>1, <1>3, <2>4, <3>1, ReadReaches
    <3> QED
      BY <1>4, <1>6, <2>4, <3>2
  <2> QED
    BY <2>2, <2>3, <2>4
<1> QED
  BY <1>4, <1>5, <1>6

LEMMA BetweenReads ==
    ASSUME NEW tokens, Len(tokens) \in Nat, NEW at \in 1 .. Len(tokens) + 1, NEW f, NEW g, Ahead(f, g, tokens, at),
           NEW next \in at + 1 .. Len(tokens), NEW operand, IsExpr(operand, ParsedKinds), NEW negated
    PROVE  /\ ParseBetween(f, tokens, next, operand, negated) = ParseBetween(g, tokens, next, operand, negated)
           /\ ExprFrom(tokens, at, ParseBetween(f, tokens, next, operand, negated))
<1> DEFINE lower == Reading(f, "Additive", next + 1)
           after == Expect(tokens, lower.at, "AND")
           upper == Reading(f, "Additive", after)
           written == IF negated
                      THEN BinaryExpr("OR", BinaryExpr("<", operand, lower.tree), BinaryExpr(">", operand, upper.tree))
                      ELSE BinaryExpr("AND", BinaryExpr(">=", operand, lower.tree), BinaryExpr("<=", operand, upper.tree))
<1>1. "Additive" \in Levels /\ next + 1 \in {0} \cup (at + 1 .. Len(tokens) + 1)
  BY DEF Levels
<1>2. lower = Reading(g, "Additive", next + 1) /\ ExprFrom(tokens, at, lower)
  BY <1>1, AheadExpr
<1> HIDE DEF lower
<1>3. after \in {0} \cup (at + 1 .. Len(tokens) + 1) /\ (after # 0 => lower.at # 0)
  <2>1. after \in {0} \cup (at + 1 .. Len(tokens) + 1) /\ (after # 0 => TypeAt(tokens, lower.at) = "AND")
    BY <1>2, NextPosition
  <2> QED
    BY <2>1 DEF TypeAt
<1> HIDE DEF after
<1>4. upper = Reading(g, "Additive", after) /\ ExprFrom(tokens, at, upper) /\ (after = 0 => upper.at = 0)
  BY <1>1, <1>3, AheadExpr
<1> HIDE DEF upper
<1>5. /\ ParseBetween(f, tokens, next, operand, negated) = IF upper.at = 0 THEN ParseError ELSE Read(written, upper.at)
      /\ ParseBetween(g, tokens, next, operand, negated) = IF upper.at = 0 THEN ParseError ELSE Read(written, upper.at)
  BY <1>2, <1>4, Zenon DEF ParseBetween, lower, after, upper
<1>6. CASE upper.at = 0
  BY <1>5, <1>6, ErrorExpr
<1>7. CASE upper.at # 0
  <2>1. IsExpr(lower.tree, ParsedKinds) /\ IsExpr(upper.tree, ParsedKinds) /\ upper.at \in at + 1 .. Len(tokens) + 1
    BY <1>2, <1>3, <1>4, <1>7 DEF ExprFrom
  <2>2. {"AND", "OR", "<", ">", ">=", "<="} \subseteq Ops["BinaryExpr"]
    BY OpsOf DEF CompareOps
  <2>3. IsExpr(written, ParsedKinds)
    BY <2>1, <2>2, BinaryIs
  <2> HIDE DEF written
  <2> QED
    BY <1>5, <1>7, <2>1, <2>3, ReadExpr
<1> QED
  BY <1>6, <1>7

LEMMA InReads ==
    ASSUME NEW tokens, Len(tokens) \in Nat, NEW at \in 1 .. Len(tokens) + 1, NEW f, NEW g, Ahead(f, g, tokens, at),
           NEW next \in at + 1 .. Len(tokens), NEW operand, IsExpr(operand, ParsedKinds), NEW op \in Ops["InExpr"]
    PROVE  /\ ParseIn(f, tokens, next, operand, op) = ParseIn(g, tokens, next, operand, op)
           /\ ExprFrom(tokens, at, ParseIn(f, tokens, next, operand, op))
<1> DEFINE open   == Expect(tokens, next + 1, "LPAREN")
           values == Reading(f, "Constants", open)
           r      == Read(InExpr(operand, values.tree, op), values.at)
<1>1. "Constants" \in Lists /\ next + 1 \in Nat
  BY DEF Lists
<1>2. open \in {0} \cup (at + 1 .. Len(tokens) + 1)
  BY <1>1, ExpectFacts
<1> HIDE DEF open
<1>3. values = Reading(g, "Constants", open)
      /\ (values.at = 0 \/ (values.at \in at + 1 .. Len(tokens) + 1 /\ Shaped("Constants", values.tree)))
  BY <1>1, <1>2, ListAhead
<1> HIDE DEF values, r
<1>4. /\ ParseIn(f, tokens, next, operand, op) = IF values.at = 0 THEN ParseError ELSE Closed(tokens, r, "RPAREN")
      /\ ParseIn(g, tokens, next, operand, op) = ParseIn(f, tokens, next, operand, op)
  BY <1>3 DEF ParseIn, open, values, r
<1>5. CASE values.at = 0
  BY <1>4, <1>5, ErrorExpr
<1>6. CASE values.at # 0
  <2>1. IsExpr(InExpr(operand, values.tree, op), ParsedKinds) /\ values.at \in at + 1 .. Len(tokens) + 1
    BY <1>3, <1>6, ShapedFacts, InIs
  <2>2. ExprFrom(tokens, at, Closed(tokens, r, "RPAREN"))
    BY <2>1, ReadExpr, ClosedExpr DEF r
  <2> QED
    BY <1>4, <1>6, <2>2
<1> QED
  BY <1>5, <1>6

(* What follows the operand, case by case.                                 *)
LEMMA CompareReads ==
    ASSUME NEW tokens, IsTokens(tokens), NEW at \in 1 .. Len(tokens) + 1, NEW f, NEW g,
           Called(f, g, tokens, "Compare", at)
    PROVE  /\ ParseCompare(f, tokens, at) = ParseCompare(g, tokens, at)
           /\ ExprFrom(tokens, at, ParseCompare(f, tokens, at))
<1> DEFINE left    == Reading(f, "Additive", at)
           negated == TypeAt(tokens, left.at) = "NOT"
           next    == IF negated THEN left.at + 1 ELSE left.at
           type    == TypeAt(tokens, next)
           isNot   == TypeAt(tokens, left.at + 1) = "NOT"
           after   == IF isNot THEN left.at + 2 ELSE left.at + 1
           null    == Expect(tokens, after, "NULL_KW")
           right   == Reading(f, "Additive", next + 1)
           like    == IF negated THEN "NOT LIKE" ELSE "LIKE"
           in      == IF negated THEN "NOT IN" ELSE "IN"
           isnull  == IF isNot THEN "IS NOT NULL" ELSE "IS NULL"
<1>1. Len(tokens) \in Nat /\ "Additive" \in Levels /\ "Additive" \in Rules /\ CallRank("Additive") < CallRank("Compare")
  BY TokenFacts, RulesAre DEF Levels, RestRules, CallRank
<1>2. left = Reading(g, "Additive", at) /\ ExprFrom(tokens, at, left) /\ Ahead(f, g, tokens, at)
  BY <1>1, LevelReaches DEF Called, Agreed
<1> HIDE DEF left
<1>3. CASE left.at = 0
  BY <1>2, <1>3, ErrorExpr DEF ParseCompare, left
<1>4. ASSUME left.at # 0
      PROVE  /\ ParseCompare(f, tokens, at) = ParseCompare(g, tokens, at)
             /\ ExprFrom(tokens, at, ParseCompare(f, tokens, at))
  <2>1. left.at \in at + 1 .. Len(tokens) + 1 /\ IsExpr(left.tree, ParsedKinds) /\ left.at \in Nat
    BY <1>1, <1>2, <1>4 DEF ExprFrom
  <2>2. next \in at + 1 .. Len(tokens) + 1
    BY <1>1, <2>1, TypeFacts
  <2>3. type \notin {"PARSE_ERROR", "END_OF_FILE"} => next \in at + 1 .. Len(tokens) /\ next + 1 \in at + 1 .. Len(tokens) + 1
    BY <1>1, <2>2, TypeFacts
  <2>4. like \in Ops["LikeExpr"]
    BY LikeOps, Zenon
  <2>12. in \in Ops["InExpr"]
    BY InOps, Zenon
  <2>13. isnull \in Ops["IsNullExpr"]
    BY NullOps, Zenon
  <2> HIDE DEF next, type
  <2>5. CASE type = "BETWEEN"
    <3>1. /\ ParseCompare(f, tokens, at) = ParseBetween(f, tokens, next, left.tree, negated)
          /\ ParseCompare(g, tokens, at) = ParseBetween(g, tokens, next, left.tree, negated)
      BY <1>2, <1>4, <2>5 DEF ParseCompare, left, next, type, Comparators
    <3> QED
      BY <1>1, <1>2, <2>1, <2>3, <2>5, <3>1, BetweenReads
  <2>6. CASE type = "IN"
    <3>1. /\ ParseCompare(f, tokens, at) = ParseIn(f, tokens, next, left.tree, in)
          /\ ParseCompare(g, tokens, at) = ParseIn(g, tokens, next, left.tree, in)
      BY <1>2, <1>4, <2>6 DEF ParseCompare, left, next, type, Comparators
    <3> HIDE DEF in
    <3> QED
      BY <1>1, <1>2, <2>1, <2>3, <2>12, <2>6, <3>1, InReads
  <2>7. CASE type = "LIKE"
    <3> DEFINE r == IF TypeAt(tokens, next + 1) # "STRING_LITERAL" THEN ParseError
                    ELSE Read(LikeExpr(left.tree, tokens[next + 1].value, like), next + 2)
    <3>1. ParseCompare(f, tokens, at) = r /\ ParseCompare(g, tokens, at) = r
      BY <1>2, <1>4, <2>7 DEF ParseCompare, left, next, type, Comparators
    <3> HIDE DEF like
    <3>2. ASSUME TypeAt(tokens, next + 1) # "STRING_LITERAL" PROVE ExprFrom(tokens, at, r)
      BY <3>2, ErrorExpr
    <3>3. ASSUME TypeAt(tokens, next + 1) = "STRING_LITERAL" PROVE ExprFrom(tokens, at, r)
      <4>1. next + 1 \in 1 .. Len(tokens) /\ tokens[next + 1].type = "STRING_LITERAL" /\ next + 2 \in at + 1 .. Len(tokens) + 1
        BY <1>1, <2>2, <3>3, TypeFacts
      <4>2. IsText(tokens[next + 1].value)
        BY <4>1, TokenFacts
      <4>3. IsExpr(LikeExpr(left.tree, tokens[next + 1].value, like), ParsedKinds)
        BY <2>1, <2>4, <4>2, LikeIs
      <4> QED
        BY <3>3, <4>1, <4>3, ReadExpr
    <3> HIDE DEF r
    <3> QED
      BY <3>1, <3>2, <3>3 DEF r
  <2>8. CASE negated /\ type \notin {"BETWEEN", "LIKE", "IN"}
    <3>1. ParseCompare(f, tokens, at) = ParseError /\ ParseCompare(g, tokens, at) = ParseError
      BY <1>2, <1>4, <2>8 DEF ParseCompare, left, next, type, Comparators
    <3> QED
      BY <3>1, ErrorExpr
  <2>9. CASE ~ negated /\ type = "IS"
    <3> DEFINE r == IF null = 0 THEN ParseError ELSE Read(IsNullExpr(left.tree, isnull), null)
    <3>1. ParseCompare(f, tokens, at) = r /\ ParseCompare(g, tokens, at) = r
      BY <1>2, <1>4, <2>9 DEF ParseCompare, left, next, type, Comparators
    <3>2. null # 0 => null \in at + 1 .. Len(tokens) + 1
      <4>1. after \in Nat /\ after >= at
        BY <2>1
      <4> HIDE DEF after
      <4> QED
        BY <1>1, <4>1, ExpectFacts
    <3> HIDE DEF null, isnull
    <3>3. IsExpr(IsNullExpr(left.tree, isnull), ParsedKinds)
      BY <2>1, <2>13, NullIs
    <3>4. ExprFrom(tokens, at, r)
      BY <3>2, <3>3, ErrorExpr, ReadExpr
    <3> QED
      BY <3>1, <3>4
  <2>10. CASE ~ negated /\ type \in Comparators
    <3> DEFINE other == Reading(g, "Additive", next + 1)
               binary == BinaryExpr(Symbol[type], left.tree, right.tree)
    <3>1. type \notin {"PARSE_ERROR", "END_OF_FILE", "BETWEEN", "LIKE", "IN", "IS"} /\ Symbol[type] \in Ops["BinaryExpr"]
      BY <2>10, OpsOf DEF Comparators, Symbol, CompareOps
    <3>2. right = other /\ ExprFrom(tokens, at, right)
      BY <1>1, <1>2, <2>3, <3>1, AheadExpr
    <3>3. /\ ParseCompare(f, tokens, at) = IF right.at = 0 THEN ParseError ELSE Read(binary, right.at)
          /\ ParseCompare(g, tokens, at) = IF other.at = 0 THEN ParseError
                                           ELSE Read(BinaryExpr(Symbol[type], left.tree, other.tree), other.at)
      BY <1>2, <1>4, <2>10, <3>1 DEF ParseCompare, left, next, type
    <3> HIDE DEF right, other
    <3>4. ASSUME right.at # 0 PROVE ExprFrom(tokens, at, Read(binary, right.at))
      <4>1. IsExpr(right.tree, ParsedKinds) /\ right.at \in at + 1 .. Len(tokens) + 1
        BY <3>2, <3>4 DEF ExprFrom
      <4>2. IsExpr(binary, ParsedKinds)
        BY <2>1, <3>1, <4>1, BinaryIs
      <4> QED
        BY <4>1, <4>2, ReadExpr
    <3> QED
      BY <3>2, <3>3, <3>4, ErrorExpr
  <2>11. CASE ~ negated /\ type \notin Comparators \cup {"BETWEEN", "LIKE", "IN", "IS"}
    <3>1. ParseCompare(f, tokens, at) = left /\ ParseCompare(g, tokens, at) = left
      BY <1>2, <1>4, <2>11 DEF ParseCompare, left, next, type
    <3> QED
      BY <1>2, <3>1
  <2> QED
    BY <2>5, <2>6, <2>7, <2>8, <2>9, <2>10, <2>11
<1> QED
  BY <1>3, <1>4

(* An item of a list, and where it ends.                                   *)
LEMMA ItemReads ==
    ASSUME NEW tokens, Len(tokens) \in Nat, NEW at \in 1 .. Len(tokens) + 1, NEW list \in {"SELECT", "GROUP", "ORDER"},
           NEW e, ExprFrom(tokens, at, e)
    PROVE  \/ ItemOf(list, tokens, e).at = 0
           \/ /\ ItemOf(list, tokens, e).at \in at + 1 .. Len(tokens) + 1
              /\ Shaped(list, <<ItemOf(list, tokens, e).tree>>)
<1> DEFINE r == ItemOf(list, tokens, e)
<1>1. CASE e.at = 0
  BY <1>1 DEF ItemOf, ParseError, Read
<1>2. ASSUME e.at # 0
      PROVE  r.at = 0 \/ (r.at \in at + 1 .. Len(tokens) + 1 /\ Shaped(list, <<r.tree>>))
  <2>1. e.at \in at + 1 .. Len(tokens) + 1 /\ IsExpr(e.tree, ParsedKinds) /\ e.at \in Nat
    BY <1>2, NextPosition DEF ExprFrom
  <2>2. CASE list = "GROUP"
    <3>1. r = e
      BY <1>2, <2>2 DEF ItemOf
    <3> QED
      BY <2>1, <2>2, <3>1, SingleShaped
  <2>3. CASE list = "ORDER"
    <3> DEFINE desc == TypeAt(tokens, e.at) = "DESC"
               key  == [expr |-> e.tree, desc |-> desc]
               to   == IF desc THEN e.at + 1 ELSE Match(tokens, e.at, "ASC")
    <3>1. r = Read(key, to)
      BY <1>2, <2>3 DEF ItemOf
    <3>2. to \in at + 1 .. Len(tokens) + 1
      BY <2>1, TypeFacts DEF Match
    <3>3. IsKey(key, ParsedKinds)
      <4>1. desc \in BOOLEAN
        OBVIOUS
      <4> HIDE DEF desc
      <4> QED
        BY <2>1, <4>1 DEF IsKey
    <3> HIDE DEF key, to, r
    <3> QED
      BY <2>3, <3>1, <3>2, <3>3, SingleShaped DEF Read
  <2>4. CASE list = "SELECT"
    <3> DEFINE item(alias) == [expr |-> e.tree, alias |-> alias]
               name  == tokens[e.at + 1].value.name
               alias == Expect(tokens, e.at + 1, "IDENTIFIER")
    <3>1. \A a : Shaped("SELECT", <<item(a)>>)
      BY <2>1, SingleShaped DEF IsItem
    <3>2. alias # 0 => alias \in at + 1 .. Len(tokens) + 1
      BY <2>1, ExpectFacts
    <3>3. r = IF TypeAt(tokens, e.at) # "AS" THEN Read(item(NoName), e.at)
              ELSE IF alias = 0 THEN ParseError ELSE Read(item(name), alias)
      BY <1>2, <2>4 DEF ItemOf
    <3> HIDE DEF item, alias, name, r
    <3> QED
      BY <2>1, <2>4, <3>1, <3>2, <3>3 DEF Read, ParseError
  <2> QED
    BY <2>2, <2>3, <2>4
<1> QED
  BY <1>1, <1>2

(* The items of a list, up to the one no comma follows.                    *)
LEMMA ListReads ==
    ASSUME NEW tokens, Len(tokens) \in Nat, NEW at \in 1 .. Len(tokens) + 1, NEW list \in {"SELECT", "GROUP", "ORDER"},
           NEW f, NEW g, Called(f, g, tokens, list, at)
    PROVE  /\ ParseList(f, list, tokens, at) = ParseList(g, list, tokens, at)
           /\ Reaches(tokens, list, at, ParseList(f, list, tokens, at))
<1> DEFINE e    == Reading(f, "OrExpr", at)
           item == ItemOf(list, tokens, e)
           more == Reading(f, list, item.at + 1)
<1>1. /\ "OrExpr" \in Levels /\ "OrExpr" \in Rules /\ list \in Lists /\ list \notin RestRules
      /\ CallRank("OrExpr") < CallRank(list)
  BY RulesAre DEF Levels, Lists, RestRules, CallRank
<1>2. e = Reading(g, "OrExpr", at) /\ ExprFrom(tokens, at, e) /\ Ahead(f, g, tokens, at)
  BY <1>1, LevelReaches DEF Called, Agreed
<1> HIDE DEF e
<1>3. item.at = 0 \/ (item.at \in at + 1 .. Len(tokens) + 1 /\ Shaped(list, <<item.tree>>))
  BY <1>2, ItemReads
<1>4. ParseExpr(f, at) = e /\ ParseExpr(g, at) = e
  BY <1>2 DEF ParseExpr, e
<1>5. /\ ParseList(f, list, tokens, at) = IF item.at = 0 THEN ParseError
                                          ELSE IF TypeAt(tokens, item.at) # "COMMA" THEN Read(<<item.tree>>, item.at)
                                          ELSE IF more.at = 0 THEN ParseError
                                          ELSE Read(<<item.tree>> \o more.tree, more.at)
      /\ TypeAt(tokens, item.at) # "COMMA" \/ more = Reading(g, list, item.at + 1)
         => ParseList(g, list, tokens, at) = ParseList(f, list, tokens, at)
  BY <1>4 DEF ParseList
<1> HIDE DEF item
<1>6. TypeAt(tokens, item.at) = "COMMA" =>
          /\ more = Reading(g, list, item.at + 1)
          /\ more.at = 0 \/ (more.at \in at + 1 .. Len(tokens) + 1 /\ Shaped(list, more.tree))
  <2> HAVE TypeAt(tokens, item.at) = "COMMA"
  <2>1. item.at + 1 \in {0} \cup (at + 1 .. Len(tokens) + 1)
    BY <1>3, TypeFacts
  <2> QED
    BY <1>1, <1>2, <2>1, ListAhead
<1> HIDE DEF more
<1>7. CASE item.at = 0
  BY <1>5, <1>6, <1>7, ErrorReaches
<1>8. CASE item.at # 0 /\ TypeAt(tokens, item.at) # "COMMA"
  BY <1>1, <1>3, <1>5, <1>8, ReadReaches
<1>9. CASE item.at # 0 /\ TypeAt(tokens, item.at) = "COMMA" /\ more.at = 0
  BY <1>5, <1>6, <1>9, ErrorReaches
<1>10. CASE item.at # 0 /\ TypeAt(tokens, item.at) = "COMMA" /\ more.at # 0
  <2>1. Shaped(list, <<item.tree>> \o more.tree)
    BY <1>3, <1>6, <1>10, Prepended
  <2>2. Reaches(tokens, list, at, Read(<<item.tree>> \o more.tree, more.at))
    BY <1>1, <1>6, <1>10, <2>1, ReadReaches
  <2> QED
    BY <1>5, <1>6, <1>10, <2>2
<1> QED
  BY <1>7, <1>8, <1>9, <1>10

-----------------------------------------------------------------------------
(* A rule reads on from a position, given what the rules read that it      *)
(* calls there and the rules further on.                                   *)
LEMMA RuleReads ==
    ASSUME NEW tokens, IsTokens(tokens), NEW at \in 1 .. Len(tokens) + 1, NEW rule \in Rules,
           NEW f, NEW g, Called(f, g, tokens, rule, at)
    PROVE  /\ ParseRule(f, tokens, rule, at) = ParseRule(g, tokens, rule, at)
           /\ Reaches(tokens, rule, at, ParseRule(f, tokens, rule, at))
<1> DEFINE chains == {"OrExpr", "AndExpr", "Additive", "Multiplicative"}
           read(h) == ParseRule(h, tokens, rule, at)
<1>1. Len(tokens) \in Nat /\ Ahead(f, g, tokens, at) /\ DOMAIN Operators = chains
  BY TokenFacts, RulesAre DEF Called
<1>2. CASE rule \in chains
  <2>1. read(f) = ParseChain(f, rule, at) /\ read(g) = ParseChain(g, rule, at)
    BY <1>1, <1>2 DEF ParseRule
  <2> QED
    BY <1>1, <1>2, <2>1, ChainReads
<1>3. CASE rule = "Compare"
  <2>1. read(f) = ParseCompare(f, tokens, at) /\ read(g) = ParseCompare(g, tokens, at)
    BY <1>1, <1>3 DEF ParseRule
  <2> QED
    BY <1>1, <1>3, <2>1, CompareReads, LevelReaches DEF Levels
<1>4. CASE rule = "Unary"
  <2>1. read(f) = ParseUnary(f, tokens, at) /\ read(g) = ParseUnary(g, tokens, at)
    BY <1>1, <1>4 DEF ParseRule
  <2> QED
    BY <1>1, <1>4, <2>1, UnaryReads, LevelReaches DEF Levels
<1>5. CASE rule = "Whens"
  <2>1. read(f) = ParseWhens(f, tokens, at) /\ read(g) = ParseWhens(g, tokens, at)
    BY <1>1, <1>5 DEF ParseRule
  <2> QED
    BY <1>1, <1>5, <2>1, WhensReads
<1>6. CASE rule = "Constants"
  <2>1. read(f) = ParseConstants(f, tokens, at) /\ read(g) = ParseConstants(g, tokens, at)
    BY <1>1, <1>6 DEF ParseRule
  <2> QED
    BY <1>1, <1>6, <2>1, ConstantsReads
<1>7. CASE rule \in {"SELECT", "GROUP", "ORDER"}
  <2>1. read(f) = ParseList(f, rule, tokens, at) /\ read(g) = ParseList(g, rule, tokens, at)
    BY <1>1, <1>7 DEF ParseRule
  <2> QED
    BY <1>1, <1>7, <2>1, ListReads
<1>8. CASE rule \in RestRules
  <2> DEFINE level == CHOOSE l \in DOMAIN Rests : Rests[l] = rule
  <2>1. level \in DOMAIN Operators /\ Rests[level] = rule
    <3>1. \E l \in DOMAIN Rests : Rests[l] = rule
      BY <1>8 DEF Rests, RestRules
    <3> QED
      BY <3>1, RulesAre
  <2>2. rule \notin chains \cup {"Compare", "Unary", "Whens", "Constants", "SELECT", "GROUP", "ORDER"}
    BY <1>8 DEF RestRules
  <2>3. read(f) = ParseRest(f, tokens, level, at) /\ read(g) = ParseRest(g, tokens, level, at)
    BY <1>1, <2>2 DEF ParseRule
  <2> HIDE DEF level
  <2> QED
    BY <1>1, <2>1, <2>3, RestReads
<1> QED
  BY <1>2, <1>3, <1>4, <1>5, <1>6, <1>7, <1>8, RulesAre DEF RestRules

-----------------------------------------------------------------------------
(* The recursion of the parser is well-founded: a rule calls rules further *)
(* on in the text, or lower ones.                                          *)

Cells(tokens) == Rules \X (1 .. Len(tokens) + 1)

CellRank(tokens, rule, at) == 8 * (Len(tokens) + 1 - at) + CallRank(rule)

LEMMA CellRanks ==
    ASSUME NEW tokens, Len(tokens) \in Nat, NEW rule \in Rules, NEW at \in 1 .. Len(tokens) + 1
    PROVE  /\ CellRank(tokens, rule, at) \in 0 .. 8 * (Len(tokens) + 1) - 1
           /\ \A q \in Rules, k \in 1 .. Len(tokens) + 1 :
                 k > at \/ (k = at /\ CallRank(q) < CallRank(rule)) =>
                     CellRank(tokens, q, k) < CellRank(tokens, rule, at)
<1>1. \A q : CallRank(q) \in 0 .. 7
  BY DEF CallRank
<1> HIDE DEF CallRank
<1>2. CellRank(tokens, rule, at) \in 0 .. 8 * (Len(tokens) + 1) - 1
  BY <1>1 DEF CellRank
<1>3. ASSUME NEW q \in Rules, NEW k \in 1 .. Len(tokens) + 1,
             k > at \/ (k = at /\ CallRank(q) < CallRank(rule))
      PROVE  CellRank(tokens, q, k) < CellRank(tokens, rule, at)
  <2>1. CallRank(q) \in 0 .. 7 /\ CallRank(rule) \in 0 .. 7
    BY <1>1
  <2>2. CASE k > at
    <3> DEFINE low  == 8 * (Len(tokens) + 1 - k)
               high == 8 * (Len(tokens) + 1 - at)
               p    == CallRank(q)
               r    == CallRank(rule)
    <3>1. low \in Int /\ high \in Int /\ low + 8 <= high
      BY <2>2
    <3>2. p \in 0 .. 7 /\ r \in 0 .. 7
      BY <2>1
    <3>3. CellRank(tokens, q, k) = low + p /\ CellRank(tokens, rule, at) = high + r
      BY DEF CellRank
    <3> HIDE DEF low, high, p, r
    <3>4. low + p < high + r
      BY <3>1, <3>2
    <3> QED
      BY <3>3, <3>4
  <2>3. CASE k = at /\ CallRank(q) < CallRank(rule)
    <3> DEFINE low == 8 * (Len(tokens) + 1 - at)
               p   == CallRank(q)
               r   == CallRank(rule)
    <3>1. CellRank(tokens, q, k) = low + p /\ CellRank(tokens, rule, at) = low + r
      BY <2>3 DEF CellRank
    <3>2. low \in Int /\ p \in 0 .. 7 /\ r \in 0 .. 7 /\ p < r
      BY <2>1, <2>3
    <3> HIDE DEF low, p, r
    <3>3. low + p < low + r
      BY <3>2
    <3> QED
      BY <3>1, <3>3
  <2> QED
    BY <1>3, <2>2, <2>3
<1> QED
  BY <1>2, <1>3

LEMMA CallsBelow ==
    ASSUME NEW tokens, Len(tokens) \in Nat, NEW rule \in Rules, NEW at \in 1 .. Len(tokens) + 1, NEW f, NEW g,
           \A q \in Rules, k \in 1 .. Len(tokens) + 1 :
              CellRank(tokens, q, k) < CellRank(tokens, rule, at) => Agreed(f, g, tokens, q, k)
    PROVE  Called(f, g, tokens, rule, at)
BY CellRanks DEF Called, Ahead

LEMMA ParseDefined ==
    ASSUME NEW tokens, IsTokens(tokens)
    PROVE  \A rule \in Rules, at \in 1 .. Len(tokens) + 1 :
              Reading(Parse(tokens), rule, at) = ParseRule(Parse(tokens), tokens, rule, at)
<1> DEFINE L == Len(tokens) + 1
           M == 8 * L
           Right(h, q, k) == /\ h[<<q, k>>] = ParseRule(h, tokens, q, k)
                             /\ Reaches(tokens, q, k, h[<<q, k>>])
           Below(h, n) == \A q \in Rules, k \in 1 .. L : CellRank(tokens, q, k) < n => Right(h, q, k)
           Solved(n) == \E h : h = [c \in Cells(tokens) |-> h[c]] /\ Below(h, n)
           T == {n \in 0 .. M : Solved(n)}
<1>1. Len(tokens) \in Nat /\ L \in Nat /\ M \in Nat
  BY TokenFacts
<1>2. \A q \in Rules, k \in 1 .. L : CellRank(tokens, q, k) \in 0 .. M - 1
  BY <1>1, CellRanks
<1>3. \A h, q, k : k \in 1 .. L => Reading(h, q, k) = h[<<q, k>>]
  BY DEF Reading
<1>4. 0 \in T
  <2> DEFINE h == [c \in Cells(tokens) |-> ParseError]
  <2>1. h = [c \in Cells(tokens) |-> h[c]]
    OBVIOUS
  <2> HIDE DEF h, Right
  <2>2. Below(h, 0)
    BY <1>2
  <2> HIDE DEF Below
  <2> QED
    BY <1>1, <2>1, <2>2
<1>5. ASSUME NEW n \in 1 .. M, n - 1 \in T
      PROVE  n \in T
  <2>1. PICK h : h = [c \in Cells(tokens) |-> h[c]] /\ Below(h, n - 1)
    BY <1>5
  <2> DEFINE new == [c \in Cells(tokens) |-> IF CellRank(tokens, c[1], c[2]) < n - 1 THEN h[c]
                                           ELSE ParseRule(h, tokens, c[1], c[2])]
  <2>2. \A q \in Rules, k \in 1 .. L :
           new[<<q, k>>] = IF CellRank(tokens, q, k) < n - 1 THEN h[<<q, k>>] ELSE ParseRule(h, tokens, q, k)
    BY DEF Cells
  <2>3. new = [c \in Cells(tokens) |-> new[c]]
    OBVIOUS
  <2> HIDE DEF new
  <2>4. ASSUME NEW q \in Rules, NEW k \in 1 .. L, CellRank(tokens, q, k) < n - 1
        PROVE  Agreed(h, new, tokens, q, k)
    <3>1. Reaches(tokens, q, k, h[<<q, k>>])
      BY <2>1, <2>4
    <3>2. new[<<q, k>>] = h[<<q, k>>]
      BY <2>2, <2>4
    <3>3. Reading(h, q, k) = h[<<q, k>>] /\ Reading(new, q, k) = new[<<q, k>>]
      BY <1>3
    <3> QED
      BY <3>1, <3>2, <3>3 DEF Agreed
  <2>5. ASSUME NEW q \in Rules, NEW k \in 1 .. L, CellRank(tokens, q, k) < n
        PROVE  Right(new, q, k)
    <3>1. \A p \in Rules, j \in 1 .. L :
             CellRank(tokens, p, j) < CellRank(tokens, q, k) => CellRank(tokens, p, j) < n - 1
      BY <1>2, <2>5
    <3>2. Called(h, new, tokens, q, k)
      BY <1>1, <2>4, <3>1, CallsBelow
    <3>3. /\ ParseRule(h, tokens, q, k) = ParseRule(new, tokens, q, k)
          /\ Reaches(tokens, q, k, ParseRule(h, tokens, q, k))
      BY <3>2, RuleReads
    <3> QED
      BY <2>1, <2>2, <3>3
  <2> HIDE DEF Right
  <2>6. Below(new, n)
    BY <2>5
  <2> HIDE DEF Below
  <2> QED
    BY <2>3, <2>6
<1>6. M \in T
  <2> HIDE DEF T
  <2>1. \A n \in 0 .. M : n \in T
    BY <1>1, <1>4, <1>5, CountUp
  <2>2. M \in 0 .. M
    BY <1>1
  <2> QED
    BY <2>1, <2>2
<1>7. PICK h : h = [c \in Cells(tokens) |-> h[c]] /\ Below(h, M)
  BY <1>6
<1>8. h = [cell \in Rules \X (1 .. Len(tokens) + 1) |-> ParseRule(h, tokens, cell[1], cell[2])]
  <2>1. ASSUME NEW cell \in Rules \X (1 .. Len(tokens) + 1)
        PROVE  h[cell] = ParseRule(h, tokens, cell[1], cell[2])
    <3>1. cell[1] \in Rules /\ cell[2] \in 1 .. L /\ cell = <<cell[1], cell[2]>>
      OBVIOUS
    <3>2. CellRank(tokens, cell[1], cell[2]) < M
      BY <1>1, <1>2, <3>1
    <3> QED
      BY <1>7, <3>1, <3>2
  <2> HIDE DEF Below
  <2> QED
    BY <1>7, <2>1 DEF Cells
<1> DEFINE u == CHOOSE p : p = [cell \in Rules \X (1 .. Len(tokens) + 1) |-> ParseRule(p, tokens, cell[1], cell[2])]
<1>9. u = [cell \in Rules \X (1 .. Len(tokens) + 1) |-> ParseRule(u, tokens, cell[1], cell[2])]
  BY <1>8
<1>10. Parse(tokens) = u
  BY DEF Parse
<1> HIDE DEF u
<1>11. \A q \in Rules, k \in 1 .. L : u[<<q, k>>] = ParseRule(u, tokens, q, k)
  BY <1>9
<1> QED
  BY <1>3, <1>10, <1>11

(* Whatever the tokens, the parser comes to an end: what a rule reads is an *)
(* error or a tree of the grammar that ends further on in the text.        *)
THEOREM ParserAdvances ==
    ASSUME NEW tokens, IsTokens(tokens)
    PROVE  \A rule \in Rules, at \in 1 .. Len(tokens) + 1 :
              Reaches(tokens, rule, at, Reading(Parse(tokens), rule, at))
<1> DEFINE L == Len(tokens) + 1
           M == 8 * L
           u == Parse(tokens)
           T == {n \in 0 .. M : \A q \in Rules, k \in 1 .. L :
                    CellRank(tokens, q, k) < n => Reaches(tokens, q, k, Reading(u, q, k))}
<1>1. Len(tokens) \in Nat /\ L \in Nat /\ M \in Nat
  BY TokenFacts
<1>2. \A q \in Rules, k \in 1 .. L : CellRank(tokens, q, k) \in 0 .. M - 1
  BY <1>1, CellRanks
<1>3. \A q \in Rules, k \in 1 .. L : Reading(u, q, k) = ParseRule(u, tokens, q, k)
  BY ParseDefined
<1> HIDE DEF u
<1>4. 0 \in T
  BY <1>1, <1>2
<1>5. ASSUME NEW n \in 1 .. M, n - 1 \in T
      PROVE  n \in T
  <2>1. ASSUME NEW q \in Rules, NEW k \in 1 .. L, CellRank(tokens, q, k) < n
        PROVE  Reaches(tokens, q, k, Reading(u, q, k))
    <3>1. \A p \in Rules, j \in 1 .. L :
             CellRank(tokens, p, j) < CellRank(tokens, q, k) => Agreed(u, u, tokens, p, j)
      BY <1>2, <1>5, <2>1 DEF Agreed
    <3>2. Called(u, u, tokens, q, k)
      BY <1>1, <3>1, CallsBelow
    <3> QED
      BY <1>3, <3>2, RuleReads
  <2> QED
    BY <2>1
<1>6. M \in T
  <2> HIDE DEF T
  <2>1. \A n \in 0 .. M : n \in T
    BY <1>1, <1>4, <1>5, CountUp
  <2>2. M \in 0 .. M
    BY <1>1
  <2> QED
    BY <2>1, <2>2
<1> QED
  BY <1>1, <1>2, <1>6 DEF u

-----------------------------------------------------------------------------
(* The statement.                                                          *)

(* What fits in the field of a clause.                                     *)
Fits(clause, t) ==
    CASE clause = "from" -> IsTable(t)
      [] clause = "join" -> IsJoin(t, ParsedKinds)
      [] clause \in {"where", "having"} -> IsExpr(t, ParsedKinds)
      [] clause = "group_by" -> IsSeq(t) /\ \A n \in DOMAIN t : IsExpr(t[n], ParsedKinds)
      [] clause = "order_by" -> IsSeq(t) /\ \A n \in DOMAIN t : IsKey(t[n], ParsedKinds)
      [] clause = "limit" -> IsLimit(t)

(* A statement of which FROM may not have been read.                       *)
IsDraft(s) ==
    /\ s = [distinct |-> s.distinct, select_star |-> s.select_star, select_list |-> s.select_list,
            from |-> s.from, join |-> s.join, where |-> s.where, group_by |-> s.group_by,
            having |-> s.having, order_by |-> s.order_by, limit |-> s.limit]
    /\ IsSeq(s.select_list) /\ \A n \in DOMAIN s.select_list : IsItem(s.select_list[n], ParsedKinds)
    /\ s.join = Nothing \/ Fits("join", s.join)
    /\ s.where = Nothing \/ Fits("where", s.where)
    /\ s.having = Nothing \/ Fits("having", s.having)
    /\ s.limit = Nothing \/ Fits("limit", s.limit)
    /\ Fits("group_by", s.group_by) /\ Fits("order_by", s.order_by)

LEMMA FitsFacts ==
    ASSUME NEW t
    PROVE  /\ Fits("from", t) <=> IsTable(t)
           /\ Fits("join", t) <=> IsJoin(t, ParsedKinds)
           /\ Fits("where", t) <=> IsExpr(t, ParsedKinds)
           /\ Fits("having", t) <=> IsExpr(t, ParsedKinds)
           /\ Fits("group_by", t) <=> IsSeq(t) /\ \A n \in DOMAIN t : IsExpr(t[n], ParsedKinds)
           /\ Fits("order_by", t) <=> IsSeq(t) /\ \A n \in DOMAIN t : IsKey(t[n], ParsedKinds)
           /\ Fits("limit", t) <=> IsLimit(t)
BY Zenon DEF Fits

LEMMA DraftStatement ==
    ASSUME NEW s, IsDraft(s), IsTable(s.from)
    PROVE  IsStatement(s, ParsedKinds)
<1>1. /\ Fits("join", s.join) <=> IsJoin(s.join, ParsedKinds)
      /\ Fits("limit", s.limit) <=> IsLimit(s.limit)
      /\ Fits("where", s.where) <=> IsExpr(s.where, ParsedKinds)
      /\ Fits("having", s.having) <=> IsExpr(s.having, ParsedKinds)
      /\ Fits("group_by", s.group_by) <=> IsSeq(s.group_by) /\ \A n \in DOMAIN s.group_by : IsExpr(s.group_by[n], ParsedKinds)
      /\ Fits("order_by", s.order_by) <=> IsSeq(s.order_by) /\ \A n \in DOMAIN s.order_by : IsKey(s.order_by[n], ParsedKinds)
  BY FitsFacts
<1> QED
  BY <1>1 DEF IsDraft, IsStatement, IsOptional

LEMMA DraftFilled ==
    ASSUME NEW s, IsDraft(s), NEW clause \in DOMAIN Keyword, NEW t, Fits(clause, t)
    PROVE  /\ IsDraft([s EXCEPT ![clause] = t])
           /\ [s EXCEPT ![clause] = t].from = IF clause = "from" THEN t ELSE s.from
<1> DEFINE d == [s EXCEPT ![clause] = t]
           fields == {"distinct", "select_star", "select_list", "from", "join", "where", "group_by", "having",
                      "order_by", "limit"}
<1>1. DOMAIN s = fields
  BY DEF IsDraft
<1>2. clause \in {"from", "join", "where", "group_by", "having", "order_by", "limit"}
  BY DEF Keyword
<1>3. DOMAIN d = fields /\ \A k \in fields : d[k] = IF k = clause THEN t ELSE s[k]
  BY <1>1
<1>4. d = [k \in fields |-> d[k]]
  BY <1>1
<1> HIDE DEF d
<1>5. d = [distinct |-> d.distinct, select_star |-> d.select_star, select_list |-> d.select_list,
            from |-> d.from, join |-> d.join, where |-> d.where, group_by |-> d.group_by,
            having |-> d.having, order_by |-> d.order_by, limit |-> d.limit]
  BY <1>4
<1>6. /\ d.select_list = s.select_list
      /\ d.from = IF clause = "from" THEN t ELSE s.from
      /\ d.join = IF clause = "join" THEN t ELSE s.join
      /\ d.where = IF clause = "where" THEN t ELSE s.where
      /\ d.having = IF clause = "having" THEN t ELSE s.having
      /\ d.group_by = IF clause = "group_by" THEN t ELSE s.group_by
      /\ d.order_by = IF clause = "order_by" THEN t ELSE s.order_by
      /\ d.limit = IF clause = "limit" THEN t ELSE s.limit
  BY <1>2, <1>3
<1>7. IsDraft(d)
  BY <1>5, <1>6 DEF IsDraft
<1> QED
  BY <1>6, <1>7 DEF d

-----------------------------------------------------------------------------
(* Tables, LIMIT and the clauses.                                          *)

LEMMA TableReads ==
    ASSUME NEW tokens, Len(tokens) \in Nat, NEW at \in 0 .. Len(tokens) + 1
    PROVE  \/ ParseTable(tokens, at) = ParseError
           \/ /\ ParseTable(tokens, at).at \in 1 .. Len(tokens) + 1
              /\ IsTable(ParseTable(tokens, at).tree)
<1> DEFINE name == Expect(tokens, at, "IDENTIFIER")
           as   == Match(tokens, name, "AS")
           table(alias) == [table_name |-> tokens[at].value.name, alias |-> alias]
           alias == tokens[as].value.name
<1>1. name = 0 \/ name \in 1 .. Len(tokens) + 1
  BY ExpectFacts
<1> HIDE DEF name
<1>2. as = name \/ (TypeAt(tokens, name) = "AS" /\ as = name + 1)
  BY DEF Match
<1>3. as \in Nat
  BY <1>1, <1>2
<1> HIDE DEF as
<1>4. TypeAt(tokens, as) = "IDENTIFIER" => as + 1 \in 1 .. Len(tokens) + 1
  BY <1>3, TypeFacts
<1>5. ParseTable(tokens, at) = IF name = 0 THEN ParseError
                               ELSE IF TypeAt(tokens, as) = "IDENTIFIER" THEN Read(table(alias), as + 1)
                               ELSE IF as # name THEN ParseError ELSE Read(table(NoName), name)
  BY DEF ParseTable, name, as
<1>6. IsTable(table(alias)) /\ IsTable(table(NoName))
  BY DEF IsTable
<1> DEFINE named == table(alias)
           plain == table(NoName)
           r == ParseTable(tokens, at)
<1>7. r = IF name = 0 THEN ParseError
          ELSE IF TypeAt(tokens, as) = "IDENTIFIER" THEN Read(named, as + 1)
          ELSE IF as # name THEN ParseError ELSE Read(plain, name)
  BY <1>5
<1>8. IsTable(named) /\ IsTable(plain)
  BY <1>6
<1> HIDE DEF named, plain, r
<1>9. r = ParseError \/ (r.at \in 1 .. Len(tokens) + 1 /\ IsTable(r.tree))
  BY <1>1, <1>4, <1>7, <1>8 DEF Read
<1> QED
  BY <1>9 DEF r

(* The whole of what is read of an expression or a list.                   *)
LEMMA ParsedReads ==
    ASSUME NEW tokens, IsTokens(tokens), NEW rule \in Rules, rule \notin RestRules, NEW at \in 0 .. Len(tokens) + 1
    PROVE  \/ Reading(Parse(tokens), rule, at).at = 0
           \/ /\ Reading(Parse(tokens), rule, at).at \in 1 .. Len(tokens) + 1
              /\ Shaped(rule, Reading(Parse(tokens), rule, at).tree)
<1>1. Len(tokens) \in Nat
  BY TokenFacts
<1>2. CASE at = 0
  BY <1>2, ErrorReaches
<1>3. CASE at \in 1 .. Len(tokens) + 1
  <2>1. Reaches(tokens, rule, at, Reading(Parse(tokens), rule, at))
    BY <1>3, ParserAdvances
  <2> QED
    BY <1>1, <1>3, <2>1 DEF Reaches
<1> QED
  BY <1>1, <1>2, <1>3

LEMMA IntTokens ==
    ASSUME NEW tokens, IsTokens(tokens), NEW at \in 1 .. Len(tokens), tokens[at].type = "INT_LITERAL"
    PROVE  tokens[at].value.num \in Int
<1> DEFINE v == tokens[at].value
<1>1. IsValue(v) /\ v.type = "INT"
  BY SeqFacts DEF IsTokens, IsToken
<1> QED
  BY <1>1 DEF IsValue, IsText, DoubleValue

LEMMA ClauseReads ==
    ASSUME NEW tokens, IsTokens(tokens), NEW at \in 1 .. Len(tokens) + 1, NEW clause \in DOMAIN Keyword
    PROVE  \/ ParseClause(Parse(tokens), clause, tokens, at).at = 0
           \/ /\ ParseClause(Parse(tokens), clause, tokens, at).at \in 1 .. Len(tokens) + 1
              /\ Fits(clause, ParseClause(Parse(tokens), clause, tokens, at).tree)
<1> DEFINE parse == Parse(tokens)
           c == ParseClause(parse, clause, tokens, at)
<1>1. Len(tokens) \in Nat /\ {"OrExpr", "GROUP", "ORDER"} \subseteq Rules
      /\ {"OrExpr", "GROUP", "ORDER"} \cap RestRules = {} /\ "OrExpr" \in Levels
  BY TokenFacts, RulesAre DEF RestRules, Levels
<1>2. \A k \in 0 .. Len(tokens) + 1 :
          \/ ParseExpr(parse, k).at = 0
          \/ ParseExpr(parse, k).at \in 1 .. Len(tokens) + 1 /\ IsExpr(ParseExpr(parse, k).tree, ParsedKinds)
  BY <1>1, ParsedReads, ShapedFacts DEF ParseExpr
<1>3. \A list \in {"GROUP", "ORDER"} : \A k \in 0 .. Len(tokens) + 1 :
          \/ Reading(parse, list, k).at = 0
          \/ Reading(parse, list, k).at \in 1 .. Len(tokens) + 1 /\ Shaped(list, Reading(parse, list, k).tree)
  BY <1>1, ParsedReads
<1>4. \A k \in 0 .. Len(tokens) + 1, type \in {"ON", "BY"} : Expect(tokens, k, type) \in 0 .. Len(tokens) + 1
  BY <1>1, ExpectFacts
<1> HIDE DEF parse
<1>5. CASE clause = "from"
  <2>1. c = ParseTable(tokens, at)
    BY <1>5 DEF ParseClause
  <2> QED
    BY <1>1, <1>5, <2>1, TableReads, FitsFacts DEF ParseError, Read, parse
<1>6. CASE clause = "join"
  <2> DEFINE table == ParseTable(tokens, at)
             on    == ParseExpr(parse, Expect(tokens, table.at, "ON"))
             join  == [table |-> table.tree, condition |-> on.tree]
  <2>1. table = ParseError \/ (table.at \in 1 .. Len(tokens) + 1 /\ IsTable(table.tree))
    BY <1>1, TableReads
  <2>2. c = IF on.at = 0 THEN ParseError ELSE Read(join, on.at)
    BY <1>6 DEF ParseClause, ParseJoin
  <2> HIDE DEF table
  <2>3. table.at \in 0 .. Len(tokens) + 1 /\ (table.at = 0 => on.at = 0)
    BY <2>1 DEF ParseError, Read, Expect, TypeAt, ParseExpr, Reading
  <2>4. on.at = 0 \/ (on.at \in 1 .. Len(tokens) + 1 /\ IsExpr(on.tree, ParsedKinds))
    BY <1>2, <1>4, <2>3
  <2> HIDE DEF on, c
  <2>5. on.at # 0 => IsJoin(join, ParsedKinds)
    BY <2>1, <2>3, <2>4 DEF IsJoin, ParseError, Read
  <2>6. on.at # 0 => Fits("join", join)
    BY <2>5, FitsFacts
  <2> HIDE DEF join
  <2>7. c.at = 0 \/ (c.at \in 1 .. Len(tokens) + 1 /\ Fits("join", c.tree))
    BY <2>2, <2>4, <2>6 DEF ParseError, Read
  <2> QED
    BY <1>6, <2>7 DEF c, parse
<1>7. CASE clause \in {"where", "having"}
  <2>1. c = ParseExpr(parse, at)
    BY <1>7 DEF ParseClause
  <2> QED
    BY <1>2, <1>7, <2>1, FitsFacts DEF parse
<1>8. CASE clause = "group_by"
  <2>1. c = Reading(parse, "GROUP", Expect(tokens, at, "BY"))
    BY <1>8 DEF ParseClause
  <2>3. Expect(tokens, at, "BY") \in 0 .. Len(tokens) + 1
    BY <1>1, ExpectFacts
  <2>2. c.at = 0 \/ (c.at \in 1 .. Len(tokens) + 1 /\ Shaped("GROUP", c.tree))
    BY <1>3, <2>1, <2>3
  <2> QED
    BY <1>8, <2>2, FitsFacts, ShapedFacts DEF parse
<1>9. CASE clause = "order_by"
  <2>1. c = Reading(parse, "ORDER", Expect(tokens, at, "BY"))
    BY <1>9 DEF ParseClause
  <2>3. Expect(tokens, at, "BY") \in 0 .. Len(tokens) + 1
    BY <1>1, ExpectFacts
  <2>2. c.at = 0 \/ (c.at \in 1 .. Len(tokens) + 1 /\ Shaped("ORDER", c.tree))
    BY <1>3, <2>1, <2>3
  <2> QED
    BY <1>9, <2>2, FitsFacts, ShapedFacts DEF parse
<1>10. CASE clause = "limit"
  <2>1. c = ParseLimit(tokens, at)
    BY <1>10 DEF ParseClause
  <2> DEFINE count == tokens[at].value.num
  <2>2. c = ParseError \/ (TypeAt(tokens, at) = "INT_LITERAL" /\ c = Read([count |-> count], at + 1)
                            /\ ~ (count > 2 ^ (LimitWidth - 1) - 1))
    BY <2>1 DEF ParseLimit
  <2>3. CASE c = ParseError
    BY <2>3 DEF ParseError, Read, parse
  <2>4. CASE c # ParseError
    <3>1. at \in 1 .. Len(tokens) /\ tokens[at].type = "INT_LITERAL"
      BY <1>1, <2>2, <2>4, TypeFacts
    <3>2. count \in Int
      BY <3>1, IntTokens
    <3> HIDE DEF count
    <3>3. IsLimit([count |-> count])
      BY <3>2 DEF IsLimit
    <3>4. c.at \in 1 .. Len(tokens) + 1 /\ c.tree = [count |-> count]
      BY <2>2, <2>4, <3>1 DEF Read
    <3> QED
      BY <1>10, <3>3, <3>4, FitsFacts DEF parse
  <2> QED
    BY <2>3, <2>4
<1> QED
  BY <1>5, <1>6, <1>7, <1>8, <1>9, <1>10 DEF Keyword

(* A statement so far: an error, or a draft up to here.                    *)
IsPart(tokens, r)  == r.at = 0 \/ (r.at \in 1 .. Len(tokens) + 1 /\ IsDraft(r.tree))
IsWhole(tokens, r) == r.at = 0 \/ (r.at \in 1 .. Len(tokens) + 1 /\ IsDraft(r.tree) /\ IsTable(r.tree.from))

LEMMA WithReads ==
    ASSUME NEW tokens, IsTokens(tokens), NEW r, IsPart(tokens, r), NEW clause \in DOMAIN Keyword,
           clause # "from" => IsWhole(tokens, r)
    PROVE  IsWhole(tokens, WithClause(tokens, r, clause))
<1> DEFINE parse == Parse(tokens)
           c == ParseClause(parse, clause, tokens, r.at + 1)
           d == [r.tree EXCEPT ![clause] = c.tree]
           w == WithClause(tokens, r, clause)
<1>1. Len(tokens) \in Nat /\ r.at \in Nat /\ Keyword[clause] \notin {"PARSE_ERROR", "END_OF_FILE"}
  BY TokenFacts DEF Keyword, IsPart
<1>2. w = IF TypeAt(tokens, r.at) # Keyword[clause] THEN IF clause = "from" THEN ParseError ELSE r
          ELSE IF c.at = 0 THEN ParseError ELSE Read(d, c.at)
  BY DEF WithClause
<1> HIDE DEF w
<1>3. CASE TypeAt(tokens, r.at) # Keyword[clause]
  BY <1>2, <1>3 DEF IsWhole, ParseError, Read, w
<1>4. CASE TypeAt(tokens, r.at) = Keyword[clause]
  <2>1. r.at # 0 /\ r.at + 1 \in 1 .. Len(tokens) + 1
    BY <1>1, <1>4, TypeFacts
  <2>2. c.at = 0 \/ (c.at \in 1 .. Len(tokens) + 1 /\ Fits(clause, c.tree))
    BY <2>1, ClauseReads
  <2> HIDE DEF c
  <2>3. ASSUME c.at # 0
        PROVE  IsDraft(d) /\ IsTable(d.from)
    <3>1. IsDraft(r.tree) /\ Fits(clause, c.tree)
      BY <2>1, <2>2, <2>3 DEF IsPart
    <3>2. IsDraft(d) /\ d.from = IF clause = "from" THEN c.tree ELSE r.tree.from
      BY <3>1, DraftFilled
    <3>3. clause = "from" => IsTable(c.tree)
      BY <3>1, FitsFacts
    <3>4. clause # "from" => IsTable(r.tree.from)
      BY <2>1 DEF IsWhole
    <3> QED
      BY <3>2, <3>3, <3>4
  <2> HIDE DEF d
  <2> QED
    BY <1>2, <1>4, <2>2, <2>3 DEF IsWhole, ParseError, Read, w
<1> QED
  BY <1>3, <1>4

LEMMA BlankDraft ==
    ASSUME NEW distinct, NEW star, NEW list, IsSeq(list), \A n \in DOMAIN list : IsItem(list[n], ParsedKinds)
    PROVE  IsDraft(Blank(distinct, star, list))
<1>1. Fits("group_by", << >>) /\ Fits("order_by", << >>)
  BY EmptySeq, FitsFacts
<1> QED
  BY <1>1 DEF IsDraft, Blank

(* What the parser accepts is a statement, whatever the text.              *)
THEOREM ParserTrees ==
    ASSUME NEW tokens, IsTokens(tokens), ParseSelect(tokens).at # 0
    PROVE  IsStatement(ParseSelect(tokens).tree, ParsedKinds)
<1> DEFINE parse    == Parse(tokens)
           start    == Match(tokens, Expect(tokens, 1, "SELECT"), "DISTINCT")
           star     == TypeAt(tokens, start) = "STAR"
           list     == IF star THEN Read(<< >>, start + 1) ELSE Reading(parse, "SELECT", start)
           select   == IF list.at = 0 THEN ParseError ELSE Read(Blank(start = 3, star, list.tree), list.at)
           whole    == ClauseFold!Sweep(tokens, select, Clauses)
<1>1. Len(tokens) \in Nat /\ "SELECT" \in Rules /\ "SELECT" \notin RestRules
  BY TokenFacts, RulesAre DEF RestRules
<1>2. start \in 0 .. Len(tokens) + 1
  <2>1. Expect(tokens, 1, "SELECT") \in 0 .. Len(tokens) + 1
    BY <1>1, ExpectFacts
  <2> QED
    BY <1>1, <2>1, TypeFacts DEF Match
<1>3. ParseSelect(tokens) =
        IF TypeAt(tokens, Match(tokens, whole.at, "SEMICOLON")) # "END_OF_FILE" THEN ParseError ELSE whole
  BY DEF ParseSelect
<1> HIDE DEF start
<1>4. list.at = 0 \/ (list.at \in 1 .. Len(tokens) + 1 /\ Shaped("SELECT", list.tree))
  <2>1. CASE star
    <3>1. start + 1 \in 1 .. Len(tokens) + 1
      BY <1>1, <1>2, <2>1, TypeFacts
    <3>2. Shaped("SELECT", << >>)
      BY EmptySeq, ShapedFacts
    <3> QED
      BY <2>1, <3>1, <3>2 DEF Read
  <2>2. CASE ~ star
    BY <1>1, <1>2, <2>2, ParsedReads
  <2> QED
    BY <2>1, <2>2
<1> HIDE DEF list, star
<1>5. IsPart(tokens, select)
  <2>1. list.at # 0 => IsDraft(Blank(start = 3, star, list.tree))
    BY <1>4, ShapedFacts, BlankDraft
  <2> QED
    BY <1>4, <2>1 DEF IsPart, ParseError, Read
<1> HIDE DEF select
<1>6. Len(Clauses) = 7 /\ Clauses[1] = "from" /\ \A n \in 1 .. 7 : Clauses[n] \in DOMAIN Keyword
  BY DEF Clauses, Keyword
<1>7. PICK g : /\ g[0] = select
               /\ \A n \in 1 .. Len(Clauses) : g[n] = WithClause(tokens, g[n - 1], Clauses[n])
               /\ whole = g[Len(Clauses)]
  <2>1. Len(Clauses) \in Nat
    BY <1>6
  <2> QED
    BY <2>1, LeastNat, ClauseFold!SweepRounds DEF ClauseFold!WellOrdered
<1> DEFINE T == {n \in 0 .. 7 : IF n = 0 THEN IsPart(tokens, g[n]) ELSE IsWhole(tokens, g[n])}
<1>8. 0 \in T
  BY <1>5, <1>7
<1>9. ASSUME NEW n \in 1 .. 7, n - 1 \in T
      PROVE  n \in T
  <2>1. /\ g[n] = WithClause(tokens, g[n - 1], Clauses[n]) /\ Clauses[n] \in DOMAIN Keyword
        /\ IsPart(tokens, g[n - 1]) /\ (n # 1 => IsWhole(tokens, g[n - 1])) /\ (n = 1 => Clauses[n] = "from")
    BY <1>6, <1>7, <1>9 DEF IsPart, IsWhole
  <2>2. Clauses[n] # "from" => IsWhole(tokens, g[n - 1])
    BY <2>1
  <2>3. IsWhole(tokens, g[n])
    BY <2>1, <2>2, WithReads
  <2> QED
    BY <2>3
<1> HIDE DEF T
<1>10. 7 \in T
  BY <1>8, <1>9, CountUp
<1>14. IsWhole(tokens, whole)
  BY <1>6, <1>7, <1>10 DEF T
<1> HIDE DEF whole
<1>15. ParseSelect(tokens) = whole /\ whole.at # 0
  BY <1>3 DEF ParseError, Read
<1> QED
  BY <1>14, <1>15, DraftStatement DEF IsWhole

-----------------------------------------------------------------------------
(* What is written down is a list of tokens.                               *)

LEMMA TokensConcat ==
    ASSUME NEW s, NEW t, IsTokens(s), IsTokens(t)
    PROVE  IsTokens(s \o t)
<1>1. IsSeq(s \o t) /\ Elements(s \o t) = Elements(s) \cup Elements(t)
  BY ConcatFacts DEF IsTokens
<1> QED
  BY <1>1 DEF IsTokens, Elements

LEMMA TokensOne ==
    /\ IsTokens(<< >>)
    /\ \A t : IsToken(t) => IsTokens(<<t>>)
BY EmptySeq, SingleSeq DEF IsTokens

(* Tokens that are lists by themselves are one together.                   *)
LEMMA TokensPair ==
    /\ \A x, y : IsTokens(<<x>>) /\ IsTokens(<<y>>) => IsTokens(<<x, y>>)
    /\ \A x, y, z : IsTokens(<<x>>) /\ IsTokens(<<y>>) /\ IsTokens(<<z>>) => IsTokens(<<x, y, z>>)
<1>1. \A x : IsTokens(<<x>>) => IsToken(x)
  <2> TAKE x
  <2>1. 1 \in DOMAIN <<x>> /\ <<x>>[1] = x
    OBVIOUS
  <2> QED
    BY <2>1 DEF IsTokens
<1>2. \A x, y : IsToken(x) /\ IsToken(y) => IsTokens(<<x, y>>)
  BY PairSeq DEF IsTokens
<1>3. \A x, y, z : IsToken(x) /\ IsToken(y) /\ IsToken(z) => IsTokens(<<x, y, z>>)
  BY TripleSeq DEF IsTokens
<1> QED
  BY <1>1, <1>2, <1>3

LEMMA TokensJoin ==
    ASSUME NEW ss, IsSeq(ss), \A n \in DOMAIN ss : IsTokens(ss[n])
    PROVE  IsTokens(Join(ss))
<1>1. \A n \in DOMAIN ss : IsSeq(ss[n])
  BY DEF IsTokens
<1>2. IsSeq(Join(ss)) /\ Elements(Join(ss)) = UNION {Elements(ss[n]) : n \in DOMAIN ss}
  BY <1>1, JoinFacts
<1> DEFINE j == Join(ss)
<1> HIDE DEF j
<1>3. \A n \in DOMAIN j : \E m \in DOMAIN ss : \E k \in DOMAIN ss[m] : j[n] = ss[m][k]
  BY <1>2 DEF Elements, j
<1>4. \A n \in DOMAIN j : IsToken(j[n])
  BY <1>3 DEF IsTokens
<1> QED
  BY <1>2, <1>4 DEF IsTokens, j

(* Keywords and symbols.                                                   *)
IsKeyword(type) == type \notin {"IDENTIFIER", "INT_LITERAL", "FLOAT_LITERAL", "STRING_LITERAL"}

LEMMA KeywordTokens ==
    ASSUME NEW type, IsKeyword(type)
    PROVE  IsToken(Token(type)) /\ IsTokens(<<Token(type)>>)
<1>1. IsToken(Token(type))
  BY DEF IsToken, Token, IsKeyword
<1> QED
  BY <1>1, TokensOne

LEMMA Keywords ==
    \A type \in {"LPAREN", "RPAREN", "COMMA", "DOT", "DATE", "MINUS", "AND", "STAR", "CASE", "WHEN", "THEN", "ELSE",
                 "END", "SUBSTRING", "FROM", "FOR", "INTERVAL", "AS", "DESC", "SELECT", "DISTINCT", "JOIN", "ON",
                 "WHERE", "GROUP", "BY", "HAVING", "ORDER", "LIMIT", "IS", "NOT", "NULL_KW", "LIKE", "IN", "BETWEEN"} :
        IsTokens(<<Token(type)>>) /\ IsToken(Token(type))
BY KeywordTokens DEF IsKeyword

LEMMA IdentifierTokens == \A name : IsTokens(<<Identifier(name)>>) /\ IsToken(Identifier(name))
<1> TAKE name
<1> DEFINE v == [name |-> name]
<1>1. v = [name |-> v.name]
  OBVIOUS
<1> HIDE DEF v
<1>2. IsToken(Lexeme("IDENTIFIER", v))
  BY <1>1 DEF IsToken, Lexeme
<1> QED
  BY <1>2, TokensOne DEF Identifier, v

LEMMA LiteralTokens ==
    ASSUME NEW v, IsValue(v)
    PROVE  IsTokens(<<LiteralToken(v)>>)
<1>1. v.type \in {"INT", "DOUBLE", "STRING"} /\ (v.type = "STRING" => IsText(v))
  BY DEF IsValue, IsText
<1>2. IsToken(LiteralToken(v))
  BY <1>1 DEF LiteralToken, IsToken, Lexeme
<1> QED
  BY <1>2, TokensOne

LEMMA TextLexemes ==
    /\ \A n : IsTokens(<<Lexeme("STRING_LITERAL", NumeralValue(n))>>)
    /\ \A n \in Int : IsTokens(<<Lexeme("INT_LITERAL", IntValue(n))>>)
<1>1. ASSUME NEW n PROVE IsTokens(<<Lexeme("STRING_LITERAL", NumeralValue(n))>>)
  <2>1. IsText(NumeralValue(n))
    BY DEF IsText, NumeralValue
  <2>2. IsToken(Lexeme("STRING_LITERAL", NumeralValue(n)))
    BY <2>1 DEF IsToken, Lexeme
  <2> QED
    BY <2>2, TokensOne
<1>2. ASSUME NEW n \in Int PROVE IsTokens(<<Lexeme("INT_LITERAL", IntValue(n))>>)
  <2>1. IsValue(IntValue(n)) /\ IntValue(n).type = "INT"
    BY DEF IsValue, IntValue
  <2>2. IsToken(Lexeme("INT_LITERAL", IntValue(n)))
    BY <2>1 DEF IsToken, Lexeme
  <2> QED
    BY <2>2, TokensOne
<1> QED
  BY <1>1, <1>2

LEMMA SymbolTokens ==
    ASSUME NEW op \in Ops["BinaryExpr"]
    PROVE  IsTokens(<<SymbolToken(op)>>)
<1> DEFINE type == CHOOSE t \in DOMAIN Symbol : Symbol[t] = op
<1>1. \E t \in DOMAIN Symbol : Symbol[t] = op
  BY OpsOf DEF Symbol, ArithOps, CompareOps
<1>2. type \in DOMAIN Symbol
  BY <1>1
<1> HIDE DEF type
<1>3. IsKeyword(type)
  BY <1>2 DEF Symbol, IsKeyword
<1> QED
  BY <1>3, KeywordTokens DEF SymbolToken, type

LEMMA OpTokensIs ==
    ASSUME NEW op \in Ops["IsNullExpr"] \cup Ops["LikeExpr"] \cup Ops["InExpr"] \cup Ops["BetweenExpr"]
    PROVE  IsTokens(OpTokens(op))
<1>1. /\ IsTokens(<<Token("IS"), Token("NULL_KW")>>)
      /\ IsTokens(<<Token("NOT"), Token("LIKE")>>) /\ IsTokens(<<Token("NOT"), Token("IN")>>)
      /\ IsTokens(<<Token("NOT"), Token("BETWEEN")>>)
      /\ IsTokens(<<Token("LIKE")>>) /\ IsTokens(<<Token("IN")>>) /\ IsTokens(<<Token("BETWEEN")>>)
      /\ IsTokens(<<Token("IS"), Token("NOT"), Token("NULL_KW")>>)
  <2>1. \A x, y : IsToken(x) /\ IsToken(y) => IsTokens(<<x, y>>)
    BY PairSeq DEF IsTokens
  <2>2. \A x, y, z : IsToken(x) /\ IsToken(y) /\ IsToken(z) => IsTokens(<<x, y, z>>)
    BY TripleSeq DEF IsTokens
  <2> QED
    BY <2>1, <2>2, Keywords
<1>2. op \in {"IS NULL", "IS NOT NULL", "LIKE", "NOT LIKE", "IN", "NOT IN", "BETWEEN", "NOT BETWEEN"}
  BY Zenon DEF Ops
<1>3. OpTokens(op) \in {<<Token("IS"), Token("NULL_KW")>>, <<Token("IS"), Token("NOT"), Token("NULL_KW")>>,
                        <<Token("LIKE")>>, <<Token("IN")>>, <<Token("BETWEEN")>>, <<Token("NOT"), Token("LIKE")>>,
                        <<Token("NOT"), Token("IN")>>, <<Token("NOT"), Token("BETWEEN")>>}
  BY <1>2, Zenon DEF OpTokens
<1> QED
  BY <1>1, <1>3

LEMMA TokensAround ==
    ASSUME NEW s, IsTokens(s)
    PROVE  /\ IsTokens(Parenthesized(s))
           /\ \A type : IsKeyword(type) => IsTokens(<<Token(type)>> \o s)
BY Keywords, KeywordTokens, TokensConcat DEF Parenthesized

LEMMA SeparatedTokens ==
    ASSUME NEW s, IsSeq(s), \A n \in DOMAIN s : IsTokens(s[n]), NEW sep, IsKeyword(sep)
    PROVE  IsTokens(Separated(s, sep))
<1> DEFINE parts == [n \in DOMAIN s |-> IF n = 1 THEN s[n] ELSE <<Token(sep)>> \o s[n]]
<1>1. DOMAIN parts = DOMAIN s /\ parts = [n \in DOMAIN s |-> parts[n]]
  OBVIOUS
<1>2. \A n \in DOMAIN s : parts[n] = s[n] \/ parts[n] = <<Token(sep)>> \o s[n]
  OBVIOUS
<1>3. Separated(s, sep) = Join(parts)
  BY DEF Separated
<1> HIDE DEF parts
<1>4. IsSeq(parts)
  BY <1>1, MappedSeq
<1>5. \A n \in DOMAIN parts : IsTokens(parts[n])
  BY <1>1, <1>2, TokensAround
<1> QED
  BY <1>3, <1>4, <1>5, TokensJoin

LEMMA HalfFacts == \A n \in Nat : n \div 2 \in Nat /\ \A k \in 1 .. n \div 2 : 2 * k - 1 \in 1 .. n /\ 2 * k \in 1 .. n
OBVIOUS

(* The tokens of WHEN and THEN.                                            *)
LEMMA WhenTokens ==
    ASSUME NEW n \in Nat, NEW every, \A k \in 1 .. n : IsTokens(every[k])
    PROVE  IsTokens(Join([k \in 1 .. n \div 2 |-> <<Token("WHEN")>> \o every[2 * k - 1] \o <<Token("THEN")>> \o every[2 * k]]))
<1> DEFINE parts == [k \in 1 .. n \div 2 |-> <<Token("WHEN")>> \o every[2 * k - 1] \o <<Token("THEN")>> \o every[2 * k]]
<1>1. n \div 2 \in Nat /\ \A k \in 1 .. n \div 2 : 2 * k - 1 \in 1 .. n /\ 2 * k \in 1 .. n
  BY HalfFacts
<1>2. parts = [k \in 1 .. n \div 2 |-> parts[k]]
  OBVIOUS
<1>3. ASSUME NEW k \in 1 .. n \div 2 PROVE IsTokens(parts[k])
  <2> DEFINE when == every[2 * k - 1]
             result == every[2 * k]
  <2>1. IsTokens(when) /\ IsTokens(result)
    BY <1>1
  <2>2. parts[k] = <<Token("WHEN")>> \o when \o <<Token("THEN")>> \o result
    OBVIOUS
  <2> HIDE DEF when, result, parts
  <2> QED
    BY <2>1, <2>2, Keywords, TokensConcat
<1> HIDE DEF parts
<1>4. IsSeq(parts) /\ DOMAIN parts = 1 .. n \div 2
  BY <1>1, <1>2, SeqIntro
<1>5. IsTokens(Join(parts))
  BY <1>3, <1>4, TokensJoin
<1> QED
  BY <1>5 DEF parts

(* The tokens of a node, from those of its children.                       *)
LEMMA NodeTokens ==
    ASSUME NEW e, WellFormed(e, MeantKinds), NEW all, NEW tokens, \A n \in DOMAIN e.args : IsTokens(tokens[n])
    PROVE  IsTokens(WrittenNode(all, e, tokens))
<1> DEFINE inside(n, level) == IF Level(e.args[n]) < level \/ (all /\ Level(e.args[n]) < Primary)
                               THEN Parenthesized(tokens[n]) ELSE tokens[n]
           every == [n \in DOMAIN e.args |-> inside(n, Or)]
           node  == WrittenNode(all, e, tokens)
<1>1. /\ e.kind \in MeantKinds /\ e.op \in Ops[e.kind] /\ IsPayload(e.kind, e.payload)
      /\ IsSeq(e.args) /\ Len(e.args) \in Arity[e.kind] /\ Len(e.args) \in Nat /\ DOMAIN e.args = 1 .. Len(e.args)
  BY SeqFacts DEF WellFormed
<1>2. \A level : \A n \in 1 .. Len(e.args) : IsTokens(inside(n, level))
  BY <1>1, TokensAround
<1>3. IsSeq(every) /\ DOMAIN every = 1 .. Len(e.args) /\ Len(every) = Len(e.args)
      /\ \A n \in 1 .. Len(e.args) : IsTokens(every[n])
  <2>1. DOMAIN every = DOMAIN e.args /\ every = [n \in DOMAIN e.args |-> every[n]]
    OBVIOUS
  <2>2. IsSeq(every) /\ Len(every) = Len(e.args)
    <3> HIDE DEF every
    <3> QED
      BY <1>1, <2>1, MappedSeq
  <2>3. \A n \in 1 .. Len(e.args) : every[n] = inside(n, Or)
    BY <1>1
  <2> HIDE DEF inside
  <2> QED
    BY <1>1, <1>2, <2>1, <2>2, <2>3
<1>4. /\ e.kind \in {"IsNullExpr", "LikeExpr", "InExpr", "UnaryExpr"} => 1 \in 1 .. Len(e.args)
      /\ e.kind = "BinaryExpr" => 1 \in 1 .. Len(e.args) /\ 2 \in 1 .. Len(e.args)
      /\ e.kind = "BetweenExpr" => 1 \in 1 .. Len(e.args) /\ 2 \in 1 .. Len(e.args) /\ 3 \in 1 .. Len(e.args)
  BY <1>1 DEF Arity
<1>5. CASE e.kind = "ColumnRef"
  <2> DEFINE c == e.payload
  <2>1. node = IF c.table_name = NoName THEN <<Identifier(c.column_name)>>
               ELSE <<Identifier(c.table_name), Token("DOT"), Identifier(c.column_name)>>
    BY <1>5 DEF WrittenNode
  <2>2. \A x, y, z : IsToken(x) /\ IsToken(y) /\ IsToken(z) => IsTokens(<<x, y, z>>)
    BY TripleSeq DEF IsTokens
  <2> QED
    BY <2>1, <2>2, IdentifierTokens, Keywords
<1>6. CASE e.kind = "Literal"
  <2>1. IsValue(e.payload)
    BY <1>1, <1>6 DEF IsPayload
  <2>2. node = IF "date" \in DOMAIN e.payload THEN <<Token("DATE"), LiteralToken(e.payload)>> ELSE <<LiteralToken(e.payload)>>
    BY <1>6 DEF WrittenNode
  <2>3. \A x, y : IsTokens(<<x>>) /\ IsTokens(<<y>>) => IsTokens(<<x, y>>)
    BY TokensPair
  <2> QED
    BY <2>1, <2>2, <2>3, LiteralTokens, Keywords
<1>7. CASE e.kind = "BinaryExpr"
  <2>1. node = inside(1, LeftLevel(e.op)) \o <<SymbolToken(e.op)>> \o inside(2, RightLevel(e.op))
    BY <1>7 DEF WrittenNode
  <2> HIDE DEF inside, node
  <2> QED
    BY <1>1, <1>2, <1>4, <1>7, <2>1, SymbolTokens, TokensConcat DEF node
<1>8. CASE e.kind = "UnaryExpr"
  <2>1. node = <<Token("MINUS")>> \o inside(1, Unary)
    BY <1>8 DEF WrittenNode
  <2> HIDE DEF inside, node
  <2> QED
    BY <1>2, <1>4, <1>8, <2>1, Keywords, TokensConcat DEF node
<1>9. CASE e.kind = "IsNullExpr"
  <2>1. node = inside(1, Additive) \o OpTokens(e.op)
    BY <1>9 DEF WrittenNode
  <2> HIDE DEF inside, node
  <2>2. IsTokens(OpTokens(e.op))
    BY <1>1, <1>9, OpTokensIs
  <2> QED
    BY <1>2, <1>4, <1>9, <2>1, <2>2, TokensConcat DEF node
<1>10. CASE e.kind = "LikeExpr"
  <2>1. node = inside(1, Additive) \o OpTokens(e.op) \o <<LiteralToken(e.payload)>>
    BY <1>10 DEF WrittenNode
  <2> HIDE DEF inside, node
  <2>2. IsTokens(OpTokens(e.op)) /\ IsTokens(<<LiteralToken(e.payload)>>)
    BY <1>1, <1>10, OpTokensIs, LiteralTokens DEF IsPayload, IsValue
  <2> QED
    BY <1>2, <1>4, <1>10, <2>1, <2>2, TokensConcat DEF node
<1>11. CASE e.kind = "InExpr"
  <2> DEFINE values == e.payload.values
             texts  == [n \in DOMAIN values |-> <<LiteralToken(values[n])>>]
             list   == Parenthesized(Separated(texts, "COMMA"))
  <2>1. node = inside(1, Additive) \o OpTokens(e.op) \o list
    BY <1>11 DEF WrittenNode
  <2> HIDE DEF inside, node
  <2>2. IsSeq(values) /\ \A n \in DOMAIN values : IsValue(values[n])
    BY <1>1, <1>11 DEF IsPayload
  <2>3. DOMAIN texts = DOMAIN values /\ texts = [n \in DOMAIN values |-> texts[n]]
        /\ \A n \in DOMAIN values : texts[n] = <<LiteralToken(values[n])>>
    OBVIOUS
  <2> HIDE DEF values, texts
  <2>4. IsSeq(texts) /\ \A n \in DOMAIN texts : IsTokens(texts[n])
    BY <2>2, <2>3, MappedSeq, LiteralTokens
  <2>5. IsTokens(list)
    BY <2>4, SeparatedTokens, TokensAround DEF IsKeyword
  <2>6. IsTokens(OpTokens(e.op))
    BY <1>1, <1>11, OpTokensIs
  <2> HIDE DEF list
  <2> QED
    BY <1>2, <1>4, <1>11, <2>1, <2>5, <2>6, TokensConcat DEF node
<1>12. CASE e.kind = "BetweenExpr"
  <2>1. node = inside(1, Additive) \o OpTokens(e.op) \o inside(2, Additive) \o <<Token("AND")>> \o inside(3, Additive)
    BY <1>12 DEF WrittenNode
  <2> DEFINE x == inside(1, Additive)
             y == inside(2, Additive)
             z == inside(3, Additive)
  <2>2. IsTokens(OpTokens(e.op)) /\ IsTokens(x) /\ IsTokens(y) /\ IsTokens(z)
    <3> HIDE DEF inside
    <3> QED
      BY <1>1, <1>2, <1>4, <1>12, OpTokensIs
  <2> HIDE DEF x, y, z, node
  <2> QED
    BY <2>1, <2>2, Keywords, TokensConcat DEF node, x, y, z
<1>13. CASE e.kind = "AggregateExpr"
  <2> DEFINE inner == IF e.args = << >> THEN <<Token("STAR")>> ELSE every[1]
  <2>1. node = <<Token(e.op)>> \o Parenthesized(inner)
    BY <1>13 DEF WrittenNode
  <2>2. e.args # << >> => 1 \in 1 .. Len(e.args)
    BY <1>1, NoLength
  <2> HIDE DEF every, node
  <2>3. IsTokens(inner)
    BY <1>3, <2>2, Keywords
  <2>4. IsKeyword(e.op)
    BY <1>1, <1>13, OpsOf DEF Functions, IsKeyword
  <2> HIDE DEF inner
  <2> QED
    BY <2>1, <2>3, <2>4, TokensAround DEF node
<1>14. CASE e.kind = "CaseExpr"
  <2> DEFINE n == Len(e.args)
             when == Join([k \in 1 .. n \div 2 |-> <<Token("WHEN")>> \o every[2 * k - 1] \o <<Token("THEN")>> \o every[2 * k]])
             otherwise == IF n % 2 = 1 THEN <<Token("ELSE")>> \o every[n] ELSE << >>
  <2>1. node = <<Token("CASE")>> \o when \o otherwise \o <<Token("END")>>
    BY <1>14 DEF WrittenNode
  <2> HIDE DEF every, node
  <2>2. IsTokens(when)
    BY <1>1, <1>3, WhenTokens
  <2>3. n \in 1 .. n
    BY <1>1, <1>14 DEF Arity
  <2>4. IsTokens(otherwise)
    BY <1>3, <2>3, Keywords, TokensConcat, TokensOne
  <2> HIDE DEF when, otherwise
  <2> QED
    BY <2>1, <2>2, <2>4, Keywords, TokensConcat DEF node
<1>15. CASE e.kind = "SubstringExpr"
  <2> DEFINE tail == IF Len(every) = 3 THEN <<Token("FOR")>> \o every[3] ELSE << >>
             inner == IF all THEN Separated(every, "COMMA") ELSE every[1] \o <<Token("FROM")>> \o every[2] \o tail
  <2>1. node = <<Token("SUBSTRING")>> \o Parenthesized(inner)
    BY <1>15 DEF WrittenNode
  <2>2. 1 \in 1 .. Len(e.args) /\ 2 \in 1 .. Len(e.args) /\ (Len(e.args) = 3 => 3 \in 1 .. Len(e.args))
    BY <1>1, <1>15, ArgsCount
  <2> HIDE DEF every, node
  <2>3. IsTokens(Separated(every, "COMMA"))
    BY <1>3, SeparatedTokens DEF IsKeyword
  <2>4. IsTokens(tail)
    BY <1>3, <2>2, Keywords, TokensConcat, TokensOne
  <2> HIDE DEF tail
  <2>5. IsTokens(every[1] \o <<Token("FROM")>> \o every[2] \o tail)
    BY <1>3, <2>2, <2>4, Keywords, TokensConcat
  <2>6. IsTokens(inner)
    BY <2>3, <2>5
  <2> HIDE DEF inner
  <2> QED
    BY <2>1, <2>6, TokensAround, Keywords, TokensConcat DEF node
<1>16. CASE e.kind = "IntervalLiteral"
  <2> DEFINE x == Token("INTERVAL")
             y == Lexeme("STRING_LITERAL", NumeralValue(e.payload.count))
             z == Identifier(e.payload.unit)
  <2>1. node = <<x, y, z>>
    BY <1>16 DEF WrittenNode
  <2>2. \A u, v, w : IsTokens(<<u>>) /\ IsTokens(<<v>>) /\ IsTokens(<<w>>) => IsTokens(<<u, v, w>>)
    BY TokensPair
  <2>3. IsTokens(<<x>>) /\ IsTokens(<<y>>) /\ IsTokens(<<z>>)
    BY Keywords, TextLexemes, IdentifierTokens
  <2> HIDE DEF x, y, z, node
  <2> QED
    BY <2>1, <2>2, <2>3 DEF node
<1> QED
  BY <1>1, <1>5, <1>6, <1>7, <1>8, <1>9, <1>10, <1>11, <1>12, <1>13, <1>14, <1>15, <1>16 DEF MeantKinds, ParsedKinds, Ops

(* So an expression that is written down is a list of tokens.              *)
LEMMA WrittenTokens ==
    ASSUME NEW e, IsExpr(e, MeantKinds), NEW all
    PROVE  IsTokens(Written(e, all))
<1> DEFINE walk(x) == WrittenWalk!Fold(all, x)
           T == {x \in Nodes(e) : IsTokens(walk(x))}
<1>1. ASSUME NEW x \in Nodes(e), IsExpr(x, MeantKinds), \A k \in DOMAIN x.args : x.args[k] \in T
      PROVE  x \in T
  <2> DEFINE tokens == [k \in DOMAIN x.args |-> walk(x.args[k])]
  <2>1. walk(x) = WrittenNode(all, x, tokens)
    BY <1>1, ChildrenNodes, LeastNat, WrittenWalk!FoldStep DEF WrittenWalk!WellOrdered
  <2>2. \A k \in DOMAIN x.args : IsTokens(tokens[k])
    BY <1>1
  <2>3. WellFormed(x, MeantKinds)
    BY <1>1, ExprElim
  <2> HIDE DEF walk, tokens
  <2>4. IsTokens(walk(x))
    BY <2>1, <2>2, <2>3, NodeTokens
  <2> QED
    BY <2>4
<1> HIDE DEF T
<1>2. e \in T
  BY <1>1, ExprInduction
<1>3. IsTokens(walk(e))
  BY <1>2 DEF T
<1> HIDE DEF walk
<1>4. Written(e, all) = walk(e) \/ Written(e, all) = Parenthesized(walk(e))
  BY DEF Written, walk
<1> QED
  BY <1>3, <1>4, TokensAround

LEMMA TabledTokens == \A table : IsTokens(Tabled(table))
<1> TAKE table
<1>1. IsTokens(IF table.alias = NoName THEN << >> ELSE <<Identifier(table.alias)>>)
  BY IdentifierTokens, TokensOne
<1> QED
  BY <1>1, IdentifierTokens, TokensConcat DEF Tabled

LEMMA SelectedTokens ==
    ASSUME NEW item, IsItem(item, MeantKinds), NEW all
    PROVE  IsTokens(Selected(item, all))
<1>1. IsTokens(Written(item.expr, all))
  BY WrittenTokens DEF IsItem
<1>2. IsTokens(<<Token("AS"), Identifier(item.alias)>>)
  BY IdentifierTokens, Keywords, TokensPair
<1>3. IsTokens(IF item.alias = NoName THEN << >> ELSE <<Token("AS"), Identifier(item.alias)>>)
  BY <1>2, TokensOne
<1> QED
  BY <1>1, <1>3, TokensConcat DEF Selected

LEMMA OrderedTokens ==
    ASSUME NEW item, IsKey(item, MeantKinds), NEW all
    PROVE  IsTokens(Ordered(item, all))
<1>1. IsTokens(Written(item.expr, all))
  BY WrittenTokens DEF IsKey
<1>2. IsTokens(IF item.desc THEN <<Token("DESC")>> ELSE << >>)
  BY Keywords, TokensOne
<1> QED
  BY <1>1, <1>2, TokensConcat DEF Ordered

(* The pieces of a statement: an optional one, and a list of them.         *)
Optional(keywords, e, all) == IF e = Nothing THEN << >> ELSE keywords \o Written(e, all)
Listed(keywords, items)    == IF items = << >> THEN << >> ELSE keywords \o Separated(items, "COMMA")

LEMMA OptionalTokens ==
    ASSUME NEW e, IsOptional(e, MeantKinds), NEW keywords, IsTokens(keywords), NEW all
    PROVE  IsTokens(Optional(keywords, e, all))
<1>1. e # Nothing => IsTokens(keywords \o Written(e, all))
  BY WrittenTokens, TokensConcat DEF IsOptional
<1> QED
  BY <1>1, TokensOne DEF Optional

LEMMA ListedTokens ==
    ASSUME NEW s, IsSeq(s), NEW items, items = [n \in DOMAIN s |-> items[n]], \A n \in DOMAIN s : IsTokens(items[n]),
           NEW keywords, IsTokens(keywords)
    PROVE  IsTokens(Listed(keywords, items))
<1>1. IsSeq(items) /\ DOMAIN items = DOMAIN s
  BY MappedSeq
<1>2. IsTokens(Separated(items, "COMMA"))
  BY <1>1, SeparatedTokens DEF IsKeyword
<1> QED
  BY <1>2, TokensConcat, TokensOne DEF Listed

(* A statement that is written down is a list of tokens.                   *)
THEOREM StatementTokensIs ==
    ASSUME NEW s, IsStatement(s, MeantKinds), NEW all
    PROVE  IsTokens(StatementTokens(s, all))
<1> DEFINE select == <<Token("SELECT")>> \o (IF s.distinct THEN <<Token("DISTINCT")>> ELSE << >>)
           items  == [n \in DOMAIN s.select_list |-> Selected(s.select_list[n], all)]
           groups == [n \in DOMAIN s.group_by |-> Written(s.group_by[n], all)]
           orders == [n \in DOMAIN s.order_by |-> Ordered(s.order_by[n], all)]
           head   == IF s.select_star THEN Append(select, Token("STAR")) ELSE Listed(select, items)
           joined == <<Token("JOIN")>> \o Tabled(s.join.table) \o <<Token("ON")>> \o Written(s.join.condition, all)
           join   == IF s.join = Nothing THEN << >> ELSE joined
           where  == Optional(<<Token("WHERE")>>, s.where, all)
           having == Optional(<<Token("HAVING")>>, s.having, all)
           group  == Listed(<<Token("GROUP"), Token("BY")>>, groups)
           order  == Listed(<<Token("ORDER"), Token("BY")>>, orders)
           count  == <<Token("LIMIT"), Lexeme("INT_LITERAL", IntValue(s.limit.count))>>
           limit  == IF s.limit = Nothing THEN << >> ELSE count
<1>1. StatementTokens(s, all) =
          head \o <<Token("FROM")>> \o Tabled(s.from) \o join \o where \o group \o having \o order \o limit
  BY DEF StatementTokens, Optional, Listed
<1>2. IsTokens(select)
  <2>1. IsTokens(IF s.distinct THEN <<Token("DISTINCT")>> ELSE << >>)
    BY Keywords, TokensOne
  <2> QED
    BY <2>1, Keywords, TokensConcat
<1>3. IsTokens(head)
  <2>1. IsTokens(Append(select, Token("STAR")))
    <3>1. IsSeq(select)
      BY <1>2 DEF IsTokens
    <3> HIDE DEF select
    <3>2. Append(select, Token("STAR")) = select \o <<Token("STAR")>>
      BY <3>1 DEF IsSeq
    <3> QED
      BY <1>2, <3>2, Keywords, TokensConcat
  <2>2. IsSeq(s.select_list) /\ \A n \in DOMAIN s.select_list : IsTokens(Selected(s.select_list[n], all))
    BY SelectedTokens DEF IsStatement
  <2>3. items = [n \in DOMAIN s.select_list |-> items[n]]
        /\ \A n \in DOMAIN s.select_list : items[n] = Selected(s.select_list[n], all)
    OBVIOUS
  <2> HIDE DEF select, items
  <2>4. IsTokens(Listed(select, items))
    BY <1>2, <2>2, <2>3, ListedTokens
  <2> QED
    BY <2>1, <2>4
<1>4. IsTokens(group)
  <2>1. IsSeq(s.group_by) /\ \A n \in DOMAIN s.group_by : IsTokens(Written(s.group_by[n], all))
    BY WrittenTokens DEF IsStatement
  <2>2. groups = [n \in DOMAIN s.group_by |-> groups[n]]
        /\ \A n \in DOMAIN s.group_by : groups[n] = Written(s.group_by[n], all)
    OBVIOUS
  <2>3. IsTokens(<<Token("GROUP"), Token("BY")>>)
    BY Keywords, TokensPair
  <2> HIDE DEF groups
  <2> QED
    BY <2>1, <2>2, <2>3, ListedTokens
<1>5. IsTokens(order)
  <2>1. IsSeq(s.order_by) /\ \A n \in DOMAIN s.order_by : IsTokens(Ordered(s.order_by[n], all))
    BY OrderedTokens DEF IsStatement
  <2>2. orders = [n \in DOMAIN s.order_by |-> orders[n]]
        /\ \A n \in DOMAIN s.order_by : orders[n] = Ordered(s.order_by[n], all)
    OBVIOUS
  <2>3. IsTokens(<<Token("ORDER"), Token("BY")>>)
    BY Keywords, TokensPair
  <2> HIDE DEF orders
  <2> QED
    BY <2>1, <2>2, <2>3, ListedTokens
<1>6. IsTokens(where) /\ IsTokens(having)
  BY OptionalTokens, Keywords DEF IsStatement
<1>7. IsTokens(join)
  <2>1. s.join # Nothing => IsTokens(Written(s.join.condition, all))
    BY WrittenTokens DEF IsStatement, IsJoin
  <2>2. s.join # Nothing => IsTokens(joined)
    BY <2>1, TabledTokens, Keywords, TokensConcat
  <2> HIDE DEF joined
  <2> QED
    BY <2>2, TokensOne
<1>8. IsTokens(limit)
  <2>1. s.limit # Nothing => s.limit.count \in Int
    BY DEF IsStatement, IsLimit
  <2>2. s.limit # Nothing => IsTokens(<<Lexeme("INT_LITERAL", IntValue(s.limit.count))>>)
    BY <2>1, TextLexemes
  <2>3. s.limit # Nothing => IsTokens(count)
    BY <2>2, Keywords, TokensPair
  <2> HIDE DEF count
  <2> QED
    BY <2>3, TokensOne
<1> HIDE DEF head, join, where, group, having, order, limit
<1>9. IsTokens(head \o <<Token("FROM")>>)
  BY <1>3, Keywords, TokensConcat
<1>10. IsTokens(head \o <<Token("FROM")>> \o Tabled(s.from))
  BY <1>9, TabledTokens, TokensConcat
<1>11. IsTokens(head \o <<Token("FROM")>> \o Tabled(s.from) \o join \o where)
  BY <1>6, <1>7, <1>10, TokensConcat
<1>12. IsTokens(head \o <<Token("FROM")>> \o Tabled(s.from) \o join \o where \o group \o having)
  BY <1>4, <1>6, <1>11, TokensConcat
<1> QED
  BY <1>1, <1>5, <1>8, <1>12, TokensConcat
=============================================================================
