--------------------------- MODULE StatementProofs ---------------------------
(***************************************************************************)
(* Proofs about the life of a statement, for every statement, tree, text   *)
(* and row: what planning typed is on every row of its type, or NULL, or   *)
(* raises as arithmetic and SUBSTRING may.                                 *)
(*                                                                         *)
(* Binding and folding turn expressions into expressions, and none of the  *)
(* types that InferExprType gives is contradicted by Evaluate; both by     *)
(* induction on trees, TreeFold's TreeInduction.  The invariant says what  *)
(* a statement is at each stage, and which outcomes its rows have had.     *)
(*                                                                         *)
(* Last, what is read above the aggregation: each of its columns holds a   *)
(* column of a table or what is computed under its name, and by induction  *)
(* on trees an expression whose group keys were replaced reads the columns *)
(* it names.                                                               *)
(***************************************************************************)
EXTENDS Statement, ParserProofs

-----------------------------------------------------------------------------
(* What evaluation returns.                                                *)

Types == {"INT", "DOUBLE", "STRING"}

ScalarErrors == {"overflow", "start", "length"}
AnyError     == ScalarErrors \cup {"type", "interval"}

Faulty(v, errors) == v = Raise(v.why) /\ v.why \in errors

(* A value a column of type t may hold, or one of some errors.             *)
Good(v, t, errors) ==
    \/ Faulty(v, errors)
    \/ v = NullValue
    \/ v = IntValue(v.num) /\ t \in {"INT", "DOUBLE"}
    \/ v = DoubleValue(v.num, v.den) /\ t = "DOUBLE"
    \/ v.type = "STRING" /\ t = "STRING"

(* A value of any type, or any error but an unknown column.                *)
Anything(v) == \E t \in Types : Good(v, t, AnyError)

LEMMA GoodTypes ==
    ASSUME NEW v, NEW t, NEW errors, Good(v, t, errors)
    PROVE  /\ v.type \in {"RAISED", "NULL"} \cup Types
           /\ v.type = "RAISED" <=> Faulty(v, errors)
           /\ v.type = "RAISED" => v.why \in errors
           /\ v.type = "NULL" => v = NullValue
           /\ v.type = "INT" => v = IntValue(v.num) /\ t \in {"INT", "DOUBLE"}
           /\ v.type = "DOUBLE" => v = DoubleValue(v.num, v.den) /\ t = "DOUBLE"
           /\ v.type = "STRING" => t = "STRING"
BY DEF Good, Faulty, Raise, NullValue, IntValue, DoubleValue, Types

LEMMA GoodIntro ==
    ASSUME NEW t, NEW errors
    PROVE  /\ Good(NullValue, t, errors)
           /\ \A n : t \in {"INT", "DOUBLE"} => Good(IntValue(n), t, errors)
           /\ \A why \in errors : Good(Raise(why), t, errors)
           /\ \A v : Raises(v) => \A u : Good(v, u, errors) => Good(v, t, errors)
<1>1. Good(NullValue, t, errors)
  BY DEF Good
<1>2. ASSUME NEW n, t \in {"INT", "DOUBLE"} PROVE Good(IntValue(n), t, errors)
  BY <1>2 DEF Good, IntValue
<1>3. ASSUME NEW why \in errors PROVE Good(Raise(why), t, errors)
  BY DEF Good, Faulty, Raise
<1>4. ASSUME NEW v, Raises(v), NEW u, Good(v, u, errors) PROVE Good(v, t, errors)
  BY <1>4, GoodTypes DEF Raises, Good
<1> QED
  BY <1>1, <1>2, <1>3, <1>4

LEMMA SmallGood ==
    ASSUME NEW t \in {"INT", "DOUBLE"}, NEW errors, NEW v,
           \/ v \in {NullValue, IntValue(0), IntValue(1)} \/ (v = Raise("type") /\ "type" \in errors)
    PROVE  Good(v, t, errors)
<1>1. /\ Good(NullValue, t, errors)
      /\ \A n : t \in {"INT", "DOUBLE"} => Good(IntValue(n), t, errors)
      /\ \A why \in errors : Good(Raise(why), t, errors)
  BY GoodIntro, Zenon
<1>2. Good(IntValue(0), t, errors) /\ Good(IntValue(1), t, errors)
  BY <1>1
<1>3. "type" \in errors => Good(Raise("type"), t, errors)
  BY <1>1, Zenon
<1> QED
  BY <1>1, <1>2, <1>3, Zenon

LEMMA GoodMore ==
    ASSUME NEW v, NEW t, NEW errors, Good(v, t, errors), NEW more, errors \subseteq more
    PROVE  Good(v, t, more)
BY DEF Good, Faulty

LEMMA AnyTypes ==
    ASSUME NEW v, Anything(v)
    PROVE  /\ v.type \in {"RAISED", "NULL"} \cup Types
           /\ v.type = "RAISED" => Faulty(v, AnyError)
           /\ v.type = "NULL" => v = NullValue
           /\ v.type = "INT" => v = IntValue(v.num)
           /\ v.type = "DOUBLE" => v = DoubleValue(v.num, v.den)
BY GoodTypes DEF Anything

LEMMA AnyIntro ==
    /\ \A why \in AnyError : Anything(Raise(why))
    /\ Anything(NullValue)
    /\ \A n : Anything(IntValue(n))
    /\ \A n, d : Anything(DoubleValue(n, d))
    /\ \A v : v.type = "STRING" => Anything(v)
<1>1. ASSUME NEW why \in AnyError PROVE Good(Raise(why), "INT", AnyError)
  BY DEF Good, Faulty, Raise
<1>2. Good(NullValue, "INT", AnyError)
  BY DEF Good
<1>3. ASSUME NEW n PROVE Good(IntValue(n), "INT", AnyError)
  BY DEF Good, IntValue
<1>4. ASSUME NEW n, NEW d PROVE Good(DoubleValue(n, d), "DOUBLE", AnyError)
  BY DEF Good, DoubleValue
<1>5. ASSUME NEW v, v.type = "STRING" PROVE Good(v, "STRING", AnyError)
  BY <1>5 DEF Good
<1>6. {"INT", "DOUBLE", "STRING"} \subseteq Types
  BY DEF Types
<1> QED
  BY <1>1, <1>2, <1>3, <1>4, <1>5, <1>6 DEF Anything

LEMMA GoodAny ==
    ASSUME NEW v, NEW t \in Types, NEW errors, Good(v, t, errors), errors \subseteq AnyError
    PROVE  Anything(v)
BY GoodMore DEF Anything

LEMMA TruthValue ==
    ASSUME NEW b
    PROVE  Truth(b) \in {IntValue(0), IntValue(1)}
BY DEF Truth

(* Checked arithmetic.                                                     *)
LEMMA CheckedGood ==
    ASSUME NEW n, NEW t \in {"INT", "DOUBLE"}, NEW errors, "overflow" \in errors
    PROVE  Good(Checked(n), t, errors)
<1>1. Checked(n) = IntValue(n) \/ Checked(n) = Raise("overflow")
  BY DEF Checked
<1> QED
  BY <1>1 DEF Good, Faulty, Raise, IntValue

LEMMA RationalGood ==
    ASSUME NEW n, NEW d, NEW errors
    PROVE  Good(Rational(n, d), "DOUBLE", errors)
<1> DEFINE gcd == (CHOOSE gcd : gcd = [a, b \in Nat |-> IF b = 0 THEN a ELSE gcd[b, a % b]])[Abs(n), Abs(d)]
           x == (IF d < 0 THEN - n ELSE n) \div gcd
           y == Abs(d) \div gcd
<1>1. Rational(n, d) = DoubleValue(x, y)
  BY DEF Rational
<1> HIDE DEF x, y
<1> QED
  BY <1>1 DEF Good, DoubleValue

LEMMA ArithmeticGood ==
    ASSUME NEW op \in ArithOps, NEW l, NEW r, NEW t \in {"INT", "DOUBLE"}, NEW errors,
           Good(l, t, {}), Good(r, t, {}), ~ IsNull(l), ~ IsNull(r), "overflow" \in errors
    PROVE  Good(Arithmetic(op, l, r), t, errors)
<1>1. l.type \in {"INT", "DOUBLE"} /\ r.type \in {"INT", "DOUBLE"}
  BY GoodTypes DEF IsNull, Types
<1>2. CASE op = "/" /\ r.num = 0
  <2>1. Arithmetic(op, l, r) = NullValue
    BY <1>1, <1>2 DEF Arithmetic
  <2> QED
    BY <2>1 DEF Good
<1>3. CASE ~ (op = "/" /\ r.num = 0) /\ l.type = "INT" /\ r.type = "INT"
  <2>1. \E n : Arithmetic(op, l, r) = Checked(n)
    BY <1>1, <1>3 DEF Arithmetic
  <2> QED
    BY <2>1, CheckedGood
<1>4. CASE ~ (op = "/" /\ r.num = 0) /\ ~ (l.type = "INT" /\ r.type = "INT")
  <2>1. t = "DOUBLE"
    BY <1>1, <1>4, GoodTypes
  <2>2. \E n, d : Arithmetic(op, l, r) = Rational(n, d)
    BY <1>1, <1>4, Zenon DEF Arithmetic, ArithOps
  <2> QED
    BY <2>1, <2>2, RationalGood
<1> QED
  BY <1>2, <1>3, <1>4

LEMMA ArithmeticAny ==
    ASSUME NEW op \in ArithOps, NEW l, NEW r, Anything(l), Anything(r), ~ Raises(l), ~ Raises(r), ~ IsNull(l), ~ IsNull(r)
    PROVE  Anything(Arithmetic(op, l, r))
<1>1. CASE "STRING" \in {l.type, r.type}
  <2>1. Arithmetic(op, l, r) = Raise("type")
    BY <1>1 DEF Arithmetic
  <2> QED
    BY <2>1, AnyIntro DEF AnyError
<1>2. CASE "STRING" \notin {l.type, r.type}
  <2>1. Good(l, "DOUBLE", {}) /\ Good(r, "DOUBLE", {})
    BY <1>2, AnyTypes DEF Raises, IsNull, Types, Good
  <2>2. Good(Arithmetic(op, l, r), "DOUBLE", {"overflow"})
    BY <2>1, ArithmeticGood
  <2> QED
    BY <2>2, GoodAny DEF Types, AnyError, ScalarErrors
<1> QED
  BY <1>1, <1>2

-----------------------------------------------------------------------------
(* The operators, whatever their operands are.                             *)

LEMMA ComparedForm ==
    ASSUME NEW op, NEW l, NEW r
    PROVE  IF (l.type = "STRING") # (r.type = "STRING") THEN Compared(op, l, r) = Raise("type")
           ELSE Compared(op, l, r) \in {IntValue(0), IntValue(1)}
<1>1. CASE (l.type = "STRING") # (r.type = "STRING")
  BY <1>1 DEF Compared
<1>2. CASE ~ ((l.type = "STRING") # (r.type = "STRING"))
  <2>1. \E b : Compared(op, l, r) = Truth(b)
    BY <1>2, Zenon DEF Compared
  <2> QED
    BY <1>2, <2>1, TruthValue
<1> QED
  BY <1>1, <1>2

LEMMA LogicalForm ==
    ASSUME NEW op, NEW l, NEW r
    PROVE  IF {l.type, r.type} \cap {"STRING", "DOUBLE"} # {} THEN Logical(op, l, r) = Raise("type")
           ELSE Logical(op, l, r) \in {NullValue, IntValue(0), IntValue(1)}
BY TruthValue DEF Logical

LEMMA BinaryForm ==
    ASSUME NEW op, NEW l, NEW r
    PROVE  \/ Raises(l) /\ Binary(op, l, r) = l
           \/ ~ Raises(l) /\ Raises(r) /\ Binary(op, l, r) = r
           \/ /\ ~ Raises(l) /\ ~ Raises(r)
              /\ \/ op \in {"AND", "OR"} /\ Binary(op, l, r) = Logical(op, l, r)
                 \/ /\ op \notin {"AND", "OR"} /\ (IsNull(l) \/ IsNull(r))
                    /\ Binary(op, l, r) = NullValue
                 \/ /\ op \in CompareOps /\ ~ IsNull(l) /\ ~ IsNull(r)
                    /\ Binary(op, l, r) = Compared(op, l, r)
                 \/ /\ op \notin CompareOps \cup {"AND", "OR"} /\ ~ IsNull(l) /\ ~ IsNull(r)
                    /\ Binary(op, l, r) = Arithmetic(op, l, r)
BY DEF Binary

LEMMA BinaryAny ==
    ASSUME NEW op \in Ops["BinaryExpr"], NEW l, NEW r, Anything(l), Anything(r)
    PROVE  Anything(Binary(op, l, r))
<1>1. op \in ArithOps \cup CompareOps \cup {"AND", "OR"}
  BY DEF Ops
<1>2. Anything(Raise("type")) /\ Anything(NullValue) /\ Anything(IntValue(0)) /\ Anything(IntValue(1))
  BY AnyIntro DEF AnyError
<1>3. Anything(Logical(op, l, r)) /\ Anything(Compared(op, l, r))
  BY <1>2, LogicalForm, ComparedForm
<1>4. ~ Raises(l) /\ ~ Raises(r) /\ ~ IsNull(l) /\ ~ IsNull(r) /\ op \in ArithOps => Anything(Arithmetic(op, l, r))
  BY ArithmeticAny
<1> QED
  BY <1>1, <1>2, <1>3, <1>4, BinaryForm

LEMMA NegatedAny ==
    ASSUME NEW v, Anything(v)
    PROVE  Anything(Negated(v))
<1>1. CASE v.type \in {"NULL", "RAISED"}
  BY <1>1 DEF Negated
<1>2. CASE v.type = "STRING"
  <2>1. Negated(v) = Raise("type")
    BY <1>2 DEF Negated
  <2> QED
    BY <2>1, AnyIntro DEF AnyError
<1>3. CASE v.type = "INT"
  <2>1. Negated(v) = Checked(- v.num)
    BY <1>3 DEF Negated
  <2>2. Good(Negated(v), "INT", {"overflow"})
    BY <2>1, CheckedGood
  <2> QED
    BY <2>2, GoodAny DEF Types, AnyError, ScalarErrors
<1>4. CASE v.type = "DOUBLE"
  <2>1. v = DoubleValue(v.num, v.den) /\ Negated(v) = [v EXCEPT !.num = - @]
    BY <1>4, AnyTypes DEF Negated
  <2>2. Negated(v) = DoubleValue(- v.num, v.den)
    BY <2>1 DEF DoubleValue
  <2> QED
    BY <2>2, AnyIntro
<1> QED
  BY <1>1, <1>2, <1>3, <1>4, AnyTypes DEF Types

LEMMA NotForm ==
    ASSUME NEW v
    PROVE  IF v.type = "INT" THEN Not(v) \in {IntValue(0), IntValue(1)} ELSE Not(v) = v
BY TruthValue DEF Not

LEMMA AmongForm ==
    ASSUME NEW v, NEW values, IsSeq(values)
    PROVE  \/ v.type \in {"NULL", "RAISED"} /\ Among(v, values) = v
           \/ /\ v.type \notin {"NULL", "RAISED"}
              /\ \/ Among(v, values) \in {IntValue(0), IntValue(1)}
                 \/ /\ Among(v, values) = Raise("type")
                    /\ \E n \in DOMAIN values : (v.type = "STRING") # (values[n].type = "STRING")
<1> DEFINE decides(n) == Compared("=", v, values[n]) # Truth(FALSE)
           D == {n \in DOMAIN values : decides(n)}
           n == CHOOSE n \in DOMAIN values : decides(n) /\ \A k \in 1 .. n - 1 : ~ decides(k)
<1>1. CASE v.type \in {"NULL", "RAISED"}
  BY <1>1 DEF Among
<1>2. CASE v.type \notin {"NULL", "RAISED"} /\ D = {}
  <2>1. Among(v, values) = Truth(FALSE)
    BY <1>2 DEF Among
  <2> QED
    BY <1>2, <2>1, TruthValue
<1>3. CASE v.type \notin {"NULL", "RAISED"} /\ D # {}
  <2>1. Len(values) \in Nat /\ DOMAIN values = 1 .. Len(values)
    BY SeqFacts
  <2>2. PICK m \in D : \A k \in D : m <= k
    <3> HIDE DEF decides
    <3>1. D \in SUBSET Nat
      BY <2>1
    <3> HIDE DEF D
    <3> QED
      BY <1>3, <3>1, LeastNat
  <2>3. decides(m) /\ \A k \in 1 .. m - 1 : ~ decides(k)
    <3> HIDE DEF decides
    <3> QED
      BY <2>1, <2>2
  <2>4. Among(v, values) = Compared("=", v, values[n])
    BY <1>3 DEF Among
  <2>5. n \in DOMAIN values
    <3> HIDE DEF decides
    <3> QED
      BY <2>2, <2>3
  <2> HIDE DEF n
  <2> QED
    BY <1>3, <2>4, <2>5, ComparedForm
<1> HIDE DEF D
<1> QED
  BY <1>1, <1>2, <1>3

LEMMA LikeForm ==
    ASSUME NEW v, NEW pattern
    PROVE  \/ v.type \in {"NULL", "RAISED"} /\ Like(v, pattern) = v
           \/ v.type = "STRING" /\ Like(v, pattern) \in {IntValue(0), IntValue(1)}
           \/ v.type \notin {"NULL", "RAISED", "STRING"} /\ Like(v, pattern) = Raise("type")
BY TruthValue DEF Like

LEMMA SubstringOfForm ==
    ASSUME NEW s, NEW start, NEW length
    PROVE  \/ SubstringOf(s, start, length) \in {Raise("start"), Raise("length")}
           \/ SubstringOf(s, start, length).type = "STRING"
BY DEF SubstringOf, WordValue

(* SUBSTRING fails like its first operand that fails, or is a text, or     *)
(* finds a wrong type.                                                     *)
LEMMA SubstringForm ==
    ASSUME NEW s, NEW start, NEW length,
           NEW args, args = IF length = Nothing THEN <<s, start>> ELSE <<s, start, length>>
    PROVE  \/ \E n \in DOMAIN args : Raises(args[n]) /\ Substring(s, start, length) = args[n]
           \/ Substring(s, start, length) \in {NullValue, Raise("start"), Raise("length")}
           \/ Substring(s, start, length).type = "STRING"
           \/ /\ Substring(s, start, length) = Raise("type")
              /\ \A n \in DOMAIN args : ~ Raises(args[n]) /\ ~ IsNull(args[n])
              /\ s.type # "STRING" \/ \E n \in DOMAIN args \ {1} : args[n].type # "INT"
<1> DEFINE raised == {n \in DOMAIN args : Raises(args[n])}
           m == CHOOSE n \in raised : \A k \in raised : n <= k
<1>1. DOMAIN args \in SUBSET Nat
  BY DEF Nothing
<1>2. CASE raised # {}
  <2>1. Substring(s, start, length) = args[m]
    BY <1>2 DEF Substring
  <2>2. m \in raised
    <3>1. raised \in SUBSET Nat
      BY <1>1
    <3> HIDE DEF raised
    <3>2. \E n \in raised : \A k \in raised : n <= k
      BY <1>2, <3>1, LeastNat
    <3> QED
      BY <3>2
  <2> HIDE DEF m
  <2> QED
    BY <2>1, <2>2
<1>3. CASE raised = {}
  BY <1>3, SubstringOfForm DEF Substring
<1> HIDE DEF raised
<1> QED
  BY <1>2, <1>3

LEMMA FirstFacts ==
    ASSUME NEW S \in SUBSET (Nat \ {0})
    PROVE  IF S = {} THEN First(S) = 0 ELSE First(S) \in S /\ First(S) # 0 /\ \A k \in S : First(S) <= k
<1>1. CASE S = {}
  BY <1>1 DEF First
<1>2. CASE S # {}
  <2>1. \E n \in S : \A k \in S : n <= k
    BY <1>2, LeastNat
  <2> QED
    BY <1>2, <2>1 DEF First
<1> QED
  BY <1>1, <1>2

(* CASE is NULL, or what a condition raises, or an error of a condition of *)
(* a wrong type, or the value of a branch.                                 *)
Conditions(e) == {n \in DOMAIN e.args : n % 2 = 1 /\ n < Len(e.args)}

LEMMA OddNotZero == \A n \in Nat : n % 2 = 1 => n # 0
OBVIOUS

LEMMA CaseForm ==
    ASSUME NEW e, IsSeq(e.args), NEW value
    PROVE  \/ CaseValue(e, value) = NullValue
           \/ \E n \in Conditions(e) :
                 \/ Raises(value[n]) /\ CaseValue(e, value) = value[n]
                 \/ value[n].type \in {"STRING", "DOUBLE"} /\ CaseValue(e, value) = Raise("type")
           \/ \E n \in DOMAIN e.args \ Conditions(e) : CaseValue(e, value) = value[n]
<1> DEFINE stop(n) == ~ IsNull(value[n]) /\ value[n] # Truth(FALSE)
           stops == {n \in Conditions(e) : stop(n)}
           first == First(stops)
<1>1. Len(e.args) \in Nat /\ DOMAIN e.args = 1 .. Len(e.args)
  BY SeqFacts
<1>2. CaseValue(e, value) =
        IF stops = {} THEN IF Len(e.args) % 2 = 1 THEN value[Len(e.args)] ELSE NullValue
        ELSE IF Raises(value[first]) THEN value[first]
        ELSE IF value[first].type \in {"STRING", "DOUBLE"} THEN Raise("type")
        ELSE value[first + 1]
  BY DEF CaseValue, Conditions
<1> HIDE DEF stop
<1>3. stops \in SUBSET (Nat \ {0})
  BY <1>1 DEF Conditions
<1>4. stops # {} => first \in stops
  <2> HIDE DEF stops
  <2> QED
    BY <1>3, FirstFacts
<1>5. CASE stops = {}
  <2>1. Len(e.args) % 2 = 1 => Len(e.args) \in DOMAIN e.args \ Conditions(e)
    <3>1. Len(e.args) % 2 = 1 => Len(e.args) # 0
      BY <1>1, OddNotZero
    <3>2. Len(e.args) \notin Conditions(e)
      BY <1>1 DEF Conditions
    <3> HIDE DEF stops
    <3> QED
      BY <1>1, <3>1, <3>2
  <2> QED
    BY <1>2, <1>5, <2>1
<1>6. CASE stops # {}
  <2>1. first \in Conditions(e)
    <3> HIDE DEF first
    <3> QED
      BY <1>4, <1>6
  <2>2. first + 1 \in DOMAIN e.args \ Conditions(e)
    <3> HIDE DEF stops, first
    <3> QED
      BY <1>1, <2>1 DEF Conditions
  <2> HIDE DEF stops, first
  <2> QED
    BY <1>2, <1>6, <2>1, <2>2
<1> QED
  BY <1>5, <1>6

-----------------------------------------------------------------------------
(* A node, from its children.                                              *)

(* A row has in each column a value of its type, or NULL.                  *)
RowFits(on) ==
    \A n \in DOMAIN on.schema : on.schema[n].type \in Types /\ Good(on.row[n], on.schema[n].type, {})

(* A node that reads a column of the row, or none.                         *)
Readable(e, schema) ==
    /\ e.kind # "AggregateExpr"
    /\ e.kind = "ColumnRef" => IndexRead(e, schema) # 0 /\ IndexRead(e, schema) \in DOMAIN schema

MaybeNot(op, v) == IF op \in {"NOT IN", "NOT LIKE"} THEN Not(v) ELSE v

LEMMA MaybeNotForm ==
    ASSUME NEW v, NEW op
    PROVE  IF v.type = "INT" THEN MaybeNot(op, v) \in {v, IntValue(0), IntValue(1)} ELSE MaybeNot(op, v) = v
<1>1. MaybeNot(op, v) \in {Not(v), v}
  BY Zenon DEF MaybeNot
<1> QED
  BY <1>1, NotForm

LEMMA EvaluateAny ==
    ASSUME NEW on, RowFits(on), NEW e, WellFormed(e, ParsedKinds), Readable(e, on.schema),
           NEW value, \A n \in DOMAIN e.args : Anything(value[n])
    PROVE  Anything(EvaluateNode(on, e, value))
<1>1. Anything(Raise("type")) /\ Anything(Raise("interval")) /\ Anything(Raise("start")) /\ Anything(Raise("length"))
      /\ Anything(NullValue) /\ Anything(IntValue(0)) /\ Anything(IntValue(1))
  BY AnyIntro DEF AnyError, ScalarErrors
<1>2. e.kind \in {"ColumnRef", "Literal", "IntervalLiteral", "BinaryExpr", "UnaryExpr", "IsNullExpr",
                  "LikeExpr", "InExpr", "CaseExpr", "SubstringExpr"}
  BY DEF WellFormed, ParsedKinds, Ops, Readable
<1>3. /\ IsSeq(e.args)
      /\ e.kind \in {"BinaryExpr", "UnaryExpr", "IsNullExpr", "InExpr", "LikeExpr", "SubstringExpr"} => Anything(value[1])
      /\ e.kind \in {"BinaryExpr", "SubstringExpr"} => Anything(value[2])
      /\ e.kind = "SubstringExpr" /\ Len(e.args) = 3 => Anything(value[3])
  BY ArgsCount
<1>4. CASE e.kind = "Literal"
  <2>1. IsValue(e.payload) /\ EvaluateNode(on, e, value) = e.payload
    BY <1>4 DEF WellFormed, IsPayload, EvaluateNode
  <2> QED
    BY <2>1, AnyIntro DEF IsValue, IsText
<1>5. CASE e.kind = "ColumnRef"
  <2> DEFINE n == IndexRead(e, on.schema)
  <2>1. n \in DOMAIN on.schema /\ EvaluateNode(on, e, value) = on.row[n]
    BY <1>5 DEF Readable, EvaluateNode
  <2> QED
    BY <2>1, GoodAny DEF RowFits
<1>6. CASE e.kind = "BinaryExpr"
  <2>1. EvaluateNode(on, e, value) = Binary(e.op, value[1], value[2]) /\ e.op \in Ops["BinaryExpr"]
    BY <1>6 DEF EvaluateNode, WellFormed
  <2>2. Anything(value[1]) /\ Anything(value[2])
    BY <1>3, <1>6
  <2> QED
    BY <2>1, <2>2, BinaryAny
<1>7. CASE e.kind = "UnaryExpr"
  <2>1. EvaluateNode(on, e, value) = Negated(value[1]) /\ Anything(value[1])
    BY <1>3, <1>7 DEF EvaluateNode
  <2> QED
    BY <2>1, NegatedAny
<1>8. CASE e.kind = "IsNullExpr"
  <2>1. \/ EvaluateNode(on, e, value) = value[1]
        \/ \E b : EvaluateNode(on, e, value) = Truth(b)
    BY <1>8, Zenon DEF EvaluateNode
  <2> QED
    BY <1>1, <1>3, <1>8, <2>1, TruthValue
<1>9. CASE e.kind = "InExpr"
  <2> DEFINE v == Among(value[1], e.payload.values)
  <2>1. EvaluateNode(on, e, value) = MaybeNot(e.op, v)
    BY <1>9, Zenon DEF EvaluateNode, MaybeNot
  <2>2. IsSeq(e.payload.values) /\ Anything(value[1])
    BY <1>3, <1>9 DEF WellFormed, IsPayload
  <2>3. Anything(v)
    BY <1>1, <2>2, AmongForm
  <2> HIDE DEF v
  <2> QED
    BY <1>1, <2>1, <2>3, MaybeNotForm
<1>10. CASE e.kind = "LikeExpr"
  <2> DEFINE v == Like(value[1], e.payload)
  <2>1. EvaluateNode(on, e, value) = MaybeNot(e.op, v)
    BY <1>10, Zenon DEF EvaluateNode, MaybeNot
  <2>3. Anything(v)
    BY <1>1, <1>3, <1>10, LikeForm
  <2> HIDE DEF v
  <2> QED
    BY <1>1, <2>1, <2>3, MaybeNotForm
<1>11. CASE e.kind = "CaseExpr"
  <2>1. EvaluateNode(on, e, value) = CaseValue(e, value)
    BY <1>11 DEF EvaluateNode
  <2> QED
    BY <1>1, <1>3, <2>1, CaseForm DEF Conditions
<1>12. CASE e.kind = "SubstringExpr"
  <2> DEFINE length == IF Len(e.args) = 3 THEN value[3] ELSE Nothing
             args == IF length = Nothing THEN <<value[1], value[2]>> ELSE <<value[1], value[2], length>>
  <2>1. EvaluateNode(on, e, value) = Substring(value[1], value[2], length)
    BY <1>12 DEF EvaluateNode
  <2>2. Anything(value[1]) /\ Anything(value[2]) /\ (length = Nothing \/ Anything(length))
    BY <1>3, <1>12
  <2>3. \A n \in DOMAIN args : Anything(args[n])
    BY <2>2
  <2> HIDE DEF length
  <2>4. \/ \E n \in DOMAIN args : Substring(value[1], value[2], length) = args[n]
        \/ Substring(value[1], value[2], length) \in {NullValue, Raise("start"), Raise("length"), Raise("type")}
        \/ Substring(value[1], value[2], length).type = "STRING"
    BY SubstringForm
  <2> HIDE DEF args
  <2> QED
    BY <1>1, <2>1, <2>3, <2>4, AnyIntro
<1>13. CASE e.kind = "IntervalLiteral"
  <2>1. EvaluateNode(on, e, value) = Raise("interval")
    BY <1>13 DEF EvaluateNode
  <2> QED
    BY <1>1, <2>1
<1> QED
  BY <1>2, <1>4, <1>5, <1>6, <1>7, <1>8, <1>9, <1>10, <1>11, <1>12, <1>13

(* Which types are inferred, when one is.                                  *)
TypesOf(e, type) == {type[n] : n \in DOMAIN e.args}

InferFormed(schema, e, type) ==
    /\ e.kind = "Literal" => InferNode(schema, e, type) = e.payload.type
    /\ e.kind = "IsNullExpr" => InferNode(schema, e, type) = "INT"
    /\ e.kind = "ColumnRef" => InferNode(schema, e, type) = schema[IndexRead(e, schema)].type
    /\ e.kind # "IntervalLiteral"
    /\ e.kind \in {"UnaryExpr", "BinaryExpr", "InExpr", "LikeExpr", "CaseExpr", "SubstringExpr"} =>
          IllTyped \notin TypesOf(e, type)
    /\ e.kind = "UnaryExpr" =>
          InferNode(schema, e, type) = type[1] /\ "STRING" \notin TypesOf(e, type)
    /\ e.kind = "BinaryExpr" =>
          IF e.op \in ArithOps
          THEN "STRING" \notin TypesOf(e, type) /\ InferNode(schema, e, type) = Promoted(TypesOf(e, type))
          ELSE InferNode(schema, e, type) = "INT"
    /\ e.kind = "InExpr" =>
          /\ InferNode(schema, e, type) = "INT"
          /\ \A n \in DOMAIN e.payload.values : (e.payload.values[n].type = "STRING") = (type[1] = "STRING")
    /\ e.kind = "LikeExpr" => TypesOf(e, type) = {"STRING"} /\ InferNode(schema, e, type) = "INT"
    /\ e.kind = "CaseExpr" =>
          /\ \A n \in Conditions(e) : type[n] = "INT"
          /\ InferNode(schema, e, type) = Unified({type[n] : n \in DOMAIN e.args \ Conditions(e)})
    /\ e.kind = "SubstringExpr" =>
          /\ type[1] = "STRING" /\ \A n \in DOMAIN e.args \ {1} : type[n] = "INT"
          /\ InferNode(schema, e, type) = "STRING"

LEMMA InferForm ==
    ASSUME NEW schema, NEW e, WellFormed(e, ParsedKinds), Readable(e, schema), NEW type,
           InferNode(schema, e, type) # IllTyped
    PROVE  InferFormed(schema, e, type)
<1> DEFINE t == InferNode(schema, e, type)
<1>1. e.kind = "Literal" => t = e.payload.type
  BY DEF InferNode
<1>2. e.kind = "IsNullExpr" => t = "INT"
  BY DEF InferNode
<1>3. e.kind = "ColumnRef" => t = schema[IndexRead(e, schema)].type
  BY DEF InferNode, Readable
<1>4. e.kind \in {"UnaryExpr", "BinaryExpr", "InExpr", "LikeExpr", "CaseExpr", "SubstringExpr"} =>
         IllTyped \notin TypesOf(e, type)
  BY DEF InferNode, TypesOf
<1>5. e.kind # "IntervalLiteral"
  BY DEF InferNode
<1>6. e.kind = "UnaryExpr" => t = type[1] /\ "STRING" \notin TypesOf(e, type)
  BY DEF InferNode, TypesOf
<1>7. e.kind = "BinaryExpr" =>
         IF e.op \in ArithOps THEN "STRING" \notin TypesOf(e, type) /\ t = Promoted(TypesOf(e, type)) ELSE t = "INT"
  BY DEF InferNode, TypesOf
<1>8. e.kind = "InExpr" =>
         /\ t = "INT"
         /\ \A n \in DOMAIN e.payload.values : (e.payload.values[n].type = "STRING") = (type[1] = "STRING")
  BY DEF InferNode, TypesOf
<1>9. e.kind = "LikeExpr" => TypesOf(e, type) = {"STRING"} /\ t = "INT"
  BY DEF InferNode, TypesOf
<1>10. e.kind = "CaseExpr" =>
         /\ \A n \in Conditions(e) : type[n] = "INT"
         /\ t = Unified({type[n] : n \in DOMAIN e.args \ Conditions(e)})
  BY DEF InferNode, TypesOf, Conditions
<1>11. e.kind = "SubstringExpr" =>
         /\ type[1] = "STRING" /\ \A n \in DOMAIN e.args \ {1} : type[n] = "INT"
         /\ t = "STRING"
  BY DEF InferNode, TypesOf
<1> HIDE DEF t
<1> QED
  BY <1>1, <1>2, <1>3, <1>4, <1>5, <1>6, <1>7, <1>8, <1>9, <1>10, <1>11 DEF t, InferFormed

(* The errors that planning leaves to a node and its children.             *)
Errors(e, type, lenient) ==
    ScalarErrors
    \cup (IF \/ /\ e.kind = "BinaryExpr" /\ e.op \in CompareOps
                /\ (type[1] = "STRING") # (type[2] = "STRING")
             \/ /\ e.kind = "BinaryExpr" /\ e.op \in {"AND", "OR"}
                /\ type[1] # "INT" \/ type[2] # "INT"
          THEN {"type"} ELSE IF e.kind = "IsNullExpr" /\ type[1] = IllTyped THEN {"type", "interval"} ELSE {})
    \cup UNION {lenient[n] : n \in DOMAIN e.args}

BinaryType(op, tl, tr) == IF op \in ArithOps THEN Promoted({tl, tr}) ELSE "INT"

LEMMA BinaryGood ==
    ASSUME NEW op \in ArithOps \cup CompareOps \cup {"AND", "OR"}, NEW errors, "overflow" \in errors,
           NEW l, NEW tl \in Types, Good(l, tl, errors), NEW r, NEW tr \in Types, Good(r, tr, errors),
           (tl = "STRING") # (tr = "STRING") /\ op \in CompareOps => "type" \in errors,
           (tl # "INT" \/ tr # "INT") /\ op \in {"AND", "OR"} => "type" \in errors,
           op \in ArithOps => tl # "STRING" /\ tr # "STRING"
    PROVE  BinaryType(op, tl, tr) \in Types /\ Good(Binary(op, l, r), BinaryType(op, tl, tr), errors)
<1> DEFINE v == Binary(op, l, r)
           t == BinaryType(op, tl, tr)
<1>0. t = IF op \in ArithOps THEN Promoted({tl, tr}) ELSE "INT"
  BY DEF BinaryType
<1> HIDE DEF t
<1>1. t \in {"INT", "DOUBLE"} /\ t \in Types
  BY <1>0 DEF Promoted, Types
<1>2. CASE Raises(l)
  <2>1. v = l
    BY <1>2, BinaryForm
  <2> QED
    BY <1>1, <1>2, <2>1, GoodIntro DEF t
<1>3. CASE ~ Raises(l) /\ Raises(r)
  <2>1. v = r
    BY <1>3, BinaryForm
  <2> QED
    BY <1>1, <1>3, <2>1, GoodIntro DEF t
<1>4. CASE ~ Raises(l) /\ ~ Raises(r) /\ op \in {"AND", "OR"}
  <2>1. v = Logical(op, l, r)
    BY <1>4 DEF Binary
  <2>2. {l.type, r.type} \cap {"STRING", "DOUBLE"} # {} => "type" \in errors
    BY <1>4, GoodTypes DEF Types
  <2>3. v \in {NullValue, IntValue(0), IntValue(1)} \/ (v = Raise("type") /\ "type" \in errors)
    BY <2>1, <2>2, LogicalForm
  <2> QED
    BY <1>1, <2>3, SmallGood DEF t
<1>5. CASE ~ Raises(l) /\ ~ Raises(r) /\ op \in CompareOps
  <2>1. v = NullValue \/ (~ IsNull(l) /\ ~ IsNull(r) /\ v = Compared(op, l, r))
    BY <1>5, BinaryForm DEF CompareOps
  <2>2. ~ IsNull(l) /\ ~ IsNull(r) => (l.type = "STRING" <=> tl = "STRING") /\ (r.type = "STRING" <=> tr = "STRING")
    BY <1>5, GoodTypes DEF Types, IsNull, Raises
  <2>3. v \in {NullValue, IntValue(0), IntValue(1)} \/ (v = Raise("type") /\ "type" \in errors)
    BY <1>5, <2>1, <2>2, ComparedForm
  <2> QED
    BY <1>1, <2>3, SmallGood DEF t
<1>6. CASE ~ Raises(l) /\ ~ Raises(r) /\ op \in ArithOps
  <2>1. v = NullValue \/ (~ IsNull(l) /\ ~ IsNull(r) /\ v = Arithmetic(op, l, r))
    BY <1>6, BinaryForm DEF CompareOps, ArithOps
  <2>2. tl \in {"INT", "DOUBLE"} /\ tr \in {"INT", "DOUBLE"} /\ (tl = "DOUBLE" \/ tr = "DOUBLE" => t = "DOUBLE")
    BY <1>0, <1>6 DEF Promoted, Types
  <2>3. Good(l, t, {}) /\ Good(r, t, {})
    BY <1>1, <1>6, <2>2, GoodTypes DEF Types, Raises, Good
  <2>4. ~ IsNull(l) /\ ~ IsNull(r) => Good(Arithmetic(op, l, r), t, errors)
    BY <1>1, <1>6, <2>3, ArithmeticGood
  <2> QED
    BY <1>1, <2>1, <2>4, GoodIntro DEF t
<1> QED
  BY <1>1, <1>2, <1>3, <1>4, <1>5, <1>6 DEF t

LEMMA NegatedGood ==
    ASSUME NEW errors, "overflow" \in errors, NEW v, NEW t \in {"INT", "DOUBLE"}, Good(v, t, errors)
    PROVE  Good(Negated(v), t, errors)
<1>1. CASE v.type \in {"NULL", "RAISED"}
  BY <1>1 DEF Negated
<1>2. CASE v.type = "INT"
  <2>1. Negated(v) = Checked(- v.num)
    BY <1>2 DEF Negated
  <2> QED
    BY <2>1, CheckedGood
<1>3. CASE v.type = "DOUBLE"
  <2>1. v = DoubleValue(v.num, v.den) /\ Negated(v) = [v EXCEPT !.num = - @]
    BY <1>3, GoodTypes DEF Negated
  <2>2. Negated(v) = DoubleValue(- v.num, v.den) /\ t = "DOUBLE"
    BY <1>3, <2>1, GoodTypes DEF DoubleValue
  <2> QED
    BY <2>2 DEF Good, DoubleValue
<1> QED
  BY <1>1, <1>2, <1>3, GoodTypes DEF Types

LEMMA MaybeNotGood ==
    ASSUME NEW errors, NEW op, NEW v, NEW t \in {"INT", "DOUBLE"}, Good(v, t, errors)
    PROVE  Good(MaybeNot(op, v), t, errors)
<1>1. CASE v.type = "INT"
  <2>1. MaybeNot(op, v) \in {v, IntValue(0), IntValue(1)}
    BY <1>1, MaybeNotForm
  <2>2. MaybeNot(op, v) \in {NullValue, IntValue(0), IntValue(1)} => Good(MaybeNot(op, v), t, errors)
    BY SmallGood
  <2> QED
    BY <2>1, <2>2
<1>2. CASE v.type # "INT"
  BY <1>2, MaybeNotForm
<1> QED
  BY <1>1, <1>2

LEMMA AmongGood ==
    ASSUME NEW errors, NEW v, NEW u \in Types, Good(v, u, errors), NEW values, IsSeq(values),
           \A n \in DOMAIN values : (values[n].type = "STRING") = (u = "STRING")
    PROVE  Good(Among(v, values), "INT", errors)
<1>1. CASE v.type \in {"NULL", "RAISED"}
  <2>1. Among(v, values) = v
    BY <1>1, AmongForm
  <2> QED
    BY <1>1, <2>1, GoodIntro, GoodTypes DEF Raises
<1>2. CASE v.type \notin {"NULL", "RAISED"}
  <2>1. v.type = "STRING" <=> u = "STRING"
    BY <1>2, GoodTypes DEF Types
  <2>2. Among(v, values) \in {IntValue(0), IntValue(1)}
    BY <1>2, <2>1, AmongForm
  <2> QED
    BY <2>2, SmallGood
<1> QED
  BY <1>1, <1>2

LEMMA LikeGood ==
    ASSUME NEW errors, NEW v, Good(v, "STRING", errors), NEW pattern
    PROVE  Good(Like(v, pattern), "INT", errors)
<1>1. CASE v.type \in {"NULL", "RAISED"}
  <2>1. Like(v, pattern) = v
    BY <1>1, LikeForm
  <2>2. CASE v.type = "NULL"
    <3>1. v = NullValue
      BY <2>2, GoodTypes
    <3> QED
      BY <2>1, <3>1, GoodIntro
  <2>3. CASE v.type = "RAISED"
    <3>1. Good(v, "INT", errors)
      BY <2>3, GoodIntro DEF Raises
    <3> QED
      BY <2>1, <3>1
  <2> QED
    BY <1>1, <2>2, <2>3
<1>2. CASE v.type \notin {"NULL", "RAISED"}
  <2>1. v.type = "STRING"
    BY <1>2, GoodTypes DEF Types
  <2>2. Like(v, pattern) \in {IntValue(0), IntValue(1)}
    BY <2>1, LikeForm
  <2> QED
    BY <2>2, SmallGood
<1> QED
  BY <1>1, <1>2

LEMMA SubstringGood ==
    ASSUME NEW errors, ScalarErrors \subseteq errors, NEW s, NEW start, NEW length,
           NEW args, args = IF length = Nothing THEN <<s, start>> ELSE <<s, start, length>>,
           Good(s, "STRING", errors), \A n \in DOMAIN args \ {1} : Good(args[n], "INT", errors)
    PROVE  Good(Substring(s, start, length), "STRING", errors)
<1>1. \A n \in DOMAIN args : Raises(args[n]) => Good(args[n], "STRING", errors)
  <2>1. args[1] = s
    OBVIOUS
  <2> QED
    BY <2>1, GoodIntro
<1>2. \A n \in DOMAIN args \ {1} : ~ Raises(args[n]) /\ ~ IsNull(args[n]) => args[n].type = "INT"
  BY GoodTypes DEF Types, Raises, IsNull
<1>3. ~ Raises(args[1]) /\ ~ IsNull(args[1]) => s.type = "STRING" /\ 1 \in DOMAIN args
  <2>1. args[1] = s /\ 1 \in DOMAIN args
    OBVIOUS
  <2> QED
    BY <2>1, GoodTypes DEF Types, Raises, IsNull
<1>4. 1 \in DOMAIN args
  OBVIOUS
<1>5. {"start", "length"} \subseteq errors
  BY DEF ScalarErrors
<1> DEFINE v == Substring(s, start, length)
<1>6. \/ \E n \in DOMAIN args : Raises(args[n]) /\ v = args[n]
      \/ v \in {NullValue, Raise("start"), Raise("length")}
      \/ v.type = "STRING"
  BY <1>2, <1>3, <1>4, SubstringForm
<1> HIDE DEF v
<1> QED
  BY <1>1, <1>5, <1>6, GoodIntro DEF Good, v

CaseType(e, type) == Unified({type[n] : n \in DOMAIN e.args \ Conditions(e)})

LEMMA CaseGood ==
    ASSUME NEW errors, NEW e, IsSeq(e.args), NEW value, NEW type,
           \A n \in DOMAIN e.args : type[n] \in Types /\ Good(value[n], type[n], errors),
           \A n \in Conditions(e) : type[n] = "INT", CaseType(e, type) # IllTyped
    PROVE  CaseType(e, type) \in Types /\ Good(CaseValue(e, value), CaseType(e, type), errors)
<1> DEFINE t == CaseType(e, type)
           S == {type[n] : n \in DOMAIN e.args \ Conditions(e)}
<1>1. S \subseteq Types
  BY DEF Conditions
<1>2. \A n \in DOMAIN e.args \ Conditions(e) : type[n] \in S
  OBVIOUS
<1>0. t = Unified(S) /\ t # IllTyped
  BY DEF CaseType
<1> HIDE DEF S, t
<1>3. t \in Types /\ \A u \in S : u = t \/ (u = "INT" /\ t = "DOUBLE")
  BY <1>0, <1>1 DEF Unified, Promoted, Types
<1>4. ASSUME NEW n \in Conditions(e), Raises(value[n])
      PROVE  Good(value[n], t, errors)
  BY <1>4, GoodIntro DEF Conditions
<1>5. ASSUME NEW n \in Conditions(e)
      PROVE  value[n].type \notin {"STRING", "DOUBLE"}
  <2>1. Good(value[n], "INT", errors)
    BY DEF Conditions
  <2> QED
    BY <2>1, GoodTypes
<1>6. ASSUME NEW n \in DOMAIN e.args \ Conditions(e)
      PROVE  Good(value[n], t, errors)
  <2>1. Good(value[n], type[n], errors) /\ (type[n] = t \/ (type[n] = "INT" /\ t = "DOUBLE"))
    BY <1>2, <1>3
  <2> QED
    BY <2>1 DEF Good
<1> QED
  BY <1>3, <1>4, <1>5, <1>6, CaseForm, GoodIntro DEF t

(* One node: its value fits its type if the values of its children do.     *)
LEMMA EvaluateGood ==
    ASSUME NEW on, RowFits(on), NEW e, WellFormed(e, ParsedKinds), Readable(e, on.schema),
           NEW value, \A n \in DOMAIN e.args : Anything(value[n]),
           NEW type, \A n \in DOMAIN e.args : type[n] \in Types \cup {IllTyped},
           NEW lenient,
           \A n \in DOMAIN e.args :
              type[n] # IllTyped => Good(value[n], type[n], ScalarErrors \cup lenient[n]),
           InferNode(on.schema, e, type) # IllTyped
    PROVE  /\ InferNode(on.schema, e, type) \in Types
           /\ Good(EvaluateNode(on, e, value), InferNode(on.schema, e, type), Errors(e, type, lenient))
<1> DEFINE t == InferNode(on.schema, e, type)
           v == EvaluateNode(on, e, value)
           errors == Errors(e, type, lenient)
<1>0. /\ ScalarErrors \subseteq errors /\ \A n \in DOMAIN e.args : lenient[n] \subseteq errors
      /\ "overflow" \in errors /\ IllTyped \notin Types
  BY DEF Errors, Types, IllTyped, ScalarErrors
<1>F. InferFormed(on.schema, e, type)
  BY InferForm
<1>1. \A n \in DOMAIN e.args : type[n] # IllTyped => Good(value[n], type[n], errors)
  <2> TAKE n \in DOMAIN e.args
  <2>1. ScalarErrors \cup lenient[n] \subseteq errors
    BY <1>0
  <2> HIDE DEF errors
  <2> QED
    BY <2>1, GoodMore
<1>2. e.kind \in {"ColumnRef", "Literal", "BinaryExpr", "UnaryExpr", "IsNullExpr",
                  "LikeExpr", "InExpr", "CaseExpr", "SubstringExpr"}
  <2>1. e.kind \in {"ColumnRef", "Literal", "IntervalLiteral", "BinaryExpr", "UnaryExpr", "IsNullExpr",
                    "LikeExpr", "InExpr", "CaseExpr", "SubstringExpr"}
    BY DEF WellFormed, ParsedKinds, Ops, Readable
  <2>2. e.kind # "IntervalLiteral"
    BY <1>F DEF InferFormed
  <2> QED
    BY <2>1, <2>2
<1>3. /\ IsSeq(e.args)
      /\ e.kind \in {"BinaryExpr", "UnaryExpr", "IsNullExpr", "InExpr", "LikeExpr", "SubstringExpr"} => 1 \in DOMAIN e.args
      /\ e.kind \in {"BinaryExpr", "SubstringExpr"} => 2 \in DOMAIN e.args
      /\ e.kind = "SubstringExpr" => Len(e.args) \in {2, 3} /\ (Len(e.args) = 3 => 3 \in DOMAIN e.args)
      /\ DOMAIN e.args = 1 .. Len(e.args)
  BY ArgsCount
<1>4. e.kind \in {"UnaryExpr", "BinaryExpr", "InExpr", "LikeExpr", "CaseExpr", "SubstringExpr"} =>
         \A n \in DOMAIN e.args : type[n] \in Types /\ Good(value[n], type[n], errors)
  <2>1. e.kind \in {"UnaryExpr", "BinaryExpr", "InExpr", "LikeExpr", "CaseExpr", "SubstringExpr"} =>
           IllTyped \notin TypesOf(e, type)
    BY <1>F DEF InferFormed
  <2> HIDE DEF errors
  <2> QED
    BY <1>1, <2>1 DEF TypesOf
<1>5. CASE e.kind = "Literal"
  <2>1. IsValue(e.payload) /\ v = e.payload
    BY <1>5 DEF WellFormed, IsPayload, EvaluateNode
  <2>2. t = e.payload.type
    BY <1>F, <1>5 DEF InferFormed
  <2> HIDE DEF v, t, errors
  <2>3. CASE v.type = "INT" /\ v = IntValue(v.num)
    BY <2>1, <2>2, <2>3 DEF Types, Good, v, t, errors
  <2>4. CASE v.type = "DOUBLE" /\ v = DoubleValue(v.num, v.den)
    BY <2>1, <2>2, <2>4 DEF Types, Good, v, t, errors
  <2>5. CASE v.type = "STRING"
    BY <2>1, <2>2, <2>5 DEF Types, Good, v, t, errors
  <2> QED
    BY <2>1, <2>3, <2>4, <2>5 DEF IsValue, IsText
<1>6. CASE e.kind = "ColumnRef"
  <2> DEFINE n == IndexRead(e, on.schema)
  <2>1. n \in DOMAIN on.schema /\ v = on.row[n]
    BY <1>6 DEF Readable, EvaluateNode
  <2>2. t = on.schema[n].type
    BY <1>F, <1>6 DEF InferFormed
  <2> HIDE DEF v, t, errors, n
  <2>3. t \in Types /\ Good(v, t, {}) /\ {} \subseteq errors
    BY <2>1, <2>2 DEF RowFits
  <2> QED
    BY <2>3, GoodMore DEF v, t, errors
<1>7. CASE e.kind = "BinaryExpr"
  <2>1. v = Binary(e.op, value[1], value[2]) /\ e.op \in ArithOps \cup CompareOps \cup {"AND", "OR"}
    BY <1>7 DEF EvaluateNode, WellFormed, Ops
  <2>2. /\ type[1] \in Types /\ type[2] \in Types
        /\ Good(value[1], type[1], errors) /\ Good(value[2], type[2], errors)
    <3> HIDE DEF errors
    <3> QED
      BY <1>3, <1>4, <1>7
  <2>3. /\ (type[1] = "STRING") # (type[2] = "STRING") /\ e.op \in CompareOps => "type" \in errors
        /\ (type[1] # "INT" \/ type[2] # "INT") /\ e.op \in {"AND", "OR"} => "type" \in errors
    BY <1>7 DEF Errors
  <2>4. TypesOf(e, type) = {type[1], type[2]}
    <3>1. Len(e.args) = 2
      BY <1>7, ArityOf DEF WellFormed
    <3> QED
      BY <1>3, <3>1 DEF TypesOf
  <2>5. IF e.op \in ArithOps THEN "STRING" \notin TypesOf(e, type) /\ t = Promoted(TypesOf(e, type)) ELSE t = "INT"
    BY <1>F, <1>7 DEF InferFormed
  <2> HIDE DEF v, t, errors
  <2>6. t = BinaryType(e.op, type[1], type[2])
    BY <2>4, <2>5 DEF BinaryType
  <2>7. e.op \in ArithOps => type[1] # "STRING" /\ type[2] # "STRING"
    BY <2>4, <2>5
  <2>8. /\ BinaryType(e.op, type[1], type[2]) \in Types
        /\ Good(Binary(e.op, value[1], value[2]), BinaryType(e.op, type[1], type[2]), errors)
    BY <1>0, <2>1, <2>2, <2>3, <2>7, BinaryGood
  <2> QED
    BY <2>1, <2>6, <2>8 DEF v, t, errors
<1>8. CASE e.kind = "UnaryExpr"
  <2>1. v = Negated(value[1])
    BY <1>8 DEF EvaluateNode
  <2>2. type[1] \in Types /\ Good(value[1], type[1], errors)
    <3> HIDE DEF errors
    <3> QED
      BY <1>3, <1>4, <1>8
  <2>3. t = type[1] /\ type[1] # "STRING"
    BY <1>F, <1>3, <1>8 DEF InferFormed, TypesOf
  <2> HIDE DEF v, t, errors
  <2>4. t \in Types /\ Good(v, t, errors)
    BY <1>0, <2>1, <2>2, <2>3, NegatedGood DEF Types
  <2> QED
    BY <2>4 DEF v, t, errors
<1>9. CASE e.kind = "IsNullExpr"
  <2>1. (v = value[1] /\ Raises(value[1])) \/ (\E b : v = Truth(b))
    BY <1>9, Zenon DEF EvaluateNode
  <2>2. t = "INT"
    BY <1>F, <1>9 DEF InferFormed
  <2>3. Raises(value[1]) => Good(value[1], "INT", errors)
    <3>1. CASE type[1] = IllTyped
      <4>1. AnyError \subseteq errors
        BY <1>0, <1>9, <3>1 DEF Errors, AnyError
      <4>2. \E u : Good(value[1], u, AnyError)
        BY <1>3, <1>9 DEF Anything
      <4> HIDE DEF errors
      <4> QED
        BY <4>1, <4>2, GoodMore, GoodIntro
    <3>2. CASE type[1] # IllTyped
      <4> HIDE DEF errors
      <4> QED
        BY <1>1, <1>3, <1>9, <3>2, GoodIntro
    <3> QED
      BY <3>1, <3>2
  <2> HIDE DEF v, t, errors
  <2>4. Good(v, "INT", errors)
    BY <2>1, <2>3, TruthValue, SmallGood
  <2> QED
    BY <2>2, <2>4 DEF v, t, errors, Types
<1>10. CASE e.kind = "InExpr"
  <2>1. v = MaybeNot(e.op, Among(value[1], e.payload.values))
    BY <1>10, Zenon DEF EvaluateNode, MaybeNot
  <2>2. IsSeq(e.payload.values)
    BY <1>10 DEF WellFormed, IsPayload
  <2>3. /\ t = "INT"
        /\ \A n \in DOMAIN e.payload.values : (e.payload.values[n].type = "STRING") = (type[1] = "STRING")
    BY <1>F, <1>10 DEF InferFormed
  <2>4. type[1] \in Types /\ Good(value[1], type[1], errors)
    <3> HIDE DEF errors
    <3> QED
      BY <1>3, <1>4, <1>10
  <2> HIDE DEF v, t, errors
  <2>5. Good(Among(value[1], e.payload.values), "INT", errors)
    BY <2>2, <2>3, <2>4, AmongGood
  <2>6. Good(v, "INT", errors)
    BY <2>1, <2>5, MaybeNotGood
  <2> QED
    BY <2>3, <2>6 DEF v, t, errors, Types
<1>11. CASE e.kind = "LikeExpr"
  <2>1. v = MaybeNot(e.op, Like(value[1], e.payload))
    BY <1>11, Zenon DEF EvaluateNode, MaybeNot
  <2>2. t = "INT" /\ TypesOf(e, type) = {"STRING"}
    BY <1>F, <1>11 DEF InferFormed
  <2>3. type[1] = "STRING" /\ Good(value[1], type[1], errors)
    <3> HIDE DEF errors
    <3> QED
      BY <1>3, <1>4, <1>11, <2>2 DEF TypesOf
  <2> HIDE DEF v, t, errors
  <2>4. Good(Like(value[1], e.payload), "INT", errors)
    BY <2>3, LikeGood
  <2>5. Good(v, "INT", errors)
    BY <2>1, <2>4, MaybeNotGood
  <2> QED
    BY <2>2, <2>5 DEF v, t, errors, Types
<1>12. CASE e.kind = "CaseExpr"
  <2>1. v = CaseValue(e, value)
    BY <1>12 DEF EvaluateNode
  <2>2. /\ \A n \in Conditions(e) : type[n] = "INT"
        /\ t = CaseType(e, type)
    BY <1>F, <1>12 DEF InferFormed, CaseType
  <2>3. t # IllTyped
    OBVIOUS
  <2> HIDE DEF v, t, errors
  <2>4. CaseType(e, type) \in Types /\ Good(CaseValue(e, value), CaseType(e, type), errors)
    BY <1>3, <1>4, <1>12, <2>2, <2>3, CaseGood
  <2> QED
    BY <2>1, <2>2, <2>4 DEF v, t, errors
<1>13. CASE e.kind = "SubstringExpr"
  <2> DEFINE length == IF Len(e.args) = 3 THEN value[3] ELSE Nothing
             args == IF length = Nothing THEN <<value[1], value[2]>> ELSE <<value[1], value[2], length>>
  <2>1. v = Substring(value[1], value[2], length)
    BY <1>13 DEF EvaluateNode
  <2>2. type[1] = "STRING" /\ t = "STRING" /\ \A n \in DOMAIN e.args \ {1} : type[n] = "INT"
    BY <1>F, <1>13 DEF InferFormed
  <2> HIDE DEF v, t, errors
  <2>3. /\ Good(value[1], "STRING", errors) /\ Good(value[2], "INT", errors)
        /\ Len(e.args) = 3 => Good(value[3], "INT", errors)
    <3>1. 1 \in DOMAIN e.args /\ 2 \in DOMAIN e.args \ {1} /\ (Len(e.args) = 3 => 3 \in DOMAIN e.args \ {1})
      BY <1>3, <1>13
    <3> QED
      BY <1>4, <1>13, <2>2, <3>1
  <2>4. \A n \in DOMAIN args \ {1} : Good(args[n], "INT", errors)
    <3>1. length # Nothing => Good(length, "INT", errors)
      BY <2>3
    <3> HIDE DEF length
    <3> QED
      BY <2>3, <3>1
  <2> HIDE DEF length
  <2>5. Good(Substring(value[1], value[2], length), "STRING", errors)
    BY <1>0, <2>3, <2>4, SubstringGood
  <2> QED
    BY <2>1, <2>2, <2>5 DEF v, t, errors, Types
<1> QED
  BY <1>2, <1>5, <1>6, <1>7, <1>8, <1>9, <1>10, <1>11, <1>12, <1>13

-----------------------------------------------------------------------------
(* The walks, step by step.                                                *)

LEMMA EvaluateStep ==
    ASSUME NEW kinds, NEW e, IsExpr(e, kinds), NEW row, NEW schema
    PROVE  Evaluate(e, row, schema) =
             EvaluateNode([row |-> row, schema |-> schema], e,
                          [k \in DOMAIN e.args |-> Evaluate(e.args[k], row, schema)])
<1>1. /\ e \in Nodes(e)
      /\ \A x \in Nodes(e) : /\ x.height \in Nat
                             /\ \A k \in DOMAIN x.args : x.args[k] \in Nodes(e) /\ x.args[k].height < x.height
  BY ExprNodes DEF TextWalk!Closed
<1> QED
  BY <1>1, LeastNat, EvaluateWalk!FoldStep DEF Evaluate, EvaluateWalk!WellOrdered

LEMMA InferStep ==
    ASSUME NEW kinds, NEW e, IsExpr(e, kinds), NEW schema
    PROVE  InferExprType(e, schema) =
             InferNode(schema, e, [k \in DOMAIN e.args |-> InferExprType(e.args[k], schema)])
<1>1. /\ e \in Nodes(e)
      /\ \A x \in Nodes(e) : /\ x.height \in Nat
                             /\ \A k \in DOMAIN x.args : x.args[k] \in Nodes(e) /\ x.args[k].height < x.height
  BY ExprNodes DEF TextWalk!Closed
<1> QED
  BY <1>1, LeastNat, InferWalk!FoldStep DEF InferExprType, InferWalk!WellOrdered

LEMMA LenientStep ==
    ASSUME NEW kinds, NEW e, IsExpr(e, kinds), NEW schema
    PROVE  Lenient(e, schema) =
             LenientNode(schema, e, [k \in DOMAIN e.args |-> Lenient(e.args[k], schema)])
<1>1. /\ e \in Nodes(e)
      /\ \A x \in Nodes(e) : /\ x.height \in Nat
                             /\ \A k \in DOMAIN x.args : x.args[k] \in Nodes(e) /\ x.args[k].height < x.height
  BY ExprNodes DEF TextWalk!Closed
<1> QED
  BY <1>1, LeastNat, LenientWalk!FoldStep DEF Lenient, LenientWalk!WellOrdered

-----------------------------------------------------------------------------
(* An expression that planning typed is on every row of that type, or NULL,*)
(* or fails as arithmetic and SUBSTRING may or where planning was lenient. *)
Sound(e, row, schema) ==
    /\ Anything(Evaluate(e, row, schema))
    /\ InferExprType(e, schema) \in Types \cup {IllTyped}
    /\ InferExprType(e, schema) # IllTyped =>
          Good(Evaluate(e, row, schema), InferExprType(e, schema), ScalarErrors \cup Lenient(e, schema))

(* Evaluation and typing agree on every tree (evaluator.cc:82 against      *)
(* logical_plan.cc:92): types are a promise about values.                  *)
THEOREM SoundExpr ==
    ASSUME NEW e, IsExpr(e, ParsedKinds), NEW row, NEW schema, RowFits([row |-> row, schema |-> schema]),
           \A x \in Nodes(e) : Readable(x, schema)
    PROVE  Sound(e, row, schema)
<1> DEFINE on == [row |-> row, schema |-> schema]
           T == {x \in Nodes(e) : Sound(x, row, schema)}
<1>0. on.schema = schema /\ RowFits(on)
  OBVIOUS
<1> HIDE DEF on
<1>1. ASSUME NEW x \in Nodes(e), IsExpr(x, ParsedKinds), \A k \in DOMAIN x.args : x.args[k] \in T
      PROVE  x \in T
  <2> DEFINE value == [k \in DOMAIN x.args |-> Evaluate(x.args[k], row, schema)]
             type == [k \in DOMAIN x.args |-> InferExprType(x.args[k], schema)]
             lenient == [k \in DOMAIN x.args |-> Lenient(x.args[k], schema)]
  <2>1. /\ Evaluate(x, row, schema) = EvaluateNode(on, x, value)
        /\ InferExprType(x, schema) = InferNode(schema, x, type)
        /\ Lenient(x, schema) = LenientNode(schema, x, lenient)
    BY <1>1, EvaluateStep, InferStep, LenientStep DEF on
  <2>2. WellFormed(x, ParsedKinds) /\ Readable(x, schema)
    BY <1>1, ExprElim
  <2>3. \A n \in DOMAIN x.args :
           /\ Anything(value[n]) /\ type[n] \in Types \cup {IllTyped}
           /\ type[n] # IllTyped => Good(value[n], type[n], ScalarErrors \cup lenient[n])
    BY <1>1 DEF Sound
  <2>4. Errors(x, type, lenient) = ScalarErrors \cup LenientNode(schema, x, lenient)
    <3>1. x.kind = "BinaryExpr" => 1 \in DOMAIN x.args /\ 2 \in DOMAIN x.args
      BY <2>2, ArgsCount
    <3>2. x.kind = "IsNullExpr" => 1 \in DOMAIN x.args
      BY <2>2, ArgsCount
    <3>3. /\ x.kind = "BinaryExpr" => type[1] = InferExprType(x.args[1], schema) /\ type[2] = InferExprType(x.args[2], schema)
          /\ x.kind = "IsNullExpr" => type[1] = InferExprType(x.args[1], schema)
      BY <3>1, <3>2
    <3> HIDE DEF type, lenient
    <3> QED
      BY <3>3 DEF Errors, LenientNode
  <2> HIDE DEF value, type, lenient
  <2>5. Anything(EvaluateNode(on, x, value))
    BY <1>0, <2>2, <2>3, EvaluateAny
  <2>6. InferNode(schema, x, type) # IllTyped =>
          /\ InferNode(schema, x, type) \in Types
          /\ Good(EvaluateNode(on, x, value), InferNode(schema, x, type), Errors(x, type, lenient))
    BY <1>0, <2>2, <2>3, EvaluateGood
  <2> QED
    BY <2>1, <2>4, <2>5, <2>6 DEF Sound
<1>2. \A x \in Nodes(e) : IsExpr(x, ParsedKinds)
  BY ExprElim
<1>3. e \in T
  <2> HIDE DEF T
  <2> QED
    BY <1>1, <1>2, ExprInduction
<1> QED
  BY <1>3

-----------------------------------------------------------------------------
(* Building expressions.                                                   *)

LEMMA NothingNotExpr ==
    ASSUME NEW e, NEW kinds, IsExpr(e, kinds)
    PROVE  e # Nothing
<1>1. e = Node(e.kind, e.op, e.args, e.payload)
  BY ExprElim DEF WellFormed
<1>2. "kind" \in DOMAIN e
  BY <1>1 DEF Node
<1>3. DOMAIN Nothing = {"nothing"}
  BY DEF Nothing
<1> QED
  BY <1>2, <1>3

(* A node whose children were rewritten.                                   *)
LEMMA RewrittenExpr ==
    ASSUME NEW e, NEW kinds, IsExpr(e, kinds), NEW args, args = [n \in DOMAIN e.args |-> args[n]],
           NEW others, \A n \in DOMAIN e.args : IsExpr(args[n], others), e.kind \in others
    PROVE  /\ IsExpr(WithArgs(e, args), others)
           /\ WithArgs(e, args).kind = e.kind /\ WithArgs(e, args).op = e.op
           /\ WithArgs(e, args).args = args /\ WithArgs(e, args).payload = e.payload
<1>1. WellFormed(e, kinds)
  BY ExprElim
<1>2. IsSeq(args) /\ Len(args) = Len(e.args) /\ DOMAIN args = DOMAIN e.args
  BY <1>1, MappedSeq DEF WellFormed
<1>3. IsExpr(WithArgs(e, args), others)
  BY <1>1, <1>2, NodeExpr DEF WellFormed, WithArgs
<1> QED
  BY <1>3 DEF WithArgs, Node

LEMMA SameArgs ==
    ASSUME NEW e, NEW kinds, IsExpr(e, kinds)
    PROVE  WithArgs(e, e.args) = e /\ e.args = [n \in DOMAIN e.args |-> e.args[n]]
<1>1. WellFormed(e, kinds)
  BY ExprElim
<1>2. e.args = [n \in DOMAIN e.args |-> e.args[n]]
  BY <1>1, SeqFacts DEF WellFormed
<1> QED
  BY <1>1, <1>2 DEF WellFormed, WithArgs

LEMMA MoreKinds ==
    ASSUME NEW e, NEW kinds, IsExpr(e, kinds), NEW more, kinds \subseteq more
    PROVE  IsExpr(e, more)
BY DEF IsExpr, WellFormed

-----------------------------------------------------------------------------
(* Binding.                                                                *)

LEMMA BindStep ==
    ASSUME NEW kinds, NEW e, IsExpr(e, kinds), NEW tables
    PROVE  BindExpr(e, tables) = BoundNode(tables, e, [k \in DOMAIN e.args |-> BindExpr(e.args[k], tables)])
BY ChildrenNodes, LeastNat, BindWalk!FoldStep DEF BindExpr, BindWalk!WellOrdered

(* The pieces of ResolveColumnRef.                                         *)
Qualified(e)  == e.payload.table_name # NoName
Stamp(e, table, slot) ==
    [e EXCEPT !.payload = [table_name |-> table, column_name |-> e.payload.column_name, relation_slot |-> slot - 1]]
NamedTables(e, tables)  == {n \in DOMAIN tables : RefName(tables[n]) = e.payload.table_name}
HavingTables(e, tables) == {n \in DOMAIN tables : HasColumn(tables[n].table_name, e.payload.column_name)}

LEMMA ResolvedForm ==
    ASSUME NEW e, NEW tables
    PROVE  \/ ResolveColumnRef(e, tables) = Invalid
           \/ ~ Qualified(e) /\ HavingTables(e, tables) = {} /\ ResolveColumnRef(e, tables) = e
           \/ /\ Qualified(e) /\ NamedTables(e, tables) # {}
              /\ First(NamedTables(e, tables)) \in HavingTables(e, tables)
              /\ ResolveColumnRef(e, tables) = Stamp(e, e.payload.table_name, First(NamedTables(e, tables)))
           \/ ~ Qualified(e) /\ Len(tables) < 2 /\ ResolveColumnRef(e, tables) = Stamp(e, NoName, 1)
           \/ /\ ~ Qualified(e) /\ ~ (Len(tables) < 2) /\ HavingTables(e, tables) # {}
              /\ ResolveColumnRef(e, tables) =
                    Stamp(e, tables[First(HavingTables(e, tables))].table_name, First(HavingTables(e, tables)))
BY DEF ResolveColumnRef, Qualified, Stamp, NamedTables, HavingTables

(* A column that is stamped is a column.                                   *)
LEMMA StampExpr ==
    ASSUME NEW e, NEW kinds, IsExpr(e, kinds), e.kind = "ColumnRef",
           NEW table, NEW slot \in {1, 2}
    PROVE  LET r == Stamp(e, table, slot)
           IN  /\ IsExpr(r, kinds) /\ Nodes(r) = {r}
               /\ r.kind = "ColumnRef" /\ r.payload.relation_slot = slot - 1
               /\ r.payload.table_name = table /\ r.payload.column_name = e.payload.column_name
<1> DEFINE r == Stamp(e, table, slot)
           p == [table_name |-> table, column_name |-> e.payload.column_name, relation_slot |-> slot - 1]
<1>1. WellFormed(e, kinds)
  BY ExprElim
<1>8. /\ p.table_name = table /\ p.column_name = e.payload.column_name /\ p.relation_slot = slot - 1
      /\ p = [table_name |-> p.table_name, column_name |-> p.column_name, relation_slot |-> p.relation_slot]
  OBVIOUS
<1> HIDE DEF p
<1>4. IsPayload("ColumnRef", p)
  BY <1>8 DEF IsPayload, NoSlot
<1>5. e.args = << >> /\ e.op \in Ops["Invalid"] /\ e.kind \in kinds
  BY <1>1, ArgsCount, LeafOps DEF WellFormed
<1>6. r = Node("ColumnRef", e.op, << >>, p)
  <2>1. e = [kind |-> "ColumnRef", op |-> e.op, args |-> << >>, payload |-> e.payload, height |-> HeightAbove(<< >>)]
    BY <1>1, <1>5 DEF WellFormed, Node
  <2>2. r = [e EXCEPT !.payload = p]
    BY DEF Stamp, p
  <2> QED
    BY <2>1, <2>2 DEF Node
<1>7. IsExpr(r, kinds) /\ Nodes(r) = {r}
  BY <1>4, <1>5, <1>6, LeafExpr
<1> QED
  BY <1>8, <1>6, <1>7 DEF Node, r

LEMMA InvalidExpr ==
    IsExpr(Invalid, BoundKinds) /\ Nodes(Invalid) = {Invalid} /\ Invalid.kind = "Invalid"
<1>1. IsPayload("Invalid", Nothing) /\ "Invalid" \in BoundKinds
  BY DEF IsPayload, BoundKinds
<1>2. PICK op \in Ops["Invalid"] : Invalid = Node("Invalid", op, << >>, Nothing)
  BY LeafOps, Zenon DEF Invalid
<1>3. Invalid.kind = "Invalid"
  BY <1>2 DEF Node
<1> QED
  BY <1>1, <1>2, <1>3, LeafExpr

(* A column once it is bound: its slot is that of a table that has it, or  *)
(* it was written without a qualifier and no table has it.                 *)
Settled(x, tables) ==
    x.kind = "ColumnRef" =>
        LET n == x.payload.relation_slot + 1
        IN  \/ n \in DOMAIN tables /\ HasColumn(tables[n].table_name, x.payload.column_name)
            \/ ~ Qualified(x) /\ HavingTables(x, tables) = {}

(* What binding knows of the tables of a statement.                        *)
AreTables(tables) ==
    /\ IsSeq(tables) /\ Len(tables) \in {1, 2}
    /\ \A n \in DOMAIN tables : IsTable(tables[n])

SettledAll(e, tables) == \A x \in Nodes(e) : Settled(x, tables)

(* Stamped with the slot of a table that has it, a column is settled.      *)
LEMMA StampSettled ==
    ASSUME NEW e, IsExpr(e, BoundKinds), e.kind = "ColumnRef", NEW tables, DOMAIN tables \subseteq {1, 2},
           NEW n \in DOMAIN tables, HasColumn(tables[n].table_name, e.payload.column_name), NEW table
    PROVE  IsExpr(Stamp(e, table, n), BoundKinds) /\ SettledAll(Stamp(e, table, n), tables)
<1> DEFINE r == Stamp(e, table, n)
<1>1. /\ IsExpr(r, BoundKinds) /\ Nodes(r) = {r} /\ r.payload.relation_slot = n - 1
      /\ r.payload.column_name = e.payload.column_name
  BY StampExpr
<1>2. n \in {1, 2} /\ n - 1 + 1 = n
  OBVIOUS
<1> HIDE DEF r
<1>3. SettledAll(r, tables)
  BY <1>1, <1>2 DEF SettledAll, Settled
<1> QED
  BY <1>1, <1>3 DEF r

LEMMA ResolveTyped ==
    ASSUME NEW e, IsExpr(e, BoundKinds), e.kind = "ColumnRef", NEW tables, AreTables(tables)
    PROVE  LET r == ResolveColumnRef(e, tables)
           IN  IsExpr(r, BoundKinds) /\ SettledAll(r, tables)
<1> DEFINE r == ResolveColumnRef(e, tables)
<1> SUFFICES IsExpr(r, BoundKinds) /\ SettledAll(r, tables)
  OBVIOUS
<1>1. Len(tables) \in {1, 2} /\ DOMAIN tables = 1 .. Len(tables)
  BY SeqFacts DEF AreTables
<1>2. CASE r = Invalid
  BY <1>2, InvalidExpr DEF SettledAll, Settled
<1>3. CASE ~ Qualified(e) /\ HavingTables(e, tables) = {} /\ r = e
  <2>1. Nodes(e) = {e}
    <3>1. e.args = << >> /\ Nodes(e) = {e} \cup UNION {Nodes(e.args[k]) : k \in DOMAIN e.args}
      BY ExprElim, ArgsCount, NodesSplit
    <3> QED
      BY <3>1
  <2> QED
    BY <1>3, <2>1 DEF SettledAll, Settled
<1>4. CASE /\ Qualified(e) /\ NamedTables(e, tables) # {}
           /\ First(NamedTables(e, tables)) \in HavingTables(e, tables)
           /\ r = Stamp(e, e.payload.table_name, First(NamedTables(e, tables)))
  <2> DEFINE n == First(NamedTables(e, tables))
  <2>1. n \in DOMAIN tables /\ HasColumn(tables[n].table_name, e.payload.column_name)
    BY <1>4 DEF HavingTables
  <2>2. r = Stamp(e, e.payload.table_name, n)
    BY <1>4
  <2> HIDE DEF n, r
  <2>3. IsExpr(r, BoundKinds) /\ SettledAll(r, tables)
    BY <1>1, <2>1, <2>2, StampSettled
  <2> QED
    BY <2>3 DEF r
<1>5. CASE ~ Qualified(e) /\ Len(tables) < 2 /\ r = Stamp(e, NoName, 1)
  <2> HIDE DEF r
  <2>1. DOMAIN tables = {1}
    BY <1>1, <1>5
  <2>2. CASE HasColumn(tables[1].table_name, e.payload.column_name)
    BY <1>5, <2>1, <2>2, StampSettled DEF r
  <2>3. CASE ~ HasColumn(tables[1].table_name, e.payload.column_name)
    <3>1. /\ IsExpr(r, BoundKinds) /\ Nodes(r) = {r} /\ r.payload.table_name = NoName
          /\ r.payload.column_name = e.payload.column_name
      BY <1>5, StampExpr
    <3>2. HavingTables(r, tables) = {} /\ ~ Qualified(r)
      BY <2>1, <2>3, <3>1 DEF HavingTables, Qualified
    <3> QED
      BY <3>1, <3>2 DEF SettledAll, Settled, r
  <2> QED
    BY <2>2, <2>3
<1>6. CASE /\ ~ Qualified(e) /\ ~ (Len(tables) < 2) /\ HavingTables(e, tables) # {}
           /\ r = Stamp(e, tables[First(HavingTables(e, tables))].table_name, First(HavingTables(e, tables)))
  <2> DEFINE H == HavingTables(e, tables)
             n == First(H)
  <2>1. H \in SUBSET (Nat \ {0})
    BY <1>1 DEF HavingTables
  <2>2. n \in H
    <3> HIDE DEF H
    <3> QED
      BY <1>6, <2>1, FirstFacts DEF H
  <2>3. n \in DOMAIN tables /\ HasColumn(tables[n].table_name, e.payload.column_name)
    BY <2>2 DEF HavingTables
  <2>4. r = Stamp(e, tables[n].table_name, n)
    BY <1>6
  <2> HIDE DEF r, n, H
  <2>5. DOMAIN tables \subseteq {1, 2}
    BY <1>1
  <2>6. IsExpr(r, BoundKinds) /\ SettledAll(r, tables)
    BY <2>3, <2>4, <2>5, StampSettled, Zenon
  <2> QED
    BY <2>6 DEF r
<1>7. \/ r = Invalid
      \/ ~ Qualified(e) /\ HavingTables(e, tables) = {} /\ r = e
      \/ /\ Qualified(e) /\ NamedTables(e, tables) # {}
         /\ First(NamedTables(e, tables)) \in HavingTables(e, tables)
         /\ r = Stamp(e, e.payload.table_name, First(NamedTables(e, tables)))
      \/ ~ Qualified(e) /\ Len(tables) < 2 /\ r = Stamp(e, NoName, 1)
      \/ /\ ~ Qualified(e) /\ ~ (Len(tables) < 2) /\ HavingTables(e, tables) # {}
         /\ r = Stamp(e, tables[First(HavingTables(e, tables))].table_name, First(HavingTables(e, tables)))
  BY ResolvedForm
<1> HIDE DEF r
<1> QED
  BY <1>2, <1>3, <1>4, <1>5, <1>6, <1>7, Zenon

(* Binding keeps trees trees.                                              *)
LEMMA BindTyped ==
    ASSUME NEW e, IsExpr(e, BoundKinds), NEW tables, AreTables(tables)
    PROVE  IsExpr(BindExpr(e, tables), BoundKinds) /\ SettledAll(BindExpr(e, tables), tables)
<1> DEFINE T == {x \in Nodes(e) : IsExpr(BindExpr(x, tables), BoundKinds) /\ SettledAll(BindExpr(x, tables), tables)}
<1>1. ASSUME NEW x \in Nodes(e), IsExpr(x, BoundKinds), \A k \in DOMAIN x.args : x.args[k] \in T
      PROVE  x \in T
  <2> DEFINE args == [k \in DOMAIN x.args |-> BindExpr(x.args[k], tables)]
  <2>1. BindExpr(x, tables) = BoundNode(tables, x, args)
    BY <1>1, BindStep
  <2>2. \A k \in DOMAIN x.args : IsExpr(args[k], BoundKinds) /\ SettledAll(args[k], tables)
    BY <1>1
  <2>3. args = [k \in DOMAIN x.args |-> args[k]]
    OBVIOUS
  <2> HIDE DEF args
  <2>4. CASE x.kind = "ColumnRef"
    <3>1. BindExpr(x, tables) = ResolveColumnRef(x, tables)
      BY <2>1, <2>4 DEF BoundNode
    <3> QED
      BY <1>1, <2>4, <3>1, ResolveTyped
  <2>5. CASE x.kind # "ColumnRef"
    <3> DEFINE r == WithArgs(x, args)
    <3>1. BindExpr(x, tables) = r
      BY <2>1, <2>5 DEF BoundNode
    <3>2. x.kind \in BoundKinds
      BY <1>1, ExprElim DEF WellFormed
    <3>3. IsExpr(r, BoundKinds) /\ r.kind = x.kind /\ r.args = args
      BY <1>1, <2>2, <2>3, <3>2, RewrittenExpr
    <3>4. DOMAIN args = DOMAIN x.args
      BY <2>3
    <3> HIDE DEF r
    <3>5. Nodes(r) = {r} \cup UNION {Nodes(args[k]) : k \in DOMAIN args}
      BY <3>3, NodesSplit
    <3>6. SettledAll(r, tables)
      <4> SUFFICES ASSUME NEW y \in Nodes(r) PROVE Settled(y, tables)
        BY DEF SettledAll
      <4>1. CASE y = r
        BY <2>5, <3>3, <4>1 DEF Settled
      <4>2. CASE \E k \in DOMAIN args : y \in Nodes(args[k])
        BY <2>2, <3>4, <4>2 DEF SettledAll
      <4> QED
        BY <3>5, <4>1, <4>2
    <3> QED
      BY <3>1, <3>3, <3>6
  <2> QED
    BY <2>4, <2>5
<1> HIDE DEF T
<1>2. e \in T
  BY <1>1, ExprInduction
<1> QED
  BY <1>2 DEF T

-----------------------------------------------------------------------------
(* Constant folding.                                                       *)

LEMMA FoldStep ==
    ASSUME NEW kinds, NEW e, IsExpr(e, kinds)
    PROVE  FoldNode(e) = FoldOperation(WithArgs(e, [k \in DOMAIN e.args |-> FoldNode(e.args[k])]))
<1>1. FoldNode(e) = FoldedNode(Nothing, e, [k \in DOMAIN e.args |-> FoldNode(e.args[k])])
  BY ChildrenNodes, LeastNat, FoldWalk!FoldStep DEF FoldNode, FoldWalk!WellOrdered
<1> QED
  BY <1>1 DEF FoldedNode

(* What arithmetic returns is a value, NULL or an error.                   *)
Computed(v) == Raises(v) \/ IsNull(v) \/ IsValue(v)

LEMMA CheckedComputed ==
    ASSUME NEW n
    PROVE  Computed(Checked(n))
<1>1. CASE n \in MinInt .. MaxInt
  <2>1. n \in Int /\ Checked(n) = IntValue(n)
    BY <1>1 DEF Checked
  <2> QED
    BY <2>1 DEF Computed, IsValue, IntValue
<1>2. CASE n \notin MinInt .. MaxInt
  BY <1>2 DEF Checked, Computed, Raises, Raise
<1> QED
  BY <1>1, <1>2

LEMMA RationalComputed ==
    ASSUME NEW n, NEW d
    PROVE  Computed(DoubleValue(n, d)) /\ Computed(Rational(n, d))
<1>1. ASSUME NEW x, NEW y PROVE Computed(DoubleValue(x, y))
  BY DEF Computed, IsValue, DoubleValue
<1> DEFINE gcd == (CHOOSE gcd : gcd = [a, b \in Nat |-> IF b = 0 THEN a ELSE gcd[b, a % b]])[Abs(n), Abs(d)]
           x == (IF d < 0 THEN - n ELSE n) \div gcd
           y == Abs(d) \div gcd
<1>2. Rational(n, d) = DoubleValue(x, y)
  BY DEF Rational
<1> HIDE DEF x, y
<1> QED
  BY <1>1, <1>2

LEMMA ArithmeticComputed ==
    ASSUME NEW op \in ArithOps, NEW l, NEW r
    PROVE  Computed(Arithmetic(op, l, r))
<1>1. CASE "STRING" \in {l.type, r.type}
  BY <1>1 DEF Arithmetic, Computed, Raises, Raise
<1>2. CASE "STRING" \notin {l.type, r.type} /\ op = "/" /\ r.num = 0
  BY <1>2 DEF Arithmetic, Computed, IsNull, NullValue
<1>3. CASE "STRING" \notin {l.type, r.type} /\ ~ (op = "/" /\ r.num = 0)
  <2>1. \/ \E n : Arithmetic(op, l, r) = Checked(n)
        \/ \E n, d : Arithmetic(op, l, r) = Rational(n, d)
    BY <1>3, Zenon DEF Arithmetic, ArithOps
  <2> QED
    BY <2>1, CheckedComputed, RationalComputed
<1> QED
  BY <1>1, <1>2, <1>3

LEMMA NegatedComputed ==
    ASSUME NEW v, IsValue(v)
    PROVE  Computed(Negated(v))
<1>1. CASE v.type = "INT"
  BY <1>1, CheckedComputed DEF Negated
<1>2. CASE v.type = "STRING"
  BY <1>2 DEF Negated, Computed, Raises, Raise
<1>3. CASE v.type = "DOUBLE" /\ v = DoubleValue(v.num, v.den)
  <2>1. Negated(v) = [v EXCEPT !.num = - @]
    BY <1>3 DEF Negated
  <2>2. Negated(v) = DoubleValue(- v.num, v.den)
    BY <1>3, <2>1 DEF DoubleValue
  <2> QED
    BY <2>2, RationalComputed
<1> QED
  BY <1>1, <1>2, <1>3 DEF IsValue, IsText

(* An operation on literals.                                               *)
LEMMA ConstantComputed ==
    ASSUME NEW e, IsExpr(e, BoundKinds),
           e.kind = "UnaryExpr" \/ (e.kind = "BinaryExpr" /\ e.op \in ArithOps),
           \A n \in DOMAIN e.args : e.args[n].kind = "Literal"
    PROVE  Computed(Evaluate(e, << >>, << >>))
<1> DEFINE on == [row |-> << >>, schema |-> << >>]
           value == [k \in DOMAIN e.args |-> Evaluate(e.args[k], << >>, << >>)]
<1>1. Evaluate(e, << >>, << >>) = EvaluateNode(on, e, value)
  BY EvaluateStep
<1>2. ASSUME NEW k \in DOMAIN e.args
      PROVE  IsValue(value[k])
  <2> DEFINE x == e.args[k]
  <2>1. IsExpr(x, BoundKinds) /\ x.kind = "Literal"
    BY ExprElim
  <2> HIDE DEF x
  <2>2. Evaluate(x, << >>, << >>) = EvaluateNode(on, x, [i \in DOMAIN x.args |-> Evaluate(x.args[i], << >>, << >>)])
    BY <2>1, EvaluateStep
  <2>3. Evaluate(x, << >>, << >>) = x.payload
    BY <2>1, <2>2 DEF EvaluateNode
  <2>4. IsValue(x.payload)
    BY <2>1, ExprElim DEF WellFormed, IsPayload
  <2> QED
    BY <2>3, <2>4 DEF x
<1>3. WellFormed(e, BoundKinds)
  BY ExprElim
<1> HIDE DEF value
<1>4. CASE e.kind = "UnaryExpr"
  <2>1. IsValue(value[1])
    BY <1>2, <1>3, <1>4, ArgsCount
  <2>2. Evaluate(e, << >>, << >>) = Negated(value[1])
    BY <1>1, <1>4 DEF EvaluateNode
  <2> QED
    BY <2>1, <2>2, NegatedComputed
<1>5. CASE e.kind = "BinaryExpr" /\ e.op \in ArithOps
  <2>1. IsValue(value[1]) /\ IsValue(value[2])
    BY <1>2, <1>3, <1>5, ArgsCount
  <2>2. \A v : IsValue(v) => ~ Raises(v) /\ ~ IsNull(v)
    BY DEF IsValue, IsText, Raises, IsNull
  <2>3. Evaluate(e, << >>, << >>) = Binary(e.op, value[1], value[2])
    BY <1>1, <1>5 DEF EvaluateNode
  <2>4. e.op \notin CompareOps \cup {"AND", "OR"}
    BY <1>5 DEF ArithOps, CompareOps
  <2>5. Evaluate(e, << >>, << >>) = Arithmetic(e.op, value[1], value[2])
    BY <2>1, <2>2, <2>3, <2>4, BinaryForm
  <2> QED
    BY <1>5, <2>5, ArithmeticComputed
<1> QED
  BY <1>4, <1>5

LEMMA FoldOperationForm ==
    ASSUME NEW e, IsExpr(e, BoundKinds)
    PROVE  \/ FoldOperation(e) = e
           \/ FoldOperation(e) = Invalid
           \/ \E v : IsValue(v) /\ FoldOperation(e) = Literal(v)
<1>1. CASE e.kind = "BinaryExpr" /\ IsDateInterval(e)
  <2>1. FoldOperation(e) = FoldDateInterval(e)
    BY <1>1 DEF FoldOperation
  <2>2. FoldOperation(e) = Invalid \/ \E date : FoldOperation(e) = Literal(DateValue(date))
    BY <2>1, Zenon DEF FoldDateInterval
  <2>3. \A date : IsValue(DateValue(date))
    BY DEF IsValue, IsText, DateValue
  <2> QED
    BY <2>2, <2>3
<1>2. CASE /\ ~ (e.kind = "BinaryExpr" /\ IsDateInterval(e))
           /\ e.kind = "UnaryExpr" \/ (e.kind = "BinaryExpr" /\ e.op \in ArithOps)
           /\ \A n \in DOMAIN e.args : e.args[n].kind = "Literal"
  <2> DEFINE v == Evaluate(e, << >>, << >>)
  <2>1. Computed(v)
    BY <1>2, ConstantComputed
  <2>2. FoldOperation(e) = IF Raises(v) \/ IsNull(v) THEN e ELSE Literal(v)
    BY <1>2, Zenon DEF FoldOperation
  <2> HIDE DEF v
  <2> QED
    BY <2>1, <2>2 DEF Computed
<1>3. CASE /\ ~ (e.kind = "BinaryExpr" /\ IsDateInterval(e))
           /\ ~ (/\ e.kind = "UnaryExpr" \/ (e.kind = "BinaryExpr" /\ e.op \in ArithOps)
                 /\ \A n \in DOMAIN e.args : e.args[n].kind = "Literal")
  BY <1>3, Zenon DEF FoldOperation
<1> QED
  BY <1>1, <1>2, <1>3

(* The columns an expression mentions.                                     *)
Columns(e) == {x \in Nodes(e) : x.kind = "ColumnRef"}

(* Folding keeps trees trees, and adds no column.                          *)
LEMMA FoldTyped ==
    ASSUME NEW e, IsExpr(e, BoundKinds)
    PROVE  IsExpr(FoldNode(e), BoundKinds) /\ Columns(FoldNode(e)) \subseteq Columns(e)
<1> DEFINE T == {x \in Nodes(e) : IsExpr(FoldNode(x), BoundKinds) /\ Columns(FoldNode(x)) \subseteq Columns(x)}
<1>1. ASSUME NEW x \in Nodes(e), IsExpr(x, BoundKinds), \A k \in DOMAIN x.args : x.args[k] \in T
      PROVE  x \in T
  <2> DEFINE args == [k \in DOMAIN x.args |-> FoldNode(x.args[k])]
             y == WithArgs(x, args)
  <2>1. FoldNode(x) = FoldOperation(y)
    BY <1>1, FoldStep
  <2>2. \A k \in DOMAIN x.args : IsExpr(args[k], BoundKinds) /\ Columns(args[k]) \subseteq Columns(x.args[k])
    BY <1>1
  <2>3. args = [k \in DOMAIN x.args |-> args[k]] /\ x.kind \in BoundKinds
    BY <1>1, ExprElim DEF WellFormed
  <2> HIDE DEF args
  <2>4. IsExpr(y, BoundKinds) /\ y.kind = x.kind /\ y.args = args
    BY <1>1, <2>2, <2>3, RewrittenExpr
  <2>5. Columns(y) \subseteq Columns(x)
    <3>1. CASE x.kind = "ColumnRef"
      <4>1. x.args = << >>
        BY <1>1, <3>1, ExprElim, ArgsCount
      <4>2. args = x.args
        BY <2>3, <4>1
      <4> QED
        BY <1>1, <4>2, SameArgs
    <3>2. CASE x.kind # "ColumnRef"
      <4> HIDE DEF y
      <4>1. Nodes(y) = {y} \cup UNION {Nodes(args[k]) : k \in DOMAIN x.args}
        BY <2>3, <2>4, NodesSplit
      <4>2. Nodes(x) = {x} \cup UNION {Nodes(x.args[k]) : k \in DOMAIN x.args}
        BY <1>1, NodesSplit
      <4> QED
        BY <2>2, <2>4, <3>2, <4>1, <4>2 DEF Columns
    <3> QED
      BY <3>1, <3>2
  <2> HIDE DEF y
  <2>6. CASE FoldNode(x) = y
    BY <2>4, <2>5, <2>6
  <2>7. CASE FoldNode(x) = Invalid
    BY <2>7, InvalidExpr DEF Columns
  <2>8. CASE \E v : IsValue(v) /\ FoldNode(x) = Literal(v)
    <3>1. PICK v : IsValue(v) /\ FoldNode(x) = Literal(v)
      BY <2>8
    <3>2. IsPayload("Literal", v) /\ "Literal" \in BoundKinds
      BY <3>1 DEF IsPayload, BoundKinds, ParsedKinds, Ops
    <3>3. IsExpr(Literal(v), BoundKinds) /\ Nodes(Literal(v)) = {Literal(v)}
      BY <3>2, LeafExpr, LeafOps DEF Literal
    <3>4. Literal(v).kind = "Literal"
      BY DEF Literal, Node
    <3> QED
      BY <3>1, <3>3, <3>4 DEF Columns
  <2> QED
    BY <2>1, <2>4, <2>6, <2>7, <2>8, FoldOperationForm
<1> HIDE DEF T
<1>2. e \in T
  BY <1>1, ExprInduction
<1> QED
  BY <1>2 DEF T

-----------------------------------------------------------------------------
(* Statements.                                                             *)

Whole(s) ==
    /\ s = [distinct |-> s.distinct, select_star |-> s.select_star, select_list |-> s.select_list,
            from |-> s.from, join |-> s.join, where |-> s.where, group_by |-> s.group_by,
            having |-> s.having, order_by |-> s.order_by, limit |-> s.limit]
    /\ s.limit = Nothing \/ IsLimit(s.limit)

WithClauses(s, list, where, groups, having, order, join) ==
    [s EXCEPT !.select_list = list, !.where = where, !.group_by = groups,
              !.having = having, !.order_by = order, !.join = join]

LEMMA ClausesGiven ==
    ASSUME NEW s, Whole(s), NEW list, NEW where, NEW groups, NEW having, NEW order, NEW join
    PROVE  LET r == WithClauses(s, list, where, groups, having, order, join)
           IN  /\ Whole(r)
               /\ r.select_star = s.select_star /\ r.from = s.from
               /\ r.select_list = list /\ r.where = where /\ r.group_by = groups
               /\ r.having = having /\ r.order_by = order /\ r.join = join
<1> DEFINE r == WithClauses(s, list, where, groups, having, order, join)
<1>1. r = [s EXCEPT !.select_list = list, !.where = where, !.group_by = groups,
                    !.having = having, !.order_by = order, !.join = join]
  BY DEF WithClauses
<1> HIDE DEF r
<1>2. /\ Whole(r)
      /\ r.select_star = s.select_star /\ r.from = s.from
      /\ r.select_list = list /\ r.where = where /\ r.group_by = groups
      /\ r.having = having /\ r.order_by = order /\ r.join = join
  BY <1>1 DEF Whole
<1> QED
  BY <1>2 DEF r

(* The expressions of a statement, one of them Nothing when it lacks a     *)
(* WHERE or a HAVING.                                                      *)
ExpressionsOf(s) ==
    {s.select_list[n].expr : n \in DOMAIN s.select_list} \cup {s.having, s.where}
    \cup {s.order_by[n].expr : n \in DOMAIN s.order_by} \cup Elements(s.group_by)
    \cup (IF s.join = Nothing THEN {} ELSE {s.join.condition})

LEMMA ExpressionsFacts ==
    ASSUME NEW s, NEW kinds, IsStatement(s, kinds)
    PROVE  IsSeq(Expressions(s)) /\ Elements(Expressions(s)) = ExpressionsOf(s)
<1> DEFINE list == [n \in DOMAIN s.select_list |-> s.select_list[n].expr]
           order == [n \in DOMAIN s.order_by |-> s.order_by[n].expr]
           rest == IF s.join = Nothing THEN << >> ELSE <<s.join.condition>>
<1>1. IsSeq(s.select_list) /\ IsSeq(s.order_by) /\ IsSeq(s.group_by)
  BY DEF IsStatement
<1>2. IsSeq(list) /\ Elements(list) = {s.select_list[n].expr : n \in DOMAIN s.select_list}
  <2>1. DOMAIN list = DOMAIN s.select_list /\ list = [n \in DOMAIN s.select_list |-> list[n]]
    OBVIOUS
  <2>2. IsSeq(list)
    BY <1>1, <2>1, MappedSeq
  <2> QED
    BY <2>2 DEF Elements
<1>3. IsSeq(order) /\ Elements(order) = {s.order_by[n].expr : n \in DOMAIN s.order_by}
  <2>1. DOMAIN order = DOMAIN s.order_by /\ order = [n \in DOMAIN s.order_by |-> order[n]]
    OBVIOUS
  <2>2. IsSeq(order)
    BY <1>1, <2>1, MappedSeq
  <2> QED
    BY <2>2 DEF Elements
<1>4. IsSeq(rest) /\ Elements(rest) = (IF s.join = Nothing THEN {} ELSE {s.join.condition})
  BY EmptySeq, SingleSeq
<1>5. Expressions(s) = ((((list \o <<s.having>>) \o order) \o s.group_by) \o <<s.where>>) \o rest
  BY DEF Expressions, Roots
<1> HIDE DEF list, order, rest
<1>6. IsSeq(list \o <<s.having>>) /\ Elements(list \o <<s.having>>) = Elements(list) \cup {s.having}
  BY <1>2, SingleSeq, ConcatFacts
<1> DEFINE a == list \o <<s.having>>
<1> HIDE DEF a
<1>7. IsSeq(a \o order) /\ Elements(a \o order) = Elements(a) \cup Elements(order)
  BY <1>3, <1>6, ConcatFacts DEF a
<1> DEFINE b == a \o order
<1> HIDE DEF b
<1>8. IsSeq(b \o s.group_by) /\ Elements(b \o s.group_by) = Elements(b) \cup Elements(s.group_by)
  BY <1>1, <1>7, ConcatFacts DEF b
<1> DEFINE c == b \o s.group_by
<1> HIDE DEF c
<1>9. IsSeq(c \o <<s.where>>) /\ Elements(c \o <<s.where>>) = Elements(c) \cup {s.where}
  BY <1>8, SingleSeq, ConcatFacts DEF c
<1> DEFINE d == c \o <<s.where>>
<1> HIDE DEF d
<1>10. IsSeq(d \o rest) /\ Elements(d \o rest) = Elements(d) \cup Elements(rest)
  BY <1>4, <1>9, ConcatFacts DEF d
<1>11. Expressions(s) = d \o rest
  BY <1>5 DEF a, b, c, d
<1>12. Elements(d \o rest) = Elements(list) \cup {s.having} \cup Elements(order) \cup Elements(s.group_by) \cup {s.where} \cup Elements(rest)
  BY <1>6, <1>7, <1>8, <1>9, <1>10 DEF a, b, c, d
<1> QED
  BY <1>2, <1>3, <1>4, <1>10, <1>11, <1>12 DEF ExpressionsOf

LEMMA TablesFacts ==
    ASSUME NEW s, NEW kinds, IsStatement(s, kinds)
    PROVE  /\ AreTables(Tables(s)) /\ Tables(s)[1] = s.from
           /\ s.join = Nothing <=> Len(Tables(s)) = 1
<1>1. IsTable(s.from) /\ (s.join # Nothing => IsTable(s.join.table))
  BY DEF IsStatement, IsJoin
<1>2. CASE s.join = Nothing
  <2>1. Tables(s) = <<s.from>>
    BY <1>2 DEF Tables
  <2> QED
    BY <1>1, <1>2, <2>1, SingleSeq DEF AreTables
<1>3. CASE s.join # Nothing
  <2>1. Tables(s) = <<s.from, s.join.table>>
    BY <1>3 DEF Tables
  <2> QED
    BY <1>1, <1>3, <2>1, PairSeq DEF AreTables
<1> QED
  BY <1>2, <1>3

(* The columns of a statement, once it is bound.                           *)
SettledStatement(s) ==
    \A e \in ExpressionsOf(s) : e # Nothing => \A x \in Columns(e) : Settled(x, Tables(s))

(* An expression that is bound and folded.                                 *)
BoundExpr(e, tables) == IsExpr(e, BoundKinds) /\ SettledAll(e, tables)

LEMMA BindFold ==
    ASSUME NEW e, IsExpr(e, BoundKinds), NEW tables, AreTables(tables)
    PROVE  BoundExpr(BindExpr(e, tables), tables) /\ BoundExpr(FoldNode(BindExpr(e, tables)), tables)
<1> DEFINE b == BindExpr(e, tables)
<1>1. IsExpr(b, BoundKinds) /\ SettledAll(b, tables)
  BY BindTyped
<1> HIDE DEF b
<1>2. IsExpr(FoldNode(b), BoundKinds) /\ Columns(FoldNode(b)) \subseteq Columns(b)
  BY <1>1, FoldTyped
<1>3. SettledAll(FoldNode(b), tables)
  BY <1>1, <1>2 DEF SettledAll, Settled, Columns
<1>4. BoundExpr(b, tables) /\ BoundExpr(FoldNode(b), tables)
  BY <1>1, <1>2, <1>3 DEF BoundExpr
<1> QED
  BY <1>4 DEF b

(* Items, keys and joins with another expression.                          *)
LEMMA OtherItem ==
    ASSUME NEW i, NEW kinds, IsItem(i, kinds), NEW x, NEW others, IsExpr(x, others)
    PROVE  IsItem([i EXCEPT !.expr = x], others) /\ [i EXCEPT !.expr = x].expr = x
<1>1. [i EXCEPT !.expr = x] = [expr |-> x, alias |-> i.alias]
  BY DEF IsItem
<1> QED
  BY <1>1 DEF IsItem

LEMMA OtherKey ==
    ASSUME NEW i, NEW kinds, IsKey(i, kinds), NEW x, NEW others, IsExpr(x, others)
    PROVE  IsKey([i EXCEPT !.expr = x], others) /\ [i EXCEPT !.expr = x].expr = x
<1>1. [i EXCEPT !.expr = x] = [expr |-> x, desc |-> i.desc]
  BY DEF IsKey
<1> QED
  BY <1>1 DEF IsKey

LEMMA OtherJoin ==
    ASSUME NEW i, NEW kinds, IsJoin(i, kinds), NEW x, NEW others, IsExpr(x, others)
    PROVE  /\ IsJoin([i EXCEPT !.condition = x], others) /\ [i EXCEPT !.condition = x].condition = x
           /\ [i EXCEPT !.condition = x].table = i.table
<1>1. [i EXCEPT !.condition = x] = [table |-> i.table, condition |-> x]
  BY DEF IsJoin
<1> QED
  BY <1>1 DEF IsJoin

LEMMA JoinNotNothing ==
    ASSUME NEW i, NEW kinds, IsJoin(i, kinds)
    PROVE  i # Nothing
<1>1. DOMAIN i = {"table", "condition"} /\ DOMAIN Nothing = {"nothing"}
  BY DEF IsJoin, Nothing
<1> QED
  BY <1>1

(* What a passing over a statement must leave, clause by clause.           *)
BoundOptional(e, tables) == e = Nothing \/ BoundExpr(e, tables)

BoundClauses(s, tables) ==
    /\ Whole(s) /\ IsTable(s.from)
    /\ IsSeq(s.select_list)
    /\ \A n \in DOMAIN s.select_list :
          IsItem(s.select_list[n], BoundKinds) /\ BoundExpr(s.select_list[n].expr, tables)
    /\ s.join = Nothing \/ (IsJoin(s.join, BoundKinds) /\ BoundExpr(s.join.condition, tables))
    /\ BoundOptional(s.where, tables) /\ BoundOptional(s.having, tables)
    /\ IsSeq(s.group_by) /\ \A n \in DOMAIN s.group_by : BoundExpr(s.group_by[n], tables)
    /\ IsSeq(s.order_by)
    /\ \A n \in DOMAIN s.order_by : IsKey(s.order_by[n], BoundKinds) /\ BoundExpr(s.order_by[n].expr, tables)

LEMMA ClausesStatement ==
    ASSUME NEW s, NEW tables, BoundClauses(s, tables)
    PROVE  /\ IsStatement(s, BoundKinds)
           /\ \A e \in ExpressionsOf(s) : e # Nothing => BoundExpr(e, tables)
<1>1. IsStatement(s, BoundKinds)
  BY DEF BoundClauses, Whole, IsStatement, IsOptional, BoundOptional, BoundExpr
<1>2. \A e \in ExpressionsOf(s) : e # Nothing => BoundExpr(e, tables)
  BY DEF BoundClauses, ExpressionsOf, BoundOptional, Elements
<1> QED
  BY <1>1, <1>2

LEMMA FoldFold ==
    ASSUME NEW e, NEW tables, BoundExpr(e, tables)
    PROVE  BoundExpr(FoldNode(e), tables)
<1>1. IsExpr(FoldNode(e), BoundKinds) /\ Columns(FoldNode(e)) \subseteq Columns(e)
  BY FoldTyped DEF BoundExpr
<1> QED
  BY <1>1 DEF BoundExpr, SettledAll, Settled, Columns

(* And so it is when constants have been folded.                           *)
LEMMA FoldClauses ==
    ASSUME NEW s, NEW tables, BoundClauses(s, tables)
    PROVE  LET r == FoldConstants(s)
           IN  BoundClauses(r, tables) /\ Tables(r) = Tables(s)
<1> DEFINE list == [n \in DOMAIN s.select_list |-> [s.select_list[n] EXCEPT !.expr = FoldNode(s.select_list[n].expr)]]
           groups == [n \in DOMAIN s.group_by |-> FoldNode(s.group_by[n])]
           order == [n \in DOMAIN s.order_by |-> [s.order_by[n] EXCEPT !.expr = FoldNode(s.order_by[n].expr)]]
           where == IF s.where = Nothing THEN Nothing ELSE FoldNode(s.where)
           having == IF s.having = Nothing THEN Nothing ELSE FoldNode(s.having)
           join == IF s.join = Nothing THEN Nothing ELSE [s.join EXCEPT !.condition = FoldNode(s.join.condition)]
           r == FoldConstants(s)
<1>1. r = WithClauses(s, list, where, groups, having, order, join)
  BY DEF FoldConstants, Each, Maybe, Condition, WithClauses
<1>2. /\ IsSeq(list) /\ DOMAIN list = DOMAIN s.select_list
      /\ IsSeq(groups) /\ DOMAIN groups = DOMAIN s.group_by
      /\ IsSeq(order) /\ DOMAIN order = DOMAIN s.order_by
  <2>1. /\ list = [n \in DOMAIN s.select_list |-> list[n]] /\ groups = [n \in DOMAIN s.group_by |-> groups[n]]
        /\ order = [n \in DOMAIN s.order_by |-> order[n]]
    OBVIOUS
  <2> HIDE DEF list, groups, order
  <2> QED
    BY <2>1, MappedSeq DEF BoundClauses
<1>3. ASSUME NEW n \in DOMAIN s.select_list
      PROVE  IsItem(list[n], BoundKinds) /\ BoundExpr(list[n].expr, tables)
  <2>1. IsItem(s.select_list[n], BoundKinds) /\ BoundExpr(FoldNode(s.select_list[n].expr), tables)
    BY FoldFold DEF BoundClauses
  <2>2. list[n] = [s.select_list[n] EXCEPT !.expr = FoldNode(s.select_list[n].expr)]
    OBVIOUS
  <2> HIDE DEF list
  <2> QED
    BY <2>1, <2>2, OtherItem DEF BoundExpr
<1>4. ASSUME NEW n \in DOMAIN s.order_by
      PROVE  IsKey(order[n], BoundKinds) /\ BoundExpr(order[n].expr, tables)
  <2>1. IsKey(s.order_by[n], BoundKinds) /\ BoundExpr(FoldNode(s.order_by[n].expr), tables)
    BY FoldFold DEF BoundClauses
  <2>2. order[n] = [s.order_by[n] EXCEPT !.expr = FoldNode(s.order_by[n].expr)]
    OBVIOUS
  <2> HIDE DEF order
  <2> QED
    BY <2>1, <2>2, OtherKey DEF BoundExpr
<1>5. \A n \in DOMAIN s.group_by : BoundExpr(groups[n], tables)
  BY FoldFold DEF BoundClauses
<1>6. BoundOptional(where, tables) /\ BoundOptional(having, tables)
  BY FoldFold DEF BoundClauses, BoundOptional
<1>7. /\ join = Nothing <=> s.join = Nothing
      /\ join = Nothing \/ (IsJoin(join, BoundKinds) /\ BoundExpr(join.condition, tables))
      /\ join # Nothing => join.table = s.join.table
  <2>1. CASE s.join = Nothing
    BY <2>1
  <2>2. CASE s.join # Nothing
    <3>1. IsJoin(s.join, BoundKinds) /\ BoundExpr(FoldNode(s.join.condition), tables)
      BY <2>2, FoldFold DEF BoundClauses
    <3>2. join = [s.join EXCEPT !.condition = FoldNode(s.join.condition)]
      BY <2>2
    <3> HIDE DEF join
    <3>3. IsJoin(join, BoundKinds) /\ BoundExpr(join.condition, tables) /\ join.table = s.join.table
      BY <3>1, <3>2, OtherJoin DEF BoundExpr
    <3> QED
      BY <2>2, <3>3, JoinNotNothing
  <2> QED
    BY <2>1, <2>2
<1> HIDE DEF list, groups, order, where, having, join, r
<1>0. Whole(s)
  BY DEF BoundClauses
<1>8. /\ Whole(r) /\ r.from = s.from /\ r.select_list = list /\ r.where = where /\ r.group_by = groups
      /\ r.having = having /\ r.order_by = order /\ r.join = join
  BY <1>0, <1>1, ClausesGiven
<1>9. BoundClauses(r, tables)
  BY <1>2, <1>3, <1>4, <1>5, <1>6, <1>7, <1>8 DEF BoundClauses
<1>10. Tables(r) = Tables(s)
  BY <1>7, <1>8 DEF Tables
<1> QED
  BY <1>9, <1>10 DEF r

(* What stands for a key: itself, or what the select list calls by its     *)
(* name.                                                                   *)
LEMMA MeantExpr ==
    ASSUME NEW select, IsSeq(select), NEW kinds, \A n \in DOMAIN select : IsExpr(select[n].expr, kinds),
           NEW e, IsExpr(e, kinds)
    PROVE  IsExpr(Meant(select, e), kinds)
<1> DEFINE S == {n \in DOMAIN select : select[n].alias = e.payload.column_name}
           k == Aliased(select, e)
<1>1. k = 0 \/ k = First(S)
  BY DEF Aliased
<1>2. S \in SUBSET (Nat \ {0})
  BY SeqFacts
<1>3. S # {} => First(S) \in S
  <2> HIDE DEF S
  <2> QED
    BY <1>2, FirstFacts
<1>4. S = {} => First(S) = 0
  BY DEF First
<1> HIDE DEF k
<1>5. k # 0 => k \in DOMAIN select
  BY <1>1, <1>3, <1>4
<1>6. Meant(select, e) = IF k = 0 THEN e ELSE select[k].expr
  BY DEF Meant, k
<1> QED
  BY <1>5, <1>6

(* Every clause of a bound statement is an expression over its tables.     *)
LEMMA BindClauses ==
    ASSUME NEW s, IsStatement(s, BoundKinds)
    PROVE  BoundClauses(Bind(s), Tables(s)) /\ Tables(Bind(s)) = Tables(s)
<1> DEFINE t == Tables(s)
           bind(e) == BindExpr(e, t)
           isColumn(e) ==
             /\ e.kind = "ColumnRef"
             /\ \E n \in DOMAIN Tables(s) : HasColumn(Tables(s)[n].table_name, e.payload.column_name)
           list == [n \in DOMAIN s.select_list |-> [s.select_list[n] EXCEPT !.expr = bind(s.select_list[n].expr)]]
           key(e) == IF isColumn(e) THEN e ELSE Meant(list, e)
           groups == [n \in DOMAIN s.group_by |-> bind(key(s.group_by[n]))]
           order == [n \in DOMAIN s.order_by |-> [s.order_by[n] EXCEPT !.expr = bind(Meant(list, s.order_by[n].expr))]]
           where == IF s.where = Nothing THEN Nothing ELSE bind(s.where)
           having == IF s.having = Nothing THEN Nothing ELSE bind(s.having)
           join == IF s.join = Nothing THEN Nothing ELSE [s.join EXCEPT !.condition = bind(s.join.condition)]
           r == WithClauses(s, list, where, groups, having, order, join)
<1>0. Bind(s) = FoldConstants(r)
  BY DEF Bind, Each, Maybe, Condition, WithClauses
<1>1. AreTables(t) /\ Whole(s) /\ IsTable(s.from)
  BY TablesFacts DEF IsStatement, Whole
<1> HIDE DEF t
<1>2. /\ IsSeq(list) /\ DOMAIN list = DOMAIN s.select_list
      /\ IsSeq(groups) /\ DOMAIN groups = DOMAIN s.group_by
      /\ IsSeq(order) /\ DOMAIN order = DOMAIN s.order_by
  <2>1. /\ list = [n \in DOMAIN s.select_list |-> list[n]] /\ groups = [n \in DOMAIN s.group_by |-> groups[n]]
        /\ order = [n \in DOMAIN s.order_by |-> order[n]]
    OBVIOUS
  <2> HIDE DEF list, groups, order
  <2> QED
    BY <2>1, MappedSeq DEF IsStatement
<1>3. \A e : IsExpr(e, BoundKinds) => BoundExpr(bind(e), t) /\ IsExpr(bind(e), BoundKinds)
  BY <1>1, BindFold DEF BoundExpr
<1> HIDE DEF bind
<1>4. ASSUME NEW n \in DOMAIN s.select_list
      PROVE  IsItem(list[n], BoundKinds) /\ BoundExpr(list[n].expr, t)
  <2>1. IsItem(s.select_list[n], BoundKinds) /\ BoundExpr(bind(s.select_list[n].expr), t) /\ IsExpr(bind(s.select_list[n].expr), BoundKinds)
    BY <1>3 DEF IsStatement, IsItem
  <2>2. list[n] = [s.select_list[n] EXCEPT !.expr = bind(s.select_list[n].expr)]
    OBVIOUS
  <2> HIDE DEF list
  <2> QED
    BY <2>1, <2>2, OtherItem
<1>5. \A e : IsExpr(e, BoundKinds) => IsExpr(Meant(list, e), BoundKinds)
  <2> HIDE DEF list
  <2> QED
    BY <1>2, <1>4, MeantExpr DEF BoundExpr
<1> HIDE DEF list
<1>6. ASSUME NEW n \in DOMAIN s.order_by
      PROVE  IsKey(order[n], BoundKinds) /\ BoundExpr(order[n].expr, t)
  <2> DEFINE x == bind(Meant(list, s.order_by[n].expr))
  <2>1. IsKey(s.order_by[n], BoundKinds) /\ IsExpr(s.order_by[n].expr, BoundKinds)
    BY DEF IsStatement, IsKey
  <2>2. BoundExpr(x, t) /\ IsExpr(x, BoundKinds)
    BY <1>3, <1>5, <2>1
  <2>3. order[n] = [s.order_by[n] EXCEPT !.expr = x]
    OBVIOUS
  <2> HIDE DEF order, x
  <2> QED
    BY <2>1, <2>2, <2>3, OtherKey
<1>7. ASSUME NEW n \in DOMAIN s.group_by
      PROVE  BoundExpr(groups[n], t)
  <2>1. IsExpr(s.group_by[n], BoundKinds)
    BY DEF IsStatement
  <2>2. IsExpr(key(s.group_by[n]), BoundKinds)
    <3> HIDE DEF isColumn
    <3> QED
      BY <1>5, <2>1
  <2> HIDE DEF key
  <2> QED
    BY <1>3, <2>2
<1>8. BoundOptional(where, t) /\ BoundOptional(having, t)
  BY <1>3 DEF IsStatement, IsOptional, BoundOptional
<1>9. /\ join = Nothing <=> s.join = Nothing
      /\ join = Nothing \/ (IsJoin(join, BoundKinds) /\ BoundExpr(join.condition, t))
      /\ join # Nothing => join.table = s.join.table
  <2>1. CASE s.join = Nothing
    BY <2>1
  <2>2. CASE s.join # Nothing
    <3> DEFINE x == bind(s.join.condition)
    <3>1. IsJoin(s.join, BoundKinds) /\ BoundExpr(x, t) /\ IsExpr(x, BoundKinds)
      BY <1>3, <2>2 DEF IsStatement, IsJoin
    <3>2. join = [s.join EXCEPT !.condition = x]
      BY <2>2
    <3> HIDE DEF join, x
    <3>3. IsJoin(join, BoundKinds) /\ BoundExpr(join.condition, t) /\ join.table = s.join.table
      BY <3>1, <3>2, OtherJoin
    <3> QED
      BY <2>2, <3>3, JoinNotNothing
  <2> QED
    BY <2>1, <2>2
<1> HIDE DEF list, groups, order, where, having, join
<1>10. /\ Whole(r) /\ r.from = s.from /\ r.select_list = list /\ r.where = where /\ r.group_by = groups
       /\ r.having = having /\ r.order_by = order /\ r.join = join
  BY <1>1, ClausesGiven
<1> HIDE DEF r
<1>11. BoundClauses(r, t)
  BY <1>1, <1>2, <1>4, <1>6, <1>7, <1>8, <1>9, <1>10 DEF BoundClauses
<1>12. Tables(r) = Tables(s)
  BY <1>9, <1>10 DEF Tables
<1> QED
  BY <1>0, <1>11, <1>12, FoldClauses DEF t

LEMMA OtherKinds ==
    ASSUME NEW s, NEW kinds, IsStatement(s, kinds), NEW others,
           \A e \in ExpressionsOf(s) : e # Nothing => IsExpr(e, others)
    PROVE  IsStatement(s, others)
<1>1. \A n \in DOMAIN s.select_list : IsItem(s.select_list[n], others)
  <2> TAKE n \in DOMAIN s.select_list
  <2>1. IsItem(s.select_list[n], kinds) /\ s.select_list[n].expr \in ExpressionsOf(s)
    BY DEF IsStatement, ExpressionsOf
  <2> QED
    BY <2>1, NothingNotExpr DEF IsItem
<1>2. \A n \in DOMAIN s.order_by : IsKey(s.order_by[n], others)
  <2> TAKE n \in DOMAIN s.order_by
  <2>1. IsKey(s.order_by[n], kinds) /\ s.order_by[n].expr \in ExpressionsOf(s)
    BY DEF IsStatement, ExpressionsOf
  <2> QED
    BY <2>1, NothingNotExpr DEF IsKey
<1>3. \A n \in DOMAIN s.group_by : IsExpr(s.group_by[n], others)
  BY NothingNotExpr DEF IsStatement, ExpressionsOf, Elements
<1>4. IsOptional(s.where, others) /\ IsOptional(s.having, others)
  BY DEF IsOptional, ExpressionsOf
<1>5. s.join = Nothing \/ IsJoin(s.join, others)
  <2> SUFFICES ASSUME s.join # Nothing PROVE IsJoin(s.join, others)
    OBVIOUS
  <2>1. IsJoin(s.join, kinds) /\ s.join.condition \in ExpressionsOf(s)
    BY DEF IsStatement, ExpressionsOf
  <2> QED
    BY <2>1, NothingNotExpr DEF IsJoin
<1> QED
  BY <1>1, <1>2, <1>3, <1>4, <1>5 DEF IsStatement

LEMMA StatementExprs ==
    ASSUME NEW s, NEW kinds, IsStatement(s, kinds), NEW e \in ExpressionsOf(s), e # Nothing
    PROVE  IsExpr(e, kinds)
BY DEF IsStatement, IsItem, IsKey, IsJoin, IsOptional, ExpressionsOf, Elements

(* The walk that looks for what binding could not resolve.                 *)
LEMMA InvalidStep ==
    ASSUME NEW kinds, NEW e, IsExpr(e, kinds)
    PROVE  IsInvalid(e) <=> e.kind = "Invalid" \/ \E n \in DOMAIN e.args : IsInvalid(e.args[n])
<1> DEFINE walk(x) == InvalidWalk!Fold(Nothing, x)
<1>1. walk(e) = InvalidNode(Nothing, e, [k \in DOMAIN e.args |-> walk(e.args[k])])
  BY ChildrenNodes, LeastNat, InvalidWalk!FoldStep DEF InvalidWalk!WellOrdered
<1>2. e # Nothing /\ \A k \in DOMAIN e.args : e.args[k] # Nothing
  BY ExprElim, NothingNotExpr
<1> HIDE DEF walk
<1>3. walk(e) = (e.kind = "Invalid" \/ \E n \in DOMAIN e.args : walk(e.args[n]))
  BY <1>1, Zenon DEF InvalidNode
<1>4. \A x : IsInvalid(x) <=> x # Nothing /\ walk(x)
  BY DEF IsInvalid, walk
<1> QED
  BY <1>2, <1>3, <1>4

LEMMA NotInvalid ==
    ASSUME NEW e, IsExpr(e, BoundKinds), ~ IsInvalid(e)
    PROVE  IsExpr(e, ParsedKinds)
<1> DEFINE T == {x \in Nodes(e) : ~ IsInvalid(x) => IsExpr(x, ParsedKinds)}
<1>1. ASSUME NEW x \in Nodes(e), IsExpr(x, BoundKinds), \A k \in DOMAIN x.args : x.args[k] \in T
      PROVE  x \in T
  <2> SUFFICES ASSUME ~ IsInvalid(x) PROVE IsExpr(x, ParsedKinds)
    OBVIOUS
  <2>1. x.kind # "Invalid" /\ \A k \in DOMAIN x.args : ~ IsInvalid(x.args[k])
    BY <1>1, InvalidStep
  <2>2. WellFormed(x, BoundKinds)
    BY <1>1, ExprElim
  <2>3. WellFormed(x, ParsedKinds)
    BY <2>1, <2>2 DEF WellFormed, BoundKinds
  <2> QED
    BY <1>1, <2>1, <2>3, ExprIntro
<1> HIDE DEF T
<1>2. e \in T
  BY <1>1, ExprInduction
<1> QED
  BY <1>2 DEF T

(* A statement that is bound.                                              *)
LEMMA BoundStatement ==
    ASSUME NEW s, IsStatement(s, ParsedKinds), ~ BindFails(Bind(s))
    PROVE  IsStatement(Bind(s), ParsedKinds) /\ SettledStatement(Bind(s))
<1> DEFINE b == Bind(s)
<1>1. IsStatement(s, BoundKinds)
  <2>1. \A e \in ExpressionsOf(s) : e # Nothing => IsExpr(e, BoundKinds)
    BY StatementExprs, MoreKinds DEF BoundKinds
  <2> QED
    BY <2>1, OtherKinds
<1>2. BoundClauses(b, Tables(s)) /\ Tables(b) = Tables(s)
  BY <1>1, BindClauses
<1>0. \A n \in DOMAIN Expressions(b) : ~ IsInvalid(Expressions(b)[n])
  BY DEF BindFails
<1> HIDE DEF b
<1>4. IsStatement(b, BoundKinds) /\ \A e \in ExpressionsOf(b) : e # Nothing => BoundExpr(e, Tables(s))
  BY <1>2, ClausesStatement
<1>5. \A e \in ExpressionsOf(b) : ~ IsInvalid(e)
  BY <1>0, <1>4, ExpressionsFacts DEF Elements
<1>6. IsStatement(b, ParsedKinds)
  BY <1>4, <1>5, NotInvalid, OtherKinds DEF BoundExpr
<1>7. SettledStatement(b)
  BY <1>2, <1>4 DEF SettledStatement, BoundExpr, SettledAll, Columns
<1> QED
  BY <1>6, <1>7 DEF b

-----------------------------------------------------------------------------
(* Validation.                                                             *)

LEMMA ValidStep ==
    ASSUME NEW kinds, NEW e, IsExpr(e, kinds), NEW table, NEW allowed \in BOOLEAN, ValidateExpr(e, table, allowed)
    PROVE  /\ e.kind = "ColumnRef" => Qualified(e) \/ HasColumn(table, e.payload.column_name)
           /\ e.kind = "AggregateExpr" => allowed
           /\ \A k \in DOMAIN e.args : ValidateExpr(e.args[k], table, allowed)
<1> DEFINE on == [table |-> table, allowAggregates |-> allowed]
           walk(x) == ValidWalk!Fold(on, x)
<1>1. walk(e) = ValidNode(on, e, [k \in DOMAIN e.args |-> walk(e.args[k])])
  BY ChildrenNodes, LeastNat, ValidWalk!FoldStep DEF ValidWalk!WellOrdered
<1>2. \A x : ValidateExpr(x, table, allowed) = walk(x)
  BY DEF ValidateExpr
<1>3. on.table = table /\ on.allowAggregates = allowed
  OBVIOUS
<1> HIDE DEF walk, on
<1>4. ValidNode(on, e, [k \in DOMAIN e.args |-> walk(e.args[k])])
  BY <1>1, <1>2
<1>5. /\ e.kind = "ColumnRef" => Qualified(e) \/ HasColumn(on.table, e.payload.column_name)
      /\ e.kind = "AggregateExpr" => on.allowAggregates
      /\ \A k \in DOMAIN e.args : walk(e.args[k])
  BY <1>4, Zenon DEF ValidNode, Qualified
<1> QED
  BY <1>2, <1>3, <1>5

LEMMA ValidFacts ==
    ASSUME NEW kinds, NEW e, IsExpr(e, kinds), NEW table, NEW allowed \in BOOLEAN, ValidateExpr(e, table, allowed)
    PROVE  \A x \in Nodes(e) : /\ x.kind = "ColumnRef" => Qualified(x) \/ HasColumn(table, x.payload.column_name)
                               /\ x.kind = "AggregateExpr" => allowed = TRUE
<1> DEFINE Local(x) == /\ x.kind = "ColumnRef" => Qualified(x) \/ HasColumn(table, x.payload.column_name)
                       /\ x.kind = "AggregateExpr" => allowed = TRUE
           T == {x \in Nodes(e) : ValidateExpr(x, table, allowed) => \A y \in Nodes(x) : Local(y)}
<1>1. ASSUME NEW x \in Nodes(e), IsExpr(x, kinds), \A k \in DOMAIN x.args : x.args[k] \in T
      PROVE  x \in T
  <2> SUFFICES ASSUME ValidateExpr(x, table, allowed) PROVE \A y \in Nodes(x) : Local(y)
    OBVIOUS
  <2>1. Local(x) /\ \A k \in DOMAIN x.args : ValidateExpr(x.args[k], table, allowed)
    BY <1>1, ValidStep
  <2>2. Nodes(x) = {x} \cup UNION {Nodes(x.args[k]) : k \in DOMAIN x.args}
    BY <1>1, NodesSplit
  <2> HIDE DEF Local
  <2> QED
    BY <1>1, <2>1, <2>2
<1> HIDE DEF T
<1>2. e \in T
  BY <1>1, ExprInduction
<1> QED
  BY <1>2 DEF T

LEMMA AggregatesStep ==
    ASSUME NEW kinds, NEW e, IsExpr(e, kinds)
    PROVE  CollectAggregates(e) = IF e.kind = "AggregateExpr" THEN <<e>>
                                  ELSE Join([k \in DOMAIN e.args |-> CollectAggregates(e.args[k])])
<1> DEFINE walk(x) == AggregatesWalk!Fold(Nothing, x)
<1>1. walk(e) = AggregatesNode(Nothing, e, [k \in DOMAIN e.args |-> walk(e.args[k])])
  BY ChildrenNodes, LeastNat, AggregatesWalk!FoldStep DEF AggregatesWalk!WellOrdered
<1>2. e # Nothing /\ \A k \in DOMAIN e.args : e.args[k] # Nothing
  BY ExprElim, NothingNotExpr
<1>3. \A x : x # Nothing => CollectAggregates(x) = walk(x)
  BY DEF CollectAggregates
<1> HIDE DEF walk
<1>4. [k \in DOMAIN e.args |-> walk(e.args[k])] = [k \in DOMAIN e.args |-> CollectAggregates(e.args[k])]
  BY <1>2, <1>3
<1> QED
  BY <1>1, <1>2, <1>3, <1>4 DEF AggregatesNode

LEMMA AggregatesFacts ==
    ASSUME NEW kinds, NEW e, IsExpr(e, kinds)
    PROVE  /\ IsSeq(CollectAggregates(e))
           /\ CollectAggregates(e) = << >> => \A x \in Nodes(e) : x.kind # "AggregateExpr"
<1> DEFINE Local(x) == /\ IsSeq(CollectAggregates(x))
                       /\ CollectAggregates(x) = << >> => \A y \in Nodes(x) : y.kind # "AggregateExpr"
           T == {x \in Nodes(e) : Local(x)}
<1>1. ASSUME NEW x \in Nodes(e), IsExpr(x, kinds), \A k \in DOMAIN x.args : x.args[k] \in T
      PROVE  Local(x)
  <2> DEFINE parts == [k \in DOMAIN x.args |-> CollectAggregates(x.args[k])]
  <2>1. CASE x.kind = "AggregateExpr"
    <3>1. CollectAggregates(x) = <<x>> /\ <<x>> # << >>
      BY <1>1, <2>1, AggregatesStep
    <3> QED
      BY <3>1, SingleSeq
  <2>2. CASE x.kind # "AggregateExpr"
    <3>1. CollectAggregates(x) = Join(parts)
      BY <1>1, <2>2, AggregatesStep
    <3>2. IsSeq(x.args)
      BY <1>1, ExprElim DEF WellFormed
    <3>3. parts = [k \in DOMAIN x.args |-> parts[k]] /\ \A k \in DOMAIN x.args : IsSeq(parts[k]) /\ parts[k] = CollectAggregates(x.args[k])
      BY <1>1
    <3> HIDE DEF parts
    <3>4. IsSeq(parts) /\ DOMAIN parts = DOMAIN x.args
      BY <3>2, <3>3, MappedSeq
    <3>5. IsSeq(Join(parts))
      BY <3>3, <3>4, JoinFacts
    <3>6. ASSUME Join(parts) = << >>, NEW k \in DOMAIN x.args
          PROVE  \A y \in Nodes(x.args[k]) : y.kind # "AggregateExpr"
      <4>1. parts[k] = << >>
        BY <3>3, <3>4, <3>6, NoneJoined
      <4> QED
        BY <1>1, <3>3, <4>1
    <3>7. Nodes(x) = {x} \cup UNION {Nodes(x.args[k]) : k \in DOMAIN x.args}
      BY <1>1, NodesSplit
    <3> QED
      BY <2>2, <3>1, <3>5, <3>6, <3>7
  <2> QED
    BY <2>1, <2>2
<1> HIDE DEF Local
<1>2. e \in T
  <2>1. \A x \in Nodes(e) : IsExpr(x, kinds) /\ (\A k \in DOMAIN x.args : x.args[k] \in T) => x \in T
    BY <1>1
  <2> HIDE DEF T
  <2> QED
    BY <2>1, ExprInduction
<1> QED
  BY <1>2 DEF T, Local

LEMMA ColsStep ==
    ASSUME NEW kinds, NEW e, IsExpr(e, kinds)
    PROVE  CollectCols(e) = IF e.kind = "ColumnRef" THEN {e.payload.column_name}
                            ELSE UNION {CollectCols(e.args[k]) : k \in DOMAIN e.args}
<1> DEFINE walk(x) == ColsWalk!Fold(Nothing, x)
           cols == [k \in DOMAIN e.args |-> walk(e.args[k])]
<1>1. walk(e) = ColsNode(Nothing, e, cols)
  BY ChildrenNodes, LeastNat, ColsWalk!FoldStep DEF ColsWalk!WellOrdered
<1>2. e # Nothing /\ \A k \in DOMAIN e.args : e.args[k] # Nothing
  BY ExprElim, NothingNotExpr
<1>3. \A x : x # Nothing => CollectCols(x) = walk(x)
  BY DEF CollectCols
<1> HIDE DEF walk
<1>4. DOMAIN cols = DOMAIN e.args /\ \A k \in DOMAIN e.args : cols[k] = CollectCols(e.args[k])
  BY <1>2, <1>3
<1> HIDE DEF cols
<1>5. {cols[k] : k \in DOMAIN cols} = {CollectCols(e.args[k]) : k \in DOMAIN e.args}
  BY <1>4
<1> QED
  BY <1>1, <1>2, <1>3, <1>4, <1>5 DEF ColsNode

LEMMA ColsFacts ==
    ASSUME NEW kinds, NEW e, IsExpr(e, kinds)
    PROVE  \A x \in Columns(e) : x.payload.column_name \in CollectCols(e)
<1> DEFINE T == {x \in Nodes(e) : \A y \in Columns(x) : y.payload.column_name \in CollectCols(x)}
<1>1. ASSUME NEW x \in Nodes(e), IsExpr(x, kinds), \A k \in DOMAIN x.args : x.args[k] \in T
      PROVE  x \in T
  <2>1. Nodes(x) = {x} \cup UNION {Nodes(x.args[k]) : k \in DOMAIN x.args}
    BY <1>1, NodesSplit
  <2>2. CASE x.kind = "ColumnRef"
    <3>1. x.args = << >>
      BY <1>1, <2>2, ExprElim, ArgsCount
    <3>2. Nodes(x) = {x}
      BY <2>1, <3>1
    <3> QED
      BY <1>1, <2>2, <3>2, ColsStep DEF Columns
  <2>3. CASE x.kind # "ColumnRef"
    <3>1. CollectCols(x) = UNION {CollectCols(x.args[k]) : k \in DOMAIN x.args}
      BY <1>1, <2>3, ColsStep
    <3> QED
      BY <1>1, <2>1, <2>3, <3>1 DEF Columns
  <2> QED
    BY <2>2, <2>3
<1> HIDE DEF T
<1>2. e \in T
  BY <1>1, ExprInduction
<1> QED
  BY <1>2 DEF T

(* Without group keys, no part of an expression is one.                    *)
LEMMA SubstituteNone ==
    ASSUME NEW kinds, NEW e, IsExpr(e, kinds)
    PROVE  SubstituteInto(e, << >>) = e
<1> DEFINE T == {x \in Nodes(e) : SubstituteInto(x, << >>) = x}
<1>1. ASSUME NEW x \in Nodes(e), IsExpr(x, kinds), \A k \in DOMAIN x.args : x.args[k] \in T
      PROVE  x \in T
  <2> DEFINE args == [k \in DOMAIN x.args |-> SubstituteInto(x.args[k], << >>)]
  <2>1. SubstituteInto(x, << >>) = SubstitutedNode(<< >>, x, args)
    BY <1>1, ChildrenNodes, LeastNat, SubstituteWalk!FoldStep DEF SubstituteInto, SubstituteWalk!WellOrdered
  <2>2. args = x.args
    <3>1. x.args = [k \in DOMAIN x.args |-> x.args[k]]
      BY <1>1, SameArgs
    <3> QED
      BY <1>1, <3>1
  <2>3. SubstitutedNode(<< >>, x, args) \in {x, WithArgs(x, args)}
    BY DEF SubstitutedNode
  <2>4. WithArgs(x, x.args) = x
    BY <1>1, SameArgs
  <2> QED
    BY <2>1, <2>2, <2>3, <2>4
<1> HIDE DEF T
<1>2. e \in T
  BY <1>1, ExprInduction
<1> QED
  BY <1>2 DEF T

-----------------------------------------------------------------------------
(* The schema of a scan.                                                   *)

(* A column as its slot and name give it.                                  *)
SlotColumn(name, slot) ==
    Node("ColumnRef", NoName, << >>, [table_name |-> NoName, column_name |-> name, relation_slot |-> slot])

LEMMA ScanFacts ==
    ASSUME NEW s, NEW slot \in {0, 1}, slot + 1 \in DOMAIN Tables(s),
           Tables(s)[slot + 1].table_name \in DOMAIN Catalog
    PROVE  LET table == Catalog[Tables(s)[slot + 1].table_name]
               schema == BuildScanSchema(s, slot)
               all == Expressions(s)
           IN  /\ IsSeq(schema)
               /\ \A n \in DOMAIN schema :
                     /\ schema[n].relation_slot = slot /\ schema[n].of = SlotColumn(schema[n].name, slot)
                     /\ \E k \in DOMAIN table : schema[n].name = table[k].name /\ schema[n].type = table[k].type
               /\ \A k \in DOMAIN table : \A i \in DOMAIN all :
                     table[k].name \in CollectCols(all[i]) => \E n \in DOMAIN schema : schema[n].name = table[k].name
<1> DEFINE table == Catalog[Tables(s)[slot + 1].table_name]
           schema == BuildScanSchema(s, slot)
           all == Expressions(s)
           mentioned == UNION {CollectCols(all[n]) : n \in DOMAIN all}
           column(c) == Column(c.name, c.type, slot, SlotColumn(c.name, slot))
           columns == [n \in DOMAIN table |-> column(table[n])]
           test(c) == s.select_star \/ c.name \in mentioned
           chosen == [n \in DOMAIN columns |-> IF test(columns[n]) THEN <<columns[n]>> ELSE << >>]
<1>1. schema = Join(chosen)
  BY DEF BuildScanSchema, Chosen, SlotColumn
<1>2. IsSeq(table)
  BY TablesAssumption
<1>3. \A c : /\ column(c).name = c.name /\ column(c).type = c.type /\ column(c).relation_slot = slot
              /\ column(c).of = SlotColumn(c.name, slot)
  BY DEF Column
<1> HIDE DEF column, mentioned
<1>4. IsSeq(columns) /\ DOMAIN columns = DOMAIN table
  <2>1. columns = [n \in DOMAIN table |-> columns[n]]
    OBVIOUS
  <2> HIDE DEF columns
  <2> QED
    BY <1>2, <2>1, MappedSeq
<1>5. \A n \in DOMAIN table : columns[n] = column(table[n])
  OBVIOUS
<1> HIDE DEF columns, schema, table
<1>6. IsSeq(chosen) /\ DOMAIN chosen = DOMAIN table
  <2>1. chosen = [n \in DOMAIN columns |-> chosen[n]]
    OBVIOUS
  <2> HIDE DEF chosen
  <2> QED
    BY <1>4, <2>1, MappedSeq
<1>7. \A n \in DOMAIN table : /\ IsSeq(chosen[n]) /\ Elements(chosen[n]) \subseteq {columns[n]}
                              /\ test(columns[n]) => columns[n] \in Elements(chosen[n])
  BY <1>4, EmptySeq, SingleSeq
<1> HIDE DEF chosen
<1>8. IsSeq(schema) /\ Elements(schema) = UNION {Elements(chosen[n]) : n \in DOMAIN chosen}
  BY <1>1, <1>6, <1>7, JoinFacts
<1>9. \A n \in DOMAIN schema :
         /\ schema[n].relation_slot = slot /\ schema[n].of = SlotColumn(schema[n].name, slot)
         /\ \E k \in DOMAIN table : schema[n].name = table[k].name /\ schema[n].type = table[k].type
  <2> TAKE n \in DOMAIN schema
  <2>1. schema[n] \in Elements(schema)
    BY DEF Elements
  <2>2. PICK k \in DOMAIN table : schema[n] \in Elements(chosen[k])
    BY <1>6, <1>8, <2>1
  <2>3. schema[n] = column(table[k])
    BY <1>5, <1>7, <2>2
  <2> QED
    BY <1>3, <2>3
<1>10. ASSUME NEW k \in DOMAIN table, NEW i \in DOMAIN all, table[k].name \in CollectCols(all[i])
       PROVE  \E n \in DOMAIN schema : schema[n].name = table[k].name
  <2>1. table[k].name \in mentioned
    BY <1>10 DEF mentioned
  <2>2. test(columns[k]) /\ columns[k] = column(table[k])
    BY <1>3, <1>5, <2>1
  <2>3. column(table[k]) \in Elements(schema)
    BY <1>6, <1>7, <1>8, <2>2
  <2>4. PICK n \in DOMAIN schema : schema[n] = column(table[k])
    BY <2>3 DEF Elements
  <2> QED
    BY <1>3, <2>4
<1> QED
  BY <1>8, <1>9, <1>10 DEF schema, table

(* A column that the scan has is found.                                    *)
LEMMA ReadsColumn ==
    ASSUME NEW schema, IsSeq(schema), NEW x, x.kind = "ColumnRef", x.payload.relation_slot = 0,
           \E n \in DOMAIN schema : schema[n].name = x.payload.column_name /\ schema[n].relation_slot = 0
    PROVE  Readable(x, schema)
<1> DEFINE S == {n \in DOMAIN schema : schema[n].name = x.payload.column_name /\ schema[n].relation_slot = 0}
           k == IndexOfSlot(schema, x.payload.column_name, x.payload.relation_slot)
<1>1. k = First(S)
  BY DEF IndexOfSlot
<1>2. S \in SUBSET (Nat \ {0}) /\ S \subseteq DOMAIN schema /\ S # {}
  BY SeqFacts
<1>3. First(S) \in DOMAIN schema /\ First(S) # 0
  <2> HIDE DEF S
  <2> QED
    BY <1>2, FirstFacts
<1> HIDE DEF S, k
<1>4. IndexRead(x, schema) = k
  BY <1>1, <1>3 DEF IndexRead, ResolveColumnIndex, NoSlot, k
<1> QED
  BY <1>1, <1>3, <1>4 DEF Readable

(* The row of a scan.                                                      *)
LEMMA RowFitsScan ==
    ASSUME NEW s, s.from.table_name \in DOMAIN Catalog, 1 \in DOMAIN Tables(s), Tables(s)[1] = s.from,
           NEW i \in DOMAIN Rows[s.from.table_name]
    PROVE  LET schema == BuildScanSchema(s, 0)
               row == Rows[s.from.table_name][i]
           IN  RowFits([row |-> [n \in DOMAIN schema |-> row[schema[n].name]], schema |-> schema])
<1> DEFINE schema == BuildScanSchema(s, 0)
           t == s.from.table_name
           row == Rows[t][i]
           values == [n \in DOMAIN schema |-> row[schema[n].name]]
<1>1. IsSeq(schema) /\ \A n \in DOMAIN schema : \E k \in DOMAIN Catalog[t] :
         schema[n].name = Catalog[t][k].name /\ schema[n].type = Catalog[t][k].type
  <2>1. 0 \in {0, 1} /\ 0 + 1 \in DOMAIN Tables(s) /\ Tables(s)[0 + 1] = s.from
    OBVIOUS
  <2> QED
    BY <2>1, ScanFacts
<1>2. \A k \in DOMAIN Catalog[t] :
         Catalog[t][k].type \in Types /\ IsCell(row[Catalog[t][k].name], Catalog[t][k].type)
  BY TablesAssumption DEF Types
<1> HIDE DEF schema, t, row
<1>3. \A v, u : u \in Types /\ IsCell(v, u) => Good(v, u, {})
  BY DEF IsCell, IsValue, IsText, Good, Types, NullValue
<1>4. \A n \in DOMAIN schema : schema[n].type \in Types /\ Good(values[n], schema[n].type, {})
  BY <1>1, <1>2, <1>3
<1> HIDE DEF values
<1>5. RowFits([row |-> values, schema |-> schema])
  BY <1>4 DEF RowFits
<1> QED
  BY <1>5 DEF values, schema, row, t

-----------------------------------------------------------------------------
(* The plan of a statement whose rows are evaluated.                       *)

(* What Validate says of the clauses evaluation reads.                     *)
LEMMA ValidateParts ==
    ASSUME NEW s, Validate(s)
    PROVE  /\ \A n \in DOMAIN s.select_list : ValidateExpr(s.select_list[n].expr, s.from.table_name, TRUE)
           /\ s.where # Nothing => ValidateExpr(s.where, s.from.table_name, FALSE)
           /\ s.having # Nothing => s.group_by # << >>
BY Zenon DEF Validate

LEMMA RowsClauses ==
    ASSUME NEW s, NEW kinds, IsStatement(s, kinds), Validate(s), EvaluatesRows(s)
    PROVE  /\ s.join = Nothing /\ s.group_by = << >> /\ s.order_by = << >> /\ s.having = Nothing
           /\ ~ s.select_star /\ ~ Groups(s)
           /\ \A n \in DOMAIN s.select_list : \A x \in Nodes(s.select_list[n].expr) : x.kind # "AggregateExpr"
<1>1. /\ s.join = Nothing /\ s.order_by = << >> /\ ~ s.select_star /\ ~ Groups(s)
      /\ s.group_by = << >> /\ SelectAggregates(s) = << >>
  BY DEF EvaluatesRows, Groups
<1>2. s.having = Nothing
  BY <1>1, ValidateParts
<1> DEFINE list == [n \in DOMAIN s.select_list |-> s.select_list[n].expr]
           parts == [n \in DOMAIN list |-> CollectAggregates(list[n])]
<1>3. Join(parts) = << >>
  BY <1>1 DEF SelectAggregates, Aggregates
<1>4. DOMAIN parts = DOMAIN s.select_list /\ parts = [n \in DOMAIN s.select_list |-> parts[n]]
      /\ \A n \in DOMAIN s.select_list : parts[n] = CollectAggregates(s.select_list[n].expr)
  OBVIOUS
<1> HIDE DEF parts
<1>5. IsSeq(parts)
  BY <1>4, MappedSeq DEF IsStatement
<1>6. ASSUME NEW n \in DOMAIN s.select_list
      PROVE  \A x \in Nodes(s.select_list[n].expr) : x.kind # "AggregateExpr"
  <2>1. \A k \in DOMAIN s.select_list : IsExpr(s.select_list[k].expr, kinds)
    BY DEF IsStatement, IsItem
  <2>2. \A k \in DOMAIN parts : IsSeq(parts[k])
    BY <1>4, <2>1, AggregatesFacts
  <2>3. CollectAggregates(s.select_list[n].expr) = << >>
    BY <1>3, <1>4, <1>5, <2>2, NoneJoined
  <2> QED
    BY <2>1, <2>3, AggregatesFacts
<1> QED
  BY <1>1, <1>2, <1>6

(* Every column that such a statement mentions is in its scan.             *)
LEMMA RowsReadable ==
    ASSUME NEW s, IsStatement(s, ParsedKinds), SettledStatement(s), Validate(s), EvaluatesRows(s), TablesExist(s),
           NEW e, e # Nothing, e = s.where \/ \E n \in DOMAIN s.select_list : e = s.select_list[n].expr
    PROVE  /\ IsExpr(e, ParsedKinds)
           /\ \A x \in Nodes(e) : Readable(x, BuildScanSchema(s, 0))
<1> DEFINE schema == BuildScanSchema(s, 0)
           t == s.from.table_name
<1>1. Tables(s)[1] = s.from /\ t \in DOMAIN Catalog
  <2>1. AreTables(Tables(s)) /\ Tables(s)[1] = s.from
    BY TablesFacts
  <2>2. 1 \in DOMAIN Tables(s)
    BY <2>1, SeqFacts DEF AreTables
  <2> QED
    BY <2>1, <2>2 DEF TablesExist
<1>2. e \in ExpressionsOf(s)
  BY DEF ExpressionsOf
<1>3. IsExpr(e, ParsedKinds)
  BY <1>2, StatementExprs
<1>4. ASSUME NEW x \in Nodes(e)
      PROVE  x.kind # "AggregateExpr" /\ (x.kind = "ColumnRef" => Qualified(x) \/ HasColumn(t, x.payload.column_name))
  <2>1. CASE e = s.where
    <3> DEFINE allowed == FALSE
    <3>1. ValidateExpr(e, t, allowed) /\ allowed \in BOOLEAN /\ allowed # TRUE
      BY <2>1, ValidateParts
    <3> HIDE DEF t, allowed
    <3>2. \A y \in Nodes(e) : /\ y.kind = "ColumnRef" => Qualified(y) \/ HasColumn(t, y.payload.column_name)
                              /\ y.kind # "AggregateExpr"
      BY <1>3, <3>1, ValidFacts
    <3> QED
      BY <1>4, <3>2
  <2>2. CASE \E n \in DOMAIN s.select_list : e = s.select_list[n].expr
    <3> DEFINE allowed == TRUE
    <3>1. ValidateExpr(e, t, allowed) /\ allowed \in BOOLEAN
      BY <2>2, ValidateParts
    <3>2. x.kind # "AggregateExpr"
      BY <2>2, RowsClauses
    <3> HIDE DEF t, allowed
    <3>3. \A y \in Nodes(e) : y.kind = "ColumnRef" => Qualified(y) \/ HasColumn(t, y.payload.column_name)
      BY <1>3, <3>1, ValidFacts
    <3> QED
      BY <1>4, <3>2, <3>3
  <2> QED
    BY <2>1, <2>2
<1>5. ASSUME NEW x \in Nodes(e), x.kind = "ColumnRef"
      PROVE  Readable(x, schema)
  <2>1. DOMAIN Tables(s) = {1}
    BY RowsClauses, TablesFacts, SeqFacts DEF AreTables
  <2>2. Settled(x, Tables(s)) /\ x \in Columns(e)
    BY <1>2, <1>5 DEF SettledStatement, Columns
  <2>3. x.payload.relation_slot = 0 /\ HasColumn(t, x.payload.column_name)
    <3>1. IsPayload("ColumnRef", x.payload)
      BY <1>3, <1>5, ExprElim DEF WellFormed
    <3>2. x.payload.relation_slot \in {-1, 0, 1}
      BY <3>1 DEF IsPayload, NoSlot
    <3> QED
      BY <1>1, <1>4, <1>5, <2>1, <2>2, <3>2 DEF Settled, HavingTables
  <2>4. PICK k \in DOMAIN Catalog[t] : Catalog[t][k].name = x.payload.column_name
    BY <2>3 DEF HasColumn
  <2>5. PICK i \in DOMAIN Expressions(s) : Expressions(s)[i] = e
    BY <1>2, ExpressionsFacts DEF Elements
  <2>6. Catalog[t][k].name \in CollectCols(Expressions(s)[i])
    BY <1>3, <2>2, <2>4, <2>5, ColsFacts
  <2>7. IsSeq(schema) /\ \E n \in DOMAIN schema : schema[n].name = Catalog[t][k].name /\ schema[n].relation_slot = 0
    <3>1. 0 \in {0, 1} /\ 0 + 1 \in DOMAIN Tables(s) /\ Tables(s)[0 + 1] = s.from
      BY <1>1, <2>1
    <3> QED
      BY <1>1, <2>6, <3>1, ScanFacts
  <2> HIDE DEF schema, t
  <2> QED
    BY <1>5, <2>3, <2>4, <2>7, ReadsColumn
<1> QED
  BY <1>3, <1>4, <1>5 DEF Readable

LEMMA NoKeys ==
    ASSUME NEW ss, IsSeq(ss), DOMAIN ss = {}
    PROVE  Join(ss) = << >>
<1>1. IsSeq(Join(ss)) /\ Elements(Join(ss)) = {}
  BY JoinFacts
<1> QED
  BY <1>1, NoLength

(* The keys that are not columns.                                         *)
ComputedKeys(s) == Chosen(s.group_by, LAMBDA e : e.kind # "ColumnRef")

LEMMA ComputedKeysFacts ==
    ASSUME NEW s, IsSeq(s.group_by)
    PROVE  /\ IsSeq(ComputedKeys(s))
           /\ Elements(ComputedKeys(s)) = {g \in Elements(s.group_by) : g.kind # "ColumnRef"}
           /\ s.group_by = << >> => ComputedKeys(s) = << >>
<1> DEFINE chosen == [n \in DOMAIN s.group_by |-> IF s.group_by[n].kind # "ColumnRef" THEN <<s.group_by[n]>> ELSE << >>]
<1>1. ComputedKeys(s) = Join(chosen)
  BY DEF ComputedKeys, Chosen
<1>2. /\ DOMAIN chosen = DOMAIN s.group_by /\ chosen = [n \in DOMAIN s.group_by |-> chosen[n]]
      /\ \A n \in DOMAIN s.group_by :
            chosen[n] = IF s.group_by[n].kind # "ColumnRef" THEN <<s.group_by[n]>> ELSE << >>
  OBVIOUS
<1> HIDE DEF chosen
<1>3. IsSeq(chosen)
  BY <1>2, MappedSeq
<1>4. \A n \in DOMAIN chosen : /\ IsSeq(chosen[n])
                               /\ Elements(chosen[n]) = IF s.group_by[n].kind # "ColumnRef" THEN {s.group_by[n]} ELSE {}
  BY <1>2, SingleSeq, EmptySeq
<1>5. IsSeq(Join(chosen)) /\ Elements(Join(chosen)) = UNION {Elements(chosen[n]) : n \in DOMAIN chosen}
  BY <1>3, <1>4, JoinFacts
<1>6. Elements(Join(chosen)) = {g \in Elements(s.group_by) : g.kind # "ColumnRef"}
  <2> DEFINE G(n) == IF s.group_by[n].kind # "ColumnRef" THEN {s.group_by[n]} ELSE {}
  <2>1. \A n \in DOMAIN s.group_by : Elements(chosen[n]) = G(n)
    BY <1>2, <1>4
  <2>2. UNION {Elements(chosen[n]) : n \in DOMAIN chosen} = UNION {G(n) : n \in DOMAIN s.group_by}
    <3> HIDE DEF G
    <3> QED
      BY <1>2, <2>1
  <2>3. UNION {G(n) : n \in DOMAIN s.group_by} = {g \in {s.group_by[n] : n \in DOMAIN s.group_by} : g.kind # "ColumnRef"}
    OBVIOUS
  <2> QED
    BY <1>5, <2>2, <2>3 DEF Elements
<1>7. s.group_by = << >> => Join(chosen) = << >>
  <2>1. s.group_by = << >> => DOMAIN chosen = {}
    BY <1>2
  <2> QED
    BY <1>3, <2>1, NoKeys
<1> QED
  BY <1>1, <1>5, <1>6, <1>7

(* Without GROUP BY, substitution leaves a statement as it is.             *)
LEMMA SubstitutedPlain ==
    ASSUME NEW s, IsStatement(s, ParsedKinds), s.group_by = << >>
    PROVE  SubstituteGroupKeyRefs(s) = s
<1> DEFINE keys == ComputedKeys(s)
           list == [n \in DOMAIN s.select_list |->
                       [s.select_list[n] EXCEPT !.expr = SubstituteInto(s.select_list[n].expr, keys)]]
           order == [n \in DOMAIN s.order_by |->
                       [s.order_by[n] EXCEPT !.expr = SubstituteInto(s.order_by[n].expr, keys)]]
           having == IF s.having = Nothing THEN Nothing ELSE SubstituteInto(s.having, keys)
<1>1. SubstituteGroupKeyRefs(s) = [s EXCEPT !.select_list = list, !.having = having, !.order_by = order]
  BY DEF SubstituteGroupKeyRefs, Each, Maybe, ComputedKeys
<1>2. keys = << >>
  BY ComputedKeysFacts DEF IsStatement
<1> HIDE DEF keys
<1>3. \A e : IsExpr(e, ParsedKinds) => SubstituteInto(e, keys) = e
  BY <1>2, SubstituteNone
<1>4. list = s.select_list
  <2>1. ASSUME NEW n \in DOMAIN s.select_list
        PROVE  [s.select_list[n] EXCEPT !.expr = SubstituteInto(s.select_list[n].expr, keys)] = s.select_list[n]
    <3>1. IsItem(s.select_list[n], ParsedKinds)
      BY DEF IsStatement
    <3>2. SubstituteInto(s.select_list[n].expr, keys) = s.select_list[n].expr
      BY <1>3, <3>1 DEF IsItem
    <3> QED
      BY <3>1, <3>2 DEF IsItem
  <2>2. s.select_list = [n \in DOMAIN s.select_list |-> s.select_list[n]]
    BY SeqFacts DEF IsStatement
  <2> QED
    BY <2>1, <2>2
<1>5. order = s.order_by
  <2>1. ASSUME NEW n \in DOMAIN s.order_by
        PROVE  [s.order_by[n] EXCEPT !.expr = SubstituteInto(s.order_by[n].expr, keys)] = s.order_by[n]
    <3>1. IsKey(s.order_by[n], ParsedKinds)
      BY DEF IsStatement
    <3>2. SubstituteInto(s.order_by[n].expr, keys) = s.order_by[n].expr
      BY <1>3, <3>1 DEF IsKey
    <3> QED
      BY <3>1, <3>2 DEF IsKey
  <2>2. s.order_by = [n \in DOMAIN s.order_by |-> s.order_by[n]]
    BY SeqFacts DEF IsStatement
  <2> QED
    BY <2>1, <2>2
<1>6. having = s.having
  BY <1>3 DEF IsStatement, IsOptional
<1> HIDE DEF list, order, having
<1>7. Whole(s)
  BY DEF IsStatement, Whole
<1> QED
  BY <1>1, <1>4, <1>5, <1>6, <1>7 DEF Whole

LEMMA RowsPlan ==
    ASSUME NEW s, IsStatement(s, ParsedKinds), Validate(s), EvaluatesRows(s), TablesExist(s)
    PROVE  BuildPlan(s) = [stmt |-> s, input |-> BuildScanSchema(s, 0), schema |-> BuildScanSchema(s, 0),
                           output |-> BuildProjectSchema(s, BuildScanSchema(s, 0))]
<1>1. s.join = Nothing /\ s.group_by = << >> /\ ~ Groups(s)
  BY RowsClauses
<1>2. SubstituteGroupKeyRefs(s) = s
  BY <1>1, SubstitutedPlain
<1>3. InputSchema(s) = BuildScanSchema(s, 0)
  <2>1. 1 \in DOMAIN Tables(s) /\ Tables(s)[1] = s.from /\ s.from.table_name \in DOMAIN Catalog
    <3>1. AreTables(Tables(s)) /\ Tables(s)[1] = s.from
      BY TablesFacts
    <3>2. 1 \in DOMAIN Tables(s)
      BY <3>1, SeqFacts DEF AreTables
    <3> QED
      BY <3>1, <3>2 DEF TablesExist
  <2>2. IsSeq(BuildScanSchema(s, 0))
    <3>1. 0 \in {0, 1} /\ 0 + 1 \in DOMAIN Tables(s) /\ Tables(s)[0 + 1] = s.from
      BY <2>1
    <3> QED
      BY <2>1, <3>1, ScanFacts
  <2>3. \A q : IsSeq(q) => q \o << >> = q
    BY DEF IsSeq
  <2> QED
    BY <1>1, <2>2, <2>3 DEF InputSchema
<1> QED
  BY <1>1, <1>2, <1>3 DEF BuildPlan

(* What WellTyped asks of the outcome of a row.                            *)
TypedOutcome(o, p) ==
    /\ Raises(o) => o.why \in {"overflow", "start", "length"} \cup LenientStatement(p.stmt, p.input)
    /\ o.type = "ROW" =>
         \A k \in DOMAIN o.values :
            \/ o.values[k].type \in {"NULL", p.output[k].type}
            \/ o.values[k].type = "INT" /\ p.output[k].type = "DOUBLE"

(* The parts of the plan of a statement whose rows are evaluated.          *)
LEMMA RowsTyped ==
    ASSUME NEW s, IsStatement(s, ParsedKinds), SettledStatement(s), Validate(s), EvaluatesRows(s), TablesExist(s),
           WellTypedPlan(BuildPlan(s))
    PROVE  /\ BuildPlan(s).stmt = s /\ BuildPlan(s).input = BuildScanSchema(s, 0)
           /\ s.where # Nothing => InferExprType(s.where, BuildScanSchema(s, 0)) # IllTyped
           /\ \A n \in DOMAIN s.select_list :
                 /\ InferExprType(s.select_list[n].expr, BuildScanSchema(s, 0)) # IllTyped
                 /\ BuildPlan(s).output[n].type = InferExprType(s.select_list[n].expr, BuildScanSchema(s, 0))
<1> DEFINE schema == BuildScanSchema(s, 0)
           p == BuildPlan(s)
           type(e) == IF e.kind = "ColumnRef" /\ IndexRead(e, schema) = 0 THEN "STRING" ELSE InferExprType(e, schema)
           column(item) == Column(IF item.alias = NoName THEN ExprToString(item.expr) ELSE item.alias,
                                  type(item.expr), 0, Restored(item.expr, schema))
<1>1. p.stmt = s /\ p.input = schema /\ p.output = BuildProjectSchema(s, schema)
  BY RowsPlan
<1>2. BuildProjectSchema(s, schema) = [n \in DOMAIN s.select_list |-> column(s.select_list[n])]
  BY DEF BuildProjectSchema, EvaluatesRows
<1>3. ASSUME NEW n \in DOMAIN s.select_list
      PROVE  /\ n \in DOMAIN p.output
             /\ p.output[n].type = InferExprType(s.select_list[n].expr, schema)
  <2> DEFINE e == s.select_list[n].expr
  <2>1. p.output[n] = column(s.select_list[n]) /\ n \in DOMAIN p.output
    BY <1>1, <1>2, <1>3
  <2>2. p.output[n].type = type(e)
    BY <2>1 DEF Column
  <2>3. e # Nothing
    BY <1>3, NothingNotExpr DEF IsStatement, IsItem
  <2>4. IsExpr(e, ParsedKinds) /\ \A x \in Nodes(e) : Readable(x, schema)
    BY <1>3, <2>3, RowsReadable
  <2>5. e \in Nodes(e)
    BY <2>4, NodesSplit
  <2> QED
    BY <2>1, <2>2, <2>4, <2>5 DEF Readable
<1> HIDE DEF p, schema
<1>4. /\ s.where = Nothing \/ InferExprType(s.where, schema) # IllTyped
      /\ \A n \in DOMAIN p.output : p.output[n].type # IllTyped
  BY <1>1 DEF WellTypedPlan, p
<1> QED
  BY <1>1, <1>3, <1>4 DEF p, schema

(* Of every row of its table, and of every clause evaluated on it.         *)
THEOREM OutcomeTyped ==
    ASSUME NEW s, IsStatement(s, ParsedKinds), SettledStatement(s), Validate(s), EvaluatesRows(s), TablesExist(s),
           WellTypedPlan(BuildPlan(s)), NEW i \in DOMAIN Rows[s.from.table_name]
    PROVE  TypedOutcome(Outcome(s, BuildPlan(s).input, Rows[s.from.table_name][i]), BuildPlan(s))
<1> DEFINE schema == BuildScanSchema(s, 0)
           p == BuildPlan(s)
           row == Rows[s.from.table_name][i]
           values == [n \in DOMAIN schema |-> row[schema[n].name]]
           where  == IF s.where = Nothing THEN Truth(TRUE) ELSE Evaluate(s.where, values, schema)
           answer == [n \in DOMAIN s.select_list |-> Evaluate(s.select_list[n].expr, values, schema)]
           raised == {n \in DOMAIN answer : Raises(answer[n])}
           o == Outcome(s, schema, row)
           errors == ScalarErrors \cup LenientStatement(s, schema)
<1>1. p.stmt = s /\ p.input = schema
  BY RowsTyped
<1>2. RowFits([row |-> values, schema |-> schema])
  <2>1. AreTables(Tables(s)) /\ Tables(s)[1] = s.from
    BY TablesFacts
  <2>2. 1 \in DOMAIN Tables(s)
    BY <2>1, SeqFacts DEF AreTables
  <2>3. s.from.table_name \in DOMAIN Catalog
    BY <2>1, <2>2 DEF TablesExist
  <2> QED
    BY <2>1, <2>2, <2>3, RowFitsScan
<1>3. ASSUME NEW e, e # Nothing, e = s.where \/ \E n \in DOMAIN s.select_list : e = s.select_list[n].expr
      PROVE  Sound(e, values, schema)
  <2>1. IsExpr(e, ParsedKinds) /\ \A x \in Nodes(e) : Readable(x, schema)
    BY <1>3, RowsReadable
  <2> HIDE DEF values, schema
  <2> QED
    BY <1>2, <2>1, SoundExpr
<1>4. o = IF Raises(where) THEN where
          ELSE IF where.type \in {"STRING", "DOUBLE"} THEN Raise("type")
          ELSE IF IsNull(where) \/ where = Truth(FALSE) THEN NullValue
          ELSE IF raised # {} THEN answer[First(raised)]
          ELSE [type |-> "ROW", values |-> answer]
  BY Zenon DEF Outcome
<1>5. DOMAIN answer = DOMAIN s.select_list
      /\ \A n \in DOMAIN s.select_list : answer[n] = Evaluate(s.select_list[n].expr, values, schema)
  OBVIOUS
<1>6. s.where # Nothing =>
          /\ Good(where, InferExprType(s.where, schema), ScalarErrors \cup Lenient(s.where, schema))
          /\ Lenient(s.where, schema) \subseteq LenientStatement(s, schema)
          /\ InferExprType(s.where, schema) # "INT" => "type" \in LenientStatement(s, schema)
  <2> HAVE s.where # Nothing
  <2>1. Sound(s.where, values, schema)
    BY <1>3
  <2>2. InferExprType(s.where, schema) # IllTyped
    BY RowsTyped
  <2> HIDE DEF values, schema
  <2>3. where = Evaluate(s.where, values, schema)
    OBVIOUS
  <2> HIDE DEF where
  <2>4. Good(where, InferExprType(s.where, schema), ScalarErrors \cup Lenient(s.where, schema))
    BY <2>1, <2>2, <2>3 DEF Sound
  <2> QED
    BY <2>4 DEF LenientStatement
<1>7. s.where = Nothing => where = IntValue(1)
  BY DEF Truth
<1>8. ASSUME NEW n \in DOMAIN s.select_list
      PROVE  /\ Good(answer[n], p.output[n].type, ScalarErrors \cup Lenient(s.select_list[n].expr, schema))
             /\ Lenient(s.select_list[n].expr, schema) \subseteq LenientStatement(s, schema)
  <2> DEFINE e == s.select_list[n].expr
  <2>1. e # Nothing
    BY NothingNotExpr DEF IsStatement, IsItem
  <2>2. Sound(e, values, schema)
    BY <1>3, <2>1
  <2>3. InferExprType(e, schema) # IllTyped /\ p.output[n].type = InferExprType(e, schema)
    BY RowsTyped
  <2>4. answer[n] = Evaluate(e, values, schema)
    BY <1>5
  <2> HIDE DEF values, schema, answer, p
  <2>5. Lenient(e, schema) \subseteq LenientStatement(s, schema)
    BY DEF LenientStatement
  <2> QED
    BY <2>2, <2>3, <2>4, <2>5 DEF Sound
<1>9. raised \subseteq DOMAIN s.select_list /\ \A n \in DOMAIN s.select_list : n \in raised <=> Raises(answer[n])
  BY <1>5
<1>10. raised # {} => First(raised) \in raised
  <2>1. DOMAIN s.select_list \subseteq Nat \ {0}
    BY SeqFacts DEF IsStatement
  <2> HIDE DEF raised
  <2>2. raised \in SUBSET (Nat \ {0})
    BY <1>9, <2>1
  <2> QED
    BY <2>2, FirstFacts
<1> SUFFICES TypedOutcome(o, p)
  BY <1>1 DEF p
<1> HIDE DEF where, answer, raised, schema, values, p, row
<1> SUFFICES /\ Raises(o) => o.why \in errors
             /\ o.type = "ROW" =>
                  \A k \in DOMAIN o.values :
                     \/ o.values[k].type \in {"NULL", p.output[k].type}
                     \/ o.values[k].type = "INT" /\ p.output[k].type = "DOUBLE"
  BY <1>1 DEF TypedOutcome, ScalarErrors
<1> HIDE DEF o, errors
<1>11. Raises(where) => where.why \in errors
  <2>1. CASE s.where = Nothing
    BY <1>7, <2>1 DEF Raises, IntValue
  <2>2. CASE s.where # Nothing
    BY <1>6, <2>2, GoodTypes DEF Raises, errors
  <2> QED
    BY <2>1, <2>2
<1>12. where.type \in {"STRING", "DOUBLE"} => "type" \in errors
  <2>1. CASE s.where = Nothing
    BY <1>7, <2>1 DEF IntValue
  <2>2. CASE s.where # Nothing
    BY <1>6, <2>2, GoodTypes DEF errors
  <2> QED
    BY <2>1, <2>2
<1>13. where.type # "ROW"
  <2>1. CASE s.where = Nothing
    BY <1>7, <2>1 DEF IntValue
  <2>2. CASE s.where # Nothing
    BY <1>6, <2>2, GoodTypes DEF Types
  <2> QED
    BY <2>1, <2>2
<1>14. CASE Raises(where)
  BY <1>4, <1>11, <1>13, <1>14
<1>15. CASE ~ Raises(where) /\ where.type \in {"STRING", "DOUBLE"}
  BY <1>4, <1>12, <1>15 DEF Raise, Raises
<1>16. CASE /\ ~ Raises(where) /\ where.type \notin {"STRING", "DOUBLE"}
            /\ IsNull(where) \/ where = Truth(FALSE)
  BY <1>4, <1>16 DEF NullValue, Raises
<1>17. CASE /\ ~ Raises(where) /\ where.type \notin {"STRING", "DOUBLE"}
            /\ ~ (IsNull(where) \/ where = Truth(FALSE)) /\ raised # {}
  <2>1. o = answer[First(raised)] /\ First(raised) \in DOMAIN s.select_list /\ Raises(o)
    BY <1>4, <1>9, <1>10, <1>17
  <2> DEFINE n == First(raised)
             own == ScalarErrors \cup Lenient(s.select_list[n].expr, schema)
  <2>2. Good(o, p.output[n].type, own) /\ own \subseteq errors /\ o.type = "RAISED"
    BY <1>8, <2>1 DEF Raises, errors
  <2> HIDE DEF own, n
  <2>3. o.why \in own
    BY <2>2, GoodTypes
  <2>4. o.why \in errors
    BY <2>2, <2>3
  <2> QED
    BY <2>2, <2>4 DEF Raises
<1>18. CASE /\ ~ Raises(where) /\ where.type \notin {"STRING", "DOUBLE"}
            /\ ~ (IsNull(where) \/ where = Truth(FALSE)) /\ raised = {}
  <2>1. o = [type |-> "ROW", values |-> answer]
    BY <1>4, <1>18
  <2>2. ~ Raises(o) /\ o.values = answer
    BY <2>1 DEF Raises
  <2>3. ASSUME NEW k \in DOMAIN s.select_list
        PROVE  \/ answer[k].type \in {"NULL", p.output[k].type}
               \/ answer[k].type = "INT" /\ p.output[k].type = "DOUBLE"
    <3>1. ~ Raises(answer[k])
      BY <1>9, <1>18
    <3> DEFINE v == answer[k]
               t == p.output[k].type
               own == ScalarErrors \cup Lenient(s.select_list[k].expr, schema)
    <3>2. Good(v, t, own) /\ v.type # "RAISED"
      BY <1>8, <3>1 DEF Raises
    <3> HIDE DEF v, t, own
    <3>3. \/ v.type \in {"NULL", t}
          \/ v.type = "INT" /\ t = "DOUBLE"
      BY <3>2, GoodTypes DEF Types
    <3> QED
      BY <3>3 DEF v, t
  <2> QED
    BY <1>5, <2>2, <2>3 DEF answer
<1> QED
  BY <1>14, <1>15, <1>16, <1>17, <1>18

-----------------------------------------------------------------------------
(* The invariant.                                                          *)

(* What was bound can be planned if its tables exist, and what is planned  *)
(* is the plan of a statement in which every check passed.                 *)
Resolved(s) == IsStatement(s, ParsedKinds) /\ SettledStatement(s)

PlannedInv ==
    /\ Resolved(bound) /\ TablesExist(bound) /\ Validate(bound)
    /\ plan = BuildPlan(bound) /\ WellTypedPlan(plan)

StageInv ==
    /\ stage \in {"text", "parsed", "bound", "planned", "rejected"}
    /\ IsTokens(input.tokens)
    /\ stage = "parsed" => IsStatement(tree, ParsedKinds)
    /\ stage = "bound" /\ TablesExist(bound) => Resolved(bound)
    /\ stage = "planned" => PlannedInv

OutcomesInv ==
    /\ IsSeq(outcomes)
    /\ outcomes # << >> => stage = "planned"
    /\ \A n \in DOMAIN outcomes : TypedOutcome(outcomes[n], plan)

StatementInv == StageInv /\ OutcomesInv

LEMMA InitInv == Init => StatementInv
<1> SUFFICES ASSUME Init PROVE StatementInv
  OBVIOUS
<1>1. IsTokens(input.tokens)
  <2>1. ASSUME NEW s \in Statements, NEW all \in BOOLEAN, input = [tokens |-> StatementTokens(s, all), meant |-> s]
        PROVE  IsTokens(input.tokens)
    <3>1. IsTokens(StatementTokens(s, all))
      BY StatementsAssumption, StatementTokensIs
    <3> QED
      BY <2>1, <3>1
  <2>2. ASSUME NEW t \in Texts, input = [tokens |-> t, meant |-> Nothing]
        PROVE  IsTokens(input.tokens)
    <3>1. IsTokens(t)
      BY TextsAssumption DEF IsTokens
    <3> QED
      BY <2>2, <3>1
  <2> QED
    BY <2>1, <2>2 DEF Init
<1>2. StageInv
  BY <1>1 DEF Init, StageInv
<1>3. OutcomesInv
  BY EmptySeq DEF Init, OutcomesInv, Elements
<1> QED
  BY <1>2, <1>3 DEF StatementInv

(* A step that leaves the outcomes out, before there are any.              *)
LEMMA NoOutcomes ==
    ASSUME OutcomesInv, stage # "planned", outcomes' = outcomes
    PROVE  OutcomesInv'
<1>1. outcomes = << >>
  BY DEF OutcomesInv
<1>2. outcomes' = << >>
  BY <1>1
<1> QED
  BY <1>2, EmptySeq DEF OutcomesInv, Elements

LEMMA RejectInv ==
    ASSUME StatementInv, stage # "planned", Reject
    PROVE  StatementInv'
<1>1. OutcomesInv'
  BY NoOutcomes DEF StatementInv, Reject
<1>2. stage' = "rejected" /\ input' = input
  BY DEF Reject
<1>3. StageInv'
  BY <1>2 DEF StatementInv, StageInv
<1> QED
  BY <1>1, <1>3 DEF StatementInv

LEMMA ParseInv ==
    ASSUME StatementInv, ParseText
    PROVE  StatementInv'
<1> DEFINE r == ParseSelect(input.tokens)
<1>1. stage = "text" /\ IF r.at = 0 THEN Reject
                        ELSE stage' = "parsed" /\ tree' = r.tree /\ UNCHANGED <<input, bound, plan, outcomes>>
  BY DEF ParseText
<1>2. CASE r.at = 0
  BY <1>1, <1>2, RejectInv
<1>3. CASE r.at # 0
  <2>1. stage' = "parsed" /\ tree' = r.tree /\ UNCHANGED <<input, bound, plan, outcomes>>
    BY <1>1, <1>3
  <2>2. IsStatement(r.tree, ParsedKinds)
    BY <1>3, ParserTrees DEF StatementInv, StageInv
  <2>3. OutcomesInv'
    BY <1>1, <2>1, NoOutcomes DEF StatementInv
  <2> HIDE DEF r
  <2>4. IsStatement(tree', ParsedKinds)
    BY <2>1, <2>2
  <2>5. StageInv'
    BY <2>1, <2>4 DEF StatementInv, StageInv
  <2> QED
    BY <2>3, <2>5 DEF StatementInv
<1> QED
  BY <1>2, <1>3

LEMMA BindInv ==
    ASSUME StatementInv, BindTree
    PROVE  StatementInv'
<1> DEFINE b == IF TablesExist(tree) THEN Bind(tree) ELSE tree
<1>1. stage = "parsed" /\ IF TablesExist(tree) /\ BindFails(b) THEN Reject
                          ELSE stage' = "bound" /\ bound' = b /\ UNCHANGED <<input, tree, plan, outcomes>>
  BY DEF BindTree
<1>2. CASE TablesExist(tree) /\ BindFails(b)
  BY <1>1, <1>2, RejectInv
<1>3. CASE ~ (TablesExist(tree) /\ BindFails(b))
  <2>1. stage' = "bound" /\ bound' = b /\ UNCHANGED <<input, tree, plan, outcomes>>
    BY <1>1, <1>3
  <2>2. IsStatement(tree, ParsedKinds)
    BY <1>1 DEF StatementInv, StageInv
  <2>3. TablesExist(b) => Resolved(b)
    <3>1. CASE TablesExist(tree)
      BY <1>3, <2>2, <3>1, BoundStatement DEF Resolved
    <3>2. CASE ~ TablesExist(tree)
      BY <3>2
    <3> QED
      BY <3>1, <3>2
  <2>4. OutcomesInv'
    BY <1>1, <2>1, NoOutcomes DEF StatementInv
  <2> HIDE DEF b
  <2>5. TablesExist(bound') => Resolved(bound')
    BY <2>1, <2>3
  <2>6. StageInv'
    BY <2>1, <2>5 DEF StatementInv, StageInv
  <2> QED
    BY <2>4, <2>6 DEF StatementInv
<1> QED
  BY <1>2, <1>3

LEMMA BuildInv ==
    ASSUME StatementInv, Build
    PROVE  StatementInv'
<1> DEFINE p == BuildPlan(bound)
<1>1. /\ stage = "bound"
      /\ IF ~ TablesExist(bound) THEN Reject
         ELSE IF ~ Validate(bound) THEN Reject
         ELSE IF ~ WellTypedPlan(p) THEN Reject
         ELSE stage' = "planned" /\ plan' = p /\ UNCHANGED <<input, tree, bound, outcomes>>
  BY DEF Build
<1>2. CASE ~ (TablesExist(bound) /\ Validate(bound) /\ WellTypedPlan(p))
  BY <1>1, <1>2, RejectInv
<1>3. CASE TablesExist(bound) /\ Validate(bound) /\ WellTypedPlan(p)
  <2>1. stage' = "planned" /\ plan' = p /\ UNCHANGED <<input, tree, bound, outcomes>>
    BY <1>1, <1>3
  <2>2. Resolved(bound)
    BY <1>1, <1>3 DEF StatementInv, StageInv
  <2>3. OutcomesInv'
    BY <1>1, <2>1, NoOutcomes DEF StatementInv
  <2>4. PlannedInv'
    BY <1>3, <2>1, <2>2 DEF PlannedInv
  <2>5. StageInv'
    BY <2>1, <2>4 DEF StatementInv, StageInv
  <2> QED
    BY <2>3, <2>5 DEF StatementInv
<1> QED
  BY <1>2, <1>3

LEMMA RowInv ==
    ASSUME StatementInv, NextRow
    PROVE  StatementInv'
<1> DEFINE n == Len(outcomes) + 1
           rows == Rows[bound.from.table_name]
           o == Outcome(plan.stmt, plan.input, rows[n])
<1>1. /\ stage = "planned" /\ EvaluatesRows(bound) /\ Len(outcomes) < Len(rows)
      /\ outcomes' = Append(outcomes, o) /\ UNCHANGED <<input, stage, tree, bound, plan>>
  BY DEF NextRow
<1>2. PlannedInv /\ IsSeq(outcomes) /\ \A k \in DOMAIN outcomes : TypedOutcome(outcomes[k], plan)
  BY <1>1 DEF StatementInv, StageInv, OutcomesInv
<1>3. n \in DOMAIN rows
  <2>1. AreTables(Tables(bound)) /\ Tables(bound)[1] = bound.from
    BY <1>2, TablesFacts DEF PlannedInv, Resolved
  <2>2. 1 \in DOMAIN Tables(bound)
    BY <2>1, SeqFacts DEF AreTables
  <2>3. bound.from.table_name \in DOMAIN Catalog
    BY <1>2, <2>1, <2>2 DEF PlannedInv, TablesExist
  <2>4. IsSeq(rows)
    BY <2>3, TablesAssumption
  <2>5. Len(outcomes) \in Nat /\ Len(rows) \in Nat /\ DOMAIN rows = 1 .. Len(rows)
    BY <1>2, <2>4, SeqFacts
  <2> QED
    BY <1>1, <2>5
<1>4. plan.stmt = bound /\ plan.input = BuildPlan(bound).input
  BY <1>1, <1>2, RowsTyped DEF PlannedInv, Resolved
<1>5. TypedOutcome(o, plan)
  BY <1>1, <1>2, <1>3, <1>4, OutcomeTyped DEF PlannedInv, Resolved
<1> HIDE DEF o
<1>6. outcomes' = outcomes \o <<o>>
  BY <1>1, <1>2 DEF IsSeq
<1>7. IsSeq(outcomes') /\ Elements(outcomes') = Elements(outcomes) \cup {o}
  BY <1>2, <1>6, ConcatFacts, SingleSeq
<1>8. \A k \in DOMAIN outcomes' : TypedOutcome(outcomes'[k], plan)
  BY <1>2, <1>5, <1>7 DEF Elements
<1>9. OutcomesInv'
  <2>1. plan' = plan /\ stage' = "planned"
    BY <1>1
  <2> QED
    BY <1>7, <1>8, <2>1 DEF OutcomesInv
<1>10. StageInv'
  BY <1>1 DEF StatementInv, StageInv, PlannedInv
<1> QED
  BY <1>9, <1>10 DEF StatementInv

LEMMA StutterInv ==
    ASSUME StatementInv, UNCHANGED vars
    PROVE  StatementInv'
BY DEF StatementInv, StageInv, OutcomesInv, PlannedInv, vars

(* Every statement on its way is a tree of the parser's, then one whose    *)
(* columns are resolved, then a plan whose checks have passed.             *)
THEOREM StatementInvariance == Spec => []StatementInv
<1>1. Init => StatementInv
  BY InitInv
<1>2. StatementInv /\ [Next]_vars => StatementInv'
  BY ParseInv, BindInv, BuildInv, RowInv, StutterInv DEF Next
<1> QED
  BY <1>1, <1>2, PTL DEF Spec

(* A plan that was accepted never meets a value of the wrong type, an      *)
(* interval or a column it cannot find, but where planning is lenient.     *)
THEOREM WellTypedInvariance == Spec => []WellTyped
<1>1. StatementInv => WellTyped
  BY DEF StatementInv, OutcomesInv, TypedOutcome, WellTyped
<1> QED
  BY <1>1, StatementInvariance, PTL

-----------------------------------------------------------------------------
(* Which expression a column of a schema holds the values of.              *)

LEMMA CanonicalStep ==
    ASSUME NEW kinds, NEW e, IsExpr(e, kinds)
    PROVE  /\ e.kind # "ColumnRef" \/ e.payload.relation_slot = NoSlot =>
                Canonical(e) = WithArgs(e, [k \in DOMAIN e.args |-> Canonical(e.args[k])])
           /\ e.kind = "ColumnRef" /\ e.payload.relation_slot # NoSlot =>
                Canonical(e) = [e EXCEPT !.payload = [@ EXCEPT !.table_name = NoName]]
<1>1. Canonical(e) = CanonicalNode(Nothing, e, [k \in DOMAIN e.args |-> Canonical(e.args[k])])
  BY ChildrenNodes, LeastNat, CanonicalWalk!FoldStep DEF Canonical, CanonicalWalk!WellOrdered
<1> QED
  BY <1>1 DEF CanonicalNode

LEMMA CanonicalColumn ==
    ASSUME NEW kinds, NEW e, IsExpr(e, kinds), e.kind = "ColumnRef"
    PROVE  /\ e.payload.relation_slot # NoSlot =>
                Canonical(e) = SlotColumn(e.payload.column_name, e.payload.relation_slot)
           /\ e.payload.relation_slot = NoSlot \/ ~ Qualified(e) => Canonical(e) = e
<1> DEFINE p == [table_name |-> NoName, column_name |-> e.payload.column_name,
                 relation_slot |-> e.payload.relation_slot]
<1>1. WellFormed(e, kinds) /\ e.args = << >>
  BY ExprElim, ArgsCount
<1>2. e.op = NoName
  BY <1>1 DEF WellFormed, Ops
<1>3. e.payload = [table_name |-> e.payload.table_name, column_name |-> e.payload.column_name,
                   relation_slot |-> e.payload.relation_slot]
  BY <1>1 DEF WellFormed, IsPayload
<1>4. [e.payload EXCEPT !.table_name = NoName] = p
  BY <1>3
<1>5. ~ Qualified(e) => e.payload = p
  BY <1>3 DEF Qualified
<1> HIDE DEF p
<1>6. e = [kind |-> "ColumnRef", op |-> NoName, args |-> << >>, payload |-> e.payload, height |-> HeightAbove(<< >>)]
  BY <1>1, <1>2 DEF WellFormed, Node
<1>7. [e EXCEPT !.payload = p] = Node("ColumnRef", NoName, << >>, p)
  BY <1>6 DEF Node
<1>8. CASE e.payload.relation_slot # NoSlot
  <2>1. Canonical(e) = [e EXCEPT !.payload = [@ EXCEPT !.table_name = NoName]]
    BY <1>8, CanonicalStep
  <2>2. Canonical(e) = [e EXCEPT !.payload = p]
    BY <1>4, <2>1
  <2>3. ~ Qualified(e) => Canonical(e) = e
    BY <1>5, <1>6, <2>2
  <2> QED
    BY <1>7, <1>8, <2>2, <2>3 DEF SlotColumn, p
<1>9. CASE e.payload.relation_slot = NoSlot
  <2>1. Canonical(e) = WithArgs(e, [k \in DOMAIN e.args |-> Canonical(e.args[k])])
    BY <1>9, CanonicalStep
  <2>2. [k \in DOMAIN e.args |-> Canonical(e.args[k])] = e.args
    BY <1>1
  <2> QED
    BY <1>9, <2>1, <2>2, SameArgs
<1> QED
  BY <1>8, <1>9

LEMMA CanonicalKind ==
    ASSUME NEW kinds, NEW e, IsExpr(e, kinds)
    PROVE  Canonical(e).kind = e.kind
<1>1. CASE e.kind = "ColumnRef"
  <2>1. Canonical(e) = e \/ Canonical(e) = SlotColumn(e.payload.column_name, e.payload.relation_slot)
    BY <1>1, CanonicalColumn
  <2>2. SlotColumn(e.payload.column_name, e.payload.relation_slot).kind = "ColumnRef"
    BY DEF SlotColumn, Node
  <2> QED
    BY <1>1, <2>1, <2>2
<1>2. CASE e.kind # "ColumnRef"
  <2>1. Canonical(e) = WithArgs(e, [k \in DOMAIN e.args |-> Canonical(e.args[k])])
    BY <1>2, CanonicalStep
  <2>2. \A args : WithArgs(e, args).kind = e.kind
    BY DEF WithArgs, Node
  <2> QED
    BY <2>1, <2>2
<1> QED
  BY <1>1, <1>2

LEMMA RestoredStep ==
    ASSUME NEW kinds, NEW e, IsExpr(e, kinds), NEW schema
    PROVE  /\ e.kind \in {"ColumnRef", "AggregateExpr"} /\ IndexRead(e, schema) # 0 =>
                Restored(e, schema) = schema[IndexRead(e, schema)].of
           /\ e.kind \notin {"ColumnRef", "AggregateExpr"} \/ IndexRead(e, schema) = 0 =>
                Restored(e, schema) = WithArgs(e, [k \in DOMAIN e.args |-> Restored(e.args[k], schema)])
<1>1. Restored(e, schema) = RestoredNode(schema, e, [k \in DOMAIN e.args |-> Restored(e.args[k], schema)])
  BY ChildrenNodes, LeastNat, RestoreWalk!FoldStep DEF Restored, RestoreWalk!WellOrdered
<1> QED
  BY <1>1 DEF RestoredNode

(* Where every column is restored and no aggregate is read, an expression  *)
(* is restored.                                                            *)
LEMMA RestoredParts ==
    ASSUME NEW kinds, NEW e, IsExpr(e, kinds), NEW schema,
           \A x \in Nodes(e) : /\ x.kind = "ColumnRef" => Restored(x, schema) = Canonical(x)
                               /\ x.kind = "AggregateExpr" => IndexRead(x, schema) = 0
    PROVE  Restored(e, schema) = Canonical(e)
<1> DEFINE T == {x \in Nodes(e) : Restored(x, schema) = Canonical(x)}
<1>1. ASSUME NEW x \in Nodes(e), IsExpr(x, kinds), \A k \in DOMAIN x.args : x.args[k] \in T
      PROVE  x \in T
  <2>1. CASE x.kind = "ColumnRef"
    BY <2>1
  <2>2. CASE x.kind # "ColumnRef"
    <3>1. Restored(x, schema) = WithArgs(x, [k \in DOMAIN x.args |-> Restored(x.args[k], schema)])
      BY <1>1, <2>2, RestoredStep
    <3>2. Canonical(x) = WithArgs(x, [k \in DOMAIN x.args |-> Canonical(x.args[k])])
      BY <1>1, <2>2, CanonicalStep
    <3>3. [k \in DOMAIN x.args |-> Restored(x.args[k], schema)] = [k \in DOMAIN x.args |-> Canonical(x.args[k])]
      BY <1>1
    <3> QED
      BY <3>1, <3>2, <3>3
  <2> QED
    BY <2>1, <2>2
<1> HIDE DEF T
<1>2. e \in T
  BY <1>1, ExprInduction
<1> QED
  BY <1>2 DEF T

(* indexOf finds a column if there is one.                                 *)
LEMMA IndexFacts ==
    ASSUME NEW schema, IsSeq(schema), NEW name
    PROVE  /\ (\E n \in DOMAIN schema : schema[n].name = name) =>
                 LET k == IndexOf(schema, name) IN k # 0 /\ k \in DOMAIN schema /\ schema[k].name = name
           /\ (\A n \in DOMAIN schema : schema[n].name # name) => IndexOf(schema, name) = 0
<1> DEFINE S == {n \in DOMAIN schema : schema[n].name = name}
<1>1. S \in SUBSET (Nat \ {0}) /\ IndexOf(schema, name) = First(S)
  BY SeqFacts DEF IndexOf
<1>2. S # {} => First(S) \in S
  <2> HIDE DEF S
  <2> QED
    BY <1>1, FirstFacts
<1>3. S = {} => First(S) = 0
  BY DEF First
<1> QED
  BY <1>1, <1>2, <1>3

LEMMA SlotIndexFacts ==
    ASSUME NEW schema, IsSeq(schema), NEW name, NEW slot
    PROVE  /\ (\E n \in DOMAIN schema : schema[n].name = name /\ schema[n].relation_slot = slot) =>
                 LET k == IndexOfSlot(schema, name, slot)
                 IN  k # 0 /\ k \in DOMAIN schema /\ schema[k].name = name /\ schema[k].relation_slot = slot
           /\ (\A n \in DOMAIN schema : schema[n].name # name) => IndexOfSlot(schema, name, slot) = 0
<1> DEFINE S == {n \in DOMAIN schema : schema[n].name = name /\ schema[n].relation_slot = slot}
<1>1. S \in SUBSET (Nat \ {0}) /\ IndexOfSlot(schema, name, slot) = First(S)
  BY SeqFacts DEF IndexOfSlot
<1>2. S # {} => First(S) \in S
  <2> HIDE DEF S
  <2> QED
    BY <1>1, FirstFacts
<1>3. S = {} => First(S) = 0
  BY DEF First
<1> QED
  BY <1>1, <1>2, <1>3

(* A column with the slot and the name of one or more columns of a schema  *)
(* that all hold its values.                                               *)
LEMMA ColumnRestored ==
    ASSUME NEW kinds, NEW x, IsExpr(x, kinds), x.kind = "ColumnRef", x.payload.relation_slot # NoSlot,
           NEW schema, IsSeq(schema),
           \E n \in DOMAIN schema : /\ schema[n].name = x.payload.column_name
                                    /\ schema[n].relation_slot = x.payload.relation_slot,
           \A n \in DOMAIN schema : schema[n].name = x.payload.column_name /\ schema[n].relation_slot = x.payload.relation_slot
                                      => schema[n].of = SlotColumn(x.payload.column_name, x.payload.relation_slot)
    PROVE  Restored(x, schema) = Canonical(x)
<1> DEFINE k == IndexOfSlot(schema, x.payload.column_name, x.payload.relation_slot)
<1>1. /\ k # 0 /\ k \in DOMAIN schema /\ schema[k].name = x.payload.column_name
      /\ schema[k].relation_slot = x.payload.relation_slot
  BY SlotIndexFacts
<1>2. IndexRead(x, schema) = k
  BY <1>1 DEF IndexRead, ResolveColumnIndex
<1> HIDE DEF k
<1>3. Restored(x, schema) = schema[k].of
  BY <1>1, <1>2, RestoredStep
<1> QED
  BY <1>1, <1>3, CanonicalColumn

LEMMA ColumnUnread ==
    ASSUME NEW kinds, NEW x, IsExpr(x, kinds), x.kind = "ColumnRef", ~ Qualified(x),
           NEW schema, IsSeq(schema), \A n \in DOMAIN schema : schema[n].name # x.payload.column_name
    PROVE  Restored(x, schema) = Canonical(x)
<1>1. IndexRead(x, schema) = 0
  BY SlotIndexFacts, IndexFacts DEF IndexRead, ResolveColumnIndex
<1>2. x.args = << >>
  BY ExprElim, ArgsCount
<1>3. Restored(x, schema) = WithArgs(x, [k \in DOMAIN x.args |-> Restored(x.args[k], schema)])
  BY <1>1, RestoredStep
<1>4. [k \in DOMAIN x.args |-> Restored(x.args[k], schema)] = x.args
  BY <1>2
<1> QED
  BY <1>3, <1>4, SameArgs, CanonicalColumn

-----------------------------------------------------------------------------
(* The columns of the tables.                                              *)

(* A column of a schema that holds that of a table.                        *)
TableColumn(c, tables) ==
    /\ c.relation_slot \in {0, 1} /\ c.relation_slot + 1 \in DOMAIN tables
    /\ HasColumn(tables[c.relation_slot + 1].table_name, c.name)
    /\ c.of = SlotColumn(c.name, c.relation_slot)

Mentioned(s, name) == \E i \in DOMAIN Expressions(s) : name \in CollectCols(Expressions(s)[i])

LEMMA ScanColumns ==
    ASSUME NEW s, NEW kinds, IsStatement(s, kinds), TablesExist(s), NEW slot \in {0, 1}, slot + 1 \in DOMAIN Tables(s)
    PROVE  LET schema == BuildScanSchema(s, slot)
           IN  /\ IsSeq(schema)
               /\ \A c \in Elements(schema) : TableColumn(c, Tables(s)) /\ c.relation_slot = slot
               /\ \A name : HasColumn(Tables(s)[slot + 1].table_name, name) /\ Mentioned(s, name)
                              => \E c \in Elements(schema) : c.name = name /\ c.relation_slot = slot
<1> DEFINE schema == BuildScanSchema(s, slot)
           table == Catalog[Tables(s)[slot + 1].table_name]
<1>1. Tables(s)[slot + 1].table_name \in DOMAIN Catalog
  BY DEF TablesExist
<1>2. /\ IsSeq(schema)
      /\ \A n \in DOMAIN schema :
            /\ schema[n].relation_slot = slot /\ schema[n].of = SlotColumn(schema[n].name, slot)
            /\ \E k \in DOMAIN table : schema[n].name = table[k].name
      /\ \A k \in DOMAIN table : \A i \in DOMAIN Expressions(s) :
            table[k].name \in CollectCols(Expressions(s)[i]) => \E n \in DOMAIN schema : schema[n].name = table[k].name
  BY <1>1, ScanFacts
<1>3. \A name : HasColumn(Tables(s)[slot + 1].table_name, name) <=> \E k \in DOMAIN table : table[k].name = name
  BY DEF HasColumn
<1> HIDE DEF schema, table
<1>4. \A c \in Elements(schema) : TableColumn(c, Tables(s)) /\ c.relation_slot = slot
  BY <1>2, <1>3 DEF Elements, TableColumn
<1>5. ASSUME NEW name, HasColumn(Tables(s)[slot + 1].table_name, name), Mentioned(s, name)
      PROVE  \E c \in Elements(schema) : c.name = name /\ c.relation_slot = slot
  <2>1. PICK k \in DOMAIN table : table[k].name = name
    BY <1>3, <1>5
  <2>2. PICK n \in DOMAIN schema : schema[n].name = table[k].name
    BY <1>2, <1>5, <2>1 DEF Mentioned
  <2> QED
    BY <1>2, <2>1, <2>2 DEF Elements
<1> QED
  BY <1>2, <1>4, <1>5 DEF schema

LEMMA InputColumns ==
    ASSUME NEW s, NEW kinds, IsStatement(s, kinds), TablesExist(s)
    PROVE  LET below == InputSchema(s)
           IN  /\ IsSeq(below)
               /\ \A n \in DOMAIN below : TableColumn(below[n], Tables(s))
               /\ \A slot \in {0, 1} : \A name :
                     slot + 1 \in DOMAIN Tables(s) /\ HasColumn(Tables(s)[slot + 1].table_name, name) /\ Mentioned(s, name)
                       => \E n \in DOMAIN below : below[n].name = name /\ below[n].relation_slot = slot
<1> DEFINE left == BuildScanSchema(s, 0)
           right == IF s.join = Nothing THEN << >> ELSE BuildScanSchema(s, 1)
           below == InputSchema(s)
           found(columns, slot) ==
             \A name : HasColumn(Tables(s)[slot + 1].table_name, name) /\ Mentioned(s, name)
                          => \E c \in Elements(columns) : c.name = name /\ c.relation_slot = slot
<1>1. /\ IsSeq(Tables(s)) /\ Len(Tables(s)) \in {1, 2} /\ DOMAIN Tables(s) = 1 .. Len(Tables(s))
      /\ s.join = Nothing <=> Len(Tables(s)) = 1
  BY TablesFacts, SeqFacts DEF AreTables
<1>2. 0 \in {0, 1} /\ 0 + 1 \in DOMAIN Tables(s)
  BY <1>1
<1>3. IsSeq(left) /\ (\A c \in Elements(left) : TableColumn(c, Tables(s))) /\ found(left, 0)
  BY <1>2, ScanColumns
<1>4. /\ IsSeq(right) /\ \A c \in Elements(right) : TableColumn(c, Tables(s))
      /\ 1 + 1 \in DOMAIN Tables(s) => found(right, 1)
  <2>1. CASE s.join = Nothing
    <3>1. right = << >> /\ 1 + 1 \notin DOMAIN Tables(s)
      BY <1>1, <2>1
    <3> QED
      BY <3>1, EmptySeq
  <2>2. CASE s.join # Nothing
    <3>1. right = BuildScanSchema(s, 1) /\ 1 \in {0, 1} /\ 1 + 1 \in DOMAIN Tables(s)
      BY <1>1, <2>2
    <3> HIDE DEF right
    <3> QED
      BY <3>1, ScanColumns
  <2> QED
    BY <2>1, <2>2
<1>5. below = left \o right
  BY DEF InputSchema
<1> HIDE DEF left, right, below
<1>6. IsSeq(below) /\ Elements(below) = Elements(left) \cup Elements(right)
  BY <1>3, <1>4, <1>5, ConcatFacts
<1>7. \A n \in DOMAIN below : TableColumn(below[n], Tables(s))
  BY <1>3, <1>4, <1>6 DEF Elements
<1>8. ASSUME NEW slot \in {0, 1}, NEW name, slot + 1 \in DOMAIN Tables(s),
             HasColumn(Tables(s)[slot + 1].table_name, name), Mentioned(s, name)
      PROVE  \E n \in DOMAIN below : below[n].name = name /\ below[n].relation_slot = slot
  <2>1. \E c \in Elements(below) : c.name = name /\ c.relation_slot = slot
    <3>1. CASE slot = 0
      BY <1>3, <1>6, <1>8, <3>1
    <3>2. CASE slot = 1
      BY <1>4, <1>6, <1>8, <3>2
    <3> QED
      BY <3>1, <3>2
  <2> QED
    BY <2>1 DEF Elements
<1> QED
  BY <1>6, <1>7, <1>8 DEF below

(* A settled column that a statement mentions is restored below the        *)
(* aggregation.                                                            *)
LEMMA InputRestores ==
    ASSUME NEW s, NEW kinds, IsStatement(s, kinds), TablesExist(s),
           NEW x, IsExpr(x, kinds), x.kind = "ColumnRef", Settled(x, Tables(s)), Mentioned(s, x.payload.column_name)
    PROVE  Restored(x, InputSchema(s)) = Canonical(x)
<1> DEFINE below == InputSchema(s)
           name == x.payload.column_name
           slot == x.payload.relation_slot
<1>1. /\ IsSeq(below)
      /\ \A n \in DOMAIN below : TableColumn(below[n], Tables(s))
      /\ \A i \in {0, 1} :
             i + 1 \in DOMAIN Tables(s) /\ HasColumn(Tables(s)[i + 1].table_name, name)
               => \E n \in DOMAIN below : below[n].name = name /\ below[n].relation_slot = i
  BY InputColumns
<1>2. DOMAIN Tables(s) \subseteq {1, 2}
  BY TablesFacts, SeqFacts DEF AreTables
<1>3. slot \in {-1, 0, 1}
  BY ExprElim DEF WellFormed, IsPayload, NoSlot
<1> HIDE DEF below
<1>4. CASE slot + 1 \in DOMAIN Tables(s) /\ HasColumn(Tables(s)[slot + 1].table_name, name)
  <2>1. slot \in {0, 1} /\ slot # NoSlot
    BY <1>2, <1>3, <1>4 DEF NoSlot
  <2>2. \E n \in DOMAIN below : below[n].name = name /\ below[n].relation_slot = slot
    BY <1>1, <1>4, <2>1
  <2>3. \A n \in DOMAIN below : below[n].name = name /\ below[n].relation_slot = slot => below[n].of = SlotColumn(name, slot)
    BY <1>1 DEF TableColumn
  <2> QED
    BY <1>1, <2>1, <2>2, <2>3, ColumnRestored DEF below
<1>5. CASE ~ Qualified(x) /\ HavingTables(x, Tables(s)) = {}
  <2>1. \A n \in DOMAIN below : below[n].name # name
    BY <1>1, <1>5 DEF TableColumn, HavingTables
  <2> QED
    BY <1>1, <1>5, <2>1, ColumnUnread DEF below
<1> QED
  BY <1>4, <1>5 DEF Settled

-----------------------------------------------------------------------------
(* The expressions above an aggregation, and their aggregates.             *)

LEMMA AggregatesWithin ==
    ASSUME NEW kinds, NEW e, IsExpr(e, kinds)
    PROVE  Elements(CollectAggregates(e)) \subseteq {x \in Nodes(e) : x.kind = "AggregateExpr"}
<1> DEFINE Here(x) == Elements(CollectAggregates(x)) \subseteq {y \in Nodes(x) : y.kind = "AggregateExpr"}
           T == {x \in Nodes(e) : Here(x)}
<1>1. ASSUME NEW x \in Nodes(e), IsExpr(x, kinds), \A k \in DOMAIN x.args : x.args[k] \in T
      PROVE  Here(x)
  <2>1. CASE x.kind = "AggregateExpr"
    <3>1. CollectAggregates(x) = <<x>>
      BY <1>1, <2>1, AggregatesStep
    <3>2. Elements(<<x>>) = {x} /\ x \in Nodes(x)
      BY <1>1, SingleSeq, ExprNodes
    <3> QED
      BY <2>1, <3>1, <3>2
  <2>2. CASE x.kind # "AggregateExpr"
    <3> DEFINE parts == [k \in DOMAIN x.args |-> CollectAggregates(x.args[k])]
    <3>1. CollectAggregates(x) = Join(parts)
      BY <1>1, <2>2, AggregatesStep
    <3>2. IsSeq(x.args) /\ \A k \in DOMAIN x.args : IsExpr(x.args[k], kinds)
      BY <1>1, ExprElim DEF WellFormed
    <3>3. /\ DOMAIN parts = DOMAIN x.args /\ parts = [k \in DOMAIN x.args |-> parts[k]]
          /\ \A k \in DOMAIN x.args : parts[k] = CollectAggregates(x.args[k])
      OBVIOUS
    <3> HIDE DEF parts
    <3>4. IsSeq(parts) /\ \A k \in DOMAIN parts : IsSeq(parts[k])
      <4>1. IsSeq(parts)
        BY <3>2, <3>3, MappedSeq
      <4>2. \A k \in DOMAIN x.args : IsSeq(parts[k])
        BY <3>2, <3>3, AggregatesFacts
      <4> QED
        BY <3>3, <4>1, <4>2
    <3>5. Elements(Join(parts)) = UNION {Elements(parts[k]) : k \in DOMAIN parts}
      BY <3>4, JoinFacts
    <3>6. Nodes(x) = {x} \cup UNION {Nodes(x.args[k]) : k \in DOMAIN x.args}
      BY <1>1, NodesSplit
    <3>7. \A k \in DOMAIN x.args : Elements(parts[k]) \subseteq {y \in Nodes(x) : y.kind = "AggregateExpr"}
      BY <1>1, <3>3, <3>6
    <3> QED
      BY <3>1, <3>3, <3>5, <3>7
  <2> QED
    BY <2>1, <2>2
<1> HIDE DEF Here
<1>2. e \in T
  <2>1. \A x \in Nodes(e) : IsExpr(x, kinds) /\ (\A k \in DOMAIN x.args : x.args[k] \in T) => x \in T
    BY <1>1
  <2> HIDE DEF T
  <2> QED
    BY <2>1, ExprInduction
<1> QED
  BY <1>2 DEF T, Here

LEMMA AggregatesOf ==
    ASSUME NEW exprs, IsSeq(exprs), NEW kinds, \A n \in DOMAIN exprs : exprs[n] = Nothing \/ IsExpr(exprs[n], kinds)
    PROVE  /\ IsSeq(Aggregates(exprs))
           /\ Elements(Aggregates(exprs)) = UNION {Elements(CollectAggregates(exprs[n])) : n \in DOMAIN exprs}
           /\ \A n \in DOMAIN exprs : IsSeq(CollectAggregates(exprs[n]))
<1> DEFINE parts == [n \in DOMAIN exprs |-> CollectAggregates(exprs[n])]
<1>1. Aggregates(exprs) = Join(parts)
  BY DEF Aggregates
<1>2. /\ DOMAIN parts = DOMAIN exprs /\ parts = [n \in DOMAIN exprs |-> parts[n]]
      /\ \A n \in DOMAIN exprs : parts[n] = CollectAggregates(exprs[n])
  OBVIOUS
<1> HIDE DEF parts
<1>3. \A n \in DOMAIN exprs : IsSeq(parts[n])
  <2> TAKE n \in DOMAIN exprs
  <2>1. CASE exprs[n] = Nothing
    BY <1>2, <2>1, EmptySeq DEF CollectAggregates
  <2>2. CASE exprs[n] # Nothing
    BY <1>2, <2>2, AggregatesFacts
  <2> QED
    BY <2>1, <2>2
<1>4. IsSeq(parts)
  BY <1>2, MappedSeq
<1>5. IsSeq(Join(parts)) /\ Elements(Join(parts)) = UNION {Elements(parts[n]) : n \in DOMAIN parts}
  BY <1>2, <1>3, <1>4, JoinFacts
<1> QED
  BY <1>1, <1>2, <1>3, <1>5

LEMMA NoAggregates ==
    ASSUME NEW exprs, IsSeq(exprs), NEW kinds, \A n \in DOMAIN exprs : exprs[n] = Nothing \/ IsExpr(exprs[n], kinds),
           Aggregates(exprs) = << >>, NEW n \in DOMAIN exprs, exprs[n] # Nothing
    PROVE  \A x \in Nodes(exprs[n]) : x.kind # "AggregateExpr"
<1>1. Elements(Aggregates(exprs)) = {}
  BY EmptySeq
<1>2. IsSeq(CollectAggregates(exprs[n])) /\ Elements(CollectAggregates(exprs[n])) = {}
  BY <1>1, AggregatesOf
<1>3. CollectAggregates(exprs[n]) = << >>
  BY <1>2, NoLength
<1> QED
  BY <1>3, AggregatesFacts

(* The select list, HAVING and the ORDER BY, one after the other.          *)
LEMMA RootsFacts ==
    ASSUME NEW s, NEW kinds, IsStatement(s, kinds)
    PROVE  LET a == Len(s.select_list)
               b == Len(s.order_by)
           IN  /\ a \in Nat /\ b \in Nat /\ IsSeq(Roots(s)) /\ Len(Roots(s)) = a + 1 + b
               /\ DOMAIN s.select_list = 1 .. a /\ DOMAIN s.order_by = 1 .. b
               /\ \A n \in 1 .. a : Roots(s)[n] = s.select_list[n].expr
               /\ Roots(s)[a + 1] = s.having
               /\ \A n \in 1 .. b : Roots(s)[a + 1 + n] = s.order_by[n].expr
               /\ \A n \in DOMAIN Roots(s) :
                     /\ Roots(s)[n] = Nothing \/ IsExpr(Roots(s)[n], kinds)
                     /\ Roots(s)[n] \in ExpressionsOf(s)
<1> DEFINE list == [n \in DOMAIN s.select_list |-> s.select_list[n].expr]
           order == [n \in DOMAIN s.order_by |-> s.order_by[n].expr]
           a == Len(s.select_list)
           b == Len(s.order_by)
           left == list \o <<s.having>>
<1>1. /\ list = [n \in DOMAIN s.select_list |-> list[n]] /\ order = [n \in DOMAIN s.order_by |-> order[n]]
      /\ \A n \in DOMAIN s.select_list : list[n] = s.select_list[n].expr
      /\ \A n \in DOMAIN s.order_by : order[n] = s.order_by[n].expr
  OBVIOUS
<1>2. Roots(s) = left \o order
  BY DEF Roots
<1>0. IsSeq(s.select_list) /\ IsSeq(s.order_by)
  BY DEF IsStatement
<1>3. /\ a \in Nat /\ b \in Nat /\ DOMAIN s.select_list = 1 .. a /\ DOMAIN s.order_by = 1 .. b
  BY <1>0, SeqFacts
<1> HIDE DEF list, order, a, b
<1>4. IsSeq(list) /\ Len(list) = a /\ IsSeq(order) /\ Len(order) = b
  BY <1>0, <1>1, MappedSeq DEF a, b
<1>5. IsSeq(<<s.having>>) /\ Len(<<s.having>>) = 1 /\ <<s.having>>[1] = s.having
  BY SingleSeq
<1>6. /\ IsSeq(left) /\ Len(left) = a + 1 /\ \A n \in 1 .. a : left[n] = list[n]
      /\ left[a + 1] = s.having
  <2> DEFINE single == <<s.having>>
  <2>1. 1 \in 1 .. Len(single)
    BY <1>5
  <2> HIDE DEF single
  <2> QED
    BY <1>4, <1>5, <2>1, ConcatFacts DEF single
<1> HIDE DEF left
<1>7. /\ IsSeq(Roots(s)) /\ Len(Roots(s)) = a + 1 + b /\ \A n \in 1 .. a + 1 : Roots(s)[n] = left[n]
      /\ \A n \in 1 .. b : Roots(s)[a + 1 + n] = order[n]
  <2> DEFINE L == Len(left)
  <2>1. /\ IsSeq(Roots(s)) /\ Len(Roots(s)) = L + b /\ \A n \in 1 .. L : Roots(s)[n] = left[n]
        /\ \A n \in 1 .. b : Roots(s)[L + n] = order[n]
    <3>1. IsSeq(left) /\ IsSeq(order) /\ Len(order) = b
      BY <1>4, <1>6
    <3> HIDE DEF L
    <3>2. /\ IsSeq(left \o order) /\ Len(left \o order) = Len(left) + Len(order)
          /\ \A n \in 1 .. Len(left) : (left \o order)[n] = left[n]
          /\ \A n \in 1 .. Len(order) : (left \o order)[Len(left) + n] = order[n]
      BY <3>1, ConcatFacts
    <3> QED
      BY <1>2, <3>1, <3>2 DEF L
  <2>2. L = a + 1
    BY <1>6
  <2> HIDE DEF L
  <2> QED
    BY <2>1, <2>2
<1>8. /\ \A n \in 1 .. a : Roots(s)[n] = s.select_list[n].expr
      /\ Roots(s)[a + 1] = s.having
      /\ \A n \in 1 .. b : Roots(s)[a + 1 + n] = s.order_by[n].expr
  <2>1. \A n \in 1 .. a : n \in 1 .. a + 1
    BY <1>3
  <2>2. a + 1 \in 1 .. a + 1
    BY <1>3
  <2> QED
    BY <1>1, <1>3, <1>6, <1>7, <2>1, <2>2
<1>9. ASSUME NEW n \in DOMAIN Roots(s)
      PROVE  /\ Roots(s)[n] = Nothing \/ IsExpr(Roots(s)[n], kinds)
             /\ Roots(s)[n] \in ExpressionsOf(s)
  <2>1. n \in 1 .. a + 1 + b
    BY <1>7, SeqFacts
  <2>2. CASE n \in 1 .. a
    BY <1>3, <1>8, <2>2 DEF IsStatement, IsItem, ExpressionsOf
  <2>3. CASE n = a + 1
    BY <1>8, <2>3 DEF IsStatement, IsOptional, ExpressionsOf
  <2>4. CASE n > a + 1
    <3> DEFINE k == n - (a + 1)
    <3>1. k \in 1 .. b /\ a + 1 + k = n
      BY <1>3, <2>1, <2>4
    <3> HIDE DEF k
    <3>2. Roots(s)[n] = s.order_by[k].expr /\ k \in DOMAIN s.order_by
      BY <1>3, <1>8, <3>1
    <3> QED
      BY <3>2 DEF IsStatement, IsKey, ExpressionsOf
  <2> QED
    BY <1>3, <2>1, <2>2, <2>3, <2>4
<1> QED
  BY <1>3, <1>7, <1>8, <1>9 DEF a, b

-----------------------------------------------------------------------------
(* The statement above the aggregation.                                    *)

LEMMA SubstituteStep ==
    ASSUME NEW kinds, NEW e, IsExpr(e, kinds), NEW keys
    PROVE  LET same == {n \in DOMAIN keys : ExprKey(keys[n]) = ExprKey(e)}
           IN  SubstituteInto(e, keys) =
                 IF e.kind \in {"AggregateExpr", "ColumnRef", "Literal"} THEN e
                 ELSE IF same # {} THEN ColumnRef(NoName, ExprToString(keys[First(same)]))
                 ELSE WithArgs(e, [k \in DOMAIN e.args |-> SubstituteInto(e.args[k], keys)])
<1>1. SubstituteInto(e, keys) = SubstitutedNode(keys, e, [k \in DOMAIN e.args |-> SubstituteInto(e.args[k], keys)])
  BY ChildrenNodes, LeastNat, SubstituteWalk!FoldStep DEF SubstituteInto, SubstituteWalk!WellOrdered
<1> QED
  BY <1>1 DEF SubstitutedNode

LEMMA SubstituteFacts ==
    ASSUME NEW e, IsExpr(e, ParsedKinds), NEW keys
    PROVE  /\ IsExpr(SubstituteInto(e, keys), ParsedKinds)
           /\ Elements(CollectAggregates(SubstituteInto(e, keys))) \subseteq Elements(CollectAggregates(e))
<1> DEFINE sub(x) == SubstituteInto(x, keys)
           Kept(x) == IsExpr(sub(x), ParsedKinds) /\ Elements(CollectAggregates(sub(x))) \subseteq Elements(CollectAggregates(x))
           T == {x \in Nodes(e) : Kept(x)}
<1>1. ASSUME NEW x \in Nodes(e), IsExpr(x, ParsedKinds), \A k \in DOMAIN x.args : x.args[k] \in T
      PROVE  Kept(x)
  <2> DEFINE same == {n \in DOMAIN keys : ExprKey(keys[n]) = ExprKey(x)}
             args == [k \in DOMAIN x.args |-> sub(x.args[k])]
  <2>1. sub(x) = IF x.kind \in {"AggregateExpr", "ColumnRef", "Literal"} THEN x
                 ELSE IF same # {} THEN ColumnRef(NoName, ExprToString(keys[First(same)]))
                 ELSE WithArgs(x, args)
    BY <1>1, SubstituteStep
  <2>2. /\ args = [k \in DOMAIN x.args |-> args[k]] /\ DOMAIN args = DOMAIN x.args
        /\ \A k \in DOMAIN x.args : args[k] = sub(x.args[k])
    OBVIOUS
  <2>3. \A k \in DOMAIN x.args : Kept(x.args[k])
    BY <1>1
  <2> HIDE DEF sub, same, args
  <2>4. CASE x.kind \in {"AggregateExpr", "ColumnRef", "Literal"}
    BY <1>1, <2>1, <2>4
  <2>5. CASE x.kind \notin {"AggregateExpr", "ColumnRef", "Literal"} /\ same # {}
    <3> DEFINE c == ColumnRef(NoName, ExprToString(keys[First(same)]))
    <3>1. sub(x) = c
      BY <2>1, <2>5
    <3>2. IsExpr(c, ParsedKinds) /\ c.args = << >> /\ c.kind = "ColumnRef"
      BY ColumnIs DEF ColumnRef, Node
    <3> HIDE DEF c
    <3>3. Nodes(c) = {c} \cup UNION {Nodes(c.args[k]) : k \in DOMAIN c.args}
      BY <3>2, NodesSplit
    <3>4. Nodes(c) = {c}
      BY <3>2, <3>3
    <3>5. Elements(CollectAggregates(c)) = {}
      BY <3>2, <3>4, AggregatesWithin
    <3> QED
      BY <3>1, <3>2, <3>5
  <2>6. CASE x.kind \notin {"AggregateExpr", "ColumnRef", "Literal"} /\ same = {}
    <3> DEFINE r == WithArgs(x, args)
               before == [k \in DOMAIN x.args |-> CollectAggregates(x.args[k])]
               after == [k \in DOMAIN args |-> CollectAggregates(args[k])]
    <3>1. sub(x) = r /\ x.kind \in ParsedKinds
      BY <1>1, <2>1, <2>6, ExprElim DEF WellFormed
    <3>2. \A k \in DOMAIN x.args : IsExpr(args[k], ParsedKinds)
      BY <2>2, <2>3
    <3>3. IsExpr(r, ParsedKinds) /\ r.kind = x.kind /\ r.args = args
      BY <1>1, <2>2, <3>1, <3>2, RewrittenExpr
    <3> HIDE DEF r
    <3>4. CollectAggregates(x) = Join(before)
      BY <1>1, <2>6, AggregatesStep
    <3>5. CollectAggregates(r) = Join(after)
      BY <2>6, <3>3, AggregatesStep
    <3>6. /\ DOMAIN before = DOMAIN x.args /\ before = [k \in DOMAIN x.args |-> before[k]]
          /\ DOMAIN after = DOMAIN x.args /\ after = [k \in DOMAIN args |-> after[k]]
          /\ \A k \in DOMAIN x.args : before[k] = CollectAggregates(x.args[k]) /\ after[k] = CollectAggregates(args[k])
      BY <2>2
    <3>7. IsSeq(x.args) /\ IsSeq(args) /\ \A k \in DOMAIN x.args : IsExpr(x.args[k], ParsedKinds)
      BY <1>1, <2>2, ExprElim, MappedSeq DEF WellFormed
    <3> HIDE DEF before, after
    <3>8. IsSeq(before) /\ IsSeq(after)
      BY <3>6, <3>7, MappedSeq
    <3>9. \A k \in DOMAIN x.args : IsSeq(before[k]) /\ IsSeq(after[k])
      BY <3>2, <3>6, <3>7, AggregatesFacts
    <3>10. /\ Elements(Join(before)) = UNION {Elements(before[k]) : k \in DOMAIN before}
           /\ Elements(Join(after)) = UNION {Elements(after[k]) : k \in DOMAIN after}
      BY <3>6, <3>8, <3>9, JoinFacts
    <3>11. \A k \in DOMAIN x.args : Elements(after[k]) \subseteq Elements(before[k])
      BY <2>2, <2>3, <3>6
    <3> QED
      BY <3>1, <3>3, <3>4, <3>5, <3>6, <3>10, <3>11
  <2> QED
    BY <2>4, <2>5, <2>6
<1> HIDE DEF Kept
<1>2. e \in T
  <2>1. \A x \in Nodes(e) : IsExpr(x, ParsedKinds) /\ (\A k \in DOMAIN x.args : x.args[k] \in T) => x \in T
    BY <1>1
  <2> HIDE DEF T
  <2> QED
    BY <2>1, ExprInduction
<1> QED
  BY <1>2 DEF T, Kept

LEMMA SubstitutedStatement ==
    ASSUME NEW s, IsStatement(s, ParsedKinds)
    PROVE  LET r == SubstituteGroupKeyRefs(s)
           IN  /\ IsStatement(r, ParsedKinds) /\ r.group_by = s.group_by /\ Tables(r) = Tables(s)
               /\ DOMAIN Roots(r) = DOMAIN Roots(s)
               /\ \A n \in DOMAIN Roots(s) :
                     Roots(r)[n] = IF Roots(s)[n] = Nothing THEN Nothing
                                   ELSE SubstituteInto(Roots(s)[n], ComputedKeys(s))
<1> DEFINE keys == ComputedKeys(s)
           sub(e) == SubstituteInto(e, keys)
           list == [n \in DOMAIN s.select_list |-> [s.select_list[n] EXCEPT !.expr = sub(s.select_list[n].expr)]]
           order == [n \in DOMAIN s.order_by |-> [s.order_by[n] EXCEPT !.expr = sub(s.order_by[n].expr)]]
           having == IF s.having = Nothing THEN Nothing ELSE sub(s.having)
           r == SubstituteGroupKeyRefs(s)
<1>1. r = [s EXCEPT !.select_list = list, !.having = having, !.order_by = order]
  BY DEF SubstituteGroupKeyRefs, Each, Maybe, ComputedKeys
<1>2. Whole(s) /\ IsSeq(s.select_list) /\ IsSeq(s.order_by)
  BY DEF IsStatement, Whole
<1>3. /\ IsSeq(list) /\ Len(list) = Len(s.select_list) /\ DOMAIN list = DOMAIN s.select_list
      /\ IsSeq(order) /\ Len(order) = Len(s.order_by) /\ DOMAIN order = DOMAIN s.order_by
  <2>1. list = [n \in DOMAIN s.select_list |-> list[n]] /\ order = [n \in DOMAIN s.order_by |-> order[n]]
    OBVIOUS
  <2> HIDE DEF list, order
  <2> QED
    BY <1>2, <2>1, MappedSeq
<1>4. \A e : IsExpr(e, ParsedKinds) => IsExpr(sub(e), ParsedKinds)
  BY SubstituteFacts
<1> HIDE DEF sub, r
<1>5. ASSUME NEW n \in DOMAIN s.select_list
      PROVE  IsItem(list[n], ParsedKinds) /\ list[n].expr = sub(s.select_list[n].expr)
  <2>1. IsItem(s.select_list[n], ParsedKinds) /\ IsExpr(sub(s.select_list[n].expr), ParsedKinds)
    BY <1>4 DEF IsStatement, IsItem
  <2>2. list[n] = [s.select_list[n] EXCEPT !.expr = sub(s.select_list[n].expr)]
    OBVIOUS
  <2> HIDE DEF list
  <2> QED
    BY <2>1, <2>2, OtherItem
<1>6. ASSUME NEW n \in DOMAIN s.order_by
      PROVE  IsKey(order[n], ParsedKinds) /\ order[n].expr = sub(s.order_by[n].expr)
  <2>1. IsKey(s.order_by[n], ParsedKinds) /\ IsExpr(sub(s.order_by[n].expr), ParsedKinds)
    BY <1>4 DEF IsStatement, IsKey
  <2>2. order[n] = [s.order_by[n] EXCEPT !.expr = sub(s.order_by[n].expr)]
    OBVIOUS
  <2> HIDE DEF order
  <2> QED
    BY <2>1, <2>2, OtherKey
<1>7. IsOptional(having, ParsedKinds)
  BY <1>4 DEF IsStatement, IsOptional
<1>8. having = IF s.having = Nothing THEN Nothing ELSE sub(s.having)
  OBVIOUS
<1> HIDE DEF list, order, having
<1>9. r = WithClauses(s, list, s.where, s.group_by, having, order, s.join)
  BY <1>1, <1>2 DEF WithClauses, Whole
<1>10. /\ Whole(r) /\ r.from = s.from /\ r.select_list = list /\ r.where = s.where /\ r.group_by = s.group_by
       /\ r.having = having /\ r.order_by = order /\ r.join = s.join
  BY <1>2, <1>9, ClausesGiven
<1>11. /\ r.limit = s.limit
       /\ s.limit = Nothing \/ IsLimit(s.limit)
       /\ IsTable(s.from) /\ (s.join = Nothing \/ IsJoin(s.join, ParsedKinds)) /\ IsOptional(s.where, ParsedKinds)
       /\ IsSeq(s.group_by) /\ \A n \in DOMAIN s.group_by : IsExpr(s.group_by[n], ParsedKinds)
  BY <1>1, <1>2 DEF IsStatement, Whole
<1>12. IsStatement(r, ParsedKinds)
  BY <1>3, <1>5, <1>6, <1>7, <1>10, <1>11 DEF IsStatement, Whole
<1>13. Tables(r) = Tables(s)
  BY <1>10 DEF Tables
<1> DEFINE a == Len(s.select_list)
           b == Len(s.order_by)
<1>14. /\ a \in Nat /\ b \in Nat /\ DOMAIN Roots(s) = 1 .. a + 1 + b /\ DOMAIN Roots(r) = 1 .. a + 1 + b
       /\ DOMAIN s.select_list = 1 .. a /\ DOMAIN s.order_by = 1 .. b
       /\ Roots(s)[a + 1] = s.having /\ Roots(r)[a + 1] = having
       /\ \A n \in 1 .. a : Roots(s)[n] = s.select_list[n].expr /\ Roots(r)[n] = list[n].expr
       /\ \A n \in 1 .. b : Roots(s)[a + 1 + n] = s.order_by[n].expr /\ Roots(r)[a + 1 + n] = order[n].expr
  <2>1. Len(r.select_list) = a /\ Len(r.order_by) = b
    BY <1>3, <1>10
  <2>2. /\ IsSeq(Roots(s)) /\ Len(Roots(s)) = a + 1 + b /\ IsSeq(Roots(r)) /\ Len(Roots(r)) = a + 1 + b
    BY <1>12, <2>1, RootsFacts
  <2>3. DOMAIN Roots(s) = 1 .. a + 1 + b /\ DOMAIN Roots(r) = 1 .. a + 1 + b
    BY <2>2, SeqFacts
  <2>4. /\ a \in Nat /\ b \in Nat /\ DOMAIN s.select_list = 1 .. a /\ DOMAIN s.order_by = 1 .. b
        /\ Roots(s)[a + 1] = s.having
        /\ \A n \in 1 .. a : Roots(s)[n] = s.select_list[n].expr
        /\ \A n \in 1 .. b : Roots(s)[a + 1 + n] = s.order_by[n].expr
    BY RootsFacts
  <2>5. LET c == Len(r.select_list)
            d == Len(r.order_by)
        IN  /\ Roots(r)[c + 1] = r.having
            /\ \A n \in 1 .. c : Roots(r)[n] = r.select_list[n].expr
            /\ \A n \in 1 .. d : Roots(r)[c + 1 + n] = r.order_by[n].expr
    BY <1>12, RootsFacts
  <2> HIDE DEF a, b
  <2>6. /\ Roots(r)[a + 1] = r.having
        /\ \A n \in 1 .. a : Roots(r)[n] = r.select_list[n].expr
        /\ \A n \in 1 .. b : Roots(r)[a + 1 + n] = r.order_by[n].expr
    BY <2>1, <2>5
  <2> QED
    BY <1>10, <2>3, <2>4, <2>6
<1> HIDE DEF a, b
<1>15. ASSUME NEW n \in DOMAIN Roots(s)
       PROVE  Roots(r)[n] = IF Roots(s)[n] = Nothing THEN Nothing ELSE sub(Roots(s)[n])
  <2>1. CASE n \in 1 .. a
    <3>1. IsItem(s.select_list[n], ParsedKinds)
      BY <1>14, <2>1 DEF IsStatement
    <3>2. Roots(s)[n] # Nothing
      BY <1>14, <2>1, <3>1, NothingNotExpr DEF IsItem
    <3> QED
      BY <1>5, <1>14, <2>1, <3>2
  <2>2. CASE n = a + 1
    BY <1>8, <1>14, <2>2
  <2>3. CASE n > a + 1
    <3> DEFINE k == n - (a + 1)
    <3>1. k \in 1 .. b /\ a + 1 + k = n
      BY <1>14, <2>3
    <3> HIDE DEF k
    <3>2. Roots(s)[n] = s.order_by[k].expr /\ Roots(r)[n] = order[k].expr /\ k \in DOMAIN s.order_by
      BY <1>14, <3>1
    <3>3. IsKey(s.order_by[k], ParsedKinds)
      BY <3>2 DEF IsStatement
    <3>4. Roots(s)[n] # Nothing
      BY <3>2, <3>3, NothingNotExpr DEF IsKey
    <3> QED
      BY <1>6, <3>2, <3>4
  <2>4. n \in 1 .. a + 1 + b /\ a \in Nat /\ b \in Nat
    BY <1>14
  <2>5. n \in 1 .. a \/ n = a + 1 \/ n > a + 1
    BY <2>4
  <2> QED
    BY <2>1, <2>2, <2>3, <2>5
<1>16. DOMAIN Roots(r) = DOMAIN Roots(s)
  BY <1>14
<1> QED
  BY <1>10, <1>12, <1>13, <1>15, <1>16 DEF r, sub

-----------------------------------------------------------------------------
(* Without grouping.                                                       *)

(* The columns of an expression of a statement are restored.               *)
LEMMA RestoredBelow ==
    ASSUME NEW s, IsStatement(s, ParsedKinds), SettledStatement(s),
           NEW st, IsStatement(st, ParsedKinds), TablesExist(st), Tables(st) = Tables(s),
           NEW e \in ExpressionsOf(s), e # Nothing, NEW f, IsExpr(f, ParsedKinds), Nodes(f) \subseteq Nodes(e),
           \A x \in Columns(f) : Mentioned(st, x.payload.column_name)
    PROVE  \A x \in Columns(f) : Restored(x, InputSchema(st)) = Canonical(x)
<1> SUFFICES ASSUME NEW x \in Columns(f) PROVE Restored(x, InputSchema(st)) = Canonical(x)
  OBVIOUS
<1>1. x \in Columns(e) /\ IsExpr(x, ParsedKinds) /\ x.kind = "ColumnRef"
  BY ExprElim DEF Columns
<1>2. Settled(x, Tables(st))
  BY <1>1 DEF SettledStatement
<1> QED
  BY <1>1, <1>2, InputRestores

LEMMA MentionedIn ==
    ASSUME NEW s, NEW kinds, IsStatement(s, kinds), NEW e \in ExpressionsOf(s), e # Nothing,
           NEW f, Nodes(f) \subseteq Nodes(e)
    PROVE  \A x \in Columns(f) : Mentioned(s, x.payload.column_name)
<1> SUFFICES ASSUME NEW x \in Columns(f) PROVE Mentioned(s, x.payload.column_name)
  OBVIOUS
<1>1. x \in Columns(e) /\ IsExpr(e, kinds)
  BY StatementExprs DEF Columns
<1>2. x.payload.column_name \in CollectCols(e)
  BY <1>1, ColsFacts
<1>3. e \in Elements(Expressions(s))
  BY ExpressionsFacts
<1> QED
  BY <1>2, <1>3 DEF Mentioned, Elements

(* What Validate says of aggregates and keys.                              *)
LEMMA ValidateGroups ==
    ASSUME NEW s, Validate(s)
    PROVE  /\ s.having # Nothing => s.group_by # << >>
           /\ \A n \in DOMAIN s.group_by : ValidKey(s, s.group_by[n])
           /\ Groups(s) \/ Aggregates([n \in DOMAIN s.order_by |-> s.order_by[n].expr]) = << >>
BY Zenon DEF Validate

LEMMA PlanIs ==
    ASSUME NEW s
    PROVE  LET st == SubstituteGroupKeyRefs(s)
           IN  /\ BuildPlan(s).stmt = st
               /\ BuildPlan(s).schema = IF Groups(st) THEN BuildAggregateSchema(st, InputSchema(st)) ELSE InputSchema(st)
<1> DEFINE st == SubstituteGroupKeyRefs(s)
           schema == IF Groups(st) THEN BuildAggregateSchema(st, InputSchema(st)) ELSE InputSchema(st)
<1>1. BuildPlan(s) = [stmt |-> st, input |-> InputSchema(st), schema |-> schema, output |-> BuildProjectSchema(st, schema)]
  BY DEF BuildPlan
<1> HIDE DEF st, schema
<1>2. BuildPlan(s).stmt = st /\ BuildPlan(s).schema = schema
  BY <1>1
<1> QED
  BY <1>2 DEF st, schema

(* Without groups, every root is read from the scans.                      *)
LEMMA UngroupedReads ==
    ASSUME NEW s, Resolved(s), TablesExist(s), Validate(s), ~ Groups(s), NEW n \in DOMAIN Roots(s), Roots(s)[n] # Nothing
    PROVE  Restored(Roots(BuildPlan(s).stmt)[n], BuildPlan(s).schema) = Canonical(Roots(s)[n])
<1> DEFINE list == [k \in DOMAIN s.select_list |-> s.select_list[k].expr]
           order == [k \in DOMAIN s.order_by |-> s.order_by[k].expr]
           a == Len(s.select_list)
           b == Len(s.order_by)
           e == Roots(s)[n]
<1>1. IsStatement(s, ParsedKinds) /\ SettledStatement(s)
  BY DEF Resolved
<1>2. s.group_by = << >> /\ Aggregates(list) = << >>
  BY DEF Groups, SelectAggregates
<1>3. s.having = Nothing /\ Aggregates(order) = << >>
  BY <1>2, ValidateGroups
<1>4. SubstituteGroupKeyRefs(s) = s
  BY <1>1, <1>2, SubstitutedPlain
<1>5. BuildPlan(s).stmt = s /\ BuildPlan(s).schema = InputSchema(s)
  BY <1>4, PlanIs
<1>6. IsExpr(e, ParsedKinds) /\ e \in ExpressionsOf(s)
  BY <1>1, RootsFacts
<1>7. \A x \in Nodes(e) : x.kind # "AggregateExpr"
  <2>1. /\ IsSeq(s.select_list) /\ IsSeq(s.order_by)
        /\ list = [k \in DOMAIN s.select_list |-> list[k]] /\ order = [k \in DOMAIN s.order_by |-> order[k]]
    BY <1>1 DEF IsStatement
  <2>2. /\ \A k \in DOMAIN s.select_list : list[k] = s.select_list[k].expr /\ IsExpr(list[k], ParsedKinds)
        /\ \A k \in DOMAIN s.order_by : order[k] = s.order_by[k].expr /\ IsExpr(order[k], ParsedKinds)
    BY <1>1 DEF IsStatement, IsItem, IsKey
  <2> HIDE DEF list, order
  <2>3. IsSeq(list) /\ IsSeq(order) /\ DOMAIN list = DOMAIN s.select_list /\ DOMAIN order = DOMAIN s.order_by
    BY <2>1, MappedSeq
  <2>4. /\ a \in Nat /\ b \in Nat /\ IsSeq(Roots(s)) /\ Len(Roots(s)) = a + 1 + b
        /\ DOMAIN s.select_list = 1 .. a /\ DOMAIN s.order_by = 1 .. b
        /\ \A k \in 1 .. a : Roots(s)[k] = s.select_list[k].expr
        /\ Roots(s)[a + 1] = s.having
        /\ \A k \in 1 .. b : Roots(s)[a + 1 + k] = s.order_by[k].expr
    BY <1>1, RootsFacts
  <2>5. n \in 1 .. a + 1 + b
    BY <2>4, SeqFacts
  <2> HIDE DEF a, b
  <2>6. CASE n \in 1 .. a
    <3>1. n \in DOMAIN list /\ list[n] = e /\ list[n] # Nothing
      BY <2>2, <2>3, <2>4, <2>6
    <3>2. \A x \in Nodes(list[n]) : x.kind # "AggregateExpr"
      BY <1>2, <2>2, <2>3, <3>1, NoAggregates
    <3> QED
      BY <3>1, <3>2
  <2>7. CASE n > a + 1
    <3> DEFINE k == n - (a + 1)
    <3>1. k \in 1 .. b /\ a + 1 + k = n
      BY <2>4, <2>5, <2>7
    <3> HIDE DEF k
    <3>2. k \in DOMAIN order /\ order[k] = e /\ order[k] # Nothing
      BY <2>2, <2>3, <2>4, <3>1
    <3>3. \A x \in Nodes(order[k]) : x.kind # "AggregateExpr"
      BY <1>3, <2>2, <2>3, <3>2, NoAggregates
    <3> QED
      BY <3>2, <3>3
  <2>8. n # a + 1
    BY <1>3, <2>4
  <2> QED
    BY <2>4, <2>5, <2>6, <2>7, <2>8
<1> HIDE DEF e
<1>8. \A x \in Columns(e) : Restored(x, InputSchema(s)) = Canonical(x)
  <2>1. e # Nothing /\ Nodes(e) \subseteq Nodes(e)
    BY <1>6, NothingNotExpr
  <2>2. \A x \in Columns(e) : Mentioned(s, x.payload.column_name)
    BY <1>1, <1>6, <2>1, MentionedIn
  <2> QED
    BY <1>1, <1>6, <2>1, <2>2, RestoredBelow
<1>9. Restored(e, InputSchema(s)) = Canonical(e)
  BY <1>6, <1>7, <1>8, RestoredParts DEF Columns
<1> QED
  BY <1>5, <1>9 DEF e

-----------------------------------------------------------------------------
(* What an aggregation computes.                                           *)

LEMMA ComputedFacts ==
    ASSUME NEW s
    PROVE  /\ \A n \in DOMAIN Roots(s) : Roots(s)[n] # Nothing =>
                 \A x \in Nodes(Roots(s)[n]) : x.kind = "AggregateExpr" => x \in ComputedBy(s)
           /\ \A g \in Elements(s.group_by) : g.kind # "ColumnRef" => g \in ComputedBy(s)
BY Zenon DEF ComputedBy, Nodes, Elements

LEMMA DistinguishableFacts ==
    ASSUME NEW s, Distinguishable(s)
    PROVE  /\ \A c, d \in ComputedBy(s) : ExprToString(c) = ExprToString(d) => Canonical(c) = Canonical(d)
           /\ \A x : TableColumn(x, Tables(s)) => \A c \in ComputedBy(s) : x.name # ExprToString(c)
           /\ \A c \in ComputedBy(s) : \A n \in DOMAIN Tables(s) : ~ HasColumn(Tables(s)[n].table_name, ExprToString(c))
BY Zenon DEF Distinguishable, TableColumn

(* A key that is a column is one of a table.                               *)
LEMMA PlainKey ==
    ASSUME NEW s, Resolved(s), Validate(s), NEW g \in Elements(s.group_by), g.kind = "ColumnRef"
    PROVE  /\ IsExpr(g, ParsedKinds) /\ g \in ExpressionsOf(s)
           /\ g.payload.relation_slot \in {0, 1} /\ g.payload.relation_slot + 1 \in DOMAIN Tables(s)
           /\ HasColumn(Tables(s)[g.payload.relation_slot + 1].table_name, g.payload.column_name)
<1>1. IsStatement(s, ParsedKinds) /\ SettledStatement(s)
  BY DEF Resolved
<1>2. IsExpr(g, ParsedKinds) /\ g \in ExpressionsOf(s) /\ g # Nothing
  BY <1>1, NothingNotExpr DEF IsStatement, Elements, ExpressionsOf
<1>3. g \in Columns(g)
  BY <1>2, ExprNodes DEF Columns
<1>4. Settled(g, Tables(s))
  BY <1>1, <1>2, <1>3 DEF SettledStatement
<1>5. ValidKey(s, g)
  BY ValidateGroups DEF Elements
<1>6. \/ Qualified(g)
      \/ HavingTables(g, Tables(s)) # {}
  BY <1>5, Zenon DEF ValidKey, Qualified, HavingTables
<1>7. LET n == g.payload.relation_slot + 1
      IN  n \in DOMAIN Tables(s) /\ HasColumn(Tables(s)[n].table_name, g.payload.column_name)
  BY <1>4, <1>6 DEF Settled
<1>8. DOMAIN Tables(s) \subseteq {1, 2}
  BY <1>1, TablesFacts, SeqFacts DEF AreTables
<1>9. g.payload.relation_slot \in {-1, 0, 1}
  BY <1>2, ExprElim DEF WellFormed, IsPayload, NoSlot
<1>10. g.payload.relation_slot \in {0, 1}
  BY <1>7, <1>8, <1>9
<1> QED
  BY <1>2, <1>7, <1>10

LEMMA InputRead ==
    ASSUME NEW s, NEW kinds, IsStatement(s, kinds), TablesExist(s), NEW x, x.kind = "ColumnRef",
           Mentioned(s, x.payload.column_name),
           x.payload.relation_slot \in {0, 1}, x.payload.relation_slot + 1 \in DOMAIN Tables(s),
           HasColumn(Tables(s)[x.payload.relation_slot + 1].table_name, x.payload.column_name)
    PROVE  LET k == IndexRead(x, InputSchema(s))
           IN  /\ k # 0 /\ k \in DOMAIN InputSchema(s)
               /\ InputSchema(s)[k].name = x.payload.column_name
               /\ InputSchema(s)[k].relation_slot = x.payload.relation_slot
               /\ TableColumn(InputSchema(s)[k], Tables(s))
<1> DEFINE below == InputSchema(s)
           name == x.payload.column_name
           slot == x.payload.relation_slot
           k == IndexOfSlot(below, name, slot)
<1>1. /\ IsSeq(below)
      /\ \A n \in DOMAIN below : TableColumn(below[n], Tables(s))
      /\ \E n \in DOMAIN below : below[n].name = name /\ below[n].relation_slot = slot
  BY InputColumns
<1> HIDE DEF below
<1>2. k # 0 /\ k \in DOMAIN below /\ below[k].name = name /\ below[k].relation_slot = slot
  BY <1>1, SlotIndexFacts
<1>3. IndexRead(x, below) = k
  BY <1>2 DEF IndexRead, ResolveColumnIndex, NoSlot
<1> QED
  BY <1>1, <1>2, <1>3 DEF below

(* What a key or an aggregate computes below is what it was written as.    *)
LEMMA ComputedKeyRestored ==
    ASSUME NEW s, Resolved(s), TablesExist(s), Validate(s), NEW g \in Elements(s.group_by), g.kind # "ColumnRef"
    PROVE  Restored(g, InputSchema(SubstituteGroupKeyRefs(s))) = Canonical(g)
<1> DEFINE st == SubstituteGroupKeyRefs(s)
<1>1. IsStatement(s, ParsedKinds) /\ SettledStatement(s)
  BY DEF Resolved
<1>2. IsExpr(g, ParsedKinds) /\ g \in ExpressionsOf(s) /\ g # Nothing
  BY <1>1, NothingNotExpr DEF IsStatement, Elements, ExpressionsOf
<1>3. IsStatement(st, ParsedKinds) /\ st.group_by = s.group_by /\ Tables(st) = Tables(s)
  BY <1>1, SubstitutedStatement
<1> HIDE DEF st
<1>4. g \in ExpressionsOf(st) /\ TablesExist(st)
  BY <1>3 DEF ExpressionsOf, TablesExist
<1>5. CollectAggregates(g) = << >>
  BY ValidateGroups DEF Elements, ValidKey
<1>6. \A x \in Nodes(g) : x.kind # "AggregateExpr"
  BY <1>2, <1>5, AggregatesFacts
<1>7. \A x \in Columns(g) : Mentioned(st, x.payload.column_name)
  BY <1>2, <1>3, <1>4, MentionedIn
<1>8. \A x \in Columns(g) : Restored(x, InputSchema(st)) = Canonical(x)
  BY <1>1, <1>2, <1>3, <1>4, <1>7, RestoredBelow
<1>9. Restored(g, InputSchema(st)) = Canonical(g)
  BY <1>2, <1>6, <1>8, RestoredParts DEF Columns
<1> QED
  BY <1>9 DEF st

LEMMA AggregateRestored ==
    ASSUME NEW s, Resolved(s), TablesExist(s), Distinguishable(s),
           NEW n \in DOMAIN Roots(s), Roots(s)[n] # Nothing,
           NEW a \in Nodes(Roots(s)[n]), a \in Nodes(Roots(SubstituteGroupKeyRefs(s))[n]), a.kind = "AggregateExpr"
    PROVE  LET below == InputSchema(SubstituteGroupKeyRefs(s))
           IN  WithArgs(a, [k \in DOMAIN a.args |-> Restored(a.args[k], below)]) = Canonical(a)
<1> DEFINE st == SubstituteGroupKeyRefs(s)
           below == InputSchema(st)
           e == Roots(s)[n]
           f == Roots(st)[n]
<1>1. IsStatement(s, ParsedKinds) /\ SettledStatement(s)
  BY DEF Resolved
<1>2. /\ IsStatement(st, ParsedKinds) /\ Tables(st) = Tables(s) /\ n \in DOMAIN Roots(st)
      /\ f = SubstituteInto(e, ComputedKeys(s))
  BY <1>1, SubstitutedStatement
<1> HIDE DEF st
<1>3. IsExpr(e, ParsedKinds) /\ e \in ExpressionsOf(s)
  BY <1>1, RootsFacts
<1>4. IsExpr(f, ParsedKinds)
  BY <1>2, <1>3, SubstituteFacts
<1>5. f # Nothing /\ f \in ExpressionsOf(st)
  BY <1>2, <1>4, NothingNotExpr, RootsFacts
<1>6. TablesExist(st)
  BY <1>2 DEF TablesExist
<1>7. /\ IsSeq(below) /\ \A k \in DOMAIN below : TableColumn(below[k], Tables(s))
  BY <1>2, <1>6, InputColumns
<1>8. a \in Nodes(e) /\ a \in Nodes(f)
  BY DEF st
<1>9. \A x \in Nodes(e) : x.kind = "AggregateExpr" => x \in ComputedBy(s)
  BY ComputedFacts
<1> HIDE DEF below, e, f
<1>10. ASSUME NEW k \in DOMAIN a.args
       PROVE  Restored(a.args[k], below) = Canonical(a.args[k])
  <2> DEFINE x == a.args[k]
  <2>1. IsExpr(a, ParsedKinds) /\ Nodes(a) \subseteq Nodes(e) /\ Nodes(a) \subseteq Nodes(f)
    BY <1>3, <1>4, <1>8, ExprElim, ExprNodes
  <2>2. IsExpr(x, ParsedKinds) /\ x \in Nodes(a)
    BY <2>1, ExprElim
  <2>3. Nodes(x) \subseteq Nodes(e) /\ Nodes(x) \subseteq Nodes(f)
    BY <2>1, <2>2, ExprNodes
  <2> HIDE DEF x
  <2>4. \A y \in Columns(x) : Mentioned(st, y.payload.column_name)
    BY <1>2, <1>5, <2>3, MentionedIn
  <2>5. e # Nothing
    BY <1>3, NothingNotExpr
  <2>6. \A y \in Columns(x) : Restored(y, InputSchema(st)) = Canonical(y)
    BY <1>1, <1>2, <1>3, <1>6, <2>2, <2>3, <2>4, <2>5, RestoredBelow
  <2>7. ASSUME NEW y \in Nodes(x), y.kind = "AggregateExpr"
        PROVE  IndexRead(y, below) = 0
    <3>1. y \in ComputedBy(s)
      BY <1>9, <2>3, <2>7
    <3>2. \A m \in DOMAIN below : below[m].name # ExprToString(y)
      BY <1>7, <3>1, DistinguishableFacts DEF TableColumn
    <3>3. IndexOf(below, ExprToString(y)) = 0
      BY <1>7, <3>2, IndexFacts
    <3> QED
      BY <2>7, <3>3 DEF IndexRead, AggregateOutputName
  <2>8. Restored(x, below) = Canonical(x)
    BY <2>2, <2>6, <2>7, RestoredParts DEF Columns, below
  <2> QED
    BY <2>8 DEF x
<1>11. Canonical(a) = WithArgs(a, [k \in DOMAIN a.args |-> Canonical(a.args[k])])
  <2>1. IsExpr(a, ParsedKinds)
    BY <1>3, <1>8, ExprElim
  <2> QED
    BY <2>1, CanonicalStep
<1>12. [k \in DOMAIN a.args |-> Restored(a.args[k], below)] = [k \in DOMAIN a.args |-> Canonical(a.args[k])]
  BY <1>10
<1> QED
  BY <1>11, <1>12 DEF below, st

(* One aggregate of each name.                                             *)
LEMMA ExtractFacts ==
    ASSUME NEW s, IsSeq(Aggregates(Roots(s)))
    PROVE  /\ IsSeq(ExtractAggregates(s))
           /\ \A spec \in Elements(ExtractAggregates(s)) : spec.expr \in Elements(Aggregates(Roots(s)))
           /\ \A a \in Elements(Aggregates(Roots(s))) :
                 \E spec \in Elements(ExtractAggregates(s)) : ExprToString(spec.expr) = ExprToString(a)
<1> DEFINE all == Aggregates(Roots(s))
           visible == SelectAggregates(s)
           first(n) == \A k \in 1 .. n - 1 : AggregateOutputName(all[k]) # AggregateOutputName(all[n])
           one(n) == [expr |-> all[n], hidden |-> n > Len(visible)]
           specs == [n \in DOMAIN all |-> IF first(n) THEN <<one(n)>> ELSE << >>]
<1>1. ExtractAggregates(s) = Join(specs)
  BY Zenon DEF ExtractAggregates
<1>2. IsSeq(all)
  OBVIOUS
<1>3. DOMAIN all = 1 .. Len(all) /\ Len(all) \in Nat
  BY <1>2, SeqFacts
<1>4. \A n \in DOMAIN all : one(n).expr = all[n]
  OBVIOUS
<1>5. \A a \in Elements(all) : \E n \in DOMAIN all : first(n) /\ ExprToString(all[n]) = ExprToString(a)
  <2> SUFFICES ASSUME NEW m \in DOMAIN all
               PROVE  \E n \in DOMAIN all : first(n) /\ ExprToString(all[n]) = ExprToString(all[m])
    BY DEF Elements
  <2> HIDE DEF all
  <2> DEFINE D == {n \in DOMAIN all : ExprToString(all[n]) = ExprToString(all[m])}
  <2>1. D \in SUBSET Nat /\ D # {}
    BY <1>3
  <2>2. PICK n \in D : \A k \in D : n <= k
    <3> HIDE DEF D
    <3> QED
      BY <2>1, LeastNat
  <2>3. ASSUME NEW k \in 1 .. n - 1
        PROVE  AggregateOutputName(all[k]) # AggregateOutputName(all[n])
    <3>1. k \in DOMAIN all /\ ~ (n <= k)
      BY <1>3, <2>2
    <3>2. k \notin D
      BY <2>2, <3>1
    <3> QED
      BY <2>2, <3>1, <3>2 DEF AggregateOutputName
  <2> QED
    BY <2>2, <2>3
<1> HIDE DEF all, first, one
<1>6. /\ DOMAIN specs = DOMAIN all /\ specs = [n \in DOMAIN all |-> specs[n]]
      /\ \A n \in DOMAIN all : specs[n] = IF first(n) THEN <<one(n)>> ELSE << >>
  OBVIOUS
<1> HIDE DEF specs
<1>7. IsSeq(specs)
  BY <1>2, <1>6, MappedSeq
<1>8. \A n \in DOMAIN specs : /\ IsSeq(specs[n])
                              /\ Elements(specs[n]) = IF first(n) THEN {one(n)} ELSE {}
  BY <1>6, SingleSeq, EmptySeq
<1>9. IsSeq(Join(specs)) /\ Elements(Join(specs)) = UNION {Elements(specs[n]) : n \in DOMAIN specs}
  BY <1>7, <1>8, JoinFacts
<1>10. \A spec \in Elements(Join(specs)) : spec.expr \in Elements(all)
  <2>1. \A n \in DOMAIN specs : \A spec \in Elements(specs[n]) : spec = one(n)
    BY <1>8
  <2>2. \A n \in DOMAIN specs : one(n).expr \in Elements(all)
    BY <1>4, <1>6 DEF Elements
  <2> QED
    BY <1>9, <2>1, <2>2
<1>11. \A a \in Elements(all) : \E spec \in Elements(Join(specs)) : ExprToString(spec.expr) = ExprToString(a)
  <2> TAKE a \in Elements(all)
  <2>1. PICK n \in DOMAIN all : first(n) /\ ExprToString(all[n]) = ExprToString(a)
    BY <1>5
  <2>2. one(n) \in Elements(specs[n])
    BY <1>6, <1>8, <2>1
  <2>3. one(n) \in Elements(Join(specs))
    BY <1>6, <1>9, <2>2
  <2>4. ExprToString(one(n).expr) = ExprToString(a)
    BY <1>4, <2>1
  <2> QED
    BY <2>3, <2>4
<1> QED
  BY <1>1, <1>9, <1>10, <1>11 DEF all

LEMMA ColumnFields ==
    ASSUME NEW name, NEW type, NEW slot, NEW of, NEW hidden
    PROVE  LET c == Column(name, type, slot, of)
               h == [c EXCEPT !.hidden = hidden]
           IN  c.name = name /\ c.of = of /\ h.name = name /\ h.of = of
<1> DEFINE c == Column(name, type, slot, of)
           h == [c EXCEPT !.hidden = hidden]
<1>1. c = [name |-> name, type |-> type, relation_slot |-> slot, hidden |-> FALSE, of |-> of]
  BY DEF Column
<1> HIDE DEF c
<1>2. c.name = name /\ c.of = of /\ DOMAIN c = {"name", "type", "relation_slot", "hidden", "of"}
  BY <1>1
<1>3. h.name = name /\ h.of = of
  BY <1>2
<1> QED
  BY <1>2, <1>3 DEF c

(* The column of a key, and that of an aggregate.                          *)
KeyColumn(e, schema) ==
    IF e.kind = "ColumnRef" /\ IndexRead(e, schema) # 0 THEN schema[IndexRead(e, schema)]
    ELSE Column(ExprToString(e), InferExprType(e, schema), 0, Restored(e, schema))

AggregateColumn(spec, schema) ==
    LET e == spec.expr
        type == IF e.args = << >> THEN "INT" ELSE InferExprType(e.args[1], schema)
    IN  [Column(AggregateOutputName(e), AggregateResultType(e.op, type), 0,
                WithArgs(e, [n \in DOMAIN e.args |-> Restored(e.args[n], schema)]))
            EXCEPT !.hidden = spec.hidden]

LEMMA SchemaParts ==
    ASSUME NEW s, NEW schema, IsSeq(s.group_by), IsSeq(ExtractAggregates(s))
    PROVE  /\ IsSeq(BuildAggregateSchema(s, schema))
           /\ Elements(BuildAggregateSchema(s, schema)) =
                {KeyColumn(g, schema) : g \in Elements(s.group_by)}
                \cup {AggregateColumn(spec, schema) : spec \in Elements(ExtractAggregates(s))}
<1> DEFINE specs == ExtractAggregates(s)
           keys == [n \in DOMAIN s.group_by |-> KeyColumn(s.group_by[n], schema)]
           own == [n \in DOMAIN specs |-> AggregateColumn(specs[n], schema)]
<1>1. BuildAggregateSchema(s, schema) = keys \o own
  BY Zenon DEF BuildAggregateSchema, KeyColumn, AggregateColumn
<1>2. keys = [n \in DOMAIN s.group_by |-> keys[n]] /\ own = [n \in DOMAIN specs |-> own[n]]
  OBVIOUS
<1>3. /\ {keys[n] : n \in DOMAIN keys} = {KeyColumn(g, schema) : g \in {s.group_by[n] : n \in DOMAIN s.group_by}}
      /\ {own[n] : n \in DOMAIN own} = {AggregateColumn(spec, schema) : spec \in {specs[n] : n \in DOMAIN specs}}
  OBVIOUS
<1> HIDE DEF keys, own
<1>4. IsSeq(keys) /\ IsSeq(own)
  BY <1>2, MappedSeq
<1>5. IsSeq(keys \o own) /\ Elements(keys \o own) = Elements(keys) \cup Elements(own)
  BY <1>4, ConcatFacts
<1>6. /\ Elements(keys) = {KeyColumn(g, schema) : g \in Elements(s.group_by)}
      /\ Elements(own) = {AggregateColumn(spec, schema) : spec \in Elements(specs)}
  BY <1>3 DEF Elements
<1> QED
  BY <1>1, <1>5, <1>6

(* Every column of an aggregation holds a column of a table or what is     *)
(* computed under its name, and nothing that is read is missing.           *)
LEMMA AggregateColumns ==
    ASSUME NEW s, Resolved(s), TablesExist(s), Validate(s), Distinguishable(s)
    PROVE  LET st == SubstituteGroupKeyRefs(s)
               schema == BuildAggregateSchema(st, InputSchema(st))
           IN  /\ IsSeq(schema) /\ IsSeq(Aggregates(Roots(st)))
               /\ \A c \in Elements(schema) :
                     \/ TableColumn(c, Tables(s))
                     \/ \E e \in ComputedBy(s) : c.name = ExprToString(e) /\ c.of = Canonical(e)
               /\ \A g \in Elements(s.group_by) :
                     IF g.kind = "ColumnRef"
                     THEN \E c \in Elements(schema) :
                             c.name = g.payload.column_name /\ c.relation_slot = g.payload.relation_slot
                     ELSE \E c \in Elements(schema) : c.name = ExprToString(g)
               /\ \A a \in Elements(Aggregates(Roots(st))) : \E c \in Elements(schema) : c.name = ExprToString(a)
<1> DEFINE st == SubstituteGroupKeyRefs(s)
           below == InputSchema(st)
           schema == BuildAggregateSchema(st, below)
           all == Aggregates(Roots(st))
<1>1. IsStatement(s, ParsedKinds) /\ SettledStatement(s)
  BY DEF Resolved
<1>2. /\ IsStatement(st, ParsedKinds) /\ st.group_by = s.group_by /\ Tables(st) = Tables(s)
      /\ DOMAIN Roots(st) = DOMAIN Roots(s)
      /\ \A n \in DOMAIN Roots(s) :
            Roots(st)[n] = IF Roots(s)[n] = Nothing THEN Nothing ELSE SubstituteInto(Roots(s)[n], ComputedKeys(s))
  BY <1>1, SubstitutedStatement
<1>3. \A g \in Elements(s.group_by) : g.kind # "ColumnRef" => Restored(g, below) = Canonical(g)
  BY ComputedKeyRestored
<1>4. \A n \in DOMAIN Roots(s) : Roots(s)[n] # Nothing =>
         \A a \in Nodes(Roots(s)[n]) : a \in Nodes(Roots(st)[n]) /\ a.kind = "AggregateExpr" =>
            WithArgs(a, [k \in DOMAIN a.args |-> Restored(a.args[k], below)]) = Canonical(a)
  BY AggregateRestored
<1> HIDE DEF st
<1>5. TablesExist(st)
  BY <1>2 DEF TablesExist
<1>6. /\ IsSeq(all)
      /\ Elements(all) = UNION {Elements(CollectAggregates(Roots(st)[n])) : n \in DOMAIN Roots(st)}
  <2>1. IsSeq(Roots(st)) /\ \A n \in DOMAIN Roots(st) : Roots(st)[n] = Nothing \/ IsExpr(Roots(st)[n], ParsedKinds)
    BY <1>2, RootsFacts
  <2> QED
    BY <2>1, AggregatesOf
<1>7. ASSUME NEW a \in Elements(all)
      PROVE  /\ a \in ComputedBy(s) /\ a.kind = "AggregateExpr"
             /\ WithArgs(a, [k \in DOMAIN a.args |-> Restored(a.args[k], below)]) = Canonical(a)
  <2>1. PICK n \in DOMAIN Roots(st) : a \in Elements(CollectAggregates(Roots(st)[n]))
    BY <1>6
  <2>2. Roots(st)[n] # Nothing
    <3>1. Elements(CollectAggregates(Nothing)) = {}
      BY EmptySeq DEF CollectAggregates
    <3> QED
      BY <2>1, <3>1
  <2>3. /\ n \in DOMAIN Roots(s) /\ Roots(s)[n] # Nothing
        /\ Roots(st)[n] = SubstituteInto(Roots(s)[n], ComputedKeys(s))
    BY <1>2, <2>1, <2>2
  <2>4. IsExpr(Roots(s)[n], ParsedKinds)
    BY <1>1, <2>3, RootsFacts
  <2>5. IsExpr(Roots(st)[n], ParsedKinds) /\ a \in Elements(CollectAggregates(Roots(s)[n]))
    BY <2>1, <2>3, <2>4, SubstituteFacts
  <2>6. a \in Nodes(Roots(st)[n]) /\ a \in Nodes(Roots(s)[n]) /\ a.kind = "AggregateExpr"
    BY <2>1, <2>4, <2>5, AggregatesWithin
  <2> QED
    BY <1>4, <2>3, <2>6, ComputedFacts
<1> HIDE DEF below, all
<1>8. /\ IsSeq(ExtractAggregates(st))
      /\ \A spec \in Elements(ExtractAggregates(st)) : spec.expr \in Elements(all)
      /\ \A a \in Elements(all) :
            \E spec \in Elements(ExtractAggregates(st)) : ExprToString(spec.expr) = ExprToString(a)
  BY <1>6, ExtractFacts DEF all
<1>9. /\ IsSeq(schema)
      /\ Elements(schema) = {KeyColumn(g, below) : g \in Elements(s.group_by)}
                            \cup {AggregateColumn(spec, below) : spec \in Elements(ExtractAggregates(st))}
  <2>1. IsSeq(st.group_by)
    BY <1>2 DEF IsStatement
  <2> QED
    BY <1>2, <1>8, <2>1, SchemaParts
<1> HIDE DEF schema
<1>10. ASSUME NEW g \in Elements(s.group_by), g.kind = "ColumnRef"
       PROVE  LET c == KeyColumn(g, below)
              IN  /\ TableColumn(c, Tables(s))
                  /\ c.name = g.payload.column_name /\ c.relation_slot = g.payload.relation_slot
  <2>1. /\ IsExpr(g, ParsedKinds) /\ g \in ExpressionsOf(s)
        /\ g.payload.relation_slot \in {0, 1} /\ g.payload.relation_slot + 1 \in DOMAIN Tables(s)
        /\ HasColumn(Tables(s)[g.payload.relation_slot + 1].table_name, g.payload.column_name)
    BY <1>10, PlainKey
  <2>2. g \in ExpressionsOf(st) /\ g # Nothing /\ g \in Columns(g) /\ Nodes(g) \subseteq Nodes(g)
    <3>1. g \in Nodes(g)
      BY <2>1, ExprNodes
    <3> QED
      BY <1>2, <1>10, <2>1, <3>1, NothingNotExpr DEF ExpressionsOf, Columns
  <2>3. Mentioned(st, g.payload.column_name)
    BY <1>2, <2>2, MentionedIn
  <2>4. LET k == IndexRead(g, below)
        IN  /\ k # 0 /\ below[k].name = g.payload.column_name
            /\ below[k].relation_slot = g.payload.relation_slot
            /\ TableColumn(below[k], Tables(s))
    BY <1>2, <1>5, <1>10, <2>1, <2>3, InputRead DEF below
  <2> QED
    BY <1>10, <2>4 DEF KeyColumn
<1>11. ASSUME NEW g \in Elements(s.group_by), g.kind # "ColumnRef"
       PROVE  KeyColumn(g, below).name = ExprToString(g) /\ KeyColumn(g, below).of = Canonical(g) /\ g \in ComputedBy(s)
  <2>1. KeyColumn(g, below) = Column(ExprToString(g), InferExprType(g, below), 0, Canonical(g))
    BY <1>3, <1>11 DEF KeyColumn
  <2> QED
    BY <1>11, <2>1, ColumnFields, ComputedFacts
<1>12. ASSUME NEW spec \in Elements(ExtractAggregates(st))
       PROVE  /\ AggregateColumn(spec, below).name = ExprToString(spec.expr)
              /\ AggregateColumn(spec, below).of = Canonical(spec.expr) /\ spec.expr \in ComputedBy(s)
  <2> DEFINE e == spec.expr
             type == IF e.args = << >> THEN "INT" ELSE InferExprType(e.args[1], below)
             result == AggregateResultType(e.op, type)
             own == WithArgs(e, [k \in DOMAIN e.args |-> Restored(e.args[k], below)])
             c == Column(AggregateOutputName(e), result, 0, own)
  <2>1. AggregateColumn(spec, below) = [c EXCEPT !.hidden = spec.hidden]
    BY Zenon DEF AggregateColumn
  <2>2. own = Canonical(e) /\ e \in ComputedBy(s)
    BY <1>7, <1>8
  <2> HIDE DEF result, own
  <2>3. [c EXCEPT !.hidden = spec.hidden].name = AggregateOutputName(e) /\ [c EXCEPT !.hidden = spec.hidden].of = own
    BY ColumnFields
  <2> QED
    BY <2>1, <2>2, <2>3, Zenon DEF AggregateOutputName
<1>13. \A c \in Elements(schema) :
          \/ TableColumn(c, Tables(s))
          \/ \E e \in ComputedBy(s) : c.name = ExprToString(e) /\ c.of = Canonical(e)
  BY <1>9, <1>10, <1>11, <1>12
<1>14. \A g \in Elements(s.group_by) :
          IF g.kind = "ColumnRef"
          THEN \E c \in Elements(schema) : c.name = g.payload.column_name /\ c.relation_slot = g.payload.relation_slot
          ELSE \E c \in Elements(schema) : c.name = ExprToString(g)
  <2>1. \A g \in Elements(s.group_by) : KeyColumn(g, below) \in Elements(schema)
    BY <1>9
  <2> QED
    BY <1>10, <1>11, <2>1
<1>15. \A a \in Elements(all) : \E c \in Elements(schema) : c.name = ExprToString(a)
  <2>1. \A spec \in Elements(ExtractAggregates(st)) : AggregateColumn(spec, below) \in Elements(schema)
    BY <1>9
  <2> QED
    BY <1>8, <1>12, <2>1
<1> QED
  BY <1>6, <1>9, <1>13, <1>14, <1>15 DEF schema, all, below, st

-----------------------------------------------------------------------------
(* Above the aggregation.                                                  *)

(* A part of what is selected that prints like a key, with the types of    *)
(* its literals, is that key.                                              *)
KeysTellApart(s) ==
    \A g \in Elements(s.group_by) : g.kind # "ColumnRef" =>
        \A n \in DOMAIN Roots(s) : Roots(s)[n] # Nothing =>
            \A x \in Nodes(Roots(s)[n]) : ExprKey(x) = ExprKey(g) => Canonical(x) = Canonical(g)

LEMMA GroupedStep ==
    ASSUME NEW kinds, NEW e, IsExpr(e, kinds), NEW keys
    PROVE  CheckGroupedRefs(e, keys) <=>
             \/ e.kind = "AggregateExpr"
             \/ \E n \in DOMAIN keys : keys[n].kind # "ColumnRef" /\ ExprKey(keys[n]) = ExprKey(e)
             \/ /\ e.kind = "ColumnRef"
                /\ \E n \in DOMAIN keys : keys[n].kind = "ColumnRef" /\ SameColumn(e.payload, keys[n].payload)
             \/ /\ e.kind # "ColumnRef"
                /\ \A n \in DOMAIN keys : keys[n].kind # "ColumnRef" => ExprToString(keys[n]) # ExprToString(e)
                /\ \A k \in DOMAIN e.args : CheckGroupedRefs(e.args[k], keys)
<1> DEFINE results == [k \in DOMAIN e.args |-> CheckGroupedRefs(e.args[k], keys)]
<1>1. CheckGroupedRefs(e, keys) = GroupedNode(keys, e, results)
  BY ChildrenNodes, LeastNat, GroupedWalk!FoldStep DEF CheckGroupedRefs, GroupedWalk!WellOrdered
<1>2. \A k \in DOMAIN e.args : results[k] = CheckGroupedRefs(e.args[k], keys)
  OBVIOUS
<1> HIDE DEF results
<1>3. (\A k \in DOMAIN e.args : results[k]) <=> (\A k \in DOMAIN e.args : CheckGroupedRefs(e.args[k], keys))
  BY <1>2, Zenon
<1> QED
  BY <1>1, <1>3, Zenon DEF GroupedNode

(* What is computed under a name is found under it.                        *)
LEMMA LookUp ==
    ASSUME NEW s, Distinguishable(s), NEW schema, IsSeq(schema),
           \A c \in Elements(schema) :
              \/ TableColumn(c, Tables(s))
              \/ \E e \in ComputedBy(s) : c.name = ExprToString(e) /\ c.of = Canonical(e),
           NEW e \in ComputedBy(s), \E c \in Elements(schema) : c.name = ExprToString(e)
    PROVE  LET k == IndexOf(schema, ExprToString(e)) IN k # 0 /\ schema[k].of = Canonical(e)
<1> DEFINE k == IndexOf(schema, ExprToString(e))
<1>1. \E n \in DOMAIN schema : schema[n].name = ExprToString(e)
  BY DEF Elements
<1>2. k # 0 /\ k \in DOMAIN schema /\ schema[k].name = ExprToString(e)
  BY <1>1, IndexFacts
<1> HIDE DEF k
<1>3. schema[k] \in Elements(schema)
  BY <1>2 DEF Elements
<1>4. ~ TableColumn(schema[k], Tables(s))
  BY <1>2, DistinguishableFacts
<1>5. PICK d \in ComputedBy(s) : schema[k].name = ExprToString(d) /\ schema[k].of = Canonical(d)
  BY <1>3, <1>4
<1>6. Canonical(d) = Canonical(e)
  BY <1>2, <1>5, DistinguishableFacts
<1> QED
  BY <1>2, <1>5, <1>6 DEF k

(* A column that is grouped is read from the column of its key.            *)
LEMMA GroupedColumn ==
    ASSUME NEW s, Resolved(s), Validate(s), Distinguishable(s), NEW schema, IsSeq(schema),
           \A c \in Elements(schema) :
              \/ TableColumn(c, Tables(s))
              \/ \E e \in ComputedBy(s) : c.name = ExprToString(e) /\ c.of = Canonical(e),
           NEW g \in Elements(s.group_by), g.kind = "ColumnRef",
           \E c \in Elements(schema) : c.name = g.payload.column_name /\ c.relation_slot = g.payload.relation_slot,
           NEW x, IsExpr(x, ParsedKinds), x.kind = "ColumnRef", Settled(x, Tables(s)), SameColumn(x.payload, g.payload)
    PROVE  Restored(x, schema) = Canonical(x)
<1> DEFINE name == x.payload.column_name
           slot == x.payload.relation_slot
           table == Tables(s)[g.payload.relation_slot + 1].table_name
<1>1. /\ g.payload.relation_slot \in {0, 1} /\ g.payload.relation_slot + 1 \in DOMAIN Tables(s)
      /\ HasColumn(table, g.payload.column_name)
  BY PlainKey
<1>2. name = g.payload.column_name
  BY DEF SameColumn
<1>3. HavingTables(x, Tables(s)) # {}
  BY <1>1, <1>2 DEF HavingTables
<1>4. slot + 1 \in DOMAIN Tables(s)
  BY <1>3 DEF Settled
<1>5. slot # NoSlot /\ slot \in {0, 1}
  <2>1. DOMAIN Tables(s) \subseteq {1, 2}
    BY TablesFacts, SeqFacts DEF AreTables, Resolved
  <2>2. slot \in {-1, 0, 1}
    BY ExprElim DEF WellFormed, IsPayload, NoSlot
  <2> QED
    BY <1>4, <2>1, <2>2 DEF NoSlot
<1>6. slot = g.payload.relation_slot
  BY <1>1, <1>5 DEF SameColumn, NoSlot
<1>7. \E n \in DOMAIN schema : schema[n].name = name /\ schema[n].relation_slot = slot
  BY <1>2, <1>6 DEF Elements
<1>8. ASSUME NEW n \in DOMAIN schema, schema[n].name = name, schema[n].relation_slot = slot
      PROVE  schema[n].of = SlotColumn(name, slot)
  <2>1. \A e \in ComputedBy(s) : schema[n].name # ExprToString(e)
    BY <1>1, <1>2, <1>8, DistinguishableFacts
  <2>2. TableColumn(schema[n], Tables(s))
    BY <2>1 DEF Elements
  <2> QED
    BY <1>8, <2>2 DEF TableColumn
<1> QED
  BY <1>5, <1>7, <1>8, ColumnRestored

LEMMA GroupedReads ==
    ASSUME NEW s, Resolved(s), TablesExist(s), Validate(s), Distinguishable(s), KeysTellApart(s), Groups(s),
           NEW n \in DOMAIN Roots(s), Roots(s)[n] # Nothing, CheckGroupedRefs(Roots(s)[n], s.group_by)
    PROVE  Restored(Roots(BuildPlan(s).stmt)[n], BuildPlan(s).schema) = Canonical(Roots(s)[n])
<1> DEFINE st == SubstituteGroupKeyRefs(s)
           schema == BuildAggregateSchema(st, InputSchema(st))
           all == Aggregates(Roots(st))
           keys == ComputedKeys(s)
           root == Roots(s)[n]
           sub(x) == SubstituteInto(x, keys)
           Here(x) == /\ CheckGroupedRefs(x, s.group_by)
                      /\ Elements(CollectAggregates(sub(x))) \subseteq Elements(all)
                      => Restored(sub(x), schema) = Canonical(x)
           T == {x \in Nodes(root) : Here(x)}
<1>1. IsStatement(s, ParsedKinds) /\ SettledStatement(s) /\ IsSeq(s.group_by)
  BY DEF Resolved, IsStatement
<1>2. /\ IsStatement(st, ParsedKinds) /\ st.group_by = s.group_by
      /\ n \in DOMAIN Roots(st) /\ Roots(st)[n] = sub(root)
  BY <1>1, SubstitutedStatement
<1>3. IsExpr(root, ParsedKinds) /\ root \in ExpressionsOf(s)
  BY <1>1, RootsFacts
<1>4. /\ IsSeq(schema) /\ IsSeq(all)
      /\ \A c \in Elements(schema) :
            \/ TableColumn(c, Tables(s))
            \/ \E e \in ComputedBy(s) : c.name = ExprToString(e) /\ c.of = Canonical(e)
      /\ \A g \in Elements(s.group_by) :
            IF g.kind = "ColumnRef"
            THEN \E c \in Elements(schema) : c.name = g.payload.column_name /\ c.relation_slot = g.payload.relation_slot
            ELSE \E c \in Elements(schema) : c.name = ExprToString(g)
      /\ \A a \in Elements(all) : \E c \in Elements(schema) : c.name = ExprToString(a)
  BY AggregateColumns
<1>5. BuildPlan(s).stmt = st /\ BuildPlan(s).schema = schema
  <2>1. Groups(st)
    <3>1. CASE s.group_by = << >>
      BY <1>1, <3>1, SubstitutedPlain
    <3>2. CASE s.group_by # << >>
      BY <1>2, <3>2 DEF Groups
    <3> QED
      BY <3>1, <3>2
  <2> QED
    BY <2>1, PlanIs
<1>6. IsSeq(keys) /\ Elements(keys) = {g \in Elements(s.group_by) : g.kind # "ColumnRef"}
  BY <1>1, ComputedKeysFacts
<1> HIDE DEF st, schema, all, keys
<1>7. \A c \in ComputedBy(s) : (\E d \in Elements(schema) : d.name = ExprToString(c)) =>
         LET k == IndexOf(schema, ExprToString(c)) IN k # 0 /\ schema[k].of = Canonical(c)
  BY <1>4, LookUp
<1>8. \A x \in Nodes(root) : x.kind = "AggregateExpr" => x \in ComputedBy(s)
  BY ComputedFacts
<1>9. \A g \in Elements(keys) : \A x \in Nodes(root) : ExprKey(x) = ExprKey(g) => Canonical(x) = Canonical(g)
  BY <1>6 DEF KeysTellApart
<1>10. \A x \in Columns(root) : Settled(x, Tables(s))
  BY <1>1, <1>3 DEF SettledStatement
<1> HIDE DEF root
<1>11. ASSUME NEW x \in Nodes(root), IsExpr(x, ParsedKinds), \A k \in DOMAIN x.args : x.args[k] \in T
       PROVE  Here(x)
  <2> SUFFICES ASSUME CheckGroupedRefs(x, s.group_by), Elements(CollectAggregates(sub(x))) \subseteq Elements(all)
               PROVE  Restored(sub(x), schema) = Canonical(x)
    OBVIOUS
  <2> DEFINE same == {m \in DOMAIN keys : ExprKey(keys[m]) = ExprKey(x)}
             args == [k \in DOMAIN x.args |-> sub(x.args[k])]
  <2>1. sub(x) = IF x.kind \in {"AggregateExpr", "ColumnRef", "Literal"} THEN x
                 ELSE IF same # {} THEN ColumnRef(NoName, ExprToString(keys[First(same)]))
                 ELSE WithArgs(x, args)
    BY <1>11, SubstituteStep
  <2>2. /\ args = [k \in DOMAIN x.args |-> args[k]] /\ DOMAIN args = DOMAIN x.args
        /\ \A k \in DOMAIN x.args : args[k] = sub(x.args[k])
    OBVIOUS
  <2>3. \A k \in DOMAIN x.args : Here(x.args[k])
    BY <1>11
  <2>4. \A k \in DOMAIN x.args : IsExpr(x.args[k], ParsedKinds) /\ IsExpr(sub(x.args[k]), ParsedKinds)
    <3>1. \A k \in DOMAIN x.args : IsExpr(x.args[k], ParsedKinds)
      BY <1>11, ExprElim
    <3> QED
      BY <3>1, SubstituteFacts
  <2> HIDE DEF sub, same, args, T
  <2>5. CASE x.kind = "AggregateExpr"
    <3>1. sub(x) = x /\ x \in ComputedBy(s)
      BY <1>8, <2>1, <2>5
    <3>2. CollectAggregates(x) = <<x>>
      BY <1>11, <2>5, AggregatesStep
    <3>3. x \in Elements(all)
      BY <3>1, <3>2, SingleSeq
    <3>4. \E c \in Elements(schema) : c.name = ExprToString(x)
      BY <1>4, <3>3
    <3>5. IndexOf(schema, ExprToString(x)) # 0 /\ schema[IndexOf(schema, ExprToString(x))].of = Canonical(x)
      BY <1>7, <3>1, <3>4
    <3>6. IndexRead(x, schema) = IndexOf(schema, ExprToString(x))
      BY <2>5 DEF IndexRead, AggregateOutputName
    <3> QED
      BY <1>11, <2>5, <3>1, <3>5, <3>6, RestoredStep
  <2>6. CASE x.kind = "ColumnRef"
    <3>1. sub(x) = x
      BY <2>1, <2>6
    <3>2. ASSUME NEW m \in DOMAIN s.group_by, s.group_by[m].kind # "ColumnRef", ExprKey(s.group_by[m]) = ExprKey(x)
          PROVE  FALSE
      <4>1. s.group_by[m] \in Elements(keys) /\ IsExpr(s.group_by[m], ParsedKinds)
        BY <1>1, <1>6, <3>2 DEF IsStatement, Elements
      <4>2. Canonical(x) = Canonical(s.group_by[m])
        BY <1>9, <3>2, <4>1
      <4> QED
        BY <1>11, <2>6, <3>2, <4>1, <4>2, CanonicalKind
    <3>3. PICK m \in DOMAIN s.group_by : s.group_by[m].kind = "ColumnRef" /\ SameColumn(x.payload, s.group_by[m].payload)
      BY <1>11, <2>6, <3>2, GroupedStep
    <3> DEFINE g == s.group_by[m]
    <3>4. g \in Elements(s.group_by) /\ g.kind = "ColumnRef" /\ SameColumn(x.payload, g.payload)
      BY <3>3 DEF Elements
    <3> HIDE DEF g
    <3>5. Settled(x, Tables(s))
      BY <1>10, <2>6 DEF Columns
    <3>6. \E c \in Elements(schema) : c.name = g.payload.column_name /\ c.relation_slot = g.payload.relation_slot
      BY <1>4, <3>4
    <3>7. Restored(x, schema) = Canonical(x)
      BY <1>4, <1>11, <2>6, <3>4, <3>5, <3>6, GroupedColumn
    <3> QED
      BY <3>1, <3>7
  <2>7. CASE x.kind = "Literal"
    <3>1. sub(x) = x
      BY <2>1, <2>7
    <3>2. x.args = << >>
      BY <1>11, <2>7, ExprElim, ArgsCount
    <3>3. /\ Restored(x, schema) = WithArgs(x, [k \in DOMAIN x.args |-> Restored(x.args[k], schema)])
          /\ Canonical(x) = WithArgs(x, [k \in DOMAIN x.args |-> Canonical(x.args[k])])
      BY <1>11, <2>7, RestoredStep, CanonicalStep
    <3>4. [k \in DOMAIN x.args |-> Restored(x.args[k], schema)] = [k \in DOMAIN x.args |-> Canonical(x.args[k])]
      BY <3>2
    <3> QED
      BY <3>1, <3>3, <3>4
  <2>8. CASE x.kind \notin {"AggregateExpr", "ColumnRef", "Literal"} /\ same # {}
    <3> DEFINE m == First(same)
               g == keys[m]
               c == ColumnRef(NoName, ExprToString(g))
    <3>1. m \in same
      <4>1. same \in SUBSET (Nat \ {0})
        BY <1>6, SeqFacts DEF same
      <4> QED
        BY <2>8, <4>1, FirstFacts
    <3>2. g \in Elements(keys) /\ ExprKey(x) = ExprKey(g)
      BY <3>1 DEF same, Elements
    <3>3. sub(x) = c
      BY <2>1, <2>8
    <3>4. /\ IsExpr(c, ParsedKinds) /\ c.kind = "ColumnRef" /\ c.payload.relation_slot = NoSlot
          /\ c.payload.column_name = ExprToString(g)
      BY ColumnIs DEF ColumnRef, Node
    <3> HIDE DEF m, g, c
    <3>5. g \in Elements(s.group_by) /\ g.kind # "ColumnRef"
      BY <1>6, <3>2
    <3>6. g \in ComputedBy(s) /\ \E d \in Elements(schema) : d.name = ExprToString(g)
      BY <1>4, <3>5, ComputedFacts
    <3>7. IndexOf(schema, ExprToString(g)) # 0 /\ schema[IndexOf(schema, ExprToString(g))].of = Canonical(g)
      BY <1>7, <3>6
    <3>8. IndexRead(c, schema) = IndexOf(schema, ExprToString(g))
      BY <3>4 DEF IndexRead, ResolveColumnIndex
    <3>9. Restored(c, schema) = Canonical(g)
      BY <3>4, <3>7, <3>8, RestoredStep
    <3>10. Canonical(x) = Canonical(g)
      BY <1>9, <3>2
    <3> QED
      BY <3>3, <3>9, <3>10
  <2>9. CASE x.kind \notin {"AggregateExpr", "ColumnRef", "Literal"} /\ same = {}
    <3> DEFINE r == WithArgs(x, args)
               parts == [k \in DOMAIN args |-> CollectAggregates(args[k])]
    <3>1. sub(x) = r /\ x.kind \in ParsedKinds
      BY <1>11, <2>1, <2>9, ExprElim DEF WellFormed
    <3>2. IsExpr(r, ParsedKinds) /\ r.kind = x.kind /\ r.args = args /\ r.op = x.op /\ r.payload = x.payload
      BY <1>11, <2>2, <2>4, <3>1, RewrittenExpr
    <3>3. \A others : WithArgs(r, others) = WithArgs(x, others)
      BY <3>2 DEF WithArgs
    <3> HIDE DEF r
    <3>4. ASSUME NEW k \in DOMAIN s.group_by, s.group_by[k].kind # "ColumnRef"
          PROVE  ExprKey(s.group_by[k]) # ExprKey(x)
      <4>1. s.group_by[k] \in Elements(keys)
        BY <1>6, <3>4 DEF Elements
      <4>2. PICK m \in DOMAIN keys : keys[m] = s.group_by[k]
        BY <4>1 DEF Elements
      <4> QED
        BY <2>9, <4>2 DEF same
    <3>5. \A k \in DOMAIN x.args : CheckGroupedRefs(x.args[k], s.group_by)
      BY <1>11, <2>9, <3>4, GroupedStep
    <3>6. CollectAggregates(r) = Join(parts)
      BY <2>9, <3>2, AggregatesStep
    <3>7. /\ parts = [k \in DOMAIN args |-> parts[k]] /\ DOMAIN parts = DOMAIN x.args
          /\ \A k \in DOMAIN x.args : parts[k] = CollectAggregates(sub(x.args[k]))
      BY <2>2
    <3> HIDE DEF parts
    <3>8. IsSeq(parts) /\ \A k \in DOMAIN parts : IsSeq(parts[k])
      <4>1. IsSeq(args)
        BY <3>2, ExprElim DEF WellFormed
      <4>2. IsSeq(parts)
        BY <3>7, <4>1, MappedSeq
      <4>3. \A k \in DOMAIN x.args : IsSeq(CollectAggregates(sub(x.args[k])))
        BY <2>4, AggregatesFacts
      <4> QED
        BY <3>7, <4>2, <4>3
    <3>9. Elements(Join(parts)) = UNION {Elements(parts[k]) : k \in DOMAIN parts}
      BY <3>8, JoinFacts
    <3>10. \A k \in DOMAIN x.args : Elements(CollectAggregates(sub(x.args[k]))) \subseteq Elements(all)
      BY <3>1, <3>6, <3>7, <3>9
    <3>11. \A k \in DOMAIN x.args : Restored(args[k], schema) = Canonical(x.args[k])
      BY <2>2, <2>3, <3>5, <3>10
    <3>12. Restored(r, schema) = WithArgs(x, [k \in DOMAIN x.args |-> Restored(args[k], schema)])
      <4>1. Restored(r, schema) = WithArgs(r, [k \in DOMAIN r.args |-> Restored(r.args[k], schema)])
        BY <2>9, <3>2, RestoredStep
      <4>2. [k \in DOMAIN r.args |-> Restored(r.args[k], schema)] = [k \in DOMAIN x.args |-> Restored(args[k], schema)]
        BY <2>2, <3>2
      <4> QED
        BY <3>3, <4>1, <4>2
    <3>13. Canonical(x) = WithArgs(x, [k \in DOMAIN x.args |-> Canonical(x.args[k])])
      BY <1>11, <2>9, CanonicalStep
    <3>14. [k \in DOMAIN x.args |-> Restored(args[k], schema)] = [k \in DOMAIN x.args |-> Canonical(x.args[k])]
      BY <3>11
    <3> QED
      BY <3>1, <3>12, <3>13, <3>14
  <2> QED
    BY <2>5, <2>6, <2>7, <2>8, <2>9
<1> HIDE DEF Here
<1>12. root \in T
  <2>1. \A x \in Nodes(root) : IsExpr(x, ParsedKinds) /\ (\A k \in DOMAIN x.args : x.args[k] \in T) => x \in T
    BY <1>11
  <2> HIDE DEF T
  <2> QED
    BY <1>3, <2>1, ExprInduction
<1>13. Elements(CollectAggregates(sub(root))) \subseteq Elements(all)
  <2>1. IsSeq(Roots(st)) /\ \A m \in DOMAIN Roots(st) : Roots(st)[m] = Nothing \/ IsExpr(Roots(st)[m], ParsedKinds)
    BY <1>2, RootsFacts
  <2>2. Elements(all) = UNION {Elements(CollectAggregates(Roots(st)[m])) : m \in DOMAIN Roots(st)}
    BY <2>1, AggregatesOf DEF all
  <2> HIDE DEF sub
  <2> QED
    BY <1>2, <2>2
<1>14. Restored(sub(root), schema) = Canonical(root)
  <2>1. CheckGroupedRefs(root, s.group_by)
    BY DEF root
  <2> QED
    BY <1>12, <1>13, <2>1 DEF T, Here
<1> QED
  BY <1>2, <1>5, <1>14 DEF root

(* Without groups, what SELECT and ORDER BY read is the column of a table  *)
(* that they name, on either side of a join.                               *)
THEOREM UngroupedInvariance == Spec => [](stage = "planned" /\ ~ Groups(bound) => ReadsEach)
<1>1. StatementInv => (stage = "planned" /\ ~ Groups(bound) => ReadsEach)
  BY UngroupedReads DEF StatementInv, StageInv, PlannedInv, ReadsEach
<1> QED
  BY <1>1, StatementInvariance, PTL

(* What SELECT, HAVING and ORDER BY read is the column that was computed   *)
(* from the expression they name, if parts that print alike are the same.  *)
THEOREM NamesInvariance == Spec => [](KeysTellApart(bound) => ReadsWhatItNames)
<1>1. StatementInv => (KeysTellApart(bound) => ReadsWhatItNames)
  <2> SUFFICES ASSUME StatementInv, KeysTellApart(bound), stage = "planned", Distinguishable(bound), Grouped(bound),
                      NEW n \in DOMAIN Roots(bound), Roots(bound)[n] # Nothing
               PROVE  Restored(Roots(plan.stmt)[n], plan.schema) = Canonical(Roots(bound)[n])
    BY DEF ReadsWhatItNames, ReadsEach
  <2>1. Resolved(bound) /\ TablesExist(bound) /\ Validate(bound) /\ plan = BuildPlan(bound)
    BY DEF StatementInv, StageInv, PlannedInv
  <2>2. CASE Groups(bound)
    BY <2>1, <2>2, GroupedReads DEF Grouped
  <2>3. CASE ~ Groups(bound)
    BY <2>1, <2>3, UngroupedReads
  <2> QED
    BY <2>2, <2>3
<1> QED
  BY <1>1, StatementInvariance, PTL
=============================================================================
