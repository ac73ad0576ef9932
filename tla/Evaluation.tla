----------------------------- MODULE Evaluation -----------------------------
(***************************************************************************)
(* Values of every type, and the scalar evaluator over them (value.cc,     *)
(* evaluator.cc): what an expression is on one row, given the schema the   *)
(* row has; and the type planning infers for it (logical_plan.cc).         *)
(*                                                                         *)
(* A DOUBLE is the rational number it stands for; rounding is left out.    *)
(* A column of a schema is [name, type, relation_slot, hidden, of]; "of"   *)
(* is no part of the code: it is the expression whose values the column    *)
(* holds.                                                                  *)
(***************************************************************************)
EXTENDS Syntax

NullValue   == [type |-> "NULL"]
Raise(why)  == [type |-> "RAISED", why |-> why]
Raises(v)   == v.type = "RAISED"
IsNull(v)   == v.type = "NULL"
Truth(b)    == IntValue(IF b THEN 1 ELSE 0)

-----------------------------------------------------------------------------
(* Numbers.                                                                *)

Abs(n) == IF n < 0 THEN - n ELSE n

(* checked_arith.h: a result that does not fit raises.                     *)
Checked(n) == IF n \in MinInt .. MaxInt THEN IntValue(n) ELSE Raise("overflow")

(* Division of integers truncates towards zero.                            *)
Quotient(l, r) == LET q == Abs(l) \div Abs(r) IN IF (l < 0) = (r < 0) THEN q ELSE - q

Rational(n, d) ==
    LET gcd[a, b \in Nat] == IF b = 0 THEN a ELSE gcd[b, a % b]
        g == gcd[Abs(n), Abs(d)]
    IN  DoubleValue((IF d < 0 THEN - n ELSE n) \div g, Abs(d) \div g)

(* + - * / on two values that are not NULL; a division by zero is NULL.    *)
Arithmetic(op, l, r) ==
    IF "STRING" \in {l.type, r.type} THEN Raise("type")
    ELSE IF op = "/" /\ r.num = 0 THEN NullValue
    ELSE IF l.type = "INT" /\ r.type = "INT"
    THEN Checked(CASE op = "+" -> l.num + r.num
                   [] op = "-" -> l.num - r.num
                   [] op = "*" -> l.num * r.num
                   [] op = "/" -> Quotient(l.num, r.num))
    ELSE CASE op = "+" -> Rational(l.num * r.den + r.num * l.den, l.den * r.den)
           [] op = "-" -> Rational(l.num * r.den - r.num * l.den, l.den * r.den)
           [] op = "*" -> Rational(l.num * r.num, l.den * r.den)
           [] op = "/" -> Rational(l.num * r.den, l.den * r.num)

Negated(v) ==
    CASE v.type \in {"NULL", "RAISED"} -> v
      [] v.type = "STRING" -> Raise("type")
      [] v.type = "INT"    -> Checked(- v.num)
      [] v.type = "DOUBLE" -> [v EXCEPT !.num = - @]

-----------------------------------------------------------------------------
(* Texts.                                                                  *)

Alphabet == <<"%", "A", "B", "_", "a", "b">>   \* in the order of their codes

Code(letter) == CHOOSE n \in DOMAIN Alphabet : Alphabet[n] = letter

(* What decides the order of a text: of a date, year, month and day.       *)
Codes(v) ==
    IF "date" \in DOMAIN v THEN <<v.date.y, v.date.m, v.date.d>>
    ELSE [n \in DOMAIN v.word |-> Code(v.word[n])]

Before(s, t) ==
    \E n \in 0 .. Len(s) :
        /\ n < Len(t) /\ SubSeq(s, 1, n) = SubSeq(t, 1, n)
        /\ n < Len(s) => s[n + 1] < t[n + 1]

(* ASCII letters match in either case.                                     *)
Fold(letter) == CASE letter = "A" -> "a" [] letter = "B" -> "b" [] OTHER -> letter

(* likeMatch, its loop: how far text and pattern are matched, and where to *)
(* resume when the match fails, after the last % seen; star_p = 0: none.   *)
LikeMatch(text, pattern) ==
    LET from[t, p \in Nat, star_p, star_t \in Nat] ==
          IF t > Len(text) THEN \A n \in p .. Len(pattern) : pattern[n] = "%"
          ELSE IF p <= Len(pattern) /\ (pattern[p] = "_" \/ Fold(pattern[p]) = Fold(text[t]))
          THEN from[t + 1, p + 1, star_p, star_t]
          ELSE IF p <= Len(pattern) /\ pattern[p] = "%"
          THEN from[t, p + 1, p, t]
          ELSE IF star_p # 0
          THEN from[star_t + 1, star_p + 1, star_p, star_t + 1]
          ELSE FALSE
    IN  from[1, 1, 0, 0]

(* substringOf: positions count from 1; length is Nothing when omitted.    *)
SubstringOf(s, start, length) ==
    IF start < 1 THEN Raise("start")
    ELSE IF length # Nothing /\ length.num < 0 THEN Raise("length")
    ELSE WordValue([n \in 1 .. (IF start > Len(s) THEN 0
                                ELSE IF length # Nothing /\ length.num < Len(s) - start + 1
                                THEN length.num ELSE Len(s) - start + 1)
                        |-> s[start - 1 + n]])

-----------------------------------------------------------------------------
(* Comparison and logic.                                                   *)

(* Whether l is less than r: numbers of any type, or two texts.            *)
Less(l, r) ==
    IF l.type = "STRING" THEN Before(Codes(l), Codes(r)) ELSE l.num * r.den < r.num * l.den

(* NUMERIC_COERCE: a text is not compared with a number.                   *)
Compared(op, l, r) ==
    IF (l.type = "STRING") # (r.type = "STRING") THEN Raise("type")
    ELSE Truth(CASE op = "="  -> ~ Less(l, r) /\ ~ Less(r, l)
                 [] op = "!=" -> Less(l, r) \/ Less(r, l)
                 [] op = "<"  -> Less(l, r)
                 [] op = ">"  -> Less(r, l)
                 [] op = "<=" -> ~ Less(r, l)
                 [] op = ">=" -> ~ Less(l, r))

(* AND and OR, decided by one operand when that operand suffices.          *)
Logical(op, l, r) ==
    LET decides(v) == ~ IsNull(v) /\ (v.num # 0) = (op = "OR")
    IN  IF {l.type, r.type} \cap {"STRING", "DOUBLE"} # {} THEN Raise("type")
        ELSE IF decides(l) \/ decides(r) THEN Truth(op = "OR")
        ELSE IF IsNull(l) \/ IsNull(r) THEN NullValue
        ELSE Truth(op = "AND")

(* Both operands are evaluated, the left one first.                        *)
Binary(op, l, r) ==
    CASE Raises(l) -> l
      [] ~ Raises(l) /\ Raises(r) -> r
      [] OTHER -> IF op \in {"AND", "OR"} THEN Logical(op, l, r)
                  ELSE IF IsNull(l) \/ IsNull(r) THEN NullValue
                  ELSE IF op \in CompareOps THEN Compared(op, l, r)
                  ELSE Arithmetic(op, l, r)

Not(v) == IF v.type = "INT" THEN Truth(v.num = 0) ELSE v

(* v IN values: the first value that is equal, or not comparable, decides. *)
Among(v, values) ==
    LET decides(n) == Compared("=", v, values[n]) # Truth(FALSE)
    IN  IF v.type \in {"NULL", "RAISED"} THEN v
        ELSE IF \A n \in DOMAIN values : ~ decides(n) THEN Truth(FALSE)
        ELSE Compared("=", v, values[CHOOSE n \in DOMAIN values :
                                        decides(n) /\ \A k \in 1 .. n - 1 : ~ decides(k)])

Like(v, pattern) ==
    CASE v.type \in {"NULL", "RAISED"} -> v
      [] v.type = "STRING" -> Truth(LikeMatch(v.word, pattern.word))
      [] OTHER -> Raise("type")

Substring(s, start, length) ==
    LET args == IF length = Nothing THEN <<s, start>> ELSE <<s, start, length>>
        raised == {n \in DOMAIN args : Raises(args[n])}
    IN  IF raised # {} THEN args[CHOOSE n \in raised : \A k \in raised : n <= k]
        ELSE IF \E n \in DOMAIN args : IsNull(args[n]) THEN NullValue
        ELSE IF s.type # "STRING" \/ \E n \in DOMAIN args \ {1} : args[n].type # "INT"
        THEN Raise("type")
        ELSE SubstringOf(s.word, start.num, length)

-----------------------------------------------------------------------------
(* Columns.                                                                *)

Column(name, type, slot, of) ==
    [name |-> name, type |-> type, relation_slot |-> slot, hidden |-> FALSE, of |-> of]

(* indexOf: the first of these columns; 0 if there is none.                *)
First(columns) == IF columns = {} THEN 0 ELSE CHOOSE n \in columns : \A k \in columns : n <= k

IndexOf(schema, name) == First({n \in DOMAIN schema : schema[n].name = name})

IndexOfSlot(schema, name, slot) ==
    First({n \in DOMAIN schema : schema[n].name = name /\ schema[n].relation_slot = slot})

(* Wrong variant: the side of a join is not looked at.                     *)
ResolveColumnIndexByName(c, schema) == IndexOf(schema, c.column_name)

(* By slot and name, and by the bare name when there is no such column.    *)
ResolveColumnIndex(c, schema) ==
    LET slotted == IndexOfSlot(schema, c.column_name, c.relation_slot)
    IN  IF c.relation_slot # NoSlot /\ slotted # 0 THEN slotted ELSE IndexOf(schema, c.column_name)

(* The column an expression is read from: 0 if there is none.              *)
IndexRead(e, schema) ==
    IF e.kind = "ColumnRef" THEN ResolveColumnIndex(e.payload, schema)
    ELSE IndexOf(schema, AggregateOutputName(e))

-----------------------------------------------------------------------------
(* CASE: what its first condition that is neither false nor NULL decides;  *)
(* a branch that is not taken does not matter, even if it raises.          *)
CaseValue(e, value) ==
    LET conditions == {n \in DOMAIN e.args : n % 2 = 1 /\ n < Len(e.args)}
        stops == {n \in conditions : ~ IsNull(value[n]) /\ value[n] # Truth(FALSE)}
        first == First(stops)
    IN  IF stops = {} THEN IF Len(e.args) % 2 = 1 THEN value[Len(e.args)] ELSE NullValue
        ELSE IF Raises(value[first]) THEN value[first]
        ELSE IF value[first].type \in {"STRING", "DOUBLE"} THEN Raise("type")
        ELSE value[first + 1]

(* The value of an expression on a row, from those of its parts.           *)
EvaluateNode(on, e, value) ==
    LET maybeNot(v) == IF e.op \in {"NOT IN", "NOT LIKE"} THEN Not(v) ELSE v
    IN  CASE e.kind = "Literal" -> e.payload
          [] e.kind \in {"ColumnRef", "AggregateExpr"} ->
               LET n == IndexRead(e, on.schema) IN IF n = 0 THEN Raise("column") ELSE on.row[n]
          [] e.kind = "BinaryExpr" -> LET l == value[1]
                                          r == value[2]
                                      IN  Binary(e.op, l, r)
          [] e.kind = "UnaryExpr"  -> LET v == value[1] IN Negated(v)
          [] e.kind = "IsNullExpr" ->
               LET v == value[1] IN IF Raises(v) THEN v ELSE Truth(IsNull(v) = (e.op = "IS NULL"))
          [] e.kind = "InExpr"     -> LET v == value[1] IN maybeNot(Among(v, e.payload.values))
          [] e.kind = "LikeExpr"   -> LET v == value[1] IN maybeNot(Like(v, e.payload))
          [] e.kind = "CaseExpr"   -> CaseValue(e, value)
          [] e.kind = "SubstringExpr" ->
               Substring(value[1], value[2], IF Len(e.args) = 3 THEN value[3] ELSE Nothing)
          [] e.kind = "IntervalLiteral" -> Raise("interval")

EvaluateWalk == INSTANCE TreeFold WITH Step <- EvaluateNode
Evaluate(e, row, schema) == EvaluateWalk!Fold([row |-> row, schema |-> schema], e)

-----------------------------------------------------------------------------
(* Types.                                                                  *)

IllTyped == "ERROR"

AggregateResultType(function, argument) ==
    CASE function = "COUNT" -> "INT" [] function \in {"MIN", "MAX"} -> argument [] OTHER -> "DOUBLE"

(* Any DOUBLE promotes.                                                    *)
Promoted(types) == IF "DOUBLE" \in types THEN "DOUBLE" ELSE "INT"

(* Wrong variant: one text makes all branches texts.                       *)
UnifiedLoosely(types) == IF "STRING" \in types THEN "STRING" ELSE Promoted(types)

(* The type of branches that are all numbers or all texts.                 *)
Unified(types) ==
    IF types = {"STRING"} THEN "STRING" ELSE IF "STRING" \in types THEN IllTyped ELSE Promoted(types)

(* The type of an expression, from those of its parts.                     *)
InferNode(schema, e, type) ==
    LET types == {type[n] : n \in DOMAIN e.args}
        if(well, t) == IF well THEN t ELSE IllTyped
        tooSmall(n, least) ==
            n \in DOMAIN e.args /\ e.args[n].kind = "Literal" /\ e.args[n].payload.num < least
        read  == IF e.kind \in {"ColumnRef", "AggregateExpr"} THEN IndexRead(e, schema) ELSE 0
    IN  IF e.kind = "Literal" THEN e.payload.type
        ELSE IF e.kind = "IsNullExpr" THEN "INT"      \* its operand is not looked at
        ELSE IF read # 0 THEN schema[read].type
        ELSE IF e.kind \in {"ColumnRef", "IntervalLiteral"} \/ IllTyped \in types THEN IllTyped
        ELSE
        CASE e.kind = "AggregateExpr" ->
               AggregateResultType(e.op, IF e.args = << >> THEN "INT" ELSE type[1])
          [] e.kind = "UnaryExpr"  -> if("STRING" \notin types, type[1])
          [] e.kind = "BinaryExpr" ->
               IF e.op \in ArithOps THEN if("STRING" \notin types, Promoted(types)) ELSE "INT"
          [] e.kind = "InExpr"     ->
               if(\A n \in DOMAIN e.payload.values :
                      (e.payload.values[n].type = "STRING") = (type[1] = "STRING"), "INT")
          [] e.kind = "LikeExpr"   -> if(types = {"STRING"}, "INT")
          [] e.kind = "CaseExpr"   ->
               LET conditions == {n \in DOMAIN e.args : n % 2 = 1 /\ n < Len(e.args)}
               IN  if(\A n \in conditions : type[n] = "INT",
                      Unified({type[n] : n \in DOMAIN e.args \ conditions}))
          [] e.kind = "SubstringExpr" ->
               if(/\ type[1] = "STRING" /\ \A n \in DOMAIN e.args \ {1} : type[n] = "INT"
                  /\ ~ tooSmall(2, 1) /\ ~ tooSmall(3, 0), "STRING")

InferWalk == INSTANCE TreeFold WITH Step <- InferNode
InferExprType(e, schema) == InferWalk!Fold(schema, e)
=============================================================================
