------------------------------- MODULE Syntax -------------------------------
(***************************************************************************)
(* The syntax tree (ast.h) and the walks over it (expr_utils.h).           *)
(*                                                                         *)
(* A node is [kind, op, args, payload, height]: its subtype, its operator, *)
(* its children in the order in which every walk of the code visits them,  *)
(* and what else it holds.  CASE lists its conditions and results in turn  *)
(* and then, if there is one, the ELSE.  The height is no part of the code:*)
(* it is larger than those of the children, for the walks to go down by.   *)
(*                                                                         *)
(* A value is [type, num, den] for a number, the DOUBLEs being rationals,  *)
(* [type, word] for a text, a sequence of characters; [type, date] and     *)
(* [type, count] stand for a text that is a date and one that is a number. *)
(***************************************************************************)
EXTENDS Integers, Sequences, TLC

CONSTANT Width        \* bits of an INT (64 in the code)

ASSUME WidthAssumption == Width \in Nat \ {0, 1}

MinInt == - 2 ^ (Width - 1)
MaxInt == 2 ^ (Width - 1) - 1

Nothing == [nothing |-> TRUE]

IntValue(n)         == [type |-> "INT", num |-> n, den |-> 1]
DoubleValue(n, d)   == [type |-> "DOUBLE", num |-> n, den |-> d]
WordValue(letters)  == [type |-> "STRING", word |-> letters]
DateValue(date)     == [type |-> "STRING", date |-> date]
NumeralValue(n)     == [type |-> "STRING", count |-> n]

(* The least number above the heights of all children.                     *)
HeightAbove(args) ==
    CHOOSE h \in {0} \cup {args[n].height + 1 : n \in DOMAIN args} :
        \A n \in DOMAIN args : args[n].height < h

Node(kind, op, args, payload) ==
    [kind |-> kind, op |-> op, args |-> args, payload |-> payload, height |-> HeightAbove(args)]

(* A node with other children.                                             *)
WithArgs(e, args) == Node(e.kind, e.op, args, e.payload)

NoName == ""   \* an operator, a qualifier or an alias that is not there
NoSlot == -1
ColumnRef(table, column) ==
    Node("ColumnRef", NoName, << >>,
         [table_name |-> table, column_name |-> column, relation_slot |-> NoSlot])
Literal(value)            == Node("Literal", NoName, << >>, value)
BinaryExpr(op, l, r)      == Node("BinaryExpr", op, <<l, r>>, Nothing)
UnaryExpr(e)              == Node("UnaryExpr", "-", <<e>>, Nothing)
IsNullExpr(e, op)         == Node("IsNullExpr", op, <<e>>, Nothing)
AggregateExpr(f, args)    == Node("AggregateExpr", f, args, Nothing)
InExpr(e, values, op)     == Node("InExpr", op, <<e>>, [values |-> values])
LikeExpr(e, pattern, op)  == Node("LikeExpr", op, <<e>>, pattern)
CaseExpr(args)            == Node("CaseExpr", "CASE", args, Nothing)
SubstringExpr(args)       == Node("SubstringExpr", "SUBSTRING", args, Nothing)
IntervalLiteral(n, unit)  == Node("IntervalLiteral", "INTERVAL", << >>, [count |-> n, unit |-> unit])

ArithOps   == {"+", "-", "*", "/"}
CompareOps == {"=", "!=", "<", ">", "<=", ">="}

-----------------------------------------------------------------------------
(* Sequences one after the other, and texts, as far as two texts can be    *)
(* the same.                                                               *)

Joined(ctx, before, next) == before \o next

JoinFold == INSTANCE TreeFold WITH Step <- Joined
Join(sequences) == JoinFold!Sweep(Nothing, << >>, sequences)
Concat(texts)   == JoinFold!Sweep(Nothing, "", texts)

(* Value::toString: neither the type of a number nor the quotes of a text  *)
(* are printed, 1.0 is printed as 1.                                       *)
ToText(v) ==
    IF "word" \in DOMAIN v THEN Concat(v.word)
    ELSE IF "date" \in DOMAIN v THEN ToString(v.date)
    ELSE IF "count" \in DOMAIN v THEN ToString(v.count)
    ELSE IF v.den = 1 THEN ToString(v.num) ELSE ToString(v.num) \o "/" \o ToString(v.den)

LiteralKey(v) ==
    CASE v.type = "INT"    -> "i" \o ToText(v)
      [] v.type = "DOUBLE" -> "d" \o ToText(v)
      [] v.type = "STRING" -> "s'" \o ToText(v) \o "'"

(* Between the parts of CASE: WHEN before a condition, THEN before a       *)
(* result, ELSE before the part that has no partner.                       *)
CaseWord(n, len) ==
    IF n % 2 = 0 THEN " THEN " ELSE IF n = len THEN " ELSE " ELSE " WHEN "

(* A tree as text; with keys, literals carry their type and columns the    *)
(* slot of their relation instead of the qualifier that was typed.         *)
TextNode(keys, e, text) ==
    LET value(v) == IF keys THEN LiteralKey(v) ELSE ToText(v)
        listed(texts) == Concat([n \in DOMAIN texts |-> (IF n = 1 THEN "" ELSE ", ") \o texts[n]])
    IN  CASE e.kind = "ColumnRef" ->
               LET c == e.payload
               IN  IF keys /\ c.relation_slot # NoSlot
                   THEN ToString(c.relation_slot) \o "#" \o c.column_name
                   ELSE IF c.table_name = NoName THEN c.column_name
                   ELSE c.table_name \o "." \o c.column_name
          [] e.kind = "Literal"      -> value(e.payload)
          [] e.kind = "BinaryExpr"   -> "(" \o text[1] \o " " \o e.op \o " " \o text[2] \o ")"
          [] e.kind = "UnaryExpr"    -> "(" \o e.op \o text[1] \o ")"
          [] e.kind = "IsNullExpr"   -> text[1] \o " " \o e.op
          [] e.kind = "AggregateExpr" ->
               e.op \o "(" \o (IF e.args = << >> THEN "*" ELSE text[1]) \o ")"
          [] e.kind = "InExpr"       ->
               LET values == e.payload.values
               IN  text[1] \o " " \o e.op \o " (" \o listed([n \in DOMAIN values |-> value(values[n])]) \o ")"
          [] e.kind = "LikeExpr"     -> text[1] \o " " \o e.op \o " '" \o ToText(e.payload) \o "'"
          [] e.kind = "CaseExpr"     ->
               "CASE" \o Concat([n \in DOMAIN text |-> CaseWord(n, Len(text)) \o text[n]]) \o " END"
          [] e.kind = "SubstringExpr" -> "SUBSTRING(" \o listed(text) \o ")"
          [] e.kind = "IntervalLiteral" -> ToString(<<e.payload.count, e.payload.unit>>)

TextWalk == INSTANCE TreeFold WITH Step <- TextNode
Text(e, keys) == TextWalk!Fold(keys, e)

ExprToString(e)       == Text(e, FALSE)
ExprKey(e)            == Text(e, TRUE)
AggregateOutputName(e) == ExprToString(e)

-----------------------------------------------------------------------------
(* Walks.                                                                  *)

(* The elements that pass a test, in order.                                *)
Chosen(s, Test(_)) == Join([n \in DOMAIN s |-> IF Test(s[n]) THEN <<s[n]>> ELSE << >>])

(* The aggregates of an expression, from left to right; an aggregate ends  *)
(* the walk.  An absent expression has none.                               *)
AggregatesNode(ctx, e, aggregates) == IF e.kind = "AggregateExpr" THEN <<e>> ELSE Join(aggregates)

AggregatesWalk == INSTANCE TreeFold WITH Step <- AggregatesNode
CollectAggregates(e) == IF e = Nothing THEN << >> ELSE AggregatesWalk!Fold(Nothing, e)

(* The names of the columns it mentions.                                   *)
ColsNode(ctx, e, cols) ==
    IF e.kind = "ColumnRef" THEN {e.payload.column_name} ELSE UNION {cols[n] : n \in DOMAIN cols}

ColsWalk == INSTANCE TreeFold WITH Step <- ColsNode
CollectCols(e) == IF e = Nothing THEN {} ELSE ColsWalk!Fold(Nothing, e)

-----------------------------------------------------------------------------
(* What values and trees there are.                                        *)

IsSeq(s) == s \in Seq({s[n] : n \in DOMAIN s})

IsText(v) ==
    /\ v.type = "STRING"
    /\ \/ "word" \in DOMAIN v /\ IsSeq(v.word) /\ v = WordValue(v.word)
       \/ "date" \in DOMAIN v /\ v = DateValue(v.date)
       \/ "count" \in DOMAIN v /\ v = NumeralValue(v.count)

IsValue(v) ==
    \/ v.type = "INT" /\ v.num \in Int /\ v = IntValue(v.num)
    \/ v.type = "DOUBLE" /\ v = DoubleValue(v.num, v.den)
    \/ IsText(v)

(* The operators a kind of node has, and how many children.  BETWEEN is a  *)
(* node only of what is meant, see Grammar; Invalid only of what binding   *)
(* returns, see Planning.                                                  *)
Ops ==
    [ColumnRef |-> {NoName}, Literal |-> {NoName}, IntervalLiteral |-> {"INTERVAL"},
     BinaryExpr |-> ArithOps \cup CompareOps \cup {"AND", "OR"}, UnaryExpr |-> {"-"},
     IsNullExpr |-> {"IS NULL", "IS NOT NULL"}, LikeExpr |-> {"LIKE", "NOT LIKE"},
     InExpr |-> {"IN", "NOT IN"}, BetweenExpr |-> {"BETWEEN", "NOT BETWEEN"},
     AggregateExpr |-> {"COUNT", "SUM", "AVG", "MIN", "MAX"}, CaseExpr |-> {"CASE"},
     SubstringExpr |-> {"SUBSTRING"}, Invalid |-> {NoName}]
Arity ==
    [ColumnRef |-> {0}, Literal |-> {0}, IntervalLiteral |-> {0}, BinaryExpr |-> {2}, UnaryExpr |-> {1},
     IsNullExpr |-> {1}, LikeExpr |-> {1}, InExpr |-> {1}, BetweenExpr |-> {3},
     AggregateExpr |-> {0, 1}, CaseExpr |-> Nat \ {0, 1}, SubstringExpr |-> {2, 3}, Invalid |-> {0}]

ParsedKinds == DOMAIN Ops \ {"BetweenExpr", "Invalid"}
MeantKinds  == ParsedKinds \cup {"BetweenExpr"}
BoundKinds  == ParsedKinds \cup {"Invalid"}

IsPayload(kind, payload) ==
    CASE kind = "ColumnRef" ->
           /\ payload = [table_name |-> payload.table_name, column_name |-> payload.column_name,
                         relation_slot |-> payload.relation_slot]
           /\ payload.relation_slot \in {NoSlot, 0, 1}
      [] kind = "Literal"  -> IsValue(payload)
      [] kind = "LikeExpr" -> IsText(payload)
      [] kind = "InExpr"   ->
           /\ payload = [values |-> payload.values] /\ IsSeq(payload.values)
           /\ \A n \in DOMAIN payload.values : IsValue(payload.values[n])
      [] kind = "IntervalLiteral" -> payload \in [count : Int, unit : {"day", "month", "year"}]
      [] OTHER -> payload = Nothing

WellFormed(e, kinds) ==
    /\ e.kind \in kinds /\ e.op \in Ops[e.kind] /\ IsPayload(e.kind, e.payload)
    /\ IsSeq(e.args) /\ Len(e.args) \in Arity[e.kind]
    /\ \A n \in DOMAIN e.args : e.args[n].height \in Nat
    /\ e = Node(e.kind, e.op, e.args, e.payload)

(* An expression of nodes of these kinds.                                  *)
IsExpr(e, kinds) == e.height \in Nat /\ \A x \in TextWalk!Subtrees(e) : WellFormed(x, kinds)

(* The statement (SelectStatement), its tables and the items of its lists. *)
IsTable(table) == table = [table_name |-> table.table_name, alias |-> table.alias]

IsItem(item, kinds) ==
    item = [expr |-> item.expr, alias |-> item.alias] /\ IsExpr(item.expr, kinds)

IsKey(item, kinds) ==
    item = [expr |-> item.expr, desc |-> item.desc] /\ item.desc \in BOOLEAN /\ IsExpr(item.expr, kinds)

IsJoin(join, kinds) ==
    /\ join = [table |-> join.table, condition |-> join.condition]
    /\ IsTable(join.table) /\ IsExpr(join.condition, kinds)

IsLimit(limit) == limit.count \in Int /\ limit = [count |-> limit.count]

IsOptional(e, kinds) == e = Nothing \/ IsExpr(e, kinds)

IsStatement(s, kinds) ==
    /\ s = [distinct |-> s.distinct, select_star |-> s.select_star, select_list |-> s.select_list,
            from |-> s.from, join |-> s.join, where |-> s.where, group_by |-> s.group_by,
            having |-> s.having, order_by |-> s.order_by, limit |-> s.limit]
    /\ IsSeq(s.select_list) /\ \A n \in DOMAIN s.select_list : IsItem(s.select_list[n], kinds)
    /\ IsTable(s.from)
    /\ s.join = Nothing \/ IsJoin(s.join, kinds)
    /\ IsOptional(s.where, kinds) /\ IsOptional(s.having, kinds)
    /\ IsSeq(s.group_by) /\ \A n \in DOMAIN s.group_by : IsExpr(s.group_by[n], kinds)
    /\ IsSeq(s.order_by) /\ \A n \in DOMAIN s.order_by : IsKey(s.order_by[n], kinds)
    /\ s.limit = Nothing \/ IsLimit(s.limit)
=============================================================================
