------------------------------- MODULE Grammar -------------------------------
(***************************************************************************)
(* The grammar of the dialect as the README of the repository states it    *)
(* (section Parser): what a list of tokens says, and the ways to write an  *)
(* expression down.  The parser is checked against it.                     *)
(*                                                                         *)
(* An expression as it is meant may hold one more kind of node: BETWEEN,   *)
(* which the parser writes out.                                            *)
(***************************************************************************)
EXTENDS Parser

BetweenExpr(e, lower, upper, op) == Node("BetweenExpr", op, <<e, lower, upper>>, Nothing)

(* The levels, from the loosest to the tightest.                           *)
Or             == 1
And            == 2
Comparison     == 3
Additive       == 4
Multiplicative == 5
Unary          == 6
Primary        == 7

BinaryLevel(op) ==
    CASE op = "OR" -> Or
      [] op = "AND" -> And
      [] op \in CompareOps -> Comparison
      [] op \in {"+", "-"} -> Additive
      [] op \in {"*", "/"} -> Multiplicative

Level(e) ==
    CASE e.kind = "BinaryExpr" -> BinaryLevel(e.op)
      [] e.kind = "UnaryExpr" -> Unary
      [] e.kind \in {"IsNullExpr", "LikeExpr", "InExpr", "BetweenExpr"} -> Comparison
      [] OTHER -> Primary

(* The levels of the two operands: a comparison does not associate.        *)
LeftLevel(op)  == IF op \in CompareOps THEN Additive ELSE BinaryLevel(op)
RightLevel(op) == IF op \in CompareOps THEN Additive ELSE BinaryLevel(op) + 1

SymbolToken(op) == Token(CHOOSE type \in DOMAIN Symbol : Symbol[type] = op)

(* The tokens of an operator that may be negated.                          *)
OpTokens(op) ==
    CASE op = "IS NULL"     -> <<Token("IS"), Token("NULL_KW")>>
      [] op = "IS NOT NULL" -> <<Token("IS"), Token("NOT"), Token("NULL_KW")>>
      [] op \in {"LIKE", "IN", "BETWEEN"} -> <<Token(op)>>
      [] op = "NOT LIKE"    -> <<Token("NOT"), Token("LIKE")>>
      [] op = "NOT IN"      -> <<Token("NOT"), Token("IN")>>
      [] op = "NOT BETWEEN" -> <<Token("NOT"), Token("BETWEEN")>>

LiteralToken(v) ==
    Lexeme(CASE v.type = "INT" -> "INT_LITERAL" [] v.type = "DOUBLE" -> "FLOAT_LITERAL"
             [] v.type = "STRING" -> "STRING_LITERAL", v)

Parenthesized(s)  == <<Token("LPAREN")>> \o s \o <<Token("RPAREN")>>
Separated(s, sep) == Join([n \in DOMAIN s |-> IF n = 1 THEN s[n] ELSE <<Token(sep)>> \o s[n]])

-----------------------------------------------------------------------------
(* The tokens of an expression by itself, from those of its parts: with    *)
(* parentheses where they are needed or around all that is not primary.    *)
WrittenNode(all, e, tokens) ==
    LET inside(n, level) ==
          IF Level(e.args[n]) < level \/ (all /\ Level(e.args[n]) < Primary)
          THEN Parenthesized(tokens[n]) ELSE tokens[n]
        every == [n \in DOMAIN e.args |-> inside(n, Or)]
    IN  CASE e.kind = "ColumnRef" ->
               IF e.payload.table_name = NoName THEN <<Identifier(e.payload.column_name)>>
               ELSE <<Identifier(e.payload.table_name), Token("DOT"), Identifier(e.payload.column_name)>>
          [] e.kind = "Literal" ->
               IF "date" \in DOMAIN e.payload THEN <<Token("DATE"), LiteralToken(e.payload)>>
               ELSE <<LiteralToken(e.payload)>>
          [] e.kind = "BinaryExpr" ->
               inside(1, LeftLevel(e.op)) \o <<SymbolToken(e.op)>> \o inside(2, RightLevel(e.op))
          [] e.kind = "UnaryExpr" -> <<Token("MINUS")>> \o inside(1, Unary)
          [] e.kind = "IsNullExpr" -> inside(1, Additive) \o OpTokens(e.op)
          [] e.kind = "LikeExpr" -> inside(1, Additive) \o OpTokens(e.op) \o <<LiteralToken(e.payload)>>
          [] e.kind = "InExpr" ->
               LET values == e.payload.values
               IN  inside(1, Additive) \o OpTokens(e.op)
                   \o Parenthesized(Separated([n \in DOMAIN values |-> <<LiteralToken(values[n])>>], "COMMA"))
          [] e.kind = "BetweenExpr" ->
               inside(1, Additive) \o OpTokens(e.op) \o inside(2, Additive) \o <<Token("AND")>> \o inside(3, Additive)
          [] e.kind = "AggregateExpr" ->
               <<Token(e.op)>> \o Parenthesized(IF e.args = << >> THEN <<Token("STAR")>> ELSE every[1])
          [] e.kind = "CaseExpr" ->
               LET n == Len(e.args)
               IN  <<Token("CASE")>>
                   \o Join([k \in 1 .. n \div 2 |-> <<Token("WHEN")>> \o every[2 * k - 1]
                                                    \o <<Token("THEN")>> \o every[2 * k]])
                   \o (IF n % 2 = 1 THEN <<Token("ELSE")>> \o every[n] ELSE << >>) \o <<Token("END")>>
          [] e.kind = "SubstringExpr" ->
               <<Token("SUBSTRING")>>
               \o Parenthesized(IF all THEN Separated(every, "COMMA")
                                ELSE every[1] \o <<Token("FROM")>> \o every[2]
                                     \o (IF Len(every) = 3 THEN <<Token("FOR")>> \o every[3] ELSE << >>))
          [] e.kind = "IntervalLiteral" ->
               <<Token("INTERVAL"), Lexeme("STRING_LITERAL", NumeralValue(e.payload.count)),
                 Identifier(e.payload.unit)>>

WrittenWalk == INSTANCE TreeFold WITH Step <- WrittenNode

(* The tokens of an expression where any may stand.                        *)
Written(e, all) ==
    LET tokens == WrittenWalk!Fold(all, e)
    IN  IF all /\ Level(e) < Primary THEN Parenthesized(tokens) ELSE tokens

Tabled(table) ==
    <<Identifier(table.table_name)>> \o (IF table.alias = NoName THEN << >> ELSE <<Identifier(table.alias)>>)

Selected(item, all) ==
    Written(item.expr, all)
    \o (IF item.alias = NoName THEN << >> ELSE <<Token("AS"), Identifier(item.alias)>>)

Ordered(item, all) == Written(item.expr, all) \o (IF item.desc THEN <<Token("DESC")>> ELSE << >>)

(* The tokens of a statement.                                              *)
StatementTokens(s, all) ==
    LET optional(keywords, e) == IF e = Nothing THEN << >> ELSE keywords \o Written(e, all)
        listed(keywords, items) == IF items = << >> THEN << >> ELSE keywords \o Separated(items, "COMMA")
        select == <<Token("SELECT")>> \o (IF s.distinct THEN <<Token("DISTINCT")>> ELSE << >>)
    IN  (IF s.select_star THEN Append(select, Token("STAR"))
         ELSE listed(select, [n \in DOMAIN s.select_list |-> Selected(s.select_list[n], all)]))
        \o <<Token("FROM")>> \o Tabled(s.from)
        \o (IF s.join = Nothing THEN << >>
            ELSE <<Token("JOIN")>> \o Tabled(s.join.table) \o <<Token("ON")>>
                 \o Written(s.join.condition, all))
        \o optional(<<Token("WHERE")>>, s.where)
        \o listed(<<Token("GROUP"), Token("BY")>>,
                  [n \in DOMAIN s.group_by |-> Written(s.group_by[n], all)])
        \o optional(<<Token("HAVING")>>, s.having)
        \o listed(<<Token("ORDER"), Token("BY")>>,
                  [n \in DOMAIN s.order_by |-> Ordered(s.order_by[n], all)])
        \o (IF s.limit = Nothing THEN << >>
            ELSE <<Token("LIMIT"), Lexeme("INT_LITERAL", IntValue(s.limit.count))>>)

-----------------------------------------------------------------------------
(* BETWEEN stands for two comparisons.                                     *)
DesugaredNode(ctx, e, args) ==
    LET both(op, lower, upper) == BinaryExpr(op, BinaryExpr(lower, args[1], args[2]),
                                                 BinaryExpr(upper, args[1], args[3]))
    IN  CASE e.kind # "BetweenExpr" -> WithArgs(e, args)
          [] e.op = "BETWEEN"       -> both("AND", ">=", "<=")
          [] e.op = "NOT BETWEEN"   -> both("OR", "<", ">")

DesugaredWalk == INSTANCE TreeFold WITH Step <- DesugaredNode
Desugared(e)  == DesugaredWalk!Fold(Nothing, e)

(* The other way, for a tree with no >= and <= but those of BETWEEN.       *)
SugaredNode(ctx, e, args) ==
    LET ops  == [n \in DOMAIN e.args |-> e.args[n].op]
        between(op) == BetweenExpr(args[1].args[1], args[1].args[2], args[2].args[2], op)
    IN  CASE e.kind = "BinaryExpr" /\ ops = <<">=", "<=">> -> between("BETWEEN")
          [] e.kind = "BinaryExpr" /\ ops = <<"<", ">">>   -> between("NOT BETWEEN")
          [] OTHER -> WithArgs(e, args)

SugaredWalk == INSTANCE TreeFold WITH Step <- SugaredNode
Sugared(e)  == SugaredWalk!Fold(Nothing, e)
=============================================================================
